--------------------------- MODULE BookStrategies ---------------------------
(***************************************************************************)
(* The two strategies behind one interface, as the engine may choose        *)
(* between them (src/src/matching/order_book.h:9-18): every call is made on *)
(* a bitmask book and on a map book, and both start empty.  The abstract    *)
(* book `levels' that the calls result in is one history for both.          *)
(***************************************************************************)
EXTENDS BitmaskOrderBook

VARIABLES
    map_levels,  \* MapOrderBook::price_levels_
    map_reply    \* what the map book answered

Map == INSTANCE MapOrderBook WITH
            price_levels_ <- map_levels, reply <- map_reply

bothVars == <<vars, map_levels, map_reply>>

BothInit == Init /\ Map!Init

BothNext ==
    \/ \E tick \in Ticks :
        \/ \E order \in Orders \cup {NULL} :
            /\ add_order_known_valid(tick, order)
            /\ Map!add_order_known_valid(tick, order)
        \/ peek_order_known_valid(tick) /\ Map!peek_order_known_valid(tick)
        \/ pop_order_known_valid(tick) /\ Map!pop_order_known_valid(tick)
    \/ find_first /\ Map!find_first
    \/ find_last /\ Map!find_last

BothSpec == BothInit /\ [][BothNext]_bothVars

-----------------------------------------------------------------------------
(* Properties.                                                              *)

\* The map keeps exactly the occupied levels, see MapOrderBook.
MapHoldsOccupiedLevels == Map!MapHoldsOccupiedLevels

\* The strategies are interchangeable: the same calls get the same answers,
\* so an engine reports the same whichever it is given
\* (map_order_book.cpp:7-51 against bitmask_order_book.cpp:11-70).
SameAnswers == reply = map_reply
=============================================================================
