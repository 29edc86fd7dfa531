---------------------------- MODULE MapOrderBook ----------------------------
(***************************************************************************)
(* The sparse strategy, src/src/matching/map_order_book.cpp: an ordered map *)
(* from the occupied ticks to FIFO queues, a level being erased with its    *)
(* last order.  The map is a function on the set of its keys.               *)
(*                                                                          *)
(* Order::next is left out: the strategy follows no link, and writes only   *)
(* the null an order already has when it is made (types.h:75-109).          *)
(*                                                                          *)
(* `levels' is a history variable: the abstract book that results from the  *)
(* same calls, read only for the caller's rule that an order is added while *)
(* it rests nowhere.  BookStrategies runs the strategy beside the other.    *)
(***************************************************************************)
EXTENDS Integers, Sequences, PriceLevels

CONSTANTS MaxTicks, Orders, NULL   \* as in BitmaskOrderBook

VARIABLES
    price_levels_,  \* occupied tick -> its queue
    reply,          \* the last call and what it returned
    levels          \* history: the abstract book

vars == <<price_levels_, reply, levels>>

Ticks == 0 .. MaxTicks - 1
Keys == DOMAIN price_levels_

Init ==
    /\ price_levels_ = [t \in {} |-> << >>]
    /\ reply = Returns("none", << >>, NULL)
    /\ levels = EmptyLevels(Ticks)

\* operator[] makes the level when the tick has none.
PushBack(tick, order) ==
    [t \in Keys \cup {tick} |->
        IF t # tick THEN price_levels_[t]
        ELSE IF t \in Keys THEN Append(price_levels_[t], order) ELSE <<order>>]

add_order_known_valid(tick, order) ==
    /\ order \notin RestingOrders(levels)
    /\ reply' = Returns("add", << >>, NULL)
    /\ \/ order = NULL /\ UNCHANGED <<price_levels_, levels>>
       \/ /\ order # NULL
          /\ price_levels_' = PushBack(tick, order)
          /\ levels' = AddOrder(levels, tick, order)

\* The front of the tick's queue, null when the map has no such level.
Front(tick) ==
    IF tick \in Keys /\ price_levels_[tick] # << >>
    THEN Head(price_levels_[tick]) ELSE NULL

peek_order_known_valid(tick) ==
    /\ reply' = Returns("peek", <<tick>>, Front(tick))
    /\ UNCHANGED <<price_levels_, levels>>

\* MUTANT: the emptied level stays in the map.
PopFront_KeepsLevel(tick) == [price_levels_ EXCEPT ![tick] = Tail(@)]

\* The map without the front order, and without the level if it was the last.
PopFront(tick) ==
    IF Len(price_levels_[tick]) = 1
    THEN [t \in Keys \ {tick} |-> price_levels_[t]]
    ELSE [price_levels_ EXCEPT ![tick] = Tail(@)]

pop_order_known_valid(tick) ==
    /\ reply' = Returns("pop", <<tick>>, Front(tick))
    /\ levels' = PopOrder(levels, tick)
    /\ \/ Front(tick) = NULL /\ UNCHANGED price_levels_
       \/ Front(tick) # NULL /\ price_levels_' = PopFront(tick)

\* begin() and rbegin() of the ordered map.
FirstKey ==
    IF Keys = {} THEN -1 ELSE CHOOSE t \in Keys : \A u \in Keys : t <= u

\* MUTANT: begin() where rbegin() is meant.
LastKey_Begin == FirstKey

LastKey ==
    IF Keys = {} THEN -1 ELSE CHOOSE t \in Keys : \A u \in Keys : u <= t

find_first ==
    /\ reply' = Returns("find_first", << >>, FirstKey)
    /\ UNCHANGED <<price_levels_, levels>>

find_last ==
    /\ reply' = Returns("find_last", << >>, LastKey)
    /\ UNCHANGED <<price_levels_, levels>>

Next ==
    \/ \E tick \in Ticks :
        \/ \E order \in Orders \cup {NULL} : add_order_known_valid(tick, order)
        \/ peek_order_known_valid(tick)
        \/ pop_order_known_valid(tick)
    \/ find_first
    \/ find_last

Spec == Init /\ [][Next]_vars

-----------------------------------------------------------------------------
(* Properties.                                                              *)

\* The map holds the non-empty levels and nothing else, so begin() and
\* rbegin() are the best levels: an empty level left behind would be offered
\* to the engine as a price, and the engine would ask for it again for ever
\* (map_order_book.cpp:33-35, matching_engine.h:54-57).
MapHoldsOccupiedLevels ==
    /\ Keys = NonEmptyTicks(levels)
    /\ \A t \in Keys : price_levels_[t] = levels[t]
=============================================================================
