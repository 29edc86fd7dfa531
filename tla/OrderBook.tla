------------------------------ MODULE OrderBook ------------------------------
(***************************************************************************)
(* The abstract order book: what a caller of the OrderBook interface        *)
(* (src/src/matching/order_book.h) may rely on, whichever strategy is       *)
(* behind it.  Every call is one step, and its result is `reply'.           *)
(*                                                                          *)
(* The caller is the matching engine: it adds an order only while the order *)
(* rests nowhere, and only at ticks of the book ("known valid").            *)
(***************************************************************************)
EXTENDS Integers, Sequences, PriceLevels

CONSTANTS
    MaxTicks,   \* number of price levels of the book
    Orders,     \* the orders a caller can hold a pointer to
    NULL        \* the null pointer

VARIABLES
    levels,     \* the orders resting at each tick, oldest first
    reply       \* the last call and the value it returned

Ticks == 0 .. MaxTicks - 1

Init ==
    /\ levels = EmptyLevels(Ticks)
    /\ reply = Returns("none", << >>, NULL)

\* An order joins its level; adding no order changes nothing.
Add(t, o) ==
    /\ o \notin RestingOrders(levels)
    /\ levels' = IF o = NULL THEN levels ELSE AddOrder(levels, t, o)
    /\ reply' = Returns("add", << >>, NULL)

Peek(t) ==
    /\ reply' = Returns("peek", <<t>>, PeekOrder(levels, t, NULL))
    /\ UNCHANGED levels

Pop(t) ==
    /\ reply' = Returns("pop", <<t>>, PeekOrder(levels, t, NULL))
    /\ levels' = PopOrder(levels, t)

First ==
    /\ reply' = Returns("find_first", << >>, FindFirst(levels))
    /\ UNCHANGED levels

Last ==
    /\ reply' = Returns("find_last", << >>, FindLast(levels))
    /\ UNCHANGED levels

Next ==
    \/ \E t \in Ticks :
        \/ \E o \in Orders \cup {NULL} : Add(t, o)
        \/ Peek(t)
        \/ Pop(t)
    \/ First
    \/ Last

Spec == Init /\ [][Next]_<<levels, reply>>
=============================================================================
