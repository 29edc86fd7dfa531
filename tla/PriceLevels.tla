----------------------------- MODULE PriceLevels -----------------------------
(***************************************************************************)
(* One side of one instrument's book as the matching engine sees it through *)
(* the OrderBook interface (src/src/matching/order_book.h): a queue of      *)
(* resting orders per price tick.  An order is whatever the engine holds a  *)
(* pointer to; a level is the sequence of orders in arrival order.          *)
(*                                                                          *)
(* The operators are what the two strategies promise; BitmaskOrderBook and  *)
(* MapOrderBook are each checked to keep the promise, and MatchingEngine    *)
(* relies on nothing else.                                                  *)
(***************************************************************************)
EXTENDS Integers, Sequences

\* find_first and find_last answer -1 when no level holds an order.
NoLevel == -1

\* A book of the given ticks with no order in it.
EmptyLevels(ticks) == [t \in ticks |-> << >>]

\* The ticks at which at least one order rests.
NonEmptyTicks(levels) == {t \in DOMAIN levels : levels[t] # << >>}

\* Every order resting at some tick.
RestingOrders(levels) ==
    UNION {{levels[t][k] : k \in DOMAIN levels[t]} : t \in DOMAIN levels}

\* add_order_known_valid: an order joins the back of its level's queue.
AddOrder(levels, tick, o) == [levels EXCEPT ![tick] = Append(@, o)]

\* peek_order_known_valid: the oldest order of the level, or none.
PeekOrder(levels, tick, none) ==
    IF levels[tick] = << >> THEN none ELSE Head(levels[tick])

\* pop_order_known_valid: the oldest order leaves the level.
PopOrder(levels, tick) ==
    [levels EXCEPT ![tick] = IF @ = << >> THEN @ ELSE Tail(@)]

\* find_first: the lowest price tick with an order.
FindFirst(levels) ==
    IF NonEmptyTicks(levels) = {} THEN NoLevel
    ELSE CHOOSE t \in NonEmptyTicks(levels) :
            \A u \in NonEmptyTicks(levels) : t <= u

\* find_last: the highest price tick with an order.
FindLast(levels) ==
    IF NonEmptyTicks(levels) = {} THEN NoLevel
    ELSE CHOOSE t \in NonEmptyTicks(levels) :
            \A u \in NonEmptyTicks(levels) : u <= t

\* What the caller of a method of the interface gets back from it.
Returns(method, arguments, value) ==
    [method |-> method, arguments |-> arguments, value |-> value]
=============================================================================
