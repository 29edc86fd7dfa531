-------------------------- MODULE BitmaskOrderBook --------------------------
(***************************************************************************)
(* The dense strategy, src/src/matching/bitmask_order_book.cpp: an array of *)
(* list heads and one of list tails indexed by tick, the lists threaded     *)
(* through Order::next, a bitmask of the occupied ticks, and the lowest and *)
(* highest occupied tick cached.                                            *)
(*                                                                          *)
(* A mask word is the set of its one bits, so ctz is the least element and  *)
(* 63 - clz the greatest.  BitsPerWord is 64 in the code.                   *)
(*                                                                          *)
(* `levels' is a history variable: the abstract book that results from the  *)
(* same calls.  No operation reads it, except that the caller (the engine)  *)
(* adds no order that already rests.                                        *)
(***************************************************************************)
EXTENDS Integers, Sequences, PriceLevels

CONSTANTS MaxTicks, BitsPerWord, Orders, NULL

ASSUME BitmaskAssumption ==
    /\ MaxTicks \in Nat \ {0}
    /\ BitsPerWord \in Nat \ {0}
    /\ NULL \notin Orders

VARIABLES
    price_levels_,      \* tick -> head of the level's list, or NULL
    price_level_tails_, \* tick -> tail of the level's list, or NULL
    mask_,              \* word -> its one bits
    best_first_,        \* cached lowest occupied tick, or -1
    best_last_,         \* cached highest occupied tick, or -1
    next,               \* Order::next of every order
    reply,              \* the last call and what it returned
    levels              \* history: the abstract book

state == <<price_levels_, price_level_tails_, mask_, best_first_, best_last_,
           next>>
vars == <<state, reply, levels>>

Ticks == 0 .. MaxTicks - 1
Bits  == 0 .. BitsPerWord - 1
WordCount == (MaxTicks + BitsPerWord - 1) \div BitsPerWord
Words == 0 .. WordCount - 1

Word(tick) == tick \div BitsPerWord
Bit(tick) == tick % BitsPerWord

Least(S) == CHOOSE x \in S : \A y \in S : x <= y
Greatest(S) == CHOOSE x \in S : \A y \in S : y <= x

Init ==
    /\ price_levels_ = [t \in Ticks |-> NULL]
    /\ price_level_tails_ = [t \in Ticks |-> NULL]
    /\ mask_ = [w \in Words |-> {}]
    /\ best_first_ = -1
    /\ best_last_ = -1
    /\ next = [o \in Orders |-> NULL]
    /\ reply = Returns("none", << >>, NULL)
    /\ levels = EmptyLevels(Ticks)

-----------------------------------------------------------------------------
(* The two scans of the mask.                                               *)

\* MUTANT: answers one past the last tick instead of -1.
find_next_from_PastTheEnd(mask, tick) ==
    LET above == {b \in mask[Word(tick)] : b > Bit(tick)}
        later == {w \in Words : w > Word(tick) /\ mask[w] # {}}
    IN IF above # {} THEN Word(tick) * BitsPerWord + Least(above)
       ELSE IF later # {}
            THEN Least(later) * BitsPerWord + Least(mask[Least(later)])
            ELSE MaxTicks

\* The occupied tick strictly above `tick', nearest first: the bits above it
\* in its own word, then the first later word with a bit.
find_next_from(mask, tick) ==
    LET above == {b \in mask[Word(tick)] : b > Bit(tick)}
        later == {w \in Words : w > Word(tick) /\ mask[w] # {}}
    IN IF above # {} THEN Word(tick) * BitsPerWord + Least(above)
       ELSE IF later # {}
            THEN Least(later) * BitsPerWord + Least(mask[Least(later)])
            ELSE -1

\* MUTANT: looks at no word but the tick's own.
find_prev_from_OneWord(mask, tick) ==
    LET below == {b \in mask[Word(tick)] : b < Bit(tick)}
    IN IF below # {} THEN Word(tick) * BitsPerWord + Greatest(below) ELSE -1

\* The occupied tick strictly below `tick', nearest first.
find_prev_from(mask, tick) ==
    LET below   == {b \in mask[Word(tick)] : b < Bit(tick)}
        earlier == {w \in Words : w < Word(tick) /\ mask[w] # {}}
    IN IF below # {} THEN Word(tick) * BitsPerWord + Greatest(below)
       ELSE IF earlier # {}
            THEN Greatest(earlier) * BitsPerWord
                    + Greatest(mask[Greatest(earlier)])
            ELSE -1

-----------------------------------------------------------------------------
(* The operations.                                                          *)

\* The level is empty: the order becomes its head and tail, the bit is set
\* and the cached bests are widened.
AddToEmptyLevel(tick, order) ==
    /\ price_levels_[tick] = NULL
    /\ price_levels_' = [price_levels_ EXCEPT ![tick] = order]
    /\ price_level_tails_' = [price_level_tails_ EXCEPT ![tick] = order]
    /\ next' = [next EXCEPT ![order] = NULL]
    /\ mask_' = [mask_ EXCEPT ![Word(tick)] = @ \cup {Bit(tick)}]
    /\ best_first_' = IF best_first_ < 0 \/ tick < best_first_
                      THEN tick ELSE best_first_
    /\ best_last_' = IF best_last_ < 0 \/ tick > best_last_
                     THEN tick ELSE best_last_

\* MUTANT: the old tail is not linked to the new one.
AddBehindTail_Unlinked(tick, order) ==
    /\ price_levels_[tick] # NULL
    /\ next' = [next EXCEPT ![order] = NULL]
    /\ price_level_tails_' = [price_level_tails_ EXCEPT ![tick] = order]
    /\ UNCHANGED <<price_levels_, mask_, best_first_, best_last_>>

\* The level is occupied: the order is linked behind its tail.
AddBehindTail(tick, order) ==
    /\ price_levels_[tick] # NULL
    /\ next' = [next EXCEPT ![order] = NULL,
                            ![price_level_tails_[tick]] = order]
    /\ price_level_tails_' = [price_level_tails_ EXCEPT ![tick] = order]
    /\ UNCHANGED <<price_levels_, mask_, best_first_, best_last_>>

add_order_known_valid(tick, order) ==
    /\ order \notin RestingOrders(levels)
    /\ reply' = Returns("add", << >>, NULL)
    /\ \/ order = NULL /\ UNCHANGED <<state, levels>>
       \/ /\ order # NULL
          /\ AddToEmptyLevel(tick, order) \/ AddBehindTail(tick, order)
          /\ levels' = AddOrder(levels, tick, order)

peek_order_known_valid(tick) ==
    /\ reply' = Returns("peek", <<tick>>, price_levels_[tick])
    /\ UNCHANGED <<state, levels>>

\* MUTANT: the cached lowest tick is searched again, the highest is not.
PopHead_StaleLast(tick, head) ==
    LET rest == next[head]
        mask == [mask_ EXCEPT ![Word(tick)] = @ \ {Bit(tick)}]
    IN /\ price_levels_' = [price_levels_ EXCEPT ![tick] = rest]
       /\ next' = [next EXCEPT ![head] = NULL]
       /\ \/ /\ rest # NULL
             /\ UNCHANGED <<price_level_tails_, mask_, best_first_, best_last_>>
          \/ /\ rest = NULL
             /\ price_level_tails_' = [price_level_tails_ EXCEPT ![tick] = NULL]
             /\ mask_' = mask
             /\ best_first_' = IF best_first_ = tick
                               THEN find_next_from(mask, tick) ELSE best_first_
             /\ UNCHANGED best_last_

\* The head leaves with its link cleared.  When it was the last of its level
\* the bit is cleared and a cached best that pointed here is searched anew.
PopHead(tick, head) ==
    LET rest == next[head]
        mask == [mask_ EXCEPT ![Word(tick)] = @ \ {Bit(tick)}]
    IN /\ price_levels_' = [price_levels_ EXCEPT ![tick] = rest]
       /\ next' = [next EXCEPT ![head] = NULL]
       /\ \/ /\ rest # NULL
             /\ UNCHANGED <<price_level_tails_, mask_, best_first_, best_last_>>
          \/ /\ rest = NULL
             /\ price_level_tails_' = [price_level_tails_ EXCEPT ![tick] = NULL]
             /\ mask_' = mask
             /\ best_first_' = IF best_first_ = tick
                               THEN find_next_from(mask, tick) ELSE best_first_
             /\ best_last_' = IF best_last_ = tick
                              THEN find_prev_from(mask, tick) ELSE best_last_

pop_order_known_valid(tick) ==
    /\ reply' = Returns("pop", <<tick>>, price_levels_[tick])
    /\ levels' = PopOrder(levels, tick)
    /\ \/ price_levels_[tick] = NULL /\ UNCHANGED state
       \/ price_levels_[tick] # NULL /\ PopHead(tick, price_levels_[tick])

find_first ==
    /\ reply' = Returns("find_first", << >>, best_first_)
    /\ UNCHANGED <<state, levels>>

find_last ==
    /\ reply' = Returns("find_last", << >>, best_last_)
    /\ UNCHANGED <<state, levels>>

Next ==
    \/ \E tick \in Ticks :
        \/ \E order \in Orders \cup {NULL} : add_order_known_valid(tick, order)
        \/ peek_order_known_valid(tick)
        \/ pop_order_known_valid(tick)
    \/ find_first
    \/ find_last

Spec == Init /\ [][Next]_vars

-----------------------------------------------------------------------------
(* Properties.                                                              *)

\* The types.  A cached best is -1 or a tick of the book, never an index past
\* the arrays (bitmask_order_book.cpp:72-132).
TypeOK ==
    /\ price_levels_ \in [Ticks -> Orders \cup {NULL}]
    /\ price_level_tails_ \in [Ticks -> Orders \cup {NULL}]
    /\ mask_ \in [Words -> SUBSET Bits]
    /\ best_first_ \in Ticks \cup {-1}
    /\ best_last_ \in Ticks \cup {-1}
    /\ next \in [Orders -> Orders \cup {NULL}]
    /\ levels \in [Ticks -> Seq(Orders)]

\* Following the links from a level's head visits exactly the level's orders
\* in arrival order and stops at its tail; a popped order keeps no link into
\* the book (bitmask_order_book.cpp:16-35, 48-54).
ListsWellFormed ==
    /\ \A t \in Ticks :
        LET q == levels[t] IN
        IF q = << >>
        THEN price_levels_[t] = NULL /\ price_level_tails_[t] = NULL
        ELSE /\ price_levels_[t] = q[1]
             /\ price_level_tails_[t] = q[Len(q)]
             /\ next[q[Len(q)]] = NULL
             /\ \A k \in 1 .. Len(q) - 1 : next[q[k]] = q[k + 1]
    /\ \A o \in Orders \ RestingOrders(levels) : next[o] = NULL

\* The mask has exactly one bit per occupied tick, and the cached bests are
\* the lowest and the highest of them.  The engine's loop leans on this: a
\* best level without an order would make it retry for ever
\* (matching_engine.h:54-57).
IndexMatchesLevels ==
    /\ \A t \in Ticks : Bit(t) \in mask_[Word(t)] <=> levels[t] # << >>
    /\ \A w \in Words : \A b \in mask_[w] : w * BitsPerWord + b \in Ticks
    /\ best_first_ = FindFirst(levels)
    /\ best_last_ = FindLast(levels)

\* The abstract book whose state is the history variable `levels'.
Abstract == INSTANCE OrderBook

\* Every call returns what the abstract order book would return.
ImplementsOrderBook == Abstract!Spec
=============================================================================
