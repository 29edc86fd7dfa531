------------------------- MODULE PriceLevels_proofs -------------------------
(***************************************************************************)
(* Facts about the operators of PriceLevels, for any number of ticks and    *)
(* any set of orders.                                                       *)
(***************************************************************************)
EXTENDS PriceLevels, FiniteSetTheorems, SequenceTheorems, TLAPS

-----------------------------------------------------------------------------
(* Least and greatest elements.  The library states the least-number        *)
(* principle for an operator; here it is for a set, from the well-founded   *)
(* order of finite sets by inclusion.                                       *)

\* Every non-empty bounded set of naturals has a least element: of the sets
\* of elements below some element, a minimal one is empty.
LEMMA LeastExists ==
    ASSUME NEW m \in Nat, NEW S \in SUBSET (0 .. m), S # {}
    PROVE  \E x \in S : \A y \in S : x <= y
<1> DEFINE Below(a) == {b \in S : b < a}
           R == StrictSubsetOrdering(S)
           T == {Below(a) : a \in S}
<1>0. \A x \in S : x \in Nat
    OBVIOUS
<1>1. IsFiniteSet(S)
  <2>1. 0 \in Int /\ m \in Int
      OBVIOUS
  <2>2. IsFiniteSet(0 .. m)
      BY ONLY <2>1, FS_Interval
  <2> QED BY ONLY <2>2, FS_Subset, S \in SUBSET (0 .. m)
<1>2. IsWellFoundedOn(R, FiniteSubsetsOf(S))
    BY FS_StrictSubsetOrderingWellFounded
<1>3. T \subseteq FiniteSubsetsOf(S) /\ T # {}
  <2>1. ASSUME NEW a \in S
        PROVE  Below(a) \in FiniteSubsetsOf(S)
    <3>1. Below(a) \in SUBSET S
        OBVIOUS
    <3> HIDE DEF Below
    <3>2. IsFiniteSet(Below(a))
        BY <1>1, <3>1, FS_Subset
    <3> QED BY <3>1, <3>2 DEF FiniteSubsetsOf
  <2> HIDE DEF Below
  <2> QED BY <2>1
<1>4. PICK B \in T : \A C \in T : <<C, B>> \notin R
  <2> HIDE DEF R, T
  <2> QED BY <1>2, <1>3, WFMin
<1>5. PICK a \in S : B = Below(a)
    OBVIOUS
<1>6. ASSUME NEW b \in S, b < a
      PROVE  FALSE
  <2>1. Below(b) \in T
      OBVIOUS
  <2>4. Below(b) \subseteq Below(a)
    <3>1. \A c \in S : c < b => c < a
        BY <1>0, <1>6
    <3> QED BY <3>1
  <2>2. Below(b) # Below(a)
      BY <1>6
  <2>3. <<Below(b), B>> \in R
    <3>1. Below(b) \in SUBSET S /\ Below(a) \in SUBSET S
        OBVIOUS
    <3> HIDE DEF Below
    <3> QED BY <1>5, <2>4, <2>2, <3>1 DEF StrictSubsetOrdering
  <2> QED BY <1>4, <2>1, <2>3
<1> QED BY <1>6

\* Likewise for the greatest element, with the order turned round.
LEMMA GreatestExists ==
    ASSUME NEW m \in Nat, NEW S \in SUBSET (0 .. m), S # {}
    PROVE  \E x \in S : \A y \in S : y <= x
<1> DEFINE T == {m - x : x \in S}
<1>1. T \in SUBSET (0 .. m) /\ T # {}
  <2>1. \A x \in S : x \in Nat /\ m - x \in 0 .. m
      OBVIOUS
  <2> QED BY <2>1
<1>2. PICK z \in T : \A y \in T : z <= y
    BY <1>1, LeastExists
<1>3. PICK x \in S : z = m - x
    OBVIOUS
<1>4. \A y \in S : m - x <= m - y
    BY <1>2, <1>3
<1> QED BY <1>3, <1>4

-----------------------------------------------------------------------------
(* The best levels.                                                         *)

\* find_first answers the lowest occupied tick, and NoLevel when there is none.
LEMMA FindFirstProperties ==
    ASSUME NEW n \in Nat \ {0}, NEW Q, NEW levels \in [0 .. n - 1 -> Q]
    PROVE  /\ NonEmptyTicks(levels) \subseteq 0 .. n - 1
           /\ FindFirst(levels) = NoLevel <=> NonEmptyTicks(levels) = {}
           /\ NonEmptyTicks(levels) # {} =>
                /\ FindFirst(levels) \in NonEmptyTicks(levels)
                /\ \A u \in NonEmptyTicks(levels) : FindFirst(levels) <= u
<1> DEFINE S == NonEmptyTicks(levels)
<1>1. S \in SUBSET (0 .. n - 1)
    BY DEF NonEmptyTicks
<1>2. CASE S = {}
    BY <1>2 DEF FindFirst, NoLevel
<1>3. CASE S # {}
  <2>1. n - 1 \in Nat
      OBVIOUS
  <2>2. \E x \in S : \A y \in S : x <= y
    <3> HIDE DEF S
    <3> QED BY <1>1, <1>3, <2>1, LeastExists
  <2>3. FindFirst(levels) = CHOOSE x \in S : \A y \in S : x <= y
      BY <1>3 DEF FindFirst
  <2>4. FindFirst(levels) \in S /\ \A y \in S : FindFirst(levels) <= y
      BY <2>2, <2>3
  <2>5. FindFirst(levels) # NoLevel
      BY <1>1, <2>4 DEF NoLevel
  <2> QED BY <1>1, <1>3, <2>4, <2>5
<1> QED BY <1>2, <1>3, <1>1

\* find_last answers the highest occupied tick, and NoLevel when there is none.
LEMMA FindLastProperties ==
    ASSUME NEW n \in Nat \ {0}, NEW Q, NEW levels \in [0 .. n - 1 -> Q]
    PROVE  /\ NonEmptyTicks(levels) \subseteq 0 .. n - 1
           /\ FindLast(levels) = NoLevel <=> NonEmptyTicks(levels) = {}
           /\ NonEmptyTicks(levels) # {} =>
                /\ FindLast(levels) \in NonEmptyTicks(levels)
                /\ \A u \in NonEmptyTicks(levels) : u <= FindLast(levels)
<1> DEFINE S == NonEmptyTicks(levels)
<1>1. S \in SUBSET (0 .. n - 1)
    BY DEF NonEmptyTicks
<1>2. CASE S = {}
    BY <1>2 DEF FindLast, NoLevel
<1>3. CASE S # {}
  <2>1. n - 1 \in Nat
      OBVIOUS
  <2>2. \E x \in S : \A y \in S : y <= x
    <3> HIDE DEF S
    <3> QED BY <1>1, <1>3, <2>1, GreatestExists
  <2>3. FindLast(levels) = CHOOSE x \in S : \A y \in S : y <= x
      BY <1>3 DEF FindLast
  <2>4. FindLast(levels) \in S /\ \A y \in S : y <= FindLast(levels)
      BY <2>2, <2>3
  <2>5. FindLast(levels) # NoLevel
      BY <1>1, <2>4 DEF NoLevel
  <2> QED BY <1>1, <1>3, <2>4, <2>5
<1> QED BY <1>2, <1>3, <1>1

\* An occupied tick with none below it is the first, one with none above it
\* the last.
LEMMA BestLevelUnique ==
    ASSUME NEW n \in Nat \ {0}, NEW Q, NEW levels \in [0 .. n - 1 -> Q],
           NEW t \in NonEmptyTicks(levels)
    PROVE  /\ (\A u \in NonEmptyTicks(levels) : t <= u) => FindFirst(levels) = t
           /\ (\A u \in NonEmptyTicks(levels) : u <= t) => FindLast(levels) = t
<1>1. /\ FindFirst(levels) \in NonEmptyTicks(levels)
      /\ \A u \in NonEmptyTicks(levels) : FindFirst(levels) <= u
    BY FindFirstProperties
<1>2. /\ FindLast(levels) \in NonEmptyTicks(levels)
      /\ \A u \in NonEmptyTicks(levels) : u <= FindLast(levels)
    BY FindLastProperties
<1>3. \A u \in NonEmptyTicks(levels) : u \in Int
    BY DEF NonEmptyTicks
<1> QED BY <1>1, <1>2, <1>3

-----------------------------------------------------------------------------
(* Adding and removing orders.                                              *)

\* Adding an order makes its level one longer and leaves the others alone.
LEMMA AddOrderProperties ==
    ASSUME NEW T, NEW S, NEW levels \in [T -> Seq(S)], NEW t \in T, NEW o \in S
    PROVE  LET new == AddOrder(levels, t, o)
               n   == Len(levels[t]) + 1
           IN /\ new \in [T -> Seq(S)]
              /\ \A u \in T \ {t} : new[u] = levels[u]
              /\ Len(new[t]) = n
              /\ new[t][n] = o
              /\ \A k \in 1 .. n - 1 : new[t][k] = levels[t][k]
<1> USE DEF AddOrder
<1>1. levels[t] \in Seq(S)
    OBVIOUS
<1>2. /\ Append(levels[t], o) \in Seq(S)
      /\ Len(Append(levels[t], o)) = Len(levels[t]) + 1
      /\ \A i \in 1 .. Len(levels[t]) : Append(levels[t], o)[i] = levels[t][i]
      /\ Append(levels[t], o)[Len(levels[t]) + 1] = o
    BY <1>1, AppendProperties
<1>3. Len(levels[t]) \in Nat
    BY <1>1, LenProperties
<1> QED BY <1>2, <1>3

\* Removing the oldest order of an occupied level moves the others up.
LEMMA PopOrderProperties ==
    ASSUME NEW T, NEW S, NEW levels \in [T -> Seq(S)], NEW t \in T,
           levels[t] # << >>
    PROVE  LET new == PopOrder(levels, t)
               n   == Len(levels[t]) - 1
           IN /\ new \in [T -> Seq(S)]
              /\ \A u \in T \ {t} : new[u] = levels[u]
              /\ Len(new[t]) = n
              /\ \A k \in 1 .. n : new[t][k] = levels[t][k + 1]
<1> USE DEF PopOrder
<1>1. levels[t] \in Seq(S)
    OBVIOUS
<1>2. /\ Tail(levels[t]) \in Seq(S)
      /\ Len(Tail(levels[t])) = Len(levels[t]) - 1
      /\ \A i \in 1 .. Len(Tail(levels[t])) : Tail(levels[t])[i] = levels[t][i + 1]
    BY <1>1, HeadTailProperties
<1> QED BY <1>2

\* The oldest order of an occupied level is the first of its queue.
LEMMA PeekOrderProperties ==
    ASSUME NEW T, NEW S, NEW levels \in [T -> Seq(S)], NEW t \in T, NEW none
    PROVE  /\ levels[t] = << >> => PeekOrder(levels, t, none) = none
           /\ levels[t] # << >> =>
                /\ Len(levels[t]) \in Nat \ {0}
                /\ PeekOrder(levels, t, none) = levels[t][1]
                /\ levels[t][1] \in S
<1>1. levels[t] \in Seq(S)
    OBVIOUS
<1>2. levels[t] # << >> => Len(levels[t]) \in Nat \ {0}
    BY <1>1, EmptySeq
<1>3. levels[t] # << >> => levels[t][1] \in S
    BY <1>1, <1>2, ElementOfSeq
<1> QED BY <1>2, <1>3 DEF PeekOrder

\* An order rests when it is at some position of some level.
LEMMA RestingOrdersProperties ==
    ASSUME NEW T, NEW S, NEW levels \in [T -> Seq(S)], NEW o
    PROVE  o \in RestingOrders(levels) <=>
                \E t \in T : \E k \in 1 .. Len(levels[t]) : levels[t][k] = o
<1>1. \A t \in T : DOMAIN levels[t] = 1 .. Len(levels[t])
    BY LenProperties
<1> QED BY <1>1 DEF RestingOrders
=============================================================================
