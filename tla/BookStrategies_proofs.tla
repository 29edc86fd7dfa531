------------------------ MODULE BookStrategies_proofs ------------------------
(***************************************************************************)
(* The bitmask book and the map book each implement the abstract order      *)
(* book, for any number of ticks, any width of a mask word and any set of   *)
(* orders, and therefore give the same answers.                             *)
(***************************************************************************)
EXTENDS BookStrategies, PriceLevels_proofs

-----------------------------------------------------------------------------
(* Ticks, words and bits.                                                   *)

\* Of two multiples of the word width, that of the larger number is larger by
\* a whole word at least.
LEMMA NextWord ==
    ASSUME NEW v \in Nat, NEW w \in Nat, v < w
    PROVE  v * BitsPerWord + BitsPerWord <= w * BitsPerWord
<1>1. BitsPerWord \in Nat \ {0}
    BY BitmaskAssumption
<1>2. PICK d \in Nat : w = v + 1 + d
  <2>1. w - v - 1 \in Nat /\ w = v + 1 + (w - v - 1)
      OBVIOUS
  <2> QED BY <2>1
<1>3. w * BitsPerWord = v * BitsPerWord + BitsPerWord + d * BitsPerWord
    BY <1>1, <1>2
<1>4. d * BitsPerWord \in Nat /\ v * BitsPerWord \in Nat
    BY <1>1
<1> QED BY <1>1, <1>3, <1>4

\* A tick is its word and its bit.
LEMMA WordAndBit ==
    ASSUME NEW t \in Ticks
    PROVE  /\ Word(t) \in Words /\ Bit(t) \in Bits
           /\ t = Word(t) * BitsPerWord + Bit(t)
<1>1. BitsPerWord \in Nat \ {0} /\ MaxTicks \in Nat \ {0} /\ t \in Nat /\ t < MaxTicks
    BY BitmaskAssumption DEF Ticks
<1>2. /\ Word(t) \in Nat /\ Bit(t) \in Bits
      /\ t = Word(t) * BitsPerWord + Bit(t)
    BY <1>1 DEF Word, Bit, Bits
<1>3. /\ WordCount \in Nat
      /\ MaxTicks + BitsPerWord - 1 < WordCount * BitsPerWord + BitsPerWord
    BY <1>1 DEF WordCount
<1>4. Word(t) < WordCount
  <2>1. SUFFICES ASSUME WordCount <= Word(t) PROVE FALSE
      BY <1>2, <1>3
  <2>2. WordCount * BitsPerWord <= Word(t) * BitsPerWord
    <3>1. CASE WordCount = Word(t)
        BY <3>1, <1>1, <1>2
    <3>2. CASE WordCount < Word(t)
        BY <3>2, <1>1, <1>2, <1>3, NextWord
    <3> QED BY <2>1, <3>1, <3>2, <1>2, <1>3
  <2>3. Bit(t) \in Nat /\ WordCount * BitsPerWord \in Int /\ Word(t) * BitsPerWord \in Int
      BY <1>1, <1>2, <1>3 DEF Bits
  <2> QED BY <1>1, <1>2, <1>3, <2>2, <2>3
<1> QED BY <1>2, <1>3, <1>4 DEF Words

\* Word and bit are found again in the tick.
LEMMA TickOfBit ==
    ASSUME NEW w \in Words, NEW b \in Bits, w * BitsPerWord + b \in Ticks
    PROVE  Word(w * BitsPerWord + b) = w /\ Bit(w * BitsPerWord + b) = b
<1> DEFINE t == w * BitsPerWord + b
           v == Word(t)
<1>1. BitsPerWord \in Nat \ {0} /\ w \in Nat /\ b \in Nat /\ b < BitsPerWord
    BY BitmaskAssumption DEF Words, Bits
<1>2. v \in Nat /\ Bit(t) \in Nat /\ Bit(t) < BitsPerWord /\ t = v * BitsPerWord + Bit(t)
    BY <1>1, WordAndBit DEF Words, Bits
<1>3. w * BitsPerWord \in Int /\ v * BitsPerWord \in Int
    BY <1>1, <1>2
<1>4. t = w * BitsPerWord + b
    OBVIOUS
<1> HIDE DEF t, v
<1>5. ~ (v < w)
    BY <1>1, <1>2, <1>3, <1>4, NextWord
<1>6. ~ (w < v)
    BY <1>1, <1>2, <1>3, <1>4, NextWord
<1>7. v = w
    BY <1>1, <1>2, <1>5, <1>6
<1>8. Bit(t) = b
  <2>1. v * BitsPerWord = w * BitsPerWord
      BY <1>7
  <2> QED BY <1>1, <1>2, <1>3, <1>4, <2>1
<1> QED BY <1>7, <1>8 DEF t, v

\* The order of ticks is that of their words, and of their bits within a word.
LEMMA TickOrder ==
    ASSUME NEW t \in Ticks, NEW u \in Ticks
    PROVE  t < u <=> \/ Word(t) < Word(u)
                     \/ Word(t) = Word(u) /\ Bit(t) < Bit(u)
<1>1. /\ BitsPerWord \in Nat \ {0} /\ t \in Int /\ u \in Int
      /\ Word(t) \in Nat /\ Word(u) \in Nat
      /\ Bit(t) \in Nat /\ Bit(u) \in Nat /\ Bit(t) < BitsPerWord /\ Bit(u) < BitsPerWord
      /\ t = Word(t) * BitsPerWord + Bit(t) /\ u = Word(u) * BitsPerWord + Bit(u)
    BY BitmaskAssumption, WordAndBit DEF Words, Bits, Ticks
<1>2. Word(t) * BitsPerWord \in Int /\ Word(u) * BitsPerWord \in Int
    BY <1>1
<1>3. Word(t) < Word(u) => t < u
    BY <1>1, <1>2, NextWord
<1>4. Word(u) < Word(t) => u < t
    BY <1>1, <1>2, NextWord
<1>5. Word(t) = Word(u) => (t < u <=> Bit(t) < Bit(u))
  <2> SUFFICES ASSUME Word(t) = Word(u)
               PROVE  t < u <=> Bit(t) < Bit(u)
      OBVIOUS
  <2> DEFINE base == Word(t) * BitsPerWord
  <2>1. /\ base \in Int /\ Bit(t) \in Int /\ Bit(u) \in Int
        /\ Bit(t) = t - base /\ Bit(u) = u - base
      BY <1>1, <1>2
  <2>2. t \in Int /\ u \in Int
      BY <1>1
  <2> HIDE DEF base
  <2>3. t < u => Bit(t) < Bit(u)
      BY ONLY <2>1, <2>2
  <2>4. Bit(t) < Bit(u) => t < u
      BY ONLY <2>1, <2>2
  <2> QED BY <2>3, <2>4
<1>6. t \in Int /\ u \in Int /\ Word(t) \in Int /\ Word(u) \in Int
    BY <1>1
<1>7. CASE Word(t) < Word(u)
    BY <1>3, <1>7
<1>8. CASE Word(u) < Word(t)
  <2>1. ~ (t < u)
      BY ONLY <1>4, <1>6, <1>8
  <2>2. ~ (Word(t) < Word(u)) /\ Word(t) # Word(u)
      BY ONLY <1>6, <1>8
  <2> QED BY <2>1, <2>2
<1>9. CASE Word(t) = Word(u)
  <2>1. ~ (Word(t) < Word(u))
      BY ONLY <1>6, <1>9
  <2> QED BY <1>5, <1>9, <2>1
<1>10. Word(t) < Word(u) \/ Word(t) = Word(u) \/ Word(u) < Word(t)
    BY ONLY <1>6
<1> QED BY <1>7, <1>8, <1>9, <1>10

-----------------------------------------------------------------------------
(* The two scans.                                                           *)

\* The ticks whose bit is set.
Marked(mask) == {t \in Ticks : Bit(t) \in mask[Word(t)]}

\* A mask with no bit beyond the last tick.
IsMask(mask) ==
    /\ mask \in [Words -> SUBSET Bits]
    /\ \A w \in Words : \A b \in mask[w] : w * BitsPerWord + b \in Ticks

\* A set of bits, or of words, that is not empty has a least element and a
\* greatest.
LEMMA LeastProperties ==
    ASSUME NEW n \in Nat, NEW S \in SUBSET (0 .. n - 1), S # {}
    PROVE  /\ Least(S) \in S /\ \A y \in S : Least(S) <= y
           /\ Greatest(S) \in S /\ \A y \in S : y <= Greatest(S)
<1>1. n - 1 \in Nat
  <2>1. PICK x : x \in S
      OBVIOUS
  <2> QED BY <2>1
<1>2. \E x \in S : \A y \in S : x <= y
    BY <1>1, LeastExists
<1>3. \E x \in S : \A y \in S : y <= x
    BY <1>1, GreatestExists
<1>4. Least(S) \in S /\ \A y \in S : Least(S) <= y
    BY <1>2 DEF Least
<1>5. Greatest(S) \in S /\ \A y \in S : y <= Greatest(S)
    BY <1>3 DEF Greatest
<1> QED BY <1>4, <1>5

\* find_next_from answers the nearest marked tick above, or -1.
LEMMA FindNextFrom ==
    ASSUME NEW mask, IsMask(mask), NEW tick \in Ticks
    PROVE  LET above == {u \in Marked(mask) : u > tick}
               found == find_next_from(mask, tick)
           IN /\ above = {} => found = -1
              /\ above # {} => found \in above /\ \A u \in above : found <= u
<1> DEFINE bits  == {b \in mask[Word(tick)] : b > Bit(tick)}
           later == {w \in Words : w > Word(tick) /\ mask[w] # {}}
           above == {u \in Marked(mask) : u > tick}
           found == find_next_from(mask, tick)
<1>1. /\ BitsPerWord \in Nat \ {0} /\ WordCount \in Nat
      /\ Word(tick) \in Words /\ Bit(tick) \in Bits
      /\ tick = Word(tick) * BitsPerWord + Bit(tick)
      /\ mask[Word(tick)] \in SUBSET Bits
    BY BitmaskAssumption, WordAndBit DEF IsMask, Words, WordCount
<1>2. \A w \in Words : \A b \in mask[w] :
        LET t == w * BitsPerWord + b IN
        b \in Bits /\ t \in Marked(mask) /\ Word(t) = w /\ Bit(t) = b
    BY TickOfBit DEF IsMask, Marked
<1>3. \A u \in Marked(mask) :
        /\ u \in Ticks /\ u \in Int /\ Word(u) \in Words /\ Bit(u) \in mask[Word(u)]
        /\ Bit(u) \in Bits
    BY WordAndBit DEF Marked, Ticks
<1>4. CASE bits # {}
  <2> DEFINE b == Least(bits)
  <2>1. b \in bits /\ \A y \in bits : b <= y
    <3>1. bits \in SUBSET (0 .. BitsPerWord - 1)
        BY <1>1 DEF Bits
    <3> HIDE DEF bits
    <3> QED BY <1>1, <1>4, <3>1, LeastProperties
  <2>2. found = Word(tick) * BitsPerWord + b
      BY <1>4 DEF find_next_from
  <2> HIDE DEF b, found
  <2>3. found \in Marked(mask) /\ Word(found) = Word(tick) /\ Bit(found) = b
      BY <1>1, <1>2, <2>1, <2>2
  <2>4. found > tick
      BY <1>3, <2>1, <2>3, TickOrder DEF Ticks
  <2>5. ASSUME NEW u \in above PROVE found <= u
    <3>1. ~ (u < found)
      <4>1. Word(tick) < Word(u) \/ (Word(tick) = Word(u) /\ Bit(tick) < Bit(u))
          BY <1>3, TickOrder DEF Ticks
      <4>2. Word(tick) = Word(u) => Bit(u) \in bits
        <5>1. SUFFICES ASSUME Word(tick) = Word(u) PROVE Bit(u) \in bits
            OBVIOUS
        <5>2. Bit(u) \in mask[Word(tick)]
            BY <1>3, <5>1
        <5>3. Bit(u) > Bit(tick)
            BY <1>1, <1>3, <4>1, <5>1 DEF Words, Bits
        <5> QED BY <5>2, <5>3
      <4> QED BY <1>1, <1>3, <2>1, <2>3, <4>1, <4>2, TickOrder DEF Bits, Words
    <3> QED BY <1>3, <2>3, <3>1
  <2> QED BY <2>3, <2>4, <2>5 DEF found
<1>5. CASE bits = {} /\ later # {}
  <2> DEFINE w == Least(later)
             b == Least(mask[w])
  <2>1. w \in later /\ \A y \in later : w <= y
    <3>1. later \in SUBSET (0 .. WordCount - 1)
        BY DEF Words
    <3> HIDE DEF later
    <3> QED BY <1>1, <1>5, <3>1, LeastProperties
  <2> HIDE DEF w
  <2>2. b \in mask[w] /\ \A y \in mask[w] : b <= y
    <3>1. mask[w] \in SUBSET (0 .. BitsPerWord - 1) /\ mask[w] # {}
        BY <2>1 DEF IsMask, Bits
    <3> QED BY <1>1, <3>1, LeastProperties
  <2>3. found = w * BitsPerWord + b
      BY <1>5 DEF find_next_from, w
  <2> HIDE DEF b, found
  <2>4. found \in Marked(mask) /\ Word(found) = w /\ Bit(found) = b
      BY <1>2, <2>1, <2>2, <2>3
  <2>5. found > tick
      BY <1>3, <2>1, <2>4, TickOrder DEF Ticks
  <2>6. ASSUME NEW u \in above PROVE found <= u
    <3>1. ~ (u < found)
      <4>1. Word(tick) < Word(u) \/ (Word(tick) = Word(u) /\ Bit(tick) < Bit(u))
          BY <1>3, TickOrder DEF Ticks
      <4>2. Word(tick) # Word(u)
        <5>1. SUFFICES ASSUME Word(tick) = Word(u) PROVE FALSE
            OBVIOUS
        <5>2. Bit(u) \in mask[Word(tick)]
            BY <1>3, <5>1
        <5>3. Bit(u) > Bit(tick)
            BY <1>1, <1>3, <4>1, <5>1 DEF Words, Bits
        <5> QED BY <1>5, <5>2, <5>3
      <4>3. Word(u) \in later
          BY <1>3, <4>1, <4>2
      <4> QED BY <1>3, <2>1, <2>2, <2>4, <4>3, TickOrder DEF Bits, Words
    <3> QED BY <1>3, <2>4, <3>1
  <2> QED BY <2>4, <2>5, <2>6 DEF found
<1>6. CASE bits = {} /\ later = {}
  <2>1. found = -1
      BY <1>6 DEF find_next_from
  <2>2. ASSUME NEW u \in above PROVE FALSE
    <3>1. Word(tick) < Word(u) \/ (Word(tick) = Word(u) /\ Bit(tick) < Bit(u))
        BY <1>3, TickOrder DEF Ticks
    <3> QED BY <1>3, <1>6, <3>1 DEF Bits
  <2> QED BY <2>1, <2>2
<1> QED BY <1>4, <1>5, <1>6

\* find_prev_from answers the nearest marked tick below, or -1.
LEMMA FindPrevFrom ==
    ASSUME NEW mask, IsMask(mask), NEW tick \in Ticks
    PROVE  LET below == {u \in Marked(mask) : u < tick}
               found == find_prev_from(mask, tick)
           IN /\ below = {} => found = -1
              /\ below # {} => found \in below /\ \A u \in below : u <= found
<1> DEFINE bits  == {b \in mask[Word(tick)] : b < Bit(tick)}
           earlier == {w \in Words : w < Word(tick) /\ mask[w] # {}}
           below == {u \in Marked(mask) : u < tick}
           found == find_prev_from(mask, tick)
<1>1. /\ BitsPerWord \in Nat \ {0} /\ WordCount \in Nat
      /\ Word(tick) \in Words /\ Bit(tick) \in Bits
      /\ tick = Word(tick) * BitsPerWord + Bit(tick)
      /\ mask[Word(tick)] \in SUBSET Bits
    BY BitmaskAssumption, WordAndBit DEF IsMask, Words, WordCount
<1>2. \A w \in Words : \A b \in mask[w] :
        LET t == w * BitsPerWord + b IN
        b \in Bits /\ t \in Marked(mask) /\ Word(t) = w /\ Bit(t) = b
    BY TickOfBit DEF IsMask, Marked
<1>3. \A u \in Marked(mask) :
        /\ u \in Ticks /\ u \in Int /\ Word(u) \in Words /\ Bit(u) \in mask[Word(u)]
        /\ Bit(u) \in Bits
    BY WordAndBit DEF Marked, Ticks
<1>4. CASE bits # {}
  <2> DEFINE b == Greatest(bits)
  <2>1. b \in bits /\ \A y \in bits : y <= b
    <3>1. bits \in SUBSET (0 .. BitsPerWord - 1)
        BY <1>1 DEF Bits
    <3> HIDE DEF bits
    <3> QED BY <1>1, <1>4, <3>1, LeastProperties
  <2>2. found = Word(tick) * BitsPerWord + b
      BY <1>4 DEF find_prev_from
  <2> HIDE DEF b, found
  <2>3. found \in Marked(mask) /\ Word(found) = Word(tick) /\ Bit(found) = b
      BY <1>1, <1>2, <2>1, <2>2
  <2>4. found < tick
      BY <1>3, <2>1, <2>3, TickOrder DEF Ticks
  <2>5. ASSUME NEW u \in below PROVE u <= found
    <3>1. ~ (found < u)
      <4>1. Word(u) < Word(tick) \/ (Word(tick) = Word(u) /\ Bit(u) < Bit(tick))
          BY <1>3, TickOrder DEF Ticks
      <4>2. Word(tick) = Word(u) => Bit(u) \in bits
        <5>1. SUFFICES ASSUME Word(tick) = Word(u) PROVE Bit(u) \in bits
            OBVIOUS
        <5>2. Bit(u) \in mask[Word(tick)]
            BY <1>3, <5>1
        <5>3. Bit(u) < Bit(tick)
            BY <1>1, <1>3, <4>1, <5>1 DEF Words, Bits
        <5> QED BY <5>2, <5>3
      <4> QED BY <1>1, <1>3, <2>1, <2>3, <4>1, <4>2, TickOrder DEF Bits, Words
    <3> QED BY <1>3, <2>3, <3>1
  <2> QED BY <2>3, <2>4, <2>5 DEF found
<1>5. CASE bits = {} /\ earlier # {}
  <2> DEFINE w == Greatest(earlier)
             b == Greatest(mask[w])
  <2>1. w \in earlier /\ \A y \in earlier : y <= w
    <3>1. earlier \in SUBSET (0 .. WordCount - 1)
        BY DEF Words
    <3> HIDE DEF earlier
    <3> QED BY <1>1, <1>5, <3>1, LeastProperties
  <2> HIDE DEF w
  <2>2. b \in mask[w] /\ \A y \in mask[w] : y <= b
    <3>1. mask[w] \in SUBSET (0 .. BitsPerWord - 1) /\ mask[w] # {}
        BY <2>1 DEF IsMask, Bits
    <3> QED BY <1>1, <3>1, LeastProperties
  <2>3. found = w * BitsPerWord + b
      BY <1>5 DEF find_prev_from, w
  <2> HIDE DEF b, found
  <2>4. found \in Marked(mask) /\ Word(found) = w /\ Bit(found) = b
      BY <1>2, <2>1, <2>2, <2>3
  <2>5. found < tick
      BY <1>3, <2>1, <2>4, TickOrder DEF Ticks
  <2>6. ASSUME NEW u \in below PROVE u <= found
    <3>1. ~ (found < u)
      <4>1. Word(u) < Word(tick) \/ (Word(tick) = Word(u) /\ Bit(u) < Bit(tick))
          BY <1>3, TickOrder DEF Ticks
      <4>2. Word(tick) # Word(u)
        <5>1. SUFFICES ASSUME Word(tick) = Word(u) PROVE FALSE
            OBVIOUS
        <5>2. Bit(u) \in mask[Word(tick)]
            BY <1>3, <5>1
        <5>3. Bit(u) < Bit(tick)
            BY <1>1, <1>3, <4>1, <5>1 DEF Words, Bits
        <5> QED BY <1>5, <5>2, <5>3
      <4>3. Word(u) \in earlier
          BY <1>3, <4>1, <4>2
      <4> QED BY <1>3, <2>1, <2>2, <2>4, <4>3, TickOrder DEF Bits, Words
    <3> QED BY <1>3, <2>4, <3>1
  <2> QED BY <2>4, <2>5, <2>6 DEF found
<1>6. CASE bits = {} /\ earlier = {}
  <2>1. found = -1
      BY <1>6 DEF find_prev_from
  <2>2. ASSUME NEW u \in below PROVE FALSE
    <3>1. Word(u) < Word(tick) \/ (Word(tick) = Word(u) /\ Bit(u) < Bit(tick))
        BY <1>3, TickOrder DEF Ticks
    <3> QED BY <1>3, <1>6, <3>1 DEF Bits
  <2> QED BY <2>1, <2>2
<1> QED BY <1>4, <1>5, <1>6

-----------------------------------------------------------------------------
(* The lists of the abstract book.                                          *)

\* An order rests at one place of the book only.
EachOnce(lv) ==
    \A t, u \in Ticks :
        \A j \in 1 .. Len(lv[t]), k \in 1 .. Len(lv[u]) :
            lv[t][j] = lv[u][k] => t = u /\ j = k

\* The levels of a book are sequences of orders.
LEMMA LevelFacts ==
    ASSUME NEW lv \in [Ticks -> Seq(Orders)], NEW t \in Ticks
    PROVE  /\ lv[t] \in Seq(Orders) /\ Len(lv[t]) \in Nat
           /\ lv[t] = << >> <=> Len(lv[t]) = 0
           /\ \A k \in 1 .. Len(lv[t]) : lv[t][k] \in Orders /\ lv[t][k] # NULL
<1>1. lv[t] \in Seq(Orders)
    OBVIOUS
<1>2. Len(lv[t]) \in Nat /\ (lv[t] = << >> <=> Len(lv[t]) = 0)
    BY <1>1, EmptySeq, LenProperties
<1>3. \A k \in 1 .. Len(lv[t]) : lv[t][k] \in Orders
    BY <1>1, ElementOfSeq
<1> QED BY <1>1, <1>2, <1>3, BitmaskAssumption

\* An order that rests nowhere may join a level.
LEMMA AddKeepsEachOnce ==
    ASSUME NEW lv \in [Ticks -> Seq(Orders)], EachOnce(lv),
           NEW tick \in Ticks, NEW order \in Orders,
           order \notin RestingOrders(lv)
    PROVE  EachOnce(AddOrder(lv, tick, order))
<1> DEFINE new == AddOrder(lv, tick, order)
           n == Len(lv[tick]) + 1
<1>1. /\ \A u \in Ticks \ {tick} : new[u] = lv[u]
      /\ Len(new[tick]) = n /\ new[tick][n] = order
      /\ \A k \in 1 .. n - 1 : new[tick][k] = lv[tick][k]
    BY AddOrderProperties
<1>2. \A t \in Ticks : Len(lv[t]) \in Nat
    BY LevelFacts
<1>3. \A t \in Ticks : \A k \in 1 .. Len(lv[t]) : lv[t][k] # order
    BY RestingOrdersProperties
<1> HIDE DEF new
<1>4. \A t \in Ticks : \A k \in 1 .. Len(new[t]) :
        \/ k \in 1 .. Len(lv[t]) /\ new[t][k] = lv[t][k]
        \/ t = tick /\ k = n /\ new[t][k] = order
  <2> TAKE t \in Ticks
  <2>1. CASE t = tick
      BY <1>1, <1>2, <2>1
  <2>2. CASE t # tick
      BY <1>1, <2>2
  <2> QED BY <2>1, <2>2
<1>5. SUFFICES ASSUME NEW t \in Ticks, NEW u \in Ticks,
                      NEW j \in 1 .. Len(new[t]), NEW k \in 1 .. Len(new[u]),
                      new[t][j] = new[u][k]
               PROVE  t = u /\ j = k
    BY DEF EachOnce, new
<1>6. CASE j \in 1 .. Len(lv[t]) /\ new[t][j] = lv[t][j]
  <2>1. k \in 1 .. Len(lv[u]) /\ new[u][k] = lv[u][k]
      BY <1>3, <1>4, <1>5, <1>6
  <2>2. lv[t][j] = lv[u][k]
      BY <1>5, <1>6, <2>1
  <2> QED BY <1>6, <2>1, <2>2 DEF EachOnce
<1>7. CASE t = tick /\ j = n /\ new[t][j] = order
    BY <1>3, <1>4, <1>5, <1>7
<1> QED BY <1>4, <1>6, <1>7

\* The oldest order of a level may leave.
LEMMA PopKeepsEachOnce ==
    ASSUME NEW lv \in [Ticks -> Seq(Orders)], EachOnce(lv),
           NEW tick \in Ticks, lv[tick] # << >>
    PROVE  EachOnce(PopOrder(lv, tick))
<1> DEFINE new == PopOrder(lv, tick)
           n == Len(lv[tick]) - 1
<1>1. /\ \A u \in Ticks \ {tick} : new[u] = lv[u]
      /\ Len(new[tick]) = n
      /\ \A k \in 1 .. n : new[tick][k] = lv[tick][k + 1]
    BY PopOrderProperties
<1>2. \A t \in Ticks : Len(lv[t]) \in Nat
    BY LevelFacts
<1> HIDE DEF new
<1>3. SUFFICES ASSUME NEW t \in Ticks, NEW u \in Ticks,
                      NEW j \in 1 .. Len(new[t]), NEW k \in 1 .. Len(new[u]),
                      new[t][j] = new[u][k]
               PROVE  t = u /\ j = k
    BY DEF EachOnce, new
<1>4. CASE t = tick /\ u = tick
  <2>1. j + 1 \in 1 .. Len(lv[t]) /\ k + 1 \in 1 .. Len(lv[u])
      BY <1>1, <1>2, <1>4
  <2>2. lv[t][j + 1] = lv[u][k + 1]
      BY <1>1, <1>3, <1>4
  <2>3. j + 1 = k + 1
      BY <2>1, <2>2 DEF EachOnce
  <2> QED BY <1>4, <2>3
<1>5. CASE t = tick /\ u # tick
  <2>1. j + 1 \in 1 .. Len(lv[t]) /\ k \in 1 .. Len(lv[u])
      BY <1>1, <1>2, <1>5
  <2>2. lv[t][j + 1] = lv[u][k]
      BY <1>1, <1>3, <1>5
  <2> QED BY <1>5, <2>1, <2>2 DEF EachOnce
<1>6. CASE t # tick /\ u = tick
  <2>1. j \in 1 .. Len(lv[t]) /\ k + 1 \in 1 .. Len(lv[u])
      BY <1>1, <1>2, <1>6
  <2>2. lv[t][j] = lv[u][k + 1]
      BY <1>1, <1>3, <1>6
  <2> QED BY <1>6, <2>1, <2>2 DEF EachOnce
<1>7. CASE t # tick /\ u # tick
    BY <1>1, <1>3, <1>7 DEF EachOnce
<1> QED BY <1>4, <1>5, <1>6, <1>7

\* The ticks occupied after an order has joined its level, and after one has
\* left.
LEMMA OccupiedAfter ==
    ASSUME NEW lv \in [Ticks -> Seq(Orders)], NEW tick \in Ticks
    PROVE  /\ \A order \in Orders :
                NonEmptyTicks(AddOrder(lv, tick, order))
                    = NonEmptyTicks(lv) \cup {tick}
           /\ lv[tick] # << >> =>
                NonEmptyTicks(PopOrder(lv, tick))
                    = IF Len(lv[tick]) = 1 THEN NonEmptyTicks(lv) \ {tick}
                      ELSE NonEmptyTicks(lv)
<1>1. \A t \in Ticks : Len(lv[t]) \in Nat /\ (lv[t] = << >> <=> Len(lv[t]) = 0)
    BY LevelFacts
<1>2. ASSUME NEW order \in Orders
      PROVE  NonEmptyTicks(AddOrder(lv, tick, order))
                = NonEmptyTicks(lv) \cup {tick}
  <2> DEFINE new == AddOrder(lv, tick, order)
  <2>1. /\ new \in [Ticks -> Seq(Orders)]
        /\ \A u \in Ticks \ {tick} : new[u] = lv[u]
        /\ Len(new[tick]) = Len(lv[tick]) + 1
      BY AddOrderProperties
  <2> HIDE DEF new
  <2>2. new[tick] # << >>
      BY <1>1, <2>1, LevelFacts
  <2>3. DOMAIN new = Ticks /\ DOMAIN lv = Ticks
      BY <2>1
  <2>4. NonEmptyTicks(new) = NonEmptyTicks(lv) \cup {tick}
      BY <2>1, <2>2, <2>3 DEF NonEmptyTicks
  <2> QED BY <2>4 DEF new
<1>3. ASSUME lv[tick] # << >>
      PROVE  NonEmptyTicks(PopOrder(lv, tick))
                = IF Len(lv[tick]) = 1 THEN NonEmptyTicks(lv) \ {tick}
                  ELSE NonEmptyTicks(lv)
  <2> DEFINE new == PopOrder(lv, tick)
  <2>1. /\ new \in [Ticks -> Seq(Orders)]
        /\ \A u \in Ticks \ {tick} : new[u] = lv[u]
        /\ Len(new[tick]) = Len(lv[tick]) - 1
      BY <1>3, PopOrderProperties
  <2> HIDE DEF new
  <2>2. new[tick] = << >> <=> Len(lv[tick]) = 1
    <3>1. new[tick] = << >> <=> Len(new[tick]) = 0
        BY <2>1, LevelFacts
    <3> QED BY <1>1, <2>1, <3>1
  <2>3. DOMAIN new = Ticks /\ DOMAIN lv = Ticks
      BY <2>1
  <2>4. NonEmptyTicks(new) = IF Len(lv[tick]) = 1 THEN NonEmptyTicks(lv) \ {tick}
                             ELSE NonEmptyTicks(lv)
      BY <1>3, <2>1, <2>2, <2>3 DEF NonEmptyTicks
  <2> QED BY <2>4 DEF new
<1> QED BY <1>2, <1>3

-----------------------------------------------------------------------------
(* The inductive invariant.                                                 *)

\* The list of a level: its head, its tail and the links between its orders.
IsList(q, head, tail, link) ==
    /\ Len(q) = 0 => head = NULL /\ tail = NULL
    /\ Len(q) # 0 => head = q[1] /\ tail = q[Len(q)] /\ link[q[Len(q)]] = NULL
    /\ \A k \in 1 .. Len(q) - 1 : link[q[k]] = q[k + 1]

\* An order outside the book has no link.
NoStrayLink(lv, link) ==
    \A o \in Orders : o \notin RestingOrders(lv) => link[o] = NULL

\* A best level popped empty is searched again among the ticks the mask
\* marks, so the links, the mask and the cached bests are kept together; a
\* link is overwritten without looking whose it is, so an order must rest at
\* one place only.
BookInv ==
    /\ TypeOK
    /\ ListsWellFormed
    /\ IndexMatchesLevels
    /\ EachOnce(levels)

\* ListsWellFormed by level.
LEMMA ListsByLevel ==
    ASSUME levels \in [Ticks -> Seq(Orders)]
    PROVE  ListsWellFormed <=>
            /\ \A t \in Ticks :
                IsList(levels[t], price_levels_[t], price_level_tails_[t], next)
            /\ NoStrayLink(levels, next)
<1>1. \A t \in Ticks : Len(levels[t]) \in Nat /\ (levels[t] = << >> <=> Len(levels[t]) = 0)
    BY LevelFacts
<1>2. ASSUME NEW t \in Ticks
      PROVE  IsList(levels[t], price_levels_[t], price_level_tails_[t], next) <=>
                IF levels[t] = << >>
                THEN price_levels_[t] = NULL /\ price_level_tails_[t] = NULL
                ELSE /\ price_levels_[t] = levels[t][1]
                     /\ price_level_tails_[t] = levels[t][Len(levels[t])]
                     /\ next[levels[t][Len(levels[t])]] = NULL
                     /\ \A k \in 1 .. Len(levels[t]) - 1 :
                            next[levels[t][k]] = levels[t][k + 1]
  <2>1. CASE levels[t] = << >>
      BY <1>1, <2>1 DEF IsList
  <2>2. CASE levels[t] # << >>
      BY <1>1, <2>2 DEF IsList
  <2> QED BY <2>1, <2>2
<1> QED BY <1>2 DEF ListsWellFormed, NoStrayLink

\* The same of the next state.
LEMMA ListsByLevelAfter ==
    ASSUME levels' \in [Ticks -> Seq(Orders)],
           \A t \in Ticks :
                IsList(levels'[t], price_levels_'[t], price_level_tails_'[t], next'),
           NoStrayLink(levels', next')
    PROVE  ListsWellFormed'
<1>1. \A t \in Ticks : Len(levels'[t]) \in Nat /\ (levels'[t] = << >> <=> Len(levels'[t]) = 0)
    BY LevelFacts
<1>2. ASSUME NEW t \in Ticks
      PROVE  IF levels'[t] = << >>
             THEN price_levels_'[t] = NULL /\ price_level_tails_'[t] = NULL
             ELSE /\ price_levels_'[t] = levels'[t][1]
                  /\ price_level_tails_'[t] = levels'[t][Len(levels'[t])]
                  /\ next'[levels'[t][Len(levels'[t])]] = NULL
                  /\ \A k \in 1 .. Len(levels'[t]) - 1 :
                        next'[levels'[t][k]] = levels'[t][k + 1]
  <2>1. IsList(levels'[t], price_levels_'[t], price_level_tails_'[t], next')
      OBVIOUS
  <2>2. CASE levels'[t] = << >>
      BY <1>1, <2>1, <2>2 DEF IsList
  <2>3. CASE levels'[t] # << >>
      BY <1>1, <2>1, <2>3 DEF IsList
  <2> QED BY <2>2, <2>3
<1>3. \A o \in Orders \ RestingOrders(levels') : next'[o] = NULL
    BY DEF NoStrayLink
<1> QED BY <1>2, <1>3 DEF ListsWellFormed

\* The mask of a state with the invariant marks the occupied ticks.
LEMMA MaskMarksOccupied ==
    ASSUME TypeOK, IndexMatchesLevels
    PROVE  IsMask(mask_) /\ Marked(mask_) = NonEmptyTicks(levels)
    BY DEF TypeOK, IndexMatchesLevels, IsMask, Marked, NonEmptyTicks

\* The index of the next state, from its mask and its cached bests.
LEMMA IndexAfter ==
    ASSUME levels' \in [Ticks -> Seq(Orders)], IsMask(mask_'),
           Marked(mask_') = NonEmptyTicks(levels'),
           best_first_' = FindFirst(levels'), best_last_' = FindLast(levels')
    PROVE  IndexMatchesLevels'
    BY DEF IndexMatchesLevels, IsMask, Marked, NonEmptyTicks

\* The best levels after an order has joined its level.
LEMMA BestsAfterAdd ==
    ASSUME NEW lv \in [Ticks -> Seq(Orders)], NEW tick \in Ticks,
           NEW order \in Orders
    PROVE  LET new == AddOrder(lv, tick, order) IN
           /\ FindFirst(new) = IF FindFirst(lv) < 0 \/ tick < FindFirst(lv)
                               THEN tick ELSE FindFirst(lv)
           /\ FindLast(new) = IF FindLast(lv) < 0 \/ tick > FindLast(lv)
                              THEN tick ELSE FindLast(lv)
<1> DEFINE new == AddOrder(lv, tick, order)
           S == NonEmptyTicks(lv)
           first == FindFirst(lv)
           last == FindLast(lv)
<1>1. MaxTicks \in Nat \ {0} /\ Ticks = 0 .. MaxTicks - 1
    BY BitmaskAssumption DEF Ticks
<1>2. new \in [0 .. MaxTicks - 1 -> Seq(Orders)] /\ NonEmptyTicks(new) = S \cup {tick}
  <2>1. new \in [Ticks -> Seq(Orders)]
      BY AddOrderProperties
  <2>2. NonEmptyTicks(new) = S \cup {tick}
      BY OccupiedAfter
  <2> QED BY <1>1, <2>1, <2>2
<1>3. /\ S \subseteq Ticks
      /\ S = {} => first = -1 /\ last = -1
      /\ S # {} => /\ first \in S /\ \A u \in S : first <= u
                  /\ last \in S /\ \A u \in S : u <= last
    BY <1>1, FindFirstProperties, FindLastProperties DEF NoLevel
<1> HIDE DEF new, S, first, last
<1>4. \A u \in Ticks : u \in Int /\ 0 <= u
    BY <1>1
<1>5. CASE S = {}
  <2>1. /\ tick \in NonEmptyTicks(new)
        /\ \A u \in NonEmptyTicks(new) : u <= tick /\ tick <= u
      BY <1>2, <1>4, <1>5
  <2>2. FindFirst(new) = tick /\ FindLast(new) = tick
      BY <1>1, <1>2, <2>1, BestLevelUnique
  <2>3. first = -1 /\ last = -1
      BY <1>3, <1>5
  <2> QED BY <2>2, <2>3 DEF new, first, last
<1>6. CASE S # {}
  <2>1. /\ first \in Ticks /\ last \in Ticks
        /\ first \in NonEmptyTicks(new) /\ last \in NonEmptyTicks(new)
        /\ tick \in NonEmptyTicks(new)
      BY <1>2, <1>3, <1>6
  <2>2. tick < first => FindFirst(new) = tick
    <3> SUFFICES ASSUME tick < first PROVE FindFirst(new) = tick
        OBVIOUS
    <3>1. \A u \in NonEmptyTicks(new) : tick <= u
        BY <1>2, <1>3, <1>4, <1>6, <2>1
    <3> QED BY <1>1, <1>2, <2>1, <3>1, BestLevelUnique
  <2>3. ~ (tick < first) => FindFirst(new) = first
    <3> SUFFICES ASSUME ~ (tick < first) PROVE FindFirst(new) = first
        OBVIOUS
    <3>1. \A u \in NonEmptyTicks(new) : first <= u
        BY <1>2, <1>3, <1>4, <1>6, <2>1
    <3> QED BY <1>1, <1>2, <2>1, <3>1, BestLevelUnique
  <2>4. tick > last => FindLast(new) = tick
    <3> SUFFICES ASSUME tick > last PROVE FindLast(new) = tick
        OBVIOUS
    <3>1. \A u \in NonEmptyTicks(new) : u <= tick
        BY <1>2, <1>3, <1>4, <1>6, <2>1
    <3> QED BY <1>1, <1>2, <2>1, <3>1, BestLevelUnique
  <2>5. ~ (tick > last) => FindLast(new) = last
    <3> SUFFICES ASSUME ~ (tick > last) PROVE FindLast(new) = last
        OBVIOUS
    <3>1. \A u \in NonEmptyTicks(new) : u <= last
        BY <1>2, <1>3, <1>4, <1>6, <2>1
    <3> QED BY <1>1, <1>2, <2>1, <3>1, BestLevelUnique
  <2>6. ~ (first < 0) /\ ~ (last < 0)
      BY <1>4, <2>1
  <2> QED BY <2>2, <2>3, <2>4, <2>5, <2>6 DEF new, first, last
<1> QED BY <1>5, <1>6

\* What an operation on one level leaves of the other lists: their links are
\* touched only at orders they do not hold.
LEMMA OtherListsKept ==
    ASSUME NEW q \in Seq(Orders), NEW head, NEW tail, NEW link, NEW linkAfter,
           IsList(q, head, tail, link),
           \A k \in 1 .. Len(q) : linkAfter[q[k]] = link[q[k]]
    PROVE  IsList(q, head, tail, linkAfter)
<1>1. Len(q) \in Nat
    BY LenProperties
<1>2. Len(q) # 0 => linkAfter[q[Len(q)]] = link[q[Len(q)]]
    BY <1>1
<1>3. \A k \in 1 .. Len(q) - 1 : linkAfter[q[k]] = link[q[k]]
    BY <1>1
<1> QED BY <1>2, <1>3 DEF IsList

\* add_order_known_valid keeps the invariant.
LEMMA AddStep ==
    ASSUME BookInv, NEW tick \in Ticks, NEW order \in Orders,
           order \notin RestingOrders(levels),
           AddToEmptyLevel(tick, order) \/ AddBehindTail(tick, order),
           levels' = AddOrder(levels, tick, order)
    PROVE  BookInv'
<1> DEFINE n == Len(levels[tick])
<1>1. /\ TypeOK /\ ListsWellFormed /\ IndexMatchesLevels /\ EachOnce(levels)
      /\ levels \in [Ticks -> Seq(Orders)] /\ order # NULL
    BY BitmaskAssumption DEF BookInv, TypeOK
<1>2. /\ levels' \in [Ticks -> Seq(Orders)]
      /\ \A u \in Ticks \ {tick} : levels'[u] = levels[u]
      /\ Len(levels'[tick]) = n + 1 /\ levels'[tick][n + 1] = order
      /\ \A k \in 1 .. n : levels'[tick][k] = levels[tick][k]
  <2>1. n \in Nat
      BY <1>1, LevelFacts
  <2>2. 1 .. (n + 1) - 1 = 1 .. n
      BY <2>1
  <2> QED BY <1>1, <2>2, AddOrderProperties
<1>3. EachOnce(levels')
    BY <1>1, AddKeepsEachOnce
<1>4. NonEmptyTicks(levels') = NonEmptyTicks(levels) \cup {tick}
    BY <1>1, OccupiedAfter
<1>5. \A t \in Ticks :
        /\ levels[t] \in Seq(Orders) /\ Len(levels[t]) \in Nat
        /\ levels[t] = << >> <=> Len(levels[t]) = 0
        /\ \A k \in 1 .. Len(levels[t]) : levels[t][k] \in Orders /\ levels[t][k] # NULL
    BY <1>1, LevelFacts
<1>6. /\ \A t \in Ticks :
            IsList(levels[t], price_levels_[t], price_level_tails_[t], next)
      /\ NoStrayLink(levels, next)
    BY <1>1, ListsByLevel
<1>7. \A t \in Ticks : \A k \in 1 .. Len(levels[t]) : levels[t][k] # order
    BY <1>1, RestingOrdersProperties
<1>8. \A o \in Orders : o \notin RestingOrders(levels') =>
            o \notin RestingOrders(levels) /\ o # order
  <2> SUFFICES ASSUME NEW o \in Orders, o \in RestingOrders(levels) \/ o = order
               PROVE  o \in RestingOrders(levels')
      OBVIOUS
  <2>1. \E t \in Ticks : \E k \in 1 .. Len(levels'[t]) : levels'[t][k] = o
    <3>1. CASE o = order
        BY <3>1, <1>2, <1>5
    <3>2. CASE o \in RestingOrders(levels)
      <4>1. PICK t \in Ticks : \E k \in 1 .. Len(levels[t]) : levels[t][k] = o
          BY <3>2, <1>1, RestingOrdersProperties
      <4>2. PICK k \in 1 .. Len(levels[t]) : levels[t][k] = o
          BY <4>1
      <4>3. CASE t = tick
          BY <4>2, <4>3, <1>2, <1>5
      <4>4. CASE t # tick
          BY <4>2, <4>4, <1>2
      <4> QED BY <4>3, <4>4
    <3> QED BY <3>1, <3>2
  <2> QED BY <2>1, <1>2, RestingOrdersProperties
<1>9. CASE AddToEmptyLevel(tick, order)
  <2>1. n = 0
    <3>1. IsList(levels[tick], price_levels_[tick], price_level_tails_[tick], next)
        BY <1>6
    <3>2. price_levels_[tick] = NULL
        BY <1>9 DEF AddToEmptyLevel
    <3>3. n # 0 => 1 \in 1 .. n /\ price_levels_[tick] = levels[tick][1]
        BY <1>5, <3>1 DEF IsList
    <3> QED BY <1>5, <3>2, <3>3
  <2>2. /\ next' = [next EXCEPT ![order] = NULL]
        /\ next \in [Orders -> Orders \cup {NULL}]
        /\ price_levels_' = [price_levels_ EXCEPT ![tick] = order]
        /\ price_level_tails_' = [price_level_tails_ EXCEPT ![tick] = order]
        /\ price_levels_ \in [Ticks -> Orders \cup {NULL}]
        /\ price_level_tails_ \in [Ticks -> Orders \cup {NULL}]
      BY <1>1, <1>9 DEF AddToEmptyLevel, TypeOK
  <2>3. ASSUME NEW t \in Ticks
        PROVE  IsList(levels'[t], price_levels_'[t], price_level_tails_'[t], next')
    <3>1. CASE t = tick
      <4>1. Len(levels'[t]) = 1 /\ levels'[t][1] = order /\ next'[order] = NULL
          BY <1>2, <2>1, <2>2, <3>1
      <4> QED BY <2>2, <3>1, <4>1 DEF IsList
    <3>2. CASE t # tick
      <4>1. \A k \in 1 .. Len(levels[t]) : next'[levels[t][k]] = next[levels[t][k]]
          BY <1>5, <1>7, <2>2
      <4>2. IsList(levels[t], price_levels_[t], price_level_tails_[t], next')
        <5>1. /\ levels[t] \in Seq(Orders)
              /\ IsList(levels[t], price_levels_[t], price_level_tails_[t], next)
            BY <1>5, <1>6
        <5> QED BY ONLY <5>1, <4>1, OtherListsKept
      <4>3. /\ levels'[t] = levels[t] /\ price_levels_'[t] = price_levels_[t]
            /\ price_level_tails_'[t] = price_level_tails_[t]
          BY <1>2, <2>2, <3>2
      <4> QED BY <4>2, <4>3
    <3> QED BY <3>1, <3>2
  <2>4. NoStrayLink(levels', next')
      BY <1>6, <1>8, <2>2 DEF NoStrayLink
  <2>5. ListsWellFormed'
      BY <1>2, <2>3, <2>4, ListsByLevelAfter
  <2>6. IsMask(mask_') /\ Marked(mask_') = NonEmptyTicks(levels')
    <3>1. /\ IsMask(mask_) /\ Marked(mask_) = NonEmptyTicks(levels)
          /\ mask_ \in [Words -> SUBSET Bits]
        BY <1>1, MaskMarksOccupied DEF IsMask
    <3>2. Word(tick) \in Words /\ Bit(tick) \in Bits
          /\ tick = Word(tick) * BitsPerWord + Bit(tick)
        BY WordAndBit
    <3>3. /\ mask_' \in [Words -> SUBSET Bits]
          /\ mask_'[Word(tick)] = mask_[Word(tick)] \cup {Bit(tick)}
          /\ \A w \in Words \ {Word(tick)} : mask_'[w] = mask_[w]
        BY <1>9, <3>1, <3>2 DEF AddToEmptyLevel
    <3>4. \A w \in Words : \A b \in mask_'[w] : w * BitsPerWord + b \in Ticks
      <4> TAKE w \in Words
      <4> TAKE b \in mask_'[w]
      <4>1. CASE b \in mask_[w]
          BY <3>1, <4>1 DEF IsMask
      <4>2. CASE b \notin mask_[w]
        <5>1. w = Word(tick) /\ b = Bit(tick)
            BY <3>3, <4>2
        <5> QED BY <3>2, <5>1
      <4> QED BY <4>1, <4>2
    <3>5. ASSUME NEW u \in Ticks
          PROVE  Bit(u) \in mask_'[Word(u)] <=> Bit(u) \in mask_[Word(u)] \/ u = tick
      <4>1. Word(u) \in Words /\ u = Word(u) * BitsPerWord + Bit(u)
          BY WordAndBit
      <4>2. Word(u) = Word(tick) /\ Bit(u) = Bit(tick) => u = tick
          BY <3>2, <4>1
      <4> QED BY <3>3, <4>1, <4>2
    <3>6. Marked(mask_') = Marked(mask_) \cup {tick}
        BY <3>5 DEF Marked
    <3> QED BY <1>4, <3>1, <3>3, <3>4, <3>6 DEF IsMask
  <2>7. best_first_' = FindFirst(levels') /\ best_last_' = FindLast(levels')
    BY <1>1, <1>9, BestsAfterAdd DEF AddToEmptyLevel, IndexMatchesLevels
  <2>8. IndexMatchesLevels'
    BY <1>2, <2>6, <2>7, IndexAfter
  <2>9. TypeOK'
    <3>1. best_first_' \in Ticks \cup {-1} /\ best_last_' \in Ticks \cup {-1}
        BY <1>1, <1>9 DEF AddToEmptyLevel, TypeOK
    <3>2. /\ price_levels_' \in [Ticks -> Orders \cup {NULL}]
          /\ price_level_tails_' \in [Ticks -> Orders \cup {NULL}]
          /\ next' \in [Orders -> Orders \cup {NULL}]
        BY <2>2
    <3>3. mask_' \in [Words -> SUBSET Bits]
        BY <2>6 DEF IsMask
    <3> QED BY <1>2, <3>1, <3>2, <3>3 DEF TypeOK
  <2> QED BY <1>3, <2>5, <2>8, <2>9 DEF BookInv
<1>10. CASE AddBehindTail(tick, order)
  <2> DEFINE last == price_level_tails_[tick]
  <2>1. n # 0 /\ n \in Nat
    <3>1. IsList(levels[tick], price_levels_[tick], price_level_tails_[tick], next)
        BY <1>6
    <3> QED BY <1>5, <1>10, <3>1 DEF IsList, AddBehindTail
  <2>2. /\ n \in 1 .. n /\ last = levels[tick][n] /\ last \in Orders /\ last # order
        /\ price_levels_[tick] = levels[tick][1]
        /\ \A k \in 1 .. n - 1 : next[levels[tick][k]] = levels[tick][k + 1]
    <3>1. IsList(levels[tick], price_levels_[tick], price_level_tails_[tick], next)
        BY <1>6
    <3>2. n \in 1 .. n
        BY <2>1
    <3> QED BY <1>5, <1>7, <2>1, <3>1, <3>2 DEF IsList
  <2>3. /\ next' = [next EXCEPT ![order] = NULL, ![last] = order]
        /\ next \in [Orders -> Orders \cup {NULL}]
        /\ price_levels_' = price_levels_
        /\ price_level_tails_' = [price_level_tails_ EXCEPT ![tick] = order]
        /\ price_levels_ \in [Ticks -> Orders \cup {NULL}]
        /\ price_level_tails_ \in [Ticks -> Orders \cup {NULL}]
        /\ mask_' = mask_ /\ best_first_' = best_first_ /\ best_last_' = best_last_
      BY <1>1, <1>10 DEF AddBehindTail, TypeOK
  <2> HIDE DEF last
  <2>4. /\ next' \in [Orders -> Orders \cup {NULL}]
        /\ next'[order] = NULL /\ next'[last] = order
        /\ \A o \in Orders : o # order /\ o # last => next'[o] = next[o]
      BY <2>2, <2>3
  <2>5. ASSUME NEW t \in Ticks, NEW k \in 1 .. Len(levels[t]), levels[t][k] = last
        PROVE  t = tick /\ k = n
      BY <1>1, <2>2, <2>5 DEF EachOnce
  <2>6. ASSUME NEW t \in Ticks
        PROVE  IsList(levels'[t], price_levels_'[t], price_level_tails_'[t], next')
    <3>1. CASE t = tick
      <4> DEFINE q == levels'[tick]
      <4>1. Len(q) = n + 1 /\ q[1] = levels[tick][1] /\ q[n + 1] = order
          BY <1>2, <2>1
      <4>2. price_levels_'[tick] = q[1] /\ price_level_tails_'[tick] = q[n + 1]
          BY <2>2, <2>3, <4>1
      <4>3. ASSUME NEW k \in 1 .. n PROVE next'[q[k]] = q[k + 1]
        <5>1. q[k] = levels[tick][k] /\ q[k] \in Orders /\ q[k] # order
            BY <1>2, <1>5, <1>7
        <5>2. CASE k = n
            BY <2>2, <2>4, <4>1, <5>1, <5>2
        <5>3. CASE k # n
          <6>1. k \in 1 .. n - 1 /\ k + 1 \in 1 .. n
              BY <2>1, <5>3
          <6>2. q[k + 1] = levels[tick][k + 1]
              BY <1>2, <6>1
          <6>3. q[k] # last
              BY <2>5, <5>1, <5>3
          <6> QED BY <2>2, <2>4, <5>1, <6>1, <6>2, <6>3
        <5> QED BY <5>2, <5>3
      <4> HIDE DEF q
      <4>4. IsList(q, price_levels_'[tick], price_level_tails_'[tick], next')
          BY <2>1, <2>4, <4>1, <4>2, <4>3 DEF IsList
      <4> QED BY <3>1, <4>4 DEF q
    <3>2. CASE t # tick
      <4>1. \A k \in 1 .. Len(levels[t]) : next'[levels[t][k]] = next[levels[t][k]]
          BY <1>5, <1>7, <2>4, <2>5, <3>2
      <4>2. IsList(levels[t], price_levels_[t], price_level_tails_[t], next')
        <5>1. /\ levels[t] \in Seq(Orders)
              /\ IsList(levels[t], price_levels_[t], price_level_tails_[t], next)
            BY <1>5, <1>6
        <5> QED BY ONLY <5>1, <4>1, OtherListsKept
      <4>3. /\ levels'[t] = levels[t] /\ price_levels_'[t] = price_levels_[t]
            /\ price_level_tails_'[t] = price_level_tails_[t]
          BY <1>2, <2>3, <3>2
      <4> QED BY <4>2, <4>3
    <3> QED BY <3>1, <3>2
  <2>7. NoStrayLink(levels', next')
    <3>1. last \in RestingOrders(levels)
        BY <1>1, <2>2, RestingOrdersProperties
    <3> QED BY <1>6, <1>8, <2>4, <3>1 DEF NoStrayLink
  <2>8. ListsWellFormed'
      BY <1>2, <2>6, <2>7, ListsByLevelAfter
  <2>9. tick \in NonEmptyTicks(levels)
      BY <1>1, <1>5, <2>1 DEF NonEmptyTicks
  <2>10. IsMask(mask_') /\ Marked(mask_') = NonEmptyTicks(levels')
    <3>1. NonEmptyTicks(levels') = NonEmptyTicks(levels)
        BY <1>4, <2>9
    <3>2. IsMask(mask_) /\ Marked(mask_) = NonEmptyTicks(levels)
        BY <1>1, MaskMarksOccupied
    <3> QED BY <2>3, <3>1, <3>2
  <2>11. best_first_' = FindFirst(levels') /\ best_last_' = FindLast(levels')
    <3>1. /\ best_first_ = FindFirst(levels) /\ best_last_ = FindLast(levels)
          /\ best_first_ <= tick /\ tick <= best_last_
          /\ best_first_ \in Ticks /\ best_last_ \in Ticks
      <4>1. MaxTicks \in Nat \ {0} /\ Ticks = 0 .. MaxTicks - 1
          BY BitmaskAssumption DEF Ticks
      <4> QED BY <1>1, <2>9, <4>1, FindFirstProperties, FindLastProperties
              DEF IndexMatchesLevels
    <3>2. ~ (best_first_ < 0 \/ tick < best_first_) /\ ~ (best_last_ < 0 \/ tick > best_last_)
        BY <3>1 DEF Ticks
    <3> QED BY <1>1, <2>3, <3>1, <3>2, BestsAfterAdd
  <2>12. IndexMatchesLevels'
      BY <1>2, <2>10, <2>11, IndexAfter
  <2>13. TypeOK'
      BY <1>1, <1>2, <2>3, <2>4 DEF TypeOK
  <2> QED BY <1>3, <2>8, <2>12, <2>13 DEF BookInv
<1> QED BY <1>9, <1>10

\* The best levels after the last order has left its level, with the mask
\* searched only when the level was the best one.
LEMMA BestsAfterPop ==
    ASSUME NEW lv \in [Ticks -> Seq(Orders)], NEW tick \in Ticks,
           Len(lv[tick]) = 1,
           NEW mask, IsMask(mask),
           Marked(mask) = NonEmptyTicks(PopOrder(lv, tick))
    PROVE  LET new == PopOrder(lv, tick) IN
           /\ FindFirst(new) = IF FindFirst(lv) = tick
                               THEN find_next_from(mask, tick) ELSE FindFirst(lv)
           /\ FindLast(new) = IF FindLast(lv) = tick
                              THEN find_prev_from(mask, tick) ELSE FindLast(lv)
<1> DEFINE new == PopOrder(lv, tick)
           S == NonEmptyTicks(lv)
           R == NonEmptyTicks(new)
           first == FindFirst(lv)
           last == FindLast(lv)
<1>1. MaxTicks \in Nat \ {0} /\ Ticks = 0 .. MaxTicks - 1
    BY BitmaskAssumption DEF Ticks
<1>2. lv[tick] # << >>
  <2>1. lv[tick] = << >> <=> Len(lv[tick]) = 0
      BY LevelFacts
  <2> QED BY <2>1
<1>3. tick \in S
    BY <1>2 DEF NonEmptyTicks
<1>4. new \in [0 .. MaxTicks - 1 -> Seq(Orders)]
  <2>1. new \in [Ticks -> Seq(Orders)]
      BY <1>2, PopOrderProperties
  <2> QED BY <1>1, <2>1
<1>5. R = S \ {tick} /\ R = Marked(mask)
    BY <1>2, OccupiedAfter
<1>6. /\ S \subseteq Ticks
      /\ first \in S /\ \A u \in S : first <= u
      /\ last \in S /\ \A u \in S : u <= last
    BY <1>1, <1>3, FindFirstProperties, FindLastProperties
<1>7. R = {} => FindFirst(new) = -1 /\ FindLast(new) = -1
    BY <1>1, <1>4, FindFirstProperties, FindLastProperties DEF NoLevel
<1> HIDE DEF new, S, R, first, last
<1>8. \A u \in Ticks : u \in Int
    BY <1>1
<1>9. first = tick => FindFirst(new) = find_next_from(mask, tick)
  <2> SUFFICES ASSUME first = tick
               PROVE  FindFirst(new) = find_next_from(mask, tick)
      OBVIOUS
  <2>1. {u \in Marked(mask) : u > tick} = R
    <3>1. \A u \in R : u > tick
        BY <1>5, <1>6, <1>8
    <3> QED BY <1>5, <3>1
  <2>2. CASE R = {}
      BY <1>7, <2>1, <2>2, FindNextFrom
  <2>3. CASE R # {}
    <3>1. /\ find_next_from(mask, tick) \in R
          /\ \A u \in R : find_next_from(mask, tick) <= u
        BY <2>1, <2>3, FindNextFrom
    <3> QED BY <1>1, <1>4, <3>1, BestLevelUnique DEF R
  <2> QED BY <2>2, <2>3
<1>10. last = tick => FindLast(new) = find_prev_from(mask, tick)
  <2> SUFFICES ASSUME last = tick
               PROVE  FindLast(new) = find_prev_from(mask, tick)
      OBVIOUS
  <2>1. {u \in Marked(mask) : u < tick} = R
    <3>1. \A u \in R : u < tick
        BY <1>5, <1>6, <1>8
    <3> QED BY <1>5, <3>1
  <2>2. CASE R = {}
      BY <1>7, <2>1, <2>2, FindPrevFrom
  <2>3. CASE R # {}
    <3>1. /\ find_prev_from(mask, tick) \in R
          /\ \A u \in R : u <= find_prev_from(mask, tick)
        BY <2>1, <2>3, FindPrevFrom
    <3> QED BY <1>1, <1>4, <3>1, BestLevelUnique DEF R
  <2> QED BY <2>2, <2>3
<1>11. first # tick => FindFirst(new) = first
  <2> SUFFICES ASSUME first # tick PROVE FindFirst(new) = first
      OBVIOUS
  <2>1. first \in R /\ \A u \in R : first <= u
      BY <1>5, <1>6
  <2> QED BY <1>1, <1>4, <2>1, BestLevelUnique DEF R
<1>12. last # tick => FindLast(new) = last
  <2> SUFFICES ASSUME last # tick PROVE FindLast(new) = last
      OBVIOUS
  <2>1. last \in R /\ \A u \in R : u <= last
      BY <1>5, <1>6
  <2> QED BY <1>1, <1>4, <2>1, BestLevelUnique DEF R
<1> QED BY <1>9, <1>10, <1>11, <1>12 DEF new, first, last

\* pop_order_known_valid of an occupied level keeps the invariant.
LEMMA PopStep ==
    ASSUME BookInv, NEW tick \in Ticks, price_levels_[tick] # NULL,
           PopHead(tick, price_levels_[tick]),
           levels' = PopOrder(levels, tick)
    PROVE  BookInv'
<1> DEFINE n == Len(levels[tick])
           head == price_levels_[tick]
           mask == [mask_ EXCEPT ![Word(tick)] = @ \ {Bit(tick)}]
<1>1. /\ TypeOK /\ ListsWellFormed /\ IndexMatchesLevels /\ EachOnce(levels)
      /\ levels \in [Ticks -> Seq(Orders)]
    BY DEF BookInv, TypeOK
<1>2. \A t \in Ticks :
        /\ levels[t] \in Seq(Orders) /\ Len(levels[t]) \in Nat
        /\ levels[t] = << >> <=> Len(levels[t]) = 0
        /\ \A k \in 1 .. Len(levels[t]) : levels[t][k] \in Orders /\ levels[t][k] # NULL
    BY <1>1, LevelFacts
<1>3. /\ \A t \in Ticks :
            IsList(levels[t], price_levels_[t], price_level_tails_[t], next)
      /\ NoStrayLink(levels, next)
    BY <1>1, ListsByLevel
<1>4. /\ n \in Nat \ {0} /\ levels[tick] # << >> /\ 1 \in 1 .. n /\ n \in 1 .. n
      /\ head = levels[tick][1] /\ head \in Orders
      /\ price_level_tails_[tick] = levels[tick][n] /\ next[levels[tick][n]] = NULL
      /\ \A k \in 1 .. n - 1 : next[levels[tick][k]] = levels[tick][k + 1]
  <2>1. IsList(levels[tick], price_levels_[tick], price_level_tails_[tick], next)
      BY <1>3
  <2>2. n \in Nat \ {0} /\ levels[tick] # << >>
      BY <1>2, <2>1 DEF IsList
  <2>3. 1 \in 1 .. n /\ n \in 1 .. n
      BY <2>2
  <2> QED BY <1>2, <2>1, <2>2, <2>3 DEF IsList
<1>5. /\ levels' \in [Ticks -> Seq(Orders)]
      /\ \A u \in Ticks \ {tick} : levels'[u] = levels[u]
      /\ Len(levels'[tick]) = n - 1
      /\ \A k \in 1 .. n - 1 : levels'[tick][k] = levels[tick][k + 1]
    BY <1>1, <1>4, PopOrderProperties
<1>6. EachOnce(levels')
    BY <1>1, <1>4, PopKeepsEachOnce
<1>7. ASSUME NEW t \in Ticks, NEW k \in 1 .. Len(levels[t]), levels[t][k] = head
      PROVE  t = tick /\ k = 1
    BY <1>1, <1>4, <1>7 DEF EachOnce
<1>8. \A o \in Orders : o \notin RestingOrders(levels') =>
            o \notin RestingOrders(levels) \/ o = head
  <2> SUFFICES ASSUME NEW o \in Orders, o \in RestingOrders(levels), o # head
               PROVE  o \in RestingOrders(levels')
      OBVIOUS
  <2>1. PICK t \in Ticks : \E k \in 1 .. Len(levels[t]) : levels[t][k] = o
      BY <1>1, RestingOrdersProperties
  <2>2. PICK k \in 1 .. Len(levels[t]) : levels[t][k] = o
      BY <2>1
  <2>3. \E j \in 1 .. Len(levels'[t]) : levels'[t][j] = o
    <3>1. CASE t = tick
      <4>1. k # 1
          BY <1>4, <2>2, <3>1
      <4>2. k - 1 \in 1 .. n - 1 /\ (k - 1) + 1 = k
          BY <1>4, <3>1, <4>1
      <4> QED BY <1>5, <2>2, <3>1, <4>2
    <3>2. CASE t # tick
        BY <1>5, <2>2, <3>2
    <3> QED BY <3>1, <3>2
  <2> QED BY <1>5, <2>3, RestingOrdersProperties
<1>9. /\ price_levels_ \in [Ticks -> Orders \cup {NULL}]
      /\ price_level_tails_ \in [Ticks -> Orders \cup {NULL}]
      /\ next \in [Orders -> Orders \cup {NULL}]
      /\ mask_ \in [Words -> SUBSET Bits]
      /\ best_first_ \in Ticks \cup {-1} /\ best_last_ \in Ticks \cup {-1}
    BY <1>1 DEF TypeOK
<1>10. /\ price_levels_' = [price_levels_ EXCEPT ![tick] = next[head]]
       /\ next' = [next EXCEPT ![head] = NULL]
       /\ \/ /\ next[head] # NULL
             /\ UNCHANGED <<price_level_tails_, mask_, best_first_, best_last_>>
          \/ /\ next[head] = NULL
             /\ price_level_tails_' = [price_level_tails_ EXCEPT ![tick] = NULL]
             /\ mask_' = mask
             /\ best_first_' = IF best_first_ = tick
                               THEN find_next_from(mask, tick) ELSE best_first_
             /\ best_last_' = IF best_last_ = tick
                              THEN find_prev_from(mask, tick) ELSE best_last_
    BY DEF PopHead
<1> HIDE DEF mask, head
<1>11. /\ next' \in [Orders -> Orders \cup {NULL}]
       /\ next'[head] = NULL /\ \A o \in Orders : o # head => next'[o] = next[o]
    BY <1>4, <1>9, <1>10
<1>12. NoStrayLink(levels', next')
    BY <1>3, <1>8, <1>11 DEF NoStrayLink
<1>13. /\ price_levels_'[tick] = next[head] /\ next[head] \in Orders \cup {NULL}
       /\ price_levels_' \in [Ticks -> Orders \cup {NULL}]
       /\ \A t \in Ticks \ {tick} : price_levels_'[t] = price_levels_[t]
    BY <1>4, <1>9, <1>10
<1>14. ASSUME NEW t \in Ticks \ {tick}, price_level_tails_'[t] = price_level_tails_[t]
       PROVE  IsList(levels'[t], price_levels_'[t], price_level_tails_'[t], next')
  <2>1. \A k \in 1 .. Len(levels[t]) : next'[levels[t][k]] = next[levels[t][k]]
      BY <1>2, <1>7, <1>11
  <2>2. IsList(levels[t], price_levels_[t], price_level_tails_[t], next')
    <3>1. /\ levels[t] \in Seq(Orders)
          /\ IsList(levels[t], price_levels_[t], price_level_tails_[t], next)
        BY <1>2, <1>3
    <3> QED BY ONLY <2>1, <3>1, OtherListsKept
  <2>3. levels'[t] = levels[t] /\ price_levels_'[t] = price_levels_[t]
      BY <1>5, <1>13
  <2> QED BY <1>14, <2>2, <2>3
<1>15. CASE n = 1
  <2>1. next[head] = NULL
      BY <1>4, <1>15
  <2>2. /\ price_level_tails_' = [price_level_tails_ EXCEPT ![tick] = NULL]
        /\ mask_' = mask
        /\ best_first_' = IF best_first_ = tick
                          THEN find_next_from(mask, tick) ELSE best_first_
        /\ best_last_' = IF best_last_ = tick
                         THEN find_prev_from(mask, tick) ELSE best_last_
      BY <1>10, <2>1
  <2>3. /\ price_level_tails_' \in [Ticks -> Orders \cup {NULL}]
        /\ price_level_tails_'[tick] = NULL
        /\ \A t \in Ticks \ {tick} : price_level_tails_'[t] = price_level_tails_[t]
      BY <1>9, <2>2
  <2>4. IsList(levels'[tick], price_levels_'[tick], price_level_tails_'[tick], next')
    <3>1. Len(levels'[tick]) = 0
        BY <1>5, <1>15
    <3> QED BY <1>13, <2>1, <2>3, <3>1 DEF IsList
  <2>5. ListsWellFormed'
      BY <1>5, <1>12, <1>14, <2>3, <2>4, ListsByLevelAfter
  <2>6. NonEmptyTicks(levels') = NonEmptyTicks(levels) \ {tick}
      BY <1>1, <1>4, <1>15, OccupiedAfter
  <2>7. IsMask(mask) /\ Marked(mask) = NonEmptyTicks(levels')
    <3>1. /\ IsMask(mask_) /\ Marked(mask_) = NonEmptyTicks(levels)
        BY <1>1, MaskMarksOccupied
    <3>2. Word(tick) \in Words /\ Bit(tick) \in Bits
          /\ tick = Word(tick) * BitsPerWord + Bit(tick)
        BY WordAndBit
    <3>3. /\ mask \in [Words -> SUBSET Bits]
          /\ mask[Word(tick)] = mask_[Word(tick)] \ {Bit(tick)}
          /\ \A w \in Words \ {Word(tick)} : mask[w] = mask_[w]
        BY <1>9, <3>2 DEF mask
    <3>4. \A w \in Words : \A b \in mask[w] : w * BitsPerWord + b \in Ticks
        BY <3>1, <3>3 DEF IsMask
    <3>5. ASSUME NEW u \in Ticks
          PROVE  Bit(u) \in mask[Word(u)] <=> Bit(u) \in mask_[Word(u)] /\ u # tick
      <4>1. Word(u) \in Words /\ u = Word(u) * BitsPerWord + Bit(u)
          BY WordAndBit
      <4>2. Word(u) = Word(tick) /\ Bit(u) = Bit(tick) => u = tick
          BY <3>2, <4>1
      <4> QED BY <3>3, <4>1, <4>2
    <3>6. Marked(mask) = Marked(mask_) \ {tick}
        BY <3>5 DEF Marked
    <3> QED BY <2>6, <3>1, <3>3, <3>4, <3>6 DEF IsMask
  <2>8. best_first_' = FindFirst(levels') /\ best_last_' = FindLast(levels')
    <3>1. best_first_ = FindFirst(levels) /\ best_last_ = FindLast(levels)
        BY <1>1 DEF IndexMatchesLevels
    <3> QED BY <1>1, <1>15, <2>2, <2>7, <3>1, BestsAfterPop
  <2>9. IndexMatchesLevels'
      BY <1>5, <2>2, <2>7, <2>8, IndexAfter
  <2>10. best_first_' \in Ticks \cup {-1} /\ best_last_' \in Ticks \cup {-1}
    <3>1. MaxTicks \in Nat \ {0} /\ Ticks = 0 .. MaxTicks - 1
        BY BitmaskAssumption DEF Ticks
    <3> QED BY <1>5, <2>8, <3>1, FindFirstProperties, FindLastProperties DEF NoLevel
  <2>11. TypeOK'
      BY <1>5, <1>11, <1>13, <2>2, <2>3, <2>7, <2>10 DEF TypeOK, IsMask
  <2> QED BY <1>6, <2>5, <2>9, <2>11 DEF BookInv
<1>16. CASE n # 1
  <2>1. /\ 2 \in 1 .. n /\ 1 \in 1 .. n - 1 /\ n - 1 \in 1 .. n - 1
        /\ (n - 1) + 1 = n /\ n - 1 # 0
    <3>1. n \in Nat \ {0} /\ n # 1
        BY <1>4, <1>16
    <3> HIDE DEF n
    <3> QED BY ONLY <3>1
  <2>2. next[head] = levels[tick][2] /\ next[head] # NULL
    <3>1. next[levels[tick][1]] = levels[tick][1 + 1] /\ levels[tick][2] # NULL
        BY <1>2, <1>4, <2>1
    <3> QED BY <1>4, <3>1
  <2>3. /\ price_level_tails_' = price_level_tails_ /\ mask_' = mask_
        /\ best_first_' = best_first_ /\ best_last_' = best_last_
      BY <1>10, <2>2
  <2>4. IsList(levels'[tick], price_levels_'[tick], price_level_tails_'[tick], next')
    <3> DEFINE q == levels'[tick]
               p == levels[tick]
    <3>1. Len(q) = n - 1 /\ q[1] = p[2] /\ q[n - 1] = p[n]
        BY <1>5, <2>1
    <3>2. price_levels_'[tick] = q[1] /\ price_level_tails_'[tick] = q[n - 1]
        BY <1>4, <1>13, <2>2, <2>3, <3>1
    <3>3. \A k \in 2 .. n : p[k] \in Orders /\ p[k] # head
        BY <1>2, <1>4, <1>7
    <3>4. next'[q[n - 1]] = NULL
        BY <1>4, <1>11, <2>1, <3>1, <3>3
    <3>5. ASSUME NEW k \in 1 .. (n - 1) - 1 PROVE next'[q[k]] = q[k + 1]
      <4>1. /\ k \in 1 .. n - 1 /\ k + 1 \in 1 .. n - 1 /\ k + 1 \in 2 .. n
          BY <1>4
      <4>2. q[k] = p[k + 1] /\ q[k + 1] = p[(k + 1) + 1]
          BY <1>5, <4>1
      <4>3. next'[p[k + 1]] = next[p[k + 1]] /\ next[p[k + 1]] = p[(k + 1) + 1]
          BY <1>4, <1>11, <3>3, <4>1
      <4> QED BY <4>2, <4>3
    <3> HIDE DEF q, p
    <3>6. IsList(q, price_levels_'[tick], price_level_tails_'[tick], next')
        BY <2>1, <3>1, <3>2, <3>4, <3>5 DEF IsList
    <3> QED BY <3>6 DEF q
  <2>5. ListsWellFormed'
      BY <1>5, <1>12, <1>14, <2>3, <2>4, ListsByLevelAfter
  <2>6. NonEmptyTicks(levels') = NonEmptyTicks(levels)
      BY <1>1, <1>4, <1>16, OccupiedAfter
  <2>7. IsMask(mask_') /\ Marked(mask_') = NonEmptyTicks(levels')
      BY <1>1, <2>3, <2>6, MaskMarksOccupied
  <2>8. best_first_' = FindFirst(levels') /\ best_last_' = FindLast(levels')
      BY <1>1, <2>3, <2>6 DEF IndexMatchesLevels, FindFirst, FindLast
  <2>9. IndexMatchesLevels'
      BY <1>5, <2>7, <2>8, IndexAfter
  <2>10. TypeOK'
      BY <1>5, <1>9, <1>11, <1>13, <2>3 DEF TypeOK
  <2> QED BY <1>6, <2>5, <2>9, <2>10 DEF BookInv
<1> QED BY <1>15, <1>16

-----------------------------------------------------------------------------
(* The bitmask book.                                                        *)

\* An empty book has the invariant.
LEMMA BookInvInit == Init => BookInv
<1> SUFFICES ASSUME Init PROVE BookInv
    OBVIOUS
<1>1. /\ levels = [t \in Ticks |-> << >>]
      /\ levels \in [Ticks -> Seq(Orders)] /\ \A t \in Ticks : Len(levels[t]) = 0
    BY DEF Init, EmptyLevels
<1>2. NonEmptyTicks(levels) = {}
    BY <1>1 DEF NonEmptyTicks
<1>3. FindFirst(levels) = -1 /\ FindLast(levels) = -1
    BY <1>2 DEF FindFirst, FindLast, NoLevel
<1>4. \A t \in Ticks : Word(t) \in Words
    BY WordAndBit
<1>5. TypeOK
    BY <1>1 DEF Init, TypeOK
<1>6. ListsWellFormed
    BY <1>1 DEF Init, ListsWellFormed
<1>7. IndexMatchesLevels
    BY <1>1, <1>3, <1>4 DEF Init, IndexMatchesLevels
<1>8. EachOnce(levels)
    BY <1>1 DEF EachOnce
<1> QED BY <1>5, <1>6, <1>7, <1>8 DEF BookInv

\* A call that changes no list keeps the invariant.
LEMMA SameStateKeepsBookInv ==
    ASSUME BookInv, UNCHANGED <<state, levels>>
    PROVE  BookInv'
<1>1. /\ price_levels_' = price_levels_ /\ price_level_tails_' = price_level_tails_
      /\ mask_' = mask_ /\ best_first_' = best_first_ /\ best_last_' = best_last_
      /\ next' = next /\ levels' = levels
    BY DEF state
<1>2. TypeOK'
    BY <1>1 DEF BookInv, TypeOK
<1>3. ListsWellFormed'
    BY <1>1 DEF BookInv, ListsWellFormed
<1>4. IndexMatchesLevels'
    BY <1>1 DEF BookInv, IndexMatchesLevels
<1>5. EachOnce(levels')
    BY <1>1 DEF BookInv
<1> QED BY <1>2, <1>3, <1>4, <1>5 DEF BookInv

\* The head of a level is its oldest order.
LEMMA HeadIsOldest ==
    ASSUME BookInv, NEW tick \in Ticks
    PROVE  /\ price_levels_[tick] = PeekOrder(levels, tick, NULL)
           /\ price_levels_[tick] = NULL <=> levels[tick] = << >>
<1>1. levels \in [Ticks -> Seq(Orders)] /\ ListsWellFormed
    BY DEF BookInv, TypeOK
<1>2. IsList(levels[tick], price_levels_[tick], price_level_tails_[tick], next)
    BY <1>1, ListsByLevel
<1>3. /\ levels[tick] = << >> => PeekOrder(levels, tick, NULL) = NULL
      /\ levels[tick] # << >> => /\ Len(levels[tick]) # 0
                                 /\ PeekOrder(levels, tick, NULL) = levels[tick][1]
                                 /\ levels[tick][1] # NULL
    BY <1>1, PeekOrderProperties, BitmaskAssumption
<1>4. levels[tick] = << >> => Len(levels[tick]) = 0
    BY <1>1, LevelFacts
<1> QED BY <1>2, <1>3, <1>4 DEF IsList

\* Popping a level without orders leaves the abstract book alone.
LEMMA PopOfEmptyLevel ==
    ASSUME NEW lv \in [Ticks -> Seq(Orders)], NEW tick \in Ticks, lv[tick] = << >>
    PROVE  PopOrder(lv, tick) = lv
    BY DEF PopOrder

\* Every call keeps the invariant.
LEMMA BookInvStep == BookInv /\ [Next]_vars => BookInv'
<1> SUFFICES ASSUME BookInv, [Next]_vars PROVE BookInv'
    OBVIOUS
<1>1. ASSUME NEW tick \in Ticks, NEW order \in Orders \cup {NULL},
             add_order_known_valid(tick, order)
      PROVE  BookInv'
  <2>1. CASE order = NULL /\ UNCHANGED <<state, levels>>
      BY <2>1, SameStateKeepsBookInv
  <2>2. CASE /\ order # NULL
             /\ AddToEmptyLevel(tick, order) \/ AddBehindTail(tick, order)
             /\ levels' = AddOrder(levels, tick, order)
    <3>1. order \in Orders /\ order \notin RestingOrders(levels)
        BY <1>1, <2>2 DEF add_order_known_valid
    <3> QED BY <2>2, <3>1, AddStep
  <2> QED BY <1>1, <2>1, <2>2 DEF add_order_known_valid
<1>2. ASSUME NEW tick \in Ticks, peek_order_known_valid(tick)
      PROVE  BookInv'
    BY <1>2, SameStateKeepsBookInv DEF peek_order_known_valid
<1>3. ASSUME NEW tick \in Ticks, pop_order_known_valid(tick)
      PROVE  BookInv'
  <2>1. levels' = PopOrder(levels, tick)
      BY <1>3 DEF pop_order_known_valid
  <2>2. CASE price_levels_[tick] = NULL /\ UNCHANGED state
    <3>1. levels' = levels
        BY <2>1, <2>2, HeadIsOldest, PopOfEmptyLevel DEF BookInv, TypeOK
    <3> QED BY <2>2, <3>1, SameStateKeepsBookInv
  <2>3. CASE price_levels_[tick] # NULL /\ PopHead(tick, price_levels_[tick])
      BY <2>1, <2>3, PopStep
  <2> QED BY <1>3, <2>2, <2>3 DEF pop_order_known_valid
<1>4. ASSUME find_first PROVE BookInv'
    BY <1>4, SameStateKeepsBookInv DEF find_first
<1>5. ASSUME find_last PROVE BookInv'
    BY <1>5, SameStateKeepsBookInv DEF find_last
<1>6. CASE UNCHANGED vars
    BY <1>6, SameStateKeepsBookInv DEF vars
<1> QED BY <1>1, <1>2, <1>3, <1>4, <1>5, <1>6 DEF Next

\* The bitmask book: the types hold, the lists and the index agree with the
\* book that the calls result in, and no order is listed twice.
THEOREM BookInvariant == Spec => []BookInv
    BY BookInvInit, BookInvStep, PTL DEF Spec

\* The bitmask book's variables start as those of an empty abstract book.
LEMMA AbstractInit == Init => Abstract!Init
    BY DEF Init, Abstract!Init, Ticks, Abstract!Ticks, EmptyLevels, Returns,
           Abstract!EmptyLevels, Abstract!Returns

\* Every call answers as the abstract book does.
LEMMA AbstractStep ==
    BookInv /\ [Next]_vars => [Abstract!Next]_<<levels, reply>>
<1> SUFFICES ASSUME BookInv, [Next]_vars
             PROVE  [Abstract!Next]_<<levels, reply>>
    OBVIOUS
<1> USE DEF Abstract!Returns, Returns, Abstract!AddOrder, AddOrder,
            Abstract!PopOrder, PopOrder, Abstract!PeekOrder, PeekOrder,
            Abstract!RestingOrders, RestingOrders, Abstract!Ticks, Ticks
<1>1. ASSUME NEW tick \in Ticks, NEW order \in Orders \cup {NULL},
             add_order_known_valid(tick, order)
      PROVE  Abstract!Add(tick, order)
    BY <1>1 DEF add_order_known_valid, Abstract!Add
<1>2. ASSUME NEW tick \in Ticks, peek_order_known_valid(tick)
      PROVE  Abstract!Peek(tick)
    BY <1>2, HeadIsOldest DEF peek_order_known_valid, Abstract!Peek
<1>3. ASSUME NEW tick \in Ticks, pop_order_known_valid(tick)
      PROVE  Abstract!Pop(tick)
    BY <1>3, HeadIsOldest DEF pop_order_known_valid, Abstract!Pop
<1>4. ASSUME find_first PROVE Abstract!First
    BY <1>4 DEF find_first, Abstract!First, BookInv, IndexMatchesLevels, FindFirst,
                Abstract!FindFirst, NonEmptyTicks, Abstract!NonEmptyTicks, NoLevel,
                Abstract!NoLevel
<1>5. ASSUME find_last PROVE Abstract!Last
    BY <1>5 DEF find_last, Abstract!Last, BookInv, IndexMatchesLevels, FindLast,
                Abstract!FindLast, NonEmptyTicks, Abstract!NonEmptyTicks, NoLevel,
                Abstract!NoLevel
<1>6. CASE UNCHANGED vars
    BY <1>6 DEF vars
<1> QED BY <1>1, <1>2, <1>3, <1>4, <1>5, <1>6 DEF Next, Abstract!Next

\* ImplementsOrderBook: every call on a bitmask book returns what the abstract
\* order book would return.
THEOREM BitmaskImplementsOrderBook == Spec => ImplementsOrderBook
<1>1. Spec => Abstract!Spec
    BY BookInvInit, BookInvStep, AbstractInit, AbstractStep, PTL
    DEF Spec, Abstract!Spec
<1> QED BY <1>1 DEF ImplementsOrderBook

-----------------------------------------------------------------------------
(* The map book beside it.                                                  *)

\* The calls on both books are calls on the bitmask book.
LEMMA BothStep == [BothNext]_bothVars => [Next]_vars
    BY DEF BothNext, bothVars, Next, vars

\* The front of a level's queue is its oldest order.
LEMMA FrontIsOldest ==
    ASSUME levels \in [Ticks -> Seq(Orders)], MapHoldsOccupiedLevels,
           NEW tick \in Ticks
    PROVE  /\ Map!Front(tick) = PeekOrder(levels, tick, NULL)
           /\ Map!Front(tick) = NULL <=> levels[tick] = << >>
<1>1. tick \in DOMAIN map_levels <=> levels[tick] # << >>
    BY DEF MapHoldsOccupiedLevels, Map!MapHoldsOccupiedLevels, Map!Keys,
           NonEmptyTicks, Map!NonEmptyTicks
<1>2. tick \in DOMAIN map_levels => map_levels[tick] = levels[tick]
    BY DEF MapHoldsOccupiedLevels, Map!MapHoldsOccupiedLevels, Map!Keys
<1>3. Map!Front(tick) = PeekOrder(levels, tick, NULL)
    BY <1>1, <1>2 DEF Map!Front, Map!Keys, PeekOrder
<1>4. PeekOrder(levels, tick, NULL) = NULL <=> levels[tick] = << >>
    BY PeekOrderProperties, BitmaskAssumption
<1> QED BY <1>3, <1>4

\* The map keeps the occupied levels when an order joins one.
LEMMA MapAddStep ==
    ASSUME levels \in [Ticks -> Seq(Orders)], MapHoldsOccupiedLevels,
           NEW tick \in Ticks, NEW order \in Orders,
           map_levels' = Map!PushBack(tick, order),
           levels' = AddOrder(levels, tick, order)
    PROVE  MapHoldsOccupiedLevels'
<1>1. /\ DOMAIN map_levels = NonEmptyTicks(levels)
      /\ \A t \in DOMAIN map_levels : map_levels[t] = levels[t]
    BY DEF MapHoldsOccupiedLevels, Map!MapHoldsOccupiedLevels, Map!Keys,
           NonEmptyTicks, Map!NonEmptyTicks
<1>2. NonEmptyTicks(levels') = NonEmptyTicks(levels) \cup {tick}
    BY OccupiedAfter
<1>3. DOMAIN map_levels' = NonEmptyTicks(levels')
    BY <1>1, <1>2 DEF Map!PushBack, Map!Keys
<1>4. ASSUME NEW t \in DOMAIN map_levels' PROVE map_levels'[t] = levels'[t]
  <2>1. t \in Ticks /\ t \in NonEmptyTicks(levels) \cup {tick}
      BY <1>2, <1>3, <1>4 DEF NonEmptyTicks
  <2>2. CASE t # tick
      BY <1>1, <2>1, <2>2 DEF Map!PushBack, Map!Keys, AddOrder
  <2>3. CASE t = tick /\ t \in DOMAIN map_levels
      BY <1>1, <2>1, <2>3 DEF Map!PushBack, Map!Keys, AddOrder
  <2>4. CASE t = tick /\ t \notin DOMAIN map_levels
    <3>1. levels[t] = << >>
        BY <1>1, <2>1, <2>4 DEF NonEmptyTicks
    <3>2. map_levels'[t] = <<order>>
        BY <2>4 DEF Map!PushBack, Map!Keys
    <3>3. levels'[t] = Append(<< >>, order)
        BY <2>4, <3>1 DEF AddOrder
    <3> QED BY <3>2, <3>3
  <2> QED BY <2>2, <2>3, <2>4
<1> QED BY <1>3, <1>4 DEF MapHoldsOccupiedLevels, Map!MapHoldsOccupiedLevels,
                          Map!Keys, NonEmptyTicks, Map!NonEmptyTicks

\* The map keeps the occupied levels when an order leaves one, the level being
\* erased with its last order.
LEMMA MapPopStep ==
    ASSUME levels \in [Ticks -> Seq(Orders)], MapHoldsOccupiedLevels,
           NEW tick \in Ticks, levels[tick] # << >>,
           map_levels' = Map!PopFront(tick),
           levels' = PopOrder(levels, tick)
    PROVE  MapHoldsOccupiedLevels'
<1>1. /\ DOMAIN map_levels = NonEmptyTicks(levels)
      /\ \A t \in DOMAIN map_levels : map_levels[t] = levels[t]
    BY DEF MapHoldsOccupiedLevels, Map!MapHoldsOccupiedLevels, Map!Keys,
           NonEmptyTicks, Map!NonEmptyTicks
<1>2. NonEmptyTicks(levels') = IF Len(levels[tick]) = 1
                               THEN NonEmptyTicks(levels) \ {tick}
                               ELSE NonEmptyTicks(levels)
    BY OccupiedAfter
<1>3. tick \in DOMAIN map_levels /\ map_levels[tick] = levels[tick]
    BY <1>1 DEF NonEmptyTicks
<1>4. DOMAIN map_levels' = NonEmptyTicks(levels')
    BY <1>1, <1>2, <1>3 DEF Map!PopFront, Map!Keys
<1>5. ASSUME NEW t \in DOMAIN map_levels' PROVE map_levels'[t] = levels'[t]
  <2>1. t \in Ticks /\ t \in DOMAIN map_levels
      BY <1>1, <1>2, <1>4, <1>5 DEF NonEmptyTicks
  <2>2. CASE t # tick
      BY <1>1, <2>1, <2>2 DEF Map!PopFront, Map!Keys, PopOrder
  <2>3. CASE t = tick
    <3>1. Len(map_levels[tick]) # 1
        BY <1>2, <1>3, <1>4, <2>3
    <3>2. map_levels'[tick] = Tail(levels[tick])
        BY <1>3, <3>1 DEF Map!PopFront
    <3>3. levels'[tick] = Tail(levels[tick])
        BY DEF PopOrder
    <3> QED BY <2>3, <3>2, <3>3
  <2> QED BY <2>2, <2>3
<1> QED BY <1>4, <1>5 DEF MapHoldsOccupiedLevels, Map!MapHoldsOccupiedLevels,
                          Map!Keys, NonEmptyTicks, Map!NonEmptyTicks

\* Both books' invariants, with the answers of the last call.
BothInv ==
    /\ BookInv
    /\ MapHoldsOccupiedLevels
    /\ SameAnswers

\* Two empty books have the invariant.
LEMMA BothInvInit == BothInit => BothInv
<1> SUFFICES ASSUME BothInit PROVE BothInv
    OBVIOUS
<1>1. BookInv
    BY BookInvInit DEF BothInit
<1>2. NonEmptyTicks(levels) = {} /\ DOMAIN map_levels = {}
    BY DEF BothInit, Init, Map!Init, EmptyLevels, NonEmptyTicks
<1>3. MapHoldsOccupiedLevels
    BY <1>2 DEF MapHoldsOccupiedLevels, Map!MapHoldsOccupiedLevels, Map!Keys,
                NonEmptyTicks, Map!NonEmptyTicks
<1>4. SameAnswers
    BY DEF BothInit, Init, Map!Init, Returns, Map!Returns, SameAnswers
<1> QED BY <1>1, <1>3, <1>4 DEF BothInv

\* A call answered alike by both books, with the map's levels unchanged.
LEMMA SameMapKept ==
    ASSUME MapHoldsOccupiedLevels, map_levels' = map_levels, levels' = levels
    PROVE  MapHoldsOccupiedLevels'
    BY DEF MapHoldsOccupiedLevels, Map!MapHoldsOccupiedLevels, Map!Keys,
           NonEmptyTicks, Map!NonEmptyTicks

\* Every call made on both books keeps the invariant.
LEMMA BothInvStep == BothInv /\ [BothNext]_bothVars => BothInv'
<1> SUFFICES ASSUME BothInv, [BothNext]_bothVars PROVE BothInv'
    OBVIOUS
<1>1. /\ BookInv /\ MapHoldsOccupiedLevels /\ SameAnswers
      /\ levels \in [Ticks -> Seq(Orders)] /\ IndexMatchesLevels
    BY DEF BothInv, BookInv, TypeOK
<1>2. BookInv'
    BY <1>1, BothStep, BookInvStep
<1> USE DEF Returns, Map!Returns
<1>3. ASSUME NEW tick \in Ticks, NEW order \in Orders \cup {NULL},
             add_order_known_valid(tick, order),
             Map!add_order_known_valid(tick, order)
      PROVE  MapHoldsOccupiedLevels' /\ SameAnswers'
  <2>1. reply' = map_reply'
      BY <1>3 DEF add_order_known_valid, Map!add_order_known_valid
  <2>2. CASE order = NULL
      BY <1>1, <1>3, <2>1, <2>2, SameMapKept
      DEF Map!add_order_known_valid, SameAnswers
  <2>3. CASE order # NULL
    <3>1. /\ order \in Orders /\ map_levels' = Map!PushBack(tick, order)
          /\ levels' = AddOrder(levels, tick, order)
        BY <1>3, <2>3 DEF add_order_known_valid, Map!add_order_known_valid
    <3> QED BY <1>1, <2>1, <3>1, MapAddStep DEF SameAnswers
  <2> QED BY <2>2, <2>3
<1>4. ASSUME NEW tick \in Ticks, peek_order_known_valid(tick),
             Map!peek_order_known_valid(tick)
      PROVE  MapHoldsOccupiedLevels' /\ SameAnswers'
    BY <1>1, <1>4, HeadIsOldest, FrontIsOldest, SameMapKept
    DEF peek_order_known_valid, Map!peek_order_known_valid, SameAnswers
<1>5. ASSUME NEW tick \in Ticks, pop_order_known_valid(tick),
             Map!pop_order_known_valid(tick)
      PROVE  MapHoldsOccupiedLevels' /\ SameAnswers'
  <2>1. reply' = map_reply'
      BY <1>1, <1>5, HeadIsOldest, FrontIsOldest
      DEF pop_order_known_valid, Map!pop_order_known_valid
  <2>2. levels' = PopOrder(levels, tick)
      BY <1>5 DEF pop_order_known_valid
  <2>3. CASE levels[tick] = << >>
    <3>1. map_levels' = map_levels
        BY <1>1, <1>5, <2>3, FrontIsOldest DEF Map!pop_order_known_valid
    <3>2. levels' = levels
        BY <1>1, <2>2, <2>3, PopOfEmptyLevel
    <3> QED BY <1>1, <2>1, <3>1, <3>2, SameMapKept DEF SameAnswers
  <2>4. CASE levels[tick] # << >>
    <3>1. map_levels' = Map!PopFront(tick)
        BY <1>1, <1>5, <2>4, FrontIsOldest DEF Map!pop_order_known_valid
    <3> QED BY <1>1, <2>1, <2>2, <2>4, <3>1, MapPopStep DEF SameAnswers
  <2> QED BY <2>3, <2>4
<1>6. DOMAIN map_levels = NonEmptyTicks(levels)
    BY <1>1 DEF MapHoldsOccupiedLevels, Map!MapHoldsOccupiedLevels, Map!Keys,
                NonEmptyTicks, Map!NonEmptyTicks
<1>7. ASSUME find_first, Map!find_first
      PROVE  MapHoldsOccupiedLevels' /\ SameAnswers'
  <2>1. Map!FirstKey = FindFirst(levels)
      BY <1>6 DEF Map!FirstKey, Map!Keys, FindFirst, NoLevel
  <2> QED BY <1>1, <1>7, <2>1, SameMapKept
          DEF find_first, Map!find_first, IndexMatchesLevels, SameAnswers
<1>8. ASSUME find_last, Map!find_last
      PROVE  MapHoldsOccupiedLevels' /\ SameAnswers'
  <2>1. Map!LastKey = FindLast(levels)
      BY <1>6 DEF Map!LastKey, Map!Keys, FindLast, NoLevel
  <2> QED BY <1>1, <1>8, <2>1, SameMapKept
          DEF find_last, Map!find_last, IndexMatchesLevels, SameAnswers
<1>9. ASSUME UNCHANGED bothVars
      PROVE  MapHoldsOccupiedLevels' /\ SameAnswers'
  <2>1. /\ map_levels' = map_levels /\ map_reply' = map_reply
        /\ reply' = reply /\ levels' = levels
      BY <1>9 DEF bothVars, vars
  <2> QED BY <1>1, <2>1, SameMapKept DEF SameAnswers
<1>10. MapHoldsOccupiedLevels' /\ SameAnswers'
  <2>1. CASE \E tick \in Ticks : \E order \in Orders \cup {NULL} :
                /\ add_order_known_valid(tick, order)
                /\ Map!add_order_known_valid(tick, order)
      BY <1>3, <2>1
  <2>2. CASE \E tick \in Ticks :
                peek_order_known_valid(tick) /\ Map!peek_order_known_valid(tick)
      BY <1>4, <2>2
  <2>3. CASE \E tick \in Ticks :
                pop_order_known_valid(tick) /\ Map!pop_order_known_valid(tick)
      BY <1>5, <2>3
  <2>4. CASE (find_first /\ Map!find_first) \/ (find_last /\ Map!find_last)
      BY <1>7, <1>8, <2>4
  <2> QED BY <1>9, <2>1, <2>2, <2>3, <2>4 DEF BothNext
<1> QED BY <1>2, <1>10 DEF BothInv

\* The same calls made on both books keep both invariants and get the same
\* answers.
THEOREM BothBooksInvariant == BothSpec => []BothInv
    BY BothInvInit, BothInvStep, PTL DEF BothSpec

\* TypeOK: a cached best is -1 or a tick of the book, never an index past the
\* arrays.
THEOREM BookTypes == BothSpec => []TypeOK
<1>1. BothInv => TypeOK
    BY DEF BothInv, BookInv
<1> QED BY <1>1, BothBooksInvariant, PTL

\* ListsWellFormed: the links from a level's head visit the level's orders in
\* arrival order and end at its tail, and a popped order keeps no link.
THEOREM BookLists == BothSpec => []ListsWellFormed
<1>1. BothInv => ListsWellFormed
    BY DEF BothInv, BookInv
<1> QED BY <1>1, BothBooksInvariant, PTL

\* IndexMatchesLevels: the mask marks exactly the occupied ticks, and the
\* cached bests are the lowest and the highest of them.
THEOREM BookIndex == BothSpec => []IndexMatchesLevels
<1>1. BothInv => IndexMatchesLevels
    BY DEF BothInv, BookInv
<1> QED BY <1>1, BothBooksInvariant, PTL

\* MapHoldsOccupiedLevels: the map holds the occupied levels and nothing else,
\* so that its ends are the best levels.
THEOREM MapLevels == BothSpec => []MapHoldsOccupiedLevels
<1>1. BothInv => MapHoldsOccupiedLevels
    BY DEF BothInv
<1> QED BY <1>1, BothBooksInvariant, PTL

\* SameAnswers: the strategies are interchangeable.
THEOREM StrategiesInterchangeable == BothSpec => []SameAnswers
<1>1. BothInv => SameAnswers
    BY DEF BothInv
<1> QED BY <1>1, BothBooksInvariant, PTL

\* ImplementsOrderBook: with both books at work, each call returns what the
\* abstract order book would return; by SameAnswers this is so of either.
THEOREM BooksImplementOrderBook == BothSpec => ImplementsOrderBook
<1>1. BothInit => Abstract!Init
    BY AbstractInit DEF BothInit
<1>2. BothInv /\ [BothNext]_bothVars => [Abstract!Next]_<<levels, reply>>
    BY BothStep, AbstractStep DEF BothInv
<1>3. BothSpec => Abstract!Spec
    BY <1>1, <1>2, BothBooksInvariant, PTL DEF BothSpec, Abstract!Spec
<1> QED BY <1>3 DEF ImplementsOrderBook
=============================================================================
