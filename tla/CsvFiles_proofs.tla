--------------------------- MODULE CsvFiles_proofs ---------------------------
(***************************************************************************)
(* For order files of any text: the orders published are the records of the *)
(* file, and every row of the report is read as the order it refuses.  The  *)
(* parsers and the cutting up are first shown to agree with what CsvFiles   *)
(* says texts mean, without scanning them.                                  *)
(***************************************************************************)
EXTENDS CsvFiles, SequenceTheorems, FiniteSetTheorems, WellFoundedInduction, TLAPS

\* A set of naturals has a least element.
LEMMA Least ==
    ASSUME NEW T \in SUBSET Nat, T # {}
    PROVE  \E m \in T : \A k \in T : m <= k
<1> DEFINE R == OpToRel(<, Nat)
<1>1. IsWellFoundedOn(R, Nat)
    BY NatLessThanWellFounded
<1>2. \A x \in Nat, y \in Nat : y < x => <<y, x>> \in R
    BY DEF OpToRel
<1> HIDE DEF R
<1>3. PICK x \in T : \A y \in T : ~ (<<y, x>> \in R)
    BY <1>1, WFMin
<1>4. ASSUME NEW k \in T PROVE x <= k
  <2>1. x \in Nat /\ k \in Nat /\ ~ (<<k, x>> \in R)
      BY <1>3
  <2> QED BY <1>2, <2>1
<1> QED BY <1>4

\* So has a bounded one a greatest.
LEMMA Greatest ==
    ASSUME NEW N \in Nat, NEW T \in SUBSET (0 .. N), T # {}
    PROVE  \E m \in T : \A k \in T : k <= m
<1> DEFINE U == {N - k : k \in T}
<1>1. U \in SUBSET Nat /\ U # {}
  <2>1. PICK k \in T : TRUE
      OBVIOUS
  <2>2. N - k \in U
      BY <2>1
  <2> QED BY <2>2
<1>2. PICK u \in U : \A v \in U : u <= v
  <2> HIDE DEF U
  <2> QED BY <1>1, Least
<1>3. PICK m \in T : u = N - m
    OBVIOUS
<1>4. ASSUME NEW k \in T PROVE k <= m
  <2>1. N - k \in U
      OBVIOUS
  <2>2. u <= N - k /\ k \in 0 .. N /\ m \in 0 .. N
      BY <1>2, <2>1
  <2> QED BY <1>3, <2>2
<1> QED BY <1>4

\* What holds of 0, and of a number whenever it holds of the one before.
LEMMA UpTo ==
    ASSUME NEW N \in Nat, NEW T, 0 \in T,
           \A k \in 1 .. N : k - 1 \in T => k \in T
    PROVE  \A k \in 0 .. N : k \in T
<1> DEFINE U == {k \in 0 .. N : k \notin T}
<1> SUFFICES ASSUME U # {} PROVE FALSE
    OBVIOUS
<1>1. U \in SUBSET Nat
    OBVIOUS
<1>2. PICK m \in U : \A k \in U : m <= k
  <2> HIDE DEF U
  <2> QED BY <1>1, Least
<1>3. m \in 1 .. N /\ m \notin T /\ m - 1 \in 0 .. N /\ ~ (m <= m - 1)
    OBVIOUS
<1>4. m - 1 \in T
    BY <1>2, <1>3
<1> QED BY <1>3, <1>4

\* f begins with base, and each further value is made of the one before.
Steps(f, n, S, base, step) ==
    /\ f \in [0 .. n -> S]
    /\ f[0] = base
    /\ \A k \in 1 .. n : f[k] = step[<<f[k - 1], k>>]

\* There is such a function.
LEMMA Recursion ==
    ASSUME NEW S, NEW N \in Nat, NEW base \in S, NEW step \in [S \X (1 .. N) -> S]
    PROVE  \E f : Steps(f, N, S, base, step)
<1> DEFINE T == {n \in 0 .. N : \E f : Steps(f, n, S, base, step)}
<1>1. 0 \in T
  <2>1. Steps([k \in 0 .. 0 |-> base], 0, S, base, step)
      BY DEF Steps
  <2> QED BY <2>1
<1>2. ASSUME NEW m \in 1 .. N, m - 1 \in T PROVE m \in T
  <2>1. PICK f : Steps(f, m - 1, S, base, step)
      BY <1>2
  <2> DEFINE g == [k \in 0 .. m |-> IF k = m THEN step[<<f[m - 1], m>>] ELSE f[k]]
  <2>2. f[m - 1] \in S /\ step[<<f[m - 1], m>>] \in S
    <3>1. m - 1 \in 0 .. m - 1
        OBVIOUS
    <3> QED BY <2>1, <3>1 DEF Steps
  <2>3. /\ \A k \in 0 .. m - 1 : k \in 0 .. m /\ k # m /\ g[k] = f[k] /\ f[k] \in S
        /\ m \in 0 .. m /\ g[m] = step[<<f[m - 1], m>>]
      BY <2>1 DEF Steps
  <2>4. g \in [0 .. m -> S]
      BY <2>1, <2>2 DEF Steps
  <2> HIDE DEF g
  <2>5. ASSUME NEW k \in 1 .. m PROVE g[k] = step[<<g[k - 1], k>>]
    <3>1. CASE k = m
      <4>1. m - 1 \in 0 .. m - 1
          OBVIOUS
      <4> QED BY <2>3, <3>1, <4>1
    <3>2. CASE k # m
      <4>1. k \in 1 .. m - 1 /\ k \in 0 .. m - 1 /\ k - 1 \in 0 .. m - 1
          BY <3>2
      <4> QED BY <2>1, <2>3, <4>1 DEF Steps
    <3> QED BY <3>1, <3>2
  <2>6. g[0] = base
    <3>1. 0 \in 0 .. m - 1
        OBVIOUS
    <3> QED BY <2>1, <2>3, <3>1 DEF Steps
  <2>7. Steps(g, m, S, base, step)
      BY <2>4, <2>5, <2>6 DEF Steps
  <2> QED BY <2>7
<1>3. \A k \in 0 .. N : k \in T
  <2> HIDE DEF T
  <2> QED BY <1>1, <1>2, UpTo
<1> QED BY <1>3

-----------------------------------------------------------------------------
(* Characters and scanning.                                                 *)

\* The characters there are; the provers know of no literal that it is a string.
Char ==
    STRING \cup Digits
        \cup {"o", "r", "d", "Reject", "-", ".", Comma, LineFeed}

\* The digits, and what is none.
LEMMA DigitFacts ==
    /\ \A c \in Digits : c \in Char /\ DigitValue(c) \in 0 .. 9
    /\ \A d \in 0 .. 9 : DigitChars[d + 1] \in Digits /\ DigitValue(DigitChars[d + 1]) = d
    /\ \A c \in Digits : c \notin {" ", "\t", "+", "-", ".", "e", "E", ",", "\n"}
<1>1. DOMAIN DigitChars = 1 .. 10
    BY DEF DigitChars
<1>10. DigitChars[1] = "0" /\ DigitChars[2] = "1" /\ DigitChars[3] = "2"
    BY DEF DigitChars
<1>11. DigitChars[4] = "3" /\ DigitChars[5] = "4" /\ DigitChars[6] = "5"
    BY DEF DigitChars
<1>12. DigitChars[7] = "6" /\ DigitChars[8] = "7"
    BY DEF DigitChars
<1>13. DigitChars[9] = "8" /\ DigitChars[10] = "9"
    BY DEF DigitChars
<1>14. \A k \in 1 .. 10 : k = 1 \/ k = 2 \/ k = 3 \/ k = 4 \/ k = 5 \/ k = 6 \/ k = 7
                           \/ k = 8 \/ k = 9 \/ k = 10
    OBVIOUS
<1>3. \A j, k \in 1 .. 10 : DigitChars[j] = DigitChars[k] => j = k
    BY ONLY <1>10, <1>11, <1>12, <1>13, <1>14
<1>4. \A k \in 1 .. 10 : DigitChars[k] \notin {" ", "\t", "+", "-", ".", "e", "E", ",", "\n"}
    BY ONLY <1>10, <1>11, <1>12, <1>13, <1>14
<1>5. \A c \in Digits : \E k \in 1 .. 10 : c = DigitChars[k]
    BY <1>1 DEF Digits
<1>6. ASSUME NEW k \in 1 .. 10 PROVE DigitValue(DigitChars[k]) = k - 1
  <2> DEFINE j == CHOOSE j \in DOMAIN DigitChars : DigitChars[j] = DigitChars[k]
  <2>1. j \in 1 .. 10 /\ DigitChars[j] = DigitChars[k]
      BY <1>1
  <2>2. j = k
    <3> HIDE DEF j
    <3> QED BY <1>3, <2>1
  <2> QED BY <2>2 DEF DigitValue
<1>7. ASSUME NEW d \in 0 .. 9
      PROVE DigitChars[d + 1] \in Digits /\ DigitValue(DigitChars[d + 1]) = d
  <2>1. d + 1 \in 1 .. 10 /\ (d + 1) - 1 = d
      OBVIOUS
  <2>2. DigitChars[d + 1] \in Digits
      BY <1>1, <2>1 DEF Digits
  <2> QED BY <1>6, <2>1, <2>2
<1>8. ASSUME NEW c \in Digits PROVE c \in Char /\ DigitValue(c) \in 0 .. 9
  <2>1. PICK k \in 1 .. 10 : c = DigitChars[k]
      BY <1>5
  <2>2. DigitValue(c) = k - 1
      BY <1>6, <2>1
  <2> QED BY <2>1, <2>2 DEF Char
<1>9. ASSUME NEW c \in Digits PROVE c \notin {" ", "\t", "+", "-", ".", "e", "E", ",", "\n"}
  <2>1. PICK k \in 1 .. 10 : c = DigitChars[k]
      BY <1>5
  <2> QED BY ONLY <1>4, <2>1
<1> QED BY <1>7, <1>8, <1>9

\* j is the first place from i on that holds none of C.
Stops(text, i, C, j) ==
    /\ j \in i .. Len(text) + 1
    /\ j = Len(text) + 1 \/ text[j] \notin C
    /\ \A k \in i .. j - 1 : text[k] \in C

LEMMA SkipStops ==
    ASSUME NEW text \in Seq(Char), NEW i \in 1 .. Len(text) + 1, NEW C
    PROVE  Stops(text, i, C, Skip(text, i, C))
<1> DEFINE T == {j \in i .. Len(text) + 1 : j = Len(text) + 1 \/ text[j] \notin C}
<1>1. Len(text) \in Nat
    BY LenProperties
<1>2. T \in SUBSET Nat /\ Len(text) + 1 \in T
    BY <1>1
<1>3. PICK j \in T : \A k \in T : j <= k
  <2> HIDE DEF T
  <2> QED BY <1>2, Least
<1>4. ASSUME NEW k \in i .. j - 1 PROVE text[k] \in C
  <2>1. k \in i .. Len(text) + 1 /\ ~ (j <= k) /\ k # Len(text) + 1
      BY <1>1, <1>3
  <2> QED BY <1>3, <2>1
<1>5. /\ j \in i .. Len(text) + 1
      /\ j = Len(text) + 1 \/ text[j] \notin C
      /\ \A k \in i .. j - 1 : text[k] \in C
    BY <1>4
<1> QED BY <1>5 DEF Skip, Stops

\* There is no other.
LEMMA StopsOnce ==
    ASSUME NEW text \in Seq(Char), NEW i \in 1 .. Len(text) + 1, NEW C,
           NEW j, Stops(text, i, C, j)
    PROVE  Skip(text, i, C) = j
<1>1. Len(text) \in Nat
    BY LenProperties
<1>2. Stops(text, i, C, Skip(text, i, C))
    BY SkipStops
<1> DEFINE m == Skip(text, i, C)
<1> HIDE DEF m
<1>3. Stops(text, i, C, m)
    BY <1>2 DEF m
<1>4. ASSUME NEW a, NEW b, Stops(text, i, C, a), Stops(text, i, C, b) PROVE ~ (a < b)
    BY <1>1, <1>4 DEF Stops
<1>5. ~ (m < j) /\ ~ (j < m)
    BY <1>3, <1>4
<1> QED BY <1>1, <1>3, <1>5 DEF Stops, m

\* The numbers of a text, one place after the other.
NumeralSteps(text, from) ==
    /\ \A k \in 0 .. Len(text) : Numeral(text, from)[k] \in Nat
    /\ \A k \in 0 .. Len(text) : k < from => Numeral(text, from)[k] = 0
    /\ \A k \in from .. Len(text) : text[k] \in Digits =>
          Numeral(text, from)[k] = Numeral(text, from)[k - 1] * 10 + DigitValue(text[k])
    /\ \A k \in from .. Len(text) : text[k] \notin Digits =>
          Numeral(text, from)[k] = Numeral(text, from)[k - 1]

LEMMA NumeralByPlace ==
    ASSUME NEW text \in Seq(Char), NEW from \in Nat \ {0}
    PROVE  NumeralSteps(text, from)
<1> DEFINE N == Len(text)
           after(n, k) == IF k < from THEN 0
                          ELSE IF text[k] \in Digits THEN n * 10 + DigitValue(text[k])
                          ELSE n
           step == [p \in Nat \X (1 .. N) |-> after(p[1], p[2])]
           body(f) == [k \in 0 .. N |->
                        IF k < from THEN 0
                        ELSE IF text[k] \in Digits
                        THEN f[k - 1] * 10 + DigitValue(text[k])
                        ELSE f[k - 1]]
           number == CHOOSE f : f = body(f)
<1>1. N \in Nat
    BY LenProperties
<1>2. ASSUME NEW n \in Nat, NEW k \in 1 .. N PROVE after(n, k) \in Nat
  <2>1. CASE text[k] \in Digits
    <3>1. PICK d \in 0 .. 9 : DigitValue(text[k]) = d
        BY <2>1, DigitFacts
    <3> QED BY <3>1
  <2>2. CASE text[k] \notin Digits
      BY <2>2
  <2> QED BY <2>1, <2>2
<1>3. step \in [Nat \X (1 .. N) -> Nat]
  <2> HIDE DEF after
  <2> QED BY <1>2
<1>4. PICK g : Steps(g, N, Nat, 0, step)
  <2> HIDE DEF step
  <2> QED BY <1>1, <1>3, Recursion
<1>5. /\ g \in [0 .. N -> Nat] /\ g[0] = 0
      /\ \A k \in 1 .. N : g[k] = after(g[k - 1], k)
  <2> HIDE DEF after
  <2>1. ASSUME NEW k \in 1 .. N PROVE g[k] = after(g[k - 1], k)
    <3>1. k - 1 \in 0 .. N
        BY <1>1
    <3>2. g[k - 1] \in Nat /\ g[k] = step[<<g[k - 1], k>>]
        BY <1>4, <3>1 DEF Steps
    <3> QED BY <3>2
  <2> QED BY <1>4, <2>1 DEF Steps
<1>6. g = body(g)
  <2>1. ASSUME NEW k \in 0 .. N PROVE g[k] = after(g[k - 1], k)
      BY <1>5
  <2> QED BY <1>5, <2>1
<1>7. number = body(number)
    BY <1>6
<1>8. Numeral(text, from) = number
    BY DEF Numeral
<1> HIDE DEF number
<1>9. \A k \in 0 .. N : number[k] = after(number[k - 1], k)
    BY <1>7
<1>10. \A k \in 0 .. N : number[k] \in Nat
  <2> DEFINE T == {j \in 0 .. N : number[j] \in Nat}
  <2>1. 0 \in T
      BY <1>1, <1>9
  <2>2. ASSUME NEW k \in 1 .. N, k - 1 \in T PROVE k \in T
    <3>1. number[k] = after(number[k - 1], k) /\ number[k - 1] \in Nat
        BY <1>9, <2>2
    <3>2. number[k] \in Nat
      <4> HIDE DEF after
      <4> QED BY <1>2, <3>1
    <3> QED BY <3>2
  <2>3. \A k \in 0 .. N : k \in T
    <3> HIDE DEF T
    <3> QED BY <1>1, <2>1, <2>2, UpTo
  <2> QED BY <2>3
<1>11. from .. N \subseteq 0 .. N
    OBVIOUS
<1> QED BY <1>8, <1>9, <1>10, <1>11 DEF NumeralSteps

\* The n characters from i on in s, and from j on in t, are the same.
SameCharacters(s, i, t, j, n) ==
    /\ i - 1 + n <= Len(s) /\ j - 1 + n <= Len(t)
    /\ \A k \in 1 .. n : s[i - 1 + k] = t[j - 1 + k]

SameNumeral(s, i, t, j, n) == Numeral(s, i)[i - 1 + n] = Numeral(t, j)[j - 1 + n]

\* What a number is made of is what stands between its ends.
LEMMA NumeralElsewhere ==
    ASSUME NEW s \in Seq(Char), NEW t \in Seq(Char),
           NEW i \in Nat \ {0}, NEW j \in Nat \ {0}, NEW n \in Nat,
           SameCharacters(s, i, t, j, n)
    PROVE  SameNumeral(s, i, t, j, n)
<1> DEFINE T == {k \in 0 .. n : Numeral(s, i)[i - 1 + k] = Numeral(t, j)[j - 1 + k]}
<1>0. /\ i - 1 + n <= Len(s) /\ j - 1 + n <= Len(t)
      /\ \A k \in 1 .. n : s[i - 1 + k] = t[j - 1 + k]
    BY DEF SameCharacters
<1>1. NumeralSteps(s, i) /\ NumeralSteps(t, j) /\ Len(s) \in Nat /\ Len(t) \in Nat
    BY NumeralByPlace, LenProperties
<1>2. 0 \in T
  <2>1. i - 1 \in 0 .. Len(s) /\ i - 1 < i /\ j - 1 \in 0 .. Len(t) /\ j - 1 < j
      BY <1>0, <1>1
  <2>2. Numeral(s, i)[i - 1] = 0 /\ Numeral(t, j)[j - 1] = 0
      BY <1>1, <2>1 DEF NumeralSteps
  <2> QED BY <2>2
<1>3. ASSUME NEW k \in 1 .. n, k - 1 \in T PROVE k \in T
  <2>1. /\ i - 1 + k \in i .. Len(s) /\ j - 1 + k \in j .. Len(t)
        /\ (i - 1 + k) - 1 = i - 1 + (k - 1) /\ (j - 1 + k) - 1 = j - 1 + (k - 1)
      BY <1>0, <1>1
  <2>2. s[i - 1 + k] = t[j - 1 + k]
      BY <1>0
  <2>3. Numeral(s, i)[(i - 1 + k) - 1] = Numeral(t, j)[(j - 1 + k) - 1]
      BY <1>3, <2>1
  <2>4. CASE s[i - 1 + k] \in Digits
    <3>1. Numeral(s, i)[i - 1 + k]
            = Numeral(s, i)[(i - 1 + k) - 1] * 10 + DigitValue(s[i - 1 + k])
        BY <1>1, <2>1, <2>4 DEF NumeralSteps
    <3>2. Numeral(t, j)[j - 1 + k]
            = Numeral(t, j)[(j - 1 + k) - 1] * 10 + DigitValue(t[j - 1 + k])
        BY <1>1, <2>1, <2>2, <2>4 DEF NumeralSteps
    <3> QED BY <2>2, <2>3, <3>1, <3>2
  <2>5. CASE s[i - 1 + k] \notin Digits
    <3>1. Numeral(s, i)[i - 1 + k] = Numeral(s, i)[(i - 1 + k) - 1]
        BY <1>1, <2>1, <2>5 DEF NumeralSteps
    <3>2. Numeral(t, j)[j - 1 + k] = Numeral(t, j)[(j - 1 + k) - 1]
        BY <1>1, <2>1, <2>2, <2>5 DEF NumeralSteps
    <3> QED BY <2>3, <3>1, <3>2
  <2> QED BY <2>4, <2>5
<1>4. \A k \in 0 .. n : k \in T
  <2> HIDE DEF T
  <2> QED BY <1>2, <1>3, UpTo
<1> QED BY <1>4 DEF SameNumeral

\* The digits of a number held at the largest int are that number, or the
\* largest int when it is greater.
LEMMA AccumulatedIs ==
    ASSUME NEW text \in Seq(Char), NEW from \in Nat \ {0}, NEW to \in Nat,
           to <= Len(text), from <= to + 1, AllIn(text, from, to, Digits)
    PROVE  Accumulated(text, from, to)
             = IF Numeral(text, from)[to] > IntMax THEN IntMax ELSE Numeral(text, from)[to]
<1> DEFINE S == 0 .. IntMax
           after(n, k) == IF k < from THEN 0 ELSE Accumulate(n, text[k])
           step == [p \in S \X (1 .. to) |-> after(p[1], p[2])]
           body(f) == [k \in 0 .. to |->
                        IF k < from THEN 0 ELSE Accumulate(f[k - 1], text[k])]
           result == CHOOSE f : f = body(f)
           number == Numeral(text, from)
           held(n) == IF n > IntMax THEN IntMax ELSE n
<1>1. Len(text) \in Nat /\ to \in Nat /\ 0 \in S
    BY LenProperties, ConversionsAssumption
<1>2. \A n \in S, k \in 1 .. to : after(n, k) \in S
  <2>1. ASSUME NEW n \in S, NEW k \in 1 .. to, ~ (k < from) PROVE Accumulate(n, text[k]) \in S
    <3>1. text[k] \in Digits
        BY <2>1 DEF AllIn
    <3>2. PICK d \in 0 .. 9 : DigitValue(text[k]) = d
        BY <3>1, DigitFacts
    <3> QED BY <3>2, ConversionsAssumption DEF Accumulate
  <2> QED BY <1>1, <2>1
<1>3. step \in [S \X (1 .. to) -> S]
  <2> HIDE DEF after, S
  <2> QED BY <1>2
<1>4. PICK g : Steps(g, to, S, 0, step)
  <2> HIDE DEF step, S
  <2> QED BY <1>1, <1>3, Recursion
<1>5. /\ g \in [0 .. to -> S] /\ g[0] = 0
      /\ \A k \in 1 .. to : g[k] = after(g[k - 1], k)
  <2> HIDE DEF after
  <2>1. ASSUME NEW k \in 1 .. to PROVE g[k] = after(g[k - 1], k)
    <3>1. k - 1 \in 0 .. to
        OBVIOUS
    <3>2. g[k - 1] \in S /\ g[k] = step[<<g[k - 1], k>>]
        BY <1>4, <3>1 DEF Steps
    <3> QED BY <3>2
  <2> QED BY <1>4, <2>1 DEF Steps
<1>6. g = body(g)
  <2>1. ASSUME NEW k \in 0 .. to PROVE g[k] = after(g[k - 1], k)
      BY <1>5
  <2> QED BY <1>5, <2>1
<1>7. result = body(result)
    BY <1>6
<1>8. Accumulated(text, from, to) = result[to]
    BY DEF Accumulated
<1> HIDE DEF result
<1>9. \A k \in 0 .. to : result[k] = after(result[k - 1], k)
    BY <1>7
<1>10. NumeralSteps(text, from)
    BY NumeralByPlace
<1> HIDE DEF number
<1>11. /\ \A k \in 0 .. to : number[k] \in Nat
       /\ \A k \in 0 .. to : k < from => number[k] = 0
       /\ \A k \in from .. to : number[k] = number[k - 1] * 10 + DigitValue(text[k])
    BY <1>1, <1>10 DEF NumeralSteps, AllIn, number
<1> DEFINE T == {k \in 0 .. to : result[k] = held(number[k])}
<1>12. 0 \in T
    BY <1>9, <1>11, ConversionsAssumption
<1>13. ASSUME NEW k \in 1 .. to, k - 1 \in T PROVE k \in T
  <2>1. result[k - 1] = held(number[k - 1]) /\ number[k - 1] \in Nat
      BY <1>11, <1>13
  <2>2. CASE k < from
      BY <1>9, <1>11, <2>2, ConversionsAssumption
  <2>3. CASE ~ (k < from)
    <3>1. k \in from .. to /\ text[k] \in Digits
        BY <2>3 DEF AllIn
    <3>2. PICK d \in 0 .. 9 : DigitValue(text[k]) = d
        BY <3>1, DigitFacts
    <3>3. number[k] = number[k - 1] * 10 + d
        BY <1>11, <3>1, <3>2
    <3>4. result[k] = Accumulate(result[k - 1], text[k])
        BY <1>9, <2>3
    <3>5. result[k] = IF held(number[k - 1]) > (IntMax - d) \div 10 THEN IntMax
                      ELSE held(number[k - 1]) * 10 + d
        BY <2>1, <3>2, <3>4 DEF Accumulate
    <3>6. PICK m \in Nat : m = number[k - 1]
        BY <2>1
    <3>7. (IF held(m) > (IntMax - d) \div 10 THEN IntMax ELSE held(m) * 10 + d)
            = held(m * 10 + d)
        BY ConversionsAssumption
    <3>8. result[k] = held(number[k])
      <4> HIDE DEF held
      <4> QED BY <3>3, <3>5, <3>6, <3>7
    <3> QED BY <3>8
  <2> QED BY <2>2, <2>3
<1>14. \A k \in 0 .. to : k \in T
  <2> HIDE DEF T
  <2> QED BY <1>12, <1>13, UpTo
<1> QED BY <1>8, <1>14 DEF number

\* Behind a sign, if there is one.
AfterSign(text, i) == IF HasOneOf(text, i, {"-", "+"}) THEN i + 1 ELSE i

\* What the scan of a sign and digits from i on makes of them.
Scanned(text, i) ==
    LET first == AfterSign(text, i)
        n     == Accumulated(text, first, Skip(text, first, Digits) - 1)
    IN IF text[i] = "-" THEN -n ELSE n

\* The scan finds a number that ends at a place where no digit follows just
\* when there is one, and then it is that one.
ScanFinds(text, i, to) ==
    LET first == AfterSign(text, i)
        past  == Skip(text, first, Digits)
    IN /\ past = to + 1 /\ past # first => IntegersIn(text, i, to) = {Scanned(text, i)}
       /\ ~ (past = to + 1 /\ past # first) => IntegersIn(text, i, to) = {}

LEMMA SignAndDigits ==
    ASSUME NEW text \in Seq(Char), NEW i \in 1 .. Len(text) + 1,
           NEW to \in i - 1 .. Len(text), to = Len(text) \/ text[to + 1] \notin Digits
    PROVE  ScanFinds(text, i, to)
<1> DEFINE N == Len(text)
           first == AfterSign(text, i)
           past == Skip(text, first, Digits)
           cuts == {k \in i .. to : IsSign(text, i, k - 1) /\ AllIn(text, k, to, Digits)}
           value(k) == Clamp(Sign(text, i, k - 1, Numeral(text, k)[to]))
<1>1. N \in Nat /\ i \in Nat \ {0} /\ to \in Nat
    BY LenProperties
<1>2. /\ first \in i .. N + 1 /\ first \in 1 .. N + 1 /\ first \in {i, i + 1}
      /\ first = i + 1 => i <= N /\ text[i] \in {"+", "-"}
      /\ i <= N /\ text[i] \in {"+", "-"} => first = i + 1
    BY <1>1 DEF AfterSign, HasOneOf
<1>3. Stops(text, first, Digits, past)
    BY <1>2, SkipStops
<1>4. IntegersIn(text, i, to) = {value(k) : k \in cuts}
    BY DEF IntegersIn
<1> HIDE DEF first
<1>5. ASSUME NEW k \in cuts PROVE k = first /\ past = to + 1 /\ past # first
  <2>1. /\ k \in i .. to /\ \A m \in k .. to : text[m] \in Digits
        /\ k - 1 < i \/ (k - 1 = i /\ text[i] \in {"+", "-"})
      BY DEF IsSign, AllIn
  <2>2. k = first
    <3>1. CASE k = i
      <4>1. text[i] \in Digits
          BY <1>1, <2>1, <3>1
      <4>2. text[i] \notin {"+", "-"}
          BY <4>1, DigitFacts
      <4> QED BY <1>2, <3>1, <4>2
    <3>2. CASE k # i
        BY <1>1, <1>2, <2>1, <3>2
    <3> QED BY <3>1, <3>2
  <2>3. Stops(text, first, Digits, to + 1)
      BY <1>1, <1>2, <2>1, <2>2 DEF Stops
  <2>4. past = to + 1
      BY <1>2, <2>3, StopsOnce
  <2> QED BY <1>1, <2>1, <2>2, <2>4
<1>6. CASE past = to + 1 /\ past # first
  <2>1. first \in i .. to /\ to = past - 1
      BY <1>1, <1>2, <1>3, <1>6 DEF Stops
  <2>2. AllIn(text, first, to, Digits)
      BY <1>3, <2>1 DEF Stops, AllIn
  <2>3. IsSign(text, i, first - 1)
      BY <1>1, <1>2 DEF IsSign
  <2>4. first \in cuts
      BY <2>1, <2>2, <2>3
  <2>5. cuts = {first}
      BY <1>5, <2>4
  <2>6. IntegersIn(text, i, to) = {value(first)}
    <3> HIDE DEF value, cuts
    <3> QED BY <1>4, <2>5
  <2> DEFINE n == Numeral(text, first)[to]
             a == Accumulated(text, first, to)
  <2>7. n \in Nat
    <3>1. NumeralSteps(text, first) /\ to \in 0 .. Len(text)
        BY <1>1, <1>2, NumeralByPlace
    <3> QED BY <3>1 DEF NumeralSteps
  <2>8. a = IF n > IntMax THEN IntMax ELSE n
    <3>1. first \in Nat \ {0} /\ to \in Nat /\ to <= Len(text) /\ first <= to + 1
        BY <1>1, <1>2, <2>1
    <3> QED BY <2>2, <3>1, AccumulatedIs
  <2>9. text[i] = "-" <=> (i <= first - 1 /\ text[i] = "-")
      BY <1>1, <1>2, <2>1
  <2>10. value(first) = IF text[i] = "-" THEN -a ELSE a
    <3> HIDE DEF n, a
    <3>1. CASE text[i] = "-"
      <4>1. value(first) = Clamp(-n)
          BY <2>9, <3>1 DEF Sign, n
      <4>2. Clamp(-n) = -a
          BY <2>7, <2>8, ConversionsAssumption DEF Clamp
      <4> QED BY <3>1, <4>1, <4>2
    <3>2. CASE text[i] # "-"
      <4>1. value(first) = Clamp(n)
          BY <2>9, <3>2 DEF Sign, n
      <4>2. Clamp(n) = a
          BY <2>7, <2>8, ConversionsAssumption DEF Clamp
      <4> QED BY <3>2, <4>1, <4>2
    <3> QED BY <3>1, <3>2
  <2>11. Scanned(text, i) = IF text[i] = "-" THEN -a ELSE a
      BY <2>1 DEF Scanned, first
  <2> QED BY <1>6, <2>6, <2>10, <2>11 DEF ScanFinds, first
<1>7. CASE ~ (past = to + 1 /\ past # first)
  <2>1. cuts = {}
      BY <1>5, <1>7
  <2>2. IntegersIn(text, i, to) = {}
    <3> HIDE DEF value, cuts
    <3> QED BY <1>4, <2>1
  <2> QED BY <1>7, <2>2 DEF ScanFinds, first
<1> QED BY <1>6, <1>7

\* The ends of what a text says.
LEMMA SolidEnds ==
    ASSUME NEW text \in Seq(Char), Solid(text) # {}
    PROVE  /\ Min(Solid(text)) \in 1 .. Len(text) /\ Max(Solid(text)) \in 1 .. Len(text)
           /\ Min(Solid(text)) <= Max(Solid(text))
           /\ text[Min(Solid(text))] \notin Blanks /\ text[Max(Solid(text))] \notin Blanks
           /\ \A k \in 1 .. Min(Solid(text)) - 1 : text[k] \in Blanks
           /\ \A k \in Max(Solid(text)) + 1 .. Len(text) : text[k] \in Blanks
<1> DEFINE N == Len(text)
           S == Solid(text)
<1>1. N \in Nat /\ S \in SUBSET Nat /\ S \in SUBSET (0 .. N) /\ S # {}
      /\ \A k : k \in S <=> k \in 1 .. N /\ text[k] \notin Blanks
    BY LenProperties DEF Solid
<1> HIDE DEF S
<1>2. \E m \in S : \A k \in S : m <= k
    BY <1>1, Least
<1>3. \E m \in S : \A k \in S : k <= m
    BY <1>1, Greatest
<1>4. Min(S) \in S /\ \A k \in S : Min(S) <= k
    BY <1>2 DEF Min
<1>5. \E m \in S : \A k \in S : m >= k
    BY <1>1, <1>3
<1>6. Max(S) \in S /\ \A k \in S : Max(S) >= k
    BY <1>5 DEF Max
<1>7. PICK a \in S : a = Min(S)
    BY <1>4
<1>8. PICK b \in S : b = Max(S)
    BY <1>6
<1>9. /\ a \in 1 .. N /\ b \in 1 .. N /\ a <= b
      /\ text[a] \notin Blanks /\ text[b] \notin Blanks
    BY <1>1, <1>4, <1>7, <1>8
<1>10. ASSUME NEW k \in 1 .. a - 1 PROVE text[k] \in Blanks
  <2>1. k \in 1 .. N /\ ~ (a <= k)
      BY <1>9
  <2> QED BY <1>1, <1>4, <1>7, <2>1
<1>11. ASSUME NEW k \in b + 1 .. N PROVE text[k] \in Blanks
  <2>1. k \in 1 .. N /\ ~ (b >= k)
      BY <1>9
  <2> QED BY <1>1, <1>6, <1>8, <2>1
<1> QED BY <1>7, <1>8, <1>9, <1>10, <1>11 DEF S

\* Where the parsers begin: at the first character that is no blank.
LEMMA BlanksSkipped ==
    ASSUME NEW text \in Seq(Char)
    PROVE  /\ Solid(text) = {} => Skip(text, 1, Blanks) = Len(text) + 1
           /\ Solid(text) # {} => Skip(text, 1, Blanks) = Min(Solid(text))
<1>1. Len(text) \in Nat /\ DOMAIN text = 1 .. Len(text) /\ 1 \in 1 .. Len(text) + 1
    BY LenProperties
<1>2. CASE Solid(text) = {}
  <2>1. Stops(text, 1, Blanks, Len(text) + 1)
      BY <1>1, <1>2 DEF Stops, Solid
  <2> QED BY <1>1, <1>2, <2>1, StopsOnce
<1>3. CASE Solid(text) # {}
  <2>1. PICK m \in 1 .. Len(text) : m = Min(Solid(text))
      BY <1>3, SolidEnds
  <2>2. Stops(text, 1, Blanks, m)
      BY <1>1, <1>3, <2>1, SolidEnds DEF Stops
  <2> QED BY <1>1, <1>3, <2>1, <2>2, StopsOnce
<1> QED BY <1>2, <1>3

\* Where they end: behind a character that is no blank, nothing but blanks
\* follow just when it is the last that is none.
LEMMA BlanksBehind ==
    ASSUME NEW text \in Seq(Char), NEW e \in 2 .. Len(text) + 1, text[e - 1] \notin Blanks
    PROVE  /\ Solid(text) # {}
           /\ Skip(text, e, Blanks) = Len(text) + 1 <=> e = Max(Solid(text)) + 1
<1>1. Len(text) \in Nat /\ DOMAIN text = 1 .. Len(text) /\ e \in 1 .. Len(text) + 1
    BY LenProperties
<1>2. e - 1 \in Solid(text)
    BY <1>1 DEF Solid
<1>3. PICK m \in 1 .. Len(text) : m = Max(Solid(text))
    BY <1>2, SolidEnds
<1>4. e - 1 <= m /\ \A k \in m + 1 .. Len(text) : text[k] \in Blanks
  <2>1. \A k \in m + 1 .. Len(text) : text[k] \in Blanks
      BY <1>2, <1>3, SolidEnds
  <2> QED BY <1>1, <1>3, <2>1
<1>5. text[m] \notin Blanks
    BY <1>2, <1>3, SolidEnds
<1>6. Stops(text, e, Blanks, Skip(text, e, Blanks))
    BY <1>1, SkipStops
<1>7. ASSUME e = m + 1 PROVE Skip(text, e, Blanks) = Len(text) + 1
  <2>1. Stops(text, e, Blanks, Len(text) + 1)
      BY <1>1, <1>3, <1>4, <1>7 DEF Stops
  <2> QED BY <1>1, <2>1, StopsOnce
<1>8. ASSUME Skip(text, e, Blanks) = Len(text) + 1 PROVE e = m + 1
  <2>1. \A k \in e .. Len(text) : text[k] \in Blanks
      BY <1>1, <1>6, <1>8 DEF Stops
  <2>2. ~ (m \in e .. Len(text))
      BY <1>5, <2>1
  <2> QED BY <1>1, <1>4, <2>2
<1> QED BY <1>2, <1>3, <1>7, <1>8

\* string_view_to_int gives the one integer its text can be read as, and
\* throws when there is none (types.cpp:91-143).
ReadsInteger(text) ==
    /\ string_view_to_int(text) = Throws => IntegersOf(text) = {}
    /\ string_view_to_int(text) # Throws =>
          /\ string_view_to_int(text) = Value(string_view_to_int(text)[1])
          /\ IntegersOf(text) = {string_view_to_int(text)[1]}

\* string_view_to_int throws of the texts that say no integer, and returns what
\* the others say (types.cpp:91-143).
THEOREM IntegersAreRead == \A text \in Seq(Char) : ReadsInteger(text)
<1> SUFFICES ASSUME NEW text \in Seq(Char) PROVE ReadsInteger(text)
    OBVIOUS
<1> DEFINE N == Len(text)
           sign == Skip(text, 1, Blanks)
           first == AfterSign(text, sign)
           past == Skip(text, first, Digits)
           end == Skip(text, past, Blanks)
           bad == sign > N \/ past = first \/ end # N + 1
<1>1. N \in Nat
    BY LenProperties
<1>2. /\ bad => string_view_to_int(text) = Throws
      /\ ~bad => string_view_to_int(text) = Value(Scanned(text, sign))
    BY DEF string_view_to_int, Scanned, AfterSign
<1> HIDE DEF bad
<1>3. CASE Solid(text) = {}
  <2>1. sign = N + 1
      BY <1>3, BlanksSkipped
  <2>2. bad
      BY <1>1, <2>1 DEF bad
  <2>3. IntegersOf(text) = {}
      BY <1>3 DEF IntegersOf
  <2> QED BY <1>2, <2>2, <2>3 DEF ReadsInteger
<1>4. CASE Solid(text) # {}
  <2>1. PICK a \in 1 .. N : a = Min(Solid(text))
      BY <1>4, SolidEnds
  <2>2. PICK b \in 1 .. N : b = Max(Solid(text))
      BY <1>4, SolidEnds
  <2>3. a <= b /\ \A k \in b + 1 .. N : text[k] \in Blanks
      BY <1>4, <2>1, <2>2, SolidEnds
  <2>4. sign = a
      BY <1>4, <2>1, BlanksSkipped
  <2>5. b = N \/ text[b + 1] \notin Digits
    <3>1. CASE b # N
      <4>1. b + 1 \in b + 1 .. N
          BY <1>1, <2>2, <3>1
      <4>2. text[b + 1] \in Blanks
          BY <2>3, <4>1
      <4> QED BY <4>2, DigitFacts DEF Blanks
    <3> QED BY <3>1
  <2>6. ScanFinds(text, a, b)
    <3>1. a \in 1 .. Len(text) + 1 /\ b \in a - 1 .. Len(text)
        BY <1>1, <2>1, <2>2, <2>3
    <3> QED BY <2>5, <3>1, SignAndDigits
  <2>7. IntegersOf(text) = IntegersIn(text, a, b)
      BY <1>4, <2>1, <2>2 DEF IntegersOf
  <2>8. first \in 1 .. N + 1 /\ first \in a .. N + 1
      BY <1>1, <2>1, <2>4 DEF AfterSign, HasOneOf
  <2> DEFINE found == past = b + 1 /\ past # first
  <2>9. Stops(text, first, Digits, past)
      BY <2>8, SkipStops
  <2>10. /\ found => IntegersIn(text, a, b) = {Scanned(text, sign)}
         /\ ~found => IntegersIn(text, a, b) = {}
      BY <2>4, <2>6 DEF ScanFinds
  <2> HIDE DEF first, past
  <2>11. ASSUME past # first PROVE end = N + 1 <=> past = b + 1
    <3>1. past \in 2 .. N + 1 /\ past - 1 \in first .. past - 1
        BY <1>1, <2>8, <2>9, <2>11 DEF Stops
    <3>2. text[past - 1] \in Digits
        BY <2>9, <3>1 DEF Stops
    <3>3. text[past - 1] \notin Blanks
        BY <3>2, DigitFacts DEF Blanks
    <3> QED BY <2>2, <3>1, <3>3, BlanksBehind
  <2>12. bad <=> ~found
      BY <1>1, <2>4, <2>11 DEF bad
  <2> HIDE DEF found, bad
  <2>13. CASE bad
      BY <1>2, <2>7, <2>10, <2>12, <2>13 DEF ReadsInteger
  <2>14. CASE ~bad
    <3> DEFINE v == Scanned(text, sign)
    <3>1. string_view_to_int(text) = Value(v) /\ IntegersOf(text) = {v}
        BY <1>2, <2>7, <2>10, <2>12, <2>14
    <3> HIDE DEF v
    <3>2. Value(v) # Throws /\ Value(v)[1] = v
        BY DEF Value, Throws
    <3> QED BY <3>1, <3>2 DEF ReadsInteger
  <2> QED BY <2>13, <2>14
<1> QED BY <1>3, <1>4

\* Digits from w on, a point and digits behind it from fraction on, if there is
\* one, and nothing more of that kind at past.
MantissaScan(text, w, point, fraction, past) ==
    /\ point \in w .. Len(text) + 1
    /\ fraction \in point .. Len(text) + 1
    /\ past \in fraction .. Len(text) + 1
    /\ fraction = point => past = point
    /\ fraction # point => fraction = point + 1 /\ text[point] = "."
    /\ \A k \in w .. point - 1 : text[k] \in Digits
    /\ \A k \in fraction .. past - 1 : text[k] \in Digits
    /\ past # Len(text) + 1 =>
          text[past] \notin Digits /\ (fraction = point => text[past] # ".")

FractionAt(text, point) == IF HasOneOf(text, point, {"."}) THEN point + 1 ELSE point

PastOf(text, point) ==
    IF FractionAt(text, point) = point THEN point
    ELSE Skip(text, FractionAt(text, point), Digits)

LEMMA MantissaScanned ==
    ASSUME NEW text \in Seq(Char), NEW w \in 1 .. Len(text) + 1,
           NEW point, point = Skip(text, w, Digits)
    PROVE  MantissaScan(text, w, point, FractionAt(text, point), PastOf(text, point))
<1>1. Len(text) \in Nat
    BY LenProperties
<1>2. Stops(text, w, Digits, point)
    BY SkipStops
<1>3. point \in w .. Len(text) + 1
    BY <1>2 DEF Stops
<1>4. CASE HasOneOf(text, point, {"."})
  <2> DEFINE fraction == point + 1
             past == Skip(text, fraction, Digits)
  <2>1. point <= Len(text) /\ text[point] = "."
      BY <1>4 DEF HasOneOf
  <2>2. FractionAt(text, point) = fraction /\ fraction # point
      BY <1>1, <1>3, <1>4 DEF FractionAt
  <2>3. PastOf(text, point) = past
      BY <2>2 DEF PastOf
  <2>4. fraction \in 1 .. Len(text) + 1 /\ fraction \in point .. Len(text) + 1
      BY <1>1, <1>3, <2>1
  <2>5. Stops(text, fraction, Digits, past)
      BY <2>4, SkipStops
  <2> HIDE DEF past
  <2>6. past \in fraction .. Len(text) + 1 /\ \A k \in fraction .. past - 1 : text[k] \in Digits
      BY <2>5 DEF Stops
  <2>7. past # Len(text) + 1 => text[past] \notin Digits
      BY <2>5 DEF Stops
  <2>8. \A k \in w .. point - 1 : text[k] \in Digits
      BY <1>2 DEF Stops
  <2> QED BY <1>3, <2>1, <2>2, <2>3, <2>4, <2>6, <2>7, <2>8 DEF MantissaScan
<1>5. CASE ~HasOneOf(text, point, {"."})
  <2>1. FractionAt(text, point) = point /\ PastOf(text, point) = point
      BY <1>5 DEF FractionAt, PastOf
  <2>2. point # Len(text) + 1 => text[point] \notin Digits /\ text[point] # "."
      BY <1>1, <1>2, <1>5 DEF Stops, HasOneOf
  <2>3. \A k \in w .. point - 1 : text[k] \in Digits
      BY <1>2 DEF Stops
  <2>4. \A k \in point .. point - 1 : text[k] \in Digits
      BY <1>1, <1>3
  <2> QED BY <1>1, <1>3, <2>1, <2>2, <2>3, <2>4 DEF MantissaScan
<1> QED BY <1>4, <1>5

\* A mantissa that is followed by no character of one ends where the scan does.
LEMMA MantissaEnd ==
    ASSUME NEW text \in Seq(Char), NEW w \in 1 .. Len(text) + 1, NEW e \in w .. Len(text) + 1,
           NEW point, NEW fraction, NEW past, MantissaScan(text, w, point, fraction, past),
           IsMantissa(text, w, e - 1),
           e = Len(text) + 1 \/ text[e] \notin Digits \cup {"."}
    PROVE  past = e
<1>1. Len(text) \in Nat
    BY LenProperties
<1>2. /\ point \in w .. Len(text) + 1 /\ fraction \in {point, point + 1}
      /\ past \in fraction .. Len(text) + 1
    BY <1>1 DEF MantissaScan
<1>3. ASSUME past < e PROVE FALSE
  <2>1. past \in w .. e - 1 /\ past # Len(text) + 1
      BY <1>1, <1>2, <1>3
  <2>2. text[past] \in Digits \cup {"."}
      BY <2>1 DEF IsMantissa, AllIn
  <2>3. text[past] = "." /\ fraction # point
      BY <2>1, <2>2 DEF MantissaScan
  <2>4. fraction = point + 1 /\ text[point] = "." /\ point \in w .. e - 1 /\ point # past
      BY <1>1, <1>2, <2>1, <2>3 DEF MantissaScan
  <2>5. past \in Points(text, w, e - 1) /\ point \in Points(text, w, e - 1)
      BY <2>1, <2>3, <2>4 DEF Points
  <2> QED BY <2>4, <2>5 DEF IsMantissa
<1>4. ASSUME e < past PROVE FALSE
  <2>1. text[e] \notin Digits /\ text[e] # "."
      BY <1>1, <1>2, <1>4
  <2>2. ~ (e \in w .. point - 1) /\ ~ (e \in fraction .. past - 1)
      BY <2>1 DEF MantissaScan
  <2>3. fraction # point /\ e = point
      BY <1>1, <1>2, <1>4, <2>2 DEF MantissaScan
  <2> QED BY <2>1, <2>3 DEF MantissaScan
<1> QED BY <1>1, <1>2, <1>3, <1>4

\* What the scan passed over is a mantissa if there was a digit, and the digits
\* behind the point are counted.
MantissaIs(text, w, point, fraction, past) ==
    /\ IsMantissa(text, w, past - 1) <=> ~ (w = point /\ fraction = past)
    /\ Cardinality({k \in w .. past - 1 : Points(text, w, k - 1) # {}}) = past - fraction

LEMMA MantissaFound ==
    ASSUME NEW text \in Seq(Char), NEW w \in 1 .. Len(text) + 1,
           NEW point, NEW fraction, NEW past, MantissaScan(text, w, point, fraction, past)
    PROVE  MantissaIs(text, w, point, fraction, past)
<1>1. Len(text) \in Nat
    BY LenProperties
<1>2. /\ w \in Nat /\ point \in w .. Len(text) + 1 /\ fraction \in {point, point + 1}
      /\ past \in fraction .. Len(text) + 1
    BY <1>1 DEF MantissaScan
<1>3. \A k \in w .. past - 1 :
        /\ k \in w .. point - 1 \/ k \in fraction .. past - 1 \/ (k = point /\ fraction # point)
        /\ text[k] \in Digits \/ (k = point /\ fraction # point /\ text[k] = ".")
    BY <1>1, <1>2 DEF MantissaScan
<1>4. \A k \in w .. past - 1 : text[k] = "." <=> (k = point /\ fraction # point)
  <2>1. "." \notin Digits
      BY DigitFacts
  <2> QED BY <1>3, <2>1 DEF MantissaScan
<1>5. AllIn(text, w, past - 1, Digits \cup {"."})
    BY <1>3 DEF AllIn
<1>6. \A j, k \in Points(text, w, past - 1) : j = k
    BY <1>4 DEF Points
<1>7. (\E k \in w .. past - 1 : text[k] \in Digits) <=> ~ (w = point /\ fraction = past)
  <2>1. CASE w # point
    <3>1. w \in w .. past - 1 /\ w \in w .. point - 1
        BY <1>1, <1>2, <2>1
    <3>2. text[w] \in Digits
        BY <3>1 DEF MantissaScan
    <3> QED BY <2>1, <3>1, <3>2
  <2>2. CASE fraction # past
    <3>1. fraction \in w .. past - 1 /\ fraction \in fraction .. past - 1
        BY <1>1, <1>2, <2>2
    <3>2. text[fraction] \in Digits
        BY <3>1 DEF MantissaScan
    <3> QED BY <2>2, <3>1, <3>2
  <2>3. CASE w = point /\ fraction = past
    <3>1. "." \notin Digits
        BY DigitFacts
    <3>2. \A k \in w .. past - 1 : k = point /\ text[k] = "."
        BY <1>1, <1>2, <1>3, <2>3 DEF MantissaScan
    <3> QED BY <2>3, <3>1, <3>2
  <2> QED BY <2>1, <2>2, <2>3
<1>8. {k \in w .. past - 1 : Points(text, w, k - 1) # {}} = fraction .. past - 1
  <2>1. ASSUME NEW k \in w .. past - 1
        PROVE  Points(text, w, k - 1) # {} <=> k \in fraction .. past - 1
    <3>1. ASSUME Points(text, w, k - 1) # {} PROVE k \in fraction .. past - 1
      <4>1. PICK j \in w .. k - 1 : text[j] = "."
          BY <3>1 DEF Points
      <4>2. j \in w .. past - 1
          BY <1>1, <1>2
      <4>3. j = point /\ fraction # point
          BY <1>4, <4>1, <4>2
      <4> QED BY <1>1, <1>2, <4>1, <4>3
    <3>2. ASSUME k \in fraction .. past - 1 PROVE Points(text, w, k - 1) # {}
      <4>1. fraction # point
          BY <1>1, <1>2, <3>2 DEF MantissaScan
      <4>2. text[point] = "." /\ point \in w .. k - 1
          BY <1>1, <1>2, <3>2, <4>1 DEF MantissaScan
      <4> QED BY <4>2 DEF Points
    <3> QED BY <3>1, <3>2
  <2>2. fraction .. past - 1 \subseteq w .. past - 1
      BY <1>1, <1>2
  <2> QED BY <2>1, <2>2
<1>9. Cardinality(fraction .. past - 1) = past - fraction
  <2>1. fraction \in Int /\ past - 1 \in Int
      BY <1>1, <1>2
  <2>2. Cardinality(fraction .. past - 1)
          = IF fraction > past - 1 THEN 0 ELSE (past - 1) - fraction + 1
      BY ONLY <2>1, FS_Interval
  <2> QED BY <1>1, <1>2, <2>1, <2>2
<1> QED BY <1>5, <1>6, <1>7, <1>8, <1>9 DEF IsMantissa, MantissaIs

IsScaled(text, past) == HasOneOf(text, past, {"e", "E"})

\* Where the scan of an exponent ends, and what it finds.
ExponentEnd(text, past) ==
    IF IsScaled(text, past) THEN Skip(text, AfterSign(text, past + 1), Digits) ELSE past

ExponentAt(text, past) == IF IsScaled(text, past) THEN Scanned(text, past + 1) ELSE 0

\* Up to the last character that is no blank an exponent or nothing is left
\* just when the scan ends there, and then it is that exponent.
ExponentScan(text, past, last) ==
    LET end == ExponentEnd(text, past)
        ok  == end = last + 1 /\ (IsScaled(text, past) => end # AfterSign(text, past + 1))
    IN /\ ok <=> past <= last + 1 /\ IsExponent(text, past, last)
       /\ ok => ExponentAt(text, past)
                  = IF last < past THEN 0
                    ELSE CHOOSE n \in IntegersIn(text, past + 1, last) : TRUE

LEMMA ExponentScanned ==
    ASSUME NEW text \in Seq(Char), NEW past \in 1 .. Len(text) + 1, NEW last \in 1 .. Len(text),
           last = Len(text) \/ text[last + 1] \in Blanks
    PROVE  ExponentScan(text, past, last)
<1> DEFINE N == Len(text)
           end == ExponentEnd(text, past)
           power == AfterSign(text, past + 1)
           ok == end = last + 1 /\ (IsScaled(text, past) => end # power)
<1>1. N \in Nat /\ last \in 1 .. N /\ past \in 1 .. N + 1
    BY LenProperties
<1>2. last # N => text[last + 1] \notin Digits /\ text[last + 1] \notin {"e", "E"}
    BY DigitFacts DEF Blanks
<1>3. CASE ~IsScaled(text, past)
  <2>1. end = past /\ ExponentAt(text, past) = 0
      BY <1>3 DEF ExponentEnd, ExponentAt
  <2>2. ~ (past <= N /\ text[past] \in {"e", "E"})
      BY <1>3 DEF IsScaled, HasOneOf
  <2>3. past <= last + 1 /\ IsExponent(text, past, last) <=> past = last + 1
      BY <1>1, <2>2 DEF IsExponent
  <2>4. past = last + 1 => last < past
      BY <1>1
  <2> QED BY <1>3, <2>1, <2>3, <2>4 DEF ExponentScan
<1>4. CASE IsScaled(text, past)
  <2>1. past <= N /\ text[past] \in {"e", "E"}
      BY <1>4 DEF IsScaled, HasOneOf
  <2>2. end = Skip(text, power, Digits) /\ ExponentAt(text, past) = Scanned(text, past + 1)
      BY <1>4 DEF ExponentEnd, ExponentAt
  <2>3. power \in past + 1 .. N + 1 /\ power \in 1 .. N + 1
      BY <1>1, <2>1 DEF AfterSign, HasOneOf
  <2>4. Stops(text, power, Digits, end)
      BY <2>2, <2>3, SkipStops
  <2>5. CASE last < past
    <3>1. past # last + 1
        BY <1>1, <1>2, <2>1
    <3>2. ~ (past <= last + 1)
        BY <1>1, <2>5, <3>1
    <3>3. end # last + 1
        BY <1>1, <2>3, <2>4, <2>5 DEF Stops
    <3> QED BY <3>2, <3>3 DEF ExponentScan
  <2>6. CASE ~ (last < past)
    <3>1. ScanFinds(text, past + 1, last)
      <4>1. past + 1 \in 1 .. Len(text) + 1 /\ last \in (past + 1) - 1 .. Len(text)
          BY <1>1, <2>1, <2>6
      <4> QED BY <1>2, <4>1, SignAndDigits
    <3>2. /\ ok => IntegersIn(text, past + 1, last) = {Scanned(text, past + 1)}
          /\ ~ok => IntegersIn(text, past + 1, last) = {}
        BY <1>4, <2>2, <3>1 DEF ScanFinds
    <3>3. IsExponent(text, past, last) <=> IntegersIn(text, past + 1, last) # {}
        BY <2>1, <2>6 DEF IsExponent
    <3>4. past <= last + 1
        BY <1>1, <2>6
    <3> HIDE DEF ok
    <3>5. ok <=> past <= last + 1 /\ IsExponent(text, past, last)
        BY <3>2, <3>3, <3>4
    <3>6. ASSUME ok
          PROVE ExponentAt(text, past) = CHOOSE n \in IntegersIn(text, past + 1, last) : TRUE
      <4> DEFINE v == Scanned(text, past + 1)
                 I == IntegersIn(text, past + 1, last)
      <4>1. I = {v} /\ ExponentAt(text, past) = v
          BY <2>2, <3>2, <3>6
      <4> HIDE DEF v, I
      <4>2. (CHOOSE n \in I : TRUE) = v
          BY <4>1
      <4> QED BY <4>1, <4>2 DEF I
    <3> QED BY <2>6, <3>5, <3>6 DEF ExponentScan, ok
  <2> QED BY <2>5, <2>6
<1> QED BY <1>3, <1>4

\* The parser in the names above.
DoubleFails(text) ==
    LET sign  == Skip(text, 1, Blanks)
        whole == AfterSign(text, sign)
        point == Skip(text, whole, Digits)
        past  == PastOf(text, point)
        end   == ExponentEnd(text, past)
    IN \/ sign > Len(text)
       \/ whole = point /\ FractionAt(text, point) = past
       \/ IsScaled(text, past) /\ end = AfterSign(text, past + 1)
       \/ Skip(text, end, Blanks) # Len(text) + 1

DoubleFound(text) ==
    LET sign  == Skip(text, 1, Blanks)
        whole == AfterSign(text, sign)
        point == Skip(text, whole, Digits)
        past  == PastOf(text, point)
    IN Decimal(text[sign] = "-", Numeral(text, whole)[past - 1],
               past - FractionAt(text, point), ExponentAt(text, past))

LEMMA DoubleInParts ==
    ASSUME NEW text \in Seq(Char)
    PROVE  /\ DoubleFails(text) => string_view_to_double(text) = Throws
           /\ ~DoubleFails(text) => string_view_to_double(text) = Value(DoubleFound(text))
<1> DEFINE N == Len(text)
           sign == Skip(text, 1, Blanks)
           whole == AfterSign(text, sign)
           point == Skip(text, whole, Digits)
           fraction == FractionAt(text, point)
           past == PastOf(text, point)
           scaled == IsScaled(text, past)
           power == IF HasOneOf(text, past + 1, {"-", "+"}) THEN past + 2 ELSE past + 1
           end == IF scaled THEN Skip(text, power, Digits) ELSE past
           exponent == IF scaled THEN Accumulated(text, power, end - 1) ELSE 0
           fails == \/ sign > N
                    \/ whole = point /\ fraction = past
                    \/ scaled /\ end = power
                    \/ Skip(text, end, Blanks) # N + 1
           found == Decimal(text[sign] = "-", Numeral(text, whole)[past - 1], past - fraction,
                            IF scaled /\ text[past + 1] = "-" THEN -exponent ELSE exponent)
<1>1. string_view_to_double(text) = IF fails THEN Throws ELSE Value(found)
    BY DEF string_view_to_double, AfterSign, FractionAt, PastOf, IsScaled
<1>2. ASSUME sign \in 1 .. N PROVE past \in Nat
  <2>1. N \in Nat
      BY LenProperties
  <2>2. whole \in 1 .. Len(text) + 1
      BY <1>2, <2>1 DEF AfterSign, HasOneOf
  <2> HIDE DEF whole
  <2>3. MantissaScan(text, whole, point, FractionAt(text, point), PastOf(text, point))
      BY <2>2, MantissaScanned
  <2> HIDE DEF point
  <2> QED BY <2>1, <2>2, <2>3 DEF MantissaScan
<1>3. sign \in 1 .. N + 1
  <2>1. 1 \in 1 .. Len(text) + 1
      BY LenProperties
  <2>2. Stops(text, 1, Blanks, sign)
      BY <2>1, SkipStops
  <2> QED BY <2>2 DEF Stops
<1>4. N \in Nat
    BY LenProperties
<1>5. CASE sign > N
  <2>1. DoubleFails(text) /\ fails
      BY <1>5 DEF DoubleFails
  <2> QED BY <1>1, <2>1
<1>6. CASE ~ (sign > N)
  <2>1. past \in Nat
      BY <1>2, <1>3, <1>4, <1>6
  <2> HIDE DEF past
  <2>2. power = AfterSign(text, past + 1)
      BY <2>1 DEF AfterSign
  <2>3. end = ExponentEnd(text, past)
      BY <2>2 DEF ExponentEnd
  <2>4. (IF scaled /\ text[past + 1] = "-" THEN -exponent ELSE exponent)
          = ExponentAt(text, past)
    <3>1. CASE scaled
        BY <2>2, <3>1 DEF ExponentAt, Scanned
    <3>2. CASE ~scaled
        BY <3>2 DEF ExponentAt
    <3> QED BY <3>1, <3>2
  <2>5. fails <=> DoubleFails(text)
      BY <2>2, <2>3 DEF DoubleFails, past
  <2>6. found = DoubleFound(text)
    <3> HIDE DEF whole, point, sign
    <3>1. found = Decimal(text[sign] = "-", Numeral(text, whole)[past - 1],
                          past - fraction, ExponentAt(text, past))
        BY <2>4
    <3> QED BY <3>1 DEF DoubleFound, past, whole, point, sign
  <2> HIDE DEF fails, found
  <2> QED BY <1>1, <2>5, <2>6
<1> QED BY <1>5, <1>6

\* string_view_to_double gives the one value its text can be read as, and
\* throws when there is none (types.cpp:145-223).
ReadsDecimal(text) ==
    /\ string_view_to_double(text) = Throws => DecimalsOf(text) = {}
    /\ string_view_to_double(text) # Throws =>
          /\ string_view_to_double(text) = Value(string_view_to_double(text)[1])
          /\ DecimalsOf(text) = {string_view_to_double(text)[1]}

\* The one way to cut up a text is the scan's.
IsCut(text, first, last, c) ==
    /\ c \in (first .. last) \X (first .. last + 1)
    /\ IsSign(text, first, c[1] - 1)
    /\ IsMantissa(text, c[1], c[2] - 1)
    /\ IsExponent(text, c[2], last)

LEMMA CutsAreScanned ==
    ASSUME NEW text \in Seq(Char), NEW a \in 1 .. Len(text), NEW b \in a .. Len(text),
           a = Skip(text, 1, Blanks), text[b] \notin Blanks,
           b = Len(text) \/ text[b + 1] \in Blanks,
           Solid(text) # {}, b = Max(Solid(text)),
           NEW w, w = AfterSign(text, a), NEW point, point = Skip(text, w, Digits),
           NEW past, past = PastOf(text, point)
    PROVE  /\ DoubleFails(text) => \A c : ~IsCut(text, a, b, c)
           /\ ~DoubleFails(text) => /\ IsCut(text, a, b, <<w, past>>)
                                    /\ \A c : IsCut(text, a, b, c) => c = <<w, past>>
<1> DEFINE N == Len(text)
           fraction == FractionAt(text, point)
           end == ExponentEnd(text, past)
           ok == end = b + 1 /\ (IsScaled(text, past) => end # AfterSign(text, past + 1))
<1>1. N \in Nat /\ a \in 1 .. N /\ b \in a .. N
    BY LenProperties
<1>2. /\ w \in a .. N + 1 /\ w \in {a, a + 1} /\ w \in 1 .. N + 1
      /\ w = a + 1 <=> text[a] \in {"+", "-"}
    BY <1>1 DEF AfterSign, HasOneOf
<1>3. MantissaScan(text, w, point, fraction, past)
    BY <1>2, MantissaScanned
<1>4. /\ point \in w .. N + 1 /\ fraction \in {point, point + 1} /\ past \in fraction .. N + 1
      /\ past \in 1 .. N + 1
    BY <1>1, <1>2, <1>3 DEF MantissaScan
<1>14. /\ N \in Int /\ a \in Int /\ b \in Int /\ w \in Int /\ point \in Int /\ past \in Int
       /\ 1 <= a /\ a <= b /\ b <= N /\ a <= w /\ w <= point /\ point <= past /\ past <= N + 1
    BY ONLY <1>1, <1>2, <1>4
<1>5. ExponentScan(text, past, b)
    BY <1>1, <1>4, ExponentScanned
<1>6. ok <=> past <= b + 1 /\ IsExponent(text, past, b)
    BY <1>5 DEF ExponentScan
<1>7. IsMantissa(text, w, past - 1) <=> ~ (w = point /\ fraction = past)
  <2>1. MantissaIs(text, w, point, fraction, past)
      BY <1>2, <1>3, MantissaFound
  <2> QED BY <2>1 DEF MantissaIs
<1> HIDE DEF fraction, end
<1>8. ASSUME NEW c, IsCut(text, a, b, c)
      PROVE  c = <<w, past>> /\ past \in a .. b + 1 /\ IsMantissa(text, w, past - 1)
             /\ IsExponent(text, past, b)
  <2>1. PICK i \in a .. b, j \in a .. b + 1 : c = <<i, j>>
      BY <1>8 DEF IsCut
  <2>2. IsSign(text, a, i - 1) /\ IsMantissa(text, i, j - 1) /\ IsExponent(text, j, b)
      BY <1>8, <2>1 DEF IsCut
  <2>3. i \in i .. j - 1
      BY <1>1, <2>1, <2>2 DEF IsMantissa
  <2>4. text[i] \in Digits \cup {"."}
      BY <2>2, <2>3 DEF IsMantissa, AllIn
  <2>5. text[i] \notin {"+", "-"}
      BY <2>4, DigitFacts
  <2>6. i = w
    <3>1. i = a \/ (i = a + 1 /\ text[a] \in {"+", "-"})
        BY <1>14, <2>1, <2>2 DEF IsSign
    <3>2. text[a] \in {"+", "-"} => i # a
        BY <2>5
    <3> QED BY <1>2, <3>1, <3>2
  <2>7. j = N + 1 \/ text[j] \notin Digits \cup {"."}
    <3>1. CASE b < j
      <4>1. j = b + 1
          BY <1>1, <2>1, <3>1
      <4>2. \A d \in Blanks : d \notin Digits \cup {"."}
          BY DigitFacts DEF Blanks
      <4> QED BY <4>1, <4>2
    <3>2. CASE ~ (b < j)
      <4>1. text[j] \in {"e", "E"}
          BY <2>2, <3>2 DEF IsExponent
      <4> QED BY <4>1, DigitFacts
    <3> QED BY <3>1, <3>2
  <2>8. past = j
    <3>1. j \in w .. N + 1
        BY <1>1, <2>1, <2>3, <2>6
    <3>2. IsMantissa(text, w, j - 1)
        BY <2>2, <2>6
    <3> QED BY <1>2, <1>3, <2>7, <3>1, <3>2, MantissaEnd
  <2> QED BY <2>1, <2>2, <2>6, <2>8
<1>9. ASSUME ~ (w = point /\ fraction = past), IsScaled(text, past) => end # AfterSign(text, past + 1)
      PROVE  Skip(text, end, Blanks) = N + 1 <=> end = b + 1
  <2>1. end \in 2 .. N + 1 /\ text[end - 1] \notin Blanks
    <3>1. CASE IsScaled(text, past)
      <4> DEFINE power == AfterSign(text, past + 1)
      <4>1. past <= N
          BY <3>1 DEF IsScaled, HasOneOf
      <4>2. power \in 2 .. N + 1 /\ power \in 1 .. N + 1
        <5>1. past + 1 \in 2 .. N + 1
            BY ONLY <1>14, <4>1
        <5>2. power = past + 1 \/ (power = past + 2 /\ past + 1 <= N)
            BY <1>14, <5>1 DEF AfterSign, HasOneOf
        <5> HIDE DEF power
        <5> QED BY ONLY <1>14, <5>1, <5>2
      <4>3. end = Skip(text, power, Digits) /\ end # power
          BY <1>9, <3>1 DEF ExponentEnd, end
      <4> HIDE DEF power
      <4>4. Stops(text, power, Digits, end)
          BY <4>2, <4>3, SkipStops
      <4>5. end \in power .. N + 1 /\ end - 1 \in power .. end - 1
          BY <1>1, <4>2, <4>3, <4>4 DEF Stops
      <4>6. text[end - 1] \in Digits
          BY <4>4, <4>5 DEF Stops
      <4>7. text[end - 1] \notin Blanks
          BY <4>6, DigitFacts DEF Blanks
      <4> QED BY <1>1, <4>2, <4>5, <4>7
    <3>2. CASE ~IsScaled(text, past)
      <4>1. end = past
          BY <3>2 DEF ExponentEnd, end
      <4>2. past - 1 \in w .. past - 1
        <5>1. ~ (w = point /\ fraction = past) /\ point <= fraction /\ fraction <= past /\ fraction \in Int
            BY <1>4, <1>9, <1>14
        <5> QED BY ONLY <1>14, <5>1
      <4>3. text[past - 1] \in Digits \cup {"."}
          BY <1>7, <1>9, <4>2 DEF IsMantissa, AllIn
      <4>4. text[past - 1] \notin Blanks
          BY <4>3, DigitFacts DEF Blanks
      <4> QED BY <1>1, <1>2, <1>4, <4>1, <4>2, <4>4
    <3> QED BY <3>1, <3>2
  <2> QED BY <2>1, BlanksBehind
<1>10. DoubleFails(text) <=>
        \/ w = point /\ fraction = past
        \/ IsScaled(text, past) /\ end = AfterSign(text, past + 1)
        \/ Skip(text, end, Blanks) # N + 1
    BY <1>1 DEF DoubleFails, fraction, end
<1>11. ~DoubleFails(text) <=> IsMantissa(text, w, past - 1) /\ ok
    BY <1>7, <1>9, <1>10
<1>12. CASE DoubleFails(text)
  <2>1. ASSUME NEW c, IsCut(text, a, b, c) PROVE FALSE
    <3>1. past \in a .. b + 1 /\ IsMantissa(text, w, past - 1) /\ IsExponent(text, past, b)
        BY <1>8, <2>1
    <3>2. ok
        BY <1>1, <1>6, <3>1
    <3> QED BY <1>11, <1>12, <3>1, <3>2
  <2> QED BY <1>12, <2>1
<1>13. CASE ~DoubleFails(text)
  <2>1. IsMantissa(text, w, past - 1) /\ past <= b + 1 /\ IsExponent(text, past, b)
      BY <1>6, <1>11, <1>13
  <2>2. w < past
    <3>1. w <= past - 1
        BY ONLY <1>14, <2>1 DEF IsMantissa
    <3> QED BY ONLY <1>14, <3>1
  <2>3. w \in a .. b /\ past \in a .. b + 1
      BY ONLY <1>14, <2>1, <2>2
  <2>4. IsSign(text, a, w - 1)
      BY <1>1, <1>2 DEF IsSign
  <2>5. IsCut(text, a, b, <<w, past>>)
      BY <2>1, <2>3, <2>4 DEF IsCut
  <2> QED BY <1>8, <1>13, <2>5
<1> QED BY <1>12, <1>13

\* string_view_to_double throws of the texts that say no decimal, and returns the
\* one decimal that each of the others says (types.cpp:145-223).
THEOREM DecimalsAreRead == \A text \in Seq(Char) : ReadsDecimal(text)
<1> SUFFICES ASSUME NEW text \in Seq(Char) PROVE ReadsDecimal(text)
    OBVIOUS
<1> DEFINE N == Len(text)
           sign == Skip(text, 1, Blanks)
           w == AfterSign(text, sign)
           point == Skip(text, w, Digits)
           past == PastOf(text, point)
           v == DoubleFound(text)
<1>1. N \in Nat
    BY LenProperties
<1>2. /\ DoubleFails(text) => string_view_to_double(text) = Throws
      /\ ~DoubleFails(text) => string_view_to_double(text) = Value(v)
    BY DoubleInParts
<1>3. CASE Solid(text) = {}
  <2>1. sign = N + 1
      BY <1>3, BlanksSkipped
  <2>2. DoubleFails(text)
      BY <1>1, <2>1 DEF DoubleFails
  <2>3. DecimalsOf(text) = {}
      BY <1>3 DEF DecimalsOf
  <2>4. string_view_to_double(text) = Throws
      BY <1>2, <2>2
  <2> QED BY <2>3, <2>4 DEF ReadsDecimal
<1>4. CASE Solid(text) # {}
  <2>1. PICK a \in 1 .. N : a = Min(Solid(text))
      BY <1>4, SolidEnds
  <2>2. PICK b \in 1 .. N : b = Max(Solid(text))
      BY <1>4, SolidEnds
  <2>3. /\ b \in a .. N /\ text[b] \notin Blanks
        /\ \A k \in b + 1 .. N : text[k] \in Blanks
    <3>1. a <= b
        BY <1>4, <2>1, <2>2, SolidEnds
    <3>2. text[b] \notin Blanks /\ \A k \in b + 1 .. N : text[k] \in Blanks
        BY <1>4, <2>2, SolidEnds
    <3> QED BY <3>1, <3>2
  <2>4. b = N \/ text[b + 1] \in Blanks
      BY <1>1, <2>2, <2>3
  <2>5. sign = a
      BY <1>4, <2>1, BlanksSkipped
  <2>6. DecimalsOf(text) = {MeaningOf(text, a, c, b) :
            c \in {c \in (a .. b) \X (a .. b + 1) : IsCut(text, a, b, c)}}
      BY <1>4, <2>1, <2>2 DEF DecimalsOf, DecimalsIn, IsCut
  <2> HIDE DEF v
  <2>7. /\ DoubleFails(text) => \A c : ~IsCut(text, a, b, c)
        /\ ~DoubleFails(text) => /\ IsCut(text, a, b, <<w, past>>)
                                 /\ \A c : IsCut(text, a, b, c) => c = <<w, past>>
    <3> HIDE DEF w, point, past
    <3>1. w = AfterSign(text, a)
        BY <2>5 DEF w
    <3>2. point = Skip(text, w, Digits) /\ past = PastOf(text, point)
        BY DEF point, past
    <3> QED BY <1>4, <2>2, <2>3, <2>4, <2>5, <3>1, <3>2, CutsAreScanned
  <2>8. CASE DoubleFails(text)
    <3>1. DecimalsOf(text) = {}
        BY <2>6, <2>7, <2>8
    <3>2. string_view_to_double(text) = Throws
        BY <1>2, <2>8
    <3> QED BY <3>1, <3>2 DEF ReadsDecimal
  <2>9. CASE ~DoubleFails(text)
    <3> DEFINE cut == <<w, past>>
    <3>1. IsCut(text, a, b, cut) /\ \A c : IsCut(text, a, b, c) => c = cut
        BY <2>7, <2>9
    <3>2. DecimalsOf(text) = {MeaningOf(text, a, cut, b)}
      <4>1. cut \in (a .. b) \X (a .. b + 1)
          BY <3>1 DEF IsCut
      <4> HIDE DEF cut
      <4>2. {c \in (a .. b) \X (a .. b + 1) : IsCut(text, a, b, c)} = {cut}
          BY <3>1, <4>1
      <4> QED BY <2>6, <4>2
    <3>3. MeaningOf(text, a, cut, b) = v
      <4> HIDE DEF w, point, past
      <4>1. w \in a .. b /\ past \in a .. b + 1 /\ IsExponent(text, past, b)
            /\ IsMantissa(text, w, past - 1)
          BY <3>1 DEF IsCut
      <4>2. /\ w \in {a, a + 1} /\ w \in 1 .. Len(text) + 1
            /\ w = a + 1 <=> text[a] \in {"+", "-"}
          BY <2>3, <2>5, <4>1 DEF w, AfterSign, HasOneOf
      <4>3. MantissaScan(text, w, point, FractionAt(text, point), past)
          BY <4>2, MantissaScanned DEF point, past
      <4>4. Cardinality({k \in w .. past - 1 : Points(text, w, k - 1) # {}})
              = past - FractionAt(text, point)
        <5>1. MantissaIs(text, w, point, FractionAt(text, point), past)
            BY <4>2, <4>3, MantissaFound
        <5> QED BY <5>1 DEF MantissaIs
      <4>5. past \in 1 .. Len(text) + 1
          BY <1>1, <2>3, <4>1
      <4>6. ExponentScan(text, past, b)
          BY <2>2, <2>4, <4>5, ExponentScanned
      <4>7. past <= b + 1
          BY <2>3, <4>1
      <4>8. ExponentAt(text, past)
              = IF b < past THEN 0 ELSE CHOOSE n \in IntegersIn(text, past + 1, b) : TRUE
          BY <4>1, <4>6, <4>7 DEF ExponentScan
      <4>9. (w > a /\ text[a] = "-") = (text[a] = "-")
          BY <2>1, <4>2
      <4>10. MeaningOf(text, a, cut, b)
               = Decimal(w > a /\ text[a] = "-", Numeral(text, w)[past - 1],
                         Cardinality({k \in w .. past - 1 : Points(text, w, k - 1) # {}}),
                         IF b < past THEN 0
                         ELSE CHOOSE n \in IntegersIn(text, past + 1, b) : TRUE)
          BY DEF MeaningOf, cut
      <4>11. MeaningOf(text, a, cut, b)
               = Decimal(text[a] = "-", Numeral(text, w)[past - 1],
                         past - FractionAt(text, point), ExponentAt(text, past))
          BY ONLY <4>4, <4>8, <4>9, <4>10
      <4>12. v = Decimal(text[a] = "-", Numeral(text, w)[past - 1],
                         past - FractionAt(text, point), ExponentAt(text, past))
          BY <2>5 DEF v, DoubleFound, w, point, past
      <4> QED BY ONLY <4>11, <4>12
    <3>4. string_view_to_double(text) = Value(v)
        BY <1>2, <2>9
    <3>5. Value(v) # Throws /\ Value(v)[1] = v
        BY DEF Value, Throws
    <3> HIDE DEF cut
    <3> QED BY <3>2, <3>3, <3>4, <3>5 DEF ReadsDecimal
  <2> QED BY <2>8, <2>9
<1> QED BY <1>3, <1>4

-----------------------------------------------------------------------------
(* Cutting a text up.                                                       *)

\* A text is put into what is cut off it.
Longer(pieces, c) == [pieces EXCEPT ![Len(pieces)] = Append(@, c)]

SomeTexts == Seq(Seq(Char)) \ {<< >>}

LEMMA LongerIs ==
    ASSUME NEW pieces \in SomeTexts, NEW c \in Char
    PROVE  /\ Longer(pieces, c) \in SomeTexts /\ Len(Longer(pieces, c)) = Len(pieces)
           /\ Len(pieces) \in Nat \ {0}
           /\ Longer(pieces, c)[Len(pieces)] = Append(pieces[Len(pieces)], c)
           /\ \A i \in 1 .. Len(pieces) - 1 : Longer(pieces, c)[i] = pieces[i]
<1> DEFINE n == Len(pieces)
           e == Append(pieces[n], c)
           longer == [pieces EXCEPT ![n] = e]
<1>1. pieces \in Seq(Seq(Char)) /\ n \in Nat \ {0}
  <2>1. pieces \in Seq(Seq(Char)) /\ pieces # << >>
      BY DEF SomeTexts
  <2> QED BY <2>1, EmptySeq
<1>2. n \in 1 .. Len(pieces)
    BY <1>1
<1>3. pieces[n] \in Seq(Char)
    BY <1>1, <1>2, ElementOfSeq
<1>4. e \in Seq(Char)
    BY <1>3, AppendProperties
<1>5. Longer(pieces, c) = longer
    BY DEF Longer
<1> HIDE DEF e
<1>6. /\ longer \in Seq(Seq(Char)) /\ Len(longer) = n
      /\ \A i \in 1 .. n : longer[i] = IF i = n THEN e ELSE pieces[i]
    BY <1>1, <1>2, <1>4, ExceptSeq
<1> HIDE DEF longer
<1>7. longer # << >>
    BY <1>1, <1>6, EmptySeq
<1>8. /\ longer[n] = e
      /\ \A i \in 1 .. n - 1 : longer[i] = pieces[i]
    BY <1>1, <1>6
<1> QED BY <1>1, <1>5, <1>6, <1>7, <1>8 DEF SomeTexts, e

PlacesSteps(text, c) ==
    /\ Places(text, c)[0] = <<0>>
    /\ \A k \in 0 .. Len(text) : Places(text, c)[k] \in Seq(Nat)
    /\ \A k \in 1 .. Len(text) : text[k] = c =>
          Places(text, c)[k] = Append(Places(text, c)[k - 1], k)
    /\ \A k \in 1 .. Len(text) : text[k] # c => Places(text, c)[k] = Places(text, c)[k - 1]

LEMMA PlacesByCharacter ==
    ASSUME NEW text \in Seq(Char), NEW c
    PROVE  PlacesSteps(text, c)
<1> DEFINE N == Len(text)
           S == Seq(Nat)
           after(s, k) == IF text[k] = c THEN Append(s, k) ELSE s
           step == [p \in S \X (1 .. N) |-> after(p[1], p[2])]
           body(f) == [k \in 0 .. N |->
                        IF k = 0 THEN <<0>>
                        ELSE IF text[k] = c THEN Append(f[k - 1], k) ELSE f[k - 1]]
           found == CHOOSE f : f = body(f)
<1>1. N \in Nat
    BY LenProperties
<1>2. ASSUME NEW s \in S, NEW k \in 1 .. N PROVE after(s, k) \in S
  <2>1. Append(s, k) \in S
      BY AppendProperties
  <2> QED BY <2>1
<1>3. step \in [S \X (1 .. N) -> S]
  <2> HIDE DEF after, S
  <2> QED BY <1>2
<1>4. PICK g : Steps(g, N, S, <<0>>, step)
  <2>1. <<0>> \in S
      OBVIOUS
  <2> HIDE DEF step, S
  <2> QED BY <1>1, <1>3, <2>1, Recursion
<1>5. /\ g \in [0 .. N -> S] /\ g[0] = <<0>>
      /\ \A k \in 1 .. N : g[k] = after(g[k - 1], k)
  <2> HIDE DEF after, S
  <2>1. ASSUME NEW k \in 1 .. N PROVE g[k] = after(g[k - 1], k)
    <3>1. k - 1 \in 0 .. N
        BY <1>1
    <3>2. g[k - 1] \in S /\ g[k] = step[<<g[k - 1], k>>]
        BY <1>4, <3>1 DEF Steps
    <3> QED BY <3>2
  <2> QED BY <1>4, <2>1 DEF Steps
<1>6. g = body(g)
  <2>1. ASSUME NEW k \in 0 .. N
        PROVE  g[k] = IF k = 0 THEN <<0>> ELSE after(g[k - 1], k)
    <3>1. k # 0 => k \in 1 .. N
        OBVIOUS
    <3> HIDE DEF after
    <3> QED BY <1>5, <3>1
  <2> QED BY <1>5, <2>1
<1>7. found = body(found)
    BY <1>6
<1>8. Places(text, c) = found
    BY DEF Places
<1> HIDE DEF found
<1>9. \A k \in 0 .. N : found[k] = IF k = 0 THEN <<0>> ELSE after(found[k - 1], k)
    BY <1>7
<1>10. found[0] = <<0>> /\ \A k \in 1 .. N : found[k] = after(found[k - 1], k)
  <2>1. 0 \in 0 .. N /\ \A k \in 1 .. N : k \in 0 .. N /\ k # 0
      BY <1>1
  <2> HIDE DEF after
  <2> QED BY <1>9, <2>1
<1>11. \A k \in 0 .. N : found[k] \in S
  <2> DEFINE T == {j \in 0 .. N : found[j] \in S}
  <2>1. 0 \in T
    <3>1. <<0>> \in S /\ 0 \in 0 .. N
        BY <1>1
    <3> QED BY <1>10, <3>1
  <2>2. ASSUME NEW k \in 1 .. N, k - 1 \in T PROVE k \in T
    <3> HIDE DEF after, S
    <3> QED BY <1>2, <1>10, <2>2
  <2>3. \A k \in 0 .. N : k \in T
    <3> HIDE DEF T
    <3> QED BY <1>1, <2>1, <2>2, UpTo
  <2> QED BY <2>3
<1> QED BY <1>8, <1>10, <1>11 DEF PlacesSteps

PiecesSteps(text, c) ==
    /\ Pieces(text, c)[0] = << << >> >>
    /\ \A k \in 0 .. Len(text) : Pieces(text, c)[k] \in SomeTexts
    /\ \A k \in 1 .. Len(text) : text[k] = c =>
          Pieces(text, c)[k] = Append(Pieces(text, c)[k - 1], << >>)
    /\ \A k \in 1 .. Len(text) : text[k] # c =>
          Pieces(text, c)[k] = Longer(Pieces(text, c)[k - 1], text[k])

LEMMA PiecesByCharacter ==
    ASSUME NEW text \in Seq(Char), NEW c
    PROVE  PiecesSteps(text, c)
<1> DEFINE N == Len(text)
           S == SomeTexts
           base == << << >> >>
           after(s, k) == IF text[k] = c THEN Append(s, << >>) ELSE Longer(s, text[k])
           step == [p \in S \X (1 .. N) |-> after(p[1], p[2])]
           body(f) == [k \in 0 .. N |->
                        IF k = 0 THEN base
                        ELSE IF text[k] = c THEN Append(f[k - 1], << >>)
                        ELSE [f[k - 1] EXCEPT ![Len(f[k - 1])] = Append(@, text[k])]]
           found == CHOOSE f : f = body(f)
<1>1. N \in Nat /\ \A k \in 1 .. N : text[k] \in Char
    BY LenProperties, ElementOfSeq
<1>2. ASSUME NEW s \in S, NEW k \in 1 .. N PROVE after(s, k) \in S
  <2>1. Longer(s, text[k]) \in S
      BY <1>1, LongerIs
  <2>2. Append(s, << >>) \in S
    <3>1. s \in Seq(Seq(Char)) /\ << >> \in Seq(Char)
        BY EmptySeq DEF SomeTexts
    <3>2. Append(s, << >>) \in Seq(Seq(Char)) /\ Append(s, << >>) # << >>
        BY <3>1, AppendProperties
    <3> QED BY <3>2 DEF SomeTexts
  <2> QED BY <2>1, <2>2
<1>3. step \in [S \X (1 .. N) -> S]
  <2> HIDE DEF after, S
  <2> QED BY <1>2
<1>0. base \in S
  <2>1. << >> \in Seq(Char)
      BY EmptySeq
  <2>2. << << >> >> \in Seq(Seq(Char))
      BY <2>1
  <2>3. << << >> >> # << >>
      OBVIOUS
  <2> QED BY <2>2, <2>3 DEF SomeTexts
<1> HIDE DEF base, S
<1>4. PICK g : Steps(g, N, S, base, step)
  <2> HIDE DEF step
  <2> QED BY <1>0, <1>1, <1>3, Recursion
<1>5. /\ g \in [0 .. N -> S] /\ g[0] = base
      /\ \A k \in 1 .. N : g[k] = after(g[k - 1], k)
  <2> HIDE DEF after
  <2>1. ASSUME NEW k \in 1 .. N PROVE g[k] = after(g[k - 1], k)
    <3>1. k - 1 \in 0 .. N
        BY <1>1
    <3>2. g[k - 1] \in S /\ g[k] = step[<<g[k - 1], k>>]
        BY <1>4, <3>1 DEF Steps
    <3> QED BY <3>2
  <2> QED BY <1>4, <2>1 DEF Steps
<1>6. g = body(g)
  <2>1. ASSUME NEW k \in 0 .. N
        PROVE  g[k] = IF k = 0 THEN base ELSE after(g[k - 1], k)
    <3>1. k # 0 => k \in 1 .. N
        OBVIOUS
    <3> HIDE DEF after
    <3> QED BY <1>5, <3>1
  <2>2. body(g) = [k \in 0 .. N |-> IF k = 0 THEN base ELSE after(g[k - 1], k)]
      BY DEF Longer
  <2> HIDE DEF after
  <2>3. g = [k \in 0 .. N |-> IF k = 0 THEN base ELSE after(g[k - 1], k)]
      BY <1>5, <2>1
  <2> QED BY <2>2, <2>3
<1>7. found = body(found)
  <2> HIDE DEF body
  <2> QED BY <1>6
<1>8. Pieces(text, c) = found
    BY DEF Pieces, base
<1> HIDE DEF found
<1>9. \A k \in 0 .. N : found[k] = IF k = 0 THEN base ELSE after(found[k - 1], k)
  <2>1. body(found) = [k \in 0 .. N |-> IF k = 0 THEN base ELSE after(found[k - 1], k)]
      BY DEF Longer
  <2> HIDE DEF after, body
  <2>2. found = [k \in 0 .. N |-> IF k = 0 THEN base ELSE after(found[k - 1], k)]
      BY <1>7, <2>1
  <2> QED BY <2>2
<1>10. found[0] = base /\ \A k \in 1 .. N : found[k] = after(found[k - 1], k)
  <2>1. 0 \in 0 .. N /\ \A k \in 1 .. N : k \in 0 .. N /\ k # 0
      BY <1>1
  <2> HIDE DEF after
  <2> QED BY <1>9, <2>1
<1>11. \A k \in 0 .. N : found[k] \in S
  <2> DEFINE T == {j \in 0 .. N : found[j] \in S}
  <2>1. 0 \in T
      BY <1>0, <1>1, <1>10
  <2>2. ASSUME NEW k \in 1 .. N, k - 1 \in T PROVE k \in T
    <3> HIDE DEF after
    <3> QED BY <1>2, <1>10, <2>2
  <2>3. \A k \in 0 .. N : k \in T
    <3> HIDE DEF T
    <3> QED BY <1>1, <2>1, <2>2, UpTo
  <2> QED BY <2>3
<1> QED BY <1>8, <1>10, <1>11 DEF PiecesSteps, base, S

\* The i-th of the places P of c is behind the one before it, with no c between.
NextPlace(text, c, P, i) ==
    /\ P[i] < P[i + 1] /\ text[P[i + 1]] = c
    /\ \A j \in P[i] + 1 .. P[i + 1] - 1 : text[j] # c

\* Up to k the places of c are P, and the pieces between them Q.
CutUp(text, c, k, P, Q) ==
    /\ P \in Seq(Nat) /\ Q \in Seq(Seq(Char))
    /\ Len(P) \in Nat \ {0} /\ Len(Q) = Len(P)
    /\ P[1] = 0
    /\ \A i \in 1 .. Len(P) : P[i] \in 0 .. k
    /\ \A i \in 1 .. Len(P) - 1 :
          NextPlace(text, c, P, i) /\ Q[i] = SubSeq(text, P[i] + 1, P[i + 1] - 1)
    /\ \A j \in P[Len(P)] + 1 .. k : text[j] # c
    /\ Q[Len(P)] = SubSeq(text, P[Len(P)] + 1, k)

LEMMA PiecesAreBetween ==
    ASSUME NEW text \in Seq(Char), NEW c
    PROVE  \A k \in 0 .. Len(text) : CutUp(text, c, k, Places(text, c)[k], Pieces(text, c)[k])
<1> DEFINE N == Len(text)
           P(k) == Places(text, c)[k]
           Q(k) == Pieces(text, c)[k]
           T == {k \in 0 .. N : CutUp(text, c, k, P(k), Q(k))}
<1>1. N \in Nat /\ PlacesSteps(text, c) /\ PiecesSteps(text, c)
    BY LenProperties, PlacesByCharacter, PiecesByCharacter
<1>2. 0 \in T
  <2>1. P(0) = <<0>> /\ Q(0) = << << >> >>
      BY <1>1 DEF PlacesSteps, PiecesSteps
  <2>2. SubSeq(text, 1, 0) = << >>
      BY SubSeqEmpty
  <2>3. /\ <<0>> \in Seq(Nat) /\ Len(<<0>>) = 1 /\ <<0>>[1] = 0
      OBVIOUS
  <2>4. << << >> >> \in Seq(Seq(Char))
    <3>1. << >> \in Seq(Char)
        BY EmptySeq
    <3> QED BY <3>1
  <2>5. Len(<< << >> >>) = 1 /\ << << >> >>[1] = << >>
      OBVIOUS
  <2> DEFINE p == <<0>>
             q == << << >> >>
  <2>6. CutUp(text, c, 0, p, q)
    <3>1. /\ p \in Seq(Nat) /\ q \in Seq(Seq(Char)) /\ Len(p) = 1 /\ Len(q) = 1
          /\ p[1] = 0 /\ q[1] = << >>
        BY <2>3, <2>4, <2>5
    <3> HIDE DEF p, q
    <3>2. q[1] = SubSeq(text, p[1] + 1, 0)
        BY <2>2, <3>1
    <3> QED BY <3>1, <3>2 DEF CutUp
  <2>7. CutUp(text, c, 0, P(0), Q(0))
      BY ONLY <2>1, <2>6
  <2> QED BY <1>1, <2>7
<1>3. ASSUME NEW k \in 1 .. N, k - 1 \in T PROVE k \in T
  <2> DEFINE p == P(k - 1)
             q == Q(k - 1)
             n == Len(p)
  <2>1. CutUp(text, c, k - 1, p, q)
      BY <1>3
  <2>2. text[k] \in Char
      BY ElementOfSeq
  <2>3. q \in SomeTexts
    <3>1. k - 1 \in 0 .. Len(text)
        BY <1>1
    <3> QED BY <1>1, <3>1 DEF PiecesSteps
  <2>4. CASE text[k] = c
    <3>1. P(k) = Append(p, k) /\ Q(k) = Append(q, << >>)
        BY <1>1, <2>4 DEF PlacesSteps, PiecesSteps
    <3> HIDE DEF p, q
    <3> DEFINE r == Append(p, k)
               s == Append(q, << >>)
    <3>2. /\ r \in Seq(Nat) /\ Len(r) = n + 1 /\ r[n + 1] = k
          /\ \A i \in 1 .. n : r[i] = p[i]
        BY <2>1, AppendProperties DEF CutUp
    <3>3. << >> \in Seq(Char)
        BY EmptySeq
    <3>4. /\ s \in Seq(Seq(Char)) /\ Len(s) = n + 1 /\ s[n + 1] = << >>
          /\ \A i \in 1 .. n : s[i] = q[i]
      <4>1. q \in Seq(Seq(Char)) /\ Len(q) = n
          BY <2>1 DEF CutUp
      <4> QED BY <3>3, <4>1, AppendProperties
    <3>5. n \in Nat \ {0} /\ p[1] = 0 /\ \A i \in 1 .. n : p[i] \in 0 .. k - 1
        BY <2>1 DEF CutUp
    <3> HIDE DEF r, s, n
    <3>6. r[1] = 0 /\ \A i \in 1 .. n + 1 : r[i] \in 0 .. k
      <4>1. \A i \in 1 .. n + 1 : i \in 1 .. n \/ i = n + 1
          BY <3>5
      <4>2. r[1] = p[1] /\ k \in 0 .. k
          BY <3>2, <3>5
      <4>3. \A i \in 1 .. n : r[i] \in 0 .. k
        <5> TAKE i \in 1 .. n
        <5>1. r[i] \in 0 .. k - 1
            BY <3>2, <3>5
        <5> QED BY ONLY <5>1, k \in 1 .. N
      <4> QED BY ONLY <3>2, <3>5, <4>1, <4>2, <4>3
    <3>7. ASSUME NEW i \in 1 .. n
          PROVE  NextPlace(text, c, r, i) /\ s[i] = SubSeq(text, r[i] + 1, r[i + 1] - 1)
      <4>1. CASE i # n
        <5>1. i \in 1 .. n - 1 /\ i + 1 \in 1 .. n
            BY <3>5, <4>1
        <5>2. NextPlace(text, c, p, i) /\ q[i] = SubSeq(text, p[i] + 1, p[i + 1] - 1)
            BY <2>1, <5>1 DEF CutUp, n
        <5>3. r[i] = p[i] /\ r[i + 1] = p[i + 1] /\ s[i] = q[i]
            BY <3>2, <3>4, <5>1
        <5> QED BY ONLY <5>2, <5>3 DEF NextPlace
      <4>2. CASE i = n
        <5>1. r[i] = p[n] /\ r[i + 1] = k /\ s[i] = q[n] /\ p[n] \in 0 .. k - 1
            BY <3>2, <3>4, <3>5, <4>2
        <5>2. /\ \A j \in p[n] + 1 .. k - 1 : text[j] # c
              /\ q[n] = SubSeq(text, p[n] + 1, k - 1)
            BY <2>1 DEF CutUp, n
        <5> QED BY <2>4, <5>1, <5>2 DEF NextPlace
      <4> QED BY <4>1, <4>2
    <3>8. s[n + 1] = SubSeq(text, r[n + 1] + 1, k)
      <4>1. SubSeq(text, k + 1, k) = << >>
          BY SubSeqEmpty
      <4> QED BY <3>2, <3>4, <4>1
    <3>9. \A j \in r[n + 1] + 1 .. k : text[j] # c
        BY <3>2
    <3>10. CutUp(text, c, k, r, s)
      <4>1. Len(r) \in Nat \ {0} /\ Len(s) = Len(r) /\ Len(r) - 1 = n
        <5>1. Len(r) = n + 1 /\ Len(s) = n + 1 /\ n \in Nat \ {0}
            BY <3>2, <3>4, <3>5
        <5> QED BY ONLY <5>1
      <4> QED BY <3>2, <3>4, <3>6, <3>7, <3>8, <3>9, <4>1 DEF CutUp
    <3>11. CutUp(text, c, k, P(k), Q(k))
        BY ONLY <3>1, <3>10 DEF r, s
    <3> QED BY <3>11
  <2>5. CASE text[k] # c
    <3>1. P(k) = p /\ Q(k) = Longer(q, text[k])
        BY <1>1, <2>5 DEF PlacesSteps, PiecesSteps
    <3> HIDE DEF p, q
    <3> DEFINE s == Longer(q, text[k])
    <3>2. /\ s \in Seq(Seq(Char)) /\ Len(s) = n /\ n \in Nat \ {0}
          /\ s[n] = Append(q[n], text[k])
          /\ \A i \in 1 .. n - 1 : s[i] = q[i]
      <4>1. n = Len(q)
          BY <2>1 DEF CutUp
      <4>2. /\ s \in SomeTexts /\ Len(s) = Len(q) /\ Len(q) \in Nat \ {0}
            /\ s[Len(q)] = Append(q[Len(q)], text[k])
            /\ \A i \in 1 .. Len(q) - 1 : s[i] = q[i]
          BY <2>2, <2>3, LongerIs
      <4> QED BY <4>1, <4>2 DEF SomeTexts
    <3>3. p[n] \in 0 .. k - 1 /\ q[n] = SubSeq(text, p[n] + 1, k - 1)
      <4>1. n \in 1 .. Len(p)
          BY <3>2
      <4> QED BY <2>1, <4>1 DEF CutUp
    <3> HIDE DEF s
    <3>4. s[n] = SubSeq(text, p[n] + 1, k)
      <4>1. PICK m \in 0 .. k - 1 : m = p[n]
          BY <3>3
      <4>2. m + 1 \in 1 .. Len(text) /\ k \in m + 1 .. Len(text)
          BY <1>1, <4>1
      <4>3. SubSeq(text, m + 1, k) = SubSeq(text, m + 1, k - 1) \o <<text[k]>>
          BY ONLY <4>2, SubSeqRecursiveSecond, text \in Seq(Char)
      <4>4. SubSeq(text, m + 1, k - 1) \in Seq(Char)
        <5>1. \A i \in m + 1 .. k - 1 : text[i] \in Char
            BY <1>1, ElementOfSeq
        <5>2. m + 1 \in Int /\ k - 1 \in Int
            OBVIOUS
        <5> QED BY ONLY <5>1, <5>2, SubSeqProperties
      <4>5. Append(SubSeq(text, m + 1, k - 1), text[k]) = SubSeq(text, m + 1, k - 1) \o <<text[k]>>
          BY ONLY <2>2, <4>4, AppendIsConcat
      <4> QED BY <3>2, <3>3, <4>1, <4>3, <4>5
    <3>5. \A j \in p[n] + 1 .. k : text[j] # c
      <4>1. \A j \in p[n] + 1 .. k - 1 : text[j] # c
          BY <2>1 DEF CutUp
      <4>2. \A j \in p[n] + 1 .. k : j = k \/ j \in p[n] + 1 .. k - 1
          BY <3>3
      <4> QED BY <2>5, <4>1, <4>2
    <3>6. \A i \in 1 .. n : p[i] \in 0 .. k
      <4>1. \A i \in 1 .. n : p[i] \in 0 .. k - 1
          BY <2>1 DEF CutUp
      <4> QED BY <4>1
    <3>7. \A i \in 1 .. n - 1 :
            NextPlace(text, c, p, i) /\ s[i] = SubSeq(text, p[i] + 1, p[i + 1] - 1)
        BY <2>1, <3>2 DEF CutUp
    <3>8. p \in Seq(Nat) /\ p[1] = 0
        BY <2>1 DEF CutUp
    <3>9. CutUp(text, c, k, p, s)
        BY <3>2, <3>4, <3>5, <3>6, <3>7, <3>8 DEF CutUp
    <3>10. CutUp(text, c, k, P(k), Q(k))
        BY ONLY <3>1, <3>9 DEF s
    <3> QED BY <3>10
  <2> QED BY <2>4, <2>5
<1>4. \A k \in 0 .. N : k \in T
  <2> HIDE DEF T
  <2> QED BY <1>1, <1>2, <1>3, UpTo
<1> QED BY <1>4

LEMMA PartOf ==
    ASSUME NEW S, NEW s \in Seq(S), NEW i \in Nat \ {0}, NEW j \in Nat, j <= Len(s)
    PROVE  /\ SubSeq(s, i, j) \in Seq(S)
           /\ Len(SubSeq(s, i, j)) = IF i <= j THEN j - i + 1 ELSE 0
           /\ \A k \in 1 .. j - i + 1 : SubSeq(s, i, j)[k] = s[i + k - 1]
<1>1. Len(s) \in Nat
    BY LenProperties
<1>2. \A k \in i .. j : s[k] \in S
    BY <1>1, ElementOfSeq
<1>3. i \in Int /\ j \in Int
    OBVIOUS
<1> QED BY ONLY <1>2, <1>3, SubSeqProperties

LEMMA PartOfPart ==
    ASSUME NEW S, NEW s \in Seq(S), NEW i \in Nat \ {0}, NEW j \in Nat, j <= Len(s),
           NEW m \in Nat \ {0}, NEW n \in Nat, i + n <= j + 1
    PROVE  SubSeq(SubSeq(s, i, j), m, n) = SubSeq(s, i + m - 1, i + n - 1)
<1> DEFINE t == SubSeq(s, i, j)
           u == SubSeq(t, m, n)
           v == SubSeq(s, i + m - 1, i + n - 1)
<1>1. Len(s) \in Nat
    BY LenProperties
<1>2. CASE n < m
  <2>1. u = << >>
      BY <1>2, SubSeqEmpty
  <2>2. i + n - 1 < i + m - 1 /\ i + n - 1 \in Int /\ i + m - 1 \in Int
      BY <1>2
  <2>3. v = << >>
      BY ONLY <2>2, SubSeqEmpty
  <2> QED BY <2>1, <2>3
<1>3. CASE m <= n
  <2>1. /\ t \in Seq(S) /\ Len(t) = j - i + 1 /\ n <= Len(t)
        /\ \A k \in 1 .. j - i + 1 : t[k] = s[i + k - 1]
    <3>1. i <= j
        BY <1>3
    <3> QED BY <3>1, PartOf
  <2> HIDE DEF t
  <2>2. u \in Seq(S) /\ Len(u) = n - m + 1 /\ \A k \in 1 .. n - m + 1 : u[k] = t[m + k - 1]
      BY <1>3, <2>1, PartOf
  <2> DEFINE a == i + m - 1
             b == i + n - 1
  <2>3. a \in Nat \ {0} /\ b \in Nat /\ b <= Len(s) /\ b - a + 1 = n - m + 1 /\ a <= b
      BY <1>1, <1>3
  <2> HIDE DEF a, b
  <2>4. /\ SubSeq(s, a, b) \in Seq(S) /\ Len(SubSeq(s, a, b)) = b - a + 1
        /\ \A k \in 1 .. b - a + 1 : SubSeq(s, a, b)[k] = s[a + k - 1]
      BY <2>3, PartOf
  <2> HIDE DEF u
  <2>5. \A k \in 1 .. Len(u) : u[k] = SubSeq(s, a, b)[k]
    <3>1. ASSUME NEW k \in 1 .. n - m + 1 PROVE u[k] = SubSeq(s, a, b)[k]
      <4>1. m + k - 1 \in 1 .. j - i + 1 /\ i + (m + k - 1) - 1 = a + k - 1
          BY <1>3 DEF a
      <4>2. u[k] = s[a + k - 1]
          BY <2>1, <2>2, <4>1
      <4>3. k \in 1 .. b - a + 1
          BY <2>3
      <4> QED BY <2>4, <4>2, <4>3
    <3> QED BY <2>2, <3>1
  <2>6. Len(u) = Len(SubSeq(s, a, b))
      BY <2>2, <2>3, <2>4
  <2>7. u = SubSeq(s, a, b)
      BY ONLY <2>2, <2>4, <2>5, <2>6, SeqEqual
  <2> QED BY <2>7 DEF a, b, u
<1> QED BY <1>2, <1>3

-----------------------------------------------------------------------------
(* The fields of a line.                                                    *)

\* The row's fields are the pieces of its line between commas
\* (csv_reader.cpp:15-26, csv_reader.h:12-24).
FieldsAsCut ==
    /\ size = Len(SplitBy(line_, Comma))
    /\ \A i \in 1 .. size : row(i - 1) = SplitBy(line_, Comma)[i]

\* The fields of a row are its line cut up at the commas, the first and the last
\* one included (csv_reader.cpp:15-26, csv_reader.h:12-24).
THEOREM FieldsOfTheRow == line_ \in Seq(Char) => FieldsAsCut
<1> SUFFICES ASSUME line_ \in Seq(Char) PROVE FieldsAsCut
    OBVIOUS
<1> DEFINE N == Len(line_)
           P == Places(line_, Comma)[N]
           Q == Pieces(line_, Comma)[N]
           F == Append(P, N + 1)
<1>1. N \in Nat
    BY LenProperties
<1>2. N \in 0 .. Len(line_)
    BY <1>1
<1>3. CutUp(line_, Comma, N, P, Q)
    BY <1>2, PiecesAreBetween
<1>4. field_positions_ = F /\ SplitBy(line_, Comma) = Q
    BY DEF field_positions_, SplitBy
<1> HIDE DEF P, Q
<1>5. P \in Seq(Nat) /\ Len(P) \in Nat \ {0} /\ Len(Q) = Len(P)
    BY <1>3 DEF CutUp
<1>6. /\ Len(F) = Len(P) + 1 /\ F[Len(P) + 1] = N + 1
      /\ \A i \in 1 .. Len(P) : F[i] = P[i]
    BY <1>1, <1>5, AppendProperties
<1> HIDE DEF F
<1>7. size = Len(P)
    BY <1>4, <1>5, <1>6 DEF size
<1>8. ASSUME NEW i \in 1 .. Len(P) PROVE row(i - 1) = Q[i]
  <2>1. (i - 1) + 1 = i /\ (i - 1) + 2 = i + 1
      OBVIOUS
  <2>2. row(i - 1) = SubSeq(line_, F[i] + 1, F[i + 1] - 1)
      BY <1>4, <2>1 DEF row
  <2>3. CASE i = Len(P)
    <3>1. F[i] = P[i] /\ F[i + 1] - 1 = N
        BY <1>1, <1>6, <2>3
    <3>2. Q[i] = SubSeq(line_, P[i] + 1, N)
        BY <1>3, <2>3 DEF CutUp
    <3> QED BY ONLY <2>2, <3>1, <3>2
  <2>4. CASE i # Len(P)
    <3>1. i \in 1 .. Len(P) - 1 /\ i + 1 \in 1 .. Len(P)
        BY <1>5, <2>4
    <3>2. F[i] = P[i] /\ F[i + 1] = P[i + 1]
        BY <1>6, <3>1
    <3>3. Q[i] = SubSeq(line_, P[i] + 1, P[i + 1] - 1)
        BY <1>3, <3>1 DEF CutUp
    <3> QED BY ONLY <2>2, <3>2, <3>3
  <2> QED BY <2>3, <2>4
<1> QED BY <1>4, <1>5, <1>7, <1>8 DEF FieldsAsCut

-----------------------------------------------------------------------------
(* The lines of the file.                                                   *)

FeedPlaces == Places(file, LineFeed)[Len(file)]
Lines == LinesOf(file)

\* n lines have been taken, and what is left is what stands behind them.
Taken(n) ==
    /\ n \in 0 .. Len(Lines)
    /\ good => n < Len(FeedPlaces) /\ stream = SubSeq(file, FeedPlaces[n + 1] + 1, Len(file))
    /\ ~good => stream = << >> /\ n = Len(Lines)

\* The lines are the pieces, but for an empty last one.
LinesAre(text) ==
    LET pieces == SplitBy(text, LineFeed)
        n == Len(pieces)
    IN /\ n \in Nat \ {0} /\ pieces \in Seq(Seq(Char))
       /\ LinesOf(text) \in Seq(Seq(Char))
       /\ Len(LinesOf(text)) = IF pieces[n] = << >> THEN n - 1 ELSE n
       /\ \A i \in 1 .. Len(LinesOf(text)) : LinesOf(text)[i] = pieces[i]

LEMMA LinesArePieces == ASSUME NEW text \in Seq(Char) PROVE LinesAre(text)
<1> DEFINE Q == SplitBy(text, LineFeed)
           n == Len(Q)
<1>1. Len(text) \in Nat /\ Len(text) \in 0 .. Len(text)
    BY LenProperties
<1>2. PiecesSteps(text, LineFeed)
    BY PiecesByCharacter
<1>3. Q \in SomeTexts
    BY <1>1, <1>2 DEF PiecesSteps, SplitBy
<1>4. Q \in Seq(Seq(Char)) /\ n \in Nat \ {0}
  <2>1. Q \in Seq(Seq(Char)) /\ Q # << >>
      BY <1>3 DEF SomeTexts
  <2> HIDE DEF Q
  <2> QED BY <2>1, EmptySeq
<1>5. LinesOf(text) = IF Q[n] = << >> THEN SubSeq(Q, 1, n - 1) ELSE Q
    BY DEF LinesOf, Last, Front
<1> HIDE DEF Q
<1>6. CASE Q[n] = << >>
  <2> DEFINE L == SubSeq(Q, 1, n - 1)
  <2>1. 1 \in Nat \ {0} /\ n - 1 \in Nat /\ n - 1 <= Len(Q)
      BY <1>4
  <2>2. /\ L \in Seq(Seq(Char))
        /\ Len(L) = IF 1 <= n - 1 THEN (n - 1) - 1 + 1 ELSE 0
        /\ \A k \in 1 .. (n - 1) - 1 + 1 : L[k] = Q[1 + k - 1]
      BY ONLY <1>4, <2>1, PartOf
  <2>3. LinesOf(text) = L
      BY <1>5, <1>6
  <2> HIDE DEF L
  <2>5. Len(L) = n - 1
    <3>1. PICK m \in Nat : m = n - 1
        BY <2>1
    <3>2. Len(L) = IF 1 <= m THEN m - 1 + 1 ELSE 0
        BY <2>2, <3>1
    <3> QED BY ONLY <3>1, <3>2
  <2>6. ASSUME NEW k \in 1 .. n - 1 PROVE L[k] = Q[k]
    <3>1. k \in 1 .. (n - 1) - 1 + 1 /\ 1 + k - 1 = k
        BY <1>4
    <3> QED BY <2>2, <3>1
  <2>4. Len(L) = n - 1 /\ \A k \in 1 .. n - 1 : L[k] = Q[k]
      BY <2>5, <2>6
  <2> QED BY <1>4, <1>6, <2>2, <2>3, <2>4 DEF LinesAre, Q
<1>7. CASE Q[n] # << >>
  <2>1. LinesOf(text) = Q
      BY <1>5, <1>7
  <2> QED BY <1>4, <1>7, <2>1 DEF LinesAre, Q
<1> QED BY <1>6, <1>7

\* What is left after n lines.
Left(n, off) ==
    /\ off = FeedPlaces[n + 1] /\ off \in 0 .. Len(file)
    /\ stream = SubSeq(file, off + 1, Len(file))
    /\ stream \in Seq(Char) /\ Len(stream) = Len(file) - off
    /\ \A k \in 1 .. Len(file) - off : stream[k] = file[off + k]

LEMMA LeftOfFile ==
    ASSUME file \in Seq(Char), NEW n \in Nat, Taken(n), good
    PROVE  /\ \E off : Left(n, off)
           /\ CutUp(file, LineFeed, Len(file), FeedPlaces, SplitBy(file, LineFeed))
           /\ n + 1 \in 1 .. Len(FeedPlaces)
<1> DEFINE N == Len(file)
           P == FeedPlaces
           off == P[n + 1]
<1>1. N \in Nat /\ N \in 0 .. Len(file)
    BY LenProperties
<1>2. CutUp(file, LineFeed, N, P, SplitBy(file, LineFeed))
    BY <1>1, PiecesAreBetween DEF FeedPlaces, SplitBy
<1> HIDE DEF P
<1>3. n + 1 \in 1 .. Len(P) /\ stream = SubSeq(file, off + 1, N)
  <2>1. n < Len(P) /\ stream = SubSeq(file, off + 1, N)
      BY DEF Taken, P
  <2>2. Len(P) \in Nat
      BY <1>2 DEF CutUp
  <2> QED BY <2>1, <2>2
<1>4. off \in 0 .. N
    BY <1>2, <1>3 DEF CutUp
<1> HIDE DEF off
<1> DEFINE t == SubSeq(file, off + 1, N)
<1>5. /\ t \in Seq(Char)
      /\ Len(t) = IF off + 1 <= N THEN N - (off + 1) + 1 ELSE 0
      /\ \A k \in 1 .. N - (off + 1) + 1 : t[k] = file[(off + 1) + k - 1]
  <2>1. off + 1 \in Nat \ {0} /\ N \in Nat /\ N <= Len(file)
      BY <1>1, <1>4
  <2> QED BY ONLY <2>1, PartOf, file \in Seq(Char)
<1> HIDE DEF t
<1>6. Len(t) = N - off
  <2>1. PICK m \in Int : m = Len(t)
      BY <1>5, LenProperties
  <2> QED BY <1>1, <1>4, <1>5, <2>1
<1>7. ASSUME NEW k \in 1 .. N - off PROVE t[k] = file[off + k]
  <2>1. k \in 1 .. N - (off + 1) + 1 /\ (off + 1) + k - 1 = off + k
      BY <1>1, <1>4
  <2> QED BY <1>5, <2>1
<1>8. Left(n, off)
    BY <1>3, <1>4, <1>5, <1>6, <1>7 DEF Left, off, P, t
<1> QED BY <1>2, <1>3, <1>8 DEF P

\* getline takes the next line (csv_reader.cpp:5-13).
LEMMA LineTaken ==
    ASSUME file \in Seq(Char), NEW n \in Nat, Taken(n), ReadLine, UNCHANGED file
    PROVE  /\ Taken(n + 1)'
           /\ n + 1 \in 1 .. Len(Lines)
           /\ line_' = StripCR(Lines[n + 1])
<1> DEFINE N == Len(file)
           P == FeedPlaces
           Q == SplitBy(file, LineFeed)
           feeds == {k \in DOMAIN stream : stream[k] = LineFeed}
           feed == CHOOSE k \in feeds : \A j \in feeds : k <= j
<1>1. good
    BY DEF ReadLine
<1>2. N \in Nat
    BY LenProperties
<1>3. PICK off : Left(n, off)
    BY <1>1, LeftOfFile
<1>4. CutUp(file, LineFeed, N, P, Q) /\ n + 1 \in 1 .. Len(P)
    BY <1>1, LeftOfFile
<1>5. LinesAre(file)
    BY LinesArePieces
<1>6. Lines' = Lines /\ FeedPlaces' = FeedPlaces
    BY DEF Lines, FeedPlaces
<1>7. /\ off = P[n + 1] /\ off \in 0 .. N /\ stream = SubSeq(file, off + 1, N)
      /\ stream \in Seq(Char) /\ Len(stream) = N - off
      /\ \A k \in 1 .. N - off : stream[k] = file[off + k]
    BY <1>3 DEF Left
<1>8. DOMAIN stream = 1 .. N - off
    BY <1>7, LenProperties
<1>9. \/ /\ feeds # {} /\ line_' = StripCR(SubSeq(stream, 1, feed - 1))
         /\ stream' = SubSeq(stream, feed + 1, Len(stream)) /\ good' = good
      \/ /\ feeds = {} /\ stream # << >> /\ line_' = StripCR(stream)
         /\ stream' = << >> /\ good' = FALSE
    BY DEF ReadLine
<1>10. /\ Len(Q) = Len(P) /\ Len(P) \in Nat \ {0} /\ Len(Lines) \in Nat
       /\ Len(Lines) = IF Q[Len(Q)] = << >> THEN Len(Q) - 1 ELSE Len(Q)
       /\ \A i \in 1 .. Len(Lines) : Lines[i] = Q[i]
  <2>1. Len(Q) = Len(P) /\ Len(P) \in Nat \ {0}
      BY <1>4 DEF CutUp
  <2>2. /\ Len(Lines) = IF Q[Len(Q)] = << >> THEN Len(Q) - 1 ELSE Len(Q)
        /\ \A i \in 1 .. Len(Lines) : Lines[i] = Q[i]
      BY <1>5 DEF LinesAre, Lines
  <2>3. Len(Lines) \in Nat
      BY <1>5, LenProperties DEF LinesAre, Lines
  <2> QED BY <2>1, <2>2, <2>3
<1>11. CASE n + 1 # Len(P)
  <2> DEFINE p == P[n + 2]
             d == p - off
  <2>1. n + 1 \in 1 .. Len(P) - 1 /\ n + 2 \in 1 .. Len(P) /\ (n + 1) + 1 = n + 2
      BY <1>4, <1>10, <1>11
  <2>2. /\ off < p /\ p \in 0 .. N /\ file[p] = LineFeed
        /\ \A j \in off + 1 .. p - 1 : file[j] # LineFeed
        /\ Q[n + 1] = SubSeq(file, off + 1, p - 1)
    <3>1. NextPlace(file, LineFeed, P, n + 1) /\ Q[n + 1] = SubSeq(file, P[n + 1] + 1, P[n + 2] - 1)
        BY <1>4, <2>1 DEF CutUp
    <3>2. P[n + 2] \in 0 .. N
        BY <1>4, <2>1 DEF CutUp
    <3> QED BY <1>7, <2>1, <3>1, <3>2 DEF NextPlace
  <2> HIDE DEF p, P
  <2>21. /\ N \in Nat /\ off \in 0 .. N /\ p \in 0 .. N /\ off < p
         /\ off \in Int /\ p \in Int
      BY <1>2, <1>7, <2>2
  <2>3. d \in 1 .. N - off /\ off + d = p /\ d \in Nat
      BY ONLY <2>21
  <2>4. stream[d] = LineFeed
      BY <1>7, <2>2, <2>3
  <2>5. ASSUME NEW j \in feeds PROVE d <= j
    <3>1. j \in 1 .. N - off /\ stream[j] = LineFeed
        BY <1>8
    <3>2. file[off + j] = LineFeed
        BY <1>7, <3>1
    <3>3. ~ (off + j \in off + 1 .. p - 1)
        BY <2>2, <3>2
    <3>4. off + j < p => off + j \in off + 1 .. p - 1
        BY ONLY <2>21, <3>1
    <3>5. p <= off + j
        BY ONLY <2>21, <3>1, <3>3, <3>4
    <3> QED BY ONLY <2>21, <3>1, <3>5
  <2>6. d \in feeds
      BY <1>8, <2>3, <2>4
  <2> HIDE DEF d
  <2>7. \A k \in feeds : k \in Nat
      BY <1>2, <1>7, <1>8
  <2>8. feed = d
    <3>0. feeds \in SUBSET Nat
        BY <2>7
    <3> HIDE DEF feeds
    <3>1. feed \in feeds /\ \A j \in feeds : feed <= j
        BY <2>5, <2>6
    <3> HIDE DEF feed
    <3>2. feed <= d /\ d <= feed /\ feed \in Nat /\ d \in Nat
        BY <2>5, <2>6, <2>7, <3>1
    <3> QED BY <3>2
  <2>9. /\ line_' = StripCR(SubSeq(stream, 1, d - 1))
        /\ stream' = SubSeq(stream, d + 1, Len(stream)) /\ good' = good
    <3> HIDE DEF feed, feeds
    <3> QED BY <1>9, <2>6, <2>8
  <2>10. SubSeq(stream, 1, d - 1) = Q[n + 1]
    <3> DEFINE i == off + 1
               m == d - 1
    <3>1. /\ i \in Nat \ {0} /\ N \in Nat /\ N <= Len(file) /\ 1 \in Nat \ {0} /\ m \in Nat
          /\ i + m <= N + 1 /\ i + 1 - 1 = off + 1 /\ i + m - 1 = p - 1
      <4>1. N <= Len(file)
          BY <1>2
      <4> QED BY ONLY <2>21, <2>3, <4>1
    <3> HIDE DEF i, m
    <3>2. SubSeq(SubSeq(file, i, N), 1, m) = SubSeq(file, i + 1 - 1, i + m - 1)
        BY ONLY <3>1, PartOfPart, file \in Seq(Char)
    <3>3. SubSeq(SubSeq(file, i, N), 1, m) = SubSeq(file, off + 1, p - 1)
        BY <3>1, <3>2
    <3> QED BY <1>7, <2>2, <3>3 DEF i, m
  <2>11. SubSeq(stream, d + 1, Len(stream)) = SubSeq(file, p + 1, N)
    <3> DEFINE i == off + 1
               k == d + 1
               m == N - off
    <3>1. /\ i \in Nat \ {0} /\ N \in Nat /\ N <= Len(file) /\ k \in Nat \ {0} /\ m \in Nat
          /\ i + m <= N + 1 /\ i + k - 1 = p + 1 /\ i + m - 1 = N
      <4>1. N <= Len(file)
          BY <1>2
      <4> QED BY ONLY <2>21, <2>3, <4>1
    <3>4. Len(stream) = m
        BY <1>7
    <3> HIDE DEF i, m, k
    <3>2. SubSeq(SubSeq(file, i, N), k, m) = SubSeq(file, i + k - 1, i + m - 1)
        BY ONLY <3>1, PartOfPart, file \in Seq(Char)
    <3>3. SubSeq(SubSeq(file, i, N), k, m) = SubSeq(file, p + 1, N)
        BY <3>1, <3>2
    <3> QED BY <1>7, <3>3, <3>4 DEF i, k
  <2>12. n + 1 \in 1 .. Len(Lines) /\ Lines[n + 1] = Q[n + 1]
      BY <1>10, <2>1
  <2>13. stream' = SubSeq(file, FeedPlaces[(n + 1) + 1] + 1, Len(file))
      BY <2>1, <2>9, <2>11 DEF p, P
  <2>14. n + 1 < Len(FeedPlaces) /\ n + 1 \in 0 .. Len(Lines)
      BY <2>1, <2>12, <1>10 DEF P
  <2>15. Taken(n + 1)'
      BY <1>1, <1>6, <2>9, <2>13, <2>14 DEF Taken
  <2> QED BY <2>9, <2>10, <2>12, <2>15
<1>12. CASE n + 1 = Len(P)
  <2>1. Q[n + 1] = stream /\ \A j \in off + 1 .. N : file[j] # LineFeed
      BY <1>4, <1>7, <1>12 DEF CutUp
  <2>2. feeds = {}
    <3>1. ASSUME NEW k \in 1 .. N - off PROVE stream[k] # LineFeed
      <4>1. off \in Int /\ N \in Int
          BY <1>2, <1>7
      <4>2. off + k \in off + 1 .. N
          BY ONLY <4>1, k \in 1 .. N - off
      <4> QED BY <1>7, <2>1, <4>2
    <3> QED BY <1>8, <3>1
  <2>3. stream # << >> /\ line_' = StripCR(stream) /\ stream' = << >> /\ good' = FALSE
    <3> HIDE DEF feeds, feed
    <3> QED BY <1>9, <2>2
  <2> HIDE DEF P, Q
  <2>4. Len(Lines) = n + 1
      BY <1>10, <1>12, <2>1, <2>3
  <2>5. n + 1 \in 1 .. Len(Lines) /\ Lines[n + 1] = stream
      BY <1>10, <2>1, <2>4
  <2>6. Taken(n + 1)'
      BY <1>6, <2>3, <2>4, <2>5 DEF Taken
  <2> QED BY <2>3, <2>5, <2>6
<1> QED BY <1>11, <1>12

\* A read fails only when all lines have been taken (csv_reader.cpp:41-47).
LEMMA NoLineLeft ==
    ASSUME file \in Seq(Char), NEW n \in Nat, Taken(n), ReadFails, UNCHANGED file, good \in BOOLEAN
    PROVE  n = Len(Lines) /\ Taken(n)'
<1> DEFINE N == Len(file)
           P == FeedPlaces
           Q == SplitBy(file, LineFeed)
<1>1. Lines' = Lines /\ FeedPlaces' = FeedPlaces
    BY DEF Lines, FeedPlaces
<1>2. stream = << >>
    BY DEF ReadFails, Taken
<1>3. n = Len(Lines)
  <2>1. CASE good
    <3>1. PICK off : Left(n, off)
        BY <2>1, LeftOfFile
    <3>2. CutUp(file, LineFeed, N, P, Q) /\ n + 1 \in 1 .. Len(P)
        BY <2>1, LeftOfFile
    <3>3. N \in Nat /\ Len(stream) = 0
        BY <1>2, LenProperties, EmptySeq
    <3>4. /\ off = P[n + 1] /\ off = N /\ stream = SubSeq(file, off + 1, N)
      <4>1. off = P[n + 1] /\ off \in 0 .. N /\ stream = SubSeq(file, off + 1, N)
            /\ Len(stream) = N - off
          BY <3>1 DEF Left
      <4> QED BY <3>3, <4>1
    <3> HIDE DEF P
    <3>5. n + 1 = Len(P)
      <4>1. SUFFICES ASSUME n + 1 # Len(P) PROVE FALSE
          OBVIOUS
      <4>2. n + 1 \in 1 .. Len(P) - 1 /\ (n + 1) + 1 \in 1 .. Len(P)
        <5>1. Len(P) \in Nat
            BY <3>2 DEF CutUp
        <5> QED BY <3>2, <4>1, <5>1
      <4>3. P[n + 1] < P[(n + 1) + 1] /\ P[(n + 1) + 1] \in 0 .. N
          BY <3>2, <4>2 DEF CutUp, NextPlace
      <4> QED BY <3>3, <3>4, <4>3
    <3>6. Len(Q) = Len(P) /\ Q[Len(P)] = SubSeq(file, P[Len(P)] + 1, N)
        BY <3>2 DEF CutUp
    <3>7. Q[Len(Q)] = << >>
        BY <1>2, <3>4, <3>5, <3>6
    <3>8. Len(Lines) = Len(Q) - 1
      <4>1. LinesAre(file)
          BY LinesArePieces
      <4> HIDE DEF Q
      <4>2. Len(Lines) = IF Q[Len(Q)] = << >> THEN Len(Q) - 1 ELSE Len(Q)
          BY <4>1 DEF LinesAre, Lines, Q
      <4> QED BY <3>7, <4>2
    <3> QED BY <3>5, <3>6, <3>8
  <2>2. CASE ~good
      BY <2>2 DEF Taken
  <2> QED BY <2>1, <2>2
<1>4. stream' = << >> /\ good' = FALSE
    BY <1>2 DEF ReadFails
<1> QED BY <1>1, <1>3, <1>4 DEF Taken

-----------------------------------------------------------------------------
(* The records of a file.                                                   *)

\* A text without the ends of fields and lines.
Field == {t \in Seq(Char) : \A k \in 1 .. Len(t) : t[k] \notin {Comma, LineFeed}}

\* The fields of a line are those of it without its carriage return.
LineFields(line) ==
    /\ FieldsOf(line) = SplitBy(StripCR(line), Comma)
    /\ StripCR(line) \in Seq(Char)
    /\ FieldsOf(line) \in Seq(Seq(Char)) /\ Len(FieldsOf(line)) \in Nat \ {0}

LEMMA FieldsOfALine == ASSUME NEW line \in Seq(Char) PROVE LineFields(line)
<1> DEFINE t == StripCR(line)
<1>1. t \in Seq(Char)
  <2>1. CASE line # << >> /\ Last(line) = CarriageReturn
    <3>1. Len(line) \in Nat \ {0}
        BY <2>1, EmptySeq
    <3>2. SubSeq(line, 1, Len(line) - 1) \in Seq(Char)
      <4>1. 1 \in Nat \ {0} /\ Len(line) - 1 \in Nat /\ Len(line) - 1 <= Len(line)
          BY <3>1
      <4> QED BY <4>1, PartOf
    <3> QED BY <2>1, <3>2 DEF StripCR, Front
  <2> QED BY <2>1 DEF StripCR
<1>2. FieldsOf(line) = SplitBy(t, Comma)
    BY DEF FieldsOf, StripCR
<1> HIDE DEF t
<1>3. SplitBy(t, Comma) \in SomeTexts
  <2>1. Len(t) \in 0 .. Len(t)
      BY <1>1, LenProperties
  <2>2. PiecesSteps(t, Comma)
      BY <1>1, PiecesByCharacter
  <2> QED BY <2>1, <2>2 DEF PiecesSteps, SplitBy
<1> DEFINE q == SplitBy(t, Comma)
<1> HIDE DEF q
<1>4. q \in Seq(Seq(Char)) /\ q # << >>
    BY <1>3 DEF SomeTexts, q
<1>5. Len(q) \in Nat \ {0}
    BY <1>4, EmptySeq
<1> QED BY <1>1, <1>2, <1>4, <1>5 DEF LineFields, t, q

IsRecord(lines, k) == k > 1 /\ Len(FieldsOf(lines[k])) >= 5

Rows == Seq(Seq(Seq(Char)))

RecordsSteps(lines) ==
    /\ RecordsAmong(lines)[0] = << >>
    /\ \A k \in 0 .. Len(lines) : RecordsAmong(lines)[k] \in Rows
    /\ \A k \in 1 .. Len(lines) : IsRecord(lines, k) =>
          RecordsAmong(lines)[k] = Append(RecordsAmong(lines)[k - 1], FieldsOf(lines[k]))
    /\ \A k \in 1 .. Len(lines) : ~IsRecord(lines, k) =>
          RecordsAmong(lines)[k] = RecordsAmong(lines)[k - 1]

LEMMA RecordsByLine ==
    ASSUME NEW lines \in Seq(Seq(Char))
    PROVE  RecordsSteps(lines)
<1> DEFINE N == Len(lines)
           S == Rows
           after(s, k) == IF IsRecord(lines, k) THEN Append(s, FieldsOf(lines[k])) ELSE s
           step == [p \in S \X (1 .. N) |-> after(p[1], p[2])]
           body(f) == [k \in 0 .. N |->
                        IF k = 0 THEN << >>
                        ELSE IF k > 1 /\ Len(FieldsOf(lines[k])) >= 5
                        THEN Append(f[k - 1], FieldsOf(lines[k]))
                        ELSE f[k - 1]]
           found == CHOOSE f : f = body(f)
<1>1. N \in Nat /\ \A k \in 1 .. N : lines[k] \in Seq(Char)
    BY LenProperties, ElementOfSeq
<1>0. << >> \in S
    BY EmptySeq DEF Rows
<1>2. ASSUME NEW s \in S, NEW k \in 1 .. N PROVE after(s, k) \in S
  <2>1. FieldsOf(lines[k]) \in Seq(Seq(Char))
      BY <1>1, FieldsOfALine DEF LineFields
  <2>2. Append(s, FieldsOf(lines[k])) \in S
      BY <2>1, AppendProperties DEF Rows
  <2> QED BY <2>2
<1> HIDE DEF S
<1>3. step \in [S \X (1 .. N) -> S]
  <2> HIDE DEF after
  <2> QED BY <1>2
<1>4. PICK g : Steps(g, N, S, << >>, step)
  <2> HIDE DEF step
  <2> QED BY <1>0, <1>1, <1>3, Recursion
<1>5. /\ g \in [0 .. N -> S] /\ g[0] = << >>
      /\ \A k \in 1 .. N : g[k] = after(g[k - 1], k)
  <2> HIDE DEF after
  <2>1. ASSUME NEW k \in 1 .. N PROVE g[k] = after(g[k - 1], k)
    <3>1. k - 1 \in 0 .. N
        BY <1>1
    <3>2. g[k - 1] \in S /\ g[k] = step[<<g[k - 1], k>>]
        BY <1>4, <3>1 DEF Steps
    <3> QED BY <3>2
  <2> QED BY <1>4, <2>1 DEF Steps
<1>6. g = body(g)
  <2>1. ASSUME NEW k \in 0 .. N
        PROVE  g[k] = IF k = 0 THEN << >> ELSE after(g[k - 1], k)
    <3>1. k # 0 => k \in 1 .. N
        OBVIOUS
    <3> HIDE DEF after
    <3> QED BY <1>5, <3>1
  <2>2. body(g) = [k \in 0 .. N |-> IF k = 0 THEN << >> ELSE after(g[k - 1], k)]
      BY DEF IsRecord
  <2> HIDE DEF after
  <2>3. g = [k \in 0 .. N |-> IF k = 0 THEN << >> ELSE after(g[k - 1], k)]
      BY <1>5, <2>1
  <2> QED BY <2>2, <2>3
<1>7. found = body(found)
  <2> HIDE DEF body
  <2> QED BY <1>6
<1>8. RecordsAmong(lines) = found
    BY DEF RecordsAmong
<1> HIDE DEF found
<1>9. \A k \in 0 .. N : found[k] = IF k = 0 THEN << >> ELSE after(found[k - 1], k)
  <2>1. body(found) = [k \in 0 .. N |-> IF k = 0 THEN << >> ELSE after(found[k - 1], k)]
      BY DEF IsRecord
  <2> HIDE DEF after, body
  <2>2. found = [k \in 0 .. N |-> IF k = 0 THEN << >> ELSE after(found[k - 1], k)]
      BY <1>7, <2>1
  <2> QED BY <2>2
<1>10. found[0] = << >> /\ \A k \in 1 .. N : found[k] = after(found[k - 1], k)
  <2>1. 0 \in 0 .. N /\ \A k \in 1 .. N : k \in 0 .. N /\ k # 0
      BY <1>1
  <2> HIDE DEF after
  <2> QED BY <1>9, <2>1
<1>11. \A k \in 0 .. N : found[k] \in S
  <2> DEFINE T == {j \in 0 .. N : found[j] \in S}
  <2>1. 0 \in T
      BY <1>0, <1>1, <1>10
  <2>2. ASSUME NEW k \in 1 .. N, k - 1 \in T PROVE k \in T
    <3> HIDE DEF after
    <3> QED BY <1>2, <1>10, <2>2
  <2>3. \A k \in 0 .. N : k \in T
    <3> HIDE DEF T
    <3> QED BY <1>1, <2>1, <2>2, UpTo
  <2> QED BY <2>3
<1> QED BY <1>8, <1>10, <1>11 DEF RecordsSteps, S

\* The first elements of t are s.
Begins(s, t) == Len(s) <= Len(t) /\ \A k \in 1 .. Len(s) : t[k] = s[k]

LEMMA RecordsBegin ==
    ASSUME NEW lines \in Seq(Seq(Char)), NEW m \in 0 .. Len(lines)
    PROVE  Begins(RecordsAmong(lines)[m], RecordsAmong(lines)[Len(lines)])
<1> DEFINE N == Len(lines)
           R == RecordsAmong(lines)
           T == {k \in 0 .. N : k >= m => Begins(R[m], R[k])}
<1>1. N \in Nat /\ m \in 0 .. N /\ \A k \in 1 .. N : lines[k] \in Seq(Char)
    BY LenProperties, ElementOfSeq
<1>2. RecordsSteps(lines)
    BY RecordsByLine
<1>3. \A k \in 0 .. N : R[k] \in Seq(Seq(Seq(Char))) /\ Len(R[k]) \in Nat
    BY <1>2, LenProperties DEF RecordsSteps, Rows
<1>4. ASSUME NEW k \in 1 .. N PROVE Begins(R[k - 1], R[k])
  <2>1. k - 1 \in 0 .. N /\ k \in 0 .. N
      BY <1>1
  <2>3. R[k - 1] \in Seq(Seq(Seq(Char))) /\ Len(R[k - 1]) \in Nat
      BY <1>3, <2>1
  <2>4. CASE ~IsRecord(lines, k)
    <3>1. R[k] = R[k - 1]
        BY <1>2, <2>4 DEF RecordsSteps
    <3> HIDE DEF R
    <3> QED BY <2>3, <3>1 DEF Begins
  <2>5. CASE IsRecord(lines, k)
    <3>1. R[k] = Append(R[k - 1], FieldsOf(lines[k]))
        BY <1>2, <2>5 DEF RecordsSteps
    <3>2. FieldsOf(lines[k]) \in Seq(Seq(Char))
        BY <1>1, FieldsOfALine DEF LineFields
    <3> HIDE DEF R
    <3>3. /\ Len(R[k]) = Len(R[k - 1]) + 1
          /\ \A j \in 1 .. Len(R[k - 1]) : R[k][j] = R[k - 1][j]
        BY <2>3, <3>1, <3>2, AppendProperties
    <3>4. Len(R[k - 1]) \in Nat /\ Len(R[k - 1]) <= Len(R[k])
        BY ONLY <2>3, <3>3
    <3> QED BY ONLY <3>3, <3>4 DEF Begins
  <2> QED BY <2>4, <2>5
<1> HIDE DEF R
<1>5. Begins(R[m], R[m])
    BY <1>1, <1>3 DEF Begins
<1>6. 0 \in T
    BY <1>1, <1>5
<1>7. ASSUME NEW k \in 1 .. N, k - 1 \in T PROVE k \in T
  <2>1. k - 1 \in 0 .. N /\ k \in 0 .. N
      BY <1>1
  <2>2. CASE k >= m /\ k # m
    <3>1. k - 1 >= m
        BY <1>1, <2>2
    <3>2. Begins(R[m], R[k - 1]) /\ Begins(R[k - 1], R[k])
        BY <1>4, <1>7, <3>1
    <3>3. Len(R[m]) \in Nat /\ Len(R[k - 1]) \in Nat /\ Len(R[k]) \in Nat
        BY <1>1, <1>3, <2>1
    <3>4. Begins(R[m], R[k])
      <4>1. Len(R[m]) <= Len(R[k])
          BY <3>2, <3>3 DEF Begins
      <4>2. ASSUME NEW j \in 1 .. Len(R[m]) PROVE R[k][j] = R[m][j]
        <5>1. j \in 1 .. Len(R[k - 1])
            BY <3>2, <3>3 DEF Begins
        <5> QED BY <3>2, <5>1 DEF Begins
      <4> QED BY <4>1, <4>2 DEF Begins
    <3> QED BY <2>1, <3>4
  <2>3. CASE k = m
      BY <1>5, <2>1, <2>3
  <2>4. CASE ~ (k >= m)
      BY <2>1, <2>4
  <2> QED BY <2>2, <2>3, <2>4
<1>8. \A k \in 0 .. N : k \in T
  <2> HIDE DEF T
  <2> QED BY <1>1, <1>6, <1>7, UpTo
<1>9. N \in 0 .. N /\ N >= m
    BY <1>1
<1> QED BY <1>8, <1>9 DEF R

\* What a row can be read as.
Int32 == -IntMax .. IntMax
Price == [negative : BOOLEAN, digits : Nat, places : Nat, exponent : Int]
FieldUnder(n) == {t \in Field : Len(t) < n}
Message ==
    [coid : FieldUnder(CoidSize), instrument : FieldUnder(InstrumentSize),
     side : Int32, quantity : Int32, price : Price]

\* How many lines have been dealt with, when n have been taken.
Passed(n) == IF producer \in {"row", "died"} THEN n - 1 ELSE n

\* The messages are the records among the first p lines.
MessagesOf(p) ==
    /\ messages \in Seq(Message)
    /\ Len(messages) = Len(RecordsAmong(Lines)[p])
    /\ \A k \in 1 .. Len(messages) : Says(RecordsAmong(Lines)[p][k], messages[k])

\* Where the producer is when n lines have been taken.
ProducerAt(n) ==
    /\ producer \in {"advance", "row", "ended", "died"}
    /\ producer \in {"row", "died"} => n >= 1 /\ line_ = StripCR(Lines[n])
    /\ producer = "ended" => n = Len(Lines)
    /\ producer = "died" => IsRecord(Lines, n) /\ Malformed(FieldsOf(Lines[n]))
    /\ first_row \in BOOLEAN
    /\ first_row <=> Passed(n) = 0

Progress(n) == Taken(n) /\ ProducerAt(n) /\ MessagesOf(Passed(n))

FileInv ==
    /\ file \in Seq(Char)
    /\ good \in BOOLEAN
    /\ \E n \in Nat : Progress(n)

-----------------------------------------------------------------------------
(* What is made of a row.                                                   *)

\* The integers read are ints.
LEMMA IntegerRead ==
    ASSUME NEW text \in Seq(Char), string_view_to_int(text) # Throws
    PROVE  string_view_to_int(text)[1] \in Int32
<1> DEFINE v == string_view_to_int(text)[1]
           a == Min(Solid(text))
           b == Max(Solid(text))
<1>1. v \in IntegersOf(text)
    BY IntegersAreRead DEF ReadsInteger
<1> HIDE DEF v
<1>2. Solid(text) # {} /\ v \in IntegersIn(text, a, b)
    BY <1>1 DEF IntegersOf
<1>3. a \in 1 .. Len(text) /\ b \in 1 .. Len(text)
    BY <1>2, SolidEnds
<1> HIDE DEF a, b
<1>4. PICK k \in a .. b : v = Clamp(Sign(text, a, k - 1, Numeral(text, k)[b]))
    BY <1>2 DEF IntegersIn
<1> DEFINE n == Numeral(text, k)[b]
<1>5. n \in Nat
  <2>1. k \in Nat \ {0} /\ b \in 0 .. Len(text)
      BY <1>3
  <2> QED BY <2>1, NumeralByPlace DEF NumeralSteps
<1> HIDE DEF n
<1>6. PICK m \in Int : m = Sign(text, a, k - 1, n)
    BY <1>5 DEF Sign
<1>7. IntMax \in Nat
    BY ConversionsAssumption
<1>8. Clamp(m) \in Int32
    BY <1>6, <1>7 DEF Clamp, Int32
<1> QED BY <1>4, <1>6, <1>8 DEF n, v

\* The prices read are sign, digits, places and exponent.
LEMMA PriceRead ==
    ASSUME NEW text \in Seq(Char), string_view_to_double(text) # Throws
    PROVE  string_view_to_double(text)[1] \in Price
<1> DEFINE a == Skip(text, 1, Blanks)
           w == AfterSign(text, a)
           point == Skip(text, w, Digits)
           past  == PastOf(text, point)
           fraction == FractionAt(text, point)
<1>1. ~DoubleFails(text) /\ string_view_to_double(text) = Value(DoubleFound(text))
    BY DoubleInParts
<1>2. Len(text) \in Nat
    BY LenProperties
<1>3. a \in 1 .. Len(text)
  <2>1. 1 \in 1 .. Len(text) + 1
      BY <1>2
  <2>2. Stops(text, 1, Blanks, a)
      BY <2>1, SkipStops
  <2>3. ~ (a > Len(text))
      BY <1>1 DEF DoubleFails
  <2> QED BY <1>2, <2>2, <2>3 DEF Stops
<1> HIDE DEF a
<1>4. w \in 1 .. Len(text) + 1
    BY <1>2, <1>3 DEF AfterSign
<1> HIDE DEF w
<1>5. MantissaScan(text, w, point, fraction, past)
    BY <1>4, MantissaScanned
<1> HIDE DEF point, past, fraction
<1>6. past \in 1 .. Len(text) + 1 /\ past - fraction \in Nat /\ past - 1 \in 0 .. Len(text)
  <2>1. /\ point \in w .. Len(text) + 1 /\ fraction \in point .. Len(text) + 1
        /\ past \in fraction .. Len(text) + 1
      BY <1>5 DEF MantissaScan
  <2> QED BY ONLY <1>2, <1>4, <2>1
<1>7. Numeral(text, w)[past - 1] \in Nat
  <2>1. w \in Nat \ {0}
      BY <1>4
  <2> QED BY <1>6, <2>1, NumeralByPlace DEF NumeralSteps
<1>8. ExponentAt(text, past) \in Int
  <2>1. CASE ~IsScaled(text, past)
      BY <2>1 DEF ExponentAt
  <2>2. CASE IsScaled(text, past)
    <3> DEFINE i == past + 1
               first == AfterSign(text, i)
               stop == Skip(text, first, Digits)
    <3>1. i \in 1 .. Len(text) + 1
        BY <1>2, <1>6, <2>2 DEF IsScaled, HasOneOf
    <3> HIDE DEF i
    <3>2. first \in 1 .. Len(text) + 1
        BY <1>2, <3>1 DEF AfterSign, HasOneOf
    <3> HIDE DEF first
    <3>3. Stops(text, first, Digits, stop)
        BY <3>2, SkipStops
    <3> HIDE DEF stop
    <3>4. /\ first \in Nat \ {0} /\ stop - 1 \in Nat /\ stop - 1 <= Len(text)
          /\ first <= (stop - 1) + 1 /\ AllIn(text, first, stop - 1, Digits)
      <4>1. stop \in first .. Len(text) + 1 /\ \A k \in first .. stop - 1 : text[k] \in Digits
          BY <3>3 DEF Stops
      <4> QED BY <1>2, <3>2, <4>1 DEF AllIn
    <3>5. Numeral(text, first)[stop - 1] \in Nat
      <4>1. stop - 1 \in 0 .. Len(text)
          BY <1>2, <3>4
      <4> QED BY <3>4, <4>1, NumeralByPlace DEF NumeralSteps
    <3>6. Accumulated(text, first, stop - 1) \in Nat
      <4>1. IntMax \in Nat
          BY ConversionsAssumption
      <4> QED BY <3>4, <3>5, <4>1, AccumulatedIs
    <3>7. Scanned(text, i) \in Int
        BY <3>6 DEF Scanned, first, stop
    <3> QED BY <2>2, <3>7 DEF ExponentAt, i
  <2> QED BY <2>1, <2>2
<1>9. DoubleFound(text) = Decimal(text[a] = "-", Numeral(text, w)[past - 1],
                                  past - fraction, ExponentAt(text, past))
    BY DEF DoubleFound, a, w, point, past, fraction
<1>10. (text[a] = "-") \in BOOLEAN
    OBVIOUS
<1>11. DoubleFound(text) \in Price
    BY ONLY <1>6, <1>7, <1>8, <1>9, <1>10 DEF Decimal, Price
<1> QED BY <1>1, <1>11 DEF Value

\* What is cut off is of the text, without the separator.
Parts(text, c) ==
    \A i \in 1 .. Len(SplitBy(text, c)) :
        /\ SplitBy(text, c)[i] \in Seq(Char)
        /\ \A j \in 1 .. Len(SplitBy(text, c)[i]) :
              /\ SplitBy(text, c)[i][j] # c
              /\ \E k \in 1 .. Len(text) : SplitBy(text, c)[i][j] = text[k]

LEMMA PiecesAreParts == ASSUME NEW text \in Seq(Char), NEW c PROVE Parts(text, c)
<1> DEFINE N == Len(text)
           P == Places(text, c)[N]
           Q == SplitBy(text, c)
<1>1. N \in Nat /\ N \in 0 .. N
    BY LenProperties
<1>2. CutUp(text, c, N, P, Q)
    BY <1>1, PiecesAreBetween DEF SplitBy
<1> HIDE DEF P, Q
<1>3. SUFFICES ASSUME NEW i \in 1 .. Len(Q)
      PROVE /\ Q[i] \in Seq(Char)
            /\ \A j \in 1 .. Len(Q[i]) :
                  Q[i][j] # c /\ \E k \in 1 .. N : Q[i][j] = text[k]
    BY DEF Parts, Q
<1>4. Len(P) \in Nat \ {0} /\ Len(Q) = Len(P) /\ i \in 1 .. Len(P)
    BY <1>2, <1>3 DEF CutUp
<1>5. PICK m \in 0 .. N : m = P[i]
    BY <1>2, <1>4 DEF CutUp
<1>6. \E n \in 0 .. N : Q[i] = SubSeq(text, m + 1, n) /\ \A k \in m + 1 .. n : text[k] # c
  <2>1. CASE i = Len(P)
    <3>1. Q[i] = SubSeq(text, m + 1, N) /\ \A k \in m + 1 .. N : text[k] # c
        BY <1>2, <1>5, <2>1 DEF CutUp
    <3> QED BY <1>1, <3>1
  <2>2. CASE i # Len(P)
    <3>1. i \in 1 .. Len(P) - 1 /\ i + 1 \in 1 .. Len(P)
        BY <1>4, <2>2
    <3>2. P[i + 1] \in 0 .. N /\ NextPlace(text, c, P, i) /\ Q[i] = SubSeq(text, P[i] + 1, P[i + 1] - 1)
        BY <1>2, <3>1 DEF CutUp
    <3>3. PICK p \in 0 .. N : p = P[i + 1]
        BY <3>2
    <3>4. m < p /\ \A k \in m + 1 .. p - 1 : text[k] # c
        BY <1>5, <3>2, <3>3 DEF NextPlace
    <3>5. p - 1 \in 0 .. N
        BY ONLY <1>1, <1>5, <3>3, <3>4
    <3>6. Q[i] = SubSeq(text, m + 1, p - 1)
        BY <1>5, <3>2, <3>3
    <3> QED BY <3>4, <3>5, <3>6
  <2> QED BY <2>1, <2>2
<1>7. PICK n \in 0 .. N : Q[i] = SubSeq(text, m + 1, n) /\ \A k \in m + 1 .. n : text[k] # c
    BY <1>6
<1>8. m + 1 \in Nat \ {0} /\ n \in Nat /\ n <= Len(text)
    BY <1>1
<1> DEFINE t == SubSeq(text, m + 1, n)
<1>9. /\ t \in Seq(Char) /\ Len(t) = IF m + 1 <= n THEN n - (m + 1) + 1 ELSE 0
      /\ \A k \in 1 .. n - (m + 1) + 1 : t[k] = text[(m + 1) + k - 1]
    BY ONLY <1>8, PartOf, text \in Seq(Char)
<1> HIDE DEF t
<1>10. ASSUME NEW j \in 1 .. Len(t) PROVE t[j] # c /\ \E k \in 1 .. N : t[j] = text[k]
  <2>1. PICK l \in Nat : l = Len(t)
      BY <1>9, LenProperties
  <2>2. j \in 1 .. l /\ l = IF m + 1 <= n THEN n - (m + 1) + 1 ELSE 0
      BY <1>9, <2>1
  <2>3. PICK k \in Int : k = (m + 1) + j - 1
      BY <2>2
  <2>4. j \in 1 .. n - (m + 1) + 1 /\ k \in m + 1 .. n /\ k \in 1 .. N
      BY ONLY <1>1, <1>8, <2>2, <2>3, m \in 0 .. N, n \in 0 .. N
  <2>5. t[j] = text[k]
      BY <1>9, <2>3, <2>4
  <2> QED BY <1>7, <2>4, <2>5
<1> QED BY <1>7, <1>9, <1>10 DEF t

\* No line holds a line feed.
LEMMA LinesAreLines ==
    ASSUME NEW text \in Seq(Char), NEW i \in 1 .. Len(LinesOf(text))
    PROVE  /\ LinesOf(text)[i] \in Seq(Char)
           /\ \A j \in 1 .. Len(LinesOf(text)[i]) : LinesOf(text)[i][j] # LineFeed
<1> DEFINE q == SplitBy(text, LineFeed)
<1>1. /\ Len(q) \in Nat \ {0}
      /\ Len(LinesOf(text)) = IF q[Len(q)] = << >> THEN Len(q) - 1 ELSE Len(q)
      /\ LinesOf(text)[i] = q[i]
    BY LinesArePieces DEF LinesAre
<1>2. Parts(text, LineFeed)
    BY PiecesAreParts
<1> HIDE DEF q
<1>3. i \in 1 .. Len(q)
    BY <1>1
<1> QED BY <1>1, <1>2, <1>3 DEF Parts, q

\* So its fields can be fields again.
LEMMA LineHasFields ==
    ASSUME NEW line \in Seq(Char), \A j \in 1 .. Len(line) : line[j] # LineFeed
    PROVE  \A i \in 1 .. Len(FieldsOf(line)) : FieldsOf(line)[i] \in Field
<1> DEFINE t == StripCR(line)
<1>1. t \in Seq(Char) /\ FieldsOf(line) = SplitBy(t, Comma)
    BY FieldsOfALine DEF LineFields
<1>2. \A j \in 1 .. Len(t) : t[j] # LineFeed
  <2>1. CASE line # << >> /\ Last(line) = CarriageReturn
    <3>1. Len(line) \in Nat \ {0}
        BY <2>1, EmptySeq
    <3>2. PICK m \in Nat : m = Len(line) - 1
        BY <3>1
    <3>3. t = SubSeq(line, 1, m)
        BY <2>1, <3>2 DEF StripCR, Front
    <3> HIDE DEF t
    <3>4. 1 \in Nat \ {0} /\ m \in Nat /\ m <= Len(line)
        BY <3>1, <3>2
    <3>5. Len(t) = (IF 1 <= m THEN m - 1 + 1 ELSE 0) /\ \A k \in 1 .. m - 1 + 1 : t[k] = line[1 + k - 1]
        BY ONLY <3>3, <3>4, PartOf, line \in Seq(Char)
    <3>6. Len(t) = m
        BY ONLY <3>4, <3>5
    <3>7. ASSUME NEW j \in 1 .. m PROVE t[j] # LineFeed
      <4>1. j \in 1 .. m - 1 + 1 /\ 1 + j - 1 = j /\ j \in 1 .. Len(line)
          BY <3>1, <3>2
      <4> QED BY <3>5, <4>1
    <3> QED BY <3>6, <3>7
  <2>2. CASE ~ (line # << >> /\ Last(line) = CarriageReturn)
      BY <2>2 DEF StripCR
  <2> QED BY <2>1, <2>2
<1> HIDE DEF t
<1>3. Parts(t, Comma)
    BY <1>1, PiecesAreParts
<1>4. ASSUME NEW i \in 1 .. Len(SplitBy(t, Comma)) PROVE SplitBy(t, Comma)[i] \in Field
  <2> DEFINE f == SplitBy(t, Comma)[i]
  <2>1. /\ f \in Seq(Char)
        /\ \A j \in 1 .. Len(f) : f[j] # Comma /\ \E k \in 1 .. Len(t) : f[j] = t[k]
      BY <1>3 DEF Parts
  <2> HIDE DEF f
  <2>2. \A j \in 1 .. Len(f) : f[j] \notin {Comma, LineFeed}
      BY <1>2, <2>1
  <2>3. f \in Field
      BY <2>1, <2>2 DEF Field
  <2> QED BY <2>3 DEF f
<1> QED BY <1>1, <1>4

\* copy_text keeps what there is room for (csv_order_producer.cpp:27-39).
Copied(n, source) ==
    /\ copy_text(n, source) \in Field
    /\ Len(copy_text(n, source)) < n
    /\ IsPrefix(copy_text(n, source), source)
    /\ Len(source) < n => copy_text(n, source) = source

LEMMA TextCopied ==
    ASSUME NEW n \in Nat \ {0}, NEW source \in Field
    PROVE  Copied(n, source)
<1> DEFINE t == copy_text(n, source)
<1>1. source \in Seq(Char) /\ Len(source) \in Nat /\ \A k \in 1 .. Len(source) : source[k] \notin {Comma, LineFeed}
    BY LenProperties DEF Field
<1>2. CASE Len(source) < n
  <2>1. t = source
      BY <1>2 DEF copy_text
  <2>2. IsPrefix(source, source)
      BY <1>1 DEF IsPrefix
  <2> QED BY <1>2, <2>1, <2>2 DEF Copied
<1>3. CASE ~ (Len(source) < n)
  <2>1. PICK m \in Nat : m = n - 1
      OBVIOUS
  <2>2. t = SubSeq(source, 1, m)
      BY <1>3, <2>1 DEF copy_text
  <2> HIDE DEF t
  <2>3. 1 \in Nat \ {0} /\ m \in Nat /\ m <= Len(source)
      BY <1>1, <1>3, <2>1
  <2>4. /\ t \in Seq(Char) /\ Len(t) = (IF 1 <= m THEN m - 1 + 1 ELSE 0)
        /\ \A k \in 1 .. m - 1 + 1 : t[k] = source[1 + k - 1]
      BY ONLY <1>1, <2>2, <2>3, PartOf
  <2>5. Len(t) = m
      BY ONLY <2>3, <2>4
  <2>6. ASSUME NEW j \in 1 .. m PROVE t[j] \notin {Comma, LineFeed}
    <3>1. j \in 1 .. m - 1 + 1 /\ 1 + j - 1 = j /\ j \in 1 .. Len(source)
        BY <1>1, <2>3
    <3> QED BY <1>1, <2>4, <3>1
  <2>7. t \in Field
      BY <2>4, <2>5, <2>6 DEF Field
  <2>8. IsPrefix(t, source)
    <3>1. SubSeq(t, 1, Len(t)) = t
        BY <2>4, SubSeqFull
    <3> QED BY <2>2, <2>3, <2>5, <3>1 DEF IsPrefix
  <2>9. Len(t) < n /\ ~ (Len(source) < n)
      BY <1>3, <2>1, <2>5
  <2> QED BY <2>7, <2>8, <2>9 DEF Copied, t
<1> QED BY <1>2, <1>3

-----------------------------------------------------------------------------
(* The orders published.                                                    *)

\* Before the first read nothing has been taken.
LEMMA NothingTaken == Init => FileInv
<1> SUFFICES ASSUME Init PROVE FileInv
    OBVIOUS
<1>1. file \in Seq(Char) /\ stream = file /\ good = TRUE /\ good \in BOOLEAN
  <2>1. file \in Seq(STRING)
      BY FilesAssumption DEF Init
  <2>2. STRING \subseteq Char
      BY DEF Char
  <2>3. file \in Seq(Char)
      BY ONLY <2>1, <2>2, SeqMonotonic
  <2> QED BY <2>3 DEF Init
<1>2. LinesAre(file) /\ Len(Lines) \in Nat
  <2>1. LinesAre(file)
      BY <1>1, LinesArePieces
  <2>2. Lines \in Seq(Seq(Char))
      BY <2>1 DEF LinesAre, Lines
  <2> QED BY <2>1, <2>2, LenProperties
<1>3. Taken(0)
  <2>1. Len(file) \in Nat /\ Len(file) \in 0 .. Len(file)
      BY <1>1, LenProperties
  <2>2. CutUp(file, LineFeed, Len(file), FeedPlaces, SplitBy(file, LineFeed))
      BY <1>1, <2>1, PiecesAreBetween DEF FeedPlaces, SplitBy
  <2>3. 0 < Len(FeedPlaces) /\ FeedPlaces[0 + 1] = 0
      BY <2>2 DEF CutUp
  <2>4. stream = SubSeq(file, 0 + 1, Len(file))
      BY <1>1, SubSeqFull
  <2>5. stream = SubSeq(file, FeedPlaces[0 + 1] + 1, Len(file))
      BY <2>3, <2>4
  <2> QED BY <1>1, <1>2, <2>3, <2>5 DEF Taken
<1>4. Passed(0) = 0 /\ ProducerAt(0)
    BY DEF Init, Passed, ProducerAt
<1>5. MessagesOf(0)
  <2>1. RecordsAmong(Lines)[0] = << >>
    <3>1. Lines \in Seq(Seq(Char))
        BY <1>2 DEF LinesAre, Lines
    <3> QED BY <3>1, RecordsByLine DEF RecordsSteps
  <2>2. messages = << >>
      BY DEF Init
  <2>3. messages \in Seq(Message) /\ Len(messages) = 0
      BY <2>2, EmptySeq
  <2> QED BY <2>1, <2>2, <2>3 DEF MessagesOf
<1> QED BY <1>1, <1>3, <1>4, <1>5 DEF FileInv, Progress

\* What nothing but the file tells stays.
LEMMA LinesStay == UNCHANGED file => Lines' = Lines /\ FeedPlaces' = FeedPlaces
    BY DEF Lines, FeedPlaces

\* A line is taken, or the range has ended.
LEMMA NextRowTakes == FileInv /\ NextRow => FileInv'
<1> SUFFICES ASSUME FileInv, NextRow PROVE FileInv'
    OBVIOUS
<1>1. PICK n \in Nat : Progress(n)
    BY DEF FileInv
<1>2. /\ file \in Seq(Char) /\ good \in BOOLEAN /\ Taken(n) /\ ProducerAt(n)
      /\ MessagesOf(Passed(n))
    BY <1>1 DEF FileInv, Progress
<1>3. /\ file' = file /\ first_row' = first_row /\ messages' = messages
      /\ producer = "advance" /\ ~at_end
      /\ producer' = IF at_end' THEN "ended" ELSE "row"
    BY DEF NextRow, Advance
<1>4. Lines' = Lines
    BY <1>3, LinesStay
<1>5. Passed(n) = n
    BY <1>3 DEF Passed
<1>6. file' \in Seq(Char)
    BY <1>2, <1>3
<1>7. MessagesOf(n)'
    BY <1>2, <1>3, <1>4, <1>5 DEF MessagesOf, Says
<1>8. CASE ReadLine
  <2>1. Taken(n + 1)' /\ n + 1 \in 1 .. Len(Lines) /\ line_' = StripCR(Lines[n + 1])
      BY <1>2, <1>3, <1>8, LineTaken
  <2>2. good' \in BOOLEAN /\ at_end' = at_end
      BY <1>2, <1>8 DEF ReadLine
  <2>3. producer' = "row"
      BY <1>3, <2>2
  <2>4. PICK m \in Nat : m = n + 1
      OBVIOUS
  <2>5. Passed(m)' = n
      BY <2>3, <2>4 DEF Passed
  <2>6. ProducerAt(m)'
    <3>1. first_row' \in BOOLEAN /\ (first_row' <=> n = 0)
        BY <1>2, <1>3, <1>5 DEF ProducerAt
    <3>2. m >= 1 /\ line_' = StripCR(Lines'[m])
        BY <1>4, <2>1, <2>4
    <3>3. producer' \in {"advance", "row", "ended", "died"} /\ producer' # "ended" /\ producer' # "died"
        BY <2>3
    <3> QED BY <2>5, <3>1, <3>2, <3>3 DEF ProducerAt
  <2>7. Taken(m)'
      BY <2>1, <2>4
  <2>8. MessagesOf(Passed(m))'
      BY <1>7, <2>5
  <2> QED BY <1>6, <2>2, <2>6, <2>7, <2>8 DEF FileInv, Progress
<1>9. CASE ReadFails
  <2>1. n = Len(Lines) /\ Taken(n)'
      BY <1>2, <1>3, <1>9, NoLineLeft
  <2>2. good' \in BOOLEAN /\ at_end' = TRUE
      BY <1>9 DEF ReadFails
  <2>3. producer' = "ended"
      BY <1>3, <2>2
  <2>5. Passed(n)' = n
      BY <2>3 DEF Passed
  <2>6. ProducerAt(n)'
    <3>1. first_row' \in BOOLEAN /\ (first_row' <=> n = 0)
        BY <1>2, <1>3, <1>5 DEF ProducerAt
    <3>2. producer' \in {"advance", "row", "ended", "died"} /\ producer' # "row" /\ producer' # "died"
        BY <2>3
    <3>3. n = Len(Lines')
        BY <1>4, <2>1
    <3> QED BY <2>5, <3>1, <3>2, <3>3 DEF ProducerAt
  <2>7. MessagesOf(Passed(n))'
      BY <1>7, <2>5
  <2> QED BY <1>6, <2>1, <2>2, <2>6, <2>7 DEF FileInv, Progress
<1> QED BY <1>8, <1>9 DEF NextRow, Advance

\* The line of a row and what it is made of.
RowOf(n) ==
    /\ n \in 1 .. Len(Lines) /\ n \in Nat
    /\ Lines \in Seq(Seq(Char)) /\ RecordsSteps(Lines)
    /\ line_ \in Seq(Char) /\ FieldsAsCut
    /\ FieldsOf(Lines[n]) = SplitBy(line_, Comma)
    /\ FieldsOf(Lines[n]) \in Seq(Seq(Char)) /\ size = Len(FieldsOf(Lines[n]))
    /\ \A i \in 1 .. size : row(i - 1) = FieldsOf(Lines[n])[i] /\ row(i - 1) \in Field

LEMMA RowIsOf ==
    ASSUME NEW n \in Nat, file \in Seq(Char), Progress(n), producer = "row"
    PROVE  RowOf(n)
<1>1. Taken(n) /\ n >= 1 /\ line_ = StripCR(Lines[n])
    BY DEF Progress, ProducerAt
<1>2. Lines \in Seq(Seq(Char))
    BY LinesArePieces DEF LinesAre, Lines
<1>3. n \in 1 .. Len(Lines)
  <2>1. Len(Lines) \in Nat
      BY <1>2, LenProperties
  <2> QED BY <1>1, <2>1 DEF Taken
<1>4. Lines[n] \in Seq(Char) /\ \A j \in 1 .. Len(Lines[n]) : Lines[n][j] # LineFeed
    BY <1>3, LinesAreLines DEF Lines
<1>5. LineFields(Lines[n])
    BY <1>4, FieldsOfALine
<1>6. \A i \in 1 .. Len(FieldsOf(Lines[n])) : FieldsOf(Lines[n])[i] \in Field
    BY <1>4, LineHasFields
<1>7. /\ line_ \in Seq(Char) /\ FieldsOf(Lines[n]) = SplitBy(line_, Comma)
      /\ FieldsOf(Lines[n]) \in Seq(Seq(Char))
    BY <1>1, <1>5 DEF LineFields
<1>8. FieldsAsCut
    BY <1>7, FieldsOfTheRow
<1>9. size = Len(FieldsOf(Lines[n])) /\ \A i \in 1 .. size : row(i - 1) = FieldsOf(Lines[n])[i]
    BY <1>7, <1>8 DEF FieldsAsCut
<1> HIDE DEF Lines
<1>10. RecordsSteps(Lines)
    BY <1>2, RecordsByLine
<1> QED BY <1>2, <1>3, <1>6, <1>7, <1>8, <1>9, <1>10 DEF RowOf

\* The header and short rows are no records.
LEMMA SkippedRow == FileInv /\ SkipRow => FileInv'
<1> SUFFICES ASSUME FileInv, SkipRow PROVE FileInv'
    OBVIOUS
<1>1. PICK n \in Nat : Progress(n)
    BY DEF FileInv
<1>2. /\ file \in Seq(Char) /\ good \in BOOLEAN /\ Taken(n) /\ ProducerAt(n)
      /\ MessagesOf(Passed(n))
    BY <1>1 DEF FileInv, Progress
<1>3. /\ file' = file /\ first_row' = FALSE /\ messages' = messages
      /\ stream' = stream /\ good' = good /\ line_' = line_
      /\ producer = "row" /\ producer' = "advance" /\ Skipped
    BY DEF SkipRow, readerVars
<1>4. Lines' = Lines /\ FeedPlaces' = FeedPlaces
    BY <1>3, LinesStay
<1>5. RowOf(n)
    BY <1>1, <1>2, <1>3, RowIsOf
<1>6. Passed(n) = n - 1 /\ Passed(n)' = n
    BY <1>3 DEF Passed
<1>7. ~IsRecord(Lines, n)
  <2>1. CASE first_row
    <3>1. n - 1 = 0
        BY <1>2, <1>6, <2>1 DEF ProducerAt
    <3>2. ~ (n > 1)
        BY <3>1
    <3> QED BY <3>2 DEF IsRecord
  <2>2. CASE size < 5
    <3>1. Len(FieldsOf(Lines[n])) \in Nat /\ Len(FieldsOf(Lines[n])) < 5
      <4>1. size = Len(FieldsOf(Lines[n])) /\ FieldsOf(Lines[n]) \in Seq(Seq(Char))
          BY <1>5 DEF RowOf
      <4> QED BY <2>2, <4>1, LenProperties
    <3> QED BY <3>1 DEF IsRecord
  <2> QED BY <1>3, <2>1, <2>2 DEF Skipped
<1>8. RecordsAmong(Lines)[n] = RecordsAmong(Lines)[n - 1]
    BY <1>5, <1>7 DEF RowOf, RecordsSteps
<1>9. Taken(n)'
    BY <1>2, <1>3, <1>4 DEF Taken
<1>10. ProducerAt(n)'
  <2>1. n # 0
      BY <1>5 DEF RowOf
  <2> QED BY <1>3, <1>6, <2>1 DEF ProducerAt
<1>11. MessagesOf(n)'
  <2> DEFINE old == RecordsAmong(Lines)[n - 1]
  <2>1. /\ messages \in Seq(Message) /\ Len(messages) = Len(old)
        /\ \A k \in 1 .. Len(messages) : Says(old[k], messages[k])
      BY <1>2, <1>6 DEF MessagesOf
  <2>2. RecordsAmong(Lines')[n] = old
      BY <1>4, <1>8
  <2> HIDE DEF old
  <2> QED BY <1>3, <2>1, <2>2 DEF MessagesOf, Says
<1>12. MessagesOf(Passed(n))'
    BY <1>6, <1>11
<1> QED BY <1>2, <1>3, <1>9, <1>10, <1>12 DEF FileInv, Progress

\* A row that is passed on is a record, and the message says it.
LEMMA PublishedRow == FileInv /\ PublishRow => FileInv'
<1> SUFFICES ASSUME FileInv, PublishRow PROVE FileInv'
    OBVIOUS
<1>1. PICK n \in Nat : Progress(n)
    BY DEF FileInv
<1> DEFINE side     == string_view_to_int(row(2))
           quantity == string_view_to_int(row(3))
           price    == string_view_to_double(row(4))
           fields   == FieldsOf(Lines[n])
           coid     == copy_text(CoidSize, row(0))
           instrument == copy_text(InstrumentSize, row(1))
           message  == [coid |-> coid, instrument |-> instrument,
                        side |-> side[1], quantity |-> quantity[1], price |-> price[1]]
<1>2. /\ file \in Seq(Char) /\ good \in BOOLEAN /\ Taken(n) /\ ProducerAt(n)
      /\ MessagesOf(Passed(n))
    BY <1>1 DEF FileInv, Progress
<1>3. /\ file' = file /\ first_row' = first_row
      /\ stream' = stream /\ good' = good /\ line_' = line_
      /\ producer = "row" /\ ~Skipped
    BY DEF PublishRow, readerVars
<1>30. \/ /\ Parsed(side, quantity, price) /\ messages' = Append(messages, message)
          /\ producer' = "advance"
       \/ /\ ~Parsed(side, quantity, price) /\ messages' = messages
          /\ producer' = "died"
    BY DEF PublishRow
<1>4. Lines' = Lines /\ FeedPlaces' = FeedPlaces
    BY <1>3, LinesStay
<1>5. RowOf(n)
    BY <1>1, <1>2, <1>3, RowIsOf
<1>6. Passed(n) = n - 1 /\ n >= 1
    BY <1>3, <1>5 DEF Passed, RowOf
<1>7. size \in Nat /\ size >= 5 /\ size = Len(fields)
  <2>1. size = Len(FieldsOf(Lines[n])) /\ FieldsOf(Lines[n]) \in Seq(Seq(Char))
      BY <1>5 DEF RowOf
  <2>2. Len(FieldsOf(Lines[n])) \in Nat
      BY <2>1, LenProperties
  <2> QED BY <1>3, <2>1, <2>2 DEF Skipped
<1>8. IsRecord(Lines, n)
  <2>1. ~ (n - 1 = 0)
      BY <1>2, <1>3, <1>6 DEF ProducerAt, Skipped
  <2>2. n > 1
      BY <1>6, <2>1
  <2> QED BY <1>7, <2>2 DEF IsRecord
<1>9. /\ row(0) = fields[1] /\ row(1) = fields[2] /\ row(2) = fields[3]
      /\ row(3) = fields[4] /\ row(4) = fields[5]
      /\ row(0) \in Field /\ row(1) \in Field /\ row(2) \in Field
      /\ row(3) \in Field /\ row(4) \in Field
  <2>1. \A i \in 1 .. size : row(i - 1) = fields[i] /\ row(i - 1) \in Field
      BY <1>5 DEF RowOf
  <2>2. /\ 1 \in 1 .. size /\ 2 \in 1 .. size /\ 3 \in 1 .. size /\ 4 \in 1 .. size
        /\ 5 \in 1 .. size
      BY <1>7
  <2>3. 1 - 1 = 0 /\ 2 - 1 = 1 /\ 3 - 1 = 2 /\ 4 - 1 = 3 /\ 5 - 1 = 4
      OBVIOUS
  <2>4. row(0) = fields[1] /\ row(0) \in Field
      BY <2>1, <2>2, <2>3
  <2>5. row(1) = fields[2] /\ row(1) \in Field
      BY <2>1, <2>2, <2>3
  <2>6. row(2) = fields[3] /\ row(2) \in Field
      BY <2>1, <2>2, <2>3
  <2>7. row(3) = fields[4] /\ row(3) \in Field
      BY <2>1, <2>2, <2>3
  <2>8. row(4) = fields[5] /\ row(4) \in Field
      BY <2>1, <2>2, <2>3
  <2> QED BY <2>4, <2>5, <2>6, <2>7, <2>8
<1>10. row(2) \in Seq(Char) /\ row(3) \in Seq(Char) /\ row(4) \in Seq(Char)
    BY <1>9 DEF Field
<1>11. ReadsInteger(row(2)) /\ ReadsInteger(row(3)) /\ ReadsDecimal(row(4))
    BY <1>10, IntegersAreRead, DecimalsAreRead
<1> HIDE DEF fields
<1>12. Taken(n)'
    BY <1>2, <1>3, <1>4 DEF Taken
<1>13. file' \in Seq(Char) /\ good' \in BOOLEAN
    BY <1>2, <1>3
<1> DEFINE old == RecordsAmong(Lines)[n - 1]
<1>14. /\ messages \in Seq(Message) /\ Len(messages) = Len(old)
       /\ \A k \in 1 .. Len(messages) : Says(old[k], messages[k])
    BY <1>2, <1>6 DEF MessagesOf
<1>15. first_row' \in BOOLEAN /\ ~first_row'
    BY <1>2, <1>3 DEF ProducerAt, Skipped
<1>16. CASE ~Parsed(side, quantity, price)
  <2>1. messages' = messages /\ producer' = "died"
      BY <1>16, <1>30
  <2>2. Malformed(fields)
    <3>1. CASE side = Throws
      <4>1. IntegersOf(fields[3]) = {}
          BY <1>9, <1>11, <3>1 DEF ReadsInteger
      <4> QED BY <4>1 DEF Malformed
    <3>2. CASE quantity = Throws
      <4>1. IntegersOf(fields[4]) = {}
          BY <1>9, <1>11, <3>2 DEF ReadsInteger
      <4> QED BY <4>1 DEF Malformed
    <3>3. CASE price = Throws
      <4>1. DecimalsOf(fields[5]) = {}
          BY <1>9, <1>11, <3>3 DEF ReadsDecimal
      <4> QED BY <4>1 DEF Malformed
    <3> QED BY <1>16, <3>1, <3>2, <3>3 DEF Parsed
  <2>3. Passed(n)' = n - 1
      BY <2>1 DEF Passed
  <2>4. ProducerAt(n)'
    <3>1. line_' = StripCR(Lines'[n])
        BY <1>2, <1>3, <1>4 DEF ProducerAt
    <3>2. IsRecord(Lines', n) /\ Malformed(FieldsOf(Lines'[n]))
        BY <1>4, <1>8, <2>2 DEF fields
    <3>3. n - 1 # 0
        BY <1>8 DEF IsRecord
    <3>4. /\ producer' \in {"advance", "row", "ended", "died"} /\ producer' # "ended"
        BY <2>1
    <3> QED BY <1>6, <1>15, <2>3, <3>1, <3>2, <3>3, <3>4 DEF ProducerAt
  <2>5. MessagesOf(n - 1)'
      BY <1>4, <1>14, <2>1 DEF MessagesOf, Says
  <2>6. MessagesOf(Passed(n))'
      BY <2>3, <2>5
  <2> QED BY <1>12, <1>13, <2>4, <2>6 DEF FileInv, Progress
<1>17. CASE Parsed(side, quantity, price)
  <2>1. messages' = Append(messages, message) /\ producer' = "advance"
      BY <1>17, <1>30
  <2>2. side # Throws /\ quantity # Throws /\ price # Throws
      BY <1>17 DEF Parsed
  <2>3. side[1] \in Int32 /\ quantity[1] \in Int32
      BY <1>10, <2>2, IntegerRead
  <2>4. price[1] \in Price
      BY <1>10, <2>2, PriceRead
  <2>5. Copied(CoidSize, row(0)) /\ Copied(InstrumentSize, row(1))
    <3>1. CoidSize \in Nat \ {0} /\ InstrumentSize \in Nat \ {0}
        BY SizesAssumption
    <3> QED BY <1>9, <3>1, TextCopied
  <2>6. /\ side[1] \in IntegersOf(fields[3]) /\ quantity[1] \in IntegersOf(fields[4])
        /\ price[1] \in DecimalsOf(fields[5])
    <3>1. side[1] \in IntegersOf(fields[3])
        BY <1>9, <1>11, <2>2 DEF ReadsInteger
    <3>2. quantity[1] \in IntegersOf(fields[4])
        BY <1>9, <1>11, <2>2 DEF ReadsInteger
    <3>3. price[1] \in DecimalsOf(fields[5])
        BY <1>9, <1>11, <2>2 DEF ReadsDecimal
    <3> QED BY <3>1, <3>2, <3>3
  <2> DEFINE sd == side[1]
             qt == quantity[1]
             pr == price[1]
  <2>7. message = [coid |-> coid, instrument |-> instrument, side |-> sd, quantity |-> qt, price |-> pr]
      OBVIOUS
  <2>8. coid \in Field /\ instrument \in Field
      BY <2>5 DEF Copied
  <2>9. /\ Len(coid) < CoidSize /\ IsPrefix(coid, fields[1])
        /\ Len(fields[1]) < CoidSize => coid = fields[1]
      BY <1>9, <2>5 DEF Copied
  <2>10. /\ Len(instrument) < InstrumentSize /\ IsPrefix(instrument, fields[2])
         /\ Len(fields[2]) < InstrumentSize => instrument = fields[2]
      BY <1>9, <2>5 DEF Copied
  <2> HIDE DEF coid, instrument, side, quantity, price, sd, qt, pr
  <2>11. message \in Message
    <3>1. sd \in Int32 /\ qt \in Int32 /\ pr \in Price
        BY <2>3, <2>4 DEF sd, qt, pr
    <3>2. coid \in FieldUnder(CoidSize) /\ instrument \in FieldUnder(InstrumentSize)
        BY <2>8, <2>9, <2>10 DEF FieldUnder
    <3> QED BY <2>7, <3>1, <3>2 DEF Message
  <2>12. Says(fields, message)
    <3>1. /\ message.side = sd /\ message.quantity = qt /\ message.price = pr
          /\ message.coid = coid /\ message.instrument = instrument
        BY <2>7
    <3>2. /\ sd \in IntegersOf(fields[3]) /\ qt \in IntegersOf(fields[4])
          /\ pr \in DecimalsOf(fields[5])
        BY <2>6 DEF sd, qt, pr
    <3> HIDE DEF message
    <3> QED BY <2>9, <2>10, <3>1, <3>2 DEF Says
  <2> HIDE DEF message
  <2>13. RecordsAmong(Lines)[n] = Append(old, fields)
      BY <1>5, <1>8 DEF RowOf, RecordsSteps, fields
  <2>14. old \in Seq(Seq(Seq(Char)))
    <3>1. n - 1 \in 0 .. Len(Lines)
      <4>1. Len(Lines) \in Nat
          BY <1>5, LenProperties DEF RowOf
      <4> QED BY <1>5, <4>1 DEF RowOf
    <3> QED BY <1>5, <3>1 DEF RowOf, RecordsSteps, Rows
  <2>15. fields \in Seq(Seq(Char))
      BY <1>5 DEF RowOf, fields
  <2> HIDE DEF old
  <2>16. /\ Len(Append(old, fields)) = Len(old) + 1
         /\ Append(old, fields)[Len(old) + 1] = fields
         /\ \A i \in 1 .. Len(old) : Append(old, fields)[i] = old[i]
      BY ONLY <2>14, <2>15, AppendProperties
  <2>17. /\ messages' \in Seq(Message) /\ Len(messages') = Len(messages) + 1
         /\ messages'[Len(messages) + 1] = message
         /\ \A i \in 1 .. Len(messages) : messages'[i] = messages[i]
      BY ONLY <1>14, <2>1, <2>11, AppendProperties
  <2>18. RecordsAmong(Lines')[n] = Append(old, fields)
      BY <1>4, <2>13
  <2>19. ASSUME NEW k \in 1 .. Len(messages) + 1
         PROVE  Says(Append(old, fields)[k], messages'[k])
    <3>1. Len(messages) \in Nat /\ Len(messages) = Len(old)
        BY <1>14, LenProperties
    <3>2. CASE k = Len(messages) + 1
        BY <2>12, <2>16, <2>17, <3>1, <3>2
    <3>3. CASE k # Len(messages) + 1
      <4>1. k \in 1 .. Len(messages) /\ k \in 1 .. Len(old)
          BY <3>1, <3>3
      <4> QED BY <1>14, <2>16, <2>17, <4>1
    <3> QED BY <3>2, <3>3
  <2>20. MessagesOf(n)'
      BY <1>14, <2>16, <2>17, <2>18, <2>19 DEF MessagesOf, Says
  <2>21. Passed(n)' = n
      BY <2>1 DEF Passed
  <2>22. ProducerAt(n)'
    <3>1. n # 0
        BY <1>6
    <3>2. /\ producer' \in {"advance", "row", "ended", "died"}
          /\ producer' # "row" /\ producer' # "ended" /\ producer' # "died"
        BY <2>1
    <3> QED BY <1>15, <2>21, <3>1, <3>2 DEF ProducerAt
  <2>23. MessagesOf(Passed(n))'
      BY <2>20, <2>21
  <2> QED BY <1>12, <1>13, <2>22, <2>23 DEF FileInv, Progress
<1> QED BY <1>16, <1>17

\* The other steps leave all of it alone.
LEMMA FileStays == FileInv /\ (Refuse \/ UNCHANGED vars) => FileInv'
<1> SUFFICES ASSUME FileInv, Refuse \/ UNCHANGED vars PROVE FileInv'
    OBVIOUS
<1>1. PICK n \in Nat : Progress(n)
    BY DEF FileInv
<1>2. /\ file' = file /\ first_row' = first_row /\ messages' = messages
      /\ stream' = stream /\ good' = good /\ line_' = line_ /\ producer' = producer
    BY DEF Refuse, vars, readerVars
<1>3. Lines' = Lines /\ FeedPlaces' = FeedPlaces
    BY <1>2, LinesStay
<1>4. Taken(n) /\ ProducerAt(n) /\ MessagesOf(Passed(n))
    BY <1>1 DEF Progress
<1>5. Taken(n)'
    BY <1>2, <1>3, <1>4 DEF Taken
<1>6. Passed(n)' = Passed(n)
    BY <1>2 DEF Passed
<1>7. ProducerAt(n)'
    BY <1>2, <1>3, <1>4, <1>6 DEF ProducerAt
<1>8. MessagesOf(Passed(n))'
    BY <1>2, <1>3, <1>4, <1>6 DEF MessagesOf, Says
<1>9. file' \in Seq(Char) /\ good' \in BOOLEAN
    BY <1>2 DEF FileInv
<1> QED BY <1>5, <1>7, <1>8, <1>9 DEF FileInv, Progress

LEMMA FileStep == FileInv /\ [Next]_vars => FileInv'
<1>1. Finished => UNCHANGED vars
    BY DEF Finished
<1> QED BY <1>1, NextRowTakes, SkippedRow, PublishedRow, FileStays DEF Next

LEMMA FileInvImplies == FileInv => MessagesAsWritten
<1> SUFFICES ASSUME FileInv PROVE MessagesAsWritten
    OBVIOUS
<1>1. PICK n \in Nat : Progress(n)
    BY DEF FileInv
<1>2. Taken(n) /\ ProducerAt(n) /\ MessagesOf(Passed(n)) /\ file \in Seq(Char)
    BY <1>1 DEF Progress, FileInv
<1>3. Lines \in Seq(Seq(Char)) /\ Len(Lines) \in Nat
  <2>1. Lines \in Seq(Seq(Char))
      BY <1>2, LinesArePieces DEF LinesAre, Lines
  <2> QED BY <2>1, LenProperties
<1>4. Records = RecordsAmong(Lines)[Len(Lines)]
    BY DEF Records, Lines
<1> DEFINE p == Passed(n)
           R == RecordsAmong(Lines)
<1> HIDE DEF Lines
<1>5. n \in 0 .. Len(Lines) /\ (producer \in {"row", "died"} => n >= 1)
    BY <1>2 DEF Taken, ProducerAt
<1>6. p \in 0 .. Len(Lines)
    BY <1>3, <1>5 DEF Passed
<1>7. Begins(R[p], R[Len(Lines)])
  <2> HIDE DEF p
  <2> QED BY <1>3, <1>6, RecordsBegin
<1>8. RecordsSteps(Lines)
    BY <1>3, RecordsByLine
<1>9. /\ Len(messages) = Len(R[p]) /\ \A k \in 1 .. Len(messages) : Says(R[p][k], messages[k])
      /\ Len(messages) \in Nat
    BY <1>2, LenProperties DEF MessagesOf
<1> HIDE DEF p
<1>10. R[p] \in Rows /\ R[Len(Lines)] \in Rows
    BY <1>3, <1>6, <1>8 DEF RecordsSteps
<1> HIDE DEF R
<1>11. Len(R[Len(Lines)]) \in Nat /\ Len(R[p]) \in Nat
    BY <1>10, LenProperties DEF Rows
<1>12. Len(messages) <= Len(Records)
    BY <1>4, <1>7, <1>9 DEF Begins, R
<1>13. \A k \in 1 .. Len(messages) : Says(Records[k], messages[k])
    BY <1>4, <1>7, <1>9 DEF Begins, R
<1>14. producer = "ended" => Len(messages) = Len(Records)
  <2> SUFFICES ASSUME producer = "ended" PROVE Len(messages) = Len(Records)
      OBVIOUS
  <2>1. p = Len(Lines)
      BY <1>2 DEF Passed, ProducerAt, p
  <2> QED BY <1>4, <1>9, <2>1 DEF R
<1>15. producer = "died" =>
         Len(messages) < Len(Records) /\ Malformed(Records[Len(messages) + 1])
  <2> SUFFICES ASSUME producer = "died"
               PROVE  Len(messages) < Len(Records) /\ Malformed(Records[Len(messages) + 1])
      OBVIOUS
  <2>1. p = n - 1 /\ n >= 1 /\ n \in 1 .. Len(Lines)
      BY <1>3, <1>5 DEF Passed, p
  <2>2. IsRecord(Lines, n) /\ Malformed(FieldsOf(Lines[n]))
      BY <1>2 DEF ProducerAt
  <2> DEFINE fields == FieldsOf(Lines[n])
  <2>3. R[n] = Append(R[p], fields)
      BY <1>8, <2>1, <2>2 DEF RecordsSteps, R
  <2>4. fields \in Seq(Seq(Char))
    <3>1. Lines[n] \in Seq(Char)
        BY <1>3, <2>1, ElementOfSeq
    <3> QED BY <3>1, FieldsOfALine DEF LineFields
  <2>5. Malformed(fields)
      BY <2>2
  <2> HIDE DEF fields
  <2>6. R[p] \in Seq(Seq(Seq(Char)))
      BY <1>10 DEF Rows
  <2>7. Len(R[n]) = Len(R[p]) + 1 /\ R[n][Len(R[p]) + 1] = fields
      BY ONLY <2>3, <2>4, <2>6, AppendProperties
  <2>8. Begins(R[n], R[Len(Lines)])
    <3>1. n \in 0 .. Len(Lines)
        BY <2>1
    <3> QED BY <1>3, <3>1, RecordsBegin DEF R
  <2>9. Len(R[p]) + 1 <= Len(R[Len(Lines)]) /\ Len(R[p]) + 1 \in 1 .. Len(R[n])
    <3>1. PICK a \in Nat : a = Len(R[p])
        BY <1>11
    <3>2. Len(R[n]) = a + 1
        BY <2>7, <3>1
    <3> QED BY <2>8, <3>1, <3>2 DEF Begins
  <2>10. R[Len(Lines)][Len(R[p]) + 1] = fields
      BY <2>7, <2>8, <2>9 DEF Begins
  <2> QED BY <1>4, <1>9, <1>11, <2>5, <2>9, <2>10 DEF R
<1> QED BY <1>12, <1>13, <1>14, <1>15 DEF MessagesAsWritten

\* The orders published are the records of the file, whatever the file.
THEOREM FileIsRead == Spec => []MessagesAsWritten
<1>1. FileInv /\ [Next]_vars => FileInv'
    BY FileStep
<1> QED BY <1>1, NothingTaken, FileInvImplies, PTL DEF Spec

-----------------------------------------------------------------------------
(* The digits of a number.                                                  *)

\* Its digits are taken off a number one after the other.
ShortenedSteps(n) ==
    /\ Shortened(n)[0] = n
    /\ \A k \in 0 .. n + 1 : Shortened(n)[k] \in Nat
    /\ \A k \in 1 .. n + 1 : Shortened(n)[k] = Shortened(n)[k - 1] \div 10

LEMMA ShortenedByDigit == ASSUME NEW n \in Nat PROVE ShortenedSteps(n)
<1> DEFINE N == n + 1
           step == [p \in Nat \X (1 .. N) |-> p[1] \div 10]
           body(f) == [k \in 0 .. n + 1 |-> IF k = 0 THEN n ELSE f[k - 1] \div 10]
           found == CHOOSE f : f = body(f)
<1>1. N \in Nat
    OBVIOUS
<1>2. \A m \in Nat : m \div 10 \in Nat
    OBVIOUS
<1>3. step \in [Nat \X (1 .. N) -> Nat]
    BY <1>2
<1>4. PICK g : Steps(g, N, Nat, n, step)
  <2> HIDE DEF step, N
  <2> QED BY <1>1, <1>3, Recursion
<1>5. g \in [0 .. N -> Nat] /\ g[0] = n /\ \A k \in 1 .. N : g[k] = g[k - 1] \div 10
  <2>1. ASSUME NEW k \in 1 .. N PROVE g[k] = g[k - 1] \div 10
    <3>1. k - 1 \in 0 .. N
        BY <1>1
    <3>2. g[k - 1] \in Nat /\ g[k] = step[<<g[k - 1], k>>]
        BY <1>4, <3>1 DEF Steps
    <3> QED BY <3>2
  <2> QED BY <1>4, <2>1 DEF Steps
<1>6. g = body(g)
  <2>1. ASSUME NEW k \in 0 .. N PROVE g[k] = IF k = 0 THEN n ELSE g[k - 1] \div 10
    <3>1. k # 0 => k \in 1 .. N
        OBVIOUS
    <3> QED BY <1>5, <3>1
  <2> QED BY <1>5, <2>1
<1>7. found = body(found)
  <2> HIDE DEF body
  <2> QED BY <1>6
<1>8. Shortened(n) = found
    BY DEF Shortened
<1> HIDE DEF found
<1>9. \A k \in 0 .. N : found[k] = IF k = 0 THEN n ELSE found[k - 1] \div 10
    BY <1>7
<1>10. found[0] = n /\ \A k \in 1 .. N : found[k] = found[k - 1] \div 10
  <2>1. 0 \in 0 .. N /\ \A k \in 1 .. N : k \in 0 .. N /\ k # 0
      BY <1>1
  <2> QED BY <1>9, <2>1
<1>11. \A k \in 0 .. N : found[k] \in Nat
  <2> DEFINE T == {j \in 0 .. N : found[j] \in Nat}
  <2>1. 0 \in T
      BY <1>1, <1>10
  <2>2. ASSUME NEW k \in 1 .. N, k - 1 \in T PROVE k \in T
      BY <1>2, <1>10, <2>2
  <2>3. \A k \in 0 .. N : k \in T
    <3> HIDE DEF T
    <3> QED BY <1>1, <2>1, <2>2, UpTo
  <2> QED BY <2>3
<1> QED BY <1>8, <1>10, <1>11 DEF ShortenedSteps

\* How many digits there are: the first time that nothing is left.
IsCount(n, count) ==
    /\ count \in 1 .. n + 1
    /\ Shortened(n)[count] = 0
    /\ count = 1 \/ Shortened(n)[count - 1] # 0

LEMMA CountOfDigits == ASSUME NEW n \in Nat PROVE \E count : IsCount(n, count)
<1> DEFINE left == Shortened(n)
           N == n + 1
           T == {k \in 0 .. N : left[k] = 0 \/ left[k] <= n - k}
           Z == {k \in 1 .. N : left[k] = 0}
<1>1. /\ left[0] = n /\ \A k \in 0 .. N : left[k] \in Nat
      /\ \A k \in 1 .. N : left[k] = left[k - 1] \div 10
    BY ShortenedByDigit DEF ShortenedSteps
<1> HIDE DEF left
<1>2. N \in Nat
    OBVIOUS
<1>3. 0 \in T
    BY <1>1
<1>4. ASSUME NEW k \in 1 .. N, k - 1 \in T PROVE k \in T
  <2>1. PICK a \in Nat : a = left[k - 1]
      BY <1>1, <1>4
  <2>2. left[k] = a \div 10 /\ (a = 0 \/ a <= n - (k - 1))
      BY <1>1, <1>4, <2>1
  <2>3. a \div 10 = 0 \/ a \div 10 <= a - 1
      OBVIOUS
  <2> QED BY <2>2, <2>3
<1>5. \A k \in 0 .. N : k \in T
  <2> HIDE DEF T, N
  <2> QED BY <1>2, <1>3, <1>4, UpTo
<1>6. N \in Z
  <2>1. N \in T
      BY <1>5
  <2>2. left[N] \in Nat
      BY <1>1
  <2> QED BY <2>1, <2>2
<1>7. PICK m \in Z : \A k \in Z : m <= k
  <2>1. Z \in SUBSET Nat /\ Z # {}
      BY <1>6
  <2> HIDE DEF Z
  <2> QED BY <2>1, Least
<1>8. m = 1 \/ left[m - 1] # 0
  <2> SUFFICES ASSUME m # 1, left[m - 1] = 0 PROVE FALSE
      OBVIOUS
  <2>1. m - 1 \in Z
      OBVIOUS
  <2>2. m <= m - 1
      BY <1>7, <2>1
  <2> QED BY <2>2
<1>9. IsCount(n, m)
    BY <1>7, <1>8 DEF IsCount, left
<1> QED BY <1>9

\* The digits, the last of a number behind those of the number without it.
DigitsAre(n, count) ==
    /\ IsCount(n, count)
    /\ DigitsOf(n) \in Seq(Char) /\ Len(DigitsOf(n)) = count
    /\ \A k \in 1 .. count :
          /\ DigitsOf(n)[k] \in Digits
          /\ DigitValue(DigitsOf(n)[k]) = Shortened(n)[count - k] % 10

LEMMA DigitsByPlace == ASSUME NEW n \in Nat PROVE \E count : DigitsAre(n, count)
<1> DEFINE left == Shortened(n)
           count == CHOOSE k \in 1 .. n + 1 : left[k] = 0 /\ (k = 1 \/ left[k - 1] # 0)
           text == [k \in 1 .. count |-> DigitChars[(left[count - k] % 10) + 1]]
<1>1. \A k \in 0 .. n + 1 : left[k] \in Nat
    BY ShortenedByDigit DEF ShortenedSteps
<1>2. IsCount(n, count)
  <2>1. \E k \in 1 .. n + 1 : left[k] = 0 /\ (k = 1 \/ left[k - 1] # 0)
      BY CountOfDigits DEF IsCount
  <2> QED BY <2>1 DEF IsCount
<1>3. DigitsOf(n) = text
    BY DEF DigitsOf
<1> HIDE DEF left, count
<1>4. count \in 1 .. n + 1 /\ count \in Nat
    BY <1>2 DEF IsCount
<1>5. ASSUME NEW k \in 1 .. count
      PROVE  /\ DigitChars[(left[count - k] % 10) + 1] \in Digits
             /\ DigitChars[(left[count - k] % 10) + 1] \in Char
             /\ DigitValue(DigitChars[(left[count - k] % 10) + 1]) = left[count - k] % 10
  <2>1. count - k \in 0 .. n + 1
      BY <1>4
  <2>2. PICK d \in 0 .. 9 : d = left[count - k] % 10
      BY <1>1, <2>1
  <2>3. DigitChars[d + 1] \in Digits /\ DigitValue(DigitChars[d + 1]) = d
      BY DigitFacts
  <2>4. DigitChars[d + 1] \in Char
      BY <2>3, DigitFacts
  <2> QED BY <2>2, <2>3, <2>4
<1>6. text \in Seq(Char) /\ Len(text) = count
  <2>1. text \in [1 .. count -> Char]
    <3> DEFINE e(k) == DigitChars[(left[count - k] % 10) + 1]
    <3>1. \A k \in 1 .. count : e(k) \in Char
        BY <1>5
    <3> HIDE DEF e
    <3>2. [k \in 1 .. count |-> e(k)] \in [1 .. count -> Char]
        BY <3>1
    <3> QED BY <3>2 DEF e
  <2> HIDE DEF text
  <2> QED BY <1>4, <2>1
<1>7. \A k \in 1 .. count : text[k] = DigitChars[(left[count - k] % 10) + 1]
    OBVIOUS
<1> HIDE DEF text
<1>8. ASSUME NEW k \in 1 .. count
      PROVE  text[k] \in Digits /\ DigitValue(text[k]) = left[count - k] % 10
    BY <1>5, <1>7
<1>9. DigitsAre(n, count)
    BY <1>2, <1>3, <1>6, <1>8 DEF DigitsAre, left
<1> QED BY <1>9

\* They are read as the number again.
LEMMA DigitsReadBack ==
    ASSUME NEW n \in Nat
    PROVE  Numeral(DigitsOf(n), 1)[Len(DigitsOf(n))] = n
<1> DEFINE text == DigitsOf(n)
           left == Shortened(n)
           number == Numeral(text, 1)
<1>1. PICK count : DigitsAre(n, count)
    BY DigitsByPlace
<1>2. /\ text \in Seq(Char) /\ Len(text) = count /\ count \in 1 .. n + 1 /\ left[count] = 0
      /\ \A k \in 1 .. count : text[k] \in Digits /\ DigitValue(text[k]) = left[count - k] % 10
    BY <1>1 DEF DigitsAre, IsCount
<1>3. /\ left[0] = n /\ \A k \in 0 .. n + 1 : left[k] \in Nat
      /\ \A k \in 1 .. n + 1 : left[k] = left[k - 1] \div 10
    BY ShortenedByDigit DEF ShortenedSteps
<1> HIDE DEF text, left
<1>4. NumeralSteps(text, 1)
  <2>1. 1 \in Nat \ {0}
      OBVIOUS
  <2> QED BY <1>2, <2>1, NumeralByPlace
<1>5. number[0] = 0 /\ \A k \in 1 .. count : number[k] = number[k - 1] * 10 + DigitValue(text[k])
  <2>1. 0 \in 0 .. Len(text) /\ 0 < 1
      BY <1>2
  <2> QED BY <1>2, <1>4, <2>1 DEF NumeralSteps
<1> HIDE DEF number
<1> DEFINE T == {k \in 0 .. count : number[k] = left[count - k]}
<1>6. 0 \in T
    BY <1>2, <1>5
<1>7. ASSUME NEW k \in 1 .. count, k - 1 \in T PROVE k \in T
  <2>1. count - k \in 0 .. n + 1 /\ count - (k - 1) \in 1 .. n + 1
        /\ (count - (k - 1)) - 1 = count - k
      BY <1>2
  <2>2. PICK a \in Nat : a = left[count - k]
      BY <1>3, <2>1
  <2>3. number[k - 1] = a \div 10
      BY <1>3, <1>7, <2>1, <2>2
  <2>4. number[k] = (a \div 10) * 10 + (a % 10)
      BY <1>2, <1>5, <2>2, <2>3
  <2>5. (a \div 10) * 10 + (a % 10) = a
      OBVIOUS
  <2> QED BY <2>2, <2>4, <2>5
<1>8. \A k \in 0 .. count : k \in T
  <2>1. count \in Nat
      BY <1>2
  <2> HIDE DEF T
  <2> QED BY <1>6, <1>7, <2>1, UpTo
<1>9. number[count] = left[0]
  <2>1. count \in 0 .. count /\ count - count = 0
      BY <1>2
  <2> QED BY <1>8, <2>1
<1> QED BY <1>2, <1>3, <1>9 DEF text, number

\* A greater number has no fewer digits.
LEMMA MoreDigits ==
    ASSUME NEW n \in Nat, NEW m \in Nat, n <= m
    PROVE  Len(DigitsOf(n)) <= Len(DigitsOf(m))
<1>1. PICK c : DigitsAre(n, c)
    BY DigitsByPlace
<1>2. PICK d : DigitsAre(m, d)
    BY DigitsByPlace
<1> DEFINE a == Shortened(n)
           b == Shortened(m)
<1>3. /\ c \in 1 .. n + 1 /\ d \in 1 .. m + 1 /\ b[d] = 0 /\ (c = 1 \/ a[c - 1] # 0)
      /\ Len(DigitsOf(n)) = c /\ Len(DigitsOf(m)) = d
    BY <1>1, <1>2 DEF DigitsAre, IsCount
<1>4. /\ a[0] = n /\ \A k \in 0 .. n + 1 : a[k] \in Nat
      /\ \A k \in 1 .. n + 1 : a[k] = a[k - 1] \div 10
    BY ShortenedByDigit DEF ShortenedSteps
<1>5. /\ b[0] = m /\ \A k \in 0 .. m + 1 : b[k] \in Nat
      /\ \A k \in 1 .. m + 1 : b[k] = b[k - 1] \div 10
    BY ShortenedByDigit DEF ShortenedSteps
<1> HIDE DEF a, b
<1> DEFINE T == {k \in 0 .. n + 1 : a[k] <= b[k]}
           U == {k \in 0 .. n + 1 : k >= d => a[k] = 0}
<1>6. \A k \in 0 .. n + 1 : k \in T
  <2>1. 0 \in T
      BY <1>4, <1>5
  <2>2. ASSUME NEW k \in 1 .. n + 1, k - 1 \in T PROVE k \in T
    <3>1. k - 1 \in 0 .. n + 1 /\ k \in 1 .. m + 1 /\ k - 1 \in 0 .. m + 1
        OBVIOUS
    <3>2. PICK x, y \in Nat : x = a[k - 1] /\ y = b[k - 1]
        BY <1>4, <1>5, <3>1
    <3>3. x <= y /\ a[k] = x \div 10 /\ b[k] = y \div 10
        BY <1>4, <1>5, <2>2, <3>1, <3>2
    <3>4. x \div 10 <= y \div 10
        BY <3>3
    <3> QED BY <3>3, <3>4
  <2> HIDE DEF T
  <2>3. n + 1 \in Nat
      OBVIOUS
  <2> QED BY <2>1, <2>2, <2>3, UpTo
<1>7. SUFFICES ASSUME d < c PROVE FALSE
    BY <1>3
<1>8. a[d] = 0
  <2>1. d \in 0 .. n + 1 /\ a[d] <= b[d] /\ a[d] \in Nat
      BY <1>3, <1>4, <1>6, <1>7
  <2> QED BY <1>3, <2>1
<1>9. \A k \in 0 .. n + 1 : k \in U
  <2>1. 0 \in U
      BY <1>3
  <2>2. ASSUME NEW k \in 1 .. n + 1, k - 1 \in U PROVE k \in U
    <3>1. CASE k = d
        BY <1>8, <3>1
    <3>2. CASE k > d
      <4>1. k - 1 >= d
          BY <1>3, <3>2
      <4>2. a[k] = 0 \div 10
          BY <1>4, <2>2, <4>1
      <4>3. 0 \div 10 = 0
          OBVIOUS
      <4> QED BY <4>2, <4>3
    <3>3. CASE k < d
        BY <1>3, <3>3
    <3> QED BY <1>3, <3>1, <3>2, <3>3
  <2> HIDE DEF U
  <2>3. n + 1 \in Nat
      OBVIOUS
  <2> QED BY <2>1, <2>2, <2>3, UpTo
<1>10. c - 1 \in 0 .. n + 1 /\ c - 1 >= d /\ c # 1
    BY <1>3, <1>7
<1> QED BY <1>3, <1>9, <1>10

\* A text without blanks says all that it holds.
NoBlanks(text) ==
    /\ Len(text) \in Nat \ {0}
    /\ Solid(text) # {} /\ Min(Solid(text)) = 1 /\ Max(Solid(text)) = Len(text)

LEMMA AllSolid ==
    ASSUME NEW text \in Seq(Char), Len(text) # 0, \A k \in 1 .. Len(text) : text[k] \notin Blanks
    PROVE  NoBlanks(text)
<1>1. Len(text) \in Nat \ {0} /\ DOMAIN text = 1 .. Len(text)
    BY LenProperties
<1>2. Solid(text) # {}
    BY <1>1 DEF Solid
<1> DEFINE a == Min(Solid(text))
           b == Max(Solid(text))
<1>3. /\ a \in 1 .. Len(text) /\ b \in 1 .. Len(text)
      /\ \A k \in 1 .. a - 1 : text[k] \in Blanks
      /\ \A k \in b + 1 .. Len(text) : text[k] \in Blanks
    BY <1>2, SolidEnds
<1> HIDE DEF a, b
<1>4. a = 1
  <2> SUFFICES ASSUME a # 1 PROVE FALSE
      OBVIOUS
  <2>1. 1 \in 1 .. a - 1 /\ 1 \in 1 .. Len(text)
      BY <1>1, <1>3
  <2> QED BY <1>3, <2>1
<1>5. b = Len(text)
  <2> SUFFICES ASSUME b # Len(text) PROVE FALSE
      OBVIOUS
  <2>1. PICK L \in Nat : L = Len(text)
      BY <1>1
  <2>2. b \in 1 .. L /\ b # L
      BY <1>3, <2>1
  <2>3. PICK k \in Int : k = b + 1
      BY <2>2
  <2>4. k \in b + 1 .. L /\ k \in 1 .. L
      BY ONLY <2>2, <2>3, L \in Nat
  <2>5. text[k] \in Blanks /\ text[k] \notin Blanks
      BY <1>3, <2>1, <2>4
  <2> QED BY <2>5
<1> QED BY <1>1, <1>2, <1>4, <1>5 DEF NoBlanks, a, b

\* A sign, if s is 1, and the digits of n from there on.
Signed(text, s, n) ==
    /\ text \in Seq(Char) /\ s \in {0, 1}
    /\ Len(DigitsOf(n)) \in Nat \ {0}
    /\ Len(text) \in Nat /\ s + Len(DigitsOf(n)) <= Len(text)
    /\ s = 1 => text[1] = "-"
    /\ \A k \in 1 .. Len(DigitsOf(n)) : text[s + k] = DigitsOf(n)[k] /\ text[s + k] \in Digits
    /\ Numeral(text, s + 1)[s + Len(DigitsOf(n))] = n

\* The digits stand behind a sign or at the beginning.
LEMMA SignedIs ==
    ASSUME NEW n \in Nat, NEW s \in {0, 1}, NEW text \in Seq(Char),
           s + Len(DigitsOf(n)) <= Len(text), s = 1 => text[1] = "-",
           \A k \in 1 .. Len(DigitsOf(n)) : text[s + k] = DigitsOf(n)[k]
    PROVE  Signed(text, s, n)
<1> DEFINE D == DigitsOf(n)
           m == Len(D)
<1>1. PICK count : DigitsAre(n, count)
    BY DigitsByPlace
<1>2. D \in Seq(Char) /\ m \in Nat \ {0} /\ \A k \in 1 .. m : D[k] \in Digits
    BY <1>1 DEF DigitsAre, IsCount
<1>3. Numeral(D, 1)[m] = n
    BY DigitsReadBack
<1> HIDE DEF D, m
<1>4. Len(text) \in Nat
    BY LenProperties
<1>5. /\ s + 1 \in Nat \ {0} /\ 1 \in Nat \ {0} /\ m \in Nat /\ s + 1 - 1 + m <= Len(text)
      /\ 1 - 1 + m <= Len(D) /\ s + 1 - 1 = s /\ 1 - 1 + m = m
  <2>1. s + m <= Len(text) /\ m = Len(D)
      BY DEF m, D
  <2> QED BY <1>2, <1>4, <2>1
<1>6. \A k \in 1 .. m : text[s + 1 - 1 + k] = D[1 - 1 + k]
  <2>1. \A k \in 1 .. m : s + 1 - 1 + k = s + k /\ 1 - 1 + k = k /\ text[s + k] = D[k]
      BY <1>2 DEF m, D
  <2> QED BY <2>1
<1>7. Numeral(text, s + 1)[s + 1 - 1 + m] = Numeral(D, 1)[1 - 1 + m]
  <2>1. PICK i \in Nat \ {0} : i = s + 1
      BY <1>5
  <2>2. PICK j \in Nat \ {0} : j = 1
      BY <1>5
  <2>3. /\ i - 1 + m <= Len(text) /\ j - 1 + m <= Len(D) /\ m \in Nat
        /\ \A k \in 1 .. m : text[i - 1 + k] = D[j - 1 + k]
      BY <1>5, <1>6, <2>1, <2>2
  <2>4. SameCharacters(text, i, D, j, m)
      BY <2>3 DEF SameCharacters
  <2>5. SameNumeral(text, i, D, j, m)
      BY <1>2, <2>3, <2>4, NumeralElsewhere
  <2> QED BY <2>1, <2>2, <2>5 DEF SameNumeral
<1>8. Numeral(text, s + 1)[s + m] = n
    BY <1>3, <1>5, <1>7
<1>9. \A k \in 1 .. m : text[s + k] = D[k] /\ text[s + k] \in Digits
    BY <1>2 DEF m, D
<1> QED BY <1>2, <1>4, <1>8, <1>9 DEF Signed, D, m

\* Numbers are written as a sign and digits.
LEMMA Written ==
    ASSUME NEW n \in Int
    PROVE  LET s == IF n < 0 THEN 1 ELSE 0
               m == IF n < 0 THEN -n ELSE n
           IN Signed(to_chars(n), s, m) /\ Len(to_chars(n)) = s + Len(DigitsOf(m)) /\ m \in Nat
<1>1. CASE n < 0
  <2> DEFINE D == DigitsOf(-n)
             t == <<"-">> \o D
  <2>1. to_chars(n) = t
      BY <1>1 DEF to_chars
  <2>2. -n \in Nat
      BY <1>1
  <2>3. D \in Seq(Char) /\ Len(D) \in Nat
      BY <2>2, DigitsByPlace, LenProperties DEF DigitsAre
  <2>4. "-" \in Char
      BY DEF Char
  <2>5. <<"-">> \in Seq(Char) /\ Len(<<"-">>) = 1 /\ <<"-">>[1] = "-"
      BY <2>4
  <2> HIDE DEF D
  <2>6. /\ t \in Seq(Char) /\ Len(t) = 1 + Len(D)
        /\ \A i \in 1 .. 1 + Len(D) : t[i] = IF i <= 1 THEN <<"-">>[i] ELSE D[i - 1]
      BY <2>3, <2>5, ConcatProperties
  <2> HIDE DEF t
  <2>7. t[1] = "-"
      BY <2>3, <2>5, <2>6
  <2>8. \A k \in 1 .. Len(D) : t[1 + k] = D[k]
    <3>1. ASSUME NEW k \in 1 .. Len(D) PROVE t[1 + k] = D[k]
      <4>1. 1 + k \in 1 .. 1 + Len(D) /\ ~ (1 + k <= 1) /\ (1 + k) - 1 = k
          BY <2>3
      <4> QED BY <2>6, <4>1
    <3> QED BY <3>1
  <2>9. 1 + Len(D) <= Len(t) /\ 1 \in {0, 1}
      BY <2>3, <2>6
  <2>10. Signed(t, 1, -n)
      BY <2>2, <2>6, <2>7, <2>8, <2>9, SignedIs DEF D
  <2> QED BY <1>1, <2>1, <2>2, <2>6, <2>10 DEF D
<1>2. CASE ~ (n < 0)
  <2>1. to_chars(n) = DigitsOf(n) /\ n \in Nat
      BY <1>2 DEF to_chars
  <2> DEFINE D == DigitsOf(n)
  <2>2. D \in Seq(Char) /\ Len(D) \in Nat
      BY <2>1, DigitsByPlace, LenProperties DEF DigitsAre
  <2> HIDE DEF D
  <2>3. \A k \in 1 .. Len(D) : D[0 + k] = D[k]
      BY <2>2
  <2>4. 0 + Len(D) <= Len(D) /\ 0 \in {0, 1} /\ 0 # 1 /\ 0 + Len(D) = Len(D)
      BY <2>2
  <2>5. Signed(D, 0, n)
      BY <2>1, <2>2, <2>3, <2>4, SignedIs DEF D
  <2> QED BY <1>2, <2>1, <2>4, <2>5 DEF D
<1> QED BY <1>1, <1>2

\* What is written of an int is read as it again.
LEMMA IntegerReadsBack ==
    ASSUME NEW n \in Int32
    PROVE  string_view_to_int(to_chars(n)) = Value(n)
<1> DEFINE s == IF n < 0 THEN 1 ELSE 0
           m == IF n < 0 THEN -n ELSE n
           t == to_chars(n)
           d == Len(DigitsOf(m))
           L == Len(t)
<1>1. IntMax \in Nat /\ n \in Int /\ n <= IntMax /\ -IntMax <= n
    BY ConversionsAssumption DEF Int32
<1>2. Signed(t, s, m) /\ L = s + d /\ m \in Nat
    BY <1>1, Written
<1>3. /\ t \in Seq(Char) /\ s \in {0, 1} /\ d \in Nat \ {0}
      /\ s = 1 => t[1] = "-"
      /\ \A k \in 1 .. d : t[s + k] \in Digits
      /\ Numeral(t, s + 1)[s + d] = m
    BY <1>2 DEF Signed
<1>4. m <= IntMax /\ s = (IF n < 0 THEN 1 ELSE 0) /\ m = (IF n < 0 THEN -n ELSE n)
    BY <1>1
<1> HIDE DEF s, m, t, d, L
<1>5. L \in Nat \ {0} /\ L = Len(t)
    BY <1>2, <1>3 DEF L
<1>6. \A k \in s + 1 .. L : t[k] \in Digits
  <2>1. ASSUME NEW k \in s + 1 .. L PROVE t[k] \in Digits
    <3>1. k - s \in 1 .. d /\ s + (k - s) = k
        BY <1>2, <1>3
    <3>2. t[s + (k - s)] \in Digits
        BY <1>3, <3>1
    <3> QED BY <3>1, <3>2
  <2> QED BY <2>1
<1>7. \A k \in 1 .. L : t[k] \notin Blanks
  <2>1. ASSUME NEW k \in 1 .. L PROVE t[k] \notin Blanks
    <3>1. CASE k \in s + 1 .. L
        BY <1>6, <3>1, DigitFacts DEF Blanks
    <3>2. CASE k \notin s + 1 .. L
      <4>1. s = 1 /\ k = 1
          BY <1>3, <1>5, <3>2
      <4> QED BY <1>3, <4>1 DEF Blanks
    <3> QED BY <3>1, <3>2
  <2> QED BY <2>1
<1>8. NoBlanks(t)
    BY <1>3, <1>5, <1>7, AllSolid
<1>9. Solid(t) # {} /\ Min(Solid(t)) = 1 /\ Max(Solid(t)) = L
    BY <1>5, <1>8 DEF NoBlanks
<1>10. n \in IntegersIn(t, 1, L)
  <2> DEFINE k == s + 1
  <2>1. k \in 1 .. L
      BY <1>2, <1>3
  <2>2. AllIn(t, k, L, Digits)
      BY <1>6 DEF AllIn
  <2>3. IsSign(t, 1, k - 1)
    <3>1. CASE s = 0
      <4>1. k - 1 = 0 /\ 0 < 1
          BY <3>1
      <4> QED BY <4>1 DEF IsSign
    <3>2. CASE s = 1
      <4>1. k - 1 = 1
          BY <3>2
      <4> QED BY <1>3, <3>2, <4>1 DEF IsSign
    <3> QED BY <1>3, <3>1, <3>2
  <2>4. Numeral(t, k)[L] = m
      BY <1>2, <1>3
  <2>5. Sign(t, 1, k - 1, m) = n
    <3>1. CASE s = 0
      <4>1. k - 1 = 0 /\ ~ (1 <= 0) /\ m = n
          BY <1>1, <1>4, <3>1
      <4> QED BY <4>1 DEF Sign
    <3>2. CASE s = 1
      <4>1. k - 1 = 1 /\ t[1] = "-" /\ m = -n /\ -(-n) = n
          BY <1>1, <1>3, <1>4, <3>2
      <4> QED BY <4>1 DEF Sign
    <3> QED BY <1>3, <3>1, <3>2
  <2>6. Clamp(n) = n
      BY <1>1 DEF Clamp
  <2> HIDE DEF k
  <2>7. n = Clamp(Sign(t, 1, k - 1, Numeral(t, k)[L]))
      BY <2>4, <2>5, <2>6
  <2> QED BY <2>1, <2>2, <2>3, <2>7 DEF IntegersIn
<1>11. n \in IntegersOf(t)
    BY <1>9, <1>10 DEF IntegersOf
<1>12. ReadsInteger(t)
    BY <1>3, IntegersAreRead
<1>13. string_view_to_int(t) # Throws
    BY <1>11, <1>12 DEF ReadsInteger
<1>14. string_view_to_int(t) = Value(string_view_to_int(t)[1]) /\ n = string_view_to_int(t)[1]
    BY <1>11, <1>12, <1>13 DEF ReadsInteger
<1> QED BY <1>14 DEF t

\* What is written of a number can be a field.
LEMMA WrittenIsField == ASSUME NEW n \in Int PROVE to_chars(n) \in Field
<1> DEFINE s == IF n < 0 THEN 1 ELSE 0
           m == IF n < 0 THEN -n ELSE n
           t == to_chars(n)
           d == Len(DigitsOf(m))
<1>1. Signed(t, s, m) /\ Len(t) = s + d
    BY Written
<1>2. /\ t \in Seq(Char) /\ s \in {0, 1} /\ d \in Nat \ {0}
      /\ s = 1 => t[1] = "-"
      /\ \A k \in 1 .. d : t[s + k] \in Digits
    BY <1>1 DEF Signed
<1> HIDE DEF t, s, d, m
<1>3. ASSUME NEW k \in 1 .. Len(t) PROVE t[k] \notin {Comma, LineFeed}
  <2>1. CASE k > s
    <3>1. k - s \in 1 .. d /\ s + (k - s) = k
        BY <1>1, <1>2, <2>1
    <3>2. t[s + (k - s)] \in Digits
        BY <1>2, <3>1
    <3> QED BY <3>1, <3>2, DigitFacts DEF Comma, LineFeed
  <2>2. CASE ~ (k > s)
    <3>1. s = 1 /\ k = 1
        BY <1>1, <1>2, <2>2
    <3> QED BY <1>2, <3>1 DEF Comma, LineFeed
  <2> QED BY <2>1, <2>2
<1>4. t \in Field
    BY <1>2, <1>3 DEF Field
<1> QED BY <1>4 DEF t

-----------------------------------------------------------------------------
(* Amounts.                                                                 *)

\* A sign, if s is 1, and c hundredths as units, a point and two digits; d is
\* the number of digits of the units.
IsAmount(t, s, c, d) ==
    /\ t \in Seq(Char) /\ s \in {0, 1} /\ c \in Nat
    /\ d \in Nat \ {0} /\ d = Len(DigitsOf(c \div 100)) /\ Len(t) = s + d + 3
    /\ s = 1 => t[1] = "-"
    /\ \A k \in 1 .. d : t[s + k] = DigitsOf(c \div 100)[k]
    /\ t[s + d + 1] = "."
    /\ t[s + d + 2] = DigitChars[((c % 100) \div 10) + 1]
    /\ t[s + d + 3] = DigitChars[(c % 10) + 1]

LEMMA AmountWritten ==
    ASSUME NEW c \in Nat
    PROVE  /\ \E d : IsAmount(Amount(c), 0, c, d) /\ Len(Amount(c)) = d + 3
           /\ \E d : IsAmount(<<"-">> \o Amount(c), 1, c, d) /\ Len(<<"-">> \o Amount(c)) = d + 4
<1> DEFINE D == DigitsOf(c \div 100)
           d == Len(D)
           x == DigitChars[((c % 100) \div 10) + 1]
           y == DigitChars[(c % 10) + 1]
           z == <<".", x, y>>
           t == D \o z
           u == <<"-">> \o t
<1>1. c \div 100 \in Nat /\ (c % 100) \div 10 \in 0 .. 9 /\ c % 10 \in 0 .. 9
    OBVIOUS
<1>2. D \in Seq(Char) /\ d \in Nat \ {0}
    BY <1>1, DigitsByPlace DEF DigitsAre, IsCount
<1>3. x \in Char /\ y \in Char
    BY <1>1, DigitFacts
<1>4. "." \in Char /\ "-" \in Char
    BY DEF Char
<1>5. Amount(c) = t
    BY DEF Amount
<1> HIDE DEF x, y
<1>6. z \in Seq(Char) /\ Len(z) = 3 /\ z[1] = "." /\ z[2] = x /\ z[3] = y
    BY <1>3, <1>4
<1> HIDE DEF D, z
<1>7. /\ t \in Seq(Char) /\ Len(t) = Len(D) + 3
      /\ \A i \in 1 .. Len(D) + 3 : t[i] = IF i <= Len(D) THEN D[i] ELSE z[i - Len(D)]
  <2>1. D \in Seq(Char) /\ z \in Seq(Char)
      BY <1>2, <1>6
  <2>2. /\ D \o z \in Seq(Char) /\ Len(D \o z) = Len(D) + Len(z)
        /\ \A i \in 1 .. Len(D) + Len(z) :
              (D \o z)[i] = IF i <= Len(D) THEN D[i] ELSE z[i - Len(D)]
      BY ONLY <2>1, ConcatProperties
  <2> QED BY <1>6, <2>2
<1> HIDE DEF t
<1>8. /\ \A k \in 1 .. d : t[k] = D[k]
      /\ t[d + 1] = "." /\ t[d + 2] = x /\ t[d + 3] = y
  <2>1. ASSUME NEW k \in 1 .. d PROVE t[k] = D[k]
    <3>1. k \in 1 .. d + 3 /\ k <= d
        BY <1>2
    <3> QED BY <1>7, <3>1
  <2>2. ASSUME NEW k \in 1 .. 3 PROVE t[d + k] = z[k]
    <3>1. d + k \in 1 .. d + 3 /\ ~ (d + k <= d) /\ (d + k) - d = k
        BY <1>2
    <3> QED BY <1>7, <3>1
  <2> QED BY <1>6, <2>1, <2>2
<1>9. IsAmount(t, 0, c, d) /\ Len(t) = d + 3
  <2> HIDE DEF d
  <2>1. 0 + d + 3 = d + 3 /\ 0 + d + 1 = d + 1 /\ 0 + d + 2 = d + 2 /\ \A k \in 1 .. d : 0 + k = k
      BY <1>2
  <2>2. d = Len(DigitsOf(c \div 100)) /\ Len(t) = 0 + d + 3
      BY <1>7, <2>1 DEF d, D
  <2>3. \A k \in 1 .. d : t[0 + k] = DigitsOf(c \div 100)[k]
      BY <1>8, <2>1 DEF D
  <2>4. /\ t[0 + d + 1] = "." /\ t[0 + d + 2] = DigitChars[((c % 100) \div 10) + 1]
        /\ t[0 + d + 3] = DigitChars[(c % 10) + 1]
      BY <1>8, <2>1 DEF x, y
  <2>5. Len(t) = d + 3
      BY <1>7 DEF d
  <2> QED BY <1>2, <1>7, <2>2, <2>3, <2>4, <2>5 DEF IsAmount
<1>10. <<"-">> \in Seq(Char) /\ Len(<<"-">>) = 1 /\ <<"-">>[1] = "-"
    BY <1>4
<1>11. /\ u \in Seq(Char) /\ Len(u) = 1 + Len(t)
       /\ \A i \in 1 .. 1 + Len(t) : u[i] = IF i <= 1 THEN <<"-">>[i] ELSE t[i - 1]
    BY <1>7, <1>10, ConcatProperties
<1> HIDE DEF u
<1>12. u[1] = "-" /\ \A k \in 1 .. d + 3 : u[1 + k] = t[k]
  <2>1. 1 \in 1 .. 1 + Len(t) /\ 1 <= 1 /\ Len(t) = d + 3
      BY <1>2, <1>7
  <2>2. ASSUME NEW k \in 1 .. d + 3 PROVE u[1 + k] = t[k]
    <3>1. 1 + k \in 1 .. 1 + Len(t) /\ ~ (1 + k <= 1) /\ (1 + k) - 1 = k
        BY <1>2, <2>1
    <3> QED BY <1>11, <3>1
  <2> QED BY <1>10, <1>11, <2>1, <2>2
<1>13. IsAmount(u, 1, c, d) /\ Len(u) = d + 4
  <2>0. d = Len(D)
      OBVIOUS
  <2> HIDE DEF d
  <2>1. /\ 1 + d + 3 = 1 + (d + 3) /\ 1 + d + 1 = 1 + (d + 1) /\ 1 + d + 2 = 1 + (d + 2)
        /\ d + 1 \in 1 .. d + 3 /\ d + 2 \in 1 .. d + 3 /\ d + 3 \in 1 .. d + 3
        /\ 1 .. d \subseteq 1 .. d + 3 /\ 1 + (d + 3) = d + 4
      BY <1>2
  <2>2. d = Len(DigitsOf(c \div 100)) /\ Len(u) = 1 + d + 3 /\ Len(u) = d + 4
      BY <1>7, <1>11, <2>0, <2>1 DEF D
  <2>3. \A k \in 1 .. d : u[1 + k] = DigitsOf(c \div 100)[k]
      BY <1>8, <1>12, <2>1 DEF D
  <2>4. /\ u[1 + d + 1] = "." /\ u[1 + d + 2] = DigitChars[((c % 100) \div 10) + 1]
        /\ u[1 + d + 3] = DigitChars[(c % 10) + 1]
    <3>1. u[1 + (d + 1)] = t[d + 1] /\ u[1 + (d + 2)] = t[d + 2] /\ u[1 + (d + 3)] = t[d + 3]
        BY <1>12, <2>1
    <3> QED BY <1>8, <2>1, <3>1 DEF x, y
  <2> QED BY <1>2, <1>11, <1>12, <2>2, <2>3, <2>4 DEF IsAmount
<1>14. u = <<"-">> \o Amount(c)
    BY <1>5 DEF u
<1> QED BY <1>5, <1>9, <1>13, <1>14

\* What an amount is made of.
AmountParts(t, s, c, d) ==
    /\ s \in {0, 1} /\ d \in Nat \ {0} /\ c \in Nat
    /\ Len(t) = s + d + 3
    /\ s = 1 => t[1] = "-"
    /\ \A k \in s + 1 .. s + d : t[k] \in Digits
    /\ t[s + d + 1] = "." /\ t[s + d + 2] \in Digits /\ t[s + d + 3] \in Digits
    /\ Numeral(t, s + 1)[s + d + 3] = c

LEMMA PartsOfAmount ==
    ASSUME NEW t, NEW s, NEW c, NEW d, IsAmount(t, s, c, d)
    PROVE  AmountParts(t, s, c, d)
<1> DEFINE n == c \div 100
           a == (c % 100) \div 10
           b == c % 10
           L == s + d + 3
<1>1. /\ t \in Seq(Char) /\ s \in {0, 1} /\ c \in Nat /\ d \in Nat \ {0}
      /\ d = Len(DigitsOf(n)) /\ Len(t) = L
      /\ s = 1 => t[1] = "-"
      /\ \A k \in 1 .. d : t[s + k] = DigitsOf(n)[k]
      /\ t[s + d + 1] = "." /\ t[s + d + 2] = DigitChars[a + 1] /\ t[s + d + 3] = DigitChars[b + 1]
    BY DEF IsAmount
<1>2. n \in Nat /\ a \in 0 .. 9 /\ b \in 0 .. 9 /\ (n * 10 + a) * 10 + b = c
  <2>1. c \in Nat
      BY <1>1
  <2>2. n \in Nat /\ a \in 0 .. 9 /\ b \in 0 .. 9
      BY ONLY <2>1
  <2> QED BY ONLY <2>1, <2>2
<1> HIDE DEF n, a, b
<1>3. Signed(t, s, n)
  <2>1. s + Len(DigitsOf(n)) <= Len(t)
      BY <1>1
  <2>2. \A k \in 1 .. Len(DigitsOf(n)) : t[s + k] = DigitsOf(n)[k]
      BY <1>1
  <2> QED BY <1>1, <1>2, <2>1, <2>2, SignedIs
<1>4. Numeral(t, s + 1)[s + d] = n /\ \A k \in 1 .. d : t[s + k] \in Digits
    BY <1>1, <1>3 DEF Signed
<1>5. \A k \in s + 1 .. s + d : t[k] \in Digits
  <2>1. ASSUME NEW k \in s + 1 .. s + d PROVE t[k] \in Digits
    <3>1. k - s \in 1 .. d /\ s + (k - s) = k
        BY <1>1
    <3> QED BY <1>4, <3>1
  <2> QED BY <2>1
<1>6. /\ t[s + d + 2] \in Digits /\ DigitValue(t[s + d + 2]) = a
      /\ t[s + d + 3] \in Digits /\ DigitValue(t[s + d + 3]) = b
    BY <1>1, <1>2, DigitFacts
<1>7. t[s + d + 1] \notin Digits
    BY <1>1, DigitFacts
<1>8. NumeralSteps(t, s + 1)
  <2>1. s + 1 \in Nat \ {0}
      BY <1>1
  <2> QED BY <1>1, <2>1, NumeralByPlace
<1> DEFINE N == Numeral(t, s + 1)
<1>9. /\ \A k \in s + 1 .. L : t[k] \in Digits => N[k] = N[k - 1] * 10 + DigitValue(t[k])
      /\ \A k \in s + 1 .. L : t[k] \notin Digits => N[k] = N[k - 1]
    BY <1>1, <1>8 DEF NumeralSteps
<1>0. N[s + d] = n
    BY <1>4
<1> HIDE DEF N
<1>10. /\ s + d + 1 \in s + 1 .. L /\ (s + d + 1) - 1 = s + d
       /\ s + d + 2 \in s + 1 .. L /\ (s + d + 2) - 1 = s + d + 1
       /\ s + d + 3 \in s + 1 .. L /\ (s + d + 3) - 1 = s + d + 2
    BY <1>1
<1>11. N[s + d + 1] = n
    BY <1>0, <1>7, <1>9, <1>10
<1>12. N[s + d + 2] = n * 10 + a
    BY <1>6, <1>9, <1>10, <1>11
<1>13. N[s + d + 3] = (n * 10 + a) * 10 + b
    BY <1>6, <1>9, <1>10, <1>12
<1> QED BY <1>1, <1>2, <1>5, <1>6, <1>13 DEF AmountParts, N

\* An amount is read as its sign and its hundredths.
LEMMA AmountReadsBack ==
    ASSUME NEW t \in Seq(Char), NEW s, NEW c, NEW d, AmountParts(t, s, c, d)
    PROVE  /\ string_view_to_double(t) = Value(Decimal(s = 1, c, 2, 0))
           /\ t \in Field
<1> DEFINE v == Decimal(s = 1, c, 2, 0)
           w == s + 1
           p == s + d + 1
           L == s + d + 3
<1>1. /\ s \in {0, 1} /\ d \in Nat \ {0} /\ c \in Nat /\ Len(t) = L
      /\ s = 1 => t[1] = "-"
      /\ \A k \in w .. s + d : t[k] \in Digits
      /\ t[p] = "." /\ t[s + d + 2] \in Digits /\ t[L] \in Digits
      /\ Numeral(t, w)[L] = c
    BY DEF AmountParts
<1>2. /\ w \in 1 .. L /\ p \in w .. L /\ L \in Nat \ {0} /\ p = L - 2 /\ w < p /\ w \in Nat
      /\ s + d = p - 1 /\ s + d + 2 = L - 1 /\ w - 1 = s
    BY <1>1
<1> HIDE DEF v, w, p, L
<1>3. \A k \in w .. L : k # p => t[k] \in Digits
  <2>1. ASSUME NEW k \in w .. L, k # p PROVE t[k] \in Digits
    <3>1. k \in w .. p - 1 \/ k = L - 1 \/ k = L
        BY <1>2, <2>1
    <3> QED BY <1>1, <1>2, <3>1
  <2> QED BY <2>1
<1>4. \A k \in w .. L : t[k] = "." <=> k = p
    BY <1>1, <1>3, DigitFacts
<1>5. \A k \in 1 .. L : t[k] \in Digits \/ t[k] = "." \/ (k = 1 /\ s = 1 /\ t[k] = "-")
  <2>1. ASSUME NEW k \in 1 .. L, k \notin w .. L PROVE k = 1 /\ s = 1
      BY <1>1, <1>2, <2>1 DEF w
  <2> QED BY <1>1, <1>3, <2>1
<1>6. NoBlanks(t)
  <2>1. \A k \in 1 .. Len(t) : t[k] \notin Blanks
      BY <1>1, <1>5, DigitFacts DEF Blanks
  <2>2. Len(t) # 0
      BY <1>1, <1>2
  <2> QED BY <2>1, <2>2, AllSolid
<1>7. Solid(t) # {} /\ Min(Solid(t)) = 1 /\ Max(Solid(t)) = L
    BY <1>1, <1>6 DEF NoBlanks
<1>8. t \in Field
  <2>1. \A k \in 1 .. Len(t) : t[k] \notin {Comma, LineFeed}
      BY <1>1, <1>5, DigitFacts DEF Comma, LineFeed
  <2> QED BY <2>1 DEF Field
<1> DEFINE q == <<w, L + 1>>
<1>9. IsSign(t, 1, s)
    BY <1>1 DEF IsSign
<1>10. IsMantissa(t, w, L)
  <2>1. w \in w .. L /\ t[w] \in Digits
      BY <1>2, <1>3
  <2>2. AllIn(t, w, L, Digits \cup {"."})
      BY <1>1, <1>3 DEF AllIn
  <2>3. \A j, k \in Points(t, w, L) : j = k
      BY <1>4 DEF Points
  <2> QED BY <2>1, <2>2, <2>3 DEF IsMantissa
<1>11. IsExponent(t, L + 1, L)
    BY <1>2 DEF IsExponent
<1>12. q \in (1 .. L) \X (1 .. L + 1) /\ q[1] = w /\ q[2] = L + 1 /\ q[1] - 1 = s /\ q[2] - 1 = L
    BY <1>2
<1>13. Cardinality({k \in w .. L : Points(t, w, k - 1) # {}}) = 2
  <2>1. {k \in w .. L : Points(t, w, k - 1) # {}} = L - 1 .. L
    <3>1. ASSUME NEW k \in w .. L PROVE Points(t, w, k - 1) # {} <=> k \in L - 1 .. L
      <4>1. \A j \in w .. k - 1 : j \in w .. L
          BY <1>2
      <4>2. Points(t, w, k - 1) = {j \in w .. k - 1 : j = p}
          BY <1>4, <4>1 DEF Points
      <4>3. Points(t, w, k - 1) # {} <=> p \in w .. k - 1
          BY <4>2
      <4>4. p \in w .. k - 1 <=> k \in L - 1 .. L
          BY ONLY <1>2, k \in w .. L
      <4> QED BY <4>3, <4>4
    <3>2. L - 1 .. L \subseteq w .. L
        BY ONLY <1>2
    <3> QED BY <3>1, <3>2
  <2>2. L - 1 \in Int /\ L \in Int
      BY <1>2
  <2>3. Cardinality(L - 1 .. L) = IF L - 1 > L THEN 0 ELSE L - (L - 1) + 1
      BY <2>2, FS_Interval
  <2>4. ~ (L - 1 > L) /\ L - (L - 1) + 1 = 2
      BY <2>2
  <2> QED BY <2>1, <2>3, <2>4
<1>14. MeaningOf(t, 1, q, L) = v
  <2>1. (w > 1 /\ t[1] = "-") <=> s = 1
      BY <1>1 DEF w
  <2>2. L < L + 1
      BY <1>2
  <2>3. MeaningOf(t, 1, q, L) = Decimal(w > 1 /\ t[1] = "-", Numeral(t, w)[L], 2, 0)
      BY <1>12, <1>13, <2>2 DEF MeaningOf
  <2>4. (w > 1 /\ t[1] = "-") = (s = 1)
      BY <2>1
  <2> QED BY <1>1, <2>3, <2>4 DEF v
<1>15. v \in DecimalsIn(t, 1, L)
  <2>1. IsSign(t, 1, q[1] - 1) /\ IsMantissa(t, q[1], q[2] - 1) /\ IsExponent(t, q[2], L)
      BY <1>9, <1>10, <1>11, <1>12
  <2> QED BY <1>12, <1>14, <2>1 DEF DecimalsIn
<1>16. v \in DecimalsOf(t)
    BY <1>7, <1>15 DEF DecimalsOf
<1>17. ReadsDecimal(t)
    BY DecimalsAreRead
<1>18. string_view_to_double(t) # Throws
    BY <1>16, <1>17 DEF ReadsDecimal
<1>19. /\ string_view_to_double(t) = Value(string_view_to_double(t)[1])
       /\ v = string_view_to_double(t)[1]
    BY <1>16, <1>17, <1>18 DEF ReadsDecimal
<1> QED BY <1>8, <1>19 DEF v

-----------------------------------------------------------------------------
(* The fields of a report.                                                  *)

LEMMA PowersAreWhole == \A k \in 0 .. MaxShift : PowersOfTen[k] \in Nat \ {0}
<1> DEFINE N == MaxShift
           S == Nat \ {0}
           step == [p \in S \X (1 .. N) |-> 10 * p[1]]
           body(f) == [k \in 0 .. MaxShift |-> IF k = 0 THEN 1 ELSE 10 * f[k - 1]]
           found == CHOOSE f : f = body(f)
<1>1. N \in Nat
    BY ConversionsAssumption
<1>2. 1 \in S /\ \A m \in S : 10 * m \in S
    OBVIOUS
<1>3. step \in [S \X (1 .. N) -> S]
    BY <1>2
<1>4. PICK g : Steps(g, N, S, 1, step)
  <2> HIDE DEF step, N, S
  <2> QED BY <1>1, <1>2, <1>3, Recursion
<1>5. g \in [0 .. N -> S] /\ g[0] = 1 /\ \A k \in 1 .. N : g[k] = 10 * g[k - 1]
  <2>1. ASSUME NEW k \in 1 .. N PROVE g[k] = 10 * g[k - 1]
    <3>1. k - 1 \in 0 .. N
        BY <1>1
    <3>2. g[k - 1] \in S /\ g[k] = step[<<g[k - 1], k>>]
        BY <1>4, <3>1 DEF Steps
    <3> QED BY <3>2
  <2> QED BY <1>4, <2>1 DEF Steps
<1>6. g = body(g)
  <2>1. ASSUME NEW k \in 0 .. N PROVE g[k] = IF k = 0 THEN 1 ELSE 10 * g[k - 1]
    <3>1. k # 0 => k \in 1 .. N
        BY <1>1
    <3> QED BY <1>5, <3>1
  <2> QED BY <1>5, <2>1
<1>7. found = body(found)
  <2> HIDE DEF body
  <2> QED BY <1>6
<1>8. PowersOfTen = found
    BY DEF PowersOfTen
<1> HIDE DEF found
<1>9. \A k \in 0 .. N : found[k] = IF k = 0 THEN 1 ELSE 10 * found[k - 1]
    BY <1>7
<1> DEFINE T == {j \in 0 .. N : found[j] \in S}
<1>10. 0 \in T
    BY <1>1, <1>2, <1>9
<1>11. ASSUME NEW k \in 1 .. N, k - 1 \in T PROVE k \in T
  <2>1. k \in 0 .. N /\ k # 0
      BY <1>1
  <2>2. found[k] = 10 * found[k - 1]
      BY <1>9, <2>1
  <2> QED BY <1>2, <1>11, <2>1, <2>2
<1>12. \A k \in 0 .. N : k \in T
  <2> HIDE DEF T
  <2> QED BY <1>1, <1>10, <1>11, UpTo
<1> QED BY <1>8, <1>12

LEMMA HundredthsAreWhole == ASSUME NEW p \in Price PROVE Hundredths(p) \in Nat
<1> DEFINE shift == p.exponent + 2 - p.places
           unit  == PowersOfTen[-shift]
<1>1. p.digits \in Nat /\ shift \in Int
    BY DEF Price
<1>2. TickMax + 1 \in Nat /\ MaxShift \in Nat
    BY ConversionsAssumption
<1>3. Hundredths(p) = IF p.digits = 0 THEN 0
                      ELSE IF p.exponent > MaxExponent \/ shift > MaxShift THEN TickMax + 1
                      ELSE IF shift < -MaxShift THEN 0
                      ELSE IF shift >= 0 THEN p.digits * PowersOfTen[shift]
                      ELSE (2 * p.digits + unit) \div (2 * unit)
    BY DEF Hundredths
<1>4. PICK n \in Nat : n = p.digits
    BY <1>1
<1>5. PICK m \in Int : m = shift
    BY <1>1
<1> HIDE DEF shift
<1>10. p.exponent > MaxExponent => Hundredths(p) \in Nat
  <2>1. ASSUME p.exponent > MaxExponent PROVE Hundredths(p) \in {0, TickMax + 1}
      BY <1>3, <2>1
  <2> QED BY <1>2, <2>1
<1>6. CASE m >= 0 /\ m <= MaxShift
  <2>1. PICK a \in Nat \ {0} : a = PowersOfTen[m]
      BY <1>2, <1>6, PowersAreWhole
  <2>2. n * a \in Nat
      OBVIOUS
  <2>3. ~ (m < -MaxShift) /\ ~ (m > MaxShift)
      BY <1>2, <1>6
  <2>4. ~ (p.exponent > MaxExponent) =>
            Hundredths(p) = IF n = 0 THEN 0 ELSE n * a
      BY <1>3, <1>4, <1>5, <1>6, <2>1, <2>3
  <2> QED BY <1>10, <2>2, <2>4
<1>7. CASE m < 0 /\ m >= -MaxShift
  <2>1. PICK a \in Nat \ {0} : a = PowersOfTen[-m]
    <3>1. -m \in 0 .. MaxShift
        BY <1>2, <1>7
    <3> QED BY <3>1, PowersAreWhole
  <2> DEFINE h == (2 * n + a) \div (2 * a)
  <2>2. h \in Nat
    <3>1. PICK x \in Nat : x = 2 * n + a
        OBVIOUS
    <3>2. PICK y \in Nat \ {0} : y = 2 * a
        OBVIOUS
    <3>3. x \div y \in Nat
        BY ONLY x \in Nat, y \in Nat \ {0}
    <3> QED BY <3>1, <3>2, <3>3
  <2>3. ~ (m < -MaxShift) /\ ~ (m > MaxShift) /\ ~ (m >= 0)
      BY <1>2, <1>7
  <2>4. ~ (p.exponent > MaxExponent) =>
            Hundredths(p) = IF n = 0 THEN 0 ELSE h
    <3> HIDE DEF h
    <3>1. unit = a
        BY <1>5, <2>1
    <3>2. h = (2 * p.digits + unit) \div (2 * unit)
        BY <1>4, <3>1 DEF h
    <3> HIDE DEF unit
    <3> QED BY <1>3, <1>4, <1>5, <2>3, <3>2
  <2> HIDE DEF h
  <2> QED BY <1>10, <2>2, <2>4
<1>8. CASE m > MaxShift \/ m < -MaxShift
  <2>1. Hundredths(p) = 0 \/ Hundredths(p) = TickMax + 1
      BY <1>3, <1>5, <1>8
  <2> QED BY <1>2, <2>1
<1>9. (m >= 0 /\ m <= MaxShift) \/ (m < 0 /\ m >= -MaxShift) \/ m > MaxShift \/ m < -MaxShift
    BY <1>2
<1> QED BY <1>6, <1>7, <1>8, <1>9

\* The text of c hundredths with or without a sign.
AmountBack(t, neg, c) ==
    t \in Field /\ string_view_to_double(t) = Value(Decimal(neg, c, 2, 0))

LEMMA AmountsReadBack ==
    ASSUME NEW c \in Nat
    PROVE  AmountBack(Amount(c), FALSE, c) /\ AmountBack(<<"-">> \o Amount(c), TRUE, c)
<1>1. AmountBack(Amount(c), FALSE, c)
  <2>1. PICK d : IsAmount(Amount(c), 0, c, d)
      BY AmountWritten
  <2>2. Amount(c) \in Seq(Char) /\ AmountParts(Amount(c), 0, c, d)
      BY <2>1, PartsOfAmount DEF IsAmount
  <2>3. /\ string_view_to_double(Amount(c)) = Value(Decimal(0 = 1, c, 2, 0))
        /\ Amount(c) \in Field
      BY <2>2, AmountReadsBack
  <2>4. (0 = 1) = FALSE
      OBVIOUS
  <2> QED BY <2>3, <2>4 DEF AmountBack
<1>2. AmountBack(<<"-">> \o Amount(c), TRUE, c)
  <2> DEFINE t == <<"-">> \o Amount(c)
  <2>1. PICK d : IsAmount(t, 1, c, d)
      BY AmountWritten
  <2> HIDE DEF t
  <2>2. t \in Seq(Char) /\ AmountParts(t, 1, c, d)
      BY <2>1, PartsOfAmount DEF IsAmount
  <2>3. string_view_to_double(t) = Value(Decimal(1 = 1, c, 2, 0)) /\ t \in Field
      BY <2>2, AmountReadsBack
  <2>4. (1 = 1) = TRUE
      OBVIOUS
  <2>5. AmountBack(t, TRUE, c)
      BY <2>3, <2>4 DEF AmountBack
  <2> QED BY <2>5 DEF t
<1> QED BY <1>1, <1>2

\* A long long of hundredths fits, with its sign.
LEMMA AmountsFit ==
    ASSUME NEW c \in Nat, c <= LongMax
    PROVE  /\ Len(Amount(c)) < PriceSize /\ Len(<<"-">> \o Amount(c)) < PriceSize
<1>1. LongMax \in Nat /\ PriceSize \in Nat /\ Len(Amount(LongMax)) + 1 < PriceSize
    BY ConversionsAssumption, SizesAssumption
<1>2. PICK d : IsAmount(Amount(c), 0, c, d) /\ Len(Amount(c)) = d + 3
    BY AmountWritten
<1>3. PICK e : IsAmount(Amount(LongMax), 0, LongMax, e) /\ Len(Amount(LongMax)) = e + 3
    BY <1>1, AmountWritten
<1>4. PICK f : IsAmount(<<"-">> \o Amount(c), 1, c, f) /\ Len(<<"-">> \o Amount(c)) = f + 4
    BY AmountWritten
<1>5. c \div 100 \in Nat /\ LongMax \div 100 \in Nat /\ c \div 100 <= LongMax \div 100
    BY <1>1
<1>6. Len(DigitsOf(c \div 100)) <= Len(DigitsOf(LongMax \div 100))
    BY <1>5, MoreDigits
<1>7. d = Len(DigitsOf(c \div 100)) /\ d \in Nat
    BY <1>2 DEF IsAmount
<1>8. e = Len(DigitsOf(LongMax \div 100)) /\ e \in Nat
    BY <1>3 DEF IsAmount
<1>9. f = Len(DigitsOf(c \div 100)) /\ f \in Nat
    BY <1>4 DEF IsAmount
<1>10. d <= e /\ f <= e
    BY <1>6, <1>7, <1>8, <1>9
<1>11. e + 3 + 1 < PriceSize
    BY <1>1, <1>3
<1>12. d + 3 < PriceSize /\ f + 4 < PriceSize
    BY ONLY <1>1, <1>7, <1>8, <1>9, <1>10, <1>11
<1> QED BY <1>2, <1>4, <1>12

\* The texts a price may be given (csv_report_writer.cpp:54-76).
PriceBack(p, text) ==
    /\ text \in Field
    /\ Hundredths(p) <= LongMax /\ ~IsNaN(p) =>
          string_view_to_double(text)
            = Value(Decimal(p.negative /\ Hundredths(p) > 0, Hundredths(p), 2, 0))

LEMMA IntoIsField == ASSUME NEW n, NEW text \in Field PROVE Into(n, text) \in Field
<1>1. << >> \in Field
    BY EmptySeq DEF Field
<1> QED BY <1>1 DEF Into

LEMMA PricesReadBack ==
    ASSUME NEW p \in Price, NEW text \in format_price_to_buffer(p, PriceSize)
    PROVE  PriceBack(p, text)
<1> DEFINE cents == Hundredths(p)
<1>1. cents \in Nat /\ LongMax \in Nat /\ TickMax \in Nat /\ LongMax < TickMax
    BY HundredthsAreWhole, ConversionsAssumption
<1>2. p.negative \in BOOLEAN /\ p.digits \in Nat
    BY DEF Price
<1>3. << >> \in Field
    BY EmptySeq DEF Field
<1>30. PICK c \in Nat : c = cents
    BY <1>1
<1> HIDE DEF cents
<1>4. CASE IsNaN(p)
  <2>1. text = << >>
      BY <1>4 DEF format_price_to_buffer
  <2> QED BY <1>3, <1>4, <2>1 DEF PriceBack
<1>5. CASE ~IsNaN(p) /\ (~p.negative \/ p.digits = 0)
  <2>1. text \in {format_ticks_to_buffer(x, PriceSize) : x \in double_to_ticks(p)}
      BY <1>5 DEF format_price_to_buffer
  <2>2. PICK x \in double_to_ticks(p) : text = format_ticks_to_buffer(x, PriceSize)
      BY <2>1
  <2>3. double_to_ticks(p) = IF c >= TickMax THEN {TickMax}
                             ELSE IF c > LongMax THEN {0, LongMax, LongMax + 1} ELSE {c}
      BY <1>30 DEF double_to_ticks, cents
  <2>4. x \in Nat /\ (c <= LongMax => x = c)
    <3>1. CASE c >= TickMax
      <4>1. ~ (c <= LongMax) /\ x = TickMax
          BY <1>1, <2>2, <2>3, <3>1
      <4> QED BY <1>1, <4>1
    <3>2. CASE ~ (c >= TickMax) /\ c > LongMax
      <4>1. x \in {0, LongMax, LongMax + 1} /\ ~ (c <= LongMax)
          BY <1>1, <2>2, <2>3, <3>2
      <4> QED BY <1>1, <4>1
    <3>3. CASE ~ (c >= TickMax) /\ ~ (c > LongMax)
      <4>1. x = c
          BY <2>2, <2>3, <3>3
      <4> QED BY <4>1
    <3> QED BY <3>1, <3>2, <3>3
  <2>5. AmountBack(Amount(x), FALSE, x)
      BY <2>4, AmountsReadBack
  <2>6. text = Into(PriceSize, Amount(x))
      BY <2>2 DEF format_ticks_to_buffer
  <2>7. text \in Field
      BY <2>5, <2>6, IntoIsField DEF AmountBack
  <2>8. ASSUME c <= LongMax
        PROVE  string_view_to_double(text) = Value(Decimal(p.negative /\ c > 0, c, 2, 0))
    <3>1. x = c
        BY <2>4, <2>8
    <3>2. text = Amount(c)
        BY <2>6, <2>8, <3>1, AmountsFit DEF Into
    <3>3. ~ (p.negative /\ c > 0)
      <4>1. p.digits = 0 => c = 0
          BY <1>30 DEF cents, Hundredths
      <4> QED BY <1>5, <4>1
    <3>4. (p.negative /\ c > 0) = FALSE
        BY <3>3
    <3> QED BY <2>5, <3>1, <3>2, <3>4 DEF AmountBack
  <2> QED BY <1>30, <2>7, <2>8 DEF PriceBack, cents
<1>6. CASE ~IsNaN(p) /\ p.negative /\ p.digits # 0
  <2> DEFINE amount == (IF c > 0 THEN <<"-">> ELSE << >>) \o Amount(c)
  <2>1. text \in IF c > LongMax + 1 THEN {<< >>} ELSE {Into(PriceSize, amount)}
      BY <1>6, <1>30 DEF format_price_to_buffer, cents
  <2>2. AmountBack(Amount(c), FALSE, c) /\ AmountBack(<<"-">> \o Amount(c), TRUE, c)
      BY AmountsReadBack
  <2>3. amount = IF c > 0 THEN <<"-">> \o Amount(c) ELSE Amount(c)
    <3>1. << >> \o Amount(c) = Amount(c)
      <4>1. Amount(c) \in Seq(Char)
          BY <2>2 DEF AmountBack, Field
      <4> QED BY <4>1, ConcatEmptySeq
    <3> QED BY <3>1
  <2> HIDE DEF amount
  <2>4. AmountBack(amount, c > 0, c)
    <3>1. CASE c > 0
      <4>1. (c > 0) = TRUE
          BY <3>1
      <4>2. amount = <<"-">> \o Amount(c)
          BY <2>3, <3>1
      <4> QED BY <2>2, <4>1, <4>2
    <3>2. CASE ~ (c > 0)
      <4>1. (c > 0) = FALSE
          BY <3>2
      <4>2. amount = Amount(c)
          BY <2>3, <3>2
      <4> QED BY <2>2, <4>1, <4>2
    <3> QED BY <3>1, <3>2
  <2>5. text \in Field
    <3>1. Into(PriceSize, amount) \in Field
        BY <2>4, IntoIsField DEF AmountBack
    <3> QED BY <1>3, <2>1, <3>1
  <2>6. ASSUME c <= LongMax
        PROVE  string_view_to_double(text) = Value(Decimal(p.negative /\ c > 0, c, 2, 0))
    <3>1. ~ (c > LongMax + 1)
        BY <1>1, <2>6
    <3>2. Len(amount) < PriceSize
        BY <2>3, <2>6, AmountsFit
    <3>3. text = amount
        BY <2>1, <3>1, <3>2 DEF Into
    <3>4. (p.negative /\ c > 0) = (c > 0)
        BY <1>2, <1>6
    <3> QED BY <2>4, <3>3, <3>4 DEF AmountBack
  <2> QED BY <1>30, <2>5, <2>6 DEF PriceBack, cents
<1> QED BY <1>2, <1>4, <1>5, <1>6

\* A quantity is written as its digits, from the table or not.
LEMMA QuantityWritten ==
    ASSUME NEW n \in Nat
    PROVE  write_quantity_to_buffer(n) = to_chars(n)
<1>1. CASE n \in 0 .. MaxQuantity
  <2>1. Len(to_chars(n)) < QuantitySize
      BY <1>1, QuantityTextAssumption
  <2>2. kQuantityText[n] = to_chars(n)
      BY <1>1, <2>1 DEF kQuantityText
  <2> QED BY <1>1, <2>2 DEF write_quantity_to_buffer
<1>2. CASE n \notin 0 .. MaxQuantity
    BY <1>2 DEF write_quantity_to_buffer
<1> QED BY <1>1, <1>2

\* A text that fits is copied up to a NUL in it.
LEMMA CStringCopied ==
    ASSUME NEW n \in Nat \ {0}, NEW t \in Seq(Char), Len(t) < n
    PROVE  /\ copy_c_string(n, t) \in Seq(Char)
           /\ Len(copy_c_string(n, t)) <= Len(t)
           /\ \A k \in 1 .. Len(copy_c_string(n, t)) : copy_c_string(n, t)[k] = t[k]
           /\ UpToNul(copy_c_string(n, t), t)
<1> DEFINE r    == copy_c_string(n, t)
           ends == {i \in 0 .. Len(t) : i = n - 1 \/ i = Len(t) \/ t[i + 1] = Nul}
           e    == Min(ends)
<1>1. Len(t) \in Nat
    BY LenProperties
<1>2. Len(t) \in ends /\ ends \in SUBSET Nat
    BY <1>1
<1>3. \E m \in ends : \A k \in ends : m <= k
  <2> HIDE DEF ends
  <2> QED BY <1>2, Least
<1>4. e \in ends /\ \A k \in ends : e <= k
  <2> HIDE DEF ends
  <2> QED BY <1>3 DEF Min
<1>5. r = SubSeq(t, 1, e)
    BY DEF copy_c_string
<1> HIDE DEF e, r
<1>6. e \in 0 .. Len(t) /\ (e = n - 1 \/ e = Len(t) \/ t[e + 1] = Nul)
    BY <1>4
<1>7. e # Len(t) => t[e + 1] = Nul
    BY <1>1, <1>6
<1>8. ASSUME NEW k \in 1 .. e PROVE t[k] # Nul
  <2>1. SUFFICES ASSUME t[k] = Nul PROVE FALSE
      OBVIOUS
  <2>2. k - 1 \in 0 .. Len(t) /\ (k - 1) + 1 = k
      BY <1>1, <1>6
  <2>3. k - 1 \in ends
      BY <2>1, <2>2
  <2>4. e <= k - 1
      BY <1>4, <2>3
  <2> QED BY <1>6, <2>4
<1> HIDE DEF ends
<1>9. 1 \in Nat \ {0} /\ e \in Nat /\ e <= Len(t)
    BY <1>1, <1>6
<1>10. /\ r \in Seq(Char) /\ Len(r) = (IF 1 <= e THEN e - 1 + 1 ELSE 0)
       /\ \A k \in 1 .. e - 1 + 1 : r[k] = t[1 + k - 1]
    BY ONLY <1>5, <1>9, t \in Seq(Char), PartOf
<1>11. Len(r) = e
    BY ONLY <1>9, <1>10
<1>12. \A k \in 1 .. e : r[k] = t[k]
  <2>1. \A k \in 1 .. e : k \in 1 .. e - 1 + 1 /\ 1 + k - 1 = k
      BY <1>9
  <2> QED BY <1>10, <2>1
<1>13. DOMAIN r = 1 .. e
    BY <1>10, <1>11, LenProperties
<1>14. IsPrefix(r, t)
  <2>1. SubSeq(r, 1, Len(r)) = r
      BY <1>10, SubSeqFull
  <2> QED BY <1>5, <1>9, <1>11, <2>1 DEF IsPrefix
<1>15. UpToNul(r, t)
  <2>1. \A k \in DOMAIN r : r[k] # Nul
      BY <1>8, <1>12, <1>13
  <2>2. r # t => t[Len(r) + 1] = Nul
    <3>1. SUFFICES ASSUME r # t PROVE t[e + 1] = Nul
        BY <1>11
    <3>2. e # Len(t)
      <4>1. SUFFICES ASSUME e = Len(t) PROVE FALSE
          OBVIOUS
      <4>2. Len(r) = Len(t) /\ \A k \in 1 .. Len(r) : r[k] = t[k]
          BY <1>11, <1>12, <4>1
      <4>3. r = t
          BY ONLY <1>10, <4>2, t \in Seq(Char), SeqEqual
      <4> QED BY <3>1, <4>3
    <3> QED BY <1>7, <3>2
  <2> QED BY <1>14, <2>1, <2>2 DEF UpToNul
<1> QED BY <1>9, <1>10, <1>11, <1>12, <1>15 DEF r

\* The text of a C string is copied whole.
LEMMA CStringKept ==
    ASSUME NEW n \in Nat \ {0}, NEW t \in Seq(Char), Len(t) < n,
           \A k \in 1 .. Len(t) : t[k] # Nul
    PROVE  copy_c_string(n, t) = t
<1> DEFINE r == copy_c_string(n, t)
<1>1. /\ r \in Seq(Char) /\ Len(r) <= Len(t) /\ \A k \in 1 .. Len(r) : r[k] = t[k]
      /\ UpToNul(r, t)
    BY CStringCopied
<1> HIDE DEF r
<1>2. Len(r) \in Nat /\ Len(t) \in Nat
    BY <1>1, LenProperties
<1>3. SUFFICES ASSUME r # t PROVE FALSE
    BY DEF r
<1>4. t[Len(r) + 1] = Nul
    BY <1>1, <1>3 DEF UpToNul
<1>5. Len(r) = Len(t)
  <2>1. ~ (Len(r) + 1 \in 1 .. Len(t))
      BY <1>4
  <2> QED BY <1>1, <1>2, <2>1
<1>6. r = t
    BY ONLY <1>1, <1>5, t \in Seq(Char), SeqEqual
<1> QED BY <1>3, <1>6

\* A field of the client, copied once or twice, is one still.
CopiedField(r, t) == r \in Field /\ UpToNul(r, t)

LEMMA ClientsTextCopied ==
    ASSUME NEW n \in Nat \ {0}, NEW t \in FieldUnder(n)
    PROVE  /\ CopiedField(copy_c_string(n, t), t)
           /\ CopiedField(copy_c_string(n, copy_c_string(n, t)), t)
<1> DEFINE r == copy_c_string(n, t)
<1>1. /\ t \in Seq(Char) /\ Len(t) < n /\ Len(t) \in Nat
      /\ \A k \in 1 .. Len(t) : t[k] \notin {Comma, LineFeed}
    BY LenProperties DEF FieldUnder, Field
<1>2. /\ r \in Seq(Char) /\ Len(r) <= Len(t) /\ \A k \in 1 .. Len(r) : r[k] = t[k]
      /\ UpToNul(r, t)
    BY <1>1, CStringCopied
<1> HIDE DEF r
<1>3. Len(r) \in Nat /\ Len(r) < n /\ DOMAIN r = 1 .. Len(r)
    BY <1>1, <1>2, LenProperties
<1>4. \A k \in 1 .. Len(r) : r[k] \notin {Comma, LineFeed} /\ r[k] # Nul
  <2>1. \A k \in 1 .. Len(r) : k \in 1 .. Len(t)
      BY <1>1, <1>2, <1>3
  <2>2. \A k \in 1 .. Len(r) : r[k] # Nul
      BY <1>2, <1>3 DEF UpToNul
  <2> QED BY <1>1, <1>2, <2>1, <2>2
<1>5. r \in Field
    BY <1>2, <1>4 DEF Field
<1>6. copy_c_string(n, r) = r
    BY <1>2, <1>3, <1>4, CStringKept
<1> QED BY <1>2, <1>5, <1>6 DEF CopiedField, r

\* The fields of the row of a message.
RowFields(id, message, price_text, f) ==
    /\ f[1] \in Field /\ f[2] \in Field /\ f[3] \in Field /\ f[4] \in Field
    /\ f[5] \in Field /\ f[6] \in Field /\ f[7] \in Field /\ f[8] \in Field
    /\ f[9] \in Field
    /\ UpToNul(f[2], message.coid) /\ UpToNul(f[3], message.instrument)
    /\ string_view_to_int(f[4]) = Value(message.side)
    /\ message.quantity \in 0 .. ShortModulus - 1 =>
          string_view_to_int(f[6]) = Value(message.quantity)
    /\ f[7] = price_text

LEMMA RejectFieldsAre ==
    ASSUME NEW id \in Nat, NEW message \in Message, NEW price_text \in Field,
           NEW reason \in Reasons
    PROVE  RowFields(id, message, price_text, RejectFields(id, message, price_text, reason))
<1> DEFINE q == (IF message.quantity > 0 THEN message.quantity ELSE 0) % ShortModulus
           f == RejectFields(id, message, price_text, reason)
<1>1. /\ message.coid \in FieldUnder(CoidSize)
      /\ message.instrument \in FieldUnder(InstrumentSize)
      /\ message.side \in Int32 /\ message.quantity \in Int32
    BY DEF Message
<1>2. Int32 \subseteq Int
    BY ConversionsAssumption DEF Int32
<1>3. ShortModulus \in Nat \ {0}
    BY SizesAssumption
<1>4. q \in Nat /\ (message.quantity \in 0 .. ShortModulus - 1 => q = message.quantity)
  <2>1. PICK m \in Int : m = message.quantity
      BY <1>1, <1>2
  <2>2. PICK w \in Nat \ {0} : w = ShortModulus
      BY <1>3
  <2>3. PICK x \in Nat : x = IF m > 0 THEN m ELSE 0
      OBVIOUS
  <2>4. x % w \in Nat /\ (x < w => x % w = x)
      OBVIOUS
  <2>5. q = x % w
      BY <2>1, <2>2, <2>3
  <2>6. m \in 0 .. w - 1 => x = m /\ x < w
      BY <2>3
  <2> QED BY <2>1, <2>2, <2>4, <2>5, <2>6
<1>5. /\ f[1] = format_order_id(id)
      /\ f[2] = copy_c_string(CoidSize, copy_c_string(CoidSize, message.coid))
      /\ f[3] = copy_c_string(InstrumentSize, message.instrument)
      /\ f[4] = to_chars(message.side) /\ f[5] = <<"Reject">>
      /\ f[6] = write_quantity_to_buffer(q) /\ f[7] = price_text /\ f[8] = reason
      /\ f[9] = Timestamp
    BY DEF RejectFields, write_side_to_buffer
<1> HIDE DEF f, q
<1>6. f[1] \in Field
  <2> DEFINE o == <<"o", "r", "d">>
             d == to_chars(id)
  <2>1. d \in Field
      BY WrittenIsField
  <2>2. d \in Seq(Char) /\ Len(d) \in Nat /\ \A k \in 1 .. Len(d) : d[k] \notin {Comma, LineFeed}
      BY <2>1, LenProperties DEF Field
  <2>3. o \in Seq(Char) /\ Len(o) = 3 /\ \A k \in 1 .. 3 : o[k] \notin {Comma, LineFeed}
    <3>1. "o" \in Char /\ "r" \in Char /\ "d" \in Char
        BY DEF Char
    <3>2. o \in Seq(Char) /\ Len(o) = 3 /\ o[1] = "o" /\ o[2] = "r" /\ o[3] = "d"
        BY <3>1
    <3>3. \A k \in 1 .. 3 : k = 1 \/ k = 2 \/ k = 3
        OBVIOUS
    <3> HIDE DEF o
    <3> QED BY <3>2, <3>3 DEF Comma, LineFeed
  <2> HIDE DEF o, d
  <2>4. /\ o \o d \in Seq(Char) /\ Len(o \o d) = Len(o) + Len(d)
        /\ \A i \in 1 .. Len(o) + Len(d) : (o \o d)[i] = IF i <= Len(o) THEN o[i] ELSE d[i - Len(o)]
      BY ONLY <2>2, <2>3, ConcatProperties
  <2>5. ASSUME NEW i \in 1 .. Len(o \o d) PROVE (o \o d)[i] \notin {Comma, LineFeed}
    <3>1. i \in 1 .. 3 + Len(d) /\ (o \o d)[i] = IF i <= 3 THEN o[i] ELSE d[i - 3]
        BY <2>3, <2>4
    <3>2. CASE i <= 3
      <4>1. i \in 1 .. 3
          BY <3>1, <3>2
      <4> QED BY <2>3, <3>1, <3>2, <4>1
    <3>3. CASE ~ (i <= 3)
      <4>1. i - 3 \in 1 .. Len(d)
          BY <2>2, <3>1, <3>3
      <4> QED BY <2>2, <3>1, <3>3, <4>1
    <3> QED BY <3>2, <3>3
  <2>6. o \o d \in Field
      BY <2>4, <2>5 DEF Field
  <2> QED BY <1>5, <2>6 DEF format_order_id, o, d
<1>7. f[4] \in Field /\ string_view_to_int(f[4]) = Value(message.side)
    BY <1>1, <1>2, <1>5, WrittenIsField, IntegerReadsBack
<1>8. f[5] \in Field
  <2>1. "Reject" \in Char /\ "Reject" \notin {Comma, LineFeed}
      BY DEF Char, Comma, LineFeed
  <2>2. <<"Reject">> \in Seq(Char) /\ Len(<<"Reject">>) = 1 /\ <<"Reject">>[1] = "Reject"
      BY <2>1
  <2>3. <<"Reject">> \in Field
      BY <2>1, <2>2 DEF Field
  <2> QED BY <1>5, <2>3
<1>9. f[6] = to_chars(q) /\ f[6] \in Field
    BY <1>4, <1>5, QuantityWritten, WrittenIsField
<1>10. message.quantity \in 0 .. ShortModulus - 1 => string_view_to_int(f[6]) = Value(message.quantity)
    BY <1>1, <1>4, <1>9, IntegerReadsBack
<1>11. f[8] \in Field /\ f[9] \in Field
  <2>1. ASSUME NEW t, IsFieldText(t) PROVE t \in Field
    <3>1. t \in Seq(STRING) /\ \A k \in DOMAIN t : t[k] \notin {Comma, LineFeed, Nul}
        BY <2>1 DEF IsFieldText
    <3>2. STRING \subseteq Char
        BY DEF Char
    <3>3. t \in Seq(Char)
        BY ONLY <3>1, <3>2, SeqMonotonic
    <3>4. DOMAIN t = 1 .. Len(t)
        BY <3>3, LenProperties
    <3> QED BY <3>1, <3>3, <3>4 DEF Field
  <2>2. IsFieldText(reason) /\ IsFieldText(Timestamp)
      BY OwnTextsAssumption
  <2> QED BY <1>5, <2>1, <2>2
<1>12. CopiedField(f[2], message.coid) /\ CopiedField(f[3], message.instrument)
  <2>1. CoidSize \in Nat \ {0} /\ InstrumentSize \in Nat \ {0}
      BY SizesAssumption
  <2> QED BY <1>1, <1>5, <2>1, ClientsTextCopied
<1> QED BY <1>5, <1>6, <1>7, <1>8, <1>9, <1>10, <1>11, <1>12 DEF RowFields, CopiedField, f

-----------------------------------------------------------------------------
(* Cutting up what was put together.                                        *)

\* Up to m the texts are the same.
SameUpTo(s, t, m) == m <= Len(s) /\ m <= Len(t) /\ \A k \in 1 .. m : s[k] = t[k]

\* What is behind does not matter to the pieces.
LEMMA PiecesBefore ==
    ASSUME NEW s \in Seq(Char), NEW t \in Seq(Char), NEW c, NEW m \in Nat, SameUpTo(s, t, m)
    PROVE  Pieces(s, c)[m] = Pieces(t, c)[m]
<1> DEFINE P == Pieces(s, c)
           Q == Pieces(t, c)
           T == {k \in 0 .. m : P[k] = Q[k]}
<1>1. Len(s) \in Nat /\ Len(t) \in Nat
    BY LenProperties
<1>2. m <= Len(s) /\ m <= Len(t) /\ \A k \in 1 .. m : s[k] = t[k]
    BY DEF SameUpTo
<1>3. /\ P[0] = << << >> >>
      /\ \A k \in 1 .. Len(s) : s[k] = c => P[k] = Append(P[k - 1], << >>)
      /\ \A k \in 1 .. Len(s) : s[k] # c => P[k] = Longer(P[k - 1], s[k])
    BY PiecesByCharacter DEF PiecesSteps
<1>4. /\ Q[0] = << << >> >>
      /\ \A k \in 1 .. Len(t) : t[k] = c => Q[k] = Append(Q[k - 1], << >>)
      /\ \A k \in 1 .. Len(t) : t[k] # c => Q[k] = Longer(Q[k - 1], t[k])
    BY PiecesByCharacter DEF PiecesSteps
<1> HIDE DEF P, Q
<1>5. 0 \in T
  <2>1. P[0] = Q[0]
      BY ONLY <1>3, <1>4
  <2>2. 0 \in 0 .. m
      OBVIOUS
  <2> QED BY ONLY <2>1, <2>2
<1>6. ASSUME NEW k \in 1 .. m, k - 1 \in T PROVE k \in T
  <2>1. k \in 1 .. Len(s) /\ k \in 1 .. Len(t) /\ s[k] = t[k] /\ P[k - 1] = Q[k - 1] /\ k \in 0 .. m
      BY <1>1, <1>2, <1>6
  <2>2. P[k] = Q[k]
    <3>1. CASE s[k] = c
        BY <1>3, <1>4, <2>1, <3>1
    <3>2. CASE s[k] # c
        BY <1>3, <1>4, <2>1, <3>2
    <3> QED BY <3>1, <3>2
  <2> QED BY <2>1, <2>2
<1>7. \A k \in 0 .. m : k \in T
  <2> HIDE DEF T
  <2> QED BY <1>5, <1>6, UpTo
<1> QED BY <1>7 DEF P, Q

\* Behind a cut everything up to the next is one piece.
LEMMA OnePiece ==
    ASSUME NEW t \in Seq(Char), NEW c, NEW Q \in Seq(Seq(Char)), NEW m \in Nat, m <= Len(t),
           Pieces(t, c)[m] = Append(Q, << >>),
           \A k \in m + 1 .. Len(t) : t[k] # c
    PROVE  SplitBy(t, c) = Append(Q, SubSeq(t, m + 1, Len(t)))
<1> DEFINE N == Len(t)
           P == Pieces(t, c)
           n == N - m
           T == {j \in 0 .. n : P[m + j] = Append(Q, SubSeq(t, m + 1, m + j))}
<1>1. N \in Nat /\ n \in Nat /\ m + n = N
    BY LenProperties
<1>2. \A k \in 1 .. N : t[k] # c => P[k] = Longer(P[k - 1], t[k])
    BY PiecesByCharacter DEF PiecesSteps
<1>3. P[m] = Append(Q, << >>)
    OBVIOUS
<1> HIDE DEF P
<1>4. 0 \in T
  <2>1. SubSeq(t, m + 1, m + 0) = << >>
    <3>1. m + 1 \in Int /\ m + 0 \in Int /\ m + 0 < m + 1
        OBVIOUS
    <3> QED BY ONLY <3>1, SubSeqEmpty
  <2>2. m + 0 = m /\ 0 \in 0 .. n
      BY <1>1
  <2>3. P[m + 0] = Append(Q, SubSeq(t, m + 1, m + 0))
      BY <1>3, <2>1, <2>2
  <2> QED BY <2>2, <2>3
<1>5. ASSUME NEW j \in 1 .. n, j - 1 \in T PROVE j \in T
  <2> DEFINE k == m + j
             x == SubSeq(t, m + 1, k - 1)
             y == SubSeq(t, m + 1, k)
  <2>1. /\ k \in 1 .. N /\ k \in m + 1 .. N /\ m + (j - 1) = k - 1 /\ m + 1 \in 1 .. N
        /\ m + 1 \in Nat \ {0} /\ k - 1 \in Nat /\ k - 1 <= Len(t) /\ j \in 0 .. n
      BY <1>1
  <2>2. P[k - 1] = Append(Q, x)
      BY <1>5, <2>1
  <2>3. P[k] = Longer(P[k - 1], t[k])
      BY <1>2, <2>1
  <2>4. x \in Seq(Char)
      BY ONLY <2>1, PartOf, t \in Seq(Char)
  <2>5. t[k] \in Char
      BY <2>1, ElementOfSeq
  <2>6. y = Append(x, t[k])
    <3>1. y = x \o <<t[k]>>
      <4>1. m + 1 \in 1 .. Len(t) /\ k \in m + 1 .. Len(t)
          BY <2>1
      <4> HIDE DEF k
      <4> QED BY ONLY <4>1, t \in Seq(Char), SubSeqRecursiveSecond DEF x, y
    <3> HIDE DEF x, y, k
    <3>2. Append(x, t[k]) = x \o <<t[k]>>
        BY ONLY <2>4, <2>5, AppendIsConcat
    <3> QED BY <3>1, <3>2
  <2> HIDE DEF x, y, k
  <2>7. Longer(Append(Q, x), t[k]) = Append(Q, Append(x, t[k]))
    <3> DEFINE A == Append(Q, x)
               z == Append(x, t[k])
               B == Append(Q, z)
               C == Longer(A, t[k])
    <3>1. z \in Seq(Char)
        BY ONLY <2>4, <2>5, AppendProperties
    <3> HIDE DEF z
    <3>2. /\ A \in Seq(Seq(Char)) /\ A # << >> /\ Len(A) = Len(Q) + 1 /\ A[Len(Q) + 1] = x
          /\ \A i \in 1 .. Len(Q) : A[i] = Q[i]
        BY ONLY <2>4, Q \in Seq(Seq(Char)), AppendProperties
    <3>3. /\ B \in Seq(Seq(Char)) /\ Len(B) = Len(Q) + 1 /\ B[Len(Q) + 1] = z
          /\ \A i \in 1 .. Len(Q) : B[i] = Q[i]
        BY ONLY <3>1, Q \in Seq(Seq(Char)), AppendProperties
    <3> HIDE DEF A, B
    <3>4. A \in SomeTexts
        BY <3>2 DEF SomeTexts
    <3>5. /\ C \in SomeTexts /\ Len(C) = Len(A)
          /\ C[Len(A)] = Append(A[Len(A)], t[k])
          /\ \A i \in 1 .. Len(A) - 1 : C[i] = A[i]
        BY <2>5, <3>4, LongerIs
    <3> HIDE DEF C
    <3>6. C \in Seq(Seq(Char)) /\ Len(C) = Len(B)
        BY <3>2, <3>3, <3>5 DEF SomeTexts
    <3>7. \A i \in 1 .. Len(C) : C[i] = B[i]
      <4>1. ASSUME NEW i \in 1 .. Len(Q) + 1 PROVE C[i] = B[i]
        <5>1. Len(Q) \in Nat
            BY LenProperties
        <5>2. CASE i = Len(Q) + 1
            BY <3>2, <3>3, <3>5, <5>2 DEF z
        <5>3. CASE i # Len(Q) + 1
          <6>1. i \in 1 .. Len(Q) /\ i \in 1 .. Len(A) - 1
              BY <3>2, <5>1, <5>3
          <6> QED BY <3>2, <3>3, <3>5, <6>1
        <5> QED BY <5>2, <5>3
      <4> QED BY <3>3, <3>6, <4>1
    <3>8. C = B
        BY ONLY <3>3, <3>6, <3>7, SeqEqual
    <3> QED BY <3>8 DEF A, B, C, z
  <2>8. P[k] = Append(Q, y)
      BY <2>2, <2>3, <2>6, <2>7
  <2> QED BY <2>1, <2>8 DEF y, k
<1>6. \A j \in 0 .. n : j \in T
  <2> HIDE DEF T, n
  <2> QED BY <1>1, <1>4, <1>5, UpTo
<1>7. P[N] = Append(Q, SubSeq(t, m + 1, N))
  <2>1. n \in 0 .. n
      BY <1>1
  <2>2. n \in T
    <3> HIDE DEF T, n
    <3> QED BY <1>6, <2>1
  <2> QED BY <1>1, <2>2
<1> QED BY <1>7 DEF SplitBy, P

\* A text without separators is one piece.
LEMMA NoCut ==
    ASSUME NEW t \in Seq(Char), NEW c, \A k \in 1 .. Len(t) : t[k] # c
    PROVE  SplitBy(t, c) = <<t>>
<1> DEFINE Q == << >>
<1>1. Q \in Seq(Seq(Char)) /\ Append(Q, << >>) = << << >> >> /\ 0 \in Nat /\ Len(t) \in Nat
    BY EmptySeq, LenProperties
<1>2. Pieces(t, c)[0] = << << >> >>
    BY PiecesByCharacter DEF PiecesSteps
<1>3. Pieces(t, c)[0] = Append(Q, << >>) /\ 0 <= Len(t) /\ \A k \in 0 + 1 .. Len(t) : t[k] # c
    BY <1>1, <1>2
<1> HIDE DEF Q
<1>4. SplitBy(t, c) = Append(Q, SubSeq(t, 0 + 1, Len(t)))
    BY <1>1, <1>3, OnePiece
<1>5. SubSeq(t, 0 + 1, Len(t)) = t
    BY SubSeqFull
<1>6. SplitBy(t, c) = Append(Q, t)
    BY <1>4, <1>5
<1> QED BY <1>6 DEF Q

\* What is put behind a separator is one more piece.
OneMore(u, c, v) ==
    /\ (u \o <<c>>) \o v \in Seq(Char)
    /\ SplitBy((u \o <<c>>) \o v, c) = Append(SplitBy(u, c), v)
    /\ SplitBy(u, c) \in Seq(Seq(Char))
    /\ \A k \in 1 .. Len((u \o <<c>>) \o v) :
          \/ \E j \in 1 .. Len(u) : ((u \o <<c>>) \o v)[k] = u[j]
          \/ ((u \o <<c>>) \o v)[k] = c
          \/ \E j \in 1 .. Len(v) : ((u \o <<c>>) \o v)[k] = v[j]

LEMMA SplitOneMore ==
    ASSUME NEW u \in Seq(Char), NEW v \in Seq(Char), NEW c \in Char,
           \A k \in 1 .. Len(v) : v[k] # c
    PROVE  OneMore(u, c, v)
<1> DEFINE a == Len(u)
           b == Len(v)
           w == u \o <<c>>
           t == w \o v
           m == a + 1
           Q == SplitBy(u, c)
<1>1. a \in Nat /\ b \in Nat
    BY LenProperties
<1>2. <<c>> \in Seq(Char) /\ Len(<<c>>) = 1 /\ <<c>>[1] = c
    OBVIOUS
<1>3. /\ w \in Seq(Char) /\ Len(w) = a + Len(<<c>>)
      /\ \A i \in 1 .. a + Len(<<c>>) : w[i] = IF i <= a THEN u[i] ELSE <<c>>[i - a]
    BY ONLY <1>2, u \in Seq(Char), ConcatProperties
<1>4. Len(w) = m /\ \A i \in 1 .. m : w[i] = IF i <= a THEN u[i] ELSE c
  <2>1. Len(w) = m /\ a + Len(<<c>>) = m
      BY <1>2, <1>3
  <2>2. ASSUME NEW i \in 1 .. m PROVE w[i] = IF i <= a THEN u[i] ELSE c
    <3>1. ~ (i <= a) => i - a = 1
        BY <1>1
    <3> QED BY <1>2, <1>3, <2>1, <3>1
  <2> QED BY <2>1, <2>2
<1> HIDE DEF w
<1>5. /\ t \in Seq(Char) /\ Len(t) = Len(w) + Len(v)
      /\ \A i \in 1 .. Len(w) + Len(v) : t[i] = IF i <= Len(w) THEN w[i] ELSE v[i - Len(w)]
  <2>1. w \in Seq(Char)
      BY <1>3
  <2> QED BY ONLY <2>1, v \in Seq(Char), ConcatProperties
<1> HIDE DEF t
<1>6. Len(t) = m + b /\ \A i \in 1 .. m + b : t[i] = IF i <= m THEN w[i] ELSE v[i - m]
    BY <1>4, <1>5
<1>7. m \in Nat /\ m \in 1 .. Len(t) /\ m - 1 = a /\ m <= Len(t) /\ a <= Len(t)
    BY <1>1, <1>6
<1>8. \A k \in 1 .. a : t[k] = u[k]
  <2>1. ASSUME NEW k \in 1 .. a PROVE t[k] = u[k]
    <3>1. k \in 1 .. m /\ k \in 1 .. m + b /\ k <= m /\ k <= a
        BY <1>1
    <3> QED BY <1>4, <1>6, <3>1
  <2> QED BY <2>1
<1>9. t[m] = c
  <2>1. m \in 1 .. m /\ m \in 1 .. m + b /\ m <= m /\ ~ (m <= a)
      BY <1>1
  <2> QED BY <1>4, <1>6, <2>1
<1>10. \A k \in 1 .. b : t[m + k] = v[k]
  <2>1. ASSUME NEW k \in 1 .. b PROVE t[m + k] = v[k]
    <3>1. m + k \in 1 .. m + b /\ ~ (m + k <= m) /\ (m + k) - m = k
        BY <1>1
    <3> QED BY <1>6, <3>1
  <2> QED BY <2>1
<1>11. \A k \in m + 1 .. Len(t) : k - m \in 1 .. b /\ m + (k - m) = k
    BY <1>1, <1>6
<1>12. Q \in Seq(Seq(Char))
  <2>1. a \in 0 .. a
      BY <1>1
  <2> QED BY <2>1, PiecesByCharacter DEF PiecesSteps, SomeTexts, SplitBy
<1>13. Pieces(t, c)[m] = Append(Q, << >>)
  <2>1. SameUpTo(t, u, a)
      BY <1>1, <1>7, <1>8 DEF SameUpTo
  <2>2. Pieces(t, c)[a] = Q
      BY <1>1, <1>5, <2>1, PiecesBefore DEF SplitBy
  <2>3. Pieces(t, c)[m] = Append(Pieces(t, c)[m - 1], << >>)
      BY <1>5, <1>7, <1>9, PiecesByCharacter DEF PiecesSteps
  <2> HIDE DEF m
  <2> QED BY <1>7, <2>2, <2>3
<1> HIDE DEF Q, m, b
<1>14. \A k \in m + 1 .. Len(t) : t[k] # c
  <2>1. ASSUME NEW k \in m + 1 .. Len(t) PROVE t[k] # c
    <3>1. k - m \in 1 .. b /\ t[k] = v[k - m]
        BY <1>10, <1>11
    <3> QED BY <3>1 DEF b
  <2> QED BY <2>1
<1>15. SplitBy(t, c) = Append(Q, SubSeq(t, m + 1, Len(t)))
    BY <1>5, <1>7, <1>12, <1>13, <1>14, OnePiece
<1>16. SubSeq(t, m + 1, Len(t)) = v
  <2> DEFINE x == SubSeq(t, m + 1, Len(t))
  <2>1. PICK L \in Nat : L = Len(t)
      BY <1>5, LenProperties
  <2>2. m + 1 \in Nat \ {0} /\ L \in Nat /\ L <= Len(t) /\ L = m + b /\ m \in Nat /\ b \in Nat
      BY <1>1, <1>6, <1>7, <2>1 DEF b
  <2>3. /\ SubSeq(t, m + 1, L) \in Seq(Char)
        /\ Len(SubSeq(t, m + 1, L)) = IF m + 1 <= L THEN L - (m + 1) + 1 ELSE 0
        /\ \A k \in 1 .. L - (m + 1) + 1 : SubSeq(t, m + 1, L)[k] = t[(m + 1) + k - 1]
      BY ONLY <1>5, <2>2, PartOf
  <2>4. x = SubSeq(t, m + 1, L)
      BY <2>1
  <2> HIDE DEF x
  <2>5. PICK l \in Nat : l = Len(x)
      BY <2>3, <2>4, LenProperties
  <2>6. l = IF m + 1 <= L THEN L - (m + 1) + 1 ELSE 0
      BY <2>3, <2>4, <2>5
  <2>7. l = b
      BY ONLY <2>2, <2>6
  <2>8. ASSUME NEW k \in 1 .. b PROVE x[k] = v[k]
    <3>1. k \in 1 .. L - (m + 1) + 1 /\ (m + 1) + k - 1 = m + k
        BY ONLY <2>2, k \in 1 .. b
    <3> QED BY <1>10, <2>3, <2>4, <3>1
  <2>9. x \in Seq(Char) /\ Len(x) = Len(v) /\ \A k \in 1 .. Len(x) : x[k] = v[k]
      BY <2>3, <2>4, <2>5, <2>7, <2>8 DEF b
  <2>10. x = v
      BY ONLY <2>9, v \in Seq(Char), SeqEqual
  <2> QED BY <2>10 DEF x
<1>17. ASSUME NEW k \in 1 .. Len(t)
       PROVE  \/ \E j \in 1 .. Len(u) : t[k] = u[j]
              \/ t[k] = c
              \/ \E j \in 1 .. Len(v) : t[k] = v[j]
  <2>1. k \in 1 .. a \/ k = m \/ k \in m + 1 .. Len(t)
      BY <1>1, <1>5, <1>7, LenProperties
  <2>2. CASE k \in m + 1 .. Len(t)
      BY <1>10, <1>11, <2>2 DEF b
  <2> QED BY <1>8, <1>9, <2>1, <2>2
<1>18. SplitBy(t, c) = Append(Q, v)
    BY <1>15, <1>16
<1> QED BY <1>5, <1>12, <1>17, <1>18 DEF OneMore, t, w, Q

-----------------------------------------------------------------------------
(* The rows of the report.                                                  *)

\* r is one line, of the first n of the fields f.
RowSoFar(r, n, f) ==
    /\ r \in Seq(Char) /\ \A k \in 1 .. Len(r) : r[k] # LineFeed
    /\ SplitBy(r, Comma) \in Seq(Seq(Char)) /\ Len(SplitBy(r, Comma)) = n
    /\ \A i \in 1 .. n : SplitBy(r, Comma)[i] = f[i]

LEMMA RowBegins ==
    ASSUME NEW f, NEW v \in Field, v = f[1]
    PROVE  RowSoFar(v, 1, f)
<1>1. v \in Seq(Char) /\ \A k \in 1 .. Len(v) : v[k] \notin {Comma, LineFeed}
    BY DEF Field
<1>2. SplitBy(v, Comma) = <<v>>
    BY <1>1, NoCut
<1>3. <<v>> \in Seq(Seq(Char)) /\ Len(<<v>>) = 1 /\ <<v>>[1] = v
    BY <1>1
<1> QED BY <1>1, <1>2, <1>3 DEF RowSoFar

LEMMA RowGrows ==
    ASSUME NEW f, NEW n \in Nat, NEW m, m = n + 1, NEW r, RowSoFar(r, n, f),
           NEW v \in Field, v = f[m]
    PROVE  RowSoFar((r \o <<Comma>>) \o v, m, f)
<1> DEFINE t == (r \o <<Comma>>) \o v
           Q == SplitBy(r, Comma)
<1>1. v \in Seq(Char) /\ \A k \in 1 .. Len(v) : v[k] \notin {Comma, LineFeed}
    BY DEF Field
<1>2. /\ r \in Seq(Char) /\ \A k \in 1 .. Len(r) : r[k] # LineFeed
      /\ Q \in Seq(Seq(Char)) /\ Len(Q) = n /\ \A i \in 1 .. n : Q[i] = f[i]
    BY DEF RowSoFar
<1>3. Comma \in Char /\ Comma # LineFeed
    BY DEF Char, Comma, LineFeed
<1>4. OneMore(r, Comma, v)
    BY <1>1, <1>2, <1>3, SplitOneMore
<1>5. /\ t \in Seq(Char) /\ SplitBy(t, Comma) = Append(Q, v)
      /\ \A k \in 1 .. Len(t) :
            (\E j \in 1 .. Len(r) : t[k] = r[j]) \/ t[k] = Comma \/ (\E j \in 1 .. Len(v) : t[k] = v[j])
    BY <1>4 DEF OneMore
<1> HIDE DEF t, Q
<1>6. ASSUME NEW k \in 1 .. Len(t) PROVE t[k] # LineFeed
  <2>1. CASE \E j \in 1 .. Len(r) : t[k] = r[j]
      BY <1>2, <2>1
  <2>2. CASE t[k] = Comma
      BY <1>3, <2>2
  <2>3. CASE \E j \in 1 .. Len(v) : t[k] = v[j]
      BY <1>1, <2>3
  <2> QED BY <1>5, <2>1, <2>2, <2>3
<1>7. /\ Append(Q, v) \in Seq(Seq(Char)) /\ Len(Append(Q, v)) = Len(Q) + 1
      /\ Append(Q, v)[Len(Q) + 1] = v /\ \A i \in 1 .. Len(Q) : Append(Q, v)[i] = Q[i]
    BY <1>1, <1>2, AppendProperties
<1>8. ASSUME NEW i \in 1 .. m PROVE Append(Q, v)[i] = f[i]
  <2>1. i = m \/ i \in 1 .. n
      OBVIOUS
  <2> QED BY <1>2, <1>7, <2>1
<1>9. RowSoFar(t, m, f)
    BY <1>2, <1>5, <1>6, <1>7, <1>8 DEF RowSoFar
<1> QED BY <1>9 DEF t

\* A line feed ends it.
RowEnds(r, whole) ==
    /\ whole \in Seq(Char) /\ Last(whole) = LineFeed
    /\ LinesOf(whole) = <<r>>

LEMMA RowIsOneLine ==
    ASSUME NEW r \in Seq(Char), \A k \in 1 .. Len(r) : r[k] # LineFeed
    PROVE  RowEnds(r, r \o <<LineFeed>>)
<1> DEFINE whole == r \o <<LineFeed>>
<1>1. LineFeed \in Char /\ << >> \in Seq(Char) /\ Len(<< >>) = 0 /\ Len(r) \in Nat
    BY EmptySeq, LenProperties DEF Char
<1>2. <<LineFeed>> \in Seq(Char) /\ Len(<<LineFeed>>) = 1 /\ <<LineFeed>>[1] = LineFeed
    BY <1>1
<1>3. /\ whole \in Seq(Char) /\ Len(whole) = Len(r) + Len(<<LineFeed>>)
      /\ \A i \in 1 .. Len(r) + Len(<<LineFeed>>) :
            whole[i] = IF i <= Len(r) THEN r[i] ELSE <<LineFeed>>[i - Len(r)]
    BY ONLY <1>2, r \in Seq(Char), ConcatProperties
<1>4. OneMore(r, LineFeed, << >>)
  <2>1. \A k \in 1 .. Len(<< >>) : << >>[k] # LineFeed
      BY <1>1
  <2> QED BY <1>1, <2>1, SplitOneMore
<1> HIDE DEF whole
<1>5. Last(whole) = LineFeed
  <2>1. Len(whole) = Len(r) + 1 /\ Len(r) + 1 \in 1 .. Len(r) + 1 /\ ~ (Len(r) + 1 <= Len(r))
        /\ (Len(r) + 1) - Len(r) = 1
      BY <1>1, <1>2, <1>3
  <2>2. whole[Len(r) + 1] = LineFeed
      BY <1>2, <1>3, <2>1
  <2> QED BY <2>1, <2>2 DEF Last
<1>6. whole \o << >> = whole
    BY <1>3, ConcatEmptySeq
<1>7. SplitBy(whole, LineFeed) = Append(SplitBy(r, LineFeed), << >>)
    BY <1>4, <1>6 DEF OneMore, whole
<1>8. SplitBy(r, LineFeed) = <<r>>
    BY NoCut
<1> DEFINE Q == <<r>>
           e == << >>
           A == Append(Q, e)
<1>9. Q \in Seq(Seq(Char)) /\ Len(Q) = 1
    OBVIOUS
<1>10. SplitBy(whole, LineFeed) = A
    BY <1>7, <1>8
<1>0. e \in Seq(Char)
    BY <1>1
<1> HIDE DEF Q, e
<1>11. /\ A \in Seq(Seq(Char)) /\ Len(A) = Len(Q) + 1 /\ A[Len(Q) + 1] = e
       /\ \A i \in 1 .. Len(Q) : A[i] = Q[i]
  <2>1. Q \in Seq(Seq(Char))
      BY <1>9
  <2>2. /\ Append(Q, e) \in Seq(Seq(Char)) /\ Len(Append(Q, e)) = Len(Q) + 1
        /\ Append(Q, e)[Len(Q) + 1] = e
        /\ \A i \in 1 .. Len(Q) : Append(Q, e)[i] = Q[i]
      BY ONLY <1>0, <2>1, AppendProperties
  <2> QED BY ONLY <2>2
<1> HIDE DEF A
<1>12. Len(A) = 2 /\ A[2] = << >> /\ A[1] = Q[1]
    BY <1>9, <1>11 DEF e
<1>13. LinesOf(whole) = SubSeq(A, 1, 1)
    BY <1>10, <1>12 DEF LinesOf, Last, Front
<1>14. SubSeq(A, 1, 1) = Q
  <2>1. 1 \in Nat \ {0} /\ 1 \in Nat /\ 1 <= Len(A)
      BY <1>12
  <2>2. /\ SubSeq(A, 1, 1) \in Seq(Seq(Char))
        /\ Len(SubSeq(A, 1, 1)) = (IF 1 <= 1 THEN 1 - 1 + 1 ELSE 0)
        /\ \A k \in 1 .. 1 - 1 + 1 : SubSeq(A, 1, 1)[k] = A[1 + k - 1]
      BY ONLY <1>11, <2>1, PartOf
  <2>3. Len(SubSeq(A, 1, 1)) = 1 /\ SubSeq(A, 1, 1)[1] = A[1]
      BY <2>2
  <2>4. \A k \in 1 .. 1 : SubSeq(A, 1, 1)[k] = Q[k]
      BY <1>12, <2>3
  <2>5. Len(SubSeq(A, 1, 1)) = Len(Q) /\ \A k \in 1 .. Len(SubSeq(A, 1, 1)) : SubSeq(A, 1, 1)[k] = Q[k]
      BY <1>9, <2>3, <2>4
  <2> QED BY ONLY <1>9, <2>2, <2>5, SeqEqual
<1> QED BY <1>3, <1>5, <1>13, <1>14 DEF RowEnds, whole, Q

\* The nine fields of a row are found in it again.
LEMMA RowIsCutUp ==
    ASSUME NEW f,
           f[1] \in Field, f[2] \in Field, f[3] \in Field, f[4] \in Field, f[5] \in Field,
           f[6] \in Field, f[7] \in Field, f[8] \in Field, f[9] \in Field
    PROVE  \E r : RowSoFar(r, 9, f) /\ RowEnds(r, append_csv_row(f))
<1> DEFINE r1 == f[1]
           r2 == (r1 \o <<Comma>>) \o f[2]
           r3 == (r2 \o <<Comma>>) \o f[3]
           r4 == (r3 \o <<Comma>>) \o f[4]
           r5 == (r4 \o <<Comma>>) \o f[5]
           r6 == (r5 \o <<Comma>>) \o f[6]
           r7 == (r6 \o <<Comma>>) \o f[7]
           r8 == (r7 \o <<Comma>>) \o f[8]
           r9 == (r8 \o <<Comma>>) \o f[9]
<1>1. append_csv_row(f) = r9 \o <<LineFeed>>
    BY DEF append_csv_row
<1>2. /\ 2 = 1 + 1 /\ 3 = 2 + 1 /\ 4 = 3 + 1 /\ 5 = 4 + 1 /\ 6 = 5 + 1 /\ 7 = 6 + 1
      /\ 8 = 7 + 1 /\ 9 = 8 + 1
    OBVIOUS
<1> HIDE DEF r1, r2, r3, r4, r5, r6, r7, r8, r9
<1>3. RowSoFar(r1, 1, f)
    BY RowBegins DEF r1
<1>4. RowSoFar(r2, 2, f)
    BY <1>2, <1>3, RowGrows DEF r2
<1>5. RowSoFar(r3, 3, f)
    BY <1>2, <1>4, RowGrows DEF r3
<1>6. RowSoFar(r4, 4, f)
    BY <1>2, <1>5, RowGrows DEF r4
<1>7. RowSoFar(r5, 5, f)
    BY <1>2, <1>6, RowGrows DEF r5
<1>8. RowSoFar(r6, 6, f)
    BY <1>2, <1>7, RowGrows DEF r6
<1>9. RowSoFar(r7, 7, f)
    BY <1>2, <1>8, RowGrows DEF r7
<1>10. RowSoFar(r8, 8, f)
    BY <1>2, <1>9, RowGrows DEF r8
<1>11. RowSoFar(r9, 9, f)
    BY <1>2, <1>10, RowGrows DEF r9
<1>12. r9 \in Seq(Char) /\ \A k \in 1 .. Len(r9) : r9[k] # LineFeed
    BY <1>11 DEF RowSoFar
<1>13. RowEnds(r9, r9 \o <<LineFeed>>)
    BY <1>12, RowIsOneLine
<1> QED BY <1>1, <1>11, <1>13

\* What RowsReadBack says of a row and its message.
ReadsBack(report, message) ==
    LET lines  == LinesOf(report)
        fields == SplitBy(lines[1], Comma)
        price  == message.price
        cents  == Hundredths(price)
        again  == string_view_to_double(fields[7])
    IN /\ Len(lines) = 1 /\ Last(report) = LineFeed
       /\ Len(fields) = 9
       /\ UpToNul(fields[2], message.coid) /\ UpToNul(fields[3], message.instrument)
       /\ string_view_to_int(fields[4]) = Value(message.side)
       /\ message.quantity \in 0 .. ShortModulus - 1 =>
            string_view_to_int(fields[6]) = Value(message.quantity)
       /\ cents <= LongMax /\ ~IsNaN(price) =>
            again = Value(Decimal(price.negative /\ cents > 0, cents, 2, 0))

LEMMA ReportReadsBack ==
    ASSUME NEW id \in Nat, NEW message \in Message,
           NEW price_text \in format_price_to_buffer(message.price, PriceSize),
           NEW reason \in Reasons,
           NEW report,
           report = append_csv_row(RejectFields(id, message, price_text, reason))
    PROVE  report \in Seq(Char) /\ ReadsBack(report, message)
<1> DEFINE f == RejectFields(id, message, price_text, reason)
           price == message.price
<1>1. price \in Price
    BY DEF Message
<1>2. PriceBack(price, price_text)
    BY <1>1, PricesReadBack
<1>3. price_text \in Field
    BY <1>2 DEF PriceBack
<1>4. RowFields(id, message, price_text, f)
    BY <1>3, RejectFieldsAre
<1> HIDE DEF f
<1>5. /\ f[1] \in Field /\ f[2] \in Field /\ f[3] \in Field /\ f[4] \in Field
      /\ f[5] \in Field /\ f[6] \in Field /\ f[7] \in Field /\ f[8] \in Field /\ f[9] \in Field
    BY <1>4 DEF RowFields
<1>6. PICK r : RowSoFar(r, 9, f) /\ RowEnds(r, report)
    BY <1>5, RowIsCutUp DEF f
<1>7. report \in Seq(Char) /\ Last(report) = LineFeed /\ LinesOf(report) = <<r>>
    BY <1>6 DEF RowEnds
<1> DEFINE fields == SplitBy(r, Comma)
<1>8. Len(fields) = 9 /\ \A i \in 1 .. 9 : fields[i] = f[i]
    BY <1>6 DEF RowSoFar
<1>9. LinesOf(report)[1] = r /\ Len(LinesOf(report)) = 1
    BY <1>7
<1> HIDE DEF fields
<1>10. fields[2] = f[2] /\ fields[3] = f[3] /\ fields[4] = f[4] /\ fields[6] = f[6] /\ fields[7] = f[7]
    BY <1>8
<1>11. /\ UpToNul(fields[2], message.coid) /\ UpToNul(fields[3], message.instrument)
       /\ string_view_to_int(fields[4]) = Value(message.side)
       /\ message.quantity \in 0 .. ShortModulus - 1 =>
            string_view_to_int(fields[6]) = Value(message.quantity)
       /\ fields[7] = price_text
    BY <1>4, <1>10 DEF RowFields
<1>12. Hundredths(price) <= LongMax /\ ~IsNaN(price) =>
         string_view_to_double(fields[7])
           = Value(Decimal(price.negative /\ Hundredths(price) > 0, Hundredths(price), 2, 0))
    BY <1>2, <1>11 DEF PriceBack
<1>13. fields = SplitBy(LinesOf(report)[1], Comma)
    BY <1>9 DEF fields
<1> QED BY <1>7, <1>8, <1>9, <1>11, <1>12, <1>13 DEF ReadsBack

\* Every row so far, of the messages in their order.
ReportsBack ==
    /\ reports \in Seq(Seq(Char)) /\ Len(reports) <= Len(messages)
    /\ \A k \in 1 .. Len(reports) : ReadsBack(reports[k], messages[k])

RowsInv == FileInv /\ ReportsBack

LEMMA MessagesAre == FileInv => messages \in Seq(Message) /\ Len(messages) \in Nat
<1> SUFFICES ASSUME FileInv PROVE messages \in Seq(Message) /\ Len(messages) \in Nat
    OBVIOUS
<1>1. PICK n \in Nat : Progress(n)
    BY DEF FileInv
<1>2. messages \in Seq(Message)
    BY <1>1 DEF Progress, MessagesOf
<1> QED BY <1>2, LenProperties

\* More messages do not change the reports on those before.
LEMMA ReportsStay ==
    FileInv /\ ReportsBack /\ UNCHANGED reports
        /\ (UNCHANGED messages \/ \E m : messages' = Append(messages, m)) => ReportsBack'
<1> SUFFICES ASSUME FileInv, ReportsBack, UNCHANGED reports,
                    UNCHANGED messages \/ \E m : messages' = Append(messages, m)
             PROVE  ReportsBack'
    OBVIOUS
<1>1. messages \in Seq(Message) /\ Len(messages) \in Nat
    BY MessagesAre
<1>2. /\ reports \in Seq(Seq(Char)) /\ Len(reports) <= Len(messages)
      /\ \A k \in 1 .. Len(reports) : ReadsBack(reports[k], messages[k])
      /\ Len(reports) \in Nat
    BY LenProperties DEF ReportsBack
<1>3. /\ Len(messages') \in Nat /\ Len(messages) <= Len(messages')
      /\ \A k \in 1 .. Len(messages) : messages'[k] = messages[k]
  <2>1. CASE UNCHANGED messages
      BY <1>1, <2>1
  <2>2. CASE \E m : messages' = Append(messages, m)
    <3>1. PICK m : messages' = Append(messages, m)
        BY <2>2
    <3> DEFINE S == Message \cup {m}
    <3>2. Message \subseteq S /\ m \in S
        OBVIOUS
    <3> HIDE DEF S
    <3>3. messages \in Seq(S)
        BY ONLY <1>1, <3>2, SeqMonotonic
    <3>4. /\ Len(Append(messages, m)) = Len(messages) + 1
          /\ \A i \in 1 .. Len(messages) : Append(messages, m)[i] = messages[i]
        BY ONLY <3>2, <3>3, AppendProperties
    <3> QED BY <1>1, <3>1, <3>4
  <2> QED BY <2>1, <2>2
<1>4. Len(reports) <= Len(messages')
    BY <1>1, <1>2, <1>3
<1>5. ASSUME NEW k \in 1 .. Len(reports) PROVE ReadsBack(reports[k], messages'[k])
  <2>1. k \in 1 .. Len(messages)
      BY <1>1, <1>2
  <2> QED BY <1>2, <1>3, <2>1
<1> QED BY <1>2, <1>4, <1>5 DEF ReportsBack, ReadsBack

\* One more report is on the next message.
LEMMA OneMoreReport == FileInv /\ ReportsBack /\ Refuse => ReportsBack'
<1> SUFFICES ASSUME FileInv, ReportsBack, Refuse PROVE ReportsBack'
    OBVIOUS
<1> DEFINE id == Len(reports) + 1
           message == messages[id]
<1>1. messages \in Seq(Message) /\ Len(messages) \in Nat /\ messages' = messages
    BY MessagesAre DEF Refuse
<1>2. /\ reports \in Seq(Seq(Char)) /\ Len(reports) <= Len(messages)
      /\ \A k \in 1 .. Len(reports) : ReadsBack(reports[k], messages[k])
      /\ Len(reports) \in Nat
    BY LenProperties DEF ReportsBack
<1>3. PICK price_text \in format_price_to_buffer(message.price, PriceSize), reason \in Reasons :
         reports' = Append(reports, append_csv_row(RejectFields(id, message, price_text, reason)))
    BY DEF Refuse
<1>4. id \in 1 .. Len(messages) /\ id \in Nat
    BY <1>1, <1>2 DEF Refuse
<1>5. message \in Message
    BY <1>1, <1>4, ElementOfSeq
<1> DEFINE report == append_csv_row(RejectFields(id, message, price_text, reason))
<1>6. report \in Seq(Char) /\ ReadsBack(report, message)
  <2> HIDE DEF message, id
  <2> QED BY <1>3, <1>4, <1>5, ReportReadsBack
<1>7. reports' = Append(reports, report)
    BY <1>3
<1> HIDE DEF report
<1>8. /\ Append(reports, report) \in Seq(Seq(Char)) /\ Len(Append(reports, report)) = Len(reports) + 1
      /\ Append(reports, report)[Len(reports) + 1] = report
      /\ \A i \in 1 .. Len(reports) : Append(reports, report)[i] = reports[i]
    BY ONLY <1>2, <1>6, AppendProperties
<1>9. /\ reports' \in Seq(Seq(Char)) /\ Len(reports') = id /\ reports'[id] = report
      /\ \A i \in 1 .. Len(reports) : reports'[i] = reports[i]
    BY <1>7, <1>8
<1>10. ASSUME NEW k \in 1 .. id PROVE ReadsBack(reports'[k], messages'[k])
  <2>1. CASE k = id
      BY <1>1, <1>6, <1>9, <2>1
  <2>2. CASE k # id
    <3>1. k \in 1 .. Len(reports)
        BY <1>2, <2>2
    <3> QED BY <1>1, <1>2, <1>9, <3>1
  <2> QED BY <2>1, <2>2
<1>11. Len(reports') <= Len(messages')
    BY <1>1, <1>4, <1>9
<1> HIDE DEF id
<1> QED BY <1>9, <1>10, <1>11 DEF ReportsBack, ReadsBack

LEMMA RowsStep == RowsInv /\ [Next]_vars => RowsInv'
<1> SUFFICES ASSUME RowsInv, [Next]_vars PROVE RowsInv'
    OBVIOUS
<1>1. FileInv /\ ReportsBack
    BY DEF RowsInv
<1>2. FileInv'
    BY <1>1, FileStep
<1>3. ReportsBack'
  <2>1. CASE Refuse
      BY <1>1, <2>1, OneMoreReport
  <2>2. CASE NextRow \/ SkipRow \/ Finished \/ UNCHANGED vars
    <3>1. reports' = reports /\ messages' = messages
        BY <2>2 DEF NextRow, SkipRow, Finished, vars
    <3> QED BY <1>1, <3>1, ReportsStay
  <2>3. CASE PublishRow
    <3>1. reports' = reports /\ (UNCHANGED messages \/ \E m : messages' = Append(messages, m))
        BY <2>3 DEF PublishRow
    <3> QED BY <1>1, <3>1, ReportsStay
  <2> QED BY <2>1, <2>2, <2>3 DEF Next
<1> QED BY <1>2, <1>3 DEF RowsInv

LEMMA RowsInvImplies == RowsInv => RowsReadBack
<1> SUFFICES ASSUME RowsInv PROVE RowsReadBack
    OBVIOUS
<1>1. reports \in Seq(Seq(Char)) /\ \A k \in 1 .. Len(reports) : ReadsBack(reports[k], messages[k])
    BY DEF RowsInv, ReportsBack
<1>2. DOMAIN reports = 1 .. Len(reports)
    BY <1>1, LenProperties
<1>3. \A k \in DOMAIN reports : ReadsBack(reports[k], messages[k])
    BY <1>1, <1>2
<1> QED BY <1>3 DEF RowsReadBack, ReadsBack

\* Every row of the report reads back as its message, the client's texts up to a
\* NUL in them, whatever the file.
THEOREM ReportsAreRead == Spec => []RowsReadBack
<1>1. Init => RowsInv
  <2> SUFFICES ASSUME Init PROVE RowsInv
      OBVIOUS
  <2>1. FileInv
      BY NothingTaken
  <2>2. reports = << >> /\ messages = << >>
      BY DEF Init
  <2>3. << >> \in Seq(Seq(Char)) /\ Len(<< >>) = 0
      BY EmptySeq
  <2>4. ReportsBack
      BY <2>2, <2>3 DEF ReportsBack
  <2> QED BY <2>1, <2>4 DEF RowsInv
<1> QED BY <1>1, RowsStep, RowsInvImplies, PTL DEF Spec

-----------------------------------------------------------------------------
(* The end of the loop.                                                     *)

\* What is left of the file is a text.
ReaderInv ==
    /\ stream \in Seq(STRING)
    /\ good \in BOOLEAN
    /\ at_end \in BOOLEAN

\* getline takes the line and its end, or all there is: a read that does not
\* fail leaves a shorter text.
LEMMA ReadTakes ==
    ReaderInv /\ ReadLine => /\ stream' \in Seq(STRING) /\ Len(stream') < Len(stream)
                             /\ good' \in BOOLEAN /\ at_end' = at_end
<1> SUFFICES ASSUME ReaderInv, ReadLine
             PROVE  /\ stream' \in Seq(STRING) /\ Len(stream') < Len(stream)
                    /\ good' \in BOOLEAN /\ at_end' = at_end
    OBVIOUS
<1> DEFINE feeds == {k \in DOMAIN stream : stream[k] = LineFeed}
           feed  == CHOOSE k \in feeds : \A j \in feeds : k <= j
<1>1. stream \in Seq(STRING) /\ Len(stream) \in Nat /\ DOMAIN stream = 1 .. Len(stream)
    BY LenProperties DEF ReaderInv
<1>2. CASE feeds # {} /\ stream' = SubSeq(stream, feed + 1, Len(stream))
  <2>1. feeds \in SUBSET Nat
      BY <1>1
  <2>2. \E k \in feeds : \A j \in feeds : k <= j
    <3> HIDE DEF feeds
    <3> QED BY <1>2, <2>1, Least
  <2>3. feed \in feeds
    <3> HIDE DEF feeds
    <3> QED BY <2>2
  <2> HIDE DEF feed
  <2>4. feed \in 1 .. Len(stream)
      BY <1>1, <2>3
  <2>5. \A k \in feed + 1 .. Len(stream) : stream[k] \in STRING
      BY <1>1, <2>4, ElementOfSeq
  <2>6. feed + 1 \in Int /\ Len(stream) \in Int
      BY <1>1, <2>4
  <2>7. /\ SubSeq(stream, feed + 1, Len(stream)) \in Seq(STRING)
        /\ Len(SubSeq(stream, feed + 1, Len(stream)))
              = IF feed + 1 <= Len(stream) THEN Len(stream) - (feed + 1) + 1 ELSE 0
      BY ONLY <2>5, <2>6, SubSeqProperties
  <2>8. Len(stream') < Len(stream)
      BY <1>1, <1>2, <2>4, <2>7
  <2> QED BY <1>2, <2>7, <2>8 DEF ReadLine, ReaderInv
<1>3. CASE /\ feeds = {} /\ stream # << >> /\ stream' = << >>
           /\ good' = FALSE /\ at_end' = at_end
  <2>1. Len(stream) # 0
      BY <1>1, <1>3, EmptySeq
  <2>2. << >> \in Seq(STRING) /\ Len(<< >>) = 0
      BY EmptySeq
  <2>3. stream' \in Seq(STRING) /\ Len(stream') < Len(stream)
      BY <1>1, <1>3, <2>1, <2>2
  <2>4. good' \in BOOLEAN
      BY <1>3
  <2> QED BY <1>3, <2>3, <2>4
<1> QED BY <1>2, <1>3 DEF ReadLine

LEMMA ReaderStep == ReaderInv /\ [Next]_vars => ReaderInv'
<1> SUFFICES ASSUME ReaderInv, [Next]_vars PROVE ReaderInv'
    OBVIOUS
<1>1. CASE NextRow
  <2>1. CASE ReadLine
      BY <2>1, ReadTakes DEF ReaderInv
  <2>2. CASE ReadFails
      BY <2>2 DEF ReaderInv, ReadFails
  <2> QED BY <1>1, <2>1, <2>2 DEF NextRow, Advance
<1>2. CASE UNCHANGED readerVars
    BY <1>2 DEF readerVars, ReaderInv
<1>3. CASE SkipRow \/ PublishRow \/ Refuse \/ Finished \/ UNCHANGED vars
    BY <1>2, <1>3 DEF SkipRow, PublishRow, Refuse, Finished, vars
<1> QED BY <1>1, <1>3 DEF Next

\* Whatever the file: every turn of the loop takes something from the stream
\* or is the last, so that the loop ends (csv_reader.cpp:41-47).
THEOREM LoopOverRowsEnds == Spec => RowsRunOut
<1>1. Init => ReaderInv
    BY FilesAssumption DEF Init, ReaderInv
<1>2. ReaderInv /\ [Next]_vars =>
        [producer = "advance" /\ producer' # "advance" =>
            producer' = "ended" \/ Len(stream') < Len(stream)]_vars
  <2> SUFFICES ASSUME ReaderInv, Next, producer = "advance", producer' # "advance",
                      producer' # "ended"
               PROVE  Len(stream') < Len(stream)
      OBVIOUS
  <2>1. NextRow
      BY DEF Next, SkipRow, PublishRow, Refuse, Finished, vars
  <2>2. ReadLine
      BY <2>1 DEF NextRow, Advance, ReadFails
  <2> QED BY <2>2, ReadTakes
<1> QED BY <1>1, <1>2, ReaderStep, PTL DEF Spec, RowsRunOut
=============================================================================
