--------------------------- MODULE MemPool_proofs ---------------------------
(***************************************************************************)
(* The pool is sound for every capacity, chunk size and sequence of calls.  *)
(* What a search or a walk computes step by step is shown without an        *)
(* induction rule: were there an argument for which the claim fails, there  *)
(* would be a least one (Least), and the step before it refutes it.         *)
(***************************************************************************)
EXTENDS MemPool, FiniteSetTheorems, SequenceTheorems, TLAPS

\* A set of naturals has a least element.
LEMMA Least ==
    ASSUME NEW T \in SUBSET Nat, T # {}
    PROVE  \E m \in T : \A k \in T : m <= k
<1> DEFINE R == OpToRel(<, Nat)
<1>1. IsWellFoundedOn(R, Nat)
    BY NatLessThanWellFounded
<1>2. \A x \in Nat, y \in Nat : y < x => <<y, x>> \in R
    BY DEF OpToRel
<1> HIDE DEF R
<1>3. PICK x \in T : \A y \in T : ~ (<<y, x>> \in R)
    BY <1>1, WFMin
<1>4. ASSUME NEW k \in T PROVE x <= k
  <2>1. x \in Nat /\ k \in Nat /\ ~ (<<k, x>> \in R)
      BY <1>3
  <2> QED BY <1>2, <2>1
<1> QED BY <1>4

-----------------------------------------------------------------------------
(* Chunks and indices.                                                      *)

\* The chunks lie one behind the other, without gap or overlap.
ChunksInv ==
    /\ chunks_ \in Seq(1 .. MaxChunkSize + InitialCapacity)
    /\ chunk_offsets_ \in Seq(Nat)
    /\ Len(chunks_) \in 1 .. MaxChunks
    /\ Len(chunk_offsets_) = Len(chunks_)
    /\ total_capacity_ \in Nat
    /\ chunk_offsets_[1] = 0
    /\ total_capacity_ = chunk_offsets_[Len(chunks_)] + chunks_[Len(chunks_)]
    /\ \A c \in 1 .. Len(chunks_) :
        c + 1 \in 1 .. Len(chunks_) =>
            chunk_offsets_[c + 1] = chunk_offsets_[c] + chunks_[c]
    /\ \A c, d \in 1 .. Len(chunks_) :
        c < d => chunk_offsets_[c] + chunks_[c] <= chunk_offsets_[d]

\* The types of what ChunksInv relates, as the provers need them.
LEMMA ChunkFacts ==
    ASSUME ChunksInv
    PROVE  /\ Len(chunks_) \in Nat \ {0} /\ DOMAIN chunks_ = 1 .. Len(chunks_)
           /\ \A c \in 1 .. Len(chunks_) :
                /\ chunks_[c] \in Nat \ {0}
                /\ chunks_[c] <= MaxChunkSize + InitialCapacity
                /\ chunk_offsets_[c] \in Nat
<1>1. Len(chunks_) \in Nat \ {0} /\ DOMAIN chunks_ = 1 .. Len(chunks_)
    BY LenProperties, MemPoolAssumption DEF ChunksInv
<1>2. ASSUME NEW c \in 1 .. Len(chunks_)
      PROVE  /\ chunks_[c] \in 1 .. MaxChunkSize + InitialCapacity
             /\ chunk_offsets_[c] \in Nat
    BY ElementOfSeq DEF ChunksInv
<1> QED BY <1>1, <1>2, MemPoolAssumption

LEMMA NodesMeaning ==
    ASSUME ChunksInv, NEW n
    PROVE  n \in Nodes <=> \E c \in 1 .. Len(chunks_) :
                                \E k \in 0 .. chunks_[c] - 1 : n = <<c, k>>
BY ChunkFacts DEF Nodes, Chunk

LEMMA NodesAreObjects ==
    ChunksInv => Nodes \subseteq Objects /\ NULL \notin Nodes /\ Foreign \notin Nodes
<1> SUFFICES ASSUME ChunksInv
             PROVE  Nodes \subseteq Objects /\ NULL \notin Nodes /\ Foreign \notin Nodes
    OBVIOUS
<1>1. ASSUME NEW n \in Nodes PROVE n \in Objects
  <2>1. PICK c \in 1 .. Len(chunks_) : \E k \in 0 .. chunks_[c] - 1 : n = <<c, k>>
      BY NodesMeaning
  <2>2. PICK k \in 0 .. chunks_[c] - 1 : n = <<c, k>>
      BY <2>1
  <2>3. chunks_[c] \in Nat /\ chunks_[c] <= MaxChunkSize + InitialCapacity
      BY ChunkFacts
  <2>4. k \in 0 .. MaxChunkSize + InitialCapacity
      BY <2>3, MemPoolAssumption
  <2>5. c \in 1 .. MaxChunks
      BY MemPoolAssumption DEF ChunksInv
  <2> QED BY <2>2, <2>4, <2>5 DEF Objects
<1> QED BY <1>1, MemPoolAssumption

\* The last chunk from lo to hi - 1 that does not begin after idx, or lo.
IsTheChunk(lo, hi, idx, c) ==
    /\ c \in lo .. hi - 1
    /\ c = lo \/ chunk_offsets_[c] <= idx
    /\ \A d \in c + 1 .. hi - 1 : idx < chunk_offsets_[d]

LEMMA OneChunk ==
    ASSUME ChunksInv, NEW idx \in Nat,
           NEW lo \in 1 .. Len(chunks_), NEW hi \in 1 .. Len(chunks_) + 1,
           NEW c, IsTheChunk(lo, hi, idx, c), NEW d, IsTheChunk(lo, hi, idx, d)
    PROVE  c = d
<1>1. /\ c \in Int /\ d \in Int
      /\ chunk_offsets_[c] \in Nat /\ chunk_offsets_[d] \in Nat
    BY ChunkFacts DEF IsTheChunk
<1>2. ~ (c < d)
    BY <1>1 DEF IsTheChunk
<1>3. ~ (d < c)
    BY <1>1 DEF IsTheChunk
<1> QED BY <1>1, <1>2, <1>3

LEMMA SomeChunk ==
    ASSUME ChunksInv, NEW idx \in Nat,
           NEW lo \in 1 .. Len(chunks_), NEW hi \in 1 .. Len(chunks_) + 1, lo < hi
    PROVE  \E c : IsTheChunk(lo, hi, idx, c)
<1> DEFINE T == {c \in lo .. hi - 1 : \A d \in c + 1 .. hi - 1 : idx < chunk_offsets_[d]}
<1>1. T \in SUBSET Nat /\ hi - 1 \in T
    BY ChunkFacts
<1> HIDE DEF T
<1>2. PICK c \in T : \A k \in T : c <= k
    BY <1>1, Least
<1> USE DEF T
<1>3. /\ c \in lo .. hi - 1 /\ c \in Nat /\ chunk_offsets_[c] \in Nat
      /\ \A d \in c + 1 .. hi - 1 : idx < chunk_offsets_[d]
    BY <1>2, ChunkFacts
<1>4. ASSUME c # lo PROVE chunk_offsets_[c] <= idx
  <2>1. c - 1 \in lo .. hi - 1 /\ ~ (c <= c - 1)
      BY <1>3, <1>4
  <2>2. c - 1 \notin T
      BY <1>2, <2>1
  <2>3. PICK d \in (c - 1) + 1 .. hi - 1 : ~ (idx < chunk_offsets_[d])
      BY <2>1, <2>2
  <2>4. d = c
      BY <1>3, <2>3
  <2> QED BY <1>3, <2>3, <2>4
<1> QED BY <1>3, <1>4 DEF IsTheChunk

\* The two halves of a range.
LEMMA Halves ==
    ASSUME ChunksInv, NEW idx \in Nat,
           NEW lo \in 1 .. Len(chunks_), NEW hi \in 1 .. Len(chunks_) + 1,
           ~ (lo + 1 >= hi),
           NEW mid, mid = lo + (hi - lo) \div 2, NEW c
    PROVE  /\ mid \in 1 .. Len(chunks_) /\ lo < mid /\ mid < hi
           /\ chunk_offsets_[mid] <= idx /\ IsTheChunk(mid, hi, idx, c) =>
                IsTheChunk(lo, hi, idx, c)
           /\ ~ (chunk_offsets_[mid] <= idx) /\ IsTheChunk(lo, mid, idx, c) =>
                IsTheChunk(lo, hi, idx, c)
<1>1. mid \in 1 .. Len(chunks_) /\ lo < mid /\ mid < hi
    BY ChunkFacts
<1>2. ASSUME chunk_offsets_[mid] <= idx, IsTheChunk(mid, hi, idx, c)
      PROVE  IsTheChunk(lo, hi, idx, c)
  <2>1. c \in mid .. hi - 1 /\ \A d \in c + 1 .. hi - 1 : idx < chunk_offsets_[d]
      BY <1>2 DEF IsTheChunk
  <2>2. chunk_offsets_[c] <= idx
      BY <1>2 DEF IsTheChunk
  <2>3. c \in lo .. hi - 1
      BY <1>1, <2>1, ChunkFacts
  <2> QED BY <2>1, <2>2, <2>3 DEF IsTheChunk
<1>3. ASSUME ~ (chunk_offsets_[mid] <= idx), IsTheChunk(lo, mid, idx, c)
      PROVE  IsTheChunk(lo, hi, idx, c)
  <2>1. ASSUME NEW d \in c + 1 .. hi - 1
        PROVE  idx < chunk_offsets_[d]
    <3>1. CASE d < mid
        BY <1>1, <1>3, <3>1, ChunkFacts DEF IsTheChunk
    <3>2. CASE d = mid
        BY <1>1, <1>3, <3>2, ChunkFacts
    <3>3. CASE d > mid
      <4>1. d \in 1 .. Len(chunks_) /\ mid < d
          BY <1>1, <3>3, ChunkFacts
      <4>2. chunk_offsets_[mid] + chunks_[mid] <= chunk_offsets_[d]
          BY <1>1, <4>1 DEF ChunksInv
      <4> QED BY <1>1, <1>3, <4>1, <4>2, ChunkFacts
    <3>4. d \in Int /\ mid \in Int
        BY <1>1, <1>3 DEF IsTheChunk
    <3> QED BY <3>1, <3>2, <3>3, <3>4
  <2> QED BY <1>1, <1>3, <2>1, ChunkFacts DEF IsTheChunk
<1> QED BY <1>1, <1>2, <1>3

\* f is the search that resolveIndex(idx) makes.
Ranges == (1 .. Len(chunks_)) \X (1 .. Len(chunks_) + 1)

IsSearch(f, idx) ==
    f = [range \in Ranges |->
            LET lo  == range[1]
                hi  == range[2]
                mid == lo + (hi - lo) \div 2
            IN IF lo + 1 >= hi THEN lo
               ELSE IF chunk_offsets_[mid] <= idx THEN f[<<mid, hi>>]
               ELSE f[<<lo, mid>>]]

LEMMA SearchStep ==
    ASSUME NEW f, NEW idx, IsSearch(f, idx),
           NEW lo \in 1 .. Len(chunks_), NEW hi \in 1 .. Len(chunks_) + 1
    PROVE  LET mid == lo + (hi - lo) \div 2 IN
           f[<<lo, hi>>] = IF lo + 1 >= hi THEN lo
                           ELSE IF chunk_offsets_[mid] <= idx THEN f[<<mid, hi>>]
                           ELSE f[<<lo, mid>>]
BY DEF IsSearch, Ranges

LEMMA SearchFinds ==
    ASSUME ChunksInv, NEW idx \in Nat, NEW f, IsSearch(f, idx)
    PROVE  IsTheChunk(1, Len(chunks_) + 1, idx, f[<<1, Len(chunks_) + 1>>])
<1> DEFINE Wrong(lo, hi, k) ==
                /\ lo < hi /\ hi - lo = k
                /\ ~ IsTheChunk(lo, hi, idx, f[<<lo, hi>>])
           T == {k \in Nat : \E lo \in 1 .. Len(chunks_), hi \in 1 .. Len(chunks_) + 1 :
                                Wrong(lo, hi, k)}
<1>1. T = {}
  <2> SUFFICES ASSUME T # {} PROVE FALSE
      OBVIOUS
  <2>1. T \in SUBSET Nat
      OBVIOUS
  <2> HIDE DEF T
  <2>2. PICK m \in T : \A k \in T : m <= k
      BY <2>1, Least
  <2> USE DEF T
  <2>3. PICK lo \in 1 .. Len(chunks_), hi \in 1 .. Len(chunks_) + 1 : Wrong(lo, hi, m)
      BY <2>2
  <2> DEFINE mid == lo + (hi - lo) \div 2
  <2>4. CASE lo + 1 >= hi
    <3>1. f[<<lo, hi>>] = lo
        BY <2>4, SearchStep
    <3> QED BY <2>3, <2>4, <3>1, ChunkFacts DEF IsTheChunk
  <2>5. CASE ~ (lo + 1 >= hi)
    <3>1. mid \in 1 .. Len(chunks_) /\ lo < mid /\ mid < hi
      <4> HIDE DEF mid
      <4> QED BY <2>5, Halves DEF mid
    <3>2. f[<<lo, hi>>] = IF chunk_offsets_[mid] <= idx THEN f[<<mid, hi>>]
                                                       ELSE f[<<lo, mid>>]
        BY <2>5, SearchStep
    <3>3. mid = lo + (hi - lo) \div 2
        OBVIOUS
    <3> HIDE DEF mid, T
    <3>4. IsTheChunk(mid, hi, idx, f[<<mid, hi>>])
      <4>1. hi - mid \in Nat /\ ~ (m <= hi - mid) /\ mid < hi
          BY <2>3, <3>1, ChunkFacts
      <4>2. hi - mid \notin T
          BY <2>2, <4>1
      <4> QED BY <3>1, <4>1, <4>2 DEF T
    <3>5. IsTheChunk(lo, mid, idx, f[<<lo, mid>>])
      <4>1. mid - lo \in Nat /\ ~ (m <= mid - lo) /\ mid \in 1 .. Len(chunks_) + 1
          BY <2>3, <3>1, ChunkFacts
      <4>2. mid - lo \notin T
          BY <2>2, <4>1
      <4> QED BY <3>1, <4>1, <4>2 DEF T
    <3>6. IsTheChunk(lo, hi, idx, f[<<lo, hi>>])
      <4>1. CASE chunk_offsets_[mid] <= idx
          BY <2>5, <3>2, <3>3, <3>4, <4>1, Halves
      <4>2. CASE ~ (chunk_offsets_[mid] <= idx)
          BY <2>5, <3>2, <3>3, <3>5, <4>2, Halves
      <4> QED BY <4>1, <4>2
    <3> QED BY <2>3, <3>6
  <2> QED BY <2>4, <2>5
<1>2. /\ 1 \in 1 .. Len(chunks_) /\ Len(chunks_) + 1 \in 1 .. Len(chunks_) + 1
      /\ 1 < Len(chunks_) + 1 /\ (Len(chunks_) + 1) - 1 \in Nat
    BY ChunkFacts
<1>3. (Len(chunks_) + 1) - 1 \notin T
    BY <1>1
<1> QED BY <1>2, <1>3

LEMMA SearchExists ==
    ASSUME ChunksInv, NEW idx \in Nat
    PROVE  \E f : IsSearch(f, idx)
<1> DEFINE found(lo, hi) == IF lo < hi THEN CHOOSE c : IsTheChunk(lo, hi, idx, c) ELSE lo
           f == [range \in Ranges |-> found(range[1], range[2])]
<1>1. ASSUME NEW lo \in 1 .. Len(chunks_), NEW hi \in 1 .. Len(chunks_) + 1
      PROVE  LET mid == lo + (hi - lo) \div 2 IN
             found(lo, hi) = IF lo + 1 >= hi THEN lo
                             ELSE IF chunk_offsets_[mid] <= idx THEN f[<<mid, hi>>]
                             ELSE f[<<lo, mid>>]
  <2>1. \A a \in 1 .. Len(chunks_), b \in 1 .. Len(chunks_) + 1 :
            f[<<a, b>>] = found(a, b)
    <3> HIDE DEF found
    <3> QED BY DEF Ranges
  <2>2. \A a \in 1 .. Len(chunks_), b \in 1 .. Len(chunks_) + 1 :
            a < b => IsTheChunk(a, b, idx, found(a, b))
      BY SomeChunk
  <2>3. \A a \in 1 .. Len(chunks_), b \in 1 .. Len(chunks_) + 1 :
            ~ (a < b) => found(a, b) = a
      OBVIOUS
  <2> HIDE DEF f, found
  <2>4. CASE lo + 1 >= hi
    <3>1. CASE lo < hi
      <4>1. IsTheChunk(lo, hi, idx, lo)
          BY <2>4, <3>1, ChunkFacts DEF IsTheChunk
      <4>2. found(lo, hi) = lo
          BY <2>2, <3>1, <4>1, OneChunk
      <4> QED BY <2>4, <4>2
    <3> QED BY <2>3, <2>4, <3>1
  <2>5. CASE ~ (lo + 1 >= hi)
    <3> DEFINE mid == lo + (hi - lo) \div 2
    <3>1. mid = lo + (hi - lo) \div 2
        OBVIOUS
    <3> HIDE DEF mid
    <3>2. mid \in 1 .. Len(chunks_) /\ mid \in 1 .. Len(chunks_) + 1 /\ lo < mid /\ mid < hi
      <4>1. mid \in 1 .. Len(chunks_) /\ lo < mid /\ mid < hi
          BY <2>5, <3>1, Halves
      <4> QED BY <4>1, ChunkFacts
    <3>3. IsTheChunk(lo, hi, idx, found(lo, hi))
        BY <2>2, <2>5, <3>2, ChunkFacts
    <3>4. CASE chunk_offsets_[mid] <= idx
      <4>1. IsTheChunk(mid, hi, idx, found(mid, hi))
          BY <2>2, <3>2
      <4>2. IsTheChunk(lo, hi, idx, found(mid, hi))
          BY <2>5, <3>1, <3>4, <4>1, Halves
      <4>3. found(mid, hi) = found(lo, hi)
          BY <3>3, <4>2, OneChunk
      <4> QED BY <2>1, <2>5, <3>1, <3>2, <3>4, <4>3
    <3>5. CASE ~ (chunk_offsets_[mid] <= idx)
      <4>1. IsTheChunk(lo, mid, idx, found(lo, mid))
          BY <2>2, <3>2
      <4>2. IsTheChunk(lo, hi, idx, found(lo, mid))
          BY <2>5, <3>1, <3>5, <4>1, Halves
      <4>3. found(lo, mid) = found(lo, hi)
          BY <3>3, <4>2, OneChunk
      <4> QED BY <2>1, <2>5, <3>1, <3>2, <3>5, <4>3
    <3> QED BY <3>4, <3>5
  <2> QED BY <2>4, <2>5
<1> HIDE DEF found
<1>2. ASSUME NEW range \in Ranges
      PROVE  LET lo  == range[1]
                 hi  == range[2]
                 mid == lo + (hi - lo) \div 2
             IN found(lo, hi) = IF lo + 1 >= hi THEN lo
                                ELSE IF chunk_offsets_[mid] <= idx THEN f[<<mid, hi>>]
                                ELSE f[<<lo, mid>>]
  <2>1. range[1] \in 1 .. Len(chunks_) /\ range[2] \in 1 .. Len(chunks_) + 1
      BY DEF Ranges
  <2> HIDE DEF f
  <2> QED BY <1>1, <2>1
<1>3. IsSearch(f, idx)
    BY <1>2 DEF IsSearch
<1> QED BY <1>3

\* The index lies in the chunk that is found.
LEMMA Resolves ==
    ASSUME ChunksInv, NEW idx \in Nat
    PROVE  \E c \in 1 .. Len(chunks_) :
                /\ IsTheChunk(1, Len(chunks_) + 1, idx, c)
                /\ resolveIndex(idx) = <<c, idx - chunk_offsets_[c]>>
<1> DEFINE body(f) == [range \in Ranges |->
                        LET lo  == range[1]
                            hi  == range[2]
                            mid == lo + (hi - lo) \div 2
                        IN IF lo + 1 >= hi THEN lo
                           ELSE IF chunk_offsets_[mid] <= idx THEN f[<<mid, hi>>]
                           ELSE f[<<lo, mid>>]]
           search == CHOOSE f : f = body(f)
           c == search[<<1, Len(chunks_) + 1>>]
<1>1. \E f : f = body(f)
    BY SearchExists DEF IsSearch
<1>2. search = body(search)
    BY <1>1
<1>3. resolveIndex(idx) = <<c, idx - chunk_offsets_[c]>>
    BY DEF resolveIndex, Ranges
<1>4. IsTheChunk(1, Len(chunks_) + 1, idx, c)
  <2> HIDE DEF search
  <2>1. IsSearch(search, idx)
      BY <1>2 DEF IsSearch
  <2> QED BY <2>1, SearchFinds
<1> HIDE DEF c
<1>5. c \in 1 .. Len(chunks_)
    BY <1>4, ChunkFacts DEF IsTheChunk
<1> QED BY <1>3, <1>4, <1>5

LEMMA ResolvesWithin ==
    ASSUME ChunksInv, NEW idx \in Nat, idx < total_capacity_
    PROVE  \E c \in 1 .. Len(chunks_) : \E k \in 0 .. chunks_[c] - 1 :
                resolveIndex(idx) = <<c, k>> /\ idx = chunk_offsets_[c] + k
<1>1. PICK c \in 1 .. Len(chunks_) :
            /\ IsTheChunk(1, Len(chunks_) + 1, idx, c)
            /\ resolveIndex(idx) = <<c, idx - chunk_offsets_[c]>>
    BY Resolves
<1>2. chunk_offsets_[c] \in Nat /\ chunks_[c] \in Nat \ {0} /\ Len(chunks_) \in Nat
    BY ChunkFacts
<1>3. chunk_offsets_[c] <= idx
    BY <1>1 DEF IsTheChunk, ChunksInv
<1>4. idx < chunk_offsets_[c] + chunks_[c]
  <2>1. CASE c = Len(chunks_)
      BY <2>1 DEF ChunksInv
  <2>2. CASE c # Len(chunks_)
    <3>1. c + 1 \in c + 1 .. (Len(chunks_) + 1) - 1 /\ c + 1 \in 1 .. Len(chunks_)
        BY <1>2, <2>2
    <3>2. idx < chunk_offsets_[c + 1]
        BY <1>1, <3>1 DEF IsTheChunk
    <3>3. chunk_offsets_[c + 1] = chunk_offsets_[c] + chunks_[c]
        BY <3>1 DEF ChunksInv
    <3> QED BY <3>2, <3>3
  <2> QED BY <2>1, <2>2
<1>5. /\ idx - chunk_offsets_[c] \in 0 .. chunks_[c] - 1
      /\ idx = chunk_offsets_[c] + (idx - chunk_offsets_[c])
    BY <1>2, <1>3, <1>4
<1> QED BY <1>1, <1>5

LEMMA NodeIndex ==
    ASSUME ChunksInv, NEW c \in 1 .. Len(chunks_), NEW k \in 0 .. chunks_[c] - 1
    PROVE  /\ chunk_offsets_[c] + k \in Nat
           /\ chunk_offsets_[c] + k < total_capacity_
           /\ resolveIndex(chunk_offsets_[c] + k) = <<c, k>>
<1> DEFINE idx == chunk_offsets_[c] + k
<1>1. /\ chunk_offsets_[c] \in Nat /\ chunks_[c] \in Nat \ {0}
      /\ Len(chunks_) \in 1 .. Len(chunks_) /\ Len(chunks_) \in Nat
      /\ chunk_offsets_[Len(chunks_)] \in Nat /\ chunks_[Len(chunks_)] \in Nat
    BY ChunkFacts
<1>2. idx \in Nat /\ idx < chunk_offsets_[c] + chunks_[c]
    BY <1>1
<1>3. idx < total_capacity_
  <2>1. CASE c = Len(chunks_)
      BY <1>2, <2>1 DEF ChunksInv
  <2>2. CASE c < Len(chunks_)
    <3>1. /\ chunk_offsets_[c] + chunks_[c] <= chunk_offsets_[Len(chunks_)]
          /\ total_capacity_ = chunk_offsets_[Len(chunks_)] + chunks_[Len(chunks_)]
          /\ total_capacity_ \in Nat
        BY <1>1, <2>2 DEF ChunksInv
    <3> QED BY <1>1, <1>2, <3>1
  <2> QED BY <1>1, <2>1, <2>2
<1>4. IsTheChunk(1, Len(chunks_) + 1, idx, c)
  <2>1. ASSUME NEW d \in c + 1 .. (Len(chunks_) + 1) - 1
        PROVE  idx < chunk_offsets_[d]
    <3>1. d \in 1 .. Len(chunks_) /\ c < d
        BY <1>1
    <3>2. chunk_offsets_[c] + chunks_[c] <= chunk_offsets_[d]
        BY <3>1 DEF ChunksInv
    <3>3. chunk_offsets_[d] \in Nat
        BY <3>1, ChunkFacts
    <3> QED BY <1>1, <1>2, <3>2, <3>3
  <2>2. c \in 1 .. (Len(chunks_) + 1) - 1 /\ chunk_offsets_[c] <= idx
      BY <1>1
  <2> QED BY <2>1, <2>2 DEF IsTheChunk
<1> HIDE DEF idx
<1>5. PICK d \in 1 .. Len(chunks_) :
            /\ IsTheChunk(1, Len(chunks_) + 1, idx, d)
            /\ resolveIndex(idx) = <<d, idx - chunk_offsets_[d]>>
    BY <1>2, Resolves
<1>6. 1 \in 1 .. Len(chunks_) /\ Len(chunks_) + 1 \in 1 .. Len(chunks_) + 1
    BY <1>1
<1>7. d = c
    BY <1>2, <1>4, <1>5, <1>6, OneChunk
<1>8. idx - chunk_offsets_[c] = k
    BY <1>1 DEF idx
<1> QED BY <1>2, <1>3, <1>5, <1>7, <1>8 DEF idx

\* Linear search finds the chunk of a node.
LEMMA IndexMeaning ==
    ASSUME ChunksInv, NEW c \in 1 .. Len(chunks_), NEW k \in 0 .. chunks_[c] - 1
    PROVE  IndexOf(<<c, k>>) = chunk_offsets_[c] + k
<1> DEFINE n == <<c, k>>
<1>1. DOMAIN chunks_ = 1 .. Len(chunks_)
    BY ChunkFacts
<1>2. n \in Chunk(c, chunks_[c])
    BY DEF Chunk
<1>3. \A d \in DOMAIN chunks_ : n \in Chunk(d, chunks_[d]) => d = c
    BY DEF Chunk
<1>4. ChunkOf(n) = c
  <2> HIDE DEF n
  <2> QED BY <1>1, <1>2, <1>3 DEF ChunkOf
<1>5. n[2] = k
    OBVIOUS
<1> QED BY <1>4, <1>5 DEF IndexOf

LEMMA ChunksImplyIndices == ChunksInv => IndicesAgree
<1> SUFFICES ASSUME ChunksInv PROVE IndicesAgree
    OBVIOUS
<1>1. ASSUME NEW n \in Nodes
      PROVE  InRange(IndexOf(n)) /\ resolveIndex(IndexOf(n)) = n
  <2>1. PICK c \in 1 .. Len(chunks_) : \E k \in 0 .. chunks_[c] - 1 : n = <<c, k>>
      BY NodesMeaning
  <2>2. PICK k \in 0 .. chunks_[c] - 1 : n = <<c, k>>
      BY <2>1
  <2>3. IndexOf(n) = chunk_offsets_[c] + k
      BY <2>2, IndexMeaning
  <2> QED BY <2>2, <2>3, NodeIndex DEF InRange
<1>2. ASSUME NEW idx \in 0 .. total_capacity_ - 1
      PROVE  resolveIndex(idx) \in Nodes /\ IndexOf(resolveIndex(idx)) = idx
  <2>1. idx \in Nat /\ idx < total_capacity_
      BY DEF ChunksInv
  <2>2. PICK c \in 1 .. Len(chunks_) : \E k \in 0 .. chunks_[c] - 1 :
                resolveIndex(idx) = <<c, k>> /\ idx = chunk_offsets_[c] + k
      BY <2>1, ResolvesWithin
  <2>3. PICK k \in 0 .. chunks_[c] - 1 : resolveIndex(idx) = <<c, k>> /\ idx = chunk_offsets_[c] + k
      BY <2>2
  <2> QED BY <2>3, NodesMeaning, IndexMeaning
<1> QED BY <1>1, <1>2 DEF IndicesAgree

-----------------------------------------------------------------------------
(* The free list, as the sequence of its nodes.                             *)

\* The walk from `head' along `links' meets the nodes of list, each once, and
\* these are the free ones.
FreeListIs(list, nodes, head, links, free) ==
    /\ list \in Seq(nodes)
    /\ Len(list) = 0 => head = NULL
    /\ Len(list) # 0 => head = list[1] /\ links[list[Len(list)]] = NULL
    /\ \A k \in 1 .. Len(list) - 1 : links[list[k]] = list[k + 1]
    /\ \A j, k \in 1 .. Len(list) : list[j] = list[k] => j = k
    /\ \A n \in nodes : free[n] <=> \E k \in 1 .. Len(list) : list[k] = n

PoolInv ==
    /\ ChunksInv
    /\ next \in [Nodes -> Nodes \cup {NULL}]
    /\ is_free \in [Nodes -> BOOLEAN]
    /\ live \subseteq Nodes /\ IsFiniteSet(live)
    /\ \A n \in Nodes : is_free[n] <=> n \notin live
    /\ \E list : /\ FreeListIs(list, Nodes, free_list_head_, next, is_free)
                 /\ Cardinality(live) + Len(list) = total_capacity_

\* The head is taken.
LEMMA TakeKeepsList ==
    ASSUME NEW nodes, NULL \notin nodes,
           NEW links \in [nodes -> nodes \cup {NULL}], NEW free \in [nodes -> BOOLEAN],
           NEW head, head # NULL,
           NEW list, FreeListIs(list, nodes, head, links, free)
    PROVE  /\ head \in nodes /\ free[head] /\ Len(list) \in Nat \ {0}
           /\ \E list2 : /\ FreeListIs(list2, nodes, links[head],
                                       [links EXCEPT ![head] = NULL],
                                       [free EXCEPT ![head] = FALSE])
                         /\ Len(list2) = Len(list) - 1
<1> DEFINE N == Len(list)
           rest == [k \in 1 .. N - 1 |-> list[k + 1]]
           links2 == [links EXCEPT ![head] = NULL]
           free2 == [free EXCEPT ![head] = FALSE]
<1>1. /\ N \in Nat \ {0} /\ head = list[1] /\ links[list[N]] = NULL
      /\ \A k \in 1 .. N : list[k] \in nodes
      /\ \A k \in 1 .. N - 1 : links[list[k]] = list[k + 1]
      /\ \A j, k \in 1 .. N : list[j] = list[k] => j = k
      /\ \A n \in nodes : free[n] <=> \E k \in 1 .. N : list[k] = n
    BY LenProperties, ElementOfSeq DEF FreeListIs
<1>2. head \in nodes /\ free[head]
    BY <1>1
<1>3. rest \in Seq(nodes) /\ Len(rest) = N - 1
  <2>1. N - 1 \in Nat /\ rest \in [1 .. N - 1 -> nodes]
      BY <1>1
  <2> HIDE DEF rest, N
  <2> QED BY <2>1, IsASeq
<1>4. /\ \A n \in nodes \ {head} : links2[n] = links[n] /\ free2[n] = free[n]
      /\ links2[head] = NULL /\ free2[head] = FALSE
    BY <1>2
<1>5. \A k \in 1 .. N - 1 : rest[k] = list[k + 1]
    OBVIOUS
<1> HIDE DEF rest, N, links2, free2
<1>6. \A k \in 1 .. N - 1 : /\ k + 1 \in 1 .. N /\ rest[k] # head
                            /\ rest[k] \in nodes
    BY <1>1, <1>5
<1>7. ASSUME NEW k \in 1 .. Len(rest) - 1
      PROVE  links2[rest[k]] = rest[k + 1]
  <2>1. k \in 1 .. N - 1 /\ k + 1 \in 1 .. N - 1
      BY <1>1, <1>3
  <2> QED BY <1>1, <1>4, <1>5, <1>6, <2>1
<1>8. Len(rest) = 0 => links[head] = NULL
    BY <1>1, <1>3
<1>9. Len(rest) # 0 => links[head] = rest[1] /\ links2[rest[Len(rest)]] = NULL
  <2>1. Len(rest) # 0 => 1 \in 1 .. N - 1 /\ N - 1 \in 1 .. N - 1 /\ (N - 1) + 1 = N
      BY <1>1, <1>3
  <2> QED BY <1>1, <1>3, <1>4, <1>5, <1>6, <2>1
<1>10. \A j, k \in 1 .. Len(rest) : rest[j] = rest[k] => j = k
  <2>1. ASSUME NEW j \in 1 .. N - 1, NEW k \in 1 .. N - 1, rest[j] = rest[k]
        PROVE  j = k
    <3>1. list[j + 1] = list[k + 1] /\ j + 1 \in 1 .. N /\ k + 1 \in 1 .. N
        BY <1>5, <1>6, <2>1
    <3>2. j + 1 = k + 1
        BY <1>1, <3>1
    <3> QED BY <1>1, <3>2
  <2> QED BY <1>3, <2>1
<1>11. ASSUME NEW n \in nodes
       PROVE  free2[n] <=> \E k \in 1 .. Len(rest) : rest[k] = n
  <2>1. CASE n = head
      BY <1>3, <1>4, <1>6, <2>1
  <2>2. CASE n # head
    <3>1. free2[n] <=> \E k \in 1 .. N : list[k] = n
        BY <1>1, <1>4, <2>2
    <3>2. ASSUME NEW k \in 1 .. N, list[k] = n
          PROVE  \E j \in 1 .. N - 1 : rest[j] = n
      <4>1. k # 1
          BY <1>1, <2>2, <3>2
      <4>2. k - 1 \in 1 .. N - 1 /\ (k - 1) + 1 = k
          BY <1>1, <4>1
      <4> QED BY <1>5, <3>2, <4>2
    <3> QED BY <1>3, <1>5, <1>6, <3>1, <3>2
  <2> QED BY <2>1, <2>2
<1>12. FreeListIs(rest, nodes, links[head], links2, free2)
    BY <1>3, <1>7, <1>8, <1>9, <1>10, <1>11 DEF FreeListIs
<1> QED BY <1>1, <1>2, <1>3, <1>12 DEF N, links2, free2

\* A node that is not free is put in front.
BackOnList(list, nodes, head, links, free, ptr) ==
    /\ NULL \notin nodes
    /\ links \in [nodes -> nodes \cup {NULL}]
    /\ free \in [nodes -> BOOLEAN]
    /\ ptr \in nodes
    /\ ~ free[ptr]
    /\ FreeListIs(list, nodes, head, links, free)

OnListOfLength(length, nodes, head, links, free) ==
    \E list : FreeListIs(list, nodes, head, links, free) /\ Len(list) = length

LEMMA FreeKeepsList ==
    ASSUME NEW nodes, NEW links, NEW free, NEW head, NEW ptr, NEW list,
           BackOnList(list, nodes, head, links, free, ptr)
    PROVE  OnListOfLength(Len(list) + 1, nodes, ptr, [links EXCEPT ![ptr] = head],
                          [free EXCEPT ![ptr] = TRUE])
<1> USE DEF BackOnList
<1> DEFINE N == Len(list)
           more == [k \in 1 .. N + 1 |-> IF k = 1 THEN ptr ELSE list[k - 1]]
           links2 == [links EXCEPT ![ptr] = head]
           free2 == [free EXCEPT ![ptr] = TRUE]
<1>1. /\ N \in Nat
      /\ N = 0 => head = NULL
      /\ N # 0 => head = list[1] /\ links[list[N]] = NULL
      /\ \A k \in 1 .. N : list[k] \in nodes
      /\ \A k \in 1 .. N - 1 : links[list[k]] = list[k + 1]
      /\ \A j, k \in 1 .. N : list[j] = list[k] => j = k
      /\ \A n \in nodes : free[n] <=> \E k \in 1 .. N : list[k] = n
    BY LenProperties, ElementOfSeq DEF FreeListIs
<1>2. \A k \in 1 .. N : list[k] # ptr
    BY <1>1
<1>3. more \in Seq(nodes) /\ Len(more) = N + 1
  <2>1. N + 1 \in Nat /\ more \in [1 .. N + 1 -> nodes]
      BY <1>1
  <2> HIDE DEF more, N
  <2> QED BY <2>1, IsASeq
<1>4. /\ \A n \in nodes \ {ptr} : links2[n] = links[n] /\ free2[n] = free[n]
      /\ links2[ptr] = head /\ free2[ptr] = TRUE
    OBVIOUS
<1>5. /\ 1 \in 1 .. N + 1 /\ more[1] = ptr
      /\ \A k \in 1 .. N : k + 1 \in 1 .. N + 1 /\ k + 1 # 1 /\ more[k + 1] = list[k]
    BY <1>1
<1> HIDE DEF more, N, links2, free2
<1>6. ASSUME NEW k \in 1 .. N + 1, k # 1
      PROVE  k - 1 \in 1 .. N /\ (k - 1) + 1 = k /\ more[k] = list[k - 1]
    BY <1>1, <1>5, <1>6
<1>7. ASSUME NEW k \in 1 .. Len(more) - 1
      PROVE  links2[more[k]] = more[k + 1]
  <2>1. k \in 1 .. N
      BY <1>1, <1>3
  <2>2. CASE k = 1
      BY <1>1, <1>4, <1>5, <2>1, <2>2
  <2>3. CASE k # 1
    <3>1. /\ k \in 1 .. N + 1 /\ k - 1 \in 1 .. N - 1 /\ (k - 1) + 1 = k
          /\ k - 1 \in 1 .. N
        BY <1>1, <2>1, <2>3
    <3>2. more[k] = list[k - 1] /\ list[k - 1] \in nodes /\ list[k - 1] # ptr
        BY <1>1, <1>2, <1>6, <2>3, <3>1
    <3>3. links[list[k - 1]] = list[k]
        BY <1>1, <3>1
    <3> QED BY <1>4, <1>5, <2>1, <3>2, <3>3
  <2> QED BY <2>2, <2>3
<1>8. Len(more) # 0 /\ links2[more[Len(more)]] = NULL
  <2>1. CASE N = 0
      BY <1>1, <1>3, <1>4, <1>5, <2>1
  <2>2. CASE N # 0
    <3>1. N \in 1 .. N
        BY <1>1, <2>2
    <3>2. more[N + 1] = list[N] /\ list[N] \in nodes /\ list[N] # ptr
        BY <1>1, <1>2, <1>5, <3>1
    <3> QED BY <1>1, <1>3, <1>4, <2>2, <3>2
  <2> QED BY <2>1, <2>2
<1>9. \A j, k \in 1 .. Len(more) : more[j] = more[k] => j = k
  <2>1. ASSUME NEW j \in 1 .. N + 1, NEW k \in 1 .. N + 1, more[j] = more[k]
        PROVE  j = k
    <3>1. CASE j = 1 \/ k = 1
        BY <1>2, <1>5, <1>6, <2>1, <3>1
    <3>2. CASE j # 1 /\ k # 1
      <4>1. j - 1 = k - 1
          BY <1>1, <1>6, <2>1, <3>2
      <4> QED BY <1>1, <4>1
    <3> QED BY <3>1, <3>2
  <2> QED BY <1>3, <2>1
<1>10. ASSUME NEW n \in nodes
       PROVE  free2[n] <=> \E k \in 1 .. Len(more) : more[k] = n
  <2>1. CASE n = ptr
      BY <1>3, <1>4, <1>5, <2>1
  <2>2. CASE n # ptr
    <3>1. free2[n] <=> \E k \in 1 .. N : list[k] = n
        BY <1>1, <1>4, <2>2
    <3>2. ASSUME NEW k \in 1 .. N + 1, more[k] = n
          PROVE  \E j \in 1 .. N : list[j] = n
        BY <1>5, <1>6, <2>2, <3>2
    <3> QED BY <1>3, <1>5, <3>1, <3>2
  <2> QED BY <2>1, <2>2
<1>11. FreeListIs(more, nodes, ptr, links2, free2)
    BY <1>3, <1>5, <1>7, <1>8, <1>9, <1>10 DEF FreeListIs
<1> QED BY <1>3, <1>11 DEF N, links2, free2, OnListOfLength

\* The links of a new chunk, which no other free node precedes.
OnlyChunkFree(c, count, nodes, links, free) ==
    /\ Chunk(c, count) \subseteq nodes
    /\ \A n \in Chunk(c, count) : links[n] = ChunkLinks(c, count, NULL)[n]
    /\ \A n \in nodes : free[n] <=> n \in Chunk(c, count)

LEMMA ChunkIsList ==
    ASSUME NEW c, NEW count \in Nat \ {0}, NEW nodes, NEW links, NEW free,
           OnlyChunkFree(c, count, nodes, links, free)
    PROVE  \E list : FreeListIs(list, nodes, <<c, 0>>, links, free) /\ Len(list) = count
<1> USE DEF OnlyChunkFree
<1> DEFINE list == [k \in 1 .. count |-> <<c, k - 1>>]
<1>1. /\ \A k \in 1 .. count : k - 1 \in 0 .. count - 1
      /\ \A k \in 0 .. count - 1 : k + 1 \in 1 .. count /\ (k + 1) - 1 = k
    OBVIOUS
<1>2. /\ \A k \in 1 .. count : list[k] = <<c, k - 1>> /\ list[k] \in Chunk(c, count)
      /\ \A n \in Chunk(c, count) : \E k \in 1 .. count : list[k] = n
  <2>1. ASSUME NEW n \in Chunk(c, count)
        PROVE  \E k \in 1 .. count : list[k] = n
    <3>1. PICK k \in 0 .. count - 1 : n = <<c, k>>
        BY DEF Chunk
    <3>2. k + 1 \in 1 .. count /\ list[k + 1] = n
        BY <1>1, <3>1
    <3> QED BY <3>2
  <2> QED BY <1>1, <2>1 DEF Chunk
<1>3. list \in Seq(nodes) /\ Len(list) = count
  <2>1. list \in [1 .. count -> nodes]
      BY <1>2
  <2> HIDE DEF list
  <2> QED BY <2>1, IsASeq
<1> HIDE DEF list
<1>4. \A k \in 1 .. count :
        links[list[k]] = IF k < count THEN <<c, k>> ELSE NULL
  <2>1. ASSUME NEW k \in 1 .. count
        PROVE  links[list[k]] = IF k < count THEN <<c, k>> ELSE NULL
    <3>1. links[<<c, k - 1>>] = ChunkLinks(c, count, NULL)[<<c, k - 1>>]
        BY <1>2
    <3>2. <<c, k - 1>> \in Chunk(c, count) /\ (k - 1) + 1 = k
        BY <1>2
    <3>3. ChunkLinks(c, count, NULL)[<<c, k - 1>>] = IF k < count THEN <<c, k>> ELSE NULL
        BY <3>2 DEF ChunkLinks
    <3> QED BY <1>2, <3>1, <3>3
  <2> QED BY <2>1
<1>5. ASSUME NEW k \in 1 .. Len(list) - 1
      PROVE  links[list[k]] = list[k + 1]
  <2>1. k \in 1 .. count /\ k < count /\ k + 1 \in 1 .. count /\ (k + 1) - 1 = k
      BY <1>3
  <2>2. links[list[k]] = <<c, k>>
      BY <1>4, <2>1
  <2>3. list[k + 1] = <<c, (k + 1) - 1>>
      BY <1>2, <2>1
  <2> QED BY ONLY <2>1, <2>2, <2>3
<1>6. Len(list) # 0 /\ <<c, 0>> = list[1] /\ links[list[Len(list)]] = NULL
  <2>1. 1 \in 1 .. count /\ 1 - 1 = 0 /\ count \in 1 .. count /\ ~ (count < count)
      OBVIOUS
  <2> QED BY <1>2, <1>3, <1>4, <2>1
<1>7. \A j, k \in 1 .. Len(list) : list[j] = list[k] => j = k
  <2>1. ASSUME NEW j \in 1 .. count, NEW k \in 1 .. count, list[j] = list[k]
        PROVE  j = k
    <3>1. j - 1 = k - 1
        BY <1>2, <2>1
    <3> QED BY <3>1
  <2> QED BY <1>3, <2>1
<1>8. \A n \in nodes : free[n] <=> \E k \in 1 .. Len(list) : list[k] = n
    BY <1>2, <1>3
<1> QED BY <1>3, <1>5, <1>6, <1>7, <1>8 DEF FreeListIs

LEMMA InitPool == Init => PoolInv
<1> SUFFICES ASSUME Init PROVE PoolInv
    OBVIOUS
<1> USE DEF Init
<1> DEFINE size == InitialCapacity
<1>1. /\ size \in 1 .. MaxChunkSize + InitialCapacity /\ size \in Nat \ {0}
      /\ 1 \in 1 .. MaxChunks
    BY MemPoolAssumption
<1>2. /\ chunks_ = <<size>> /\ chunk_offsets_ = <<0>> /\ total_capacity_ = size
      /\ Len(chunks_) = 1 /\ Len(chunk_offsets_) = 1
      /\ chunks_[1] = size /\ chunk_offsets_[1] = 0
      /\ DOMAIN chunks_ = {1} /\ 1 .. 1 = {1}
    OBVIOUS
<1>3. ChunksInv
  <2>1. /\ chunks_ \in Seq(1 .. MaxChunkSize + InitialCapacity)
        /\ chunk_offsets_ \in Seq(Nat)
      BY <1>1
  <2> HIDE DEF Init
  <2>2. \A c \in 1 .. 1 : c = 1 /\ c + 1 \notin 1 .. 1
      OBVIOUS
  <2>3. \A c, d \in 1 .. 1 : ~ (c < d)
      OBVIOUS
  <2> QED BY <1>1, <1>2, <2>1, <2>2, <2>3 DEF ChunksInv
<1>4. Nodes = Chunk(1, size)
    BY <1>2 DEF Nodes
<1>5. next \in [Nodes -> Nodes \cup {NULL}]
  <2>1. ASSUME NEW n \in Chunk(1, size)
        PROVE  ChunkLinks(1, size, NULL)[n] \in Chunk(1, size) \cup {NULL}
    <3>1. PICK k \in 0 .. size - 1 : n = <<1, k>>
        BY DEF Chunk
    <3>2. k + 1 < size => k + 1 \in 0 .. size - 1
        BY <1>1
    <3> QED BY <3>1, <3>2 DEF ChunkLinks, Chunk
  <2>2. next = [n \in Chunk(1, size) |-> ChunkLinks(1, size, NULL)[n]]
      BY DEF ChunkLinks
  <2> QED BY <1>4, <2>1, <2>2
<1>6. /\ is_free \in [Nodes -> BOOLEAN] /\ \A n \in Nodes : is_free[n] = TRUE
    BY <1>4
<1>7. PICK list : FreeListIs(list, Nodes, <<1, 0>>, next, is_free) /\ Len(list) = size
  <2>1. OnlyChunkFree(1, size, Nodes, next, is_free)
      BY <1>4, <1>6 DEF OnlyChunkFree
  <2> HIDE DEF size, Init
  <2> QED BY <1>1, <2>1, ChunkIsList
<1>8. /\ Cardinality(live) = 0 /\ IsFiniteSet(live) /\ live \subseteq Nodes
      /\ \A n \in Nodes : is_free[n] <=> n \notin live
    BY <1>6, FS_EmptySet
<1>9. \E l : /\ FreeListIs(l, Nodes, free_list_head_, next, is_free)
             /\ Cardinality(live) + Len(l) = total_capacity_
    BY <1>1, <1>7, <1>8
<1> HIDE DEF size, Init
<1> QED BY <1>3, <1>5, <1>6, <1>8, <1>9 DEF PoolInv

\* The state after the head of a free list of the nodes there then are is taken.
LEMMA TakeStep ==
    ASSUME ChunksInv', NULL \notin Nodes',
           NEW nodes, nodes = Nodes', live \subseteq nodes, IsFiniteSet(live),
           NEW links \in [nodes -> nodes \cup {NULL}], NEW free \in [nodes -> BOOLEAN],
           \A n \in nodes : free[n] <=> n \notin live,
           NEW head, head # NULL,
           NEW list, FreeListIs(list, nodes, head, links, free),
           Cardinality(live) + Len(list) = total_capacity_',
           TakeHead(head, links, free)
    PROVE  PoolInv' /\ head \in nodes /\ head \notin live
<1>1. /\ head \in nodes /\ free[head] /\ Len(list) \in Nat \ {0}
      /\ \E list2 : /\ FreeListIs(list2, nodes, links[head],
                                  [links EXCEPT ![head] = NULL],
                                  [free EXCEPT ![head] = FALSE])
                    /\ Len(list2) = Len(list) - 1
  <2>1. NULL \notin nodes
      OBVIOUS
  <2> QED BY ONLY <2>1, links \in [nodes -> nodes \cup {NULL}],
                  free \in [nodes -> BOOLEAN], head # NULL,
                  FreeListIs(list, nodes, head, links, free), TakeKeepsList
<1>2. PICK list2 : /\ FreeListIs(list2, nodes, links[head],
                                 [links EXCEPT ![head] = NULL],
                                 [free EXCEPT ![head] = FALSE])
                   /\ Len(list2) = Len(list) - 1
    BY <1>1
<1>3. /\ free_list_head_' = links[head] /\ next' = [links EXCEPT ![head] = NULL]
      /\ is_free' = [free EXCEPT ![head] = FALSE] /\ live' = live \cup {head}
    BY DEF TakeHead
<1>4. head \notin live
    BY <1>1
<1>5. /\ IsFiniteSet(live') /\ Cardinality(live') = Cardinality(live) + 1
      /\ Cardinality(live) \in Nat
    BY <1>3, <1>4, FS_AddElement, FS_CardinalityType
<1>6. Cardinality(live') + Len(list2) = total_capacity_'
    BY <1>1, <1>2, <1>5
<1>7. FreeListIs(list2, Nodes', free_list_head_', next', is_free')
    BY <1>2, <1>3
<1>8. /\ next' \in [nodes -> nodes \cup {NULL}] /\ is_free' \in [nodes -> BOOLEAN]
      /\ live' \subseteq nodes /\ \A n \in nodes : is_free'[n] <=> n \notin live'
    BY <1>1, <1>3
<1>9. \E l : /\ FreeListIs(l, Nodes', free_list_head_', next', is_free')
             /\ Cardinality(live') + Len(l) = total_capacity_'
    BY <1>6, <1>7
<1> QED BY <1>1, <1>4, <1>5, <1>8, <1>9 DEF PoolInv

\* What allocate does: a node that was not out is handed out.
LEMMA AllocateStep ==
    ASSUME PoolInv, allocate
    PROVE  /\ PoolInv'
           /\ \E p \in Objects : /\ p \notin live /\ live' = live \cup {p}
                                 /\ reply' = Answer("pointer", p)
<1>1. /\ ChunksInv /\ NULL \notin Nodes /\ Nodes \subseteq Objects
      /\ next \in [Nodes -> Nodes \cup {NULL}] /\ is_free \in [Nodes -> BOOLEAN]
      /\ live \subseteq Nodes /\ IsFiniteSet(live)
      /\ \A n \in Nodes : is_free[n] <=> n \notin live
    BY NodesAreObjects DEF PoolInv
<1>2. PICK list : /\ FreeListIs(list, Nodes, free_list_head_, next, is_free)
                  /\ Cardinality(live) + Len(list) = total_capacity_
    BY DEF PoolInv
<1>3. CASE /\ free_list_head_ # NULL
           /\ TakeHead(free_list_head_, next, is_free)
           /\ UNCHANGED <<chunks_, chunk_offsets_, total_capacity_>>
  <2>1. /\ chunks_' = chunks_ /\ chunk_offsets_' = chunk_offsets_
        /\ total_capacity_' = total_capacity_
      BY <1>3
  <2>2. ChunksInv' /\ Nodes' = Nodes
      BY <1>1, <2>1 DEF ChunksInv, Nodes
  <2>3. PoolInv' /\ free_list_head_ \in Nodes /\ free_list_head_ \notin live
    <3> DEFINE nodes == Nodes
               links == next
               free == is_free
               head == free_list_head_
    <3>1. /\ ChunksInv' /\ NULL \notin Nodes' /\ nodes = Nodes'
          /\ live \subseteq nodes /\ IsFiniteSet(live)
          /\ links \in [nodes -> nodes \cup {NULL}] /\ free \in [nodes -> BOOLEAN]
          /\ \A n \in nodes : free[n] <=> n \notin live
          /\ head # NULL /\ FreeListIs(list, nodes, head, links, free)
          /\ Cardinality(live) + Len(list) = total_capacity_'
          /\ TakeHead(head, links, free)
        BY <1>1, <1>2, <1>3, <2>1, <2>2
    <3> HIDE DEF nodes, links, free, head
    <3>2. PoolInv' /\ head \in nodes /\ head \notin live
        BY ONLY <3>1, TakeStep
    <3> QED BY <3>2 DEF nodes, head
  <2>4. live' = live \cup {free_list_head_} /\ reply' = Answer("pointer", free_list_head_)
      BY <1>3 DEF TakeHead
  <2> QED BY <1>1, <2>3, <2>4
<1>4. CASE free_list_head_ = NULL /\ GrowAndTake
  <2> DEFINE c == Len(chunks_) + 1
             count == GrowthSize
             nodes == Nodes \cup Chunk(c, count)
             links == [n \in nodes |-> IF n \in Nodes THEN next[n]
                                       ELSE ChunkLinks(c, count, NULL)[n]]
             free == [n \in nodes |-> IF n \in Nodes THEN is_free[n] ELSE TRUE]
             head == <<c, 0>>
  <2>1. /\ Len(chunks_) < MaxChunks /\ chunks_' = Append(chunks_, count)
        /\ chunk_offsets_' = Append(chunk_offsets_, total_capacity_)
        /\ total_capacity_' = total_capacity_ + count
        /\ TakeHead(head, links, free)
      BY <1>4 DEF GrowAndTake, OffsetOfNewChunk
  <2>2. /\ count \in Nat \ {0} /\ count \in 1 .. MaxChunkSize + InitialCapacity
        /\ total_capacity_ \in Nat
      BY <1>1, ChunkFacts, MemPoolAssumption DEF GrowthSize, ChunksInv
  <2>3. Len(list) = 0
    <3>1. list \in Seq(Nodes) /\ (Len(list) # 0 => free_list_head_ = list[1])
        BY <1>2 DEF FreeListIs
    <3>2. Len(list) # 0 => list[1] \in Nodes
        BY <3>1, LenProperties, ElementOfSeq
    <3> QED BY <1>1, <1>4, <3>1, <3>2
  <2>4. \A n \in Nodes : ~ is_free[n]
      BY <1>2, <2>3 DEF FreeListIs
  <2> HIDE DEF count, c
  <2>5. /\ c \in Nat \ {0} /\ c = Len(chunks_) + 1 /\ Len(chunks_) \in Nat \ {0}
        /\ \A d \in 1 .. Len(chunks_) : d # c
        /\ 1 .. c = (1 .. Len(chunks_)) \cup {c}
      BY <1>1, ChunkFacts DEF c
  <2>6. /\ Len(chunks_') = c /\ chunks_'[c] = count
        /\ \A d \in 1 .. Len(chunks_) : chunks_'[d] = chunks_[d]
        /\ chunks_' \in Seq(1 .. MaxChunkSize + InitialCapacity)
        /\ DOMAIN chunks_' = 1 .. c
    <3>1. chunks_ \in Seq(1 .. MaxChunkSize + InitialCapacity)
        BY <1>1 DEF ChunksInv
    <3>2. /\ chunks_' \in Seq(1 .. MaxChunkSize + InitialCapacity)
          /\ Len(chunks_') = Len(chunks_) + 1
          /\ \A i \in 1 .. Len(chunks_) : chunks_'[i] = chunks_[i]
          /\ chunks_'[Len(chunks_) + 1] = count
        BY ONLY <2>1, <2>2, <3>1, AppendProperties
    <3> QED BY <2>5, <3>2, LenProperties
  <2>7. /\ Len(chunk_offsets_') = c /\ chunk_offsets_'[c] = total_capacity_
        /\ \A d \in 1 .. Len(chunks_) : chunk_offsets_'[d] = chunk_offsets_[d]
        /\ chunk_offsets_' \in Seq(Nat)
    <3>1. chunk_offsets_ \in Seq(Nat) /\ Len(chunk_offsets_) = Len(chunks_)
        BY <1>1 DEF ChunksInv
    <3>2. /\ chunk_offsets_' \in Seq(Nat)
          /\ Len(chunk_offsets_') = Len(chunk_offsets_) + 1
          /\ \A i \in 1 .. Len(chunk_offsets_) : chunk_offsets_'[i] = chunk_offsets_[i]
          /\ chunk_offsets_'[Len(chunk_offsets_) + 1] = total_capacity_
        BY ONLY <2>1, <2>2, <3>1, AppendProperties
    <3> QED BY <2>5, <3>1, <3>2
  <2>8. ChunksInv'
    <3>1. \A d \in 1 .. Len(chunks_) : chunk_offsets_[d] + chunks_[d] <= total_capacity_
      <4>1. ASSUME NEW d \in 1 .. Len(chunks_)
            PROVE  chunk_offsets_[d] + chunks_[d] <= total_capacity_
        <5>1. /\ total_capacity_ = chunk_offsets_[Len(chunks_)] + chunks_[Len(chunks_)]
              /\ d < Len(chunks_) => chunk_offsets_[d] + chunks_[d]
                                        <= chunk_offsets_[Len(chunks_)]
            BY <1>1, <2>5 DEF ChunksInv
        <5>2. /\ chunk_offsets_[d] \in Nat /\ chunks_[d] \in Nat
              /\ chunk_offsets_[Len(chunks_)] \in Nat /\ chunks_[Len(chunks_)] \in Nat
            BY <1>1, <2>5, ChunkFacts
        <5> QED BY <2>5, <5>1, <5>2
      <4> QED BY <4>1
    <3>2. ASSUME NEW d \in 1 .. c, d + 1 \in 1 .. c
          PROVE  chunk_offsets_'[d + 1] = chunk_offsets_'[d] + chunks_'[d]
      <4>1. d \in 1 .. Len(chunks_)
          BY <2>5, <3>2
      <4>2. CASE d + 1 = c
        <5>1. d = Len(chunks_)
            BY <2>5, <4>2
        <5>2. total_capacity_ = chunk_offsets_[d] + chunks_[d]
            BY <1>1, <5>1 DEF ChunksInv
        <5> QED BY <2>6, <2>7, <4>1, <4>2, <5>2
      <4>3. CASE d + 1 # c
        <5>1. d + 1 \in 1 .. Len(chunks_)
            BY <2>5, <3>2, <4>3
        <5>2. chunk_offsets_[d + 1] = chunk_offsets_[d] + chunks_[d]
            BY <1>1, <4>1, <5>1 DEF ChunksInv
        <5> QED BY <2>6, <2>7, <4>1, <5>1, <5>2
      <4> QED BY <4>2, <4>3
    <3>3. ASSUME NEW d \in 1 .. c, NEW e \in 1 .. c, d < e
          PROVE  chunk_offsets_'[d] + chunks_'[d] <= chunk_offsets_'[e]
      <4>1. d \in 1 .. Len(chunks_)
          BY <2>5, <3>3
      <4>2. CASE e = c
          BY <2>6, <2>7, <3>1, <4>1, <4>2
      <4>3. CASE e # c
        <5>1. e \in 1 .. Len(chunks_)
            BY <2>5, <4>3
        <5>2. chunk_offsets_[d] + chunks_[d] <= chunk_offsets_[e]
            BY <1>1, <3>3, <4>1, <5>1 DEF ChunksInv
        <5> QED BY <2>6, <2>7, <4>1, <5>1, <5>2
      <4> QED BY <4>2, <4>3
    <3>4. /\ c \in 1 .. MaxChunks /\ total_capacity_ + count \in Nat
          /\ chunk_offsets_'[1] = 0
      <4>1. 1 \in 1 .. Len(chunks_) /\ chunk_offsets_[1] = 0
          BY <1>1, <2>5 DEF ChunksInv
      <4> QED BY <2>1, <2>2, <2>5, <2>7, <4>1, MemPoolAssumption
    <3> QED BY <2>1, <2>6, <2>7, <3>2, <3>3, <3>4 DEF ChunksInv
  <2>9. Nodes' = nodes /\ Nodes' \subseteq Objects /\ NULL \notin Nodes'
    <3>1. Nodes' = UNION {Chunk(d, chunks_'[d]) : d \in 1 .. c}
        BY <2>6 DEF Nodes
    <3>2. Nodes = UNION {Chunk(d, chunks_[d]) : d \in 1 .. Len(chunks_)}
        BY <1>1, ChunkFacts DEF Nodes
    <3>3. \A d \in 1 .. Len(chunks_) : Chunk(d, chunks_'[d]) = Chunk(d, chunks_[d])
        BY <2>6
    <3>4. Nodes' = nodes
        BY <2>5, <2>6, <3>1, <3>2, <3>3
    <3>5. (ChunksInv => Nodes \subseteq Objects /\ NULL \notin Nodes)'
        BY NodesAreObjects, PTL
    <3> QED BY <2>8, <3>4, <3>5
  <2>10. ASSUME NEW n \in Chunk(c, count)
         PROVE  /\ n \notin Nodes
                /\ ChunkLinks(c, count, NULL)[n] \in nodes \cup {NULL}
    <3>1. PICK k \in 0 .. count - 1 : n = <<c, k>>
        BY DEF Chunk
    <3>2. n \notin Nodes
        BY <1>1, <2>5, <3>1, NodesMeaning
    <3>3. k + 1 < count => k + 1 \in 0 .. count - 1
        BY <2>2
    <3> QED BY <3>1, <3>2, <3>3 DEF ChunkLinks, Chunk
  <2>11. PICK list2 : FreeListIs(list2, nodes, head, links, free) /\ Len(list2) = count
    <3>1. OnlyChunkFree(c, count, nodes, links, free)
        BY <2>4, <2>10 DEF OnlyChunkFree
    <3> HIDE DEF nodes, links, free
    <3> QED BY <2>2, <3>1, ChunkIsList
  <2>12. PoolInv' /\ head \in nodes /\ head \notin live
    <3>1. /\ ChunksInv' /\ NULL \notin Nodes' /\ nodes = Nodes'
          /\ live \subseteq nodes /\ IsFiniteSet(live)
        BY <1>1, <2>8, <2>9
    <3>2. /\ links \in [nodes -> nodes \cup {NULL}] /\ free \in [nodes -> BOOLEAN]
          /\ \A n \in nodes : free[n] <=> n \notin live
        BY <1>1, <2>10
    <3>3. head # NULL /\ Cardinality(live) + Len(list2) = total_capacity_'
      <4>1. head \in Objects
        <5>1. 0 \in 0 .. count - 1
            BY <2>2
        <5>2. head \in nodes
            BY <5>1 DEF Chunk
        <5> QED BY <2>9, <5>2
      <4>2. head # NULL
          BY <4>1, MemPoolAssumption
      <4>3. Cardinality(live) \in Nat
          BY <1>1, FS_CardinalityType
      <4>4. Cardinality(live) + Len(list2) = total_capacity_'
        <5>1. Cardinality(live) + 0 = total_capacity_
            BY <1>2, <2>3
        <5>2. Len(list2) = count /\ total_capacity_' = total_capacity_ + count
            BY <2>1, <2>11
        <5> QED BY ONLY <2>2, <4>3, <5>1, <5>2
      <4> QED BY <4>2, <4>4
    <3> HIDE DEF nodes, links, free, head
    <3> QED BY ONLY <2>1, <2>11, <3>1, <3>2, <3>3, TakeStep
  <2>13. head \in Objects
      BY <2>9, <2>12
  <2>14. live' = live \cup {head} /\ reply' = Answer("pointer", head)
      BY <2>1 DEF TakeHead
  <2> QED BY <2>12, <2>13, <2>14
<1> QED BY <1>3, <1>4 DEF allocate

-----------------------------------------------------------------------------
(* Giving back, and looking up.                                             *)

\* What deallocate does: the node was out and goes back, or is refused.
LEMMA DeallocateStep ==
    ASSUME PoolInv, NEW ptr \in Nodes \cup {Foreign, NULL}, deallocateImpl(ptr)
    PROVE  /\ PoolInv'
           /\ \/ /\ ptr \in Objects /\ ptr \in live /\ live' = live \ {ptr}
                 /\ reply' = Answer("none", ptr)
              \/ /\ ptr \notin live \cup {NULL} /\ live' = live
                 /\ \E why \in {"double free", "not in pool"} : reply' = Answer(why, ptr)
              \/ /\ live' = live /\ reply' = Answer("none", NULL)
<1>1. /\ ChunksInv /\ NULL \notin Nodes /\ Nodes \subseteq Objects
      /\ next \in [Nodes -> Nodes \cup {NULL}] /\ is_free \in [Nodes -> BOOLEAN]
      /\ live \subseteq Nodes /\ IsFiniteSet(live)
      /\ \A n \in Nodes : is_free[n] <=> n \notin live
    BY NodesAreObjects DEF PoolInv
<1>2. PICK list : /\ FreeListIs(list, Nodes, free_list_head_, next, is_free)
                  /\ Cardinality(live) + Len(list) = total_capacity_
    BY DEF PoolInv
<1>3. /\ chunks_' = chunks_ /\ chunk_offsets_' = chunk_offsets_
      /\ total_capacity_' = total_capacity_
      /\ reply' = Answer(IF ptr = NULL THEN "none" ELSE Refusal(ptr), ptr)
    BY DEF deallocateImpl
<1>4. ChunksInv' /\ Nodes' = Nodes
    BY <1>1, <1>3 DEF ChunksInv, Nodes
<1>5. CASE ptr # NULL /\ Refusal(ptr) = "none"
  <2>1. ptr \in Nodes /\ ~ is_free[ptr]
      BY <1>5 DEF Refusal
  <2>2. /\ next' = [next EXCEPT ![ptr] = free_list_head_] /\ free_list_head_' = ptr
        /\ is_free' = [is_free EXCEPT ![ptr] = TRUE] /\ live' = live \ {ptr}
      BY <1>5 DEF deallocateImpl
  <2>3. ptr \in live
      BY <1>1, <2>1
  <2>4. PICK list2 : /\ FreeListIs(list2, Nodes', free_list_head_', next', is_free')
                     /\ Len(list2) = Len(list) + 1
    <3> DEFINE nodes == Nodes
               links == next
               free == is_free
               head == free_list_head_
    <3>1. /\ NULL \notin nodes /\ links \in [nodes -> nodes \cup {NULL}]
          /\ free \in [nodes -> BOOLEAN] /\ ptr \in nodes /\ ~ free[ptr]
          /\ FreeListIs(list, nodes, head, links, free)
        BY <1>1, <1>2, <2>1
    <3>2. /\ Nodes' = nodes /\ free_list_head_' = ptr
          /\ next' = [links EXCEPT ![ptr] = head]
          /\ is_free' = [free EXCEPT ![ptr] = TRUE]
        BY <1>4, <2>2
    <3> HIDE DEF nodes, links, free, head
    <3>3. \E list2 : /\ FreeListIs(list2, nodes, ptr, [links EXCEPT ![ptr] = head],
                                   [free EXCEPT ![ptr] = TRUE])
                     /\ Len(list2) = Len(list) + 1
      <4>1. BackOnList(list, nodes, head, links, free, ptr)
          BY ONLY <3>1 DEF BackOnList
      <4>2. OnListOfLength(Len(list) + 1, nodes, ptr, [links EXCEPT ![ptr] = head],
                           [free EXCEPT ![ptr] = TRUE])
          BY ONLY <4>1, FreeKeepsList
      <4> QED BY ONLY <4>2 DEF OnListOfLength
    <3> QED BY <3>2, <3>3
  <2>5. /\ IsFiniteSet(live') /\ Cardinality(live') = Cardinality(live) - 1
        /\ Cardinality(live) \in Nat /\ Len(list) \in Nat
      BY <1>1, <1>2, <2>2, <2>3, FS_RemoveElement, FS_CardinalityType, LenProperties
         DEF FreeListIs
  <2>6. Cardinality(live') + Len(list2) = total_capacity_'
      BY <1>2, <1>3, <2>4, <2>5
  <2>7. next' \in [Nodes' -> Nodes' \cup {NULL}]
    <3>1. free_list_head_ \in Nodes \cup {NULL}
      <4>1. /\ list \in Seq(Nodes)
            /\ Len(list) = 0 => free_list_head_ = NULL
            /\ Len(list) # 0 => free_list_head_ = list[1]
          BY <1>2 DEF FreeListIs
      <4>2. Len(list) # 0 => list[1] \in Nodes
          BY <2>5, <4>1, ElementOfSeq
      <4> QED BY <4>1, <4>2
    <3> QED BY <1>1, <1>4, <2>1, <2>2, <3>1
  <2>8. /\ is_free' \in [Nodes' -> BOOLEAN] /\ live' \subseteq Nodes'
        /\ \A n \in Nodes' : is_free'[n] <=> n \notin live'
      BY <1>1, <1>4, <2>1, <2>2
  <2>9. \E l : /\ FreeListIs(l, Nodes', free_list_head_', next', is_free')
               /\ Cardinality(live') + Len(l) = total_capacity_'
      BY <2>4, <2>6
  <2>10. PoolInv'
      BY <1>4, <2>5, <2>7, <2>8, <2>9 DEF PoolInv
  <2> QED BY <1>1, <1>3, <1>5, <2>1, <2>2, <2>3, <2>10
<1>6. CASE ptr = NULL \/ Refusal(ptr) # "none"
  <2>1. /\ next' = next /\ free_list_head_' = free_list_head_ /\ is_free' = is_free
        /\ live' = live
      BY <1>6 DEF deallocateImpl
  <2>2. PoolInv'
    <3>1. \E l : /\ FreeListIs(l, Nodes', free_list_head_', next', is_free')
                 /\ Cardinality(live') + Len(l) = total_capacity_'
        BY <1>2, <1>3, <1>4, <2>1
    <3> QED BY <1>1, <1>4, <2>1, <3>1 DEF PoolInv
  <2>3. CASE ptr = NULL
      BY <1>3, <2>1, <2>2, <2>3
  <2>4. CASE ptr # NULL
    <3>1. /\ Refusal(ptr) \in {"double free", "not in pool"}
          /\ ptr \in Nodes => is_free[ptr]
        BY <1>6, <2>4 DEF Refusal
    <3>2. ptr \notin live
        BY <1>1, <3>1
    <3> QED BY <1>3, <2>1, <2>2, <2>4, <3>1, <3>2
  <2> QED BY <2>3, <2>4
<1> QED BY <1>5, <1>6

\* Whatever leaves the pool alone keeps it sound.
LEMMA PoolUnchanged ==
    ASSUME PoolInv,
           UNCHANGED <<chunks_, chunk_offsets_, total_capacity_, free_list_head_,
                       next, is_free, live>>
    PROVE  PoolInv'
<1>1. /\ chunks_' = chunks_ /\ chunk_offsets_' = chunk_offsets_
      /\ total_capacity_' = total_capacity_ /\ free_list_head_' = free_list_head_
      /\ next' = next /\ is_free' = is_free /\ live' = live
    OBVIOUS
<1>2. ChunksInv' /\ Nodes' = Nodes
    BY <1>1 DEF ChunksInv, Nodes, PoolInv
<1>3. PICK list : /\ FreeListIs(list, Nodes, free_list_head_, next, is_free)
                  /\ Cardinality(live) + Len(list) = total_capacity_
    BY DEF PoolInv
<1>4. \E l : /\ FreeListIs(l, Nodes', free_list_head_', next', is_free')
             /\ Cardinality(live') + Len(l) = total_capacity_'
    BY <1>1, <1>2, <1>3
<1> QED BY <1>1, <1>2, <1>4 DEF PoolInv

\* Every step keeps the pool sound and is a step of the abstract pool.
LEMMA PoolStep ==
    PoolInv /\ [Next]_vars => PoolInv' /\ [Abstract!Next]_<<live, reply>>
<1> SUFFICES ASSUME PoolInv, [Next]_vars
             PROVE  PoolInv' /\ [Abstract!Next]_<<live, reply>>
    OBVIOUS
<1> USE DEF Abstract!Answer, Answer
<1>1. CASE allocate
  <2>1. /\ PoolInv'
        /\ \E p \in Objects : /\ p \notin live /\ live' = live \cup {p}
                              /\ reply' = Answer("pointer", p)
      BY <1>1, AllocateStep
  <2> QED BY <2>1 DEF Abstract!Next, Abstract!Allocate
<1>2. ASSUME NEW ptr \in Nodes \cup {Foreign, NULL}, deallocateImpl(ptr)
      PROVE  PoolInv' /\ Abstract!Next
  <2>1. /\ PoolInv'
        /\ \/ /\ ptr \in Objects /\ ptr \in live /\ live' = live \ {ptr}
              /\ reply' = Answer("none", ptr)
           \/ /\ ptr \notin live \cup {NULL} /\ live' = live
              /\ \E why \in {"double free", "not in pool"} : reply' = Answer(why, ptr)
           \/ /\ live' = live /\ reply' = Answer("none", NULL)
      BY <1>2, DeallocateStep
  <2>2. CASE /\ ptr \in Objects /\ ptr \in live /\ live' = live \ {ptr}
             /\ reply' = Answer("none", ptr)
      BY <2>1, <2>2 DEF Abstract!Next, Abstract!Free
  <2>3. CASE /\ ptr \notin live \cup {NULL} /\ live' = live
             /\ \E why \in {"double free", "not in pool"} : reply' = Answer(why, ptr)
    <3>1. PICK why \in {"double free", "not in pool"} : reply' = Answer(why, ptr)
        BY <2>3
    <3>2. reply'.node = ptr /\ reply'.answer = why
        BY <3>1
    <3>3. Abstract!Refuse
        BY <2>3, <3>2 DEF Abstract!Refuse
    <3> QED BY <2>1, <3>3 DEF Abstract!Next
  <2>4. CASE live' = live /\ reply' = Answer("none", NULL)
      BY <2>1, <2>4 DEF Abstract!Next, Abstract!Other
  <2> QED BY <2>1, <2>2, <2>3, <2>4
<1>3. ASSUME reply'.answer \in {"node", "out of range"},
             UNCHANGED <<chunks_, chunk_offsets_, total_capacity_, free_list_head_,
                         next, is_free, live>>
      PROVE  PoolInv' /\ Abstract!Next
  <2>1. PoolInv'
      BY <1>3, PoolUnchanged
  <2>2. Abstract!Other
      BY <1>3 DEF Abstract!Other
  <2> QED BY <2>1, <2>2 DEF Abstract!Next
<1>4. ASSUME NEW idx \in 0 .. total_capacity_, deallocateIndex(idx)
      PROVE  PoolInv' /\ Abstract!Next
  <2>1. CASE InRange(idx) /\ deallocateImpl(resolveIndex(idx))
    <3>1. resolveIndex(idx) \in Nodes
      <4>1. idx \in 0 .. total_capacity_ - 1
          BY <2>1 DEF InRange, PoolInv, ChunksInv
      <4> QED BY <4>1, ChunksImplyIndices DEF PoolInv, IndicesAgree
    <3>2. PICK ptr \in Nodes : ptr = resolveIndex(idx)
        BY <3>1
    <3>3. deallocateImpl(ptr)
        BY <2>1, <3>2
    <3> QED BY <1>2, <3>3
  <2>2. CASE /\ ~ InRange(idx) /\ reply' = Answer("out of range", NULL)
             /\ UNCHANGED <<chunks_, chunk_offsets_, total_capacity_, free_list_head_,
                            next, is_free, live>>
    <3>1. reply'.answer = "out of range"
        BY <2>2
    <3> QED BY <1>3, <2>2, <3>1
  <2> QED BY <1>4, <2>1, <2>2 DEF deallocateIndex
<1>5. ASSUME NEW idx \in 0 .. total_capacity_, get(idx)
      PROVE  PoolInv' /\ Abstract!Next
  <2>1. UNCHANGED <<chunks_, chunk_offsets_, total_capacity_, free_list_head_,
                    next, is_free, live>>
      BY <1>5 DEF get
  <2>2. \/ reply' = Answer("node", resolveIndex(idx))
        \/ reply' = Answer("out of range", NULL)
      BY <1>5 DEF get
  <2>3. reply'.answer \in {"node", "out of range"}
    <3>1. \A node : /\ Answer("node", node).answer = "node"
                    /\ Answer("out of range", node).answer = "out of range"
        OBVIOUS
    <3> QED BY ONLY <2>2, <3>1
  <2> QED BY <1>3, <2>1, <2>3
<1>7. ASSUME NEW ptr \in Nodes \cup {Foreign, NULL}, getIndex(ptr)
      PROVE  PoolInv' /\ Abstract!Next
  <2>1. PoolInv' /\ live' = live
      BY <1>7, PoolUnchanged DEF getIndex
  <2>2. live \subseteq Nodes
      BY DEF PoolInv
  <2>3. /\ reply'.answer = IF ptr \in Nodes THEN "index" ELSE "not in pool"
        /\ reply'.node = ptr
      BY <1>7 DEF getIndex
  <2>4. Abstract!Other
      BY <2>1, <2>2, <2>3 DEF Abstract!Other
  <2> QED BY <2>1, <2>4 DEF Abstract!Next
<1>6. CASE UNCHANGED vars
  <2>1. /\ UNCHANGED <<chunks_, chunk_offsets_, total_capacity_, free_list_head_,
                       next, is_free, live>>
        /\ reply' = reply
      BY <1>6 DEF vars
  <2>2. PoolInv'
      BY <2>1, PoolUnchanged
  <2> QED BY <2>1, <2>2
<1> QED BY <1>1, <1>2, <1>4, <1>5, <1>6, <1>7 DEF Next

-----------------------------------------------------------------------------
(* The walk along the free list.                                            *)

\* The first k nodes of a list, or all of them.
Prefix(list, k) == [i \in 1 .. (IF k < Len(list) THEN k ELSE Len(list)) |-> list[i]]

\* f is the walk that FreeList makes.
Onward(sofar) ==
    LET n == IF sofar = << >> THEN free_list_head_ ELSE next[Last(sofar)]
    IN IF n = NULL THEN sofar ELSE Append(sofar, n)

IsWalk(f) ==
    f = [k \in 0 .. total_capacity_ |->
            IF k = 0 THEN << >> ELSE Onward(f[k - 1])]

\* The free nodes form a list that the capacity is enough to walk along.
Walkable(list) ==
    /\ NULL \notin Nodes
    /\ FreeListIs(list, Nodes, free_list_head_, next, is_free)
    /\ total_capacity_ \in Nat
    /\ Len(list) <= total_capacity_

LEMMA PrefixFacts ==
    ASSUME NEW list, Walkable(list), NEW k \in Nat, k <= Len(list)
    PROVE  /\ Prefix(list, k) \in Seq(Nodes) /\ Len(Prefix(list, k)) = k
           /\ \A i \in 1 .. k : Prefix(list, k)[i] = list[i] /\ list[i] \in Nodes
<1>1. /\ Len(list) \in Nat /\ \A i \in 1 .. Len(list) : list[i] \in Nodes
    BY LenProperties, ElementOfSeq DEF Walkable, FreeListIs
<1>2. Prefix(list, k) = [i \in 1 .. k |-> list[i]]
    BY <1>1 DEF Prefix
<1>3. [i \in 1 .. k |-> list[i]] \in [1 .. k -> Nodes]
    BY <1>1
<1> QED BY <1>1, <1>2, <1>3, IsASeq

LEMMA PrefixOnward ==
    ASSUME NEW list, Walkable(list), NEW k \in Nat
    PROVE  Onward(Prefix(list, k)) = Prefix(list, k + 1)
<1> DEFINE N == Len(list)
           sofar == Prefix(list, k)
<1>1. /\ NULL \notin Nodes /\ N \in Nat
      /\ N = 0 => free_list_head_ = NULL
      /\ N # 0 => free_list_head_ = list[1] /\ next[list[N]] = NULL
      /\ \A i \in 1 .. N - 1 : next[list[i]] = list[i + 1]
    BY LenProperties DEF Walkable, FreeListIs
<1>2. CASE k < N
  <2>1. /\ sofar \in Seq(Nodes) /\ Len(sofar) = k
        /\ \A i \in 1 .. k : sofar[i] = list[i]
      BY <1>1, <1>2, PrefixFacts
  <2>2. /\ Prefix(list, k + 1) \in Seq(Nodes) /\ Len(Prefix(list, k + 1)) = k + 1
        /\ \A i \in 1 .. k + 1 : Prefix(list, k + 1)[i] = list[i] /\ list[i] \in Nodes
    <3>1. k + 1 \in Nat /\ k + 1 <= N
        BY <1>1, <1>2
    <3> QED BY <3>1, PrefixFacts
  <2> HIDE DEF sofar
  <2>3. Onward(sofar) = Append(sofar, list[k + 1])
    <3>1. k + 1 \in 1 .. k + 1 /\ list[k + 1] \in Nodes /\ list[k + 1] # NULL
        BY <1>1, <2>2
    <3>2. CASE k = 0
      <4>1. sofar = << >> /\ list[k + 1] = free_list_head_
          BY <1>1, <1>2, <2>1, <3>2, EmptySeq
      <4> QED BY <3>1, <4>1 DEF Onward
    <3>3. CASE k # 0
      <4>1. k \in 1 .. N - 1 /\ k \in 1 .. k
          BY <1>1, <1>2, <3>3
      <4>2. sofar # << >> /\ Last(sofar) = list[k]
          BY <2>1, <3>3, <4>1, EmptySeq DEF Last
      <4>3. next[Last(sofar)] = list[k + 1]
          BY <1>1, <4>1, <4>2
      <4> QED BY <3>1, <4>2, <4>3 DEF Onward
    <3> QED BY <3>2, <3>3
  <2>4. /\ Append(sofar, list[k + 1]) \in Seq(Nodes)
        /\ Len(Append(sofar, list[k + 1])) = k + 1
        /\ \A i \in 1 .. k : Append(sofar, list[k + 1])[i] = list[i]
        /\ Append(sofar, list[k + 1])[k + 1] = list[k + 1]
    <3>1. list[k + 1] \in Nodes
        BY <2>2
    <3> QED BY <2>1, <3>1, AppendProperties
  <2>5. \A i \in 1 .. k + 1 : Append(sofar, list[k + 1])[i] = Prefix(list, k + 1)[i]
    <3>1. \A i \in 1 .. k + 1 : i \in 1 .. k \/ i = k + 1
        OBVIOUS
    <3> QED BY <2>2, <2>4, <3>1
  <2>6. Append(sofar, list[k + 1]) = Prefix(list, k + 1)
      BY ONLY <2>2, <2>4, <2>5, SeqEqual
  <2> QED BY <2>3, <2>6 DEF sofar
<1>3. CASE ~ (k < N)
  <2>1. sofar = Prefix(list, N) /\ Prefix(list, k + 1) = Prefix(list, N)
      BY <1>1, <1>3 DEF Prefix
  <2>2. /\ sofar \in Seq(Nodes) /\ Len(sofar) = N
        /\ \A i \in 1 .. N : sofar[i] = list[i]
      BY <1>1, <2>1, PrefixFacts
  <2> HIDE DEF sofar
  <2>3. CASE N = 0
    <3>1. sofar = << >> /\ free_list_head_ = NULL
        BY <1>1, <2>2, <2>3, EmptySeq
    <3> QED BY <2>1, <3>1 DEF Onward, sofar
  <2>4. CASE N # 0
    <3>1. sofar # << >> /\ Last(sofar) = list[N] /\ next[list[N]] = NULL
        BY <1>1, <2>2, <2>4, EmptySeq DEF Last
    <3>2. Onward(sofar) = sofar
        BY <3>1 DEF Onward
    <3> QED BY <2>1, <3>2 DEF sofar
  <2> QED BY <2>3, <2>4
<1> QED BY <1>1, <1>2, <1>3

\* After k steps the walk has met the first k nodes.
LEMMA WalkMeets ==
    ASSUME NEW list, Walkable(list), NEW f, IsWalk(f), NEW k \in 0 .. total_capacity_
    PROVE  f[k] = Prefix(list, k)
<1> DEFINE T == {j \in Nat : j <= total_capacity_ /\ f[j] # Prefix(list, j)}
<1>1. T = {}
  <2> SUFFICES ASSUME T # {} PROVE FALSE
      OBVIOUS
  <2>1. T \in SUBSET Nat
      OBVIOUS
  <2> HIDE DEF T
  <2>2. PICK m \in T : \A j \in T : m <= j
      BY <2>1, Least
  <2>3. /\ m \in 0 .. total_capacity_ /\ m \in Nat /\ f[m] # Prefix(list, m)
      BY <2>2 DEF T, Walkable
  <2>4. f[m] = IF m = 0 THEN << >> ELSE Onward(f[m - 1])
      BY <2>3 DEF IsWalk
  <2>5. CASE m = 0
    <3>1. 0 \in Nat /\ 0 <= Len(list)
        BY LenProperties DEF Walkable, FreeListIs
    <3>2. Prefix(list, 0) \in Seq(Nodes) /\ Len(Prefix(list, 0)) = 0
        BY <3>1, PrefixFacts
    <3>3. Prefix(list, 0) = << >>
        BY <3>2, EmptySeq
    <3> QED BY <2>3, <2>4, <2>5, <3>3
  <2>6. CASE m # 0
    <3>1. m - 1 \in Nat /\ m - 1 <= total_capacity_ /\ ~ (m <= m - 1) /\ (m - 1) + 1 = m
        BY <2>3, <2>6 DEF Walkable
    <3>2. m - 1 \notin T
        BY <2>2, <3>1
    <3>3. f[m - 1] = Prefix(list, m - 1)
        BY <3>1, <3>2 DEF T
    <3>4. Onward(Prefix(list, m - 1)) = Prefix(list, m)
        BY <3>1, PrefixOnward
    <3> QED BY <2>3, <2>4, <2>6, <3>3, <3>4
  <2> QED BY <2>5, <2>6
<1> QED BY <1>1 DEF Walkable

\* The walk meets the whole list.
LEMMA FreeListIsList ==
    ASSUME NEW list, Walkable(list)
    PROVE  FreeList = list
<1> DEFINE body(f) == [k \in 0 .. total_capacity_ |->
                        IF k = 0 THEN << >> ELSE Onward(f[k - 1])]
           walk == CHOOSE f : f = body(f)
           known == [k \in 0 .. total_capacity_ |-> Prefix(list, k)]
<1>1. /\ total_capacity_ \in Nat /\ Len(list) \in Nat /\ list \in Seq(Nodes)
      /\ Len(list) <= total_capacity_
    BY LenProperties DEF Walkable, FreeListIs
<1>2. known = body(known)
  <2>1. Prefix(list, 0) = << >>
    <3>1. Prefix(list, 0) \in Seq(Nodes) /\ Len(Prefix(list, 0)) = 0
        BY <1>1, PrefixFacts
    <3> QED BY <3>1, EmptySeq
  <2>2. ASSUME NEW k \in 0 .. total_capacity_, k # 0
        PROVE  Prefix(list, k) = Onward(known[k - 1])
    <3>1. k - 1 \in Nat /\ k - 1 \in 0 .. total_capacity_ /\ (k - 1) + 1 = k
        BY <1>1, <2>2
    <3> QED BY <3>1, PrefixOnward
  <2>3. \A k \in 0 .. total_capacity_ :
            Prefix(list, k) = IF k = 0 THEN << >> ELSE Onward(known[k - 1])
      BY <2>1, <2>2
  <2> QED BY <2>3
<1>3. \E f : f = body(f)
    BY <1>2
<1>4. walk = body(walk)
    BY <1>3
<1>5. FreeList = walk[total_capacity_]
    BY DEF FreeList, Onward
<1> HIDE DEF walk
<1>6. walk[total_capacity_] = Prefix(list, total_capacity_)
  <2>1. IsWalk(walk) /\ total_capacity_ \in 0 .. total_capacity_
      BY <1>1, <1>4 DEF IsWalk
  <2> QED BY <2>1, WalkMeets
<1>7. Prefix(list, total_capacity_) = Prefix(list, Len(list))
    BY <1>1 DEF Prefix
<1>8. Prefix(list, Len(list)) = list
  <2>1. /\ Prefix(list, Len(list)) \in Seq(Nodes)
        /\ Len(Prefix(list, Len(list))) = Len(list)
        /\ \A i \in 1 .. Len(list) : Prefix(list, Len(list))[i] = list[i]
      BY <1>1, PrefixFacts
  <2> QED BY ONLY <1>1, <2>1, SeqEqual
<1> QED BY <1>5, <1>6, <1>7, <1>8

LEMMA PoolImpliesFreeList == PoolInv => FreeListExact
<1> SUFFICES ASSUME PoolInv PROVE FreeListExact
    OBVIOUS
<1>1. PICK list : /\ FreeListIs(list, Nodes, free_list_head_, next, is_free)
                  /\ Cardinality(live) + Len(list) = total_capacity_
    BY DEF PoolInv
<1>2. /\ list \in Seq(Nodes) /\ Len(list) \in Nat /\ DOMAIN list = 1 .. Len(list)
      /\ \A i \in 1 .. Len(list) : list[i] \in Nodes
    BY <1>1, LenProperties, ElementOfSeq DEF FreeListIs
<1>3. Walkable(list)
  <2>1. Cardinality(live) \in Nat /\ total_capacity_ \in Nat /\ NULL \notin Nodes
      BY FS_CardinalityType, NodesAreObjects DEF PoolInv, ChunksInv
  <2> QED BY <1>1, <1>2, <2>1 DEF Walkable
<1>4. FreeList = list
    BY <1>3, FreeListIsList
<1>5. ToSet(list) = {n \in Nodes : is_free[n]}
    BY <1>1, <1>2 DEF ToSet, FreeListIs
<1>6. IsInjective(list)
    BY <1>1, <1>2 DEF IsInjective, FreeListIs
<1>7. list # << >> => next[Last(list)] = NULL
  <2>1. list # << >> => Len(list) # 0
      BY <1>2, EmptySeq
  <2> QED BY <1>1, <2>1 DEF Last, FreeListIs
<1> QED BY <1>1, <1>4, <1>5, <1>6, <1>7 DEF FreeListExact, PoolInv

-----------------------------------------------------------------------------
(* The theorems.                                                            *)

\* Chunks, free list and nodes handed out stay together whatever is called.
THEOREM PoolInvariance == Spec => []PoolInv
<1>1. PoolInv /\ [Next]_vars => PoolInv'
    BY PoolStep
<1> QED BY <1>1, InitPool, PTL DEF Spec

\* The free list always ends, meets every free node once and no other, and with
\* the nodes handed out makes up the capacity (mempool.h:21-33, 140-162).
THEOREM FreeListCorrect == Spec => []FreeListExact
BY PoolInvariance, PoolImpliesFreeList, PTL

\* A node's index finds that node again, and every index below the capacity is
\* that of a node, however the chunks have grown (mempool.h:36-45, 75-92).
THEOREM IndicesCorrect == Spec => []IndicesAgree
<1>1. PoolInv => IndicesAgree
    BY ChunksImplyIndices DEF PoolInv
<1> QED BY <1>1, PoolInvariance, PTL

\* Seen through the nodes handed out and the answers, the pool never hands out
\* what is in use and refuses every wrong return (mempool.h:19-57, 140-162).
THEOREM MemPoolImplementsPool == Spec => ImplementsPool
<1>1. Init => Abstract!Init
    BY DEF Init, Abstract!Init, Abstract!Answer, Answer
<1>2. PoolInv /\ [Next]_vars => [Abstract!Next]_<<live, reply>>
    BY PoolStep
<1> QED BY <1>1, <1>2, PoolInvariance, PTL DEF Spec, ImplementsPool, Abstract!Spec
=============================================================================
