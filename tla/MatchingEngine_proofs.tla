------------------------ MODULE MatchingEngine_proofs ------------------------
(***************************************************************************)
(* Safety of MatchingEngine for any number of slots, instruments, ticks,    *)
(* quantities and orders.                                                   *)
(***************************************************************************)
EXTENDS MatchingEngine, PriceLevels_proofs

\* Every level of a book is a sequence of slots.
LEMMA LevelType ==
    ASSUME NEW bk \in Books, NEW side \in Sides, NEW i \in Instruments
    PROVE  /\ bk[side][i] \in [Ticks -> Seq(Slots)]
           /\ \A t \in Ticks :
                /\ bk[side][i][t] \in Seq(Slots)
                /\ Len(bk[side][i][t]) \in Nat
                /\ bk[side][i][t] = << >> <=> Len(bk[side][i][t]) = 0
                /\ \A k \in 1 .. Len(bk[side][i][t]) : bk[side][i][t][k] \in Slots
<1>1. bk[side][i] \in [Ticks -> Seq(Slots)]
    BY DEF Books
<1>2. ASSUME NEW t \in Ticks
      PROVE  /\ bk[side][i][t] \in Seq(Slots)
             /\ Len(bk[side][i][t]) \in Nat
             /\ bk[side][i][t] = << >> <=> Len(bk[side][i][t]) = 0
             /\ \A k \in 1 .. Len(bk[side][i][t]) : bk[side][i][t][k] \in Slots
  <2>1. bk[side][i][t] \in Seq(Slots)
      BY <1>1
  <2> QED BY <2>1, LenProperties, EmptySeq, ElementOfSeq
<1> QED BY <1>1, <1>2

\* The places of the books `new' are those of `bk' and one more, at the back of
\* one level, which holds o.
OnePlaceMore(bk, new, sd, ins, p, o) ==
    /\ new \in Books
    /\ \A side \in Sides, i \in Instruments, t \in Ticks :
        \A k \in 1 .. Len(new[side][i][t]) :
            \/ /\ side = sd /\ i = ins /\ t = p
               /\ new[side][i][t][k] = o
               /\ \A j \in 1 .. k - 1 : /\ j \in 1 .. Len(bk[side][i][t])
                                      /\ new[side][i][t][j] = bk[side][i][t][j]
            \/ /\ k \in 1 .. Len(bk[side][i][t])
               /\ \A j \in 1 .. k : new[side][i][t][j] = bk[side][i][t][j]
    /\ \A side \in Sides, i \in Instruments, t \in Ticks :
        \A k \in 1 .. Len(bk[side][i][t]) :
            /\ k \in 1 .. Len(new[side][i][t])
            /\ new[side][i][t][k] = bk[side][i][t][k]
    /\ \E k \in 1 .. Len(new[sd][ins][p]) : new[sd][ins][p][k] = o

LEMMA PlacesAfterAdd ==
    ASSUME NEW bk \in Books, NEW sd \in Sides, NEW ins \in Instruments,
           NEW p \in Ticks, NEW o \in Slots,
           NEW new, new = [bk EXCEPT ![sd][ins] = AddOrder(@, p, o)]
    PROVE  OnePlaceMore(bk, new, sd, ins, p, o)
<1> DEFINE n  == Len(bk[sd][ins][p]) + 1
           lv == AddOrder(bk[sd][ins], p, o)
<1>1. /\ new \in Books
      /\ \A side \in Sides, i \in Instruments, t \in Ticks :
            (side # sd \/ i # ins \/ t # p) => new[side][i][t] = bk[side][i][t]
      /\ Len(new[sd][ins][p]) = n
      /\ new[sd][ins][p][n] = o
      /\ \A k \in 1 .. n - 1 : new[sd][ins][p][k] = bk[sd][ins][p][k]
  <2> DEFINE old == bk[sd][ins]
  <2>1. old \in [Ticks -> Seq(Slots)]
      BY LevelType
  <2>2. LET r == AddOrder(old, p, o)
              m == Len(old[p]) + 1
          IN /\ r \in [Ticks -> Seq(Slots)]
             /\ \A u \in Ticks \ {p} : r[u] = old[u]
             /\ Len(r[p]) = m
             /\ r[p][m] = o
             /\ \A k \in 1 .. m - 1 : r[p][k] = old[p][k]
    <3> HIDE DEF old
    <3> QED BY ONLY <2>1, p \in Ticks, o \in Slots, AddOrderProperties
  <2>3. /\ lv \in [Ticks -> Seq(Slots)]
        /\ \A u \in Ticks \ {p} : lv[u] = bk[sd][ins][u]
        /\ Len(lv[p]) = n
        /\ lv[p][n] = o
        /\ \A k \in 1 .. n - 1 : lv[p][k] = bk[sd][ins][p][k]
      BY <2>2
  <2>4. new = [bk EXCEPT ![sd][ins] = lv]
      OBVIOUS
  <2> HIDE DEF lv
  <2>5. new \in Books
      BY <2>3, <2>4 DEF Books
  <2>6. new[sd][ins] = lv
      BY <2>4 DEF Books
  <2>7. \A side \in Sides, i \in Instruments :
            (side # sd \/ i # ins) => new[side][i] = bk[side][i]
      BY <2>4 DEF Books
  <2>8. \A side \in Sides, i \in Instruments, t \in Ticks :
            (side # sd \/ i # ins \/ t # p) => new[side][i][t] = bk[side][i][t]
      BY <2>3, <2>6, <2>7
  <2> QED BY <2>3, <2>5, <2>6, <2>8
<1>2. Len(bk[sd][ins][p]) \in Nat
    BY LevelType
<1> HIDE DEF lv
<1>3. ASSUME NEW side \in Sides, NEW i \in Instruments, NEW t \in Ticks,
             ~ (side = sd /\ i = ins /\ t = p)
      PROVE  new[side][i][t] = bk[side][i][t] /\ Len(bk[side][i][t]) \in Nat
    BY <1>1, <1>3, LevelType
<1>4. ASSUME NEW side \in Sides, NEW i \in Instruments, NEW t \in Ticks,
             NEW k \in 1 .. Len(new[side][i][t])
      PROVE  \/ /\ side = sd /\ i = ins /\ t = p
                /\ new[side][i][t][k] = o
                /\ \A j \in 1 .. k - 1 : /\ j \in 1 .. Len(bk[side][i][t])
                                       /\ new[side][i][t][j] = bk[side][i][t][j]
             \/ /\ k \in 1 .. Len(bk[side][i][t])
                /\ \A j \in 1 .. k : new[side][i][t][j] = bk[side][i][t][j]
  <2>1. CASE side = sd /\ i = ins /\ t = p
      BY <1>1, <1>2, <2>1
  <2>2. CASE ~ (side = sd /\ i = ins /\ t = p)
      BY <1>3, <2>2
  <2> QED BY <2>1, <2>2
<1>5. ASSUME NEW side \in Sides, NEW i \in Instruments, NEW t \in Ticks,
             NEW k \in 1 .. Len(bk[side][i][t])
      PROVE  /\ k \in 1 .. Len(new[side][i][t])
             /\ new[side][i][t][k] = bk[side][i][t][k]
  <2>1. CASE side = sd /\ i = ins /\ t = p
      BY <1>1, <1>2, <2>1
  <2>2. CASE ~ (side = sd /\ i = ins /\ t = p)
      BY <1>3, <2>2
  <2> QED BY <2>1, <2>2
<1>6. n \in 1 .. Len(new[sd][ins][p]) /\ new[sd][ins][p][n] = o
    BY <1>1, <1>2
<1> HIDE DEF n
<1> QED BY <1>1, <1>4, <1>5, <1>6 DEF OnePlaceMore

\* The places of the books `new' are those of `bk' except the first of one
\* level, those behind it having moved up.
OnePlaceLess(bk, new, sd, ins, p) ==
    /\ new \in Books
    /\ \A side \in Sides, i \in Instruments, t \in Ticks :
        \A k \in 1 .. Len(new[side][i][t]) :
            \/ /\ side = sd /\ i = ins /\ t = p
               /\ \A j \in 1 .. k : /\ j + 1 \in 1 .. Len(bk[side][i][t])
                                  /\ new[side][i][t][j] = bk[side][i][t][j + 1]
            \/ /\ ~ (side = sd /\ i = ins /\ t = p)
               /\ k \in 1 .. Len(bk[side][i][t])
               /\ \A j \in 1 .. k : new[side][i][t][j] = bk[side][i][t][j]
    /\ \A side \in Sides, i \in Instruments, t \in Ticks :
        \A k \in 1 .. Len(bk[side][i][t]) :
            \/ side = sd /\ i = ins /\ t = p /\ k = 1
            \/ \E j \in 1 .. Len(new[side][i][t]) :
                    new[side][i][t][j] = bk[side][i][t][k]

LEMMA PlacesAfterPop ==
    ASSUME NEW bk \in Books, NEW sd \in Sides, NEW ins \in Instruments,
           NEW p \in Ticks, bk[sd][ins][p] # << >>,
           NEW new, new = [bk EXCEPT ![sd][ins] = PopOrder(@, p)]
    PROVE  OnePlaceLess(bk, new, sd, ins, p)
<1> DEFINE n  == Len(bk[sd][ins][p]) - 1
           lv == PopOrder(bk[sd][ins], p)
<1>1. /\ new \in Books
      /\ \A side \in Sides, i \in Instruments, t \in Ticks :
            (side # sd \/ i # ins \/ t # p) => new[side][i][t] = bk[side][i][t]
      /\ Len(new[sd][ins][p]) = n
      /\ \A k \in 1 .. n : new[sd][ins][p][k] = bk[sd][ins][p][k + 1]
  <2> DEFINE old == bk[sd][ins]
  <2>1. old \in [Ticks -> Seq(Slots)] /\ old[p] # << >>
      BY LevelType
  <2>2. LET r == PopOrder(old, p)
              m == Len(old[p]) - 1
          IN /\ r \in [Ticks -> Seq(Slots)]
             /\ \A u \in Ticks \ {p} : r[u] = old[u]
             /\ Len(r[p]) = m
             /\ \A k \in 1 .. m : r[p][k] = old[p][k + 1]
    <3> HIDE DEF old
    <3> QED BY ONLY <2>1, p \in Ticks, PopOrderProperties
  <2>3. /\ lv \in [Ticks -> Seq(Slots)]
        /\ \A u \in Ticks \ {p} : lv[u] = bk[sd][ins][u]
        /\ Len(lv[p]) = n
        /\ \A k \in 1 .. n : lv[p][k] = bk[sd][ins][p][k + 1]
      BY <2>2
  <2>4. new = [bk EXCEPT ![sd][ins] = lv]
      OBVIOUS
  <2> HIDE DEF lv
  <2>5. new \in Books
      BY <2>3, <2>4 DEF Books
  <2>6. new[sd][ins] = lv
      BY <2>4 DEF Books
  <2>7. \A side \in Sides, i \in Instruments :
            (side # sd \/ i # ins) => new[side][i] = bk[side][i]
      BY <2>4 DEF Books
  <2>8. \A side \in Sides, i \in Instruments, t \in Ticks :
            (side # sd \/ i # ins \/ t # p) => new[side][i][t] = bk[side][i][t]
      BY <2>3, <2>6, <2>7
  <2> QED BY <2>3, <2>5, <2>6, <2>8
<1>2. Len(bk[sd][ins][p]) \in Nat \ {0}
    BY LevelType
<1> HIDE DEF lv
<1>3. ASSUME NEW side \in Sides, NEW i \in Instruments, NEW t \in Ticks,
             ~ (side = sd /\ i = ins /\ t = p)
      PROVE  new[side][i][t] = bk[side][i][t] /\ Len(bk[side][i][t]) \in Nat
    BY <1>1, <1>3, LevelType
<1>4. ASSUME NEW side \in Sides, NEW i \in Instruments, NEW t \in Ticks,
             NEW k \in 1 .. Len(new[side][i][t])
      PROVE  \/ /\ side = sd /\ i = ins /\ t = p
                /\ \A j \in 1 .. k : /\ j + 1 \in 1 .. Len(bk[side][i][t])
                                   /\ new[side][i][t][j] = bk[side][i][t][j + 1]
             \/ /\ ~ (side = sd /\ i = ins /\ t = p)
                /\ k \in 1 .. Len(bk[side][i][t])
                /\ \A j \in 1 .. k : new[side][i][t][j] = bk[side][i][t][j]
  <2>1. CASE side = sd /\ i = ins /\ t = p
    <3>1. k \in 1 .. n /\ n \in Nat /\ n + 1 = Len(bk[sd][ins][p])
      <4>1. n \in Nat /\ n + 1 = Len(bk[sd][ins][p])
          BY ONLY <1>2
      <4>2. Len(new[sd][ins][p]) = n
          BY <1>1
      <4>3. k \in 1 .. Len(new[sd][ins][p])
          BY <2>1
      <4> HIDE DEF n
      <4> QED BY <4>1, <4>2, <4>3
    <3>2. \A j \in 1 .. k : j \in 1 .. n /\ j + 1 \in 1 .. Len(bk[sd][ins][p])
      <4> HIDE DEF n
      <4> QED BY <3>1
    <3> QED BY <1>1, <2>1, <3>2
  <2>2. CASE ~ (side = sd /\ i = ins /\ t = p)
      BY <1>3, <2>2
  <2> QED BY <2>1, <2>2
<1>5. ASSUME NEW side \in Sides, NEW i \in Instruments, NEW t \in Ticks,
             NEW k \in 1 .. Len(bk[side][i][t])
      PROVE  \/ side = sd /\ i = ins /\ t = p /\ k = 1
             \/ \E j \in 1 .. Len(new[side][i][t]) :
                    new[side][i][t][j] = bk[side][i][t][k]
  <2>1. CASE side = sd /\ i = ins /\ t = p
    <3>1. CASE k = 1
        BY <2>1, <3>1
    <3>2. CASE k # 1
      <4>1. /\ k - 1 \in 1 .. Len(new[side][i][t])
            /\ new[side][i][t][k - 1] = bk[side][i][t][(k - 1) + 1]
        <5>1. k - 1 \in 1 .. n
            BY <1>2, <2>1, <3>2
        <5> QED BY <1>1, <2>1, <5>1
      <4>2. (k - 1) + 1 = k
          BY <1>2, <2>1
      <4> QED BY <4>1, <4>2
    <3> QED BY <3>1, <3>2
  <2>2. CASE ~ (side = sd /\ i = ins /\ t = p)
      BY <1>3, <2>2
  <2> QED BY <2>1, <2>2
<1> HIDE DEF n
<1> QED BY <1>1, <1>4, <1>5 DEF OnePlaceLess

-----------------------------------------------------------------------------
(* The inductive invariant.  CoreInv is what the matching of one order needs *)
(* and keeps; it says nothing of the live slots that neither books nor       *)
(* engine point to, so that it also holds of an OrderProcessor whose books   *)
(* have been replaced.  IInv adds that the engine alone has no such slots.   *)

\* The slots that are live, but that nothing leads to.
Unreached == Live \ (RestingSlots \cup {incoming})

\* The types of what the matching of an order reads and writes.
CoreTypes ==
    /\ order_pool_ \in [Slots -> Order \cup {NoOrder}]
    /\ books \in Books
    /\ incoming \in Slots \cup {NULL}
    /\ incoming # NULL => order_pool_[incoming] # NoOrder
    /\ matched_any \in BOOLEAN

\* The incoming order is younger than all that rest.
IncomingYoungest ==
    incoming # NULL =>
        \A s \in RestingSlots : order_pool_[s].oid < order_pool_[incoming].oid

CoreInv ==
    /\ CoreTypes
    /\ RestingSlots \subseteq Live /\ incoming \notin RestingSlots
    /\ RestingOrdersPlaced
    /\ NotCrossed
    /\ IncomingYoungest

\* No live order is younger than the last one accepted.
IInv ==
    /\ CoreInv
    /\ Unreached = {}
    /\ reports \in Seq(ExecutionReport)
    /\ accepted \in Seq(Order)
    /\ \A s \in Live : order_pool_[s].oid <= Len(accepted)

\* The fields of an order, and that no order is the mark of a free slot.
LEMMA OrderFields ==
    ASSUME NEW o \in Order
    PROVE  /\ o # NoOrder
           /\ o.oid \in Nat \ {0} /\ o.instrument \in Instruments
           /\ o.side \in Sides /\ o.price \in Ticks
           /\ o.quantity \in 0 .. MaxQuantity
BY DEF Order, NoOrder

\* What the invariant says of the slot at one place of a book.
PlaceOK(side, i, t, k) ==
    LET s == books[side][i][t][k] IN
    /\ s \in Slots
    /\ s \in RestingSlots
    /\ s \in Live
    /\ s # incoming
    /\ order_pool_[s] \in Order
    /\ order_pool_[s].side = side
    /\ order_pool_[s].instrument = i
    /\ order_pool_[s].price = t
    /\ order_pool_[s].quantity \in Quantities
    /\ \A j \in 1 .. k - 1 :
        order_pool_[books[side][i][t][j]].oid < order_pool_[s].oid

LEMMA PlaceFacts ==
    ASSUME CoreInv, NEW side \in Sides, NEW i \in Instruments, NEW t \in Ticks,
           NEW k \in 1 .. Len(books[side][i][t])
    PROVE  PlaceOK(side, i, t, k)
<1> DEFINE s == books[side][i][t][k]
<1>1. s \in Slots
    BY LevelType DEF CoreInv, CoreTypes
<1>2. s \in RestingSlots
    BY <1>1 DEF RestingSlots
<1>3. s # incoming /\ s \in Live
    BY <1>2 DEF CoreInv
<1>4. order_pool_[s] \in Order
    BY <1>1, <1>3 DEF CoreInv, CoreTypes, Live
<1>5. /\ order_pool_[s].side = side
      /\ order_pool_[s].instrument = i
      /\ order_pool_[s].price = t
      /\ order_pool_[s].quantity > 0
      /\ \A j \in 1 .. k - 1 :
            order_pool_[books[side][i][t][j]].oid < order_pool_[s].oid
    BY DEF CoreInv, RestingOrdersPlaced
<1>6. order_pool_[s].quantity \in Quantities
    BY <1>4, <1>5, OrderFields, EngineAssumption DEF Quantities
<1> QED BY <1>1, <1>2, <1>3, <1>4, <1>5, <1>6 DEF PlaceOK

\* A slot is queued at one place only: its order says which level, and the ages
\* of the orders of a level say which position.
LEMMA OnePlace ==
    ASSUME CoreInv,
           NEW s1 \in Sides, NEW i1 \in Instruments, NEW t1 \in Ticks,
           NEW k1 \in 1 .. Len(books[s1][i1][t1]),
           NEW s2 \in Sides, NEW i2 \in Instruments, NEW t2 \in Ticks,
           NEW k2 \in 1 .. Len(books[s2][i2][t2]),
           books[s1][i1][t1][k1] = books[s2][i2][t2][k2]
    PROVE  s1 = s2 /\ i1 = i2 /\ t1 = t2 /\ k1 = k2
<1>1. s1 = s2 /\ i1 = i2 /\ t1 = t2
  <2>1. PlaceOK(s1, i1, t1, k1) /\ PlaceOK(s2, i2, t2, k2)
      BY PlaceFacts
  <2> QED BY <2>1 DEF PlaceOK
<1> DEFINE age(k) == order_pool_[books[s1][i1][t1][k]].oid
<1>2. ASSUME NEW k \in 1 .. Len(books[s1][i1][t1])
      PROVE  age(k) \in Nat /\ \A j \in 1 .. k - 1 : age(j) < age(k)
  <2>1. PlaceOK(s1, i1, t1, k)
      BY PlaceFacts
  <2> QED BY <2>1, OrderFields DEF PlaceOK
<1>4. age(k1) = age(k2)
    BY <1>1
<1>5. k1 \in Nat /\ k2 \in Nat /\ k2 \in 1 .. Len(books[s1][i1][t1])
    BY <1>1, LevelType DEF CoreInv, CoreTypes
<1> HIDE DEF age
<1>6. ~ (k1 < k2)
    BY <1>2, <1>4, <1>5
<1>7. ~ (k2 < k1)
    BY <1>2, <1>4, <1>5
<1> QED BY <1>1, <1>5, <1>6, <1>7

\* The resting orders and the incoming one are orders, in slots of their own.
LEMMA ReachedOrders ==
    ASSUME CoreInv
    PROVE  /\ \A s \in RestingSlots :
                s \in Slots /\ s \in Live /\ s # incoming /\ order_pool_[s] \in Order
           /\ incoming # NULL =>
                incoming \in Slots /\ incoming \in Live /\ order_pool_[incoming] \in Order
BY DEF CoreInv, CoreTypes, Live

\* Books of empty levels have no resting orders.
LEMMA EmptyBooks ==
    ASSUME NEW bk,
           bk = [side \in Sides |-> [i \in Instruments |-> EmptyLevels(Ticks)]]
    PROVE  /\ bk \in Books
           /\ \A side \in Sides, i \in Instruments, t \in Ticks :
                bk[side][i][t] = << >> /\ Len(bk[side][i][t]) = 0
<1>1. bk \in Books
    BY EmptySeq DEF Books, EmptyLevels
<1>2. \A side \in Sides, i \in Instruments, t \in Ticks :
        bk[side][i][t] = << >> /\ Len(bk[side][i][t]) = 0
    BY EmptySeq DEF EmptyLevels
<1> QED BY <1>1, <1>2

LEMMA InitIInv == Init => IInv
<1> SUFFICES ASSUME Init PROVE IInv
    OBVIOUS
<1> USE DEF Init
<1>1. /\ books \in Books
      /\ \A side \in Sides, i \in Instruments, t \in Ticks :
            books[side][i][t] = << >> /\ Len(books[side][i][t]) = 0
    BY EmptyBooks
<1>2. CoreTypes
    BY <1>1 DEF CoreTypes
<1>3. RestingSlots = {}
    BY <1>1 DEF RestingSlots
<1>4. Live = {} /\ Unreached = {}
    BY DEF Live, Unreached
<1>5. RestingOrdersPlaced
    BY <1>1 DEF RestingOrdersPlaced
<1>6. NotCrossed
    BY <1>1 DEF NotCrossed, NonEmptyTicks, EmptyLevels, Sides
<1>7. CoreInv
    BY <1>2, <1>3, <1>5, <1>6 DEF CoreInv, IncomingYoungest
<1> QED BY <1>4, <1>7, EmptySeq DEF IInv

-----------------------------------------------------------------------------
(* Every action preserves the invariant.                                    *)

\* While the books and the orders in them stay as they are, so does what the
\* invariant says of them.
LEMMA SameBooks ==
    ASSUME CoreInv, books' = books,
           \A s \in RestingSlots : order_pool_'[s] = order_pool_[s]
    PROVE  RestingOrdersPlaced' /\ NotCrossed' /\ RestingSlots' = RestingSlots
<1>1. RestingOrdersPlaced'
  <2> SUFFICES ASSUME NEW side \in Sides, NEW i \in Instruments, NEW t \in Ticks,
                      NEW k \in 1 .. Len(books[side][i][t])
               PROVE  LET q == order_pool_'[books[side][i][t][k]] IN
                      /\ q.side = side /\ q.instrument = i /\ q.price = t
                      /\ q.quantity > 0
                      /\ \A j \in 1 .. k - 1 :
                            order_pool_'[books[side][i][t][j]].oid < q.oid
      BY DEF RestingOrdersPlaced
  <2>1. \A j \in 1 .. k : j \in 1 .. Len(books[side][i][t])
      BY LevelType DEF CoreInv, CoreTypes
  <2>2. ASSUME NEW j \in 1 .. k
        PROVE  order_pool_'[books[side][i][t][j]] = order_pool_[books[side][i][t][j]]
    <3>1. PlaceOK(side, i, t, j)
        BY <2>1, PlaceFacts
    <3> QED BY <3>1 DEF PlaceOK
  <2>3. k \in 1 .. k /\ \A j \in 1 .. k - 1 : j \in 1 .. k
      BY LevelType DEF CoreInv, CoreTypes
  <2>4. PlaceOK(side, i, t, k)
      BY PlaceFacts
  <2> QED BY <2>2, <2>3, <2>4, SMTT(30) DEF PlaceOK, Quantities
<1>2. NotCrossed'
    BY DEF CoreInv, NotCrossed
<1>3. RestingSlots' = RestingSlots
    BY DEF RestingSlots
<1> QED BY <1>1, <1>2, <1>3

\* An accepted order takes a free slot and becomes the incoming order.
LEMMA ProcessOrderStep ==
    ASSUME CoreInv, NEW slot \in Slots, NEW o \in Order,
           \A s \in RestingSlots : order_pool_[s].oid < o.oid,
           ProcessOrder(slot, o)
    PROVE  /\ CoreInv' /\ Unreached' = Unreached
           /\ Live' = Live \cup {slot} /\ RestingSlots' = RestingSlots
           /\ slot \notin Live
           /\ order_pool_'[slot] = o
           /\ \A s \in Slots \ {slot} : order_pool_'[s] = order_pool_[s]
<1> USE DEF ProcessOrder
<1>1. slot # NULL /\ slot \notin Live /\ NULL \notin Live
    BY EngineAssumption DEF Live
<1>2. \A s \in Slots \ {slot} : order_pool_'[s] = order_pool_[s]
    BY DEF CoreInv, CoreTypes
<1>3. order_pool_'[slot] = o /\ o # NoOrder
    BY OrderFields DEF CoreInv, CoreTypes
<1>4. Live' = Live \cup {slot}
    BY <1>2, <1>3 DEF Live
<1>5. slot \notin RestingSlots /\ NULL \notin RestingSlots /\ RestingSlots \subseteq Live
    BY <1>1 DEF CoreInv
<1>6. \A s \in RestingSlots : s \in Slots /\ order_pool_'[s] = order_pool_[s]
    BY <1>2, <1>5 DEF Live
<1>7. RestingOrdersPlaced' /\ NotCrossed' /\ RestingSlots' = RestingSlots
    BY <1>6, SameBooks
<1>8. CoreTypes'
    BY <1>1, <1>3 DEF CoreInv, CoreTypes
<1>9. IncomingYoungest'
    BY <1>3, <1>6, <1>7 DEF IncomingYoungest
<1>10. CoreInv'
    BY <1>4, <1>5, <1>7, <1>8, <1>9 DEF CoreInv
<1>11. Unreached' = Unreached
    BY <1>1, <1>4, <1>7 DEF Unreached
<1> QED BY <1>1, <1>2, <1>3, <1>4, <1>7, <1>10, <1>11

\* The incoming order is freed; the books do not change.
LEMMA FinishStep ==
    ASSUME CoreInv, Finish
    PROVE  /\ CoreInv' /\ Unreached' = Unreached
           /\ Live' = Live \ {incoming} /\ RestingSlots' = RestingSlots
           /\ \A s \in Slots \ {incoming} : order_pool_'[s] = order_pool_[s]
<1> USE DEF Finish
<1>1. incoming \in Slots
    BY DEF CoreInv, CoreTypes
<1>2. \A s \in Slots \ {incoming} : order_pool_'[s] = order_pool_[s]
    BY DEF CoreInv, CoreTypes
<1>3. order_pool_'[incoming] = NoOrder
    BY <1>1 DEF CoreInv, CoreTypes
<1>4. Live' = Live \ {incoming}
    BY <1>2, <1>3 DEF Live
<1>5. /\ incoming \notin RestingSlots /\ NULL \notin RestingSlots
      /\ RestingSlots \subseteq Live /\ NULL \notin Live
    BY EngineAssumption DEF CoreInv, Live
<1>6. \A s \in RestingSlots : s \in Slots /\ order_pool_'[s] = order_pool_[s]
    BY <1>2, <1>5 DEF Live
<1>7. RestingOrdersPlaced' /\ NotCrossed' /\ RestingSlots' = RestingSlots
    BY <1>6, SameBooks
<1>8. CoreTypes'
    BY DEF CoreInv, CoreTypes
<1>9. CoreInv'
    BY <1>4, <1>5, <1>7, <1>8 DEF CoreInv, IncomingYoungest
<1>10. Unreached' = Unreached
    BY <1>4, <1>5, <1>7 DEF Unreached
<1> QED BY <1>2, <1>4, <1>7, <1>9, <1>10

\* When the loop ends because nothing crosses, no order on the other side is at
\* or inside the limit of the incoming order.
LEMMA NothingToMatchMeaning ==
    ASSUME books \in Books, NEW o \in Order, NothingToMatch(o)
    PROVE  \A u \in NonEmptyTicks(OppositeBook(o)) :
                IF o.side = "BUY" THEN o.price < u ELSE u < o.price
<1> DEFINE bk == OppositeBook(o)
<1>1. Opposite(o.side) \in Sides /\ o.instrument \in Instruments
    BY OrderFields DEF Opposite, Sides
<1>2. bk \in [0 .. MaxTicks - 1 -> Seq(Slots)]
    BY <1>1, LevelType DEF OppositeBook, Ticks
<1>3. MaxTicks \in Nat \ {0} /\ o.price \in Int
    BY EngineAssumption, OrderFields DEF Ticks
<1>4. CASE o.side = "BUY"
  <2> HIDE DEF bk
  <2>1. /\ NonEmptyTicks(bk) \subseteq 0 .. MaxTicks - 1
        /\ FindFirst(bk) = NoLevel <=> NonEmptyTicks(bk) = {}
        /\ NonEmptyTicks(bk) # {} =>
            /\ FindFirst(bk) \in NonEmptyTicks(bk)
            /\ \A u \in NonEmptyTicks(bk) : FindFirst(bk) <= u
      BY ONLY <1>2, <1>3, FindFirstProperties
  <2>2. FindFirst(bk) = NoLevel \/ ~ (FindFirst(bk) <= o.price)
      BY <1>4 DEF NothingToMatch, Crosses, BestLevel, bk
  <2>3. \A u \in NonEmptyTicks(bk) : o.price < u
      BY <1>3, <2>1, <2>2
  <2> QED BY <1>4, <2>3 DEF bk
<1>5. CASE o.side # "BUY"
  <2> HIDE DEF bk
  <2>1. /\ NonEmptyTicks(bk) \subseteq 0 .. MaxTicks - 1
        /\ FindLast(bk) = NoLevel <=> NonEmptyTicks(bk) = {}
        /\ NonEmptyTicks(bk) # {} =>
            /\ FindLast(bk) \in NonEmptyTicks(bk)
            /\ \A u \in NonEmptyTicks(bk) : u <= FindLast(bk)
      BY ONLY <1>2, <1>3, FindLastProperties
  <2>2. FindLast(bk) = NoLevel \/ ~ (FindLast(bk) >= o.price)
      BY <1>5 DEF NothingToMatch, Crosses, BestLevel, bk
  <2>3. \A u \in NonEmptyTicks(bk) : u < o.price
      BY <1>3, <2>1, <2>2
  <2> QED BY <1>5, <2>3 DEF bk
<1> QED BY <1>4, <1>5

\* A report the engine builds is an ExecutionReport.
LEMMA ReportType ==
    ASSUME NEW o \in Order, NEW price \in Ticks, NEW q \in Quantities,
           NEW status \in {"New", "Pfill", "Fill"}
    PROVE  Report(o, price, q, status) \in ExecutionReport
BY OrderFields DEF Report, ExecutionReport

\* A bid or an offer is at every tick whose level holds a place.
LEMMA NonEmptyPlaces ==
    ASSUME NEW bk \in Books, NEW side \in Sides, NEW i \in Instruments
    PROVE  NonEmptyTicks(bk[side][i]) = {t \in Ticks : Len(bk[side][i][t]) # 0}
BY LevelType DEF NonEmptyTicks

\* What is left of the incoming order joins the back of its level.
LEMMA RestStep ==
    ASSUME CoreInv, Rest
    PROVE  /\ CoreInv' /\ Unreached' = Unreached
           /\ Live' = Live /\ RestingSlots' = RestingSlots \cup {incoming}
<1> DEFINE o == order_pool_[incoming]
<1>1. /\ incoming # NULL /\ o.quantity > 0 /\ NothingToMatch(o)
      /\ books' = [books EXCEPT ![o.side][o.instrument] =
                                    AddOrder(@, o.price, incoming)]
      /\ reports' = reports \o RestReports(o)
      /\ incoming' = NULL /\ matched_any' = FALSE
      /\ UNCHANGED <<order_pool_, accepted>>
    BY DEF Rest, RestOnBook
<1>2. incoming \in Slots /\ o \in Order /\ books \in Books
    BY <1>1 DEF CoreInv, CoreTypes
<1>3. PICK sd \in Sides, ins \in Instruments, p \in Ticks :
            sd = o.side /\ ins = o.instrument /\ p = o.price
    BY <1>2, OrderFields
<1>4. o.quantity \in Quantities
    BY <1>1, <1>2, OrderFields, EngineAssumption DEF Quantities
<1>5. OnePlaceMore(books, books', sd, ins, p, incoming)
  <2>1. books' = [books EXCEPT ![sd][ins] = AddOrder(@, p, incoming)]
      BY <1>1, <1>3
  <2> QED BY ONLY <1>2, <2>1, PlacesAfterAdd, sd \in Sides, ins \in Instruments,
                  p \in Ticks
<1>6. books' \in Books
    BY <1>5 DEF OnePlaceMore
<1>7. ASSUME NEW side \in Sides, NEW i \in Instruments, NEW t \in Ticks,
             NEW k \in 1 .. Len(books'[side][i][t])
      PROVE  \/ /\ side = sd /\ i = ins /\ t = p
                /\ books'[side][i][t][k] = incoming
                /\ \A j \in 1 .. k - 1 :
                    /\ j \in 1 .. Len(books[side][i][t])
                    /\ books'[side][i][t][j] = books[side][i][t][j]
             \/ /\ k \in 1 .. Len(books[side][i][t])
                /\ \A j \in 1 .. k : books'[side][i][t][j] = books[side][i][t][j]
    BY <1>5 DEF OnePlaceMore
<1> HIDE DEF o
<1>8. RestingSlots' = RestingSlots \cup {incoming}
  <2>1. ASSUME NEW side \in Sides, NEW i \in Instruments, NEW t \in Ticks,
               NEW k \in 1 .. Len(books'[side][i][t])
        PROVE  books'[side][i][t][k] \in RestingSlots \cup {incoming}
    <3>1. CASE books'[side][i][t][k] = incoming
        BY <3>1
    <3>2. CASE books'[side][i][t][k] # incoming
      <4>1. k \in 1 .. k
          BY <1>6, LevelType
      <4>2. /\ k \in 1 .. Len(books[side][i][t])
            /\ books'[side][i][t][k] = books[side][i][t][k]
          BY <1>7, <3>2, <4>1
      <4>3. PlaceOK(side, i, t, k)
          BY <4>2, PlaceFacts
      <4> QED BY <4>2, <4>3 DEF PlaceOK
    <3> QED BY <3>1, <3>2
  <2>2. RestingSlots' \subseteq RestingSlots \cup {incoming}
    <3> SUFFICES ASSUME NEW s \in RestingSlots'
                 PROVE  s \in RestingSlots \cup {incoming}
        OBVIOUS
    <3>1. PICK side \in Sides, i \in Instruments, t \in Ticks :
            \E k \in 1 .. Len(books'[side][i][t]) : books'[side][i][t][k] = s
        BY DEF RestingSlots
    <3> QED BY <2>1, <3>1
  <2>3. incoming \in RestingSlots'
      BY <1>2, <1>5 DEF RestingSlots, OnePlaceMore
  <2>4. ASSUME NEW s \in RestingSlots
        PROVE  s \in RestingSlots'
    <3>1. PICK side \in Sides, i \in Instruments, t \in Ticks :
            \E k \in 1 .. Len(books[side][i][t]) : books[side][i][t][k] = s
        BY DEF RestingSlots
    <3>2. PICK k \in 1 .. Len(books[side][i][t]) : books[side][i][t][k] = s
        BY <3>1
    <3>3. k \in 1 .. Len(books'[side][i][t]) /\ books'[side][i][t][k] = s
        BY <1>5, <3>2 DEF OnePlaceMore
    <3> QED BY <3>3 DEF RestingSlots
  <2> QED BY <2>2, <2>3, <2>4
<1>9. CoreTypes'
    BY <1>1, <1>6 DEF CoreInv, CoreTypes
<1>10. /\ RestingSlots' \subseteq Live' /\ incoming' \notin RestingSlots'
       /\ Live' = Live /\ Unreached' = Unreached
  <2>1. Live' = Live /\ incoming \in Live
      BY <1>1, <1>2, OrderFields DEF Live, CoreInv, CoreTypes
  <2>2. NULL \notin RestingSlots' /\ NULL \notin Live
      BY EngineAssumption DEF RestingSlots, Live
  <2> QED BY <1>1, <1>8, <2>1, <2>2 DEF CoreInv, Unreached
<1>11. RestingOrdersPlaced'
  <2>1. ASSUME NEW side \in Sides, NEW i \in Instruments, NEW t \in Ticks,
               NEW k \in 1 .. Len(books'[side][i][t])
        PROVE  LET q == order_pool_[books'[side][i][t][k]] IN
               /\ q.side = side /\ q.instrument = i /\ q.price = t
               /\ q.quantity > 0
               /\ \A j \in 1 .. k - 1 :
                    order_pool_[books'[side][i][t][j]].oid < q.oid
    <3>1. k \in Nat \ {0} /\ k \in 1 .. k /\ \A j \in 1 .. k - 1 : j \in 1 .. k
        BY <1>6, LevelType
    <3>2. CASE /\ side = sd /\ i = ins /\ t = p
               /\ books'[side][i][t][k] = incoming
               /\ \A j \in 1 .. k - 1 :
                    /\ j \in 1 .. Len(books[side][i][t])
                    /\ books'[side][i][t][j] = books[side][i][t][j]
      <4>1. ASSUME NEW j \in 1 .. k - 1
            PROVE  order_pool_[books'[side][i][t][j]].oid < o.oid
        <5>1. PlaceOK(side, i, t, j)
            BY <3>2, PlaceFacts
        <5> QED BY <1>1, <3>2, <5>1 DEF PlaceOK, CoreInv, IncomingYoungest, o
      <4> QED BY <1>1, <1>3, <3>2, <4>1 DEF o
    <3>3. CASE /\ k \in 1 .. Len(books[side][i][t])
               /\ \A j \in 1 .. k : books'[side][i][t][j] = books[side][i][t][j]
      <4>1. PlaceOK(side, i, t, k)
          BY <3>3, PlaceFacts
      <4>2. books'[side][i][t][k] = books[side][i][t][k]
          BY <3>1, <3>3
      <4>3. ASSUME NEW j \in 1 .. k - 1
            PROVE  books'[side][i][t][j] = books[side][i][t][j]
          BY <3>1, <3>3
      <4> QED BY <4>1, <4>2, <4>3, SMTT(30) DEF PlaceOK, Quantities
    <3> QED BY <1>7, <3>2, <3>3
  <2>2. order_pool_' = order_pool_
      BY <1>1
  <2> QED BY ONLY <2>1, <2>2 DEF RestingOrdersPlaced
<1>12. NotCrossed'
  <2>1. \A u \in NonEmptyTicks(books[Opposite(sd)][ins]) :
            IF sd = "BUY" THEN p < u ELSE u < p
      BY <1>1, <1>2, <1>3, NothingToMatchMeaning DEF OppositeBook
  <2>2. ASSUME NEW side \in Sides, NEW i \in Instruments,
               NEW t \in NonEmptyTicks(books'[side][i])
        PROVE  \/ t \in NonEmptyTicks(books[side][i])
               \/ side = sd /\ i = ins /\ t = p
    <3>1. t \in Ticks /\ Len(books'[side][i][t]) \in Nat \ {0}
        BY <1>6, NonEmptyPlaces, LevelType
    <3>2. 1 \in 1 .. Len(books'[side][i][t])
        BY <3>1
    <3>3. Len(books[side][i][t]) \in Nat
        BY <1>2, <3>1, LevelType
    <3>4. \/ side = sd /\ i = ins /\ t = p
          \/ 1 \in 1 .. Len(books[side][i][t])
        BY <1>7, <3>1, <3>2
    <3> QED BY <1>2, <3>1, <3>3, <3>4, NonEmptyPlaces
  <2>3. ASSUME NEW i \in Instruments,
               NEW bid \in NonEmptyTicks(books'["BUY"][i]),
               NEW offer \in NonEmptyTicks(books'["SELL"][i])
        PROVE  bid < offer
    <3>1. "BUY" \in Sides /\ "SELL" \in Sides
        BY DEF Sides
    <3>2. \/ bid \in NonEmptyTicks(books["BUY"][i])
          \/ sd = "BUY" /\ i = ins /\ bid = p
        BY <2>2, <3>1
    <3>3. \/ offer \in NonEmptyTicks(books["SELL"][i])
          \/ sd = "SELL" /\ i = ins /\ offer = p
        BY <2>2, <3>1
    <3>4. CASE /\ bid \in NonEmptyTicks(books["BUY"][i])
               /\ offer \in NonEmptyTicks(books["SELL"][i])
        BY <3>4 DEF CoreInv, NotCrossed
    <3>5. CASE sd = "BUY" /\ i = ins /\ bid = p
        BY <2>1, <3>3, <3>5 DEF Opposite
    <3>6. CASE sd = "SELL" /\ i = ins /\ offer = p
        BY <2>1, <3>2, <3>6 DEF Opposite
    <3> QED BY <3>2, <3>3, <3>4, <3>5, <3>6
  <2> QED BY <2>3 DEF NotCrossed
<1>13. IncomingYoungest'
    BY <1>1 DEF IncomingYoungest
<1> QED BY <1>8, <1>9, <1>10, <1>11, <1>12, <1>13 DEF CoreInv

\* The best level the loop finds is a level of the other side with an order.
LEMMA BestLevelMeaning ==
    ASSUME books \in Books, NEW o \in Order, BestLevel(o) # NoLevel
    PROVE  BestLevel(o) \in NonEmptyTicks(OppositeBook(o))
<1> DEFINE bk == OppositeBook(o)
<1>1. Opposite(o.side) \in Sides /\ o.instrument \in Instruments
    BY OrderFields DEF Opposite, Sides
<1>2. bk \in [0 .. MaxTicks - 1 -> Seq(Slots)]
    BY <1>1, LevelType DEF OppositeBook, Ticks
<1>3. MaxTicks \in Nat \ {0}
    BY EngineAssumption
<1> HIDE DEF bk
<1>4. FindFirst(bk) # NoLevel => FindFirst(bk) \in NonEmptyTicks(bk)
    BY ONLY <1>2, <1>3, FindFirstProperties
<1>5. FindLast(bk) # NoLevel => FindLast(bk) \in NonEmptyTicks(bk)
    BY ONLY <1>2, <1>3, FindLastProperties
<1> QED BY <1>4, <1>5 DEF BestLevel, bk

\* Place k of a level of `new' holds what place m of that level held in `bk',
\* which is not the place given up, and the places before k held places before m.
MovedUp(bk, new, sd, ins, p, side, i, t, k, m) ==
    /\ ~ (side = sd /\ i = ins /\ t = p /\ m = 1)
    /\ new[side][i][t][k] = bk[side][i][t][m]
    /\ \A j \in 1 .. k - 1 : \E h \in 1 .. m - 1 :
        /\ h \in 1 .. Len(bk[side][i][t])
        /\ ~ (side = sd /\ i = ins /\ t = p /\ h = 1)
        /\ new[side][i][t][j] = bk[side][i][t][h]

\* What a trade of qty with the order in slot `resting' does.
TradeEffect(resting, qty) ==
    LET o == order_pool_[incoming]
        r == order_pool_[resting]
    IN /\ incoming \in Slots /\ incoming # NULL /\ resting # incoming
       /\ o \in Order /\ r \in Order
       /\ o.quantity \in Quantities /\ r.quantity \in Quantities
       /\ qty <= o.quantity /\ qty <= r.quantity
       /\ qty = o.quantity \/ qty = r.quantity
       /\ resting = PeekOrder(OppositeBook(o), BestLevel(o), NULL)
       /\ Crosses(o, BestLevel(o))
       /\ r.instrument = o.instrument /\ r.side = Opposite(o.side)
       /\ r.price = BestLevel(o) /\ r.oid < o.oid
       /\ order_pool_'[incoming] = [o EXCEPT !.quantity = @ - qty]
       /\ order_pool_'[resting] = AfterTrade(r, qty)
       /\ \A s \in Slots \ {incoming, resting} : order_pool_'[s] = order_pool_[s]
       /\ RestingSlots' = IF r.quantity = qty THEN RestingSlots \ {resting}
                          ELSE RestingSlots
       /\ Live' = IF r.quantity = qty THEN Live \ {resting} ELSE Live
       /\ reports' = reports \o TradeReports(o, r, r.price, qty)
       /\ matched_any' = TRUE /\ incoming' = incoming /\ accepted' = accepted

\* One trade: the incoming order and the oldest order of the best level shrink,
\* and the resting order leaves book and pool together when it is used up.
LEMMA MatchStep ==
    ASSUME CoreInv, Match
    PROVE  /\ CoreInv' /\ Unreached' = Unreached
           /\ \E resting \in RestingSlots, qty \in Quantities :
                TradeEffect(resting, qty)
<1> DEFINE o == order_pool_[incoming]
           best == BestLevel(o)
           resting == PeekOrder(OppositeBook(o), best, NULL)
           r == order_pool_[resting]
           qty == Smaller(o.quantity, r.quantity)
<1>1. /\ incoming # NULL /\ o.quantity > 0 /\ Crosses(o, best) /\ resting # NULL
      /\ order_pool_' = [order_pool_ EXCEPT
                            ![incoming] = [o EXCEPT !.quantity = @ - qty],
                            ![resting] = AfterTrade(r, qty)]
      /\ books' = IF r.quantity # qty THEN books
                  ELSE [books EXCEPT ![Opposite(o.side)][o.instrument] =
                                            PopOrder(@, best)]
      /\ reports' = reports \o TradeReports(o, r, best, qty)
      /\ matched_any' = TRUE
      /\ UNCHANGED <<incoming, accepted>>
    BY DEF Match, Trade
<1>2. incoming \in Slots /\ o \in Order /\ books \in Books
    BY <1>1 DEF CoreInv, CoreTypes
<1>3. PICK sd \in Sides, ins \in Instruments :
            sd = Opposite(o.side) /\ ins = o.instrument
    BY <1>2, OrderFields DEF Opposite, Sides
<1>4. best \in NonEmptyTicks(books[sd][ins])
    BY <1>1, <1>2, <1>3, BestLevelMeaning DEF Crosses, OppositeBook
<1>5. PICK p \in Ticks : p = best
    BY <1>2, <1>4, NonEmptyPlaces
<1>6. /\ books[sd][ins][p] # << >>
      /\ 1 \in 1 .. Len(books[sd][ins][p])
      /\ resting = books[sd][ins][p][1]
  <2>1. books[sd][ins] \in [Ticks -> Seq(Slots)] /\ books[sd][ins][p] # << >>
      BY <1>2, <1>4, <1>5, LevelType DEF NonEmptyTicks
  <2>2. Len(books[sd][ins][p]) \in Nat \ {0}
      BY <1>2, <2>1, LevelType
  <2>3. resting = books[sd][ins][p][1]
      BY <1>3, <1>5, <2>1, PeekOrderProperties DEF OppositeBook
  <2> QED BY <2>1, <2>2, <2>3
<1>7. PlaceOK(sd, ins, p, 1)
    BY <1>6, PlaceFacts
<1>8. /\ resting \in Slots /\ resting \in RestingSlots /\ resting \in Live
      /\ resting # incoming /\ r \in Order /\ r.quantity \in Quantities
    BY <1>6, <1>7 DEF PlaceOK
<1>9. /\ qty \in Quantities /\ o.quantity - qty \in 0 .. MaxQuantity
      /\ r.quantity - qty \in 0 .. MaxQuantity
  <2>1. o.quantity \in 1 .. MaxQuantity /\ r.quantity \in 1 .. MaxQuantity
      BY <1>1, <1>2, <1>8, OrderFields, EngineAssumption DEF Quantities
  <2> QED BY <2>1, EngineAssumption DEF Smaller, Quantities
<1> HIDE DEF o, best, resting, r, qty
<1>10. /\ order_pool_'[incoming] \in Order
       /\ order_pool_'[incoming].oid = o.oid
    BY <1>1, <1>2, <1>8, <1>9 DEF CoreInv, CoreTypes, Order
<1>11. order_pool_'[resting] = AfterTrade(r, qty)
    BY <1>1, <1>8 DEF CoreInv, CoreTypes
<1>12. \A s \in Slots \ {incoming, resting} : order_pool_'[s] = order_pool_[s]
    BY <1>1 DEF CoreInv, CoreTypes
<1> DEFINE used == r.quantity = qty
<1>13. ASSUME Live' = IF used THEN Live \ {resting} ELSE Live,
              RestingSlots' = IF used THEN RestingSlots \ {resting}
                              ELSE RestingSlots
       PROVE  \E slot \in RestingSlots, q \in Quantities : TradeEffect(slot, q)
  <2>1. PICK slot \in RestingSlots, q \in Quantities : slot = resting /\ q = qty
      BY <1>8, <1>9
  <2>2. order_pool_'[incoming] = [o EXCEPT !.quantity = @ - q]
      BY <1>1, <1>2, <1>8, <2>1 DEF CoreInv, CoreTypes
  <2>3. o.quantity \in Quantities
      BY <1>1, <1>2, OrderFields, EngineAssumption DEF Quantities
  <2>4. q <= o.quantity /\ q <= r.quantity /\ (q = o.quantity \/ q = r.quantity)
      BY <1>8, <2>1, <2>3, EngineAssumption DEF Smaller, Quantities, qty
  <2>5. /\ r.instrument = ins /\ r.side = sd /\ r.price = p /\ r.oid < o.oid
      BY <1>1, <1>6, <1>7, <1>8 DEF PlaceOK, CoreInv, IncomingYoungest, o, r
  <2>6. reports' = reports \o TradeReports(o, r, r.price, q)
      BY <1>1, <1>5, <2>1, <2>5
  <2>7. slot = PeekOrder(OppositeBook(o), BestLevel(o), NULL)
      BY <2>1 DEF resting, best
  <2>8. r.price = BestLevel(o) /\ Crosses(o, BestLevel(o))
      BY <1>1, <1>5, <2>5 DEF best
  <2>9. order_pool_'[slot] = AfterTrade(r, q)
      BY <1>11, <2>1
  <2>10. \A s \in Slots \ {incoming, slot} : order_pool_'[s] = order_pool_[s]
      BY <1>12, <2>1
  <2>11. /\ Live' = IF r.quantity = q THEN Live \ {slot} ELSE Live
         /\ RestingSlots' = IF r.quantity = q THEN RestingSlots \ {slot}
                            ELSE RestingSlots
      BY <1>13, <2>1
  <2>12. /\ incoming \in Slots /\ incoming # NULL /\ slot # incoming
         /\ o \in Order /\ r \in Order /\ r.quantity \in Quantities
      BY <1>1, <1>2, <1>8, <2>1
  <2>13. o = order_pool_[incoming] /\ r = order_pool_[slot]
      BY <2>1 DEF o, r
  <2>14. matched_any' = TRUE /\ incoming' = incoming /\ accepted' = accepted
      BY <1>1
  <2>15. r.instrument = o.instrument /\ r.side = Opposite(o.side) /\ r.oid < o.oid
      BY <1>3, <2>5
  <2> HIDE DEF o, r
  <2>16. TradeEffect(slot, q)
      BY ONLY <2>2, <2>3, <2>4, <2>6, <2>7, <2>8, <2>9, <2>10, <2>11, <2>12,
              <2>13, <2>14, <2>15 DEF TradeEffect
  <2> QED BY <2>16
<1> HIDE DEF used
<1>14. CASE r.quantity = qty
    \* The resting order is used up.
  <2>1. order_pool_'[resting] = NoOrder
      BY <1>11, <1>14 DEF AfterTrade
  <2>2. OnePlaceLess(books, books', sd, ins, p)
    <3>1. books' = [books EXCEPT ![sd][ins] = PopOrder(@, p)]
        BY <1>1, <1>3, <1>5, <1>14
    <3> QED BY ONLY <1>2, <1>6, <3>1, PlacesAfterPop, sd \in Sides,
                    ins \in Instruments, p \in Ticks
  <2>3. books' \in Books
      BY <2>2 DEF OnePlaceLess
  <2>4. ASSUME NEW side \in Sides, NEW i \in Instruments, NEW t \in Ticks,
               NEW k \in 1 .. Len(books[side][i][t]),
               ~ (side = sd /\ i = ins /\ t = p /\ k = 1)
        PROVE  /\ PlaceOK(side, i, t, k)
               /\ books[side][i][t][k] # resting
               /\ order_pool_'[books[side][i][t][k]] = order_pool_[books[side][i][t][k]]
    <3>1. PlaceOK(side, i, t, k)
        BY PlaceFacts
    <3>2. books[side][i][t][k] # resting
        BY <1>6, <2>4, OnePlace
    <3> QED BY <1>12, <3>1, <3>2 DEF PlaceOK
  <2>5. ASSUME NEW side \in Sides, NEW i \in Instruments, NEW t \in Ticks,
               NEW k \in 1 .. Len(books'[side][i][t])
        PROVE  \E m \in 1 .. Len(books[side][i][t]) :
                MovedUp(books, books', sd, ins, p, side, i, t, k, m)
    <3>1. k \in Nat \ {0} /\ k \in 1 .. k /\ Len(books[side][i][t]) \in Nat
        BY <1>2, <2>3, LevelType
    <3>2. CASE /\ side = sd /\ i = ins /\ t = p
               /\ \A j \in 1 .. k :
                    /\ j + 1 \in 1 .. Len(books[side][i][t])
                    /\ books'[side][i][t][j] = books[side][i][t][j + 1]
      <4>1. /\ k + 1 \in 1 .. Len(books[side][i][t]) /\ k + 1 # 1
            /\ books'[side][i][t][k] = books[side][i][t][k + 1]
          BY <3>1, <3>2, SMTT(30)
      <4>2. ASSUME NEW j \in 1 .. k - 1
            PROVE  /\ j + 1 \in 1 .. (k + 1) - 1 /\ j + 1 # 1
                   /\ j + 1 \in 1 .. Len(books[side][i][t])
                   /\ books'[side][i][t][j] = books[side][i][t][j + 1]
        <5>1. j \in 1 .. k /\ j + 1 \in 1 .. (k + 1) - 1 /\ j + 1 # 1
            BY <3>1
        <5> QED BY <3>2, <5>1
      <4> QED BY <4>1, <4>2 DEF MovedUp
    <3>3. CASE /\ ~ (side = sd /\ i = ins /\ t = p)
               /\ k \in 1 .. Len(books[side][i][t])
               /\ \A j \in 1 .. k : books'[side][i][t][j] = books[side][i][t][j]
      <4>1. \A j \in 1 .. k - 1 : j \in 1 .. k /\ j \in 1 .. Len(books[side][i][t])
          BY <3>1, <3>3
      <4> QED BY <3>1, <3>3, <4>1 DEF MovedUp
    <3> QED BY <2>2, <3>2, <3>3 DEF OnePlaceLess
  <2>6. Live' = Live \ {resting}
    <3>1. \A s \in Slots : s \in Live' <=> (s \in Live /\ s # resting)
        BY <1>1, <1>2, <1>8, <1>10, <1>12, <2>1, OrderFields DEF Live, o
    <3> QED BY <3>1 DEF Live
  <2>7. RestingSlots' = RestingSlots \ {resting}
    <3>1. ASSUME NEW s \in RestingSlots'
          PROVE  s \in RestingSlots \ {resting}
      <4>1. PICK side \in Sides, i \in Instruments, t \in Ticks :
                \E k \in 1 .. Len(books'[side][i][t]) : books'[side][i][t][k] = s
          BY DEF RestingSlots
      <4>2. PICK k \in 1 .. Len(books'[side][i][t]) : books'[side][i][t][k] = s
          BY <4>1
      <4>3. PICK m \in 1 .. Len(books[side][i][t]) :
                MovedUp(books, books', sd, ins, p, side, i, t, k, m)
          BY <2>5
      <4>4. /\ ~ (side = sd /\ i = ins /\ t = p /\ m = 1)
            /\ s = books[side][i][t][m]
          BY <4>2, <4>3 DEF MovedUp
      <4> QED BY <2>4, <4>4 DEF PlaceOK
    <3>2. ASSUME NEW s \in RestingSlots, s # resting
          PROVE  s \in RestingSlots'
      <4>1. PICK side \in Sides, i \in Instruments, t \in Ticks :
                \E k \in 1 .. Len(books[side][i][t]) : books[side][i][t][k] = s
          BY DEF RestingSlots
      <4>2. PICK k \in 1 .. Len(books[side][i][t]) : books[side][i][t][k] = s
          BY <4>1
      <4>3. ~ (side = sd /\ i = ins /\ t = p /\ k = 1)
          BY <1>6, <3>2, <4>2
      <4>4. \E j \in 1 .. Len(books'[side][i][t]) : books'[side][i][t][j] = s
        <5>1. \/ side = sd /\ i = ins /\ t = p /\ k = 1
              \/ \E j \in 1 .. Len(books'[side][i][t]) :
                    books'[side][i][t][j] = books[side][i][t][k]
            BY ONLY <2>2, k \in 1 .. Len(books[side][i][t]), side \in Sides,
                    i \in Instruments, t \in Ticks DEF OnePlaceLess
        <5> QED BY ONLY <4>2, <4>3, <5>1
      <4> QED BY <4>4 DEF RestingSlots
    <3> QED BY <3>1, <3>2
  <2>8. CoreTypes'
    <3>1. order_pool_' \in [Slots -> Order \cup {NoOrder}]
        BY <1>1, <1>2, <1>8, <1>10, <2>1, <1>12 DEF CoreInv, CoreTypes
    <3>2. order_pool_'[incoming] # NoOrder
        BY <1>10, OrderFields
    <3> QED BY <1>1, <2>3, <3>1, <3>2 DEF CoreInv, CoreTypes
  <2>9. /\ RestingSlots' \subseteq Live' /\ incoming' \notin RestingSlots'
        /\ Unreached' = Unreached
      BY <1>1, <1>8, <2>6, <2>7 DEF CoreInv, Unreached
  <2>10. RestingOrdersPlaced'
    <3>1. ASSUME NEW side \in Sides, NEW i \in Instruments, NEW t \in Ticks,
                 NEW k \in 1 .. Len(books'[side][i][t])
          PROVE  LET q == order_pool_'[books'[side][i][t][k]] IN
                 /\ q.side = side /\ q.instrument = i /\ q.price = t
                 /\ q.quantity > 0
                 /\ \A j \in 1 .. k - 1 :
                        order_pool_'[books'[side][i][t][j]].oid < q.oid
      <4>1. PICK m \in 1 .. Len(books[side][i][t]) :
                MovedUp(books, books', sd, ins, p, side, i, t, k, m)
          BY <2>5
      <4>2. /\ PlaceOK(side, i, t, m)
            /\ order_pool_'[books'[side][i][t][k]] = order_pool_[books[side][i][t][m]]
          BY <2>4, <4>1 DEF MovedUp
      <4>3. ASSUME NEW j \in 1 .. k - 1
            PROVE  order_pool_'[books'[side][i][t][j]].oid
                        < order_pool_[books[side][i][t][m]].oid
        <5>1. PICK h \in 1 .. m - 1 :
                /\ h \in 1 .. Len(books[side][i][t])
                /\ ~ (side = sd /\ i = ins /\ t = p /\ h = 1)
                /\ books'[side][i][t][j] = books[side][i][t][h]
            BY <4>1 DEF MovedUp
        <5>2. order_pool_'[books'[side][i][t][j]] = order_pool_[books[side][i][t][h]]
            BY <2>4, <5>1
        <5> QED BY <4>2, <5>2 DEF PlaceOK
      <4>4. /\ order_pool_[books[side][i][t][m]].side = side
            /\ order_pool_[books[side][i][t][m]].instrument = i
            /\ order_pool_[books[side][i][t][m]].price = t
            /\ order_pool_[books[side][i][t][m]].quantity > 0
        <5>1. order_pool_[books[side][i][t][m]].quantity \in Quantities
            BY <4>2 DEF PlaceOK
        <5>2. order_pool_[books[side][i][t][m]].quantity > 0
            BY ONLY <5>1, EngineAssumption DEF Quantities
        <5> QED BY <4>2, <5>2 DEF PlaceOK
      <4> QED BY <4>2, <4>3, <4>4
    <3> QED BY ONLY <3>1 DEF RestingOrdersPlaced
  <2>11. NotCrossed'
    <3>1. ASSUME NEW side \in Sides, NEW i \in Instruments,
                 NEW t \in NonEmptyTicks(books'[side][i])
          PROVE  t \in NonEmptyTicks(books[side][i])
      <4>1. t \in Ticks /\ 1 \in 1 .. Len(books'[side][i][t])
          BY <2>3, NonEmptyPlaces, LevelType
      <4>2. \E m \in 1 .. Len(books[side][i][t]) : TRUE
          BY <2>5, <4>1
      <4>3. Len(books[side][i][t]) # 0
          BY <4>2
      <4> QED BY <1>2, <4>1, <4>3, NonEmptyPlaces
    <3>2. "BUY" \in Sides /\ "SELL" \in Sides
        BY DEF Sides
    <3> QED BY <3>1, <3>2 DEF CoreInv, NotCrossed
  <2>12. IncomingYoungest'
    <3>1. \A s \in RestingSlots' : /\ s \in RestingSlots
                                   /\ order_pool_'[s] = order_pool_[s]
        BY <1>12, <2>7 DEF CoreInv, Live
    <3> QED BY <1>1, <1>10, <3>1 DEF CoreInv, IncomingYoungest, o
  <2> QED BY <1>13, <1>14, <2>6, <2>7, <2>8, <2>9, <2>10, <2>11, <2>12
          DEF CoreInv, used
<1>15. CASE r.quantity # qty
    \* The resting order keeps its place with what is left.
  <2>1. books' = books
      BY <1>1, <1>15
  <2>2. /\ order_pool_'[resting] \in Order
        /\ order_pool_'[resting].oid = r.oid
        /\ order_pool_'[resting].side = r.side
        /\ order_pool_'[resting].instrument = r.instrument
        /\ order_pool_'[resting].price = r.price
        /\ order_pool_'[resting].quantity > 0
    <3>1. order_pool_'[resting] = [r EXCEPT !.quantity = @ - qty]
        BY <1>11, <1>15 DEF AfterTrade
    <3>2. r.quantity - qty > 0
        BY <1>8, <1>9, <1>15, EngineAssumption DEF Quantities
    <3> QED BY <1>8, <1>9, <3>1, <3>2 DEF Order
  <2>3. Live' = Live /\ RestingSlots' = RestingSlots
    <3>1. \A s \in Slots : s \in Live' <=> s \in Live
        BY <1>1, <1>2, <1>8, <1>10, <1>12, <2>2, OrderFields DEF Live, o
    <3> QED BY <2>1, <3>1 DEF Live, RestingSlots
  <2>4. ASSUME NEW s \in RestingSlots
        PROVE  /\ order_pool_'[s].oid = order_pool_[s].oid
               /\ order_pool_'[s].side = order_pool_[s].side
               /\ order_pool_'[s].instrument = order_pool_[s].instrument
               /\ order_pool_'[s].price = order_pool_[s].price
               /\ order_pool_[s].quantity > 0 => order_pool_'[s].quantity > 0
    <3>1. s \in Slots /\ s # incoming
        BY DEF CoreInv, RestingSlots
    <3> QED BY <1>12, <2>2, <3>1 DEF r
  <2>5. CoreTypes'
    <3>1. order_pool_' \in [Slots -> Order \cup {NoOrder}]
        BY <1>1, <1>2, <1>8, <1>10, <2>2, <1>12 DEF CoreInv, CoreTypes
    <3>2. order_pool_'[incoming] # NoOrder
        BY <1>10, OrderFields
    <3> QED BY <1>1, <1>2, <2>1, <3>1, <3>2 DEF CoreInv, CoreTypes
  <2>6. /\ RestingSlots' \subseteq Live' /\ incoming' \notin RestingSlots'
        /\ Unreached' = Unreached
      BY <1>1, <2>3 DEF CoreInv, Unreached
  <2>7. RestingOrdersPlaced'
    <3>1. ASSUME NEW side \in Sides, NEW i \in Instruments, NEW t \in Ticks,
                 NEW k \in 1 .. Len(books[side][i][t])
          PROVE  LET q == order_pool_'[books[side][i][t][k]] IN
                 /\ q.side = side /\ q.instrument = i /\ q.price = t
                 /\ q.quantity > 0
                 /\ \A j \in 1 .. k - 1 :
                        order_pool_'[books[side][i][t][j]].oid < q.oid
      <4>1. PlaceOK(side, i, t, k)
          BY PlaceFacts
      <4>2. ASSUME NEW j \in 1 .. k - 1
            PROVE  order_pool_'[books[side][i][t][j]].oid
                        = order_pool_[books[side][i][t][j]].oid
        <5>1. j \in 1 .. Len(books[side][i][t])
            BY <1>2, LevelType
        <5>2. PlaceOK(side, i, t, j)
            BY <5>1, PlaceFacts
        <5> QED BY <2>4, <5>2 DEF PlaceOK
      <4> QED BY <2>4, <4>1, <4>2, SMTT(30) DEF PlaceOK, Quantities
    <3> QED BY ONLY <2>1, <3>1 DEF RestingOrdersPlaced
  <2>8. NotCrossed'
      BY <2>1 DEF CoreInv, NotCrossed
  <2>9. IncomingYoungest'
      BY <1>1, <1>10, <2>3, <2>4 DEF CoreInv, IncomingYoungest, o
  <2> QED BY <1>13, <1>15, <2>3, <2>5, <2>6, <2>7, <2>8, <2>9 DEF CoreInv, used
<1> QED BY <1>14, <1>15

-----------------------------------------------------------------------------
(* The theorems.                                                            *)

\* The reports the engine builds are ExecutionReports.
LEMMA TradeReportsType ==
    ASSUME NEW o \in Order, NEW r \in Order, NEW price \in Ticks,
           NEW qty \in Quantities
    PROVE  TradeReports(o, r, price, qty) \in Seq(ExecutionReport)
BY ReportType DEF TradeReports, FillStatus

LEMMA RestReportsType ==
    ASSUME CoreInv, incoming # NULL, order_pool_[incoming].quantity > 0
    PROVE  RestReports(order_pool_[incoming]) \in Seq(ExecutionReport)
<1> DEFINE o == order_pool_[incoming]
<1>1. o \in Order /\ o.quantity \in Quantities
    BY ReachedOrders, OrderFields, EngineAssumption DEF Quantities
<1> HIDE DEF o
<1>2. Report(o, o.price, o.quantity, "New") \in ExecutionReport
    BY <1>1, OrderFields, ReportType
<1> QED BY <1>2 DEF RestReports, o

\* A step that changes nothing.
LEMMA StutterKeepsCore ==
    ASSUME CoreInv, order_pool_' = order_pool_, books' = books,
           incoming' = incoming, matched_any' = matched_any
    PROVE  CoreInv' /\ Live' = Live /\ RestingSlots' = RestingSlots
<1>1. Live' = Live /\ RestingSlots' = RestingSlots
    BY DEF Live, RestingSlots
<1>2. RestingOrdersPlaced' /\ NotCrossed'
    BY SameBooks
<1>3. CoreTypes'
    BY DEF CoreInv, CoreTypes
<1> QED BY <1>1, <1>2, <1>3 DEF CoreInv, IncomingYoungest

\* Every step of the engine keeps the invariant.
LEMMA IInvStep == IInv /\ [Next]_vars => IInv'
<1> SUFFICES ASSUME IInv, [Next]_vars PROVE IInv'
    OBVIOUS
<1>1. /\ CoreInv /\ Unreached = {} /\ reports \in Seq(ExecutionReport)
      /\ accepted \in Seq(Order) /\ Len(accepted) \in Nat
      /\ \A s \in Live : order_pool_[s].oid \in Nat /\ order_pool_[s].oid <= Len(accepted)
    BY LenProperties, OrderFields DEF IInv, CoreInv, CoreTypes, Live
<1>2. CASE Arrive
  <2>1. PICK slot \in Slots, o \in Order :
            o.oid = Len(accepted) + 1 /\ ProcessOrder(slot, o)
    <3>1. PICK slot \in Slots, i \in Instruments, side \in Sides, price \in Ticks,
               quantity \in Quantities :
            ProcessOrder(slot, [oid |-> Len(accepted) + 1, instrument |-> i,
                                side |-> side, price |-> price,
                                quantity |-> quantity])
        BY <1>2 DEF Arrive
    <3> DEFINE o == [oid |-> Len(accepted) + 1, instrument |-> i, side |-> side,
                     price |-> price, quantity |-> quantity]
    <3>2. o \in Order /\ o.oid = Len(accepted) + 1
        BY <1>1, EngineAssumption DEF Order, Quantities
    <3> HIDE DEF o
    <3>3. ProcessOrder(slot, o)
        BY <3>1 DEF o
    <3> QED BY <3>2, <3>3
  <2>2. \A s \in RestingSlots : order_pool_[s].oid < o.oid
      BY <1>1, <2>1 DEF CoreInv
  <2>3. /\ CoreInv' /\ Unreached' = Unreached /\ Live' = Live \cup {slot}
        /\ slot \notin Live /\ order_pool_'[slot] = o
        /\ \A s \in Slots \ {slot} : order_pool_'[s] = order_pool_[s]
      BY <1>1, <2>1, <2>2, ProcessOrderStep
  <2>4. /\ reports' = reports /\ accepted' \in Seq(Order)
        /\ Len(accepted') = Len(accepted) + 1
      BY <1>1, <2>1, AppendProperties DEF ProcessOrder
  <2>5. \A s \in Live' : order_pool_'[s].oid <= Len(accepted')
      BY <1>1, <2>1, <2>3, <2>4 DEF Live
  <2> QED BY <1>1, <2>3, <2>4, <2>5 DEF IInv
<1>3. CASE Match
  <2>1. /\ CoreInv' /\ Unreached' = Unreached
        /\ \E resting \in RestingSlots, qty \in Quantities : TradeEffect(resting, qty)
      BY <1>1, <1>3, MatchStep
  <2>2. PICK resting \in RestingSlots, qty \in Quantities : TradeEffect(resting, qty)
      BY <2>1
  <2>3. reports' \in Seq(ExecutionReport) /\ accepted' = accepted
    <3> DEFINE o == order_pool_[incoming]
               r == order_pool_[resting]
    <3>1. /\ o \in Order /\ r \in Order /\ r.price \in Ticks /\ accepted' = accepted
          /\ reports' = reports \o TradeReports(o, r, r.price, qty)
        BY <2>2, OrderFields DEF TradeEffect
    <3>2. TradeReports(o, r, r.price, qty) \in Seq(ExecutionReport)
        BY <3>1, TradeReportsType
    <3> QED BY <1>1, <3>1, <3>2, ConcatProperties
  <2>4. \A s \in Live' : s \in Live /\ order_pool_'[s].oid = order_pool_[s].oid
    <3>1. ASSUME NEW s \in Live'
          PROVE  s \in Live /\ order_pool_'[s].oid = order_pool_[s].oid
      <4>1. s \in Live /\ s \in Slots
          BY <2>2 DEF TradeEffect, Live
      <4>2. CASE s = incoming
          BY <2>2, <4>2 DEF TradeEffect, Order
      <4>3. CASE s = resting
          BY <2>2, <3>1, <4>1, <4>3 DEF TradeEffect, AfterTrade, Order, Live
      <4>4. CASE s # incoming /\ s # resting
          BY <2>2, <4>1, <4>4 DEF TradeEffect
      <4> QED BY <4>1, <4>2, <4>3, <4>4
    <3> QED BY <3>1
  <2> QED BY <1>1, <2>1, <2>3, <2>4 DEF IInv
<1>4. CASE Rest
  <2>1. /\ CoreInv' /\ Unreached' = Unreached /\ Live' = Live
      BY <1>1, <1>4, RestStep
  <2>2. /\ incoming # NULL /\ order_pool_[incoming].quantity > 0
        /\ reports' = reports \o RestReports(order_pool_[incoming])
        /\ order_pool_' = order_pool_ /\ accepted' = accepted
      BY <1>4 DEF Rest
  <2>3. reports' \in Seq(ExecutionReport)
      BY <1>1, <2>2, RestReportsType, ConcatProperties
  <2> QED BY <1>1, <2>1, <2>2, <2>3 DEF IInv
<1>5. CASE Finish
  <2>1. /\ CoreInv' /\ Unreached' = Unreached /\ Live' = Live \ {incoming}
        /\ \A s \in Slots \ {incoming} : order_pool_'[s] = order_pool_[s]
      BY <1>1, <1>5, FinishStep
  <2>2. reports' = reports /\ accepted' = accepted
      BY <1>5 DEF Finish
  <2>3. \A s \in Live' : order_pool_'[s].oid <= Len(accepted')
      BY <1>1, <2>1, <2>2 DEF Live
  <2> QED BY <1>1, <2>1, <2>2, <2>3 DEF IInv
<1>6. CASE UNCHANGED vars
  <2>1. /\ order_pool_' = order_pool_ /\ books' = books
        /\ incoming' = incoming /\ matched_any' = matched_any
        /\ reports' = reports /\ accepted' = accepted
      BY <1>6 DEF vars
  <2>2. CoreInv' /\ Live' = Live /\ RestingSlots' = RestingSlots
      BY <1>1, <2>1, StutterKeepsCore
  <2> QED BY <1>1, <2>1, <2>2 DEF IInv, Unreached
<1> QED BY <1>2, <1>3, <1>4, <1>5, <1>6 DEF Next, NoMoreOrders

\* The invariant holds in every state of every behaviour of the engine.
THEOREM Invariance == Spec => []IInv
BY InitIInv, IInvStep, PTL DEF Spec

LEMMA IInvImplies == IInv => TypeOK /\ PoolMatchesBooks /\ NotCrossed
<1> SUFFICES ASSUME IInv PROVE TypeOK /\ PoolMatchesBooks /\ NotCrossed
    OBVIOUS
<1>1. TypeOK
    BY DEF IInv, CoreInv, CoreTypes, TypeOK
<1>2. LiveSlotsAccounted
  <2>1. incoming # NULL => incoming \in Live
      BY ReachedOrders DEF IInv
  <2>2. NULL \notin Live /\ NULL \notin RestingSlots
      BY EngineAssumption DEF Live, RestingSlots
  <2> QED BY <2>1, <2>2 DEF IInv, CoreInv, Unreached, LiveSlotsAccounted
<1> QED BY <1>1, <1>2 DEF IInv, CoreInv, PoolMatchesBooks

\* Every variable keeps its type; in particular no quantity wraps below zero
\* and every report carries a quantity that was really traded or rests.
THEOREM TypeCorrect == Spec => []TypeOK
BY Invariance, IInvImplies, PTL

\* No book is ever crossed (matching_engine.h:47-54, 88-91).
THEOREM NeverCrossed == Spec => []NotCrossed
BY Invariance, IInvImplies, PTL

\* order_pool_ and the books always agree: no dangling, leaked or doubly queued
\* order, and first come first served within a level.
THEOREM PoolAndBooksAgree == Spec => []PoolMatchesBooks
BY Invariance, IInvImplies, PTL

-----------------------------------------------------------------------------
(* What the clients have been told, order by order.  The definitions below   *)
(* take the history and the pool as arguments, so that the two reports of a  *)
(* trade can be told one after the other.                                    *)

\* The running totals of what the reports of seq say that order n traded, and
\* that they come to v: induction over the reports is not needed, since each
\* report extends the totals by one.
Fill(r, n) == IF r.oid = n /\ r.status # "New" THEN r.quantity ELSE 0

IsTotal(f, seq, n) ==
    f = [k \in 0 .. Len(seq) |->
            IF k = 0 THEN 0 ELSE f[k - 1] + Fill(seq[k], n)]

TotalIs(seq, n, v) ==
    /\ \E f : IsTotal(f, seq, n)
    /\ \A f : IsTotal(f, seq, n) => f[Len(seq)] = v

LEMMA TradedIsTotal ==
    ASSUME NEW n, NEW v, TotalIs(reports, n, v)
    PROVE  Traded(n) = v
<1> DEFINE body(f) == [k \in 0 .. Len(reports) |->
                        IF k = 0 THEN 0 ELSE f[k - 1] + Fill(reports[k], n)]
           total == CHOOSE f : f = body(f)
<1>1. \E f : f = body(f)
    BY DEF TotalIs, IsTotal
<1>2. total = body(total)
    BY <1>1
<1>3. total[Len(reports)] = v
  <2> HIDE DEF total
  <2> QED BY <1>2 DEF TotalIs, IsTotal
<1>4. Traded(n) = total[Len(reports)]
    BY DEF Traded, Fill
<1> QED BY <1>3, <1>4

\* A report more extends the totals.
LEMMA TotalGrows ==
    ASSUME NEW S, NEW seq \in Seq(S), NEW r \in S, NEW n, NEW v \in Int,
           TotalIs(seq, n, v), NEW seq2, seq2 = Append(seq, r)
    PROVE  TotalIs(seq2, n, v + Fill(r, n))
<1>1. /\ Len(seq) \in Nat /\ Len(seq2) = Len(seq) + 1
      /\ seq2[Len(seq) + 1] = r
      /\ \A k \in 1 .. Len(seq) : seq2[k] = seq[k]
    BY AppendProperties, LenProperties
<1> DEFINE N == Len(seq)
<1>2. ASSUME NEW g, IsTotal(g, seq2, n)
      PROVE  g[N + 1] = v + Fill(r, n)
  <2> DEFINE f == [k \in 0 .. N |-> g[k]]
  <2>1. g[N + 1] = g[N] + Fill(r, n)
    <3>1. N + 1 \in 0 .. Len(seq2) /\ N + 1 # 0 /\ (N + 1) - 1 = N
        BY <1>1
    <3>2. g[N + 1] = g[(N + 1) - 1] + Fill(seq2[N + 1], n)
        BY <1>2, <3>1 DEF IsTotal
    <3> QED BY <1>1, <3>1, <3>2
  <2>2. IsTotal(f, seq, n)
    <3>1. ASSUME NEW k \in 0 .. N
          PROVE  f[k] = IF k = 0 THEN 0 ELSE f[k - 1] + Fill(seq[k], n)
      <4>1. k \in 0 .. Len(seq2)
          BY <1>1
      <4>2. g[k] = IF k = 0 THEN 0 ELSE g[k - 1] + Fill(seq2[k], n)
          BY <1>2, <4>1 DEF IsTotal
      <4>3. k # 0 => k - 1 \in 0 .. N /\ k \in 1 .. N
          BY <1>1
      <4> QED BY <1>1, <4>2, <4>3
    <3> HIDE DEF f
    <3>2. f = [k \in 0 .. N |-> f[k]]
        BY DEF f
    <3> QED BY <3>1, <3>2 DEF IsTotal
  <2>3. f[N] = v
      BY <2>2 DEF TotalIs
  <2>4. f[N] = g[N]
      BY <1>1
  <2> QED BY <2>1, <2>3, <2>4
<1>3. \E g : IsTotal(g, seq2, n)
  <2>1. PICK f : IsTotal(f, seq, n)
      BY DEF TotalIs
  <2> DEFINE g == [k \in 0 .. N + 1 |-> IF k = N + 1 THEN f[N] + Fill(r, n) ELSE f[k]]
  <2>2. ASSUME NEW k \in 0 .. N + 1
        PROVE  g[k] = IF k = 0 THEN 0 ELSE g[k - 1] + Fill(seq2[k], n)
    <3>1. CASE k = N + 1
      <4>1. k # 0 /\ k - 1 = N /\ N \in 0 .. N + 1 /\ N # N + 1
          BY <1>1, <3>1
      <4>2. g[k - 1] = f[N] /\ g[k] = f[N] + Fill(r, n)
          BY <3>1, <4>1
      <4> QED BY <1>1, <3>1, <4>1, <4>2
    <3>2. CASE k = 0
      <4>1. 0 \in 0 .. N /\ 0 # N + 1
          BY <1>1
      <4> QED BY <2>1, <3>2, <4>1 DEF IsTotal
    <3>3. CASE k \in 1 .. N
      <4>1. /\ k \in 0 .. N /\ k # 0 /\ k # N + 1
            /\ k - 1 \in 0 .. N + 1 /\ k - 1 # N + 1
          BY <1>1, <3>3
      <4>2. g[k] = f[k] /\ g[k - 1] = f[k - 1]
          BY <4>1
      <4>3. f[k] = f[k - 1] + Fill(seq[k], n)
          BY <2>1, <4>1 DEF IsTotal
      <4> QED BY <1>1, <3>3, <4>1, <4>2, <4>3
    <3> QED BY <1>1, <3>1, <3>2, <3>3
  <2>3. g = [k \in 0 .. Len(seq2) |-> g[k]]
      BY <1>1
  <2>4. IsTotal(g, seq2, n)
    <3> HIDE DEF g
    <3> QED BY <1>1, <2>2, <2>3 DEF IsTotal
  <2> QED BY <2>4
<1> QED BY <1>1, <1>2, <1>3 DEF TotalIs

\* What seq tells of order n, when `left' of its `size' is left.
Told(seq, n) == {k \in 1 .. Len(seq) : seq[k].oid = n}

OrderHistory(seq, n, size, left) ==
    /\ TotalIs(seq, n, size - left)
    /\ \A k \in Told(seq, n) :
        /\ seq[k].status = "New" => \A j \in Told(seq, n) : k <= j
        /\ seq[k].status = "Fill" <=> left = 0 /\ \A j \in Told(seq, n) : j <= k

\* seq2 is seq with the report r at its end: where it tells of order n.
OneMoreTold(seq, r, seq2, n) ==
    /\ Len(seq) \in Nat /\ seq2[Len(seq) + 1] = r
    /\ \A k \in Told(seq, n) :
        k \in Told(seq2, n) /\ k \in 1 .. Len(seq) /\ seq2[k] = seq[k]
    /\ \A k \in Told(seq2, n) :
        k \in Told(seq, n) \/ (r.oid = n /\ k = Len(seq) + 1)
    /\ r.oid = n => Len(seq) + 1 \in Told(seq2, n)

LEMMA ToldMore ==
    ASSUME NEW S, NEW seq \in Seq(S), NEW r \in S,
           NEW seq2, seq2 = Append(seq, r), NEW n \in Nat
    PROVE  OneMoreTold(seq, r, seq2, n)
<1>1. /\ Len(seq) \in Nat /\ Len(seq2) = Len(seq) + 1
      /\ seq2[Len(seq) + 1] = r
      /\ \A k \in 1 .. Len(seq) : seq2[k] = seq[k]
    BY AppendProperties, LenProperties
<1>2. ASSUME NEW k \in Told(seq, n)
      PROVE  k \in Told(seq2, n) /\ k \in 1 .. Len(seq) /\ seq2[k] = seq[k]
    BY <1>1 DEF Told
<1>3. ASSUME NEW k \in Told(seq2, n)
      PROVE  k \in Told(seq, n) \/ (r.oid = n /\ k = Len(seq) + 1)
  <2>1. k \in 1 .. Len(seq2) /\ seq2[k].oid = n
      BY DEF Told
  <2>2. k \in 1 .. Len(seq) \/ k = Len(seq) + 1
      BY <1>1, <2>1
  <2> QED BY <1>1, <2>1, <2>2 DEF Told
<1>4. r.oid = n => Len(seq) + 1 \in Told(seq2, n)
    BY <1>1 DEF Told
<1> QED BY <1>1, <1>2, <1>3, <1>4 DEF OneMoreTold

\* A report on another order.
LEMMA TellOther ==
    ASSUME NEW S, NEW seq \in Seq(S), NEW r \in S, NEW n \in Nat, r.oid # n,
           NEW size \in Int, NEW left \in Int, OrderHistory(seq, n, size, left),
           NEW seq2, seq2 = Append(seq, r)
    PROVE  OrderHistory(seq2, n, size, left)
<1>1. TotalIs(seq2, n, size - left)
  <2>1. TotalIs(seq2, n, (size - left) + Fill(r, n))
    <3>1. TotalIs(seq, n, size - left) /\ size - left \in Int
        BY DEF OrderHistory
    <3> QED BY ONLY <3>1, TotalGrows, seq \in Seq(S), r \in S,
                    seq2 = Append(seq, r)
  <2>2. (size - left) + Fill(r, n) = size - left
      BY DEF Fill
  <2> QED BY <2>1, <2>2
<1>2. /\ \A k \in Told(seq, n) : k \in Told(seq2, n) /\ seq2[k] = seq[k]
      /\ \A k \in Told(seq2, n) : k \in Told(seq, n)
  <2>1. OneMoreTold(seq, r, seq2, n)
      BY ToldMore
  <2> QED BY <2>1 DEF OneMoreTold
<1> QED BY <1>1, <1>2 DEF OrderHistory

\* The report on a trade of an order of which something was left.
LEMMA TellTrade ==
    ASSUME NEW S, NEW seq \in Seq(S), NEW r \in S, NEW n \in Nat, r.oid = n,
           NEW size \in Int, NEW left \in Nat \ {0}, NEW left2 \in Nat,
           r.quantity = left - left2, r.status = FillStatus(left2),
           OrderHistory(seq, n, size, left),
           NEW seq2, seq2 = Append(seq, r)
    PROVE  OrderHistory(seq2, n, size, left2)
<1>1. TotalIs(seq2, n, size - left2)
  <2>1. TotalIs(seq2, n, (size - left) + Fill(r, n))
    <3>1. TotalIs(seq, n, size - left) /\ size - left \in Int
        BY DEF OrderHistory
    <3> QED BY ONLY <3>1, TotalGrows, seq \in Seq(S), r \in S,
                    seq2 = Append(seq, r)
  <2>2. (size - left) + Fill(r, n) = size - left2
    <3>1. Fill(r, n) = left - left2
        BY DEF Fill, FillStatus
    <3> QED BY <3>1
  <2> QED BY <2>1, <2>2
<1>2. /\ Len(seq) \in Nat
      /\ \A k \in Told(seq, n) :
            k \in Told(seq2, n) /\ k \in 1 .. Len(seq) /\ seq2[k] = seq[k]
      /\ seq2[Len(seq) + 1] = r
      /\ \A k \in Told(seq2, n) : k \in Told(seq, n) \/ k = Len(seq) + 1
      /\ Len(seq) + 1 \in Told(seq2, n)
  <2>1. OneMoreTold(seq, r, seq2, n)
      BY ToldMore
  <2> QED BY <2>1 DEF OneMoreTold
<1>3. ASSUME NEW k \in Told(seq2, n)
      PROVE  /\ seq2[k].status = "New" => \A j \in Told(seq2, n) : k <= j
             /\ seq2[k].status = "Fill"
                    <=> left2 = 0 /\ \A j \in Told(seq2, n) : j <= k
  <2>1. CASE k \in Told(seq, n)
    <3>1. k < Len(seq) + 1 /\ ~ (Len(seq) + 1 <= k) /\ k <= Len(seq) + 1
        BY <1>2, <2>1
    <3>2. /\ seq2[k].status = "New" => \A j \in Told(seq, n) : k <= j
          /\ seq2[k].status # "Fill"
        BY <1>2, <2>1 DEF OrderHistory
    <3> QED BY <1>2, <3>1, <3>2
  <2>2. CASE k = Len(seq) + 1
    <3>1. \A j \in Told(seq2, n) : j <= k
      <4>1. \A j \in 1 .. Len(seq) : j <= Len(seq) + 1
          BY <1>2
      <4> QED BY <1>2, <2>2, <4>1
    <3>2. seq2[k].status # "New" /\ (seq2[k].status = "Fill" <=> left2 = 0)
        BY <1>2, <2>2 DEF FillStatus
    <3> QED BY <3>1, <3>2
  <2> QED BY <1>2, <2>1, <2>2
<1> QED BY <1>1, <1>3 DEF OrderHistory

\* The first report on an order that rests untouched.
LEMMA TellNew ==
    ASSUME NEW S, NEW seq \in Seq(S), NEW r \in S, NEW n \in Nat, r.oid = n,
           NEW size \in Int, NEW left \in Nat \ {0},
           r.status = "New", Told(seq, n) = {},
           OrderHistory(seq, n, size, left),
           NEW seq2, seq2 = Append(seq, r)
    PROVE  OrderHistory(seq2, n, size, left)
<1>1. TotalIs(seq2, n, size - left)
  <2>1. TotalIs(seq2, n, (size - left) + Fill(r, n))
    <3>1. TotalIs(seq, n, size - left) /\ size - left \in Int
        BY DEF OrderHistory
    <3> QED BY ONLY <3>1, TotalGrows, seq \in Seq(S), r \in S,
                    seq2 = Append(seq, r)
  <2>2. (size - left) + Fill(r, n) = size - left
      BY DEF Fill
  <2> QED BY <2>1, <2>2
<1>2. /\ Len(seq) \in Nat /\ seq2[Len(seq) + 1] = r
      /\ \A k \in Told(seq2, n) : k = Len(seq) + 1
  <2>1. OneMoreTold(seq, r, seq2, n)
      BY ToldMore
  <2> QED BY <2>1 DEF OneMoreTold
<1> QED BY <1>1, <1>2 DEF OrderHistory

-----------------------------------------------------------------------------
(* What is left of each order, and where in the pool it is.                 *)

LiveIn(pool) == {s \in Slots : pool[s] # NoOrder}

LeftIn(pool, n) ==
    IF \E s \in LiveIn(pool) : pool[s].oid = n
    THEN pool[CHOOSE s \in LiveIn(pool) : pool[s].oid = n].quantity
    ELSE 0

\* No two live orders have the same number.
OwnNumbers(pool) ==
    \A s, t \in LiveIn(pool) : pool[s].oid = pool[t].oid => s = t

LEMMA LeftMeans ==
    ASSUME NEW pool, OwnNumbers(pool), NEW n
    PROVE  /\ \A s \in LiveIn(pool) : pool[s].oid = n => LeftIn(pool, n) = pool[s].quantity
           /\ (\A s \in LiveIn(pool) : pool[s].oid # n) => LeftIn(pool, n) = 0
<1>1. ASSUME NEW s \in LiveIn(pool), pool[s].oid = n
      PROVE  LeftIn(pool, n) = pool[s].quantity
  <2> DEFINE t == CHOOSE u \in LiveIn(pool) : pool[u].oid = n
  <2>1. t \in LiveIn(pool) /\ pool[t].oid = n
      BY <1>1
  <2>2. t = s
    <3> HIDE DEF t
    <3> QED BY <1>1, <2>1 DEF OwnNumbers
  <2> QED BY <1>1, <2>2 DEF LeftIn
<1> QED BY <1>1 DEF LeftIn

\* Order n takes a free slot, changes in its slot, or leaves it.
SlotChanged(pool, pool2, n, s) ==
    /\ OwnNumbers(pool2)
    /\ LeftIn(pool2, n) = IF pool2[s] = NoOrder THEN 0 ELSE pool2[s].quantity
    /\ \A m : m # n => LeftIn(pool2, m) = LeftIn(pool, m)

LEMMA OneSlotChanges ==
    ASSUME NEW pool, OwnNumbers(pool), NEW pool2, NEW n, NEW s \in Slots,
           \A t \in Slots \ {s} : pool2[t] = pool[t],
           \/ pool[s] # NoOrder /\ pool[s].oid = n
           \/ pool[s] = NoOrder /\ \A t \in LiveIn(pool) : pool[t].oid # n,
           pool2[s] # NoOrder => pool2[s].oid = n
    PROVE  SlotChanged(pool, pool2, n, s)
<1>1. /\ \A t \in LiveIn(pool2) \ {s} :
            t \in LiveIn(pool) /\ pool2[t] = pool[t] /\ pool[t].oid # n
      /\ \A t \in LiveIn(pool) \ {s} : t \in LiveIn(pool2) /\ pool2[t] = pool[t]
    BY DEF LiveIn, OwnNumbers
<1>2. OwnNumbers(pool2)
    BY <1>1 DEF OwnNumbers, LiveIn
<1>3. LeftIn(pool2, n) = IF pool2[s] = NoOrder THEN 0 ELSE pool2[s].quantity
  <2>1. CASE pool2[s] = NoOrder
    <3>1. \A t \in LiveIn(pool2) : pool2[t].oid # n
        BY <1>1, <2>1 DEF LiveIn
    <3> QED BY <1>2, <2>1, <3>1, LeftMeans
  <2>2. CASE pool2[s] # NoOrder
    <3>1. s \in LiveIn(pool2) /\ pool2[s].oid = n
        BY <2>2 DEF LiveIn
    <3> QED BY <1>2, <2>2, <3>1, LeftMeans
  <2> QED BY <2>1, <2>2
<1>4. ASSUME NEW m, m # n PROVE LeftIn(pool2, m) = LeftIn(pool, m)
  <2>1. CASE \E t \in LiveIn(pool) : pool[t].oid = m
    <3>1. PICK t \in LiveIn(pool) : pool[t].oid = m
        BY <2>1
    <3>2. t # s
        BY <1>4, <3>1 DEF LiveIn
    <3>3. t \in LiveIn(pool2) /\ pool2[t] = pool[t]
        BY <1>1, <3>1, <3>2
    <3> QED BY <1>2, <3>1, <3>3, LeftMeans
  <2>2. CASE \A t \in LiveIn(pool) : pool[t].oid # m
    <3>1. \A t \in LiveIn(pool2) : pool2[t].oid # m
        BY <1>1, <1>4, <2>2 DEF LiveIn
    <3> QED BY <1>2, <2>2, <3>1, LeftMeans
  <2> QED BY <2>1, <2>2
<1> QED BY <1>2, <1>3, <1>4 DEF SlotChanged

\* The invariant of the history.  Size is what was submitted as order n.
Size(acc, n) == IF n \in 1 .. Len(acc) THEN acc[n].quantity ELSE 0

Histories(seq, acc, pool) ==
    \A n \in Nat \ {0} :
        /\ Size(acc, n) \in Nat /\ LeftIn(pool, n) \in Nat
        /\ OrderHistory(seq, n, Size(acc, n), LeftIn(pool, n))

\* Nothing of a live order changes but its quantity.
OnlyReduced(pool, acc) ==
    \A s \in LiveIn(pool) :
        LET o == pool[s] IN
        /\ o \in Order /\ o.oid \in 1 .. Len(acc)
        /\ o.instrument = acc[o.oid].instrument
        /\ o.side = acc[o.oid].side
        /\ o.price = acc[o.oid].price

\* Orders are numbered as they come, and reports are on orders that came.
Numbered(seq, acc) ==
    /\ \A n \in 1 .. Len(acc) : acc[n].oid = n
    /\ \A k \in 1 .. Len(seq) : seq[k].oid \in 1 .. Len(acc)

\* TradesReportedInPairs, of any history.
PairAt(seq, acc, n) ==
    LET taker == seq[n]
        maker == seq[n + 1]
    IN /\ taker.status # "New" /\ maker.status # "New"
       /\ maker.oid < taker.oid
       /\ maker.instrument = taker.instrument
       /\ maker.side = Opposite(taker.side)
       /\ maker.quantity = taker.quantity
       /\ maker.price = taker.price
       /\ maker.price = acc[maker.oid].price
       /\ IF taker.side = "BUY" THEN taker.price <= acc[taker.oid].price
                                ELSE taker.price >= acc[taker.oid].price

PairedOnce(seq, acc, n) ==
    seq[n].status # "New" =>
        ~ (n < Len(seq) /\ PairAt(seq, acc, n) <=> n > 1 /\ PairAt(seq, acc, n - 1))

InPairs(seq, acc) == \A n \in 1 .. Len(seq) : PairedOnce(seq, acc, n)

LEMMA PairsMeaning == TradesReportedInPairs <=> InPairs(reports, accepted)
<1>1. \A n : TradePair(n) <=> PairAt(reports, accepted, n)
    BY DEF TradePair, PairAt
<1> QED BY <1>1 DEF TradesReportedInPairs, InPairs, PairedOnce

\* The youngest order is the one at work; it has been told of as soon as it
\* has traded, and every other order has been told of.
AtWork ==
    /\ incoming # NULL =>
        /\ order_pool_[incoming].oid = Len(accepted)
        /\ matched_any => Told(reports, Len(accepted)) # {}
        /\ ~ matched_any => Told(reports, Len(accepted)) = {}
        /\ order_pool_[incoming].quantity = 0 => matched_any
    /\ \A n \in 1 .. Len(accepted) :
        Told(reports, n) = {} => incoming # NULL /\ n = Len(accepted)

HistoryInv ==
    /\ IInv
    /\ OwnNumbers(order_pool_) /\ OnlyReduced(order_pool_, accepted)
    /\ Numbered(reports, accepted)
    /\ Histories(reports, accepted, order_pool_)
    /\ InPairs(reports, accepted)
    /\ AtWork

\* One side of a trade: the order in slot s shrinks from `left' to `left2', and
\* its client is told so by the report r.
ToldOneSide(seq, r, acc, pool, s, left, left2, pool2, seq2) ==
    /\ seq \in Seq(ExecutionReport) /\ r \in ExecutionReport
    /\ OwnNumbers(pool) /\ Histories(seq, acc, pool)
    /\ s \in Slots /\ left \in Nat \ {0} /\ left2 \in Nat
    /\ pool[s] # NoOrder /\ pool[s].oid = r.oid /\ pool[s].quantity = left
    /\ r.oid \in Nat \ {0}
    /\ r.quantity = left - left2 /\ r.status = FillStatus(left2)
    /\ \A t \in Slots \ {s} : pool2[t] = pool[t]
    /\ \/ pool2[s] = NoOrder /\ left2 = 0
       \/ pool2[s] # NoOrder /\ pool2[s].oid = r.oid /\ pool2[s].quantity = left2
    /\ seq2 = Append(seq, r)

LEMMA TellOneSide ==
    ASSUME NEW seq, NEW r, NEW acc, NEW pool, NEW s, NEW left, NEW left2,
           NEW pool2, NEW seq2,
           ToldOneSide(seq, r, acc, pool, s, left, left2, pool2, seq2)
    PROVE  OwnNumbers(pool2) /\ Histories(seq2, acc, pool2)
<1> USE DEF ToldOneSide
<1>1. /\ OwnNumbers(pool2)
      /\ LeftIn(pool2, r.oid) = left2
      /\ \A m : m # r.oid => LeftIn(pool2, m) = LeftIn(pool, m)
  <2> DEFINE n == r.oid
  <2>1. /\ \/ pool[s] # NoOrder /\ pool[s].oid = n
           \/ pool[s] = NoOrder /\ \A t \in LiveIn(pool) : pool[t].oid # n
        /\ pool2[s] # NoOrder => pool2[s].oid = n
      OBVIOUS
  <2>2. /\ OwnNumbers(pool) /\ s \in Slots
        /\ \A t \in Slots \ {s} : pool2[t] = pool[t]
      OBVIOUS
  <2> HIDE DEF n
  <2>3. SlotChanged(pool, pool2, n, s)
      BY ONLY <2>1, <2>2, OneSlotChanges
  <2> QED BY <2>3 DEF n, SlotChanged
<1>2. LeftIn(pool, r.oid) = left
  <2>1. s \in LiveIn(pool)
      BY DEF LiveIn
  <2> QED BY <2>1, LeftMeans
<1>3. ASSUME NEW n \in Nat \ {0}
      PROVE  /\ Size(acc, n) \in Nat /\ LeftIn(pool2, n) \in Nat
             /\ OrderHistory(seq2, n, Size(acc, n), LeftIn(pool2, n))
  <2>1. /\ Size(acc, n) \in Nat /\ LeftIn(pool, n) \in Nat
        /\ OrderHistory(seq, n, Size(acc, n), LeftIn(pool, n))
      BY DEF Histories
  <2>2. CASE n = r.oid
    <3>1. OrderHistory(seq, n, Size(acc, n), left)
        BY <1>2, <2>1, <2>2
    <3>2. Size(acc, n) \in Int /\ n \in Nat /\ r.oid = n
        BY <2>1, <2>2
    <3>3. OrderHistory(seq2, n, Size(acc, n), left2)
        BY <3>1, <3>2, TellTrade
    <3> QED BY <1>1, <2>1, <2>2, <3>3
  <2>3. CASE n # r.oid
    <3>1. LeftIn(pool2, n) = LeftIn(pool, n)
        BY <1>1, <2>3
    <3>2. /\ Size(acc, n) \in Int /\ LeftIn(pool, n) \in Int /\ n \in Nat
          /\ r.oid # n
        BY <2>1, <2>3
    <3>3. OrderHistory(seq2, n, Size(acc, n), LeftIn(pool, n))
        BY <2>1, <3>2, TellOther
    <3> QED BY <2>1, <3>1, <3>3
  <2> QED BY <2>2, <2>3
<1> QED BY <1>1, <1>3 DEF Histories

-----------------------------------------------------------------------------
(* The pairs of reports.                                                    *)

\* A report of an order that rests pairs with no other.
LEMMA PairsThenNew ==
    ASSUME NEW S, NEW seq \in Seq(S), NEW r \in S, NEW acc,
           InPairs(seq, acc), r.status = "New", NEW seq2, seq2 = Append(seq, r)
    PROVE  InPairs(seq2, acc)
<1> DEFINE N == Len(seq)
<1>1. /\ N \in Nat /\ Len(seq2) = N + 1 /\ seq2[N + 1] = r
      /\ \A k \in 1 .. N : seq2[k] = seq[k]
    BY AppendProperties, LenProperties
<1> HIDE DEF N
<1>2. ASSUME NEW n \in 1 .. Len(seq2), seq2[n].status # "New"
      PROVE  ~ (n < Len(seq2) /\ PairAt(seq2, acc, n) <=> n > 1 /\ PairAt(seq2, acc, n - 1))
  <2>1. n \in 1 .. N
      BY <1>1, <1>2
  <2>2. seq[n].status # "New"
      BY <1>1, <1>2, <2>1
  <2>3. ~ (n < N /\ PairAt(seq, acc, n) <=> n > 1 /\ PairAt(seq, acc, n - 1))
      BY <2>1, <2>2 DEF InPairs, PairedOnce, N
  <2>4. n > 1 => (PairAt(seq2, acc, n - 1) <=> PairAt(seq, acc, n - 1))
    <3>1. n > 1 => n - 1 \in 1 .. N /\ (n - 1) + 1 = n
        BY <1>1, <2>1
    <3>2. n > 1 => seq2[n - 1] = seq[n - 1] /\ seq2[(n - 1) + 1] = seq[(n - 1) + 1]
        BY <1>1, <2>1, <3>1
    <3> QED BY <3>2 DEF PairAt
  <2>5. (n < Len(seq2) /\ PairAt(seq2, acc, n)) <=> (n < N /\ PairAt(seq, acc, n))
    <3>1. CASE n < N
      <4>1. n + 1 \in 1 .. N /\ n < Len(seq2)
          BY <1>1, <2>1, <3>1
      <4>2. seq2[n] = seq[n] /\ seq2[n + 1] = seq[n + 1]
          BY <1>1, <2>1, <4>1
      <4> QED BY <3>1, <4>1, <4>2 DEF PairAt
    <3>2. CASE n = N
      <4>1. ~ PairAt(seq2, acc, n)
          BY <1>1, <3>2 DEF PairAt
      <4> QED BY <1>1, <3>2, <4>1
    <3> QED BY <1>1, <2>1, <3>1, <3>2
  <2> QED BY <2>3, <2>4, <2>5
<1> QED BY <1>2 DEF InPairs, PairedOnce

\* An order more that is accepted changes no pair.
LEMMA PairsThenOrder ==
    ASSUME NEW seq \in Seq(ExecutionReport), NEW acc \in Seq(Order), NEW o \in Order,
           Numbered(seq, acc), InPairs(seq, acc), NEW acc2, acc2 = Append(acc, o)
    PROVE  InPairs(seq, acc2)
<1>1. \A k \in 1 .. Len(acc) : acc2[k] = acc[k]
    BY AppendProperties
<1>2. Len(seq) \in Nat
    BY LenProperties
<1>3. ASSUME NEW n \in 1 .. Len(seq), n + 1 \in 1 .. Len(seq)
      PROVE  PairAt(seq, acc2, n) <=> PairAt(seq, acc, n)
  <2>1. seq[n].oid \in 1 .. Len(acc) /\ seq[n + 1].oid \in 1 .. Len(acc)
      BY <1>3 DEF Numbered
  <2>2. acc2[seq[n].oid] = acc[seq[n].oid] /\ acc2[seq[n + 1].oid] = acc[seq[n + 1].oid]
      BY <1>1, <2>1
  <2> QED BY <2>2 DEF PairAt
<1>4. ASSUME NEW n \in 1 .. Len(seq)
      PROVE  PairedOnce(seq, acc2, n)
  <2>1. n < Len(seq) => (PairAt(seq, acc2, n) <=> PairAt(seq, acc, n))
      BY <1>2, <1>3
  <2>2. n > 1 => (PairAt(seq, acc2, n - 1) <=> PairAt(seq, acc, n - 1))
    <3>1. n > 1 => n - 1 \in 1 .. Len(seq) /\ (n - 1) + 1 \in 1 .. Len(seq)
        BY <1>2
    <3> QED BY <1>3, <3>1
  <2>3. PairedOnce(seq, acc, n)
      BY DEF InPairs
  <2> QED BY <2>1, <2>2, <2>3 DEF PairedOnce
<1> QED BY <1>4 DEF InPairs

\* The reports a and b of a trade follow each other and are a pair; a is on the
\* youngest order, so that it is no second of a pair itself.
LEMMA PairsThenTrade ==
    ASSUME NEW S, NEW seq \in Seq(S), NEW a \in S, NEW b \in S, NEW acc,
           InPairs(seq, acc),
           a.oid \in Nat, \A k \in 1 .. Len(seq) : seq[k].oid \in Nat /\ seq[k].oid <= a.oid,
           NEW mid, mid = Append(seq, a), NEW seq2, seq2 = Append(mid, b),
           PairAt(seq2, acc, Len(seq) + 1)
    PROVE  InPairs(seq2, acc)
<1> DEFINE N == Len(seq)
<1>1. /\ N \in Nat /\ Len(seq2) = N + 2 /\ seq2[N + 1] = a /\ seq2[N + 2] = b
      /\ \A k \in 1 .. N : seq2[k] = seq[k]
  <2>1. /\ N \in Nat /\ mid \in Seq(S) /\ Len(mid) = N + 1 /\ mid[N + 1] = a
        /\ \A k \in 1 .. N : mid[k] = seq[k]
      BY AppendProperties, LenProperties
  <2>2. /\ Len(seq2) = Len(mid) + 1 /\ seq2[Len(mid) + 1] = b
        /\ \A k \in 1 .. Len(mid) : seq2[k] = mid[k]
      BY <2>1, AppendProperties
  <2> QED BY <2>1, <2>2
<1>2. PairAt(seq2, acc, N + 1)
    OBVIOUS
<1>3. \A k \in 1 .. N : seq[k].oid \in Nat /\ seq[k].oid <= a.oid
    OBVIOUS
<1> HIDE DEF N
<1>4. ~ (N >= 1 /\ PairAt(seq2, acc, N))
  <2>1. ASSUME N >= 1, PairAt(seq2, acc, N) PROVE FALSE
    <3>1. N \in 1 .. N
        BY <1>1, <2>1
    <3>2. seq2[N] = seq[N] /\ seq[N].oid \in Nat /\ seq[N].oid <= a.oid
        BY <1>1, <1>3, <3>1
    <3>3. a.oid < seq[N].oid
        BY <1>1, <2>1, <3>2 DEF PairAt
    <3> QED BY <3>2, <3>3
  <2> QED BY <2>1
<1>5. ASSUME NEW n \in 1 .. Len(seq2), seq2[n].status # "New"
      PROVE  ~ (n < Len(seq2) /\ PairAt(seq2, acc, n) <=> n > 1 /\ PairAt(seq2, acc, n - 1))
  <2>1. CASE n = N + 1
      BY <1>1, <1>2, <1>4, <2>1
  <2>2. CASE n = N + 2
    <3>1. n - 1 = N + 1 /\ n > 1 /\ ~ (n < Len(seq2))
        BY <1>1, <2>2
    <3> QED BY <1>2, <3>1
  <2>3. CASE n \in 1 .. N
    <3>1. seq[n].status # "New"
        BY <1>1, <1>5, <2>3
    <3>2. ~ (n < N /\ PairAt(seq, acc, n) <=> n > 1 /\ PairAt(seq, acc, n - 1))
        BY <2>3, <3>1 DEF InPairs, PairedOnce, N
    <3>3. n > 1 => (PairAt(seq2, acc, n - 1) <=> PairAt(seq, acc, n - 1))
      <4>1. n > 1 => n - 1 \in 1 .. N /\ (n - 1) + 1 = n
          BY <1>1, <2>3
      <4>2. n > 1 => seq2[n - 1] = seq[n - 1] /\ seq2[(n - 1) + 1] = seq[(n - 1) + 1]
          BY <1>1, <2>3, <4>1
      <4> QED BY <4>2 DEF PairAt
    <3>4. n < N => (PairAt(seq2, acc, n) <=> PairAt(seq, acc, n))
      <4>1. n < N => n + 1 \in 1 .. N
          BY <1>1, <2>3
      <4> QED BY <1>1, <2>3, <4>1 DEF PairAt
    <3>5. n < Len(seq2) /\ (n = N => ~ PairAt(seq2, acc, n))
        BY <1>1, <1>4, <2>3
    <3>6. n < N \/ n = N
        BY <1>1, <2>3
    <3>7. n = N => ~ (n < N)
        BY <1>1, <2>3
    <3> QED BY <3>2, <3>3, <3>4, <3>5, <3>6, <3>7
  <2>4. n \in 1 .. N \/ n = N + 1 \/ n = N + 2
      BY <1>1
  <2> QED BY <2>1, <2>2, <2>3, <2>4
<1> QED BY <1>5 DEF InPairs, PairedOnce

-----------------------------------------------------------------------------
(* The invariant of the history holds.                                      *)

LEMMA NothingTold ==
    ASSUME NEW n
    PROVE  /\ Told(<< >>, n) = {} /\ TotalIs(<< >>, n, 0)
           /\ OrderHistory(<< >>, n, 0, 0)
<1>1. Len(<< >>) = 0 /\ 1 .. 0 = {} /\ 0 .. 0 = {0}
    BY EmptySeq
<1>2. Told(<< >>, n) = {}
    BY <1>1 DEF Told
<1>3. \E f : IsTotal(f, << >>, n)
  <2> DEFINE f == [k \in 0 .. 0 |-> 0]
  <2>1. \A k \in 0 .. 0 : (IF k = 0 THEN 0 ELSE f[k - 1] + Fill(<< >>[k], n)) = 0
      BY <1>1
  <2>2. f = [k \in 0 .. 0 |-> IF k = 0 THEN 0 ELSE f[k - 1] + Fill(<< >>[k], n)]
      BY <2>1
  <2>3. IsTotal(f, << >>, n)
      BY <1>1, <2>2 DEF IsTotal
  <2> QED BY <2>3
<1>4. \A f : IsTotal(f, << >>, n) => f[0] = 0
    BY <1>1 DEF IsTotal
<1>5. TotalIs(<< >>, n, 0)
    BY <1>1, <1>3, <1>4 DEF TotalIs
<1> QED BY <1>2, <1>5 DEF OrderHistory

LEMMA InitHistory == Init => HistoryInv
<1> SUFFICES ASSUME Init PROVE HistoryInv
    OBVIOUS
<1> USE DEF Init
<1>1. /\ reports = << >> /\ accepted = << >> /\ Len(<< >>) = 0 /\ 1 .. 0 = {}
      /\ incoming = NULL
    BY EmptySeq
<1>2. LiveIn(order_pool_) = {}
    BY DEF LiveIn
<1>3. OwnNumbers(order_pool_) /\ OnlyReduced(order_pool_, accepted)
    BY <1>2 DEF OwnNumbers, OnlyReduced
<1>4. ASSUME NEW n \in Nat \ {0}
      PROVE  /\ Size(accepted, n) \in Nat /\ LeftIn(order_pool_, n) \in Nat
             /\ OrderHistory(reports, n, Size(accepted, n), LeftIn(order_pool_, n))
  <2>1. Size(accepted, n) = 0
      BY <1>1 DEF Size
  <2>2. LeftIn(order_pool_, n) = 0
      BY <1>2, <1>3, LeftMeans
  <2> QED BY <1>1, <2>1, <2>2, NothingTold
<1>5. /\ Numbered(reports, accepted) /\ InPairs(reports, accepted) /\ AtWork
    BY <1>1 DEF Numbered, InPairs, AtWork
<1> QED BY <1>3, <1>4, <1>5, InitIInv DEF HistoryInv, Histories

\* What the invariant says of the numbers of the orders.
LEMMA HistoryFacts ==
    ASSUME HistoryInv
    PROVE  /\ CoreInv /\ IInv
           /\ reports \in Seq(ExecutionReport) /\ Len(reports) \in Nat
           /\ accepted \in Seq(Order) /\ Len(accepted) \in Nat
           /\ \A s \in Slots : order_pool_[s] \in Order \cup {NoOrder}
           /\ \A k \in 1 .. Len(reports) :
                reports[k].oid \in Nat \ {0} /\ reports[k].oid <= Len(accepted)
           /\ \A n \in 1 .. Len(accepted) : accepted[n] \in Order
BY LenProperties, ElementOfSeq DEF HistoryInv, IInv, CoreInv, CoreTypes, Numbered

\* A new order is alone with its number and untold.
LEMMA HistoryArrive == HistoryInv /\ Arrive /\ IInv' => HistoryInv'
<1> SUFFICES ASSUME HistoryInv, Arrive, IInv' PROVE HistoryInv'
    OBVIOUS
<1>1. /\ CoreInv
      /\ reports \in Seq(ExecutionReport) /\ Len(reports) \in Nat
      /\ accepted \in Seq(Order) /\ Len(accepted) \in Nat
      /\ \A k \in 1 .. Len(reports) :
            reports[k].oid \in Nat \ {0} /\ reports[k].oid <= Len(accepted)
    BY HistoryFacts
<1> DEFINE N == Len(accepted) + 1
<1>2. PICK slot \in Slots, o \in Order : o.oid = N /\ ProcessOrder(slot, o) /\ o.quantity \in Quantities
  <2>1. PICK slot \in Slots, i \in Instruments, side \in Sides, price \in Ticks,
             quantity \in Quantities :
          ProcessOrder(slot, [oid |-> N, instrument |-> i, side |-> side,
                              price |-> price, quantity |-> quantity])
      BY DEF Arrive
  <2> DEFINE o == [oid |-> N, instrument |-> i, side |-> side, price |-> price,
                   quantity |-> quantity]
  <2>2. o \in Order /\ o.oid = N /\ o.quantity \in Quantities
      BY <1>1, EngineAssumption DEF Order, Quantities
  <2> HIDE DEF o
  <2>3. ProcessOrder(slot, o)
      BY <2>1 DEF o
  <2> QED BY <2>2, <2>3
<1>3. /\ accepted' = Append(accepted, o) /\ reports' = reports
      /\ incoming = NULL /\ incoming' = slot /\ matched_any' = FALSE
      /\ order_pool_[slot] = NoOrder
      /\ order_pool_'[slot] = o
      /\ \A s \in Slots \ {slot} : order_pool_'[s] = order_pool_[s]
    BY <1>1, <1>2 DEF ProcessOrder, CoreInv, CoreTypes
<1>4. /\ Len(accepted') = N /\ accepted'[N] = o
      /\ \A n \in 1 .. Len(accepted) : accepted'[n] = accepted[n]
      /\ N \in Nat \ {0} /\ N \notin 1 .. Len(accepted)
      /\ 1 .. N = (1 .. Len(accepted)) \cup {N}
    BY <1>1, <1>3, AppendProperties
<1> HIDE DEF N
<1>5. \A t \in LiveIn(order_pool_) : order_pool_[t].oid \in 1 .. Len(accepted)
    BY DEF HistoryInv, OnlyReduced
<1>6. SlotChanged(order_pool_, order_pool_', N, slot)
  <2> DEFINE pool == order_pool_
             pool2 == order_pool_'
  <2>1. /\ OwnNumbers(pool)
        /\ \/ pool[slot] # NoOrder /\ pool[slot].oid = N
           \/ pool[slot] = NoOrder /\ \A t \in LiveIn(pool) : pool[t].oid # N
        /\ pool2[slot] # NoOrder => pool2[slot].oid = N
        /\ \A t \in Slots \ {slot} : pool2[t] = pool[t]
      BY <1>2, <1>3, <1>4, <1>5 DEF HistoryInv
  <2> HIDE DEF pool, pool2
  <2>2. SlotChanged(pool, pool2, N, slot)
      BY ONLY <2>1, slot \in Slots, OneSlotChanges
  <2> QED BY <2>2 DEF pool, pool2
<1>7. OnlyReduced(order_pool_', accepted')
  <2>1. ASSUME NEW s \in Slots, order_pool_'[s] # NoOrder
        PROVE  LET q == order_pool_'[s] IN
               /\ q \in Order /\ q.oid \in 1 .. Len(accepted')
               /\ q.instrument = accepted'[q.oid].instrument
               /\ q.side = accepted'[q.oid].side
               /\ q.price = accepted'[q.oid].price
    <3>1. CASE s = slot
        BY <1>2, <1>3, <1>4, <3>1
    <3>2. CASE s # slot
      <4>1. s \in LiveIn(order_pool_) /\ order_pool_'[s] = order_pool_[s]
          BY <1>3, <2>1, <3>2 DEF LiveIn
      <4> QED BY <1>4, <4>1 DEF HistoryInv, OnlyReduced
    <3> QED BY <3>1, <3>2
  <2> QED BY <2>1 DEF OnlyReduced, LiveIn
<1>8. Numbered(reports', accepted')
    BY <1>2, <1>3, <1>4 DEF HistoryInv, Numbered
<1>9. Told(reports, N) = {}
    BY <1>1, <1>4 DEF Told, N
<1>10. ASSUME NEW n \in Nat \ {0}
       PROVE  /\ Size(accepted', n) \in Nat /\ LeftIn(order_pool_', n) \in Nat
              /\ OrderHistory(reports', n, Size(accepted', n), LeftIn(order_pool_', n))
  <2>1. /\ Size(accepted, n) \in Nat /\ LeftIn(order_pool_, n) \in Nat
        /\ OrderHistory(reports, n, Size(accepted, n), LeftIn(order_pool_, n))
      BY DEF HistoryInv, Histories
  <2>2. CASE n = N
    <3>1. Size(accepted', n) = o.quantity /\ Size(accepted, n) = 0
        BY <1>4, <2>2 DEF Size
    <3>2. LeftIn(order_pool_', n) = o.quantity
        BY <1>2, <1>3, <1>6, <2>2, OrderFields DEF SlotChanged
    <3>3. LeftIn(order_pool_, n) = 0
        BY <1>4, <1>5, <2>2, LeftMeans DEF HistoryInv
    <3>4. TotalIs(reports, n, 0)
        BY <2>1, <3>1, <3>3 DEF OrderHistory
    <3>5. o.quantity - o.quantity = 0 /\ o.quantity \in Nat
        BY <1>2, EngineAssumption DEF Quantities
    <3> QED BY <1>3, <1>9, <2>2, <3>1, <3>2, <3>4, <3>5 DEF OrderHistory
  <2>3. CASE n # N
    <3>1. LeftIn(order_pool_', n) = LeftIn(order_pool_, n)
        BY <1>6, <2>3 DEF SlotChanged
    <3>2. Size(accepted', n) = Size(accepted, n)
        BY <1>4, <2>3 DEF Size
    <3> QED BY <1>3, <2>1, <3>1, <3>2
  <2> QED BY <2>2, <2>3
<1>11. InPairs(reports', accepted')
    BY <1>1, <1>2, <1>3, PairsThenOrder DEF HistoryInv
<1>12. AtWork'
  <2>1. incoming' # NULL
      BY <1>3, EngineAssumption
  <2>2. \A n \in 1 .. Len(accepted) : Told(reports, n) # {}
      BY <1>3 DEF HistoryInv, AtWork
  <2>3. o.quantity # 0
      BY <1>2, EngineAssumption DEF Quantities
  <2> QED BY <1>2, <1>3, <1>4, <1>9, <2>1, <2>2, <2>3 DEF AtWork
<1> QED BY <1>6, <1>7, <1>8, <1>10, <1>11, <1>12 DEF HistoryInv, Histories, SlotChanged

\* A used up order that leaves the pool had nothing left.
LEMMA HistoryFinish == HistoryInv /\ Finish /\ IInv' => HistoryInv'
<1> SUFFICES ASSUME HistoryInv, Finish, IInv' PROVE HistoryInv'
    OBVIOUS
<1>1. /\ incoming \in Slots /\ incoming # NULL /\ order_pool_[incoming] # NoOrder
      /\ order_pool_[incoming].quantity = 0
      /\ incoming' = NULL /\ matched_any' = FALSE
      /\ reports' = reports /\ accepted' = accepted
      /\ order_pool_'[incoming] = NoOrder
      /\ \A s \in Slots \ {incoming} : order_pool_'[s] = order_pool_[s]
    BY HistoryFacts DEF Finish, CoreInv, CoreTypes
<1> DEFINE N == order_pool_[incoming].oid
<1>2. SlotChanged(order_pool_, order_pool_', N, incoming)
  <2> DEFINE pool == order_pool_
             pool2 == order_pool_'
             s == incoming
  <2>1. /\ OwnNumbers(pool)
        /\ \/ pool[s] # NoOrder /\ pool[s].oid = N
           \/ pool[s] = NoOrder /\ \A t \in LiveIn(pool) : pool[t].oid # N
        /\ pool2[s] # NoOrder => pool2[s].oid = N
        /\ \A t \in Slots \ {s} : pool2[t] = pool[t]
        /\ s \in Slots
      BY <1>1 DEF HistoryInv
  <2> HIDE DEF pool, pool2, s, N
  <2>2. SlotChanged(pool, pool2, N, s)
      BY ONLY <2>1, OneSlotChanges
  <2> QED BY <2>2 DEF pool, pool2, s
<1>3. LeftIn(order_pool_, N) = 0 /\ LeftIn(order_pool_', N) = 0
  <2>1. incoming \in LiveIn(order_pool_)
      BY <1>1 DEF LiveIn
  <2> QED BY <1>1, <1>2, <2>1, LeftMeans DEF HistoryInv, SlotChanged
<1>4. \A n : LeftIn(order_pool_', n) = LeftIn(order_pool_, n)
  <2> HIDE DEF N
  <2> QED BY <1>2, <1>3 DEF SlotChanged
<1>5. OnlyReduced(order_pool_', accepted')
    BY <1>1 DEF HistoryInv, OnlyReduced, LiveIn
<1>6. Numbered(reports', accepted') /\ InPairs(reports', accepted')
    BY <1>1 DEF HistoryInv
<1>7. Histories(reports', accepted', order_pool_')
    BY <1>1, <1>4 DEF HistoryInv, Histories
<1>8. AtWork'
  <2>1. Told(reports, Len(accepted)) # {}
      BY <1>1 DEF HistoryInv, AtWork
  <2>2. \A n \in 1 .. Len(accepted) : Told(reports, n) # {}
      BY <2>1 DEF HistoryInv, AtWork
  <2> QED BY <1>1, <2>2 DEF AtWork
<1> QED BY <1>2, <1>5, <1>6, <1>7, <1>8 DEF HistoryInv, SlotChanged

\* An order that rests without having traded is reported, and the first report
\* on it is that one; an order that has traded has been told of.
LEMMA HistoryRest == HistoryInv /\ Rest /\ IInv' => HistoryInv'
<1> SUFFICES ASSUME HistoryInv, Rest, IInv' PROVE HistoryInv'
    OBVIOUS
<1> DEFINE o == order_pool_[incoming]
           N == Len(accepted)
<1>1. /\ CoreInv
      /\ reports \in Seq(ExecutionReport) /\ Len(reports) \in Nat
      /\ N \in Nat
    BY HistoryFacts
<1>2. /\ incoming # NULL /\ o.quantity > 0
      /\ reports' = reports \o RestReports(o)
      /\ incoming' = NULL /\ matched_any' = FALSE
      /\ order_pool_' = order_pool_ /\ accepted' = accepted
    BY DEF Rest
<1>3. /\ incoming \in Slots /\ incoming \in Live /\ o \in Order
    BY <1>1, <1>2, ReachedOrders
<1>4. /\ o.oid = N /\ N \in 1 .. Len(accepted) /\ N \in Nat \ {0}
      /\ o.quantity \in Quantities /\ o.quantity \in Nat \ {0}
  <2>1. o.quantity \in 0 .. MaxQuantity /\ o.oid \in Nat \ {0}
      BY <1>3, OrderFields
  <2>2. o.oid = N
      BY <1>2 DEF HistoryInv, AtWork
  <2> QED BY <1>1, <1>2, <2>1, <2>2, EngineAssumption DEF Quantities
<1>5. LeftIn(order_pool_, N) = o.quantity
  <2>1. incoming \in LiveIn(order_pool_)
      BY <1>3 DEF Live, LiveIn
  <2> QED BY <1>4, <2>1, LeftMeans DEF HistoryInv
<1>6. \A n \in 1 .. N : n # N => Told(reports, n) # {}
    BY DEF HistoryInv, AtWork
<1> HIDE DEF o, N
<1>7. CASE matched_any
  <2>1. reports' = reports
      BY <1>1, <1>2, <1>7 DEF RestReports
  <2>2. Told(reports, N) # {}
      BY <1>2, <1>7 DEF HistoryInv, AtWork, N
  <2>3. AtWork'
      BY <1>2, <1>6, <2>1, <2>2 DEF AtWork, N
  <2> QED BY <1>2, <2>1, <2>3 DEF HistoryInv
<1>8. CASE ~ matched_any
  <2> DEFINE r == Report(o, o.price, o.quantity, "New")
  <2>1. /\ r \in ExecutionReport /\ r.oid = N /\ r.status = "New"
      BY <1>3, <1>4, OrderFields, ReportType DEF Report
  <2>2. reports' = Append(reports, r)
      BY <1>1, <1>2, <1>8, <2>1 DEF RestReports
  <2>3. Told(reports, N) = {}
      BY <1>2, <1>8 DEF HistoryInv, AtWork, N
  <2> HIDE DEF r
  <2>4. InPairs(reports', accepted')
      BY <1>1, <1>2, <2>1, <2>2, PairsThenNew DEF HistoryInv
  <2>5. ASSUME NEW n \in Nat \ {0}
        PROVE  /\ Size(accepted, n) \in Nat /\ LeftIn(order_pool_, n) \in Nat
               /\ OrderHistory(reports', n, Size(accepted, n), LeftIn(order_pool_, n))
    <3> DEFINE size == Size(accepted, n)
               left == LeftIn(order_pool_, n)
               seq == reports
               seq2 == reports'
    <3>1. /\ size \in Nat /\ left \in Nat /\ OrderHistory(seq, n, size, left)
          /\ size \in Int /\ left \in Int /\ n \in Nat
        BY DEF HistoryInv, Histories
    <3>2. seq \in Seq(ExecutionReport) /\ seq2 = Append(seq, r)
        BY <1>1, <2>2
    <3>3. n = N => left \in Nat \ {0} /\ Told(seq, n) = {}
        BY <1>4, <1>5, <2>3
    <3> HIDE DEF size, left, seq, seq2
    <3>4. CASE n = N
      <4>1. r.oid = n
          BY <2>1, <3>4
      <4> QED BY ONLY <2>1, <3>1, <3>2, <3>3, <3>4, <4>1, TellNew DEF size, left, seq, seq2
    <3>5. CASE n # N
      <4>1. r.oid # n
          BY <2>1, <3>5
      <4> QED BY ONLY <2>1, <3>1, <3>2, <4>1, TellOther DEF size, left, seq, seq2
    <3> QED BY <3>4, <3>5
  <2>6. OneMoreTold(reports, r, reports', N)
      BY <1>1, <2>1, <2>2, ToldMore
  <2>7. ASSUME NEW n \in 1 .. N PROVE Told(reports', n) # {}
    <3>1. CASE n = N
        BY <2>1, <2>6, <3>1 DEF OneMoreTold
    <3>2. CASE n # N
      <4>1. OneMoreTold(reports, r, reports', n)
        <5>1. n \in Nat
            BY <1>1
        <5> QED BY <1>1, <2>1, <2>2, <5>1, ToldMore
      <4> QED BY <1>6, <3>2, <4>1 DEF OneMoreTold
    <3> QED BY <3>1, <3>2
  <2>8. AtWork'
      BY <1>2, <2>7 DEF AtWork, N
  <2>9. Numbered(reports', accepted')
    <3>1. /\ Len(reports') = Len(reports) + 1 /\ reports'[Len(reports) + 1] = r
          /\ \A k \in 1 .. Len(reports) : reports'[k] = reports[k]
        BY <1>1, <2>1, <2>2, AppendProperties
    <3>2. /\ \A n \in 1 .. Len(accepted) : accepted[n].oid = n
          /\ \A k \in 1 .. Len(reports) : reports[k].oid \in 1 .. Len(accepted)
        BY DEF HistoryInv, Numbered
    <3>3. \A k \in 1 .. Len(reports') : reports'[k].oid \in 1 .. Len(accepted)
        BY <1>1, <1>4, <2>1, <3>1, <3>2
    <3> QED BY <1>2, <3>2, <3>3 DEF Numbered
  <2> QED BY <1>2, <2>4, <2>5, <2>8, <2>9 DEF HistoryInv, Histories
<1> QED BY <1>7, <1>8

\* A trade is told to both sides, the incoming order first; between the two
\* reports the pool is taken to be `mid', where only that order has shrunk.
LEMMA HistoryMatch == HistoryInv /\ Match /\ IInv' => HistoryInv'
<1> SUFFICES ASSUME HistoryInv, Match, IInv' PROVE HistoryInv'
    OBVIOUS
<1>1. /\ CoreInv
      /\ reports \in Seq(ExecutionReport) /\ Len(reports) \in Nat
      /\ accepted \in Seq(Order) /\ Len(accepted) \in Nat
      /\ \A k \in 1 .. Len(reports) :
            reports[k].oid \in Nat \ {0} /\ reports[k].oid <= Len(accepted)
    BY HistoryFacts
<1>2. PICK resting \in RestingSlots, qty \in Quantities : TradeEffect(resting, qty)
    BY <1>1, MatchStep
<1> DEFINE o == order_pool_[incoming]
           r == order_pool_[resting]
           oLeft == o.quantity - qty
           rLeft == r.quantity - qty
           a == Report(o, r.price, qty, FillStatus(oLeft))
           b == Report(r, r.price, qty, FillStatus(rLeft))
           N == Len(accepted)
<1>3. /\ incoming \in Slots /\ incoming # NULL /\ resting \in Slots /\ resting # incoming
      /\ o \in Order /\ r \in Order
      /\ o.quantity \in Quantities /\ r.quantity \in Quantities
      /\ qty <= o.quantity /\ qty <= r.quantity
      /\ Crosses(o, BestLevel(o)) /\ r.price = BestLevel(o)
      /\ r.instrument = o.instrument /\ r.side = Opposite(o.side) /\ r.oid < o.oid
      /\ order_pool_'[incoming] = [o EXCEPT !.quantity = @ - qty]
      /\ order_pool_'[resting] = AfterTrade(r, qty)
      /\ \A s \in Slots \ {incoming, resting} : order_pool_'[s] = order_pool_[s]
      /\ reports' = reports \o TradeReports(o, r, r.price, qty)
      /\ matched_any' = TRUE /\ incoming' = incoming /\ accepted' = accepted
    BY <1>2 DEF TradeEffect, RestingSlots
<1>4. /\ o.quantity \in Nat \ {0} /\ r.quantity \in Nat \ {0}
      /\ oLeft \in Nat /\ rLeft \in Nat
      /\ qty = o.quantity - oLeft /\ qty = r.quantity - rLeft
      /\ (r.quantity = qty <=> rLeft = 0)
      /\ oLeft \in 0 .. MaxQuantity /\ (rLeft # 0 => rLeft \in 0 .. MaxQuantity)
  <2> DEFINE x == o.quantity
             y == r.quantity
  <2>1. /\ x \in 1 .. MaxQuantity /\ y \in 1 .. MaxQuantity /\ qty \in 1 .. MaxQuantity
        /\ qty <= x /\ qty <= y /\ MaxQuantity \in Nat
      BY <1>3, EngineAssumption DEF Quantities
  <2> HIDE DEF x, y
  <2>2. /\ x \in Nat \ {0} /\ y \in Nat \ {0}
        /\ x - qty \in Nat /\ y - qty \in Nat
        /\ qty = x - (x - qty) /\ qty = y - (y - qty)
        /\ (y = qty <=> y - qty = 0)
        /\ x - qty \in 0 .. MaxQuantity /\ y - qty \in 0 .. MaxQuantity
      BY <2>1
  <2> QED BY <2>2 DEF x, y
<1>5. /\ o.oid = N /\ o.oid \in Nat \ {0} /\ r.oid \in Nat \ {0} /\ r.oid < N
      /\ N \in 1 .. Len(accepted) /\ r.oid \in 1 .. Len(accepted)
      /\ o.side = accepted[N].side /\ o.price = accepted[N].price
      /\ r.price = accepted[r.oid].price
  <2>1. o.oid = N
      BY <1>3 DEF HistoryInv, AtWork
  <2>2. incoming \in LiveIn(order_pool_) /\ resting \in LiveIn(order_pool_)
      BY <1>3, OrderFields DEF LiveIn
  <2>3. o.oid \in Nat \ {0} /\ r.oid \in Nat \ {0}
      BY <1>3, OrderFields
  <2> QED BY <1>3, <2>1, <2>2, <2>3 DEF HistoryInv, OnlyReduced
<1>6. /\ a \in ExecutionReport /\ b \in ExecutionReport
      /\ a = [oid |-> o.oid, instrument |-> o.instrument, side |-> o.side,
              price |-> r.price, quantity |-> qty, status |-> FillStatus(oLeft)]
      /\ b = [oid |-> r.oid, instrument |-> r.instrument, side |-> r.side,
              price |-> r.price, quantity |-> qty, status |-> FillStatus(rLeft)]
  <2>1. r.price \in Ticks
      BY <1>3, OrderFields
  <2>2. \A left : FillStatus(left) \in {"New", "Pfill", "Fill"}
      BY DEF FillStatus
  <2> HIDE DEF oLeft, rLeft, o, r
  <2>3. a \in ExecutionReport /\ b \in ExecutionReport
      BY <1>3, <2>1, <2>2, ReportType
  <2> QED BY <2>3 DEF Report
<1> DEFINE told == Append(reports, a)
<1>7. reports' = Append(told, b) /\ told \in Seq(ExecutionReport)
  <2>1. TradeReports(o, r, r.price, qty) = <<a, b>>
      BY DEF TradeReports
  <2> HIDE DEF a, b
  <2> QED BY <1>1, <1>3, <1>6, <2>1
<1> DEFINE mid == [order_pool_ EXCEPT ![incoming] = [o EXCEPT !.quantity = @ - qty]]
<1>8. /\ mid[incoming] = [o EXCEPT !.quantity = @ - qty]
      /\ \A s \in Slots \ {incoming} : mid[s] = order_pool_[s]
      /\ mid[incoming] \in Order /\ mid[incoming].oid = o.oid
      /\ mid[incoming].instrument = o.instrument /\ mid[incoming].side = o.side
      /\ mid[incoming].price = o.price /\ mid[incoming].quantity = oLeft
  <2>1. [o EXCEPT !.quantity = @ - qty].quantity = oLeft
      BY <1>3 DEF Order
  <2> HIDE DEF oLeft
  <2>2. [o EXCEPT !.quantity = @ - qty] \in Order
      BY <1>3, <1>4, <2>1 DEF Order
  <2> QED BY <1>1, <1>3, <2>1, <2>2 DEF CoreInv, CoreTypes, Order
<1>9. \/ order_pool_'[resting] = NoOrder /\ rLeft = 0
      \/ /\ order_pool_'[resting] \in Order /\ order_pool_'[resting].oid = r.oid
         /\ order_pool_'[resting].instrument = r.instrument
         /\ order_pool_'[resting].side = r.side
         /\ order_pool_'[resting].price = r.price
         /\ order_pool_'[resting].quantity = rLeft
  <2>1. CASE rLeft = 0
      BY <1>3, <1>4, <2>1 DEF AfterTrade
  <2>2. CASE rLeft # 0
    <3>1. order_pool_'[resting] = [r EXCEPT !.quantity = @ - qty]
        BY <1>3, <1>4, <2>2 DEF AfterTrade
    <3>2. [r EXCEPT !.quantity = @ - qty].quantity = rLeft
        BY <1>3 DEF Order
    <3> HIDE DEF rLeft
    <3>3. [r EXCEPT !.quantity = @ - qty] \in Order
        BY <1>3, <1>4, <2>2, <3>2 DEF Order
    <3> QED BY <1>3, <3>1, <3>2, <3>3 DEF Order
  <2> QED BY <2>1, <2>2
<1>10. OwnNumbers(mid) /\ Histories(told, accepted, mid)
  <2> DEFINE pool == order_pool_
             seq == reports
             s == incoming
             left == o.quantity
             left2 == oLeft
  <2>1. ToldOneSide(seq, a, accepted, pool, s, left, left2, mid, told)
    <3>1. /\ a.oid = o.oid /\ a.quantity = qty /\ a.status = FillStatus(left2)
        BY <1>6
    <3>2. order_pool_[incoming] # NoOrder
        BY <1>3, OrderFields
    <3>3. mid[incoming] # NoOrder
        BY <1>8, OrderFields
    <3> HIDE DEF a, mid, oLeft
    <3> QED BY <1>1, <1>3, <1>4, <1>5, <1>6, <1>8, <3>1, <3>2, <3>3
            DEF HistoryInv, ToldOneSide
  <2> HIDE DEF pool, seq, s, left, left2, a, mid, told
  <2> QED BY ONLY <2>1, TellOneSide
<1>11. OwnNumbers(order_pool_') /\ Histories(reports', accepted, order_pool_')
  <2> DEFINE pool2 == order_pool_'
             seq2 == reports'
             s == resting
             left == r.quantity
             left2 == rLeft
  <2>1. ToldOneSide(told, b, accepted, mid, s, left, left2, pool2, seq2)
    <3>1. /\ b.oid = r.oid /\ b.quantity = qty /\ b.status = FillStatus(left2)
        BY <1>6
    <3>2. mid[resting] = r /\ r # NoOrder
        BY <1>3, <1>8, OrderFields
    <3>3. order_pool_'[resting] \in Order => order_pool_'[resting] # NoOrder
        BY OrderFields
    <3>4. \A t \in Slots \ {resting} : order_pool_'[t] = mid[t]
        BY <1>3, <1>8
    <3> HIDE DEF b, mid, rLeft, told
    <3> QED BY <1>3, <1>4, <1>5, <1>6, <1>7, <1>9, <1>10, <3>1, <3>2, <3>3, <3>4
            DEF ToldOneSide
  <2> HIDE DEF pool2, seq2, s, left, left2, b, mid, told
  <2>2. OwnNumbers(pool2) /\ Histories(seq2, accepted, pool2)
      BY ONLY <2>1, TellOneSide
  <2> QED BY <2>2 DEF pool2, seq2
<1> HIDE DEF mid
<1>12. OnlyReduced(order_pool_', accepted')
  <2>1. ASSUME NEW s \in Slots, order_pool_'[s] # NoOrder
        PROVE  LET q == order_pool_'[s] IN
               /\ q \in Order /\ q.oid \in 1 .. Len(accepted')
               /\ q.instrument = accepted'[q.oid].instrument
               /\ q.side = accepted'[q.oid].side
               /\ q.price = accepted'[q.oid].price
    <3>1. s \in LiveIn(order_pool_)
        BY <1>3, <2>1, OrderFields DEF LiveIn
    <3>2. /\ order_pool_'[s] \in Order
          /\ order_pool_'[s].oid = order_pool_[s].oid
          /\ order_pool_'[s].instrument = order_pool_[s].instrument
          /\ order_pool_'[s].side = order_pool_[s].side
          /\ order_pool_'[s].price = order_pool_[s].price
      <4>1. CASE s = incoming
          BY <1>3, <1>8, <4>1
      <4>2. CASE s = resting
          BY <1>9, <2>1, <4>2
      <4>3. CASE s # incoming /\ s # resting
          BY <1>3, <3>1, <4>3 DEF HistoryInv, OnlyReduced
      <4> QED BY <4>1, <4>2, <4>3
    <3>3. LET q == order_pool_[s] IN
          /\ q.oid \in 1 .. Len(accepted)
          /\ q.instrument = accepted[q.oid].instrument
          /\ q.side = accepted[q.oid].side
          /\ q.price = accepted[q.oid].price
        BY <3>1 DEF HistoryInv, OnlyReduced
    <3> QED BY <1>3, <3>2, <3>3
  <2> QED BY <2>1 DEF OnlyReduced, LiveIn
<1>13. /\ Len(reports') = Len(reports) + 2
       /\ reports'[Len(reports) + 1] = a /\ reports'[Len(reports) + 2] = b
       /\ \A k \in 1 .. Len(reports) : reports'[k] = reports[k]
  <2> HIDE DEF a, b, told
  <2>1. /\ Len(told) = Len(reports) + 1 /\ told[Len(reports) + 1] = a
        /\ \A k \in 1 .. Len(reports) : told[k] = reports[k]
      BY <1>1, <1>6, AppendProperties DEF told
  <2>2. /\ Len(reports') = Len(told) + 1 /\ reports'[Len(told) + 1] = b
        /\ \A k \in 1 .. Len(told) : reports'[k] = told[k]
      BY <1>6, <1>7, AppendProperties
  <2> QED BY <1>1, <2>1, <2>2
<1>14. Numbered(reports', accepted')
  <2>1. \A k \in 1 .. Len(reports) : reports[k].oid \in 1 .. Len(accepted)
      BY DEF HistoryInv, Numbered
  <2>2. a.oid \in 1 .. Len(accepted) /\ b.oid \in 1 .. Len(accepted)
      BY <1>5, <1>6
  <2> HIDE DEF a, b
  <2>3. \A k \in 1 .. Len(reports') : reports'[k].oid \in 1 .. Len(accepted)
      BY <1>1, <1>13, <2>1, <2>2
  <2> QED BY <1>3, <2>3 DEF HistoryInv, Numbered
<1>15. InPairs(reports', accepted')
  <2>1. PairAt(reports', accepted, Len(reports) + 1)
    <3> HIDE DEF a, b
    <3>1. /\ a.oid = N /\ a.instrument = o.instrument /\ a.side = o.side
          /\ a.price = r.price /\ a.quantity = qty /\ a.status # "New"
          /\ b.oid = r.oid /\ b.instrument = r.instrument /\ b.side = r.side
          /\ b.price = r.price /\ b.quantity = qty /\ b.status # "New"
        BY <1>5, <1>6 DEF FillStatus
    <3> HIDE DEF o, r, N
    <3>2. IF a.side = "BUY" THEN a.price <= accepted[a.oid].price
                            ELSE a.price >= accepted[a.oid].price
        BY <1>3, <1>5, <3>1 DEF Crosses
    <3>3. (Len(reports) + 1) + 1 = Len(reports) + 2
        BY <1>1
    <3>4. reports'[Len(reports) + 1] = a /\ reports'[(Len(reports) + 1) + 1] = b
        BY <1>13, <3>3
    <3> HIDE DEF PairAt
    <3>5. \A seq, acc, n : seq[n] = a /\ seq[n + 1] = b /\ acc = accepted
                            => PairAt(seq, acc, n)
        BY <1>3, <1>5, <3>1, <3>2 DEF PairAt
    <3> QED BY ONLY <3>4, <3>5
  <2>2. a.oid = N
      BY <1>5, <1>6
  <2>3. InPairs(reports, accepted)
      BY DEF HistoryInv
  <2> DEFINE seq2 == reports'
  <2>4. a.oid \in Nat /\ \A k \in 1 .. Len(reports) : /\ reports[k].oid \in Nat
                                                      /\ reports[k].oid <= a.oid
      BY <1>1, <2>2
  <2>5. InPairs(seq2, accepted)
    <3>1. seq2 = Append(told, b) /\ PairAt(seq2, accepted, Len(reports) + 1)
        BY <1>7, <2>1
    <3> HIDE DEF a, b, seq2
    <3> QED BY ONLY <1>1, <1>6, <2>3, <2>4, <3>1, PairsThenTrade DEF told
  <2> QED BY <1>3, <2>5
<1>16. AtWork'
  <2> DEFINE M == Len(reports)
  <2>1. ASSUME NEW n \in 1 .. Len(accepted), n # N
        PROVE  Told(reports', n) # {}
    <3>1. PICK k \in Told(reports, n) : TRUE
        BY <2>1 DEF HistoryInv, AtWork
    <3>2. k \in 1 .. Len(reports') /\ reports'[k] = reports[k] /\ reports[k].oid = n
        BY <1>1, <1>13, <3>1 DEF Told
    <3> QED BY <3>2 DEF Told
  <2>2. Told(reports', N) # {}
    <3>1. M + 1 \in 1 .. Len(reports') /\ reports'[M + 1].oid = N
        BY <1>1, <1>5, <1>6, <1>13
    <3> QED BY <3>1 DEF Told
  <2>3. order_pool_'[incoming].oid = N
      BY <1>3, <1>5, <1>8
  <2> QED BY <1>3, <2>1, <2>2, <2>3 DEF AtWork
<1> QED BY <1>3, <1>11, <1>12, <1>14, <1>15, <1>16 DEF HistoryInv

\* Every step keeps the invariant of the history.
LEMMA HistoryStep == HistoryInv /\ [Next]_vars => HistoryInv'
<1> SUFFICES ASSUME HistoryInv, [Next]_vars PROVE HistoryInv'
    OBVIOUS
<1>1. IInv'
    BY IInvStep DEF HistoryInv
<1>2. CASE NoMoreOrders \/ UNCHANGED vars
  <2>1. /\ order_pool_' = order_pool_ /\ incoming' = incoming
        /\ matched_any' = matched_any /\ reports' = reports /\ accepted' = accepted
      BY <1>2 DEF NoMoreOrders, vars
  <2>2. AtWork'
      BY <2>1 DEF HistoryInv, AtWork
  <2> QED BY <1>1, <2>1, <2>2 DEF HistoryInv
<1> QED BY <1>1, <1>2, HistoryArrive, HistoryMatch, HistoryRest, HistoryFinish DEF Next

LEMMA HistoryInvariance == Spec => []HistoryInv
BY InitHistory, HistoryStep, PTL DEF Spec

LEMMA HistoryImplies ==
    HistoryInv => QuantityConserved /\ ReportLifecycle /\ TradesReportedInPairs
<1> SUFFICES ASSUME HistoryInv
             PROVE  QuantityConserved /\ ReportLifecycle /\ TradesReportedInPairs
    OBVIOUS
<1>1. /\ Len(accepted) \in Nat
      /\ \A n \in 1 .. Len(accepted) : accepted[n] \in Order /\ accepted[n].oid = n
    BY HistoryFacts DEF HistoryInv, Numbered
<1>2. \A n : Left(n) = LeftIn(order_pool_, n)
    BY DEF Left, LeftIn, Live, LiveIn
<1>3. ASSUME NEW n \in 1 .. Len(accepted)
      PROVE  /\ n \in Nat \ {0} /\ accepted[n].oid = n
             /\ accepted[n].quantity \in Nat /\ Left(n) \in Nat
             /\ OrderHistory(reports, n, accepted[n].quantity, Left(n))
    BY <1>1, <1>2 DEF HistoryInv, Histories, Size
<1>4. QuantityConserved
  <2>1. ASSUME NEW n \in 1 .. Len(accepted)
        PROVE  Traded(accepted[n].oid) + Left(accepted[n].oid) = accepted[n].quantity
    <3> DEFINE size == accepted[n].quantity
               left == Left(n)
    <3>1. size \in Nat /\ left \in Nat /\ TotalIs(reports, n, size - left)
        BY <1>3 DEF OrderHistory
    <3> HIDE DEF size, left
    <3>2. Traded(n) = size - left
        BY <3>1, TradedIsTotal
    <3>3. Traded(n) + left = size
        BY <3>1, <3>2
    <3> QED BY <1>3, <3>3 DEF size, left
  <2> QED BY <2>1 DEF QuantityConserved
<1>5. ReportLifecycle
  <2>1. ASSUME NEW n \in 1 .. Len(accepted)
        PROVE  /\ \A k \in Told(reports, n) :
                    /\ reports[k].status = "New" =>
                            \A j \in Told(reports, n) : k <= j
                    /\ reports[k].status = "Fill"
                            <=> Left(n) = 0 /\ \A j \in Told(reports, n) : j <= k
               /\ Told(reports, n) = {} =>
                    incoming # NULL /\ order_pool_[incoming].oid = n
    <3>1. OrderHistory(reports, n, accepted[n].quantity, Left(n))
        BY <1>3
    <3>2. Told(reports, n) = {} => incoming # NULL /\ order_pool_[incoming].oid = n
        BY DEF HistoryInv, AtWork
    <3> QED BY <3>1, <3>2 DEF OrderHistory
  <2>2. \A n \in 1 .. Len(accepted) : accepted[n].oid = n
      BY <1>1
  <2> QED BY <2>1, <2>2 DEF ReportLifecycle, Told
<1>6. TradesReportedInPairs
    BY PairsMeaning DEF HistoryInv
<1> QED BY <1>4, <1>5, <1>6

\* No quantity is made or lost (matching_engine.h:58-101): what an order was
\* reported to trade and what is left of it are what was submitted.
THEOREM ReportsAddUp == Spec => []QuantityConserved
BY HistoryInvariance, HistoryImplies, PTL

\* A client sees New?, Pfill*, Fill? of an order, and Fill exactly when the
\* order is gone (matching_engine.h:62-80, 105-116).
THEOREM LifeOfAnOrder == Spec => []ReportLifecycle
BY HistoryInvariance, HistoryImplies, PTL

\* Each trade is reported to both sides, one after the other, in agreement and
\* within both limits (matching_engine.h:62-80).
THEOREM TradesInPairs == Spec => []TradesReportedInPairs
BY HistoryInvariance, HistoryImplies, PTL

-----------------------------------------------------------------------------
(* The engine implements Market: with books of queues, a pool and two scans *)
(* for the best level, it keeps price-time priority over the set of open    *)
(* orders.                                                                  *)
(*                                                                          *)
(* The open orders are those in the slots that rest.  What a step does to   *)
(* these slots is in the step lemmas above; the books themselves matter     *)
(* only for which order is first.  The lemmas assume CoreInv alone, so that *)
(* they also hold of an OrderProcessor after a reset.                       *)


OpenOrders == {order_pool_[s] : s \in RestingSlots}
Taker == IF incoming = NULL THEN NoOrder ELSE order_pool_[incoming]

\* The place of a resting order is in the level that the order names.
LEMMA RestingPlace ==
    ASSUME CoreInv, NEW s \in RestingSlots
    PROVE  \E side \in Sides, i \in Instruments, t \in Ticks :
            /\ order_pool_[s].side = side
            /\ order_pool_[s].instrument = i
            /\ order_pool_[s].price = t
            /\ \E k \in 1 .. Len(books[side][i][t]) :
                    books[side][i][t][k] = s /\ PlaceOK(side, i, t, k)
<1>1. PICK side \in Sides, i \in Instruments, t \in Ticks :
        \E k \in 1 .. Len(books[side][i][t]) : books[side][i][t][k] = s
    BY DEF RestingSlots
<1>2. PICK k \in 1 .. Len(books[side][i][t]) : books[side][i][t][k] = s
    BY <1>1
<1>3. PlaceOK(side, i, t, k)
    BY PlaceFacts
<1>4. /\ order_pool_[s].side = side
      /\ order_pool_[s].instrument = i
      /\ order_pool_[s].price = t
    BY <1>2, <1>3 DEF PlaceOK
<1> QED BY <1>2, <1>3, <1>4

\* No two resting orders are alike.
LEMMA DistinctOrders ==
    ASSUME CoreInv, NEW a \in RestingSlots, NEW b \in RestingSlots,
           order_pool_[a] = order_pool_[b]
    PROVE  a = b
<1>1. PICK side \in Sides, i \in Instruments, t \in Ticks :
        /\ order_pool_[a].side = side
        /\ order_pool_[a].instrument = i
        /\ order_pool_[a].price = t
        /\ \E k \in 1 .. Len(books[side][i][t]) :
                books[side][i][t][k] = a /\ PlaceOK(side, i, t, k)
    BY RestingPlace
<1>2. \E k \in 1 .. Len(books[side][i][t]) :
            books[side][i][t][k] = b /\ PlaceOK(side, i, t, k)
    BY <1>1, RestingPlace
<1>3. PICK k \in 1 .. Len(books[side][i][t]) :
            books[side][i][t][k] = a /\ PlaceOK(side, i, t, k)
    BY <1>1
<1>4. PICK j \in 1 .. Len(books[side][i][t]) :
            books[side][i][t][j] = b /\ PlaceOK(side, i, t, j)
    BY <1>2
<1>5. Len(books[side][i][t]) \in Nat
    BY LevelType DEF CoreInv, CoreTypes
<1>6. order_pool_[a].oid \in Nat
    BY ReachedOrders, OrderFields
<1>7. ~ (j < k)
  <2>1. j < k => j \in 1 .. k - 1
      BY <1>5
  <2> QED BY <1>3, <1>4, <1>6, <2>1 DEF PlaceOK
<1>8. ~ (k < j)
  <2>1. k < j => k \in 1 .. j - 1
      BY <1>5
  <2> QED BY <1>3, <1>4, <1>6, <2>1 DEF PlaceOK
<1>9. j = k
    BY <1>5, <1>7, <1>8
<1> QED BY <1>3, <1>4, <1>9

-----------------------------------------------------------------------------
(* One lemma for each action.                                               *)

\* Before the first order nothing is open.
LEMMA InitRefines == Init => Market!Init
<1> SUFFICES ASSUME Init PROVE Market!Init
    OBVIOUS
<1>1. CoreInv
    BY InitIInv DEF IInv
<1>2. RestingSlots = {}
    BY <1>1, ReachedOrders DEF Init, Live
<1> QED BY <1>2 DEF Init, Market!Init, Market!NoTaker, NoOrder

\* An order accepted is younger than all that rest.
LEMMA SubmitRefines ==
    ASSUME CoreInv, NEW slot \in Slots, NEW o \in Order, o.quantity \in Quantities,
           \A s \in RestingSlots : order_pool_[s].oid < o.oid,
           ProcessOrder(slot, o)
    PROVE  Market!Submit
<1>1. /\ RestingSlots' = RestingSlots /\ slot \notin Live
      /\ order_pool_'[slot] = o
      /\ \A s \in Slots \ {slot} : order_pool_'[s] = order_pool_[s]
    BY ProcessOrderStep
<1>2. /\ incoming = NULL /\ incoming' = slot /\ slot # NULL
      /\ matched_any' = FALSE /\ reports' = reports
    BY EngineAssumption DEF ProcessOrder
<1>3. OpenOrders' = OpenOrders
  <2>1. \A s \in RestingSlots : order_pool_'[s] = order_pool_[s]
      BY <1>1, ReachedOrders
  <2> QED BY <1>1, <2>1 DEF OpenOrders
<1>4. Taker = NoOrder /\ Taker' = o
    BY <1>1, <1>2 DEF Taker
<1>5. \A p \in OpenOrders : p.oid < o.oid
    BY DEF OpenOrders
<1>6. o \in [oid : Nat \ {0}, instrument : Instruments, side : {"BUY", "SELL"},
             price : 0 .. MaxTicks - 1, quantity : 1 .. MaxQuantity]
    BY DEF Order, Sides, Ticks, Quantities
<1> QED BY <1>2, <1>3, <1>4, <1>5, <1>6
        DEF Market!Submit, Market!NoTaker, NoOrder, OpenOrders, Taker

LEMMA ArriveRefines ==
    ASSUME IInv, Arrive
    PROVE  Market!Submit
<1>1. PICK slot \in Slots, o \in Order :
        /\ o.oid = Len(accepted) + 1 /\ o.quantity \in Quantities
        /\ ProcessOrder(slot, o)
  <2>1. PICK slot \in Slots, i \in Instruments, side \in Sides, price \in Ticks,
             quantity \in Quantities :
                ProcessOrder(slot, [oid |-> Len(accepted) + 1, instrument |-> i,
                                    side |-> side, price |-> price,
                                    quantity |-> quantity])
      BY DEF Arrive
  <2> DEFINE o == [oid |-> Len(accepted) + 1, instrument |-> i, side |-> side,
                   price |-> price, quantity |-> quantity]
  <2>2. Len(accepted) \in Nat
      BY LenProperties DEF IInv
  <2>3. o \in Order /\ o.oid = Len(accepted) + 1 /\ o.quantity \in Quantities
      BY <2>2, EngineAssumption DEF Order, Quantities
  <2> HIDE DEF o
  <2>4. ProcessOrder(slot, o)
      BY <2>1 DEF o
  <2> QED BY <2>3, <2>4
<1>2. ASSUME NEW s \in RestingSlots PROVE order_pool_[s].oid < o.oid
  <2>1. order_pool_[s].oid <= Len(accepted) /\ Len(accepted) \in Nat
      BY ReachedOrders, LenProperties DEF IInv
  <2>2. order_pool_[s].oid \in Nat
      BY ReachedOrders, OrderFields DEF IInv
  <2> QED BY <1>1, <2>1, <2>2
<1> QED BY <1>1, <1>2, SubmitRefines DEF IInv

\* What is left of an order becomes an open one when it can trade with none.
LEMMA RestRefines ==
    ASSUME CoreInv, Rest, NEW S, ExecutionReport \subseteq S, reports \in Seq(S)
    PROVE  Market!Book
<1> DEFINE o == order_pool_[incoming]
<1>1. /\ incoming # NULL /\ o.quantity > 0 /\ NothingToMatch(o)
      /\ reports' = reports \o RestReports(o)
      /\ incoming' = NULL /\ matched_any' = FALSE
      /\ UNCHANGED order_pool_
    BY DEF Rest
<1>2. incoming \in Slots /\ o \in Order /\ books \in Books /\ incoming \in Live
    BY <1>1, ReachedOrders DEF CoreInv, CoreTypes
<1> HIDE DEF o
<1>3. RestingSlots' = RestingSlots \cup {incoming}
    BY RestStep
<1>4. OpenOrders' = OpenOrders \cup {o}
    BY <1>1, <1>3 DEF OpenOrders, o
<1>5. Taker = o /\ Taker' = NoOrder /\ o # NoOrder
    BY <1>1, <1>2, OrderFields DEF Taker, o
<1>6. ASSUME NEW s \in RestingSlots
      PROVE  ~ /\ order_pool_[s].instrument = o.instrument
               /\ order_pool_[s].side # o.side
               /\ IF o.side = "BUY" THEN order_pool_[s].price <= o.price
                                    ELSE order_pool_[s].price >= o.price
  <2> SUFFICES ASSUME order_pool_[s].instrument = o.instrument,
                      order_pool_[s].side # o.side,
                      IF o.side = "BUY" THEN order_pool_[s].price <= o.price
                                        ELSE order_pool_[s].price >= o.price
               PROVE  FALSE
      OBVIOUS
  <2>1. PICK side \in Sides, i \in Instruments, t \in Ticks :
            /\ order_pool_[s].side = side
            /\ order_pool_[s].instrument = i
            /\ order_pool_[s].price = t
            /\ \E k \in 1 .. Len(books[side][i][t]) :
                    books[side][i][t][k] = s /\ PlaceOK(side, i, t, k)
      BY RestingPlace
  <2>2. side = Opposite(o.side) /\ i = o.instrument
      BY <1>2, <2>1, OrderFields DEF Opposite, Sides
  <2>3. Len(books[side][i][t]) # 0
      BY <2>1
  <2>4. t \in NonEmptyTicks(OppositeBook(o))
      BY <1>2, <2>2, <2>3, NonEmptyPlaces DEF OppositeBook
  <2>5. IF o.side = "BUY" THEN o.price < t ELSE t < o.price
      BY <1>1, <1>2, <2>4, NothingToMatchMeaning
  <2>6. t \in Int /\ o.price \in Int
      BY <1>2, OrderFields, EngineAssumption DEF Ticks
  <2> QED BY <2>1, <2>5, <2>6
<1>7. \A n \in OpenOrders : ~ Market!Executable(n)
    BY <1>5, <1>6 DEF OpenOrders, Market!Executable, Taker
<1>8. reports' = IF matched_any THEN reports
                 ELSE Append(reports, Market!Told(o, o.price, o.quantity, "New"))
  <2>1. reports \in Seq(S) /\ matched_any \in BOOLEAN
      BY DEF CoreInv, CoreTypes
  <2>2. CASE matched_any
      BY <1>1, <2>1, <2>2, ConcatEmptySeq DEF RestReports
  <2>3. CASE ~ matched_any
    <3>1. Report(o, o.price, o.quantity, "New") \in S
        BY <1>1, <1>2, OrderFields, ReportType, EngineAssumption DEF Quantities
    <3>2. reports' = reports \o <<Report(o, o.price, o.quantity, "New")>>
        BY <1>1, <2>3 DEF RestReports
    <3>3. reports' = Append(reports, Report(o, o.price, o.quantity, "New"))
        BY <2>1, <3>1, <3>2, AppendIsConcat
    <3> QED BY <2>3, <3>3 DEF Report, Market!Told
  <2> QED BY <2>1, <2>2, <2>3
<1> QED BY <1>1, <1>4, <1>5, <1>7, <1>8
        DEF Market!Book, Market!NoTaker, NoOrder, OpenOrders, Taker

\* A used up order leaves the open orders as they are.
LEMMA FinishRefines ==
    ASSUME CoreInv, Finish
    PROVE  Market!Complete
<1>1. /\ incoming # NULL /\ incoming' = NULL /\ matched_any' = FALSE
      /\ order_pool_[incoming].quantity = 0 /\ reports' = reports
    BY DEF Finish
<1>2. RestingSlots' = RestingSlots
      /\ \A s \in RestingSlots : order_pool_'[s] = order_pool_[s]
    BY FinishStep, ReachedOrders
<1>3. OpenOrders' = OpenOrders
    BY <1>2 DEF OpenOrders
<1>4. Taker = order_pool_[incoming] /\ Taker' = NoOrder /\ Taker # NoOrder
    BY <1>1, ReachedOrders, OrderFields DEF Taker
<1> QED BY <1>1, <1>3, <1>4
        DEF Market!Complete, Market!NoTaker, NoOrder, OpenOrders, Taker

\* The best level is the first that the incoming order may trade at.
LEMMA BestLevelFirst ==
    ASSUME books \in Books, NEW o \in Order,
           NEW t \in NonEmptyTicks(OppositeBook(o))
    PROVE  IF o.side = "BUY" THEN BestLevel(o) <= t ELSE t <= BestLevel(o)
<1> DEFINE bk == OppositeBook(o)
<1>1. Opposite(o.side) \in Sides /\ o.instrument \in Instruments
    BY OrderFields DEF Opposite, Sides
<1>2. bk \in [0 .. MaxTicks - 1 -> Seq(Slots)]
    BY <1>1, LevelType DEF OppositeBook, Ticks
<1>3. MaxTicks \in Nat \ {0} /\ t \in NonEmptyTicks(bk)
    BY EngineAssumption
<1> HIDE DEF bk
<1>4. FindFirst(bk) <= t
    BY ONLY <1>2, <1>3, FindFirstProperties
<1>5. t <= FindLast(bk)
    BY ONLY <1>2, <1>3, FindLastProperties
<1> QED BY <1>4, <1>5 DEF BestLevel, bk

\* The resting order of a trade is the first of those that the incoming order
\* can trade with: best price, then earliest arrival.
FirstInLine(o, resting) ==
    /\ resting \in RestingSlots
    /\ LET r == order_pool_[resting] IN
       /\ r.instrument = o.instrument /\ r.side = Opposite(o.side)
       /\ r.price = BestLevel(o)
       /\ IF o.side = "BUY" THEN r.price <= o.price ELSE r.price >= o.price
       /\ \A s \in RestingSlots \ {resting} :
            LET n == order_pool_[s] IN
            n.instrument = o.instrument /\ n.side = Opposite(o.side) =>
                \/ IF o.side = "BUY" THEN r.price < n.price ELSE n.price < r.price
                \/ r.price = n.price /\ r.oid < n.oid

LEMMA PriorityKept ==
    ASSUME CoreInv, NEW o \in Order, Crosses(o, BestLevel(o)),
           NEW resting, resting = PeekOrder(OppositeBook(o), BestLevel(o), NULL)
    PROVE  FirstInLine(o, resting)
<1>0. books \in Books /\ BestLevel(o) # NoLevel
    BY DEF CoreInv, CoreTypes, Crosses
<1>1. PICK sd \in Sides, ins \in Instruments :
            sd = Opposite(o.side) /\ ins = o.instrument
    BY OrderFields DEF Opposite, Sides
<1>2. BestLevel(o) \in NonEmptyTicks(books[sd][ins])
    BY <1>0, <1>1, BestLevelMeaning DEF OppositeBook
<1>3. PICK p \in Ticks : p = BestLevel(o)
    BY <1>0, <1>2, NonEmptyPlaces
<1>4. /\ 1 \in 1 .. Len(books[sd][ins][p])
      /\ resting = books[sd][ins][p][1]
  <2>1. books[sd][ins] \in [Ticks -> Seq(Slots)] /\ books[sd][ins][p] # << >>
      BY <1>0, <1>2, <1>3, LevelType DEF NonEmptyTicks
  <2>2. Len(books[sd][ins][p]) \in Nat \ {0}
      BY <1>0, <2>1, LevelType
  <2>3. resting = books[sd][ins][p][1]
      BY <1>1, <1>3, <2>1, PeekOrderProperties DEF OppositeBook
  <2> QED BY <2>2, <2>3
<1>5. PlaceOK(sd, ins, p, 1)
    BY <1>4, PlaceFacts
<1> DEFINE r == order_pool_[resting]
<1>6. /\ resting \in RestingSlots
      /\ r.instrument = ins /\ r.side = sd /\ r.price = p
    BY <1>4, <1>5 DEF PlaceOK
<1>7. IF o.side = "BUY" THEN r.price <= o.price ELSE r.price >= o.price
    BY <1>3, <1>6 DEF Crosses
<1>8. ASSUME NEW s \in RestingSlots \ {resting},
             order_pool_[s].instrument = ins, order_pool_[s].side = sd
      PROVE  \/ IF o.side = "BUY" THEN r.price < order_pool_[s].price
                                  ELSE order_pool_[s].price < r.price
             \/ r.price = order_pool_[s].price /\ r.oid < order_pool_[s].oid
  <2>1. PICK t \in Ticks :
            /\ order_pool_[s].price = t
            /\ \E k \in 1 .. Len(books[sd][ins][t]) :
                    books[sd][ins][t][k] = s /\ PlaceOK(sd, ins, t, k)
      BY <1>8, RestingPlace
  <2>2. PICK k \in 1 .. Len(books[sd][ins][t]) :
            books[sd][ins][t][k] = s /\ PlaceOK(sd, ins, t, k)
      BY <2>1
  <2>3. t \in NonEmptyTicks(OppositeBook(o))
    <3>1. Len(books[sd][ins][t]) # 0
        BY <2>2
    <3> QED BY <1>0, <1>1, <3>1, NonEmptyPlaces DEF OppositeBook
  <2>4. IF o.side = "BUY" THEN p <= t ELSE t <= p
      BY <1>0, <1>3, <2>3, BestLevelFirst
  <2>5. CASE t = p
    <3>1. 1 \in 1 .. k - 1
      <4>1. k # 1
          BY <1>4, <2>2, <2>5
      <4> QED BY <4>1
    <3>2. r.oid < order_pool_[s].oid
        BY <1>4, <2>2, <2>5, <3>1 DEF PlaceOK
    <3> QED BY <1>6, <2>1, <2>5, <3>2
  <2>6. CASE t # p
    <3>1. t \in Int /\ p \in Int
        BY EngineAssumption DEF Ticks
    <3> QED BY <1>6, <2>1, <2>4, <2>6, <3>1
  <2> QED BY <2>5, <2>6
<1> QED BY <1>1, <1>3, <1>6, <1>7, <1>8 DEF FirstInLine

\* A trade is with the first order in line, at its price, for as much as both
\* have, and both clients are told what it left.
LEMMA MatchRefines ==
    ASSUME CoreInv, Match
    PROVE  \E m \in OpenOrders : Market!Execute(m)
<1>1. PICK resting \in RestingSlots, qty \in Quantities : TradeEffect(resting, qty)
    BY MatchStep
<1> DEFINE o == order_pool_[incoming]
           r == order_pool_[resting]
           less == [r EXCEPT !.quantity = @ - qty]
           open2 == (OpenOrders \ {r}) \cup (IF r.quantity = qty THEN {} ELSE {less})
<1>2. /\ incoming # NULL /\ incoming \in Slots /\ resting \in Slots
      /\ resting # incoming /\ o \in Order /\ r \in Order
      /\ o.quantity \in Quantities /\ r.quantity \in Quantities
      /\ incoming' = incoming /\ matched_any' = TRUE
    BY <1>1, ReachedOrders DEF TradeEffect
<1>3. FirstInLine(o, resting)
    BY <1>1, PriorityKept DEF TradeEffect
<1>4. /\ qty \in 1 .. MaxQuantity /\ qty <= o.quantity /\ qty <= r.quantity
      /\ qty = o.quantity \/ qty = r.quantity
    BY <1>1 DEF TradeEffect, Quantities
<1>5. /\ order_pool_'[incoming] = [o EXCEPT !.quantity = @ - qty]
      /\ order_pool_'[resting] = AfterTrade(r, qty)
      /\ \A s \in Slots \ {incoming, resting} : order_pool_'[s] = order_pool_[s]
    BY <1>1 DEF TradeEffect
<1>6. RestingSlots' = IF r.quantity = qty THEN RestingSlots \ {resting}
                      ELSE RestingSlots
    BY <1>1 DEF TradeEffect
<1>7. reports' = reports \o
        <<Market!Told(o, r.price, qty, IF o.quantity = qty THEN "Fill" ELSE "Pfill"),
          Market!Told(r, r.price, qty, IF r.quantity = qty THEN "Fill" ELSE "Pfill")>>
  <2>1. /\ o.quantity - qty = 0 <=> o.quantity = qty
        /\ r.quantity - qty = 0 <=> r.quantity = qty
      BY <1>2, <1>4, EngineAssumption DEF Quantities
  <2>2. reports' = reports \o TradeReports(o, r, r.price, qty)
      BY <1>1 DEF TradeEffect
  <2> QED BY <2>1, <2>2 DEF TradeReports, Report, FillStatus, Market!Told
<1>8. /\ Taker = o /\ Taker' = [o EXCEPT !.quantity = @ - qty] /\ o # NoOrder
       /\ o.quantity > 0
    BY <1>2, <1>5, OrderFields, EngineAssumption DEF Taker, Quantities
<1> HIDE DEF o, r, less
<1>9. \A s \in RestingSlots \ {resting} :
        order_pool_'[s] = order_pool_[s] /\ order_pool_[s] # r
  <2>1. \A s \in RestingSlots \ {resting} : order_pool_[s] # r
      BY DistinctOrders DEF r
  <2> QED BY <1>5, <2>1, ReachedOrders
<1>10. OpenOrders' = open2
  <2>1. CASE r.quantity = qty
    <3>1. RestingSlots' = RestingSlots \ {resting}
        BY <1>6, <2>1
    <3>2. OpenOrders' = OpenOrders \ {r}
        BY <1>9, <3>1 DEF OpenOrders, r
    <3> QED BY <2>1, <3>2
  <2>2. CASE r.quantity # qty
    <3>1. order_pool_'[resting] = less
        BY <1>5, <2>2 DEF AfterTrade, less
    <3>2. RestingSlots' = RestingSlots
        BY <1>6, <2>2
    <3>3. OpenOrders' = (OpenOrders \ {r}) \cup {less}
        BY <1>9, <3>1, <3>2 DEF OpenOrders, r
    <3> QED BY <2>2, <3>3
  <2> QED BY <2>1, <2>2
<1>11. r \in OpenOrders
    BY DEF OpenOrders, r
<1>12. Market!Executable(r)
  <2>1. r.side # o.side
      BY <1>2, <1>3, OrderFields DEF FirstInLine, Opposite, Sides, r
  <2> QED BY <1>3, <1>8, <2>1 DEF FirstInLine, r, Market!Executable, Taker
<1>13. \A n \in OpenOrders \ {r} : Market!Executable(n) => Market!Ahead(r, n)
  <2>1. ASSUME NEW s \in RestingSlots, order_pool_[s] # r,
               Market!Executable(order_pool_[s])
        PROVE  Market!Ahead(r, order_pool_[s])
    <3> DEFINE n == order_pool_[s]
    <3>1. n.instrument = o.instrument /\ n.side # o.side /\ n \in Order
        BY <1>8, <2>1, ReachedOrders DEF Market!Executable, Taker
    <3>2. n.side = Opposite(o.side)
        BY <1>2, <3>1, OrderFields DEF Opposite, Sides
    <3>3. /\ r.side = Opposite(o.side)
          /\ \/ IF o.side = "BUY" THEN r.price < n.price ELSE n.price < r.price
             \/ r.price = n.price /\ r.oid < n.oid
        BY <1>3, <2>1, <3>1, <3>2 DEF FirstInLine, r
    <3>4. r.price \in Int /\ n.price \in Int /\ o.side \in {"BUY", "SELL"}
        BY <1>2, <3>1, OrderFields, EngineAssumption DEF Ticks, Sides
    <3> HIDE DEF n
    <3>5. Market!Ahead(r, n)
        BY <3>3, <3>4 DEF Market!Ahead, Opposite
    <3> QED BY <3>5 DEF n
  <2> QED BY <2>1 DEF OpenOrders
<1>14. PICK m \in OpenOrders : m = r
    BY <1>11
<1>15. Market!Execute(m)
    BY <1>2, <1>4, <1>10, <1>12, <1>13, <1>7, <1>8, <1>14
       DEF Market!Execute, Market!NoTaker, NoOrder, OpenOrders, Taker, less
<1> QED BY <1>15

-----------------------------------------------------------------------------
(* The refinement.                                                          *)

\* Price-time priority: whatever process_order does is what the Market allows,
\* and what it reports is what the Market tells (matching_engine.h:33-107).
THEOREM EngineImplementsMarket == Spec => ImplementsMarket
<1>1. IInv /\ [Next]_vars =>
        [Market!Next]_<<OpenOrders, Taker, matched_any, reports>>
  <2> SUFFICES ASSUME IInv, [Next]_vars
               PROVE  Market!Next \/ UNCHANGED <<OpenOrders, Taker, matched_any, reports>>
      OBVIOUS
  <2>1. CASE Arrive
      BY <2>1, ArriveRefines DEF Market!Next
  <2>2. CASE Match
      BY <2>2, MatchRefines DEF Market!Next, OpenOrders, IInv
  <2>3. CASE Rest
      BY <2>3, RestRefines DEF Market!Next, IInv
  <2>4. CASE Finish
      BY <2>4, FinishRefines DEF Market!Next, IInv
  <2>5. CASE NoMoreOrders \/ UNCHANGED vars
      BY <2>5 DEF NoMoreOrders, vars, OpenOrders, Taker, RestingSlots
  <2> QED BY <2>1, <2>2, <2>3, <2>4, <2>5 DEF Next
<1>2. IInv /\ [Next]_vars =>
        [Market!Next]_<<{order_pool_[s] : s \in RestingSlots},
                        IF incoming = NULL THEN NoOrder ELSE order_pool_[incoming],
                        matched_any, reports>>
    BY <1>1 DEF OpenOrders, Taker
<1> QED BY <1>2, InitRefines, Invariance, PTL DEF Spec, ImplementsMarket, Market!Spec
=============================================================================
