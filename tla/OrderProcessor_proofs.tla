------------------------ MODULE OrderProcessor_proofs ------------------------
(***************************************************************************)
(* OrderProcessor, for any messages and limits and any number of files: what *)
(* reaches the engine is within the limits, only orders of the file are      *)
(* reached, every message is answered in turn, and each file is matched as   *)
(* by a market that opens empty.                                             *)
(***************************************************************************)
EXTENDS OrderProcessor, MatchingEngine_proofs

-----------------------------------------------------------------------------
(* The inductive invariant.                                                 *)

\* The reports on messages that are refused.
Refusals ==
    [oid : Nat \ {0}, instrument : {m.instrument : m \in Messages},
     side : {m.side : m \in Messages}, price : Int, quantity : Nat,
     status : {"Reject"}]

\* The slots the engine can get at.
Reached == RestingSlots \cup ({incoming} \ {NULL})

\* Message n has been answered.
Answered(n) == \E k \in 1 .. Len(reports) : reports[k].oid = n

\* An order that is reached is a valid message of this file and one of those
\* accepted; what is left of it is no more than was accepted.
OrderAmong(o, messages, orders) ==
    /\ o.oid \in 1 .. Len(messages)
    /\ validate_order(messages[o.oid])
    /\ \E n \in 1 .. Len(orders) :
        /\ o.oid = orders[n].oid
        /\ o.side = orders[n].side
        /\ o.price = orders[n].price
        /\ o.quantity <= orders[n].quantity

ReachedOfThisFile ==
    \A s \in Reached : OrderAmong(order_pool_[s], submitted, accepted)

\* The order being matched is the last message, and it has been answered as
\* soon as it has traded.
Underway ==
    incoming # NULL =>
        LET o == order_pool_[incoming] IN
        /\ o.oid = Len(submitted)
        /\ matched_any => Answered(o.oid)
        /\ o.quantity = 0 => matched_any

\* Report k is about a message of this file, all those before which have been
\* answered before; it refuses just what is not valid, once.
ReportInTurn(k) ==
    LET n == reports[k].oid IN
    /\ n \in 1 .. Len(submitted)
    /\ \A m \in 1 .. n - 1 : \E j \in 1 .. k - 1 : reports[j].oid = m
    /\ reports[k].status = "Reject" <=> ~ validate_order(submitted[n])
    /\ ~ validate_order(submitted[n]) =>
        \A j \in 1 .. Len(reports) : reports[j].oid = n => j = k

AllInTurn == \A k \in 1 .. Len(reports) : ReportInTurn(k)

\* Every message but the one being matched has been answered.
OthersAnswered ==
    \A n \in 1 .. Len(submitted) :
        \/ Answered(n)
        \/ incoming # NULL /\ order_pool_[incoming].oid = n

HistoryTypes ==
    /\ reports \in Seq(ExecutionReport \cup Refusals)
    /\ accepted \in Seq(Order)
    /\ submitted \in Seq(Messages)
    /\ next_oid_ = Len(submitted) + 1

ProcessorInv ==
    /\ CoreInv
    /\ HistoryTypes
    /\ AcceptedWithinLimits
    /\ ReachedOfThisFile
    /\ Underway
    /\ AllInTurn
    /\ OthersAnswered

-----------------------------------------------------------------------------
(* The data a step works on.                                                *)

\* Concatenation, place by place.
LEMMA GrownSeq ==
    ASSUME NEW S, NEW a \in Seq(S), NEW b \in Seq(S), NEW c, c = a \o b
    PROVE  /\ c \in Seq(S) /\ Len(a) \in Nat /\ Len(b) \in Nat
           /\ Len(c) = Len(a) + Len(b)
           /\ \A k \in 1 .. Len(a) : k \in 1 .. Len(c) /\ c[k] = a[k]
           /\ \A j \in 1 .. Len(b) :
                Len(a) + j \in 1 .. Len(c) /\ c[Len(a) + j] = b[j]
           /\ \A k \in 1 .. Len(c) :
                \/ k \in 1 .. Len(a)
                \/ k > Len(a) /\ \E j \in 1 .. Len(b) : c[k] = b[j]
<1>1. Len(a) \in Nat /\ Len(b) \in Nat
    BY LenProperties
<1>2. /\ c \in Seq(S) /\ Len(c) = Len(a) + Len(b)
      /\ \A i \in 1 .. Len(a) + Len(b) :
            c[i] = IF i <= Len(a) THEN a[i] ELSE b[i - Len(a)]
    BY ConcatProperties
<1>3. ASSUME NEW j \in 1 .. Len(b)
      PROVE  Len(a) + j \in 1 .. Len(c) /\ c[Len(a) + j] = b[j]
  <2>1. Len(a) + j \in 1 .. Len(a) + Len(b) /\ ~ (Len(a) + j <= Len(a))
        /\ (Len(a) + j) - Len(a) = j
      BY <1>1
  <2> QED BY <1>2, <2>1
<1>4. ASSUME NEW k \in 1 .. Len(c), k \notin 1 .. Len(a)
      PROVE  k > Len(a) /\ \E j \in 1 .. Len(b) : c[k] = b[j]
  <2>1. k - Len(a) \in 1 .. Len(b) /\ ~ (k <= Len(a)) /\ k \in 1 .. Len(a) + Len(b)
      BY <1>1, <1>2, <1>4
  <2>2. c[k] = b[k - Len(a)]
      BY <1>2, <2>1
  <2> QED BY <1>1, <2>1, <2>2
<1>5. \A k \in 1 .. Len(a) : k \in 1 .. Len(c) /\ c[k] = a[k]
    BY <1>1, <1>2
<1> QED BY <1>1, <1>2, <1>3, <1>4, <1>5

\* A valid message makes an order whose price is a tick of the books, and whose
\* quantity has come through the conversion to uint16_t.
LEMMA AcceptedIsOrder ==
    ASSUME HistoryTypes, NEW m \in Messages, validate_order(m)
    PROVE  /\ Accepted(m) \in Order
           /\ Accepted(m).oid = Len(submitted) + 1
           /\ Accepted(m).quantity \in MinQuantity .. MaxQuantity
           /\ Accepted(m).quantity \in Quantities
           /\ Accepted(m).quantity % QuantityMultiple = 0
<1> DEFINE q == uint16_t(m.quantity)
           p == double_to_ticks(m.price)
<1>1. /\ m.instrument \in Instruments
      /\ m.quantity % QuantityMultiple = 0
      /\ MinQuantity <= m.quantity /\ m.quantity <= MaxQuantity
      /\ 0 < m.price /\ m.price <= 10 * (MaxTicks - 1)
    BY DEF validate_order, MaxPrice
<1>2. /\ m.quantity \in Int /\ m.price \in Int /\ MinQuantity \in Nat \ {0}
      /\ MaxQuantity \in Nat /\ MaxQuantity < 65536 /\ MaxTicks \in Nat \ {0}
  <2>1. 2^16 = 65536
      OBVIOUS
  <2> QED BY <2>1, EngineAssumption, ProcessorAssumption
<1>3. q = m.quantity
  <2>1. 0 <= m.quantity /\ m.quantity < 65536
      BY <1>1, <1>2
  <2>2. m.quantity % 65536 = m.quantity
      BY ONLY <1>2, <2>1
  <2>3. 2^16 = 65536
      OBVIOUS
  <2> QED BY <2>2, <2>3 DEF uint16_t
<1>4. p \in Ticks
  <2>1. p = (m.price + 5) \div 10
      BY <1>1, <1>2 DEF double_to_ticks, Rounded
  <2>2. (m.price + 5) \div 10 \in 0 .. MaxTicks - 1
      BY ONLY <1>1, <1>2
  <2> QED BY <2>1, <2>2 DEF Ticks
<1>5. /\ q \in MinQuantity .. MaxQuantity /\ q \in 0 .. MaxQuantity
      /\ q \in Quantities /\ q % QuantityMultiple = 0
    BY <1>1, <1>2, <1>3 DEF Quantities
<1>6. next_oid_ \in Nat \ {0} /\ next_oid_ = Len(submitted) + 1
    BY LenProperties DEF HistoryTypes
<1> HIDE DEF q, p
<1>7. Accepted(m) = [oid |-> next_oid_, instrument |-> m.instrument,
                     side |-> IF m.side = SideCode["BUY"] THEN "BUY" ELSE "SELL",
                     price |-> p, quantity |-> q]
    BY DEF Accepted, p, q
<1> QED BY <1>1, <1>4, <1>5, <1>6, <1>7 DEF Order, Sides

\* The report on a message that is not valid.
LEMMA RejectIsRefusal ==
    ASSUME HistoryTypes, NEW m \in Messages
    PROVE  /\ Reject(m) \in Refusals
           /\ Reject(m).oid = Len(submitted) + 1
           /\ Reject(m).status = "Reject"
<1>1. next_oid_ \in Nat \ {0} /\ next_oid_ = Len(submitted) + 1
    BY LenProperties DEF HistoryTypes
<1>2. m.price \in Int /\ m.quantity \in Int
    BY ProcessorAssumption
<1>3. Rounded(m.price) \in Int /\ double_to_ticks(m.price) \in Int
    BY <1>2 DEF Rounded, double_to_ticks
<1>4. uint16_t(IF m.quantity > 0 THEN m.quantity ELSE 0) \in Nat
  <2> DEFINE q == IF m.quantity > 0 THEN m.quantity ELSE 0
  <2>1. q \in Int
      BY <1>2
  <2> HIDE DEF q
  <2>2. 2^16 = 65536 /\ q % 65536 \in Nat
      BY ONLY <2>1
  <2> QED BY <2>2 DEF uint16_t, q
<1> DEFINE price == IF m.price >= 0 THEN double_to_ticks(m.price)
                                    ELSE Rounded(m.price)
           quantity == uint16_t(IF m.quantity > 0 THEN m.quantity ELSE 0)
<1>5. price \in Int /\ quantity \in Nat
    BY <1>3, <1>4
<1> HIDE DEF price, quantity
<1>6. Reject(m) = [oid |-> next_oid_, instrument |-> m.instrument, side |-> m.side,
                   price |-> price, quantity |-> quantity, status |-> "Reject"]
    BY DEF Reject, price, quantity
<1> QED BY <1>1, <1>5, <1>6 DEF Refusals

-----------------------------------------------------------------------------
(* What the clients are told.                                               *)

\* Reports on valid messages, when all the messages before theirs have been
\* answered.
LEMMA MoreReports ==
    ASSUME HistoryTypes, AllInTurn,
           NEW more \in Seq(ExecutionReport \cup Refusals),
           reports' = reports \o more, submitted' = submitted,
           \A j \in 1 .. Len(more) :
                /\ more[j].oid \in 1 .. Len(submitted)
                /\ validate_order(submitted[more[j].oid])
                /\ more[j].status # "Reject"
                /\ \A m \in 1 .. more[j].oid - 1 : Answered(m)
    PROVE  /\ reports' \in Seq(ExecutionReport \cup Refusals)
           /\ AllInTurn'
           /\ \A n : Answered(n) => Answered(n)'
           /\ \A j \in 1 .. Len(more) : Answered(more[j].oid)'
<1> DEFINE S == ExecutionReport \cup Refusals
<1>1. reports \in Seq(S)
    BY DEF HistoryTypes
<1>2. /\ reports' \in Seq(S) /\ Len(reports) \in Nat /\ Len(more) \in Nat
      /\ Len(reports') = Len(reports) + Len(more)
      /\ \A k \in 1 .. Len(reports) :
            k \in 1 .. Len(reports') /\ reports'[k] = reports[k]
      /\ \A j \in 1 .. Len(more) :
            /\ Len(reports) + j \in 1 .. Len(reports')
            /\ reports'[Len(reports) + j] = more[j]
      /\ \A k \in 1 .. Len(reports') :
            \/ k \in 1 .. Len(reports)
            \/ k > Len(reports) /\ \E j \in 1 .. Len(more) : reports'[k] = more[j]
  <2>1. more \in Seq(S) /\ reports' = reports \o more
      OBVIOUS
  <2> HIDE DEF S
  <2> QED BY ONLY <1>1, <2>1, GrownSeq
<1>3. \A n : Answered(n) => Answered(n)'
    BY <1>2 DEF Answered
<1>4. \A j \in 1 .. Len(more) : Answered(more[j].oid)'
    BY <1>2 DEF Answered
<1>5. ASSUME NEW k \in 1 .. Len(reports') PROVE ReportInTurn(k)'
  <2>1. CASE k \in 1 .. Len(reports)
    <3>1. ReportInTurn(k)
        BY <2>1 DEF AllInTurn
    <3>2. reports'[k] = reports[k]
        BY <1>2, <2>1
    <3>3. ASSUME NEW j \in 1 .. k - 1 PROVE reports'[j] = reports[j]
      <4>1. j \in 1 .. Len(reports)
        <5>1. Len(reports) \in Nat /\ k \in 1 .. Len(reports)
            BY <1>2, <2>1
        <5> QED BY ONLY <5>1, j \in 1 .. k - 1
      <4>2. \A i \in 1 .. Len(reports) : reports'[i] = reports[i]
          BY <1>2
      <4> QED BY ONLY <4>1, <4>2
    <3>4. ASSUME ~ validate_order(submitted[reports[k].oid]),
                 NEW j \in 1 .. Len(reports'), reports'[j].oid = reports[k].oid
          PROVE  j = k
      <4>1. ~ \E i \in 1 .. Len(more) : reports'[j] = more[i]
          BY <3>4
      <4>2. j \in 1 .. Len(reports)
          BY <1>2, <3>4, <4>1
      <4>3. reports'[j] = reports[j]
          BY <1>2, <4>2
      <4> QED BY <3>1, <3>4, <4>2, <4>3 DEF ReportInTurn
    <3>5. ASSUME NEW m \in 1 .. reports[k].oid - 1
          PROVE  \E j \in 1 .. k - 1 : reports'[j].oid = m
      <4>1. PICK j \in 1 .. k - 1 : reports[j].oid = m
          BY <3>1 DEF ReportInTurn
      <4> QED BY <3>3, <4>1
    <3>6. /\ reports[k].oid \in 1 .. Len(submitted)
          /\ reports[k].status = "Reject" <=> ~ validate_order(submitted[reports[k].oid])
        BY <3>1 DEF ReportInTurn
    <3> QED BY <3>2, <3>4, <3>5, <3>6 DEF ReportInTurn
  <2>2. CASE k > Len(reports) /\ \E j \in 1 .. Len(more) : reports'[k] = more[j]
    <3>1. PICK j \in 1 .. Len(more) : reports'[k] = more[j]
        BY <2>2
    <3>2. ASSUME NEW m \in 1 .. more[j].oid - 1
          PROVE  \E h \in 1 .. k - 1 : reports'[h].oid = m
      <4>1. PICK h \in 1 .. Len(reports) : reports[h].oid = m
          BY DEF Answered
      <4>2. h \in 1 .. k - 1
          BY <1>2, <2>2
      <4> QED BY <1>2, <4>1, <4>2
    <3> QED BY <3>1, <3>2 DEF ReportInTurn
  <2> QED BY <1>2, <2>1, <2>2
<1> QED BY <1>2, <1>3, <1>4, <1>5 DEF AllInTurn

\* A message more: what was said of those before it stays in turn.
LEMMA MoreMessages ==
    ASSUME HistoryTypes, AllInTurn, NEW m \in Messages,
           submitted' = Append(submitted, m)
    PROVE  /\ submitted' \in Seq(Messages) /\ Len(submitted) \in Nat
           /\ Len(submitted') = Len(submitted) + 1
           /\ submitted'[Len(submitted) + 1] = m
           /\ \A n \in 1 .. Len(submitted) : submitted'[n] = submitted[n]
           /\ reports' = reports => AllInTurn'
<1>1. /\ submitted' \in Seq(Messages) /\ Len(submitted) \in Nat
      /\ Len(submitted') = Len(submitted) + 1
      /\ submitted'[Len(submitted) + 1] = m
      /\ \A n \in 1 .. Len(submitted) : submitted'[n] = submitted[n]
    BY AppendProperties, LenProperties DEF HistoryTypes
<1>2. ASSUME reports' = reports, NEW k \in 1 .. Len(reports) PROVE ReportInTurn(k)'
  <2>1. ReportInTurn(k)
      BY DEF AllInTurn
  <2>2. /\ reports[k].oid \in 1 .. Len(submitted)
        /\ reports[k].oid \in 1 .. Len(submitted')
        /\ submitted'[reports[k].oid] = submitted[reports[k].oid]
      BY <1>1, <2>1 DEF ReportInTurn
  <2> QED BY <1>2, <2>1, <2>2 DEF ReportInTurn
<1> QED BY <1>1, <1>2 DEF AllInTurn

\* The refusal of a message, when all those before it have been answered.
LEMMA OneRefusal ==
    ASSUME HistoryTypes, AllInTurn, \A n \in 1 .. Len(submitted) : Answered(n),
           NEW m \in Messages, ~ validate_order(m),
           submitted' = Append(submitted, m),
           NEW r \in Refusals, r.oid = Len(submitted) + 1, r.status = "Reject",
           reports' = Append(reports, r)
    PROVE  /\ reports' \in Seq(ExecutionReport \cup Refusals)
           /\ AllInTurn'
           /\ \A n \in 1 .. Len(submitted') : Answered(n)'
<1>1. /\ Len(submitted) \in Nat /\ Len(submitted') = Len(submitted) + 1
      /\ submitted'[Len(submitted) + 1] = m
      /\ \A n \in 1 .. Len(submitted) : submitted'[n] = submitted[n]
    BY MoreMessages
<1>2. /\ reports' \in Seq(ExecutionReport \cup Refusals) /\ Len(reports) \in Nat
      /\ Len(reports') = Len(reports) + 1
      /\ reports'[Len(reports) + 1] = r
      /\ \A k \in 1 .. Len(reports) : reports'[k] = reports[k]
    BY AppendProperties, LenProperties DEF HistoryTypes
<1>3. ASSUME NEW n \in 1 .. Len(submitted') PROVE Answered(n)'
  <2>1. CASE n = Len(submitted) + 1
      BY <1>1, <1>2, <2>1 DEF Answered
  <2>2. CASE n # Len(submitted) + 1
    <3>1. PICK k \in 1 .. Len(reports) : reports[k].oid = n
      <4>1. n \in 1 .. Len(submitted)
          BY <1>1, <2>2
      <4> QED BY <4>1 DEF Answered
    <3>2. k \in 1 .. Len(reports') /\ reports'[k].oid = n
        BY <1>2, <3>1
    <3> QED BY <3>2 DEF Answered
  <2> QED BY <2>1, <2>2
<1>4. ASSUME NEW k \in 1 .. Len(reports)
      PROVE  /\ reports[k].oid \in 1 .. Len(submitted) /\ ReportInTurn(k)
             /\ reports[k].oid # Len(submitted) + 1
  <2>1. ReportInTurn(k)
      BY DEF AllInTurn
  <2> QED BY <1>1, <2>1 DEF ReportInTurn
<1>5. ASSUME NEW k \in 1 .. Len(reports') PROVE ReportInTurn(k)'
  <2>1. CASE k \in 1 .. Len(reports)
    <3>1. /\ reports'[k] = reports[k]
          /\ reports[k].oid \in 1 .. Len(submitted')
          /\ submitted'[reports[k].oid] = submitted[reports[k].oid]
        BY <1>1, <1>2, <1>4, <2>1
    <3>2. ASSUME NEW j \in 1 .. k - 1 PROVE reports'[j] = reports[j]
      <4>1. j \in 1 .. Len(reports)
          BY <1>2, <2>1
      <4> QED BY <1>2, <4>1
    <3>3. ASSUME ~ validate_order(submitted[reports[k].oid]),
                 NEW j \in 1 .. Len(reports'), reports'[j].oid = reports[k].oid
          PROVE  j = k
      <4>1. j # Len(reports) + 1
          BY <1>2, <1>4, <2>1, <3>3
      <4>2. j \in 1 .. Len(reports)
          BY <1>2, <4>1
      <4>3. ReportInTurn(k) /\ reports[j].oid = reports[k].oid
          BY <1>2, <1>4, <2>1, <3>3, <4>2
      <4> QED BY <3>3, <4>2, <4>3 DEF ReportInTurn
    <3>4. /\ reports'[k].oid = reports[k].oid
          /\ reports'[k].status = reports[k].status
          /\ submitted'[reports'[k].oid] = submitted[reports[k].oid]
        BY <3>1
    <3>5. \A n \in 1 .. reports'[k].oid - 1 :
            \E j \in 1 .. k - 1 : reports'[j].oid = n
        BY <1>4, <2>1, <3>2, <3>4 DEF ReportInTurn
    <3>6. reports'[k].status = "Reject"
            <=> ~ validate_order(submitted'[reports'[k].oid])
        BY <1>4, <2>1, <3>4 DEF ReportInTurn
    <3> QED BY <3>1, <3>3, <3>4, <3>5, <3>6 DEF ReportInTurn
  <2>2. CASE k = Len(reports) + 1
    <3>1. reports'[k] = r /\ r.oid \in 1 .. Len(submitted') /\ submitted'[r.oid] = m
        BY <1>1, <1>2, <2>2
    <3>2. ASSUME NEW n \in 1 .. r.oid - 1
          PROVE  \E j \in 1 .. k - 1 : reports'[j].oid = n
      <4>1. n \in 1 .. Len(submitted) /\ Len(reports) = k - 1
          BY <1>1, <1>2, <2>2
      <4>2. PICK j \in 1 .. Len(reports) : reports[j].oid = n
          BY <4>1 DEF Answered
      <4> QED BY <1>2, <4>1, <4>2
    <3>3. ASSUME NEW j \in 1 .. Len(reports'), reports'[j].oid = r.oid
          PROVE  j = k
      <4>1. j \notin 1 .. Len(reports)
          BY <1>2, <1>4, <3>3
      <4> QED BY <1>2, <2>2, <4>1
    <3> QED BY <3>1, <3>2, <3>3 DEF ReportInTurn
  <2> QED BY <1>2, <2>1, <2>2
<1> QED BY <1>2, <1>3, <1>5 DEF AllInTurn

-----------------------------------------------------------------------------
(* Every action preserves the invariant.                                    *)

\* An order stays one of this file while messages and orders are added, and
\* while it trades.
LEMMA OrderStays ==
    ASSUME NEW messages \in Seq(Messages), NEW orders \in Seq(Order),
           NEW o \in Order, OrderAmong(o, messages, orders),
           NEW messages2,
           \/ messages2 = messages
           \/ \E m \in Messages : messages2 = Append(messages, m),
           NEW orders2,
           \/ orders2 = orders
           \/ \E x \in Order : orders2 = Append(orders, x),
           NEW p \in Order, p.oid = o.oid, p.side = o.side, p.price = o.price,
           p.quantity <= o.quantity
    PROVE  OrderAmong(p, messages2, orders2)
<1>1. /\ Len(messages) \in Nat /\ Len(orders) \in Nat
      /\ \A n \in 1 .. Len(messages) :
            n \in 1 .. Len(messages2) /\ messages2[n] = messages[n]
      /\ \A n \in 1 .. Len(orders) :
            n \in 1 .. Len(orders2) /\ orders2[n] = orders[n]
  <2>1. ASSUME NEW S, NEW a \in Seq(S), NEW b,
               b = a \/ \E x \in S : b = Append(a, x)
        PROVE  /\ Len(a) \in Nat
               /\ \A n \in 1 .. Len(a) : n \in 1 .. Len(b) /\ b[n] = a[n]
    <3>1. Len(a) \in Nat
        BY LenProperties
    <3>2. CASE b = a
        BY <3>1, <3>2
    <3>3. CASE \E x \in S : b = Append(a, x)
        BY <3>1, <3>3, AppendProperties
    <3> QED BY <2>1, <3>1, <3>2, <3>3
  <2> QED BY <2>1
<1>2. PICK n \in 1 .. Len(orders) :
        /\ o.oid = orders[n].oid /\ o.side = orders[n].side
        /\ o.price = orders[n].price /\ o.quantity <= orders[n].quantity
    BY DEF OrderAmong
<1>3. orders[n] \in Order
    BY ElementOfSeq
<1>4. p.quantity <= orders[n].quantity
  <2>1. p.quantity \in Int /\ o.quantity \in Int /\ orders[n].quantity \in Int
      BY <1>3, OrderFields, EngineAssumption
  <2> QED BY <1>2, <2>1
<1>5. /\ p.oid \in 1 .. Len(messages2)
      /\ validate_order(messages2[p.oid])
    BY <1>1 DEF OrderAmong
<1> QED BY <1>1, <1>2, <1>4, <1>5 DEF OrderAmong

\* While no order is being matched all messages have been answered, and every
\* resting order is older than the next.
LEMMA Idle ==
    ASSUME ProcessorInv, incoming = NULL
    PROVE  /\ \A n \in 1 .. Len(submitted) : Answered(n)
           /\ Reached = RestingSlots
           /\ \A s \in RestingSlots : order_pool_[s].oid < Len(submitted) + 1
<1>1. \A n \in 1 .. Len(submitted) : Answered(n)
    BY DEF ProcessorInv, OthersAnswered
<1>2. Reached = RestingSlots
    BY DEF Reached
<1>3. ASSUME NEW s \in RestingSlots
      PROVE  order_pool_[s].oid < Len(submitted) + 1
  <2>1. order_pool_[s].oid \in 1 .. Len(submitted) /\ Len(submitted) \in Nat
      BY <1>2, LenProperties
         DEF ProcessorInv, ReachedOfThisFile, OrderAmong, HistoryTypes
  <2> QED BY <2>1
<1> QED BY <1>1, <1>2, <1>3

\* A message becomes an order and enters the engine.
LEMMA ConsumeValid ==
    ASSUME ProcessorInv, NEW m \in Messages, Consume(m), validate_order(m)
    PROVE  ProcessorInv'
<1>1. PICK o \in Order : o = Accepted(m)
    BY AcceptedIsOrder DEF ProcessorInv
<1>2. PICK slot \in Slots : ProcessOrder(slot, o)
    BY <1>1 DEF Consume
<1>3. /\ incoming = NULL /\ submitted' = Append(submitted, m)
      /\ next_oid_' = next_oid_ + 1 /\ incoming' = slot /\ slot # NULL
      /\ matched_any' = FALSE /\ reports' = reports
      /\ accepted' = Append(accepted, o)
    BY <1>2, EngineAssumption DEF Consume, TakeOid, ProcessOrder
<1>4. /\ CoreInv /\ HistoryTypes /\ AllInTurn
      /\ reports \in Seq(ExecutionReport \cup Refusals)
      /\ accepted \in Seq(Order) /\ submitted \in Seq(Messages)
      /\ next_oid_ = Len(submitted) + 1
    BY DEF ProcessorInv, HistoryTypes
<1>5. /\ o.oid = Len(submitted) + 1 /\ o.quantity \in Quantities
      /\ o.quantity \in MinQuantity .. MaxQuantity
      /\ o.quantity % QuantityMultiple = 0
    BY <1>1, <1>4, AcceptedIsOrder
<1>6. \A s \in RestingSlots : order_pool_[s].oid < o.oid
    BY <1>3, <1>5, Idle
<1>7. /\ CoreInv' /\ RestingSlots' = RestingSlots /\ slot \notin Live
      /\ order_pool_'[slot] = o
      /\ \A s \in Slots \ {slot} : order_pool_'[s] = order_pool_[s]
    BY <1>2, <1>4, <1>6, ProcessOrderStep
<1>8. /\ submitted' \in Seq(Messages) /\ Len(submitted) \in Nat
      /\ Len(submitted') = Len(submitted) + 1
      /\ submitted'[Len(submitted) + 1] = m
      /\ AllInTurn'
    BY <1>3, <1>4, MoreMessages
<1>9. /\ accepted' \in Seq(Order) /\ Len(accepted) \in Nat
      /\ Len(accepted') = Len(accepted) + 1
      /\ accepted'[Len(accepted) + 1] = o
      /\ \A n \in 1 .. Len(accepted) : accepted'[n] = accepted[n]
    BY <1>3, <1>4, AppendProperties, LenProperties
<1>10. HistoryTypes'
    BY <1>3, <1>4, <1>8, <1>9 DEF HistoryTypes
<1>11. AcceptedWithinLimits'
  <2>1. ASSUME NEW n \in 1 .. Len(accepted')
        PROVE  /\ accepted'[n].price \in Ticks
               /\ accepted'[n].quantity \in MinQuantity .. MaxQuantity
               /\ accepted'[n].quantity % QuantityMultiple = 0
    <3>1. CASE n = Len(accepted) + 1
        BY <1>5, <1>9, <3>1, OrderFields
    <3>2. CASE n # Len(accepted) + 1
      <4>1. n \in 1 .. Len(accepted)
          BY <1>9, <3>2
      <4> QED BY <1>9, <4>1 DEF ProcessorInv, AcceptedWithinLimits
    <3> QED BY <3>1, <3>2
  <2> QED BY <2>1 DEF AcceptedWithinLimits
<1>12. ReachedOfThisFile'
  <2>1. ASSUME NEW s \in Reached'
        PROVE  OrderAmong(order_pool_'[s], submitted', accepted')
    <3>1. CASE s = slot
      <4>1. /\ o.oid \in 1 .. Len(submitted') /\ validate_order(submitted'[o.oid])
            /\ Len(accepted) + 1 \in 1 .. Len(accepted') /\ o.quantity <= o.quantity
          BY <1>5, <1>8, <1>9, EngineAssumption DEF Quantities
      <4> QED BY <1>7, <1>9, <3>1, <4>1 DEF OrderAmong
    <3>2. CASE s # slot
      <4>1. s \in RestingSlots
          BY <1>3, <1>7, <3>2 DEF Reached
      <4>2. /\ order_pool_[s] \in Order /\ order_pool_'[s] = order_pool_[s]
            /\ OrderAmong(order_pool_[s], submitted, accepted)
            /\ order_pool_[s].quantity <= order_pool_[s].quantity
          BY <1>3, <1>4, <1>7, <3>2, <4>1, Idle, ReachedOrders, OrderFields,
             EngineAssumption DEF ProcessorInv, ReachedOfThisFile
      <4> QED BY <1>3, <1>4, <4>2, OrderStays
    <3> QED BY <3>1, <3>2
  <2> QED BY <2>1 DEF ReachedOfThisFile
<1>13. Underway'
    BY <1>3, <1>5, <1>7, <1>8, EngineAssumption DEF Underway, Quantities
<1>14. OthersAnswered'
  <2>1. ASSUME NEW n \in 1 .. Len(submitted')
        PROVE  Answered(n)' \/ n = Len(submitted) + 1
      BY <1>3, <1>8, Idle DEF Answered
  <2> QED BY <1>3, <1>5, <1>7, <2>1 DEF OthersAnswered
<1> QED BY <1>7, <1>8, <1>10, <1>11, <1>12, <1>13, <1>14 DEF ProcessorInv

\* A message is refused; the engine does not move.
LEMMA ConsumeInvalid ==
    ASSUME ProcessorInv, NEW m \in Messages, Consume(m), ~ validate_order(m)
    PROVE  /\ ProcessorInv'
           /\ RestingSlots' = RestingSlots
<1>1. /\ incoming = NULL /\ submitted' = Append(submitted, m)
      /\ next_oid_' = next_oid_ + 1 /\ reports' = Append(reports, Reject(m))
      /\ order_pool_' = order_pool_ /\ books' = books /\ incoming' = incoming
      /\ matched_any' = matched_any /\ accepted' = accepted
    BY DEF Consume, TakeOid
<1>2. /\ CoreInv /\ HistoryTypes /\ AllInTurn
      /\ accepted \in Seq(Order) /\ submitted \in Seq(Messages)
      /\ next_oid_ = Len(submitted) + 1
    BY DEF ProcessorInv, HistoryTypes
<1>3. PICK r \in Refusals :
        r = Reject(m) /\ r.oid = Len(submitted) + 1 /\ r.status = "Reject"
    BY <1>2, RejectIsRefusal
<1>4. CoreInv' /\ RestingSlots' = RestingSlots
    BY <1>1, <1>2, StutterKeepsCore
<1>5. /\ submitted' \in Seq(Messages) /\ Len(submitted) \in Nat
      /\ Len(submitted') = Len(submitted) + 1
    BY <1>1, <1>2, MoreMessages
<1>6. /\ reports' \in Seq(ExecutionReport \cup Refusals)
      /\ AllInTurn'
      /\ \A n \in 1 .. Len(submitted') : Answered(n)'
    BY <1>1, <1>2, <1>3, Idle, OneRefusal
<1>7. HistoryTypes'
    BY <1>1, <1>2, <1>5, <1>6 DEF HistoryTypes
<1>8. ReachedOfThisFile'
  <2>1. ASSUME NEW s \in RestingSlots
        PROVE  OrderAmong(order_pool_[s], submitted', accepted)
    <3>1. /\ order_pool_[s] \in Order
          /\ OrderAmong(order_pool_[s], submitted, accepted)
          /\ order_pool_[s].quantity <= order_pool_[s].quantity
        BY <1>1, <1>2, Idle, ReachedOrders, OrderFields, EngineAssumption
           DEF ProcessorInv, ReachedOfThisFile
    <3> QED BY <1>1, <1>2, <3>1, OrderStays
  <2> QED BY <1>1, <1>4, <2>1 DEF ReachedOfThisFile, Reached
<1> QED BY <1>1, <1>4, <1>6, <1>7, <1>8
        DEF ProcessorInv, AcceptedWithinLimits, Underway, OthersAnswered

\* A trade: both orders are valid messages, and the older one has been answered.
LEMMA MatchKeeps ==
    ASSUME ProcessorInv, Match, UNCHANGED <<next_oid_, submitted, files>>
    PROVE  ProcessorInv'
<1>1. /\ CoreInv /\ HistoryTypes /\ AllInTurn /\ Underway /\ OthersAnswered
      /\ accepted \in Seq(Order) /\ submitted \in Seq(Messages)
      /\ Len(submitted) \in Nat
      /\ next_oid_' = next_oid_ /\ submitted' = submitted
    BY LenProperties DEF ProcessorInv, HistoryTypes
<1>2. CoreInv'
    BY <1>1, MatchStep
<1>3. PICK resting \in RestingSlots, qty \in Quantities : TradeEffect(resting, qty)
    BY <1>1, MatchStep
<1> DEFINE o == order_pool_[incoming]
           r == order_pool_[resting]
<1>4. /\ incoming # NULL /\ incoming \in Slots /\ resting \in Slots
      /\ resting # incoming /\ o \in Order /\ r \in Order
      /\ o.quantity \in Quantities /\ r.quantity \in Quantities
      /\ r.oid < o.oid /\ r.price \in Ticks
      /\ incoming' = incoming /\ matched_any' = TRUE /\ accepted' = accepted
      /\ reports' = reports \o TradeReports(o, r, r.price, qty)
      /\ order_pool_'[incoming] = [o EXCEPT !.quantity = @ - qty]
      /\ order_pool_'[resting] = AfterTrade(r, qty)
      /\ \A s \in Slots \ {incoming, resting} : order_pool_'[s] = order_pool_[s]
      /\ RestingSlots' = IF r.quantity = qty THEN RestingSlots \ {resting}
                         ELSE RestingSlots
      /\ qty <= o.quantity /\ qty <= r.quantity
    BY <1>1, <1>3, ReachedOrders, OrderFields DEF TradeEffect
<1>5. /\ OrderAmong(o, submitted, accepted) /\ OrderAmong(r, submitted, accepted)
      /\ o.oid = Len(submitted)
    BY <1>1, <1>4 DEF ProcessorInv, ReachedOfThisFile, Reached, Underway
<1> HIDE DEF o, r
<1>6. \A n \in 1 .. Len(submitted) - 1 : Answered(n)
    BY <1>1, <1>5 DEF OthersAnswered, o
<1>7. PICK more \in Seq(ExecutionReport \cup Refusals) :
        more = TradeReports(o, r, r.price, qty)
  <2>1. TradeReports(o, r, r.price, qty) \in Seq(ExecutionReport)
      BY <1>4, TradeReportsType
  <2>2. Seq(ExecutionReport) \subseteq Seq(ExecutionReport \cup Refusals)
      OBVIOUS
  <2> QED BY <2>1, <2>2
<1>8. /\ Len(more) = 2 /\ more[1].oid = o.oid /\ more[2].oid = r.oid
      /\ more[1].status # "Reject" /\ more[2].status # "Reject"
    BY <1>7 DEF TradeReports, Report, FillStatus
<1>9. ASSUME NEW j \in 1 .. Len(more)
      PROVE  /\ more[j].oid \in 1 .. Len(submitted)
             /\ validate_order(submitted[more[j].oid])
             /\ more[j].status # "Reject"
             /\ \A m \in 1 .. more[j].oid - 1 : Answered(m)
  <2>1. /\ o.oid \in 1 .. Len(submitted) /\ validate_order(submitted[o.oid])
        /\ r.oid \in 1 .. Len(submitted) /\ validate_order(submitted[r.oid])
      BY <1>5 DEF OrderAmong
  <2>2. \A m \in 1 .. r.oid - 1 : m \in 1 .. Len(submitted) - 1
      BY <1>1, <2>1
  <2> QED BY <1>5, <1>6, <1>8, <2>1, <2>2
<1>10. /\ reports' \in Seq(ExecutionReport \cup Refusals)
       /\ AllInTurn'
       /\ \A n : Answered(n) => Answered(n)'
       /\ Answered(o.oid)'
  <2>1. /\ reports' \in Seq(ExecutionReport \cup Refusals)
        /\ AllInTurn'
        /\ \A n : Answered(n) => Answered(n)'
        /\ \A j \in 1 .. Len(more) : Answered(more[j].oid)'
    <3>1. reports' = reports \o more
        BY <1>4, <1>7
    <3> QED BY <1>1, <1>9, <3>1, MoreReports
  <2>2. Answered(more[1].oid)' <=> Answered(o.oid)'
      BY <1>4, <1>8 DEF Answered, o
  <2> QED BY <1>8, <2>1, <2>2
<1>11. o.oid = order_pool_'[incoming].oid
    BY <1>4 DEF Order
<1>12. HistoryTypes'
    BY <1>1, <1>4, <1>10 DEF HistoryTypes
<1>13. ReachedOfThisFile'
  <2>1. ASSUME NEW s \in Reached'
        PROVE  OrderAmong(order_pool_'[s], submitted, accepted)
    <3>1. s = incoming \/ s \in RestingSlots
        BY <1>4 DEF Reached
    <3>2. CASE s = incoming
      <4>1. PICK p \in Order : p = order_pool_'[incoming]
          BY <1>2, <1>4, ReachedOrders DEF CoreInv, CoreTypes, Live
      <4>2. /\ p.oid = o.oid /\ p.side = o.side /\ p.price = o.price
            /\ p.quantity = o.quantity - qty
          BY <1>4, <4>1 DEF Order
      <4>3. p.quantity <= o.quantity
          BY <1>4, <4>2, EngineAssumption DEF Quantities
      <4> QED BY <1>1, <1>4, <1>5, <3>2, <4>1, <4>2, <4>3, OrderStays
    <3>3. CASE s # incoming /\ s = resting
      <4>1. order_pool_'[s] = [r EXCEPT !.quantity = @ - qty]
        <5>1. s \in RestingSlots'
            BY <1>4, <2>1, <3>3 DEF Reached
        <5> QED BY <1>4, <3>3, <5>1 DEF AfterTrade
      <4>2. PICK p \in Order : p = order_pool_'[s]
        <5>1. r.quantity - qty \in 0 .. MaxQuantity
            BY <1>4, EngineAssumption DEF Quantities
        <5> QED BY <1>4, <4>1, <5>1 DEF Order
      <4>3. /\ p.oid = r.oid /\ p.side = r.side /\ p.price = r.price
            /\ p.quantity = r.quantity - qty
          BY <1>4, <4>1, <4>2 DEF Order
      <4>4. p.quantity <= r.quantity
          BY <1>4, <4>3, EngineAssumption DEF Quantities
      <4> QED BY <1>1, <1>4, <1>5, <4>2, <4>3, <4>4, OrderStays
    <3>4. CASE s # incoming /\ s # resting
      <4>1. s \in RestingSlots /\ order_pool_'[s] = order_pool_[s]
          BY <1>1, <1>4, <3>1, <3>4, ReachedOrders
      <4> QED BY <4>1 DEF ProcessorInv, ReachedOfThisFile, Reached
    <3> QED BY <3>2, <3>3, <3>4
  <2> QED BY <1>1, <1>4, <2>1 DEF ReachedOfThisFile
<1>14. Underway'
  <2>1. order_pool_'[incoming'].oid = Len(submitted') /\ incoming' # NULL
      BY <1>1, <1>4, <1>5, <1>11
  <2>2. Answered(order_pool_[incoming].oid)'
      BY <1>10 DEF o
  <2> QED BY <1>4, <2>1, <2>2 DEF Underway
<1>15. OthersAnswered'
    BY <1>1, <1>4, <1>10, <1>11 DEF OthersAnswered, o
<1> QED BY <1>1, <1>2, <1>4, <1>10, <1>12, <1>13, <1>14, <1>15
        DEF ProcessorInv, AcceptedWithinLimits

\* The order rests: it has traded and been answered, or is answered now.
LEMMA RestKeeps ==
    ASSUME ProcessorInv, Rest, UNCHANGED <<next_oid_, submitted, files>>
    PROVE  ProcessorInv'
<1> DEFINE o == order_pool_[incoming]
<1>1. /\ CoreInv /\ HistoryTypes /\ AllInTurn /\ Underway /\ OthersAnswered
      /\ accepted \in Seq(Order) /\ submitted \in Seq(Messages)
      /\ Len(submitted) \in Nat
      /\ next_oid_' = next_oid_ /\ submitted' = submitted
    BY LenProperties DEF ProcessorInv, HistoryTypes
<1>2. /\ incoming # NULL /\ o.quantity > 0 /\ incoming' = NULL
      /\ reports' = reports \o RestReports(o)
      /\ order_pool_' = order_pool_ /\ accepted' = accepted
    BY DEF Rest
<1>3. CoreInv' /\ RestingSlots' = RestingSlots \cup {incoming}
    BY <1>1, RestStep
<1>4. OrderAmong(o, submitted, accepted) /\ o.oid = Len(submitted)
    BY <1>1, <1>2 DEF ProcessorInv, ReachedOfThisFile, Reached, Underway
<1> HIDE DEF o
<1>5. \A n \in 1 .. Len(submitted) - 1 : Answered(n)
    BY <1>1, <1>4 DEF OthersAnswered, o
<1>6. PICK more \in Seq(ExecutionReport \cup Refusals) : more = RestReports(o)
  <2>1. RestReports(o) \in Seq(ExecutionReport)
      BY <1>1, <1>2, RestReportsType DEF o
  <2>2. Seq(ExecutionReport) \subseteq Seq(ExecutionReport \cup Refusals)
      OBVIOUS
  <2> QED BY <2>1, <2>2
<1>7. /\ matched_any => Len(more) = 0
      /\ ~ matched_any => Len(more) = 1 /\ more[1].oid = o.oid
                          /\ more[1].status # "Reject"
      /\ Len(more) \in {0, 1}
    BY <1>6 DEF RestReports, Report
<1>8. ASSUME NEW j \in 1 .. Len(more)
      PROVE  /\ more[j].oid \in 1 .. Len(submitted)
             /\ validate_order(submitted[more[j].oid])
             /\ more[j].status # "Reject"
             /\ \A m \in 1 .. more[j].oid - 1 : Answered(m)
  <2>1. j = 1 /\ more[j].oid = o.oid /\ more[j].status # "Reject"
    <3>1. Len(more) = 1 /\ ~ matched_any
        BY <1>7
    <3> QED BY <1>7, <3>1
  <2> QED BY <1>4, <1>5, <2>1 DEF OrderAmong
<1>9. /\ reports' \in Seq(ExecutionReport \cup Refusals)
      /\ AllInTurn'
      /\ \A n : Answered(n) => Answered(n)'
      /\ \A j \in 1 .. Len(more) : Answered(more[j].oid)'
  <2>1. reports' = reports \o more
      BY <1>2, <1>6
  <2> QED BY <1>1, <1>8, <2>1, MoreReports
<1>10. Answered(Len(submitted))'
  <2>1. CASE matched_any
    <3>1. Answered(o.oid)
        BY <1>1, <1>2, <2>1 DEF Underway, o
    <3>2. Answered(Len(submitted))
        BY <1>4, <3>1 DEF Answered
    <3>3. PICK n : n = Len(submitted)
        OBVIOUS
    <3> QED BY <1>1, <1>9, <3>2, <3>3 DEF Answered
  <2>2. CASE ~ matched_any
    <3>1. Answered(more[1].oid)'
      <4>1. 1 \in 1 .. Len(more)
          BY <1>7, <2>2
      <4> QED BY <1>9, <4>1
    <3> QED BY <1>1, <1>4, <1>7, <2>2, <3>1 DEF Answered
  <2> QED BY <2>1, <2>2
<1>11. HistoryTypes'
    BY <1>1, <1>2, <1>9 DEF HistoryTypes
<1>12. ReachedOfThisFile'
    BY <1>1, <1>2, <1>3, EngineAssumption
       DEF ProcessorInv, ReachedOfThisFile, Reached
<1>13. OthersAnswered'
  <2>1. ASSUME NEW n \in 1 .. Len(submitted) PROVE Answered(n)'
    <3>1. CASE n = Len(submitted)
        BY <1>1, <1>10, <3>1 DEF Answered
    <3>2. CASE n # Len(submitted)
        BY <1>1, <1>5, <1>9, <3>2
    <3> QED BY <3>1, <3>2
  <2> QED BY <1>1, <2>1 DEF OthersAnswered
<1> QED BY <1>1, <1>2, <1>3, <1>9, <1>11, <1>12, <1>13
        DEF ProcessorInv, AcceptedWithinLimits, Underway

\* The order is used up: it has traded, so it has been answered.
LEMMA FinishKeeps ==
    ASSUME ProcessorInv, Finish, UNCHANGED <<next_oid_, submitted, files>>
    PROVE  ProcessorInv'
<1>1. /\ CoreInv /\ HistoryTypes /\ AllInTurn /\ Underway /\ OthersAnswered
      /\ next_oid_' = next_oid_ /\ submitted' = submitted
    BY DEF ProcessorInv
<1>2. /\ incoming # NULL /\ order_pool_[incoming].quantity = 0 /\ incoming' = NULL
      /\ reports' = reports /\ accepted' = accepted
    BY DEF Finish
<1>3. /\ CoreInv' /\ RestingSlots' = RestingSlots
      /\ \A s \in Slots \ {incoming} : order_pool_'[s] = order_pool_[s]
    BY <1>1, FinishStep
<1>4. HistoryTypes' /\ AllInTurn'
    BY <1>1, <1>2 DEF HistoryTypes, AllInTurn, ReportInTurn
<1>5. ReachedOfThisFile'
  <2>1. ASSUME NEW s \in RestingSlots
        PROVE  OrderAmong(order_pool_'[s], submitted, accepted)
    <3>1. order_pool_'[s] = order_pool_[s]
        BY <1>1, <1>3, ReachedOrders
    <3> QED BY <3>1 DEF ProcessorInv, ReachedOfThisFile, Reached
  <2> QED BY <1>1, <1>2, <1>3, <2>1 DEF ReachedOfThisFile, Reached
<1>6. \A n \in 1 .. Len(submitted) : Answered(n)
  <2>1. Answered(order_pool_[incoming].oid)
      BY <1>1, <1>2 DEF Underway
  <2> QED BY <1>1, <2>1 DEF OthersAnswered, Answered
<1>7. OthersAnswered'
    BY <1>1, <1>2, <1>6 DEF OthersAnswered, Answered
<1> QED BY <1>1, <1>2, <1>3, <1>4, <1>5, <1>7
        DEF ProcessorInv, AcceptedWithinLimits, Underway

\* Empty books, no matter what is in the pool.
LEMMA OpenEmpty ==
    ASSUME NEW bk,
           bk = [side \in Sides |-> [i \in Instruments |-> EmptyLevels(Ticks)]],
           books' = bk
    PROVE  /\ books' \in Books /\ RestingSlots' = {}
           /\ RestingOrdersPlaced' /\ NotCrossed'
<1>1. /\ bk \in Books
      /\ \A side \in Sides, i \in Instruments, t \in Ticks :
            bk[side][i][t] = << >> /\ Len(bk[side][i][t]) = 0
    BY EmptyBooks
<1>2. RestingSlots' = {}
    BY <1>1 DEF RestingSlots
<1>3. RestingOrdersPlaced'
    BY <1>1 DEF RestingOrdersPlaced
<1>4. NotCrossed'
    BY <1>1 DEF NotCrossed, NonEmptyTicks, EmptyLevels, Sides
<1> QED BY <1>1, <1>2, <1>3, <1>4

\* A reset: the books are empty, whatever is left in the pool.
LEMMA ResetKeeps ==
    ASSUME ProcessorInv, reset
    PROVE  ProcessorInv' /\ RestingSlots' = {}
<1>1. /\ CoreInv /\ incoming = NULL /\ incoming' = incoming
      /\ next_oid_' = 1 /\ submitted' = << >> /\ accepted' = << >>
      /\ reports' = << >> /\ order_pool_' = order_pool_
      /\ matched_any' = matched_any
      /\ books' = [side \in Sides |-> [i \in Instruments |-> EmptyLevels(Ticks)]]
    BY DEF ProcessorInv, reset, ClearBooks
<1>2. /\ books' \in Books /\ RestingSlots' = {}
      /\ RestingOrdersPlaced' /\ NotCrossed'
    BY <1>1, OpenEmpty
<1>3. CoreInv'
    BY <1>1, <1>2 DEF CoreInv, CoreTypes, IncomingYoungest
<1>4. /\ Len(submitted') = 0 /\ Len(accepted') = 0 /\ Len(reports') = 0
      /\ HistoryTypes'
    BY <1>1, EmptySeq DEF HistoryTypes
<1>5. AcceptedWithinLimits' /\ AllInTurn' /\ OthersAnswered'
    BY <1>4 DEF AcceptedWithinLimits, AllInTurn, OthersAnswered
<1>6. ReachedOfThisFile' /\ Underway'
    BY <1>1, <1>2 DEF ReachedOfThisFile, Reached, Underway
<1> QED BY <1>2, <1>3, <1>4, <1>5, <1>6 DEF ProcessorInv

-----------------------------------------------------------------------------
(* The theorems.                                                            *)

LEMMA ProcessorInitInv == ProcessorInit => ProcessorInv
<1> SUFFICES ASSUME ProcessorInit PROVE ProcessorInv
    OBVIOUS
<1>1. /\ Init /\ next_oid_ = 1 /\ submitted = << >> /\ reports = << >>
      /\ accepted = << >> /\ incoming = NULL
    BY DEF ProcessorInit, Init
<1>2. CoreInv
    BY <1>1, InitIInv DEF IInv
<1>3. /\ Len(submitted) = 0 /\ Len(accepted) = 0 /\ Len(reports) = 0
      /\ HistoryTypes
    BY <1>1, EmptySeq DEF HistoryTypes
<1>4. AcceptedWithinLimits /\ AllInTurn /\ OthersAnswered
    BY <1>3 DEF AcceptedWithinLimits, AllInTurn, OthersAnswered
<1>5. RestingSlots = {}
  <2>1. \A s : s \in RestingSlots => s \in Live
      BY <1>2, ReachedOrders
  <2> QED BY <1>1, <2>1 DEF Init, Live
<1>6. ReachedOfThisFile /\ Underway
    BY <1>1, <1>5 DEF ReachedOfThisFile, Reached, Underway
<1> QED BY <1>2, <1>3, <1>4, <1>6 DEF ProcessorInv

LEMMA ProcessorInvStep ==
    ProcessorInv /\ [ProcessorNext]_processorVars => ProcessorInv'
<1> SUFFICES ASSUME ProcessorInv, [ProcessorNext]_processorVars
             PROVE  ProcessorInv'
    OBVIOUS
<1>1. ASSUME NEW m \in Messages, Consume(m) PROVE ProcessorInv'
  <2>1. CASE validate_order(m)
      BY <1>1, <2>1, ConsumeValid
  <2>2. CASE ~ validate_order(m)
      BY <1>1, <2>2, ConsumeInvalid
  <2> QED BY <2>1, <2>2
<1>2. CASE Process
  <2>1. UNCHANGED <<next_oid_, submitted, files>> /\ (Match \/ Rest \/ Finish)
      BY <1>2 DEF Process
  <2>2. CASE Match
      BY <2>1, <2>2, MatchKeeps
  <2>3. CASE Rest
      BY <2>1, <2>3, RestKeeps
  <2>4. CASE Finish
      BY <2>1, <2>4, FinishKeeps
  <2> QED BY <2>1, <2>2, <2>3, <2>4
<1>3. CASE reset
    BY <1>3, ResetKeeps
<1>4. CASE UNCHANGED processorVars
  <2>1. /\ order_pool_' = order_pool_ /\ books' = books /\ incoming' = incoming
        /\ matched_any' = matched_any /\ reports' = reports
        /\ accepted' = accepted /\ next_oid_' = next_oid_
        /\ submitted' = submitted
      BY <1>4 DEF processorVars, vars
  <2>2. CoreInv' /\ RestingSlots' = RestingSlots
      BY <2>1, StutterKeepsCore DEF ProcessorInv
  <2>3. HistoryTypes' /\ AllInTurn' /\ AcceptedWithinLimits'
      BY <2>1 DEF ProcessorInv, HistoryTypes, AllInTurn, ReportInTurn,
                  AcceptedWithinLimits
  <2>4. ReachedOfThisFile' /\ Underway' /\ OthersAnswered'
      BY <2>1, <2>2 DEF ProcessorInv, ReachedOfThisFile, Reached, Underway,
                        OthersAnswered, Answered
  <2> QED BY <2>2, <2>3, <2>4 DEF ProcessorInv
<1> QED BY <1>1, <1>2, <1>3, <1>4 DEF ProcessorNext, NoMoreMessages

\* The invariant holds in every state of every behaviour of the processor.
THEOREM ProcessorInvariance == ProcessorSpec => []ProcessorInv
BY ProcessorInitInv, ProcessorInvStep, PTL DEF ProcessorSpec

\* What process_order is handed is inside the books' arrays and fits uint16_t
\* (order_processor.cpp:139-199, validator.h:25-50).
THEOREM LimitsHold == ProcessorSpec => []AcceptedWithinLimits
<1>1. ProcessorInv => AcceptedWithinLimits
    BY DEF ProcessorInv
<1> QED BY <1>1, ProcessorInvariance, PTL

\* No slot left behind by a reset is reached again or handed out twice, and
\* what is reached are orders of this file (order_processor.cpp:53-60).
THEOREM FilesApart == ProcessorSpec => []OnlyOrdersOfThisFile
<1>1. ProcessorInv => OnlyOrdersOfThisFile
  <2> SUFFICES ASSUME ProcessorInv PROVE OnlyOrdersOfThisFile
      OBVIOUS
  <2>1. CoreInv /\ ReachedOfThisFile
      BY DEF ProcessorInv
  <2>2. Reached \subseteq Live
      BY <2>1, ReachedOrders DEF Reached
  <2>3. incoming \notin RestingSlots /\ RestingOrdersPlaced
      BY <2>1 DEF CoreInv
  <2>4. \A s \in Reached : \E n \in 1 .. Len(accepted) :
            /\ order_pool_[s].oid = accepted[n].oid
            /\ order_pool_[s].side = accepted[n].side
            /\ order_pool_[s].price = accepted[n].price
            /\ order_pool_[s].quantity <= accepted[n].quantity
      BY <2>1 DEF ReachedOfThisFile, OrderAmong
  <2> QED BY <2>2, <2>3, <2>4 DEF OnlyOrdersOfThisFile, Reached
<1> QED BY <1>1, ProcessorInvariance, PTL

\* Every message of a file is answered under its own number, in the order of
\* the file, and a refused one once (order_processor.cpp:139-166).
THEOREM EveryMessageAnswered == ProcessorSpec => []AnsweredInOrder
<1>1. ProcessorInv => AnsweredInOrder
  <2> SUFFICES ASSUME ProcessorInv PROVE AnsweredInOrder
      OBVIOUS
  <2> DEFINE Answers(oid) == {k \in 1 .. Len(reports) : reports[k].oid = oid}
             busy == IF incoming = NULL THEN {} ELSE {order_pool_[incoming].oid}
             numbers == 1 .. Len(submitted)
  <2>1. /\ CoreInv /\ AllInTurn /\ OthersAnswered
        /\ reports \in Seq(ExecutionReport \cup Refusals) /\ Len(reports) \in Nat
      BY LenProperties DEF ProcessorInv, HistoryTypes
  <2>2. \A k \in 1 .. Len(reports) : ReportInTurn(k)
      BY <2>1 DEF AllInTurn
  <2>3. \A k \in 1 .. Len(reports) : reports[k].oid \in numbers
      BY <2>2 DEF ReportInTurn
  <2>4. ASSUME NEW n \in numbers
        PROVE  /\ Answers(n) = {} => n \in busy
               /\ (\E k \in Answers(n) : reports[k].status = "Reject")
                        <=> ~ validate_order(submitted[n])
               /\ ~ validate_order(submitted[n]) => Cardinality(Answers(n)) = 1
    <3>1. Answers(n) = {} => n \in busy
        BY <2>1 DEF OthersAnswered, Answered
    <3>2. ~ validate_order(submitted[n]) => n \notin busy
        BY DEF ProcessorInv, ReachedOfThisFile, Reached, OrderAmong
    <3>3. \A k \in Answers(n) : /\ ReportInTurn(k) /\ reports[k].oid = n
                                /\ k \in 1 .. Len(reports)
        BY <2>2
    <3>4. \A k \in Answers(n) :
            reports[k].status = "Reject" <=> ~ validate_order(submitted[n])
        BY <3>3 DEF ReportInTurn
    <3>5. ASSUME ~ validate_order(submitted[n])
          PROVE  \E k \in Answers(n) : Answers(n) = {k}
      <4>1. PICK k \in Answers(n) : TRUE
          BY <3>1, <3>2, <3>5
      <4>2. \A j \in Answers(n) : j = k
          BY <3>3, <3>5, <4>1 DEF ReportInTurn
      <4> QED BY <4>1, <4>2
    <3>6. ~ validate_order(submitted[n]) => Cardinality(Answers(n)) = 1
        BY <3>5, FS_Singleton
    <3> QED BY <3>1, <3>4, <3>5, <3>6
  <2>5. ASSUME NEW n \in numbers, NEW k \in Answers(n), NEW m \in 1 .. n - 1
        PROVE  \E j \in Answers(m) : j < k
    <3>1. ReportInTurn(k) /\ reports[k].oid = n
        BY <2>2
    <3>2. PICK j \in 1 .. k - 1 : reports[j].oid = m
        BY <3>1 DEF ReportInTurn
    <3>3. j \in 1 .. Len(reports) /\ j < k
        BY <2>1, <3>2
    <3> QED BY <3>2, <3>3
  <2> HIDE DEF Answers, busy, numbers
  <2> QED BY <2>3, <2>4, <2>5 DEF AnsweredInOrder, Answers, busy, numbers
<1> QED BY <1>1, ProcessorInvariance, PTL

-----------------------------------------------------------------------------
(* The processor implements Exchange.  The engine's steps are those of the   *)
(* Market, as EngineImplementsMarket; Exchange contains the same Market.     *)

LEMMA MarketOfExchange == Market!Next => Exchange!Next
<1>1. Market!Submit => Exchange!Submit
    BY DEF Market!Submit, Exchange!Submit, Market!NoTaker, Exchange!NoTaker
<1>2. Market!Book => Exchange!Book
    BY DEF Market!Book, Exchange!Book, Market!NoTaker, Exchange!NoTaker,
           Market!Executable, Exchange!Executable, Market!Told, Exchange!Told
<1>3. Market!Complete => Exchange!Complete
    BY DEF Market!Complete, Exchange!Complete, Market!NoTaker, Exchange!NoTaker
<1>4. ASSUME NEW m PROVE Market!Execute(m) => Exchange!Execute(m)
    BY DEF Market!Execute, Exchange!Execute, Market!NoTaker, Exchange!NoTaker,
           Market!Executable, Exchange!Executable, Market!Told, Exchange!Told,
           Market!Ahead, Exchange!Ahead
<1> QED BY <1>1, <1>2, <1>3, <1>4 DEF Market!Next, Exchange!Next

LEMMA ProcessorInitRefines == ProcessorInit => Exchange!Init
<1>1. Init => Market!Init
    BY InitRefines
<1> QED BY <1>1 DEF ProcessorInit, Market!Init, Exchange!Init,
                    Market!NoTaker, Exchange!NoTaker

LEMMA ConsumeRefines ==
    ASSUME ProcessorInv, NEW m \in Messages, Consume(m)
    PROVE  Market!Next \/ Exchange!Refuse
<1>1. CASE validate_order(m)
  <2>1. PICK o \in Order : o = Accepted(m)
      BY <1>1, AcceptedIsOrder DEF ProcessorInv
  <2>2. PICK slot \in Slots : ProcessOrder(slot, o)
      BY <1>1, <2>1 DEF Consume
  <2>3. o.quantity \in Quantities /\ o.oid = Len(submitted) + 1
      BY <1>1, <2>1, AcceptedIsOrder DEF ProcessorInv
  <2>4. \A s \in RestingSlots : order_pool_[s].oid < o.oid
      BY <2>3, Idle DEF Consume
  <2>5. Market!Submit
      BY <2>2, <2>3, <2>4, SubmitRefines DEF ProcessorInv
  <2> QED BY <2>5 DEF Market!Next
<1>2. CASE ~ validate_order(m)
  <2>1. /\ incoming = NULL /\ incoming' = incoming
        /\ reports' = Append(reports, Reject(m))
        /\ matched_any' = matched_any /\ order_pool_' = order_pool_
        /\ RestingSlots' = RestingSlots
      BY <1>2, ConsumeInvalid DEF Consume
  <2>2. PICK r \in Refusals : r = Reject(m) /\ r.status = "Reject"
      BY RejectIsRefusal DEF ProcessorInv
  <2> DEFINE S == ExecutionReport \cup Refusals
  <2>3. /\ reports \in Seq(S) /\ reports' \in Seq(S)
        /\ Len(reports) \in Nat /\ Len(reports') = Len(reports) + 1
        /\ reports'[Len(reports')] = r
      BY <2>1, <2>2, AppendProperties, LenProperties DEF ProcessorInv, HistoryTypes
  <2>4. reports' # << >> /\ Exchange!Front(reports') = reports
      BY <2>1, <2>2, <2>3, AppendProperties DEF Exchange!Front
  <2>5. Exchange!Last(reports').status = "Reject"
      BY <2>2, <2>3 DEF Exchange!Last
  <2> QED BY <2>1, <2>4, <2>5
          DEF Exchange!Refuse, Exchange!NoTaker, NoOrder
<1> QED BY <1>1, <1>2

\* What clients are told of a file is what a market that opens empty tells them
\* (order_processor.cpp:53-60, 139-199).
THEOREM ProcessorImplementsExchange == ProcessorSpec => ImplementsExchange
<1>1. ProcessorInv /\ [ProcessorNext]_processorVars =>
        [Exchange!Next \/ Exchange!OpenSession \/ Exchange!Refuse]_<<
            {order_pool_[s] : s \in RestingSlots},
            IF incoming = NULL THEN NoOrder ELSE order_pool_[incoming],
            matched_any, reports>>
  <2> SUFFICES ASSUME ProcessorInv, [ProcessorNext]_processorVars
               PROVE  \/ Exchange!Next \/ Exchange!OpenSession \/ Exchange!Refuse
                      \/ UNCHANGED <<OpenOrders, Taker, matched_any, reports>>
      BY DEF OpenOrders, Taker
  <2>1. CoreInv /\ reports \in Seq(ExecutionReport \cup Refusals)
      BY DEF ProcessorInv, HistoryTypes
  <2>2. ASSUME NEW m \in Messages, Consume(m)
        PROVE  Exchange!Next \/ Exchange!Refuse
      BY <2>2, ConsumeRefines, MarketOfExchange
  <2>3. CASE Process
    <3>1. CASE Match
        BY <2>1, <3>1, MatchRefines, MarketOfExchange DEF Market!Next, OpenOrders
    <3>2. CASE Rest
      <4>1. Market!Book
          BY <2>1, <3>2, RestRefines, ExecutionReport \subseteq ExecutionReport \cup Refusals
      <4> QED BY <4>1, MarketOfExchange DEF Market!Next
    <3>3. CASE Finish
        BY <2>1, <3>3, FinishRefines, MarketOfExchange DEF Market!Next
    <3> QED BY <2>3, <3>1, <3>2, <3>3 DEF Process
  <2>4. CASE reset
    <3>1. /\ incoming = NULL /\ incoming' = incoming /\ order_pool_' = order_pool_
          /\ matched_any' = matched_any /\ reports' = << >> /\ RestingSlots' = {}
        BY <2>4, ResetKeeps DEF reset
    <3>2. Exchange!OpenSession
        BY <3>1 DEF Exchange!OpenSession, Exchange!NoTaker, NoOrder
    <3> QED BY <3>2
  <2>5. CASE UNCHANGED processorVars
      BY <2>5 DEF processorVars, vars, OpenOrders, Taker, RestingSlots
  <2> QED BY <2>2, <2>3, <2>4, <2>5 DEF ProcessorNext, NoMoreMessages
<1> QED BY <1>1, ProcessorInitRefines, ProcessorInvariance, PTL
        DEF ProcessorSpec, ImplementsExchange, Exchange!ExchangeSpec
=============================================================================
