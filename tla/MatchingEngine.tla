--------------------------- MODULE MatchingEngine ---------------------------
(***************************************************************************)
(* Price-time matching, src/src/matching/matching_engine.h, over the orders *)
(* that OrderProcessor::consume accepts.                                    *)
(*                                                                          *)
(* An order is a slot of order_pool_: the engine and the books hold slots   *)
(* (the code's Order pointers), and the pool maps a slot to the order       *)
(* object living in it.  The pool hands out any free slot; MatchingEngine   *)
(* relies on no order among them.  A book is a PriceLevels value, which is  *)
(* what both book strategies are checked to implement.                      *)
(*                                                                          *)
(* One step is one iteration of the matching loop, or the tail of           *)
(* process_order.  The emitted reports are appended to `reports'.           *)
(* Quantities are in lots of ten, the validated step, so uint16_t arithmetic*)
(* cannot wrap (validator.h allows at most 1000).                           *)
(***************************************************************************)
EXTENDS Integers, Sequences, PriceLevels

CONSTANTS
    Slots,          \* places for Order objects in order_pool_
    Instruments,    \* the instruments traded
    MaxTicks,       \* price levels of a book
    MaxQuantity,    \* largest quantity of an order, in lots
    MaxOrders,      \* bound: orders accepted in one behaviour
    NULL            \* no order

ASSUME EngineAssumption ==
    /\ MaxTicks \in Nat \ {0}
    /\ MaxQuantity \in Nat \ {0}
    /\ MaxOrders \in Nat
    /\ NULL \notin Slots

Sides == {"BUY", "SELL"}
Ticks == 0 .. MaxTicks - 1
Quantities == 1 .. MaxQuantity

\* What the engine uses of struct Order, and of struct ExecutionReport.
Order == [oid : Nat \ {0}, instrument : Instruments, side : Sides,
          price : Ticks, quantity : 0 .. MaxQuantity]
ExecutionReport ==
    [oid : Nat \ {0}, instrument : Instruments, side : Sides, price : Ticks,
     quantity : Quantities, status : {"New", "Pfill", "Fill"}]

NoOrder == [oid |-> 0]

\* buy_books_ and sell_books_, one book per side and instrument.
Books == [Sides -> [Instruments -> [Ticks -> Seq(Slots)]]]

VARIABLES
    order_pool_,    \* slot -> the order living there, NoOrder if free
    books,          \* buy_books_ and sell_books_: side -> instrument -> levels
    incoming,       \* slot of the order process_order works on, or NULL
    matched_any,    \* its local flag
    reports,        \* history: every report emitted, in order
    accepted        \* history: every order as it was handed to process_order

vars == <<order_pool_, books, incoming, matched_any, reports, accepted>>

Opposite(side) == IF side = "BUY" THEN "SELL" ELSE "BUY"
Live == {s \in Slots : order_pool_[s] # NoOrder}
RestingSlots ==
    {s \in Slots : \E side \in Sides, i \in Instruments, t \in Ticks :
                    \E k \in 1 .. Len(books[side][i][t]) :
                        books[side][i][t][k] = s}

Init ==
    /\ order_pool_ = [s \in Slots |-> NoOrder]
    /\ books = [side \in Sides |-> [i \in Instruments |-> EmptyLevels(Ticks)]]
    /\ incoming = NULL
    /\ matched_any = FALSE
    /\ reports = << >>
    /\ accepted = << >>

-----------------------------------------------------------------------------
(* One iteration of the loop of process_order.                              *)

\* MUTANT: one book serves all instruments.
OppositeBook_AnyInstrument(o) ==
    books[Opposite(o.side)][CHOOSE i \in Instruments : TRUE]

\* The book the incoming order is matched against.
OppositeBook(o) == books[Opposite(o.side)][o.instrument]

\* The best price on the other side, or NoLevel.
BestLevel(o) ==
    IF o.side = "BUY" THEN FindFirst(OppositeBook(o))
                      ELSE FindLast(OppositeBook(o))

\* MUTANT: equal prices do not trade.
Crosses_Strict(o, best) ==
    /\ best # NoLevel
    /\ IF o.side = "BUY" THEN best < o.price ELSE best > o.price

Crosses(o, best) ==
    /\ best # NoLevel
    /\ IF o.side = "BUY" THEN best <= o.price ELSE best >= o.price

Report(o, price, quantity, status) ==
    [oid |-> o.oid, instrument |-> o.instrument, side |-> o.side,
     price |-> price, quantity |-> quantity, status |-> status]

FillStatus(left) == IF left = 0 THEN "Fill" ELSE "Pfill"

\* MUTANT: std::max for std::min.
Smaller_Larger(a, b) == IF a <= b THEN b ELSE a

Smaller(a, b) == IF a <= b THEN a ELSE b

\* MUTANT: the used up order leaves its book but not the pool.
AfterTrade_NotFreed(r, qty) == [r EXCEPT !.quantity = @ - qty]

\* MUTANT: an order that is not used up keeps its whole quantity.
AfterTrade_NotReduced(r, qty) == IF r.quantity = qty THEN NoOrder ELSE r

\* What remains in the slot of a resting order that trades qty.
AfterTrade(r, qty) ==
    IF r.quantity = qty THEN NoOrder ELSE [r EXCEPT !.quantity = @ - qty]

\* MUTANT: the trade is priced at the limit of the incoming order.
TradeReports_TakerPrice(o, r, best, qty) ==
    <<Report(o, o.price, qty, FillStatus(o.quantity - qty)),
      Report(r, o.price, qty, FillStatus(r.quantity - qty))>>

\* Both sides are told, the incoming order first, at the level's price.
TradeReports(o, r, best, qty) ==
    <<Report(o, best, qty, FillStatus(o.quantity - qty)),
      Report(r, best, qty, FillStatus(r.quantity - qty))>>

\* The order in slot `resting' trades with the incoming one: both shrink, and
\* a resting order that is used up leaves its book and the pool.
Trade(resting, best) ==
    LET o   == order_pool_[incoming]
        r   == order_pool_[resting]
        qty == Smaller(o.quantity, r.quantity)
    IN /\ order_pool_' = [order_pool_ EXCEPT
                            ![incoming] = [o EXCEPT !.quantity = @ - qty],
                            ![resting] = AfterTrade(r, qty)]
       /\ books' = IF r.quantity # qty THEN books
                   ELSE [books EXCEPT ![Opposite(o.side)][o.instrument] =
                                            PopOrder(@, best)]
       /\ reports' = reports \o TradeReports(o, r, best, qty)
       /\ matched_any' = TRUE
       /\ UNCHANGED <<incoming, accepted>>

Match ==
    /\ incoming # NULL
    /\ LET o       == order_pool_[incoming]
           best    == BestLevel(o)
           resting == PeekOrder(OppositeBook(o), best, NULL)
       IN /\ o.quantity > 0
          /\ Crosses(o, best)
          /\ resting # NULL
          /\ Trade(resting, best)

-----------------------------------------------------------------------------
(* The start and the end of process_order.                                  *)

\* An accepted order is allocated and process_order is entered with it.
ProcessOrder(slot, o) ==
    /\ incoming = NULL
    /\ order_pool_[slot] = NoOrder
    /\ order_pool_' = [order_pool_ EXCEPT ![slot] = o]
    /\ incoming' = slot
    /\ matched_any' = FALSE
    /\ accepted' = Append(accepted, o)
    /\ UNCHANGED <<books, reports>>

\* MUTANT: New is reported even when the order has traded.
RestReports_AlwaysNew(o) == <<Report(o, o.price, o.quantity, "New")>>

\* Resting is reported as New, unless the order has traded.
RestReports(o) ==
    IF matched_any THEN << >> ELSE <<Report(o, o.price, o.quantity, "New")>>

\* MUTANT: the order goes to the front of its level.
RestOnBook_Front(o) ==
    books' = [books EXCEPT ![o.side][o.instrument][o.price] = <<incoming>> \o @]

\* The order joins its level on its own side.
RestOnBook(o) ==
    books' = [books EXCEPT ![o.side][o.instrument] =
                                AddOrder(@, o.price, incoming)]

\* MUTANT: `continue' for `break' when the best price does not cross.
NothingToMatch_EmptyBook(o) == BestLevel(o) = NoLevel

\* The loop is left: the other side is empty or its best price does not cross.
NothingToMatch(o) == ~ Crosses(o, BestLevel(o))

\* What is left of the incoming order rests.
Rest ==
    /\ incoming # NULL
    /\ LET o == order_pool_[incoming]
       IN /\ o.quantity > 0
          /\ NothingToMatch(o)
          /\ RestOnBook(o)
          /\ reports' = reports \o RestReports(o)
    /\ incoming' = NULL
    /\ matched_any' = FALSE
    /\ UNCHANGED <<order_pool_, accepted>>

\* The incoming order is used up: its slot goes back to the pool.
Finish ==
    /\ incoming # NULL
    /\ order_pool_[incoming].quantity = 0
    /\ order_pool_' = [order_pool_ EXCEPT ![incoming] = NoOrder]
    /\ incoming' = NULL
    /\ matched_any' = FALSE
    /\ UNCHANGED <<books, reports, accepted>>

\* OrderProcessor numbers the orders in the order in which they arrive.
Arrive ==
    /\ Len(accepted) < MaxOrders
    /\ \E slot \in Slots, i \in Instruments, side \in Sides, price \in Ticks,
          quantity \in Quantities :
            ProcessOrder(slot, [oid |-> Len(accepted) + 1, instrument |-> i,
                                side |-> side, price |-> price,
                                quantity |-> quantity])

\* The input is used up and the matcher is idle.
NoMoreOrders ==
    /\ incoming = NULL
    /\ Len(accepted) = MaxOrders
    /\ UNCHANGED vars

Next == Arrive \/ Match \/ Rest \/ Finish \/ NoMoreOrders

Spec == Init /\ [][Next]_vars

\* process_order runs on the matcher thread without waiting for anyone.
FairSpec == Spec /\ WF_vars(Match \/ Rest \/ Finish)

-----------------------------------------------------------------------------
(* Properties.                                                              *)

\* The types.  No quantity wraps below zero, no price leaves the books' arrays,
\* and every report is of a quantity that trades or rests.
TypeOK ==
    /\ order_pool_ \in [Slots -> Order \cup {NoOrder}]
    /\ books \in Books
    /\ incoming \in Slots \cup {NULL}
    /\ incoming # NULL => order_pool_[incoming] # NoOrder
    /\ matched_any \in BOOLEAN
    /\ reports \in Seq(ExecutionReport)
    /\ accepted \in Seq(Order)

\* No bid is at or above an offer of the same instrument, even in the middle
\* of a match: whatever could trade has traded (matching_engine.h:47-54, 88-91).
NotCrossed ==
    \A i \in Instruments :
        \A bid \in NonEmptyTicks(books["BUY"][i]),
           offer \in NonEmptyTicks(books["SELL"][i]) : bid < offer

\* The live slots of the pool are the incoming order and the resting orders.
LiveSlotsAccounted ==
    /\ Live = RestingSlots \cup ({incoming} \ {NULL})
    /\ incoming \notin RestingSlots

\* Every resting order is on its own side, instrument and price, with quantity
\* left, and behind the older orders of its level.
RestingOrdersPlaced ==
    \A side \in Sides, i \in Instruments, t \in Ticks :
        LET level == books[side][i][t] IN
        \A k \in 1 .. Len(level) :
            LET o == order_pool_[level[k]] IN
            /\ o.side = side /\ o.instrument = i /\ o.price = t
            /\ o.quantity > 0
            /\ \A j \in 1 .. k - 1 : order_pool_[level[j]].oid < o.oid

\* The pool and the books agree.  A slot freed while a book still points to
\* it, lost without being freed, or queued at two places breaks this, as does
\* a younger order in front of an older one (matching_engine.h:81-85, 88-101).
PoolMatchesBooks == LiveSlotsAccounted /\ RestingOrdersPlaced

\* The quantity an order has traded so far, added up over the reports, and the
\* quantity it has left.
Traded(oid) ==
    LET fill(r) == IF r.oid = oid /\ r.status # "New" THEN r.quantity ELSE 0
        total[n \in 0 .. Len(reports)] ==
            IF n = 0 THEN 0 ELSE total[n - 1] + fill(reports[n])
    IN total[Len(reports)]

Left(oid) ==
    IF \E s \in Live : order_pool_[s].oid = oid
    THEN order_pool_[CHOOSE s \in Live : order_pool_[s].oid = oid].quantity
    ELSE 0

\* No quantity is made or lost: what the reports say an order traded and what
\* is left of it in the pool add up to what was submitted.
QuantityConserved ==
    \A n \in 1 .. Len(accepted) :
        Traded(accepted[n].oid) + Left(accepted[n].oid) = accepted[n].quantity

\* What a client sees of one order is New?, Pfill*, Fill?: New comes first and
\* only for an order that rested untouched, a Fill comes last and exactly when
\* the order is gone, and an order that has been processed has a report.
ReportLifecycle ==
    \A n \in 1 .. Len(accepted) :
        LET oid  == accepted[n].oid
            told == {k \in 1 .. Len(reports) : reports[k].oid = oid}
            busy == incoming # NULL /\ order_pool_[incoming].oid = oid
        IN /\ \A k \in told :
                /\ reports[k].status = "New" => \A j \in told : k <= j
                /\ reports[k].status = "Fill"
                        <=> Left(oid) = 0 /\ \A j \in told : j <= k
           /\ told = {} => busy

\* Reports n and n + 1 are those of one trade, the aggressor first: opposite
\* sides of one instrument, the same quantity, and the same price, which is the
\* limit of the older order and inside the limit of the newer.  The order with
\* number m is the m-th accepted.
TradePair(n) ==
    LET taker == reports[n]
        maker == reports[n + 1]
    IN /\ taker.status # "New" /\ maker.status # "New"
       /\ maker.oid < taker.oid
       /\ maker.instrument = taker.instrument
       /\ maker.side = Opposite(taker.side)
       /\ maker.quantity = taker.quantity
       /\ maker.price = taker.price
       /\ maker.price = accepted[maker.oid].price
       /\ IF taker.side = "BUY" THEN taker.price <= accepted[taker.oid].price
                                ELSE taker.price >= accepted[taker.oid].price

\* The two reports of a trade follow each other: every report of a trade is the
\* first or the second of such a pair, and not both.
TradesReportedInPairs ==
    \A n \in 1 .. Len(reports) :
        reports[n].status # "New" =>
            LET first  == n < Len(reports) /\ TradePair(n)
                second == n > 1 /\ TradePair(n - 1)
            IN ~ (first <=> second)

\* process_order returns: the matching loop cannot go round for ever.
ProcessOrderReturns == incoming # NULL ~> incoming = NULL

-----------------------------------------------------------------------------
\* The market the engine implements: a set of open orders.
Market == INSTANCE Market WITH
    open   <- {order_pool_[s] : s \in RestingSlots},
    taker  <- IF incoming = NULL THEN NoOrder ELSE order_pool_[incoming],
    traded <- matched_any

\* Price-time priority: every step of process_order is one the Market allows.
ImplementsMarket == Market!Spec
=============================================================================
