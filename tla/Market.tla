------------------------------- MODULE Market -------------------------------
(***************************************************************************)
(* What a client may expect of the exchange: price-time priority over a set *)
(* of open orders, with no books, pools or queues.  MatchingEngine is       *)
(* checked to implement it.                                                 *)
(***************************************************************************)
EXTENDS Integers, Sequences

CONSTANTS Instruments, MaxTicks, MaxQuantity

VARIABLES
    open,       \* the orders waiting to trade, with the quantity left
    taker,      \* the order being executed, or NoTaker
    traded,     \* has the taker traded?
    reports     \* what the clients have been told

NoTaker == [oid |-> 0]

Init ==
    /\ open = {}
    /\ taker = NoTaker
    /\ traded = FALSE
    /\ reports = << >>

\* A new order is younger than every open order.
Submit ==
    /\ taker = NoTaker
    /\ taker' \in [oid : Nat \ {0}, instrument : Instruments,
                  side : {"BUY", "SELL"}, price : 0 .. MaxTicks - 1,
                  quantity : 1 .. MaxQuantity]
    /\ \A p \in open : p.oid < taker'.oid
    /\ traded' = FALSE
    /\ UNCHANGED <<open, reports>>

\* Can the taker trade with m?
Executable(m) ==
    /\ m.instrument = taker.instrument
    /\ m.side # taker.side
    /\ IF taker.side = "BUY" THEN m.price <= taker.price
                             ELSE m.price >= taker.price

\* Does m come before n on one side: better price, then earlier arrival?
Ahead(m, n) ==
    \/ IF m.side = "SELL" THEN m.price < n.price ELSE m.price > n.price
    \/ m.price = n.price /\ m.oid < n.oid

Told(o, price, quantity, status) ==
    [oid |-> o.oid, instrument |-> o.instrument, side |-> o.side,
     price |-> price, quantity |-> quantity, status |-> status]

\* The taker executes against the first of the orders it can trade with, at
\* that order's price.
Execute(m) ==
    /\ taker # NoTaker
    /\ taker.quantity > 0
    /\ Executable(m)
    /\ \A n \in open \ {m} : Executable(n) => Ahead(m, n)
    /\ \E qty \in 1 .. MaxQuantity :
        /\ qty <= taker.quantity /\ qty <= m.quantity
        /\ qty = taker.quantity \/ qty = m.quantity
        /\ taker' = [taker EXCEPT !.quantity = @ - qty]
        /\ open' = (open \ {m}) \cup
                    (IF m.quantity = qty THEN {}
                     ELSE {[m EXCEPT !.quantity = @ - qty]})
        /\ reports' = reports \o
            <<Told(taker, m.price, qty,
                   IF taker.quantity = qty THEN "Fill" ELSE "Pfill"),
              Told(m, m.price, qty,
                   IF m.quantity = qty THEN "Fill" ELSE "Pfill")>>
    /\ traded' = TRUE

\* Nothing left to trade with: the rest of the taker becomes an open order.
Book ==
    /\ taker # NoTaker
    /\ taker.quantity > 0
    /\ \A n \in open : ~ Executable(n)
    /\ open' = open \cup {taker}
    /\ reports' = IF traded THEN reports
                  ELSE Append(reports,
                              Told(taker, taker.price, taker.quantity, "New"))
    /\ taker' = NoTaker
    /\ traded' = FALSE

\* The taker is executed completely.
Complete ==
    /\ taker # NoTaker
    /\ taker.quantity = 0
    /\ taker' = NoTaker
    /\ traded' = FALSE
    /\ UNCHANGED <<open, reports>>

Next ==
    \/ Submit
    \/ \E m \in open : Execute(m)
    \/ Book
    \/ Complete

Spec == Init /\ [][Next]_<<open, taker, traded, reports>>
=============================================================================
