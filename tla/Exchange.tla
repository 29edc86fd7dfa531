------------------------------ MODULE Exchange ------------------------------
(***************************************************************************)
(* The exchange as its clients see it over several input files: a Market    *)
(* that opens with no orders for each file, and refuses some orders.        *)
(* OrderProcessor is checked to implement it.                               *)
(***************************************************************************)
EXTENDS Market, SequencesExt

\* A new file: no order of the last one is open any more.
OpenSession ==
    /\ taker = NoTaker
    /\ open' = {}
    /\ reports' = << >>
    /\ UNCHANGED <<taker, traded>>

\* An order is refused with one report, and the market does not move.
Refuse ==
    /\ taker = NoTaker
    /\ reports' # << >>
    /\ Front(reports') = reports
    /\ Last(reports').status = "Reject"
    /\ UNCHANGED <<open, taker, traded>>

ExchangeSpec ==
    Init /\ [][Next \/ OpenSession \/ Refuse]_<<open, taker, traded, reports>>
=============================================================================
