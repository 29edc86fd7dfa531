--------------------------- MODULE OrderProcessor ---------------------------
(***************************************************************************)
(* OrderProcessor, src/src/matching/order_processor.cpp: the messages of a  *)
(* file are numbered, validated, and refused or handed to MatchingEngine;   *)
(* between two files the processor is reset.                                *)
(*                                                                          *)
(* Quantities are in units and prices of messages in tenths of a tick, so   *)
(* that a price can lie between two ticks.  Doubles are exact here; the     *)
(* infinities and NaN that string_view_to_double can produce fail the same  *)
(* test as a price above the maximum.  Names of clients, timestamps and     *)
(* reject reasons are left out, and so is report_pool_: each report is      *)
(* allocated, copied out and released within one call of its callback.      *)
(* The queues on both sides, and the end of the stream, are Pipeline's.     *)
(***************************************************************************)
EXTENDS MatchingEngine, SequencesExt

CONSTANTS
    Messages,           \* the inbound orders a file can hold
    QuantityMultiple,   \* QUANTITY_MULTIPLE
    MinQuantity,        \* MIN_QUANTITY
    MaxMessages,        \* bound: messages of one file
    MaxFiles            \* bound: files

ASSUME ProcessorAssumption ==
    /\ QuantityMultiple \in Nat \ {0}
    /\ MinQuantity \in Nat \ {0}
    /\ MaxQuantity < 2^16      \* types.h:81: a uint16_t holds every valid size
    /\ \A m \in Messages : m.quantity \in Int /\ m.price \in Int
    /\ MaxMessages \in Nat
    /\ MaxFiles \in Nat

VARIABLES
    next_oid_,      \* number of the next order
    submitted,      \* history: the messages of this file consumed so far
    files           \* files begun, for the bound

processorVars == <<vars, next_oid_, submitted, files>>

ProcessorInit ==
    /\ Init
    /\ next_oid_ = 1
    /\ submitted = << >>
    /\ files = 1

\* Message::side of a buy and of a sell.
SideCode == [BUY |-> 1, SELL |-> 2]

\* MAX_VALID_PRICE is that of the last tick of a book.
MaxPrice == 10 * (MaxTicks - 1)

uint16_t(n) == n % 2^16

\* llround of the price in ticks, halves away from zero.
Rounded(price) ==
    IF price >= 0 THEN (price + 5) \div 10 ELSE - ((5 - price) \div 10)

double_to_ticks(price) == IF price <= 0 THEN 0 ELSE Rounded(price)

\* MUTANT: no upper bound on the price.
validate_order_NoMaxPrice(m) ==
    /\ m.instrument \in Instruments
    /\ m.side \in {1, 2}
    /\ m.quantity % QuantityMultiple = 0
    /\ MinQuantity <= m.quantity /\ m.quantity <= MaxQuantity
    /\ 0 < m.price

validate_order(m) ==
    /\ m.instrument \in Instruments
    /\ m.side \in {1, 2}
    /\ m.quantity % QuantityMultiple = 0
    /\ MinQuantity <= m.quantity /\ m.quantity <= MaxQuantity
    /\ 0 < m.price /\ m.price <= MaxPrice

\* The report on a message that is refused.
Reject(m) ==
    [oid |-> next_oid_, instrument |-> m.instrument, side |-> m.side,
     price |-> IF m.price >= 0 THEN double_to_ticks(m.price)
                               ELSE Rounded(m.price),
     quantity |-> uint16_t(IF m.quantity > 0 THEN m.quantity ELSE 0),
     status |-> "Reject"]

\* The order made of a message that is accepted.
Accepted(m) ==
    [oid |-> next_oid_, instrument |-> m.instrument,
     side |-> IF m.side = SideCode["BUY"] THEN "BUY" ELSE "SELL",
     price |-> double_to_ticks(m.price), quantity |-> uint16_t(m.quantity)]

\* MUTANT: only an accepted order uses up a number.
TakeOid_AcceptedOnly(m) ==
    next_oid_' = IF validate_order(m) THEN next_oid_ + 1 ELSE next_oid_

\* Every message uses up a number.
TakeOid(m) == next_oid_' = next_oid_ + 1

\* One message goes through the loop of consume, up to process_order.
Consume(m) ==
    /\ incoming = NULL
    /\ submitted' = Append(submitted, m)
    /\ TakeOid(m)
    /\ \/ /\ validate_order(m)
          /\ \E slot \in Slots : ProcessOrder(slot, Accepted(m))
       \/ /\ ~ validate_order(m)
          /\ reports' = Append(reports, Reject(m))
          /\ UNCHANGED <<order_pool_, books, incoming, matched_any, accepted>>
    /\ UNCHANGED files

\* process_order goes on with the accepted order.
Process ==
    /\ Match \/ Rest \/ Finish
    /\ UNCHANGED <<next_oid_, submitted, files>>

\* MUTANT: sell_books_ are forgotten.
ClearBooks_BuyOnly ==
    books' = [books EXCEPT !["BUY"] = [i \in Instruments |-> EmptyLevels(Ticks)]]

\* New books for old; the orders the old ones point to stay in order_pool_.
ClearBooks ==
    books' = [side \in Sides |-> [i \in Instruments |-> EmptyLevels(Ticks)]]

\* The next file: reset.  rebuild_matcher makes an engine without state.
reset ==
    /\ incoming = NULL
    /\ files < MaxFiles
    /\ files' = files + 1
    /\ next_oid_' = 1
    /\ ClearBooks
    /\ submitted' = << >> /\ accepted' = << >> /\ reports' = << >>
    /\ UNCHANGED <<order_pool_, incoming, matched_any>>

\* The bounds are reached and the matcher is idle.
NoMoreMessages ==
    /\ incoming = NULL
    /\ files = MaxFiles /\ Len(submitted) = MaxMessages
    /\ UNCHANGED processorVars

ProcessorNext ==
    \/ Len(submitted) < MaxMessages /\ \E m \in Messages : Consume(m)
    \/ Process
    \/ reset
    \/ NoMoreMessages

ProcessorSpec == ProcessorInit /\ [][ProcessorNext]_processorVars

-----------------------------------------------------------------------------
(* Properties.                                                              *)

\* What reaches the engine is within the limits it relies on without looking:
\* a price that is a tick of the books' arrays, whose index is not checked
\* again (bitmask_order_book.cpp:16), and a quantity that fits uint16_t.
AcceptedWithinLimits ==
    \A n \in 1 .. Len(accepted) :
        /\ accepted[n].price \in Ticks
        /\ accepted[n].quantity \in MinQuantity .. MaxQuantity
        /\ accepted[n].quantity % QuantityMultiple = 0

\* The messages of a file are numbered from 1 without a gap, refused ones
\* included; each is answered, with its own number, and first answered in
\* turn: nothing is said of a message before those in front of it have been
\* answered.  A refused message has one answer (order_processor.cpp:139-166).
AnsweredInOrder ==
    LET Answers(oid) == {k \in 1 .. Len(reports) : reports[k].oid = oid}
        busy == IF incoming = NULL THEN {} ELSE {order_pool_[incoming].oid}
        numbers == 1 .. Len(submitted)
    IN /\ \A k \in 1 .. Len(reports) : reports[k].oid \in numbers
       /\ \A n \in numbers :
            /\ Answers(n) = {} => n \in busy
            /\ (\E k \in Answers(n) : reports[k].status = "Reject")
                    <=> ~ validate_order(submitted[n])
            /\ ~ validate_order(submitted[n]) => Cardinality(Answers(n)) = 1
       /\ \A n \in numbers : \A k \in Answers(n) :
            \A m \in 1 .. n - 1 : \E j \in Answers(m) : j < k

\* Whatever rests or is being matched is an order of this file in a slot of its
\* own; the slots that reset left behind in order_pool_ are never reached again
\* and never handed out twice.
OnlyOrdersOfThisFile ==
    LET reached == RestingSlots \cup ({incoming} \ {NULL})
    IN /\ reached \subseteq Live
       /\ incoming \notin RestingSlots
       /\ RestingOrdersPlaced
       /\ \A s \in reached : \E n \in 1 .. Len(accepted) :
            /\ order_pool_[s].oid = accepted[n].oid
            /\ order_pool_[s].side = accepted[n].side
            /\ order_pool_[s].price = accepted[n].price
            /\ order_pool_[s].quantity <= accepted[n].quantity

\* Files are independent: each is matched as by a market that opens empty.
Exchange == INSTANCE Exchange WITH
    open   <- {order_pool_[s] : s \in RestingSlots},
    taker  <- IF incoming = NULL THEN NoOrder ELSE order_pool_[incoming],
    traded <- matched_any

\* What clients are told of a file depends on that file alone.
ImplementsExchange == Exchange!ExchangeSpec

\* Claimed by order_processor.h:22, "Clears all per-file order state": when no
\* message of a file has been consumed, no order is live.
ResetClearsOrderState == submitted = << >> => Live = {}

\* Claimed by README.md:57, "min:0.01 ... as multiples of 0.01": the price of an
\* order that is accepted is a positive number of whole ticks.
AcceptedPricesDocumented ==
    \A n \in 1 .. Len(submitted) :
        validate_order(submitted[n]) =>
            submitted[n].price % 10 = 0 /\ submitted[n].price >= 10

\* Shown by test_application_integration.cpp:269: the report on an order refused
\* for its size tells the size it was refused for.
RejectsTellQuantity ==
    \A k \in 1 .. Len(reports) :
        reports[k].status = "Reject" /\ submitted[reports[k].oid].quantity > 0
            => reports[k].quantity = submitted[reports[k].oid].quantity
=============================================================================
