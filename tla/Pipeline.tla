------------------------------ MODULE Pipeline ------------------------------
(***************************************************************************)
(* FileProcessingPipeline::process_file and its three threads: the producer *)
(* (CsvOrderProducer::produce), the matcher (OrderProcessor::consume) and   *)
(* the caller, which is the writer (CsvReportWriter::drain).  They share    *)
(* two bounded queues and the atomics of PipelineState.                     *)
(*                                                                          *)
(* A step touches at most one shared object.  What the matcher does with an *)
(* order is MatchingEngine's matter; here the order's line in the file says *)
(* how many reports it brings about.  Lines and reports are those of        *)
(* FileProcessor.  Text, timings and the sleeps of the spin loops are left  *)
(* out: a spin is an attempt that fails and is repeated.                    *)
(*                                                                          *)
(* boost::lockfree::spsc_queue is a sequence of at most its capacity, with  *)
(* push, pop and empty each atomic.                                         *)
(***************************************************************************)
EXTENDS Integers, Sequences, SequencesExt

CONSTANTS
    Files,              \* the input files
    MaxFiles,           \* bound: calls of process_file
    InboundCapacity,    \* kInboundQueueCapacity
    OutboundCapacity,   \* kOutboundQueueCapacity
    BatchSize           \* rows that fill the 4 MB of write_batch

ASSUME PipelineAssumption ==
    /\ Files \subseteq Seq(Int)
    /\ MaxFiles \in Nat
    /\ InboundCapacity \in Nat \ {0}
    /\ OutboundCapacity \in Nat \ {0}
    /\ BatchSize \in Nat \ {0}

VARIABLES
    main,               \* where the caller is in process_file and drain
    producer,           \* where the producer is, "none" if not started
    matcher,            \* where the matcher is, "none" if not started
    exited,             \* the process is gone
    inbound_queue_, outbound_queue_,
    producer_done, matcher_done, produced_orders, consumed_orders,
    file,               \* lines of the file being processed
    row,                \* index of the producer's line
    sequence,           \* orders the producer has pushed, or is pushing
    got_end_of_stream, consumed, \* locals of consume
    pending,            \* reports of the matcher's order still to be pushed
    write_batch,        \* rows not yet written
    output_file_,       \* rows in the output file
    counted,            \* produced and consumed as last reported
    started             \* calls of process_file so far, for the bound

state  == <<producer_done, matcher_done, produced_orders, consumed_orders>>
input  == <<file, row, sequence>>
locals == <<got_end_of_stream, consumed, pending>>
output == <<write_batch, output_file_, counted, started>>
vars   == <<main, producer, matcher, exited, inbound_queue_, outbound_queue_,
            state, input, locals, output>>

\* The abstract specification: its operators, and its state seen in this one.
Promise == INSTANCE FileProcessor WITH
    phase  <- IF exited THEN "exited"
              ELSE IF main = "idle" THEN "idle" ELSE "busy",
    output <- output_file_

Short == 0
Unparsable == -1

\* Messages of the inbound queue; an order tells how many reports answer it.
EndOfStream == [end_of_stream |-> TRUE]
OrderMsg(seq, reports) ==
    [end_of_stream |-> FALSE, seq |-> seq, reports |-> reports]

Init ==
    /\ main = "idle" /\ producer = "none" /\ matcher = "none"
    /\ exited = FALSE
    /\ inbound_queue_ = << >> /\ outbound_queue_ = << >>
    /\ producer_done = FALSE /\ matcher_done = FALSE
    /\ produced_orders = 0 /\ consumed_orders = 0
    /\ file = << >> /\ row = 1 /\ sequence = 0
    /\ got_end_of_stream = FALSE /\ consumed = 0 /\ pending = << >>
    /\ write_batch = << >> /\ output_file_ = << >>
    /\ counted = <<0, 0>> /\ started = 0

\* push succeeds when there is room.
HasRoom(queue, capacity) == Len(queue) < capacity

\* MUTANT: one attempt, and the message is given up when the queue is full.
PushInbound_Once(msg) ==
    inbound_queue_' = IF HasRoom(inbound_queue_, InboundCapacity)
                      THEN Append(inbound_queue_, msg) ELSE inbound_queue_

\* MUTANT: the capacity is not looked at.
PushInbound_Unbounded(msg) == inbound_queue_' = Append(inbound_queue_, msg)

\* spin_until_success: the push is repeated until there is room.
PushInbound(msg) ==
    /\ HasRoom(inbound_queue_, InboundCapacity)
    /\ inbound_queue_' = Append(inbound_queue_, msg)

-----------------------------------------------------------------------------
(* The caller: process_file.                                                *)

\* clear_queues, reset and prepare, with no other thread alive.  The output
\* file is truncated; PipelineState is new.
StartFile ==
    /\ main = "idle"
    /\ started < MaxFiles
    /\ started' = started + 1
    /\ file' \in Files
    /\ inbound_queue_' = << >> /\ outbound_queue_' = << >>
    /\ producer_done' = FALSE /\ matcher_done' = FALSE
    /\ produced_orders' = 0 /\ consumed_orders' = 0
    /\ producer' = "none" /\ matcher' = "none"
    /\ row' = 1 /\ sequence' = 0
    /\ got_end_of_stream' = FALSE /\ consumed' = 0 /\ pending' = << >>
    /\ write_batch' = << >> /\ output_file_' = << >>
    /\ main' = "spawn_producer"
    /\ UNCHANGED <<exited, counted>>

\* The output file cannot be opened and process_file returns at once, or
\* create_directories throws, which nothing catches, and the process ends.
PrepareFails ==
    /\ main = "idle"
    /\ started < MaxFiles
    /\ started' = started + 1
    /\ inbound_queue_' = << >> /\ outbound_queue_' = << >>
    /\ \/ UNCHANGED exited
       \/ exited' = TRUE
    /\ UNCHANGED <<main, producer, matcher, state, input, locals,
                   write_batch, output_file_, counted>>

SpawnProducer ==
    /\ main = "spawn_producer"
    /\ producer' = "pin"
    /\ main' = "spawn_matcher"
    /\ UNCHANGED <<matcher, exited, inbound_queue_, outbound_queue_, state,
                   input, locals, output>>

\* The matcher starts, and the caller enters drain with the header in its batch.
SpawnMatcher ==
    /\ main = "spawn_matcher"
    /\ matcher' = "pin"
    /\ write_batch' = <<Promise!Header>>
    /\ main' = "load_done"
    /\ UNCHANGED <<producer, exited, inbound_queue_, outbound_queue_, state,
                   input, locals, output_file_, counted, started>>

\* A thread that cannot be pinned to its core ends the process.
PinFails ==
    /\ producer = "pin" \/ matcher = "pin"
    /\ exited' = TRUE
    /\ UNCHANGED <<main, producer, matcher, inbound_queue_, outbound_queue_,
                   state, input, locals, output>>

\* MUTANT: the queue is looked at before matcher_done is read.
DrainCondition_Swapped ==
    \/ /\ main = "load_done"
       /\ main' = IF outbound_queue_ # << >> THEN "pop" ELSE "load_empty"
    \/ /\ main = "load_empty"
       /\ main' = IF ~ matcher_done THEN "pop" ELSE "flush"

\* The loop condition: first matcher_done is read, then the queue looked at.
DrainCondition ==
    \/ /\ main = "load_done"
       /\ main' = IF ~ matcher_done THEN "pop" ELSE "load_empty"
    \/ /\ main = "load_empty"
       /\ main' = IF outbound_queue_ # << >> THEN "pop" ELSE "flush"

DrainLoop ==
    /\ DrainCondition
    /\ UNCHANGED <<producer, matcher, exited, inbound_queue_, outbound_queue_,
                   state, input, locals, output>>

\* append_csv_row, and the write of a batch that has become full.
AppendRow(report) ==
    LET batch == Append(write_batch, report)
    IN IF Len(batch) >= BatchSize
       THEN output_file_' = output_file_ \o batch /\ write_batch' = << >>
       ELSE write_batch' = batch /\ UNCHANGED output_file_

\* The body of the loop: a report is popped and appended, or there is none.
DrainPop ==
    /\ main = "pop"
    /\ main' = "load_done"
    /\ \/ outbound_queue_ = << >>
          /\ UNCHANGED <<outbound_queue_, write_batch, output_file_>>
       \/ /\ outbound_queue_ # << >>
          /\ outbound_queue_' = Tail(outbound_queue_)
          /\ AppendRow(Head(outbound_queue_))
    /\ UNCHANGED <<producer, matcher, exited, inbound_queue_, state, input,
                   locals, counted, started>>

\* What is left of the batch is written and the file closed.
DrainFlush ==
    /\ main = "flush"
    /\ output_file_' = output_file_ \o write_batch
    /\ write_batch' = << >>
    /\ main' = "join_producer"
    /\ UNCHANGED <<producer, matcher, exited, inbound_queue_, outbound_queue_,
                   state, input, locals, counted, started>>

JoinProducer ==
    /\ main = "join_producer"
    /\ producer = "returned"
    /\ producer_done' = TRUE
    /\ main' = "join_matcher"
    /\ UNCHANGED <<producer, matcher, exited, inbound_queue_, outbound_queue_,
                   matcher_done, produced_orders, consumed_orders, input,
                   locals, output>>

\* The matcher is joined, the counters are reported and process_file returns.
JoinMatcher ==
    /\ main = "join_matcher"
    /\ matcher = "returned"
    /\ matcher_done' = TRUE
    /\ counted' = <<produced_orders, consumed_orders>>
    /\ main' = "idle"
    /\ UNCHANGED <<producer, matcher, exited, inbound_queue_, outbound_queue_,
                   producer_done, produced_orders, consumed_orders, input,
                   locals, write_batch, output_file_, started>>

Main ==
    \/ SpawnProducer \/ SpawnMatcher
    \/ DrainLoop \/ DrainPop \/ DrainFlush
    \/ JoinProducer \/ JoinMatcher

-----------------------------------------------------------------------------
(* The producer: CsvOrderProducer::produce.                                 *)

ProducerKeeps == UNCHANGED <<main, matcher, outbound_queue_, matcher_done,
                             consumed_orders, locals, output, file>>

\* MUTANT: the end of the stream is not published when the file cannot be opened.
OpenFailed_NoEndOfStream == producer' = "unopened_done" /\ UNCHANGED row

\* The input file cannot be opened.
OpenFailed == producer' = "unopened_end" /\ UNCHANGED row

\* The thread is pinned and the file opened.  The header, if any, is skipped.
ProducerOpen ==
    /\ producer = "pin"
    /\ \/ file = << >> /\ OpenFailed
       \/ row' = 2 /\ producer' = "read"
    /\ ProducerKeeps
    /\ UNCHANGED <<exited, inbound_queue_, producer_done, produced_orders,
                   sequence>>

\* A line is read: too short, and skipped; with a number that cannot be read,
\* and the exception ends the process; or an order with the next number.
ProducerRead ==
    /\ producer = "read"
    /\ row <= Len(file)
    /\ \/ /\ file[row] = Short
          /\ row' = row + 1
          /\ UNCHANGED <<producer, exited, sequence>>
       \/ /\ file[row] = Unparsable
          /\ exited' = TRUE
          /\ UNCHANGED <<producer, row, sequence>>
       \/ /\ file[row] > 0
          /\ sequence' = sequence + 1
          /\ producer' = "push"
          /\ UNCHANGED <<exited, row>>
    /\ ProducerKeeps
    /\ UNCHANGED <<inbound_queue_, producer_done, produced_orders>>

ProducerPush ==
    /\ producer = "push"
    /\ PushInbound(OrderMsg(sequence, file[row]))
    /\ row' = row + 1
    /\ producer' = "read"
    /\ ProducerKeeps
    /\ UNCHANGED <<exited, producer_done, produced_orders, sequence>>

\* publish_end_of_stream, at the end of the file or when it cannot be opened.
ProducerEndOfStream ==
    /\ \/ /\ producer = "read" /\ row > Len(file)
          /\ producer' = "count"
       \/ /\ producer = "unopened_end"
          /\ producer' = "unopened_done"
    /\ PushInbound(EndOfStream)
    /\ ProducerKeeps
    /\ UNCHANGED <<exited, row, producer_done, produced_orders, sequence>>

ProducerCount ==
    /\ producer = "count"
    /\ produced_orders' = sequence
    /\ producer' = "done"
    /\ ProducerKeeps
    /\ UNCHANGED <<exited, inbound_queue_, row, producer_done, sequence>>

\* producer_done is stored and the thread returns.
ProducerDone ==
    /\ producer \in {"done", "unopened_done"}
    /\ producer_done' = TRUE
    /\ producer' = "returned"
    /\ ProducerKeeps
    /\ UNCHANGED <<exited, inbound_queue_, row, produced_orders, sequence>>

Producer ==
    \/ ProducerOpen \/ ProducerRead \/ ProducerPush \/ ProducerEndOfStream
    \/ ProducerCount \/ ProducerDone

-----------------------------------------------------------------------------
(* The matcher: OrderProcessor::consume.                                    *)

MatcherKeeps == UNCHANGED <<main, producer, exited, producer_done,
                            produced_orders, input, output>>

MatcherStart ==
    /\ matcher = "pin"
    /\ matcher' = "loop"
    /\ MatcherKeeps
    /\ UNCHANGED <<inbound_queue_, outbound_queue_, matcher_done,
                   consumed_orders, locals>>

\* MUTANT: && for || in the loop condition.
StreamEnded_Either == got_end_of_stream \/ producer_done

\* The loop is left when the end was read and the producer says it is done.
StreamEnded == got_end_of_stream /\ producer_done

MatcherLoop ==
    /\ matcher = "loop"
    /\ matcher' = IF StreamEnded THEN "count" ELSE "pop"
    /\ MatcherKeeps
    /\ UNCHANGED <<inbound_queue_, outbound_queue_, matcher_done,
                   consumed_orders, locals>>

\* An order is taken up.
TakeOrder(msg) ==
    /\ consumed' = consumed + 1
    /\ pending' = [k \in 1 .. msg.reports |-> <<msg.seq, k>>]
    /\ matcher' = "emit"
    /\ UNCHANGED got_end_of_stream

\* A message is popped, or there is none.
MatcherPop ==
    /\ matcher = "pop"
    /\ \/ /\ inbound_queue_ = << >>
          /\ matcher' = "loop"
          /\ UNCHANGED <<inbound_queue_, locals>>
       \/ /\ inbound_queue_ # << >>
          /\ inbound_queue_' = Tail(inbound_queue_)
          /\ \/ /\ Head(inbound_queue_).end_of_stream
                /\ got_end_of_stream' = TRUE
                /\ matcher' = "loop"
                /\ UNCHANGED <<consumed, pending>>
             \/ /\ ~ Head(inbound_queue_).end_of_stream
                /\ TakeOrder(Head(inbound_queue_))
    /\ MatcherKeeps
    /\ UNCHANGED <<outbound_queue_, matcher_done, consumed_orders>>

\* MUTANT: a report that finds the queue full is given up.
PushReport_Once(report) ==
    outbound_queue_' = IF HasRoom(outbound_queue_, OutboundCapacity)
                       THEN Append(outbound_queue_, report) ELSE outbound_queue_

\* spin_until_success again.
PushReport(report) ==
    /\ HasRoom(outbound_queue_, OutboundCapacity)
    /\ outbound_queue_' = Append(outbound_queue_, report)

\* The reports of the order are pushed one by one; with the last the matcher
\* goes back to its loop.
MatcherEmit ==
    /\ matcher = "emit"
    /\ PushReport(Head(pending))
    /\ pending' = Tail(pending)
    /\ matcher' = IF Len(pending) = 1 THEN "loop" ELSE "emit"
    /\ MatcherKeeps
    /\ UNCHANGED <<inbound_queue_, matcher_done, consumed_orders,
                   got_end_of_stream, consumed>>

MatcherCount ==
    /\ matcher = "count"
    /\ consumed_orders' = consumed
    /\ matcher' = "done"
    /\ MatcherKeeps
    /\ UNCHANGED <<inbound_queue_, outbound_queue_, matcher_done, locals>>

MatcherDone ==
    /\ matcher = "done"
    /\ matcher_done' = TRUE
    /\ matcher' = "returned"
    /\ MatcherKeeps
    /\ UNCHANGED <<inbound_queue_, outbound_queue_, consumed_orders, locals>>

Matcher ==
    \/ MatcherStart \/ MatcherLoop \/ MatcherPop \/ MatcherEmit
    \/ MatcherCount \/ MatcherDone

-----------------------------------------------------------------------------

\* The process is gone, or no more files are submitted.
Stopped ==
    /\ exited \/ (main = "idle" /\ started = MaxFiles)
    /\ UNCHANGED vars

Running(A) == ~ exited /\ A

Next ==
    \/ Running(StartFile) \/ Running(PrepareFails) \/ Running(PinFails)
    \/ Running(Main) \/ Running(Producer) \/ Running(Matcher)
    \/ Stopped

Spec == Init /\ [][Next]_vars

\* Each thread is scheduled again and again.
FairSpec ==
    /\ Spec
    /\ WF_vars(Running(Main))
    /\ WF_vars(Running(Producer))
    /\ WF_vars(Running(Matcher))

-----------------------------------------------------------------------------
(* Properties.                                                              *)

\* Where each thread can be.
Places ==
    /\ main \in {"idle", "spawn_producer", "spawn_matcher", "load_done",
                 "load_empty", "pop", "flush", "join_producer", "join_matcher"}
    /\ producer \in {"none", "pin", "read", "push", "unopened_end",
                     "unopened_done", "count", "done", "returned"}
    /\ matcher \in {"none", "pin", "loop", "pop", "emit", "count", "done",
                    "returned"}

Flags ==
    /\ exited \in BOOLEAN /\ got_end_of_stream \in BOOLEAN
    /\ producer_done \in BOOLEAN /\ matcher_done \in BOOLEAN

Counters ==
    /\ file \in Seq(Int) /\ row \in Nat \ {0}
    /\ sequence \in Nat /\ produced_orders \in Nat
    /\ consumed \in Nat /\ consumed_orders \in Nat

\* The types.  No queue holds more than its capacity, and the matcher emits
\* only while there is something to emit.
TypeOK ==
    /\ Places /\ Flags /\ Counters
    /\ Len(inbound_queue_) <= InboundCapacity
    /\ Len(outbound_queue_) <= OutboundCapacity
    /\ matcher = "emit" => pending # << >>

\* The orders of the file, each by the number of its reports.
Orders == Promise!OrderLines(file)

\* The orders between the producer and the matcher: those after the last one
\* consumed, each once, in file order, and the end of the stream behind the
\* last order of the file and nowhere else.
OrdersInFlight ==
    LET pushed == IF producer = "push" THEN sequence - 1 ELSE sequence
        ended  == producer \in {"unopened_done", "count", "done", "returned"}
        ends   == IF ended /\ ~ got_end_of_stream THEN <<EndOfStream>> ELSE << >>
    IN main # "idle" =>
        /\ inbound_queue_ =
            [k \in 1 .. pushed - consumed |->
                OrderMsg(consumed + k, Orders[consumed + k])] \o ends
        /\ ended => pushed = Len(Orders)
        /\ got_end_of_stream => ended /\ consumed = Len(Orders)

\* The reports on the orders consumed so far: what is in the file, then in the
\* batch, then in the queue, then still to be pushed, with none lost, doubled
\* or out of order.
ReportsInFlight ==
    matcher # "none" =>
        output_file_ \o write_batch \o outbound_queue_ \o pending
            = <<Promise!Header>> \o Promise!ReportsOnFirst(consumed, file)

\* When process_file is not running nothing is left over for the next file: no
\* message in a queue, no thread still using the PipelineState on its stack.
NothingLeftBehind ==
    main = "idle" =>
        /\ inbound_queue_ = << >> /\ outbound_queue_ = << >>
        /\ pending = << >> /\ write_batch = << >>
        /\ producer \in {"none", "returned"} /\ matcher \in {"none", "returned"}

\* process_file returns, unless the process dies: no thread waits for ever for
\* a full queue, an empty queue or a flag.
ProcessFileReturns == main # "idle" ~> main = "idle" \/ exited

\* The three threads together do what one synchronous call would do.
ImplementsFileProcessor == Promise!Spec
=============================================================================
