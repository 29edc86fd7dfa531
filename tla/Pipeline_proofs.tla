--------------------------- MODULE Pipeline_proofs ---------------------------
(***************************************************************************)
(* What process_file leaves behind, for any files, any capacities of the    *)
(* queues, any size of the batch and any number of calls.                   *)
(***************************************************************************)
EXTENDS Pipeline, SequenceTheorems, WellFoundedInduction, TLAPS

\* A message is an end of the stream, or an order with at least one report.
Message == [end_of_stream : {TRUE}]
            \cup [end_of_stream : {FALSE}, seq : Nat, reports : Nat \ {0}]

\* What the queues hold.
Report == Nat \X Nat

Inbound == inbound_queue_ \in Seq(Message) /\ Len(inbound_queue_) <= InboundCapacity

Outbound == outbound_queue_ \in Seq(Report) /\ Len(outbound_queue_) <= OutboundCapacity

Pending == pending \in Seq(Report) /\ (pending # << >> <=> matcher = "emit")

\* The line the producer has taken its order from.
OrderRead == producer = "push" => row <= Len(file) /\ file[row] > 0

Types == Places /\ Flags /\ Counters /\ Inbound /\ Outbound /\ Pending /\ OrderRead

\* The producer's part of a call is over, but for counting and its flag.
StreamClosed == producer \in {"unopened_done", "count", "done", "returned"}

\* The end of the stream is in the queue, behind all orders, from when the
\* producer puts it there until the matcher takes it, and never else.
EndIsLast ==
    main # "idle" =>
        /\ \A k \in 1 .. Len(inbound_queue_) :
            inbound_queue_[k].end_of_stream
                <=> k = Len(inbound_queue_) /\ StreamClosed /\ ~ got_end_of_stream
        /\ StreamClosed /\ ~ got_end_of_stream => inbound_queue_ # << >>
        /\ got_end_of_stream => StreamClosed /\ inbound_queue_ = << >>

\* What each thread knows of the other two at the place where it is.
Handshake ==
    /\ main = "idle" =>
        /\ inbound_queue_ = << >> /\ outbound_queue_ = << >> /\ write_batch = << >>
        /\ <<producer, matcher>> \in {<<"none", "none">>, <<"returned", "returned">>}
    /\ main = "spawn_producer" => producer = "none" /\ matcher = "none"
    /\ main = "spawn_matcher" => producer # "none" /\ matcher = "none"
    /\ main \notin {"idle", "spawn_producer", "spawn_matcher"} =>
            producer # "none" /\ matcher # "none"
    /\ main # "idle" /\ matcher \in {"none", "pin"} => ~ got_end_of_stream
    /\ main # "idle" /\ producer_done => producer = "returned"
    /\ main # "idle" /\ matcher_done => matcher = "returned"
    /\ main # "idle" /\ matcher \in {"count", "done", "returned"} =>
            got_end_of_stream /\ producer = "returned"
    /\ main \in {"load_empty", "flush", "join_producer", "join_matcher"} => matcher_done
    /\ main \in {"flush", "join_producer", "join_matcher"} => outbound_queue_ = << >>
    /\ main \in {"join_producer", "join_matcher"} => write_batch = << >>

PipelineInv == Types /\ EndIsLast /\ Handshake

-----------------------------------------------------------------------------
(* Queues.                                                                  *)

\* What a push does to a queue.
LEMMA AfterPush ==
    ASSUME NEW S, NEW queue \in Seq(S), NEW msg \in S
    PROVE  /\ Append(queue, msg) \in Seq(S)
           /\ Len(Append(queue, msg)) = Len(queue) + 1
           /\ Append(queue, msg)[Len(queue) + 1] = msg
           /\ \A k \in 1 .. Len(queue) : Append(queue, msg)[k] = queue[k]
BY AppendProperties

\* What a pop takes from a queue and leaves of it.
LEMMA AfterPop ==
    ASSUME NEW S, NEW queue \in Seq(S), queue # << >>
    PROVE  /\ Len(queue) \in Nat \ {0}
           /\ Head(queue) \in S /\ Head(queue) = queue[1]
           /\ Tail(queue) \in Seq(S) /\ Len(Tail(queue)) = Len(queue) - 1
           /\ \A k \in 1 .. Len(queue) - 1 : Tail(queue)[k] = queue[k + 1]
           /\ Tail(queue) = << >> <=> Len(queue) = 1
<1>1. Len(queue) \in Nat \ {0}
    BY EmptySeq, LenProperties
<1>2. /\ Tail(queue) \in Seq(S) /\ Len(Tail(queue)) = Len(queue) - 1
      /\ \A k \in 1 .. Len(queue) - 1 : Tail(queue)[k] = queue[k + 1]
      /\ Head(queue) = queue[1]
    BY HeadTailProperties
<1>3. Tail(queue) = << >> <=> Len(Tail(queue)) = 0
    BY <1>2, EmptySeq
<1> QED
    BY <1>1, <1>2, <1>3, ElementOfSeq

-----------------------------------------------------------------------------

\* Every property of the invariant holds before the first call.
LEMMA InitPipelineInv == Init => PipelineInv
<1> SUFFICES ASSUME Init PROVE PipelineInv
    OBVIOUS
<1>1. Types
  <2>1. \A S : << >> \in Seq(S) /\ Len(<< >>) = 0
      BY EmptySeq
  <2>2. Places /\ Flags /\ OrderRead
      BY DEF Init, Places, Flags, OrderRead
  <2>3. Counters
      BY <2>1 DEF Init, Counters
  <2>4. Inbound /\ Outbound
      BY <2>1, PipelineAssumption DEF Init, Inbound, Outbound
  <2>5. Pending
      BY <2>1 DEF Init, Pending
  <2> QED
      BY <2>2, <2>3, <2>4, <2>5 DEF Types
<1>2. EndIsLast
    BY DEF Init, EndIsLast
<1>3. Handshake
    BY DEF Init, Handshake
<1> QED
    BY <1>1, <1>2, <1>3 DEF PipelineInv

\* A call begins with everything new.
LEMMA StartStep ==
    ASSUME PipelineInv, StartFile \/ PrepareFails PROVE PipelineInv'
<1> USE DEF PipelineInv
<1>1. CASE StartFile
  <2>4. \A S : << >> \in Seq(S) /\ Len(<< >>) = 0
      BY EmptySeq
  <2>1. Types'
    <3>1. Places'
        BY <1>1, <2>4, PipelineAssumption DEF StartFile, Types, Places
    <3>2. Flags'
        BY <1>1, <2>4, PipelineAssumption DEF StartFile, Types, Flags
    <3>3. Counters'
        BY <1>1, <2>4, PipelineAssumption DEF StartFile, Types, Counters
    <3>4. Inbound' /\ Outbound'
        BY <1>1, <2>4, PipelineAssumption DEF StartFile, Types, Inbound, Outbound
    <3>5. Pending' /\ OrderRead'
        BY <1>1, <2>4, PipelineAssumption DEF StartFile, Types, Places, Pending, OrderRead
    <3> QED
        BY <3>1, <3>2, <3>3, <3>4, <3>5 DEF Types
  <2>2. EndIsLast'
      BY <1>1 DEF StartFile, EndIsLast, StreamClosed
  <2>3. Handshake'
      BY <1>1 DEF StartFile, Handshake
  <2> QED
      BY <2>1, <2>2, <2>3
<1>2. CASE PrepareFails
  <2>1. Types'
    <3>1. Places'
        BY <1>2, PipelineAssumption DEF PrepareFails, state, input, locals, Types, Places
    <3>2. Flags'
        BY <1>2, PipelineAssumption DEF PrepareFails, state, input, locals, Types, Flags
    <3>3. Counters'
        BY <1>2, PipelineAssumption DEF PrepareFails, state, input, locals, Types, Counters
    <3>4. Inbound' /\ Outbound'
        BY <1>2, PipelineAssumption DEF PrepareFails, state, input, locals, Types, Inbound, Outbound
    <3>5. Pending' /\ OrderRead'
        BY <1>2, PipelineAssumption DEF PrepareFails, state, input, locals, Types, Places, Pending, OrderRead
    <3> QED
        BY <3>1, <3>2, <3>3, <3>4, <3>5 DEF Types
  <2>2. EndIsLast'
      BY <1>2 DEF PrepareFails, EndIsLast
  <2>3. Handshake'
      BY <1>2 DEF PrepareFails, Handshake, state, input, locals
  <2> QED
      BY <2>1, <2>2, <2>3
<1> QED
    BY <1>1, <1>2

\* The caller.
LEMMA MainStep ==
    ASSUME PipelineInv, Main PROVE PipelineInv'
<1> USE DEF PipelineInv, state, input, locals, output
<1>1. CASE SpawnProducer \/ SpawnMatcher
  <2>1. Types'
    <3>1. Places'
        BY <1>1 DEF SpawnProducer, SpawnMatcher, Types, Places
    <3>2. Flags'
        BY <1>1 DEF SpawnProducer, SpawnMatcher, Types, Flags
    <3>3. Counters'
        BY <1>1 DEF SpawnProducer, SpawnMatcher, Types, Counters
    <3>4. Inbound' /\ Outbound'
        BY <1>1 DEF SpawnProducer, SpawnMatcher, Types, Inbound, Outbound
    <3>5. Pending' /\ OrderRead'
        BY <1>1 DEF SpawnProducer, SpawnMatcher, Handshake, Types, Pending, OrderRead
    <3> QED
        BY <3>1, <3>2, <3>3, <3>4, <3>5 DEF Types
  <2>2. EndIsLast'
      BY <1>1 DEF SpawnProducer, SpawnMatcher, EndIsLast, Handshake, StreamClosed
  <2>3. Handshake'
      BY <1>1 DEF SpawnProducer, SpawnMatcher, Handshake
  <2> QED
      BY <2>1, <2>2, <2>3
<1>2. CASE DrainLoop
  <2>1. Types'
    <3>1. Places'
        BY <1>2 DEF DrainLoop, DrainCondition, Types, Places
    <3>2. Flags'
        BY <1>2 DEF DrainLoop, DrainCondition, Types, Flags
    <3>3. Counters'
        BY <1>2 DEF DrainLoop, DrainCondition, Types, Counters
    <3>4. Inbound' /\ Outbound'
        BY <1>2 DEF DrainLoop, DrainCondition, Types, Inbound, Outbound
    <3>5. Pending' /\ OrderRead'
        BY <1>2 DEF DrainLoop, DrainCondition, Types, Places, Pending, OrderRead
    <3> QED
        BY <3>1, <3>2, <3>3, <3>4, <3>5 DEF Types
  <2>2. EndIsLast'
      BY <1>2 DEF DrainLoop, DrainCondition, EndIsLast, StreamClosed
  <2>3. Handshake'
      BY <1>2 DEF DrainLoop, DrainCondition, Handshake
  <2> QED
      BY <2>1, <2>2, <2>3
<1>3. CASE DrainPop
  <2>1. Types'
    <3>1. Places'
        BY <1>3, PipelineAssumption DEF DrainPop, Types, Places
    <3>2. Flags'
        BY <1>3, PipelineAssumption DEF DrainPop, Types, Flags
    <3>3. Counters'
        BY <1>3, PipelineAssumption DEF DrainPop, Types, Counters
    <3>4. Inbound' /\ Outbound'
        BY <1>3, PipelineAssumption DEF DrainPop, Types, Inbound, Outbound
    <3>5. Pending' /\ OrderRead'
        BY <1>3, PipelineAssumption DEF DrainPop, Types, Places, Pending, OrderRead
    <3> QED
        BY <3>1, <3>2, <3>3, <3>4, <3>5 DEF Types
  <2>2. EndIsLast'
      BY <1>3 DEF DrainPop, EndIsLast, StreamClosed
  <2>3. Handshake'
      BY <1>3 DEF DrainPop, Handshake
  <2> QED
      BY <2>1, <2>2, <2>3
<1>4. CASE DrainFlush \/ JoinProducer
  <2>1. Types'
    <3>1. Places'
        BY <1>4 DEF DrainFlush, JoinProducer, Types, Places
    <3>2. Flags'
        BY <1>4 DEF DrainFlush, JoinProducer, Types, Flags
    <3>3. Counters'
        BY <1>4 DEF DrainFlush, JoinProducer, Types, Counters
    <3>4. Inbound' /\ Outbound'
        BY <1>4 DEF DrainFlush, JoinProducer, Types, Inbound, Outbound
    <3>5. Pending' /\ OrderRead'
        BY <1>4 DEF DrainFlush, JoinProducer, Types, Places, Pending, OrderRead
    <3> QED
        BY <3>1, <3>2, <3>3, <3>4, <3>5 DEF Types
  <2>2. EndIsLast'
      BY <1>4 DEF DrainFlush, JoinProducer, EndIsLast, StreamClosed
  <2>3. Handshake'
      BY <1>4 DEF DrainFlush, JoinProducer, Handshake
  <2> QED
      BY <2>1, <2>2, <2>3
<1>5. CASE JoinMatcher
  <2>1. Types'
    <3>1. Places'
        BY <1>5 DEF JoinMatcher, Types, Places
    <3>2. Flags'
        BY <1>5 DEF JoinMatcher, Types, Flags
    <3>3. Counters'
        BY <1>5 DEF JoinMatcher, Types, Counters
    <3>4. Inbound' /\ Outbound'
        BY <1>5 DEF JoinMatcher, Types, Inbound, Outbound
    <3>5. Pending' /\ OrderRead'
        BY <1>5 DEF JoinMatcher, Types, Places, Pending, OrderRead
    <3> QED
        BY <3>1, <3>2, <3>3, <3>4, <3>5 DEF Types
  <2>2. EndIsLast'
      BY <1>5 DEF JoinMatcher, EndIsLast
  <2>3. inbound_queue_ = << >> /\ producer = "returned"
      BY <1>5 DEF JoinMatcher, EndIsLast, Handshake
  <2>4. Handshake'
      BY <1>5, <2>3 DEF JoinMatcher, Handshake
  <2> QED
      BY <2>1, <2>2, <2>4
<1> QED
    BY <1>1, <1>2, <1>3, <1>4, <1>5 DEF Main

\* The producer.
LEMMA ProducerStep ==
    ASSUME PipelineInv, Producer PROVE PipelineInv'
<1> USE DEF PipelineInv, ProducerKeeps, locals, output
<1>0. main # "idle" /\ ~ producer_done /\ matcher \notin {"count", "done", "returned"}
    BY DEF Producer, ProducerOpen, ProducerRead, ProducerPush,
        ProducerEndOfStream, ProducerCount, ProducerDone, Handshake
<1>1. CASE ProducerOpen
  <2>1. Types'
    <3>1. Places'
        BY <1>1 DEF ProducerOpen, OpenFailed, Types, Places
    <3>2. Flags'
        BY <1>1 DEF ProducerOpen, OpenFailed, Types, Flags
    <3>3. Counters'
        BY <1>1 DEF ProducerOpen, OpenFailed, Types, Counters
    <3>4. Inbound' /\ Outbound'
        BY <1>1 DEF ProducerOpen, OpenFailed, Types, Inbound, Outbound
    <3>5. Pending' /\ OrderRead'
        BY <1>1 DEF ProducerOpen, OpenFailed, Types, Places, Pending, OrderRead
    <3> QED
        BY <3>1, <3>2, <3>3, <3>4, <3>5 DEF Types
  <2>2. EndIsLast'
      BY <1>1 DEF ProducerOpen, OpenFailed, EndIsLast, StreamClosed
  <2>3. Handshake'
      BY <1>0, <1>1 DEF ProducerOpen, OpenFailed, Handshake
  <2> QED
      BY <2>1, <2>2, <2>3
<1>2. CASE ProducerRead
  <2>1. Types'
    <3>1. Places'
        BY <1>2 DEF ProducerRead, Types, Places
    <3>2. Flags'
        BY <1>2 DEF ProducerRead, Types, Flags
    <3>3. Counters'
        BY <1>2 DEF ProducerRead, Types, Counters
    <3>4. Inbound' /\ Outbound'
        BY <1>2 DEF ProducerRead, Types, Inbound, Outbound
    <3>5. Pending' /\ OrderRead'
        BY <1>2 DEF ProducerRead, Types, Places, Pending, OrderRead
    <3> QED
        BY <3>1, <3>2, <3>3, <3>4, <3>5 DEF Types
  <2>2. EndIsLast'
      BY <1>2 DEF ProducerRead, EndIsLast, StreamClosed
  <2>3. Handshake'
      BY <1>0, <1>2 DEF ProducerRead, Handshake
  <2> QED
      BY <2>1, <2>2, <2>3
<1>3. CASE ProducerPush
  <2>1. OrderMsg(sequence, file[row]) \in Message
        /\ ~ OrderMsg(sequence, file[row]).end_of_stream
    <3>1. sequence \in Nat /\ file[row] \in Nat \ {0}
      <4>1. file \in Seq(Int) /\ row \in 1 .. Len(file) /\ file[row] > 0 /\ sequence \in Nat
          BY <1>3, LenProperties DEF ProducerPush, Types, Counters, OrderRead
      <4>2. file[row] \in Int
          BY <4>1, ElementOfSeq
      <4> QED
          BY <4>1, <4>2
    <3> QED
        BY <3>1 DEF Message, OrderMsg
  <2>5. /\ inbound_queue_' \in Seq(Message) /\ Len(inbound_queue_') <= InboundCapacity
    <3>1. /\ inbound_queue_' = Append(inbound_queue_, OrderMsg(sequence, file[row]))
          /\ Len(inbound_queue_) < InboundCapacity /\ inbound_queue_ \in Seq(Message)
        BY <1>3 DEF ProducerPush, PushInbound, HasRoom, Types, Inbound
    <3> QED
        BY <2>1, <3>1, AfterPush, LenProperties, PipelineAssumption
  <2>2. Types'
    <3>1. Places'
        BY <1>3, <2>5 DEF ProducerPush, Types, Places
    <3>2. Flags'
        BY <1>3, <2>5 DEF ProducerPush, Types, Flags
    <3>3. Counters'
        BY <1>3, <2>5 DEF ProducerPush, Types, Counters
    <3>4. Inbound' /\ Outbound'
        BY <1>3, <2>5 DEF ProducerPush, Types, Inbound, Outbound
    <3>5. Pending' /\ OrderRead'
        BY <1>3, <2>5 DEF ProducerPush, Types, Places, Pending, OrderRead
    <3> QED
        BY <3>1, <3>2, <3>3, <3>4, <3>5 DEF Types
  <2>3. EndIsLast'
      BY <1>0, <1>3, <2>1 DEF ProducerPush, PushInbound, EndIsLast, StreamClosed, Types
  <2>4. Handshake'
      BY <1>0, <1>3 DEF ProducerPush, PushInbound, Handshake
  <2> QED
      BY <2>2, <2>3, <2>4
<1>4. CASE ProducerEndOfStream
  <2>1. EndOfStream \in Message /\ EndOfStream.end_of_stream
      BY DEF EndOfStream, Message
  <2>5. /\ inbound_queue_' \in Seq(Message) /\ Len(inbound_queue_') <= InboundCapacity
        /\ Len(inbound_queue_) \in Nat /\ Len(inbound_queue_') = Len(inbound_queue_) + 1
        /\ inbound_queue_'[Len(inbound_queue_')] = EndOfStream
        /\ \A k \in 1 .. Len(inbound_queue_) : inbound_queue_'[k] = inbound_queue_[k]
    <3>1. /\ inbound_queue_' = Append(inbound_queue_, EndOfStream)
          /\ Len(inbound_queue_) < InboundCapacity /\ inbound_queue_ \in Seq(Message)
        BY <1>4 DEF ProducerEndOfStream, PushInbound, HasRoom, Types, Inbound
    <3> QED
        BY <2>1, <3>1, AfterPush, LenProperties, PipelineAssumption
  <2>6. ~ StreamClosed /\ StreamClosed' /\ ~ got_end_of_stream /\ ~ got_end_of_stream'
      BY <1>0, <1>4 DEF ProducerEndOfStream, StreamClosed, EndIsLast
  <2>2. Types'
    <3>1. Places'
        BY <1>4, <2>5 DEF ProducerEndOfStream, Types, Places
    <3>2. Flags'
        BY <1>4, <2>5 DEF ProducerEndOfStream, Types, Flags
    <3>3. Counters'
        BY <1>4, <2>5 DEF ProducerEndOfStream, Types, Counters
    <3>4. Inbound' /\ Outbound'
        BY <1>4, <2>5 DEF ProducerEndOfStream, Types, Inbound, Outbound
    <3>5. Pending' /\ OrderRead'
        BY <1>4, <2>5 DEF ProducerEndOfStream, Types, Places, Pending, OrderRead
    <3> QED
        BY <3>1, <3>2, <3>3, <3>4, <3>5 DEF Types
  <2>3. EndIsLast'
    <3>1. \A k \in 1 .. Len(inbound_queue_) : ~ inbound_queue_[k].end_of_stream
        BY <1>0, <2>6 DEF EndIsLast
    <3>2. inbound_queue_' # << >>
        BY <2>5, EmptySeq
    <3> QED
        BY <2>1, <2>5, <2>6, <3>1, <3>2 DEF EndIsLast
  <2>4. Handshake'
      BY <1>0, <1>4 DEF ProducerEndOfStream, PushInbound, Handshake
  <2> QED
      BY <2>2, <2>3, <2>4
<1>5. CASE ProducerCount \/ ProducerDone
  <2>1. Types'
    <3>1. Places'
        BY <1>5 DEF ProducerCount, ProducerDone, Types, Places
    <3>2. Flags'
        BY <1>5 DEF ProducerCount, ProducerDone, Types, Flags
    <3>3. Counters'
        BY <1>5 DEF ProducerCount, ProducerDone, Types, Counters
    <3>4. Inbound' /\ Outbound'
        BY <1>5 DEF ProducerCount, ProducerDone, Types, Inbound, Outbound
    <3>5. Pending' /\ OrderRead'
        BY <1>5 DEF ProducerCount, ProducerDone, Types, Places, Pending, OrderRead
    <3> QED
        BY <3>1, <3>2, <3>3, <3>4, <3>5 DEF Types
  <2>2. EndIsLast'
      BY <1>5 DEF ProducerCount, ProducerDone, EndIsLast, StreamClosed
  <2>3. Handshake'
      BY <1>0, <1>5 DEF ProducerCount, ProducerDone, Handshake
  <2> QED
      BY <2>1, <2>2, <2>3
<1> QED
    BY <1>1, <1>2, <1>3, <1>4, <1>5 DEF Producer

\* The matcher.
LEMMA MatcherStep ==
    ASSUME PipelineInv, Matcher PROVE PipelineInv'
<1> USE DEF PipelineInv, MatcherKeeps, input, output, locals
<1>0. main \notin {"idle", "spawn_producer", "spawn_matcher", "load_empty", "flush",
                   "join_producer", "join_matcher"}
      /\ ~ matcher_done
    BY DEF Matcher, MatcherStart, MatcherLoop, MatcherPop, MatcherEmit,
        MatcherCount, MatcherDone, Handshake, Types, TypeOK
<1>1. CASE MatcherStart \/ MatcherLoop
  <2>1. Types'
    <3>1. Places'
        BY <1>1 DEF MatcherStart, MatcherLoop, Types, Places
    <3>2. Flags'
        BY <1>1 DEF MatcherStart, MatcherLoop, Types, Flags
    <3>3. Counters'
        BY <1>1 DEF MatcherStart, MatcherLoop, Types, Counters
    <3>4. Inbound' /\ Outbound'
        BY <1>1 DEF MatcherStart, MatcherLoop, Types, Inbound, Outbound
    <3>5. Pending' /\ OrderRead'
        BY <1>1 DEF MatcherStart, MatcherLoop, Types, Places, Pending, OrderRead
    <3> QED
        BY <3>1, <3>2, <3>3, <3>4, <3>5 DEF Types
  <2>2. EndIsLast'
      BY <1>1 DEF MatcherStart, MatcherLoop, EndIsLast, StreamClosed
  <2>3. Handshake'
      BY <1>0, <1>1 DEF MatcherStart, MatcherLoop, StreamEnded, Handshake
  <2> QED
      BY <2>1, <2>2, <2>3
<1>2. CASE MatcherPop
  <2>1. CASE inbound_queue_ = << >>
    <3>1. Types'
      <4>1. Places'
          BY <1>2, <2>1 DEF MatcherPop, Types, Places
      <4>2. Flags'
          BY <1>2, <2>1 DEF MatcherPop, Types, Flags
      <4>3. Counters'
          BY <1>2, <2>1 DEF MatcherPop, Types, Counters
      <4>4. Inbound' /\ Outbound'
          BY <1>2, <2>1 DEF MatcherPop, Types, Inbound, Outbound
      <4>5. Pending' /\ OrderRead'
          BY <1>2, <2>1 DEF MatcherPop, Types, Places, Pending, OrderRead
      <4> QED
          BY <4>1, <4>2, <4>3, <4>4, <4>5 DEF Types
    <3>2. EndIsLast'
        BY <1>2, <2>1 DEF MatcherPop, EndIsLast, StreamClosed
    <3>3. Handshake'
        BY <1>0, <1>2, <2>1 DEF MatcherPop, Handshake
    <3> QED
        BY <3>1, <3>2, <3>3
  <2>2. CASE inbound_queue_ # << >>
    <3> DEFINE msg == Head(inbound_queue_)
    <3>1. /\ msg \in Message /\ msg = inbound_queue_[1]
          /\ Len(inbound_queue_) \in Nat \ {0}
          /\ inbound_queue_' \in Seq(Message)
          /\ Len(inbound_queue_') = Len(inbound_queue_) - 1
          /\ \A k \in 1 .. Len(inbound_queue_') :
                inbound_queue_'[k] = inbound_queue_[k + 1]
          /\ inbound_queue_' = << >> <=> Len(inbound_queue_) = 1
      <4>1. inbound_queue_ \in Seq(Message) /\ inbound_queue_' = Tail(inbound_queue_)
          BY <1>2, <2>2 DEF MatcherPop, Types, Inbound
      <4> QED
          BY <2>2, <4>1, AfterPop
    <3> HIDE DEF msg
    <3>2. CASE msg.end_of_stream
      <4>1. /\ got_end_of_stream' = TRUE /\ matcher' = "loop"
            /\ UNCHANGED <<consumed, pending>>
          BY <1>2, <2>2, <3>2 DEF MatcherPop, msg
      <4>2. StreamClosed /\ inbound_queue_' = << >>
        <5>1. 1 = Len(inbound_queue_) /\ StreamClosed
            BY <1>0, <3>1, <3>2 DEF EndIsLast
        <5> QED
            BY <3>1, <5>1
      <4>3. Types'
        <5>1. Places'
            BY <1>2, <3>1, <4>1, PipelineAssumption DEF MatcherPop, Types, Places
        <5>2. Flags'
            BY <1>2, <3>1, <4>1, PipelineAssumption DEF MatcherPop, Types, Flags
        <5>3. Counters'
            BY <1>2, <3>1, <4>1, PipelineAssumption DEF MatcherPop, Types, Counters
        <5>4. Inbound' /\ Outbound'
            BY <1>2, <3>1, <4>1, PipelineAssumption DEF MatcherPop, Types, Inbound, Outbound
        <5>5. Pending' /\ OrderRead'
            BY <1>2, <3>1, <4>1, PipelineAssumption DEF MatcherPop, Types, Places, Pending, OrderRead
        <5> QED
            BY <5>1, <5>2, <5>3, <5>4, <5>5 DEF Types
      <4>4. EndIsLast'
          BY <1>2, <4>1, <4>2 DEF MatcherPop, EndIsLast, StreamClosed
      <4>5. Handshake'
          BY <1>0, <1>2, <4>1, <4>2 DEF MatcherPop, Handshake
      <4> QED
          BY <4>3, <4>4, <4>5
    <3>3. CASE ~ msg.end_of_stream
      <4>1. TakeOrder(msg)
          BY <1>2, <2>2, <3>3 DEF MatcherPop, msg
      <4>2. msg.seq \in Nat /\ msg.reports \in Nat \ {0}
          BY <3>1, <3>3 DEF Message
      <4>3. pending' \in Seq(Report) /\ pending' # << >>
        <5>1. pending' \in [1 .. msg.reports -> Report]
            BY <4>1, <4>2 DEF TakeOrder, Report
        <5>2. Len(pending') = msg.reports
            BY <4>2, <5>1
        <5> QED
            BY <4>2, <5>1, <5>2
      <4>4. Types'
        <5>1. Places'
            BY <1>2, <3>1, <4>1, <4>3, PipelineAssumption DEF MatcherPop, TakeOrder, Types, Places
        <5>2. Flags'
            BY <1>2, <3>1, <4>1, <4>3, PipelineAssumption DEF MatcherPop, TakeOrder, Types, Flags
        <5>3. Counters'
            BY <1>2, <3>1, <4>1, <4>3, PipelineAssumption DEF MatcherPop, TakeOrder, Types, Counters
        <5>4. Inbound' /\ Outbound'
            BY <1>2, <3>1, <4>1, <4>3, PipelineAssumption DEF MatcherPop, TakeOrder, Types, Inbound, Outbound
        <5>5. Pending' /\ OrderRead'
            BY <1>2, <3>1, <4>1, <4>3, PipelineAssumption DEF MatcherPop, TakeOrder, Types, Places, Pending, OrderRead
        <5> QED
            BY <5>1, <5>2, <5>3, <5>4, <5>5 DEF Types
      <4>5. EndIsLast'
        <5>1. /\ UNCHANGED <<producer, main, got_end_of_stream>>
              /\ StreamClosed' <=> StreamClosed
            BY <1>2, <4>1 DEF MatcherPop, TakeOrder, StreamClosed
        <5>2. ~ got_end_of_stream
            BY <1>0, <2>2 DEF EndIsLast
        <5>3. StreamClosed => Len(inbound_queue_) # 1
            BY <1>0, <3>1, <3>3, <5>2 DEF EndIsLast
        <5>4. ASSUME NEW k \in 1 .. Len(inbound_queue_')
              PROVE  inbound_queue_'[k].end_of_stream
                        <=> k = Len(inbound_queue_') /\ StreamClosed
          <6>1. k + 1 \in 1 .. Len(inbound_queue_)
                /\ (k + 1 = Len(inbound_queue_) <=> k = Len(inbound_queue_'))
              BY <3>1
          <6> QED
              BY <1>0, <3>1, <5>2, <6>1 DEF EndIsLast
        <5> QED
            BY <3>1, <5>1, <5>2, <5>3, <5>4 DEF EndIsLast
      <4>6. Handshake'
          BY <1>0, <1>2, <3>1, <4>1 DEF MatcherPop, TakeOrder, Handshake
      <4> QED
          BY <4>4, <4>5, <4>6
    <3> QED
        BY <3>2, <3>3
  <2> QED
      BY <2>1, <2>2
<1>3. CASE MatcherEmit
  <2>4. /\ pending \in Seq(Report) /\ pending # << >>
        /\ outbound_queue_ \in Seq(Report)
        /\ outbound_queue_' = Append(outbound_queue_, Head(pending))
        /\ Len(outbound_queue_) < OutboundCapacity
        /\ pending' = Tail(pending)
        /\ matcher' = IF Len(pending) = 1 THEN "loop" ELSE "emit"
      BY <1>3 DEF MatcherEmit, PushReport, HasRoom, Types, Outbound, Pending
  <2>5. /\ pending' \in Seq(Report)
        /\ pending' # << >> <=> matcher' = "emit"
        /\ Head(pending) \in Report
      BY <2>4, AfterPop
  <2>6. outbound_queue_' \in Seq(Report) /\ Len(outbound_queue_') <= OutboundCapacity
      BY <2>4, <2>5, AfterPush, LenProperties, PipelineAssumption
  <2>1. Types'
    <3>1. Places'
        BY <1>3, <2>4, <2>5, <2>6 DEF MatcherEmit, Types, Places
    <3>2. Flags'
        BY <1>3, <2>4, <2>5, <2>6 DEF MatcherEmit, Types, Flags
    <3>3. Counters'
        BY <1>3, <2>4, <2>5, <2>6 DEF MatcherEmit, Types, Counters
    <3>4. Inbound' /\ Outbound'
        BY <1>3, <2>4, <2>5, <2>6 DEF MatcherEmit, Types, Inbound, Outbound
    <3>5. Pending' /\ OrderRead'
        BY <1>3, <2>4, <2>5, <2>6 DEF MatcherEmit, Types, Places, Pending, OrderRead
    <3> QED
        BY <3>1, <3>2, <3>3, <3>4, <3>5 DEF Types
  <2>2. EndIsLast'
      BY <1>3 DEF MatcherEmit, EndIsLast, StreamClosed
  <2>3. Handshake'
      BY <1>0, <1>3 DEF MatcherEmit, Handshake
  <2> QED
      BY <2>1, <2>2, <2>3
<1>4. CASE MatcherCount \/ MatcherDone
  <2>1. Types'
    <3>1. Places'
        BY <1>4 DEF MatcherCount, MatcherDone, Types, Places
    <3>2. Flags'
        BY <1>4 DEF MatcherCount, MatcherDone, Types, Flags
    <3>3. Counters'
        BY <1>4 DEF MatcherCount, MatcherDone, Types, Counters
    <3>4. Inbound' /\ Outbound'
        BY <1>4 DEF MatcherCount, MatcherDone, Types, Inbound, Outbound
    <3>5. Pending' /\ OrderRead'
        BY <1>4 DEF MatcherCount, MatcherDone, Types, Places, Pending, OrderRead
    <3> QED
        BY <3>1, <3>2, <3>3, <3>4, <3>5 DEF Types
  <2>2. EndIsLast'
      BY <1>4 DEF MatcherCount, MatcherDone, EndIsLast, StreamClosed
  <2>3. Handshake'
      BY <1>0, <1>4 DEF MatcherCount, MatcherDone, Handshake
  <2> QED
      BY <2>1, <2>2, <2>3
<1> QED
    BY <1>1, <1>2, <1>3, <1>4 DEF Matcher

\* The process may end, or nothing happen at all.
LEMMA IdleStep ==
    ASSUME PipelineInv, PinFails \/ UNCHANGED vars PROVE PipelineInv'
<1>1. /\ UNCHANGED <<main, producer, matcher, inbound_queue_, outbound_queue_,
                    producer_done, matcher_done, produced_orders, consumed_orders,
                    file, row, sequence, got_end_of_stream, consumed, pending,
                    write_batch>>
      /\ exited' \in {exited, TRUE}
    BY DEF PinFails, vars, state, input, locals, output
<1>2. Types'
  <2>1. Places'
      BY <1>1 DEF PipelineInv, Types, Places
  <2>2. Flags'
      BY <1>1 DEF PipelineInv, Types, Flags
  <2>3. Counters'
      BY <1>1 DEF PipelineInv, Types, Counters
  <2>4. Inbound' /\ Outbound'
      BY <1>1 DEF PipelineInv, Types, Inbound, Outbound
  <2>5. Pending' /\ OrderRead'
      BY <1>1 DEF PipelineInv, Types, Places, Pending, OrderRead
  <2> QED
      BY <2>1, <2>2, <2>3, <2>4, <2>5 DEF Types
<1>3. EndIsLast'
    BY <1>1 DEF PipelineInv, EndIsLast, StreamClosed
<1>4. Handshake'
    BY <1>1 DEF PipelineInv, Handshake
<1> QED
    BY <1>2, <1>3, <1>4 DEF PipelineInv

-----------------------------------------------------------------------------

\* The inductive invariant of the three threads.
THEOREM PipelineInvariance == Spec => []PipelineInv
<1>1. PipelineInv /\ [Next]_vars => PipelineInv'
  <2> SUFFICES ASSUME PipelineInv, [Next]_vars PROVE PipelineInv'
      OBVIOUS
  <2>1. CASE StartFile \/ PrepareFails
      BY <2>1, StartStep
  <2>2. CASE PinFails \/ UNCHANGED vars
      BY <2>2, IdleStep
  <2>3. CASE Main
      BY <2>3, MainStep
  <2>4. CASE Producer
      BY <2>4, ProducerStep
  <2>5. CASE Matcher
      BY <2>5, MatcherStep
  <2> QED
      BY <2>1, <2>2, <2>3, <2>4, <2>5 DEF Next, Running, Stopped
<1> QED
    BY <1>1, InitPipelineInv, PTL DEF Spec

\* No queue ever holds more than its capacity, no count goes below zero, and
\* the matcher emits only what there is (spsc_utils.h:5-18).
THEOREM PipelineTypeCorrect == Spec => []TypeOK
<1>1. PipelineInv => TypeOK
    BY DEF PipelineInv, Types, Inbound, Outbound, Pending, TypeOK
<1> QED
    BY <1>1, PipelineInvariance, PTL

\* When process_file has returned, nothing is left over for the next file, and
\* no thread still uses its PipelineState: the order in which the caller reads
\* matcher_done and the queue, and in which the matcher reads the end of the
\* stream and producer_done, is enough (csv_report_writer.cpp:113-137,
\* order_processor.cpp:126-165, file_processing_pipeline.cpp:28-79).
THEOREM NothingIsLeft == Spec => []NothingLeftBehind
<1>1. PipelineInv => NothingLeftBehind
    BY DEF PipelineInv, Handshake, Types, Pending, NothingLeftBehind
<1> QED
    BY <1>1, PipelineInvariance, PTL

-----------------------------------------------------------------------------
(* Recursive functions.                                                     *)

\* A set of naturals has a least element.
LEMMA Least ==
    ASSUME NEW T \in SUBSET Nat, T # {}
    PROVE  \E m \in T : \A k \in T : m <= k
<1> DEFINE R == OpToRel(<, Nat)
<1>1. IsWellFoundedOn(R, Nat)
    BY NatLessThanWellFounded
<1>2. \A x \in Nat, y \in Nat : y < x => <<y, x>> \in R
    BY DEF OpToRel
<1> HIDE DEF R
<1>3. PICK x \in T : \A y \in T : ~ (<<y, x>> \in R)
    BY <1>1, WFMin
<1>4. ASSUME NEW k \in T PROVE x <= k
  <2>1. x \in Nat /\ k \in Nat /\ ~ (<<k, x>> \in R)
      BY <1>3
  <2> QED BY <1>2, <2>1
<1> QED BY <1>4

\* f begins with base, and each further value is made of the one before.
Steps(f, n, S, base, step) ==
    /\ f \in [0 .. n -> S]
    /\ f[0] = base
    /\ \A k \in 1 .. n : f[k] = step[<<f[k - 1], k>>]

LEMMA Recursion ==
    ASSUME NEW S, NEW N \in Nat, NEW base \in S, NEW step \in [S \X (1 .. N) -> S]
    PROVE  \E f : Steps(f, N, S, base, step)
<1> DEFINE T == {n \in 0 .. N : ~ \E f : Steps(f, n, S, base, step)}
<1>1. T = {}
  <2> SUFFICES ASSUME T # {} PROVE FALSE
      OBVIOUS
  <2>1. T \in SUBSET Nat
      OBVIOUS
  <2> HIDE DEF T
  <2>2. PICK m \in T : \A n \in T : m <= n
      BY <2>1, Least
  <2>3. m \in 0 .. N /\ m \in Nat /\ ~ \E f : Steps(f, m, S, base, step)
      BY <2>2 DEF T
  <2>4. CASE m = 0
    <3>1. Steps([k \in 0 .. 0 |-> base], 0, S, base, step)
        BY DEF Steps
    <3> QED BY <2>3, <2>4, <3>1
  <2>5. CASE m # 0
    <3>1. m - 1 \in 0 .. N /\ ~ (m <= m - 1) /\ m \in 1 .. N /\ m - 1 \in Nat
        BY <2>3, <2>5
    <3>2. m - 1 \notin T
        BY <2>2, <3>1
    <3>3. PICK f : Steps(f, m - 1, S, base, step)
        BY <3>1, <3>2 DEF T
    <3> DEFINE g == [k \in 0 .. m |-> IF k = m THEN step[<<f[m - 1], m>>] ELSE f[k]]
    <3>4. f[m - 1] \in S /\ step[<<f[m - 1], m>>] \in S
      <4>1. m - 1 \in 0 .. m - 1
          BY <3>1
      <4> QED BY <3>1, <3>3, <4>1 DEF Steps
    <3>5. /\ \A k \in 0 .. m - 1 : k \in 0 .. m /\ k # m /\ g[k] = f[k] /\ f[k] \in S
          /\ m \in 0 .. m /\ g[m] = step[<<f[m - 1], m>>]
        BY <3>1, <3>3 DEF Steps
    <3>6. g \in [0 .. m -> S]
        BY <3>1, <3>3, <3>4 DEF Steps
    <3> HIDE DEF g
    <3>7. ASSUME NEW k \in 1 .. m PROVE g[k] = step[<<g[k - 1], k>>]
      <4>1. CASE k = m
        <5>1. m - 1 \in 0 .. m - 1
            BY <3>1
        <5> QED BY <3>5, <4>1, <5>1
      <4>2. CASE k # m
        <5>1. k \in 1 .. m - 1 /\ k \in 0 .. m - 1 /\ k - 1 \in 0 .. m - 1
            BY <3>1, <4>2
        <5> QED BY <3>3, <3>5, <5>1 DEF Steps
      <4> QED BY <4>1, <4>2
    <3>8. g[0] = base
      <4>1. 0 \in 0 .. m - 1
          BY <3>1
      <4> QED BY <3>3, <3>5, <4>1 DEF Steps
    <3>9. Steps(g, m, S, base, step)
        BY <3>6, <3>7, <3>8 DEF Steps
    <3> QED BY <2>3, <3>9
  <2> QED BY <2>4, <2>5
<1>2. N \in 0 .. N
    OBVIOUS
<1> QED BY <1>1, <1>2

-----------------------------------------------------------------------------
(* The orders of a file, line by line.                                      *)

Counts == Nat \ {0}

\* The orders among the lines, as FileProcessor collects them.
LEMMA AmongLines ==
    ASSUME NEW lines \in Seq(Int)
    PROVE  /\ \A n \in 0 .. Len(lines) : Promise!OrdersAmong(lines, n) \in Seq(Counts)
           /\ \A n \in 0 .. Len(lines) : n <= 1 => Promise!OrdersAmong(lines, n) = << >>
           /\ \A n \in 2 .. Len(lines) :
                Promise!OrdersAmong(lines, n) =
                    IF lines[n] > 0
                    THEN Append(Promise!OrdersAmong(lines, n - 1), lines[n])
                    ELSE Promise!OrdersAmong(lines, n - 1)
<1> DEFINE N == Len(lines)
           S == Seq(Counts)
           after(sofar, k) == IF k <= 1 THEN << >>
                              ELSE IF lines[k] > 0 THEN Append(sofar, lines[k])
                              ELSE sofar
           step == [p \in S \X (1 .. N) |-> after(p[1], p[2])]
           body(f) == [k \in 0 .. N |->
                        IF k <= 1 THEN << >>
                        ELSE IF lines[k] > 0 THEN Append(f[k - 1], lines[k])
                        ELSE f[k - 1]]
           among == CHOOSE f : f = body(f)
<1>1. N \in Nat /\ << >> \in S /\ \A k \in 1 .. N : lines[k] \in Int
    BY LenProperties, ElementOfSeq, EmptySeq
<1>2. \A s \in S, k \in 1 .. N : after(s, k) \in S
  <2>1. ASSUME NEW s \in S, NEW k \in 1 .. N PROVE after(s, k) \in S
    <3>1. CASE k > 1 /\ lines[k] > 0
      <4>1. lines[k] \in Counts
          BY <1>1, <3>1 DEF Counts
      <4>2. Append(s, lines[k]) \in S
          BY <4>1, AppendProperties
      <4> QED BY <3>1, <4>2
    <3>2. CASE ~ (k > 1 /\ lines[k] > 0)
        BY <1>1, <3>2
    <3> QED BY <3>1, <3>2
  <2> QED BY <2>1
<1>3. step \in [S \X (1 .. N) -> S]
  <2> HIDE DEF after, S
  <2> QED BY <1>2
<1>4. PICK g : Steps(g, N, S, << >>, step)
  <2> HIDE DEF step, S
  <2> QED BY <1>1, <1>3, Recursion
<1>5. /\ g \in [0 .. N -> S] /\ g[0] = << >>
      /\ \A k \in 1 .. N : g[k] = after(g[k - 1], k)
  <2> HIDE DEF after
  <2>1. ASSUME NEW k \in 1 .. N PROVE g[k] = after(g[k - 1], k)
    <3>1. k - 1 \in 0 .. N
        BY <1>1
    <3>2. g[k - 1] \in S /\ g[k] = step[<<g[k - 1], k>>]
        BY <1>4, <3>1 DEF Steps
    <3> HIDE DEF S
    <3> QED BY <3>2
  <2> QED BY <1>4, <2>1 DEF Steps
<1>6. g = body(g)
  <2>1. ASSUME NEW k \in 0 .. N
        PROVE  g[k] = IF k <= 1 THEN << >>
                      ELSE IF lines[k] > 0 THEN Append(g[k - 1], lines[k]) ELSE g[k - 1]
    <3>1. CASE k = 0
        BY <1>5, <3>1
    <3>2. CASE k \in 1 .. N
        BY <1>5, <3>2
    <3> QED BY <1>1, <3>1, <3>2
  <2> QED BY <1>5, <2>1
<1>7. among = body(among)
    BY <1>6
<1>8. \A n : Promise!OrdersAmong(lines, n) = among[n]
    BY DEF Promise!OrdersAmong
<1> HIDE DEF among
<1>9. \A k \in 0 .. N :
        among[k] = IF k <= 1 THEN << >>
                   ELSE IF lines[k] > 0 THEN Append(among[k - 1], lines[k])
                   ELSE among[k - 1]
    BY <1>7
<1>10. \A n \in 0 .. N : among[n] \in S
  <2> DEFINE T == {n \in 0 .. N : among[n] \notin S}
  <2> SUFFICES ASSUME T # {} PROVE FALSE
      OBVIOUS
  <2>1. T \in SUBSET Nat
      OBVIOUS
  <2> HIDE DEF T
  <2>2. PICK m \in T : \A n \in T : m <= n
      BY <2>1, Least
  <2>3. m \in 0 .. N /\ m \in Nat /\ among[m] \notin S
      BY <2>2 DEF T
  <2>4. m > 1
    <3>1. CASE m <= 1
      <4>1. among[m] = << >>
          BY <1>9, <2>3, <3>1
      <4> QED BY <1>1, <2>3, <4>1
    <3> QED BY <2>3, <3>1
  <2>5. m - 1 \in 0 .. N /\ ~ (m <= m - 1) /\ m \in 1 .. N
      BY <1>1, <2>3, <2>4
  <2>6. among[m - 1] \in S
      BY <2>2, <2>5 DEF T
  <2>7. among[m] = after(among[m - 1], m)
      BY <1>9, <2>3
  <2> HIDE DEF after, S
  <2> QED BY <1>2, <2>3, <2>5, <2>6, <2>7
<1>11. \A n \in 0 .. N : n <= 1 => among[n] = << >>
    BY <1>9
<1>12. \A n \in 2 .. N : among[n] = IF lines[n] > 0 THEN Append(among[n - 1], lines[n])
                                    ELSE among[n - 1]
  <2>1. \A n \in 2 .. N : n \in 0 .. N /\ ~ (n <= 1)
      BY <1>1
  <2> QED BY <1>9, <2>1
<1> QED BY <1>8, <1>10, <1>11, <1>12

\* t begins with s.
Begins(s, t) == Len(s) <= Len(t) /\ \A k \in 1 .. Len(s) : t[k] = s[k]

LEMMA AmongBegins ==
    ASSUME NEW lines \in Seq(Int), NEW m \in 0 .. Len(lines), NEW n \in m .. Len(lines)
    PROVE  Begins(Promise!OrdersAmong(lines, m), Promise!OrdersAmong(lines, n))
<1> DEFINE N == Len(lines)
           among(k) == Promise!OrdersAmong(lines, k)
           T == {k \in m .. N : ~ Begins(among(m), among(k))}
<1>1. /\ N \in Nat
      /\ \A k \in 0 .. N : among(k) \in Seq(Counts)
      /\ \A k \in 0 .. N : k <= 1 => among(k) = << >>
      /\ \A k \in 2 .. N : among(k) = IF lines[k] > 0 THEN Append(among(k - 1), lines[k])
                                      ELSE among(k - 1)
      /\ \A k \in 1 .. N : lines[k] \in Int
    BY AmongLines, LenProperties, ElementOfSeq
<1> HIDE DEF among, N
<1>2. \A k \in 0 .. N : Len(among(k)) \in Nat
    BY <1>1, LenProperties
<1>3. T = {}
  <2> SUFFICES ASSUME T # {} PROVE FALSE
      OBVIOUS
  <2>1. T \in SUBSET Nat
      OBVIOUS
  <2> HIDE DEF T
  <2>2. PICK k \in T : \A j \in T : k <= j
      BY <2>1, Least
  <2>3. k \in m .. N /\ k \in Nat /\ ~ Begins(among(m), among(k)) /\ m \in 0 .. N
      BY <2>2 DEF T, N
  <2>4. CASE k = m \/ k <= 1
    <3>1. among(k) = among(m)
        BY <1>1, <2>3, <2>4
    <3> QED BY <1>2, <2>3, <3>1 DEF Begins
  <2>5. CASE k # m /\ k > 1
    <3>1. /\ k - 1 \in m .. N /\ ~ (k <= k - 1) /\ k \in 2 .. N /\ k \in 1 .. N
          /\ k - 1 \in 0 .. N /\ k \in 0 .. N
        BY <1>1, <2>3, <2>5
    <3>2. Begins(among(m), among(k - 1))
        BY <2>2, <3>1 DEF T
    <3>3. CASE lines[k] > 0
      <4>0. lines[k] \in Int
          BY <1>1, <3>1
      <4>1. lines[k] \in Counts /\ among(k - 1) \in Seq(Counts)
        <5>1. lines[k] \in Counts
            BY <3>3, <4>0 DEF Counts
        <5>2. among(k - 1) \in Seq(Counts)
            BY <1>1, <3>1
        <5> QED BY <5>1, <5>2
      <4>2. among(k) = Append(among(k - 1), lines[k])
          BY <1>1, <3>1, <3>3
      <4>3. /\ Len(among(k)) = Len(among(k - 1)) + 1
            /\ \A j \in 1 .. Len(among(k - 1)) : among(k)[j] = among(k - 1)[j]
          BY <4>1, <4>2, AppendProperties
      <4>4. Len(among(m)) \in Nat /\ Len(among(k - 1)) \in Nat
          BY <1>2, <2>3, <3>1
      <4>5. Begins(among(m), among(k))
          BY <3>2, <4>3, <4>4 DEF Begins
      <4> QED BY <2>3, <4>5
    <3>4. CASE ~ (lines[k] > 0)
        BY <1>1, <2>3, <3>1, <3>2, <3>4
    <3> QED BY <3>3, <3>4
  <2> QED BY <2>3, <2>4, <2>5
<1> QED BY <1>3 DEF among, N

\* The orders in the lines before line r, the next the producer reads.
OrdersBefore(lines, r) ==
    IF r > Len(lines) THEN Promise!OrderLines(lines) ELSE Promise!OrdersAmong(lines, r - 1)

LEMMA BeforeFacts ==
    ASSUME NEW lines \in Seq(Int), NEW r \in Nat \ {0}
    PROVE  /\ OrdersBefore(lines, r) \in Seq(Counts)
           /\ Begins(OrdersBefore(lines, r), Promise!OrderLines(lines))
           /\ r <= 2 => OrdersBefore(lines, r) = << >>
           /\ r > Len(lines) => OrdersBefore(lines, r) = Promise!OrderLines(lines)
           /\ r \in 2 .. Len(lines) =>
                OrdersBefore(lines, r + 1) = IF lines[r] > 0
                                             THEN Append(OrdersBefore(lines, r), lines[r])
                                             ELSE OrdersBefore(lines, r)
<1> DEFINE N == Len(lines)
           among(k) == Promise!OrdersAmong(lines, k)
<1>1. /\ N \in Nat /\ N \in 0 .. N
      /\ \A k \in 0 .. N : among(k) \in Seq(Counts) /\ Begins(among(k), among(N))
      /\ \A k \in 0 .. N : k <= 1 => among(k) = << >>
      /\ \A k \in 2 .. N : among(k) = IF lines[k] > 0 THEN Append(among(k - 1), lines[k])
                                      ELSE among(k - 1)
    BY AmongLines, AmongBegins, LenProperties
<1>2. Promise!OrderLines(lines) = among(N)
    BY DEF Promise!OrderLines
<1>3. \A k : OrdersBefore(lines, k) = IF k > N THEN among(N) ELSE among(k - 1)
    BY <1>2 DEF OrdersBefore
<1> HIDE DEF among
<1>4. ~ (r > N) => r - 1 \in 0 .. N
    BY <1>1
<1>5. OrdersBefore(lines, r) \in Seq(Counts) /\ Begins(OrdersBefore(lines, r), among(N))
    BY <1>1, <1>3, <1>4
<1>6. r <= 2 => OrdersBefore(lines, r) = << >>
    BY <1>1, <1>3, <1>4
<1>7. ASSUME r \in 2 .. N
      PROVE  OrdersBefore(lines, r + 1) = IF lines[r] > 0
                                          THEN Append(OrdersBefore(lines, r), lines[r])
                                          ELSE OrdersBefore(lines, r)
  <2>1. OrdersBefore(lines, r) = among(r - 1)
      BY <1>1, <1>3, <1>7
  <2>2. OrdersBefore(lines, r + 1) = among(r)
    <3>1. (r + 1) - 1 = r /\ (r + 1 > N => r = N)
        BY <1>1, <1>7
    <3> QED BY <1>3, <3>1
  <2> QED BY <1>1, <1>7, <2>1, <2>2
<1> QED BY <1>2, <1>3, <1>5, <1>6, <1>7

-----------------------------------------------------------------------------
(* The reports on a file, order by order.                                   *)

\* g puts together, one after the other, the sequences of all.
PutTogether(g, all, n, S) ==
    /\ g \in [0 .. n -> S]
    /\ g[0] = << >>
    /\ \A k \in 1 .. n : g[k] = g[k - 1] \o all[k]

\* FlattenSeq of the first n sequences is what g has put together by then.
FlattensTo(g, all, N) ==
    \A n \in 0 .. N : Promise!FlattenSeq([s \in 1 .. n |-> all[s]]) = g[n]

LEMMA FlattenIs ==
    ASSUME NEW R, NEW N \in Nat, NEW all \in [1 .. N -> Seq(R)],
           NEW g, PutTogether(g, all, N, Seq(R))
    PROVE  FlattensTo(g, all, N)
<1> SUFFICES ASSUME NEW n \in 0 .. N
             PROVE  Promise!FlattenSeq([s \in 1 .. n |-> all[s]]) = g[n]
    BY DEF FlattensTo
<1> DEFINE seqs == [s \in 1 .. n |-> all[s]]
           body(f) == [i \in 1 .. Len(seqs) |->
                        IF i = 1 THEN seqs[i] ELSE f[i - 1] \o seqs[i]]
           flatten == CHOOSE f : f = body(f)
           start == [i \in 1 .. n |-> g[i]]
<1>1. seqs \in Seq(Seq(R)) /\ Len(seqs) = n /\ \A i \in 1 .. n : seqs[i] = all[i]
  <2>1. \A i \in 1 .. n : all[i] \in Seq(R)
      OBVIOUS
  <2>2. seqs \in Seq(Seq(R))
      BY <2>1, IsASeq
  <2>3. Len(seqs) \in Nat /\ DOMAIN seqs = 1 .. Len(seqs) /\ DOMAIN seqs = 1 .. n
      BY <2>2, LenProperties
  <2>4. Len(seqs) = n
      BY <2>3
  <2> QED BY <2>2, <2>4
<1> HIDE DEF seqs
<1>2. CASE n = 0
  <2>1. seqs = << >>
      BY <1>1, <1>2, EmptySeq
  <2>2. Promise!FlattenSeq(seqs) = seqs
      BY <1>1, <1>2 DEF Promise!FlattenSeq
  <2>3. Promise!FlattenSeq(seqs) = g[n]
      BY <1>2, <2>1, <2>2 DEF PutTogether
  <2> QED BY <2>3 DEF seqs
<1>3. CASE n # 0
  <2>1. n \in 1 .. N /\ n \in Nat /\ 1 \in 1 .. n /\ n \in 1 .. n
      BY <1>3
  <2>2. \A i \in 0 .. N : g[i] \in Seq(R)
      BY DEF PutTogether
  <2>3. ASSUME NEW i \in 1 .. n
        PROVE  g[i] = IF i = 1 THEN seqs[i] ELSE g[i - 1] \o seqs[i]
    <3>0. i \in 1 .. N
        BY <2>1
    <3>1. g[i] = g[i - 1] \o all[i] /\ seqs[i] = all[i] /\ all[i] \in Seq(R)
      <4>1. g[i] = g[i - 1] \o all[i]
          BY <3>0 DEF PutTogether
      <4> QED BY <1>1, <3>0, <4>1
    <3>2. CASE i = 1
      <4>1. g[i - 1] = << >>
          BY <3>2 DEF PutTogether
      <4> QED BY <3>1, <3>2, <4>1, ConcatEmptySeq
    <3>3. CASE i # 1
        BY <3>1, <3>3
    <3> QED BY <3>2, <3>3
  <2>4. start = body(start)
    <3>1. \A i \in 1 .. n : i # 1 => i - 1 \in 1 .. n
        BY <2>1
    <3>2. \A i \in 1 .. n : g[i] = IF i = 1 THEN seqs[i] ELSE start[i - 1] \o seqs[i]
        BY <2>3, <3>1
    <3> QED BY <1>1, <3>2
  <2>5. flatten = body(flatten)
      BY <2>4
  <2>6. Promise!FlattenSeq(seqs) = flatten[n]
      BY <1>1, <1>3 DEF Promise!FlattenSeq
  <2> HIDE DEF flatten, start
  <2>7. \A i \in 1 .. n : flatten[i] = IF i = 1 THEN seqs[i] ELSE flatten[i - 1] \o seqs[i]
      BY <1>1, <2>5
  <2>8. \A i \in 1 .. n : flatten[i] = g[i]
    <3> DEFINE T == {i \in 1 .. n : flatten[i] # g[i]}
    <3> SUFFICES ASSUME T # {} PROVE FALSE
        OBVIOUS
    <3>1. T \in SUBSET Nat
        BY <2>1
    <3> HIDE DEF T
    <3>2. PICK m \in T : \A i \in T : m <= i
        BY <3>1, Least
    <3>3. m \in 1 .. n /\ m \in Nat /\ flatten[m] # g[m]
        BY <3>2 DEF T
    <3>4. CASE m = 1
        BY <2>3, <2>7, <3>3, <3>4
    <3>5. CASE m # 1
      <4>1. m - 1 \in 1 .. n /\ ~ (m <= m - 1)
          BY <3>3, <3>5
      <4>2. flatten[m - 1] = g[m - 1]
          BY <3>2, <4>1 DEF T
      <4> QED BY <2>3, <2>7, <3>3, <3>5, <4>2
    <3> QED BY <3>4, <3>5
  <2>9. Promise!FlattenSeq(seqs) = g[n]
      BY <2>1, <2>6, <2>8
  <2> QED BY <2>9 DEF seqs
<1> QED BY <1>2, <1>3

\* The reports on order s.
AnswersTo(s, lines) == [k \in 1 .. Promise!OrderLines(lines)[s] |-> <<s, k>>]

LEMMA AnswersAreReports ==
    ASSUME NEW lines \in Seq(Int), NEW s \in 1 .. Len(Promise!OrderLines(lines))
    PROVE  AnswersTo(s, lines) \in Seq(Report)
<1>1. Promise!OrderLines(lines) \in Seq(Counts)
    BY AmongLines, LenProperties DEF Promise!OrderLines
<1>2. Promise!OrderLines(lines)[s] \in Counts
    BY <1>1, ElementOfSeq
<1>3. s \in Nat
    BY <1>1, LenProperties
<1> DEFINE n == Promise!OrderLines(lines)[s]
<1> HIDE DEF n
<1>4. n \in Nat
    BY <1>2 DEF n, Counts
<1>5. \A k \in 1 .. n : <<s, k>> \in Report
    BY <1>3, <1>4 DEF Report
<1>6. [k \in 1 .. n |-> <<s, k>>] \in Seq(Report)
    BY <1>4, <1>5, IsASeq
<1> QED BY <1>6 DEF AnswersTo, n

\* The reports on the first orders grow by those on the next one.
LEMMA ReportsFacts ==
    ASSUME NEW lines \in Seq(Int)
    PROVE  /\ Promise!ReportsOnFirst(0, lines) = << >>
           /\ \A n \in 0 .. Len(Promise!OrderLines(lines)) :
                Promise!ReportsOnFirst(n, lines) \in Seq(Report)
           /\ \A n \in 1 .. Len(Promise!OrderLines(lines)) :
                Promise!ReportsOnFirst(n, lines) =
                    Promise!ReportsOnFirst(n - 1, lines) \o AnswersTo(n, lines)
<1> DEFINE N == Len(Promise!OrderLines(lines))
           all == [s \in 1 .. N |-> AnswersTo(s, lines)]
           R == Seq(Report)
           step == [p \in R \X (1 .. N) |-> p[1] \o all[p[2]]]
<1>1. N \in Nat
    BY AmongLines, LenProperties DEF Promise!OrderLines
<1>2. all \in [1 .. N -> R] /\ \A s \in 1 .. N : all[s] = AnswersTo(s, lines)
    BY AnswersAreReports
<1>3. \A n \in 0 .. N :
        Promise!ReportsOnFirst(n, lines) = Promise!FlattenSeq([s \in 1 .. n |-> all[s]])
  <2>1. ASSUME NEW n \in 0 .. N
        PROVE  [s \in 1 .. n |-> all[s]] =
                [s \in 1 .. n |-> [k \in 1 .. Promise!OrderLines(lines)[s] |-> <<s, k>>]]
    <3>1. \A s \in 1 .. n : s \in 1 .. N
        BY <1>1
    <3>2. \A s \in 1 .. n :
            all[s] = [k \in 1 .. Promise!OrderLines(lines)[s] |-> <<s, k>>]
        BY <1>2, <3>1 DEF AnswersTo
    <3> HIDE DEF all, N
    <3> QED BY <3>2
  <2> QED BY <2>1 DEF Promise!ReportsOnFirst
<1> HIDE DEF all, N
<1>4. \A s \in R, k \in 1 .. N : s \o all[k] \in R
  <2>1. ASSUME NEW s \in R, NEW k \in 1 .. N PROVE s \o all[k] \in R
    <3>1. all[k] \in Seq(Report)
        BY <1>2
    <3> QED BY <3>1, ConcatProperties
  <2> QED BY <2>1
<1>5. << >> \in R
    BY EmptySeq
<1> HIDE DEF R
<1>6. step \in [R \X (1 .. N) -> R]
    BY <1>4
<1>7. PICK g : Steps(g, N, R, << >>, step)
  <2> HIDE DEF step
  <2> QED BY <1>1, <1>5, <1>6, Recursion
<1>8. PutTogether(g, all, N, R)
  <2>1. ASSUME NEW k \in 1 .. N PROVE g[k] = g[k - 1] \o all[k]
    <3>1. k - 1 \in 0 .. N
        BY <1>1
    <3>2. g[k - 1] \in R /\ g[k] = step[<<g[k - 1], k>>]
        BY <1>7, <3>1 DEF Steps
    <3> QED BY <3>2
  <2> QED BY <1>7, <2>1 DEF Steps, PutTogether
<1>9. \A n \in 0 .. N : Promise!FlattenSeq([s \in 1 .. n |-> all[s]]) = g[n]
  <2>1. all \in [1 .. N -> Seq(Report)] /\ PutTogether(g, all, N, Seq(Report))
      BY <1>2, <1>8 DEF R
  <2>2. FlattensTo(g, all, N)
      BY ONLY <1>1, <2>1, FlattenIs
  <2> QED BY <2>2 DEF FlattensTo
<1>10. \A n \in 0 .. N : Promise!ReportsOnFirst(n, lines) = g[n]
    BY <1>3, <1>9
<1>11. \A n \in 0 .. N : g[n] \in R
    BY <1>8 DEF PutTogether
<1>12. \A n \in 1 .. N : n \in 0 .. N /\ n - 1 \in 0 .. N /\ g[n] = g[n - 1] \o all[n]
    BY <1>1, <1>8 DEF PutTogether
<1>13. 0 \in 0 .. N /\ g[0] = << >>
    BY <1>1, <1>8 DEF PutTogether
<1> QED BY <1>2, <1>10, <1>11, <1>12, <1>13 DEF N, R

\* What has been reported stays at the front of what is reported later.
LEMMA ReportsBegin ==
    ASSUME NEW lines \in Seq(Int), NEW m \in 0 .. Len(Promise!OrderLines(lines))
    PROVE  \E u \in Seq(Report) :
                Promise!ReportsOnFirst(Len(Promise!OrderLines(lines)), lines)
                    = Promise!ReportsOnFirst(m, lines) \o u
<1> DEFINE N == Len(Promise!OrderLines(lines))
           on(n) == Promise!ReportsOnFirst(n, lines)
           T == {n \in m .. N : ~ \E u \in Seq(Report) : on(n) = on(m) \o u}
<1>1. N \in Nat
    BY AmongLines, LenProperties DEF Promise!OrderLines
<1>2. /\ \A n \in 0 .. N : on(n) \in Seq(Report)
      /\ \A n \in 1 .. N : on(n) = on(n - 1) \o AnswersTo(n, lines)
    BY ReportsFacts
<1>3. \A n \in 1 .. N : AnswersTo(n, lines) \in Seq(Report)
    BY AnswersAreReports
<1>4. m \in 0 .. N
    OBVIOUS
<1> HIDE DEF N, on
<1>5. T = {}
  <2> SUFFICES ASSUME T # {} PROVE FALSE
      OBVIOUS
  <2>1. T \in SUBSET Nat
      BY <1>1, <1>4
  <2> HIDE DEF T
  <2>2. PICK n \in T : \A k \in T : n <= k
      BY <2>1, Least
  <2>3. n \in m .. N /\ n \in Nat /\ ~ \E u \in Seq(Report) : on(n) = on(m) \o u
    <3>1. n \in m .. N /\ ~ \E u \in Seq(Report) : on(n) = on(m) \o u
        BY <2>2 DEF T
    <3>2. n \in T /\ T \in SUBSET Nat
        BY <2>1, <2>2
    <3>3. n \in Nat
        BY ONLY <3>2
    <3> QED BY ONLY <3>1, <3>3, Zenon
  <2>4. CASE n = m
    <3>1. on(n) = on(m) \o << >> /\ << >> \in Seq(Report)
        BY <1>2, <1>4, <2>4, ConcatEmptySeq, EmptySeq
    <3> QED BY <2>3, <3>1
  <2>5. CASE n # m
    <3>1. n - 1 \in m .. N /\ ~ (n <= n - 1) /\ n \in 1 .. N
        BY <1>1, <1>4, <2>3, <2>5
    <3>2. PICK u \in Seq(Report) : on(n - 1) = on(m) \o u
        BY <2>2, <3>1 DEF T
    <3>3. on(m) \in Seq(Report) /\ AnswersTo(n, lines) \in Seq(Report)
        BY <1>2, <1>3, <1>4, <3>1
    <3>4. on(n) = on(m) \o (u \o AnswersTo(n, lines))
      <4>1. on(n) = (on(m) \o u) \o AnswersTo(n, lines)
          BY <1>2, <3>1, <3>2
      <4>2. (on(m) \o u) \o AnswersTo(n, lines) = on(m) \o (u \o AnswersTo(n, lines))
          BY ONLY <3>3, u \in Seq(Report), ConcatAssociative
      <4> QED BY ONLY <4>1, <4>2
    <3>5. u \o AnswersTo(n, lines) \in Seq(Report)
        BY <3>3, ConcatProperties
    <3> QED BY <2>3, <3>4, <3>5
  <2> QED BY <2>4, <2>5
<1>6. N \in m .. N
    BY <1>1, <1>4
<1> QED BY <1>5, <1>6 DEF N, on

-----------------------------------------------------------------------------
(* Rows on their way.                                                       *)

\* From the output file back to the matcher: the file, the batch, the queue
\* and what is still to be pushed.
OnTheWay(written, batch, queue, rest) == written \o batch \o queue \o rest

\* A row that is handed on at its place leaves the whole as it is.
LEMMA HandedOn ==
    ASSUME NEW S, NEW s \in Seq(S), NEW t \in Seq(S), t # << >>
    PROVE  /\ Append(s, Head(t)) \in Seq(S) /\ Tail(t) \in Seq(S)
           /\ Append(s, Head(t)) \o Tail(t) = s \o t
<1> DEFINE a == Append(s, Head(t))
           u == Tail(t)
<1>1. /\ Len(t) \in Nat \ {0} /\ Head(t) \in S /\ Head(t) = t[1] /\ u \in Seq(S)
      /\ Len(u) = Len(t) - 1 /\ \A k \in 1 .. Len(t) - 1 : u[k] = t[k + 1]
    BY AfterPop
<1>2. /\ a \in Seq(S) /\ Len(a) = Len(s) + 1 /\ a[Len(s) + 1] = t[1]
      /\ \A k \in 1 .. Len(s) : a[k] = s[k]
    BY <1>1, AfterPush
<1>3. Len(s) \in Nat
    BY LenProperties
<1> HIDE DEF a, u
<1>4. /\ a \o u \in Seq(S) /\ Len(a \o u) = Len(a) + Len(u)
      /\ \A k \in 1 .. Len(a) + Len(u) :
            (a \o u)[k] = IF k <= Len(a) THEN a[k] ELSE u[k - Len(a)]
    BY <1>1, <1>2, ConcatProperties
<1>5. /\ s \o t \in Seq(S) /\ Len(s \o t) = Len(s) + Len(t)
      /\ \A k \in 1 .. Len(s) + Len(t) :
            (s \o t)[k] = IF k <= Len(s) THEN s[k] ELSE t[k - Len(s)]
    BY ConcatProperties
<1>6. ASSUME NEW k \in 1 .. Len(s) + Len(t) PROVE (a \o u)[k] = (s \o t)[k]
  <2>1. k \in 1 .. Len(a) + Len(u)
      BY <1>1, <1>2, <1>3
  <2>2. CASE k <= Len(s)
    <3>1. k \in 1 .. Len(s) /\ k <= Len(a)
        BY <1>2, <1>3, <2>2
    <3> QED BY <1>2, <1>4, <1>5, <2>1, <2>2, <3>1
  <2>3. CASE k = Len(s) + 1
    <3>1. k <= Len(a) /\ ~ (k <= Len(s)) /\ k - Len(s) = 1
        BY <1>2, <1>3, <2>3
    <3> QED BY <1>2, <1>4, <1>5, <2>1, <2>3, <3>1
  <2>4. CASE k > Len(s) + 1
    <3>1. ~ (k <= Len(a)) /\ ~ (k <= Len(s))
        BY <1>2, <1>3, <2>4
    <3>2. /\ k - Len(a) \in 1 .. Len(t) - 1
          /\ (k - Len(a)) + 1 = k - Len(s)
        BY <1>1, <1>2, <1>3, <2>4
    <3>3. u[k - Len(a)] = t[k - Len(s)]
        BY <1>1, <3>2
    <3> QED BY <1>4, <1>5, <2>1, <3>1, <3>3
  <2>5. k <= Len(s) \/ k = Len(s) + 1 \/ k > Len(s) + 1
      BY <1>3
  <2> QED BY ONLY <2>2, <2>3, <2>4, <2>5, Zenon
<1>7. Len(a \o u) = Len(s) + Len(t) /\ Len(s \o t) = Len(s) + Len(t)
    BY <1>1, <1>2, <1>3, <1>4, <1>5
<1>8. a \o u = s \o t
    BY <1>4, <1>5, <1>6, <1>7, SeqEqual
<1> QED BY <1>1, <1>2, <1>8 DEF a, u

\* Sequences put together one after the other may be grouped either way.
Regroups(s, t, u) == (s \o t) \o u = s \o (t \o u)

LEMMA Regrouped ==
    ASSUME NEW S, NEW s \in Seq(S), NEW t \in Seq(S), NEW u \in Seq(S)
    PROVE  Regroups(s, t, u)
BY ConcatAssociative DEF Regroups

\* The writer appends the head of the queue to its batch.
LEMMA RowAppended ==
    ASSUME NEW S, NEW o \in Seq(S), NEW w \in Seq(S), NEW q \in Seq(S),
           NEW p \in Seq(S), q # << >>
    PROVE  OnTheWay(o, Append(w, Head(q)), Tail(q), p) = OnTheWay(o, w, q, p)
<1> DEFINE a == Append(w, Head(q))
           u == Tail(q)
<1>1. a \in Seq(S) /\ u \in Seq(S) /\ a \o u = w \o q
    BY HandedOn
<1> HIDE DEF a, u
<1>2. a \in Seq(S) /\ u \in Seq(S)
    BY <1>1
<1>3. Regroups(o, a, u) /\ Regroups(o, w, q)
    BY <1>2, Regrouped
<1>4. (o \o a) \o u = o \o (a \o u) /\ (o \o w) \o q = o \o (w \o q)
    BY <1>3 DEF Regroups
<1>5. (o \o a) \o u = (o \o w) \o q
    BY ONLY <1>1, <1>4
<1> QED BY <1>5 DEF OnTheWay, a, u

\* The batch is written.
Flushes(o, w, q, p, S) ==
    o \o w \in Seq(S) /\ OnTheWay(o \o w, << >>, q, p) = OnTheWay(o, w, q, p)

LEMMA BatchWritten ==
    ASSUME NEW S, NEW o \in Seq(S), NEW w \in Seq(S), NEW q \in Seq(S),
           NEW p \in Seq(S)
    PROVE  Flushes(o, w, q, p, S)
<1>1. o \o w \in Seq(S)
    BY ConcatProperties
<1>2. (o \o w) \o << >> = o \o w
    BY <1>1, ConcatEmptySeq
<1> QED BY <1>1, <1>2 DEF OnTheWay, Flushes

\* The matcher pushes the head of what is still to be pushed.
LEMMA RowPushed ==
    ASSUME NEW S, NEW o \in Seq(S), NEW w \in Seq(S), NEW q \in Seq(S),
           NEW p \in Seq(S), p # << >>
    PROVE  OnTheWay(o, w, Append(q, Head(p)), Tail(p)) = OnTheWay(o, w, q, p)
<1> DEFINE a == Append(q, Head(p))
           u == Tail(p)
           h == o \o w
<1>1. a \in Seq(S) /\ u \in Seq(S) /\ a \o u = q \o p
    BY HandedOn
<1>2. h \in Seq(S)
    BY ConcatProperties
<1> HIDE DEF a, u, h
<1>3. a \in Seq(S) /\ u \in Seq(S)
    BY <1>1
<1>4. Regroups(h, a, u) /\ Regroups(h, q, p)
    BY <1>2, <1>3, Regrouped
<1>5. (h \o a) \o u = h \o (a \o u) /\ (h \o q) \o p = h \o (q \o p)
    BY <1>4 DEF Regroups
<1>6. (h \o a) \o u = (h \o q) \o p
    BY ONLY <1>1, <1>5
<1> QED BY <1>6 DEF OnTheWay, a, u, h

\* The answers to the next order are behind all others.
Answers(o, w, q, a, h, r) ==
    OnTheWay(o, w, q, << >>) = h \o r => OnTheWay(o, w, q, a) = h \o (r \o a)

LEMMA RowsAnswered ==
    ASSUME NEW S, NEW o \in Seq(S), NEW w \in Seq(S), NEW q \in Seq(S),
           NEW a \in Seq(S), NEW h \in Seq(S), NEW r \in Seq(S)
    PROVE  Answers(o, w, q, a, h, r)
<1> SUFFICES ASSUME OnTheWay(o, w, q, << >>) = h \o r
             PROVE  OnTheWay(o, w, q, a) = h \o (r \o a)
    BY DEF Answers
<1> DEFINE x == (o \o w) \o q
<1>1. x \in Seq(S)
  <2>1. o \o w \in Seq(S)
      BY ConcatProperties
  <2> QED BY <2>1, ConcatProperties
<1>2. x \o << >> = x
    BY <1>1, ConcatEmptySeq
<1>3. x = h \o r
    BY <1>2 DEF OnTheWay
<1>4. (h \o r) \o a = h \o (r \o a)
  <2>1. Regroups(h, r, a)
      BY Regrouped
  <2> QED BY <2>1 DEF Regroups
<1> QED BY <1>3, <1>4 DEF OnTheWay

\* What has been written is at the front of all.
StartsWith(t, s, S) == \E u \in Seq(S) : t = s \o u

LEMMA WrittenFirst ==
    ASSUME NEW S, NEW o \in Seq(S), NEW w \in Seq(S), NEW q \in Seq(S),
           NEW p \in Seq(S)
    PROVE  StartsWith(OnTheWay(o, w, q, p), o, S)
<1>1. w \o q \in Seq(S) /\ o \o w \in Seq(S)
    BY ConcatProperties
<1>2. (w \o q) \o p \in Seq(S)
    BY <1>1, ConcatProperties
<1>3. (o \o w) \o q = o \o (w \o q)
    BY ConcatAssociative
<1>4. (o \o (w \o q)) \o p = o \o ((w \o q) \o p)
  <2>1. Regroups(o, w \o q, p)
      BY <1>1, Regrouped
  <2> QED BY <2>1 DEF Regroups
<1>5. OnTheWay(o, w, q, p) = o \o ((w \o q) \o p)
    BY <1>3, <1>4 DEF OnTheWay
<1> QED BY ONLY <1>2, <1>5 DEF StartsWith

\* A sequence is a prefix of what it is extended to.
LEMMA Extended ==
    ASSUME NEW S, NEW s \in Seq(S), NEW t \in Seq(S)
    PROVE  Promise!IsPrefix(s, s \o t)
<1> DEFINE st == s \o t
           head == SubSeq(st, 1, Len(s))
<1>1. /\ st \in Seq(S) /\ Len(st) = Len(s) + Len(t)
      /\ \A k \in 1 .. Len(s) + Len(t) : st[k] = IF k <= Len(s) THEN s[k] ELSE t[k - Len(s)]
    BY ConcatProperties
<1>2. Len(s) \in Nat /\ Len(t) \in Nat
    BY LenProperties
<1>3. \A k \in 1 .. Len(s) : k \in 1 .. Len(s) + Len(t) /\ st[k] = s[k]
    BY <1>1, <1>2
<1> HIDE DEF st
<1>4. \A k \in 1 .. Len(s) : st[k] \in S /\ (1 + k) - 1 = k
    BY <1>2, <1>3, ElementOfSeq
<1>5. /\ head \in Seq(S) /\ Len(head) = Len(s)
      /\ \A k \in 1 .. Len(s) : head[k] = s[k]
  <2>1. \A k \in 1 .. Len(s) : st[k] \in S
      BY <1>4
  <2>2. 1 \in Int /\ Len(s) \in Int
      BY <1>2
  <2>3. /\ head \in Seq(S)
        /\ Len(head) = IF 1 <= Len(s) THEN Len(s) - 1 + 1 ELSE 0
        /\ \A k \in 1 .. Len(s) - 1 + 1 : head[k] = st[1 + k - 1]
      BY ONLY <2>1, <2>2, SubSeqProperties
  <2> HIDE DEF head
  <2>4. Len(head) = Len(s)
      BY <1>2, <2>3
  <2>5. \A k \in 1 .. Len(s) : head[k] = s[k]
    <3>1. ASSUME NEW k \in 1 .. Len(s) PROVE head[k] = s[k]
      <4>1. k \in 1 .. Len(s) - 1 + 1 /\ 1 + k - 1 = k
          BY <1>2
      <4>2. head[k] = st[1 + k - 1]
          BY <2>3, <4>1
      <4> QED BY <1>3, <4>1, <4>2
    <3> QED BY <3>1
  <2> QED BY <2>3, <2>4, <2>5
<1> HIDE DEF head
<1>6. head = s
    BY <1>5, SeqEqual
<1>7. SubSeq(s, 1, Len(s)) = s
    BY SubSeqFull
<1> QED BY <1>1, <1>2, <1>6, <1>7 DEF Promise!IsPrefix, IsPrefix, head, st

-----------------------------------------------------------------------------
(* What has been read, what waits and what has been answered.               *)

\* The orders put into the inbound queue so far.
Pushed == IF producer = "push" THEN sequence - 1 ELSE sequence

\* They are the orders before the producer's line.
Reading ==
    main # "idle" =>
        /\ Pushed = Len(OrdersBefore(file, row))
        /\ producer \in {"none", "pin"} => row = 1
        /\ producer \in {"read", "push"} => row >= 2
        /\ producer = "unopened_end" \/ StreamClosed => row > Len(file)
        /\ \A k \in 2 .. Len(file) : k < row => file[k] # Unparsable

\* Those after the last one consumed wait in the queue, in file order.
Queued ==
    main # "idle" =>
        /\ consumed <= Pushed
        /\ StreamClosed /\ ~ got_end_of_stream =>
                Len(inbound_queue_) = Pushed - consumed + 1
        /\ ~ (StreamClosed /\ ~ got_end_of_stream) =>
                Len(inbound_queue_) = Pushed - consumed
        /\ \A k \in 1 .. Pushed - consumed :
                inbound_queue_[k] = OrderMsg(consumed + k, Orders[consumed + k])

\* The counters of PipelineState.
Tallied ==
    main # "idle" =>
        /\ producer \in {"none", "pin", "unopened_end", "unopened_done"} => sequence = 0
        /\ producer \in {"done", "returned"} => produced_orders = sequence
        /\ producer \notin {"done", "returned"} => produced_orders = 0
        /\ matcher \in {"done", "returned"} => consumed_orders = consumed

\* The rows of the reports on the orders consumed are all on their way.
Rows ==
    /\ output_file_ \in Seq(Report) /\ write_batch \in Seq(Report)
    /\ matcher # "none" =>
            OnTheWay(output_file_, write_batch, outbound_queue_, pending)
                = <<Promise!Header>> \o Promise!ReportsOnFirst(consumed, file)
    /\ main # "idle" /\ matcher = "none" =>
            /\ output_file_ = << >> /\ write_batch = << >>
            /\ outbound_queue_ = << >> /\ pending = << >> /\ consumed = 0

FlowInv == PipelineInv /\ Reading /\ Queued /\ Tallied /\ Rows

\* How far each thread has come with the orders of the file.
LEMMA Progress ==
    ASSUME PipelineInv, Reading, Queued, main # "idle"
    PROVE  /\ Orders \in Seq(Counts) /\ Len(Orders) \in Nat
           /\ Pushed \in Nat /\ consumed \in Nat
           /\ consumed <= Pushed /\ Pushed <= Len(Orders)
           /\ row > Len(file) => Pushed = Len(Orders)
           /\ got_end_of_stream => StreamClosed /\ consumed = Len(Orders)
<1>1. file \in Seq(Int) /\ row \in Nat \ {0} /\ consumed \in Nat
    BY DEF PipelineInv, Types, Counters
<1>2. /\ OrdersBefore(file, row) \in Seq(Counts) /\ Begins(OrdersBefore(file, row), Orders)
      /\ row > Len(file) => OrdersBefore(file, row) = Orders
    BY <1>1, BeforeFacts DEF Orders
<1>3. Orders \in Seq(Counts)
    BY <1>1, AmongLines, LenProperties DEF Orders, Promise!OrderLines
<1>4. Pushed = Len(OrdersBefore(file, row)) /\ consumed <= Pushed
    BY DEF Reading, Queued
<1>5. Pushed \in Nat /\ Len(Orders) \in Nat /\ Pushed <= Len(Orders)
    BY <1>2, <1>3, <1>4, LenProperties DEF Begins
<1>6. row > Len(file) => Pushed = Len(Orders)
    BY <1>2, <1>4
<1>7. ASSUME got_end_of_stream PROVE StreamClosed /\ consumed = Len(Orders)
  <2>1. StreamClosed /\ inbound_queue_ = << >>
      BY <1>7 DEF PipelineInv, EndIsLast
  <2>2. Len(inbound_queue_) = 0
      BY <2>1, EmptySeq
  <2>3. Len(inbound_queue_) = Pushed - consumed /\ row > Len(file)
      BY <1>7, <2>1 DEF Queued, Reading
  <2> QED BY <1>1, <1>5, <1>6, <2>1, <2>2, <2>3
<1> QED BY <1>1, <1>3, <1>4, <1>5, <1>6, <1>7

\* Nothing of this changes while its variables stay.
LEMMA FlowKept ==
    ASSUME main' # "idle" => main # "idle"
    PROVE  /\ Reading /\ UNCHANGED <<producer, file, row, sequence>> => Reading'
           /\ Queued /\ UNCHANGED <<producer, file, sequence, consumed,
                                    got_end_of_stream, inbound_queue_>> => Queued'
           /\ Tallied /\ UNCHANGED <<producer, matcher, sequence, consumed,
                                     produced_orders, consumed_orders>> => Tallied'
<1>1. ASSUME Reading, UNCHANGED <<producer, file, row, sequence>> PROVE Reading'
    BY <1>1 DEF Reading, Pushed, StreamClosed
<1>2. ASSUME Queued, UNCHANGED <<producer, file, sequence, consumed,
                                 got_end_of_stream, inbound_queue_>>
      PROVE  Queued'
    BY <1>2 DEF Queued, Pushed, StreamClosed, Orders
<1>3. ASSUME Tallied, UNCHANGED <<producer, matcher, sequence, consumed,
                                  produced_orders, consumed_orders>>
      PROVE  Tallied'
    BY <1>3 DEF Tallied
<1> QED BY <1>1, <1>2, <1>3

LEMMA RowsKept ==
    ASSUME main' # "idle" => main # "idle", Rows,
           UNCHANGED <<matcher, output_file_, write_batch, outbound_queue_, pending,
                       consumed, file>>
    PROVE  Rows'
BY DEF Rows

-----------------------------------------------------------------------------

LEMMA InitFlow == Init => FlowInv
<1> SUFFICES ASSUME Init PROVE FlowInv
    OBVIOUS
<1>1. Reading /\ Queued /\ Tallied
    BY DEF Init, Reading, Queued, Tallied
<1>2. Rows
    BY EmptySeq DEF Init, Rows
<1> QED BY <1>1, <1>2, InitPipelineInv DEF FlowInv

\* A call begins with nothing read and nothing on its way.
LEMMA StartFlow ==
    ASSUME FlowInv, StartFile \/ PrepareFails
    PROVE  Reading' /\ Queued' /\ Tallied' /\ Rows'
<1>1. CASE StartFile
  <2>1. /\ main' = "spawn_producer" /\ producer' = "none" /\ matcher' = "none"
        /\ file' \in Seq(Int) /\ row' = 1 /\ sequence' = 0 /\ consumed' = 0
        /\ inbound_queue_' = << >> /\ outbound_queue_' = << >> /\ pending' = << >>
        /\ write_batch' = << >> /\ output_file_' = << >>
        /\ produced_orders' = 0 /\ got_end_of_stream' = FALSE
      BY <1>1, PipelineAssumption DEF StartFile
  <2>2. PICK lines \in Seq(Int) : lines = file'
      BY <2>1
  <2>3. OrdersBefore(lines, 1) = << >> /\ Len(<< >>) = 0 /\ Len(lines) \in Nat
      BY BeforeFacts, EmptySeq, LenProperties
  <2>4. Reading'
    <3>1. Len(OrdersBefore(file', row')) = 0
        BY <2>1, <2>2, <2>3
    <3>2. \A k \in 2 .. Len(file') : ~ (k < row')
        BY <2>1, <2>2, <2>3
    <3> QED BY <2>1, <3>1, <3>2 DEF Reading, Pushed, StreamClosed
  <2>5. Queued'
    <3>1. 1 .. 0 - 0 = {}
        OBVIOUS
    <3> QED BY <2>1, <2>3, <3>1 DEF Queued, Pushed, StreamClosed
  <2>6. Tallied'
      BY <2>1 DEF Tallied
  <2>7. Rows'
      BY <2>1, EmptySeq DEF Rows
  <2> QED BY <2>4, <2>5, <2>6, <2>7
<1>2. CASE PrepareFails
  <2>1. /\ main = "idle" /\ main' = main /\ inbound_queue_' = << >>
        /\ outbound_queue_' = << >>
        /\ UNCHANGED <<matcher, consumed, pending, file, write_batch, output_file_>>
      BY <1>2 DEF PrepareFails, state, input, locals
  <2>2. outbound_queue_ = << >>
      BY <2>1 DEF FlowInv, PipelineInv, Handshake
  <2>3. Reading' /\ Queued' /\ Tallied'
      BY <2>1 DEF Reading, Queued, Tallied
  <2>4. Rows'
      BY <2>1, <2>2, RowsKept DEF FlowInv
  <2> QED BY <2>3, <2>4
<1> QED BY <1>1, <1>2

\* The caller hands rows on.
LEMMA MainFlow ==
    ASSUME FlowInv, Main
    PROVE  Reading' /\ Queued' /\ Tallied' /\ Rows'
<1> USE DEF state, input, locals, output
<1>0. /\ PipelineInv /\ Reading /\ Queued /\ Tallied /\ Rows
      /\ outbound_queue_ \in Seq(Report) /\ pending \in Seq(Report)
      /\ output_file_ \in Seq(Report) /\ write_batch \in Seq(Report)
    BY DEF FlowInv, Rows, PipelineInv, Types, Outbound, Pending
<1>1. CASE SpawnProducer
  <2>1. /\ main # "idle" /\ main' # "idle" /\ producer = "none" /\ producer' = "pin"
        /\ UNCHANGED <<matcher, inbound_queue_, outbound_queue_, produced_orders,
                       consumed_orders, file, row, sequence, got_end_of_stream,
                       consumed, pending, write_batch, output_file_>>
      BY <1>0, <1>1 DEF SpawnProducer, PipelineInv, Handshake
  <2>2. Reading'
      BY <1>0, <2>1 DEF Reading, Pushed, StreamClosed
  <2>3. Queued'
      BY <1>0, <2>1 DEF Queued, Pushed, StreamClosed, Orders
  <2>4. Tallied'
      BY <1>0, <2>1 DEF Tallied
  <2> QED BY <1>0, <2>1, <2>2, <2>3, <2>4, RowsKept
<1>2. CASE SpawnMatcher
  <2>1. /\ main # "idle" /\ main' # "idle" /\ matcher = "none" /\ matcher' = "pin"
        /\ write_batch' = <<Promise!Header>>
        /\ UNCHANGED <<producer, inbound_queue_, outbound_queue_, produced_orders,
                       consumed_orders, file, row, sequence, got_end_of_stream,
                       consumed, pending, output_file_>>
      BY <1>0, <1>2 DEF SpawnMatcher, PipelineInv, Handshake
  <2>2. Reading' /\ Queued'
      BY <1>0, <2>1, FlowKept
  <2>3. Tallied'
      BY <1>0, <2>1 DEF Tallied
  <2>4. /\ output_file_ = << >> /\ outbound_queue_ = << >> /\ pending = << >>
        /\ consumed = 0
      BY <1>0, <2>1 DEF Rows
  <2>5. <<Promise!Header>> \in Seq(Report)
      BY DEF Promise!Header, Report
  <2>6. Promise!ReportsOnFirst(0, file) = << >>
      BY <1>0, ReportsFacts DEF PipelineInv, Types, Counters
  <2>7. OnTheWay(<< >>, <<Promise!Header>>, << >>, << >>) = <<Promise!Header>> \o << >>
    <3> DEFINE h == <<Promise!Header>>
    <3>1. h \in Seq(Report)
        BY <2>5
    <3> HIDE DEF h
    <3>2. << >> \o h = h /\ h \o << >> = h
        BY <3>1, ConcatEmptySeq
    <3>3. OnTheWay(<< >>, h, << >>, << >>) = h \o << >>
        BY <3>2 DEF OnTheWay
    <3> QED BY <3>3 DEF h
  <2>8. Rows'
      BY <1>0, <2>1, <2>4, <2>5, <2>6, <2>7 DEF Rows
  <2> QED BY <2>2, <2>3, <2>8
<1>3. CASE DrainLoop \/ JoinProducer \/ JoinMatcher
  <2>1. /\ main' # "idle" => main # "idle"
        /\ UNCHANGED <<producer, matcher, inbound_queue_, outbound_queue_,
                       produced_orders, consumed_orders, file, row, sequence,
                       got_end_of_stream, consumed, pending, write_batch, output_file_>>
      BY <1>3 DEF DrainLoop, DrainCondition, JoinProducer, JoinMatcher
  <2> QED BY <1>0, <2>1, FlowKept, RowsKept
<1>4. CASE DrainPop
  <2>1. /\ main # "idle" /\ main' # "idle"
        /\ UNCHANGED <<producer, matcher, inbound_queue_, produced_orders,
                       consumed_orders, file, row, sequence, got_end_of_stream,
                       consumed, pending>>
      BY <1>4 DEF DrainPop
  <2>2. Reading' /\ Queued' /\ Tallied'
      BY <1>0, <2>1, FlowKept
  <2>3. matcher # "none"
      BY <1>0, <1>4 DEF DrainPop, PipelineInv, Handshake
  <2>4. CASE outbound_queue_ = << >>
    <3>1. UNCHANGED <<outbound_queue_, write_batch, output_file_>>
        BY <1>4, <2>4 DEF DrainPop
    <3> QED BY <1>0, <2>1, <2>2, <3>1, RowsKept
  <2>5. CASE outbound_queue_ # << >>
    <3> DEFINE batch == Append(write_batch, Head(outbound_queue_))
    <3>1. /\ outbound_queue_' = Tail(outbound_queue_)
          /\ \/ output_file_' = output_file_ \o batch /\ write_batch' = << >>
             \/ output_file_' = output_file_ /\ write_batch' = batch
        BY <1>4, <2>5 DEF DrainPop, AppendRow
    <3>2. batch \in Seq(Report) /\ Tail(outbound_queue_) \in Seq(Report)
        BY <1>0, <2>5, HandedOn
    <3>3. OnTheWay(output_file_, batch, Tail(outbound_queue_), pending)
            = OnTheWay(output_file_, write_batch, outbound_queue_, pending)
        BY <1>0, <2>5, RowAppended
    <3> HIDE DEF batch
    <3>4. /\ output_file_ \o batch \in Seq(Report)
          /\ OnTheWay(output_file_ \o batch, << >>, Tail(outbound_queue_), pending)
                = OnTheWay(output_file_, batch, Tail(outbound_queue_), pending)
      <4>1. output_file_ \in Seq(Report) /\ pending \in Seq(Report)
          BY <1>0
      <4>2. Flushes(output_file_, batch, Tail(outbound_queue_), pending, Report)
          BY ONLY <3>2, <4>1, BatchWritten
      <4> QED BY <4>2 DEF Flushes
    <3>5. /\ output_file_' \in Seq(Report) /\ write_batch' \in Seq(Report)
          /\ OnTheWay(output_file_', write_batch', outbound_queue_', pending')
                = OnTheWay(output_file_, write_batch, outbound_queue_, pending)
        BY <1>0, <2>1, <3>1, <3>2, <3>3, <3>4, EmptySeq
    <3>6. OnTheWay(output_file_, write_batch, outbound_queue_, pending)'
            = OnTheWay(output_file_', write_batch', outbound_queue_', pending')
        BY DEF OnTheWay
    <3>7. Rows'
        BY <1>0, <2>1, <2>3, <3>5, <3>6 DEF Rows
    <3> QED BY <2>2, <3>7
  <2> QED BY <2>4, <2>5
<1>5. CASE DrainFlush
  <2>1. /\ main # "idle" /\ main' # "idle" /\ matcher # "none"
        /\ output_file_' = output_file_ \o write_batch /\ write_batch' = << >>
        /\ UNCHANGED <<producer, matcher, inbound_queue_, outbound_queue_,
                       produced_orders, consumed_orders, file, row, sequence,
                       got_end_of_stream, consumed, pending>>
      BY <1>0, <1>5 DEF DrainFlush, PipelineInv, Handshake
  <2>2. Reading' /\ Queued' /\ Tallied'
      BY <1>0, <2>1, FlowKept
  <2>3. /\ output_file_ \o write_batch \in Seq(Report)
        /\ OnTheWay(output_file_ \o write_batch, << >>, outbound_queue_, pending)
            = OnTheWay(output_file_, write_batch, outbound_queue_, pending)
    <3>1. Flushes(output_file_, write_batch, outbound_queue_, pending, Report)
        BY <1>0, BatchWritten
    <3> QED BY <3>1 DEF Flushes
  <2>4. OnTheWay(output_file_, write_batch, outbound_queue_, pending)'
          = OnTheWay(output_file_', write_batch', outbound_queue_', pending')
      BY DEF OnTheWay
  <2>5. Rows'
      BY <1>0, <2>1, <2>3, <2>4, EmptySeq DEF Rows
  <2> QED BY <2>2, <2>5
<1> QED BY <1>1, <1>2, <1>3, <1>4, <1>5 DEF Main

\* The producer reads line after line, and pushes the orders.
LEMMA ProducerFlow ==
    ASSUME FlowInv, Producer
    PROVE  Reading' /\ Queued' /\ Tallied' /\ Rows'
<1> USE DEF ProducerKeeps, locals, output
<1>0. PipelineInv /\ Reading /\ Queued /\ Tallied /\ Rows
    BY DEF FlowInv
<1>1. /\ main # "idle" /\ main' = main
      /\ UNCHANGED <<matcher, outbound_queue_, consumed_orders, got_end_of_stream,
                     consumed, pending, write_batch, output_file_, file>>
    BY <1>0 DEF Producer, ProducerOpen, ProducerRead, ProducerPush,
        ProducerEndOfStream, ProducerCount, ProducerDone, PipelineInv, Handshake
<1>2. Rows'
    BY <1>0, <1>1, RowsKept
<1>3. /\ file \in Seq(Int) /\ row \in Nat \ {0} /\ Len(file) \in Nat
      /\ sequence \in Nat /\ consumed \in Nat /\ got_end_of_stream \in BOOLEAN
      /\ inbound_queue_ \in Seq(Message) /\ Len(inbound_queue_) \in Nat
      /\ \A k \in 1 .. Len(file) : file[k] \in Int
    BY <1>0, LenProperties, ElementOfSeq DEF PipelineInv, Types, Counters, Flags, Inbound
<1>4. /\ OrdersBefore(file, row) \in Seq(Counts)
      /\ Begins(OrdersBefore(file, row + 1), Orders)
      /\ row <= 2 => OrdersBefore(file, row) = << >>
      /\ row + 1 <= 2 => OrdersBefore(file, row + 1) = << >>
      /\ row > Len(file) => OrdersBefore(file, row) = Orders
      /\ row \in 2 .. Len(file) =>
            OrdersBefore(file, row + 1) = IF file[row] > 0
                                          THEN Append(OrdersBefore(file, row), file[row])
                                          ELSE OrdersBefore(file, row)
  <2>1. row + 1 \in Nat \ {0}
      BY <1>3
  <2> QED BY <1>3, <2>1, BeforeFacts DEF Orders
<1>5. /\ Pushed \in Nat /\ consumed <= Pushed /\ Pushed = Len(OrdersBefore(file, row))
      /\ got_end_of_stream => StreamClosed
    BY <1>0, <1>1, Progress DEF Reading
<1>6. CASE ProducerOpen
  <2>1. /\ producer = "pin" /\ row = 1 /\ sequence = 0 /\ produced_orders = 0
        /\ UNCHANGED <<sequence, inbound_queue_, produced_orders>>
      BY <1>0, <1>1, <1>6 DEF ProducerOpen, Reading, Tallied
  <2>2. \/ file = << >> /\ row' = row /\ producer' = "unopened_end"
        \/ row' = 2 /\ producer' = "read"
      BY <1>6 DEF ProducerOpen, OpenFailed
  <2>3. Reading'
    <3>1. /\ OrdersBefore(file, 1) = << >> /\ OrdersBefore(file, 2) = << >>
          /\ Len(<< >>) = 0
        BY <1>4, <2>1, EmptySeq
    <3>2. Len(OrdersBefore(file', row')) = 0 /\ Pushed' = 0
        BY <1>1, <2>1, <2>2, <3>1 DEF Pushed
    <3>3. \A k \in 2 .. Len(file) : ~ (k < row')
        BY <1>3, <2>1, <2>2
    <3>4. file = << >> => Len(file) = 0
        BY EmptySeq
    <3> QED BY <1>1, <2>1, <2>2, <3>2, <3>3, <3>4 DEF Reading, StreamClosed
  <2>4. Queued'
      BY <1>0, <1>1, <2>1, <2>2 DEF Queued, Pushed, StreamClosed, Orders
  <2>5. Tallied'
      BY <1>0, <1>1, <2>1, <2>2 DEF Tallied
  <2> QED BY <1>2, <2>3, <2>4, <2>5
<1>7. CASE ProducerRead
  <2>1. /\ producer = "read" /\ row \in 2 .. Len(file) /\ row \in 1 .. Len(file)
        /\ UNCHANGED <<inbound_queue_, produced_orders>>
      BY <1>0, <1>1, <1>3, <1>7 DEF ProducerRead, Reading
  <2>2. \/ file[row] = 0 /\ row' = row + 1 /\ UNCHANGED <<producer, sequence>>
        \/ file[row] = -1 /\ UNCHANGED <<producer, row, sequence>>
        \/ file[row] > 0 /\ row' = row /\ sequence' = sequence + 1 /\ producer' = "push"
      BY <1>7 DEF ProducerRead, Short, Unparsable
  <2>3. Pushed' = Pushed
      BY <1>3, <2>1, <2>2 DEF Pushed
  <2>4. OrdersBefore(file', row') = OrdersBefore(file, row)
      BY <1>1, <1>4, <2>1, <2>2
  <2>5. \A k \in 2 .. Len(file) : k < row' => file[k] # -1
    <3>1. ASSUME NEW k \in 2 .. Len(file), k < row' PROVE file[k] # -1
      <4>1. CASE k = row
          BY <1>3, <2>1, <2>2, <3>1, <4>1
      <4>2. CASE k < row
          BY <1>0, <1>1, <3>1, <4>2 DEF Reading, Unparsable
      <4> QED BY <1>3, <2>1, <2>2, <3>1, <4>1, <4>2
    <3> QED BY <3>1
  <2>6. Reading'
    <3>1. row' >= 2 /\ producer' \in {"read", "push"}
        BY <2>1, <2>2
    <3>2. Pushed' = Len(OrdersBefore(file', row'))
        BY <1>5, <2>3, <2>4
    <3> QED BY <1>1, <2>5, <3>1, <3>2 DEF Reading, StreamClosed, Unparsable
  <2>7. Queued'
    <3>1. ~ StreamClosed /\ ~ StreamClosed'
        BY <2>1, <2>2 DEF StreamClosed
    <3> QED BY <1>0, <1>1, <2>1, <2>3, <3>1 DEF Queued, Orders
  <2>8. Tallied'
      BY <1>0, <1>1, <2>1, <2>2 DEF Tallied
  <2> QED BY <1>2, <2>6, <2>7, <2>8
<1>8. CASE ProducerPush
  <2>1. /\ producer = "push" /\ producer' = "read" /\ row' = row + 1
        /\ row \in 2 .. Len(file) /\ file[row] > 0
        /\ inbound_queue_' = Append(inbound_queue_, OrderMsg(sequence, file[row]))
        /\ UNCHANGED <<sequence, produced_orders>>
      BY <1>0, <1>1, <1>3, <1>8 DEF ProducerPush, PushInbound, Reading,
          PipelineInv, Types, OrderRead
  <2>2. Pushed = sequence - 1 /\ Pushed' = sequence
      BY <2>1 DEF Pushed
  <2>3. /\ OrdersBefore(file, row + 1) = Append(OrdersBefore(file, row), file[row])
        /\ file[row] \in Counts
    <3>1. OrdersBefore(file, row + 1) = Append(OrdersBefore(file, row), file[row])
        BY <1>4, <2>1
    <3>2. row \in 1 .. Len(file)
        BY <1>3, <2>1
    <3>3. file[row] \in Int
        BY <1>3, <3>2
    <3> QED BY <2>1, <3>1, <3>3 DEF Counts
  <2>4. /\ Len(OrdersBefore(file, row + 1)) = sequence
        /\ OrdersBefore(file, row + 1)[sequence] = file[row]
    <3>1. /\ Len(OrdersBefore(file, row + 1)) = Pushed + 1
          /\ OrdersBefore(file, row + 1)[Pushed + 1] = file[row]
        BY <1>4, <1>5, <2>3, AfterPush
    <3>2. Pushed + 1 = sequence
        BY <1>3, <2>2
    <3> QED BY <3>1, <3>2
  <2>5. sequence \in 1 .. sequence
      BY <1>3, <1>5, <2>2
  <2>6. Orders[sequence] = file[row]
      BY <1>4, <2>4, <2>5 DEF Begins
  <2>7. Reading'
    <3>1. Pushed' = Len(OrdersBefore(file', row'))
        BY <1>1, <2>1, <2>2, <2>4
    <3>2. \A k \in 2 .. Len(file) : k < row' => file[k] # -1
      <4>1. ASSUME NEW k \in 2 .. Len(file), k < row' PROVE file[k] # -1
        <5>1. CASE k = row
            BY <1>3, <2>1, <5>1
        <5>2. CASE k < row
            BY <1>0, <1>1, <4>1, <5>2 DEF Reading, Unparsable
        <5> QED BY <1>3, <2>1, <4>1, <5>1, <5>2
      <4> QED BY <4>1
    <3>3. row' >= 2
        BY <2>1
    <3> QED BY <1>1, <2>1, <3>1, <3>2, <3>3 DEF Reading, StreamClosed, Unparsable
  <2>8. Queued'
    <3> DEFINE msg == OrderMsg(sequence, file[row])
               n == Pushed - consumed
    <3>1. ~ StreamClosed /\ ~ StreamClosed' /\ Orders' = Orders /\ consumed' = consumed
        BY <1>1, <2>1 DEF StreamClosed, Orders
    <3>2. /\ Len(inbound_queue_) = n
          /\ \A k \in 1 .. n : inbound_queue_[k] = OrderMsg(consumed + k, Orders[consumed + k])
        BY <1>0, <1>1, <3>1 DEF Queued
    <3>3. n \in Nat /\ consumed + (n + 1) = sequence /\ Pushed' - consumed = n + 1
        BY <1>3, <1>5, <2>2
    <3>4. file[row] \in Nat \ {0}
        BY <2>3 DEF Counts
    <3>5. msg \in Message
        BY <1>3, <3>4 DEF OrderMsg, Message
    <3> HIDE DEF n
    <3>6. /\ Len(inbound_queue_') = n + 1 /\ inbound_queue_'[n + 1] = msg
          /\ \A k \in 1 .. n : inbound_queue_'[k] = inbound_queue_[k]
        BY <1>3, <2>1, <3>2, <3>5, AfterPush
    <3>7. \A k \in 1 .. n + 1 :
            inbound_queue_'[k] = OrderMsg(consumed + k, Orders[consumed + k])
      <4>1. ASSUME NEW k \in 1 .. n + 1
            PROVE  inbound_queue_'[k] = OrderMsg(consumed + k, Orders[consumed + k])
        <5>1. CASE k = n + 1
            BY <2>6, <3>3, <3>6, <5>1
        <5>2. CASE k # n + 1
          <6>1. k \in 1 .. n
              BY <3>3, <5>2
          <6> QED BY <3>2, <3>6, <6>1
        <5> QED BY <5>1, <5>2
      <4> QED BY <4>1
    <3>8. consumed <= Pushed'
        BY <1>3, <3>3, <2>2
    <3> HIDE DEF msg
    <3> QED BY <3>1, <3>3, <3>6, <3>7, <3>8 DEF Queued
  <2>9. Tallied'
      BY <1>0, <1>1, <2>1 DEF Tallied
  <2> QED BY <1>2, <2>7, <2>8, <2>9
<1>9. CASE ProducerEndOfStream
  <2>1. /\ \/ producer = "read" /\ row > Len(file) /\ producer' = "count"
           \/ producer = "unopened_end" /\ producer' = "unopened_done"
        /\ inbound_queue_' = Append(inbound_queue_, EndOfStream)
        /\ UNCHANGED <<row, sequence, produced_orders>>
      BY <1>9 DEF ProducerEndOfStream, PushInbound
  <2>2. Pushed' = Pushed /\ ~ StreamClosed /\ StreamClosed' /\ ~ got_end_of_stream
        /\ got_end_of_stream' = got_end_of_stream
      BY <1>1, <1>5, <2>1 DEF Pushed, StreamClosed
  <2>3. Reading'
      BY <1>0, <1>1, <2>1, <2>2 DEF Reading
  <2>4. Queued'
    <3> DEFINE n == Pushed - consumed
    <3>1. /\ Len(inbound_queue_) = n
          /\ \A k \in 1 .. n : inbound_queue_[k] = OrderMsg(consumed + k, Orders[consumed + k])
        BY <1>0, <1>1, <2>2 DEF Queued
    <3>2. EndOfStream \in Message
        BY DEF EndOfStream, Message
    <3>3. /\ Len(inbound_queue_') = n + 1
          /\ \A k \in 1 .. n : inbound_queue_'[k] = inbound_queue_[k]
        BY <1>3, <2>1, <3>1, <3>2, AfterPush
    <3> QED BY <1>1, <1>5, <2>2, <3>1, <3>3 DEF Queued, Orders
  <2>5. Tallied'
      BY <1>0, <1>1, <2>1 DEF Tallied
  <2> QED BY <1>2, <2>3, <2>4, <2>5
<1>10. CASE ProducerCount \/ ProducerDone
  <2>1. /\ \/ producer = "count" /\ produced_orders' = sequence /\ producer' = "done"
           \/ /\ producer \in {"done", "unopened_done"} /\ producer' = "returned"
              /\ produced_orders' = produced_orders
        /\ UNCHANGED <<row, sequence, inbound_queue_>>
      BY <1>10 DEF ProducerCount, ProducerDone
  <2>2. Pushed' = Pushed /\ StreamClosed /\ StreamClosed'
      BY <2>1 DEF Pushed, StreamClosed
  <2>3. Reading'
      BY <1>0, <1>1, <2>1, <2>2 DEF Reading
  <2>4. Queued'
      BY <1>0, <1>1, <2>1, <2>2 DEF Queued, Orders
  <2>5. Tallied'
      BY <1>0, <1>1, <2>1 DEF Tallied
  <2> QED BY <1>2, <2>3, <2>4, <2>5
<1> QED BY <1>6, <1>7, <1>8, <1>9, <1>10 DEF Producer

\* The matcher takes order after order, and pushes the reports on each.
LEMMA MatcherFlow ==
    ASSUME FlowInv, Matcher
    PROVE  Reading' /\ Queued' /\ Tallied' /\ Rows'
<1> USE DEF MatcherKeeps, locals, input, output
<1>0. PipelineInv /\ Reading /\ Queued /\ Tallied /\ Rows
    BY DEF FlowInv
<1>1. /\ main # "idle" /\ main' = main
      /\ UNCHANGED <<producer, produced_orders, file, row, sequence, write_batch,
                     output_file_>>
    BY <1>0 DEF Matcher, MatcherStart, MatcherLoop, MatcherPop, MatcherEmit,
        MatcherCount, MatcherDone, PipelineInv, Handshake
<1>2. Reading'
    BY <1>0, <1>1, FlowKept
<1>3. /\ file \in Seq(Int) /\ got_end_of_stream \in BOOLEAN
      /\ inbound_queue_ \in Seq(Message) /\ Len(inbound_queue_) \in Nat
      /\ outbound_queue_ \in Seq(Report) /\ pending \in Seq(Report)
      /\ write_batch \in Seq(Report) /\ output_file_ \in Seq(Report)
    BY <1>0, LenProperties
        DEF PipelineInv, Types, Counters, Flags, Inbound, Outbound, Pending, Rows
<1>4. /\ Orders \in Seq(Counts) /\ Len(Orders) \in Nat
      /\ Pushed \in Nat /\ consumed \in Nat
      /\ consumed <= Pushed /\ Pushed <= Len(Orders)
    BY <1>0, <1>1, Progress
<1>5. Pushed' = Pushed /\ StreamClosed' = StreamClosed /\ Orders' = Orders
    BY <1>1 DEF Pushed, StreamClosed, Orders
<1>6. CASE MatcherStart \/ MatcherLoop \/ MatcherCount \/ MatcherDone
  <2>1. /\ UNCHANGED <<inbound_queue_, outbound_queue_, got_end_of_stream, consumed, pending>>
        /\ matcher # "none" /\ matcher' # "none"
        /\ \/ matcher' \notin {"done", "returned"}
           \/ matcher' = "done" /\ consumed_orders' = consumed
           \/ matcher = "done" /\ consumed_orders' = consumed_orders
      BY <1>6 DEF MatcherStart, MatcherLoop, MatcherCount, MatcherDone
  <2>2. Queued'
      BY <1>0, <1>1, <2>1, FlowKept
  <2>3. Tallied'
      BY <1>0, <1>1, <2>1 DEF Tallied
  <2>4. Rows'
      BY <1>0, <1>1, <2>1 DEF Rows
  <2> QED BY <1>2, <2>2, <2>3, <2>4
<1>7. CASE MatcherPop /\ inbound_queue_ = << >>
  <2>1. /\ UNCHANGED <<inbound_queue_, outbound_queue_, got_end_of_stream, consumed, pending>>
        /\ matcher = "pop" /\ matcher' = "loop"
      BY <1>7 DEF MatcherPop
  <2>2. Queued'
      BY <1>0, <1>1, <2>1, FlowKept
  <2>3. Tallied'
      BY <1>0, <1>1, <2>1 DEF Tallied
  <2>4. Rows'
      BY <1>0, <1>1, <2>1 DEF Rows
  <2> QED BY <1>2, <2>2, <2>3, <2>4
<1>8. CASE MatcherPop /\ inbound_queue_ # << >>
  <2> DEFINE n == Pushed - consumed
  <2>1. /\ matcher = "pop" /\ inbound_queue_' = Tail(inbound_queue_)
        /\ outbound_queue_' = outbound_queue_
        /\ \/ /\ Head(inbound_queue_).end_of_stream
              /\ got_end_of_stream' = TRUE /\ matcher' = "loop"
              /\ UNCHANGED <<consumed, pending>>
           \/ ~ Head(inbound_queue_).end_of_stream /\ TakeOrder(Head(inbound_queue_))
      BY <1>8 DEF MatcherPop
  <2>2. /\ Len(inbound_queue_) \in Nat \ {0} /\ Head(inbound_queue_) = inbound_queue_[1]
        /\ Len(Tail(inbound_queue_)) = Len(inbound_queue_) - 1
        /\ \A k \in 1 .. Len(inbound_queue_) - 1 :
                Tail(inbound_queue_)[k] = inbound_queue_[k + 1]
      BY <1>3, <1>8, AfterPop
  <2>3. /\ StreamClosed /\ ~ got_end_of_stream => Len(inbound_queue_) = n + 1
        /\ ~ (StreamClosed /\ ~ got_end_of_stream) => Len(inbound_queue_) = n
        /\ \A k \in 1 .. n : inbound_queue_[k] = OrderMsg(consumed + k, Orders[consumed + k])
      BY <1>0, <1>1 DEF Queued
  <2>4. pending = << >>
      BY <1>0, <2>1 DEF PipelineInv, Types, Pending
  <2>5. n \in Nat
      BY <1>4
  <2>6. CASE Head(inbound_queue_).end_of_stream
    <3>1. /\ got_end_of_stream' = TRUE /\ matcher' = "loop"
          /\ UNCHANGED <<consumed, pending>>
        BY <2>1, <2>6
    <3>2. /\ 1 = Len(inbound_queue_) /\ StreamClosed /\ ~ got_end_of_stream
      <4>1. 1 \in 1 .. Len(inbound_queue_) /\ inbound_queue_[1].end_of_stream
          BY <2>2, <2>6
      <4> QED BY <1>0, <1>1, <4>1 DEF PipelineInv, EndIsLast
    <3>3. n = 0
      <4>1. Len(inbound_queue_) = n + 1
          BY <2>3, <3>2
      <4> HIDE DEF n
      <4> QED BY <2>5, <3>2, <4>1
    <3>4. Len(inbound_queue_') = 0 /\ Pushed' - consumed' = 0 /\ consumed' <= Pushed'
      <4>1. Len(inbound_queue_') = Len(inbound_queue_) - 1
          BY <2>1, <2>2
      <4>2. Pushed' - consumed' = Pushed - consumed /\ Pushed' = Pushed /\ consumed' = consumed
          BY <1>5, <3>1
      <4> QED BY <1>4, <3>2, <3>3, <4>1, <4>2
    <3>5. Queued'
        BY <1>5, <3>1, <3>4 DEF Queued
    <3>6. Tallied'
        BY <1>0, <1>1, <2>1, <3>1 DEF Tallied
    <3>7. Rows'
        BY <1>0, <1>1, <2>1, <3>1 DEF Rows
    <3> QED BY <1>2, <3>5, <3>6, <3>7
  <2>7. CASE ~ Head(inbound_queue_).end_of_stream
    <3> DEFINE msg == Head(inbound_queue_)
    <3>1. /\ consumed' = consumed + 1 /\ matcher' = "emit"
          /\ pending' = [k \in 1 .. msg.reports |-> <<msg.seq, k>>]
          /\ got_end_of_stream' = got_end_of_stream
        BY <2>1, <2>7 DEF TakeOrder
    <3>2. n >= 1
      <4>1. CASE n = 0
        <5>1. /\ 1 \in 1 .. Len(inbound_queue_) /\ 1 = Len(inbound_queue_)
              /\ StreamClosed /\ ~ got_end_of_stream
            BY <2>2, <2>3, <4>1
        <5>2. inbound_queue_[1].end_of_stream
            BY <1>0, <1>1, <5>1 DEF PipelineInv, EndIsLast
        <5> QED BY <2>2, <2>7, <5>2
      <4> QED BY <2>5, <4>1
    <3>3. msg = OrderMsg(consumed + 1, Orders[consumed + 1])
      <4>1. 1 \in 1 .. n
          BY <2>5, <3>2
      <4> QED BY <2>2, <2>3, <4>1
    <3>4. pending' = AnswersTo(consumed + 1, file)
      <4>1. msg.reports = Orders[consumed + 1] /\ msg.seq = consumed + 1
          BY <3>3 DEF OrderMsg
      <4> HIDE DEF msg
      <4> QED BY <3>1, <4>1 DEF AnswersTo, Orders
    <3> HIDE DEF msg
    <3>5. consumed + 1 \in 1 .. Len(Orders) /\ consumed \in 0 .. Len(Orders)
          /\ (consumed + 1) - 1 = consumed
        BY <1>4, <2>5, <3>2
    <3>6. Queued'
      <4>1. Pushed' - consumed' = n - 1 /\ consumed' <= Pushed'
          BY <1>4, <1>5, <3>1, <3>2
      <4> HIDE DEF n
      <4>2. /\ StreamClosed /\ ~ got_end_of_stream => Len(inbound_queue_') = (n - 1) + 1
            /\ ~ (StreamClosed /\ ~ got_end_of_stream) => Len(inbound_queue_') = n - 1
        <5>1. Len(inbound_queue_') = Len(inbound_queue_) - 1
            BY <2>1, <2>2
        <5> QED BY <2>3, <2>5, <5>1
      <4>3. \A k \in 1 .. n - 1 :
              inbound_queue_'[k] = OrderMsg(consumed' + k, Orders[consumed' + k])
        <5>1. ASSUME NEW k \in 1 .. n - 1
              PROVE  inbound_queue_'[k] = OrderMsg(consumed' + k, Orders[consumed' + k])
          <6>1. /\ k + 1 \in 1 .. n /\ k \in 1 .. Len(inbound_queue_) - 1
                /\ consumed + (k + 1) = consumed' + k
            <7>1. Len(inbound_queue_) \in {n, n + 1}
                BY <2>3
            <7>2. Len(inbound_queue_) \in Nat
                BY <1>3
            <7>3. k + 1 \in 1 .. n
                BY <2>5
            <7>4. k \in 1 .. Len(inbound_queue_) - 1
                BY ONLY <2>5, <7>1, <7>2, k \in 1 .. n - 1
            <7> QED BY <1>4, <3>1, <7>3, <7>4
          <6>2. inbound_queue_'[k] = inbound_queue_[k + 1]
              BY <2>1, <2>2, <6>1
          <6> QED BY <2>3, <6>1, <6>2
        <5> QED BY <5>1
      <4> QED BY <1>5, <3>1, <4>1, <4>2, <4>3 DEF Queued
    <3>7. Tallied'
        BY <1>0, <1>1, <3>1 DEF Tallied
    <3>8. Rows'
      <4> DEFINE h == <<Promise!Header>>
                 r == Promise!ReportsOnFirst(consumed, file)
                 a == AnswersTo(consumed + 1, file)
      <4>1. OnTheWay(output_file_, write_batch, outbound_queue_, << >>) = h \o r
          BY <1>0, <2>1, <2>4 DEF Rows
      <4>2. h \in Seq(Report)
          BY DEF Promise!Header, Report
      <4>3. /\ r \in Seq(Report) /\ a \in Seq(Report)
            /\ Promise!ReportsOnFirst(consumed + 1, file) = r \o a
          BY <1>3, <3>5, ReportsFacts, AnswersAreReports DEF Orders
      <4> HIDE DEF h, r, a
      <4>4. OnTheWay(output_file_, write_batch, outbound_queue_, a) = h \o (r \o a)
        <5>1. /\ output_file_ \in Seq(Report) /\ write_batch \in Seq(Report)
              /\ outbound_queue_ \in Seq(Report)
            BY <1>3
        <5>2. r \in Seq(Report) /\ a \in Seq(Report)
            BY <4>3
        <5>3. Answers(output_file_, write_batch, outbound_queue_, a, h, r)
            BY ONLY <4>2, <5>1, <5>2, RowsAnswered
        <5> QED BY <4>1, <5>3 DEF Answers
      <4>5. OnTheWay(output_file_, write_batch, outbound_queue_, pending)'
              = OnTheWay(output_file_, write_batch, outbound_queue_, a)
          BY <1>1, <2>1, <3>4 DEF OnTheWay, a
      <4>6. Promise!ReportsOnFirst(consumed, file)' = r \o a
        <5>1. Promise!ReportsOnFirst(consumed', file') = r \o a
            BY <1>1, <3>1, <4>3
        <5> QED BY <5>1
      <4> QED BY <1>0, <1>1, <1>3, <3>1, <4>4, <4>5, <4>6 DEF Rows, h
    <3> QED BY <1>2, <3>6, <3>7, <3>8
  <2> QED BY <2>6, <2>7
<1>9. CASE MatcherEmit
  <2>1. /\ matcher = "emit" /\ matcher' \in {"loop", "emit"}
        /\ outbound_queue_' = Append(outbound_queue_, Head(pending))
        /\ pending' = Tail(pending)
        /\ UNCHANGED <<inbound_queue_, consumed_orders, got_end_of_stream, consumed>>
      BY <1>9 DEF MatcherEmit, PushReport
  <2>2. pending # << >>
      BY <1>0, <2>1 DEF PipelineInv, Types, Pending
  <2>3. OnTheWay(output_file_, write_batch, outbound_queue_', pending')
          = OnTheWay(output_file_, write_batch, outbound_queue_, pending)
      BY <1>3, <2>1, <2>2, RowPushed
  <2>4. OnTheWay(output_file_, write_batch, outbound_queue_, pending)'
          = OnTheWay(output_file_, write_batch, outbound_queue_', pending')
      BY <1>1 DEF OnTheWay
  <2>5. Queued'
      BY <1>0, <1>1, <2>1, FlowKept
  <2>6. Tallied'
      BY <1>0, <1>1, <2>1 DEF Tallied
  <2>7. Rows'
      BY <1>0, <1>1, <2>1, <2>3, <2>4 DEF Rows
  <2> QED BY <1>2, <2>5, <2>6, <2>7
<1> QED BY <1>6, <1>7, <1>8, <1>9 DEF Matcher

-----------------------------------------------------------------------------

\* What is in flight is always what has been read and not yet written.
THEOREM FlowInvariance == Spec => []FlowInv
<1>1. FlowInv /\ [Next]_vars => FlowInv'
  <2> SUFFICES ASSUME FlowInv, [Next]_vars PROVE FlowInv'
      OBVIOUS
  <2>1. PipelineInv'
    <3>1. PipelineInv
        BY DEF FlowInv
    <3>2. CASE StartFile \/ PrepareFails
        BY <3>1, <3>2, StartStep
    <3>3. CASE Main
        BY <3>1, <3>3, MainStep
    <3>4. CASE Producer
        BY <3>1, <3>4, ProducerStep
    <3>5. CASE Matcher
        BY <3>1, <3>5, MatcherStep
    <3>6. CASE PinFails \/ UNCHANGED vars
        BY <3>1, <3>6, IdleStep
    <3> QED BY <3>2, <3>3, <3>4, <3>5, <3>6 DEF Next, Running, Stopped
  <2>2. CASE StartFile \/ PrepareFails
      BY <2>1, <2>2, StartFlow DEF FlowInv
  <2>3. CASE PinFails \/ UNCHANGED vars
    <3>1. /\ main' = main
          /\ UNCHANGED <<producer, matcher, inbound_queue_, outbound_queue_,
                         produced_orders, consumed_orders, file, row, sequence,
                         got_end_of_stream, consumed, pending, write_batch, output_file_>>
        BY <2>3 DEF PinFails, vars, state, input, locals, output
    <3> QED BY <2>1, <3>1, FlowKept, RowsKept DEF FlowInv
  <2>4. CASE Main
      BY <2>1, <2>4, MainFlow DEF FlowInv
  <2>5. CASE Producer
      BY <2>1, <2>5, ProducerFlow DEF FlowInv
  <2>6. CASE Matcher
      BY <2>1, <2>6, MatcherFlow DEF FlowInv
  <2> QED BY <2>2, <2>3, <2>4, <2>5, <2>6 DEF Next, Running, Stopped
<1> QED BY <1>1, InitFlow, PTL DEF Spec

\* The orders between the producer and the matcher are those of the file that
\* have been pushed and not consumed, each once and in file order, with the end
\* of the stream behind the last one (csv_order_producer.cpp:62-104,
\* order_processor.cpp:126-165).
THEOREM OrdersKept == Spec => []OrdersInFlight
<1>1. FlowInv => OrdersInFlight
  <2> SUFFICES ASSUME FlowInv, main # "idle"
               PROVE  LET ends == IF StreamClosed /\ ~ got_end_of_stream
                                  THEN <<EndOfStream>> ELSE << >>
                      IN /\ inbound_queue_ =
                                [k \in 1 .. Pushed - consumed |->
                                    OrderMsg(consumed + k, Orders[consumed + k])] \o ends
                         /\ StreamClosed => Pushed = Len(Orders)
                         /\ got_end_of_stream => StreamClosed /\ consumed = Len(Orders)
      BY DEF OrdersInFlight, StreamClosed, Pushed
  <2> DEFINE n == Pushed - consumed
             orders == [k \in 1 .. n |-> OrderMsg(consumed + k, Orders[consumed + k])]
             ends == IF StreamClosed /\ ~ got_end_of_stream THEN <<EndOfStream>> ELSE << >>
  <2>1. /\ Orders \in Seq(Counts) /\ Len(Orders) \in Nat
        /\ Pushed \in Nat /\ consumed \in Nat
        /\ consumed <= Pushed /\ Pushed <= Len(Orders)
        /\ row > Len(file) => Pushed = Len(Orders)
        /\ got_end_of_stream => StreamClosed /\ consumed = Len(Orders)
      BY Progress DEF FlowInv
  <2>2. StreamClosed => Pushed = Len(Orders)
      BY <2>1 DEF FlowInv, Reading
  <2>3. n \in Nat
      BY <2>1
  <2>4. \A k \in 1 .. n : OrderMsg(consumed + k, Orders[consumed + k]) \in Message
    <3>1. ASSUME NEW k \in 1 .. n
          PROVE  OrderMsg(consumed + k, Orders[consumed + k]) \in Message
      <4>1. consumed + k \in 1 .. Len(Orders) /\ consumed + k \in Nat
          BY <2>1
      <4>2. Orders[consumed + k] \in Nat \ {0}
          BY <2>1, <4>1, ElementOfSeq DEF Counts
      <4> QED BY <4>1, <4>2 DEF OrderMsg, Message
    <3> QED BY <3>1
  <2>5. /\ orders \in Seq(Message) /\ Len(orders) = n
        /\ \A k \in 1 .. n : orders[k] = OrderMsg(consumed + k, Orders[consumed + k])
    <3> HIDE DEF n
    <3>1. orders \in Seq(Message)
        BY <2>3, <2>4, IsASeq
    <3>2. Len(orders) \in Nat /\ DOMAIN orders = 1 .. Len(orders) /\ DOMAIN orders = 1 .. n
        BY <3>1, LenProperties
    <3> QED BY <2>3, <3>1, <3>2
  <2>6. /\ inbound_queue_ \in Seq(Message)
        /\ StreamClosed /\ ~ got_end_of_stream => Len(inbound_queue_) = n + 1
        /\ ~ (StreamClosed /\ ~ got_end_of_stream) => Len(inbound_queue_) = n
        /\ \A k \in 1 .. n : inbound_queue_[k] = orders[k]
      BY <2>5 DEF FlowInv, Queued, PipelineInv, Types, Inbound
  <2> HIDE DEF n, orders
  <2>7. inbound_queue_ = orders \o ends
    <3>1. CASE StreamClosed /\ ~ got_end_of_stream
      <4>1. EndOfStream \in Message /\ <<EndOfStream>> \in Seq(Message)
            /\ Len(<<EndOfStream>>) = 1 /\ <<EndOfStream>>[1] = EndOfStream
          BY DEF EndOfStream, Message
      <4>2. /\ orders \o <<EndOfStream>> \in Seq(Message)
            /\ Len(orders \o <<EndOfStream>>) = n + 1
            /\ \A k \in 1 .. n + 1 :
                (orders \o <<EndOfStream>>)[k] =
                    IF k <= n THEN orders[k] ELSE <<EndOfStream>>[k - n]
          BY <2>5, <4>1, ConcatProperties
      <4>3. inbound_queue_[n + 1] = EndOfStream
        <5>1. n + 1 \in 1 .. Len(inbound_queue_) /\ n + 1 = Len(inbound_queue_)
            BY <2>3, <2>6, <3>1
        <5>2. inbound_queue_[n + 1].end_of_stream
            BY <3>1, <5>1 DEF FlowInv, PipelineInv, EndIsLast
        <5>3. inbound_queue_[n + 1] \in Message
            BY <2>6, <5>1, ElementOfSeq
        <5> QED BY <5>2, <5>3 DEF EndOfStream, Message
      <4>4. \A k \in 1 .. n + 1 : inbound_queue_[k] = (orders \o <<EndOfStream>>)[k]
        <5>1. ASSUME NEW k \in 1 .. n + 1
              PROVE  inbound_queue_[k] = (orders \o <<EndOfStream>>)[k]
          <6>1. CASE k <= n
            <7>1. k \in 1 .. n
                BY <2>3, <6>1
            <7> QED BY <2>6, <4>2, <6>1, <7>1
          <6>2. CASE k = n + 1
            <7>1. ~ (k <= n) /\ k - n = 1
                BY <2>3, <6>2
            <7> QED BY <4>1, <4>2, <4>3, <6>2, <7>1
          <6>3. k <= n \/ k = n + 1
              BY <2>3
          <6> QED BY ONLY <6>1, <6>2, <6>3, Zenon
        <5> QED BY <5>1
      <4>5. inbound_queue_ = orders \o <<EndOfStream>>
        <5>1. Len(inbound_queue_) = n + 1
            BY <2>6, <3>1
        <5> QED BY <2>6, <4>2, <4>4, <5>1, SeqEqual
      <4> QED BY <3>1, <4>5
    <3>2. CASE ~ (StreamClosed /\ ~ got_end_of_stream)
      <4>1. inbound_queue_ = orders
        <5>1. Len(inbound_queue_) = n
            BY <2>6, <3>2
        <5> QED BY <2>5, <2>6, <5>1, SeqEqual
      <4>2. orders \o << >> = orders
          BY <2>5, ConcatEmptySeq
      <4> QED BY <3>2, <4>1, <4>2
    <3> QED BY <3>1, <3>2
  <2> QED BY <2>1, <2>2, <2>7 DEF n, orders
<1> QED BY <1>1, FlowInvariance, PTL

\* No report on an order that was consumed is lost, doubled or overtaken on its
\* way to the output file (order_processor.cpp:126-165,
\* csv_report_writer.cpp:113-137).
THEOREM ReportsKept == Spec => []ReportsInFlight
<1>1. FlowInv => ReportsInFlight
    BY DEF FlowInv, Rows, OnTheWay, ReportsInFlight
<1> QED BY <1>1, FlowInvariance, PTL

-----------------------------------------------------------------------------
(* One synchronous call.                                                    *)

\* What has been written is a beginning of what the call is to write.
LEMMA WrittenIsExpected ==
    FlowInv =>
        (main # "idle" /\ matcher # "none"
            => Promise!IsPrefix(output_file_, Promise!Expected(file)))
<1> SUFFICES ASSUME FlowInv, main # "idle", matcher # "none"
             PROVE  Promise!IsPrefix(output_file_, Promise!Expected(file))
    OBVIOUS
<1> DEFINE h == <<Promise!Header>>
           r == Promise!ReportsOnFirst(consumed, file)
           all == Promise!ReportsOnFirst(Len(Orders), file)
<1>1. /\ file \in Seq(Int) /\ output_file_ \in Seq(Report) /\ write_batch \in Seq(Report)
      /\ outbound_queue_ \in Seq(Report) /\ pending \in Seq(Report)
      /\ OnTheWay(output_file_, write_batch, outbound_queue_, pending) = h \o r
    BY DEF FlowInv, PipelineInv, Types, Counters, Outbound, Pending, Rows
<1>2. consumed \in 0 .. Len(Orders)
    BY Progress DEF FlowInv
<1>3. h \in Seq(Report)
    BY DEF Promise!Header, Report
<1>4. r \in Seq(Report) /\ \E u \in Seq(Report) : all = r \o u
    BY <1>1, <1>2, ReportsFacts, ReportsBegin DEF Orders
<1>5. Promise!Expected(file) = h \o all
    BY DEF Promise!Expected, Orders
<1>6. StartsWith(OnTheWay(output_file_, write_batch, outbound_queue_, pending),
                 output_file_, Report)
    BY <1>1, WrittenFirst
<1> HIDE DEF h, r, all
<1>7. PICK u \in Seq(Report) : all = r \o u
    BY <1>4
<1>8. PICK v \in Seq(Report) : h \o r = output_file_ \o v
    BY <1>1, <1>6 DEF StartsWith
<1>9. Regroups(h, r, u) /\ Regroups(output_file_, v, u)
    BY <1>1, <1>3, <1>4, Regrouped
<1>10. (h \o r) \o u = h \o (r \o u) /\ (output_file_ \o v) \o u = output_file_ \o (v \o u)
    BY <1>9 DEF Regroups
<1>11. Promise!Expected(file) = output_file_ \o (v \o u)
    BY ONLY <1>5, <1>7, <1>8, <1>10
<1>12. v \o u \in Seq(Report)
    BY ConcatProperties
<1>13. Promise!IsPrefix(output_file_, output_file_ \o (v \o u))
    BY <1>1, <1>12, Extended
<1> QED BY <1>11, <1>13

\* When both threads have been joined everything is written.
LEMMA AllWritten ==
    ASSUME FlowInv, main = "join_matcher", matcher = "returned"
    PROVE  /\ output_file_ = Promise!Expected(file)
           /\ ~ Promise!HasUnparsable(file)
           /\ produced_orders = Len(Promise!OrderLines(file))
           /\ consumed_orders = Len(Promise!OrderLines(file))
<1>1. /\ matcher_done /\ outbound_queue_ = << >> /\ write_batch = << >>
      /\ got_end_of_stream /\ producer = "returned" /\ pending = << >>
    BY DEF FlowInv, PipelineInv, Handshake, Types, Pending
<1>2. /\ Pushed = Len(Orders) /\ consumed = Len(Orders) /\ row > Len(file)
      /\ Pushed = sequence
    BY <1>1, Progress DEF FlowInv, Reading, StreamClosed, Pushed
<1>3. produced_orders = sequence /\ consumed_orders = consumed
    BY <1>1 DEF FlowInv, Tallied
<1>4. ~ Promise!HasUnparsable(file)
  <2>1. file \in Seq(Int) /\ Len(file) \in Nat /\ row \in Nat
      BY LenProperties DEF FlowInv, PipelineInv, Types, Counters
  <2>2. \A k \in 2 .. Len(file) : k < row
      BY <1>2, <2>1
  <2> QED BY <2>2 DEF FlowInv, Reading, Promise!HasUnparsable, Promise!Unparsable, Unparsable
<1>5. output_file_ = Promise!Expected(file)
  <2>1. OnTheWay(output_file_, << >>, << >>, << >>)
          = <<Promise!Header>> \o Promise!ReportsOnFirst(consumed, file)
      BY <1>1 DEF FlowInv, Rows
  <2>2. output_file_ \in Seq(Report)
      BY DEF FlowInv, Rows
  <2>3. output_file_ \o << >> = output_file_
      BY <2>2, ConcatEmptySeq
  <2>4. OnTheWay(output_file_, << >>, << >>, << >>) = output_file_
      BY <2>3 DEF OnTheWay
  <2> QED BY <1>2, <2>1, <2>4 DEF Promise!Expected, Orders
<1> QED BY <1>2, <1>3, <1>4, <1>5 DEF Orders

\* Every step of the threads is a step of the call, or none.
LEMMA StepOfCall ==
    ASSUME FlowInv, FlowInv', [Next]_vars
    PROVE  [Promise!Next]_(Promise!vars)
<1> USE DEF state, input, locals, output
<1>1. CASE exited \/ UNCHANGED vars \/ Stopped
  <2>1. UNCHANGED vars
      BY <1>1 DEF Next, Running, Stopped
  <2> QED BY <2>1 DEF vars, Promise!vars
<1>2. CASE ~ exited /\ StartFile
  <2>1. /\ main = "idle" /\ main' = "spawn_producer" /\ exited' = exited
        /\ file' \in Files /\ output_file_' = << >> /\ counted' = counted
      BY <1>2 DEF StartFile
  <2>2. Promise!Begin
      BY <1>2, <2>1 DEF Promise!Begin
  <2> QED BY <2>2 DEF Promise!Next
<1>3. CASE ~ exited /\ PinFails
  <2>1. main # "idle" /\ exited' = TRUE /\ UNCHANGED <<file, output_file_, counted>>
      BY <1>3 DEF PinFails, FlowInv, PipelineInv, Handshake
  <2>2. Promise!Die
      BY <1>3, <2>1 DEF Promise!Die
  <2> QED BY <2>2 DEF Promise!Next
<1>4. CASE ~ exited /\ Producer
  <2>1. UNCHANGED <<main, file, output_file_, counted>> /\ main # "idle"
      BY <1>4 DEF Producer, ProducerOpen, ProducerRead, ProducerPush,
          ProducerEndOfStream, ProducerCount, ProducerDone, ProducerKeeps,
          FlowInv, PipelineInv, Handshake
  <2>2. exited' = exited \/ exited' = TRUE
      BY <1>4 DEF Producer, ProducerOpen, ProducerRead, ProducerPush,
          ProducerEndOfStream, ProducerCount, ProducerDone
  <2>3. CASE exited' = exited
      BY <2>1, <2>3 DEF Promise!vars
  <2>4. CASE exited' = TRUE
    <3>1. Promise!Die
        BY <1>4, <2>1, <2>4 DEF Promise!Die
    <3> QED BY <3>1 DEF Promise!Next
  <2> QED BY <2>2, <2>3, <2>4
<1>8. CASE ~ exited /\ PrepareFails
  <2>1. /\ main' = main /\ UNCHANGED <<file, output_file_, counted>>
        /\ exited' = exited \/ exited' = TRUE
      BY <1>8 DEF PrepareFails
  <2>2. CASE exited' = exited
      BY <2>1, <2>2 DEF Promise!vars
  <2>3. CASE exited' = TRUE
    <3>1. Promise!Die
        BY <1>8, <2>1, <2>3 DEF Promise!Die
    <3> QED BY <3>1 DEF Promise!Next
  <2> QED BY <2>1, <2>2, <2>3
<1>5. CASE ~ exited /\ (SpawnProducer \/ SpawnMatcher \/ DrainLoop
                          \/ JoinProducer \/ Matcher)
  <2>1. UNCHANGED <<exited, file, output_file_, counted>>
      BY <1>5 DEF SpawnProducer, SpawnMatcher, DrainLoop, JoinProducer,
          Matcher, MatcherStart, MatcherLoop, MatcherPop, MatcherEmit, MatcherCount,
          MatcherDone, MatcherKeeps
  <2>2. main' = "idle" <=> main = "idle"
      BY <1>5 DEF SpawnProducer, SpawnMatcher, DrainLoop, DrainCondition,
          JoinProducer, Matcher, MatcherStart, MatcherLoop, MatcherPop, MatcherEmit,
          MatcherCount, MatcherDone, MatcherKeeps
  <2> QED BY <2>1, <2>2 DEF Promise!vars
<1>6. CASE ~ exited /\ (DrainPop \/ DrainFlush)
  <2>1. /\ main # "idle" /\ main' # "idle" /\ matcher # "none" /\ matcher' # "none"
        /\ UNCHANGED <<exited, file, counted>>
      BY <1>6 DEF DrainPop, DrainFlush, FlowInv, PipelineInv, Handshake
  <2>2. output_file_' = output_file_ \/ \E t \in Seq(Report) : output_file_' = output_file_ \o t
    <3>1. CASE DrainFlush
      <4>1. write_batch \in Seq(Report) /\ output_file_' = output_file_ \o write_batch
          BY <3>1 DEF DrainFlush, FlowInv, Rows
      <4> QED BY <4>1
    <3>2. CASE DrainPop
      <4>1. CASE output_file_' = output_file_
          BY <4>1
      <4>2. CASE output_file_' # output_file_
        <5> DEFINE batch == Append(write_batch, Head(outbound_queue_))
        <5>1. outbound_queue_ # << >> /\ output_file_' = output_file_ \o batch
            BY <3>2, <4>2 DEF DrainPop, AppendRow
        <5>2. write_batch \in Seq(Report) /\ outbound_queue_ \in Seq(Report)
            BY DEF FlowInv, Rows, PipelineInv, Types, Outbound
        <5>3. batch \in Seq(Report)
            BY <5>1, <5>2, HandedOn
        <5> QED BY <5>1, <5>3
      <4> QED BY <4>1, <4>2
    <3> QED BY <1>6, <3>1, <3>2
  <2>3. CASE output_file_' = output_file_
      BY <2>1, <2>3 DEF Promise!vars
  <2>4. CASE \E t \in Seq(Report) : output_file_' = output_file_ \o t
    <3>1. output_file_ \in Seq(Report)
        BY DEF FlowInv, Rows
    <3>2. Promise!IsPrefix(output_file_, output_file_')
        BY <2>4, <3>1, Extended
    <3>3. Promise!IsPrefix(output_file_', Promise!Expected(file))
      <4>1. (FlowInv =>
                (main # "idle" /\ matcher # "none"
                    => Promise!IsPrefix(output_file_, Promise!Expected(file))))'
          BY WrittenIsExpected, PTL
      <4>2. Promise!IsPrefix(output_file_, Promise!Expected(file))'
          BY <2>1, <4>1
      <4> QED BY <2>1, <4>2
    <3>4. Promise!Write
        BY <1>6, <2>1, <3>2, <3>3 DEF Promise!Write
    <3> QED BY <3>4 DEF Promise!Next
  <2> QED BY <2>2, <2>3, <2>4
<1>7. CASE ~ exited /\ JoinMatcher
  <2>1. /\ main = "join_matcher" /\ matcher = "returned" /\ main' = "idle"
        /\ counted' = <<produced_orders, consumed_orders>>
        /\ UNCHANGED <<exited, file, output_file_>>
      BY <1>7 DEF JoinMatcher
  <2>2. /\ output_file_ = Promise!Expected(file)
        /\ ~ Promise!HasUnparsable(file)
        /\ produced_orders = Len(Promise!OrderLines(file))
        /\ consumed_orders = Len(Promise!OrderLines(file))
      BY <2>1, AllWritten
  <2>3. Promise!Return
      BY <1>7, <2>1, <2>2 DEF Promise!Return
  <2> QED BY <2>3 DEF Promise!Next
<1> QED BY <1>1, <1>2, <1>3, <1>4, <1>5, <1>6, <1>7, <1>8 DEF Next, Running, Main

\* Three threads and two queues do what one call that reads, matches and writes
\* would do: the rows appear in the order of the file, the call returns when all
\* are written, and the counters it reports are exact (file_processor.h:7-19,
\* file_processing_pipeline.cpp:28-79).
THEOREM PipelineImplementsFileProcessor == Spec => ImplementsFileProcessor
<1>1. Init => Promise!Init
    BY DEF Init, Promise!Init
<1> QED BY <1>1, StepOfCall, FlowInvariance, PTL
        DEF Spec, ImplementsFileProcessor, Promise!Spec
=============================================================================
