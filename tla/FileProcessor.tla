---------------------------- MODULE FileProcessor ----------------------------
(***************************************************************************)
(* What a caller of FileProcessor::process_file (src/src/app/file_processor.h) *)
(* may expect: a file goes in, and the call returns with every report of    *)
(* every order of the file in the output, each once and in order, and with  *)
(* counters that agree.  No threads, no queues.                             *)
(*                                                                          *)
(* A file is the sequence of its lines, the header included.  A line is a   *)
(* number: n > 0 is an order that n execution reports answer, Short a line  *)
(* with fewer than five fields, Unparsable a line one of whose numbers      *)
(* cannot be read.  << >> is an empty file, or one that cannot be opened.   *)
(***************************************************************************)
EXTENDS Integers, Sequences, SequencesExt

Short == 0
Unparsable == -1

\* The first row of the output.
Header == <<0, 0>>

\* The orders among the first n lines, of which the first is the header.
OrdersAmong(lines, n) ==
    LET among[k \in 0 .. Len(lines)] ==
            IF k <= 1 THEN << >>
            ELSE IF lines[k] > 0 THEN Append(among[k - 1], lines[k])
            ELSE among[k - 1]
    IN among[n]

OrderLines(lines) == OrdersAmong(lines, Len(lines))

\* Does reading the file meet a number that cannot be read?
HasUnparsable(lines) ==
    \E k \in 2 .. Len(lines) : lines[k] = Unparsable

\* The reports on the first n orders: <<s, k>> is the k-th report on order s.
ReportsOnFirst(n, lines) ==
    FlattenSeq([s \in 1 .. n |->
                    [k \in 1 .. OrderLines(lines)[s] |-> <<s, k>>]])

\* The output of a file that is processed to the end.
Expected(lines) ==
    <<Header>> \o ReportsOnFirst(Len(OrderLines(lines)), lines)

CONSTANT Files      \* the input files

VARIABLES
    phase,      \* "idle", "busy", or "exited" when the process is gone
    file,       \* the file being processed, or the last one
    output,     \* the rows in the output file
    counted     \* orders produced and consumed, as last reported

vars == <<phase, file, output, counted>>

Init ==
    /\ phase = "idle"
    /\ file = << >>
    /\ output = << >>
    /\ counted = <<0, 0>>

\* A call begins with an empty output.
Begin ==
    /\ phase = "idle"
    /\ phase' = "busy"
    /\ file' \in Files
    /\ output' = << >>
    /\ UNCHANGED counted

\* More of the expected rows reach the output.
Write ==
    /\ phase = "busy"
    /\ IsPrefix(output, output') /\ IsPrefix(output', Expected(file))
    /\ UNCHANGED <<phase, file, counted>>

\* The call returns: the output is complete and the counters are exact.
Return ==
    /\ phase = "busy"
    /\ ~ HasUnparsable(file)
    /\ output = Expected(file)
    /\ counted' = <<Len(OrderLines(file)), Len(OrderLines(file))>>
    /\ phase' = "idle"
    /\ UNCHANGED <<file, output>>

\* The process dies: in the call, or at its start with the last output still
\* there.
Die ==
    /\ phase # "exited"
    /\ phase' = "exited"
    /\ UNCHANGED <<file, output, counted>>

Next == Begin \/ Write \/ Return \/ Die

Spec == Init /\ [][Next]_vars
=============================================================================
