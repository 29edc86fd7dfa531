--------------------------- MODULE FlowerExchange ---------------------------
(***************************************************************************)
(* The whole program, from main (src/src/main.cpp) down to its threads: the *)
(* application is made and with it the order processor, which starts the    *)
(* timestamp cache; run handles the commands; at QUIT all is destroyed      *)
(* again and main returns.                                                  *)
(*                                                                          *)
(* Of a call of process_file there is here what it has to do with the rest: *)
(* its matcher thread takes a snapshot for every order, which stamps the    *)
(* order's reports, and the process may die in it.  Pipeline has the call   *)
(* in full, and that it comes to an end.                                    *)
(***************************************************************************)
EXTENDS Application, TimestampCache

CONSTANTS MaxStamps     \* bound on the orders stamped, over all files

Matcher == "matcher"

ASSUME ProgramAssumption == Matcher \in Readers

VARIABLES
    phase,  \* of main: new, running, stopping, destroyed or ended
    stamps  \* the timestamps of the orders, in the order of the reports

vars == <<appVars, cacheVars, phase, stamps>>

Init ==
    /\ AppInit
    /\ CacheInit
    /\ phase = "new"
    /\ stamps = << >>

-----------------------------------------------------------------------------
(* The main thread.                                                         *)

\* Application, FileProcessingPipeline and OrderProcessor are made, and the
\* last of them starts the cache.
Construct ==
    /\ phase = "new"
    /\ start
    /\ phase' = "running"
    /\ UNCHANGED <<appVars, stamps>>

\* run, which process_file returns to when its matcher has been joined.
Run ==
    /\ phase = "running" /\ at[Owner] = "idle"
    /\ \/ Read \/ Quit \/ Delegate \/ Ignore
       \/ CallReturns /\ at[Matcher] = "idle"
    /\ UNCHANGED <<cacheVars, phase, stamps>>

\* ~OrderProcessor stops the cache ...
DestroyProcessor ==
    /\ phase = "running" /\ run_at = "returned"
    /\ stop
    /\ phase' = "stopping"
    /\ UNCHANGED <<appVars, stamps>>

\* ... and ~TimestampCache does once more.
DestroyCache ==
    /\ phase = "stopping"
    /\ stop
    /\ phase' = "destroyed"
    /\ UNCHANGED <<appVars, stamps>>

MainReturns ==
    /\ phase = "destroyed" /\ at[Owner] = "idle"
    /\ phase' = "ended"
    /\ UNCHANGED <<appVars, cacheVars, stamps>>

Main ==
    \/ Construct \/ Run \/ DestroyProcessor \/ DestroyCache \/ MainReturns
    \/ phase # "ended" /\ OwnerStep /\ UNCHANGED <<appVars, phase, stamps>>

-----------------------------------------------------------------------------
(* The other threads, which end with the process.                           *)

Worker == phase # "ended" /\ WorkerStep /\ UNCHANGED <<appVars, phase, stamps>>

\* The next order of the file takes a snapshot, and has its reports stamped.
Stamp ==
    /\ phase # "ended" /\ run_at = "call"
    /\ \/ Len(stamps) < MaxStamps /\ CopyHalf(Matcher) /\ UNCHANGED stamps
       \/ CopyRest(Matcher) /\ stamps' = Append(stamps, out'[Matcher])
    /\ UNCHANGED <<appVars, phase>>

\* The process dies in a call: an exception leaves a thread, or a thread
\* cannot be pinned (Pipeline).
Dies ==
    /\ phase # "ended" /\ run_at = "call"
    /\ phase' = "ended"
    /\ UNCHANGED <<appVars, cacheVars, stamps>>

Ended == phase = "ended" /\ UNCHANGED vars

Next ==
    \/ Main \/ Worker \/ Stamp \/ Dies \/ Ended
    \/ phase # "ended" /\ Tick /\ UNCHANGED <<appVars, phase, stamps>>

Spec == Init /\ [][Next]_vars

\* Every thread is scheduled again and again.
FairSpec == Spec /\ WF_vars(Main) /\ WF_vars(Worker) /\ WF_vars(Stamp)

-----------------------------------------------------------------------------
(* Properties.                                                              *)

\* Every report carries a whole time, of a moment between the start of the
\* program and now, and later orders no earlier time: no report has half of
\* one time and half of the next, or the empty text a cache begins with
\* (order_processor.cpp:136-137, timestamp_cache.cpp:17-18, 40-42, 52-53).
StampsReal ==
    /\ \A k \in DOMAIN stamps :
        stamps[k][1] = stamps[k][2] /\ stamps[k][1] \in 1 .. clock
    /\ \A k \in DOMAIN stamps : \A j \in 1 .. k : stamps[j][1] <= stamps[k][1]

\* When the cache is gone so is its worker, which would go on to lock and
\* write it (timestamp_cache.cpp:26-33, order_processor.cpp:90-93).
NoThreadOutlivesCache ==
    phase \in {"destroyed", "ended"} /\ at[Owner] = "idle" /\ run_at = "returned"
        => at[Refresher] = "none" /\ mutex_ = NULL

\* An input with a QUIT ends the program: the worker sees the cleared flag
\* and stop does not wait for ever (timestamp_cache.cpp:19-22, 27-31).
QuitEnds == QuitGiven ~> phase = "ended"

\* The cached time follows the clock for as long as the program runs
\* (timestamp_cache.cpp:19-22): the worker neither leaves its loop early nor
\* waits for ever for the mutex.
TimeMovesOn ==
    \A c \in 1 .. MaxClock :
        clock >= c ~> current_timestamp_[2] >= c \/ run_at = "returned"
                        \/ phase = "ended"
=============================================================================
