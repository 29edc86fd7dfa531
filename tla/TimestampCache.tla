--------------------------- MODULE TimestampCache ---------------------------
(***************************************************************************)
(* The cached time of day, src/src/common/timestamp_cache.cpp: a refresher  *)
(* thread writes the text again and again, readers copy it, a mutex keeps   *)
(* them apart.  Start and stop are called by one owner.                     *)
(*                                                                          *)
(* A text is the moment it was made from, and is written and copied in two  *)
(* steps, so <<2, 1>> is a torn one; <<0, 0>> is the empty text of a new    *)
(* cache.  The wall clock is taken never to be set back.                    *)
(***************************************************************************)
EXTENDS Integers

CONSTANTS
    Readers,    \* threads that call snapshot
    MaxClock,   \* bound on the clock
    NULL        \* no thread

Owner == "owner"
Refresher == "worker_"
Threads == {Owner, Refresher} \cup Readers

ASSUME CacheAssumption ==
    /\ MaxClock \in Nat \ {0}
    /\ NULL \notin Threads
    /\ {Owner, Refresher} \cap Readers = {}

VARIABLES
    clock,              \* system_clock::now()
    running_,
    mutex_,             \* the thread that holds it, or NULL
    current_timestamp_, \* the cached text, as its two halves
    at,                 \* where each thread is
    next,               \* refresh_once's local text, of the owner and the worker
    out                 \* the buffer each reader copies to

cacheVars == <<clock, running_, mutex_, current_timestamp_, at, next, out>>

CacheInit ==
    /\ clock = 1
    /\ running_ = FALSE
    /\ mutex_ = NULL
    /\ current_timestamp_ = <<0, 0>>
    /\ at = [t \in Threads |-> IF t = Refresher THEN "none" ELSE "idle"]
    /\ next = [t \in {Owner, Refresher} |-> 0]
    /\ out = [r \in Readers |-> <<0, 0>>]

Tick ==
    /\ clock < MaxClock
    /\ clock' = clock + 1
    /\ UNCHANGED <<running_, mutex_, current_timestamp_, at, next, out>>

Goto(t, place) == at' = [at EXCEPT ![t] = place]

-----------------------------------------------------------------------------
(* refresh_once, by the owner in start and by the worker in its loop.       *)

\* The text is made before the mutex is taken.
ReadClock(t) ==
    /\ at[t] = "refresh"
    /\ next' = [next EXCEPT ![t] = clock]
    /\ Goto(t, "lock")
    /\ UNCHANGED <<clock, running_, mutex_, current_timestamp_, out>>

WriteHalf(t) ==
    /\ at[t] = "lock" /\ mutex_ = NULL
    /\ mutex_' = t
    /\ current_timestamp_' = [current_timestamp_ EXCEPT ![1] = next[t]]
    /\ Goto(t, "write")
    /\ UNCHANGED <<clock, running_, next, out>>

\* The rest is written and the mutex released; the owner goes on to make the
\* worker, the worker to the test of its loop.
WriteRest(t) ==
    /\ at[t] = "write"
    /\ mutex_' = NULL
    /\ current_timestamp_' = [current_timestamp_ EXCEPT ![2] = next[t]]
    /\ Goto(t, IF t = Owner THEN "spawn" ELSE "loop")
    /\ UNCHANGED <<clock, running_, next, out>>

refresh_once(t) == ReadClock(t) \/ WriteHalf(t) \/ WriteRest(t)

-----------------------------------------------------------------------------
(* The owner.                                                               *)

\* The flag is exchanged; nothing more when it was set already.
start ==
    /\ at[Owner] = "idle"
    /\ running_' = TRUE
    /\ Goto(Owner, IF running_ THEN "idle" ELSE "refresh")
    /\ UNCHANGED <<clock, mutex_, current_timestamp_, next, out>>

\* The worker is made and start returns.
Spawn ==
    /\ at[Owner] = "spawn"
    /\ at' = [at EXCEPT ![Owner] = "idle", ![Refresher] = "loop"]
    /\ UNCHANGED <<clock, running_, mutex_, current_timestamp_, next, out>>

\* MUTANT: the flag is only read.
stop_FlagKept ==
    /\ at[Owner] = "idle"
    /\ Goto(Owner, IF running_ THEN "join" ELSE "idle")
    /\ UNCHANGED <<clock, running_, mutex_, current_timestamp_, next, out>>

\* The flag is exchanged; nothing more when it was clear already.
stop ==
    /\ at[Owner] = "idle"
    /\ running_' = FALSE
    /\ Goto(Owner, IF running_ THEN "join" ELSE "idle")
    /\ UNCHANGED <<clock, mutex_, current_timestamp_, next, out>>

\* MUTANT: stop returns without waiting for the worker.
Join_NoWait ==
    /\ at[Owner] = "join"
    /\ Goto(Owner, "idle")
    /\ UNCHANGED <<clock, running_, mutex_, current_timestamp_, next, out>>

\* stop returns when the worker has ended, which is then no thread any more.
Join ==
    /\ at[Owner] = "join" /\ at[Refresher] = "done"
    /\ at' = [at EXCEPT ![Owner] = "idle", ![Refresher] = "none"]
    /\ UNCHANGED <<clock, running_, mutex_, current_timestamp_, next, out>>

-----------------------------------------------------------------------------
(* The worker and the readers.                                              *)

\* MUTANT: the worker refreshes once.
Loop_Once ==
    /\ at[Refresher] = "loop"
    /\ Goto(Refresher, IF running_ /\ next[Refresher] = 0 THEN "refresh" ELSE "done")
    /\ UNCHANGED <<clock, running_, mutex_, current_timestamp_, next, out>>

\* The test of the worker's loop.  Its sleep is a pause before this step.
Loop ==
    /\ at[Refresher] = "loop"
    /\ Goto(Refresher, IF running_ THEN "refresh" ELSE "done")
    /\ UNCHANGED <<clock, running_, mutex_, current_timestamp_, next, out>>

\* MUTANT: the text is copied without the mutex.
CopyHalf_Unlocked(r) ==
    /\ at[r] = "idle"
    /\ out' = [out EXCEPT ![r][1] = current_timestamp_[1]]
    /\ Goto(r, "copy")
    /\ UNCHANGED <<clock, running_, mutex_, current_timestamp_, next>>

\* snapshot takes the mutex and copies the text.
CopyHalf(r) ==
    /\ at[r] = "idle" /\ mutex_ = NULL
    /\ mutex_' = r
    /\ out' = [out EXCEPT ![r][1] = current_timestamp_[1]]
    /\ Goto(r, "copy")
    /\ UNCHANGED <<clock, running_, current_timestamp_, next>>

CopyRest(r) ==
    /\ at[r] = "copy"
    /\ mutex_' = NULL
    /\ out' = [out EXCEPT ![r][2] = current_timestamp_[2]]
    /\ Goto(r, "idle")
    /\ UNCHANGED <<clock, running_, current_timestamp_, next>>

-----------------------------------------------------------------------------

\* Steps the owner makes inside start and stop.
OwnerStep == refresh_once(Owner) \/ Spawn \/ Join
WorkerStep == refresh_once(Refresher) \/ Loop
ReaderStep(r) == CopyHalf(r) \/ CopyRest(r)

\* A cache whose owner starts and stops it as it likes.
CacheNext ==
    \/ Tick \/ start \/ stop \/ OwnerStep \/ WorkerStep
    \/ \E r \in Readers : ReaderStep(r)

CacheSpec == CacheInit /\ [][CacheNext]_cacheVars
=============================================================================
