------------------------ MODULE FlowerExchange_proofs ------------------------
(***************************************************************************)
(* The inductive invariant of TimestampCache, for any set of readers and    *)
(* any owner that starts and stops the cache as it likes, and the safety of *)
(* the whole program, for every input and any number of orders.             *)
(*                                                                          *)
(* Every step of the program is one that TimestampCache allows to the       *)
(* owner, the worker and the readers of a cache, so that its invariant      *)
(* holds here too; ProgramInv adds when main starts and stops the cache and *)
(* what the stamps were copied from.                                        *)
(*                                                                          *)
(* Every step is also one that Application allows.  AppInv relates the      *)
(* calls of process_file to the lines read.                                 *)
(***************************************************************************)
EXTENDS FlowerExchange, SequenceTheorems, WellFoundedInduction, TLAPS

Writers == {Owner, Refresher}
Text == [1 .. 2 -> Nat]

CacheTypes ==
    /\ clock \in Nat /\ clock >= 1
    /\ running_ \in BOOLEAN
    /\ mutex_ \in Threads \cup {NULL}
    /\ current_timestamp_ \in Text
    /\ at \in [Threads -> {"none", "idle", "refresh", "lock", "write", "spawn",
                           "join", "loop", "done", "copy"}]
    /\ at[Owner] \in {"idle", "refresh", "lock", "write", "spawn", "join"}
    /\ at[Refresher] \in {"none", "loop", "refresh", "lock", "write", "done"}
    /\ \A r \in Readers : at[r] \in {"idle", "copy"}
    /\ next \in [Writers -> Nat]
    /\ out \in [Readers -> Text]

\* The mutex is held by the one thread that is writing or copying.
MutexHeld ==
    /\ \A t \in Writers : at[t] = "write" <=> mutex_ = t
    /\ \A r \in Readers : at[r] = "copy" <=> mutex_ = r

\* The owner refreshes only while there is no worker, and there is one
\* whenever the flag is set between two calls, or while stop waits for it.
OneWriter ==
    /\ at[Owner] \in {"refresh", "lock", "write", "spawn"} =>
            running_ /\ at[Refresher] = "none"
    /\ at[Owner] = "idle" => (running_ <=> at[Refresher] # "none")
    /\ at[Owner] = "idle" => at[Refresher] # "done"
    /\ at[Owner] = "join" => ~running_ /\ at[Refresher] # "none"

\* The text is whole unless one thread is writing it, and that thread is
\* about to write a time no older; what a reader has copied is still there.
TextWhole ==
    /\ mutex_ \notin Writers => current_timestamp_[1] = current_timestamp_[2]
    /\ \A t \in Writers :
        at[t] = "write" => current_timestamp_[1] = next[t]
    /\ \A r \in Readers : at[r] = "copy" => out[r][1] = current_timestamp_[1]

Times ==
    /\ current_timestamp_[1] <= clock /\ current_timestamp_[2] <= clock
    /\ \A t \in Writers :
        at[t] \in {"lock", "write"} =>
            /\ 1 <= next[t] /\ next[t] <= clock
            /\ current_timestamp_[2] <= next[t]
    /\ at[Owner] = "spawn" \/ at[Refresher] # "none" => 1 <= current_timestamp_[2]

CacheInv == CacheTypes /\ MutexHeld /\ OneWriter /\ TextWhole /\ Times

\* A new cache satisfies the invariant.
LEMMA CacheInitInv == CacheInit => CacheInv
<1> SUFFICES ASSUME CacheInit PROVE CacheInv
    OBVIOUS
<1> USE CacheAssumption DEF CacheInit, Threads, Writers, Owner, Refresher
<1>1. <<0, 0>> \in Text
    BY DEF Text
<1>2. at["owner"] = "idle" /\ at["worker_"] = "none"
    OBVIOUS
<1>3. \A r \in Readers : at[r] = "idle"
    OBVIOUS
<1>4. CacheTypes
  <2>1. at \in [Threads -> {"none", "idle", "refresh", "lock", "write", "spawn",
                           "join", "loop", "done", "copy"}]
    OBVIOUS
  <2>2. next \in [Writers -> Nat] /\ out \in [Readers -> Text]
    BY <1>1
  <2>3. clock \in Nat /\ clock >= 1
    OBVIOUS
  <2>6. running_ \in BOOLEAN
    OBVIOUS
  <2>7. mutex_ \in Threads \cup {NULL}
    OBVIOUS
  <2>4. current_timestamp_ \in Text
    BY <1>1
  <2>5. /\ at[Owner] \in {"idle", "refresh", "lock", "write", "spawn", "join"}
        /\ at[Refresher] \in {"none", "loop", "refresh", "lock", "write", "done"}
        /\ \A r \in Readers : at[r] \in {"idle", "copy"}
    BY <1>2, <1>3
  <2> HIDE DEF CacheInit
  <2> QED
    BY <2>1, <2>2, <2>3, <2>4, <2>5, <2>6, <2>7 DEF CacheTypes
<1>5. MutexHeld
  <2>1. mutex_ # "owner" /\ mutex_ # "worker_"
    OBVIOUS
  <2>2. \A r \in Readers : mutex_ # r
    OBVIOUS
  <2> QED
    BY <1>2, <1>3, <2>1, <2>2 DEF MutexHeld
<1>6. OneWriter
    BY <1>2 DEF OneWriter
<1>7. TextWhole
    BY <1>2, <1>3 DEF TextWhole
<1>8. Times
    BY <1>2 DEF Times
<1> QED
    BY <1>4, <1>5, <1>6, <1>7, <1>8 DEF CacheInv

\* Every step of every thread preserves it.
LEMMA CacheStep == CacheInv /\ [CacheNext]_cacheVars => CacheInv'
<1> SUFFICES ASSUME CacheInv, [CacheNext]_cacheVars PROVE CacheInv'
    OBVIOUS
<1> USE CacheAssumption DEF Owner, Refresher, Threads, Writers, Text, Goto
<1>0. CacheTypes /\ MutexHeld /\ OneWriter /\ TextWhole /\ Times
    BY DEF CacheInv
<1>1. CASE Tick
    BY <1>0, <1>1 DEF Tick, CacheInv, CacheTypes, MutexHeld, OneWriter, TextWhole, Times
<1>2. CASE start
    BY <1>0, <1>2 DEF start, CacheInv, CacheTypes, MutexHeld, OneWriter, TextWhole, Times
<1>3. CASE stop
    BY <1>0, <1>3 DEF stop, CacheInv, CacheTypes, MutexHeld, OneWriter, TextWhole, Times
<1>4. CASE Spawn
    BY <1>0, <1>4 DEF Spawn, CacheInv, CacheTypes, MutexHeld, OneWriter, TextWhole, Times
<1>5. CASE Join
    BY <1>0, <1>5 DEF Join, CacheInv, CacheTypes, MutexHeld, OneWriter, TextWhole, Times
<1>6. CASE Loop
    BY <1>0, <1>6 DEF Loop, CacheInv, CacheTypes, MutexHeld, OneWriter, TextWhole, Times
<1>7. ASSUME NEW t \in Writers, ReadClock(t) PROVE CacheInv'
    BY <1>0, <1>7 DEF ReadClock, CacheInv, CacheTypes, MutexHeld, OneWriter, TextWhole, Times
<1>8. ASSUME NEW t \in Writers, WriteHalf(t) PROVE CacheInv'
    BY <1>0, <1>8 DEF WriteHalf, CacheInv, CacheTypes, MutexHeld, OneWriter, TextWhole, Times
<1>9. ASSUME NEW t \in Writers, WriteRest(t) PROVE CacheInv'
    BY <1>0, <1>9 DEF WriteRest, CacheInv, CacheTypes, MutexHeld, OneWriter, TextWhole, Times
<1>10. ASSUME NEW r \in Readers, CopyHalf(r) PROVE CacheInv'
    BY <1>0, <1>10 DEF CopyHalf, CacheInv, CacheTypes, MutexHeld, OneWriter, TextWhole, Times
<1>11. ASSUME NEW r \in Readers, CopyRest(r) PROVE CacheInv'
    BY <1>0, <1>11 DEF CopyRest, CacheInv, CacheTypes, MutexHeld, OneWriter, TextWhole, Times
<1>12. CASE UNCHANGED cacheVars
    BY <1>0, <1>12 DEF cacheVars, CacheInv, CacheTypes, MutexHeld, OneWriter, TextWhole, Times
<1> QED
    BY <1>1, <1>2, <1>3, <1>4, <1>5, <1>6, <1>7, <1>8, <1>9, <1>10, <1>11, <1>12
    DEF CacheNext, OwnerStep, WorkerStep, ReaderStep, refresh_once

\* However the owner uses it, and for any number of readers, the cache keeps
\* its text whole between the critical sections, has one writer at a time and
\* never goes back in time (timestamp_cache.cpp:12-54).
THEOREM CacheInvariance == CacheSpec => []CacheInv
BY CacheInitInv, CacheStep, PTL DEF CacheSpec

-----------------------------------------------------------------------------
(* The program.                                                             *)

\* Where main is decides whether the cache runs, and what run may be doing.
PhaseInv ==
    /\ phase \in {"new", "running", "stopping", "destroyed", "ended"}
    /\ phase = "new" => at[Owner] = "idle" /\ run_at = "read"
    /\ phase = "running" => running_
    /\ phase \in {"stopping", "destroyed"} => ~running_ /\ run_at = "returned"
    /\ phase = "ended" /\ run_at = "returned" => ~running_

\* During a call of process_file the cache is up; only its matcher copies.
CallInv ==
    /\ run_at = "call" /\ phase # "ended" => phase = "running" /\ at[Owner] = "idle"
    /\ \A r \in Readers : at[r] = "copy" => r = Matcher /\ run_at = "call"

\* Every stamp is a whole time no later than the cached one.
StampInv ==
    /\ stamps \in Seq(Text)
    /\ \A k \in 1 .. Len(stamps) :
        /\ stamps[k][1] = stamps[k][2]
        /\ 1 <= stamps[k][1] /\ stamps[k][1] <= current_timestamp_[2]
    /\ \A k \in 1 .. Len(stamps) : \A j \in 1 .. k : stamps[j][1] <= stamps[k][1]

ProgramInv == PhaseInv /\ CallInv /\ StampInv

-----------------------------------------------------------------------------

\* Every step of the program is a step of the cache with an owner, a worker
\* and readers, or leaves the cache alone.
LEMMA StepIsCacheStep == [Next]_vars => [CacheNext]_cacheVars
<1> SUFFICES ASSUME [Next]_vars PROVE CacheNext \/ UNCHANGED cacheVars
    OBVIOUS
<1>1. CASE Main
    BY <1>1 DEF Main, Construct, Run, DestroyProcessor, DestroyCache,
        MainReturns, CacheNext
<1>2. CASE Worker
    BY <1>2 DEF Worker, CacheNext
<1>3. CASE Stamp
    BY <1>3, ProgramAssumption DEF Stamp, CacheNext, ReaderStep
<1>4. CASE Dies \/ Ended
    BY <1>4 DEF Dies, Ended, vars
<1>5. CASE Tick
    BY <1>5 DEF CacheNext
<1>6. CASE UNCHANGED vars
    BY <1>6 DEF vars
<1> QED
    BY <1>1, <1>2, <1>3, <1>4, <1>5, <1>6 DEF Next

\* Neither the clock nor the second half of the cached text goes back.
LEMMA TimeForward ==
    ASSUME CacheInv, [CacheNext]_cacheVars
    PROVE  clock' >= clock /\ current_timestamp_'[2] >= current_timestamp_[2]
<1>0. /\ clock \in Nat /\ current_timestamp_ \in Text
      /\ current_timestamp_[2] \in Nat
    BY DEF CacheInv, CacheTypes, Text
<1>1. CASE \E t \in Writers : WriteRest(t)
  <2> PICK t \in Writers : WriteRest(t)
    BY <1>1
  <2>1. /\ clock' = clock
        /\ current_timestamp_'[2] = next[t]
        /\ at[t] = "write"
    BY <1>0 DEF WriteRest, Text
  <2>2. current_timestamp_[2] <= next[t] /\ next[t] \in Nat
    BY <2>1 DEF CacheInv, Times, CacheTypes
  <2> QED
    BY <1>0, <2>1, <2>2
<1>2. CASE \E t \in Writers : WriteHalf(t)
    BY <1>0, <1>2 DEF WriteHalf, Text
<1>3. CASE \E t \in Writers : ReadClock(t)
    BY <1>0, <1>3 DEF ReadClock
<1>4. CASE Tick \/ start \/ stop \/ Spawn \/ Join \/ Loop \/ UNCHANGED cacheVars
    BY <1>0, <1>4 DEF Tick, start, stop, Spawn, Join, Loop, cacheVars
<1>5. CASE \E r \in Readers : ReaderStep(r)
    BY <1>0, <1>5 DEF ReaderStep, CopyHalf, CopyRest
<1> QED
    BY <1>1, <1>2, <1>3, <1>4, <1>5
    DEF CacheNext, OwnerStep, WorkerStep, refresh_once, Writers

-----------------------------------------------------------------------------

\* The program before main's first step satisfies the invariant.
LEMMA ProgramInit == Init => ProgramInv
<1> SUFFICES ASSUME Init PROVE ProgramInv
    OBVIOUS
<1>1. at["owner"] = "idle" /\ \A r \in Readers : at[r] = "idle"
    BY CacheAssumption DEF Init, CacheInit, Threads, Owner, Refresher
<1>2. phase = "new" /\ run_at = "read" /\ stamps = << >>
    BY DEF Init, AppInit
<1> QED
    BY <1>1, <1>2 DEF ProgramInv, PhaseInv, CallInv, StampInv, Owner

\* A step that leaves the stamps alone keeps what is known of them.
LEMMA StampsKept ==
    ASSUME CacheInv, CacheInv', [Next]_vars, StampInv, UNCHANGED stamps
    PROVE  StampInv'
<1>1. current_timestamp_'[2] >= current_timestamp_[2]
    BY StepIsCacheStep, TimeForward
<1>2. current_timestamp_[2] \in Nat /\ current_timestamp_'[2] \in Nat
    BY DEF CacheInv, CacheTypes, Text
<1>3. \A k \in 1 .. Len(stamps) : stamps[k][1] \in Nat
    BY DEF StampInv, Text
<1> QED
    BY <1>1, <1>2, <1>3 DEF StampInv

\* main's own steps.
LEMMA MainStep == CacheInv /\ ProgramInv /\ Main => PhaseInv' /\ CallInv'
<1> SUFFICES ASSUME CacheInv, ProgramInv, Main PROVE PhaseInv' /\ CallInv'
    OBVIOUS
<1> USE DEF ProgramInv, PhaseInv, CallInv, Owner, Refresher
<1>0. /\ OneWriter /\ at = [t \in Threads |-> at[t]]
      /\ Readers \subseteq Threads /\ "owner" \in Threads /\ "worker_" \in Threads
      /\ "owner" \notin Readers /\ "worker_" \notin Readers
    BY ProgramAssumption, CacheAssumption DEF CacheInv, CacheTypes, Threads
<1>1. CASE Construct
    BY <1>0, <1>1 DEF Construct, start, appVars, Goto
<1>2. CASE Run
  <2>1. /\ phase = "running" /\ at["owner"] = "idle"
        /\ UNCHANGED <<at, running_, phase>>
    BY <1>2 DEF Run, cacheVars
  <2>2. CASE Read \/ Ignore
    BY <2>1, <2>2 DEF Read, Ignore
  <2>3. CASE Quit
    BY <2>1, <2>3 DEF Quit
  <2>4. CASE Delegate
    BY <2>1, <2>4 DEF Delegate
  <2>5. CASE CallReturns /\ at[Matcher] = "idle"
    BY <2>1, <2>5 DEF CallReturns
  <2> QED
    BY <1>2, <2>2, <2>3, <2>4, <2>5 DEF Run
<1>3. CASE DestroyProcessor
    BY <1>0, <1>3 DEF DestroyProcessor, stop, appVars, Goto
<1>4. CASE DestroyCache
    BY <1>0, <1>4 DEF DestroyCache, stop, appVars, Goto
<1>5. CASE MainReturns
    BY <1>0, <1>5 DEF MainReturns, appVars, cacheVars
<1>6. CASE phase # "ended" /\ OwnerStep /\ UNCHANGED <<appVars, phase, stamps>>
  <2>1. CASE refresh_once(Owner)
    BY <1>0, <1>6, <2>1
    DEF refresh_once, ReadClock, WriteHalf, WriteRest, appVars, Goto
  <2>2. CASE Spawn
    BY <1>0, <1>6, <2>2 DEF Spawn, appVars
  <2>3. CASE Join
    BY <1>0, <1>6, <2>3 DEF Join, appVars
  <2> QED
    BY <1>6, <2>1, <2>2, <2>3 DEF OwnerStep
<1> QED
    BY <1>1, <1>2, <1>3, <1>4, <1>5, <1>6 DEF Main

\* The matcher appends what it copied from a whole text no older than any
\* stamp before, and not empty: the cache is up.
LEMMA StampStep ==
    ASSUME CacheInv, CacheInv', ProgramInv, Stamp PROVE ProgramInv'
<1> USE DEF Owner, Refresher
<1>0. /\ CacheTypes /\ MutexHeld /\ OneWriter /\ TextWhole /\ Times
      /\ Matcher \in Readers /\ Matcher \in Threads
      /\ Matcher # "owner" /\ Matcher # "worker_"
    BY ProgramAssumption, CacheAssumption DEF CacheInv, Threads
<1>1. PhaseInv' /\ CallInv'
  <2>1. run_at = "call" /\ UNCHANGED <<run_at, phase, running_>>
    BY DEF Stamp, CopyHalf, CopyRest, appVars
  <2>2. \A t \in Threads : t # Matcher => at'[t] = at[t]
    BY <1>0 DEF Stamp, CopyHalf, CopyRest, Goto, CacheTypes
  <2>3. PhaseInv'
    BY <1>0, <2>1, <2>2 DEF ProgramInv, PhaseInv, Threads
  <2> QED
    BY <1>0, <2>1, <2>2, <2>3 DEF ProgramInv, CallInv, Threads
<1>2. CASE UNCHANGED stamps
  <2>1. StampInv'
    BY <1>2, StampsKept DEF Next, ProgramInv
  <2> QED
    BY <1>1, <2>1 DEF ProgramInv
<1>3. CASE CopyRest(Matcher) /\ stamps' = Append(stamps, out'[Matcher])
  <2> DEFINE new == out'[Matcher]
  <2>1. new \in Text /\ new[1] = out[Matcher][1] /\ new[2] = current_timestamp_[2]
    BY <1>0, <1>3 DEF CopyRest, CacheTypes, Text
  <2>2. at[Matcher] = "copy" /\ mutex_ = Matcher /\ at["owner"] = "idle" /\ running_
    BY <1>0, <1>3 DEF CopyRest, MutexHeld, Stamp, ProgramInv, PhaseInv, CallInv
  <2>3. new[1] = current_timestamp_[1] /\ new[1] = new[2]
    BY <1>0, <2>1, <2>2 DEF TextWhole, Writers
  <2>4. 1 <= current_timestamp_[2] /\ current_timestamp_[2] \in Nat
    BY <1>0, <2>2 DEF Times, OneWriter, CacheTypes, Text
  <2>5. current_timestamp_' = current_timestamp_
    BY <1>3 DEF CopyRest
  <2>6. StampInv
    BY DEF ProgramInv
  <2>7. /\ stamps' \in Seq(Text) /\ Len(stamps') = Len(stamps) + 1
        /\ \A k \in 1 .. Len(stamps) : stamps'[k] = stamps[k]
        /\ stamps'[Len(stamps) + 1] = new
    BY <1>3, <2>1, <2>6 DEF StampInv
  <2> HIDE DEF new
  <2>8. \A k \in 1 .. Len(stamps') :
            /\ stamps'[k][1] = stamps'[k][2]
            /\ 1 <= stamps'[k][1] /\ stamps'[k][1] <= current_timestamp_'[2]
    BY <2>1, <2>3, <2>4, <2>5, <2>6, <2>7 DEF StampInv
  <2>9. \A k \in 1 .. Len(stamps') : \A j \in 1 .. k : stamps'[j][1] <= stamps'[k][1]
    BY <2>1, <2>3, <2>4, <2>6, <2>7 DEF StampInv
  <2> QED
    BY <1>1, <2>7, <2>8, <2>9 DEF ProgramInv, StampInv
<1> QED
    BY <1>2, <1>3 DEF Stamp

\* Every step preserves the invariant of the program.
LEMMA ProgramStep ==
    ASSUME CacheInv, CacheInv', ProgramInv, [Next]_vars PROVE ProgramInv'
<1> USE DEF Owner, Refresher
<1>0. /\ CacheTypes
      /\ \A t \in {"owner", "worker_"} : t \notin Readers
    BY CacheAssumption DEF CacheInv
<1>1. CASE Main
  <2>1. UNCHANGED stamps
    BY <1>1 DEF Main, Construct, Run, DestroyProcessor, DestroyCache, MainReturns
  <2> QED
    BY <1>1, <2>1, MainStep, StampsKept DEF ProgramInv
<1>2. CASE Stamp
    BY <1>2, StampStep
<1>3. CASE Worker
  <2>1. UNCHANGED <<run_at, phase, stamps, running_>>
    BY <1>3 DEF Worker, WorkerStep, refresh_once, ReadClock, WriteHalf,
        WriteRest, Loop, appVars
  <2>2. \A t \in Threads : t # "worker_" => at'[t] = at[t]
    BY <1>0, <1>3 DEF Worker, WorkerStep, refresh_once, ReadClock, WriteHalf,
        WriteRest, Loop, Goto, CacheTypes
  <2>3. at'["owner"] = at["owner"] /\ \A r \in Readers : at'[r] = at[r]
    BY <1>0, <2>2 DEF Threads
  <2> QED
    BY <2>1, <2>3, StampsKept DEF ProgramInv, PhaseInv, CallInv
<1>4. CASE Dies
    BY <1>4, StampsKept DEF Dies, appVars, cacheVars, ProgramInv, PhaseInv, CallInv
<1>5. CASE Tick /\ UNCHANGED <<appVars, phase, stamps>>
    BY <1>5, StampsKept DEF Tick, appVars, ProgramInv, PhaseInv, CallInv
<1>6. CASE UNCHANGED vars
    BY <1>6, StampsKept DEF vars, appVars, cacheVars, ProgramInv, PhaseInv, CallInv
<1> QED
    BY <1>1, <1>2, <1>3, <1>4, <1>5, <1>6 DEF Next, Ended

\* The program uses the cache as its specification allows: it starts and
\* stops it from one thread (main.cpp, order_processor.cpp:86-93).
THEOREM UsesCache == Spec => CacheSpec
<1>1. Init => CacheInit
    BY DEF Init
<1> QED
    BY <1>1, StepIsCacheStep, PTL DEF Spec, CacheSpec

\* The invariants hold throughout.
THEOREM ProgramInvariance == Spec => [](CacheInv /\ ProgramInv)
<1>1. Spec => []CacheInv
    BY UsesCache, CacheInvariance, PTL
<1>2. CacheInv /\ CacheInv' /\ ProgramInv /\ [Next]_vars => ProgramInv'
    BY ProgramStep
<1> QED
    BY <1>1, <1>2, ProgramInit, PTL DEF Spec

\* Every report of every order carries a whole time that the program has
\* seen, and later orders no earlier one (order_processor.cpp:136-137,
\* timestamp_cache.cpp:17-18, 40-42, 52-53).
THEOREM StampsAreReal == Spec => []StampsReal
<1>1. CacheInv /\ ProgramInv => StampsReal
  <2> SUFFICES ASSUME CacheInv, ProgramInv PROVE StampsReal
    OBVIOUS
  <2>1. clock \in Nat /\ current_timestamp_[2] <= clock /\ current_timestamp_[2] \in Nat
    BY DEF CacheInv, CacheTypes, Times, Text
  <2>2. StampInv /\ DOMAIN stamps = 1 .. Len(stamps)
    BY DEF ProgramInv, StampInv
  <2>3. \A k \in 1 .. Len(stamps) : stamps[k][1] \in Nat
    BY <2>2 DEF StampInv, Text
  <2> QED
    BY <2>1, <2>2, <2>3 DEF StampInv, StampsReal
<1> QED
    BY <1>1, ProgramInvariance, PTL

\* No thread is left that would lock or write the cache after it is gone
\* (timestamp_cache.cpp:26-33, order_processor.cpp:90-93).
THEOREM NoThreadIsLeft == Spec => []NoThreadOutlivesCache
<1>1. CacheInv /\ ProgramInv => NoThreadOutlivesCache
  <2> SUFFICES ASSUME CacheInv, ProgramInv,
                      phase \in {"destroyed", "ended"}, at[Owner] = "idle",
                      run_at = "returned"
               PROVE  at[Refresher] = "none" /\ mutex_ = NULL
    BY DEF NoThreadOutlivesCache
  <2>1. at[Refresher] = "none"
    BY DEF CacheInv, OneWriter, ProgramInv, PhaseInv
  <2>2. \A r \in Readers : mutex_ # r
    BY DEF CacheInv, MutexHeld, ProgramInv, CallInv
  <2>3. mutex_ # Owner /\ mutex_ # Refresher
    BY <2>1 DEF CacheInv, MutexHeld, Writers
  <2> QED
    BY <2>1, <2>2, <2>3 DEF CacheInv, CacheTypes, Threads
<1> QED
    BY <1>1, ProgramInvariance, PTL

-----------------------------------------------------------------------------
(* Recursive functions.                                                     *)

\* A set of naturals has a least element.
LEMMA Least ==
    ASSUME NEW T \in SUBSET Nat, T # {}
    PROVE  \E m \in T : \A k \in T : m <= k
<1> DEFINE R == OpToRel(<, Nat)
<1>1. IsWellFoundedOn(R, Nat)
    BY NatLessThanWellFounded
<1>2. \A x \in Nat, y \in Nat : y < x => <<y, x>> \in R
    BY DEF OpToRel
<1> HIDE DEF R
<1>3. PICK x \in T : \A y \in T : ~ (<<y, x>> \in R)
    BY <1>1, WFMin
<1>4. ASSUME NEW k \in T PROVE x <= k
  <2>1. x \in Nat /\ k \in Nat /\ ~ (<<k, x>> \in R)
      BY <1>3
  <2> QED BY <1>2, <2>1
<1> QED BY <1>4

\* f begins with base, and each further value is made of the one before.
Steps(f, n, S, base, step) ==
    /\ f \in [0 .. n -> S]
    /\ f[0] = base
    /\ \A k \in 1 .. n : f[k] = step[<<f[k - 1], k>>]

LEMMA Recursion ==
    ASSUME NEW S, NEW N \in Nat, NEW base \in S, NEW step \in [S \X (1 .. N) -> S]
    PROVE  \E f : Steps(f, N, S, base, step)
<1> DEFINE T == {n \in 0 .. N : ~ \E f : Steps(f, n, S, base, step)}
<1>1. T = {}
  <2> SUFFICES ASSUME T # {} PROVE FALSE
      OBVIOUS
  <2>1. T \in SUBSET Nat
      OBVIOUS
  <2> HIDE DEF T
  <2>2. PICK m \in T : \A n \in T : m <= n
      BY <2>1, Least
  <2>3. m \in 0 .. N /\ m \in Nat /\ ~ \E f : Steps(f, m, S, base, step)
      BY <2>2 DEF T
  <2>4. CASE m = 0
    <3>1. Steps([k \in 0 .. 0 |-> base], 0, S, base, step)
        BY DEF Steps
    <3> QED BY <2>3, <2>4, <3>1
  <2>5. CASE m # 0
    <3>1. m - 1 \in 0 .. N /\ ~ (m <= m - 1) /\ m \in 1 .. N /\ m - 1 \in Nat
        BY <2>3, <2>5
    <3>2. m - 1 \notin T
        BY <2>2, <3>1
    <3>3. PICK f : Steps(f, m - 1, S, base, step)
        BY <3>1, <3>2 DEF T
    <3> DEFINE g == [k \in 0 .. m |-> IF k = m THEN step[<<f[m - 1], m>>] ELSE f[k]]
    <3>4. f[m - 1] \in S /\ step[<<f[m - 1], m>>] \in S
      <4>1. m - 1 \in 0 .. m - 1
          BY <3>1
      <4> QED BY <3>1, <3>3, <4>1 DEF Steps
    <3>5. /\ \A k \in 0 .. m - 1 : k \in 0 .. m /\ k # m /\ g[k] = f[k] /\ f[k] \in S
          /\ m \in 0 .. m /\ g[m] = step[<<f[m - 1], m>>]
        BY <3>1, <3>3 DEF Steps
    <3>6. g \in [0 .. m -> S]
        BY <3>1, <3>3, <3>4 DEF Steps
    <3> HIDE DEF g
    <3>7. ASSUME NEW k \in 1 .. m PROVE g[k] = step[<<g[k - 1], k>>]
      <4>1. CASE k = m
        <5>1. m - 1 \in 0 .. m - 1
            BY <3>1
        <5> QED BY <3>5, <4>1, <5>1
      <4>2. CASE k # m
        <5>1. k \in 1 .. m - 1 /\ k \in 0 .. m - 1 /\ k - 1 \in 0 .. m - 1
            BY <3>1, <4>2
        <5> QED BY <3>3, <3>5, <5>1 DEF Steps
      <4> QED BY <4>1, <4>2
    <3>8. g[0] = base
      <4>1. 0 \in 0 .. m - 1
          BY <3>1
      <4> QED BY <3>3, <3>5, <4>1 DEF Steps
    <3>9. Steps(g, m, S, base, step)
        BY <3>6, <3>7, <3>8 DEF Steps
    <3> QED BY <2>3, <3>9
  <2> QED BY <2>4, <2>5
<1>2. N \in 0 .. N
    OBVIOUS
<1> QED BY <1>1, <1>2

-----------------------------------------------------------------------------
(* The commands.                                                            *)

\* The paths found line by line.
PathsOf(text) ==
    /\ \A n \in 0 .. Len(text) : PathsAmong(text, n) \in Seq(STRING)
    /\ PathsAmong(text, 0) = << >>
    /\ \A n \in 1 .. Len(text) :
        PathsAmong(text, n) =
            IF IsProcess(text[n]) /\ \A j \in 1 .. n - 1 : ~IsQuit(text[j])
            THEN Append(PathsAmong(text, n - 1), text[n].words[2])
            ELSE PathsAmong(text, n - 1)

\* A PROCESS line has a second word.
LEMMA ProcessHasPath ==
    ASSUME NEW line \in AnyLine, IsProcess(line)
    PROVE  line.words[2] \in STRING
<1> DEFINE words == line.words
<1>1. words \in Seq(STRING) /\ Len(words) >= 2
    BY DEF AnyLine, IsProcess
<1>2. Len(words) \in Nat
    BY <1>1, LenProperties
<1> HIDE DEF words
<1>3. 2 \in 1 .. Len(words)
    BY <1>1, <1>2
<1>4. words[2] \in STRING
    BY <1>1, <1>3, ElementOfSeq
<1> QED BY <1>4 DEF words

LEMMA PathsLineByLine == ASSUME NEW text \in Seq(AnyLine) PROVE PathsOf(text)
<1> DEFINE N == Len(text)
           S == Seq(STRING)
           taken(k) == IsProcess(text[k]) /\ \A j \in 1 .. k - 1 : ~IsQuit(text[j])
           after(sofar, k) == IF taken(k) THEN Append(sofar, text[k].words[2]) ELSE sofar
           step == [p \in S \X (1 .. N) |-> after(p[1], p[2])]
           body(f) == [k \in 0 .. N |->
                        IF k = 0 THEN << >>
                        ELSE IF IsProcess(text[k]) /\ \A j \in 1 .. k - 1 : ~IsQuit(text[j])
                        THEN Append(f[k - 1], text[k].words[2])
                        ELSE f[k - 1]]
           paths == CHOOSE f : f = body(f)
<1>1. N \in Nat /\ << >> \in S /\ \A k \in 1 .. N : text[k] \in AnyLine
    BY LenProperties, ElementOfSeq, EmptySeq
<1>2. \A s \in S, k \in 1 .. N : after(s, k) \in S
  <2>1. ASSUME NEW s \in S, NEW k \in 1 .. N PROVE after(s, k) \in S
    <3>1. CASE taken(k)
      <4>1. text[k].words[2] \in STRING
          BY <1>1, <3>1, ProcessHasPath
      <4>2. Append(s, text[k].words[2]) \in S
          BY <4>1, AppendProperties
      <4> QED BY <3>1, <4>2
    <3>2. CASE ~taken(k)
        BY <3>2
    <3> QED BY <3>1, <3>2
  <2> QED BY <2>1
<1>3. step \in [S \X (1 .. N) -> S]
  <2> HIDE DEF after, S
  <2> QED BY <1>2
<1>4. PICK g : Steps(g, N, S, << >>, step)
  <2> HIDE DEF step, S
  <2> QED BY <1>1, <1>3, Recursion
<1>5. /\ g \in [0 .. N -> S] /\ g[0] = << >>
      /\ \A k \in 1 .. N : g[k] = after(g[k - 1], k)
  <2> HIDE DEF after
  <2>1. ASSUME NEW k \in 1 .. N PROVE g[k] = after(g[k - 1], k)
    <3>1. k - 1 \in 0 .. N
        BY <1>1
    <3>2. g[k - 1] \in S /\ g[k] = step[<<g[k - 1], k>>]
        BY <1>4, <3>1 DEF Steps
    <3> HIDE DEF S
    <3> QED BY <3>2
  <2> QED BY <1>4, <2>1 DEF Steps
<1>6. g = body(g)
  <2>1. ASSUME NEW k \in 0 .. N
        PROVE  g[k] = IF k = 0 THEN << >> ELSE after(g[k - 1], k)
    <3>1. CASE k = 0
        BY <1>5, <3>1
    <3>2. CASE k # 0
      <4>1. k \in 1 .. N
          BY <3>2
      <4> HIDE DEF after
      <4> QED BY <1>5, <3>2, <4>1
    <3> QED BY <3>1, <3>2
  <2> QED BY <1>5, <2>1
<1>7. paths = body(paths)
    BY <1>6
<1>8. \A n : PathsAmong(text, n) = paths[n]
    BY DEF PathsAmong
<1> HIDE DEF paths
<1>9. \A k \in 0 .. N : paths[k] = IF k = 0 THEN << >> ELSE after(paths[k - 1], k)
    BY <1>7
<1>10. \A n \in 0 .. N : paths[n] \in S
  <2> DEFINE T == {n \in 0 .. N : paths[n] \notin S}
  <2> SUFFICES ASSUME T # {} PROVE FALSE
      OBVIOUS
  <2>1. T \in SUBSET Nat
      OBVIOUS
  <2> HIDE DEF T
  <2>2. PICK m \in T : \A n \in T : m <= n
      BY <2>1, Least
  <2>3. m \in 0 .. N /\ m \in Nat /\ paths[m] \notin S
      BY <2>2 DEF T
  <2> HIDE DEF after, S
  <2>4. m # 0
      BY <1>1, <1>9, <2>3
  <2>5. m - 1 \in 0 .. N /\ ~ (m <= m - 1) /\ m \in 1 .. N
      BY <1>1, <2>3, <2>4
  <2>6. paths[m - 1] \in S
      BY <2>2, <2>5 DEF T
  <2>7. paths[m] = after(paths[m - 1], m)
      BY <1>9, <2>3, <2>4
  <2> QED BY <1>2, <2>3, <2>5, <2>6, <2>7
<1>11. 0 \in 0 .. N /\ paths[0] = << >>
    BY <1>1, <1>9
<1>12. \A n \in 1 .. N : paths[n] = after(paths[n - 1], n)
  <2>1. \A n \in 1 .. N : n \in 0 .. N /\ n # 0
      BY <1>1
  <2> HIDE DEF after
  <2> QED BY <1>9, <2>1
<1> QED BY <1>8, <1>10, <1>11, <1>12 DEF PathsOf

-----------------------------------------------------------------------------
(* The command loop.                                                        *)

\* What is left of the input is the end of it.
ReadSoFar == Len(script.lines) - Len(lines)

InputInv ==
    /\ script \in [lines : Seq(AnyLine), terminated : BOOLEAN]
    /\ lines \in Seq(AnyLine)
    /\ ReadSoFar >= 0
    /\ \A k \in 1 .. Len(lines) : lines[k] = script.lines[ReadSoFar + k]
    /\ good \in BOOLEAN
    /\ lines # << >> => good
    /\ run_at \in {"read", "decide", "call", "returned"}

NoQuitIn(n) == \A j \in 1 .. n : ~IsQuit(script.lines[j])

Paths(n) == PathsAmong(script.lines, n)

\* All n lines read have been dealt with, and none ended the loop.
UpTo(n) == NoQuitIn(n) /\ calls = Paths(n)

\* run has read a line of the input.  The stream is still good unless the
\* line ends the loop.
LineRead ==
    /\ ReadSoFar >= 1
    /\ user_input = script.lines[ReadSoFar]
    /\ UpTo(ReadSoFar - 1)
    /\ good \/ IsQuit(user_input)

\* run has read, once more, the nothing there is after the last line.
NothingRead ==
    /\ user_input = EmptyLine
    /\ lines = << >>
    /\ UpTo(ReadSoFar)

\* Line n ended the loop.
EndedBy(n) == IsQuit(script.lines[n]) /\ calls = Paths(n - 1)

LoopInv ==
    /\ run_at \in {"read", "call"} => UpTo(ReadSoFar)
    /\ run_at = "read" /\ ~good => user_input = EmptyLine
    /\ run_at = "call" => good
    /\ run_at = "decide" => LineRead \/ NothingRead
    /\ run_at = "returned" => \E n \in 1 .. Len(script.lines) : EndedBy(n)

\* Of an input that ends with neither QUIT nor a newline the last line is
\* read again and again.
AppInv == InputInv /\ (QuitGiven \/ script.terminated => LoopInv)

\* The end of the input is no command.
LEMMA NoCommand == ~IsQuit(EmptyLine) /\ ~IsProcess(EmptyLine)
<1>1. EmptyLine.words = << >> /\ Line(<<"QUIT">>, TRUE).words = <<"QUIT">>
    BY DEF EmptyLine, Line
<1>2. Len(<< >>) = 0 /\ Len(<<"QUIT">>) = 1
    OBVIOUS
<1>3. EmptyLine # Line(<<"QUIT">>, TRUE)
  <2>1. << >> # <<"QUIT">>
      BY ONLY <1>2
  <2> QED BY ONLY <1>1, <2>1
<1>4. ~ (Len(EmptyLine.words) >= 2)
    BY <1>1, <1>2
<1> QED BY <1>3, <1>4 DEF IsQuit, IsProcess

\* What has been delegated stays at the front of what is delegated later.
Begins(s, t) == Len(s) <= Len(t) /\ \A k \in 1 .. Len(s) : t[k] = s[k]

LEMMA PathsBegin ==
    ASSUME NEW text \in Seq(AnyLine), NEW m \in 0 .. Len(text)
    PROVE  Begins(PathsAmong(text, m), PathsAmong(text, Len(text)))
<1> DEFINE N == Len(text)
           paths(k) == PathsAmong(text, k)
           T == {k \in m .. N : ~Begins(paths(m), paths(k))}
<1>1. N \in Nat /\ m \in 0 .. N /\ \A k \in 1 .. N : text[k] \in AnyLine
    BY LenProperties, ElementOfSeq
<1>2. PathsOf(text)
    BY PathsLineByLine
<1>3. \A k \in 0 .. N : paths(k) \in Seq(STRING) /\ Len(paths(k)) \in Nat
    BY <1>2, LenProperties DEF PathsOf
<1>4. ASSUME NEW k \in 1 .. N PROVE Begins(paths(k - 1), paths(k))
  <2>1. k - 1 \in 0 .. N /\ k \in 0 .. N
      BY <1>1
  <2>2. CASE paths(k) = paths(k - 1)
    <3>1. Len(paths(k)) \in Nat
        BY <1>3, <2>1
    <3> HIDE DEF paths
    <3> QED BY <2>2, <3>1 DEF Begins
  <2>3. CASE paths(k) # paths(k - 1)
    <3>1. IsProcess(text[k]) /\ paths(k) = Append(paths(k - 1), text[k].words[2])
        BY <1>2, <2>3 DEF PathsOf
    <3>2. text[k].words[2] \in STRING
        BY <1>1, <3>1, ProcessHasPath
    <3>3. paths(k - 1) \in Seq(STRING) /\ Len(paths(k - 1)) \in Nat
        BY <1>3, <2>1
    <3> HIDE DEF paths
    <3>4. /\ Len(paths(k)) = Len(paths(k - 1)) + 1
          /\ \A j \in 1 .. Len(paths(k - 1)) : paths(k)[j] = paths(k - 1)[j]
        BY <3>1, <3>2, <3>3, AppendProperties
    <3> QED BY <3>3, <3>4 DEF Begins
  <2> QED BY <2>2, <2>3
<1> HIDE DEF paths, N
<1>5. T = {}
  <2> SUFFICES ASSUME T # {} PROVE FALSE
      OBVIOUS
  <2>1. T \in SUBSET Nat
      BY <1>1
  <2> HIDE DEF T
  <2>2. PICK k \in T : \A j \in T : k <= j
      BY <2>1, Least
  <2>3. k \in m .. N /\ k \in Nat /\ ~Begins(paths(m), paths(k))
      BY <1>1, <2>2 DEF T
  <2>4. CASE k = m
    <3>1. Len(paths(m)) \in Nat
        BY <1>1, <1>3
    <3> QED BY <2>3, <2>4, <3>1 DEF Begins
  <2>5. CASE k # m
    <3>1. k - 1 \in m .. N /\ ~ (k <= k - 1) /\ k \in 1 .. N /\ k - 1 \in 0 .. N /\ k \in 0 .. N
        BY <1>1, <2>3, <2>5
    <3>2. Begins(paths(m), paths(k - 1))
        BY <2>2, <3>1 DEF T
    <3>3. Begins(paths(k - 1), paths(k))
        BY <1>4, <3>1
    <3>4. Len(paths(m)) \in Nat /\ Len(paths(k - 1)) \in Nat /\ Len(paths(k)) \in Nat
        BY <1>1, <1>3, <3>1
    <3>5. Begins(paths(m), paths(k))
        BY <3>2, <3>3, <3>4 DEF Begins
    <3> QED BY <2>3, <3>5
  <2> QED BY <2>4, <2>5
<1>6. N \in m .. N
    BY <1>1
<1> QED BY <1>5, <1>6 DEF paths, N

\* After the line that ends the loop there is nothing to delegate.
LEMMA PathsEnd ==
    ASSUME NEW text \in Seq(AnyLine), NEW q \in 1 .. Len(text), IsQuit(text[q])
    PROVE  PathsAmong(text, Len(text)) = PathsAmong(text, q - 1)
<1> DEFINE N == Len(text)
           paths(k) == PathsAmong(text, k)
           T == {k \in q - 1 .. N : paths(k) # paths(q - 1)}
<1>1. N \in Nat /\ q \in 1 .. N /\ text[q] \in AnyLine
    BY LenProperties, ElementOfSeq
<1>2. ~IsProcess(text[q])
  <2>1. text[q].words = <<"QUIT">>
      BY DEF IsQuit, Line
  <2>2. ~ (Len(text[q].words) >= 2)
      BY <2>1
  <2> QED BY <2>2 DEF IsProcess
<1>3. ASSUME NEW k \in q .. N PROVE paths(k) = paths(k - 1)
  <2>1. k \in 1 .. N /\ (k = q \/ q \in 1 .. k - 1)
      BY <1>1
  <2>2. ~ (IsProcess(text[k]) /\ \A j \in 1 .. k - 1 : ~IsQuit(text[j]))
      BY <1>2, <2>1
  <2>3. PathsOf(text)
      BY PathsLineByLine
  <2> QED BY <2>1, <2>2, <2>3 DEF PathsOf
<1> HIDE DEF paths, N
<1>4. T = {}
  <2> SUFFICES ASSUME T # {} PROVE FALSE
      OBVIOUS
  <2>1. T \in SUBSET Nat
      BY <1>1
  <2> HIDE DEF T
  <2>2. PICK k \in T : \A j \in T : k <= j
      BY <2>1, Least
  <2>3. k \in q - 1 .. N /\ k \in Nat /\ paths(k) # paths(q - 1)
      BY <1>1, <2>2 DEF T
  <2>4. k # q - 1
      BY <2>3
  <2>5. k - 1 \in q - 1 .. N /\ ~ (k <= k - 1) /\ k \in q .. N
      BY <1>1, <2>3, <2>4
  <2>6. paths(k - 1) = paths(q - 1)
      BY <2>2, <2>5 DEF T
  <2>7. paths(k) = paths(k - 1)
      BY <1>3, <2>5
  <2> QED BY <2>3, <2>6, <2>7
<1>5. N \in q - 1 .. N
    BY <1>1
<1> QED BY <1>4, <1>5 DEF paths, N

\* A sequence that begins another is a prefix of it.
LEMMA BeginsPrefix ==
    ASSUME NEW S, NEW s \in Seq(S), NEW t \in Seq(S), Begins(s, t)
    PROVE  IsPrefix(s, t)
<1> DEFINE head == SubSeq(t, 1, Len(s))
<1>1. Len(s) \in Nat /\ Len(t) \in Nat /\ Len(s) <= Len(t)
    BY LenProperties DEF Begins
<1>2. /\ head \in Seq(S) /\ Len(head) = Len(s)
      /\ \A k \in 1 .. Len(s) : head[k] = s[k]
  <2>1. \A k \in 1 .. Len(s) : t[k] \in S
      BY <1>1, ElementOfSeq
  <2>2. 1 \in Int /\ Len(s) \in Int
      BY <1>1
  <2>3. /\ head \in Seq(S)
        /\ Len(head) = IF 1 <= Len(s) THEN Len(s) - 1 + 1 ELSE 0
        /\ \A k \in 1 .. Len(s) - 1 + 1 : head[k] = t[1 + k - 1]
      BY ONLY <2>1, <2>2, SubSeqProperties
  <2> HIDE DEF head
  <2>4. Len(head) = Len(s)
      BY <1>1, <2>3
  <2>5. ASSUME NEW k \in 1 .. Len(s) PROVE head[k] = s[k]
    <3>1. k \in 1 .. Len(s) - 1 + 1 /\ 1 + k - 1 = k
        BY <1>1
    <3>2. head[k] = t[1 + k - 1]
        BY <2>3, <3>1
    <3> QED BY <3>1, <3>2 DEF Begins
  <2> QED BY <2>3, <2>4, <2>5
<1> HIDE DEF head
<1>3. head = s
    BY <1>2, SeqEqual
<1>4. SubSeq(s, 1, Len(s)) = s
    BY SubSeqFull
<1> QED BY <1>1, <1>3, <1>4 DEF IsPrefix, head

-----------------------------------------------------------------------------

LEMMA AppInitInv == AppInit => AppInv
<1> SUFFICES ASSUME AppInit PROVE AppInv
    OBVIOUS
<1>1. script \in [lines : Seq(AnyLine), terminated : BOOLEAN] /\ lines = script.lines
    BY ApplicationAssumption DEF AppInit
<1>2. lines \in Seq(AnyLine) /\ Len(lines) \in Nat /\ ReadSoFar = 0
  <2>1. lines \in Seq(AnyLine)
      BY <1>1
  <2>2. Len(lines) \in Nat
      BY <2>1, LenProperties
  <2> QED BY <1>1, <2>1, <2>2 DEF ReadSoFar
<1>3. InputInv
    BY <1>1, <1>2 DEF InputInv, AppInit
<1>4. NoQuitIn(0)
    BY DEF NoQuitIn
<1>5. Paths(0) = << >>
    BY <1>1, <1>2, PathsLineByLine DEF PathsOf, Paths
<1> QED BY <1>2, <1>3, <1>4, <1>5 DEF AppInv, LoopInv, UpTo, AppInit

\* The end of a line read is the line after the ones read before.
LEMMA LineTaken ==
    InputInv /\ lines # << >> /\ script' = script /\ lines' = Tail(lines) =>
        /\ lines' \in Seq(AnyLine) /\ Len(lines') = Len(lines) - 1
        /\ Len(lines) \in Nat \ {0} /\ ReadSoFar \in Nat
        /\ ReadSoFar' = ReadSoFar + 1
        /\ ReadSoFar' <= Len(script.lines)
        /\ Head(lines) = script.lines[ReadSoFar']
        /\ Head(lines) \in AnyLine
        /\ \A k \in 1 .. Len(lines') : lines'[k] = script.lines[ReadSoFar' + k]
<1> SUFFICES ASSUME InputInv, lines # << >>, script' = script, lines' = Tail(lines)
             PROVE  /\ lines' \in Seq(AnyLine) /\ Len(lines') = Len(lines) - 1
                    /\ Len(lines) \in Nat \ {0} /\ ReadSoFar \in Nat
                    /\ ReadSoFar' = ReadSoFar + 1
                    /\ ReadSoFar' <= Len(script.lines)
                    /\ Head(lines) = script.lines[ReadSoFar']
                    /\ Head(lines) \in AnyLine
                    /\ \A k \in 1 .. Len(lines') :
                            lines'[k] = script.lines[ReadSoFar' + k]
    OBVIOUS
<1> USE DEF InputInv
<1>1. lines \in Seq(AnyLine) /\ script.lines \in Seq(AnyLine)
    OBVIOUS
<1>2. /\ lines' \in Seq(AnyLine) /\ Len(lines') = Len(lines) - 1
      /\ Head(lines) = lines[1] /\ Head(lines) \in AnyLine
      /\ \A k \in 1 .. Len(lines) - 1 : lines'[k] = lines[k + 1]
    BY <1>1, HeadTailProperties
<1>3. Len(lines) \in Nat \ {0} /\ Len(script.lines) \in Nat
  <2>1. Len(lines) \in Nat /\ Len(script.lines) \in Nat
      BY <1>1, LenProperties
  <2>2. Len(lines) # 0
      BY <1>1, EmptySeq
  <2> QED BY <2>1, <2>2
<1>4. ReadSoFar \in Nat /\ ReadSoFar' = ReadSoFar + 1 /\ ReadSoFar' <= Len(script.lines)
    BY <1>2, <1>3 DEF ReadSoFar
<1>5. lines[1] = script.lines[ReadSoFar + 1]
    BY <1>3
<1>6. ASSUME NEW k \in 1 .. Len(lines')
      PROVE  lines'[k] = script.lines[ReadSoFar' + k]
  <2>1. k \in 1 .. Len(lines) - 1 /\ k + 1 \in 1 .. Len(lines)
      BY <1>2, <1>3
  <2>2. lines[k + 1] = script.lines[ReadSoFar + (k + 1)]
      BY <2>1
  <2>3. ReadSoFar + (k + 1) = ReadSoFar' + k
      BY <1>4, <2>1
  <2> QED BY <1>2, <2>1, <2>2, <2>3
<1> QED BY <1>2, <1>3, <1>4, <1>5, <1>6

LEMMA InputStep == InputInv /\ [AppNext]_appVars => InputInv'
<1> SUFFICES ASSUME InputInv, [AppNext]_appVars PROVE InputInv'
    OBVIOUS
<1>1. CASE /\ UNCHANGED <<script, lines, good>>
           /\ run_at' \in {"read", "decide", "call", "returned"}
    BY <1>1 DEF InputInv, ReadSoFar
<1>2. CASE Read /\ good /\ lines = << >> /\ good' = FALSE /\ UNCHANGED lines
    BY <1>2 DEF InputInv, ReadSoFar, Read
<1>3. CASE /\ Read /\ lines # << >> /\ lines' = Tail(lines)
           /\ good' = (Len(lines) > 1 \/ script.terminated)
  <2>1. script' = script
      BY <1>3 DEF Read
  <2>2. /\ lines' \in Seq(AnyLine) /\ Len(lines') = Len(lines) - 1
        /\ Len(lines) \in Nat \ {0} /\ ReadSoFar \in Nat
        /\ ReadSoFar' = ReadSoFar + 1
        /\ \A k \in 1 .. Len(lines') : lines'[k] = script.lines[ReadSoFar' + k]
      BY <1>3, <2>1, LineTaken
  <2>3. ReadSoFar' >= 0
      BY <2>2
  <2>4. good' \in BOOLEAN
      BY <1>3
  <2>5. lines' # << >> => good'
    <3>1. ASSUME lines' # << >> PROVE Len(lines) > 1
      <4>1. Len(lines') # 0
          BY <2>2, <3>1, EmptySeq
      <4> QED BY <2>2, <4>1
    <3> QED BY <1>3, <3>1
  <2>6. run_at' = "decide"
      BY <1>3 DEF Read
  <2> QED BY <2>1, <2>2, <2>3, <2>4, <2>5, <2>6 DEF InputInv
<1>4. CASE Quit \/ Delegate \/ Ignore \/ CallReturns \/ Returned
    BY <1>1, <1>4 DEF Quit, Delegate, Ignore, CallReturns, Returned, appVars, InputInv
<1>5. CASE Read
    BY <1>1, <1>2, <1>3, <1>5 DEF Read, getline
<1>6. CASE UNCHANGED appVars
    BY <1>1, <1>6 DEF appVars, InputInv
<1> QED BY <1>4, <1>5, <1>6 DEF AppNext

\* The calls so far, and with one more, are sequences of paths.
LEMMA InputCallsTyped ==
    InputInv /\ (LineRead \/ NothingRead) =>
        /\ calls \in Seq(STRING)
        /\ IsProcess(user_input) => Append(calls, user_input.words[2]) \in Seq(STRING)
<1> SUFFICES ASSUME InputInv, LineRead \/ NothingRead
             PROVE  /\ calls \in Seq(STRING)
                    /\ IsProcess(user_input)
                        => Append(calls, user_input.words[2]) \in Seq(STRING)
    OBVIOUS
<1>1. /\ script.lines \in Seq(AnyLine) /\ Len(script.lines) \in Nat
      /\ Len(lines) \in Nat
  <2>1. script.lines \in Seq(AnyLine) /\ lines \in Seq(AnyLine)
      BY DEF InputInv
  <2> QED BY <2>1, LenProperties
<1>2. ReadSoFar \in 0 .. Len(script.lines)
    BY <1>1 DEF InputInv, ReadSoFar
<1>3. \A n \in 0 .. Len(script.lines) : Paths(n) \in Seq(STRING)
    BY <1>1, PathsLineByLine DEF PathsOf, Paths
<1>4. LineRead => ReadSoFar \in 1 .. Len(script.lines) /\ ReadSoFar - 1 \in 0 .. Len(script.lines)
    BY <1>1, <1>2 DEF LineRead
<1>5. calls \in Seq(STRING)
    BY <1>2, <1>3, <1>4 DEF LineRead, NothingRead, UpTo
<1>6. ASSUME IsProcess(user_input)
      PROVE  Append(calls, user_input.words[2]) \in Seq(STRING)
  <2>1. LineRead
      BY <1>6, NoCommand DEF NothingRead
  <2>2. user_input \in AnyLine
      BY <1>1, <1>4, <2>1, ElementOfSeq DEF LineRead
  <2>3. user_input.words[2] \in STRING
      BY <1>6, <2>2, ProcessHasPath
  <2> QED BY <1>5, <2>3, AppendProperties
<1> QED BY <1>5, <1>6

\* run reads: the line at hand, or the nothing after the last one.
LEMMA ReadStep ==
    InputInv /\ (QuitGiven \/ script.terminated) /\ LoopInv /\ Read => LoopInv'
<1> SUFFICES ASSUME InputInv, QuitGiven \/ script.terminated, LoopInv, Read
             PROVE  LoopInv'
    OBVIOUS
<1>1. run_at = "read" /\ run_at' = "decide" /\ script' = script /\ calls' = calls
    BY DEF Read
<1>2. UpTo(ReadSoFar) /\ (~good => user_input = EmptyLine)
    BY <1>1 DEF LoopInv
<1>3. CASE lines' = lines /\ user_input' = EmptyLine /\ lines = << >>
  <2>1. ReadSoFar' = ReadSoFar
      BY <1>1, <1>3 DEF ReadSoFar
  <2>2. UpTo(ReadSoFar)'
      BY <1>1, <1>2, <2>1 DEF UpTo, NoQuitIn, Paths
  <2>3. EmptyLine' = EmptyLine
      BY DEF EmptyLine, Line
  <2>4. NothingRead'
      BY <1>3, <2>2, <2>3 DEF NothingRead
  <2> QED BY <1>1, <2>4 DEF LoopInv
<1>4. CASE /\ lines # << >> /\ lines' = Tail(lines) /\ user_input' = Head(lines)
           /\ good' = (Len(lines) > 1 \/ script.terminated)
  <2>1. /\ Len(lines') = Len(lines) - 1
        /\ Len(lines) \in Nat \ {0} /\ ReadSoFar \in Nat
        /\ ReadSoFar' = ReadSoFar + 1
        /\ Head(lines) = script.lines[ReadSoFar']
      BY <1>1, <1>4, LineTaken
  <2>2. ReadSoFar' >= 1 /\ ReadSoFar' - 1 = ReadSoFar
      BY <2>1
  <2>3. UpTo(ReadSoFar - 1)'
      BY <1>1, <1>2, <2>2 DEF UpTo, NoQuitIn, Paths
  <2>4. good' \/ IsQuit(user_input)'
    <3>1. ASSUME ~good' PROVE IsQuit(script.lines[ReadSoFar'])
      <4>1. ~ (Len(lines) > 1) /\ ~script.terminated
          BY <1>4, <3>1
      <4>2. PICK q \in DOMAIN script.lines : IsQuit(script.lines[q])
          BY <4>1 DEF QuitGiven
      <4>3. script.lines \in Seq(AnyLine) /\ Len(script.lines) \in Nat
        <5>1. script.lines \in Seq(AnyLine)
            BY DEF InputInv
        <5> QED BY <5>1, LenProperties
      <4>4. q \in 1 .. Len(script.lines)
          BY <4>2, <4>3, LenProperties
      <4>5. q \notin 1 .. ReadSoFar
          BY <1>2, <4>2 DEF UpTo, NoQuitIn
      <4>6. Len(script.lines) = ReadSoFar + 1
          BY <2>1, <4>1, <4>3 DEF ReadSoFar
      <4>7. q = ReadSoFar'
          BY <2>1, <4>4, <4>5, <4>6
      <4> QED BY <4>2, <4>7
    <3>2. IsQuit(user_input)' <=> IsQuit(script.lines[ReadSoFar'])
        BY <1>4, <2>1 DEF IsQuit, Line
    <3> QED BY <3>1, <3>2
  <2>5. LineRead'
      BY <1>1, <1>4, <2>1, <2>2, <2>3, <2>4 DEF LineRead
  <2> QED BY <1>1, <2>5 DEF LoopInv
<1>5. getline
    BY DEF Read
<1>6. ~good => lines = << >>
    BY DEF InputInv
<1>7. CASE ~good /\ UNCHANGED <<lines, good, user_input>>
    BY <1>2, <1>3, <1>6, <1>7
<1> QED BY <1>3, <1>4, <1>5, <1>7 DEF getline

\* A line that does not end the loop has been dealt with.
LEMMA LineDone ==
    ASSUME InputInv, run_at = "decide", LineRead \/ NothingRead, ~IsQuit(user_input),
           NEW more \in Seq(STRING),
           more = IF IsProcess(user_input) THEN Append(calls, user_input.words[2])
                                           ELSE calls
    PROVE  /\ NoQuitIn(ReadSoFar) /\ more = Paths(ReadSoFar)
           /\ IsProcess(user_input) => good
           /\ ~good => user_input = EmptyLine
<1>1. CASE LineRead
  <2> USE DEF LineRead
  <2>1. good /\ ReadSoFar >= 1 /\ user_input = script.lines[ReadSoFar]
      BY <1>1
  <2>2. /\ script.lines \in Seq(AnyLine) /\ Len(script.lines) \in Nat
        /\ Len(lines) \in Nat
    <3>1. script.lines \in Seq(AnyLine) /\ lines \in Seq(AnyLine)
        BY DEF InputInv
    <3> QED BY <3>1, LenProperties
  <2>3. ReadSoFar \in 1 .. Len(script.lines)
      BY <2>1, <2>2 DEF ReadSoFar
  <2>4. NoQuitIn(ReadSoFar - 1) /\ calls = Paths(ReadSoFar - 1)
      BY <1>1 DEF UpTo
  <2>5. NoQuitIn(ReadSoFar)
    <3>1. ASSUME NEW j \in 1 .. ReadSoFar PROVE ~IsQuit(script.lines[j])
      <4>1. j = ReadSoFar \/ j \in 1 .. ReadSoFar - 1
          BY <2>3
      <4> QED BY <2>1, <2>4, <4>1 DEF NoQuitIn
    <3> QED BY <3>1 DEF NoQuitIn
  <2>6. Paths(ReadSoFar) =
            IF IsProcess(script.lines[ReadSoFar])
            THEN Append(Paths(ReadSoFar - 1), script.lines[ReadSoFar].words[2])
            ELSE Paths(ReadSoFar - 1)
    <3>1. PathsOf(script.lines)
        BY <2>2, PathsLineByLine
    <3> QED BY <2>3, <2>4, <3>1 DEF PathsOf, Paths, NoQuitIn
  <2> QED BY <2>1, <2>4, <2>5, <2>6
<1>2. CASE NothingRead
    BY <1>2, NoCommand DEF NothingRead, UpTo
<1> QED BY <1>1, <1>2

LEMMA LoopStep ==
    InputInv /\ (QuitGiven \/ script.terminated) /\ LoopInv /\ [AppNext]_appVars
        => LoopInv'
<1> SUFFICES ASSUME InputInv, QuitGiven \/ script.terminated, LoopInv, [AppNext]_appVars
             PROVE  LoopInv'
    OBVIOUS
<1> DEFINE Kept == UNCHANGED <<script, lines, good, user_input>>
<1>0. ASSUME Kept
      PROVE  /\ ReadSoFar' = ReadSoFar
             /\ calls' = calls => \A n : UpTo(n)' <=> UpTo(n)
             /\ \A n : (NoQuitIn(n)' <=> NoQuitIn(n)) /\ Paths(n)' = Paths(n)
             /\ EmptyLine' = EmptyLine /\ good' = good /\ user_input' = user_input
    BY <1>0 DEF ReadSoFar, UpTo, NoQuitIn, Paths, EmptyLine, Line
<1>1. CASE Read
    BY <1>1, ReadStep
<1>2. CASE Quit
  <2>1. /\ run_at = "decide" /\ run_at' = "returned" /\ IsQuit(user_input)
        /\ Kept /\ calls' = calls
      BY <1>2 DEF Quit
  <2>2. LineRead
      BY <2>1, NoCommand DEF LoopInv, NothingRead
  <2>3. ReadSoFar \in 1 .. Len(script.lines)
    <3>1. script.lines \in Seq(AnyLine) /\ lines \in Seq(AnyLine)
        BY DEF InputInv
    <3>2. Len(script.lines) \in Nat /\ Len(lines) \in Nat
        BY <3>1, LenProperties
    <3> QED BY <2>2, <3>2 DEF ReadSoFar, LineRead
  <2>4. EndedBy(ReadSoFar)
      BY <2>1, <2>2 DEF LineRead, UpTo, EndedBy
  <2>5. \E n \in 1 .. Len(script'.lines) : EndedBy(n)'
      BY <2>1, <2>3, <2>4 DEF EndedBy, Paths
  <2> QED BY <2>1, <2>5 DEF LoopInv
<1>3. CASE Delegate
  <2>1. /\ run_at = "decide" /\ run_at' = "call" /\ Kept
        /\ ~IsQuit(user_input) /\ IsProcess(user_input)
        /\ calls' = Append(calls, user_input.words[2])
      BY <1>3 DEF Delegate
  <2>2. LineRead \/ NothingRead
      BY <2>1 DEF LoopInv
  <2>3. calls' \in Seq(STRING)
      BY <2>1, <2>2, InputCallsTyped
  <2>4. NoQuitIn(ReadSoFar) /\ calls' = Paths(ReadSoFar) /\ good
      BY <2>1, <2>2, <2>3, LineDone
  <2>5. UpTo(ReadSoFar)'
      BY <1>0, <2>1, <2>4 DEF UpTo, NoQuitIn, Paths
  <2> QED BY <2>1, <2>4, <2>5 DEF LoopInv
<1>4. CASE Ignore
  <2>1. /\ run_at = "decide" /\ run_at' = "read" /\ Kept /\ calls' = calls
        /\ ~IsQuit(user_input) /\ ~IsProcess(user_input)
      BY <1>4 DEF Ignore
  <2>2. LineRead \/ NothingRead
      BY <2>1 DEF LoopInv
  <2>3. /\ NoQuitIn(ReadSoFar) /\ calls = Paths(ReadSoFar)
        /\ ~good => user_input = EmptyLine
      BY <2>1, <2>2, InputCallsTyped, LineDone
  <2>4. UpTo(ReadSoFar)' /\ (~good' => user_input' = EmptyLine')
      BY <1>0, <2>1, <2>3 DEF UpTo
  <2> QED BY <2>1, <2>4 DEF LoopInv
<1>5. CASE CallReturns
  <2>1. run_at = "call" /\ run_at' = "read" /\ Kept /\ calls' = calls
      BY <1>5 DEF CallReturns
  <2>2. UpTo(ReadSoFar) /\ good
      BY <2>1 DEF LoopInv
  <2>3. UpTo(ReadSoFar)' /\ good'
      BY <1>0, <2>1, <2>2
  <2> QED BY <2>1, <2>3 DEF LoopInv
<1>6. CASE UNCHANGED appVars
  <2>1. Kept /\ calls' = calls /\ run_at' = run_at /\ lines' = lines
      BY <1>6 DEF appVars
  <2>2. LineRead' <=> LineRead
      BY <1>0, <2>1 DEF LineRead, IsQuit, Line
  <2>3. NothingRead' <=> NothingRead
      BY <1>0, <2>1 DEF NothingRead
  <2>4. \A n : EndedBy(n)' <=> EndedBy(n)
      BY <2>1 DEF EndedBy, IsQuit, Line, Paths
  <2>5. UpTo(ReadSoFar)' <=> UpTo(ReadSoFar)
      BY <1>0, <2>1
  <2> QED BY <1>0, <2>1, <2>2, <2>3, <2>4, <2>5 DEF LoopInv
<1>7. CASE Returned
    BY <1>6, <1>7 DEF Returned
<1> QED BY <1>1, <1>2, <1>3, <1>4, <1>5, <1>6, <1>7 DEF AppNext

LEMMA CallsInv == AppInv => CallsFollowInput
<1> SUFFICES ASSUME InputInv, QuitGiven \/ script.terminated => LoopInv,
                    QuitGiven \/ script.terminated
             PROVE  /\ IsPrefix(calls, Delegations)
                    /\ run_at = "returned" => calls = Delegations
    BY DEF AppInv, CallsFollowInput
<1> DEFINE N == Len(script.lines)
<1>1. /\ script.lines \in Seq(AnyLine) /\ N \in Nat
      /\ Len(lines) \in Nat
  <2>1. script.lines \in Seq(AnyLine) /\ lines \in Seq(AnyLine)
      BY DEF InputInv
  <2> QED BY <2>1, LenProperties
<1>2. ReadSoFar \in 0 .. N
    BY <1>1 DEF InputInv, ReadSoFar
<1>3. \E m \in 0 .. N : calls = Paths(m)
  <2>1. CASE run_at = "returned"
    <3>1. PICK n \in 1 .. N : EndedBy(n)
        BY <2>1 DEF LoopInv
    <3>2. n - 1 \in 0 .. N
        BY <1>1
    <3> QED BY <3>1, <3>2 DEF EndedBy
  <2>2. CASE run_at \in {"read", "call"}
      BY <1>2, <2>2 DEF LoopInv, UpTo
  <2>3. CASE run_at = "decide"
    <3>1. CASE LineRead
      <4>1. ReadSoFar - 1 \in 0 .. N
          BY <1>1, <1>2, <3>1 DEF LineRead
      <4> QED BY <3>1, <4>1 DEF LineRead, UpTo
    <3>2. CASE NothingRead
        BY <1>2, <3>2 DEF NothingRead, UpTo
    <3> QED BY <2>3, <3>1, <3>2 DEF LoopInv
  <2> QED BY <2>1, <2>2, <2>3 DEF InputInv
<1>4. PICK m \in 0 .. N : calls = Paths(m)
    BY <1>3
<1>5. IsPrefix(calls, Delegations)
  <2>1. Begins(PathsAmong(script.lines, m), PathsAmong(script.lines, N))
      BY <1>1, PathsBegin
  <2>2. /\ PathsAmong(script.lines, m) \in Seq(STRING)
        /\ PathsAmong(script.lines, N) \in Seq(STRING)
    <3>1. PathsOf(script.lines) /\ N \in 0 .. N
        BY <1>1, PathsLineByLine
    <3> QED BY <3>1 DEF PathsOf
  <2>3. IsPrefix(PathsAmong(script.lines, m), PathsAmong(script.lines, N))
      BY ONLY <2>1, <2>2, BeginsPrefix
  <2> QED BY <1>4, <2>3 DEF Paths, Delegations
<1>6. ASSUME run_at = "returned" PROVE calls = Delegations
  <2>1. PICK n \in 1 .. N : EndedBy(n)
      BY <1>6 DEF LoopInv
  <2>2. PathsAmong(script.lines, N) = PathsAmong(script.lines, n - 1)
      BY <1>1, <2>1, PathsEnd DEF EndedBy
  <2> QED BY <2>1, <2>2 DEF EndedBy, Paths, Delegations
<1> QED BY <1>5, <1>6

\* Every step of the program is a step of the command loop or leaves it alone.
LEMMA StepIsAppStep == [Next]_vars => [AppNext]_appVars
<1> SUFFICES ASSUME [Next]_vars PROVE AppNext \/ UNCHANGED appVars
    OBVIOUS
<1>1. CASE Main
    BY <1>1 DEF Main, Construct, Run, DestroyProcessor, DestroyCache,
        MainReturns, AppNext
<1>2. CASE Worker \/ Stamp \/ Dies
    BY <1>2 DEF Worker, Stamp, Dies
<1>3. CASE Ended \/ UNCHANGED vars
    BY <1>3 DEF Ended, vars
<1>4. CASE UNCHANGED <<appVars, phase, stamps>>
    BY <1>4
<1> QED BY <1>1, <1>2, <1>3, <1>4 DEF Next

\* The program runs the command loop as its specification says (main.cpp).
THEOREM UsesApplication == Spec => AppSpec
<1>1. Init => AppInit
    BY DEF Init
<1> QED BY <1>1, StepIsAppStep, PTL DEF Spec, AppSpec

\* process_file is called with the paths of the PROCESS lines before QUIT,
\* in order, each once and none left out, whatever the input, when it has a
\* QUIT or ends with a newline (application.cpp:20-33).
THEOREM CallsAreTheInputs == Spec => []CallsFollowInput
<1>1. AppInv /\ [AppNext]_appVars => AppInv'
  <2> SUFFICES ASSUME AppInv, [AppNext]_appVars PROVE AppInv'
      OBVIOUS
  <2>1. InputInv /\ InputInv' /\ (QuitGiven \/ script.terminated => LoopInv)
      BY InputStep DEF AppInv
  <2>2. script' = script
      BY DEF AppNext, Read, Quit, Delegate, Ignore, CallReturns, Returned, appVars
  <2>3. QuitGiven' <=> QuitGiven
      BY <2>2 DEF QuitGiven, IsQuit, Line
  <2>4. QuitGiven' \/ script'.terminated => LoopInv'
      BY <2>1, <2>2, <2>3, LoopStep
  <2> QED BY <2>1, <2>4 DEF AppInv
<1>2. AppSpec => []AppInv
    BY <1>1, AppInitInv, PTL DEF AppSpec
<1> QED BY <1>2, CallsInv, UsesApplication, PTL
=============================================================================
