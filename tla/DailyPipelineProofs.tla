----------------------- MODULE DailyPipelineProofs -----------------------
(***************************************************************************)
(* Proofs about DailyPipeline for any callers, materialisations, numbers   *)
(* of attempts and bounds.                                                 *)
(***************************************************************************)
EXTENDS DailyPipelineInvariant, FiniteSetTheorems, TLAPS

USE PipelineAssumption

\* The names of the stages are apart from those of the other steps.
LEMMA StageNames ==
    /\ Stage \cap (Before \cup Steps) = {}
    /\ \A i \in DOMAIN Stages : Stages[i] \in Working /\ Stages[i] \notin Before \cup Steps
    /\ Stages[1] \in Working /\ Stages[1] \notin Before \cup Steps
    /\ \A i \in DOMAIN Stages : i # Len(Stages) => i + 1 \in DOMAIN Stages
    /\ Before \cap Working = {}
    /\ Steps \subseteq Working
  <1>1. 1 \in DOMAIN Stages
    OBVIOUS
  <1>2. \A i \in DOMAIN Stages : i # Len(Stages) => i + 1 \in DOMAIN Stages
    OBVIOUS
  <1> QED
    BY <1>1, <1>2 DEF Stage, Working, Before, Steps

\* Initially nobody is at work and nothing is recorded.
LEMMA InitPipeline == Init => PipelineInductive
  <1> SUFFICES ASSUME Init PROVE PipelineInductive
    OBVIOUS
  <1> USE DEF Init
  <1>1. Values /\ \A c \in Callers : ~AtWork(c)
    BY StageNames DEF Values, AtWork, Before
  <1>2. Waiting
    BY DEF Waiting, Callers
  <1>3. Holder /\ Newest /\ Unrecorded /\ Later
    BY <1>1 DEF Holder, Newest, Unrecorded, Later
  <1> QED
    BY <1>1, <1>2, <1>3 DEF PipelineInductive

\* A process at work goes from one step to another, and the pointer stays.
LEMMA MoveKeeps ==
    ASSUME PipelineInductive, NEW c \in Callers, NEW x \in Working,
           AtWork(c), pc[c] # "release",
           pc' = [pc EXCEPT ![c] = x],
           UNCHANGED <<now, sched, run, lock, made, latest>>,
           \/ ended' = [ended EXCEPT ![c] = now]
           \/ /\ ended' = ended
              /\ x \in {"delivery", "artifact_persistence", "failing"}
                 => pc[c] \in {"delivery", "artifact_persistence", "failing"}
    PROVE  PipelineInductive'
  <1> USE DEF PipelineInductive, Values, AtWork
  <1>1. Values' /\ Waiting'
    BY StageNames DEF Waiting, Before
  <1>2. CASE LockOutlives
    <2>1. Holder'
      BY <1>2 DEF Holder
    <2>2. Newest'
      <3>1. \A d \in Callers : AtWork(d)' => run'[d] = made'
        BY <1>2 DEF Newest
      <3>2. \A d \in Callers : ended'[d] <= now'
        BY <1>2 DEF Newest
      <3> QED
        BY <1>2, <3>1, <3>2 DEF Newest
    <2>3. Unrecorded'
      BY <1>2 DEF Unrecorded
    <2>4. Later'
      BY <1>2 DEF Later, Newest
    <2> QED
      BY <1>1, <2>1, <2>2, <2>3, <2>4
  <1> QED
    BY <1>1, <1>2

\* A process at work records its run in the pointer and goes on to the release.
LEMMA RecordKeeps ==
    ASSUME PipelineInductive, NEW c \in Callers,
           pc[c] \in {"artifact_persistence", "failing"},
           pc' = [pc EXCEPT ![c] = "release"],
           latest' = [run |-> run[c], at |-> ended[c]],
           UNCHANGED <<now, sched, run, lock, made, ended>>
    PROVE  PipelineInductive'
  <1> USE StageNames DEF PipelineInductive, Values, AtWork
  <1>1. AtWork(c) /\ "release" \in Working
    BY DEF Working, Steps
  <1>2. Values' /\ Waiting'
    BY <1>1 DEF Waiting
  <1>3. CASE LockOutlives
    <2>1. \A d \in Callers : d # c => pc[d] \notin Working
      BY <1>1, <1>3 DEF Holder
    <2>2. Holder'
      BY <1>1, <1>3 DEF Holder
    <2>3. Newest'
      BY <1>1, <1>3 DEF Newest
    <2>4. \A d \in Callers : d # c => pc'[d] \notin Working
      BY <2>1
    <2>5. Unrecorded'
      BY <2>4 DEF Unrecorded
    <2>6. Later'
      BY <2>4 DEF Later, Working, Steps
    <2> QED
      BY <1>2, <2>2, <2>3, <2>5, <2>6
  <1> QED
    BY <1>2, <1>3

\* A process ends, or dies; the lock is at most given back by its owner or taken by
\* a process that does not hear of it.
LEMMA LeaveKeeps ==
    ASSUME PipelineInductive, NEW c \in Callers, Leave(c),
           sched' = sched \/ c = Scheduler,
           UNCHANGED <<now, made, latest>>,
           \/ lock' = lock
           \/ lock' = c /\ lock = None
           \/ lock' = None /\ lock = c
    PROVE  PipelineInductive'
  <1> USE StageNames DEF PipelineInductive, Values, AtWork, Leave
  <1>1. "idle" \notin Working
    BY DEF Before
  <1>2. Values' /\ Waiting'
    BY <1>1 DEF Before, Waiting
  <1>3. CASE LockOutlives
    <2>1. \A d \in Callers : pc'[d] \in Working => d # c /\ pc[d] \in Working
      BY <1>1
    <2>2. Holder'
      BY <1>3, <2>1 DEF Holder
    <2>3. Newest'
      BY <1>3, <2>1 DEF Newest
    <2>4. Unrecorded'
      BY <1>3, <2>1 DEF Unrecorded
    <2>5. Later'
      BY <1>3 DEF Later
    <2> QED
      BY <1>2, <2>2, <2>3, <2>4, <2>5
  <1> QED
    BY <1>2, <1>3

\* A process is started; it is not at work before it has the lock.
LEMMA LaunchKeeps ==
    ASSUME PipelineInductive, NEW c \in Callers,
           ~AtWork(c), pc' \in {pc, [pc EXCEPT ![c] = "start"]},
           Waiting',
           UNCHANGED <<now, made, latest, run, ended, lock>>
    PROVE  PipelineInductive'
  <1> USE DEF PipelineInductive, Values, AtWork
  <1>1. "start" \notin Working /\ "start" \in Before
    BY StageNames DEF Before
  <1>2. \A d \in Callers : pc'[d] = pc[d] \/ pc'[d] = "start"
    OBVIOUS
  <1>3. pc' \in [Callers -> Before \cup Working]
    BY <1>1
  <1>4. Values'
    BY <1>1, <1>2, <1>3
  <1>5. CASE LockOutlives
    <2>1. Holder' /\ Newest'
      BY <1>1, <1>5, <1>2 DEF Holder, Newest
    <2>2. Unrecorded'
      BY <1>1, <1>5, <1>2 DEF Unrecorded
    <2>3. Later'
      BY <1>5, <1>2 DEF Later
    <2> QED
      BY <1>4, <1>5, <2>1, <2>2, <2>3
  <1> QED
    BY <1>4, <1>5

\* Nothing of it is touched.
LEMMA SameKeeps ==
    ASSUME PipelineInductive,
           UNCHANGED <<now, sched, made, pc, run, ended, lock, latest>>
    PROVE  PipelineInductive'
  BY DEF PipelineInductive, Values, Waiting, Holder, Newest, Unrecorded, Later, AtWork

---------------------------------------------------------------------------
(* One lemma per action that needs more than one of the above. *)

\* Exit leaves, for the scheduler and for the others.
LEMMA ExitKeeps ==
    ASSUME PipelineInductive, NEW c \in Callers, NEW status, Exit(c, status),
           UNCHANGED <<now, made, latest>>,
           \/ lock' = lock
           \/ lock' = c /\ lock = None
           \/ lock' = None /\ lock = c
    PROVE  PipelineInductive'
  <1>1. Leave(c) /\ (sched' = sched \/ c = Scheduler)
    BY DEF Exit, scheduler
  <1> QED
    BY <1>1, LeaveKeeps

\* The exception handler is entered from any step before the release.
LEMMA FailKeeps ==
    ASSUME PipelineInductive, NEW c \in Callers, NEW status, Fail(c, status),
           AtWork(c), pc[c] # "release",
           UNCHANGED <<now, sched, run, lock, made, latest>>
    PROVE  PipelineInductive'
  <1>1. "failing" \in Working
    BY DEF Working, Steps
  <1> QED
    BY <1>1, MoveKeeps DEF Fail, Go

\* A job is enqueued, or cannot be.
LEMMA EnqueueKeeps ==
    ASSUME PipelineInductive, NEW c \in Callers, NEW i \in DOMAIN Stages, Enqueue(c, Stages[i]),
           AtWork(c), pc[c] # "release",
           UNCHANGED <<now, sched, run, lock, made, latest>>
    PROVE  PipelineInductive'
  <1>1. Stages[i] \in Working /\ Stages[i] \notin {"delivery", "artifact_persistence", "failing"}
    BY StageNames DEF Steps
  <1>2. CASE Go(c, Stages[i]) /\ ended' = ended
    BY <1>1, <1>2, MoveKeeps DEF Go
  <1>3. CASE Fail(c, "retry")
    BY <1>3, FailKeeps
  <1> QED
    BY <1>2, <1>3 DEF Enqueue

\* The lock is free, so nobody is at work; the new run is the newest.
LEMMA AcquireKeeps ==
    ASSUME PipelineInductive, NEW c \in Callers, Acquire(c)
    PROVE  PipelineInductive'
  <1> USE StageNames DEF PipelineInductive, Values, AtWork, Acquire, LockIsFree
  <1>1. "collection" \in Working
    BY DEF Working, Steps
  <1>2. UNCHANGED <<now, sched, latest, ended>> /\ made \in Nat
    BY DEF scheduler
  <1>3. Values' /\ Waiting'
    BY <1>1, <1>2 DEF Waiting
  <1>4. CASE LockOutlives
    <2>1. \A d \in Callers : pc[d] \notin Working
      BY <1>4 DEF Holder
    <2>2. \A d \in Callers : pc'[d] \in Working => d = c
      BY <2>1
    <2>3. Holder' /\ Newest'
      BY <1>2, <1>4, <2>2 DEF Holder, Newest
    <2>4. Unrecorded'
      BY <1>2, <1>4, <2>2 DEF Unrecorded, Newest
    <2>5. Later'
      BY <1>2, <1>4 DEF Later
    <2> QED
      BY <1>3, <2>3, <2>4, <2>5
  <1> QED
    BY <1>3, <1>4

---------------------------------------------------------------------------
(* The step, and the theorems. *)

\* Every step of a process at work, and of one that does not get there.
LEMMA StepKeeps ==
    ASSUME PipelineInductive, NEW c \in Callers, Step(c)
    PROVE  PipelineInductive'
  <1> USE StageNames DEF AtWork, KeepWorld, KeepRecords, scheduler
  <1>1. \A x \in {"collection", "daily_report", "delivery", "artifact_persistence", "failing",
                   "release"} : x \in Working
    BY DEF Working, Steps
  <1>2. CASE Acquire(c)
    BY <1>2, AcquireKeeps
  <1>3. CASE SkipRunning(c)
    BY <1>3, ExitKeeps DEF SkipRunning
  <1>4. CASE NoRedis(c)
    BY <1>4, ExitKeeps DEF NoRedis
  <1>5. CASE Collect(c)
    <2>1. 1 \in DOMAIN Stages
      OBVIOUS
    <2>2. AtWork(c) /\ pc[c] # "release" /\ UNCHANGED <<now, sched, run, lock, made, latest>>
      BY <1>1, <1>5 DEF Collect
    <2>3. Enqueue(c, Stages[1]) \/ Fail(c, "retry")
      BY <1>5 DEF Collect
    <2> QED
      BY <2>1, <2>2, <2>3, EnqueueKeeps, FailKeeps
  <1>6. CASE WaitForJob(c)
    <2>1. PICK i \in DOMAIN Stages : pc[c] = Stages[i] /\ (Advance(c, i) \/ Fail(c, "retry"))
      BY <1>6 DEF WaitForJob
    <2>2. AtWork(c) /\ pc[c] # "release" /\ UNCHANGED <<now, sched, run, lock, made, latest>>
      BY <1>6, <2>1 DEF WaitForJob, Steps
    <2>3. CASE Fail(c, "retry")
      BY <2>2, <2>3, FailKeeps
    <2>4. CASE Go(c, "daily_report") /\ ended' = ended
      BY <1>1, <2>2, <2>4, MoveKeeps DEF Go
    <2>5. CASE i # Len(Stages) /\ Enqueue(c, Stages[i + 1])
      BY <2>2, <2>5, EnqueueKeeps
    <2> QED
      BY <2>1, <2>3, <2>4, <2>5 DEF Advance
  <1>7. CASE Report(c)
    <2>1. AtWork(c) /\ pc[c] # "release" /\ UNCHANGED <<now, sched, run, lock, made, latest>>
      BY <1>1, <1>7 DEF Report
    <2>2. CASE Fail(c, "retry")
      BY <2>1, <2>2, FailKeeps
    <2>3. CASE Go(c, "delivery") /\ ended' = [ended EXCEPT ![c] = now]
      BY <1>1, <2>1, <2>3, MoveKeeps DEF Go
    <2> QED
      BY <1>7, <2>2, <2>3 DEF Report
  <1>8. CASE Deliver(c)
    <2>1. AtWork(c) /\ pc[c] = "delivery" /\ UNCHANGED <<now, sched, run, lock, made, latest>>
      BY <1>1, <1>8 DEF Deliver, Post, SkipDelivery
    <2>2. CASE DeliveryFails(c)
      BY <2>1, <2>2, FailKeeps DEF DeliveryFails
    <2>3. CASE Go(c, "artifact_persistence") /\ ended' = ended
      BY <1>1, <2>1, <2>3, MoveKeeps DEF Go
    <2> QED
      BY <1>8, <2>2, <2>3 DEF Deliver, Post, SkipDelivery
  <1>9. CASE Persist(c)
    <2>1. AtWork(c) /\ pc[c] = "artifact_persistence" /\ UNCHANGED <<now, sched, run, lock, made>>
      BY <1>1, <1>9 DEF Persist
    <2>2. CASE latest' = Pointer(c) /\ Go(c, "release") /\ ended' = ended
      BY <2>1, <2>2, RecordKeeps DEF Go, Pointer
    <2>3. CASE Fail(c, "final") /\ latest' = latest
      BY <2>1, <2>3, FailKeeps
    <2> QED
      BY <1>9, <2>2, <2>3 DEF Persist, Recorded, RecordFails
  <1>10. CASE PersistFailure(c)
    <2>1. AtWork(c) /\ pc[c] = "failing" /\ UNCHANGED <<now, sched, run, lock, made, ended>>
      BY <1>1, <1>10 DEF PersistFailure
    <2>2. Go(c, "release") /\ (latest' = Pointer(c) \/ latest' = latest)
      BY <1>10 DEF PersistFailure, Recorded, RecordFails
    <2>3. CASE latest' = Pointer(c)
      BY <2>1, <2>2, <2>3, RecordKeeps DEF Go, Pointer
    <2>4. CASE latest' = latest
      BY <1>1, <2>1, <2>2, <2>4, MoveKeeps DEF Go
    <2> QED
      BY <2>2, <2>3, <2>4
  <1>11. CASE Release(c)
    BY <1>11, ExitKeeps DEF Release
  <1> QED
    BY <1>2, <1>3, <1>4, <1>5, <1>6, <1>7, <1>8, <1>9, <1>10, <1>11 DEF Step

\* Every step of the scheduler, the callers and the world.
LEMMA NextKeeps ==
    ASSUME PipelineInductive, [Next]_vars
    PROVE  PipelineInductive'
  <1> USE DEF scheduler, process
  <1>1. Scheduler \in Callers /\ Others \subseteq Callers /\ "idle" \notin Working
    BY StageNames DEF Callers, Before
  <1>2. sched # "running" => ~AtWork(Scheduler)
    BY <1>1 DEF PipelineInductive, Waiting, AtWork
  <1>3. CASE SchedulerStarts
    <2>1. pc' \in {pc, [pc EXCEPT ![Scheduler] = "start"]} /\ Waiting'
      BY <1>3 DEF SchedulerStarts, Episode, Launch, Waiting, PipelineInductive
    <2>2. ~AtWork(Scheduler) /\ UNCHANGED <<now, made, latest, run, ended, lock>>
      BY <1>2, <1>3 DEF SchedulerStarts
    <2> QED
      BY <1>1, <2>1, <2>2, LaunchKeeps
  <1>4. CASE SchedulerWakes
    <2>1. pc' = [pc EXCEPT ![Scheduler] = "start"] /\ Waiting'
      BY <1>4 DEF SchedulerWakes, Episode, Launch, Waiting
    <2>2. ~AtWork(Scheduler) /\ UNCHANGED <<now, made, latest, run, ended, lock>>
      BY <1>2, <1>4 DEF SchedulerWakes
    <2> QED
      BY <1>1, <2>1, <2>2, LaunchKeeps
  <1>5. CASE SchedulerRetries
    <2>1. pc' = [pc EXCEPT ![Scheduler] = "start"] /\ Waiting'
      BY <1>5 DEF SchedulerRetries, Launch, Waiting
    <2>2. ~AtWork(Scheduler) /\ UNCHANGED <<now, made, latest, run, ended, lock>>
      BY <1>2, <1>5 DEF SchedulerRetries
    <2> QED
      BY <1>1, <2>1, <2>2, LaunchKeeps
  <1>6. ASSUME NEW c \in Others, OtherStarts(c) PROVE PipelineInductive'
    <2>1. c # Scheduler /\ ~AtWork(c)
      BY <1>1, <1>6 DEF OtherStarts, AtWork
    <2>2. pc' = [pc EXCEPT ![c] = "start"] /\ Waiting'
      BY <1>1, <1>6, <2>1 DEF OtherStarts, Launch, Waiting, PipelineInductive
    <2>3. UNCHANGED <<now, made, latest, run, ended, lock>>
      BY <1>6 DEF OtherStarts
    <2> QED
      BY <1>1, <2>1, <2>2, <2>3, LaunchKeeps
  <1>7. ASSUME NEW c \in Callers, Step(c) PROVE PipelineInductive'
    BY <1>7, StepKeeps
  <1>8. ASSUME NEW c \in Callers, Kill(c) PROVE PipelineInductive'
    <2>1. UNCHANGED <<now, made, latest, lock>>
      BY <1>8 DEF Kill
    <2>2. CASE Exit(c, "final")
      BY <2>1, <2>2, ExitKeeps
    <2>3. CASE c = Scheduler /\ Leave(c)
      BY <2>1, <2>3, LeaveKeeps
    <2> QED
      BY <1>8, <2>2, <2>3 DEF Kill
  <1>9. ASSUME NEW s \in Stage, FinishJob(s) PROVE PipelineInductive'
    BY <1>9, SameKeeps DEF FinishJob
  <1>10. CASE Expire
    <2>1. UNCHANGED <<now, sched, made, pc, run, ended, latest>> /\ lock' = None
      BY <1>10 DEF Expire
    <2>2. LockOutlives => \A c \in Callers : ~AtWork(c)
      BY <1>10 DEF Expire, PipelineInductive, Holder
    <2>3. LockOutlives => \A c \in Callers : ~AtWork(c)'
      BY <2>1, <2>2 DEF AtWork
    <2>4. Values' /\ Waiting'
      BY <2>1 DEF PipelineInductive, Values, Waiting, AtWork
    <2>5. LockOutlives => Holder' /\ Newest' /\ Unrecorded' /\ Later'
      BY <2>1, <2>3 DEF PipelineInductive, Holder, Newest, Unrecorded, Later
    <2> QED
      BY <2>4, <2>5 DEF PipelineInductive
  <1>11. CASE Tick
    <2>1. UNCHANGED <<sched, made, pc, run, ended, lock, latest>> /\ now' = now + 1
      BY <1>11 DEF Tick
    <2>2. Values' /\ Waiting'
      BY <2>1 DEF PipelineInductive, Values, Waiting, AtWork
    <2>3. LockOutlives => Holder' /\ Unrecorded' /\ Later'
      BY <2>1 DEF PipelineInductive, Holder, Unrecorded, Later, AtWork
    <2>4. LockOutlives => Newest'
      BY <2>1 DEF PipelineInductive, Values, Newest, AtWork
    <2> QED
      BY <2>2, <2>3, <2>4 DEF PipelineInductive
  <1>12. CASE UNCHANGED vars
    BY <1>12, SameKeeps DEF vars
  <1> QED
    BY <1>3, <1>4, <1>5, <1>6, <1>7, <1>8, <1>9, <1>10, <1>11, <1>12 DEF Next

\* The invariant holds in every reachable state: the lock of run_locked_pipeline
\* belongs to the one process at work.
THEOREM PipelineInductiveHolds == Spec => []PipelineInductive
  BY InitPipeline, NextKeeps, PTL DEF Spec

\* run_locked_pipeline: at most one pipeline at a time, whatever is killed, lost or
\* retried, while the lock's time to live is longer than a run.
THEOREM MutualExclusion == Spec => []OnePipeline
  <1>1. PipelineInductive => OnePipeline
    BY DEF PipelineInductive, Holder, OnePipeline
  <1> QED
    BY <1>1, PipelineInductiveHolds, PTL

\* What persist_run_artifact writes to the pointer is younger than what it replaces.
LEMMA PointerAdvances ==
    ASSUME LockOutlives, PipelineInductive, [Next]_vars, latest' # latest, latest # None
    PROVE  latest'.run > latest.run /\ latest'.at >= latest.at
  <1>1. PICK c \in Callers : Persist(c) \/ PersistFailure(c)
    BY DEF Next, vars, SchedulerStarts, SchedulerWakes, SchedulerRetries, OtherStarts, Step, Acquire,
           SkipRunning, NoRedis, Collect, WaitForJob, Report, Deliver, Post, SkipDelivery,
           Release, KeepRecords, FinishJob,
           Expire, Kill, Tick
  <1>2. latest' = Pointer(c) /\ pc[c] \in {"artifact_persistence", "failing"}
    BY <1>1 DEF Persist, PersistFailure, Recorded, RecordFails
  <1>3. AtWork(c) /\ pc[c] # "release"
    BY <1>2 DEF AtWork, Working, Steps
  <1>4. latest.run < run[c] /\ latest.at <= ended[c]
    BY <1>2, <1>3 DEF PipelineInductive, Unrecorded, Later
  <1>5. latest.run \in Nat /\ latest.at \in Nat /\ run[c] \in Nat /\ ended[c] \in Nat
    BY <1>3 DEF PipelineInductive, Values
  <1> QED
    BY <1>2, <1>4, <1>5 DEF Pointer

\* latest.json moves forward only, in runs and in time, while the lock outlives a run.
THEOREM PointerMovesForward == LockOutlives => (Spec => LatestMovesForward)
  <1> SUFFICES ASSUME LockOutlives PROVE Spec => LatestMovesForward
    OBVIOUS
  <1>1. PipelineInductive /\ [Next]_vars
        => [latest' # latest /\ latest # None
            => latest'.run > latest.run /\ latest'.at >= latest.at]_vars
    BY PointerAdvances
  <1> QED
    BY <1>1, PipelineInductiveHolds, PTL DEF Spec, LatestMovesForward

---------------------------------------------------------------------------
(* The episodes of the scheduler. *)

\* The end of a process of the scheduler is a delay or sleep until a later hour.
LEMMA ExitEffect ==
    ASSUME DailyInductive, NEW c \in Callers, NEW status, Exit(c, status), pc[c] # "idle"
    PROVE  /\ pc' = [pc EXCEPT ![c] = "idle"] /\ run' = [run EXCEPT ![c] = None]
           /\ code' = [code EXCEPT ![c] = "none"] /\ ended' = [ended EXCEPT ![c] = 0]
           /\ job' = [job EXCEPT ![c] = "none"]
           /\ c # Scheduler => UNCHANGED <<sched, attempt, due>>
           /\ c = Scheduler =>
                 /\ sched = "running"
                 /\ \/ /\ status = "retry" /\ sched' = "delay" /\ attempt < MaxAttempts
                       /\ attempt' = attempt /\ due' = due
                    \/ /\ sched' = "asleep" /\ attempt' = 0
                       /\ due' \in Nat /\ due' > now /\ (attempt < MaxAttempts => status # "retry")
  <1>1. pc[Scheduler] # "idle" => sched = "running"
    BY DEF DailyInductive, PipelineInductive, Waiting
  <1>2. NextRunAt(now) \in Nat /\ NextRunAt(now) > now
    BY DEF NextRunAt, DailyInductive, PipelineInductive, Values
  <1> QED
    BY <1>1, <1>2 DEF Exit, Leave, Retry, scheduler

\* A process changes its own columns only, and the scheduler's only if it is his.
LEMMA StepIsOwn ==
    ASSUME DailyInductive, NEW c \in Callers, Step(c) \/ Kill(c), NEW d \in Callers, d # c
    PROVE  /\ pc'[d] = pc[d] /\ run'[d] = run[d] /\ code'[d] = code[d] /\ ended'[d] = ended[d]
           /\ job'[d] = job[d]
           /\ d = Scheduler => UNCHANGED <<sched, attempt, due, posted, recorded>>
  <1> USE DEF DailyInductive, PipelineInductive, Values, Episodes, scheduler
  <1>1. CASE Acquire(c)
    BY <1>1 DEF Acquire
  <1>2. CASE SkipRunning(c)
    BY <1>2 DEF SkipRunning, Exit, Leave
  <1>3. CASE NoRedis(c)
    BY <1>3 DEF NoRedis, Exit, Leave
  <1>4. CASE Collect(c)
    BY <1>4 DEF Collect, Enqueue, Fail, Go, KeepWorld, KeepRecords
  <1>5. CASE WaitForJob(c)
    BY <1>5 DEF WaitForJob, Advance, Enqueue, Fail, Go, KeepWorld, KeepRecords
  <1>6. CASE Report(c)
    BY <1>6 DEF Report, Fail, Go, KeepWorld, KeepRecords
  <1>7. CASE Deliver(c)
    BY <1>7 DEF Deliver, Post, SkipDelivery, DeliveryFails, Fail, Go, KeepWorld
  <1>8. CASE Persist(c)
    BY <1>8 DEF Persist, Recorded, RecordFails, Fail, Go, KeepWorld
  <1>9. CASE PersistFailure(c)
    BY <1>9 DEF PersistFailure, Recorded, RecordFails, Go, KeepWorld
  <1>10. CASE Release(c)
    BY <1>10 DEF Release, Exit, Leave
  <1>11. CASE Kill(c)
    BY <1>11 DEF Kill, Exit, Leave
  <1> QED
    BY <1>1, <1>2, <1>3, <1>4, <1>5, <1>6, <1>7, <1>8, <1>9, <1>10, <1>11 DEF Step

\* The columns a step may leave behind.
LEMMA MoveEpisodes ==
    ASSUME DailyInductive, UNCHANGED <<now, sched, attempt, due>>,
           faults' \in Nat, outages' \in Nat, kills' \in Nat,
           recorded' \in [0 .. MaxTime -> Nat],
           code' \in [Callers -> {"none", "ok", "retry", "final"}],
           job' \in [Callers -> {"none", "queued", "finished", "failed"}]
    PROVE  Episodes'
  BY DEF DailyInductive, Episodes, Busy

\* The end of a process, of the scheduler or of another caller.
LEMMA ExitEpisodes ==
    ASSUME DailyInductive, NEW c \in Callers, NEW status, Exit(c, status), pc[c] # "idle",
           UNCHANGED <<now, recorded>>, faults' \in Nat, outages' \in Nat, kills' \in Nat
    PROVE  Episodes'
  <1>1. Episodes
    BY DEF DailyInductive
  <1>2. /\ code' = [code EXCEPT ![c] = "none"] /\ job' = [job EXCEPT ![c] = "none"]
        /\ \/ UNCHANGED <<sched, attempt, due>>
           \/ sched' = "delay" /\ sched = "running" /\ attempt < MaxAttempts
              /\ UNCHANGED <<attempt, due>>
           \/ sched' = "asleep" /\ attempt' = 0 /\ due' \in Nat
    BY ExitEffect
  <1>3. /\ code' \in [Callers -> {"none", "ok", "retry", "final"}]
        /\ job' \in [Callers -> {"none", "queued", "finished", "failed"}]
    BY <1>1, <1>2 DEF Episodes
  <1>4. CASE UNCHANGED <<sched, attempt, due>>
    BY <1>1, <1>3, <1>4 DEF Episodes, Busy
  <1>5. CASE sched' = "delay" /\ sched = "running" /\ attempt < MaxAttempts
             /\ UNCHANGED <<attempt, due>>
    BY <1>1, <1>3, <1>5 DEF Episodes, Busy
  <1>6. CASE sched' = "asleep" /\ attempt' = 0 /\ due' \in Nat
    BY <1>1, <1>3, <1>6 DEF Episodes, Busy
  <1> QED
    BY <1>2, <1>4, <1>5, <1>6

\* A process at work, or about to be.
LEMMA StepEpisodes ==
    ASSUME DailyInductive, NEW c \in Callers, Step(c)
    PROVE  Episodes'
  <1> USE DEF Go, KeepWorld, KeepRecords, scheduler, bounds
  <1>1. Episodes /\ UNCHANGED kills
    BY DEF DailyInductive, Step, Acquire, SkipRunning, NoRedis, Collect, WaitForJob, Report,
       Deliver, Post, SkipDelivery,
           Persist, PersistFailure, Release
  <1>2. /\ faults \in Nat /\ outages \in Nat /\ kills \in Nat
        /\ recorded \in [0 .. MaxTime -> Nat]
        /\ code \in [Callers -> {"none", "ok", "retry", "final"}]
        /\ job \in [Callers -> {"none", "queued", "finished", "failed"}]
    BY <1>1 DEF Episodes
  <1>3. ASSUME NEW status \in {"retry", "final"}, Fail(c, status)
        PROVE  /\ code' \in [Callers -> {"none", "ok", "retry", "final"}]
               /\ job' \in [Callers -> {"none", "queued", "finished", "failed"}]
    BY <1>2, <1>3 DEF Fail
  <1>4. CASE Acquire(c)
    BY <1>2, <1>4, MoveEpisodes DEF Acquire
  <1>5. CASE SkipRunning(c)
    <2>1. UNCHANGED <<now, recorded, outages, kills>> /\ pc[c] # "idle" /\ faults' \in Nat
      BY <1>2, <1>5 DEF SkipRunning
    <2> QED
      BY <1>2, <1>5, <2>1, ExitEpisodes DEF SkipRunning
  <1>6. CASE NoRedis(c)
    <2>1. UNCHANGED <<now, recorded, faults, kills>> /\ pc[c] # "idle" /\ outages' \in Nat
      BY <1>2, <1>6 DEF NoRedis
    <2> QED
      BY <1>2, <1>6, <2>1, ExitEpisodes DEF NoRedis
  <1>7. ASSUME NEW stage, Enqueue(c, stage)
        PROVE  /\ outages' \in Nat
               /\ code' \in [Callers -> {"none", "ok", "retry", "final"}]
               /\ job' \in [Callers -> {"none", "queued", "finished", "failed"}]
    <2>1. CASE Fail(c, "retry") /\ outages' = outages + 1
      BY <1>2, <1>3, <2>1
    <2>2. CASE job' = [job EXCEPT ![c] = "queued"] /\ UNCHANGED <<code, outages>>
      BY <1>2, <2>2
    <2> QED
      BY <1>7, <2>1, <2>2 DEF Enqueue
  <1>8. CASE Collect(c)
    <2>1. UNCHANGED <<now, sched, attempt, due, recorded, faults, kills>>
      BY <1>1, <1>8 DEF Collect
    <2>2. Enqueue(c, Stages[1]) \/ (Fail(c, "retry") /\ outages' = outages)
      BY <1>8 DEF Collect
    <2>3. /\ outages' \in Nat
          /\ code' \in [Callers -> {"none", "ok", "retry", "final"}]
          /\ job' \in [Callers -> {"none", "queued", "finished", "failed"}]
      BY <1>2, <1>3, <1>7, <2>2
    <2> QED
      BY <1>2, <2>1, <2>3, MoveEpisodes
  <1>9. CASE WaitForJob(c)
    <2>1. UNCHANGED <<now, sched, attempt, due, recorded, faults, kills>>
      BY <1>1, <1>9 DEF WaitForJob
    <2>2. \/ \E stage : Enqueue(c, stage)
          \/ Fail(c, "retry") /\ outages' = outages
          \/ job' = [job EXCEPT ![c] = "none"] /\ UNCHANGED <<code, outages>>
      BY <1>9 DEF WaitForJob, Advance
    <2>3. /\ outages' \in Nat
          /\ code' \in [Callers -> {"none", "ok", "retry", "final"}]
          /\ job' \in [Callers -> {"none", "queued", "finished", "failed"}]
      BY <1>2, <1>3, <1>7, <2>2
    <2> QED
      BY <1>2, <2>1, <2>3, MoveEpisodes
  <1>10. CASE Report(c)
    BY <1>1, <1>2, <1>3, <1>10, MoveEpisodes DEF Report
  <1>11. CASE Deliver(c)
    BY <1>1, <1>2, <1>3, <1>11, MoveEpisodes DEF Deliver, Post, SkipDelivery, DeliveryFails
  <1>12. ASSUME NEW status, Recorded(c, status) \/ RecordFails(c, status)
         PROVE  recorded' \in [0 .. MaxTime -> Nat] /\ faults' \in Nat
    <2>1. faults' \in Nat
      BY <1>2, <1>12 DEF Recorded, RecordFails
    <2>2. [recorded EXCEPT ![ended[c]] = @ + 1] \in [0 .. MaxTime -> Nat]
      <3>1. \A t \in 0 .. MaxTime : recorded[t] + 1 \in Nat
        BY <1>2
      <3> QED
        BY <1>2, <3>1
    <2>3. recorded' = recorded \/ recorded' = [recorded EXCEPT ![ended[c]] = @ + 1]
      BY <1>12 DEF Recorded, RecordFails
    <2> QED
      BY <1>2, <2>1, <2>2, <2>3
  <1>13. CASE Persist(c)
    <2>1. UNCHANGED <<now, sched, attempt, due, outages, kills>>
      BY <1>1, <1>13 DEF Persist
    <2>2. \/ Recorded(c, "success") /\ code' = [code EXCEPT ![c] = "ok"] /\ job' = job
          \/ RecordFails(c, "success") /\ Fail(c, "final")
      BY <1>13 DEF Persist
    <2>3. /\ code' \in [Callers -> {"none", "ok", "retry", "final"}]
          /\ job' \in [Callers -> {"none", "queued", "finished", "failed"}]
      BY <1>2, <1>3, <2>2
    <2> QED
      BY <1>2, <1>12, <2>1, <2>2, <2>3, MoveEpisodes
  <1>14. CASE PersistFailure(c)
    <2>1. UNCHANGED <<now, sched, attempt, due, outages, kills, code, job>>
      BY <1>1, <1>14 DEF PersistFailure
    <2>2. \/ Recorded(c, "failed") \/ RecordFails(c, "failed")
          \/ UNCHANGED <<recorded, faults>>
      BY <1>14 DEF PersistFailure
    <2> QED
      BY <1>2, <1>12, <2>1, <2>2, MoveEpisodes
  <1>15. CASE Release(c)
    <2>1. UNCHANGED <<now, recorded, faults, kills>> /\ pc[c] # "idle" /\ outages' \in Nat
      BY <1>2, <1>15 DEF Release
    <2>2. Exit(c, code[c]) \/ Exit(c, "retry")
      BY <1>15 DEF Release
    <2> QED
      BY <1>2, <2>1, <2>2, ExitEpisodes
  <1> QED
    BY <1>4, <1>5, <1>6, <1>8, <1>9, <1>10, <1>11, <1>13, <1>14, <1>15 DEF Step

\* An episode begins with its first attempt, and goes on to the next one.
LEMMA EpisodesKept ==
    ASSUME DailyInductive, [Next]_vars
    PROVE  Episodes'
  <1> USE DEF Episodes, Busy, scheduler, process, bounds
  <1>1. Episodes /\ now \in Nat
    BY DEF DailyInductive, PipelineInductive, Values
  <1>2. CASE SchedulerStarts
    BY <1>1, <1>2 DEF SchedulerStarts, Episode, NextRunAt
  <1>3. CASE SchedulerWakes
    BY <1>1, <1>3 DEF SchedulerWakes, Episode
  <1>4. CASE SchedulerRetries
    BY <1>1, <1>4 DEF SchedulerRetries
  <1>5. ASSUME NEW c \in Others, OtherStarts(c) PROVE Episodes'
    BY <1>1, <1>5 DEF OtherStarts
  <1>6. ASSUME NEW c \in Callers, Kill(c) PROVE Episodes'
    <2>1. UNCHANGED <<now, recorded, faults, outages>> /\ kills' \in Nat
      BY <1>1, <1>6 DEF Kill
    <2>2. CASE pc[c] # "idle" /\ Exit(c, "final")
      BY <1>1, <2>1, <2>2, ExitEpisodes
    <2>3. CASE Leave(c) /\ sched' = "down" /\ attempt' = 0 /\ due' = 0
      BY <1>1, <2>1, <2>3 DEF Leave
    <2> QED
      BY <1>6, <2>2, <2>3 DEF Kill
  <1>7. ASSUME NEW s \in Stage, FinishJob(s) PROVE Episodes'
    BY <1>1, <1>7 DEF FinishJob
  <1>8. CASE Expire \/ UNCHANGED vars
    BY <1>1, <1>8 DEF Expire, vars
  <1>9. CASE Tick
    BY <1>1, <1>9 DEF Tick
  <1> QED
    BY <1>2, <1>3, <1>4, <1>5, <1>6, <1>7, <1>8, <1>9, StepEpisodes DEF Next

---------------------------------------------------------------------------
(* The webhook. *)

\* Nothing that has disturbed a run is forgotten.
LEMMA DisturbancesStay ==
    ASSUME DailyInductive, [Next]_vars
    PROVE  /\ kills' = 0 => kills = 0
           /\ faults' = 0 => faults = 0
           /\ outages' = 0 => outages = 0
  BY DEF DailyInductive, Episodes, Next, vars, bounds, SchedulerStarts, SchedulerWakes,
         SchedulerRetries, OtherStarts, Step, Acquire, SkipRunning, NoRedis, Collect, WaitForJob,
         Advance, Enqueue, Report, Deliver, Post, SkipDelivery, Persist, Recorded, RecordFails,
         PersistFailure, KeepWorld,
         KeepRecords, Release, FinishJob, Expire, Kill, Tick

\* A run of the scheduler that is at a step before its delivery has posted nothing,
\* nor has the episode.
LEMMA ScheduledPosting ==
    ASSUME DailyInductive, Step(Scheduler), outages = 0, outages' = 0
    PROVE  Posting'
  <1> USE StageNames DEF KeepWorld, scheduler, Go
  <1>1. /\ posted = {} \/ \E r \in posted : posted = {r}
        /\ posted # {} =>
              /\ sched # "delay"
              /\ pc[Scheduler] \in {"idle", "artifact_persistence", "failing", "release"}
              /\ pc[Scheduler] \in {"failing", "release"} => code[Scheduler] \in {"ok", "final"}
    BY DEF DailyInductive, Posting
  <1>2. /\ Scheduler \in Callers
        /\ pc \in [Callers -> Before \cup Working]
        /\ code \in [Callers -> {"none", "ok", "retry", "final"}]
        /\ pc[Scheduler] # "idle" => sched = "running"
    BY DEF DailyInductive, PipelineInductive, Values, Waiting, Episodes, Callers
  <1>3. CASE Acquire(Scheduler) \/ SkipRunning(Scheduler)
    <2>1. posted' = {}
      BY <1>1, <1>3 DEF Acquire, SkipRunning
    <2> QED
      BY <2>1 DEF Posting
  <1>4. CASE Collect(Scheduler) \/ WaitForJob(Scheduler) \/ Report(Scheduler)
    <2>1. pc[Scheduler] \notin {"idle", "artifact_persistence", "failing", "release"}
      BY <1>4 DEF Collect, WaitForJob, Report, Before, Steps
    <2>2. posted' = {}
      BY <1>1, <1>4, <2>1 DEF Collect, WaitForJob, Report, KeepRecords
    <2> QED
      BY <2>2 DEF Posting
  <1>5. CASE Deliver(Scheduler)
    <2>1. posted = {} /\ pc[Scheduler] = "delivery" /\ sched' = "running"
      BY <1>1, <1>2, <1>5 DEF Deliver
    <2>2. posted' = {run[Scheduler]} \/ posted' = {}
      BY <1>5, <2>1 DEF Deliver, Post, SkipDelivery
    <2>3. \/ pc'[Scheduler] = "artifact_persistence"
          \/ pc'[Scheduler] = "failing" /\ code'[Scheduler] = "final"
      BY <1>2, <1>5 DEF Deliver, Post, SkipDelivery, DeliveryFails, Fail
    <2> QED
      BY <2>1, <2>2, <2>3 DEF Posting
  <1>6. CASE Persist(Scheduler)
    <2>1. posted' = posted /\ sched' = "running"
      BY <1>2, <1>6 DEF Persist
    <2>2. \/ pc'[Scheduler] = "release" /\ code'[Scheduler] = "ok"
          \/ pc'[Scheduler] = "failing" /\ code'[Scheduler] = "final"
      BY <1>2, <1>6 DEF Persist, Fail
    <2> QED
      BY <1>1, <2>1, <2>2 DEF Posting
  <1>7. CASE PersistFailure(Scheduler)
    <2>1. /\ posted' = posted /\ sched' = "running" /\ pc[Scheduler] = "failing"
          /\ pc'[Scheduler] = "release" /\ code' = code
      BY <1>2, <1>7 DEF PersistFailure
    <2> QED
      BY <1>1, <2>1 DEF Posting
  <1>8. CASE Release(Scheduler)
    <2>1. /\ posted' = posted /\ pc[Scheduler] = "release" /\ Exit(Scheduler, code[Scheduler])
      BY <1>8 DEF Release, DailyInductive, Episodes
    <2>2. pc'[Scheduler] = "idle" /\ (code[Scheduler] # "retry" => sched' = "asleep")
      BY <1>2, <2>1, ExitEffect
    <2> QED
      BY <1>1, <2>1, <2>2 DEF Posting
  <1>9. ~NoRedis(Scheduler)
    BY DEF NoRedis, DailyInductive, Episodes
  <1> QED
    BY <1>3, <1>4, <1>5, <1>6, <1>7, <1>8, <1>9 DEF Step

\* What the scheduler has posted is not touched by anybody else.
LEMMA PostingKept ==
    ASSUME DailyInductive, [Next]_vars
    PROVE  Posting'
  <1> SUFFICES ASSUME outages' = 0 PROVE Posting'
    BY DEF Posting
  <1> USE DEF scheduler, process
  <1>1. outages = 0 /\ Posting /\ Scheduler \in Callers /\ pc \in [Callers -> Before \cup Working]
    BY DisturbancesStay DEF DailyInductive, PipelineInductive, Values, Callers
  <1>2. ASSUME UNCHANGED <<posted, sched>>, pc'[Scheduler] = pc[Scheduler],
               code'[Scheduler] = code[Scheduler]
        PROVE  Posting'
    BY <1>1, <1>2 DEF Posting
  <1>3. CASE SchedulerStarts \/ SchedulerWakes
    <2>1. posted' = {}
      BY <1>3 DEF SchedulerStarts, SchedulerWakes
    <2> QED
      BY <2>1 DEF Posting
  <1>4. CASE SchedulerRetries
    <2>1. posted' = {}
      BY <1>1, <1>4 DEF SchedulerRetries, Posting
    <2> QED
      BY <2>1 DEF Posting
  <1>5. ASSUME NEW c \in Others, OtherStarts(c) PROVE Posting'
    BY <1>1, <1>2, <1>5 DEF OtherStarts, Launch
  <1>6. ASSUME NEW c \in Callers, Step(c) \/ Kill(c), c # Scheduler PROVE Posting'
    BY <1>1, <1>2, <1>6, StepIsOwn
  <1>7. CASE Step(Scheduler)
    BY <1>1, <1>7, ScheduledPosting
  <1>8. CASE Kill(Scheduler)
    <2>1. posted' = posted /\ pc'[Scheduler] = "idle"
      BY <1>1, <1>8 DEF Kill, Exit, Leave
    <2>2. sched' # "delay"
      BY <1>8 DEF Kill, Exit, Retry
    <2> QED
      BY <1>1, <2>1, <2>2 DEF Posting
  <1>9. CASE Expire \/ Tick \/ (\E s \in Stage : FinishJob(s)) \/ UNCHANGED vars
    BY <1>1, <1>2, <1>9 DEF Expire, Tick, FinishJob, vars
  <1> QED
    BY <1>3, <1>4, <1>5, <1>6, <1>7, <1>8, <1>9 DEF Next

---------------------------------------------------------------------------
(* What the scheduler has recorded. *)

\* A pointer once written is there, and does not go back in time.
LEMMA PointerStays ==
    ASSUME LockOutlives, DailyInductive, [Next]_vars, latest # None
    PROVE  latest' # None /\ latest'.at >= latest.at /\ latest.at \in Nat /\ latest'.at \in Nat
  <1>1. PipelineInductive /\ latest \in [run : Nat, at : Nat]
    BY DEF DailyInductive, PipelineInductive, Values
  <1>2. CASE latest' = latest
    BY <1>1, <1>2
  <1>3. CASE latest' # latest
    <2>1. PICK c \in Callers : Persist(c) \/ PersistFailure(c)
      BY <1>3 DEF Next, vars, SchedulerStarts, SchedulerWakes, SchedulerRetries, OtherStarts, Step,
             Acquire, SkipRunning, NoRedis, Collect, WaitForJob, Report, Deliver, Post,
             SkipDelivery, Release, KeepRecords,
             FinishJob, Expire, Kill, Tick
    <2>2. latest' = Pointer(c) /\ AtWork(c)
      BY <1>3, <2>1 DEF Persist, PersistFailure, Recorded, RecordFails, AtWork, Working, Steps
    <2>3. latest' \in [run : Nat, at : Nat]
      BY <1>1, <2>2 DEF PipelineInductive, Values, Pointer
    <2> QED
      BY <1>1, <1>3, <2>3, PointerAdvances
  <1> QED
    BY <1>2, <1>3

\* Steps that are not the scheduler's.
LEMMA RecordingsSame ==
    ASSUME LockOutlives, ~RunOnStart, DailyInductive, [Next]_vars,
           UNCHANGED <<sched, attempt, due, recorded>>, now' \in Nat, now' >= now,
           pc'[Scheduler] = pc[Scheduler]
    PROVE  Recordings'
  <1>1. Recordings /\ now \in Nat
    BY DEF DailyInductive, PipelineInductive, Values
  <1>2. ASSUME NEW t \in 0 .. MaxTime, recorded[t] > 0
        PROVE  t <= now' /\ latest' # None /\ t <= latest'.at
    BY <1>1, <1>2, PointerStays DEF Recordings
  <1> QED
    BY <1>1, <1>2 DEF Recordings, Busy, Tried

\* A process of the scheduler ends.
LEMMA RecordingsExit ==
    ASSUME LockOutlives, ~RunOnStart, DailyInductive, NEW status, Exit(Scheduler, status),
           pc[Scheduler] # "idle", UNCHANGED <<now, latest, recorded>>
    PROVE  Recordings'
  <1>1. /\ Recordings /\ Episodes /\ now \in Nat /\ Scheduler \in Callers
        /\ pc \in [Callers -> Before \cup Working]
    BY DEF DailyInductive, PipelineInductive, Values, Callers
  <1>2. /\ pc'[Scheduler] = "idle" /\ sched = "running"
        /\ \/ sched' = "delay" /\ attempt' = attempt /\ due' = due
           \/ sched' = "asleep" /\ due' \in Nat /\ due' > now
    BY <1>1, ExitEffect
  <1>3. CASE sched' = "delay" /\ attempt' = attempt /\ due' = due
    BY <1>1, <1>2, <1>3 DEF Recordings, Episodes, Busy, Tried
  <1>4. CASE sched' = "asleep" /\ due' \in Nat /\ due' > now
    BY <1>1, <1>2, <1>4 DEF Recordings, Busy
  <1> QED
    BY <1>2, <1>3, <1>4

\* A process of the scheduler goes on, without a record.
LEMMA RecordingsMove ==
    ASSUME LockOutlives, ~RunOnStart, DailyInductive, NEW x, pc[Scheduler] # "idle",
           pc[Scheduler] # "release", UNCHANGED <<now, latest, recorded, sched, attempt, due>>,
           pc' = [pc EXCEPT ![Scheduler] = x]
    PROVE  Recordings'
  <1>1. /\ Recordings /\ Episodes /\ now \in Nat /\ Scheduler \in Callers
        /\ pc \in [Callers -> Before \cup Working] /\ sched = "running"
    BY DEF DailyInductive, PipelineInductive, Values, Waiting, Callers
  <1>2. attempt \in Nat /\ due \in Nat /\ recorded \in [0 .. MaxTime -> Nat]
    BY <1>1 DEF Episodes
  <1>3. Tried = attempt - 1 /\ Tried' \in {attempt - 1, attempt}
    BY <1>1 DEF Tried
  <1>4. Busy' = Busy
    BY DEF Busy
  <1> QED
    BY <1>1, <1>2, <1>3, <1>4 DEF Recordings

\* A process of the scheduler records its run: an attempt of this episode, at a time
\* from its hour on.
LEMMA RecordingsRecord ==
    ASSUME LockOutlives, ~RunOnStart, DailyInductive, [Next]_vars,
           pc[Scheduler] \in {"artifact_persistence", "failing"},
           latest' = Pointer(Scheduler), recorded' = [recorded EXCEPT ![ended[Scheduler]] = @ + 1],
           pc' = [pc EXCEPT ![Scheduler] = "release"],
           UNCHANGED <<now, sched, attempt, due>>
    PROVE  Recordings'
  <1>1. /\ Recordings /\ Episodes /\ now \in Nat /\ Scheduler \in Callers
        /\ pc \in [Callers -> Before \cup Working] /\ ended \in [Callers -> Nat]
        /\ run[Scheduler] \in Nat /\ sched = "running" /\ ended[Scheduler] <= now
    BY DEF DailyInductive, PipelineInductive, Values, Waiting, Callers, Newest, AtWork, Working, Steps
  <1>2. /\ attempt \in Nat /\ attempt <= MaxAttempts /\ due \in Nat /\ due <= now
        /\ now <= MaxTime /\ recorded \in [0 .. MaxTime -> Nat] /\ Busy
    BY <1>1 DEF Episodes, Busy
  <1> DEFINE e == ended[Scheduler]
  <1>3. e \in 0 .. MaxTime /\ due <= e
    BY <1>1, <1>2 DEF DailyInductive, Timely
  <1>4. Tried = attempt - 1 /\ Tried' = attempt /\ pc'[Scheduler] = "release"
    BY <1>1 DEF Tried
  <1>5. latest' # None /\ latest'.at = e
    BY <1>1 DEF Pointer
  <1>6. recorded[e] <= attempt - 1
    BY <1>1, <1>2, <1>3, <1>4 DEF Recordings
  <1>7. ASSUME NEW t \in 0 .. MaxTime, t # e
        PROVE  recorded'[t] = recorded[t]
    BY <1>2, <1>7
  <1>8. recorded'[e] = recorded[e] + 1
    BY <1>2, <1>3
  <1> HIDE DEF e
  <1>9. ASSUME NEW t \in 0 .. MaxTime
        PROVE  /\ recorded'[t] <= MaxAttempts
               /\ recorded'[t] > 0 => t <= now /\ t <= latest'.at
               /\ t >= due => recorded'[t] <= attempt
    <2>1. CASE t = e
      <3>1. e <= now
        BY <1>1 DEF e
      <3> QED
        BY <1>2, <1>3, <1>5, <1>6, <1>8, <2>1, <3>1
    <2>2. CASE t # e
      <3>1. recorded'[t] = recorded[t] /\ recorded[t] \in Nat
        BY <1>2, <1>7, <2>2
      <3>2. /\ recorded[t] <= MaxAttempts
            /\ recorded[t] > 0 => t <= now /\ latest # None /\ t <= latest.at
            /\ t >= due => recorded[t] <= attempt - 1
        BY <1>1, <1>2, <1>4 DEF Recordings
      <3>3. latest # None => latest'.at >= latest.at /\ latest.at \in Nat /\ latest'.at \in Nat
        BY PointerStays
      <3> QED
        BY <1>2, <3>1, <3>2, <3>3
    <2> QED
      BY <2>1, <2>2
  <1>10. Recordings'
    BY <1>1, <1>2, <1>4, <1>5, <1>9 DEF Recordings, Busy
  <1> QED
    BY <1>10

\* Every step of a process of the scheduler.
LEMMA ScheduledRecordings ==
    ASSUME LockOutlives, ~RunOnStart, DailyInductive, Step(Scheduler)
    PROVE  Recordings'
  <1> USE StageNames DEF KeepWorld, KeepRecords, scheduler, Go
  <1>1. /\ pc \in [Callers -> Before \cup Working] /\ ended \in [Callers -> Nat]
        /\ Scheduler \in Callers /\ [Next]_vars
    BY DEF DailyInductive, PipelineInductive, Values, Callers, Next
  <1>2. ASSUME NEW status, Fail(Scheduler, status), pc[Scheduler] \notin {"idle", "release"},
               UNCHANGED <<now, latest, recorded, sched, attempt, due>>
        PROVE  Recordings'
    BY <1>2, RecordingsMove DEF Fail
  <1>3. ASSUME NEW stage \in Stage, Enqueue(Scheduler, stage), pc[Scheduler] \notin {"idle", "release"},
               UNCHANGED <<now, latest, recorded, sched, attempt, due>>
        PROVE  Recordings'
    <2>1. CASE Go(Scheduler, stage) /\ ended' = ended
      <3>1. stage \notin {"delivery", "artifact_persistence", "failing"}
        BY DEF Steps
      <3> QED
        BY <1>3, <2>1, <3>1, RecordingsMove
    <2> QED
      BY <1>2, <1>3, <2>1 DEF Enqueue
  <1>4. CASE Acquire(Scheduler)
    <2>1. /\ UNCHANGED <<now, latest, recorded, sched, attempt, due, ended>>
          /\ pc[Scheduler] = "start" /\ pc' = [pc EXCEPT ![Scheduler] = "collection"]
      BY <1>4 DEF Acquire
    <2> QED
      BY <2>1, RecordingsMove
  <1>5. CASE SkipRunning(Scheduler) \/ NoRedis(Scheduler) \/ Release(Scheduler)
    <2>1. UNCHANGED <<now, latest, recorded>> /\ pc[Scheduler] # "idle"
      BY <1>5 DEF SkipRunning, NoRedis, Release
    <2>2. \E status : Exit(Scheduler, status)
      BY <1>5 DEF SkipRunning, NoRedis, Release
    <2> QED
      BY <2>1, <2>2, RecordingsExit
  <1>6. CASE Collect(Scheduler)
    <2>1. /\ UNCHANGED <<now, latest, recorded, sched, attempt, due>>
          /\ pc[Scheduler] = "collection" /\ Stages[1] \in Stage
          /\ Enqueue(Scheduler, Stages[1]) \/ Fail(Scheduler, "retry")
      BY <1>6 DEF Collect, Stage
    <2> QED
      BY <1>2, <1>3, <2>1
  <1>7. CASE WaitForJob(Scheduler)
    <2>1. PICK i \in DOMAIN Stages :
             pc[Scheduler] = Stages[i] /\ (Advance(Scheduler, i) \/ Fail(Scheduler, "retry"))
      BY <1>7 DEF WaitForJob
    <2>2. /\ UNCHANGED <<now, latest, recorded, sched, attempt, due>>
          /\ pc[Scheduler] \notin {"idle", "release"}
      BY <1>7, <2>1 DEF WaitForJob, Before, Steps
    <2>3. CASE pc' = [pc EXCEPT ![Scheduler] = "daily_report"] /\ ended' = ended
      BY <2>2, <2>3, RecordingsMove
    <2>4. CASE i # Len(Stages) /\ Enqueue(Scheduler, Stages[i + 1])
      <3>1. Stages[i + 1] \in Stage
        BY <2>4 DEF Stage
      <3> QED
        BY <1>3, <2>2, <2>4, <3>1
    <2> QED
      BY <1>2, <2>1, <2>2, <2>3, <2>4 DEF Advance
  <1>8. CASE Report(Scheduler)
    <2>1. /\ UNCHANGED <<now, latest, recorded, sched, attempt, due>>
          /\ pc[Scheduler] = "daily_report"
      BY <1>8 DEF Report
    <2>2. CASE pc' = [pc EXCEPT ![Scheduler] = "delivery"] /\ ended' = [ended EXCEPT ![Scheduler] = now]
      BY <2>1, <2>2, RecordingsMove
    <2> QED
      BY <1>2, <1>8, <2>1, <2>2 DEF Report
  <1>9. CASE Deliver(Scheduler)
    <2>1. /\ UNCHANGED <<now, latest, recorded, sched, attempt, due>>
          /\ pc[Scheduler] = "delivery"
      BY <1>9 DEF Deliver, Post, SkipDelivery
    <2>2. CASE pc' = [pc EXCEPT ![Scheduler] = "artifact_persistence"] /\ ended' = ended
      BY <2>1, <2>2, RecordingsMove
    <2> QED
      BY <1>2, <1>9, <2>1, <2>2 DEF Deliver, Post, SkipDelivery, DeliveryFails
  <1>10. CASE Persist(Scheduler)
    <2>1. UNCHANGED <<now, sched, attempt, due>> /\ pc[Scheduler] = "artifact_persistence"
      BY <1>10 DEF Persist
    <2>2. CASE RecordFails(Scheduler, "success") /\ Fail(Scheduler, "final")
      BY <1>2, <2>1, <2>2 DEF RecordFails
    <2>3. CASE Recorded(Scheduler, "success") /\ pc' = [pc EXCEPT ![Scheduler] = "release"]
      BY <1>1, <2>1, <2>3, RecordingsRecord DEF Recorded
    <2> QED
      BY <1>10, <2>2, <2>3 DEF Persist
  <1>11. CASE PersistFailure(Scheduler)
    <2>1. /\ UNCHANGED <<now, sched, attempt, due, ended>> /\ pc[Scheduler] = "failing"
          /\ pc' = [pc EXCEPT ![Scheduler] = "release"]
      BY <1>11 DEF PersistFailure
    <2>2. CASE UNCHANGED <<latest, recorded>>
      BY <2>1, <2>2, RecordingsMove
    <2>3. CASE Recorded(Scheduler, "failed")
      BY <1>1, <2>1, <2>3, RecordingsRecord DEF Recorded
    <2> QED
      BY <1>11, <2>2, <2>3 DEF PersistFailure, RecordFails
  <1> QED
    BY <1>4, <1>5, <1>6, <1>7, <1>8, <1>9, <1>10, <1>11 DEF Step

\* startup_run_reason, the wait for the hour and the retries keep the count.
LEMMA RecordingsKept ==
    ASSUME LockOutlives, ~RunOnStart, DailyInductive, [Next]_vars
    PROVE  Recordings'
  <1> USE DEF scheduler, process
  <1>1. /\ pc \in [Callers -> Before \cup Working] /\ ended \in [Callers -> Nat]
        /\ Scheduler \in Callers /\ now \in Nat /\ attempt \in Nat /\ due \in Nat /\ Recordings
        /\ recorded \in [0 .. MaxTime -> Nat] /\ Waiting
        /\ latest # None => latest.at \in Nat
    BY DEF DailyInductive, PipelineInductive, Values, Callers, Episodes
  <1>2. CASE SchedulerStarts
    <2>1. UNCHANGED <<now, latest, recorded>> /\ sched = "down"
      BY <1>2 DEF SchedulerStarts
    <2>2. CASE StartupRun /\ Episode(now)
      <3>1. \A t \in 0 .. MaxTime : t >= now => recorded[t] = 0
        BY <1>1, <2>2 DEF StartupRun, Recordings
      <3>2. pc'[Scheduler] = "start" /\ sched' = "running" /\ attempt' = 1 /\ due' = now
        BY <1>1, <2>2 DEF Episode, Launch
      <3> QED
        BY <1>1, <2>1, <3>1, <3>2 DEF Recordings, Busy, Tried
    <2>3. CASE sched' = "asleep" /\ due' = NextRunAt(now) /\ UNCHANGED pc
      <3>1. due' > now /\ due' \in Nat /\ pc'[Scheduler] = "idle"
        BY <1>1, <2>1, <2>3 DEF NextRunAt, Waiting
      <3> QED
        BY <1>1, <2>1, <2>3, <3>1 DEF Recordings, Busy
    <2> QED
      BY <1>2, <2>2, <2>3 DEF SchedulerStarts
  <1>3. CASE SchedulerWakes
    <2>1. /\ UNCHANGED <<now, latest, recorded, due>> /\ sched = "asleep"
          /\ sched' = "running" /\ attempt' = 1 /\ pc'[Scheduler] = "start"
      BY <1>1, <1>3 DEF SchedulerWakes, Episode, Launch
    <2>2. \A t \in 0 .. MaxTime : t >= due => recorded[t] = 0
      BY <1>1, <2>1 DEF Recordings
    <2> QED
      BY <1>1, <2>1, <2>2 DEF Recordings, Busy, Tried
  <1>4. CASE SchedulerRetries
    <2>1. /\ UNCHANGED <<now, latest, recorded, due>> /\ sched = "delay"
          /\ sched' = "running" /\ attempt' = attempt + 1 /\ pc'[Scheduler] = "start"
      BY <1>1, <1>4 DEF SchedulerRetries, Launch
    <2>2. Tried = attempt /\ Tried' = attempt /\ Busy
      BY <1>1, <2>1 DEF Tried, Busy
    <2> QED
      BY <1>1, <2>1, <2>2 DEF Recordings
  <1>5. ASSUME NEW c \in Others, OtherStarts(c) PROVE Recordings'
    <2>1. UNCHANGED <<sched, attempt, due, recorded, now, ended>> /\ pc'[Scheduler] = pc[Scheduler]
      BY <1>1, <1>5 DEF OtherStarts, Launch
    <2> QED
      BY <1>1, <2>1, RecordingsSame
  <1>6. ASSUME NEW c \in Callers, Step(c) \/ Kill(c), c # Scheduler PROVE Recordings'
    <2>1. /\ UNCHANGED <<sched, attempt, due, recorded>> /\ pc'[Scheduler] = pc[Scheduler]
          /\ ended'[Scheduler] = ended[Scheduler]
      BY <1>1, <1>6, StepIsOwn
    <2>2. now' = now
      BY <1>6 DEF Step, Acquire, SkipRunning, NoRedis, Collect, WaitForJob, Report, Deliver,
         Post, SkipDelivery, Persist,
         PersistFailure, Release, Kill, KeepWorld
    <2> QED
      BY <1>1, <2>1, <2>2, RecordingsSame
  <1>7. CASE Step(Scheduler)
    BY <1>7, ScheduledRecordings
  <1>8. CASE Kill(Scheduler)
    <2>1. UNCHANGED <<now, latest, recorded>>
      BY <1>8 DEF Kill
    <2>2. CASE pc[Scheduler] # "idle" /\ Exit(Scheduler, "final")
      BY <1>1, <2>1, <2>2, RecordingsExit
    <2>3. CASE Leave(Scheduler) /\ sched' = "down"
      <3>1. pc'[Scheduler] = "idle"
        BY <1>1, <2>3 DEF Leave
      <3> QED
        BY <1>1, <2>1, <2>3, <3>1 DEF Recordings, Busy
    <2> QED
      BY <1>8, <2>2, <2>3 DEF Kill
  <1>9. CASE Expire \/ Tick \/ (\E s \in Stage : FinishJob(s)) \/ UNCHANGED vars
    <2>1. /\ UNCHANGED <<sched, attempt, due, recorded, pc, ended>>
          /\ now' \in Nat /\ now' >= now
      BY <1>1, <1>9 DEF Expire, Tick, FinishJob, vars
    <2> QED
      BY <2>1, RecordingsSame
  <1> QED
    BY <1>2, <1>3, <1>4, <1>5, <1>6, <1>7, <1>8, <1>9 DEF Next

---------------------------------------------------------------------------
(* The numbers of the runs. *)

\* The processes that have started and do not have the lock yet.
Starting == {c \in Callers : pc[c] = "start"}

\* The attempts the scheduler's episode has left.
Pending == IF Busy THEN MaxAttempts - attempt ELSE 0

\* There are finitely many of them.
LEMMA StartingIsFinite == IsFiniteSet(Starting) /\ Cardinality(Starting) \in Nat
  <1>1. IsFiniteSet(Callers)
    BY FS_AddElement DEF Callers
  <1>2. Starting \subseteq Callers
    BY DEF Starting
  <1> QED
    BY <1>1, <1>2, FS_Subset, FS_CardinalityType

\* The room that is left, in these terms.
LEMMA RoomIs == ASSUME NEW n PROVE Room(n) <=> made + Cardinality(Starting) + n + Pending <= MaxRuns
  BY DEF Room, Starting, Pending, Busy

\* One process more has started.
LEMMA LaunchCounts ==
    ASSUME pc \in [Callers -> Before \cup Working], NEW c \in Callers, pc[c] # "start",
           pc' = [pc EXCEPT ![c] = "start"]
    PROVE  Cardinality(Starting') = Cardinality(Starting) + 1
  <1>1. Starting' = Starting \cup {c} /\ c \notin Starting
    BY DEF Starting
  <1> QED
    BY <1>1, StartingIsFinite, FS_AddElement

\* A process goes on, or ends.
LEMMA LeavingCounts ==
    ASSUME pc \in [Callers -> Before \cup Working], NEW c \in Callers, NEW x, x # "start",
           pc' = [pc EXCEPT ![c] = x]
    PROVE  /\ pc[c] = "start" => Cardinality(Starting') = Cardinality(Starting) - 1
           /\ pc[c] # "start" => Cardinality(Starting') = Cardinality(Starting)
           /\ Cardinality(Starting') \in Nat
  <1>1. CASE pc[c] = "start"
    <2>1. Starting' = Starting \ {c} /\ c \in Starting
      BY <1>1 DEF Starting
    <2> QED
      BY <1>1, <2>1, StartingIsFinite, FS_RemoveElement, FS_CardinalityType
  <1>2. CASE pc[c] # "start"
    <2>1. Starting' = Starting
      BY <1>2 DEF Starting
    <2> QED
      BY <1>2, <2>1, StartingIsFinite
  <1> QED
    BY <1>1, <1>2

\* Where there is room, the numbers given out are within the bound.
LEMMA RunsFit == ASSUME DailyInductive PROVE made <= MaxRuns /\ Pending \in Nat
  <1>1. made \in Nat /\ attempt \in Nat /\ Room(0) /\ (Busy => attempt \in 1 .. MaxAttempts)
    BY DEF DailyInductive, PipelineInductive, Values, Episodes, Numbered
  <1>2. Pending \in Nat
    BY <1>1 DEF Pending
  <1>3. made + Cardinality(Starting) + 0 + Pending <= MaxRuns
    BY <1>1, RoomIs
  <1> QED
    BY <1>1, <1>2, <1>3, StartingIsFinite

\* What a process does that is at work, or about to be: it takes the lock, goes on to
\* another step with its run, or ends.
LEMMA StepKinds ==
    ASSUME DailyInductive, NEW c \in Callers, Step(c)
    PROVE  /\ pc[c] # "idle"
           /\ \/ Acquire(c)
              \/ /\ AtWork(c) /\ UNCHANGED <<run, made, sched, attempt, due>>
                 /\ \E x \in Working : pc' = [pc EXCEPT ![c] = x]
              \/ /\ pc[c] \in {"start", "release"}
                 /\ UNCHANGED made /\ \E status : Exit(c, status)
  <1> USE StageNames DEF AtWork, KeepWorld, Go, Fail, scheduler
  <1>1. \A x \in {"collection", "daily_report", "delivery", "artifact_persistence", "failing",
                   "release"} : x \in Working /\ x # "idle"
    BY DEF Working, Steps
  <1>2. Stage \subseteq Working /\ "idle" \notin Stage
    BY DEF Working, Before
  <1>3. CASE Acquire(c)
    BY <1>3 DEF Acquire
  <1>4. CASE SkipRunning(c) \/ NoRedis(c) \/ Release(c)
    <2>1. pc[c] \in {"start", "release"} /\ UNCHANGED made
      BY <1>4 DEF SkipRunning, NoRedis, Release
    <2>2. \E status : Exit(c, status)
      BY <1>4 DEF SkipRunning, NoRedis, Release
    <2> QED
      BY <2>1, <2>2
  <1>5. CASE Collect(c)
    <2>1. /\ pc[c] = "collection" /\ UNCHANGED <<run, made, sched, attempt, due>>
          /\ Stages[1] \in Working
          /\ Enqueue(c, Stages[1]) \/ Fail(c, "retry")
      BY <1>5 DEF Collect
    <2> QED
      BY <1>1, <2>1 DEF Enqueue
  <1>6. CASE WaitForJob(c)
    <2>1. PICK i \in DOMAIN Stages : pc[c] = Stages[i] /\ (Advance(c, i) \/ Fail(c, "retry"))
      BY <1>6 DEF WaitForJob
    <2>2. UNCHANGED <<run, made, sched, attempt, due>> /\ pc[c] \in Stage
      BY <1>6, <2>1 DEF WaitForJob, Stage
    <2>3. \E x \in Working : pc' = [pc EXCEPT ![c] = x]
      <3>1. CASE Advance(c, i) /\ i # Len(Stages)
        <4>1. Stages[i + 1] \in Working /\ Enqueue(c, Stages[i + 1])
          BY <3>1 DEF Advance
        <4> QED
          BY <1>1, <4>1 DEF Enqueue
      <3> QED
        BY <1>1, <2>1, <3>1 DEF Advance
    <2> QED
      BY <1>2, <2>2, <2>3
  <1>7. CASE Report(c)
    <2>1. pc[c] = "daily_report" /\ UNCHANGED <<run, made, sched, attempt, due>>
      BY <1>7 DEF Report
    <2> QED
      BY <1>1, <1>7, <2>1 DEF Report
  <1>8. CASE Deliver(c)
    <2>1. pc[c] = "delivery" /\ UNCHANGED <<run, made, sched, attempt, due>>
      BY <1>8 DEF Deliver, Post, SkipDelivery
    <2> QED
      BY <1>1, <1>8, <2>1 DEF Deliver, Post, SkipDelivery, DeliveryFails
  <1>9. CASE Persist(c)
    <2>1. pc[c] = "artifact_persistence" /\ UNCHANGED <<run, made, sched, attempt, due>>
      BY <1>9 DEF Persist
    <2> QED
      BY <1>1, <1>9, <2>1 DEF Persist
  <1>10. CASE PersistFailure(c)
    <2>1. pc[c] = "failing" /\ UNCHANGED <<run, made, sched, attempt, due>>
      BY <1>10 DEF PersistFailure
    <2> QED
      BY <1>1, <1>10, <2>1 DEF PersistFailure
  <1> QED
    BY <1>3, <1>4, <1>5, <1>6, <1>7, <1>8, <1>9, <1>10 DEF Step

\* Each start takes a place of the room, each run given out or attempt given up
\* leaves one.
LEMMA RoomKept ==
    ASSUME DailyInductive, [Next]_vars
    PROVE  Room(0)'
  <1> USE DEF scheduler, process
  <1> DEFINE n == Cardinality(Starting)
             k == Cardinality(Starting')
  <1>1. /\ made \in Nat /\ attempt \in Nat /\ Episodes /\ Waiting /\ Scheduler \in Callers
        /\ pc \in [Callers -> Before \cup Working]
    BY DEF DailyInductive, PipelineInductive, Values, Episodes, Callers
  <1>2. Room(0)
    BY DEF DailyInductive, Numbered
  <1>3. n \in Nat /\ Pending \in Nat /\ made + n + Pending <= MaxRuns
    BY <1>1, <1>2, StartingIsFinite, RunsFit, RoomIs
  <1>4. ASSUME made' + k + Pending' <= MaxRuns, made' \in Int, k \in Int, Pending' \in Int
        PROVE  Room(0)'
    <2>1. Room(0)' <=> made' + Cardinality(Starting') + 0 + Pending' <= MaxRuns
      BY DEF Room, Starting, Pending, Busy
    <2> QED
      BY <1>4, <2>1
  <1> HIDE DEF k, n
  <1>5. ASSUME NEW hour, Episode(hour), made' = made, ~Busy
        PROVE  Room(0)'
    <2>1. made + n + MaxAttempts + Pending <= MaxRuns /\ Pending = 0
      BY <1>5, RoomIs DEF Episode, n, Pending
    <2>2. pc[Scheduler] # "start" /\ pc' = [pc EXCEPT ![Scheduler] = "start"]
      BY <1>1, <1>5 DEF Episode, Launch, Waiting, Busy
    <2>3. k = n + 1
      BY <1>1, <2>2, LaunchCounts DEF k, n
    <2>4. Pending' = MaxAttempts - 1
      BY <1>5 DEF Episode, Pending, Busy
    <2> QED
      BY <1>1, <1>3, <1>4, <1>5, <2>1, <2>3, <2>4
  <1>6. ASSUME UNCHANGED <<made, pc>>, Pending' \in {0, Pending}
        PROVE  Room(0)'
    <2>1. k = n /\ made' = made
      BY <1>6 DEF k, n, Starting
    <2>2. CASE Pending' = Pending
      BY <1>1, <1>3, <1>4, <2>1, <2>2
    <2>3. CASE Pending' = 0
      BY <1>1, <1>3, <1>4, <2>1, <2>3
    <2> QED
      BY <1>6, <2>2, <2>3
  <1>7. CASE SchedulerStarts
    <2>1. made' = made /\ ~Busy /\ sched = "down"
      BY <1>7 DEF SchedulerStarts, Busy
    <2>2. CASE UNCHANGED pc /\ sched' = "asleep"
      <3>1. Pending' = 0
        BY <2>2 DEF Pending, Busy
      <3> QED
        BY <1>3, <1>6, <2>1, <2>2, <3>1
    <2> QED
      BY <1>5, <1>7, <2>1, <2>2 DEF SchedulerStarts
  <1>8. CASE SchedulerWakes
    BY <1>5, <1>8 DEF SchedulerWakes, Busy
  <1>9. CASE SchedulerRetries
    <2>1. pc[Scheduler] # "start" /\ pc' = [pc EXCEPT ![Scheduler] = "start"] /\ made' = made
      BY <1>1, <1>9 DEF SchedulerRetries, Launch, Waiting
    <2>2. k = n + 1
      BY <1>1, <2>1, LaunchCounts DEF k, n
    <2>3. Pending = MaxAttempts - attempt /\ Pending' = MaxAttempts - (attempt + 1)
      BY <1>9 DEF SchedulerRetries, Pending, Busy
    <2> QED
      BY <1>1, <1>3, <1>4, <2>1, <2>2, <2>3
  <1>10. ASSUME NEW c \in Others, OtherStarts(c) PROVE Room(0)'
    <2>1. /\ pc[c] # "start" /\ pc' = [pc EXCEPT ![c] = "start"] /\ c \in Callers
          /\ UNCHANGED <<made, sched, attempt>> /\ Room(1)
      BY <1>10 DEF OtherStarts, Launch, Callers
    <2>2. k = n + 1 /\ Pending' = Pending
      BY <1>1, <2>1, LaunchCounts DEF k, n, Pending, Busy
    <2>3. made + n + 1 + Pending <= MaxRuns
      BY <2>1, RoomIs DEF n
    <2> QED
      BY <1>1, <1>3, <1>4, <2>1, <2>2, <2>3
  <1>11. ASSUME NEW c \in Callers, NEW x, x # "start", pc' = [pc EXCEPT ![c] = x],
                made' = made \/ (pc[c] = "start" /\ made' = made + 1),
                Pending' \in Nat, Pending' <= Pending
         PROVE  Room(0)'
    <2>1. /\ k \in Nat
          /\ pc[c] = "start" => k = n - 1
          /\ pc[c] # "start" => k = n
      BY <1>1, <1>11, LeavingCounts DEF k, n
    <2>2. made' + k + Pending' <= MaxRuns /\ made' \in Nat
      BY <1>1, <1>3, <1>11, <2>1
    <2> QED
      BY <1>4, <1>11, <2>1, <2>2
  <1>12. ASSUME NEW c \in Callers, NEW status, Exit(c, status), pc[c] # "idle", made' = made
         PROVE  Room(0)'
    <2>1. /\ pc' = [pc EXCEPT ![c] = "idle"]
          /\ \/ UNCHANGED <<sched, attempt>>
             \/ sched' = "delay" /\ attempt' = attempt /\ sched = "running"
             \/ sched' = "asleep"
      BY <1>12, ExitEffect
    <2>2. Pending' \in Nat /\ Pending' <= Pending
      BY <1>1, <1>3, <2>1 DEF Pending, Busy
    <2> QED
      BY <1>11, <1>12, <2>1, <2>2
  <1>13. ASSUME NEW c \in Callers, Step(c) PROVE Room(0)'
    <2>1. CASE Acquire(c)
      <3>1. /\ pc[c] = "start" /\ made' = made + 1 /\ pc' = [pc EXCEPT ![c] = "collection"]
            /\ Pending' = Pending
        BY <2>1 DEF Acquire, Pending, Busy
      <3>2. Pending' \in Nat /\ Pending' <= Pending
        BY <1>3, <3>1
      <3> QED
        BY <1>11, <3>1, <3>2
    <2>2. ASSUME NEW x \in Working, pc' = [pc EXCEPT ![c] = x], UNCHANGED <<made, sched, attempt>>
          PROVE  Room(0)'
      <3>1. x # "start" /\ Pending' = Pending
        BY <2>2, StageNames DEF Before, Pending, Busy
      <3>2. Pending' \in Nat /\ Pending' <= Pending
        BY <1>3, <3>1
      <3> QED
        BY <1>11, <2>2, <3>1, <3>2
    <2> QED
      BY <1>12, <1>13, <2>1, <2>2, StepKinds
  <1>14. ASSUME NEW c \in Callers, Kill(c) PROVE Room(0)'
    <2>1. CASE pc[c] # "idle" /\ Exit(c, "final")
      BY <1>12, <1>14, <2>1 DEF Kill
    <2>2. CASE Leave(c) /\ sched' = "down"
      <3>1. pc' = [pc EXCEPT ![c] = "idle"] /\ Pending' = 0
        BY <2>2 DEF Leave, Pending, Busy
      <3>2. Pending' \in Nat /\ Pending' <= Pending /\ made' = made
        BY <1>3, <1>14, <3>1 DEF Kill
      <3> QED
        BY <1>11, <3>1, <3>2
    <2> QED
      BY <1>14, <2>1, <2>2 DEF Kill
  <1>15. CASE Expire \/ Tick \/ (\E s \in Stage : FinishJob(s)) \/ UNCHANGED vars
    <2>1. UNCHANGED <<made, pc, sched, attempt>>
      BY <1>15 DEF Expire, Tick, FinishJob, vars
    <2>2. Pending' = Pending
      BY <2>1 DEF Pending, Busy
    <2> QED
      BY <1>3, <1>6, <2>1, <2>2
  <1> QED
    BY <1>7, <1>8, <1>9, <1>10, <1>13, <1>14, <1>15 DEF Next

\* A process at work has the number it was given.
LEMMA RunsNumbered ==
    ASSUME DailyInductive, [Next]_vars
    PROVE  \A c \in Callers : AtWork(c)' => run'[c] \in 1 .. made'
  <1> USE StageNames DEF AtWork, scheduler, process
  <1>1. /\ made \in Nat /\ pc \in [Callers -> Before \cup Working]
        /\ run \in [Callers -> Nat \cup {None}]
        /\ \A c \in Callers : AtWork(c) => run[c] \in 1 .. made
        /\ Scheduler \in Callers
    BY DEF DailyInductive, PipelineInductive, Values, Numbered, Callers
  <1>2. "start" \notin Working /\ "idle" \notin Working
    BY DEF Before
  <1>3. ASSUME NEW c \in Callers, UNCHANGED <<made, run>>, pc' \in {pc, [pc EXCEPT ![c] = "start"]}
        PROVE  \A d \in Callers : AtWork(d)' => run'[d] \in 1 .. made'
    BY <1>1, <1>2, <1>3
  <1>4. CASE SchedulerStarts \/ SchedulerWakes \/ SchedulerRetries
    <2>1. UNCHANGED <<made, run>> /\ pc' \in {pc, [pc EXCEPT ![Scheduler] = "start"]}
      BY <1>4 DEF SchedulerStarts, SchedulerWakes, SchedulerRetries, Episode, Launch
    <2> QED
      BY <1>1, <1>3, <2>1
  <1>5. ASSUME NEW c \in Others, OtherStarts(c)
        PROVE  \A d \in Callers : AtWork(d)' => run'[d] \in 1 .. made'
    BY <1>3, <1>5 DEF OtherStarts, Launch, Callers
  <1>6. ASSUME NEW c \in Callers, Step(c) \/ Kill(c)
        PROVE  \A d \in Callers : AtWork(d)' => run'[d] \in 1 .. made'
    <2>1. /\ made' \in Nat /\ made' >= made
          /\ AtWork(c)' => run'[c] \in 1 .. made'
      <3>1. CASE Acquire(c)
        BY <1>1, <3>1 DEF Acquire
      <3>2. ASSUME NEW status, Exit(c, status) PROVE ~AtWork(c)'
        BY <1>1, <1>2, <3>2 DEF Exit, Leave
      <3>3. CASE Kill(c)
        <4>1. ~AtWork(c)' /\ made' = made
          BY <1>1, <1>2, <3>3 DEF Kill, Exit, Leave
        <4> QED
          BY <1>1, <4>1
      <3> QED
        BY <1>1, <1>6, <3>1, <3>2, <3>3, StepKinds
    <2>2. ASSUME NEW d \in Callers, d # c, AtWork(d)' PROVE run'[d] \in 1 .. made'
      BY <1>1, <1>6, <2>1, <2>2, StepIsOwn
    <2> QED
      BY <2>1, <2>2
  <1>7. CASE Expire \/ Tick \/ (\E s \in Stage : FinishJob(s)) \/ UNCHANGED vars
    <2>1. UNCHANGED <<made, run, pc>>
      BY <1>7 DEF Expire, Tick, FinishJob, vars
    <2> QED
      BY <1>1, <2>1
  <1> QED
    BY <1>4, <1>5, <1>6, <1>7 DEF Next

---------------------------------------------------------------------------
(* The run files and the deliveries. *)

\* A run file is written by the process of the run: as a success from the step that
\* persists it, as a failure where there is none yet.
LEMMA FilesChange ==
    ASSUME DailyInductive, [Next]_vars, files' # files
    PROVE  \E c \in Callers :
              /\ Persist(c) \/ PersistFailure(c) \/ Kill(c)
              /\ AtWork(c) /\ run[c] \in 1 .. made
              /\ \/ pc[c] = "artifact_persistence" /\ files' = Filed(c, "success")
                 \/ /\ pc[c] = "failing" /\ files[run[c]] = "none"
                    /\ files' = Filed(c, "failed")
  <1>1. PICK c \in Callers : Persist(c) \/ PersistFailure(c) \/ Kill(c)
    BY DEF Next, vars, SchedulerStarts, SchedulerWakes, SchedulerRetries, OtherStarts, Step, Acquire,
           SkipRunning, NoRedis, Collect, WaitForJob, Report, Deliver, Post, SkipDelivery,
           Release, KeepRecords, FinishJob,
           Expire, Tick
  <1>2. \/ pc[c] = "artifact_persistence" /\ files' = Filed(c, "success")
        \/ pc[c] = "failing" /\ files[run[c]] = "none" /\ files' = Filed(c, "failed")
    BY <1>1 DEF Persist, PersistFailure, Recorded, RecordFails, Kill, FiledByNow
  <1>3. AtWork(c)
    BY <1>2 DEF AtWork, Working, Steps
  <1>4. run[c] \in 1 .. made
    BY <1>3 DEF DailyInductive, Numbered
  <1> QED
    BY <1>1, <1>2, <1>3, <1>4

\* A digest is received by its delivery.
LEMMA ReceivedChange ==
    ASSUME DailyInductive, [Next]_vars, received' # received
    PROVE  \E c \in Callers :
              /\ Deliver(c) /\ pc[c] = "delivery"
              /\ run[c] \in 1 .. made /\ received' = received \cup {run[c]}
  <1>1. PICK c \in Callers : Deliver(c)
    BY DEF Next, vars, SchedulerStarts, SchedulerWakes, SchedulerRetries, OtherStarts, Step, Acquire,
           SkipRunning, NoRedis, Collect, WaitForJob, Report, Persist, PersistFailure, Release,
           KeepRecords, FinishJob, Expire, Tick, Kill
  <1>2. pc[c] = "delivery" /\ received' = received \cup {run[c]}
    BY <1>1 DEF Deliver, Post, SkipDelivery
  <1>3. run[c] \in 1 .. made
    BY <1>2 DEF DailyInductive, Numbered, AtWork, Working, Steps
  <1> QED
    BY <1>1, <1>2, <1>3

\* What the results of a run say of its delivery stays said.
LEMMA DisabledStay ==
    ASSUME [Next]_vars
    PROVE  disabled \subseteq disabled'
  BY DEF Next, vars, SchedulerStarts, SchedulerWakes, SchedulerRetries, OtherStarts, Step, Acquire,
         SkipRunning, NoRedis, Collect, WaitForJob, Report, Deliver, Post, SkipDelivery, Persist,
         PersistFailure, Release, KeepRecords, FinishJob, Expire, Tick, Kill

\* The numbers are kept.
LEMMA NumberedKept ==
    ASSUME DailyInductive, [Next]_vars
    PROVE  Numbered'
  <1>1. Numbered /\ made \in Nat /\ made <= MaxRuns
    BY RunsFit DEF DailyInductive, PipelineInductive, Values
  <1>2. files' \in [1 .. MaxRuns -> {"none", "success", "failed"}]
    <2>1. ASSUME NEW c, NEW status \in {"success", "failed"}
          PROVE  Filed(c, status) \in [1 .. MaxRuns -> {"none", "success", "failed"}]
      BY <1>1 DEF Filed, Numbered
    <2>2. files' = files \/ \E c \in Callers : \E status \in {"success", "failed"} :
                                                   files' = Filed(c, status)
      BY FilesChange
    <2> QED
      BY <1>1, <2>1, <2>2 DEF Numbered
  <1>3. received' \subseteq 1 .. MaxRuns
    <2>1. received' = received \/ \E i \in 1 .. made : received' = received \cup {i}
      BY ReceivedChange
    <2>2. \A i \in 1 .. made : i \in 1 .. MaxRuns
      BY <1>1
    <2>3. received \subseteq 1 .. MaxRuns
      BY <1>1 DEF Numbered
    <2>4. CASE received' = received
      BY <2>3, <2>4
    <2>5. ASSUME NEW i \in 1 .. made, received' = received \cup {i}
          PROVE  received' \subseteq 1 .. MaxRuns
      <3>1. i \in 1 .. MaxRuns
        BY <2>2
      <3> QED
        BY <2>3, <2>5, <3>1
    <2> QED
      BY <2>1, <2>4, <2>5
  <1>4. Room(0)' /\ \A c \in Callers : AtWork(c)' => run'[c] \in 1 .. made'
    BY RoomKept, RunsNumbered
  <1> QED
    BY <1>2, <1>3, <1>4 DEF Numbered

\* A process that comes to the persistence of its artifacts has delivered its digest.
LEMMA PersistsDelivered ==
    ASSUME DailyInductive, [Next]_vars, NEW c \in Callers, pc'[c] = "artifact_persistence"
    PROVE  run'[c] \in received' \cup disabled'
  <1> USE StageNames DEF KeepWorld, KeepRecords, Go, Fail, Leave, scheduler, process
  <1>1. /\ pc \in [Callers -> Before \cup Working] /\ Scheduler \in Callers
        /\ \A d \in Callers : pc[d] = "artifact_persistence" => run[d] \in received \cup disabled
        /\ received \subseteq received' /\ disabled \subseteq disabled'
    BY ReceivedChange, DisabledStay DEF DailyInductive, PipelineInductive, Values, Filing, Callers
  <1>2. CASE run'[c] = run[c] /\ pc[c] = "artifact_persistence"
    BY <1>1, <1>2
  <1>3. ASSUME NEW stage \in Stage, Enqueue(c, stage) PROVE FALSE
    BY <1>1, <1>3 DEF Enqueue, Steps
  <1>4. CASE Acquire(c) \/ SkipRunning(c) \/ NoRedis(c) \/ Release(c) \/ Report(c) \/ PersistFailure(c)
             \/ Kill(c)
    BY <1>1, <1>4 DEF Acquire, SkipRunning, NoRedis, Release, Report, PersistFailure, Kill, Exit
  <1>5. CASE Collect(c)
    BY <1>1, <1>3, <1>5 DEF Collect, Stage
  <1>6. CASE WaitForJob(c)
    <2>1. PICK i \in DOMAIN Stages : Advance(c, i) \/ Fail(c, "retry")
      BY <1>6 DEF WaitForJob
    <2>2. Go(c, "daily_report")  \/ \E stage \in Stage : Enqueue(c, stage)
      BY <1>1, <2>1 DEF Advance, Stage
    <2> QED
      BY <1>1, <1>3, <2>2
  <1>7. CASE Deliver(c)
    BY <1>1, <1>7 DEF Deliver, Post, SkipDelivery, DeliveryFails
  <1>8. CASE Persist(c)
    BY <1>1, <1>8 DEF Persist
  <1>9. ASSUME NEW d \in Callers, d # c, Step(d) \/ Kill(d)
        PROVE  run'[c] = run[c] /\ pc[c] = "artifact_persistence"
    BY <1>9, StepIsOwn
  <1>10. ASSUME ~\E d \in Callers : Step(d) \/ Kill(d)
         PROVE  run'[c] = run[c] /\ pc[c] = "artifact_persistence"
    BY <1>1, <1>10 DEF Next, vars, SchedulerStarts, SchedulerWakes, SchedulerRetries, OtherStarts,
                       Episode, Launch, FinishJob, Expire, Tick
  <1> QED
    BY <1>2, <1>4, <1>5, <1>6, <1>7, <1>8, <1>9, <1>10 DEF Step

\* While nothing is killed and no write fails, a received digest is filed by the
\* process that delivered it, whether the persistence or the failure is recorded.
LEMMA DeliveredIsFiled ==
    ASSUME DailyInductive, [Next]_vars, kills' = 0, faults' = 0, NEW r \in received'
    PROVE  \/ files'[r] # "none"
           \/ \E c \in Callers : run'[c] = r /\ pc'[c] \in {"artifact_persistence", "failing"}
  <1> USE StageNames DEF KeepWorld, KeepRecords, Go, Fail, scheduler, process, bounds
  <1>1. /\ pc \in [Callers -> Before \cup Working] /\ Scheduler \in Callers
        /\ files \in [1 .. MaxRuns -> {"none", "success", "failed"}]
        /\ received' \subseteq 1 .. MaxRuns
        /\ \A c \in Callers : AtWork(c) => run[c] \in 1 .. made
        /\ kills \in Nat /\ faults \in Nat
    BY NumberedKept DEF DailyInductive, PipelineInductive, Values, Numbered, Episodes, Callers
  <1>2. kills = 0 /\ faults = 0
    BY <1>1 DEF Next, vars, SchedulerStarts, SchedulerWakes, SchedulerRetries, OtherStarts, Step,
                Acquire, SkipRunning, NoRedis, Collect, WaitForJob, Report, Deliver, Post,
                SkipDelivery, Persist, Recorded,
                RecordFails, PersistFailure, Release, FinishJob, Expire, Kill, Tick
  <1>3. CASE r \notin received
    <2>1. PICK c \in Callers : Deliver(c) /\ pc[c] = "delivery" /\ received' = received \cup {run[c]}
      BY <1>3, ReceivedChange
    <2>2. run'[c] = r /\ pc'[c] \in {"artifact_persistence", "failing"}
      BY <1>1, <1>3, <2>1 DEF Deliver, Post, SkipDelivery, DeliveryFails
    <2> QED
      BY <2>2
  <1>4. CASE files[r] # "none"
    <2>1. CASE files' = files
      BY <1>4, <2>1
    <2>2. CASE files' # files
      <3>1. PICK c \in Callers, status \in {"success", "failed"} : files' = Filed(c, status)
        BY <2>2, FilesChange
      <3>2. files'[r] = files[r] \/ files'[r] = status
        BY <1>1, <3>1 DEF Filed
      <3> QED
        BY <1>4, <3>2
    <2> QED
      BY <2>1, <2>2
  <1>5. CASE r \in received /\ files[r] = "none"
    <2>1. PICK c \in Callers : run[c] = r /\ pc[c] \in {"artifact_persistence", "failing"}
      BY <1>2, <1>5 DEF DailyInductive, Filing
    <2>2. CASE run'[c] = run[c] /\ pc'[c] = pc[c]
      BY <2>1, <2>2
    <2>3. ASSUME NEW d \in Callers, d # c, Step(d)
          PROVE  run'[c] = run[c] /\ pc'[c] = pc[c]
      BY <2>3, StepIsOwn
    <2>4. ASSUME Step(c)
          PROVE  files'[r] # "none"
      <3>1. Persist(c) \/ PersistFailure(c)
        BY <1>1, <2>1, <2>4 DEF Step, Acquire, SkipRunning, NoRedis, Collect, WaitForJob, Report,
                                Deliver, Post, SkipDelivery, Release, Stage, Steps
      <3>2. CASE Recorded(c, "success") \/ Recorded(c, "failed")
        BY <1>1, <2>1, <3>2 DEF Recorded, Filed
      <3>3. ~RecordFails(c, "success") /\ ~RecordFails(c, "failed")
        BY <1>1 DEF RecordFails
      <3> QED
        BY <1>5, <2>1, <3>1, <3>2, <3>3 DEF Persist, PersistFailure
    <2>5. ~\E d \in Callers : Kill(d)
      BY <1>1 DEF Kill
    <2>6. ASSUME ~\E d \in Callers : Step(d) \/ Kill(d)
          PROVE  run'[c] = run[c] /\ pc'[c] = pc[c]
      <3>1. sched # "running" => pc[Scheduler] = "idle"
        BY DEF DailyInductive, PipelineInductive, Waiting
      <3> QED
        BY <1>1, <2>1, <2>6, <3>1 DEF Next, vars, SchedulerStarts, SchedulerWakes, SchedulerRetries,
                  OtherStarts, Episode, Launch, FinishJob, Expire, Tick
    <2> QED
      BY <2>2, <2>3, <2>4, <2>5, <2>6
  <1> QED
    BY <1>3, <1>4, <1>5

\* What is filed as a success was delivered.
LEMMA FilingKept ==
    ASSUME DailyInductive, [Next]_vars
    PROVE  Filing'
  <1>1. \A c \in Callers : pc'[c] = "artifact_persistence" => run'[c] \in received' \cup disabled'
    BY PersistsDelivered
  <1>2. ASSUME NEW r \in 1 .. MaxRuns, files'[r] = "success" PROVE r \in received' \cup disabled'
    <2>1. /\ received \subseteq received' /\ disabled \subseteq disabled'
          /\ files \in [1 .. MaxRuns -> {"none", "success", "failed"}]
          /\ \A c \in Callers : pc[c] = "artifact_persistence" => run[c] \in received \cup disabled
          /\ files[r] = "success" => r \in received \cup disabled
      BY ReceivedChange, DisabledStay DEF DailyInductive, Filing, Numbered
    <2>2. CASE files' = files
      BY <1>2, <2>1, <2>2
    <2>3. CASE files' # files
      <3>1. PICK c \in Callers : \/ pc[c] = "artifact_persistence" /\ files' = Filed(c, "success")
                                 \/ files' = Filed(c, "failed")
        BY <2>3, FilesChange
      <3> QED
        BY <1>2, <2>1, <3>1 DEF Filed
    <2> QED
      BY <2>2, <2>3
  <1> QED
    BY <1>1, <1>2, DeliveredIsFiled DEF Filing

---------------------------------------------------------------------------
(* The queues. *)

\* What an enqueued run does to the queues.
LEMMA Enqueued ==
    ASSUME queue \in [Stage -> Seq(Nat)], NEW stage \in Stage, NEW r \in Nat,
           queue' = [queue EXCEPT ![stage] = Append(@, r)]
    PROVE  /\ queue' \in [Stage -> Seq(Nat)]
           /\ \A s \in Stage : \A i \in 1 .. Len(queue'[s]) :
                 \/ i \in 1 .. Len(queue[s]) /\ queue'[s][i] = queue[s][i]
                 \/ s = stage /\ i = Len(queue[s]) + 1 /\ queue'[s][i] = r
  <1>1. Append(queue[stage], r) \in Seq(Nat)
    OBVIOUS
  <1>2. queue' \in [Stage -> Seq(Nat)]
    BY <1>1
  <1>3. ASSUME NEW s \in Stage, NEW i \in 1 .. Len(queue'[s])
        PROVE  \/ i \in 1 .. Len(queue[s]) /\ queue'[s][i] = queue[s][i]
               \/ s = stage /\ i = Len(queue[s]) + 1 /\ queue'[s][i] = r
    <2>1. CASE s = stage
      <3>1. queue'[s] = Append(queue[s], r) /\ queue[s] \in Seq(Nat)
        BY <2>1
      <3> QED
        BY <2>1, <3>1
    <2>2. CASE s # stage
      BY <2>2
    <2> QED
      BY <2>1, <2>2
  <1> QED
    BY <1>2, <1>3

\* What the end of a job does to them.
LEMMA Dequeued ==
    ASSUME queue \in [Stage -> Seq(Nat)], NEW s \in Stage, queue[s] # <<>>,
           queue' = [queue EXCEPT ![s] = Tail(@)]
    PROVE  /\ queue' \in [Stage -> Seq(Nat)]
           /\ \A t \in Stage : \A i \in 1 .. Len(queue'[t]) :
                 \/ t # s /\ i \in 1 .. Len(queue[t]) /\ queue'[t][i] = queue[t][i]
                 \/ t = s /\ i + 1 \in 1 .. Len(queue[t]) /\ queue'[t][i] = queue[t][i + 1]
  <1>1. Tail(queue[s]) \in Seq(Nat)
    OBVIOUS
  <1>2. queue' \in [Stage -> Seq(Nat)]
    BY <1>1
  <1>3. ASSUME NEW t \in Stage, NEW i \in 1 .. Len(queue'[t])
        PROVE  \/ t # s /\ i \in 1 .. Len(queue[t]) /\ queue'[t][i] = queue[t][i]
               \/ t = s /\ i + 1 \in 1 .. Len(queue[t]) /\ queue'[t][i] = queue[t][i + 1]
    <2>1. CASE t = s
      <3>1. queue'[t] = Tail(queue[t]) /\ queue[t] \in Seq(Nat) /\ queue[t] # <<>>
        BY <2>1
      <3> QED
        BY <2>1, <3>1
    <2>2. CASE t # s
      BY <2>2
    <2> QED
      BY <2>1, <2>2
  <1> QED
    BY <1>2, <1>3

\* A run that has no job.
Jobless(r) == \A s \in Stage : \A i \in 1 .. Len(queue[s]) : queue[s][i] # r

\* The run at work has none, unless its process waits for one or has given up.
LEMMA WorkIsJobless ==
    ASSUME LockOutlives, DailyInductive, NEW c \in Callers, AtWork(c),
           pc[c] \notin {"failing", "release"}, pc[c] \in Stage => job[c] # "queued"
    PROVE  Jobless(run[c])
  BY DEF DailyInductive, Queueing, Waited, Jobless

\* Nobody else is at work, and the run at work is the newest.
LEMMA WorkIsAlone ==
    ASSUME LockOutlives, DailyInductive, NEW c \in Callers, AtWork(c)
    PROVE  /\ \A d \in Callers : AtWork(d) => d = c
           /\ run[c] = made /\ lock = c
  BY DEF DailyInductive, PipelineInductive, Holder, Newest

\* A run is enqueued.
Appends(c, stage) ==
    /\ AtWork(c) /\ pc[c] \notin {"artifact_persistence", "failing", "release"}
    /\ pc[c] \in Stage => job[c] # "queued"
    /\ queue' = [queue EXCEPT ![stage] = Append(@, run[c])]
    /\ pc' = [pc EXCEPT ![c] = stage] /\ job' = [job EXCEPT ![c] = "queued"]
    /\ UNCHANGED <<run, made, files>>

\* What a step of a process means for the queues: a new run, an end, the way to an
\* end, a new job, or a step between two of its jobs.
LEMMA StepQueues ==
    ASSUME DailyInductive, NEW c \in Callers, Step(c)
    PROVE  \/ Acquire(c)
           \/ \E stage \in Stage : Appends(c, stage)
           \/ /\ UNCHANGED <<queue, made>>
              /\ \/ UNCHANGED files /\ \E status : Exit(c, status)
                 \/ /\ AtWork(c) /\ UNCHANGED run
                    /\ \E x \in {"failing", "release"} : pc' = [pc EXCEPT ![c] = x]
                 \/ /\ AtWork(c) /\ UNCHANGED <<run, files>>
                    /\ pc[c] \notin {"artifact_persistence", "failing", "release"}
                    /\ pc[c] \in Stage => job[c] # "queued"
                    /\ \E x \in Working : pc' = [pc EXCEPT ![c] = x]
  <1> USE StageNames DEF AtWork, KeepWorld, KeepRecords, Go, Fail, scheduler
  <1>1. \A x \in {"collection", "daily_report", "delivery", "artifact_persistence", "failing",
                   "release"} : x \in Working /\ x \notin Stage
    BY DEF Working, Steps
  <1>2. Stage \subseteq Working /\ Stage \cap {"artifact_persistence", "failing", "release"} = {}
    BY DEF Working, Steps
  <1>3. ASSUME NEW stage \in Stage, Enqueue(c, stage), AtWork(c), UNCHANGED <<run, made, files>>,
               pc[c] \notin {"artifact_persistence", "failing", "release"},
               pc[c] \in Stage => job[c] # "queued"
        PROVE  \/ Appends(c, stage)
               \/ /\ UNCHANGED <<queue, made, run>> /\ AtWork(c)
                  /\ pc' = [pc EXCEPT ![c] = "failing"]
    BY <1>3 DEF Enqueue, Appends
  <1>4. CASE SkipRunning(c) \/ NoRedis(c) \/ Release(c)
    <2>1. UNCHANGED <<queue, made, files>> /\ \E status : Exit(c, status)
      BY <1>4 DEF SkipRunning, NoRedis, Release
    <2> QED
      BY <2>1
  <1>5. CASE Collect(c)
    <2>1. pc[c] = "collection" /\ UNCHANGED <<run, made, files>> /\ Stages[1] \in Stage
      BY <1>5 DEF Collect, Stage
    <2>2. Enqueue(c, Stages[1]) \/ (Fail(c, "retry") /\ UNCHANGED queue)
      BY <1>5 DEF Collect
    <2> QED
      BY <1>1, <1>3, <2>1, <2>2
  <1>6. CASE WaitForJob(c)
    <2>1. PICK i \in DOMAIN Stages :
             /\ pc[c] = Stages[i]
             /\ \/ job[c] = "finished" /\ Advance(c, i)
                \/ Fail(c, "retry") /\ UNCHANGED queue
      BY <1>6 DEF WaitForJob, Done
    <2>2. UNCHANGED <<run, made, files>> /\ pc[c] \in Stage /\ AtWork(c)
      BY <1>2, <1>6, <2>1 DEF WaitForJob, Stage
    <2>3. CASE i # Len(Stages) /\ job[c] = "finished" /\ Enqueue(c, Stages[i + 1])
      <3>1. Stages[i + 1] \in Stage
        BY <2>3 DEF Stage
      <3> QED
        BY <1>1, <1>2, <1>3, <2>2, <2>3, <3>1
    <2>4. CASE job[c] = "finished" /\ UNCHANGED queue /\ pc' = [pc EXCEPT ![c] = "daily_report"]
      BY <1>1, <1>2, <2>2, <2>4
    <2>5. CASE Fail(c, "retry") /\ UNCHANGED queue
      BY <1>1, <2>2, <2>5
    <2> QED
      BY <2>1, <2>3, <2>4, <2>5 DEF Advance
  <1>7. CASE Report(c)
    <2>1. pc[c] = "daily_report" /\ UNCHANGED <<queue, run, made, files>>
      BY <1>7 DEF Report
    <2> QED
      BY <1>1, <1>7, <2>1 DEF Report
  <1>8. CASE Deliver(c)
    <2>1. pc[c] = "delivery" /\ UNCHANGED <<queue, run, made, files>>
      BY <1>8 DEF Deliver, Post, SkipDelivery
    <2> QED
      BY <1>1, <1>8, <2>1 DEF Deliver, Post, SkipDelivery, DeliveryFails
  <1>9. CASE Persist(c)
    <2>1. pc[c] = "artifact_persistence" /\ UNCHANGED <<queue, run, made>>
      BY <1>9 DEF Persist
    <2> QED
      BY <1>1, <1>9, <2>1 DEF Persist
  <1>10. CASE PersistFailure(c)
    <2>1. pc[c] = "failing" /\ UNCHANGED <<queue, run, made>>
      BY <1>10 DEF PersistFailure
    <2> QED
      BY <1>1, <1>10, <2>1 DEF PersistFailure
  <1> QED
    BY <1>4, <1>5, <1>6, <1>7, <1>8, <1>9, <1>10 DEF Step

\* The queues change by a new job or by the end of one; runs are given out one by one.
LEMMA QueueChange ==
    ASSUME DailyInductive, [Next]_vars
    PROVE  /\ \/ queue' = queue
              \/ \E c \in Callers : \E stage \in Stage : Appends(c, stage)
              \/ \E s \in Stage : FinishJob(s)
           /\ made' \in Nat /\ made' >= made
  <1>1. made \in Nat
    BY DEF DailyInductive, PipelineInductive, Values
  <1>2. ASSUME NEW c \in Callers, Step(c)
        PROVE  /\ queue' = queue \/ \E stage \in Stage : Appends(c, stage)
               /\ made' \in Nat /\ made' >= made
    <2>1. CASE Acquire(c)
      BY <1>1, <2>1 DEF Acquire
    <2>2. ASSUME NEW stage \in Stage, Appends(c, stage) PROVE made' = made
      BY <2>2 DEF Appends
    <2> QED
      BY <1>1, <1>2, <2>1, <2>2, StepQueues
  <1>3. CASE \E c \in Callers : Step(c)
    BY <1>2, <1>3
  <1>4. CASE \E s \in Stage : FinishJob(s)
    <2>1. made' = made
      BY <1>4 DEF FinishJob
    <2> QED
      BY <1>1, <1>4, <2>1
  <1>5. CASE ~(\E c \in Callers : Step(c)) /\ ~(\E s \in Stage : FinishJob(s))
    BY <1>1, <1>5 DEF Next, vars, SchedulerStarts, SchedulerWakes, SchedulerRetries, OtherStarts,
                      Expire, Kill, Tick
  <1> QED
    BY <1>3, <1>4, <1>5

\* The queues hold runs that have been given out.
LEMMA QueuesKept ==
    ASSUME LockOutlives, DailyInductive, [Next]_vars
    PROVE  Queues'
  <1>1. /\ queue \in [Stage -> Seq(Nat)] /\ made \in Nat
        /\ \A s \in Stage : \A i \in 1 .. Len(queue[s]) : queue[s][i] \in 1 .. made
        /\ made' \in Nat /\ made' >= made
        /\ \A c \in Callers : AtWork(c) => run[c] \in 1 .. made
    BY QueueChange DEF DailyInductive, PipelineInductive, Values, Queueing, Queues, Numbered
  <1>2. CASE queue' = queue
    BY <1>1, <1>2 DEF Queues
  <1>3. ASSUME NEW c \in Callers, NEW stage \in Stage, Appends(c, stage) PROVE Queues'
    <2>1. run[c] \in 1 .. made /\ queue' = [queue EXCEPT ![stage] = Append(@, run[c])]
      BY <1>1, <1>3 DEF Appends
    <2>2. run[c] \in Nat
      BY <1>1, <2>1
    <2>3. /\ queue' \in [Stage -> Seq(Nat)]
          /\ \A s \in Stage : \A i \in 1 .. Len(queue'[s]) :
                \/ i \in 1 .. Len(queue[s]) /\ queue'[s][i] = queue[s][i]
                \/ s = stage /\ i = Len(queue[s]) + 1 /\ queue'[s][i] = run[c]
      BY <1>1, <2>1, <2>2, Enqueued
    <2>4. \A s \in Stage : \A i \in 1 .. Len(queue'[s]) : queue'[s][i] \in 1 .. made
      BY <1>1, <2>1, <2>3
    <2> QED
      BY <1>1, <2>3, <2>4 DEF Queues
  <1>4. ASSUME NEW s \in Stage, FinishJob(s) PROVE Queues'
    <2>1. queue[s] # <<>> /\ queue' = [queue EXCEPT ![s] = Tail(@)]
      BY <1>4 DEF FinishJob
    <2>2. /\ queue' \in [Stage -> Seq(Nat)]
          /\ \A t \in Stage : \A i \in 1 .. Len(queue'[t]) :
                \/ t # s /\ i \in 1 .. Len(queue[t]) /\ queue'[t][i] = queue[t][i]
                \/ t = s /\ i + 1 \in 1 .. Len(queue[t]) /\ queue'[t][i] = queue[t][i + 1]
      BY <1>1, <2>1, Dequeued
    <2>3. \A t \in Stage : \A i \in 1 .. Len(queue'[t]) : queue'[t][i] \in 1 .. made
      BY <1>1, <2>2
    <2> QED
      BY <1>1, <2>2, <2>3 DEF Queues
  <1> QED
    BY <1>2, <1>3, <1>4, QueueChange

\* The new job is the newest run's, which has no other; a run that becomes a success
\* has none left.
LEMMA JobsFollowKept ==
    ASSUME LockOutlives, DailyInductive, [Next]_vars
    PROVE  JobsFollowTheRuns'
  <1>1. /\ queue \in [Stage -> Seq(Nat)] /\ made \in Nat /\ made <= MaxRuns
        /\ \A s \in Stage : \A i \in 1 .. Len(queue[s]) : queue[s][i] \in 1 .. made
        /\ \A c \in Callers : AtWork(c) => run[c] \in 1 .. made
        /\ files \in [1 .. MaxRuns -> {"none", "success", "failed"}]
    BY RunsFit DEF DailyInductive, PipelineInductive, Values, Queueing, Queues, Numbered
  <1>2. /\ \A s \in Stage : \A i, j \in 1 .. Len(queue[s]) : i < j => queue[s][i] < queue[s][j]
        /\ \A s, t \in Stage : \A i \in 1 .. Len(queue[s]), j \in 1 .. Len(queue[t]) :
              queue[s][i] = queue[t][j] => s = t
        /\ \A s \in Stage : \A i \in 1 .. Len(queue[s]) : files[queue[s][i]] # "success"
    BY DEF DailyInductive, Queueing, JobsFollowTheRuns
  <1>3. ASSUME queue' = queue PROVE JobsFollowTheRuns'
    <2>1. CASE files' = files
      BY <1>2, <1>3, <2>1 DEF JobsFollowTheRuns
    <2>2. CASE files' # files
      <3>1. PICK c \in Callers : /\ AtWork(c)
                                 /\ \/ pc[c] = "artifact_persistence" /\ files' = Filed(c, "success")
                                    \/ files' = Filed(c, "failed")
        BY <2>2, FilesChange
      <3>2. CASE files' = Filed(c, "failed")
        BY <1>1, <1>2, <1>3, <3>2 DEF JobsFollowTheRuns, Filed
      <3>3. CASE pc[c] = "artifact_persistence" /\ files' = Filed(c, "success")
        <4>1. Jobless(run[c])
          <5>1. "artifact_persistence" \notin Stage
            BY DEF Steps
          <5> QED
            BY <3>1, <3>3, <5>1, WorkIsJobless
        <4>2. \A s \in Stage : \A i \in 1 .. Len(queue[s]) : files'[queue[s][i]] # "success"
          BY <1>1, <1>2, <3>3, <4>1 DEF Jobless, Filed
        <4> QED
          BY <1>2, <1>3, <4>2 DEF JobsFollowTheRuns
      <3> QED
        BY <3>1, <3>2, <3>3
    <2> QED
      BY <2>1, <2>2
  <1>4. ASSUME NEW c \in Callers, NEW stage \in Stage, Appends(c, stage) PROVE JobsFollowTheRuns'
    <2>1. /\ AtWork(c) /\ run[c] \in 1 .. made /\ run[c] = made
          /\ files' = files /\ files[run[c]] # "success" /\ Jobless(run[c])
          /\ queue' = [queue EXCEPT ![stage] = Append(@, run[c])]
      BY <1>1, <1>4, WorkIsAlone, WorkIsJobless DEF Appends, DailyInductive, Queueing, Unfiled
    <2>2. run[c] \in Nat
      BY <1>1, <2>1
    <2>3. /\ queue' \in [Stage -> Seq(Nat)]
          /\ \A s \in Stage : \A i \in 1 .. Len(queue'[s]) :
                \/ i \in 1 .. Len(queue[s]) /\ queue'[s][i] = queue[s][i]
                \/ s = stage /\ i = Len(queue[s]) + 1 /\ queue'[s][i] = run[c]
      BY <1>1, <2>1, <2>2, Enqueued
    <2>4. \A s \in Stage : \A i \in 1 .. Len(queue[s]) : queue[s][i] < run[c]
      BY <1>1, <2>1 DEF Jobless
    <2>5. ASSUME NEW s \in Stage, NEW i \in 1 .. Len(queue'[s]), NEW j \in 1 .. Len(queue'[s]), i < j
          PROVE  queue'[s][i] < queue'[s][j]
      <3>1. queue[s] \in Seq(Nat) /\ queue'[s] \in Seq(Nat)
        BY <1>1, <2>3
      <3>5. \/ i \in 1 .. Len(queue[s]) /\ queue'[s][i] = queue[s][i]
            \/ i = Len(queue[s]) + 1
        BY <2>3
      <3>6. j \in 1 .. Len(queue[s]) \/ j = Len(queue[s]) + 1
        BY <2>3
      <3>2. i \in 1 .. Len(queue[s]) /\ queue'[s][i] = queue[s][i]
        BY <2>5, <3>1, <3>5, <3>6
      <3>3. CASE j \in 1 .. Len(queue[s]) /\ queue'[s][j] = queue[s][j]
        BY <1>2, <2>5, <3>2, <3>3
      <3>4. CASE queue'[s][j] = run[c]
        BY <2>4, <3>2, <3>4
      <3> QED
        BY <2>3, <3>3, <3>4
    <2>6. ASSUME NEW s \in Stage, NEW t \in Stage, NEW i \in 1 .. Len(queue'[s]),
                 NEW j \in 1 .. Len(queue'[t]), queue'[s][i] = queue'[t][j]
          PROVE  s = t
      <3>1. \/ i \in 1 .. Len(queue[s]) /\ queue'[s][i] = queue[s][i]
            \/ s = stage /\ queue'[s][i] = run[c]
        BY <2>3
      <3>2. \/ j \in 1 .. Len(queue[t]) /\ queue'[t][j] = queue[t][j]
            \/ t = stage /\ queue'[t][j] = run[c]
        BY <2>3
      <3> QED
        BY <1>2, <2>1, <2>6, <3>1, <3>2 DEF Jobless
    <2>7. \A s \in Stage : \A i \in 1 .. Len(queue'[s]) : files'[queue'[s][i]] # "success"
      BY <1>2, <2>1, <2>3
    <2> QED
      BY <2>5, <2>6, <2>7 DEF JobsFollowTheRuns
  <1>5. ASSUME NEW s \in Stage, FinishJob(s) PROVE JobsFollowTheRuns'
    <2>1. queue[s] # <<>> /\ queue' = [queue EXCEPT ![s] = Tail(@)] /\ files' = files
      BY <1>5 DEF FinishJob
    <2>2. \A t \in Stage : \A i \in 1 .. Len(queue'[t]) :
             \/ t # s /\ i \in 1 .. Len(queue[t]) /\ queue'[t][i] = queue[t][i]
             \/ t = s /\ i + 1 \in 1 .. Len(queue[t]) /\ queue'[t][i] = queue[t][i + 1]
      BY <1>1, <2>1, Dequeued
    <2>3. ASSUME NEW t \in Stage, NEW i \in 1 .. Len(queue'[t]), NEW j \in 1 .. Len(queue'[t]), i < j
          PROVE  queue'[t][i] < queue'[t][j]
      <3>1. \E k \in {0, 1} : /\ i + k \in 1 .. Len(queue[t]) /\ queue'[t][i] = queue[t][i + k]
                               /\ j + k \in 1 .. Len(queue[t]) /\ queue'[t][j] = queue[t][j + k]
        <4>1. CASE t = s
          <5>1. i + 1 \in 1 .. Len(queue[t]) /\ queue'[t][i] = queue[t][i + 1]
            BY <2>2, <4>1
          <5>2. j + 1 \in 1 .. Len(queue[t]) /\ queue'[t][j] = queue[t][j + 1]
            BY <2>2, <4>1
          <5> QED
            BY <5>1, <5>2
        <4>2. CASE t # s
          <5>1. i + 0 \in 1 .. Len(queue[t]) /\ queue'[t][i] = queue[t][i + 0]
            BY <2>2, <4>2
          <5>2. j + 0 \in 1 .. Len(queue[t]) /\ queue'[t][j] = queue[t][j + 0]
            BY <2>2, <4>2
          <5> QED
            BY <5>1, <5>2
        <4> QED
          BY <4>1, <4>2
      <3>2. PICK k \in {0, 1} : /\ i + k \in 1 .. Len(queue[t]) /\ queue'[t][i] = queue[t][i + k]
                                /\ j + k \in 1 .. Len(queue[t]) /\ queue'[t][j] = queue[t][j + k]
        BY <3>1
      <3>3. i + k < j + k
        BY <2>3
      <3>4. queue[t][i + k] < queue[t][j + k]
        BY <1>2, <3>2, <3>3
      <3> QED
        BY <3>2, <3>4
    <2>4. ASSUME NEW t \in Stage, NEW u \in Stage, NEW i \in 1 .. Len(queue'[t]),
                 NEW j \in 1 .. Len(queue'[u]), queue'[t][i] = queue'[u][j]
          PROVE  t = u
      BY <1>2, <2>2, <2>4
    <2>5. \A t \in Stage : \A i \in 1 .. Len(queue'[t]) : files'[queue'[t][i]] # "success"
      BY <1>2, <2>1, <2>2
    <2> QED
      BY <2>3, <2>4, <2>5 DEF JobsFollowTheRuns
  <1> QED
    BY <1>3, <1>4, <1>5, QueueChange

\* A process that is at work after a step that is not its own was there before, with
\* the same run.
LEMMA StillAtWork ==
    ASSUME DailyInductive, [Next]_vars, NEW c \in Callers, AtWork(c)', ~Step(c)
    PROVE  /\ AtWork(c) /\ run'[c] = run[c] /\ pc'[c] = pc[c]
           /\ job'[c] = job[c] \/ \E s \in Stage : FinishJob(s)
  <1> USE StageNames DEF AtWork, scheduler, process
  <1>1. /\ pc \in [Callers -> Before \cup Working] /\ Scheduler \in Callers
        /\ "start" \notin Working /\ "idle" \notin Working
    BY DEF DailyInductive, PipelineInductive, Values, Callers, Before
  <1>2. CASE SchedulerStarts \/ SchedulerWakes \/ SchedulerRetries
    BY <1>1, <1>2 DEF SchedulerStarts, SchedulerWakes, SchedulerRetries, Episode, Launch
  <1>3. ASSUME NEW d \in Others, OtherStarts(d)
        PROVE  AtWork(c) /\ run'[c] = run[c] /\ pc'[c] = pc[c] /\ job'[c] = job[c]
    BY <1>1, <1>3 DEF OtherStarts, Launch, Callers
  <1>4. ASSUME NEW d \in Callers, d # c, Step(d) \/ Kill(d)
        PROVE  AtWork(c) /\ run'[c] = run[c] /\ pc'[c] = pc[c] /\ job'[c] = job[c]
    BY <1>4, StepIsOwn
  <1>5. ~Kill(c)
    BY <1>1 DEF Kill, Exit, Leave
  <1>6. CASE Expire \/ Tick \/ (\E s \in Stage : FinishJob(s)) \/ UNCHANGED vars
    BY <1>6 DEF Expire, Tick, FinishJob, vars
  <1> QED
    BY <1>2, <1>3, <1>4, <1>5, <1>6 DEF Next

\* While one process is at work, nobody else enqueues a job or takes the lock.
LEMMA QueueIsStill ==
    ASSUME LockOutlives, DailyInductive, [Next]_vars, NEW c \in Callers, AtWork(c), ~Step(c)
    PROVE  queue' = queue \/ \E s \in Stage : FinishJob(s)
  <1>1. ASSUME NEW d \in Callers, NEW stage, Appends(d, stage) PROVE d = c
    BY <1>1, WorkIsAlone DEF Appends
  <1>2. ASSUME NEW d \in Callers, Step(d), d # c PROVE queue' = queue
    <2>1. ~Acquire(d)
      BY WorkIsAlone DEF Acquire, LockIsFree
    <2>2. ~\E stage \in Stage : Appends(d, stage)
      BY <1>1, <1>2
    <2> QED
      BY <1>2, <2>1, <2>2, StepQueues
  <1>3. CASE ~(\E d \in Callers : Step(d)) /\ ~(\E s \in Stage : FinishJob(s))
    BY <1>3 DEF Next, vars, SchedulerStarts, SchedulerWakes, SchedulerRetries, OtherStarts, Expire,
                Kill, Tick
  <1> QED
    BY <1>2, <1>3

\* The job of the run at work is waited for: it leaves the queue when it has ended,
\* and the process has either heard of it or given up.
LEMMA WaitedKept ==
    ASSUME LockOutlives, DailyInductive, [Next]_vars
    PROVE  Waited'
  <1> USE DEF AtWork
  <1> SUFFICES ASSUME NEW c \in Callers, AtWork(c)', NEW s \in Stage,
                      NEW i \in 1 .. Len(queue'[s]), queue'[s][i] = run'[c]
               PROVE  (pc'[c] = s /\ job'[c] = "queued") \/ pc'[c] \in {"failing", "release"}
    BY DEF Waited
  <1>1. /\ queue \in [Stage -> Seq(Nat)] /\ made \in Nat
        /\ \A t \in Stage : \A k \in 1 .. Len(queue[t]) : queue[t][k] \in 1 .. made
        /\ \A d \in Callers : AtWork(d) => run[d] \in 1 .. made
        /\ pc \in [Callers -> Before \cup Working] /\ run \in [Callers -> Nat \cup {None}]
        /\ job \in [Callers -> {"none", "queued", "finished", "failed"}]
        /\ "idle" \notin Working
    BY StageNames DEF DailyInductive, PipelineInductive, Values, Queueing, Queues, Numbered, Episodes,
                      Before
  <1>2. \A t \in Stage : \A k \in 1 .. Len(queue[t]) : AtWork(c) /\ queue[t][k] = run[c] =>
            (pc[c] = t /\ job[c] = "queued") \/ pc[c] \in {"failing", "release"}
    BY DEF DailyInductive, Queueing, Waited
  <1>3. CASE Acquire(c)
    <2>1. queue' = queue /\ run'[c] = made + 1
      BY <1>1, <1>3 DEF Acquire
    <2> QED
      BY <1>1, <2>1
  <1>4. ASSUME NEW stage \in Stage, Appends(c, stage)
        PROVE  pc'[c] = s /\ job'[c] = "queued"
    <2>1. /\ run[c] \in Nat /\ Jobless(run[c]) /\ run' = run
          /\ queue' = [queue EXCEPT ![stage] = Append(@, run[c])]
          /\ pc'[c] = stage /\ job'[c] = "queued"
      BY <1>1, <1>4, WorkIsJobless DEF Appends
    <2>2. \/ i \in 1 .. Len(queue[s]) /\ queue'[s][i] = queue[s][i]
          \/ s = stage
      BY <1>1, <2>1, Enqueued
    <2> QED
      BY <2>1, <2>2 DEF Jobless
  <1>5. CASE Step(c)
    <2>1. ASSUME NEW status, Exit(c, status) PROVE FALSE
      BY <1>1, <2>1 DEF Exit, Leave
    <2>2. ASSUME NEW x \in {"failing", "release"}, pc' = [pc EXCEPT ![c] = x]
          PROVE  pc'[c] \in {"failing", "release"}
      BY <1>1, <2>2
    <2>3. CASE /\ UNCHANGED <<queue, run>> /\ AtWork(c)
               /\ pc[c] \notin {"artifact_persistence", "failing", "release"}
               /\ pc[c] \in Stage => job[c] # "queued"
      <3>1. Jobless(run[c])
        BY <2>3, WorkIsJobless
      <3> QED
        BY <2>3, <3>1 DEF Jobless
    <2> QED
      BY <1>3, <1>4, <1>5, <2>1, <2>2, <2>3, StepQueues
  <1>6. CASE ~Step(c)
    <2>1. /\ AtWork(c) /\ run'[c] = run[c] /\ pc'[c] = pc[c]
          /\ job'[c] = job[c] \/ \E t \in Stage : FinishJob(t)
      BY <1>6, StillAtWork
    <2>2. ASSUME NEW t \in Stage, FinishJob(t)
          PROVE  (pc'[c] = s /\ job'[c] = "queued") \/ pc'[c] \in {"failing", "release"}
      <3>1. queue[t] # <<>> /\ queue' = [queue EXCEPT ![t] = Tail(@)]
        BY <2>2 DEF FinishJob
      <3>2. \/ s # t /\ i \in 1 .. Len(queue[s]) /\ queue'[s][i] = queue[s][i]
            \/ s = t /\ i + 1 \in 1 .. Len(queue[s]) /\ queue'[s][i] = queue[s][i + 1]
        BY <1>1, <3>1, Dequeued
      <3>3. CASE pc[c] \in {"failing", "release"}
        BY <2>1, <3>3
      <3>4. CASE pc[c] \notin {"failing", "release"}
        <4>1. pc[c] = s /\ job[c] = "queued"
          BY <1>2, <2>1, <3>2, <3>4
        <4>2. pc[c] = t => run[c] # Head(queue[t])
          <5>1. SUFFICES ASSUME s = t PROVE run[c] # Head(queue[s])
            BY <4>1
          <5>2. i + 1 \in 1 .. Len(queue[s]) /\ queue[s][i + 1] = run[c] /\ queue[s] \in Seq(Nat)
            BY <1>1, <2>1, <3>2, <5>1
          <5>3. 1 \in 1 .. Len(queue[s]) /\ 1 < i + 1 /\ Head(queue[s]) = queue[s][1]
            BY <5>2
          <5>4. queue[s][1] < queue[s][i + 1]
            BY <5>2, <5>3 DEF DailyInductive, Queueing, JobsFollowTheRuns
          <5>5. queue[s][1] \in Nat /\ queue[s][i + 1] \in Nat
            BY <5>2, <5>3
          <5> QED
            BY <5>2, <5>3, <5>4, <5>5
        <4>3. job'[c] = job[c]
          BY <2>2, <4>2 DEF FinishJob
        <4> QED
          BY <2>1, <4>1, <4>3
      <3> QED
        BY <3>3, <3>4
    <2>3. CASE ~\E t \in Stage : FinishJob(t)
      <3>1. queue' = queue /\ job'[c] = job[c]
        BY <1>6, <2>1, <2>3, QueueIsStill
      <3> QED
        BY <1>2, <2>1, <3>1
    <2> QED
      BY <2>2, <2>3
  <1> QED
    BY <1>5, <1>6

\* There is room for the run that is given out.
LEMMA AcquireFits ==
    ASSUME DailyInductive, NEW c \in Callers, Acquire(c)
    PROVE  made + 1 \in 1 .. MaxRuns
  <1>1. /\ made \in Nat /\ Pending \in Nat /\ Room(0)
    BY RunsFit DEF DailyInductive, PipelineInductive, Values, Numbered
  <1>2. Starting # {}
    BY DEF Acquire, Starting
  <1>3. Cardinality(Starting) # 0
    BY <1>2, StartingIsFinite, FS_EmptySet
  <1>4. made + Cardinality(Starting) + 0 + Pending <= MaxRuns
    BY <1>1, RoomIs
  <1> QED
    BY <1>1, <1>3, <1>4, StartingIsFinite

\* A run is filed by its own process, on its way out.
LEMMA UnfiledKept ==
    ASSUME LockOutlives, DailyInductive, [Next]_vars
    PROVE  Unfiled'
  <1> USE DEF AtWork
  <1>1. /\ made \in Nat /\ made' \in Nat /\ made' >= made
        /\ files \in [1 .. MaxRuns -> {"none", "success", "failed"}]
        /\ \A r \in 1 .. MaxRuns : r > made => files[r] = "none"
        /\ pc \in [Callers -> Before \cup Working] /\ run \in [Callers -> Nat \cup {None}]
        /\ "idle" \notin Working
    BY QueueChange, StageNames DEF DailyInductive, PipelineInductive, Values, Queueing, Unfiled,
                                   Numbered, Before
  <1>2. ASSUME NEW r \in 1 .. MaxRuns, r > made' PROVE files'[r] = "none"
    <2>1. files[r] = "none"
      BY <1>1, <1>2
    <2>2. CASE files' # files
      <3>1. PICK c \in Callers : /\ run[c] \in 1 .. made
                                 /\ files' = Filed(c, "success") \/ files' = Filed(c, "failed")
        BY <2>2, FilesChange
      <3>2. r # run[c]
        BY <1>1, <1>2, <3>1
      <3> QED
        BY <1>1, <2>1, <3>1, <3>2 DEF Filed
    <2> QED
      BY <2>1, <2>2
  <1>3. ASSUME NEW c \in Callers, AtWork(c)',
               pc'[c] \notin {"artifact_persistence", "failing", "release"}
        PROVE  files'[run'[c]] # "success"
    <2>1. CASE files' # files
      <3>1. PICK d \in Callers : /\ Persist(d) \/ PersistFailure(d) \/ Kill(d)
                                 /\ AtWork(d)
        BY <2>1, FilesChange
      <3>2. CASE d = c
        BY <1>1, <1>3, <3>1, <3>2 DEF Persist, PersistFailure, Kill, Exit, Leave, Go, Fail
      <3>3. CASE d # c
        <4>1. AtWork(c)
          BY <1>3, <3>1, <3>3, StepIsOwn DEF Step
        <4> QED
          BY <3>1, <3>3, <4>1, WorkIsAlone
      <3> QED
        BY <3>2, <3>3
    <2>2. CASE files' = files
      <3>1. CASE Acquire(c)
        <4>1. run'[c] = made + 1 /\ made + 1 \in 1 .. MaxRuns
          BY <1>1, <3>1, AcquireFits DEF Acquire
        <4>2. files[made + 1] = "none"
          BY <1>1, <4>1
        <4> QED
          BY <2>2, <4>1, <4>2
      <3>2. CASE /\ UNCHANGED run /\ AtWork(c)
                 /\ pc[c] \notin {"artifact_persistence", "failing", "release"}
        BY <2>2, <3>2 DEF DailyInductive, Queueing, Unfiled
      <3>3. CASE Step(c)
        <4>1. ASSUME NEW status, Exit(c, status) PROVE FALSE
          BY <1>1, <1>3, <4>1 DEF Exit, Leave
        <4>2. ASSUME NEW x \in {"failing", "release"}, pc' = [pc EXCEPT ![c] = x] PROVE FALSE
          BY <1>1, <1>3, <4>2
        <4>3. ASSUME NEW stage \in Stage, Appends(c, stage) PROVE files'[run'[c]] # "success"
          BY <3>2, <4>3 DEF Appends
        <4> QED
          BY <3>1, <3>2, <3>3, <4>1, <4>2, <4>3, StepQueues
      <3>4. CASE ~Step(c)
        <4>1. AtWork(c) /\ run'[c] = run[c] /\ pc'[c] = pc[c]
          BY <1>3, <3>4, StillAtWork
        <4> QED
          BY <1>3, <2>2, <4>1 DEF DailyInductive, Queueing, Unfiled
      <3> QED
        BY <3>3, <3>4
    <2> QED
      BY <2>1, <2>2
  <1> QED
    BY <1>2, <1>3 DEF Unfiled

---------------------------------------------------------------------------
(* Runs that nothing disturbs. *)

\* The scheduler's process and what it serves change by its own steps only.
LEMMA SchedulerStill ==
    ASSUME DailyInductive, [Next]_vars, pc'[Scheduler] \in Working, ~Step(Scheduler)
    PROVE  /\ pc'[Scheduler] = pc[Scheduler] /\ ended'[Scheduler] = ended[Scheduler]
           /\ due' = due
  <1> USE StageNames DEF scheduler, process, AtWork
  <1>1. /\ Scheduler \in Callers /\ pc'[Scheduler] = pc[Scheduler] /\ pc[Scheduler] \in Working
    BY StillAtWork DEF Callers
  <1>2. sched = "running"
    BY <1>1 DEF DailyInductive, PipelineInductive, Waiting, Before
  <1>3. ASSUME NEW d \in Callers, d # Scheduler, Step(d) \/ Kill(d)
        PROVE  ended'[Scheduler] = ended[Scheduler] /\ due' = due
    BY <1>1, <1>3, StepIsOwn
  <1>4. ~Kill(Scheduler)
    BY <1>1 DEF Kill, Exit, Leave, DailyInductive, PipelineInductive, Values, Before
  <1>5. ASSUME ~\E d \in Callers : Step(d) \/ Kill(d)
        PROVE  ended' = ended /\ due' = due
    BY <1>2, <1>5 DEF Next, vars, SchedulerStarts, SchedulerWakes, SchedulerRetries, OtherStarts,
                      FinishJob, Expire, Tick
  <1> QED
    BY <1>1, <1>3, <1>4, <1>5

\* The end time of a run is taken while the hour it serves has come.
LEMMA TimelyKept ==
    ASSUME DailyInductive, [Next]_vars
    PROVE  Timely'
  <1> USE StageNames DEF KeepWorld, KeepRecords, Go, Fail, scheduler
  <1> DEFINE Late == {"delivery", "artifact_persistence", "failing"}
  <1> SUFFICES ASSUME pc'[Scheduler] \in Late PROVE due' <= ended'[Scheduler]
    BY DEF Timely
  <1>1. /\ Scheduler \in Callers /\ Late \subseteq Working /\ Late \cap (Stage \cup Before) = {}
        /\ pc \in [Callers -> Before \cup Working] /\ ended \in [Callers -> Nat]
        /\ "idle" \notin Late /\ Late \subseteq Steps
    BY DEF DailyInductive, PipelineInductive, Values, Callers, Working, Steps, Before
  <1>2. pc[Scheduler] \in Late => due <= ended[Scheduler]
    BY DEF DailyInductive, Timely
  <1>3. pc[Scheduler] # "idle" => due <= now
    BY DEF DailyInductive, PipelineInductive, Waiting, Episodes, Busy
  <1>4. CASE ~Step(Scheduler)
    BY <1>1, <1>2, <1>4, SchedulerStill
  <1>5. CASE Step(Scheduler)
    <2>1. pc[Scheduler] # "idle"
      BY <1>5, StepKinds, <1>1
    <2>2. CASE due' = due /\ ended' = [ended EXCEPT ![Scheduler] = now]
      BY <1>1, <1>3, <2>1, <2>2
    <2>3. CASE due' = due /\ ended' = ended /\ pc[Scheduler] \in Late
      BY <1>2, <2>3
    <2>4. CASE Acquire(Scheduler)
      BY <1>1, <2>4 DEF Acquire
    <2>5. CASE SkipRunning(Scheduler) \/ NoRedis(Scheduler) \/ Release(Scheduler)
      BY <1>1, <2>5 DEF SkipRunning, NoRedis, Release, Exit, Leave
    <2>6. ASSUME NEW stage \in Stage, Enqueue(Scheduler, stage)
          PROVE  ended' = [ended EXCEPT ![Scheduler] = now]
      BY <1>1, <2>6 DEF Enqueue
    <2>7. CASE Collect(Scheduler)
      <3>1. due' = due /\ Stages[1] \in Stage
        BY <2>7 DEF Collect, Stage
      <3> QED
        BY <2>2, <2>6, <2>7, <3>1 DEF Collect
    <2>8. CASE WaitForJob(Scheduler)
      <3>1. PICK i \in DOMAIN Stages : Advance(Scheduler, i) \/ Fail(Scheduler, "retry")
        BY <2>8 DEF WaitForJob
      <3>2. due' = due
        BY <2>8 DEF WaitForJob
      <3>3. CASE i # Len(Stages) /\ Enqueue(Scheduler, Stages[i + 1])
        <4>1. Stages[i + 1] \in Stage
          BY <3>3 DEF Stage
        <4> QED
          BY <2>2, <2>6, <3>2, <3>3, <4>1
      <3>4. CASE pc' = [pc EXCEPT ![Scheduler] = "daily_report"]
        BY <1>1, <3>4
      <3> QED
        BY <2>2, <3>1, <3>2, <3>3, <3>4 DEF Advance
    <2>9. CASE Report(Scheduler)
      BY <2>2, <2>9 DEF Report
    <2>10. CASE Deliver(Scheduler)
      BY <2>2, <2>3, <2>10 DEF Deliver, Post, SkipDelivery, DeliveryFails
    <2>11. CASE Persist(Scheduler)
      BY <1>1, <2>2, <2>3, <2>11 DEF Persist
    <2>12. CASE PersistFailure(Scheduler)
      BY <1>1, <2>12 DEF PersistFailure
    <2> QED
      BY <1>5, <2>4, <2>5, <2>7, <2>8, <2>9, <2>10, <2>11, <2>12 DEF Step
  <1> QED
    BY <1>4, <1>5

\* Without kills and outages, a process gives the lock back when it is done.
LEMMA HeldAtWork ==
    ASSUME LockOutlives, DailyInductive, [Next]_vars, kills' = 0, outages' = 0, faults' = 0,
           lock' # None
    PROVE  AtWork(lock)'
  <1> USE StageNames DEF AtWork, KeepWorld, Go, scheduler, process
  <1>1. /\ kills = 0 /\ outages = 0 /\ faults = 0
        /\ lock \in Callers \cup {None} /\ Scheduler \in Callers
        /\ pc \in [Callers -> Before \cup Working]
        /\ lock # None => pc[lock] \in Working
        /\ "start" \notin Working /\ "idle" \notin Working
    BY DisturbancesStay DEF DailyInductive, PipelineInductive, Values, Undisturbed, Callers, Before
  <1>2. ASSUME NEW c \in Callers, Step(c) PROVE pc'[lock'] \in Working
    <2>1. CASE Acquire(c)
      BY <1>1, <2>1 DEF Acquire, Working, Steps
    <2>2. ASSUME lock' = lock, lock # c PROVE pc'[lock'] \in Working
      BY <1>1, <1>2, <2>2, StepIsOwn
    <2>3. CASE SkipRunning(c)
      BY <1>1, <2>2, <2>3 DEF SkipRunning
    <2>4. ~NoRedis(c)
      BY <1>1 DEF NoRedis
    <2>5. CASE Release(c)
      <3>1. lock' = IF lock = c THEN None ELSE lock
        BY <1>1, <2>5 DEF Release
      <3> QED
        BY <2>2, <3>1
    <2>6. ASSUME NEW x \in Working, pc' = [pc EXCEPT ![c] = x], lock' = lock
          PROVE  pc'[lock'] \in Working
      BY <1>1, <2>2, <2>6
    <2>7. CASE Collect(c) \/ WaitForJob(c) \/ Report(c) \/ Deliver(c) \/ Persist(c)
               \/ PersistFailure(c)
      <3>1. lock' = lock
        BY <2>7 DEF Collect, WaitForJob, Report, Deliver, Post, SkipDelivery, Persist, PersistFailure
      <3>2. ~Acquire(c)
        BY <2>7 DEF Acquire, Collect, WaitForJob, Report, Deliver, Post, SkipDelivery, Persist,
           PersistFailure, Before,
                    Steps
      <3>3. pc[c] \notin {"start", "release"}
        BY <2>7 DEF Collect, WaitForJob, Report, Deliver, Post, SkipDelivery, Persist,
           PersistFailure, Before, Steps
      <3> QED
        BY <1>2, <2>6, <3>1, <3>2, <3>3, StepKinds
    <2> QED
      BY <1>2, <2>1, <2>3, <2>4, <2>5, <2>7 DEF Step
  <1>3. ~\E c \in Callers : Kill(c)
    BY <1>1 DEF Kill
  <1>4. CASE ~\E c \in Callers : Step(c)
    <2>1. lock' = lock /\ lock \in Callers
      BY <1>1, <1>3, <1>4 DEF Next, vars, SchedulerStarts, SchedulerWakes, SchedulerRetries,
                 OtherStarts, FinishJob, Expire, Tick
    <2>2. sched # "running" => pc[Scheduler] = "idle"
      BY DEF DailyInductive, PipelineInductive, Waiting
    <2>3. pc'[lock] = pc[lock]
      BY <1>1, <1>3, <1>4, <2>1, <2>2 DEF Next, vars, SchedulerStarts, SchedulerWakes,
                 SchedulerRetries, OtherStarts, Episode, Launch, FinishJob, Expire, Tick
    <2> QED
      BY <1>1, <2>1, <2>3
  <1> QED
    BY <1>2, <1>4

\* Without kills and failed writes, a run has no file before its end is recorded.
LEMMA RecordlessAtWork ==
    ASSUME LockOutlives, DailyInductive, [Next]_vars, kills' = 0, outages' = 0, faults' = 0,
           NEW c \in Callers, AtWork(c)', pc'[c] # "release"
    PROVE  files'[run'[c]] = "none"
  <1> USE DEF AtWork
  <1>1. /\ kills = 0 /\ outages = 0 /\ faults = 0 /\ kills \in Nat /\ faults \in Nat
        /\ made \in Nat /\ \A r \in 1 .. MaxRuns : r > made => files[r] = "none"
        /\ pc \in [Callers -> Before \cup Working] /\ run \in [Callers -> Nat \cup {None}]
        /\ \A d \in Callers : pc[d] \in Working /\ pc[d] # "release" => files[run[d]] = "none"
        /\ "idle" \notin Working
    BY DisturbancesStay, StageNames DEF DailyInductive, PipelineInductive, Values, Undisturbed,
                                        Queueing, Unfiled, Episodes, Before
  <1>2. CASE files' # files
    <2>1. PICK d \in Callers : (Persist(d) \/ PersistFailure(d) \/ Kill(d)) /\ AtWork(d)
      BY <1>2, FilesChange
    <2>2. ~Kill(d)
      BY <1>1 DEF Kill
    <2>3. pc'[d] = "release"
      BY <1>1, <2>1, <2>2 DEF Persist, PersistFailure, RecordFails, Go
    <2>4. d # c
      BY <2>3
    <2>5. AtWork(c)
      BY <2>1, <2>2, <2>4, StepIsOwn DEF Step
    <2> QED
      BY <2>1, <2>4, <2>5, WorkIsAlone
  <1>3. CASE files' = files
    <2>1. CASE Acquire(c)
      <3>1. run'[c] = made + 1 /\ made + 1 \in 1 .. MaxRuns
        BY <1>1, <2>1, AcquireFits DEF Acquire
      <3>2. files[made + 1] = "none"
        BY <1>1, <3>1
      <3> QED
        BY <1>3, <3>1, <3>2
    <2>2. CASE UNCHANGED run /\ AtWork(c) /\ pc[c] # "release"
      BY <1>1, <1>3, <2>2
    <2>3. CASE Step(c) /\ ~Acquire(c)
      <3>1. ASSUME NEW status, Exit(c, status) PROVE FALSE
        BY <1>1, <3>1 DEF Exit, Leave
      <3>2. AtWork(c) /\ UNCHANGED run
        BY <2>3, <3>1, StepKinds
      <3>3. pc[c] # "release"
        BY <2>3, <3>1, <3>2 DEF Step, SkipRunning, NoRedis, Release, Collect, WaitForJob, Report,
                                Deliver, Post, SkipDelivery, Persist, PersistFailure, Stage,
                                Steps, PipelineAssumption
      <3> QED
        BY <2>2, <3>2, <3>3
    <2>4. CASE ~Step(c)
      <3>1. AtWork(c) /\ run'[c] = run[c] /\ pc'[c] = pc[c]
        BY <2>4, StillAtWork
      <3> QED
        BY <1>1, <1>3, <3>1
    <2> QED
      BY <2>1, <2>3, <2>4
  <1> QED
    BY <1>2, <1>3

\* Without them, the scheduler's process does not come to the release of the lock
\* before its run is in the pointer.
LEMMA RecordedAtRelease ==
    ASSUME LockOutlives, DailyInductive, [Next]_vars, kills' = 0, outages' = 0, faults' = 0,
           pc'[Scheduler] = "release"
    PROVE  latest' # None /\ due' <= latest'.at
  <1> USE StageNames DEF KeepWorld, Go, Fail, scheduler
  <1>1. /\ kills = 0 /\ outages = 0 /\ faults = 0 /\ faults \in Nat /\ Scheduler \in Callers
        /\ pc \in [Callers -> Before \cup Working] /\ due \in Nat
        /\ "release" \in Working /\ "release" \notin Before \cup Stage
    BY DisturbancesStay DEF DailyInductive, PipelineInductive, Values, Episodes, Callers, Working,
                            Steps
  <1>2. CASE pc[Scheduler] = "release" /\ due' = due
    <2>1. latest # None /\ due <= latest.at
      BY <1>1, <1>2 DEF DailyInductive, Undisturbed
    <2>2. latest' # None /\ latest'.at >= latest.at /\ latest.at \in Nat /\ latest'.at \in Nat
      BY <2>1, PointerStays
    <2> QED
      BY <1>1, <1>2, <2>1, <2>2
  <1>3. ASSUME latest' = Pointer(Scheduler), due' = due,
               pc[Scheduler] \in {"artifact_persistence", "failing"}
        PROVE  latest' # None /\ due' <= latest'.at
    <2>1. AtWork(Scheduler)
      BY <1>3 DEF AtWork, Working, Steps
    <2>2. run[Scheduler] \in Nat /\ ended[Scheduler] \in Nat /\ due <= ended[Scheduler]
      BY <1>1, <1>3, <2>1 DEF DailyInductive, PipelineInductive, Values, Timely
    <2>3. Pointer(Scheduler) \in [run : Nat, at : Nat] /\ Pointer(Scheduler).at = ended[Scheduler]
      BY <2>2 DEF Pointer
    <2> QED
      BY <1>3, <2>2, <2>3
  <1>4. CASE ~Step(Scheduler)
    BY <1>1, <1>2, <1>4, SchedulerStill
  <1>5. CASE Step(Scheduler)
    <2>1. ASSUME NEW status, Exit(Scheduler, status) PROVE FALSE
      BY <1>1, <2>1 DEF Exit, Leave, Before
    <2>2. ~Acquire(Scheduler) /\ ~Report(Scheduler) /\ ~Deliver(Scheduler)
      BY <1>1 DEF Acquire, Report, Deliver, Post, SkipDelivery, DeliveryFails
    <2>3. ASSUME NEW stage \in Stage, Enqueue(Scheduler, stage) PROVE FALSE
      BY <1>1, <2>3 DEF Enqueue
    <2>4. ~Collect(Scheduler)
      BY <1>1, <2>3 DEF Collect, Stage
    <2>5. ~WaitForJob(Scheduler)
      <3>1. SUFFICES ASSUME NEW i \in DOMAIN Stages, Advance(Scheduler, i) \/ Fail(Scheduler, "retry")
                     PROVE  FALSE
        BY DEF WaitForJob
      <3>2. CASE i # Len(Stages) /\ Enqueue(Scheduler, Stages[i + 1])
        BY <2>3, <3>2 DEF Stage
      <3> QED
        BY <1>1, <3>1, <3>2 DEF Advance
    <2>6. CASE Persist(Scheduler)
      BY <1>1, <1>3, <2>6 DEF Persist, Recorded
    <2>7. CASE PersistFailure(Scheduler)
      <3>1. AtWork(Scheduler) /\ pc[Scheduler] = "failing" /\ due' = due
        BY <2>7 DEF PersistFailure, AtWork, Working, Steps
      <3>2. files[run[Scheduler]] = "none"
        BY <1>1, <3>1 DEF DailyInductive, Undisturbed
      <3>3. ~RecordFails(Scheduler, "failed")
        BY <1>1 DEF RecordFails
      <3> QED
        BY <1>3, <2>7, <3>1, <3>2, <3>3 DEF PersistFailure, Recorded
    <2> QED
      BY <1>5, <2>1, <2>2, <2>4, <2>5, <2>6, <2>7 DEF Step, SkipRunning, NoRedis, Release
  <1> QED
    BY <1>4, <1>5

\* All of it.
LEMMA UndisturbedKept ==
    ASSUME LockOutlives, DailyInductive, [Next]_vars
    PROVE  Undisturbed'
  BY HeldAtWork, RecordlessAtWork, RecordedAtRelease DEF Undisturbed

---------------------------------------------------------------------------
(* The theorems. *)

\* Initially there is nothing of any of it.
LEMMA InitDaily == Init => DailyInductive
  <1> SUFFICES ASSUME Init PROVE DailyInductive
    OBVIOUS
  <1>1. PipelineInductive
    BY InitPipeline
  <1>2. Scheduler \in Callers /\ \A c \in Callers : ~AtWork(c) /\ pc[c] = "idle"
    BY StageNames DEF Init, AtWork, Callers, Before
  <1>3. Episodes /\ Posting
    BY <1>2 DEF Init, Episodes, Busy, Posting
  <1>4. Numbered
    <2>1. Starting = {} /\ Pending = 0 /\ made = 0
      BY <1>2 DEF Init, Starting, Pending, Busy
    <2>2. Cardinality(Starting) = 0
      BY <2>1, FS_EmptySet
    <2>3. Room(0)
      BY <2>1, <2>2, RoomIs
    <2> QED
      BY <1>2, <2>3 DEF Init, Numbered
  <1>5. Filing
    BY <1>2 DEF Init, Filing
  <1>6. Queueing
    <2>1. queue = [s \in Stage |-> <<>>] /\ made = 0
      BY DEF Init
    <2>2. \A s \in Stage : queue[s] \in Seq(Nat) /\ Len(queue[s]) = 0
      BY <2>1
    <2>3. queue \in [Stage -> Seq(Nat)] /\ \A s \in Stage : 1 .. Len(queue[s]) = {}
      BY <2>1, <2>2
    <2> QED
      BY <1>2, <2>3 DEF Init, Queueing, Queues, JobsFollowTheRuns, Waited, Unfiled
  <1>7. Recordings /\ Timely /\ Undisturbed
    BY <1>2 DEF Init, Recordings, Busy, Timely, Undisturbed
  <1> QED
    BY <1>1, <1>3, <1>4, <1>5, <1>6, <1>7 DEF DailyInductive

\* Every step keeps all of it.
LEMMA DailyKept ==
    ASSUME DailyInductive, [Next]_vars
    PROVE  DailyInductive'
  <1>1. PipelineInductive'
    BY NextKeeps DEF DailyInductive
  <1>2. LockOutlives => Queueing'
    BY QueuesKept, JobsFollowKept, WaitedKept, UnfiledKept DEF Queueing
  <1> QED
    BY <1>1, <1>2, EpisodesKept, TimelyKept, PostingKept, NumberedKept, FilingKept, RecordingsKept,
       UndisturbedKept
       DEF DailyInductive

\* The lock, the episodes, the records, the run files and the queues of
\* run_locked_pipeline and run_pipeline_with_retries fit together in every state.
THEOREM DailyInductiveHolds == Spec => []DailyInductive
  BY InitDaily, DailyKept, PTL DEF Spec

\* run_collection and _wait_for_job: while the lock outlives a run, the jobs of newer
\* runs stay behind those of older ones, abandoned jobs included.
THEOREM JobsStayInOrder == LockOutlives => (Spec => []JobsFollowTheRuns)
  <1> SUFFICES ASSUME LockOutlives PROVE Spec => []JobsFollowTheRuns
    OBVIOUS
  <1>1. DailyInductive => JobsFollowTheRuns
    BY DEF DailyInductive, Queueing
  <1> QED
    BY <1>1, DailyInductiveHolds, PTL

\* deliver_daily_result and persist_run_artifact: a success has been delivered or
\* says that no webhook is configured, and what was delivered is filed unless a kill
\* or a failed write lost it.
THEOREM DeliveriesAreFiled == Spec => []DeliveryIsFiled
  <1>1. DailyInductive => DeliveryIsFiled
    <2> SUFFICES ASSUME DailyInductive PROVE DeliveryIsFiled
      OBVIOUS
    <2>1. DOMAIN files = 1 .. MaxRuns /\ received \subseteq 1 .. MaxRuns /\ kills \in Nat
          /\ faults \in Nat
      BY DEF DailyInductive, Numbered, Episodes
    <2> QED
      BY <2>1 DEF DailyInductive, Filing, DeliveryIsFiled
  <1> QED
    BY <1>1, DailyInductiveHolds, PTL

\* startup_run_reason and run_pipeline_with_retries: restarts do not add up to more
\* recorded runs than the attempts of one episode, while the lock outlives a run.
THEOREM RestartsStayBounded == LockOutlives => (Spec => []RestartsAreBounded)
  <1> SUFFICES ASSUME LockOutlives PROVE Spec => []RestartsAreBounded
    OBVIOUS
  <1>1. DailyInductive => RestartsAreBounded
    BY DEF DailyInductive, Recordings, RestartsAreBounded
  <1> QED
    BY <1>1, DailyInductiveHolds, PTL

\* NonRetryablePipelineError: an episode calls the webhook for one run at most while
\* Redis answers.
THEOREM DeliveredAtMostOnce == Spec => []DeliveredOnce
  <1>1. DailyInductive => DeliveredOnce
    <2> SUFFICES ASSUME DailyInductive, outages = 0 PROVE Cardinality(posted) <= 1
      BY DEF DeliveredOnce
    <2>1. posted = {} \/ \E r \in posted : posted = {r}
      BY DEF DailyInductive, Posting
    <2>2. Cardinality(posted) \in {0, 1}
      BY <2>1, FS_EmptySet, FS_Singleton
    <2> QED
      BY <2>2
  <1> QED
    BY <1>1, DailyInductiveHolds, PTL

\* main_loop and run_pipeline_with_retries: undisturbed, the scheduler sleeps until the
\* next hour only when this one has been served, or is being served by another caller.
THEOREM HoursAreServed == LockOutlives => (Spec => ServedUnlessDisturbed)
  <1> SUFFICES ASSUME LockOutlives PROVE Spec => ServedUnlessDisturbed
    OBVIOUS
  <1> DEFINE Gives == /\ sched = "running" /\ sched' = "asleep"
                      /\ kills' = 0 /\ outages' = 0 /\ faults' = 0
             Served == \/ latest # None /\ latest.at >= due
                       \/ \E c \in Others : AtWork(c)
  <1>1. ASSUME DailyInductive, Next, Gives PROVE Served
    <2>1. Scheduler \in Callers /\ [Next]_vars /\ kills \in Nat /\ outages \in Nat
      BY <1>1 DEF Callers, DailyInductive, Episodes
    <2>2. kills = 0 /\ outages = 0 /\ faults = 0 /\ lock \in Callers \cup {None} /\ due \in Nat
      BY <1>1, <2>1, DisturbancesStay DEF DailyInductive, PipelineInductive, Values, Episodes
    <2>3. Step(Scheduler)
      <3>1. ASSUME NEW c \in Callers, c # Scheduler, Step(c) PROVE FALSE
        BY <1>1, <2>1, <3>1, StepIsOwn
      <3>2. ~\E c \in Callers : Kill(c)
        BY <1>1, <2>2 DEF Kill
      <3> QED
        BY <1>1, <3>1, <3>2 DEF Next, scheduler, SchedulerStarts, SchedulerWakes, SchedulerRetries,
                                OtherStarts, FinishJob, Expire, Tick
    <2>4. CASE SkipRunning(Scheduler)
      <3>1. lock # None /\ pc[Scheduler] \notin Working
        BY <2>4, StageNames DEF SkipRunning, LockIsFree, Before
      <3>2. lock \in Others /\ AtWork(lock)
        BY <1>1, <2>2, <3>1 DEF DailyInductive, Undisturbed, AtWork, Callers
      <3> QED
        BY <3>2
    <2>5. CASE Release(Scheduler)
      <3>1. latest # None /\ due <= latest.at
        BY <1>1, <2>2, <2>5 DEF Release, DailyInductive, Undisturbed
      <3>2. latest.at \in Nat
        BY <1>1, <3>1 DEF DailyInductive, PipelineInductive, Values
      <3> QED
        BY <2>2, <3>1, <3>2
    <2>6. SkipRunning(Scheduler) \/ NoRedis(Scheduler) \/ Release(Scheduler)
      BY <1>1, <2>3 DEF Step, Acquire, Collect, WaitForJob, Report, Deliver, Post, SkipDelivery,
         Persist, PersistFailure,
                        KeepWorld, scheduler
    <2>7. ~NoRedis(Scheduler)
      BY <1>1, <2>2 DEF NoRedis
    <2> QED
      BY <2>4, <2>5, <2>6, <2>7
  <1>2. DailyInductive /\ [Next]_vars => [Gives => Served]_vars
    BY <1>1 DEF vars
  <1> QED
    BY <1>2, DailyInductiveHolds, PTL DEF Spec, ServedUnlessDisturbed

=============================================================================
