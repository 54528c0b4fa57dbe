---------------------- MODULE DailyPipelineInvariant ----------------------
(***************************************************************************)
(* The inductive invariant of DailyPipeline: the process at work holds the *)
(* lock and has the newest run, which the latest pointer reaches only when *)
(* that run has been recorded; what the scheduler has recorded and pushed  *)
(* in its episode, what is filed of each run, and which runs have jobs.    *)
(***************************************************************************)
EXTENDS DailyPipeline

\* The values the argument is about.
Values ==
    /\ now \in Nat /\ made \in Nat
    /\ pc \in [Callers -> Before \cup Working]
    /\ run \in [Callers -> Nat \cup {None}]
    /\ \A c \in Callers : AtWork(c) => run[c] \in Nat
    /\ ended \in [Callers -> Nat]
    /\ lock \in Callers \cup {None}
    /\ latest # None => latest \in [run : Nat, at : Nat]

\* Whoever is at work holds the lock.
Holder == \A c \in Callers : AtWork(c) => lock = c

\* Its run is the newest; nothing is recorded of runs or times to come.
Newest ==
    /\ \A c \in Callers : AtWork(c) => run[c] = made
    /\ \A c \in Callers : ended[c] <= now
    /\ latest # None => latest.run <= made /\ latest.at <= now

\* The run of a process that has not finished recording is not in the pointer.
Unrecorded ==
    \A c \in Callers :
        AtWork(c) /\ pc[c] # "release" /\ latest # None => latest.run < run[c]

\* The end time of a run is taken after the pointer was last written.
Later ==
    \A c \in Callers :
        pc[c] \in {"delivery", "artifact_persistence", "failing"} /\ latest # None
        => latest.at <= ended[c]

\* The scheduler has a subprocess only while it is running one.
Waiting == sched # "running" => pc[Scheduler] = "idle"

\* What makes the exclusion and the pointer inductive, while the lock outlives a run.
PipelineInductive ==
    Values /\ Waiting /\ (LockOutlives => Holder /\ Newest /\ Unrecorded /\ Later)

---------------------------------------------------------------------------
(* The episodes of the scheduler.                                          *)

Busy == sched \in {"running", "delay"}

\* An episode serves an hour that has come, and has attempts left to retry.
Episodes ==
    /\ now <= MaxTime /\ due \in Nat /\ attempt \in Nat
    /\ sched \in {"down", "running", "delay", "asleep"}
    /\ Busy => attempt \in 1 .. MaxAttempts /\ due <= now
    /\ sched = "delay" => attempt < MaxAttempts
    /\ recorded \in [0 .. MaxTime -> Nat]
    /\ code \in [Callers -> {"none", "ok", "retry", "final"}]
    /\ job \in [Callers -> {"none", "queued", "finished", "failed"}]
    /\ faults \in Nat /\ outages \in Nat /\ kills \in Nat

\* Attempts of this episode that may have been recorded.
Tried == IF sched = "delay" \/ pc[Scheduler] = "release" THEN attempt ELSE attempt - 1

\* What is recorded is in the pointer's past, so that a restart counts it; a
\* sleeping scheduler waits for a later time, and an episode records at times of
\* its own, one per attempt.
Recordings ==
    \A t \in 0 .. MaxTime :
        /\ recorded[t] <= MaxAttempts
        /\ recorded[t] > 0 => /\ t <= now /\ latest # None /\ t <= latest.at
                              /\ sched = "asleep" => t < due
        /\ Busy /\ t >= due => recorded[t] <= Tried

\* A run of the scheduler ends after the hour it serves.
Timely ==
    pc[Scheduler] \in {"delivery", "artifact_persistence", "failing"} => due <= ended[Scheduler]

\* While Redis answers, an episode that has called the webhook is not retried.
Posting ==
    outages = 0 =>
        /\ posted = {} \/ \E r \in posted : posted = {r}
        /\ posted # {} =>
              /\ sched # "delay"
              /\ pc[Scheduler] \in {"idle", "artifact_persistence", "failing", "release"}
              /\ pc[Scheduler] \in {"failing", "release"} => code[Scheduler] \in {"ok", "final"}

---------------------------------------------------------------------------
(* Runs, their files and their jobs.                                       *)

\* Every run that may still come has a number.
Numbered ==
    /\ Room(0)
    /\ \A c \in Callers : AtWork(c) => run[c] \in 1 .. made
    /\ files \in [1 .. MaxRuns -> {"none", "success", "failed"}]
    /\ received \subseteq 1 .. MaxRuns

\* A run is filed as a success after its delivery, or says that there is none; one
\* that was delivered is filed, or about to be.
Filing ==
    /\ \A c \in Callers : pc[c] = "artifact_persistence" => run[c] \in received \cup disabled
    /\ \A r \in 1 .. MaxRuns : files[r] = "success" => r \in received \cup disabled
    /\ kills = 0 /\ faults = 0 =>
          \A r \in received :
              \/ files[r] # "none"
              \/ \E c \in Callers : run[c] = r /\ pc[c] \in {"artifact_persistence", "failing"}

\* The queues hold runs that have been given out.
Queues ==
    /\ queue \in [Stage -> Seq(Nat)]
    /\ \A s \in Stage : \A i \in 1 .. Len(queue[s]) : queue[s][i] \in 1 .. made

\* The run at work has a job only where its process waits for it, or when the
\* process has given up.
Waited ==
    \A c \in Callers : AtWork(c) =>
        \A s \in Stage : \A i \in 1 .. Len(queue[s]) : queue[s][i] = run[c] =>
            \/ pc[c] = s /\ job[c] = "queued"
            \/ pc[c] \in {"failing", "release"}

\* No run to come is filed, and none at work is a success before its delivery.
Unfiled ==
    /\ \A r \in 1 .. MaxRuns : r > made => files[r] = "none"
    /\ \A c \in Callers :
          AtWork(c) /\ pc[c] \notin {"artifact_persistence", "failing", "release"}
              => files[run[c]] # "success"

Queueing == Queues /\ JobsFollowTheRuns /\ Waited /\ Unfiled

\* With no kill, outage or failed write so far, the lock is held by a process at work,
\* a run has no file before it is recorded, and the run that the scheduler's process
\* has recorded is in the pointer.
Undisturbed ==
    kills = 0 /\ outages = 0 /\ faults = 0 =>
        /\ lock # None => AtWork(lock)
        /\ \A c \in Callers : AtWork(c) /\ pc[c] # "release" => files[run[c]] = "none"
        /\ pc[Scheduler] = "release" => latest # None /\ due <= latest.at

\* All of it; what needs the lock to outlive a run, and a scheduler that does not
\* run on every start, says so.
DailyInductive ==
    /\ PipelineInductive
    /\ Episodes /\ Timely /\ Posting /\ Numbered /\ Filing
    /\ LockOutlives => Queueing /\ Undisturbed
    /\ LockOutlives /\ ~RunOnStart => Recordings

=============================================================================
