--------------------------- MODULE DailyPipeline ---------------------------
(***************************************************************************)
(* The daily update: scripts/daily_scheduler.py, which runs                *)
(* scripts/daily_update_pipeline.py as a subprocess and retries it; other  *)
(* callers (cron, a human) of the same script; the Redis lock between      *)
(* them; the RQ queues of the four materialisations; the run files, the    *)
(* latest pointer and the result webhook.                                  *)
(*                                                                         *)
(* Time is counted in half days: an odd value is the part of a day after   *)
(* its scheduled hour, the even value before it the part between midnight  *)
(* and that hour.                                                          *)
(***************************************************************************)
EXTENDS Integers, Sequences, FiniteSets

CONSTANTS
    Scheduler,      \* the process that never ends by itself
    Others,         \* other callers of the pipeline script
    Stages,         \* the materialisations of a run, in order, each with a queue
    MaxAttempts,    \* daily_max_attempts_per_day
    LockOutlives,   \* the lock's time to live is longer than any run
    RunOnStart,     \* daily_run_on_start
    CatchUp,        \* daily_catch_up_on_start
    None,
    MaxTime, MaxRuns,           \* bounds: half days, runs started
    MaxFaults, MaxOutages,      \* bounds: failed writes, Redis calls that fail
    MaxKills                    \* bound: containers killed

Stage == {Stages[i] : i \in DOMAIN Stages}
Before == {"idle", "start"}
Steps == {"collection", "daily_report", "delivery", "artifact_persistence", "failing", "release"}
Working == Steps \cup Stage
Callers == Others \cup {Scheduler}

ASSUME PipelineAssumption ==
    /\ Scheduler \notin Others /\ IsFiniteSet(Others)
    /\ None \notin Callers \cup [run : Nat, at : Nat]
    /\ Stages \in Seq(STRING) /\ Stages # <<>> /\ Stage \cap (Before \cup Steps) = {}
    /\ \A i, j \in DOMAIN Stages : Stages[i] = Stages[j] => i = j
    /\ MaxAttempts \in Nat \ {0} /\ {LockOutlives, RunOnStart, CatchUp} \subseteq BOOLEAN
    /\ MaxTime \in Nat \ {0} /\ MaxRuns \in Nat
    /\ MaxFaults \in Nat /\ MaxOutages \in Nat /\ MaxKills \in Nat

VARIABLES
    now,            \* half days
    \* the scheduler process
    sched,          \* "down", "running" a subprocess, in a retry "delay", "asleep"
    attempt, due,   \* attempt of this episode; the hour waited for or served
    \* the pipeline process of each caller
    pc, run, code,  \* its stage, its run id, how it will exit
    ended,          \* the end time of its results
    job,            \* the state of the job it waits for
    \* Redis, files, webhook
    lock,           \* holder of the pipeline lock, alive or not
    queue,          \* jobs of each stage's queue, the first one at work
    made,           \* run ids given out
    files,          \* status in the run file of each run
    latest,         \* latest.json: run, status, time of its end
    received,       \* runs whose digest reached the webhook
    disabled,       \* runs whose results say that no webhook is configured
    faults, outages, kills,
    \* What the properties remember.
    posted,         \* runs of this scheduler episode that called the webhook
    recorded        \* attempts the scheduler recorded in each half day

process == <<pc, run, code, ended, job>>
scheduler == <<sched, attempt, due>>
bounds == <<faults, outages, kills>>
vars == <<now, sched, attempt, due, pc, run, code, ended, job, lock, queue, made, files,
          latest, received, disabled, faults, outages, kills, posted, recorded>>

AfterHour(t) == t % 2 = 1

\* next_run_at: the next scheduled hour strictly after t.
NextRunAt(t) == IF AfterHour(t) THEN t + 2 ELSE t + 1

\* Mutant: any start after the hour is a missed schedule.
StartupRunAlways == RunOnStart \/ (CatchUp /\ AfterHour(now))

\* startup_run_reason: nothing has ended since the hour, which has passed.
StartupRun ==
    \/ RunOnStart
    \/ CatchUp /\ AfterHour(now) /\ (latest = None \/ latest.at < now)

---------------------------------------------------------------------------
(* The end of the subprocess, and what the scheduler makes of its code.    *)

Retry(c) == c = "retry" /\ attempt < MaxAttempts

Leave(c) ==
    /\ pc' = [pc EXCEPT ![c] = "idle"]
    /\ run' = [run EXCEPT ![c] = None]
    /\ code' = [code EXCEPT ![c] = "none"]
    /\ ended' = [ended EXCEPT ![c] = 0]
    /\ job' = [job EXCEPT ![c] = "none"]

\* The process ends; run_pipeline_with_retries delays the next attempt or gives up.
Exit(c, status) ==
    /\ Leave(c)
    /\ IF c # Scheduler THEN UNCHANGED scheduler
       ELSE /\ sched' = IF Retry(status) THEN "delay" ELSE "asleep"
            /\ due' = IF Retry(status) THEN due ELSE NextRunAt(now)
            /\ attempt' = IF Retry(status) THEN attempt ELSE 0

Launch(c) == pc' = [pc EXCEPT ![c] = "start"]

\* The runs that may still come of what has been started, and n more.
Room(n) ==
    made + Cardinality({c \in Callers : pc[c] = "start"}) + n
        + (IF sched \in {"running", "delay"} THEN MaxAttempts - attempt ELSE 0) <= MaxRuns

Episode(hour) ==
    /\ Room(MaxAttempts)
    /\ Launch(Scheduler) /\ attempt' = 1 /\ sched' = "running" /\ due' = hour

\* scheduler_loop begins.
SchedulerStarts ==
    /\ sched = "down"
    /\ IF StartupRun THEN Episode(now)
       ELSE sched' = "asleep" /\ due' = NextRunAt(now) /\ UNCHANGED <<attempt, pc>>
    /\ posted' = {}
    /\ UNCHANGED <<now, run, code, ended, job, lock, queue, made, files, latest, received,
                   disabled, bounds, recorded>>

\* The scheduled hour.
SchedulerWakes ==
    /\ sched = "asleep" /\ now >= due
    /\ Episode(due)
    /\ posted' = {}
    /\ UNCHANGED <<now, run, code, ended, job, lock, queue, made, files, latest, received,
                   disabled, bounds, recorded>>

\* The retry delay is over.
SchedulerRetries ==
    /\ sched = "delay"
    /\ Launch(Scheduler) /\ attempt' = attempt + 1 /\ sched' = "running"
    /\ UNCHANGED <<now, due, run, code, ended, job, lock, queue, made, files, latest,
                   received, disabled, bounds, posted, recorded>>

\* cron or a human runs the script.
OtherStarts(c) ==
    /\ c \in Others /\ pc[c] = "idle" /\ Room(1)
    /\ Launch(c)
    /\ UNCHANGED <<now, scheduler, run, code, ended, job, lock, queue, made, files, latest,
                   received, disabled, bounds, posted, recorded>>

---------------------------------------------------------------------------
(* run_locked_pipeline *)

\* Mutant: the lock is written without looking (SET without NX).
LockLooksFree == TRUE

LockIsFree == lock = None

Acquire(c) ==
    /\ pc[c] = "start" /\ LockIsFree
    /\ lock' = c
    /\ made' = made + 1
    /\ run' = [run EXCEPT ![c] = made + 1]
    /\ pc' = [pc EXCEPT ![c] = "collection"]
    /\ UNCHANGED <<now, scheduler, code, ended, job, queue, files, latest, received,
                   disabled, bounds, posted, recorded>>

\* Somebody holds the lock: an audit file nobody reads, and exit code 0.
SkipRunning(c) ==
    /\ pc[c] = "start" /\ ~LockIsFree
    /\ \/ Exit(c, "ok") /\ UNCHANGED faults
       \/ faults < MaxFaults /\ faults' = faults + 1 /\ Exit(c, "retry")
    /\ UNCHANGED <<now, lock, queue, made, files, latest, received, disabled, outages,
                   kills, posted, recorded>>

\* Redis does not answer, although it may have heard: nothing else has started.
NoRedis(c) ==
    /\ pc[c] = "start"
    /\ outages < MaxOutages /\ outages' = outages + 1
    /\ lock' \in {lock, IF lock = None THEN c ELSE lock}
    /\ Exit(c, "retry")
    /\ UNCHANGED <<now, queue, made, files, latest, received, disabled, faults, kills,
                   posted, recorded>>

\* The lock is released by its owner's token; an expired one is only logged, but
\* any other Redis error replaces the result, and the process exits with code 75.
Release(c) ==
    /\ pc[c] = "release"
    /\ LET released == IF lock = c THEN None ELSE lock IN
       \/ lock' = released /\ Exit(c, code[c]) /\ UNCHANGED outages
       \/ /\ outages < MaxOutages /\ outages' = outages + 1
          /\ lock' \in {lock, released}
          /\ Exit(c, "retry")
    /\ UNCHANGED <<now, queue, made, files, latest, received, disabled, faults, kills,
                   posted, recorded>>

---------------------------------------------------------------------------
(* daily_pipeline *)

Go(c, stage) == pc' = [pc EXCEPT ![c] = stage]

\* The exception handler: a failure of delivery or persistence is not retried.
Fail(c, status) ==
    /\ Go(c, "failing")
    /\ code' = [code EXCEPT ![c] = status]
    /\ ended' = [ended EXCEPT ![c] = now]
    /\ job' = [job EXCEPT ![c] = "none"]

KeepWorld == UNCHANGED <<now, scheduler, run, lock, made, kills>>
KeepRecords == UNCHANGED <<files, latest, received, disabled, faults, posted, recorded>>

\* The step's job is enqueued behind what earlier runs have left there.
Enqueue(c, stage) ==
    \/ /\ Go(c, stage)
       /\ queue' = [queue EXCEPT ![stage] = Append(@, run[c])]
       /\ job' = [job EXCEPT ![c] = "queued"]
       /\ UNCHANGED <<code, ended, outages>>
    \/ /\ outages < MaxOutages /\ outages' = outages + 1
       /\ Fail(c, "retry")
       /\ UNCHANGED queue

Advance(c, i) ==
    IF i = Len(Stages) THEN
         /\ Go(c, "daily_report")
         /\ job' = [job EXCEPT ![c] = "none"]
         /\ UNCHANGED <<queue, code, ended, outages>>
    ELSE Enqueue(c, Stages[i + 1])

\* run_collection: a usable crawl run, or none.
Collect(c) ==
    /\ pc[c] = "collection"
    /\ \/ Enqueue(c, Stages[1])
       \/ Fail(c, "retry") /\ UNCHANGED <<queue, outages>>
    /\ KeepWorld /\ KeepRecords

\* Mutant: a job that outlives its wait is only logged.
DoneOrLate(c) == job[c] \in {"finished", "queued"}

Done(c) == job[c] = "finished"

\* Mutant: no time limit.
GivenUpOnFailure(c) == job[c] = "failed"

GivenUp(c) == job[c] \in {"failed", "queued"}

\* _wait_for_job: the job has finished, or it has failed or has failed items, or it
\* has not finished within the limit and is left to itself.
WaitForJob(c) ==
    /\ \E i \in DOMAIN Stages :
          /\ pc[c] = Stages[i]
          /\ \/ Done(c) /\ Advance(c, i)
             \/ GivenUp(c) /\ Fail(c, "retry") /\ UNCHANGED <<queue, outages>>
    /\ KeepWorld /\ KeepRecords

\* Report, snapshot and output health; the end time is taken before the delivery.
Report(c) ==
    /\ pc[c] = "daily_report"
    /\ \/ Go(c, "delivery") /\ ended' = [ended EXCEPT ![c] = now]
          /\ UNCHANGED <<code, job>>
       \/ Fail(c, "retry")
    /\ UNCHANGED <<queue, outages>> /\ KeepWorld /\ KeepRecords

\* Mutant: a failed delivery is only logged.
DeliveryFailureIsLogged(c) ==
    Go(c, "artifact_persistence") /\ UNCHANGED <<code, ended, job>>

\* Mutant: the scheduler may run again after a failed delivery.
DeliveryFailsRetryably(c) == Fail(c, "retry")

DeliveryFails(c) == Fail(c, "final")

\* deliver_daily_result: posted a bounded number of times until it is answered;
\* what is never answered may have arrived.
Post(c) ==
    /\ \/ /\ received' = received \cup {run[c]}
          /\ Go(c, "artifact_persistence") /\ UNCHANGED <<code, ended, job>>
       \/ /\ received' \in {received, received \cup {run[c]}}
          /\ DeliveryFails(c)
    /\ posted' = IF c = Scheduler THEN posted \cup {run[c]} ELSE posted
    /\ UNCHANGED disabled

\* deliver_daily_result without a webhook in the settings this process has read:
\* nothing is posted, the results say so, and the run goes on.
SkipDelivery(c) ==
    /\ disabled' = disabled \cup {run[c]}
    /\ Go(c, "artifact_persistence")
    /\ UNCHANGED <<received, posted, code, ended, job>>

Deliver(c) ==
    /\ pc[c] = "delivery"
    /\ Post(c) \/ SkipDelivery(c)
    /\ UNCHANGED <<queue, files, latest, faults, outages, recorded>> /\ KeepWorld

Filed(c, status) == [files EXCEPT ![run[c]] = status]

\* Mutant: only successes move the latest pointer.
PointerToSuccess(c) ==
    IF pc[c] = "failing" THEN latest ELSE [run |-> run[c], at |-> ended[c]]

Pointer(c) == [run |-> run[c], at |-> ended[c]]

\* persist_run_artifact: the run file, then the pointer.
Recorded(c, status) ==
    /\ files' = Filed(c, status)
    /\ latest' = Pointer(c)
    /\ recorded' = IF c = Scheduler THEN [recorded EXCEPT ![ended[c]] = @ + 1] ELSE recorded
    /\ UNCHANGED faults

\* One of the two writes fails.
RecordFails(c, status) ==
    /\ faults < MaxFaults /\ faults' = faults + 1
    /\ files' \in {files, Filed(c, status)}
    /\ UNCHANGED <<latest, recorded>>

Persist(c) ==
    /\ pc[c] = "artifact_persistence"
    /\ \/ /\ Recorded(c, "success")
          /\ Go(c, "release") /\ code' = [code EXCEPT ![c] = "ok"] /\ UNCHANGED <<ended, job>>
       \/ RecordFails(c, "success") /\ Fail(c, "final")
    /\ UNCHANGED <<queue, received, disabled, outages, posted>> /\ KeepWorld

\* The failure is recorded, unless the run file exists already or cannot be written.
PersistFailure(c) ==
    /\ pc[c] = "failing"
    /\ IF files[run[c]] = "none" THEN Recorded(c, "failed") \/ RecordFails(c, "failed")
       ELSE UNCHANGED <<files, latest, faults, recorded>>
    /\ Go(c, "release")
    /\ UNCHANGED <<code, ended, queue, job, received, disabled, outages, posted>> /\ KeepWorld

---------------------------------------------------------------------------
(* The world. *)

\* The worker of a queue ends its job, well or not; a caller may still wait for it.
FinishJob(stage) ==
    /\ queue[stage] # <<>>
    /\ \E outcome \in {"finished", "failed"} :
          job' = [c \in Callers |->
                     IF pc[c] = stage /\ run[c] = Head(queue[stage])
                     THEN outcome ELSE job[c]]
    /\ queue' = [queue EXCEPT ![stage] = Tail(@)]
    /\ UNCHANGED <<now, scheduler, pc, run, code, ended, lock, made, files, latest,
                   received, disabled, bounds, posted, recorded>>

AtWork(c) == pc[c] \in Working

\* The lock's time to live is over.
Expire ==
    /\ lock # None
    /\ LockOutlives => ~AtWork(lock)
    /\ lock' = None
    /\ UNCHANGED <<now, scheduler, process, queue, made, files, latest, received, disabled,
                   bounds, posted, recorded>>

FiledByNow(c) ==
    CASE pc[c] = "artifact_persistence" -> {Filed(c, "success")}
      [] pc[c] = "failing" /\ files[run[c]] = "none" -> {Filed(c, "failed")}
      [] OTHER -> {}

\* A process is killed, or the whole container of the scheduler; the lock stays
\* until it expires, the jobs go on, and a run file may be there without the pointer.
Kill(c) ==
    /\ kills < MaxKills /\ kills' = kills + 1
    /\ \/ pc[c] # "idle" /\ Exit(c, "final")
       \/ /\ c = Scheduler /\ sched # "down"
          /\ Leave(c)
          /\ sched' = "down" /\ attempt' = 0 /\ due' = 0
    /\ files' \in {files} \cup FiledByNow(c)
    /\ UNCHANGED <<now, lock, queue, made, latest, received, disabled, faults, outages,
                   posted, recorded>>

Tick ==
    /\ now < MaxTime /\ now' = now + 1
    /\ UNCHANGED <<scheduler, process, lock, queue, made, files, latest, received,
                   disabled, bounds, posted, recorded>>

---------------------------------------------------------------------------
Init ==
    /\ now = 0
    /\ sched = "down" /\ attempt = 0 /\ due = 0
    /\ pc = [c \in Callers |-> "idle"] /\ run = [c \in Callers |-> None]
    /\ code = [c \in Callers |-> "none"] /\ ended = [c \in Callers |-> 0] /\ job = [c \in Callers |-> "none"]
    /\ lock = None /\ queue = [s \in Stage |-> <<>>] /\ made = 0
    /\ files = [r \in 1 .. MaxRuns |-> "none"] /\ latest = None /\ received = {} /\ disabled = {}
    /\ faults = 0 /\ outages = 0 /\ kills = 0
    /\ posted = {} /\ recorded = [t \in 0 .. MaxTime |-> 0]

Step(c) ==
    \/ Acquire(c)
    \/ SkipRunning(c)
    \/ NoRedis(c)
    \/ Collect(c)
    \/ WaitForJob(c)
    \/ Report(c)
    \/ Deliver(c)
    \/ Persist(c)
    \/ PersistFailure(c)
    \/ Release(c)

Next ==
    \/ SchedulerStarts
    \/ SchedulerWakes
    \/ SchedulerRetries
    \/ \E c \in Others : OtherStarts(c)
    \/ \E c \in Callers : Step(c) \/ Kill(c)
    \/ \E s \in Stage : FinishJob(s)
    \/ Expire
    \/ Tick

Spec == Init /\ [][Next]_vars

\* A process that is not killed goes on, and the retry delay ends.
FairSpec ==
    /\ Spec
    /\ \A c \in Callers : WF_vars(Step(c))
    /\ WF_vars(SchedulerRetries)

---------------------------------------------------------------------------
(* Properties *)

\* While the lock outlives a run, at most one pipeline is between the acquisition of
\* the lock and its release, whoever was killed or lost an answer before
\* (DAILY_UPDATE_SETUP.md: scheduler, cron and manual calls never run together).
OnePipeline ==
    LockOutlives => \A c, d \in Callers : AtWork(c) /\ AtWork(d) => c = d

\* The materialisations of a run stay behind those of older runs in every queue, jobs
\* that nobody waits for included, so that a stage's last results are the newest
\* run's; a run has a job in one queue at most, and a successful run in none.
JobsFollowTheRuns ==
    /\ \A s \in Stage : \A i, j \in 1 .. Len(queue[s]) : i < j => queue[s][i] < queue[s][j]
    /\ \A s, t \in Stage : \A i \in 1 .. Len(queue[s]), j \in 1 .. Len(queue[t]) :
          queue[s][i] = queue[t][j] => s = t
    /\ \A s \in Stage : \A i \in 1 .. Len(queue[s]) : files[queue[s][i]] # "success"

\* A run is filed as a success only if the webhook received its digest or the run's
\* results say that none is configured; and a digest that was received has a run
\* file once its run is over, unless a kill or a failed write lost it.
DeliveryIsFiled ==
    /\ \A r \in DOMAIN files : files[r] = "success" => r \in received \cup disabled
    /\ \A r \in received :
          files[r] # "none" \/ kills > 0 \/ faults > 0 \/ \E c \in Callers : run[c] = r

\* latest.json never goes back to an older run, nor to an earlier time.
LatestMovesForward ==
    [][latest' # latest /\ latest # None
          => latest'.run > latest.run /\ latest'.at >= latest.at]_vars

\* However often it is restarted, the scheduler records no more runs in a part of a
\* day than daily_max_attempts_per_day allows (DAILY_UPDATE_SETUP.md: a recorded
\* attempt is not caught up again, so that restarts do not make a storm).
RestartsAreBounded ==
    ~RunOnStart => \A t \in 0 .. MaxTime : recorded[t] <= MaxAttempts

\* A failed delivery is final: unless Redis fails, the runs of one episode of the
\* scheduler call the webhook for one digest.
DeliveredOnce == outages = 0 => Cardinality(posted) <= 1

\* The scheduler goes back to sleep only when a run has ended since the hour it
\* serves or another caller is at work; a kill, an outage or a failed write excuses it.
ServedUnlessDisturbed ==
    [][/\ sched = "running" /\ sched' = "asleep"
       /\ kills' = 0 /\ outages' = 0 /\ faults' = 0
       => \/ latest # None /\ latest.at >= due
          \/ \E c \in Others : AtWork(c)]_vars

\* An episode of the scheduler ends, whatever the workers do with its jobs.
EpisodesEnd == sched \in {"running", "delay"} ~> sched \in {"asleep", "down"}

(* What the documentation says and a run refutes. *)

\* The scheduler never reruns the pipeline after a delivery, so that nothing is
\* pushed twice (DAILY_UPDATE_SETUP.md:175-176).
NeverPushedTwice == Cardinality(posted) <= 1

\* A scheduler that starts after the hour, with no run recorded since, catches up:
\* unless it is killed now, a run has ended or another caller is at work when it
\* goes to sleep until the next day (DAILY_UPDATE_SETUP.md:171-172).
CatchesUp ==
    [][sched = "running" /\ sched' = "asleep" /\ kills' = kills
       => \/ latest # None /\ latest.at >= due
          \/ \E c \in Others : AtWork(c)]_vars

=============================================================================
