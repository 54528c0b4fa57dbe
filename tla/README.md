# Shanghai Home Radar: a TLA+ verification project

TLA+ modules of the stateful core of Shanghai Home Radar, TLC configurations
that model-check them on small instances, and TLAPS proofs. `PROJECT.json`
maps every definition to the source lines it stands for, and lists the runs,
the mutants that show each property can fail, the findings, the hazards and the
theorems.

Run `tlc -workers 2 -config X.cfg M` for a row of the runs table below and
`tlapm M.tla` for `CollectorProofs`, `HandoffProofs`, `DailyPipelineProofs`, `AssessmentsProofs`,
`ValidationProofs`, `FeedProofs`, `RulesProofs` and `AppraisalProofs`.

## 1. The system

A single-user tool watches second-hand flats in Shanghai. Sources are collected
into PostgreSQL, four engines compute on what was collected, a daily pipeline
runs all of it, and a separate service shares a browser with a human.

| Component | State it keeps | Operations | Talks to |
|---|---|---|---|
| Collection runs and listing lifecycle (`services/collector`: `service.py`, `repository.py`, `jobs.py`) | `crawl_run`, `raw_record`, `listing`, `listing_snapshot`, `listing_presence`, `listing_event` | `collect`: lock the scope, fetch, ingest item by item, settle completeness, reconcile absence, commit or record the failure | an adapter; PostgreSQL; callers are RQ workers, the API and the daily pipeline |
| Source adapters and coverage (`adapters/`, `feed.py`, `normalizers.py`, `registry.py`, `auth.py`; `scripts/prepare_partner_csv_manifest.py`) | a partner's CSV and its manifest; the last complete count | fetch with pages and retries, read a document or a CSV, sign an export, declare completeness, assess coverage, guard it | external sources |
| Browser handoff (`scripts/browser_handoff.py`) | in memory: status, takeover flag, last observation, asyncio lock; on disk: `status.json`, `latest.canonical.json`, observations, analyses | pause, initialize, open, resume, snapshot; monitor tick, analysis | WebDriver, the human at the same browser, changedetection.io, the research pipeline |
| Daily scheduler, pipeline and delivery (`scripts/daily_scheduler.py`, `daily_update_pipeline.py`, `services/notification`) | Redis lock with time to live, run artifacts and `latest.json`, RQ jobs | catch up, retry, six steps with time limits, deliver, persist | collector, RQ, webhook |
| Market baselines (`services/market`) | observations, materialisation runs, baselines, advisory lock | materialise, replay, repair | PostgreSQL |
| Valuation, future assessment, decision (`services/valuation`, `forecasting`, `decision`) | cached assessments with input fingerprints, advisory locks | compute figures by rules, evaluate with cache, batch over active listings, rank | baselines, and each other in that order |
| Validation (`decision/real_world_validation.py`, `blind_validation.py`) | batches, items, labels, reviews, reports, database triggers | create, label, freeze, generate, reveal, review, amend, finalise | market, valuation, future and decision engines |
| API, web front end, recommendation routes, tools | none of their own worth a model | queries, starting the above | all |

What is hard about them, and what makes each correct:

* **Collection.** Several workers run transactions against common tables at READ
  COMMITTED. Correct means: a listing's absence is counted only by successful,
  complete runs of one scope; the events recorded are exactly the transitions that
  happened; the projected status never claims more absence than any scope's row
  shows; no run waits forever. Hard parts: two scopes that meet at one listing, two
  workers that insert it, row-lock circles, crashes and errors in mid-transaction.
* **Handoff.** Handlers interleave at awaits around one lock, the human acts
  outside it, the process dies between two files, and writes fail. Correct means:
  a READY session stands on a recorded observation, a pause stops what is in
  flight, what is recorded says the truth about the observation before, the source
  is visited at most once per interval, and due work is eventually done.
* **Daily pipeline.** Retries, timeouts that abandon jobs, a lock that expires and a
  delivery before the record. Correct means: at most one pipeline per mode, no more
  attempts in a day than allowed, no second push after a delivery, records that agree
  with what was delivered, and a day that is served.
* **Feeds.** A paged list moves while it is read, and a CSV and its manifest are
  replaced by two parties. Correct means: a feed called complete leaves no listing out,
  because the collector takes what is left out for withdrawn.
* **Baselines and caches.** Workers of several dates and evaluations of several kinds run
  at once; inputs are read before a lock; a run is replayed, repaired or deleted. Correct
  means: a published run has all baselines of its inputs and keeps them, the same inputs are
  evaluated once, and no assessment looks past its day.
* **Pricing rules.** Long chains of rounded and bounded figures with defaults for what is
  missing. Correct means: every figure fits its column, better evidence never worsens a
  decision, a dominated home is not ranked first, and what is asked for a home does not make
  its own fair value.
* **Validation.** Requests read a batch without a lock and write it at their commit. Correct
  means: no judgement changes once its result exists, results are hidden until all is judged, and a
  verdict is that of the rows it stands beside.

## 2. Modules

| Module | Models |
|---|---|
| `PresenceRows` | the pure part of the lifecycle: a presence row, what an observation and a miss make of it, the status derived from the rows of a listing |
| `ScopeLifecycle` | abstract specification: runs succeed atomically with a set of listings seen, or end without evidence |
| `Collector` | `CollectorService.collect` and `ListingRepository` as concurrent transactions |
| `CollectorInvariant` | the inductive invariant of `Collector` |
| `CollectorProofs` | theorems about `Collector` |
| `MCCollector` | instances for TLC |
| `Handoff` | the handoff service |
| `HandoffInvariant` | the inductive invariant of `Handoff` |
| `HandoffProofs` | theorems about `Handoff` |
| `MCHandoff` | instances for TLC |
| `DailyPipeline` | the daily scheduler, the pipeline script it and others call, lock, queues, records and webhook |
| `DailyPipelineInvariant` | the inductive invariant: exclusion and pointer, the scheduler's episodes, files, deliveries and queues |
| `DailyPipelineProofs` | theorems about `DailyPipeline` |
| `MCDailyPipeline` | instances for TLC |
| `Feed` | the adapters up to the completeness of a run, with the source and the partner that change under them |
| `FeedProofs` | the inductive invariant of `Feed`, and theorems about it |
| `Tables` | tables as functions from keys to rows, for `Assessments` and `Validation` |
| `Baselines` | import, runs and publication of market baselines by concurrent workers |
| `Assessments` | the cached evaluation in three layers and the isolated one, composed with `Baselines` |
| `AssessmentsInvariant` | the inductive invariant of `Assessments`, `Baselines` included |
| `AssessmentsProofs` | theorems about `Assessments` |
| `MCAssessments` | instance for TLC |
| `Fixed` | rounding, bounding, weighted sums, percentiles |
| `MarketRules`, `ValuationRules`, `FutureRules`, `DecisionRules` | the figures of P3, P4, P5 and P5.5 as operators, each over the one before |
| `Appraisal` | the chain at work: observations arrive, baselines are published, homes assessed and ranked |
| `RulesProofs` | lemmas about the operators of `Fixed` and of the four rules modules: sums and means over finite sets, percentiles, ranges, what rises with what |
| `AppraisalProofs` | the inductive invariant of `Appraisal`, and theorems about it |
| `MCRules` | `Feed` and `Appraisal` for TLC, with the repository's configuration |
| `BlindTrial` | abstract specification: judge, then compute, then show |
| `ValidationMetrics` | the measures of both protocols and the gate |
| `Validation` | the requests on one validation batch, of either protocol |
| `ValidationInvariant` | the inductive invariant of `Validation` |
| `ValidationProofs` | theorems about `Validation`, the refinement of `BlindTrial` among them |
| `MCValidation` | instance for TLC |

### Collector

State. `runs`, `presence`, `status`, `events` are the committed tables; `scopeLock`
is the advisory transaction lock of a scope and `held` the row locks on listings.
Per worker: where it is (`pc`, `job`), the items left (`feed`), whether the run is
still complete, the listings seen, and its uncommitted writes (`draft`, `wrote`,
`pending`), which nobody else sees before `Commit`.

Actions follow `collect` from top to bottom: `Begin`, `TakeScopeLock` or
`AlreadyRunning`, `Fetch`, then for each item `RejectItem`, `IngestKnown`, or
`MissListing` followed by `InsertListing` or `DuplicateListing`; `Settle` closes the
run (observed rows, coverage guard, selection of the candidates); `MissCandidate`,
`ShareListing`, `RefreshStatus`, `UpdateStatus` reconcile one candidate after the
other (`Inserts` is the unique constraint, which decides between the two workers that insert a listing); `Commit` ends it. `ItemError`, `RollBack`, `RecordFailure`, `DeadlockVictim` and
`Crash` are the ways it fails. A wait for a row lock is an action that is not
enabled; the statement reads what is committed when it finally runs.

Abstracted: prices, times, snapshots and raw records; the verdict of the live
coverage guard may be anything. Two attempts of one run id do not overlap
(`CollectorAssumption` and the guard of `Begin`), as long as the queue executes a
job once at a time.

### Handoff

State. `memory` is the `Handoff` object, `disk` is `status.json`, `feedFile` is
`latest.canonical.json`, `page` the document in the browser, `lock` the FIFO queue of
`asyncio.Lock` with its holder first, `pc` and `op` the await and the operation of each
task. The ghosts `asked`, `interrupted` and `visits` remember the human's last word,
whether it interrupted a task at work, and the automatic visits of this interval.

One action is what runs between two awaits. `Arrive` and `Enter` give every
operation its first stretch: at a free lock a call enters without yielding; at a
taken one it queues and `Acquire` runs the stretch later, on the state it then finds.
`HumanPause` takes no lock. `AcceptPage` reads the page and decides in the order of the
code: refuse, stop for a takeover, recheck the recorded document, or publish.
`MonitorTick` and `MonitorRetry` are the background task. Any write of the state or
export directory may fail (`Raise`): a client gets an error, the monitor pauses after a
snapshot, and ends when nothing catches the error, so that what the monitor owes (`DuePageIsChecked`,
`FailedAnalysisIsRepeated`) is asked of it while no write has failed. `Crash` and `CrashInPublish` restart
the process from its files; `Browse` is the human reloading, going back, or the page
changing under its load time; `Elapse` ends the interval.

Abstracted: how a page is judged (readable, less than an hour old, parsable are one
outcome, free at each reading); whether less than a minute has passed since the
last open (either answer is possible); the endpoints that only read. Reading the page and accepting it are one step: a human's click or a change of the
page between the two has the same effect as one before or after the step. The
monitor's two checks are two steps; what happens between them could equally have
happened while it slept.

### DailyPipeline

State. `sched`, `attempt` and `due` are the scheduler process: asleep until `due`, running
a subprocess for it, or in the delay before the next attempt. `pc`, `run`, `code`, `ended`
and `job` belong to the pipeline process of each caller, the scheduler's subprocess or one
of `Others` (cron, a human). `lock` is the Redis key, which may outlive its owner; `queue` the RQ queues
of the materialisations, each with one worker, whose head is at work; `files` the run files,
`latest` the pointer, `received` what reached the webhook, `disabled` the runs whose results say that none is configured. `posted` and `recorded` are ghosts.
Time is counted in half days, the part after the scheduled hour and the part before it.

`SchedulerStarts` is a start of the container with its decision to catch up, `SchedulerWakes`
the hour, `SchedulerRetries` the end of a delay. A process acquires the lock (`Acquire`), finds it
taken and exits with code 0 (`SkipRunning`), or gets no answer from Redis (`NoRedis`). `Collect`,
`WaitForJob`, `Report`, `Deliver` and `Persist` are the steps of `daily_pipeline`; each either enters the
next one or goes to the exception handler, `PersistFailure`. `Deliver` posts the digest (`Post`) or, when the settings
the process has read name no webhook, goes on without (`SkipDelivery`); each run may have other settings. `WaitForJob` may give up a job that
is still queued, which then stays queued. `Release` is the `finally` clause, and with `Exit` the end of the
process: `run_pipeline_with_retries` reads its code. `FinishJob` is a worker, `Expire` the lock's time to
live, `Kill` ends a process or, for the scheduler, the container; a process that dies while it
records may have written the run file and not the pointer.

Abstracted: the collection, the report, the snapshot and its health check are outcomes;
the number of materialisations is a constant (four in the code); the posts of one
delivery, which carry one key, are one step; the audit file of a skipped run, which
nothing reads, is only a write that may fail; alerts and the readiness probe of live mode are left
out. Jobs started by the API on the same queues are not modelled.

### Feed

State. `setting` is the configuration, `offered` the source's list in its order, `fetch` the
run at work, `csv`, `manifest` and `signing` the partner's files and the export the operator is about to
sign, `outcome` and `lastComplete` what the collector records. A listing stands for its item,
whose `quality` is good or one of five faults.

`AnswerPage`, `AnswerLater`, `Unauthorized` and `Refused` are what a request for a page may meet,
and `TakePage` the adapter's reaction: consistent totals, the last page, an empty one, the limit. `ReadDocument` is
the canonical feed with the coverage an honest provider states; `ReadManifest`, `ReadCsv` and `ParseCsv` the
CSV between two readings of its manifest; `Export`, `Inspect` and `WriteManifest` the
partner and the script that signs. `Collect` normalises, applies the guard and ends the run.

Abstracted: what fields say, CSV dialects, headers, waiting times.

### Baselines and Assessments

State. `imported` are the observations with the day of the transaction that made them, `runs`
the materialisation runs by date and inputs with their baselines, `lockedDates` the session-level
locks; `worker` and `session` are processes between two commits; `rows` are the three
assessment tables. A row is the inputs it was computed from, which is what its fingerprint tells
apart. Of a session, `mine` are its uncommitted rows, `held` its transaction-level advisory locks, and `pinned` the
baseline run of an isolated evaluation.

A worker goes `Begin`, `Import`, `Open`, `Publish`, each of which ends in a commit, or `Fail` or `Die`. A
session goes `Start`, for each listing and layer `Read` (before the lock) and `Store` (under it), and
`Commit`; `Pin` is the materialisation inside an isolated validation, whose `Commit`
deletes the run again. `BreakDeadlock` is the database's choice between two batches that wait for
each other, `Lose` the death of a process. A worker that meets an isolated evaluation's uncommitted rows
waits for them (`WorkerWaits`). Two isolated evaluations run side by side unless they insert the same observation or
the same run (`Collides`): the later one waits at the unique index and is refused when the earlier commits, or goes on when it
ends otherwise; the model refuses it at once or has it come later, which is the same to everybody else.
The run an evaluation is pinned to is its own, a published one that it replays, or, once another evaluation that replayed the same one has
deleted it, gone. `Arrives` lets a snapshot state any day, past or still to come, for the collector only demotes a
run whose feed states future times, and the import takes its snapshots like others.

Abstracted: all figures; a listing is the only one of its community; listing observations only;
a window is a number of days; the export of a run; one configuration and one data mode.

### The rules and Appraisal

Each operator of the four rules modules stands for a function of the engine it names. Prices are
counted in hundreds of yuan, scores in hundredths of a point, shares in thousandths, rates in
ten-thousandths, and a quotient is rounded where the code quantizes (`Fixed`): the parts of the future score and of
the obsolescence risk one by one, as `scoring.py` and `obsolescence.py` do, so that a sum of them may pass 100. Where the code keeps
more digits between two steps (`TotalPriceRisk`, the age of a building), the model rounds to a hundredth, and a figure may differ
from the code's in its last place. `Appraisal` has the
tables: `Observe` brings a sighting or a sale, `Materialize` appends a run with its slices, `Assess` evaluates one home with one
case of evidence and stores the outlook or, when its score or risk is no score, has the table refuse it (`refused`). P4 takes its
baseline from the last run; P5 looks for a slice of its own over all runs (`CarriedSlices`) and may get any of the cuts of that
run, for its query breaks those ties by nothing. What is assessed is as old as the last thing that is known of it
(`DataTimestamp`); evidence about places counts where its scope names them (`RowCovers`), and a project that leaves a place out
is about all of it (`ProjectCovers`). Distances are given with the evidence instead of computed from coordinates, and no rent is recorded for a slice.

### Validation

State. `batch`, `items` and `reviews` are the committed rows, `inputs` the version of everything
the model reads, `report` the file, `txn` the requests under way; the ghost `lostUpdate` remembers
that a batch row was written over a version its request had not read.

A request reads the batch once in `Begin`, then works through its items (`LoadLabel`, `WriteLabel`;
`FreezeLabels`; `CheckFrozenRuntime`, `Evaluate`, `WriteResult`; `RevealRun`; `FinalizeRun`; `RevealBlind`; `CheckReview`) and ends
with `Commit` or `Rollback`. An update waits for the row lock of its item, writes the columns that differ
from what was loaded, and meets the trigger (`TriggerAllows`), which goes by the committed
status. `AppendLabelAmendment` and `InputsChange` are the rest.

Abstracted: what a result says is a constant of listing and input version; digests are what
they are computed from; near duplicates and the text of reports are left out; ranks are those of the sort key.

## 3. Runs

| Run | Instance | Shows |
|---|---|---|
| `collector_scopes` | 2 workers, 2 scopes, 3 runs (one scope twice), 1 listing, every presence row an earlier run can leave, live mode | types, the shape of rows, projection, announcements, events, the inductive invariant, and that `Collector` implements `ScopeLifecycle` |
| `collector_locks` | 2 workers, 2 scopes, 2 runs, 2 listings fed in both orders, strong fairness | every run ends although row locks are awaited in circles |
| `collector_projection` | as `collector_scopes` | finding: two scopes that miss a listing for the last time leave its status behind for good |
| `handoff` | 1 client, the monitor, 2 listings in 3 contents, 2 loads, 1 failed write, 1 crash, weak fairness | readiness, takeover, recorded changes, spacing of visits, completeness of analyses, and the inductive invariant; requests end, and while the disk works due pages are checked and failed analyses are repeated |
| `handoff_last_word` | 1 client, the monitor | finding: a queued resume undoes a later pause |
| `daily_update` | the scheduler and one other caller, 2 attempts, 2 materialisations, 2 scheduled hours, 3 runs, 1 kill, 1 Redis failure, 1 failed write | mutual exclusion, order of jobs, records and deliveries, bounded restarts, the day is served, the inductive invariant, episodes end |
| `daily_push` | the scheduler, 1 Redis failure | finding: a failed release reruns a finished pipeline |
| `daily_catch_up` | the scheduler, 1 kill | finding: a dead container's lock defeats the catch-up |
| `validation` | 2 requests at a time, 2 listings, 2 data sets (one refused), both protocols, 1 change of the inputs, 1 amendment | `Validation` implements `BlindTrial`; verdicts stand and accumulate; the inductive invariant |
| `assessments` | 2 workers, 2 sessions, 2 listings, 2 windows, 2 days, 2 snapshots, 3 starts, 1 fault, 4 kinds of task | published runs are complete and kept, inputs are evaluated once, nothing looks ahead; the inductive invariant |
| `rules` | a feed of 3 listings with 7 configurations, 2 runs and 2 changes; a chain of 3 homes and 3 sales from 4 starts, 5 cases of evidence, 2 materializations, 2 assessments | what a complete feed may miss, storable figures, monotone prospects and ranks, where an asking price enters |
| `rules_ask` | as `rules` | finding: an asking price is used in the home's own fair value, through the listing baseline |

**Bounds and why they suffice.** The interplay in the collector is between pairs: two
transactions that share a listing, or a scope. A third run lets a scope's second
collection follow or overlap the first; `FinalAfter = 2` is the smallest configuration
value with a state between active and inactive (a miss below the second threshold that announces nothing needs a larger one, which the
theorems cover), and the initial tables hold every row any history can produce, so a run never has to be preceded by the runs that
lead there. A single listing suffices for the safety properties, because rows, status and events of
different listings only meet through locks, which `collector_locks` covers with two.
For the handoff, `x` at two prices and `y` give contents that agree, differ in price, or
are disjoint; two loads give an older and a younger document; one failed
write and one crash combine with each other in every order. One client plus the
monitor, with the human outside the lock, already gives a holder, a waiter and an
interrupter; the queue is first come first served, so that a longer one adds waiters and no order. `MaxLoads`,
`MaxFaults` and `MaxCrashes` are the only bounds on counters there.
In the daily update, two attempts are a first and a last one; two materialisations
are one that is waited for before another job is enqueued, and one after which none is; three runs
let an episode of two attempts be followed or interleaved with another caller's; two scheduled hours
show what a restart does on the day of a run and on the next. `MaxTime`, `MaxRuns` (through `Room`, which
starts nothing whose runs would not fit), `MaxFaults`, `MaxOutages` and `MaxKills` are the bounds.
In a validation batch the conflicts are between two requests, and between the two listings that
one request takes one after the other; a second version of the inputs makes a result differ from the one it is checked against.
Among assessments, the hazards are pairs too: two workers, a worker and a session, or two sessions in
opposite orders of two listings; the third start lets something come before or after a pair, which
a replay, a repair and a cached row need. Two days give a late snapshot, an old as-of day and a day after;
two windows give a choice between window and place. Two isolated evaluations that both replay one published run need a fourth start
(the ordinary run, one that imports what came after it, and the two): with `MaxStarts = 4`, `MaxFaults = 0` and isolated evaluations
only, TLC reaches that (3.1 million states) and the properties hold too; the proofs cover any number. `MaxDay`, `MaxSnapshots`, `MaxStarts` and `MaxFaults` are the bounds.
A feed of three listings on pages of one or two has a first, a middle and a last page; two changes are one
that comes and one that goes, two runs one that sets the mark and one that is measured by it. The chain has the configuration of `config/*.yaml` but for the sample
sizes of a baseline, its confidence and its liquidity, lowered so that three homes and three sales are enough; two assessments put
any two homes, or two states of one, beside each other. Of the four starts one is the feeds' (no observation, and nothing assessed), one has sales and
what arrives later, one a run of an earlier day and a home whose listing goes missing, and one sightings without any sale; two runs
give P5 a choice. Of the cases of evidence one drives the score past 100, and one is later than the assessment. The figures a rule sees there are few: the run checks the properties of
the rules on the cases the chain reaches, and section 5 says which of them are proved for every figure. `MaxChanges`, `MaxRuns`, `MaxBaselineRuns` and `MaxAssessments` are the bounds.

**Deadlock checking** is off in all runs: runs, starts and assessments are finite in number, and a session in
which no request is made and nothing is due rests.

**Fairness.** `Collector!FairSpec` assumes strong fairness of each worker's steps: a
statement that waits for a row lock is woken in turn (PostgreSQL queues the
waiters of a row), the database breaks lock circles (`DeadlockVictim`), and nothing
else in a transaction waits. No fairness makes runs start or fail. `Handoff!FairSpec`
assumes weak fairness of each task and of the monitor: the event loop runs ready
callbacks, `asyncio.Lock` is first come first served, every WebDriver command has a
time limit, the analyser works on a finite feed, and `asyncio.sleep(60)` ends. The human
is under no obligation. `DailyPipeline!FairSpec` assumes weak fairness of each process and of
the retry delay: every wait for a job is bounded, so are the posts of a delivery, and a
collection's requests have time limits. The workers, the lock's expiry and the clock
are under no obligation: `EpisodesEnd` holds although no job ever ends. The other specifications
state no fairness, and no liveness property is checked of them.

**Mutants.** Each property of each passing run names a plausible bug that breaks it:
definitions marked "Mutant" in the modules, never part of a specification.

## 4. Findings

1. `repository.py:332` (`collector_projection`). Two runs of different scopes that miss
   the same listing for the last time, concurrently, each derive `listing.status` from the other's old row. Both
   commit: every row is inactive and the status stays `missing_candidate` for good, because later complete runs look at active and
   missing rows only. `docs/DEVELOPMENT_GUIDE.md:259` has a listing become inactive at the threshold, and
   `tests/integration/test_collector_postgres.py:239` asserts it of the status. What
   does hold, and is proved, is that the status never claims more absence than a row: `ProjectionIsConservative`.
2. `browser_handoff.py:359` (`handoff_last_word`). `resume()` clears the takeover when it gets
   the lock. A human who clicks resume while a snapshot is running and then
   pauses gets a READY session. What does hold is `PauseStopsCapture`: a pause that comes
   while a capture is at work stops that capture.
3. `daily_update_pipeline.py:892` (`daily_push`). The `finally` clause that releases the lock catches
   `LockError` only. A connection that fails there replaces the run's outcome, so that a finished run, or
   one whose delivery failed for good, exits with the retryable code: the pipeline runs again and pushes a second
   digest, against `docs/DAILY_UPDATE_SETUP.md:175`. Without Redis failures `DeliveredOnce` holds.
4. `daily_update_pipeline.py:875` (`daily_catch_up`). A container that dies at work leaves its lock for up to
   six hours. After the restart the catch-up takes the lock for a running pipeline, exits with code 0, and
   the scheduler sleeps until the next day: the promise of `docs/DAILY_UPDATE_SETUP.md:171` is not kept. With
   no kill, Redis failure or failed write, `ServedUnlessDisturbed` holds.
5. `services/valuation` `engine.py:189` (`rules_ask`). Every valuation states `asking_price_used_in_fair_value: False`, and
   `docs/FAIR_VALUE_MODEL.md:153` and `:201` say the same. The target is kept out of the comparables, but its own observation is in the listing
   baseline, which is a price point of the fair value: with another asking price, and the baselines computed from it, the same home has
   another fair value. What does hold, and is proved, is that this is the only way in: `AskEntersOnlyThroughTheBaseline`.

Where a property states an exception, the code needs it:

* `DuePageIsChecked` and `FailedAnalysisIsRepeated` ask for a disk that has not failed. The monitor's analyses (`browser_handoff.py:418`, `:432`) are not
  under its `try`: one failed write of `status.json` there ends the task for the life of the process.
* `PublishedForGood` excepts the isolated evaluation. It may be handed a run that was published before and
  deletes it with its baselines (`real_world_validation.py:404`), although `docs/MARKET_BASELINE_MODEL.md:139` says that older revisions
  remain queryable.
* `CompleteMissesNothing` excepts a paged feed in which one listing leaves and another comes between two pages: the total
  agrees, and a listing offered all the time is skipped. It also asks that the source states a total: without one, completeness is
  the provider's word.
* `VerdictStands` excepts a batch row written over a version its request had not read (`lostUpdate`): the row is never
  locked, and a late request can move the status back.
* `DeliveryIsFiled` lets a run be filed as a success that nobody received when its results say `disabled`: no webhook is configured.
* `RestartsAreBounded` counts the attempts that were recorded. One that was killed, or whose write failed, before the pointer
  moved is counted neither by the scheduler nor by the property.
* `EveryRowIsStorable` excepts a future score or an obsolescence risk that passes 100 by rounding (`RefusedForRounding`). Each part is rounded to a hundredth
  before they are summed (`scoring.py:30`, `obsolescence.py:42`): with the weights of `config/forecasting.yaml`, eight factors at 100 and no
  evidence of `urban_renewal`, the score is 100.02, which the contract and the table refuse, and the evaluation ends. For the same
  reason `BetterProspectsNeverHurt` speaks of the workflow only while the better score still fits.
* `NoLookAhead` (`docs/FORECASTING_MODEL.md:88`: "only information that existed") holds the comparables and the home to their
  day of observation, and what is behind a baseline to that day or the day of its import. A feed may state a time still to come; such an
  observation enters a run whose window reaches that far, and what is known then is that it was in the database by the cutoff.
  A baseline of P5 need not belong to the run its valuation rests on: the
  guard against it (`docs/MARKET_BASELINE_MODEL.md:152`) compares version strings, which always agree.

`OnePipeline` and what rests on it need `LockOutlives`: that no run takes longer than
`daily_run_lock_ttl_seconds`. The default is six hours; the shortest the settings allow is one, which the
four waits for jobs can use up by themselves.

## 5. Proofs

### Collector

For any constants satisfying `FinalAfterAssumption`
(`FinalAfter` a natural number of at least two, as `Settings` requires) and `CollectorAssumption` (scopes of runs are
given, feeds are sequences of listings or malformed items, the initial rows are
rows some history can produce, `None` is none of the values it stands beside).

* `TypeCorrect`: `Spec => [](TypeOK /\ Employed)`.
* `InductiveHolds`: `Spec => []Inductive`.
* `ProjectionConservative`, `AnnouncementUnique`: the invariants `ProjectionIsConservative` and `AnnouncedOnce`.
* `EventsExact`: the action property `EventsAreTheTransitions`.
* `AbsenceEvidence`: `Spec => AbsenceNeedsEvidence`, the refinement of
  `ScopeLifecycle`: `Commit` maps to `Succeed`, a recorded failure or a busy scope to
  `EndWithout`, and every other step to a stutter.

The argument. None of the properties is inductive: at its commit a worker writes
`draft`, `wrote` and `pending`, computed over many steps from rows that others
could have changed. `Inductive` says why they have not. The scope lock gives each
working transaction its scope's rows (`OwnScope`, `OwnRun`); the row lock on every
ingested listing keeps its status and its other transactions away (`OwnListings`); so from `Settle` on the
uncommitted rows are exactly what `AfterRun` makes of the committed ones, less the
candidates still to be counted (`Drafts`), the uncommitted statuses cover the rows of all scopes (`Statuses`), the
uncommitted events are exactly the turns between committed and uncommitted rows (`Events`), and an announcement
is pending only for a listing this transaction has inserted and locked (`Announced`). At `Commit`, `todo`
is empty, so the draft is `AfterRun` for every listing: that step gives the refinement and the
events at once. `Statuses` survives another scope's commit because that commit either moves a row further
towards absence, which a status that covered it still covers, or makes it active,
and then it has the listing locked for update and no other transaction has a status to write.
TLC checks `Inductive` as an invariant of `collector_scopes`.

`CollectorProofs` holds the type lemmas, one per action, then one lemma
per part of the invariant, a theorem that puts them together, and the properties.

### Handoff

For any constants satisfying `HandoffAssumption` (the monitor is no client; a content gives prices to some of the
listings; one load, and any number of faults and crashes) and `NoneAssumption` (no observation is not an observation).

* `HandoffInductiveHolds`: `Spec => []HandoffInductive`.
* `ReadyStandsOnTheFeed`, `OneVisitPerInterval`, `NoAnalysisIsLost`: the invariants `ReadyIsRecorded`, `VisitsAreSpaced` and
  `AnalysisFollowsCapture`.
* `PausedCapturesPublishNothing`, `FeedsAreRelative`: the action properties `PauseStopsCapture` and `ChangesAreRelative`.

The argument. Who works holds the lock (`Turns`), so nobody else's stretch can lie between the stretches of a capture but the
human's, which takes no lock. The object serves what is in the feed file (`Serves`), in every state, because the two change in
one stretch or the process dies between them and starts from the file. The human's pause therefore has to be found in the object: an
interruption leaves it taken over (`Stopped`), and the acceptance of a page asks for that before it publishes or makes the
session READY. A visit counts only if object and file agree that none is due (`Spaced`): the attempt is saved before the
visit, and a save that fails stops it. `Analyses` is weaker than its property while somebody analyses, and `Turns` says
that nobody can when nobody is at work. The proof has lemmas about what each change makes of the object, lemmas about entering,
leaving and queueing for the lock, and one lemma per action that joins them.

### DailyPipeline

For any constants satisfying `PipelineAssumption` (a finite set of other callers; `None` is no caller and no pointer; stages
with names of their own; one attempt at least). Some theorems have the hypothesis `LockOutlives`: that the lock's time to live
is longer than any run. It is the premise under which TLC checks them too, and what the code relies on.

* `PipelineInductiveHolds`, `DailyInductiveHolds`: the two inductive invariants, the second on top of the first.
* `MutualExclusion`: `OnePipeline`. `PointerMovesForward`: `LockOutlives => (Spec => LatestMovesForward)`.
* `JobsStayInOrder`: `LockOutlives => (Spec => []JobsFollowTheRuns)`.
* `DeliveriesAreFiled`: `DeliveryIsFiled`. `DeliveredAtMostOnce`: `DeliveredOnce`.
* `RestartsStayBounded`: `LockOutlives => (Spec => []RestartsAreBounded)`.
* `HoursAreServed`: `LockOutlives => (Spec => ServedUnlessDisturbed)`.

`OnePipeline` says nothing of the lock, whose holder may be dead; `Holder` does: whoever is at work is the
holder. The lock changes hands only when it is free or its holder is not at work, an answer that Redis
lost included. The pointer moves forward because the process at work has the newest run id (`Newest`), the pointer stays
behind it until it goes to the release (`Unrecorded`), and its end time is taken after the last write of the pointer
(`Later`), which is somebody else's and therefore over.

The rest stands on that. Jobs are in the order of the runs because the run at work is the newest, so that a job is
enqueued behind older ones only, and has a job itself only where its process waits for it (`Waited`), which it leaves when the job has left
the queue, or gives up. A run is filed as a success after its delivery, or after its results have said that there is none (`Filing`): a delivered run is filed or its process is about to. An
episode that has called the webhook is not retried while Redis answers (`Posting`), so a second run is never posted. Restarts
are bounded because each attempt that is recorded is in the pointer's past (`Recordings`), where the decision to
catch up sees it, and is counted for the hour it serves; an attempt that has not been recorded yet is the one under way (`Tried`). That a served hour
has a record (`Undisturbed`) needs that nothing was killed, lost or refused, as the property says: then the lock belongs to a process at work, and
the scheduler's own process cannot find it taken by a dead one.

### Baselines and Assessments

For any constants satisfying `BaselinesAssumption` (windows are numbers of days) and `AssessmentsAssumption` (a task
has one to three layers and at least one listing, and an isolated one is a single transaction).

* `AssessmentsInductiveHolds`: `Spec => []AssessmentsInductive`.
* `BaselinesAreComplete`, `EvaluationsAreUnique`, `NothingIsForeseen`: the invariants `BaselinesComplete`, `EvaluatedOnce` and
  `NoLookAhead`.
* `PublishedStays`: the action property `PublishedForGood`.

The argument. A worker at work has the lock of its date, which no other has, and builds a run of that date that is open
(`Workshop`); an isolated evaluation holds a run that nobody builds and that is published only if it was replayed (`Pinned`). So
whoever publishes a run, replays or deletes it is alone with it. Two rows of the same inputs cannot both be stored, because a new row is under
the lock of its layer and listing (`UnderLock`) from before the table is searched until the commit, and no two transactions have the same lock
(`Apart`). Nothing looks ahead because a run rests on observations imported by its cutoff (`Causality`), the
resolver picks from runs up to the day of the evaluation, and each layer hands on what it was
computed from (`HandedOn`): the invariant follows a session through its layers, with what was read before the lock.

### Validation

For any constants satisfying `ValidationAssumption` (listings are a finite set of numbers, which order ranks; labels and
reviews use their words; every listing has a result for every version of the inputs; `None` is no word).

* `ValidationInductiveHolds`: `Spec => []ValidationInductive`. `ValidationTypes`: `Spec => []TypeOK`.
* `VerdictHolds`: `Spec => []VerdictStands`.
* `VerdictsStay`: the action property `VerdictsAccumulate`.
* `TrialIsBlind`: `Spec => KeepsTheTrial`, the refinement of `BlindTrial`: creations and commits map to its steps, every other step to a stutter.

The argument. A request goes by the batch row it read at its beginning, which any other request may have overwritten; so the
invariant says of each request under way what it may still write, whatever the stage has become (`Labelling`, `Generating`, `Freezing`,
`Revealing`, `Finalizing`, `Reviewing`). A label that changes a judgement holds its row while the row has no result, and the trigger
refuses it once there is one; a generation leaves judgements alone and, when it commits, every item has a result; a
freeze commits when every item has been judged, and judgements are never taken back. `Stages` is what is left of the batch's status: it says of the
items what `BlindTrial` asks for, and the trial's state is read off the items, not off the status. A verdict stands because a finalization
has it of the rows as they are at its check, and after the last result nothing that it rests on changes, unless a batch row
was written over (`lostUpdate`), which the property excepts.

### Feed

For any constants satisfying `FeedAssumption` (finitely many listings; pages of at least one item; `None` is no number).

* `FeedInductiveHolds`: `FeedSpec => []FeedInductive`. `NothingIsMissed`: `FeedSpec => CompleteMissesNothing`.

The argument. `Keeps` carries what the run has to find: the listings offered since it began are on offer now. A
document states its coverage at one moment, and a signed export has one row for each listing that was
offered when it was made (`Files`), which the run compares with what it reads between two readings of its manifest. For a paged feed
the items prove nothing while pages are missing; what does is their number. While listings only come, or only
leave, the total learned from the first page says by its difference from the list which of both happened (`Totals`); if it still equals the
length of the list, nothing has, and the items taken so far are the beginning of the list whenever they are as many as the pages
read can hold (`Pages`). A feed called complete has as many items as the total, without repetition, so they are the list.

### Rules and Appraisal

For any constants that satisfy the assumptions of `Appraisal` and of the four rules modules: evidence as its tables store it, in
finite sets with one row per id; listings and distances that are numbers; `None` apart from every value it stands beside; and the
configurations, of which the assumptions say what their loaders check. In a few places they say what the loaders leave open and
the files under `config/` settle: the signs of the weights of alpha, that the weights of the future confidence are not negative
and the two levels that cap it are levels, that `liquidity.available` is at least one, that the weights have the names of the
parts, that the better class and the surer level have the higher priority, and that a plan that may fail is not a hard risk.
Without the signs or the order of priorities the theorems are false.

* `ChainTypedHolds`: `ChainSpec => []ChainTyped`.
* `AskIsNotRead`: the action property `AskEntersOnlyThroughTheBaseline`.
* `ProspectsNeverHurt`, `BetterIsRankedFirst`: the invariants `BetterProspectsNeverHurt` and `BetterIsNeverRankedWorse`.
* `RowsAreStorable`: `SlicesAreStorable`, `AssessmentsAreStorable` and `RefusedForRounding`, which is `EveryRowIsStorable` but for the prices.

The argument. The three invariants are not inductive because an assessment stays while the evidence and the slices it was made
from move on. `ChainTyped` therefore says of every assessment itself that it is made of what it names (`IsAssessed`: outlook and
decision are the rules' results for its factors and its valuation), and of what an assessment draws on that the next one will
find it well formed: observations as stored, runs whose slices have their figures in range. Of a refused outlook it says that
it fits but for rounding: each part of a mean is rounded by at most half a hundredth, so that the sum passes 100 by half a hundredth for each part at most.

Everything else is about the rules. `RulesProofs` goes through them from the quotient up, with two kinds of lemma: what
an operator returns, and what it does when one of its inputs rises. Prospects never hurt because each factor's way into score,
risk, alpha and trust is monotone, with the sign the configuration gives it: a part that is known stays known (`Brighter`), so the weighted means keep
their weights, a mean of higher figures is no lower (`MeanRises`), rounding, bounds, levels and caps keep the order, and every warning a
better prospect can bring is none that a gate looks at. `AtLeast` says the same of two decisions, whose class, gates and state
follow it; the ranking compares the keys at the first place where they differ, and two homes with the same key are told apart by
their listing. That the asking price is not read takes two observations: the home is no candidate of its own valuation, and its last
record stays the last one when another price is asked in all of them.

The sums, minima and counts are folds over finite sets. The library states how a fold over a set unfolds with operators as
parameters, which no prover here takes; `RulesProofs` shows instead, from the definition, that a sum is its first member
and the sum of the rest (`SumOfMore`), and replaces every induction by the smallest subset for which a claim fails
(`LeastSubset`, from the well-foundedness of strict inclusion on finite subsets).

### What is only model-checked, and why

* Liveness: `RunsEnd`, `RequestsEnd`, `DuePageIsChecked`, `FailedAnalysisIsRepeated`, `EpisodesEnd`. They rest on fairness, and
  `ENABLED` is beyond the prover.
* The findings, which are violations, and whose proof is their counterexample.
* `PricesAreStorable`, the remaining part of `EveryRowIsStorable`: that every price is more than nothing and a discount has the digits of its column.
  It does not hold for every constant. The low bound is nothing when the interval may be as wide as the value (`maxInterval`, which its loader
  allows), a scenario's low price when a home costs less than half of the ten thousand yuan it is rounded to, and a discount outgrows its column when more than
  a thousand times the fair value is asked. The file's configuration and the prices of real homes keep clear of all three; the run uses that configuration.
  The same part has the order of a scenario's two prices, which would need an induction over the years of `Growth`.

TLC checks the inductive invariants of the collector, the handoff, the daily pipeline, baselines and assessments, and validation as
invariants of their runs. Those of the feeds and of the appraisal are stated beside their proofs.

## 6. Plan, and what is not modelled

Modelled and model-checked: the collector, the handoff, the daily pipeline, validation, baselines and
assessments, feeds, and the pricing rules. Proved: every safety property that is checked of them, but for the prices in
`EveryRowIsStorable`. What is worth proving next:

1. `PricesAreStorable` from a bound on the prices of the observations and on `maxInterval`: that the adjusted prices, their quantiles and
   the growth of a fair value stay above half of the smallest unit.
2. That the figures of `Appraisal` are the rows of `Assessments`: the two are composed by name only, through what a worker writes.

Not modelled:

* Two attempts of one run id at once (`jobs.py:14`). The queue executes a job once at a time unless it takes a live worker for dead.
* The recommendation routes, evidence stores and the buyer profile: requests that read a file, check it and replace it, one
  at a time, for a single user.
* The scripts that import evidence, geocode, label, benchmark or calibrate: command line tools that read files and print or write one.
* The parsing of cards and rows, the text of explanations, digests and reports, the queries of the API, the migrations that create tables,
  the browser driver and the front end: input, output and wording.

`PROJECT.json` lists every component with its status, and every hazard with its line and the properties about it; a hazard without one says why.
