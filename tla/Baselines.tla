----------------------------- MODULE Baselines -----------------------------
(* P3: the materialization of market baselines                             *)
(* (services/market materializer.py, observation_service.py, windows.py,   *)
(* domain.py).  Feeds leave snapshots of listings, possibly late; a worker *)
(* imports them as observations and publishes, for one as-of date, the     *)
(* baselines of every slice under a run identified by the date and the     *)
(* signature of its inputs.  Time is counted in Shanghai days.  The        *)
(* figures of a slice are left out: a slice is its window and its place.   *)
EXTENDS Naturals, FiniteSets, Functions, Tables

CONSTANTS
    Listings,       \* the listings, each the only one of its community
    Workers,        \* the processes that materialize baselines
    None,           \* no value
    Windows,        \* the lengths of the observation windows, in days
    MaxDay,         \* bound: the last day
    MaxSnapshots,   \* bound: the snapshots that feeds leave
    MaxStarts,      \* bound: the materializations and evaluations that start
    MaxFaults       \* bound: the processes that die and the jobs that fail

\* The windows are lengths (market_baseline.yaml:4), and time is bounded.
ASSUME BaselinesAssumption == Windows \subseteq Nat /\ MaxDay \in Nat

VARIABLES
    today,          \* the current day
    snapshots,      \* the listing snapshots of succeeded crawl runs
    imported,       \* market_observation: the snapshots projected into it, and
                    \* the day of the transaction that did
    runs,           \* baseline_materialization_run, with the baselines of each
    lockedDates,    \* the dates under a session-level advisory lock
    worker,         \* what each worker is doing
    spent           \* the starts and the faults so far

baselineVars == <<today, snapshots, imported, runs, lockedDates, worker, spent>>

Days == 0 .. MaxDay

\* The place of the slices of the whole city.
Shanghai == "shanghai"

-----------------------------------------------------------------------------
(* Slices.                                                                 *)

\* Is the observation in the window of w closed days that ends with date?
InWindow(o, date, w) == o.at <= date /\ o.at + w > date

\* The last observation of each listing: an entity counts once.
LatestPerEntity(os) ==
    {o \in os : \A p \in os : p.listing = o.listing => p.at <= o.at}

\* The places a listing's observation counts for.
Places(o) == {o.listing, Shanghai}

\* The baselines of a date from these inputs.
BaselinesOf(date, inputs) ==
    {s \in [window : Windows, place : Listings \cup {Shanghai}] :
       \E o \in LatestPerEntity({i \in inputs : InWindow(i, date, s.window)}) :
          s.place \in Places(o)}

-----------------------------------------------------------------------------
(* The rows and the workers.                                               *)

IdleWorker == [pc |-> "idle", date |-> 0, since |-> 0, imports |-> {},
               key |-> None, cutoff |-> 0]

BaselineInit ==
    /\ today = 0
    /\ snapshots = {}
    /\ imported = <<>>
    /\ runs = <<>>
    /\ lockedDates = {}
    /\ worker = [w \in Workers |-> IdleWorker]
    /\ spent = [starts |-> 0, faults |-> 0]

\* The identity of a run: the as-of date and the signature of the inputs.
\* Observations are cut at the end of the date's windows, and at the cutoff.
RunKey(date, cutoff) ==
    [date |-> date,
     inputs |-> {o \in DOMAIN imported : o.at <= date /\ imported[o] <= cutoff}]

\* The observations with these snapshots, imported on a day.
WithImports(os, day) == Over(imported, [o \in os |-> day])

RunningRow(day, cutoff) ==
    [status |-> "running", started |-> day, finished |-> None, cutoff |-> cutoff,
     baselines |-> {}]

\* Mutant: the inputs are read again when the baselines are built.
PublishedRowOfToday(row, key, day) ==
    [row EXCEPT !.status = "succeeded", !.finished = day,
                !.baselines = BaselinesOf(key.date, DOMAIN imported)]

PublishedRow(row, key, day) ==
    [row EXCEPT !.status = "succeeded", !.finished = day,
                !.baselines = BaselinesOf(key.date, key.inputs)]

\* A row of baseline_materialization_run, with its baselines.
RunRows ==
    [status : {"running", "succeeded", "failed"}, started : Days, finished : Days \cup {None},
     cutoff : Days, baselines : SUBSET [window : Windows, place : Listings \cup {Shanghai}]]

Published(key) == key \in DOMAIN runs /\ runs[key].status = "succeeded"

WithRun(key, row) == Over(One(key, row), runs)

\* One more job or evaluation starts.
Starts ==
    /\ spent.starts < MaxStarts
    /\ spent' = [spent EXCEPT !.starts = @ + 1]

\* One more thing goes wrong.
Faulty ==
    /\ spent.faults < MaxFaults
    /\ spent' = [spent EXCEPT !.faults = @ + 1]

\* Mutant: the lock of the date is not released.
EndsLocked(w) ==
    /\ worker' = [worker EXCEPT ![w] = IdleWorker]
    /\ UNCHANGED lockedDates

\* The job is over and its connection gives the lock of the date back.
Ends(w) ==
    /\ worker' = [worker EXCEPT ![w] = IdleWorker]
    /\ lockedDates' = lockedDates \ {worker[w].date}

-----------------------------------------------------------------------------
(* The environment.                                                        *)

NextDay ==
    /\ today < MaxDay
    /\ today' = today + 1
    /\ UNCHANGED <<snapshots, imported, runs, lockedDates, worker, spent>>

\* A crawl run succeeds and leaves a snapshot, whose time its feed states: late,
\* or still to come, which only demotes the run to partial.
Arrives(l, day) ==
    /\ Cardinality(snapshots) < MaxSnapshots
    /\ snapshots' = snapshots \cup {[listing |-> l, at |-> day]}
    /\ UNCHANGED <<today, imported, runs, lockedDates, worker, spent>>

-----------------------------------------------------------------------------
(* A materialization that commits as it goes.                              *)

\* Mutant: the lock of the date is not asked for.
BeginUnlocked(w, date) ==
    /\ worker[w].pc = "idle"
    /\ lockedDates' = lockedDates \cup {date}
    /\ worker' = [worker EXCEPT ![w] =
                    [IdleWorker EXCEPT !.pc = "importing", !.date = date, !.since = today,
                                       !.imports = snapshots \ DOMAIN imported]]
    /\ Starts
    /\ UNCHANGED <<today, snapshots, imported, runs>>

\* The worker takes the lock of the date, or gives up at once, and reads which
\* snapshots are not imported yet.
Begin(w, date) ==
    /\ worker[w].pc = "idle"
    /\ date \notin lockedDates
    /\ lockedDates' = lockedDates \cup {date}
    /\ worker' = [worker EXCEPT ![w] =
                    [IdleWorker EXCEPT !.pc = "importing", !.date = date, !.since = today,
                                       !.imports = snapshots \ DOMAIN imported]]
    /\ Starts
    /\ UNCHANGED <<today, snapshots, imported, runs>>

\* The observations are inserted and committed.  A snapshot that a worker of
\* another date imported since is refused by its unique constraint, and the
\* job ends.
Import(w) ==
    /\ worker[w].pc = "importing"
    /\ IF worker[w].imports \cap DOMAIN imported # {}
       THEN Ends(w) /\ UNCHANGED imported
       ELSE /\ imported' = WithImports(worker[w].imports, worker[w].since)
            /\ worker' = [worker EXCEPT ![w].pc = "reading", ![w].cutoff = today]
            /\ UNCHANGED lockedDates
    /\ UNCHANGED <<today, snapshots, runs, spent>>

\* The inputs are read up to the cutoff.  A published run of the same identity
\* is replayed; one that failed, or that a dead worker left running, is emptied
\* and run again under the new cutoff.
Open(w) ==
    /\ worker[w].pc = "reading"
    /\ LET key == RunKey(worker[w].date, worker[w].cutoff)
       IN IF Published(key)
          THEN Ends(w) /\ UNCHANGED runs
          ELSE /\ runs' = WithRun(key, RunningRow(today, worker[w].cutoff))
               /\ worker' = [worker EXCEPT ![w].pc = "building", ![w].key = key]
               /\ UNCHANGED lockedDates
    /\ UNCHANGED <<today, snapshots, imported, spent>>

\* The baselines and the success of the run are one commit.
Publish(w) ==
    /\ worker[w].pc = "building"
    /\ LET key == worker[w].key
       IN runs' = WithRun(key, PublishedRow(runs[key], key, today))
    /\ Ends(w)
    /\ UNCHANGED <<today, snapshots, imported, spent>>

\* An exception while building: rollback, and the run is marked failed.
Fail(w) ==
    /\ worker[w].pc = "building"
    /\ runs' = [runs EXCEPT ![worker[w].key].status = "failed",
                            ![worker[w].key].finished = today]
    /\ Ends(w)
    /\ Faulty
    /\ UNCHANGED <<today, snapshots, imported>>

\* The process dies; PostgreSQL releases the lock with its connection.
Die(w) ==
    /\ worker[w].pc # "idle"
    /\ Ends(w)
    /\ Faulty
    /\ UNCHANGED <<today, snapshots, imported, runs>>

MaterializeNext ==
    \E w \in Workers :
       \/ \E date \in Days : Begin(w, date)
       \/ Import(w)
       \/ Open(w)
       \/ Publish(w)
       \/ Fail(w)
       \/ Die(w)

EnvironmentNext == NextDay \/ \E l \in Listings, day \in Days : Arrives(l, day)

=============================================================================
