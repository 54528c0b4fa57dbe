----------------------------- MODULE Collector -----------------------------
(***************************************************************************)
(* CollectorService.collect and ListingRepository: several workers, each   *)
(* one database transaction per crawl run, over the shared tables          *)
(* crawl_run, listing, listing_presence and listing_event.                 *)
(*                                                                         *)
(* A worker's writes stay in its transaction (draft, wrote, pending) until *)
(* the single commit; what another worker can feel before that are locks:  *)
(*   - the advisory transaction lock of a scope, tried and never awaited;  *)
(*   - the row lock of a listing, awaited: "update" (SELECT FOR UPDATE of  *)
(*     ingest, or an uncommitted INSERT), "share" (FOR KEY SHARE, taken by *)
(*     the foreign keys of the snapshot and event reconciliation inserts), *)
(*     "write" (the UPDATE of listing.status by reconciliation).           *)
(* Every statement reads what is committed when it runs (READ COMMITTED).  *)
(*                                                                         *)
(* Abstracted: prices, times and the snapshots that carry them; raw        *)
(* records; how many items failed (only whether one did); the numbers the  *)
(* live coverage guard compares (its verdict is any).  A run id is run by  *)
(* one worker at a time, as its queue job is.                              *)
(***************************************************************************)
EXTENDS PresenceRows, Sequences, FiniteSets

CONSTANTS
    Workers,    \* processes that call collect
    Listings,   \* canonical identities (source, source_listing_id)
    Scopes,     \* pairs (source, scope_key)
    Runs,       \* crawl run ids
    RunScope,   \* the scope of the adapter configured for a run
    Feeds,      \* the item lists a fetch may return
    Malformed,  \* an item normalize rejects
    Live,       \* data_mode is live: the coverage guard applies
    Earlier,    \* presence rows that earlier runs may have left behind
    None

ASSUME CollectorAssumption ==
    /\ RunScope \in [Runs -> Scopes]
    /\ Feeds \subseteq Seq(Listings \cup {Malformed})
    /\ Malformed \notin Listings
    /\ Live \in BOOLEAN
    /\ Earlier \subseteq CountedRows
    /\ None \notin Workers \cup Listings \cup Runs \cup PresenceState

VARIABLES
    \* committed tables
    runs,       \* crawl_run: status and completeness of a run
    presence,   \* listing_presence, per scope and listing
    status,     \* listing.status ("none": no such listing)
    events,     \* lifecycle rows of listing_event, <<run, listing, type>>
    \* locks
    scopeLock,  \* holder of a scope's advisory lock
    held,       \* row lock a worker holds on a listing
    \* the transaction of a worker
    pc, job,    \* where it is, and in which run
    feed,       \* items of the fetch result still to ingest
    complete,   \* declared complete and nothing has degraded it since
    seen,       \* listings ingested
    draft,      \* presence rows of its scope, as the transaction sees them
    wrote,      \* listing.status it has assigned
    pending,    \* events it has added
    todo, cur,  \* reconciliation: candidates left, candidate at hand
    loaded      \* status of the candidate as loaded into the session

tables == <<runs, presence, status, events>>
fetched == <<feed, complete>>
writes == <<seen, draft, wrote, pending>>
sweep == <<todo, cur, loaded>>
vars == <<tables, scopeLock, held, pc, job, fetched, writes, sweep>>

LC == INSTANCE ScopeLifecycle

EventType == {"new", "missing_candidate", "inactivated", "relisted"}
LockMode == {"none", "share", "write", "update"}
ListingStatus == PresenceState

\* Inside the transaction with the scope lock; waiting for the lock; after a
\* rollback, with the failure still to be recorded.
Owning == {"fetch", "ingest", "insert", "reconcile", "share", "refresh", "update"}
Failing == {"failed", "paused_auth"}
Control == {"idle", "lock"} \cup Owning \cup Failing

Scope(w) == RunScope[job[w]]
Blank == [l \in Listings |-> NoRow]
Unwritten == [l \in Listings |-> None]
Unlocked == [l \in Listings |-> "none"]

TypeOK ==
    /\ runs \in [Runs -> [status : LC!RunStatus, completeness : LC!Completeness]]
    /\ presence \in [Scopes -> [Listings -> Row]]
    /\ status \in [Listings -> ListingStatus]
    /\ events \subseteq Runs \X Listings \X EventType
    /\ scopeLock \in [Scopes -> Workers \cup {None}]
    /\ held \in [Workers -> [Listings -> LockMode]]
    /\ pc \in [Workers -> Control]
    /\ job \in [Workers -> Runs \cup {None}]
    /\ feed \in [Workers -> Seq(Listings \cup {Malformed})]
    /\ complete \in [Workers -> BOOLEAN]
    /\ seen \in [Workers -> SUBSET Listings]
    /\ draft \in [Workers -> [Listings -> Row]]
    /\ wrote \in [Workers -> [Listings -> ListingStatus \cup {None}]]
    /\ pending \in [Workers -> SUBSET (Runs \X Listings \X EventType)]
    /\ todo \in [Workers -> SUBSET Listings]
    /\ cur \in [Workers -> Listings \cup {None}]
    /\ loaded \in [Workers -> ListingStatus]

(***************************************************************************)
(* The tables hold whatever earlier runs, one after the other, left there. *)
(***************************************************************************)
StatesOf(rows, l) == {rows[s][l].state : s \in Scopes}

Init ==
    /\ runs = [r \in Runs |-> [status |-> "none", completeness |-> "unknown"]]
    /\ presence \in [Scopes -> [Listings -> Earlier]]
    /\ status = [l \in Listings |-> DerivedStatus(StatesOf(presence, l))]
    /\ events = {}
    /\ scopeLock = [s \in Scopes |-> None]
    /\ held = [w \in Workers |-> Unlocked]
    /\ pc = [w \in Workers |-> "idle"]
    /\ job = [w \in Workers |-> None]
    /\ feed = [w \in Workers |-> <<>>]
    /\ complete = [w \in Workers |-> FALSE]
    /\ seen = [w \in Workers |-> {}]
    /\ draft = [w \in Workers |-> Blank]
    /\ wrote = [w \in Workers |-> Unwritten]
    /\ pending = [w \in Workers |-> {}]
    /\ todo = [w \in Workers |-> {}]
    /\ cur = [w \in Workers |-> None]
    /\ loaded = [w \in Workers |-> "none"]

\* The transaction ends: its locks are released and its session is empty.
EndTransaction(w) ==
    /\ scopeLock' = [s \in Scopes |-> IF scopeLock[s] = w THEN None ELSE scopeLock[s]]
    /\ held' = [held EXCEPT ![w] = Unlocked]
    /\ feed' = [feed EXCEPT ![w] = <<>>]
    /\ complete' = [complete EXCEPT ![w] = FALSE]
    /\ seen' = [seen EXCEPT ![w] = {}]
    /\ draft' = [draft EXCEPT ![w] = Blank]
    /\ wrote' = [wrote EXCEPT ![w] = Unwritten]
    /\ pending' = [pending EXCEPT ![w] = {}]
    /\ todo' = [todo EXCEPT ![w] = {}]
    /\ cur' = [cur EXCEPT ![w] = None]
    /\ loaded' = [loaded EXCEPT ![w] = "none"]

Goto(w, label) == pc' = [pc EXCEPT ![w] = label]

Leave(w) == Goto(w, "idle") /\ job' = [job EXCEPT ![w] = None]

(***************************************************************************)
(* Starting a run                                                          *)
(***************************************************************************)
\* collect starts, with a fresh run id or with the id of a run that has not
\* succeeded (get_run then returns its row, which _start_run resets).
Begin(w, r) ==
    /\ pc[w] = "idle"
    /\ runs[r].status # "succeeded"
    /\ \A v \in Workers : job[v] # r
    /\ job' = [job EXCEPT ![w] = r]
    /\ Goto(w, "lock")
    /\ UNCHANGED <<tables, scopeLock, held, fetched, writes, sweep>>

\* try_scope_lock succeeds; the presence rows are those of the scope.
TakeScopeLock(w) ==
    /\ pc[w] = "lock"
    /\ scopeLock[Scope(w)] = None
    /\ scopeLock' = [scopeLock EXCEPT ![Scope(w)] = w]
    /\ Goto(w, "fetch")
    /\ UNCHANGED <<tables, held, job, fetched, writes, sweep>>

\* try_scope_lock fails: the run is committed as already_running.
AlreadyRunning(w) ==
    /\ pc[w] = "lock"
    /\ scopeLock[Scope(w)] # None
    /\ runs' = [runs EXCEPT ![job[w]] =
                  [status |-> "already_running", completeness |-> "unknown"]]
    /\ EndTransaction(w)
    /\ Leave(w)
    /\ UNCHANGED <<presence, status, events>>

\* The adapter returns its items and whether it declares them complete.
Fetch(w) ==
    /\ pc[w] = "fetch"
    /\ \E items \in Feeds, declared \in BOOLEAN :
          /\ feed' = [feed EXCEPT ![w] = items]
          /\ complete' = [complete EXCEPT ![w] = declared]
    /\ Goto(w, "ingest")
    /\ UNCHANGED <<tables, scopeLock, held, job, writes, sweep>>

(***************************************************************************)
(* Ingesting the items, each in a savepoint                                *)
(***************************************************************************)
AtItem(w) == pc[w] = "ingest" /\ feed[w] # <<>>
Item(w) == Head(feed[w])
NextItem(w) == feed' = [feed EXCEPT ![w] = Tail(@)]

LockedByOther(w, l, modes) == \E v \in Workers \ {w} : held[v][l] \in modes

\* A listing another transaction can see, or one this transaction inserted.
Visible(w, l) == status[l] # "none" \/ held[w][l] = "update"

\* normalize raises: a failed raw record, a parse error, no more.
RejectItem(w) ==
    /\ AtItem(w)
    /\ Item(w) = Malformed
    /\ NextItem(w)
    /\ complete' = [complete EXCEPT ![w] = FALSE]
    /\ UNCHANGED <<tables, scopeLock, held, pc, job, writes, sweep>>

\* ingest_observation finds the listing and waits for its row lock.
IngestKnown(w) ==
    /\ AtItem(w)
    /\ Item(w) \in Listings
    /\ Visible(w, Item(w))
    /\ ~LockedByOther(w, Item(w), {"share", "write", "update"})
    /\ held' = [held EXCEPT ![w][Item(w)] = "update"]
    /\ seen' = [seen EXCEPT ![w] = @ \cup {Item(w)}]
    /\ NextItem(w)
    /\ UNCHANGED <<tables, scopeLock, pc, job, complete, draft, wrote, pending, sweep>>

\* ingest_observation finds no listing and goes on to insert one.
MissListing(w) ==
    /\ AtItem(w)
    /\ Item(w) \in Listings
    /\ ~Visible(w, Item(w))
    /\ Goto(w, "insert")
    /\ UNCHANGED <<tables, scopeLock, held, job, fetched, writes, sweep>>

\* Mutant: the insert turns into an update when the row is there (ON CONFLICT
\* DO UPDATE), and goes on as if the listing were new.
InsertsOrUpdates(w) == TRUE

\* The unique constraint on source and source_listing_id lets the row in.
Inserts(w) == status[Item(w)] = "none"

\* The insert waits for another uncommitted one; none has been committed.
InsertListing(w) ==
    /\ pc[w] = "insert"
    /\ Inserts(w)
    /\ ~LockedByOther(w, Item(w), {"share", "write", "update"})
    /\ held' = [held EXCEPT ![w][Item(w)] = "update"]
    /\ seen' = [seen EXCEPT ![w] = @ \cup {Item(w)}]
    /\ pending' = [pending EXCEPT ![w] = @ \cup {<<job[w], Item(w), "new">>}]
    /\ NextItem(w)
    /\ Goto(w, "ingest")
    /\ UNCHANGED <<tables, scopeLock, job, complete, draft, wrote, sweep>>

\* The savepoint of an item is undone and the item counts as a parse error.
DropItem(w) ==
    /\ NextItem(w)
    /\ complete' = [complete EXCEPT ![w] = FALSE]
    /\ Goto(w, "ingest")
    /\ UNCHANGED <<tables, scopeLock, held, job, writes, sweep>>

\* Another worker's insert was committed first: the unique constraint fails.
DuplicateListing(w) ==
    /\ pc[w] = "insert"
    /\ ~Inserts(w)
    /\ DropItem(w)

\* Any other SQLAlchemyError while a listing is ingested.
ItemError(w) ==
    /\ \/ AtItem(w) /\ Item(w) \in Listings
       \/ pc[w] = "insert"
    /\ DropItem(w)

(***************************************************************************)
(* Closing the run: completeness, observed rows, reconciliation            *)
(***************************************************************************)
\* Mutant of Demotes: the guard is consulted, its verdict is not used.
DemotesNever(w, guarded) == FALSE

\* _apply_live_coverage_guard: only a live run still complete is demoted.
Demotes(w, guarded) == Live /\ complete[w] /\ guarded

\* Mutant of Candidates: the rows the run has seen are not excluded.
CandidatesAll(w) ==
    {l \in Listings : Reconcilable(presence[Scope(w)][l])}

\* The rows of the scope a complete run has to account for.
Candidates(w) ==
    {l \in Listings \ seen[w] : Reconcilable(presence[Scope(w)][l])}

\* mark_observed_presence for every listing seen, then, for a complete run,
\* the selection of reconcile_complete_scope.
Settle(w) ==
    /\ pc[w] = "ingest"
    /\ feed[w] = <<>>
    /\ \E guarded \in BOOLEAN :
          complete' = [complete EXCEPT ![w] = @ /\ ~Demotes(w, guarded)]
    /\ draft' = [draft EXCEPT ![w] =
                   [l \in Listings |-> IF l \in seen[w] THEN ObservedRow
                                       ELSE presence[Scope(w)][l]]]
    /\ wrote' = [wrote EXCEPT ![w] =
                   [l \in Listings |-> IF l \in seen[w] THEN "active" ELSE None]]
    /\ pending' = [pending EXCEPT ![w] = @ \cup
                     {<<job[w], l, "relisted">> :
                        l \in {k \in seen[w] : presence[Scope(w)][k].state
                                                 \in {"missing_candidate", "inactive"}}}]
    /\ todo' = [todo EXCEPT ![w] = IF complete'[w] THEN Candidates(w) ELSE {}]
    /\ Goto(w, "reconcile")
    /\ UNCHANGED <<tables, scopeLock, held, job, feed, seen, cur, loaded>>

\* Mutant of TransitionEvents: an event for every miss.
TransitionEventsEach(w, l) == {<<job[w], l, MissedRow(draft[w][l]).state>>}

\* The event a miss appends, if any.
TransitionEvents(w, l) ==
    IF Silent(draft[w][l]) THEN {}
    ELSE {<<job[w], l, IF MissedRow(draft[w][l]).state = "inactive"
                       THEN "inactivated" ELSE "missing_candidate">>}

\* The next candidate, in any order: its row counts the miss.  When its state
\* changes, its listing is loaded and its snapshot and event are inserted,
\* for which the foreign key waits.
MissCandidate(w, l) ==
    /\ pc[w] = "reconcile"
    /\ l \in todo[w]
    /\ todo' = [todo EXCEPT ![w] = @ \ {l}]
    /\ draft' = [draft EXCEPT ![w][l] = MissedRow(@)]
    /\ pending' = [pending EXCEPT ![w] = @ \cup TransitionEvents(w, l)]
    /\ IF Silent(draft[w][l])
       THEN UNCHANGED <<pc, cur, loaded>>
       ELSE /\ cur' = [cur EXCEPT ![w] = l]
            /\ loaded' = [loaded EXCEPT ![w] = status[l]]
            /\ Goto(w, "share")
    /\ UNCHANGED <<tables, scopeLock, held, job, fetched, seen, wrote>>

\* The foreign key of the inserted rows holds the listing FOR KEY SHARE.
ShareListing(w) ==
    /\ pc[w] = "share"
    /\ ~LockedByOther(w, cur[w], {"update"})
    /\ held' = [held EXCEPT ![w][cur[w]] = "share"]
    /\ Goto(w, "refresh")
    /\ UNCHANGED <<tables, scopeLock, job, fetched, writes, sweep>>

\* The states of a listing's rows: its own as drafted, the others as committed.
RowStates(w, l) ==
    {IF s = Scope(w) THEN draft[w][l].state ELSE presence[s][l].state : s \in Scopes}

\* Mutant of Refreshed: the status follows the row of this scope alone.
RefreshedFromScope(w, l) == draft[w][l].state

Refreshed(w, l) == DerivedStatus(RowStates(w, l))

\* _refresh_listing_status: an UPDATE is issued only when the value differs
\* from the one loaded.
RefreshStatus(w) ==
    /\ pc[w] = "refresh"
    /\ IF Refreshed(w, cur[w]) = loaded[w]
       THEN Goto(w, "reconcile") /\ UNCHANGED wrote
       ELSE /\ wrote' = [wrote EXCEPT ![w][cur[w]] = Refreshed(w, cur[w])]
            /\ Goto(w, "update")
    /\ UNCHANGED <<tables, scopeLock, held, job, fetched, seen, draft, pending, sweep>>

\* The UPDATE of listing.status waits for another one not yet committed.
UpdateStatus(w) ==
    /\ pc[w] = "update"
    /\ ~LockedByOther(w, cur[w], {"write", "update"})
    /\ held' = [held EXCEPT ![w][cur[w]] = "write"]
    /\ Goto(w, "reconcile")
    /\ UNCHANGED <<tables, scopeLock, job, fetched, writes, sweep>>

\* Mutant of CommittedRows: the rows of a partial run are reconciled too.
CommittedRowsAlways(w) ==
    [l \in Listings |-> IF l \in Candidates(w) THEN MissedRow(presence[Scope(w)][l])
                        ELSE draft[w][l]]

CommittedRows(w) == draft[w]

\* _finish_success and the commit: everything becomes visible at once.
Commit(w) ==
    /\ pc[w] = "reconcile"
    /\ todo[w] = {}
    /\ runs' = [runs EXCEPT ![job[w]] =
                  [status       |-> "succeeded",
                   completeness |-> IF complete[w] THEN "complete" ELSE "partial"]]
    /\ presence' = [presence EXCEPT ![Scope(w)] = CommittedRows(w)]
    /\ status' = [l \in Listings |-> IF wrote[w][l] = None THEN status[l] ELSE wrote[w][l]]
    /\ events' = events \cup pending[w]
    /\ EndTransaction(w)
    /\ Leave(w)

(***************************************************************************)
(* Failures                                                                *)
(***************************************************************************)
\* An exception reaches collect: the transaction is rolled back.  Only the
\* adapter asks for authentication.
RollBack(w, kind) ==
    /\ pc[w] \in Owning
    /\ kind = "paused_auth" => pc[w] = "fetch"
    /\ EndTransaction(w)
    /\ Goto(w, kind)
    /\ UNCHANGED <<tables, job>>

\* _finish_failure merges the run row in a transaction of its own.
RecordFailure(w) ==
    /\ pc[w] \in Failing
    /\ runs' = [runs EXCEPT ![job[w]] =
                  [status |-> pc[w], completeness |-> "unknown"]]
    /\ Leave(w)
    /\ UNCHANGED <<presence, status, events, scopeLock, held, fetched, writes, sweep>>

\* The process or its connection dies: the database rolls back.
Crash(w) ==
    /\ pc[w] # "idle"
    /\ EndTransaction(w)
    /\ Leave(w)
    /\ UNCHANGED tables

(***************************************************************************)
(* Row locks can be awaited in a circle: workers ingest in feed order and  *)
(* reconcile in any order.  The database fails one statement of the circle.*)
(***************************************************************************)
WaitsFor(w, v) ==
    /\ v # w
    /\ \/ AtItem(w) /\ Item(w) \in Listings /\ Visible(w, Item(w))
             /\ held[v][Item(w)] # "none"
       \/ pc[w] = "insert" /\ status[Item(w)] = "none" /\ held[v][Item(w)] # "none"
       \/ pc[w] = "share" /\ held[v][cur[w]] = "update"
       \/ pc[w] = "update" /\ held[v][cur[w]] \in {"write", "update"}

InDeadlock(w) ==
    \E circle \in SUBSET Workers :
        /\ w \in circle
        /\ \A x \in circle : \E y \in circle : WaitsFor(x, y)

\* Mutant of DeadlockVictim: nobody breaks the circle.
DeadlockVictimNever(w) == FALSE

DeadlockVictim(w) ==
    /\ InDeadlock(w)
    /\ IF pc[w] \in {"ingest", "insert"} THEN DropItem(w) ELSE RollBack(w, "failed")

---------------------------------------------------------------------------
Work(w) ==
    \/ TakeScopeLock(w)
    \/ AlreadyRunning(w)
    \/ Fetch(w)
    \/ RejectItem(w)
    \/ IngestKnown(w)
    \/ MissListing(w)
    \/ InsertListing(w)
    \/ DuplicateListing(w)
    \/ Settle(w)
    \/ \E l \in Listings : MissCandidate(w, l)
    \/ ShareListing(w)
    \/ RefreshStatus(w)
    \/ UpdateStatus(w)
    \/ Commit(w)
    \/ RecordFailure(w)
    \/ DeadlockVictim(w)

Fault(w) ==
    \/ ItemError(w)
    \/ \E kind \in Failing : RollBack(w, kind)
    \/ Crash(w)

Next == \E w \in Workers : (\E r \in Runs : Begin(w, r)) \/ Work(w) \/ Fault(w)

Spec == Init /\ [][Next]_vars

\* A worker that can go on does, and the queue of a row lock is first come,
\* first served; nobody promises that a run is started.
FairSpec == Spec /\ \A w \in Workers : SF_vars(Work(w))

---------------------------------------------------------------------------
\* Shape of the rows (reconcile_complete_scope, mark_observed_presence): in a
\* committed row state and counter agree, missing below the threshold, final
\* at it, nothing counted while seen.  Which runs a row has counted is
\* AbsenceNeedsEvidence.
RowsAreCounted == presence \in [Scopes -> [Listings -> CountedRows]]

\* Conservative projection (_refresh_listing_status): whatever two scopes do
\* at once, listing.status never claims more absence than a committed row of
\* any scope shows; in particular a listing active somewhere is active.
ProjectionIsConservative ==
    \A s \in Scopes, l \in Listings : Covers(status[l], presence[s][l].state)

\* A listing is announced once (_add_event_once with type new), though
\* workers of two scopes may both find it missing and insert it.
AnnouncedOnce ==
    \A l \in Listings : Cardinality({r \in Runs : <<r, l, "new">> \in events}) <= 1

Succeeds(r) == runs[r].status # "succeeded" /\ runs'[r].status = "succeeded"

RowTurns(s, l, state) ==
    /\ presence[s][l].state \notin {"none", state}
    /\ presence'[s][l].state = state

EventState(type) ==
    CASE type = "relisted"          -> "active"
      [] type = "missing_candidate" -> "missing_candidate"
      [] type = "inactivated"       -> "inactive"

\* Lifecycle events are exactly the changes of rows, no more (a second miss
\* below the threshold, a retried run) and no less, and carry the run whose
\* commit made the change.
EventsAreTheTransitions ==
    [][\A r \in Runs, l \in Listings, type \in EventType \ {"new"} :
          <<r, l, type>> \in events' \ events
              <=> Succeeds(r) /\ RowTurns(RunScope[r], l, EventState(type))]_vars

\* Absence needs evidence: with respect to runs and rows, the collector does
\* nothing but what ScopeLifecycle allows.
AbsenceNeedsEvidence == LC!Spec

\* A started run ends: by its commit, as already running, as a recorded
\* failure or with its worker, and never by waiting for a lock forever.
RunsEnd == \A w \in Workers : pc[w] # "idle" ~> pc[w] = "idle"

\* docs/DEVELOPMENT_GUIDE.md:259, tests/integration/test_collector_postgres.py:239:
\* a listing that the complete runs of all its scopes have missed up to the
\* threshold is inactive, once no collection is running.  No later run looks
\* at its rows again (reconcile_complete_scope leaves inactive rows alone), so
\* only an observation could repair the status.
GoneIsInactive ==
    (\A w \in Workers : pc[w] = "idle")
        => \A l \in Listings : StatesOf(presence, l) = {"inactive"} => status[l] = "inactive"
=============================================================================
