---------------------------- MODULE Assessments ----------------------------
(* P4, P5 and P5.5: the cached evaluation of a listing                     *)
(* (services/valuation, services/forecasting and services/decision:        *)
(* cache.py, repository.py, materializer.py), over the baselines of P3.    *)
(* A session evaluates listings as of a day; each layer reads its inputs,  *)
(* takes the advisory lock of its layer and listing for the rest of the    *)
(* transaction, and returns the row of the same inputs or inserts one.     *)
(* The figures are left out: a row is the inputs it was computed from,     *)
(* which is also what its fingerprint tells apart.                         *)
EXTENDS Baselines, Sequences

CONSTANTS
    Sessions,       \* the database sessions that evaluate
    Tasks,          \* what a session may be asked to do
    PreferredWindow \* the window P5 wants its baselines to be near (90 days)

\* A task: how deep it evaluates, its listings in the order it takes them,
\* whether it commits after each, and whether it is isolated from the rest of
\* the market (real_world_validation), which is one transaction.
IsTask(t) ==
    /\ t.depth \in 1 .. 3
    /\ t.todo \in Seq(Listings) /\ t.todo # <<>>
    /\ {t.each, t.isolated} \subseteq BOOLEAN
    /\ t.isolated => ~t.each

ASSUME AssessmentsAssumption == \A t \in Tasks : IsTask(t)

VARIABLES
    rows,           \* the committed rows of valuation_result, future_assessment
                    \* and decision_assessment, by layer
    session         \* what each session is doing

vars == <<baselineVars, rows, session>>

\* The layers, in the order in which an evaluation goes through them.
Layers == <<"valuation", "future", "decision">>

LayerNames == {Layers[i] : i \in 1 .. 3}

NoRows == [layer \in LayerNames |-> {}]

\* No run is pinned.
NoPin == [key |-> None, origin |-> "none", row |-> None]

IdleSession ==
    [pc |-> "idle", task |-> None, todo |-> <<>>, asOf |-> 0, layer |-> 0,
     draft |-> None, row |-> None, held |-> {}, mine |-> NoRows,
     pinned |-> NoPin, imports |-> {}, since |-> 0]

Init ==
    /\ BaselineInit
    /\ rows = NoRows
    /\ session = [s \in Sessions |-> IdleSession]

Goes(s, changes) == session' = [session EXCEPT ![s] = Over(changes, @)]

Target(s) == Head(session[s].todo)

Depth(s) == session[s].task.depth

-----------------------------------------------------------------------------
(* What a session reads.                                                   *)

\* The listings of a task.  The rest is the context an isolated one may use.
Targets(task) == {task.todo[i] : i \in DOMAIN task.todo}

\* The observations the transaction sees, its own imports included.
Seen(s) == {o \in DOMAIN imported \cup session[s].imports : o.at <= session[s].asOf}

\* The candidates for the comparables.
Visible(s) ==
    {o \in Seen(s) : session[s].task.isolated => o.listing \notin Targets(session[s].task)}

\* The observation of the target itself is read without the isolation.
Observed(s) ==
    LatestPerEntity({o \in Seen(s) : o.listing = Target(s)})

\* Mutant: a run counts whenever it was cut off.
RunsWheneverCut(s) == {k \in DOMAIN runs : runs[k].status = "succeeded"}

\* The published runs that were cut off by the evaluation's time.
RunsAsOf(s) ==
    {k \in DOMAIN runs : runs[k].status = "succeeded" /\ runs[k].cutoff <= session[s].asOf}

\* The run P4 rests on: of the last date, and of those the last to finish; the
\* pinned one in an isolated evaluation.
LatestRuns(s) ==
    IF session[s].task.isolated THEN {session[s].pinned.key}
    ELSE {k \in RunsAsOf(s) :
            \A j \in RunsAsOf(s) :
               \/ j.date < k.date
               \/ j.date = k.date /\ runs[j].finished <= runs[k].finished}

\* Has another evaluation deleted the published run that this one replays?
Unavailable(s) == session[s].pinned.origin = "gone"

\* The baselines of a run, as this session sees it: its own uncommitted run, or
\* what the others committed.
BaselinesSeen(s, k) ==
    CASE session[s].pinned.origin = "own" -> session[s].pinned.row.baselines
      [] k \in DOMAIN runs /\ ~Unavailable(s) -> runs[k].baselines
      [] OTHER -> {}

\* P4 takes the shortest window with a baseline, there the place nearest to
\* the listing.
ResolvedBaseline(s, k) ==
    LET near == {b \in BaselinesSeen(s, k) : b.place \in {Target(s), Shanghai}}
        first == {b \in near : \A c \in near : b.window <= c.window}
        local == {b \in first : b.place # Shanghai}
    IN IF near = {} THEN None
       ELSE CHOOSE b \in first : local = {} \/ b \in local

Distance(w) == IF w > PreferredWindow THEN w - PreferredWindow ELSE PreferredWindow - w

\* P5 looks for its own baseline in every run: the nearest place first, then
\* the window, then the last run to start.  Among equals the database decides.
FutureBaselines(s) ==
    LET from == IF session[s].task.isolated THEN {session[s].pinned.key}
                ELSE {k \in DOMAIN runs : runs[k].cutoff <= session[s].asOf}
        start(k) == IF session[s].task.isolated THEN session[s].pinned.row.started
                    ELSE runs[k].started
        all == UNION {{[run |-> k, slice |-> b] :
                         b \in {c \in BaselinesSeen(s, k) :
                                  c.place \in {Target(s), Shanghai}}} : k \in from}
        AtLeast(x, y) ==
            LET lx == x.slice.place # Shanghai  ly == y.slice.place # Shanghai
                dx == Distance(x.slice.window)  dy == Distance(y.slice.window)
            IN \/ lx /\ ~ly
               \/ lx = ly /\ dx < dy
               \/ lx = ly /\ dx = dy /\ start(x.run) >= start(y.run)
    IN {x \in all : \A y \in all : AtLeast(x, y)}

\* The rows of a layer that the transaction sees.
SeenRows(s, layer) == rows[Layers[layer]] \cup session[s].mine[Layers[layer]]

\* The inputs of each layer that its fingerprint covers.  P4: the listing and
\* its candidates, and the baseline; P5: the valuation and a baseline of its
\* own; P5.5: the assessment, whose valuation must be stored.
ValuationInputs(s) ==
    {[listing |-> Target(s), latest |-> o, candidates |-> Visible(s),
      baseline |-> IF k = None \/ ResolvedBaseline(s, k) = None THEN None
                   ELSE [run |-> k, slice |-> ResolvedBaseline(s, k)],
      asOf |-> session[s].asOf] :
        o \in {p \in Observed(s) : ~Unavailable(s)},
        k \in IF LatestRuns(s) = {} THEN {None} ELSE LatestRuns(s)}

FutureInputs(s) ==
    {[listing |-> Target(s), valuation |-> session[s].row, baseline |-> b,
      asOf |-> session[s].asOf] :
        b \in IF FutureBaselines(s) = {} THEN {None} ELSE FutureBaselines(s)}

ExactChain(s) ==
    {f \in SeenRows(s, 2) : f = session[s].row /\ f.valuation \in SeenRows(s, 1)}

DecisionInputs(s) == {[listing |-> Target(s), future |-> f] : f \in ExactChain(s)}

\* What the layer at work rests on.
Inputs(s) ==
    CASE session[s].layer = 1 -> ValuationInputs(s)
      [] session[s].layer = 2 -> FutureInputs(s)
      [] OTHER -> DecisionInputs(s)

\* Is there evidence to value the listing with: other listings, or a baseline?
Sufficient(draft) ==
    \/ \E o \in draft.candidates : o.listing # draft.listing
    \/ draft.baseline # None

-----------------------------------------------------------------------------
(* The steps of a session.                                                 *)

\* A request, a batch over listings or a validation run starts.
Start(s, task, asOf) ==
    /\ session[s].pc = "idle"
    /\ asOf <= today
    /\ Starts
    /\ Goes(s, [pc |-> IF task.isolated THEN "pinning" ELSE "reading", task |-> task,
                todo |-> task.todo, asOf |-> asOf, layer |-> 1])
    /\ UNCHANGED <<today, snapshots, imported, runs, lockedDates, worker, rows>>

\* The rows of a transaction that is over, and its locks.
Released == [draft |-> None, row |-> None, held |-> {}, mine |-> NoRows,
             pinned |-> NoPin, imports |-> {}, since |-> 0]

\* After a listing: the next one, or the end of the task.
NextListing(s, listings) ==
    Goes(s, IF listings = <<>> THEN IdleSession
            ELSE Over([pc |-> "reading", todo |-> listings, layer |-> 1], Released))

\* An exception: a batch that commits each listing goes on to the next one.
RollsBack(s) ==
    NextListing(s, IF session[s].task.each THEN Tail(session[s].todo) ELSE <<>>)

\* The baselines that an isolated evaluation rests on: of the day after its
\* cutoff, from the observations of its context alone.
ContextKey(s) ==
    [date |-> session[s].asOf + 1,
     inputs |-> {o \in snapshots : /\ o.at <= session[s].asOf
                                   /\ o.listing \notin Targets(session[s].task)}]

\* What an isolated evaluation has not committed: the observations it imported,
\* and the run it materialized.
ToImport == snapshots \ DOMAIN imported

HasRun(s, key) == session[s].pinned.origin = "own" /\ session[s].pinned.key = key

\* Two transactions insert the same observation or the same run: the second
\* waits at the unique index, and is refused when the first commits.
Collides(s, key) ==
    \E t \in Sessions \ {s} : ToImport \cap session[t].imports # {} \/ HasRun(t, key)

\* They are materialized in its own transaction, under the lock of the date,
\* after an import of its own; an equal published run is replayed.  Without the
\* lock it is refused.
Pin(s) ==
    LET key == ContextKey(s)
    IN /\ session[s].pc = "pinning"
       /\ IF key.date \in lockedDates \/ Collides(s, key) THEN RollsBack(s)
          ELSE Goes(s, [pc |-> "reading", imports |-> ToImport, since |-> today,
                        pinned |-> [key |-> key,
                                    origin |-> IF Published(key) THEN "published" ELSE "own",
                                    row |-> PublishedRow(RunningRow(today, session[s].asOf),
                                                         key, today)]])
       /\ UNCHANGED <<baselineVars, rows>>

\* The layer reads its inputs; an input that is missing ends the listing.
Read(s) ==
    /\ session[s].pc = "reading"
    /\ IF Inputs(s) = {} THEN RollsBack(s)
       ELSE \E draft \in Inputs(s) : Goes(s, [pc |-> "locking", draft |-> draft])
    /\ UNCHANGED <<baselineVars, rows>>

\* Mutant: nobody waits for the advisory lock.
NobodyWaits(s, t) == FALSE

\* The lock the layer takes, and who has it.
Lock(s) == <<session[s].layer, Target(s)>>

WaitsFor(s, t) ==
    /\ s # t
    /\ session[s].pc = "locking"
    /\ Lock(s) \in session[t].held

\* A row of these inputs and this configuration is there already.
Cached(s, draft) == draft \in SeenRows(s, session[s].layer)

\* Under the lock the row of these inputs is found or inserted.
Store(s) ==
    LET layer == session[s].layer
        draft == session[s].draft
        found == Cached(s, draft)
        more == ~session[s].task.each /\ Len(session[s].todo) > 1
        stored == [held |-> session[s].held \cup {Lock(s)}, row |-> draft, draft |-> None,
                   mine |-> IF found THEN session[s].mine
                            ELSE [session[s].mine EXCEPT ![Layers[layer]] = @ \cup {draft}]]
    IN /\ session[s].pc = "locking"
       /\ \A t \in Sessions : ~WaitsFor(s, t)
       /\ CASE layer = 1 /\ ~found /\ ~Sufficient(draft) -> RollsBack(s)
            [] OTHER ->
                 Goes(s, Over(stored,
                      CASE layer < Depth(s) -> [pc |-> "reading", layer |-> layer + 1]
                        [] layer >= Depth(s) /\ more ->
                             [pc |-> "reading", layer |-> 1, todo |-> Tail(session[s].todo)]
                        [] OTHER -> [pc |-> "committing"]))
       /\ UNCHANGED <<baselineVars, rows>>

\* An isolated evaluation deletes the run it was pinned to, with its baselines:
\* its own, or the published one, which others may be replaying too.
Unpin(s) ==
    LET key == session[s].pinned.key
        deletes == session[s].pinned.origin # "gone"
        Loses(t) == deletes /\ session[t].pinned.origin = "published" /\ session[t].pinned.key = key
    IN /\ runs' = IF deletes THEN Restrict(runs, DOMAIN runs \ {key}) ELSE runs
       /\ session' = [t \in Sessions |->
             IF t = s THEN IdleSession
             ELSE IF Loses(t) THEN [session[t] EXCEPT !.pinned.origin = "gone"]
             ELSE session[t]]

\* The rows become visible and the locks are free.
Commit(s) ==
    /\ session[s].pc = "committing"
    /\ rows' = [n \in LayerNames |-> rows[n] \cup session[s].mine[n]]
    /\ imported' = WithImports(session[s].imports, session[s].since)
    /\ IF session[s].task.isolated THEN Unpin(s)
       ELSE /\ NextListing(s, IF session[s].task.each THEN Tail(session[s].todo) ELSE <<>>)
            /\ UNCHANGED runs
    /\ UNCHANGED <<today, snapshots, lockedDates, worker, spent>>

\* PostgreSQL ends one of two transactions that wait for each other.
BreakDeadlock(s) ==
    /\ \E t \in Sessions : WaitsFor(s, t) /\ WaitsFor(t, s)
    /\ RollsBack(s)
    /\ UNCHANGED <<baselineVars, rows>>

\* The process dies, or another error ends the task.
Lose(s) ==
    /\ session[s].pc # "idle"
    /\ Goes(s, IdleSession)
    /\ Faulty
    /\ UNCHANGED <<today, snapshots, imported, runs, lockedDates, worker, rows>>

SessionNext ==
    \E s \in Sessions :
       \/ \E task \in Tasks, asOf \in Days : Start(s, task, asOf)
       \/ Pin(s)
       \/ Read(s)
       \/ Store(s)
       \/ Commit(s)
       \/ BreakDeadlock(s)
       \/ Lose(s)

\* A worker waits for the rows that a transaction inserted and did not commit.
WorkerWaits ==
    \E w \in Workers, s \in Sessions :
       \/ /\ worker[w].pc = "importing"
          /\ worker'[w].pc = "reading"
          /\ worker[w].imports \cap session[s].imports # {}
       \/ /\ worker[w].pc = "reading"
          /\ worker'[w].pc = "building"
          /\ HasRun(s, worker'[w].key)

Next ==
    \/ SessionNext
    \/ /\ EnvironmentNext \/ (MaterializeNext /\ ~WorkerWaits)
       /\ UNCHANGED <<rows, session>>

Spec == Init /\ [][Next]_vars

-----------------------------------------------------------------------------
(* What is checked.                                                        *)

\* The rows of the three tables, as the inputs they were computed from.
Observations == [listing : Listings, at : Days]
RunKeys == [date : Days, inputs : SUBSET Observations]
Anchors ==
    [run : [date : 0 .. MaxDay + 1, inputs : SUBSET Observations],
     slice : [window : Windows, place : Listings \cup {Shanghai}]] \cup {None}

ValuationRows ==
    [listing : Listings, latest : Observations, candidates : SUBSET Observations,
     baseline : Anchors, asOf : Days]
FutureRows == [listing : Listings, valuation : ValuationRows, baseline : Anchors, asOf : Days]
DecisionRows == [listing : Listings, future : FutureRows]

\* Types.
TypeOK ==
    /\ today \in Days /\ snapshots \subseteq Observations
    /\ DOMAIN imported \subseteq snapshots
    /\ \A k \in DOMAIN runs :
          /\ k \in RunKeys /\ k.inputs \subseteq DOMAIN imported
          /\ runs[k] \in RunRows
    /\ lockedDates = {worker[w].date : w \in {v \in Workers : worker[v].pc # "idle"}}
    /\ \A s \in Sessions : session[s].pc \in {"idle", "pinning", "reading", "locking", "committing"}
    /\ rows["valuation"] \subseteq ValuationRows
    /\ rows["future"] \subseteq FutureRows
    /\ rows["decision"] \subseteq DecisionRows

\* A run that is published has every baseline of its inputs, and a run that is
\* not has none, whatever worker died or failed on it before.
BaselinesComplete ==
    \A k \in DOMAIN runs :
       runs[k].baselines =
          IF runs[k].status = "succeeded" THEN BaselinesOf(k.date, k.inputs) ELSE {}

\* A published run is never touched again, except by an isolated evaluation
\* that replayed it and deletes it as if it were its own.
PublishedForGood ==
    [][\A k \in DOMAIN runs :
         runs[k].status = "succeeded" =>
            \/ k \in DOMAIN runs' /\ runs'[k] = runs[k]
            \/ \E s \in Sessions : /\ session[s].pinned.origin = "published"
                                   /\ session[s].pinned.key = k]_vars

\* The same inputs are never evaluated into two rows: no transaction holds a
\* new row that another one holds or has committed.
EvaluatedOnce ==
    \A s \in Sessions, n \in LayerNames :
       /\ session[s].mine[n] \cap rows[n] = {}
       /\ \A t \in Sessions \ {s} : session[s].mine[n] \cap session[t].mine[n] = {}

\* Observed by a day, or in the database by then.
UpTo(os, day) == \A o \in os : o.at <= day

InHand(os, day, imports) ==
    \A o \in os : o.at <= day \/ (o \in DOMAIN imports /\ imports[o] <= day)

\* An assessment of a day rests on no information that came after it: its own
\* observations, of the listing and of the comparables, are of that day or
\* before, and those behind the baselines of P4 and P5 are too or were in the
\* database by then.  The second case is real: a feed may state a time still to
\* come, and the cutoff of a run is held against the import, not that time.
NoLookAhead ==
    LET Rests(b, asOf) == b # None => InHand(b.run.inputs, asOf, imported)
    IN /\ \A v \in rows["valuation"] :
             UpTo(v.candidates \cup {v.latest}, v.asOf) /\ Rests(v.baseline, v.asOf)
       /\ \A f \in rows["future"] : Rests(f.baseline, f.asOf)

=============================================================================
