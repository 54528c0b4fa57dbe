------------------------- MODULE AssessmentsProofs -------------------------
(***************************************************************************)
(* Proofs about Assessments for any listings, workers, sessions, tasks,    *)
(* windows and bounds.                                                     *)
(***************************************************************************)
EXTENDS AssessmentsInvariant, WellFoundedInduction, TLAPS

-----------------------------------------------------------------------------
(* Slices and layers. *)

\* The layers by number and by name.
LEMMA LayersAre ==
    /\ LayerNames = {"valuation", "future", "decision"}
    /\ Layers[1] = "valuation" /\ Layers[2] = "future" /\ Layers[3] = "decision"
  BY DEF LayerNames, Layers

\* The columns of a session.
LEMMA FieldsAre ==
    Fields = {"pc", "task", "todo", "asOf", "layer", "draft", "row", "held", "mine",
              "pinned", "imports", "since"}
  BY DEF Fields, IdleSession

\* Some slice of a set has the shortest window.
LEMMA ShortestWindow ==
    ASSUME NEW near \in SUBSET Slices, near # {}
    PROVE  \E b \in near : \A c \in near : b.window <= c.window
  <1> DEFINE lengths == {b.window : b \in near}
  <1>1. lengths \subseteq Nat /\ lengths # {}
    BY BaselinesAssumption DEF Slices
  <1>2. \E m \in lengths : \A n \in lengths : ~(<<n, m>> \in OpToRel(<, Nat))
    BY <1>1, NatLessThanWellFounded, WFMin
  <1>3. PICK m \in lengths : \A n \in lengths : ~(<<n, m>> \in OpToRel(<, Nat))
    BY <1>2
  <1>4. ASSUME NEW n \in lengths, n < m PROVE FALSE
    <2>1. <<n, m>> \in Nat \X Nat
      BY <1>1
    <2>2. <<n, m>>[1] < <<n, m>>[2]
      BY <1>4
    <2>3. <<n, m>> \in OpToRel(<, Nat)
      BY <2>1, <2>2, Zenon DEF OpToRel
    <2> QED
      BY <1>3, <2>3
  <1>5. \A n \in lengths : m <= n
    <2> HIDE DEF lengths
    <2> QED
      BY <1>1, <1>4
  <1> QED
    BY <1>5

\* The baselines of a date are slices, and P4 takes one of those it sees.
LEMMA SlicesOfDate ==
    \A date, inputs : BaselinesOf(date, inputs) \subseteq Slices
  BY DEF BaselinesOf, Slices

\* A resolved baseline is one of the slices of the run it was read from.
LEMMA ResolvedIsSlice ==
    ASSUME NEW s, NEW k, BaselinesSeen(s, k) \subseteq Slices, ResolvedBaseline(s, k) # None
    PROVE  ResolvedBaseline(s, k) \in Slices
  <1> DEFINE near == {b \in BaselinesSeen(s, k) : b.place \in {Target(s), Shanghai}}
             first == {b \in near : \A c \in near : b.window <= c.window}
             local == {b \in first : b.place # Shanghai}
  <1>1. near # {}
    BY DEF ResolvedBaseline
  <1>2. \E b \in first : TRUE
    BY <1>1, ShortestWindow
  <1>3. \E b \in first : local = {} \/ b \in local
    BY <1>2
  <1>4. ResolvedBaseline(s, k) = CHOOSE b \in first : local = {} \/ b \in local
    BY <1>1 DEF ResolvedBaseline
  <1>5. ResolvedBaseline(s, k) \in first
    BY <1>3, <1>4
  <1> QED
    BY <1>5

-----------------------------------------------------------------------------
(* What was in hand stays in hand. *)

\* Imports are added and never changed.
ImportsStay ==
    /\ DOMAIN imported \subseteq DOMAIN imported'
    /\ \A o \in DOMAIN imported : imported'[o] = imported[o]

\* So a baseline that was early is early still,
LEMMA EarlyStays ==
    ASSUME ImportsStay, NEW anchor, NEW asOf, Early(anchor, asOf, imported)
    PROVE  Early(anchor, asOf, imported')
  BY DEF ImportsStay, Early, InHand

\* and what a layer may store, it may store still.
LEMMA ResultsStay ==
    ASSUME ImportsStay, NEW row, NEW layer, IsResult(row, layer, imported)
    PROVE  IsResult(row, layer, imported')
  BY EarlyStays DEF IsResult, IsValuation, IsFuture

\* The rows that are stored look no further ahead than before.
LEMMA LookAheadStays ==
    ASSUME ImportsStay, NoLookAhead, UNCHANGED rows
    PROVE  NoLookAhead'
  <1>1. \A v \in rows["valuation"] : Early(v.baseline, v.asOf, imported)
    BY DEF NoLookAhead, Early
  <1>2. \A f \in rows["future"] : Early(f.baseline, f.asOf, imported)
    BY DEF NoLookAhead, Early
  <1>3. \A v \in rows["valuation"] : Early(v.baseline, v.asOf, imported')
    BY <1>1, EarlyStays
  <1>4. \A f \in rows["future"] : Early(f.baseline, f.asOf, imported')
    BY <1>2, EarlyStays
  <1> QED
    BY <1>3, <1>4 DEF NoLookAhead, Early

-----------------------------------------------------------------------------
(* The workers. *)

\* What a step of the workers or of the feeds must keep for the sessions to be
\* as they were.
LEMMA SessionsUndisturbed ==
    ASSUME AssessmentsInductive, UNCHANGED <<rows, session>>,
           snapshots \subseteq snapshots', ImportsStay,
           \A s \in Sessions : session[s].imports \cap DOMAIN imported' = {},
           \A s \in Sessions :
               /\ session[s].pinned.origin = "own" =>
                     /\ ~Published(session[s].pinned.key)'
                     /\ \A w \in Workers :
                           worker'[w].pc = "building" => worker'[w].key # session[s].pinned.key
               /\ session[s].pinned.origin = "published" => Published(session[s].pinned.key)'
    PROVE  Evaluations' /\ EvaluatedOnce' /\ NoLookAhead'
  <1>1. ASSUME NEW s \in Sessions
        PROVE  Desk(s)' /\ HandedOn(s)' /\ UnderLock(s)' /\ Pinned(s)'
    <2>1. Desk(s) /\ HandedOn(s) /\ UnderLock(s) /\ Pinned(s)
      BY DEF AssessmentsInductive, Evaluations
    <2>2. Desk(s)' /\ Pinned(s)'
      BY <2>1 DEF Desk, Pinned, Isolated
    <2>3. HandedOn(s)'
      BY <2>1, ResultsStay DEF HandedOn, Target
    <2>4. UnderLock(s)'
      BY <2>1, ResultsStay DEF UnderLock
    <2> QED
      BY <2>2, <2>3, <2>4
  <1>2. \A s, t \in Sessions : Apart(s, t) => Apart(s, t)'
    BY DEF Apart, HasRun
  <1>3. Evaluations' /\ EvaluatedOnce'
    BY <1>1, <1>2 DEF AssessmentsInductive, Evaluations, EvaluatedOnce
  <1>4. NoLookAhead'
    BY LookAheadStays DEF AssessmentsInductive
  <1> QED
    BY <1>3, <1>4

\* A job that ends gives back the lock of its date and no other.
LEMMA LocksAfterEnd ==
    ASSUME AssessmentsInductive, NEW w \in Workers, worker[w].pc # "idle", Ends(w)
    PROVE  /\ lockedDates' = {worker'[v].date : v \in {u \in Workers : worker'[u].pc # "idle"}}
           /\ worker' = [worker EXCEPT ![w] = IdleWorker]
           /\ worker' \in [Workers -> Jobs]
           /\ \A v \in Workers : worker'[v].pc # "idle" => v # w /\ worker'[v] = worker[v]
  <1>1. worker' = [worker EXCEPT ![w] = IdleWorker] /\ IdleWorker.pc = "idle"
    BY DEF Ends, IdleWorker
  <1>2. 0 \in Days
    BY BaselinesAssumption DEF Days
  <1> QED
    BY <1>1, <1>2 DEF AssessmentsInductive, TypeOK, Workshop, Ends, IdleWorker, Jobs

\* A day passes.
LEMMA DayPasses ==
    ASSUME AssessmentsInductive, NextDay, UNCHANGED <<rows, session>>
    PROVE  AssessmentsInductive'
  <1>1. today \in Nat /\ today' = today + 1 /\ today' \in Days
    BY BaselinesAssumption DEF AssessmentsInductive, TypeOK, NextDay, Days
  <1>2. UNCHANGED <<snapshots, imported, runs, lockedDates, worker, spent>>
    BY DEF NextDay
  <1>3. TypeOK' /\ BaselinesComplete' /\ Workshop'
    BY <1>1, <1>2 DEF AssessmentsInductive, TypeOK, BaselinesComplete, Workshop
  <1>4. Causality'
    BY <1>2 DEF AssessmentsInductive, Causality
  <1>5. Evaluations' /\ EvaluatedOnce' /\ NoLookAhead'
    BY <1>2, SessionsUndisturbed DEF AssessmentsInductive, Evaluations, Pinned, Published, ImportsStay
  <1> QED
    BY <1>3, <1>4, <1>5 DEF AssessmentsInductive

\* A feed leaves a snapshot.
LEMMA SnapshotArrives ==
    ASSUME AssessmentsInductive, NEW l \in Listings, NEW day \in Days, Arrives(l, day),
           UNCHANGED <<rows, session>>
    PROVE  AssessmentsInductive'
  <1>1. /\ snapshots' = snapshots \cup {[listing |-> l, at |-> day]}
        /\ UNCHANGED <<today, imported, runs, lockedDates, worker, spent>>
    BY DEF Arrives
  <1>2. TypeOK' /\ BaselinesComplete' /\ Workshop'
    BY <1>1 DEF AssessmentsInductive, TypeOK, BaselinesComplete, Workshop, Observations
  <1>3. Causality'
    BY <1>1 DEF AssessmentsInductive, Causality
  <1>4. Evaluations' /\ EvaluatedOnce' /\ NoLookAhead'
    BY <1>1, SessionsUndisturbed DEF AssessmentsInductive, Evaluations, Pinned, Published, ImportsStay
  <1> QED
    BY <1>2, <1>3, <1>4 DEF AssessmentsInductive

\* A worker takes the lock of a date that nobody has.
LEMMA WorkerBegins ==
    ASSUME AssessmentsInductive, NEW w \in Workers, NEW date \in Days, Begin(w, date),
           UNCHANGED <<rows, session>>
    PROVE  AssessmentsInductive'
  <1> DEFINE row == [IdleWorker EXCEPT !.pc = "importing", !.date = date, !.since = today,
                                       !.imports = snapshots \ DOMAIN imported]
  <1>1. /\ worker' = [worker EXCEPT ![w] = row] /\ date \notin lockedDates
        /\ lockedDates' = lockedDates \cup {date}
        /\ UNCHANGED <<today, snapshots, imported, runs>>
    BY DEF Begin
  <1>2. row \in Jobs
    <2>1. IdleWorker \in Jobs
      BY BaselinesAssumption DEF IdleWorker, Jobs, Days
    <2>2. today \in Days /\ snapshots \ DOMAIN imported \subseteq Observations
      BY DEF AssessmentsInductive, TypeOK
    <2> QED
      BY <2>1, <2>2 DEF Jobs
  <1>3. row.pc = "importing" /\ row.date = date /\ row.since = today
            /\ row.imports = snapshots \ DOMAIN imported
    BY DEF IdleWorker
  <1>4. worker'[w] = row /\ \A v \in Workers \ {w} : worker'[v] = worker[v]
    BY <1>1 DEF AssessmentsInductive, Workshop
  <1> HIDE DEF row
  <1>5. TypeOK'
    <2>1. lockedDates' = {worker'[v].date : v \in {u \in Workers : worker'[u].pc # "idle"}}
      BY <1>1, <1>3, <1>4 DEF AssessmentsInductive, TypeOK, Begin
    <2> QED
      BY <1>1, <2>1 DEF AssessmentsInductive, TypeOK
  <1>6. BaselinesComplete' /\ Causality'
    BY <1>1 DEF AssessmentsInductive, BaselinesComplete, Causality
  <1>7. Workshop'
    <2>1. worker' \in [Workers -> Jobs]
      BY <1>1, <1>2 DEF AssessmentsInductive, Workshop
    <2>2. \A v \in Workers : worker[v].pc # "idle" => worker[v].date # date
      BY <1>1 DEF AssessmentsInductive, TypeOK
    <2>3. \A u, v \in Workers :
             worker'[u].pc # "idle" /\ worker'[v].pc # "idle" /\ worker'[u].date = worker'[v].date
                 => u = v
      BY <1>3, <1>4, <2>2 DEF AssessmentsInductive, Workshop
    <2> QED
      BY <1>1, <1>3, <1>4, <2>1, <2>3 DEF AssessmentsInductive, Workshop
  <1>8. Evaluations' /\ EvaluatedOnce' /\ NoLookAhead'
    BY <1>1, <1>3, <1>4, SessionsUndisturbed
       DEF AssessmentsInductive, Evaluations, Pinned, Published, ImportsStay
  <1> QED
    BY <1>5, <1>6, <1>7, <1>8 DEF AssessmentsInductive

\* A job that ends without a change of the runs.
LEMMA WorkerEnds ==
    ASSUME AssessmentsInductive, NEW w \in Workers, worker[w].pc # "idle", Ends(w),
           UNCHANGED <<today, snapshots, imported, runs, rows, session>>
    PROVE  AssessmentsInductive'
  <1>1. TypeOK' /\ BaselinesComplete' /\ Causality'
    BY LocksAfterEnd DEF AssessmentsInductive, TypeOK, BaselinesComplete, Causality
  <1>2. Workshop'
    <2>1. worker' \in [Workers -> Jobs]
      BY LocksAfterEnd
    <2>2. \A v \in Workers : worker'[v] = worker[v] \/ worker'[v] = IdleWorker
      BY LocksAfterEnd DEF AssessmentsInductive, Workshop
    <2>3. IdleWorker.pc = "idle" /\ IdleWorker.imports = {}
      BY DEF IdleWorker
    <2> QED
      BY <2>1, <2>2, <2>3, LocksAfterEnd DEF AssessmentsInductive, Workshop
  <1>3. Evaluations' /\ EvaluatedOnce' /\ NoLookAhead'
    BY LocksAfterEnd, SessionsUndisturbed
       DEF AssessmentsInductive, Evaluations, Pinned, Published, ImportsStay
  <1> QED
    BY <1>1, <1>2, <1>3 DEF AssessmentsInductive

\* The observations of a job are imported, or it ends.
LEMMA WorkerImports ==
    ASSUME AssessmentsInductive, NEW w \in Workers, Import(w), ~WorkerWaits,
           UNCHANGED <<rows, session>>
    PROVE  AssessmentsInductive'
  <1>1. worker[w].pc = "importing" /\ UNCHANGED <<today, snapshots, runs>>
    BY DEF Import
  <1>2. CASE worker[w].imports \cap DOMAIN imported # {}
    BY <1>1, <1>2, WorkerEnds DEF Import
  <1>3. CASE worker[w].imports \cap DOMAIN imported = {}
    <2>1. /\ imported' = WithImports(worker[w].imports, worker[w].since)
          /\ worker' = [worker EXCEPT ![w].pc = "reading", ![w].cutoff = today]
          /\ lockedDates' = lockedDates
      BY <1>3 DEF Import
    <2>2. /\ DOMAIN imported' = DOMAIN imported \cup worker[w].imports
          /\ \A o \in DOMAIN imported' :
                imported'[o] = IF o \in DOMAIN imported THEN imported[o] ELSE worker[w].since
      BY <2>1 DEF WithImports, Over
    <2>3. /\ worker' \in [Workers -> Jobs]
          /\ \A v \in Workers : /\ worker'[v].date = worker[v].date
                                /\ worker'[v].imports = worker[v].imports
                                /\ worker'[v].since = worker[v].since
                                /\ worker'[v].key = worker[v].key
                                /\ worker'[v].pc = IF v = w THEN "reading" ELSE worker[v].pc
      <3>1. worker \in [Workers -> Jobs] /\ today \in Days
        BY DEF AssessmentsInductive, TypeOK, Workshop
      <3> QED
        BY <2>1, <3>1 DEF Jobs
    <2>4. TypeOK'
      <3>1. lockedDates' = {worker'[v].date : v \in {u \in Workers : worker'[u].pc # "idle"}}
        BY <1>1, <2>1, <2>3 DEF AssessmentsInductive, TypeOK
      <3>2. worker[w].imports \subseteq snapshots
        BY DEF AssessmentsInductive, Workshop
      <3> QED
        BY <1>1, <2>1, <2>2, <3>1, <3>2 DEF AssessmentsInductive, TypeOK
    <2>5. BaselinesComplete'
      BY <1>1 DEF AssessmentsInductive, BaselinesComplete
    <2>6. Causality'
      <3>1. worker[w].since \in Days
        BY DEF AssessmentsInductive, Workshop, Jobs
      <3> QED
        BY <1>1, <2>2, <3>1 DEF AssessmentsInductive, TypeOK, Causality
    <2>7. Workshop'
      BY <1>1, <2>3 DEF AssessmentsInductive, Workshop
    <2>8. \A s \in Sessions : session[s].imports \cap DOMAIN imported' = {}
      <3>1. \A s \in Sessions : worker[w].imports \cap session[s].imports = {}
        BY <1>1, <2>3 DEF WorkerWaits
      <3> QED
        BY <2>2, <3>1 DEF AssessmentsInductive, Evaluations, Pinned
    <2>9. ImportsStay
      BY <2>2 DEF ImportsStay
    <2>10. Evaluations' /\ EvaluatedOnce' /\ NoLookAhead'
      BY <1>1, <2>3, <2>8, <2>9, SessionsUndisturbed
         DEF AssessmentsInductive, Evaluations, Pinned, Published
    <2> QED
      BY <2>4, <2>5, <2>6, <2>7, <2>10 DEF AssessmentsInductive
  <1> QED
    BY <1>2, <1>3

\* A run row written over the others.
LEMMA RunWritten ==
    ASSUME NEW key, NEW row, runs' = WithRun(key, row)
    PROVE  /\ DOMAIN runs' = DOMAIN runs \cup {key} /\ runs'[key] = row
           /\ \A k \in DOMAIN runs : k # key => runs'[k] = runs[k]
  BY DEF WithRun, Over, One

\* The inputs of a date are read, and its run is opened unless it is published.
LEMMA WorkerOpens ==
    ASSUME AssessmentsInductive, NEW w \in Workers, Open(w), ~WorkerWaits,
           UNCHANGED <<rows, session>>
    PROVE  AssessmentsInductive'
  <1> DEFINE key == RunKey(worker[w].date, worker[w].cutoff)
             row == RunningRow(today, worker[w].cutoff)
  <1>1. worker[w].pc = "reading" /\ UNCHANGED <<today, snapshots, imported>>
    BY DEF Open
  <1>2. CASE Published(key)
    BY <1>1, <1>2, WorkerEnds DEF Open
  <1>3. CASE ~Published(key)
    <2>1. /\ runs' = WithRun(key, row)
          /\ worker' = [worker EXCEPT ![w].pc = "building", ![w].key = key]
          /\ lockedDates' = lockedDates
      BY <1>3 DEF Open
    <2>2. worker \in [Workers -> Jobs] /\ today \in Days
      BY DEF AssessmentsInductive, TypeOK, Workshop
    <2>3. key \in RunKeys /\ key.inputs \subseteq DOMAIN imported /\ key.date = worker[w].date
      BY <2>2 DEF RunKey, RunKeys, AssessmentsInductive, TypeOK, Jobs
    <2>4. \A o \in key.inputs : imported[o] <= worker[w].cutoff
      BY DEF RunKey
    <2>5. row \in RunRows /\ row.status = "running" /\ row.cutoff = worker[w].cutoff
              /\ row.baselines = {}
      BY <2>2 DEF RunningRow, RunRows, Jobs
    <2> HIDE DEF key, row
    <2>6. /\ DOMAIN runs' = DOMAIN runs \cup {key} /\ runs'[key] = row
          /\ \A k \in DOMAIN runs : k # key => runs'[k] = runs[k]
      BY <2>1, RunWritten
    <2>7. /\ worker' \in [Workers -> Jobs]
          /\ \A v \in Workers : /\ worker'[v].date = worker[v].date
                                /\ worker'[v].imports = worker[v].imports
                                /\ worker'[v].since = worker[v].since
                                /\ v # w => worker'[v] = worker[v]
          /\ worker'[w].pc = "building" /\ worker'[w].key = key
      BY <2>1, <2>2, <2>3 DEF Jobs
    <2>8. \A v \in Workers : worker[v].pc = "building" => worker[v].key # key
      BY <1>1, <2>3 DEF AssessmentsInductive, Workshop
    <2>9. TypeOK'
      <3>1. lockedDates' = {worker'[v].date : v \in {u \in Workers : worker'[u].pc # "idle"}}
        BY <1>1, <2>1, <2>7 DEF AssessmentsInductive, TypeOK
      <3> QED
        BY <1>1, <2>1, <2>3, <2>5, <2>6, <3>1 DEF AssessmentsInductive, TypeOK
    <2>10. BaselinesComplete'
      BY <2>5, <2>6 DEF AssessmentsInductive, BaselinesComplete
    <2>11. Causality'
      BY <1>1, <2>4, <2>5, <2>6 DEF AssessmentsInductive, Causality
    <2>12. Workshop'
      BY <1>1, <2>3, <2>5, <2>6, <2>7, <2>8 DEF AssessmentsInductive, Workshop
    <2>13. \A s \in Sessions : ~HasRun(s, key)
      BY <1>1, <2>7 DEF WorkerWaits
    <2>14. Evaluations' /\ EvaluatedOnce' /\ NoLookAhead'
      BY <1>1, <1>3, <2>5, <2>6, <2>7, <2>13, SessionsUndisturbed
         DEF AssessmentsInductive, Evaluations, Pinned, Published, HasRun, ImportsStay
    <2> QED
      BY <2>9, <2>10, <2>11, <2>12, <2>14 DEF AssessmentsInductive
  <1> QED
    BY <1>2, <1>3

\* The run a worker builds is closed: published with the baselines of its
\* inputs, or failed with none.
LEMMA WorkerCloses ==
    ASSUME AssessmentsInductive, NEW w \in Workers, NEW row \in RunRows,
           worker[w].pc = "building", Ends(w),
           UNCHANGED <<today, snapshots, imported, rows, session>>,
           DOMAIN runs' = DOMAIN runs, runs'[worker[w].key] = row,
           \A k \in DOMAIN runs : k # worker[w].key => runs'[k] = runs[k],
           row.cutoff = runs[worker[w].key].cutoff,
           row.baselines = IF row.status = "succeeded"
                           THEN BaselinesOf(worker[w].key.date, worker[w].key.inputs) ELSE {}
    PROVE  AssessmentsInductive'
  <1>1. worker[w].key \in DOMAIN runs
    BY DEF AssessmentsInductive, Workshop
  <1>2. TypeOK' /\ BaselinesComplete' /\ Causality'
    BY <1>1, LocksAfterEnd DEF AssessmentsInductive, TypeOK, BaselinesComplete, Causality
  <1>3. Workshop'
    <2>1. \A v \in Workers : v # w /\ worker[v].pc = "building" => worker[v].key # worker[w].key
      BY DEF AssessmentsInductive, Workshop
    <2>2. \A v \in Workers : worker'[v] = worker[v] \/ worker'[v] = IdleWorker
      BY LocksAfterEnd DEF AssessmentsInductive, Workshop
    <2>3. IdleWorker.pc = "idle" /\ IdleWorker.imports = {}
      BY DEF IdleWorker
    <2> QED
      BY <2>1, <2>2, <2>3, LocksAfterEnd DEF AssessmentsInductive, Workshop
  <1>4. Evaluations' /\ EvaluatedOnce' /\ NoLookAhead'
    BY <1>1, LocksAfterEnd, SessionsUndisturbed
       DEF AssessmentsInductive, Workshop, Evaluations, Pinned, Published, ImportsStay
  <1> QED
    BY <1>2, <1>3, <1>4 DEF AssessmentsInductive

\* The publication by a worker: its run's rows are those of its own window.
LEMMA WorkerPublishes ==
    ASSUME AssessmentsInductive, NEW w \in Workers, Publish(w), UNCHANGED <<rows, session>>
    PROVE  AssessmentsInductive'
  <1> DEFINE key == worker[w].key
             row == PublishedRow(runs[key], key, today)
  <1>1. /\ worker[w].pc = "building" /\ Ends(w) /\ runs' = WithRun(key, row)
        /\ UNCHANGED <<today, snapshots, imported>>
    BY DEF Publish
  <1>2. key \in DOMAIN runs /\ runs[key] \in RunRows /\ today \in Days
    BY <1>1 DEF AssessmentsInductive, TypeOK, Workshop
  <1>3. /\ row \in RunRows /\ row.status = "succeeded" /\ row.cutoff = runs[key].cutoff
        /\ row.baselines = BaselinesOf(key.date, key.inputs)
    BY <1>2, SlicesOfDate DEF PublishedRow, RunRows, Slices
  <1>4. /\ DOMAIN runs' = DOMAIN runs /\ runs'[key] = row
        /\ \A k \in DOMAIN runs : k # key => runs'[k] = runs[k]
    BY <1>1, <1>2, RunWritten
  <1> HIDE DEF row
  <1> QED
    BY <1>1, <1>3, <1>4, WorkerCloses

\* A failed materialization leaves a run without baselines.
LEMMA WorkerFails ==
    ASSUME AssessmentsInductive, NEW w \in Workers, Fail(w), UNCHANGED <<rows, session>>
    PROVE  AssessmentsInductive'
  <1> DEFINE key == worker[w].key
             row == [runs[key] EXCEPT !.status = "failed", !.finished = today]
  <1>1. /\ worker[w].pc = "building" /\ Ends(w) /\ UNCHANGED <<today, snapshots, imported>>
        /\ runs' = [runs EXCEPT ![key].status = "failed", ![key].finished = today]
    BY DEF Fail
  <1>2. /\ key \in DOMAIN runs /\ runs[key] \in RunRows /\ today \in Days
        /\ runs[key].baselines = {}
    BY <1>1 DEF AssessmentsInductive, TypeOK, Workshop, BaselinesComplete
  <1>3. /\ row \in RunRows /\ row.status = "failed" /\ row.cutoff = runs[key].cutoff
        /\ row.baselines = {}
    BY <1>2 DEF RunRows
  <1>4. /\ DOMAIN runs' = DOMAIN runs /\ runs'[key] = row
        /\ \A k \in DOMAIN runs : k # key => runs'[k] = runs[k]
    BY <1>1, <1>2
  <1> QED
    BY <1>1, <1>3, <1>4, WorkerCloses

\* Every step of the workers and of the feeds keeps the invariant.
LEMMA MarketSteps ==
    ASSUME AssessmentsInductive, UNCHANGED <<rows, session>>,
           EnvironmentNext \/ (MaterializeNext /\ ~WorkerWaits)
    PROVE  AssessmentsInductive'
  <1>1. ASSUME NEW w \in Workers, Die(w) PROVE AssessmentsInductive'
    BY <1>1, WorkerEnds DEF Die
  <1> QED
    BY <1>1, DayPasses, SnapshotArrives, WorkerBegins, WorkerImports, WorkerOpens,
       WorkerPublishes, WorkerFails DEF EnvironmentNext, MaterializeNext

-----------------------------------------------------------------------------
(* The sessions. *)

\* What a step writes of its session, and nothing of another.
LEMMA GoesTo ==
    ASSUME AssessmentsInductive, NEW s \in Sessions, NEW changes, Goes(s, changes),
           DOMAIN changes \subseteq Fields
    PROVE  /\ session' = [t \in Sessions |-> session'[t]]
           /\ \A t \in Sessions : t # s => session'[t] = session[t]
           /\ DOMAIN session'[s] = Fields
           /\ \A f \in Fields :
                 session'[s][f] = IF f \in DOMAIN changes THEN changes[f] ELSE session[s][f]
  <1>1. session' = [session EXCEPT ![s] = Over(changes, session[s])]
    BY DEF Goes
  <1>2. session = [t \in Sessions |-> session[t]] /\ DOMAIN session[s] = Fields
    BY DEF AssessmentsInductive, Evaluations, Desk
  <1>3. /\ session'[s] = Over(changes, session[s])
        /\ \A t \in Sessions : t # s => session'[t] = session[t]
    BY <1>1, <1>2
  <1>4. session' = [t \in Sessions |-> session'[t]]
    BY <1>1, <1>2
  <1>5. /\ DOMAIN Over(changes, session[s]) = Fields
        /\ \A f \in Fields : Over(changes, session[s])[f] =
               IF f \in DOMAIN changes THEN changes[f] ELSE session[s][f]
    BY <1>2 DEF Over
  <1> QED
    BY <1>3, <1>4, <1>5

\* When a session moves, the others are as they were.
LEMMA OthersStay ==
    ASSUME AssessmentsInductive, NEW s \in Sessions,
           session' = [t \in Sessions |-> session'[t]],
           \A t \in Sessions : t # s => session'[t] = session[t],
           UNCHANGED <<snapshots, runs, worker>>, ImportsStay, DOMAIN imported' = DOMAIN imported,
           Desk(s)', HandedOn(s)', UnderLock(s)', Pinned(s)',
           \A t \in Sessions : t # s => session'[s].held \cap session[t].held = {},
           \/ session'[s].pinned = NoPin /\ session'[s].imports = {}
           \/ session'[s].pinned = session[s].pinned /\ session'[s].imports = session[s].imports
           \/ ~Collides(s, session'[s].pinned.key) /\ session'[s].imports = ToImport
    PROVE  Evaluations'
  <1>1. ASSUME NEW t \in Sessions, t # s
        PROVE  Desk(t)' /\ HandedOn(t)' /\ UnderLock(t)' /\ Pinned(t)'
    <2>1. session'[t] = session[t] /\ Desk(t) /\ HandedOn(t) /\ UnderLock(t) /\ Pinned(t)
      BY <1>1 DEF AssessmentsInductive, Evaluations
    <2>2. Desk(t)' /\ Pinned(t)'
      BY <2>1 DEF Desk, Pinned, Isolated, Published
    <2>3. HandedOn(t)'
      BY <2>1, ResultsStay DEF HandedOn, Target
    <2>4. UnderLock(t)'
      BY <2>1, ResultsStay DEF UnderLock
    <2> QED
      BY <2>2, <2>3, <2>4
  <1>2. ASSUME NEW t \in Sessions, t # s PROVE Apart(s, t)' /\ Apart(t, s)'
    <2>1. /\ session'[t] = session[t] /\ Apart(s, t) /\ Apart(t, s)
          /\ session'[s].held \cap session[t].held = {}
      BY <1>2 DEF AssessmentsInductive, Evaluations
    <2>2. /\ session'[s].imports \cap session[t].imports = {}
          /\ ~(/\ session'[s].pinned.origin = "own" /\ session[t].pinned.origin = "own"
               /\ session'[s].pinned.key = session[t].pinned.key)
      <3>1. CASE session'[s].pinned = NoPin /\ session'[s].imports = {}
        BY <3>1 DEF NoPin
      <3>2. CASE session'[s].pinned = session[s].pinned /\ session'[s].imports = session[s].imports
        BY <2>1, <3>2 DEF Apart, HasRun
      <3>3. CASE ~Collides(s, session'[s].pinned.key) /\ session'[s].imports = ToImport
        BY <1>2, <3>3 DEF Collides, HasRun
      <3> QED
        BY <3>1, <3>2, <3>3
    <2> QED
      BY <2>1, <2>2 DEF Apart, HasRun
  <1>3. ASSUME NEW t \in Sessions \ {s}, NEW u \in Sessions \ {s, t} PROVE Apart(t, u)'
    <2>1. Apart(t, u) /\ session'[t] = session[t] /\ session'[u] = session[u]
      BY <1>3 DEF AssessmentsInductive, Evaluations
    <2> QED
      BY <2>1 DEF Apart, HasRun
  <1> QED
    BY <1>1, <1>2, <1>3 DEF Evaluations

\* A step that touches nothing but its session keeps what is said of the rest.
LEMMA MarketUndisturbed ==
    ASSUME AssessmentsInductive, Evaluations', EvaluatedOnce', NEW s \in Sessions,
           \A t \in Sessions : t # s => session'[t] = session[t],
           session'[s].pc \in {"idle", "pinning", "reading", "locking", "committing"},
           UNCHANGED <<today, snapshots, imported, runs, lockedDates, worker, rows>>
    PROVE  AssessmentsInductive'
  <1>1. TypeOK'
    BY DEF AssessmentsInductive, TypeOK
  <1>2. BaselinesComplete' /\ Causality' /\ Workshop' /\ NoLookAhead'
    BY DEF AssessmentsInductive, BaselinesComplete, Causality, Workshop, NoLookAhead
  <1> QED
    BY <1>1, <1>2 DEF AssessmentsInductive

\* What is left of a task that goes on is a list of listings, and a task that
\* goes on is not isolated.
LEMMA RestOfTask ==
    ASSUME AssessmentsInductive, NEW s \in Sessions, session[s].pc # "idle"
    PROVE  LET rest == IF session[s].task.each THEN Tail(session[s].todo) ELSE <<>>
           IN  rest \in Seq(Listings) /\ (rest # <<>> => ~session[s].task.isolated)
  <1>1. session[s].task \in Tasks /\ session[s].todo \in Seq(Listings) /\ session[s].todo # <<>>
    BY DEF AssessmentsInductive, Evaluations, Desk
  <1>2. session[s].task.isolated => ~session[s].task.each
    BY <1>1, AssessmentsAssumption DEF IsTask
  <1> QED
    BY <1>1, <1>2

\* A session that leaves its transaction owns nothing.
LEMMA Emptied ==
    ASSUME AssessmentsInductive, NEW s \in Sessions, session[s].pc # "idle",
           NEW rest \in Seq(Listings), rest # <<>> => ~session[s].task.isolated,
           NextListing(s, rest)
    PROVE  /\ session' = [t \in Sessions |-> session'[t]]
           /\ \A t \in Sessions : t # s => session'[t] = session[t]
           /\ session'[s].pc \in {"idle", "reading"}
           /\ session'[s].held = {} /\ session'[s].mine = NoRows /\ session'[s].pinned = NoPin
           /\ session'[s].imports = {}
           /\ Desk(s)' /\ HandedOn(s)' /\ UnderLock(s)' /\ Pinned(s)'
  <1> DEFINE changes == IF rest = <<>> THEN IdleSession
                        ELSE Over([pc |-> "reading", todo |-> rest, layer |-> 1], Released)
  <1>1. Goes(s, changes)
    BY DEF NextListing
  <1>2. /\ DOMAIN changes \subseteq Fields
        /\ {"pc", "layer", "draft", "row", "held", "mine", "pinned", "imports", "since", "todo"}
              \subseteq DOMAIN changes
        /\ changes["held"] = {} /\ changes["mine"] = NoRows /\ changes["pinned"] = NoPin
        /\ changes["imports"] = {} /\ changes["since"] = 0
        /\ rest = <<>> => changes["pc"] = "idle" /\ "asOf" \in DOMAIN changes /\ changes["asOf"] = 0
        /\ rest # <<>> => /\ changes["pc"] = "reading" /\ changes["todo"] = rest
                          /\ changes["layer"] = 1 /\ "asOf" \notin DOMAIN changes
                          /\ "task" \notin DOMAIN changes
    BY FieldsAre DEF IdleSession, Over, Released
  <1> HIDE DEF changes
  <1>3. /\ session' = [t \in Sessions |-> session'[t]]
        /\ \A t \in Sessions : t # s => session'[t] = session[t]
        /\ DOMAIN session'[s] = Fields
        /\ \A f \in Fields :
              session'[s][f] = IF f \in DOMAIN changes THEN changes[f] ELSE session[s][f]
    BY <1>1, <1>2, GoesTo
  <1>4. /\ session'[s].held = {} /\ session'[s].mine = NoRows /\ session'[s].pinned = NoPin
        /\ session'[s].imports = {} /\ session'[s].since = 0
        /\ rest = <<>> => session'[s].pc = "idle" /\ session'[s].asOf = 0
        /\ rest # <<>> =>
              /\ session'[s].pc = "reading" /\ session'[s].todo = rest /\ session'[s].layer = 1
              /\ session'[s].asOf = session[s].asOf /\ session'[s].task = session[s].task
    BY <1>2, <1>3, FieldsAre
  <1>5. NoRows \in [LayerNames -> SUBSET (ValuationRows \cup FutureRows \cup DecisionRows)]
    BY DEF NoRows
  <1>6. session[s].asOf \in Days /\ session[s].task \in Tasks
    BY DEF AssessmentsInductive, Evaluations, Desk
  <1>7. Desk(s)'
    BY <1>3, <1>4, <1>5, <1>6, BaselinesAssumption DEF Desk, Days
  <1>8. HandedOn(s)' /\ Pinned(s)'
    BY <1>4 DEF HandedOn, Pinned, Isolated, NoPin
  <1>9. UnderLock(s)'
    BY <1>4, LayersAre DEF UnderLock, NoRows
  <1> QED
    BY <1>3, <1>4, <1>7, <1>8, <1>9

\* A transaction that ends without a commit.
LEMMA SessionAbandons ==
    ASSUME AssessmentsInductive, NEW s \in Sessions, session[s].pc # "idle",
           NEW rest \in Seq(Listings), rest # <<>> => ~session[s].task.isolated,
           NextListing(s, rest),
           UNCHANGED <<today, snapshots, imported, runs, lockedDates, worker, rows>>
    PROVE  AssessmentsInductive'
  <1>1. Evaluations'
    BY Emptied, OthersStay DEF ImportsStay
  <1>2. EvaluatedOnce'
    BY Emptied DEF AssessmentsInductive, EvaluatedOnce, NoRows
  <1> QED
    BY <1>1, <1>2, Emptied, MarketUndisturbed

\* A session that gives its transaction up leaves the tables alone.
LEMMA SessionRollsBack ==
    ASSUME AssessmentsInductive, NEW s \in Sessions, session[s].pc # "idle", RollsBack(s),
           UNCHANGED <<today, snapshots, imported, runs, lockedDates, worker, rows>>
    PROVE  AssessmentsInductive'
  BY RestOfTask, SessionAbandons DEF RollsBack

\* A session that dies leaves the tables alone.
LEMMA SessionLost ==
    ASSUME AssessmentsInductive, NEW s \in Sessions, Lose(s)
    PROVE  AssessmentsInductive'
  <1>1. NextListing(s, <<>>) /\ <<>> \in Seq(Listings)
    BY DEF Lose, NextListing
  <1> QED
    BY <1>1, SessionAbandons DEF Lose

\* A task starts.
LEMMA SessionStarts ==
    ASSUME AssessmentsInductive, NEW s \in Sessions, NEW task \in Tasks, NEW asOf \in Days,
           Start(s, task, asOf)
    PROVE  AssessmentsInductive'
  <1> DEFINE pc == IF task.isolated THEN "pinning" ELSE "reading"
             changes == [pc |-> pc, task |-> task, todo |-> task.todo, asOf |-> asOf, layer |-> 1]
  <1>1. /\ session[s].pc = "idle" /\ Goes(s, changes)
        /\ UNCHANGED <<today, snapshots, imported, runs, lockedDates, worker, rows>>
    BY DEF Start
  <1>2. /\ session' = [t \in Sessions |-> session'[t]]
        /\ \A t \in Sessions : t # s => session'[t] = session[t]
        /\ DOMAIN session'[s] = Fields
        /\ \A f \in Fields :
              session'[s][f] = IF f \in DOMAIN changes THEN changes[f] ELSE session[s][f]
    BY <1>1, GoesTo, FieldsAre
  <1>3. /\ session'[s].pc = pc /\ session'[s].task = task /\ session'[s].todo = task.todo
        /\ session'[s].asOf = asOf /\ session'[s].layer = 1
        /\ session'[s].held = session[s].held /\ session'[s].mine = session[s].mine
        /\ session'[s].pinned = session[s].pinned /\ session'[s].imports = session[s].imports
        /\ session'[s].since = session[s].since
    BY <1>2, FieldsAre
  <1>4. /\ task.todo \in Seq(Listings) /\ task.todo # <<>> /\ task.isolated \in BOOLEAN
        /\ pc \in {"pinning", "reading"} /\ (pc = "pinning" <=> task.isolated)
    BY AssessmentsAssumption DEF IsTask
  <1> HIDE DEF pc, changes
  <1>5. Desk(s) /\ UnderLock(s) /\ Pinned(s)
    BY DEF AssessmentsInductive, Evaluations
  <1>6. session[s].held = {} /\ session[s].mine = NoRows /\ session[s].pinned = NoPin
            /\ session[s].imports = {}
    BY <1>1, <1>5 DEF Desk, Pinned, Isolated
  <1>7. Desk(s)'
    BY <1>1, <1>2, <1>3, <1>4, <1>5, <1>6 DEF Desk
  <1>8. HandedOn(s)' /\ UnderLock(s)' /\ Pinned(s)'
    BY <1>3, <1>4, <1>5, <1>6, LayersAre DEF HandedOn, UnderLock, Pinned, Isolated, NoRows, NoPin
  <1>9. Evaluations'
    BY <1>1, <1>2, <1>3, <1>6, <1>7, <1>8, OthersStay DEF ImportsStay
  <1>10. EvaluatedOnce'
    BY <1>1, <1>2, <1>3 DEF AssessmentsInductive, EvaluatedOnce
  <1> QED
    BY <1>1, <1>2, <1>3, <1>4, <1>9, <1>10, MarketUndisturbed

\* The baselines of an isolated evaluation are materialized in its transaction,
\* while nobody works at their date or has what it needs.
LEMMA SessionPins ==
    ASSUME AssessmentsInductive, NEW s \in Sessions, Pin(s)
    PROVE  AssessmentsInductive'
  <1> DEFINE key == ContextKey(s)
             row == PublishedRow(RunningRow(today, session[s].asOf), key, today)
             pin == [key |-> key, origin |-> IF Published(key) THEN "published" ELSE "own",
                     row |-> row]
             changes == [pc |-> "reading", imports |-> ToImport, since |-> today, pinned |-> pin]
  <1>1. /\ session[s].pc = "pinning"
        /\ UNCHANGED <<today, snapshots, imported, runs, lockedDates, worker, rows>>
    BY DEF Pin, baselineVars
  <1>2. CASE key.date \in lockedDates \/ Collides(s, key)
    BY <1>1, <1>2, SessionRollsBack DEF Pin
  <1>3. CASE ~(key.date \in lockedDates \/ Collides(s, key))
    <2>1. Goes(s, changes)
      BY <1>3 DEF Pin
    <2>2. /\ session' = [t \in Sessions |-> session'[t]]
          /\ \A t \in Sessions : t # s => session'[t] = session[t]
          /\ DOMAIN session'[s] = Fields
          /\ \A f \in Fields :
                session'[s][f] = IF f \in DOMAIN changes THEN changes[f] ELSE session[s][f]
      BY <2>1, GoesTo, FieldsAre
    <2>3. /\ session'[s].pc = "reading" /\ session'[s].imports = ToImport
          /\ session'[s].since = today /\ session'[s].pinned = pin
          /\ session'[s].task = session[s].task /\ session'[s].todo = session[s].todo
          /\ session'[s].asOf = session[s].asOf /\ session'[s].layer = session[s].layer
          /\ session'[s].held = session[s].held /\ session'[s].mine = session[s].mine
      BY <2>2, FieldsAre
    <2>4. Desk(s) /\ UnderLock(s) /\ today \in Days /\ snapshots \subseteq Observations
      BY DEF AssessmentsInductive, Evaluations, TypeOK
    <2>5. /\ pin.key \in [date : 0 .. MaxDay + 1, inputs : SUBSET Observations]
          /\ UpTo(pin.key.inputs, session[s].asOf)
          /\ pin.row.baselines \subseteq Slices
      <3>1. session[s].asOf + 1 \in 0 .. MaxDay + 1
        BY <2>4, BaselinesAssumption DEF Desk, Days
      <3>2. /\ key = [date |-> session[s].asOf + 1, inputs |-> key.inputs]
            /\ key.inputs \subseteq snapshots /\ UpTo(key.inputs, session[s].asOf)
        BY DEF ContextKey, UpTo
      <3>3. row.baselines = BaselinesOf(key.date, key.inputs)
        BY DEF PublishedRow, RunningRow
      <3> QED
        BY <2>4, <3>1, <3>2, <3>3, SlicesOfDate
    <2>6. \A w \in Workers : worker[w].pc = "building" => worker[w].key # key
      BY <1>3 DEF AssessmentsInductive, TypeOK, Workshop
    <2>7. /\ pin.key = key /\ pin.origin \in {"own", "published", "gone"}
          /\ pin.origin = "own" => ~Published(key)
          /\ pin.origin = "published" => Published(key)
      OBVIOUS
    <2> HIDE DEF key, row, pin, changes
    <2>8. session[s].held = {} /\ session[s].mine = NoRows /\ session[s].layer \in 1 .. 3
      BY <1>1, <2>4 DEF Desk
    <2>9. ToImport \subseteq snapshots /\ ToImport \cap DOMAIN imported = {}
      BY DEF ToImport
    <2>10. Desk(s)'
      BY <1>1, <2>2, <2>3, <2>4, <2>8, <2>9 DEF Desk
    <2>11. HandedOn(s)'
      <3>1. session[s].layer = 1
        BY <1>1, <2>4 DEF Desk
      <3> QED
        BY <2>3, <3>1 DEF HandedOn
    <2>12. UnderLock(s)'
      BY <1>1, <2>3, <2>4 DEF UnderLock
    <2>13. Pinned(s)'
      <3>1. session[s].task.isolated
        BY <1>1, <2>4 DEF Desk
      <3> QED
        BY <1>1, <2>3, <2>5, <2>6, <2>7, <2>9, <3>1 DEF Pinned, Isolated, Published
    <2>14. Evaluations'
      <3>1. ~Collides(s, session'[s].pinned.key)
        BY <1>3, <2>3, <2>7
      <3> QED
        BY <1>1, <2>2, <2>3, <2>8, <2>10, <2>11, <2>12, <2>13, <3>1, OthersStay DEF ImportsStay
    <2>15. EvaluatedOnce'
      BY <1>1, <2>2, <2>3 DEF AssessmentsInductive, EvaluatedOnce
    <2> QED
      BY <1>1, <2>2, <2>3, <2>14, <2>15, MarketUndisturbed
  <1> QED
    BY <1>2, <1>3

-----------------------------------------------------------------------------
(* What a layer reads. *)

\* What is a result, layer by layer.
LEMMA ResultsAre ==
    \A row, imports : /\ IsResult(row, 1, imports) <=> IsValuation(row, imports)
                      /\ IsResult(row, 2, imports) <=> IsFuture(row, imports)
                      /\ IsResult(row, 3, imports) <=> row \in DecisionRows
  BY DEF IsResult

\* The observations of an evaluation are of its day or older.
LEMMA SeenIsEarly ==
    ASSUME AssessmentsInductive, NEW s \in Sessions, session[s].pc # "idle"
    PROVE  /\ Seen(s) \subseteq Observations /\ UpTo(Seen(s), session[s].asOf)
           /\ Target(s) \in Listings /\ session[s].asOf \in Days
  <1>1. session[s].imports \subseteq Observations /\ DOMAIN imported \subseteq Observations
    BY DEF AssessmentsInductive, TypeOK, Evaluations, Desk
  <1>2. /\ session[s].todo \in Seq(Listings) /\ session[s].todo # <<>>
        /\ session[s].asOf \in Days
    BY DEF AssessmentsInductive, Evaluations, Desk
  <1> QED
    BY <1>1, <1>2 DEF Seen, UpTo, Target

\* Those behind a run cut off by then, or pinned, were in hand.
LEMMA RunIsEarly ==
    ASSUME AssessmentsInductive, NEW s \in Sessions, session[s].pc = "reading", NEW k,
           IF session[s].task.isolated THEN k = session[s].pinned.key
           ELSE k \in DOMAIN runs /\ runs[k].cutoff <= session[s].asOf
    PROVE  /\ k \in [date : 0 .. MaxDay + 1, inputs : SUBSET Observations]
           /\ InHand(k.inputs, session[s].asOf, imported)
           /\ BaselinesSeen(s, k) \subseteq Slices
  <1>1. Pinned(s) /\ session[s].asOf \in Nat
    BY DEF AssessmentsInductive, Evaluations, Desk, Days
  <1>2. \A j \in DOMAIN runs : j \in RunKeys /\ runs[j] \in RunRows
    BY DEF AssessmentsInductive, TypeOK
  <1>3. \A j \in DOMAIN runs : runs[j].baselines \subseteq Slices
    BY <1>2 DEF RunRows, Slices
  <1>4. CASE session[s].task.isolated
    <2>1. Isolated(s)
      BY <1>4 DEF Isolated
    <2> QED
      BY <1>1, <1>3, <1>4, <2>1 DEF Pinned, BaselinesSeen, UpTo, InHand
  <1>5. CASE ~session[s].task.isolated
    <2>1. k \in RunKeys /\ runs[k].cutoff \in Nat /\ runs[k].cutoff <= session[s].asOf
      BY <1>2, <1>5 DEF RunRows, Days
    <2>2. k \in [date : 0 .. MaxDay + 1, inputs : SUBSET Observations]
      BY <2>1, BaselinesAssumption DEF RunKeys, Days
    <2>3. \A o \in k.inputs :
             o \in DOMAIN imported /\ imported[o] \in Nat /\ imported[o] <= runs[k].cutoff
      BY <1>5 DEF AssessmentsInductive, TypeOK, Causality, Days
    <2>4. InHand(k.inputs, session[s].asOf, imported)
      BY <1>1, <2>1, <2>3 DEF InHand
    <2>5. session[s].pinned.origin = "none"
      BY <1>1, <1>5 DEF Pinned, Isolated, NoPin
    <2> QED
      BY <1>3, <1>5, <2>2, <2>4, <2>5 DEF BaselinesSeen
  <1> QED
    BY <1>4, <1>5

\* What a session reads for a valuation is within its own date.
LEMMA ValuationReads ==
    ASSUME AssessmentsInductive, NEW s \in Sessions, session[s].pc = "reading",
           NEW draft \in ValuationInputs(s)
    PROVE  IsValuation(draft, imported) /\ draft.listing = Target(s)
  <1>1. PICK o \in Observed(s), k \in IF LatestRuns(s) = {} THEN {None} ELSE LatestRuns(s) :
            draft = [listing |-> Target(s), latest |-> o, candidates |-> Visible(s),
                     baseline |-> IF k = None \/ ResolvedBaseline(s, k) = None THEN None
                                  ELSE [run |-> k, slice |-> ResolvedBaseline(s, k)],
                     asOf |-> session[s].asOf]
    BY DEF ValuationInputs
  <1>2. o \in Seen(s) /\ Visible(s) \subseteq Seen(s)
    BY DEF Observed, LatestPerEntity, Visible
  <1>3. draft.baseline \in Anchors /\ Early(draft.baseline, session[s].asOf, imported)
    <2>1. CASE draft.baseline = None
      BY <2>1 DEF Anchors, Early
    <2>2. CASE draft.baseline # None
      <3>1. /\ k # None /\ ResolvedBaseline(s, k) # None /\ k \in LatestRuns(s)
            /\ draft.baseline = [run |-> k, slice |-> ResolvedBaseline(s, k)]
        BY <1>1, <2>2
      <3>2. IF session[s].task.isolated THEN k = session[s].pinned.key
            ELSE k \in DOMAIN runs /\ runs[k].cutoff <= session[s].asOf
        BY <3>1 DEF LatestRuns, RunsAsOf
      <3>3. ResolvedBaseline(s, k) \in Slices
        BY <3>1, <3>2, RunIsEarly, ResolvedIsSlice
      <3> QED
        BY <3>1, <3>2, <3>3, RunIsEarly DEF Anchors, Early, Slices
    <2> QED
      BY <2>1, <2>2
  <1>4. Target(s) \in Listings /\ Seen(s) \subseteq Observations /\ session[s].asOf \in Days
            /\ UpTo(Seen(s), session[s].asOf)
    BY SeenIsEarly
  <1> QED
    BY <1>1, <1>2, <1>3, <1>4 DEF IsValuation, ValuationRows, UpTo

\* What a session reads for a future assessment is within its own date.
LEMMA FutureReads ==
    ASSUME AssessmentsInductive, NEW s \in Sessions, session[s].pc = "reading",
           session[s].layer = 2, NEW draft \in FutureInputs(s)
    PROVE  IsFuture(draft, imported) /\ draft.listing = Target(s)
  <1>1. PICK b \in IF FutureBaselines(s) = {} THEN {None} ELSE FutureBaselines(s) :
            draft = [listing |-> Target(s), valuation |-> session[s].row, baseline |-> b,
                     asOf |-> session[s].asOf]
    BY DEF FutureInputs
  <1>2. session[s].row \in ValuationRows
    <2>1. IsResult(session[s].row, 1, imported)
      BY DEF AssessmentsInductive, Evaluations, HandedOn
    <2> QED
      BY <2>1, ResultsAre DEF IsValuation
  <1>3. b \in Anchors /\ Early(b, session[s].asOf, imported)
    <2>1. CASE b = None
      BY <2>1 DEF Anchors, Early
    <2>2. CASE b # None
      <3>1. PICK k \in IF session[s].task.isolated THEN {session[s].pinned.key}
                       ELSE {j \in DOMAIN runs : runs[j].cutoff <= session[s].asOf} :
                \E c \in BaselinesSeen(s, k) : b = [run |-> k, slice |-> c]
        BY <1>1, <2>2 DEF FutureBaselines
      <3>2. IF session[s].task.isolated THEN k = session[s].pinned.key
            ELSE k \in DOMAIN runs /\ runs[k].cutoff <= session[s].asOf
        OBVIOUS
      <3> QED
        BY <3>1, <3>2, RunIsEarly DEF Anchors, Early, Slices
    <2> QED
      BY <2>1, <2>2
  <1> QED
    BY <1>1, <1>2, <1>3, SeenIsEarly DEF IsFuture, FutureRows

\* What a layer reads is what it may store.
LEMMA InputsAreResults ==
    ASSUME AssessmentsInductive, NEW s \in Sessions, session[s].pc = "reading",
           NEW draft \in Inputs(s)
    PROVE  IsResult(draft, session[s].layer, imported) /\ draft.listing = Target(s)
  <1>1. session[s].layer \in 1 .. 3
    BY DEF AssessmentsInductive, Evaluations, Desk
  <1>2. CASE session[s].layer = 1
    BY <1>2, ValuationReads, ResultsAre DEF Inputs
  <1>3. CASE session[s].layer = 2
    BY <1>3, FutureReads, ResultsAre DEF Inputs
  <1>4. CASE session[s].layer = 3
    <2>1. PICK f \in ExactChain(s) : draft = [listing |-> Target(s), future |-> f]
      BY <1>4 DEF Inputs, DecisionInputs
    <2>2. f = session[s].row /\ IsFuture(session[s].row, imported)
      BY <1>4, ResultsAre DEF ExactChain, AssessmentsInductive, Evaluations, HandedOn
    <2> QED
      BY <1>4, <2>1, <2>2, SeenIsEarly, ResultsAre DEF IsFuture, DecisionRows
  <1> QED
    BY <1>1, <1>2, <1>3, <1>4

\* A layer reads its inputs, or the listing ends for want of one.
LEMMA SessionReads ==
    ASSUME AssessmentsInductive, NEW s \in Sessions, Read(s)
    PROVE  AssessmentsInductive'
  <1>1. /\ session[s].pc = "reading"
        /\ UNCHANGED <<today, snapshots, imported, runs, lockedDates, worker, rows>>
    BY DEF Read, baselineVars
  <1>2. CASE Inputs(s) = {}
    BY <1>1, <1>2, SessionRollsBack DEF Read
  <1>3. CASE Inputs(s) # {}
    <2>1. PICK draft \in Inputs(s) : Goes(s, [pc |-> "locking", draft |-> draft])
      BY <1>3 DEF Read
    <2> DEFINE changes == [pc |-> "locking", draft |-> draft]
    <2>2. /\ session' = [t \in Sessions |-> session'[t]]
          /\ \A t \in Sessions : t # s => session'[t] = session[t]
          /\ DOMAIN session'[s] = Fields
          /\ \A f \in Fields :
                session'[s][f] = IF f \in DOMAIN changes THEN changes[f] ELSE session[s][f]
      BY <2>1, GoesTo, FieldsAre
    <2>3. /\ session'[s].pc = "locking" /\ session'[s].draft = draft
          /\ session'[s].task = session[s].task /\ session'[s].todo = session[s].todo
          /\ session'[s].asOf = session[s].asOf /\ session'[s].layer = session[s].layer
          /\ session'[s].held = session[s].held /\ session'[s].mine = session[s].mine
          /\ session'[s].pinned = session[s].pinned /\ session'[s].imports = session[s].imports
          /\ session'[s].since = session[s].since
      BY <2>2, FieldsAre
    <2>4. Desk(s) /\ UnderLock(s) /\ Pinned(s)
      BY DEF AssessmentsInductive, Evaluations
    <2>5. Desk(s)' /\ UnderLock(s)'
      BY <1>1, <2>2, <2>3, <2>4 DEF Desk, UnderLock
    <2>6. HandedOn(s)'
      BY <1>1, <2>3, InputsAreResults DEF HandedOn, Target
    <2>7. Pinned(s)'
      BY <1>1, <2>3, <2>4 DEF Pinned, Isolated, Published
    <2>8. Evaluations'
      BY <1>1, <2>2, <2>3, <2>5, <2>6, <2>7, OthersStay
         DEF ImportsStay, AssessmentsInductive, Evaluations, Apart
    <2>9. EvaluatedOnce'
      BY <1>1, <2>2, <2>3 DEF AssessmentsInductive, EvaluatedOnce
    <2> QED
      BY <1>1, <2>2, <2>3, <2>8, <2>9, MarketUndisturbed
  <1> QED
    BY <1>2, <1>3

\* Under the lock of its layer and listing, the row of these inputs is found or
\* inserted, and nobody else has inserted it.
LEMMA SessionStores ==
    ASSUME AssessmentsInductive, NEW s \in Sessions, Store(s)
    PROVE  AssessmentsInductive'
  <1> DEFINE layer == session[s].layer
             draft == session[s].draft
             mine == session[s].mine
             found == Cached(s, draft)
             more == ~session[s].task.each /\ Len(session[s].todo) > 1
             mineAfter == IF found THEN mine ELSE [mine EXCEPT ![Layers[layer]] = @ \cup {draft}]
             stored == [held |-> session[s].held \cup {Lock(s)}, row |-> draft, draft |-> None,
                        mine |-> mineAfter]
             goesOn == CASE layer < Depth(s) -> [pc |-> "reading", layer |-> layer + 1]
                         [] layer >= Depth(s) /\ more ->
                              [pc |-> "reading", layer |-> 1, todo |-> Tail(session[s].todo)]
                         [] OTHER -> [pc |-> "committing"]
             changes == Over(stored, goesOn)
  <1>1. /\ session[s].pc = "locking" /\ \A t \in Sessions : ~WaitsFor(s, t)
        /\ UNCHANGED <<today, snapshots, imported, runs, lockedDates, worker, rows>>
    BY DEF Store, baselineVars
  <1>2. CASE RollsBack(s)
    BY <1>1, <1>2, SessionRollsBack
  <1>3. CASE ~RollsBack(s)
    <2>1. Goes(s, changes)
      BY <1>3 DEF Store
    <2>2. /\ Desk(s) /\ HandedOn(s) /\ UnderLock(s) /\ Pinned(s)
          /\ layer \in 1 .. 3 /\ session[s].task \in Tasks
          /\ session[s].todo \in Seq(Listings) /\ session[s].todo # <<>>
      BY <1>1 DEF AssessmentsInductive, Evaluations, Desk
    <2>3. /\ Depth(s) \in 1 .. 3
          /\ session[s].task.isolated => ~session[s].task.each
      BY <2>2, AssessmentsAssumption DEF IsTask, Depth
    <2>4. \/ goesOn = [pc |-> "reading", layer |-> layer + 1] /\ layer + 1 \in 2 .. 3
          \/ /\ goesOn = [pc |-> "reading", layer |-> 1, todo |-> Tail(session[s].todo)]
             /\ Tail(session[s].todo) \in Seq(Listings) /\ Tail(session[s].todo) # <<>>
          \/ goesOn = [pc |-> "committing"]
      BY <2>2, <2>3
    <2>5. DOMAIN changes \subseteq Fields
      BY <2>4, FieldsAre DEF Over
    <2>6. /\ changes["held"] = session[s].held \cup {Lock(s)} /\ changes["row"] = draft
          /\ changes["mine"] = mineAfter
          /\ {"held", "row", "mine", "pc"} \subseteq DOMAIN changes
          /\ {"task", "asOf", "pinned", "imports", "since"} \cap DOMAIN changes = {}
      BY <2>4 DEF Over
    <2>7. \/ /\ changes["pc"] = "reading" /\ "layer" \in DOMAIN changes
             /\ changes["layer"] = layer + 1 /\ layer + 1 \in 2 .. 3 /\ "todo" \notin DOMAIN changes
          \/ /\ changes["pc"] = "reading" /\ {"layer", "todo"} \subseteq DOMAIN changes
             /\ changes["layer"] = 1 /\ changes["todo"] = Tail(session[s].todo)
             /\ Tail(session[s].todo) \in Seq(Listings) /\ Tail(session[s].todo) # <<>>
          \/ changes["pc"] = "committing" /\ {"layer", "todo"} \cap DOMAIN changes = {}
      <3>1. DOMAIN stored = {"held", "row", "draft", "mine"}
        OBVIOUS
      <3> HIDE DEF stored, goesOn
      <3>2. /\ DOMAIN changes = {"held", "row", "draft", "mine"} \cup DOMAIN goesOn
            /\ \A f \in {"pc", "layer", "todo"} : f \in DOMAIN goesOn => changes[f] = goesOn[f]
        BY <3>1 DEF Over
      <3> HIDE DEF changes
      <3>3. CASE goesOn = [pc |-> "reading", layer |-> layer + 1] /\ layer + 1 \in 2 .. 3
        <4>1. /\ DOMAIN goesOn = {"pc", "layer"} /\ goesOn["pc"] = "reading"
              /\ goesOn["layer"] = layer + 1
          BY <3>3
        <4> QED
          BY <3>2, <3>3, <4>1
      <3>4. CASE /\ goesOn = [pc |-> "reading", layer |-> 1, todo |-> Tail(session[s].todo)]
                 /\ Tail(session[s].todo) \in Seq(Listings) /\ Tail(session[s].todo) # <<>>
        <4>1. /\ DOMAIN goesOn = {"pc", "layer", "todo"} /\ goesOn["pc"] = "reading"
              /\ goesOn["layer"] = 1 /\ goesOn["todo"] = Tail(session[s].todo)
          BY <3>4
        <4> QED
          BY <3>2, <3>4, <4>1
      <3>5. CASE goesOn = [pc |-> "committing"]
        <4>1. DOMAIN goesOn = {"pc"} /\ goesOn["pc"] = "committing"
          BY <3>5
        <4> QED
          BY <3>2, <4>1
      <3> QED
        BY <2>4, <3>3, <3>4, <3>5
    <2> HIDE DEF goesOn, stored, changes
    <2>8. /\ session' = [t \in Sessions |-> session'[t]]
          /\ \A t \in Sessions : t # s => session'[t] = session[t]
          /\ DOMAIN session'[s] = Fields
          /\ \A f \in Fields :
                session'[s][f] = IF f \in DOMAIN changes THEN changes[f] ELSE session[s][f]
      BY <2>1, <2>5, GoesTo
    <2>9. /\ session'[s].held = session[s].held \cup {Lock(s)} /\ session'[s].row = draft
          /\ session'[s].mine = mineAfter
          /\ session'[s].task = session[s].task /\ session'[s].asOf = session[s].asOf
          /\ session'[s].pinned = session[s].pinned /\ session'[s].imports = session[s].imports
          /\ session'[s].since = session[s].since
      BY <2>6, <2>8, FieldsAre
    <2>10. \/ /\ session'[s].pc = "reading" /\ session'[s].layer = layer + 1
              /\ layer + 1 \in 2 .. 3 /\ session'[s].todo = session[s].todo
           \/ /\ session'[s].pc = "reading" /\ session'[s].layer = 1
              /\ session'[s].todo \in Seq(Listings) /\ session'[s].todo # <<>>
           \/ /\ session'[s].pc = "committing" /\ session'[s].layer = layer
              /\ session'[s].todo = session[s].todo
      BY <2>6, <2>7, <2>8, FieldsAre
    <2>11. /\ IsResult(draft, layer, imported) /\ draft.listing = Target(s)
           /\ Lock(s) = <<layer, draft.listing>>
      BY <1>1, <2>2 DEF HandedOn, Lock
    <2>12. /\ mineAfter \in [LayerNames -> SUBSET (ValuationRows \cup FutureRows \cup DecisionRows)]
           /\ \A l \in 1 .. 3 : \A row \in mineAfter[Layers[l]] :
                 row \in mine[Layers[l]] \/ (~found /\ l = layer /\ row = draft)
      <3>1. draft \in ValuationRows \cup FutureRows \cup DecisionRows
        <4>1. IsValuation(draft, imported) \/ IsFuture(draft, imported) \/ draft \in DecisionRows
          BY <2>2, <2>11, ResultsAre
        <4> QED
          BY <4>1 DEF IsValuation, IsFuture
      <3>2. mine \in [LayerNames -> SUBSET (ValuationRows \cup FutureRows \cup DecisionRows)]
        BY <2>2 DEF Desk
      <3>3. Layers[layer] \in LayerNames /\ \A l \in 1 .. 3 : Layers[l] = Layers[layer] => l = layer
        BY <2>2, LayersAre
      <3> QED
        BY <3>1, <3>2, <3>3
    <2> HIDE DEF mineAfter, found
    <2>13. Desk(s)'
      BY <1>1, <2>2, <2>8, <2>9, <2>10, <2>12 DEF Desk
    <2>14. HandedOn(s)'
      BY <1>1, <2>2, <2>9, <2>10, <2>11 DEF HandedOn
    <2>15. UnderLock(s)'
      BY <1>1, <2>2, <2>9, <2>11, <2>12 DEF UnderLock
    <2>16. Pinned(s)'
      BY <1>1, <2>2, <2>9, <2>10 DEF Pinned, Isolated, Published
    <2>17. \A t \in Sessions : t # s => Lock(s) \notin session[t].held
      BY <1>1 DEF WaitsFor
    <2>18. Evaluations'
      BY <1>1, <2>8, <2>9, <2>13, <2>14, <2>15, <2>16, <2>17, OthersStay
         DEF ImportsStay, AssessmentsInductive, Evaluations, Apart
    <2>19. EvaluatedOnce'
      <3>1. \A n \in LayerNames : mineAfter[n] \cap rows[n] = {}
        BY <2>12, LayersAre DEF AssessmentsInductive, EvaluatedOnce, found, Cached, SeenRows
      <3>2. ASSUME NEW t \in Sessions, t # s, NEW n \in LayerNames
            PROVE  mineAfter[n] \cap session[t].mine[n] = {}
        <4>1. UnderLock(t)
          BY DEF AssessmentsInductive, Evaluations
        <4>2. draft \notin session[t].mine[Layers[layer]]
          BY <2>2, <2>11, <2>17, <3>2, <4>1 DEF UnderLock
        <4>3. PICK l \in 1 .. 3 : n = Layers[l]
          BY LayersAre
        <4> QED
          BY <2>12, <3>2, <4>2, <4>3 DEF AssessmentsInductive, EvaluatedOnce
      <3> QED
        BY <1>1, <2>8, <2>9, <3>1, <3>2 DEF AssessmentsInductive, EvaluatedOnce
    <2> QED
      BY <1>1, <2>8, <2>10, <2>18, <2>19, MarketUndisturbed
  <1> QED
    BY <1>2, <1>3

\* An idle session owns nothing.
LEMMA SessionIdles ==
    ASSUME NEW s \in Sessions, session'[s] = IdleSession
    PROVE  Desk(s)' /\ HandedOn(s)' /\ UnderLock(s)' /\ Pinned(s)'
  <1>1. /\ DOMAIN session'[s] = Fields
        /\ session'[s].pc = "idle" /\ session'[s].asOf = 0 /\ session'[s].since = 0
        /\ session'[s].held = {} /\ session'[s].mine = NoRows /\ session'[s].imports = {}
        /\ session'[s].pinned = NoPin
    BY DEF IdleSession, Fields
  <1>2. /\ NoRows \in [LayerNames -> SUBSET (ValuationRows \cup FutureRows \cup DecisionRows)]
        /\ \A layer \in 1 .. 3 : NoRows[Layers[layer]] = {}
    BY LayersAre DEF NoRows
  <1>3. 0 \in Days
    BY BaselinesAssumption DEF Days
  <1> QED
    BY <1>1, <1>2, <1>3 DEF Desk, HandedOn, UnderLock, Pinned, Isolated, NoPin

\* The end of an isolated evaluation: its run is gone, for itself and for those
\* who replay it, and its observations are there.
LEMMA IsolatedCommits ==
    ASSUME AssessmentsInductive, NEW s \in Sessions, session[s].pc = "committing",
           session[s].task.isolated, Unpin(s),
           imported' = WithImports(session[s].imports, session[s].since),
           UNCHANGED <<snapshots, worker>>
    PROVE  /\ Evaluations'
           /\ session'[s] = IdleSession
           /\ \A t \in Sessions : t # s => /\ session'[t].mine = session[t].mine
                                          /\ session'[t].pc = session[t].pc
           /\ DOMAIN runs' \subseteq DOMAIN runs /\ \A k \in DOMAIN runs' : runs'[k] = runs[k]
           /\ \A w \in Workers : worker[w].pc = "building" /\ worker[w].key \in DOMAIN runs
                  => worker[w].key \in DOMAIN runs'
  <1> DEFINE key == session[s].pinned.key
             deletes == session[s].pinned.origin # "gone"
             Loses(t) == deletes /\ session[t].pinned.origin = "published"
                             /\ session[t].pinned.key = key
  <1>1. /\ runs' = IF deletes THEN Restrict(runs, DOMAIN runs \ {key}) ELSE runs
        /\ session' = [t \in Sessions |->
              IF t = s THEN IdleSession
              ELSE IF Loses(t) THEN [session[t] EXCEPT !.pinned.origin = "gone"]
              ELSE session[t]]
    BY DEF Unpin
  <1>2. Isolated(s) /\ Pinned(s)
    BY DEF AssessmentsInductive, Evaluations, Isolated
  <1>3. /\ DOMAIN runs' = IF deletes THEN DOMAIN runs \ {key} ELSE DOMAIN runs
        /\ \A k \in DOMAIN runs' : runs'[k] = runs[k]
    BY <1>1 DEF Restrict
  <1>4. ASSUME NEW w \in Workers, worker[w].pc = "building", deletes
        PROVE  worker[w].key # key
    <2>1. CASE session[s].pinned.origin = "own"
      BY <1>2, <1>4, <2>1 DEF Pinned
    <2>2. CASE session[s].pinned.origin = "published"
      BY <1>2, <1>4, <2>2 DEF Pinned, Published, AssessmentsInductive, Workshop
    <2> QED
      BY <1>2, <1>4, <2>1, <2>2 DEF Pinned
  <1>5. /\ DOMAIN imported' = DOMAIN imported \cup session[s].imports
        /\ \A o \in DOMAIN imported : imported'[o] = imported[o]
    BY DEF WithImports, Over
  <1>6. ImportsStay
    BY <1>5 DEF ImportsStay
  <1>7. session'[s] = IdleSession /\ session' = [t \in Sessions |-> session'[t]]
    BY <1>1
  <1>8. ASSUME NEW t \in Sessions, t # s
        PROVE  /\ DOMAIN session'[t] = DOMAIN session[t]
               /\ \A f \in DOMAIN session[t] : f # "pinned" => session'[t][f] = session[t][f]
               /\ session'[t].pinned = IF Loses(t) THEN [session[t].pinned EXCEPT !.origin = "gone"]
                                       ELSE session[t].pinned
    <2>1. DOMAIN session[t] = Fields /\ "pinned" \in Fields
      BY FieldsAre DEF AssessmentsInductive, Evaluations, Desk
    <2> QED
      BY <1>1, <1>8, <2>1
  <1> HIDE DEF key, deletes, Loses
  <1>9. ASSUME NEW t \in Sessions, t # s
        PROVE  /\ session'[t].pc = session[t].pc /\ session'[t].task = session[t].task
               /\ session'[t].todo = session[t].todo /\ session'[t].asOf = session[t].asOf
               /\ session'[t].layer = session[t].layer /\ session'[t].draft = session[t].draft
               /\ session'[t].row = session[t].row /\ session'[t].held = session[t].held
               /\ session'[t].mine = session[t].mine /\ session'[t].imports = session[t].imports
               /\ session'[t].since = session[t].since /\ DOMAIN session'[t] = Fields
    <2>1. DOMAIN session[t] = Fields
      BY DEF AssessmentsInductive, Evaluations, Desk
    <2> QED
      BY <1>8, <1>9, <2>1, FieldsAre
  <1>10. ASSUME NEW t \in Sessions, t # s
         PROVE  Desk(t)' /\ HandedOn(t)' /\ UnderLock(t)' /\ Pinned(t)'
    <2>1. Desk(t) /\ HandedOn(t) /\ UnderLock(t) /\ Pinned(t) /\ Apart(t, s)
      BY <1>10 DEF AssessmentsInductive, Evaluations
    <2>2. Desk(t)'
      BY <1>9, <1>10, <2>1 DEF Desk
    <2>3. HandedOn(t)'
      BY <1>6, <1>9, <1>10, <2>1, ResultsStay DEF HandedOn, Target
    <2>4. UnderLock(t)'
      BY <1>6, <1>9, <1>10, <2>1, ResultsStay DEF UnderLock
    <2>5. session'[t].imports \cap DOMAIN imported' = {}
      BY <1>5, <1>9, <1>10, <2>1 DEF Pinned, Apart
    <2>6. CASE Loses(t)
      <3>1. session'[t].pinned = [session[t].pinned EXCEPT !.origin = "gone"]
        BY <1>8, <1>10, <2>6
      <3>2. Isolated(t)
        BY <2>1, <2>6 DEF Pinned, NoPin, Loses
      <3>3. /\ session'[t].pinned.key = session[t].pinned.key
            /\ session'[t].pinned.row = session[t].pinned.row
            /\ session'[t].pinned.origin = "gone"
        BY <2>1, <2>6, <3>1 DEF Loses
      <3>4. Pinned(t)'
        BY <1>9, <1>10, <2>1, <2>5, <3>2, <3>3 DEF Pinned, Isolated
      <3> QED
        BY <2>2, <2>3, <2>4, <3>4
    <2>7. CASE ~Loses(t)
      <3>1. session'[t].pinned = session[t].pinned
        BY <1>8, <1>10, <2>7
      <3>2. session[t].pinned.origin = "published" => ~(deletes /\ session[t].pinned.key = key)
        BY <2>7 DEF Loses
      <3>3. Pinned(t)'
        BY <1>3, <1>9, <1>10, <2>1, <2>5, <3>1, <3>2 DEF Pinned, Isolated, Published
      <3> QED
        BY <2>2, <2>3, <2>4, <3>3
    <2> QED
      BY <2>6, <2>7
  <1>11. ASSUME NEW t \in Sessions \ {s}, NEW u \in Sessions \ {s, t} PROVE Apart(t, u)'
    <2>1. Apart(t, u)
      BY <1>11 DEF AssessmentsInductive, Evaluations
    <2>2. /\ session'[t].pinned.origin = "own" => session'[t].pinned = session[t].pinned
          /\ session'[u].pinned.origin = "own" => session'[u].pinned = session[u].pinned
      <3>1. ASSUME NEW v \in Sessions, v # s, session'[v].pinned.origin = "own"
            PROVE  session'[v].pinned = session[v].pinned
        <4>1. CASE Loses(v)
          <5>1. Pinned(v)
            BY DEF AssessmentsInductive, Evaluations
          <5>2. session'[v].pinned = [session[v].pinned EXCEPT !.origin = "gone"]
            BY <1>8, <3>1, <4>1
          <5> QED
            BY <3>1, <4>1, <5>2 DEF Loses
        <4> QED
          BY <1>8, <3>1, <4>1
      <3> QED
        BY <1>11, <3>1
    <2> QED
      BY <1>9, <1>11, <2>1, <2>2 DEF Apart, HasRun
  <1>12. ASSUME NEW t \in Sessions, t # s PROVE Apart(s, t)' /\ Apart(t, s)'
    <2>1. /\ session'[s].held = {} /\ session'[s].imports = {}
          /\ session'[s].pinned.origin = "none"
      BY <1>7 DEF IdleSession, NoPin
    <2> QED
      BY <2>1 DEF Apart, HasRun
  <1>13. Desk(s)' /\ HandedOn(s)' /\ UnderLock(s)' /\ Pinned(s)'
    BY <1>7, SessionIdles
  <1> QED
    BY <1>3, <1>4, <1>7, <1>9, <1>10, <1>11, <1>12, <1>13 DEF Evaluations

\* A commit shows its new rows, and the observations it imported.
LEMMA SessionCommits ==
    ASSUME AssessmentsInductive, NEW s \in Sessions, Commit(s)
    PROVE  AssessmentsInductive'
  <1> DEFINE rest == IF session[s].task.each THEN Tail(session[s].todo) ELSE <<>>
  <1>1. /\ session[s].pc = "committing"
        /\ rows' = [n \in LayerNames |-> rows[n] \cup session[s].mine[n]]
        /\ imported' = WithImports(session[s].imports, session[s].since)
        /\ IF session[s].task.isolated THEN Unpin(s) ELSE NextListing(s, rest) /\ UNCHANGED runs
        /\ UNCHANGED <<today, snapshots, lockedDates, worker, spent>>
    BY DEF Commit
  <1>2. rest \in Seq(Listings) /\ (rest # <<>> => ~session[s].task.isolated)
    BY <1>1, RestOfTask
  <1> HIDE DEF rest
  <1>3. Desk(s) /\ UnderLock(s) /\ Pinned(s)
    BY DEF AssessmentsInductive, Evaluations
  <1>4. /\ Evaluations'
        /\ session'[s].pc \in {"idle", "reading"} /\ session'[s].mine = NoRows
        /\ \A t \in Sessions : t # s => /\ session'[t].mine = session[t].mine
                                       /\ session'[t].pc = session[t].pc
        /\ DOMAIN runs' \subseteq DOMAIN runs /\ \A k \in DOMAIN runs' : runs'[k] = runs[k]
        /\ \A w \in Workers : worker[w].pc = "building" /\ worker[w].key \in DOMAIN runs
               => worker[w].key \in DOMAIN runs'
    <2>1. CASE session[s].task.isolated
      <3>1. session'[s] = IdleSession => session'[s].pc = "idle" /\ session'[s].mine = NoRows
        BY DEF IdleSession
      <3> QED
        BY <1>1, <2>1, <3>1, IsolatedCommits
    <2>2. CASE ~session[s].task.isolated
      <3>1. session[s].imports = {}
        BY <1>3, <2>2 DEF Pinned, Isolated
      <3>2. ImportsStay /\ DOMAIN imported' = DOMAIN imported
        BY <1>1, <3>1 DEF ImportsStay, WithImports, Over
      <3> QED
        BY <1>1, <1>2, <2>2, <3>2, Emptied, OthersStay
    <2> QED
      BY <2>1, <2>2
  <1>5. /\ DOMAIN imported' = DOMAIN imported \cup session[s].imports
        /\ \A o \in DOMAIN imported' :
              imported'[o] = IF o \in DOMAIN imported THEN imported[o] ELSE session[s].since
    BY <1>1 DEF WithImports, Over
  <1>6. ImportsStay
    BY <1>5 DEF ImportsStay
  <1>7. /\ \A n \in LayerNames : rows'[n] = rows[n] \cup session[s].mine[n]
        /\ \A v \in session[s].mine["valuation"] : IsValuation(v, imported')
        /\ \A f \in session[s].mine["future"] : IsFuture(f, imported')
        /\ \A d \in session[s].mine["decision"] : d \in DecisionRows
    <2>1. \A l \in 1 .. 3 : \A row \in session[s].mine[Layers[l]] : IsResult(row, l, imported')
      BY <1>3, <1>6, ResultsStay DEF UnderLock
    <2>2. /\ \A row \in session[s].mine["valuation"] : IsResult(row, 1, imported')
          /\ \A row \in session[s].mine["future"] : IsResult(row, 2, imported')
          /\ \A row \in session[s].mine["decision"] : IsResult(row, 3, imported')
      BY <2>1, LayersAre
    <2> QED
      BY <1>1, <2>2, ResultsAre
  <1>8. TypeOK'
    <2>1. today' \in Days /\ snapshots' \subseteq Observations /\ DOMAIN imported' \subseteq snapshots'
      BY <1>1, <1>3, <1>5 DEF AssessmentsInductive, TypeOK, Desk
    <2>2. \A k \in DOMAIN runs' :
             k \in RunKeys /\ k.inputs \subseteq DOMAIN imported' /\ runs'[k] \in RunRows
      BY <1>4, <1>5 DEF AssessmentsInductive, TypeOK
    <2>3. lockedDates' = {worker'[w].date : w \in {v \in Workers : worker'[v].pc # "idle"}}
      BY <1>1 DEF AssessmentsInductive, TypeOK
    <2>4. \A t \in Sessions :
             session'[t].pc \in {"idle", "pinning", "reading", "locking", "committing"}
      BY <1>4 DEF AssessmentsInductive, TypeOK
    <2>5. /\ rows'["valuation"] \subseteq ValuationRows /\ rows'["future"] \subseteq FutureRows
          /\ rows'["decision"] \subseteq DecisionRows
      BY <1>7, LayersAre DEF AssessmentsInductive, TypeOK, IsValuation, IsFuture
    <2> QED
      BY <2>1, <2>2, <2>3, <2>4, <2>5 DEF TypeOK
  <1>9. BaselinesComplete'
    BY <1>4 DEF AssessmentsInductive, BaselinesComplete
  <1>10. Causality'
    BY <1>3, <1>4, <1>5 DEF AssessmentsInductive, TypeOK, Causality, Desk
  <1>11. Workshop'
    BY <1>1, <1>4 DEF AssessmentsInductive, Workshop
  <1>12. EvaluatedOnce'
    BY <1>4, <1>7, LayersAre DEF AssessmentsInductive, EvaluatedOnce, NoRows
  <1>13. NoLookAhead'
    <2>1. /\ \A v \in rows["valuation"] :
                UpTo(v.candidates \cup {v.latest}, v.asOf) /\ Early(v.baseline, v.asOf, imported)
          /\ \A f \in rows["future"] : Early(f.baseline, f.asOf, imported)
      BY DEF AssessmentsInductive, NoLookAhead, Early
    <2>2. /\ \A v \in rows'["valuation"] :
                UpTo(v.candidates \cup {v.latest}, v.asOf) /\ Early(v.baseline, v.asOf, imported')
          /\ \A f \in rows'["future"] : Early(f.baseline, f.asOf, imported')
      BY <1>6, <1>7, <2>1, LayersAre, EarlyStays DEF IsValuation, IsFuture
    <2> QED
      BY <2>2 DEF NoLookAhead, Early
  <1> QED
    BY <1>4, <1>8, <1>9, <1>10, <1>11, <1>12, <1>13 DEF AssessmentsInductive

-----------------------------------------------------------------------------
(* The theorems. *)

\* Initially the tables are empty and nobody is at work.
LEMMA InductiveStarts == Init => AssessmentsInductive
  <1> SUFFICES ASSUME Init PROVE AssessmentsInductive
    OBVIOUS
  <1>1. /\ today = 0 /\ snapshots = {} /\ imported = <<>> /\ runs = <<>> /\ lockedDates = {}
        /\ worker = [w \in Workers |-> IdleWorker] /\ rows = NoRows
        /\ session = [s \in Sessions |-> IdleSession] /\ 0 \in Days
    BY BaselinesAssumption DEF Init, BaselineInit, Days
  <1>2. \A w \in Workers : worker[w] = IdleWorker /\ worker[w] \in Jobs
    BY <1>1 DEF IdleWorker, Jobs
  <1>3. DOMAIN runs = {} /\ DOMAIN imported = {}
    BY <1>1
  <1>4. TypeOK /\ BaselinesComplete /\ Causality /\ Workshop /\ NoLookAhead
    BY <1>1, <1>2, <1>3, LayersAre
       DEF TypeOK, BaselinesComplete, Causality, Workshop, NoLookAhead, IdleWorker,
           IdleSession, NoRows
  <1>5. ASSUME NEW s \in Sessions PROVE Desk(s) /\ HandedOn(s) /\ UnderLock(s) /\ Pinned(s)
    <2>1. session[s] = IdleSession
      BY <1>1
    <2>2. /\ DOMAIN session[s] = Fields
          /\ session[s].pc = "idle" /\ session[s].asOf = 0 /\ session[s].since = 0
          /\ session[s].held = {} /\ session[s].mine = NoRows /\ session[s].imports = {}
          /\ session[s].pinned = NoPin
      BY <2>1 DEF IdleSession, Fields
    <2>3. /\ NoRows \in [LayerNames -> SUBSET (ValuationRows \cup FutureRows \cup DecisionRows)]
          /\ \A layer \in 1 .. 3 : NoRows[Layers[layer]] = {}
      BY LayersAre DEF NoRows
    <2> QED
      BY <1>1, <2>2, <2>3 DEF Desk, HandedOn, UnderLock, Pinned, Isolated, NoPin
  <1>6. Evaluations /\ EvaluatedOnce
    BY <1>1, <1>5 DEF Evaluations, Apart, HasRun, NoPin, EvaluatedOnce, IdleSession, NoRows
  <1> QED
    BY <1>4, <1>6 DEF AssessmentsInductive

\* Every step of the workers, the sessions and the world keeps it.
LEMMA InductiveKept == AssessmentsInductive /\ [Next]_vars => AssessmentsInductive'
  <1> SUFFICES ASSUME AssessmentsInductive, [Next]_vars PROVE AssessmentsInductive'
    OBVIOUS
  <1>1. CASE UNCHANGED vars
    <2>1. UNCHANGED <<today, snapshots, imported, runs, lockedDates, worker, rows, session>>
      BY <1>1 DEF vars, baselineVars
    <2>2. Evaluations' /\ EvaluatedOnce' /\ NoLookAhead'
      BY <2>1, SessionsUndisturbed DEF AssessmentsInductive, Evaluations, Pinned, Published, ImportsStay
    <2> QED
      BY <2>1, <2>2 DEF AssessmentsInductive, TypeOK, BaselinesComplete, Causality, Workshop
  <1>2. ASSUME NEW s \in Sessions, BreakDeadlock(s) PROVE AssessmentsInductive'
    <2>1. session[s].pc # "idle" /\ RollsBack(s)
      BY <1>2 DEF BreakDeadlock, WaitsFor
    <2> QED
      BY <1>2, <2>1, SessionRollsBack DEF BreakDeadlock, baselineVars
  <1>3. CASE SessionNext
    BY <1>2, <1>3, SessionStarts, SessionPins, SessionReads, SessionStores, SessionCommits,
       SessionLost DEF SessionNext
  <1>4. CASE /\ EnvironmentNext \/ (MaterializeNext /\ ~WorkerWaits)
             /\ UNCHANGED <<rows, session>>
    BY <1>4, MarketSteps
  <1> QED
    BY <1>1, <1>3, <1>4 DEF Next

\* The inductive invariant of the market's workers and the evaluations over
\* them (AssessmentsInvariant).
THEOREM AssessmentsInductiveHolds == Spec => []AssessmentsInductive
  BY InductiveStarts, InductiveKept, PTL DEF Spec

\* A run that is published has every baseline of its inputs and no other has
\* any, whatever worker died or failed before (materializer.py).
THEOREM BaselinesAreComplete == Spec => []BaselinesComplete
  <1>1. AssessmentsInductive => BaselinesComplete
    BY DEF AssessmentsInductive
  <1> QED
    BY <1>1, AssessmentsInductiveHolds, PTL

\* The same inputs are never evaluated into two rows: the advisory lock of a
\* layer and listing is held from the look-up to the commit (cache.py).
THEOREM EvaluationsAreUnique == Spec => []EvaluatedOnce
  <1>1. AssessmentsInductive => EvaluatedOnce
    BY DEF AssessmentsInductive
  <1> QED
    BY <1>1, AssessmentsInductiveHolds, PTL

\* An assessment of a day rests on no information that came after it: neither
\* itself nor through a baseline (the cutoffs of the repositories, and of a run
\* against the import of its observations).
THEOREM NothingIsForeseen == Spec => []NoLookAhead
  <1>1. AssessmentsInductive => NoLookAhead
    BY DEF AssessmentsInductive
  <1> QED
    BY <1>1, AssessmentsInductiveHolds, PTL

\* A step leaves a published run as it is, unless it commits an isolated
\* evaluation that replayed it.
LEMMA PublishedIsKept ==
    ASSUME AssessmentsInductive, [Next]_vars, NEW k \in DOMAIN runs,
           runs[k].status = "succeeded"
    PROVE  \/ k \in DOMAIN runs' /\ runs'[k] = runs[k]
           \/ \E s \in Sessions : /\ session[s].pinned.origin = "published"
                                  /\ session[s].pinned.key = k
  <1>1. CASE UNCHANGED runs
    BY <1>1
  <1>2. ASSUME NEW s \in Sessions, Commit(s), ~UNCHANGED runs, k \notin DOMAIN runs' \/ runs'[k] # runs[k]
        PROVE  session[s].pinned.origin = "published" /\ session[s].pinned.key = k
    <2>1. /\ session[s].task.isolated /\ session[s].pc = "committing"
          /\ session[s].pinned.origin # "gone"
          /\ runs' = Restrict(runs, DOMAIN runs \ {session[s].pinned.key})
      BY <1>2 DEF Commit, Unpin
    <2>2. session[s].pinned.key = k
      BY <1>2, <2>1 DEF Restrict
    <2>3. Pinned(s) /\ Isolated(s)
      BY <2>1 DEF AssessmentsInductive, Evaluations, Isolated
    <2> QED
      BY <2>1, <2>2, <2>3 DEF Pinned, Published
  <1>3. ASSUME NEW w \in Workers, NEW key, NEW row, runs' = WithRun(key, row), ~Published(key)
        PROVE  k \in DOMAIN runs' /\ runs'[k] = runs[k]
    BY <1>3, RunWritten DEF Published
  <1>4. ASSUME NEW w \in Workers, Open(w), ~UNCHANGED runs
        PROVE  k \in DOMAIN runs' /\ runs'[k] = runs[k]
    BY <1>3, <1>4 DEF Open
  <1>5. ASSUME NEW w \in Workers, worker[w].pc = "building" PROVE ~Published(worker[w].key)
    BY <1>5 DEF AssessmentsInductive, Workshop, Published
  <1>6. ASSUME NEW w \in Workers, Publish(w) PROVE k \in DOMAIN runs' /\ runs'[k] = runs[k]
    BY <1>3, <1>5, <1>6 DEF Publish
  <1>7. ASSUME NEW w \in Workers, Fail(w) PROVE k \in DOMAIN runs' /\ runs'[k] = runs[k]
    BY <1>5, <1>7 DEF Fail, Published
  <1>8. \/ UNCHANGED runs
        \/ \E s \in Sessions : Commit(s)
        \/ \E w \in Workers : Open(w) \/ Publish(w) \/ Fail(w)
    BY DEF Next, vars, baselineVars, SessionNext, EnvironmentNext, MaterializeNext, Start, Pin, Read,
           Store, BreakDeadlock, Lose, NextDay, Arrives, Begin, Import, Die
  <1> QED
    BY <1>1, <1>2, <1>4, <1>6, <1>7, <1>8

\* A published run is never touched again, except by an isolated evaluation
\* that replayed it and deletes it as its own (real_world_validation.py:404).
THEOREM PublishedStays == Spec => PublishedForGood
  <1>1. AssessmentsInductive /\ [Next]_vars =>
           [\A k \in DOMAIN runs :
              runs[k].status = "succeeded" =>
                 \/ k \in DOMAIN runs' /\ runs'[k] = runs[k]
                 \/ \E s \in Sessions : /\ session[s].pinned.origin = "published"
                                        /\ session[s].pinned.key = k]_vars
    BY PublishedIsKept
  <1> QED
    BY <1>1, AssessmentsInductiveHolds, PTL DEF Spec, PublishedForGood

=============================================================================
