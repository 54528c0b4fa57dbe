------------------------ MODULE AssessmentsInvariant ------------------------
(***************************************************************************)
(* The inductive invariant of Assessments: what holds of a worker between  *)
(* the lock of its date and the end of its job, and of a session between   *)
(* what it read and what it commits.                                       *)
(***************************************************************************)
EXTENDS Assessments

Slices == [window : Windows, place : Listings \cup {Shanghai}]

\* What a worker has of its job.
Jobs == [pc : {"idle", "importing", "reading", "building"}, date : Days, since : Days,
         imports : SUBSET Observations, key : RunKeys \cup {None}, cutoff : Days]

\* The columns of a session, and the transactions that an isolated task holds.
Fields == DOMAIN IdleSession
Isolated(s) == session[s].pc \in {"reading", "locking", "committing"} /\ session[s].task.isolated

\* A baseline from what was in hand by a day, given the imports.
Early(anchor, asOf, imports) == anchor # None => InHand(anchor.run.inputs, asOf, imports)

\* What a layer may store for a listing.
IsValuation(v, imports) ==
    /\ v \in ValuationRows
    /\ UpTo(v.candidates \cup {v.latest}, v.asOf) /\ Early(v.baseline, v.asOf, imports)
IsFuture(f, imports) == f \in FutureRows /\ Early(f.baseline, f.asOf, imports)
IsResult(row, layer, imports) ==
    CASE layer = 1 -> IsValuation(row, imports)
      [] layer = 2 -> IsFuture(row, imports)
      [] OTHER -> row \in DecisionRows

-----------------------------------------------------------------------------
(* The parts.                                                              *)

\* Imports have their day, and a run rests on what was imported by its cutoff.
Causality ==
    /\ \A o \in DOMAIN imported : imported[o] \in Days
    /\ \A k \in DOMAIN runs : \A o \in k.inputs : imported[o] <= runs[k].cutoff

\* What a worker at work holds: the lock of its date, which no other has, and,
\* while it builds, a run of that date that is open.
Workshop ==
    /\ worker \in [Workers -> Jobs]
    /\ \A w, v \in Workers :
          worker[w].pc # "idle" /\ worker[v].pc # "idle" /\ worker[w].date = worker[v].date
              => w = v
    /\ \A w \in Workers :
          /\ worker[w].imports \subseteq snapshots
          /\ worker[w].pc = "building" =>
                /\ worker[w].key \in DOMAIN runs
                /\ worker[w].key.date = worker[w].date
                /\ runs[worker[w].key].status = "running"

\* The columns of a session.  Between two tasks, and when it has not read its
\* baselines yet, it owns nothing.
Desk(s) ==
    /\ DOMAIN session[s] = Fields
    /\ session[s].asOf \in Days
    /\ session[s].mine \in [LayerNames -> SUBSET (ValuationRows \cup FutureRows \cup DecisionRows)]
    /\ session[s].imports \subseteq snapshots
    /\ session[s].since \in Days
    /\ session[s].pc # "idle" =>
          /\ session[s].task \in Tasks
          /\ session[s].todo \in Seq(Listings) /\ session[s].todo # <<>>
          /\ session[s].layer \in 1 .. 3
    /\ session[s].pc \in {"idle", "pinning"} =>
          session[s].mine = NoRows /\ session[s].held = {}
    /\ session[s].pc = "pinning" => session[s].task.isolated /\ session[s].layer = 1

\* What the layers of an evaluation hand on, and what the one at work read.
HandedOn(s) ==
    /\ session[s].pc = "reading" /\ session[s].layer > 1 =>
          IsResult(session[s].row, session[s].layer - 1, imported)
    /\ session[s].pc = "locking" =>
          /\ IsResult(session[s].draft, session[s].layer, imported)
          /\ session[s].draft.listing = Target(s)

\* A new row is of its layer, and its transaction has the lock of the layer and
\* the listing.
UnderLock(s) ==
    \A layer \in 1 .. 3 : \A row \in session[s].mine[Layers[layer]] :
        IsResult(row, layer, imported) /\ <<layer, row.listing>> \in session[s].held

\* The run that an isolated evaluation rests on: from nothing after its day; its
\* own is open for nobody else and not published, a replayed one is published
\* until another evaluation deletes it.  What it imported, nobody else did.
Pinned(s) ==
    /\ Isolated(s) =>
          /\ session[s].pinned.key \in [date : 0 .. MaxDay + 1, inputs : SUBSET Observations]
          /\ UpTo(session[s].pinned.key.inputs, session[s].asOf)
          /\ session[s].pinned.row.baselines \subseteq Slices
          /\ session[s].pinned.origin \in {"own", "published", "gone"}
    /\ ~Isolated(s) => session[s].pinned = NoPin /\ session[s].imports = {}
    /\ session[s].imports \cap DOMAIN imported = {}
    /\ session[s].pinned.origin = "own" =>
          /\ ~Published(session[s].pinned.key)
          /\ \A w \in Workers :
                worker[w].pc = "building" => worker[w].key # session[s].pinned.key
    /\ session[s].pinned.origin = "published" => Published(session[s].pinned.key)

\* Two transactions never have the same lock, import or run.
Apart(s, t) ==
    /\ session[s].held \cap session[t].held = {}
    /\ session[s].imports \cap session[t].imports = {}
    /\ session[s].pinned.origin = "own" => ~HasRun(t, session[s].pinned.key)

Evaluations ==
    /\ session = [s \in Sessions |-> session[s]]
    /\ \A s \in Sessions : Desk(s) /\ HandedOn(s) /\ UnderLock(s) /\ Pinned(s)
    /\ \A s \in Sessions : \A t \in Sessions \ {s} : Apart(s, t)

AssessmentsInductive ==
    /\ TypeOK
    /\ BaselinesComplete
    /\ Causality
    /\ Workshop
    /\ Evaluations
    /\ EvaluatedOnce
    /\ NoLookAhead

=============================================================================
