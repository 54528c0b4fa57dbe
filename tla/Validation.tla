----------------------------- MODULE Validation -----------------------------
(***************************************************************************)
(* One validation batch: a set of listings people judge blindly, and the   *)
(* model's results those judgements are then compared with.  Two protocols *)
(* share the tables.  P5.6 (real_world_validation.py) goes through         *)
(*   blind_labeling -> labels_frozen -> model_generated -> revealed        *)
(*   -> finalized,                                                         *)
(* with a trigger of the database that keeps frozen columns from changing; *)
(* P5.5 (blind_validation.py) has its results from the start and only two  *)
(* statuses, and its routes accept a batch of either protocol.             *)
(*                                                                         *)
(* A request is a transaction at READ COMMITTED: it reads the batch once   *)
(* (the session keeps that copy), reads the items, writes item rows one by *)
(* one under their row locks, and commits; an UPDATE writes only the       *)
(* columns that differ from what the session loaded.  The batch row is     *)
(* never locked before it is written, so a request may commit over a       *)
(* status it has not read.                                                 *)
(***************************************************************************)
EXTENDS Functions, Tables, ValidationMetrics

CONSTANTS
    Listings,        \* numbers: their order is that of the identifiers
    Sessions,        \* requests in flight
    EntrySets,       \* what a caller may submit: functions from listings to entries
    Dataset,         \* the rules of a data set (config/validation.yaml)
    Gate,            \* the thresholds of the recommendation
    LabelRequests,   \* the judgements people submit: functions from listings
    BlindRequests,   \* those of the older protocol
    ReviewRequests,  \* what people say after the reveal: functions to verdict, root cause
    Model,           \* <<listing, version of the inputs>> -> the model's result
    MaxInputs,       \* bound: changes of the rows the model reads
    MaxAmendments    \* bound: corrections logged

\* What configurations and schemas guarantee: a data set has at least one
\* listing (p56_config.py:15), labels and reviews use the words they may
\* (decision_schemas.py:100-180), and every listing has a result.
ASSUME ValidationAssumption ==
    /\ Listings \subseteq Nat /\ IsFiniteSet(Listings)
    /\ MaxInputs \in Nat /\ MaxAmendments \in Nat
    /\ \A entries \in EntrySets : DOMAIN entries \subseteq Listings
    /\ Dataset.minimum_sample_size \in Nat \ {0}
    /\ \A request \in LabelRequests : \A l \in DOMAIN request :
          request[l].class \in HumanClasses /\ request[l].workflow \in Workflows
    /\ \A request \in ReviewRequests : \A l \in DOMAIN request :
          /\ request[l].verdict \in Verdicts
          /\ request[l].root_cause \in RootCauses \cup {None}
    /\ \A l \in Listings, version \in 0..MaxInputs :
          Model[<<l, version>>] # None /\ Model[<<l, version>>].key \in Int
    /\ None \notin HumanClasses \cup Workflows \cup Recommendations

VARIABLES
    batch,           \* the batch row, or NoBatch
    items,           \* its items, committed: listing -> row
    reviews,         \* per item, the review after the reveal
    amendments,      \* corrections logged after the reveal
    inputs,          \* version of the rows and files the model reads
    report,          \* the report on disk, or None
    txn,             \* per session, the request under way
    lostUpdate       \* history: the batch was written over a version not read

vars == <<batch, items, reviews, amendments, inputs, report, txn, lostUpdate>>

-----------------------------------------------------------------------------
(* Rows. *)

\* The table of batches before it has a row.
NoBatch == <<>>

BlankItem == [human_class |-> None, human_workflow |-> None, human_visit |-> None,
              notes |-> None, human_label |-> None, model |-> None, rank |-> None]

\* What the freeze fingerprints of an item, and what the generation does.
HumanSnapshot(item) == <<item.human_class, item.human_workflow, item.human_visit, item.notes>>
ModelSnapshot(item) == <<item.rank, item.model>>

\* A digest is what it is computed from: two are equal when that is.
LabelsFingerprint(rows) == [l \in DOMAIN rows |-> HumanSnapshot(rows[l])]
ModelFingerprint(rows) == [l \in DOMAIN rows |-> ModelSnapshot(rows[l])]

FullyLabeled(item) ==
    item.human_class # None /\ item.human_workflow # None /\ item.human_visit # None

\* The case of an item, as the metrics of P5.6 and of P5.5 read it.
MetricCase(item) ==
    [rank |-> item.rank, human_class |-> item.human_class,
     human_workflow |-> item.human_workflow, human_visit |-> item.human_visit,
     model_class |-> item.model.class, model_workflow |-> item.model.workflow,
     model_eligibility |-> item.model.eligibility,
     valuation_confidence |-> item.model.valuation_confidence,
     future_confidence |-> item.model.future_confidence]
EvaluationCase(item) ==
    [rank |-> item.rank, human_label |-> item.human_label,
     model_workflow |-> item.model.workflow, model_eligibility |-> item.model.eligibility]

Cases(rows) == [l \in DOMAIN rows |-> MetricCase(rows[l])]
Disagrees(item) == IsError(MetricCase(item))

\* Mutant: enumerate() without start=1.
RankFromZero(models, l) ==
    Cardinality({m \in DOMAIN models : models[m].key < models[l].key})

\* Positions of the eligible listings in the order of the decision's sort key,
\* of which the listing's identifier is the last part.
RankOf(models, l) ==
    LET Before(a, b) == \/ models[a].key < models[b].key
                        \/ models[a].key = models[b].key /\ a < b
        eligible == {m \in DOMAIN models : models[m].eligibility = "ELIGIBLE"}
    IN  IF l \notin eligible THEN None
        ELSE 1 + Cardinality({m \in eligible : Before(m, l)})

\* The results of a set of listings, computed from the inputs as they are.
Results(listings) == [l \in listings |-> Model[<<l, inputs>>]]
Ranked(rows, models) ==
    [l \in DOMAIN rows |-> [rows[l] EXCEPT !.model = models[l], !.rank = RankOf(models, l)]]

\* The rules a submitted data set must satisfy: its size, the places it must
\* cover, the variety of its archetypes, and where each listing comes from.
EntriesAccepted(entries) ==
    LET all == DOMAIN entries
        archetypes == UNION {entries[l].archetypes : l \in all}
        Of(a) == Cardinality({l \in all : a \in entries[l].archetypes})
    IN  /\ Cardinality(all) \in Dataset.minimum_sample_size .. Dataset.maximum_sample_size
        /\ Dataset.required_geography_buckets \subseteq {entries[l].geography_bucket : l \in all}
        /\ Cardinality(archetypes) >= Dataset.minimum_distinct_archetypes
        /\ \A a \in archetypes :
               100 * Of(a) <= Dataset.maximum_single_archetype_percent * Cardinality(all)
        /\ \A l \in all :
               /\ entries[l].provenance \in {"REAL_AUTHORIZED", "PROPERLY_ANONYMIZED"}
               /\ entries[l].price \in Dataset.minimum_price .. Dataset.maximum_price

-----------------------------------------------------------------------------
(* Transactions. *)

Idle == [pc |-> "idle"]

\* The requests that write the batch, and those that loop over labels.
StageKinds == {"freeze", "generate", "reveal", "finalize", "blind_reveal"}
LabelKinds == {"label", "blind_label"}

\* A new request: what it asked for, and the batch as it read it (which only
\* the requests that write the batch look at again).
Request(kind, payload) ==
    [pc |-> "load", kind |-> kind, payload |-> payload,
     seen |-> IF kind \in StageKinds THEN batch ELSE NoBatch,
     loaded |-> <<>>, target |-> <<>>, writes |-> <<>>, out |-> <<>>]

At(s, pc) == txn[s].pc = pc
Of(s, kinds) == txn[s].pc # "idle" /\ txn[s].kind \in kinds

\* The row of a listing as a statement of session s sees it.
Current(s, l) == IF l \in DOMAIN txn[s].writes THEN txn[s].writes[l] ELSE items[l]

\* Another transaction has updated the row and not ended.
Locked(s, l) == \E t \in Sessions \ {s} :
                    txn[t].pc # "idle" /\ l \in DOMAIN txn[t].writes

\* What an UPDATE leaves in the row: the columns changed since it was loaded.
Flushed(s, l) ==
    [c \in DOMAIN BlankItem |->
        IF txn[s].target[l][c] # txn[s].loaded[l][c] THEN txn[s].target[l][c] ELSE Current(s, l)[c]]

\* Mutant: the clause on the human columns is missing.
TriggerOnModelOnly(old, new) ==
    batch.protocol = "p5.6" /\ batch.status # "labels_frozen" => ModelSnapshot(new) = ModelSnapshot(old)

\* The trigger on the items of a P5.6 batch, which reads the committed status.
TriggerAllows(old, new) ==
    \/ batch.protocol # "p5.6"
    \/ /\ \/ batch.status = "blind_labeling"
          \/ HumanSnapshot(new) = HumanSnapshot(old) /\ new.human_label = old.human_label
       /\ \/ batch.status = "labels_frozen"
          \/ ModelSnapshot(new) = ModelSnapshot(old)

-----------------------------------------------------------------------------
(* Creating a batch. *)

NewBatch(protocol) ==
    [protocol |-> protocol, status |-> "blind_labeling", input_version |-> inputs,
     human_labels |-> None, model_outputs |-> None, metrics |-> None,
     final_recommendation |-> None]

\* P5.6: the data set is accepted and frozen with the versions of everything
\* the model will read; no result exists.
CreateValidationRun ==
    /\ batch = NoBatch
    /\ \E entries \in EntrySets :
          /\ EntriesAccepted(entries)
          /\ items' = [l \in DOMAIN entries |-> BlankItem]
    /\ batch' = NewBatch("p5.6")
    /\ UNCHANGED <<reviews, amendments, inputs, report, txn, lostUpdate>>

\* P5.5: every listing is evaluated and ranked at once, and the results are
\* stored in the items from the start.
CreateBlindBatch ==
    /\ batch = NoBatch
    /\ \E entries \in EntrySets :
          items' = Ranked([l \in DOMAIN entries |-> BlankItem], Results(DOMAIN entries))
    /\ batch' = NewBatch("p5.5")
    /\ UNCHANGED <<reviews, amendments, inputs, report, txn, lostUpdate>>

-----------------------------------------------------------------------------
(* A request reads the batch; a status it does not accept, or has already  *)
(* reached, ends it with nothing written.                                  *)

\* The statuses each request goes on from, and the protocol it asks for.
Accepts(kind) ==
    /\ kind \in LabelKinds \cup {"freeze"} => batch.status = "blind_labeling"
    /\ kind = "generate" => batch.status = "labels_frozen"
    /\ kind = "reveal" => batch.status = "model_generated"
    /\ kind = "finalize" => batch.status = "revealed"
    /\ kind = "review" => batch.status \in {"revealed", "finalized"}
    /\ kind = "blind_reveal" => batch.status # "revealed"

P56Kinds == {"label", "freeze", "generate", "reveal", "review", "finalize"}

\* What a request carries: labels or reviews of some of the listings.
Payloads(kind) ==
    CASE kind = "label" -> {r \in LabelRequests : DOMAIN r \subseteq DOMAIN items}
      [] kind = "blind_label" -> {r \in BlindRequests : DOMAIN r \subseteq DOMAIN items}
      [] kind = "review" -> {r \in ReviewRequests : DOMAIN r \subseteq DOMAIN items}
      [] OTHER -> {None}

Begin(s, kind) ==
    /\ At(s, "idle")
    /\ batch # NoBatch
    /\ kind \in P56Kinds => batch.protocol = "p5.6"
    /\ Accepts(kind)
    /\ \E payload \in Payloads(kind) : txn' = [txn EXCEPT ![s] = Request(kind, payload)]
    /\ UNCHANGED <<batch, items, reviews, amendments, inputs, report, lostUpdate>>

\* A step of session s that changes only its own transaction.
Goes(s, record) ==
    /\ txn' = [txn EXCEPT ![s] = record]
    /\ UNCHANGED <<batch, items, reviews, amendments, inputs, lostUpdate>>

\* The request fails, its client leaves, or the database picks it as the
\* victim of a deadlock: the transaction is rolled back.
Rollback(s) == ~At(s, "idle") /\ Goes(s, Idle) /\ UNCHANGED report

-----------------------------------------------------------------------------
(* Labels: for each listing, read the item, then update it. *)

\* The columns a label of either protocol sets.
Labelled(item, kind, label) ==
    IF kind = "label"
    THEN [item EXCEPT !.human_class = label.class, !.human_workflow = label.workflow,
                      !.human_visit = label.visit, !.notes = label.notes]
    ELSE [item EXCEPT !.human_label = label, !.notes = None]

LoadLabel(s) ==
    /\ At(s, "load") /\ Of(s, LabelKinds)
    /\ \E l \in DOMAIN txn[s].payload :
          Goes(s, [txn[s] EXCEPT !.pc = "write",
                      !.loaded = One(l, Current(s, l)),
                      !.target = One(l, Labelled(Current(s, l), txn[s].kind, txn[s].payload[l]))])
    /\ UNCHANGED report

\* The update waits for the row, and the trigger may refuse it.
WriteLabel(s) ==
    /\ At(s, "write") /\ Of(s, LabelKinds)
    /\ \E l \in DOMAIN txn[s].target :
          /\ ~Locked(s, l)
          /\ TriggerAllows(Current(s, l), Flushed(s, l))
          /\ LET writes == Over(One(l, Flushed(s, l)), txn[s].writes)
             IN  Goes(s, [txn[s] EXCEPT
                             !.writes = writes, !.target = <<>>, !.loaded = <<>>,
                             !.payload = Restrict(@, DOMAIN @ \ {l}),
                             !.pc = IF DOMAIN txn[s].payload = {l} THEN "commit" ELSE "load"])
    /\ UNCHANGED report

-----------------------------------------------------------------------------
(* The stages: read the items, check them, and prepare what to write. *)

\* Mutant: only asks that there is a digest.
LabelsTrusted(s) == txn[s].seen.human_labels # None

\* The items are still the ones the batch was frozen with.
LabelsIntact(s) == LabelsFingerprint(items) = txn[s].seen.human_labels
ModelIntact(s) == ModelFingerprint(items) = txn[s].seen.model_outputs

\* The columns of the batch this request will write.
Prepares(s, columns) ==
    Goes(s, [txn[s] EXCEPT !.pc = "commit", !.out = columns])

FreezeLabels(s) ==
    /\ At(s, "load") /\ Of(s, {"freeze"})
    /\ \A l \in DOMAIN items : FullyLabeled(items[l])
    /\ Prepares(s, [status |-> "labels_frozen", human_labels |-> LabelsFingerprint(items)])
    /\ UNCHANGED report

\* The versions of the inputs are compared with those of the manifest ...
CheckFrozenRuntime(s) ==
    /\ At(s, "load") /\ Of(s, {"generate"})
    /\ inputs = txn[s].seen.input_version
    /\ LabelsIntact(s)
    /\ Goes(s, [txn[s] EXCEPT !.pc = "evaluate", !.loaded = items])
    /\ UNCHANGED report

\* ... and read again when the listings are evaluated.
Evaluate(s) ==
    /\ At(s, "evaluate")
    /\ LET rows == Ranked(txn[s].loaded, Results(DOMAIN items))
       IN  Goes(s, [txn[s] EXCEPT !.pc = "write", !.target = rows,
                       !.out = [status |-> "model_generated",
                                model_outputs |-> ModelFingerprint(rows)]])
    /\ UNCHANGED report

\* The rows that changed are flushed in the order of their keys, then the batch.
WriteResult(s) ==
    /\ At(s, "write") /\ Of(s, {"generate"})
    /\ LET todo == {l \in DOMAIN txn[s].target \ DOMAIN txn[s].writes :
                        txn[s].target[l] # txn[s].loaded[l]}
       IN  IF todo = {}
           THEN Goes(s, [txn[s] EXCEPT !.pc = "commit", !.target = <<>>, !.loaded = <<>>])
           ELSE LET l == CHOOSE m \in todo : \A n \in todo : m <= n
                IN  /\ ~Locked(s, l)
                    /\ TriggerAllows(Current(s, l), Flushed(s, l))
                    /\ Goes(s, [txn[s] EXCEPT !.writes = Over(One(l, Flushed(s, l)), @)])
    /\ UNCHANGED report

RevealRun(s) ==
    /\ At(s, "load") /\ Of(s, {"reveal"})
    /\ LabelsIntact(s) /\ ModelIntact(s)
    /\ Prepares(s, [status |-> "revealed", metrics |-> RealWorldMetrics(Cases(items), <<>>)])
    /\ UNCHANGED report

\* The reports are written before the transaction is committed.
FinalizeRun(s) ==
    /\ At(s, "load") /\ Of(s, {"finalize"})
    /\ LabelsIntact(s) /\ ModelIntact(s)
    /\ DOMAIN reviews = DOMAIN items
    /\ \A l \in DOMAIN items : Disagrees(items[l]) => reviews[l].root_cause # None
    /\ LET metrics == RealWorldMetrics(Cases(items), reviews)
           recommendation == GateRecommendation(metrics, Gate)
       IN  /\ Prepares(s, [status |-> "finalized", metrics |-> metrics,
                           final_recommendation |-> recommendation])
           /\ report' = recommendation

\* P5.5: nothing but the older labels is asked for.  Items without a result
\* raise a KeyError, which ends the request.
RevealBlind(s) ==
    /\ At(s, "load") /\ Of(s, {"blind_reveal"})
    /\ \A l \in DOMAIN items : items[l].human_label # None /\ items[l].model # None
    /\ LET metrics == BlindMetrics([l \in DOMAIN items |-> EvaluationCase(items[l])],
                                   {"WORTH_VIEWING", "WAIT"}, "WORTH_VIEWING")
       IN  Prepares(s, [status |-> "revealed", metrics |-> metrics])
    /\ UNCHANGED report

\* A review needs a root cause where human and model disagree; the first wins.
CheckReview(s) ==
    /\ At(s, "load") /\ Of(s, {"review"})
    /\ \A l \in DOMAIN txn[s].payload :
          /\ l \notin DOMAIN reviews
          /\ Disagrees(items[l]) => txn[s].payload[l].root_cause # None
    /\ Goes(s, [txn[s] EXCEPT !.pc = "commit"])
    /\ UNCHANGED report

-----------------------------------------------------------------------------
(* Commit. *)

\* Mutant: an upsert instead of an insert.
UpsertsReview(s) ==
    reviews' = IF txn[s].kind = "review" THEN Over(txn[s].payload, reviews) ELSE reviews

\* The unique constraint on the item refuses a second review.
InsertsReview(s) ==
    IF txn[s].kind = "review"
    THEN /\ DOMAIN txn[s].payload \cap DOMAIN reviews = {}
         /\ reviews' = Over(txn[s].payload, reviews)
    ELSE UNCHANGED reviews

\* Only the columns the request changed are written to the batch row.
Commit(s) ==
    /\ At(s, "commit")
    /\ items' = Over(txn[s].writes, items)
    /\ batch' = Over(txn[s].out, batch)
    /\ InsertsReview(s)
    /\ lostUpdate' = (lostUpdate \/ (txn[s].out # <<>> /\ batch # txn[s].seen))
    /\ txn' = [txn EXCEPT ![s] = Idle]
    /\ UNCHANGED <<amendments, inputs, report>>

\* After the reveal a correction of a label is logged, and nothing else: one
\* insert into a table of its own, whatever the other requests do.
AppendLabelAmendment ==
    /\ batch # NoBatch /\ batch.protocol = "p5.6"
    /\ batch.status \in {"revealed", "finalized"}
    /\ amendments < MaxAmendments
    /\ amendments' = amendments + 1
    /\ UNCHANGED <<batch, items, reviews, inputs, report, txn, lostUpdate>>

\* A row or a file the model reads changes: a collection run updates a listing,
\* evidence is imported, a configuration is edited.
InputsChange ==
    /\ inputs < MaxInputs
    /\ inputs' = inputs + 1
    /\ UNCHANGED <<batch, items, reviews, amendments, report, txn, lostUpdate>>

Kinds == P56Kinds \cup {"blind_label", "blind_reveal"}

Init ==
    /\ batch = NoBatch /\ items = <<>> /\ reviews = <<>>
    /\ amendments = 0 /\ inputs = 0 /\ report = None
    /\ txn = [s \in Sessions |-> Idle]
    /\ lostUpdate = FALSE

\* A step of the request of session s.
Serve(s) ==
    \/ \E kind \in Kinds : Begin(s, kind)
    \/ LoadLabel(s) \/ WriteLabel(s)
    \/ FreezeLabels(s)
    \/ CheckFrozenRuntime(s) \/ Evaluate(s) \/ WriteResult(s)
    \/ RevealRun(s) \/ FinalizeRun(s) \/ RevealBlind(s)
    \/ CheckReview(s)
    \/ Commit(s) \/ Rollback(s)

Next ==
    \/ CreateValidationRun \/ CreateBlindBatch
    \/ \E s \in Sessions : Serve(s)
    \/ AppendLabelAmendment
    \/ InputsChange

Spec == Init /\ [][Next]_vars

-----------------------------------------------------------------------------
(* Properties. *)

P56 == batch # NoBatch /\ batch.protocol = "p5.6"

\* Types: every row is complete, every item and review belongs to the batch,
\* and a transaction only writes listings of the batch.
TypeOK ==
    /\ batch = NoBatch => items = <<>>
    /\ DOMAIN items \subseteq Listings
    /\ \A l \in DOMAIN items : /\ DOMAIN items[l] = DOMAIN BlankItem
                               /\ items[l].human_class \in HumanClasses \cup {None}
                               /\ items[l].human_workflow \in Workflows \cup {None}
                               /\ items[l].rank \in (1..Cardinality(Listings)) \cup {None}
    /\ batch # NoBatch => batch.status \in {"blind_labeling", "labels_frozen", "model_generated",
                                         "revealed", "finalized"}
    /\ DOMAIN reviews \subseteq DOMAIN items
    /\ \A l \in DOMAIN reviews : /\ reviews[l].verdict \in Verdicts
                                 /\ reviews[l].root_cause \in RootCauses \cup {None}
    /\ inputs \in 0..MaxInputs /\ amendments \in 0..MaxAmendments
    /\ \A s \in Sessions : ~At(s, "idle") => DOMAIN txn[s].writes \subseteq DOMAIN items

\* What a trial sees of an item: nothing, or the human's word and the model's.
Judgement(item) == IF item.human_class = None THEN <<>> ELSE HumanSnapshot(item)
Result(item) == IF item.model = None THEN <<>> ELSE <<item.model>>

\* A P5.6 batch keeps the promise of a blind trial, whatever requests run at
\* once and however late they commit: the trigger and the row locks together
\* keep every judgement as it was when the first result was stored, and
\* nothing is shown before (0008_p56_integrity_guards.py; a label checked at
\* real_world_validation.py:212 may be written after the freeze).
Trial == INSTANCE BlindTrial WITH
            Listings <- Listings,
            None <- <<>>,
            subjects <- IF P56 THEN DOMAIN items ELSE {},
            judgement <- IF P56 THEN [l \in DOMAIN items |-> Judgement(items[l])] ELSE <<>>,
            result <- IF P56 THEN [l \in DOMAIN items |-> Result(items[l])] ELSE <<>>,
            shown <- P56 /\ batch.status \in {"revealed", "finalized"}
KeepsTheTrial == Trial!TrialSpec

\* The verdict of a finalized run is that of its rows: labels and results are
\* the frozen ones, every listing is reviewed, every disagreement has its root
\* cause, and the recommendation is what the gate says of exactly these.  The
\* one way out is a batch written over a version its request had not read.
VerdictStands ==
    P56 /\ batch.status = "finalized" /\ ~lostUpdate =>
        /\ LabelsFingerprint(items) = batch.human_labels
        /\ ModelFingerprint(items) = batch.model_outputs
        /\ DOMAIN reviews = DOMAIN items
        /\ \A l \in DOMAIN items : Disagrees(items[l]) => reviews[l].root_cause # None
        /\ batch.final_recommendation =
               GateRecommendation(RealWorldMetrics(Cases(items), reviews), Gate)
        /\ report # None

\* What a review says is never changed or withdrawn, and a recommendation once
\* made is never withdrawn either, not even by a request that moves the status
\* back (the append-only triggers; finalize_validation_run).
VerdictsAccumulate ==
    [][/\ DOMAIN reviews \subseteq DOMAIN reviews'
       /\ \A l \in DOMAIN reviews : reviews'[l] = reviews[l]
       /\ batch # NoBatch /\ batch.final_recommendation # None
              => batch'.final_recommendation # None]_vars

=============================================================================
