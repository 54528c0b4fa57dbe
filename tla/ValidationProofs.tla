-------------------------- MODULE ValidationProofs --------------------------
(***************************************************************************)
(* Proofs about Validation for any listings, requests, data sets, results  *)
(* and bounds.                                                             *)
(***************************************************************************)
EXTENDS ValidationInvariant, FiniteSetTheorems, WellFoundedInduction, TLAPS

-----------------------------------------------------------------------------
(* Tables, rows and ranks. *)

\* Writing nothing changes nothing.
LEMMA OverNothing ==
    ASSUME NEW g, IsFcn(g) PROVE Over(<<>>, g) = g
  <1>1. Over(<<>>, g) = [x \in DOMAIN g |-> g[x]]
    BY DEF Over
  <1> QED
    BY <1>1 DEF IsFcn

\* A table of one row has that row.
LEMMA OneTable ==
    ASSUME NEW k, NEW v
    PROVE  IsFcn(One(k, v)) /\ DOMAIN One(k, v) = {k} /\ One(k, v)[k] = v
  BY DEF One, IsFcn

\* A row nobody has touched is a row.
LEMMA BlankIsItem ==
    /\ IsItem(BlankItem)
    /\ ItemColumns = {"human_class", "human_workflow", "human_visit", "notes",
                      "human_label", "model", "rank"}
    /\ BlankItem.model = None /\ BlankItem.human_class = None
  BY DEF BlankItem, IsItem, IsFcn, ItemColumns

\* A rank counts the listing itself and those before it, never one twice.
LEMMA RankIsBounded ==
    ASSUME NEW models, NEW l \in Listings, DOMAIN models \subseteq Listings, l \in DOMAIN models,
           \A m \in DOMAIN models : models[m].key \in Int
    PROVE  RankOf(models, l) \in (1..Cardinality(Listings)) \cup {None}
  <1> DEFINE Before(a, b) == \/ models[a].key < models[b].key
                             \/ models[a].key = models[b].key /\ a < b
             eligible == {m \in DOMAIN models : models[m].eligibility = "ELIGIBLE"}
             ahead == {m \in eligible : Before(m, l)}
  <1>1. CASE l \notin eligible
    BY <1>1 DEF RankOf
  <1>2. CASE l \in eligible
    <2>1. ahead \subseteq Listings \ {l}
      <3>1. l \in Nat /\ models[l].key \in Int
        BY ValidationAssumption
      <3>2. ~Before(l, l)
        BY <3>1
      <3> QED
        BY <3>2
    <2>2. IsFiniteSet(Listings \ {l}) /\ Cardinality(Listings \ {l}) = Cardinality(Listings) - 1
      BY ValidationAssumption, FS_RemoveElement
    <2>3. Cardinality(ahead) <= Cardinality(Listings \ {l})
      BY <2>1, <2>2, FS_Subset
    <2>4. Cardinality(ahead) \in Nat /\ Cardinality(Listings) \in Nat
      BY <2>1, <2>2, ValidationAssumption, FS_Subset, FS_CardinalityType
    <2>5. RankOf(models, l) = 1 + Cardinality(ahead)
      BY <1>2 DEF RankOf
    <2> HIDE DEF ahead
    <2> QED
      BY <2>2, <2>3, <2>4, <2>5
  <1> QED
    BY <1>1, <1>2

\* Ranking rows gives them results and ranks and leaves the judgements.
LEMMA RankedRows ==
    ASSUME NEW rows, DOMAIN rows \subseteq Listings, inputs \in 0..MaxInputs,
           \A l \in DOMAIN rows : IsItem(rows[l])
    PROVE  LET ranked == Ranked(rows, Results(DOMAIN rows))
           IN  /\ IsFcn(ranked) /\ DOMAIN ranked = DOMAIN rows
               /\ \A l \in DOMAIN rows : /\ IsItem(ranked[l])
                                         /\ SameJudgement(ranked[l], rows[l])
                                         /\ ranked[l].model # None
  <1> DEFINE models == Results(DOMAIN rows)
             ranked == Ranked(rows, models)
  <1>1. DOMAIN models = DOMAIN rows
    BY DEF Results
  <1>2. \A l \in DOMAIN rows : models[l] # None /\ models[l].key \in Int
    BY ValidationAssumption DEF Results
  <1> HIDE DEF models
  <1>3. IsFcn(ranked) /\ DOMAIN ranked = DOMAIN rows
    BY DEF Ranked, IsFcn
  <1>4. ASSUME NEW l \in DOMAIN rows
        PROVE  /\ IsItem(ranked[l])
               /\ SameJudgement(ranked[l], rows[l])
               /\ ranked[l].model # None
    <2>1. RankOf(models, l) \in (1..Cardinality(Listings)) \cup {None}
      BY <1>1, <1>2, RankIsBounded
    <2>2. ranked[l] = [rows[l] EXCEPT !.model = models[l], !.rank = RankOf(models, l)]
      BY DEF Ranked
    <2>3. /\ IsFcn(ranked[l]) /\ DOMAIN ranked[l] = ItemColumns
          /\ ranked[l].model = models[l] /\ ranked[l].rank = RankOf(models, l)
          /\ \A c \in ItemColumns \ {"model", "rank"} : ranked[l][c] = rows[l][c]
      BY <2>2, BlankIsItem DEF IsItem, IsFcn
    <2> HIDE DEF ranked
    <2> QED
      BY <1>2, <2>1, <2>3, BlankIsItem DEF IsItem, SameJudgement
  <1> QED
    BY <1>3, <1>4 DEF models

-----------------------------------------------------------------------------
(* The beginning. *)

\* A batch that has just been created has its protocol and no label.
LEMMA NewBatchIsBatch ==
    ASSUME NEW protocol \in {"p5.6", "p5.5"}
    PROVE  LET b == NewBatch(protocol)
           IN  /\ IsFcn(b) /\ DOMAIN b = BatchColumns /\ b # NoBatch
               /\ b.protocol = protocol /\ b.status = "blind_labeling"
               /\ b.final_recommendation = None
  <1> DEFINE b == NewBatch(protocol)
  <1>1. DOMAIN b = BatchColumns /\ IsFcn(b)
    BY DEF NewBatch, BatchColumns, IsFcn
  <1>2. b # NoBatch
    <2>1. DOMAIN NoBatch = {}
      BY DEF NoBatch
    <2> QED
      BY <1>1, <2>1 DEF BatchColumns
  <1>3. b.protocol = protocol /\ b.status = "blind_labeling" /\ b.final_recommendation = None
    BY DEF NewBatch
  <1> QED
    BY <1>1, <1>2, <1>3

\* Nothing is there and nobody is at work.
LEMMA InitInductive == Init => ValidationInductive
  <1> SUFFICES ASSUME Init PROVE ValidationInductive
    OBVIOUS
  <1> USE DEF Init
  <1>1. DOMAIN items = {} /\ DOMAIN reviews = {} /\ \A s \in Sessions : At(s, "idle")
    BY DEF At, Idle
  <1>2. IsFcn(items) /\ IsFcn(reviews) /\ IsFcn(txn)
    BY DEF IsFcn
  <1>3. ~P56
    BY DEF P56
  <1>4. TypeOK
    BY <1>1, ValidationAssumption DEF TypeOK
  <1>5. Rows
    BY <1>1, <1>2 DEF Rows
  <1>6. Stages /\ VerdictStands
    BY <1>3 DEF Stages, VerdictStands
  <1>7. OwnRows /\ Requests
    BY <1>1 DEF OwnRows, Requests, UnderWay
  <1> QED
    BY <1>4, <1>5, <1>6, <1>7 DEF ValidationInductive

\* A batch with rows, the first of the table, is in order when nobody has
\* written to it, blind and not empty if it is one of P5.6.
LEMMA FirstBatch ==
    ASSUME ValidationInductive, batch = NoBatch,
           NEW protocol \in {"p5.6", "p5.5"}, batch' = NewBatch(protocol),
           IsFcn(items'), DOMAIN items' \subseteq Listings,
           \A l \in DOMAIN items' : IsItem(items'[l]),
           protocol = "p5.6" => items' # <<>> /\ \A l \in DOMAIN items' : items'[l].model = None,
           UNCHANGED <<reviews, amendments, inputs, report, txn, lostUpdate>>
    PROVE  ValidationInductive'
  <1> USE DEF ValidationInductive
  <1>1. /\ IsFcn(batch') /\ DOMAIN batch' = BatchColumns /\ batch' # NoBatch
        /\ batch'.protocol = protocol /\ batch'.status = "blind_labeling"
    BY NewBatchIsBatch
  <1>2. /\ reviews' = <<>> /\ DOMAIN reviews' = {}
        /\ \A s \in Sessions : txn'[s] = Idle
    BY DEF Rows
  <1>3. \A s \in Sessions : At(s, "idle")'
    BY <1>2 DEF At, Idle
  <1>4. TypeOK'
    <2>1. \A l \in DOMAIN items' : /\ DOMAIN items'[l] = DOMAIN BlankItem
                                   /\ items'[l].human_class \in HumanClasses \cup {None}
                                   /\ items'[l].human_workflow \in Workflows \cup {None}
                                   /\ items'[l].rank \in (1..Cardinality(Listings)) \cup {None}
      BY DEF IsItem, ItemColumns
    <2> QED
      BY <1>1, <1>2, <1>3, <2>1 DEF TypeOK
  <1>5. Rows'
    BY <1>1, <1>2 DEF Rows
  <1>6. Stages' /\ VerdictStands'
    BY <1>1 DEF Stages, VerdictStands, P56, Blind
  <1>7. OwnRows' /\ Requests'
    BY <1>3 DEF OwnRows, Requests, UnderWay
  <1> QED
    BY <1>4, <1>5, <1>6, <1>7

\* The rows of a new batch of P5.6 are blank, and there is one at least.
LEMMA CreateValidationRunKeeps ==
    ASSUME ValidationInductive, CreateValidationRun PROVE ValidationInductive'
  <1>1. PICK entries \in EntrySets : /\ EntriesAccepted(entries)
                                    /\ items' = [l \in DOMAIN entries |-> BlankItem]
    BY DEF CreateValidationRun
  <1>2. DOMAIN entries # {}
    <2>1. Cardinality({}) = 0
      BY FS_EmptySet
    <2>2. Cardinality(DOMAIN entries) \in Dataset.minimum_sample_size .. Dataset.maximum_sample_size
      BY <1>1 DEF EntriesAccepted
    <2> QED
      BY <2>1, <2>2, ValidationAssumption
  <1>3. DOMAIN items' \subseteq Listings /\ IsFcn(items') /\ DOMAIN items' # {}
    BY <1>1, <1>2, ValidationAssumption DEF IsFcn
  <1>4. items' # <<>>
    BY <1>3
  <1>5. \A l \in DOMAIN items' : IsItem(items'[l]) /\ items'[l].model = None
    BY <1>1, BlankIsItem
  <1> QED
    BY <1>3, <1>4, <1>5, FirstBatch DEF CreateValidationRun

\* The rows of a new batch of P5.5 have their results at once.
LEMMA CreateBlindBatchKeeps ==
    ASSUME ValidationInductive, CreateBlindBatch PROVE ValidationInductive'
  <1>1. PICK entries \in EntrySets :
            items' = Ranked([l \in DOMAIN entries |-> BlankItem], Results(DOMAIN entries))
    BY DEF CreateBlindBatch
  <1> DEFINE blank == [l \in DOMAIN entries |-> BlankItem]
  <1>2. /\ DOMAIN blank = DOMAIN entries /\ DOMAIN blank \subseteq Listings
        /\ \A l \in DOMAIN blank : IsItem(blank[l])
    BY BlankIsItem, ValidationAssumption
  <1>3. inputs \in 0..MaxInputs
    BY DEF ValidationInductive, TypeOK
  <1> HIDE DEF blank
  <1>4. items' = Ranked(blank, Results(DOMAIN blank))
    BY <1>1, <1>2 DEF blank
  <1>5. /\ IsFcn(items') /\ DOMAIN items' \subseteq Listings
        /\ \A l \in DOMAIN items' : IsItem(items'[l])
    BY <1>2, <1>3, <1>4, RankedRows
  <1> QED
    BY <1>5, FirstBatch DEF CreateBlindBatch

-----------------------------------------------------------------------------
(* Steps that change one transaction. *)

\* What an open request may write does not depend on what the others do in
\* their own transactions, nor on a report of theirs.
LEMMA OthersStay ==
    ASSUME NEW s \in Sessions, UnderWay(s), txn'[s] = txn[s],
           UNCHANGED <<batch, items, reviews, lostUpdate>>,
           report' = report \/ report' # None
    PROVE  UnderWay(s)'
  <1>1. CASE At(s, "idle")
    BY <1>1 DEF UnderWay, At
  <1>2. CASE ~At(s, "idle")
    <2>1. P56' = P56 /\ Computed' = Computed /\ Judged' = Judged
      BY DEF P56, Computed, Judged
    <2>2. Form(s)'
      BY <1>2, <2>1 DEF UnderWay, Form, AreItems
    <2>3. \A kinds : Of(s, kinds)' = Of(s, kinds)
      BY DEF Of
    <2>4. Of(s, LabelKinds) => Labelling(s)'
      BY <1>2, <2>1 DEF UnderWay, Labelling, AreItems
    <2>5. Of(s, {"generate"}) => Generating(s)'
      BY <1>2, <2>1 DEF UnderWay, Generating, AreItems
    <2>6. Of(s, {"freeze"}) => Freezing(s)'
      BY <1>2, <2>1 DEF UnderWay, Freezing
    <2>7. Of(s, {"reveal", "blind_reveal"}) => Revealing(s)'
      BY <1>2, <2>1 DEF UnderWay, Revealing
    <2>8. Of(s, {"finalize"}) => Finalizing(s)'
      <3>1. \A a, b, c : Stands(a, b, c) => Stands(a, b, c)'
        BY DEF Stands, LabelsFingerprint, ModelFingerprint, Cases, Disagrees, MetricCase,
               HumanSnapshot, ModelSnapshot
      <3> QED
        BY <1>2, <2>1, <3>1 DEF UnderWay, Finalizing
    <2>9. Of(s, {"review"}) => Reviewing(s)'
      BY <1>2 DEF UnderWay, Reviewing
    <2> QED
      BY <2>2, <2>3, <2>4, <2>5, <2>6, <2>7, <2>8, <2>9 DEF UnderWay
  <1> QED
    BY <1>1, <1>2

\* A step within one transaction keeps the invariant when that transaction is
\* still in order and has not written a row another one holds.
LEMMA MoveKeeps ==
    ASSUME ValidationInductive, NEW s \in Sessions, NEW r,
           batch # NoBatch, txn' = [txn EXCEPT ![s] = r],
           UNCHANGED <<batch, items, reviews, amendments, inputs, lostUpdate>>,
           report' = report \/ report' # None,
           UnderWay(s)',
           \/ r.pc = "idle"
           \/ \A t \in Sessions \ {s} :
                 ~At(t, "idle") => DOMAIN r.writes \cap DOMAIN txn[t].writes = {}
    PROVE  ValidationInductive'
  <1> USE DEF ValidationInductive
  <1>1. /\ IsFcn(txn') /\ DOMAIN txn' = Sessions /\ txn'[s] = r
        /\ \A t \in Sessions \ {s} : txn'[t] = txn[t]
    BY DEF Rows, IsFcn
  <1>2. Requests'
    BY <1>1, OthersStay DEF Requests
  <1>3. \A t \in Sessions : ~At(t, "idle")' => (DOMAIN txn[t].writes \subseteq DOMAIN items)'
    BY <1>2 DEF Requests, UnderWay, Form, AreItems
  <1>4. TypeOK'
    BY <1>3 DEF TypeOK
  <1>5. Rows'
    BY <1>1 DEF Rows
  <1>6. Stages' /\ VerdictStands'
    BY DEF Stages, VerdictStands, P56, Blind, Judged, Computed, LabelsFingerprint,
           ModelFingerprint, Cases, Disagrees, MetricCase, HumanSnapshot, ModelSnapshot
  <1>7. OwnRows'
    BY <1>1 DEF OwnRows, At
  <1> QED
    BY <1>2, <1>4, <1>5, <1>6, <1>7

\* A request that is rolled back leaves nothing.
LEMMA RollbackKeeps ==
    ASSUME ValidationInductive, NEW s \in Sessions, Rollback(s) PROVE ValidationInductive'
  <1>1. txn' = [txn EXCEPT ![s] = Idle] /\ Idle.pc = "idle"
    BY DEF Rollback, Goes, Idle
  <1>2. txn'[s] = Idle
    BY <1>1 DEF ValidationInductive, Rows
  <1>3. UnderWay(s)'
    BY <1>1, <1>2 DEF UnderWay, At
  <1>4. batch # NoBatch
    BY DEF Rollback, ValidationInductive, Requests, UnderWay, Form
  <1> QED
    BY <1>1, <1>3, <1>4, MoveKeeps DEF Rollback, Goes

\* A new request has the batch as it is and has written nothing.
LEMMA BeginKeeps ==
    ASSUME ValidationInductive, NEW s \in Sessions, NEW kind \in Kinds, Begin(s, kind)
    PROVE  ValidationInductive'
  <1> USE DEF ValidationInductive
  <1>1. PICK payload \in Payloads(kind) : txn' = [txn EXCEPT ![s] = Request(kind, payload)]
    BY DEF Begin
  <1> DEFINE r == Request(kind, payload)
  <1>2. /\ IsFcn(r) /\ DOMAIN r = TxnFields /\ r.pc = "load" /\ r.kind = kind
        /\ r.payload = payload /\ r.writes = <<>> /\ r.out = <<>>
        /\ kind \in StageKinds => r.seen = batch
    BY DEF Request, TxnFields, IsFcn
  <1>3. txn' = [txn EXCEPT ![s] = r] /\ txn'[s] = r
    BY <1>1 DEF Rows
  <1> HIDE DEF r
  <1>4. /\ batch # NoBatch /\ Accepts(kind)
        /\ kind \in P56Kinds => P56
        /\ UNCHANGED <<batch, items, reviews, amendments, inputs, report, lostUpdate>>
    BY DEF Begin, P56
  <1>5. Form(s)'
    <2>1. AreItems(<<>>)'
      BY DEF AreItems, IsFcn
    <2>2. P56' = P56 /\ batch' # NoBatch
      BY <1>4 DEF P56
    <2>3. txn'[s].pc = "load" /\ txn'[s].writes = <<>> /\ txn'[s].kind = kind
      BY <1>2, <1>3
    <2>4. IsFcn(txn'[s]) /\ DOMAIN txn'[s] = TxnFields
      BY <1>2, <1>3
    <2> QED
      BY <1>4, <2>1, <2>2, <2>3, <2>4 DEF Form
  <1>6. kind \in LabelKinds => Labelling(s)'
    <2> SUFFICES ASSUME kind \in LabelKinds PROVE Labelling(s)'
      OBVIOUS
    <2>1. \A l \in DOMAIN payload :
             /\ l \in DOMAIN items
             /\ kind = "label" => /\ payload[l].class \in HumanClasses
                                  /\ payload[l].workflow \in Workflows
      BY ValidationAssumption DEF Payloads, LabelKinds
    <2> QED
      BY <1>2, <1>3, <1>4, <2>1 DEF Labelling
  <1>7. kind = "generate" => Generating(s)'
    <2> SUFFICES ASSUME kind = "generate" PROVE Generating(s)'
      OBVIOUS
    <2>1. batch.status = "labels_frozen"
      BY <1>4 DEF Accepts
    <2>2. r.seen = batch
      BY <1>2 DEF StageKinds
    <2> QED
      BY <1>2, <1>3, <1>4, <2>1, <2>2 DEF Generating
  <1>8. kind = "freeze" => Freezing(s)'
    <2> SUFFICES ASSUME kind = "freeze" PROVE Freezing(s)'
      OBVIOUS
    <2>1. batch.status = "blind_labeling"
      BY <1>4 DEF Accepts
    <2>2. r.seen = batch
      BY <1>2 DEF StageKinds
    <2> QED
      BY <1>2, <1>3, <1>4, <2>1, <2>2 DEF Freezing
  <1>9. kind \in {"reveal", "blind_reveal"} => Revealing(s)'
    <2>1. kind = "reveal" => Computed
      <3>1. kind = "reveal" => batch.status = "model_generated" /\ P56
        BY <1>4 DEF Accepts, P56Kinds
      <3> QED
        BY <3>1 DEF Stages
    <2> QED
      BY <1>2, <1>3, <1>4, <2>1 DEF Revealing, Computed
  <1>10. kind = "finalize" => Finalizing(s)'
    <2>1. kind = "finalize" => Computed
      <3>1. kind = "finalize" => batch.status = "revealed" /\ P56
        BY <1>4 DEF Accepts, P56Kinds
      <3> QED
        BY <3>1 DEF Stages
    <2> QED
      BY <1>2, <1>3, <1>4, <2>1 DEF Finalizing, Computed
  <1>11. kind = "review" => Reviewing(s)'
    <2> SUFFICES ASSUME kind = "review" PROVE Reviewing(s)'
      OBVIOUS
    <2>1. payload \in ReviewRequests /\ DOMAIN payload \subseteq DOMAIN items
      BY DEF Payloads, LabelKinds
    <2>2. \A l \in DOMAIN payload : /\ payload[l].verdict \in Verdicts
                                    /\ payload[l].root_cause \in RootCauses \cup {None}
      BY <2>1, ValidationAssumption
    <2> QED
      BY <1>2, <1>3, <1>4, <2>1, <2>2 DEF Reviewing
  <1>12. UnderWay(s)'
    BY <1>2, <1>3, <1>5, <1>6, <1>7, <1>8, <1>9, <1>10, <1>11 DEF UnderWay, Of, LabelKinds
  <1>13. \A t \in Sessions \ {s} :
             ~At(t, "idle") => DOMAIN r.writes \cap DOMAIN txn[t].writes = {}
    <2>1. DOMAIN r.writes = {}
      BY <1>2
    <2> QED
      BY <2>1
  <1> QED
    BY <1>3, <1>4, <1>12, <1>13, MoveKeeps

-----------------------------------------------------------------------------
(* Labels. *)

\* The row a statement of an open request sees is a row.
LEMMA CurrentIsItem ==
    ASSUME ValidationInductive, NEW s \in Sessions, ~At(s, "idle"), NEW l \in DOMAIN items
    PROVE  IsItem(Current(s, l))
  BY DEF ValidationInductive, Rows, Requests, UnderWay, Form, AreItems, Current

\* An update leaves a row: the columns that changed, over the row as it is.
LEMMA FlushedIsItem ==
    ASSUME NEW s \in Sessions, NEW l,
           IsItem(txn[s].target[l]), IsItem(txn[s].loaded[l]), IsItem(Current(s, l))
    PROVE  /\ IsItem(Flushed(s, l))
           /\ \A c \in ItemColumns :
                 Flushed(s, l)[c] = IF txn[s].target[l][c] # txn[s].loaded[l][c]
                                    THEN txn[s].target[l][c] ELSE Current(s, l)[c]
  <1>1. /\ IsFcn(Flushed(s, l)) /\ DOMAIN Flushed(s, l) = ItemColumns
        /\ \A c \in ItemColumns :
              Flushed(s, l)[c] = IF txn[s].target[l][c] # txn[s].loaded[l][c]
                                 THEN txn[s].target[l][c] ELSE Current(s, l)[c]
    BY DEF Flushed, ItemColumns, IsFcn
  <1>2. {"human_class", "human_workflow", "rank"} \subseteq ItemColumns
    BY BlankIsItem
  <1> QED
    BY <1>1, <1>2 DEF IsItem

\* A label keeps the result of its row and takes no class back.
LEMMA LabelledIsItem ==
    ASSUME NEW item, IsItem(item), NEW kind \in LabelKinds, NEW label,
           kind = "label" => label.class \in HumanClasses /\ label.workflow \in Workflows
    PROVE  /\ IsItem(Labelled(item, kind, label))
           /\ SameResult(Labelled(item, kind, label), item)
           /\ Labelled(item, kind, label).human_class = None => item.human_class = None
  <1>1. CASE kind = "label"
    <2> DEFINE new == [item EXCEPT !.human_class = label.class, !.human_workflow = label.workflow,
                                   !.human_visit = label.visit, !.notes = label.notes]
    <2>1. Labelled(item, kind, label) = new
      BY <1>1 DEF Labelled
    <2>2. /\ IsFcn(new) /\ DOMAIN new = ItemColumns
          /\ new.human_class = label.class /\ new.human_workflow = label.workflow
          /\ new.rank = item.rank /\ new.model = item.model
      BY BlankIsItem DEF IsItem, IsFcn
    <2>3. label.class # None
      BY <1>1, ValidationAssumption
    <2> HIDE DEF new
    <2> QED
      BY <1>1, <2>1, <2>2, <2>3 DEF IsItem, SameResult
  <1>2. CASE kind # "label"
    <2> DEFINE new == [item EXCEPT !.human_label = label, !.notes = None]
    <2>1. Labelled(item, kind, label) = new
      BY <1>2 DEF Labelled
    <2>2. /\ IsFcn(new) /\ DOMAIN new = ItemColumns
          /\ new.human_class = item.human_class /\ new.human_workflow = item.human_workflow
          /\ new.rank = item.rank /\ new.model = item.model
      BY BlankIsItem DEF IsItem, IsFcn
    <2> HIDE DEF new
    <2> QED
      BY <2>1, <2>2 DEF IsItem, SameResult
  <1> QED
    BY <1>1, <1>2

\* A request loads a row and prepares its label.
LEMMA LoadLabelKeeps ==
    ASSUME ValidationInductive, NEW s \in Sessions, LoadLabel(s) PROVE ValidationInductive'
  <1> USE DEF ValidationInductive
  <1>1. PICK l \in DOMAIN txn[s].payload :
            Goes(s, [txn[s] EXCEPT !.pc = "write",
                        !.loaded = One(l, Current(s, l)),
                        !.target = One(l, Labelled(Current(s, l), txn[s].kind, txn[s].payload[l]))])
    BY DEF LoadLabel
  <1> DEFINE t == txn[s]
             label == t.payload[l]
             loaded == One(l, Current(s, l))
             target == One(l, Labelled(Current(s, l), t.kind, label))
             r == [t EXCEPT !.pc = "write", !.loaded = loaded, !.target = target]
  <1>2. /\ ~At(s, "idle") /\ t.kind \in LabelKinds /\ t.pc = "load"
        /\ Form(s) /\ Labelling(s) /\ l \in DOMAIN items
    BY DEF LoadLabel, Of, At, Requests, UnderWay, Labelling
  <1>3. /\ IsFcn(r) /\ DOMAIN r = TxnFields /\ r.pc = "write" /\ r.kind = t.kind
        /\ r.loaded = loaded /\ r.target = target
        /\ r.writes = t.writes /\ r.out = t.out /\ r.payload = t.payload
    BY <1>2 DEF Form, TxnFields, IsFcn
  <1>4. IsItem(Current(s, l))
    BY <1>2, CurrentIsItem
  <1>5. /\ IsItem(target[l]) /\ SameResult(target[l], loaded[l])
        /\ target[l].human_class = None => loaded[l].human_class = None
    <2> DEFINE new == Labelled(Current(s, l), t.kind, label)
    <2>1. t.kind = "label" => label.class \in HumanClasses /\ label.workflow \in Workflows
      BY <1>2 DEF Labelling
    <2>2. /\ IsItem(new) /\ SameResult(new, Current(s, l))
          /\ new.human_class = None => Current(s, l).human_class = None
      BY <1>2, <1>4, <2>1, LabelledIsItem
    <2>3. target[l] = new /\ loaded[l] = Current(s, l)
      BY OneTable
    <2> QED
      BY <2>2, <2>3
  <1>6. AreItems(loaded) /\ AreItems(target) /\ DOMAIN target = {l} /\ DOMAIN loaded = {l}
    <2>1. DOMAIN target = {l} /\ DOMAIN loaded = {l} /\ loaded[l] = Current(s, l)
      BY OneTable
    <2>2. IsFcn(target) /\ IsFcn(loaded)
      BY OneTable
    <2> HIDE DEF target, loaded
    <2> QED
      BY <1>2, <1>4, <1>5, <2>1, <2>2 DEF AreItems
  <1>7. /\ txn' = [txn EXCEPT ![s] = r] /\ txn'[s] = r /\ UNCHANGED report
        /\ UNCHANGED <<batch, items, reviews, amendments, inputs, lostUpdate>>
    BY <1>1 DEF LoadLabel, Goes, Rows
  <1> HIDE DEF r, target, loaded
  <1>8. Form(s)'
    BY <1>2, <1>3, <1>7 DEF Form, AreItems, P56
  <1>9. Labelling(s)'
    BY <1>2, <1>3, <1>5, <1>6, <1>7 DEF Labelling, AreItems, P56
  <1>10. UnderWay(s)'
    BY <1>2, <1>3, <1>7, <1>8, <1>9 DEF UnderWay, Of, LabelKinds
  <1>11. \A u \in Sessions \ {s} :
             ~At(u, "idle") => DOMAIN r.writes \cap DOMAIN txn[u].writes = {}
    BY <1>2, <1>3 DEF OwnRows
  <1>12. batch # NoBatch
    BY <1>2 DEF Form
  <1> QED
    BY <1>7, <1>10, <1>11, <1>12, MoveKeeps

\* A row that no other transaction has locked joins those a request has written.
LEMMA WriteIsOwn ==
    ASSUME OwnRows, NEW s \in Sessions, ~At(s, "idle"), NEW l, ~Locked(s, l),
           NEW u \in Sessions \ {s}, ~At(u, "idle")
    PROVE  ({l} \cup DOMAIN txn[s].writes) \cap DOMAIN txn[u].writes = {}
  <1>1. l \notin DOMAIN txn[u].writes
    BY DEF Locked, At
  <1>2. DOMAIN txn[s].writes \cap DOMAIN txn[u].writes = {}
    BY DEF OwnRows
  <1> QED
    BY <1>1, <1>2

\* A label is written over its row: what was judged changes only where there
\* is no result, whatever the stage at which this request read the batch.
LEMMA WriteLabelKeeps ==
    ASSUME ValidationInductive, NEW s \in Sessions, WriteLabel(s) PROVE ValidationInductive'
  <1> USE DEF ValidationInductive
  <1> DEFINE t == txn[s]
  <1>1. PICK l \in DOMAIN t.target :
          /\ ~Locked(s, l)
          /\ TriggerAllows(Current(s, l), Flushed(s, l))
          /\ LET writes == Over(One(l, Flushed(s, l)), txn[s].writes)
             IN  Goes(s, [txn[s] EXCEPT
                             !.writes = writes, !.target = <<>>, !.loaded = <<>>,
                             !.payload = Restrict(@, DOMAIN @ \ {l}),
                             !.pc = IF DOMAIN txn[s].payload = {l} THEN "commit" ELSE "load"])
    BY DEF WriteLabel
  <1> DEFINE new == Flushed(s, l)
             writes == Over(One(l, new), t.writes)
             payload == Restrict(t.payload, DOMAIN t.payload \ {l})
             pc == IF DOMAIN t.payload = {l} THEN "commit" ELSE "load"
             r == [t EXCEPT !.writes = writes, !.target = <<>>, !.loaded = <<>>,
                            !.payload = payload, !.pc = pc]
  <1>2. /\ ~At(s, "idle") /\ t.kind \in LabelKinds /\ t.pc = "write"
        /\ Form(s) /\ Labelling(s)
    BY DEF WriteLabel, Of, At, Requests, UnderWay
  <1>3. /\ AreItems(t.loaded) /\ AreItems(t.target) /\ l \in DOMAIN t.loaded /\ l \in DOMAIN items
        /\ SameResult(t.target[l], t.loaded[l])
        /\ t.target[l].human_class = None => t.loaded[l].human_class = None
    BY <1>2 DEF Labelling, AreItems
  <1>4. IsItem(Current(s, l)) /\ IsItem(t.target[l]) /\ IsItem(t.loaded[l])
    BY <1>2, <1>3, CurrentIsItem DEF AreItems
  <1>5. /\ IsItem(new)
        /\ SameResult(new, Current(s, l))
        /\ new.human_class = None => Current(s, l).human_class = None
    <2>1. /\ IsItem(new)
          /\ \A c \in {"model", "rank", "human_class"} :
                new[c] = IF t.target[l][c] # t.loaded[l][c]
                         THEN t.target[l][c] ELSE Current(s, l)[c]
      BY <1>4, FlushedIsItem, BlankIsItem
    <2> HIDE DEF new
    <2>2. new.model = Current(s, l).model /\ new.rank = Current(s, l).rank
      BY <1>3, <2>1 DEF SameResult
    <2> QED
      BY <1>3, <2>1, <2>2 DEF SameResult
  <1>6. P56 => SameJudgement(new, Current(s, l)) \/ items[l].model = None
    <2> HAVE P56
    <2>1. CASE batch.status = "blind_labeling"
      BY <1>3, <2>1 DEF Stages, Blind
    <2>2. CASE batch.status # "blind_labeling"
      <3>1. HumanSnapshot(new) = HumanSnapshot(Current(s, l))
        BY <1>1, <2>2 DEF TriggerAllows, P56
      <3> QED
        BY <3>1 DEF HumanSnapshot, SameJudgement
    <2> QED
      BY <2>1, <2>2
  <1>7. /\ SameResult(new, items[l])
        /\ new.human_class = None => items[l].human_class = None
        /\ P56 => SameJudgement(new, items[l]) \/ items[l].model = None
    <2>1. CASE l \in DOMAIN t.writes
      BY <1>2, <1>5, <1>6, <2>1 DEF Current, Labelling, SameResult, SameJudgement
    <2>2. CASE l \notin DOMAIN t.writes
      BY <1>5, <1>6, <2>2 DEF Current
    <2> QED
      BY <2>1, <2>2
  <1> HIDE DEF new
  <1>8. /\ IsFcn(writes) /\ DOMAIN writes = {l} \cup DOMAIN t.writes /\ writes[l] = new
        /\ \A m \in DOMAIN t.writes \ {l} : writes[m] = t.writes[m]
        /\ \A u \in Sessions \ {s} :
              ~At(u, "idle") => DOMAIN writes \cap DOMAIN txn[u].writes = {}
    <2>1. IsFcn(writes) /\ DOMAIN writes = {l} \cup DOMAIN t.writes /\ writes[l] = new
      BY DEF Over, One, IsFcn
    <2>2. \A m \in DOMAIN t.writes \ {l} : writes[m] = t.writes[m]
      BY DEF Over, One
    <2>3. ASSUME NEW u \in Sessions \ {s}, ~At(u, "idle")
          PROVE  DOMAIN writes \cap DOMAIN txn[u].writes = {}
      BY <1>1, <1>2, <2>1, <2>3, WriteIsOwn
    <2> QED
      BY <2>1, <2>2, <2>3
  <1>9. /\ DOMAIN payload = DOMAIN t.payload \ {l}
        /\ \A m \in DOMAIN payload : payload[m] = t.payload[m]
    BY DEF Restrict
  <1>10. /\ IsFcn(r) /\ DOMAIN r = TxnFields /\ r.pc = pc /\ r.kind = t.kind
         /\ r.writes = writes /\ r.out = t.out /\ r.payload = payload
    BY <1>2 DEF Form, TxnFields, IsFcn
  <1>11. txn' = [txn EXCEPT ![s] = r] /\ UNCHANGED <<batch, items, reviews, amendments, inputs, lostUpdate>>
    BY <1>1 DEF Goes, new
  <1>12. txn'[s] = r /\ UNCHANGED report /\ pc \in {"load", "commit"}
    BY <1>11 DEF WriteLabel, Rows
  <1> HIDE DEF r, writes, payload, pc
  <1>13. AreItems(writes)
    BY <1>2, <1>3, <1>5, <1>8 DEF AreItems, Form
  <1>14. Form(s)'
    BY <1>2, <1>10, <1>11, <1>12, <1>13 DEF Form, AreItems, P56
  <1>15. Labelling(s)'
    <2>1. /\ r.out = <<>> /\ r.pc # "write"
          /\ \A m \in DOMAIN payload :
                /\ m \in DOMAIN items
                /\ t.kind = "label" => /\ payload[m].class \in HumanClasses
                                       /\ payload[m].workflow \in Workflows
      BY <1>2, <1>9, <1>10, <1>12 DEF Labelling
    <2>2. \A m \in DOMAIN writes :
              /\ SameResult(writes[m], items[m])
              /\ writes[m].human_class = None => items[m].human_class = None
              /\ P56 => SameJudgement(writes[m], items[m]) \/ items[m].model = None
      BY <1>2, <1>7, <1>8 DEF Labelling
    <2> QED
      BY <1>10, <1>11, <1>12, <2>1, <2>2 DEF Labelling, P56
  <1>16. UnderWay(s)'
    BY <1>2, <1>10, <1>12, <1>14, <1>15 DEF UnderWay, Of, LabelKinds
  <1>17. batch # NoBatch
    BY <1>2 DEF Form
  <1> QED
    BY <1>8, <1>10, <1>11, <1>12, <1>16, <1>17, MoveKeeps

-----------------------------------------------------------------------------
(* Stages and reviews: a request checks the rows and prepares its commit. *)

\* A request that writes no rows goes on to its commit, where only what its
\* kind asks of it is left to show.
LEMMA PreparedKeeps ==
    ASSUME ValidationInductive, NEW s \in Sessions, ~At(s, "idle"),
           txn[s].kind \notin LabelKinds \cup {"generate"},
           NEW r, r.pc = "commit", IsFcn(r), DOMAIN r = TxnFields,
           \A f \in TxnFields \ {"pc", "out"} : r[f] = txn[s][f],
           txn' = [txn EXCEPT ![s] = r],
           UNCHANGED <<batch, items, reviews, amendments, inputs, lostUpdate>>,
           report' = report \/ report' # None,
           txn[s].kind = "freeze" => Freezing(s)',
           txn[s].kind \in {"reveal", "blind_reveal"} => Revealing(s)',
           txn[s].kind = "finalize" => Finalizing(s)',
           txn[s].kind = "review" => Reviewing(s)'
    PROVE  ValidationInductive'
  <1> USE DEF ValidationInductive
  <1>1. Form(s) /\ txn[s].writes = <<>> /\ batch # NoBatch
    BY DEF Requests, UnderWay, Form
  <1>2. txn'[s] = r /\ r.kind = txn[s].kind /\ r.writes = txn[s].writes
    BY DEF Rows, TxnFields
  <1>3. Form(s)'
    <2>1. P56' = P56
      BY DEF P56
    <2> QED
      BY <1>1, <1>2, <2>1 DEF Form, AreItems
  <1>4. UnderWay(s)'
    BY <1>2, <1>3 DEF UnderWay, Of
  <1>5. \A u \in Sessions \ {s} :
            ~At(u, "idle") => DOMAIN r.writes \cap DOMAIN txn[u].writes = {}
    <2>1. DOMAIN r.writes = {}
      BY <1>1, <1>2
    <2> QED
      BY <2>1
  <1> QED
    BY <1>1, <1>4, <1>5, MoveKeeps

\* An open request is a record.
LEMMA RequestIsRecord ==
    ASSUME ValidationInductive, NEW s \in Sessions, ~At(s, "idle")
    PROVE  IsFcn(txn[s]) /\ DOMAIN txn[s] = TxnFields
  BY DEF ValidationInductive, Requests, UnderWay, Form

\* A freeze is prepared when every item is labelled.
LEMMA FreezeLabelsKeeps ==
    ASSUME ValidationInductive, NEW s \in Sessions, FreezeLabels(s) PROVE ValidationInductive'
  <1> DEFINE columns == [status |-> "labels_frozen", human_labels |-> LabelsFingerprint(items)]
             r == [txn[s] EXCEPT !.pc = "commit", !.out = columns]
  <1>1. /\ ~At(s, "idle") /\ txn[s].kind = "freeze" /\ Freezing(s) /\ Judged
        /\ txn' = [txn EXCEPT ![s] = r] /\ UNCHANGED report
        /\ UNCHANGED <<batch, items, reviews, amendments, inputs, lostUpdate>>
    BY DEF FreezeLabels, Of, At, Prepares, Goes, ValidationInductive, Requests, UnderWay, Judged,
           FullyLabeled
  <1>2. DOMAIN columns = {"status", "human_labels"} /\ columns.status = "labels_frozen"
    OBVIOUS
  <1> HIDE DEF columns
  <1>3. /\ IsFcn(r) /\ DOMAIN r = TxnFields
        /\ r.pc = "commit" /\ r.out = columns /\ r.seen = txn[s].seen
        /\ \A f \in TxnFields \ {"pc", "out"} : r[f] = txn[s][f]
    BY <1>1, RequestIsRecord DEF IsFcn, TxnFields
  <1> HIDE DEF r
  <1>4. txn'[s] = r
    BY <1>1 DEF ValidationInductive, Rows
  <1>5. Freezing(s)'
    BY <1>1, <1>2, <1>3, <1>4 DEF Freezing, Judged
  <1> QED
    BY <1>1, <1>3, <1>5, PreparedKeeps DEF LabelKinds

\* A reveal is prepared when labels and results are the frozen ones.
LEMMA RevealRunKeeps ==
    ASSUME ValidationInductive, NEW s \in Sessions, RevealRun(s) PROVE ValidationInductive'
  <1> DEFINE columns == [status |-> "revealed", metrics |-> RealWorldMetrics(Cases(items), <<>>)]
             r == [txn[s] EXCEPT !.pc = "commit", !.out = columns]
  <1>1. /\ ~At(s, "idle") /\ txn[s].kind = "reveal" /\ Revealing(s)
        /\ txn' = [txn EXCEPT ![s] = r] /\ UNCHANGED report
        /\ UNCHANGED <<batch, items, reviews, amendments, inputs, lostUpdate>>
    BY DEF RevealRun, Of, At, Prepares, Goes, ValidationInductive, Requests, UnderWay
  <1>2. DOMAIN columns = {"status", "metrics"} /\ columns.status = "revealed"
    OBVIOUS
  <1> HIDE DEF columns
  <1>3. /\ IsFcn(r) /\ DOMAIN r = TxnFields
        /\ r.pc = "commit" /\ r.out = columns
        /\ \A f \in TxnFields \ {"pc", "out"} : r[f] = txn[s][f]
    BY <1>1, RequestIsRecord DEF IsFcn, TxnFields
  <1> HIDE DEF r
  <1>4. txn'[s] = r
    BY <1>1 DEF ValidationInductive, Rows
  <1>5. Revealing(s)'
    BY <1>1, <1>2, <1>3, <1>4 DEF Revealing, Computed
  <1> QED
    BY <1>1, <1>3, <1>5, PreparedKeeps DEF LabelKinds

\* The older reveal asks itself whether every item has a result.
LEMMA RevealBlindKeeps ==
    ASSUME ValidationInductive, NEW s \in Sessions, RevealBlind(s) PROVE ValidationInductive'
  <1> DEFINE metrics == BlindMetrics([l \in DOMAIN items |-> EvaluationCase(items[l])],
                                     {"WORTH_VIEWING", "WAIT"}, "WORTH_VIEWING")
             columns == [status |-> "revealed", metrics |-> metrics]
             r == [txn[s] EXCEPT !.pc = "commit", !.out = columns]
  <1>1. /\ ~At(s, "idle") /\ txn[s].kind = "blind_reveal" /\ Revealing(s) /\ Computed
        /\ txn' = [txn EXCEPT ![s] = r] /\ UNCHANGED report
        /\ UNCHANGED <<batch, items, reviews, amendments, inputs, lostUpdate>>
    BY DEF RevealBlind, Of, At, Prepares, Goes, ValidationInductive, Requests, UnderWay, Computed
  <1>2. DOMAIN columns = {"status", "metrics"} /\ columns.status = "revealed"
    OBVIOUS
  <1> HIDE DEF columns
  <1>3. /\ IsFcn(r) /\ DOMAIN r = TxnFields
        /\ r.pc = "commit" /\ r.out = columns
        /\ \A f \in TxnFields \ {"pc", "out"} : r[f] = txn[s][f]
    BY <1>1, RequestIsRecord DEF IsFcn, TxnFields
  <1> HIDE DEF r
  <1>4. txn'[s] = r
    BY <1>1 DEF ValidationInductive, Rows
  <1>5. Revealing(s)'
    BY <1>1, <1>2, <1>3, <1>4 DEF Revealing, Computed
  <1> QED
    BY <1>1, <1>3, <1>5, PreparedKeeps DEF LabelKinds

\* The gate always makes a recommendation.
LEMMA GateDecides ==
    ASSUME NEW metrics, NEW gate
    PROVE  /\ GateRecommendation(metrics, gate) \in Recommendations
           /\ GateRecommendation(metrics, gate) # None
  <1>1. GateRecommendation(metrics, gate) \in Recommendations
    BY DEF GateRecommendation, Recommendations
  <1> QED
    BY <1>1, ValidationAssumption

\* A finalization is prepared with the verdict of the rows it has read.
LEMMA FinalizeRunKeeps ==
    ASSUME ValidationInductive, NEW s \in Sessions, FinalizeRun(s) PROVE ValidationInductive'
  <1> DEFINE metrics == RealWorldMetrics(Cases(items), reviews)
             recommendation == GateRecommendation(metrics, Gate)
             columns == [status |-> "finalized", metrics |-> metrics,
                         final_recommendation |-> recommendation]
             r == [txn[s] EXCEPT !.pc = "commit", !.out = columns]
  <1>1. /\ ~At(s, "idle") /\ txn[s].kind = "finalize" /\ Finalizing(s)
        /\ txn' = [txn EXCEPT ![s] = r] /\ report' = recommendation
        /\ UNCHANGED <<batch, items, reviews, amendments, inputs, lostUpdate>>
    BY DEF FinalizeRun, Of, At, Prepares, Goes, ValidationInductive, Requests, UnderWay
  <1>2. Stands(txn[s].seen.human_labels, txn[s].seen.model_outputs, recommendation)
    BY DEF FinalizeRun, Stands, LabelsIntact, ModelIntact
  <1>3. recommendation # None
    BY GateDecides
  <1> HIDE DEF recommendation
  <1>4. /\ DOMAIN columns = {"status", "metrics", "final_recommendation"}
        /\ columns.status = "finalized" /\ columns.final_recommendation = recommendation
    OBVIOUS
  <1> HIDE DEF columns
  <1>5. /\ IsFcn(r) /\ DOMAIN r = TxnFields
        /\ r.pc = "commit" /\ r.out = columns /\ r.seen = txn[s].seen
        /\ \A f \in TxnFields \ {"pc", "out"} : r[f] = txn[s][f]
    BY <1>1, RequestIsRecord DEF IsFcn, TxnFields
  <1> HIDE DEF r
  <1>6. txn'[s] = r
    BY <1>1 DEF ValidationInductive, Rows
  <1>7. \A a, b, c : Stands(a, b, c) => Stands(a, b, c)'
    BY <1>1 DEF Stands, LabelsFingerprint, ModelFingerprint, Cases, Disagrees, MetricCase,
                HumanSnapshot, ModelSnapshot
  <1>8. Finalizing(s)'
    BY <1>1, <1>2, <1>3, <1>4, <1>5, <1>6, <1>7 DEF Finalizing, Computed
  <1> QED
    BY <1>1, <1>3, <1>5, <1>8, PreparedKeeps DEF LabelKinds

\* Reviews are checked and wait for their commit.
LEMMA CheckReviewKeeps ==
    ASSUME ValidationInductive, NEW s \in Sessions, CheckReview(s) PROVE ValidationInductive'
  <1> DEFINE r == [txn[s] EXCEPT !.pc = "commit"]
  <1>1. /\ ~At(s, "idle") /\ txn[s].kind = "review" /\ Reviewing(s)
        /\ txn' = [txn EXCEPT ![s] = r] /\ UNCHANGED report
        /\ UNCHANGED <<batch, items, reviews, amendments, inputs, lostUpdate>>
    BY DEF CheckReview, Of, At, Goes, ValidationInductive, Requests, UnderWay
  <1>2. /\ IsFcn(r) /\ DOMAIN r = TxnFields
        /\ r.pc = "commit" /\ r.out = txn[s].out /\ r.payload = txn[s].payload
        /\ \A f \in TxnFields \ {"pc", "out"} : r[f] = txn[s][f]
    BY <1>1, RequestIsRecord DEF IsFcn, TxnFields
  <1> HIDE DEF r
  <1>3. txn'[s] = r
    BY <1>1 DEF ValidationInductive, Rows
  <1>4. Reviewing(s)'
    BY <1>1, <1>2, <1>3 DEF Reviewing
  <1> QED
    BY <1>1, <1>2, <1>4, PreparedKeeps DEF LabelKinds

-----------------------------------------------------------------------------
(* Generation: the rows are read, ranked and written one by one. *)

\* The rows a generation reads are those it will rank.
LEMMA CheckFrozenRuntimeKeeps ==
    ASSUME ValidationInductive, NEW s \in Sessions, CheckFrozenRuntime(s)
    PROVE  ValidationInductive'
  <1> USE DEF ValidationInductive
  <1> DEFINE r == [txn[s] EXCEPT !.pc = "evaluate", !.loaded = items]
  <1>1. /\ ~At(s, "idle") /\ txn[s].kind = "generate" /\ txn[s].pc = "load"
        /\ Form(s) /\ Generating(s)
        /\ txn' = [txn EXCEPT ![s] = r] /\ UNCHANGED report
        /\ UNCHANGED <<batch, items, reviews, amendments, inputs, lostUpdate>>
    BY DEF CheckFrozenRuntime, Of, At, Goes, Requests, UnderWay
  <1>2. /\ IsFcn(r) /\ DOMAIN r = TxnFields /\ r.pc = "evaluate" /\ r.loaded = items
        /\ r.kind = "generate" /\ r.seen = txn[s].seen
        /\ r.writes = txn[s].writes /\ r.out = txn[s].out
    BY <1>1, RequestIsRecord DEF IsFcn, TxnFields
  <1> HIDE DEF r
  <1>3. txn'[s] = r /\ AreItems(items)
    BY <1>1 DEF Rows, AreItems
  <1>4. Form(s)'
    BY <1>1, <1>2, <1>3 DEF Form, AreItems, P56
  <1>5. r.writes = <<>> /\ r.out = <<>> /\ DOMAIN r.writes = {}
    BY <1>1, <1>2 DEF Generating
  <1>6. Generating(s)'
    BY <1>1, <1>2, <1>3, <1>5 DEF Generating, AreItems
  <1>7. UnderWay(s)'
    BY <1>2, <1>3, <1>4, <1>6 DEF UnderWay, Of, LabelKinds
  <1>8. \A u \in Sessions \ {s} :
            ~At(u, "idle") => DOMAIN r.writes \cap DOMAIN txn[u].writes = {}
    BY <1>5
  <1>9. batch # NoBatch
    BY <1>1 DEF Form
  <1> QED
    BY <1>1, <1>7, <1>8, <1>9, MoveKeeps

\* Every item gets its result and its rank, from the inputs as they are.
LEMMA EvaluateKeeps ==
    ASSUME ValidationInductive, NEW s \in Sessions, Evaluate(s) PROVE ValidationInductive'
  <1> USE DEF ValidationInductive
  <1> DEFINE rows == Ranked(txn[s].loaded, Results(DOMAIN items))
             columns == [status |-> "model_generated", model_outputs |-> ModelFingerprint(rows)]
             r == [txn[s] EXCEPT !.pc = "write", !.target = rows, !.out = columns]
  <1>1. /\ ~At(s, "idle") /\ txn[s].pc = "evaluate" /\ Form(s)
        /\ txn' = [txn EXCEPT ![s] = r] /\ UNCHANGED report
        /\ UNCHANGED <<batch, items, reviews, amendments, inputs, lostUpdate>>
    BY DEF Evaluate, At, Goes, Requests, UnderWay
  <1>2. txn[s].kind = "generate" /\ Generating(s) /\ batch # NoBatch
    BY <1>1 DEF Form, Requests, UnderWay, Of
  <1>3. AreItems(txn[s].loaded) /\ DOMAIN txn[s].loaded = DOMAIN items
    BY <1>1, <1>2 DEF Generating
  <1>4. /\ IsFcn(rows) /\ DOMAIN rows = DOMAIN items
        /\ \A l \in DOMAIN items : /\ IsItem(rows[l])
                                   /\ SameJudgement(rows[l], txn[s].loaded[l])
                                   /\ rows[l].model # None
    <2> DEFINE loaded == txn[s].loaded
    <2>1. /\ DOMAIN loaded \subseteq Listings /\ inputs \in 0..MaxInputs
          /\ \A l \in DOMAIN loaded : IsItem(loaded[l])
      BY <1>3 DEF TypeOK, AreItems
    <2>2. rows = Ranked(loaded, Results(DOMAIN loaded))
      BY <1>3
    <2> HIDE DEF rows, loaded
    <2>3. /\ IsFcn(rows) /\ DOMAIN rows = DOMAIN loaded
          /\ \A l \in DOMAIN loaded : /\ IsItem(rows[l])
                                      /\ SameJudgement(rows[l], loaded[l])
                                      /\ rows[l].model # None
      BY <2>1, <2>2, RankedRows
    <2> QED
      BY <1>3, <2>3 DEF loaded
  <1>5. DOMAIN columns = {"status", "model_outputs"} /\ columns.status = "model_generated"
    OBVIOUS
  <1> HIDE DEF rows, columns
  <1>6. /\ IsFcn(r) /\ DOMAIN r = TxnFields /\ r.pc = "write" /\ r.loaded = txn[s].loaded
        /\ r.kind = "generate" /\ r.seen = txn[s].seen /\ r.target = rows
        /\ r.writes = txn[s].writes /\ r.out = columns
    BY <1>1, <1>2, RequestIsRecord DEF IsFcn, TxnFields
  <1> HIDE DEF r
  <1>7. txn'[s] = r
    BY <1>1 DEF Rows
  <1>8. Form(s)'
    BY <1>1, <1>2, <1>6, <1>7 DEF Form, AreItems, P56
  <1>9. r.writes = <<>> /\ DOMAIN r.writes = {}
    BY <1>1, <1>2, <1>6 DEF Generating
  <1>10. Generating(s)'
    <2>1. AreItems(rows)
      BY <1>4 DEF AreItems
    <2>2. /\ txn[s].seen.status = "labels_frozen" /\ batch.status # "blind_labeling"
          /\ \A l \in DOMAIN items : txn[s].loaded[l].model # None => items[l].model # None
      BY <1>1, <1>2 DEF Generating
    <2> QED
      BY <1>1, <1>3, <1>4, <1>5, <1>6, <1>7, <1>9, <2>1, <2>2 DEF Generating, AreItems
  <1>11. UnderWay(s)'
    BY <1>6, <1>7, <1>8, <1>10 DEF UnderWay, Of, LabelKinds
  <1>12. \A u \in Sessions \ {s} :
             ~At(u, "idle") => DOMAIN r.writes \cap DOMAIN txn[u].writes = {}
    BY <1>9
  <1> QED
    BY <1>1, <1>2, <1>11, <1>12, MoveKeeps

\* A set of listings that is not empty has a first one.
LEMMA SmallestListing ==
    ASSUME NEW S, S \subseteq Listings, S # {}
    PROVE  (CHOOSE m \in S : \A n \in S : m <= n) \in S
  <1>1. S \subseteq Nat
    BY ValidationAssumption
  <1>2. \E m \in S : \A n \in S : ~(<<n, m>> \in OpToRel(<, Nat))
    BY <1>1, NatLessThanWellFounded, WFMin
  <1>3. PICK m \in S : \A n \in S : ~(<<n, m>> \in OpToRel(<, Nat))
    BY <1>2
  <1>4. ASSUME NEW n \in S, n < m PROVE FALSE
    <2>1. <<n, m>> \in Nat \X Nat
      BY <1>1
    <2>2. <<n, m>>[1] < <<n, m>>[2]
      BY <1>4
    <2>3. <<n, m>> \in OpToRel(<, Nat)
      BY <2>1, <2>2, Zenon DEF OpToRel
    <2> QED
      BY <1>3, <2>3
  <1>5. \A n \in S : m <= n
    BY <1>1, <1>4
  <1> QED
    BY <1>5

\* A result is written over its row; when no row is left to write, every item
\* has a result, even if this generation found some of them unchanged.
LEMMA WriteResultKeeps ==
    ASSUME ValidationInductive, NEW s \in Sessions, WriteResult(s) PROVE ValidationInductive'
  <1> USE DEF ValidationInductive
  <1> DEFINE t == txn[s]
             todo == {l \in DOMAIN t.target \ DOMAIN t.writes : t.target[l] # t.loaded[l]}
  <1>1. /\ ~At(s, "idle") /\ t.kind = "generate" /\ t.pc = "write"
        /\ Form(s) /\ Generating(s) /\ batch # NoBatch
    BY DEF WriteResult, Of, At, Requests, UnderWay, Form
  <1>2. /\ AreItems(t.loaded) /\ DOMAIN t.loaded = DOMAIN items
        /\ AreItems(t.target) /\ DOMAIN t.target = DOMAIN items
        /\ \A l \in DOMAIN items : /\ t.loaded[l].model # None => items[l].model # None
                                   /\ SameJudgement(t.target[l], t.loaded[l])
                                   /\ t.target[l].model # None
        /\ \A l \in DOMAIN t.writes : /\ SameJudgement(t.writes[l], items[l])
                                      /\ t.writes[l].model # None
        /\ t.seen.status = "labels_frozen" /\ batch.status # "blind_labeling"
        /\ DOMAIN t.out = {"status", "model_outputs"}
        /\ t.out.status = "model_generated"
    BY <1>1 DEF Generating
  <1>3. /\ UNCHANGED <<batch, items, reviews, amendments, inputs, lostUpdate>>
        /\ UNCHANGED report
    BY DEF WriteResult, Goes
  <1>4. P56' = P56
    BY <1>3 DEF P56
  <1>5. CASE todo = {}
    <2> DEFINE r == [t EXCEPT !.pc = "commit", !.target = <<>>, !.loaded = <<>>]
    <2>1. txn' = [txn EXCEPT ![s] = r]
      BY <1>5 DEF WriteResult, Goes
    <2>2. /\ IsFcn(r) /\ DOMAIN r = TxnFields /\ r.pc = "commit" /\ r.kind = "generate"
          /\ r.writes = t.writes /\ r.out = t.out /\ r.seen = t.seen
      BY <1>1, RequestIsRecord DEF IsFcn, TxnFields
    <2> HIDE DEF r
    <2>3. txn'[s] = r
      BY <2>1 DEF Rows
    <2>4. Form(s)'
      BY <1>1, <1>3, <1>4, <2>2, <2>3 DEF Form, AreItems
    <2>5. \A l \in DOMAIN items \ DOMAIN t.writes : items[l].model # None
      BY <1>2, <1>5
    <2>6. Generating(s)'
      BY <1>2, <1>3, <2>2, <2>3, <2>5 DEF Generating
    <2>7. UnderWay(s)'
      BY <2>2, <2>3, <2>4, <2>6 DEF UnderWay, Of, LabelKinds
    <2>8. \A u \in Sessions \ {s} :
              ~At(u, "idle") => DOMAIN r.writes \cap DOMAIN txn[u].writes = {}
      BY <1>1, <2>2 DEF OwnRows
    <2> QED
      BY <1>1, <1>3, <2>1, <2>7, <2>8, MoveKeeps
  <1>6. CASE todo # {}
    <2> DEFINE l == CHOOSE m \in todo : \A n \in todo : m <= n
               new == Flushed(s, l)
               writes == Over(One(l, new), t.writes)
               r == [t EXCEPT !.writes = writes]
    <2>1. l \in todo
      <3>1. todo \subseteq Listings
        BY <1>2 DEF TypeOK
      <3> HIDE DEF todo
      <3> QED
        BY <1>6, <3>1, SmallestListing
    <2>2. ~Locked(s, l) /\ txn' = [txn EXCEPT ![s] = r]
      BY <1>6 DEF WriteResult, Goes
    <2>3. l \in DOMAIN items /\ l \notin DOMAIN t.writes
      BY <1>2, <2>1
    <2> HIDE DEF l
    <2>4. /\ IsItem(Current(s, l)) /\ IsItem(t.target[l]) /\ IsItem(t.loaded[l])
          /\ Current(s, l) = items[l]
      BY <1>1, <1>2, <2>3, CurrentIsItem DEF AreItems, Current
    <2>5. IsItem(new) /\ SameJudgement(new, items[l]) /\ new.model # None
      <3>1. /\ IsItem(new)
            /\ \A c \in ItemColumns : new[c] = IF t.target[l][c] # t.loaded[l][c]
                                               THEN t.target[l][c] ELSE items[l][c]
        BY <2>4, FlushedIsItem
      <3> HIDE DEF new
      <3>2. new.model # None
        BY <1>2, <2>3, <3>1, BlankIsItem
      <3>3. SameJudgement(new, items[l])
        BY <1>2, <2>3, <3>1, BlankIsItem DEF SameJudgement
      <3> QED
        BY <3>1, <3>2, <3>3
    <2> HIDE DEF new
    <2>6. IsFcn(writes) /\ DOMAIN writes = {l} \cup DOMAIN t.writes /\ writes[l] = new
      BY DEF Over, One, IsFcn
    <2>7. \A m \in DOMAIN t.writes \ {l} : writes[m] = t.writes[m]
      BY DEF Over, One
    <2> HIDE DEF writes
    <2>8. /\ IsFcn(r) /\ DOMAIN r = TxnFields /\ r.pc = "write" /\ r.kind = "generate"
          /\ r.writes = writes /\ r.out = t.out /\ r.seen = t.seen
          /\ r.loaded = t.loaded /\ r.target = t.target
      BY <1>1, RequestIsRecord DEF IsFcn, TxnFields
    <2> HIDE DEF r
    <2>9. txn'[s] = r
      BY <2>2 DEF Rows
    <2>10. AreItems(writes)
      BY <1>1, <2>3, <2>5, <2>6, <2>7 DEF AreItems, Form
    <2>11. Form(s)'
      BY <1>1, <1>3, <1>4, <2>8, <2>9, <2>10 DEF Form, AreItems
    <2>12. \A m \in DOMAIN writes : SameJudgement(writes[m], items[m]) /\ writes[m].model # None
      BY <1>2, <2>5, <2>6, <2>7
    <2>13. Generating(s)'
      BY <1>2, <1>3, <2>8, <2>9, <2>12 DEF Generating, AreItems
    <2>14. UnderWay(s)'
      BY <2>8, <2>9, <2>11, <2>13 DEF UnderWay, Of, LabelKinds
    <2>15. ASSUME NEW u \in Sessions \ {s}, ~At(u, "idle")
           PROVE  DOMAIN r.writes \cap DOMAIN txn[u].writes = {}
      BY <1>1, <2>2, <2>6, <2>8, <2>15, WriteIsOwn
    <2> QED
      BY <1>1, <1>3, <2>2, <2>14, <2>15, MoveKeeps
  <1> QED
    BY <1>5, <1>6

-----------------------------------------------------------------------------
(* Commit. *)

\* The columns a request writes: none, or those of its stage.
LEMMA CommittedColumns ==
    ASSUME ValidationInductive, NEW s \in Sessions, At(s, "commit")
    PROVE  /\ txn[s].kind \in LabelKinds \cup {"review"} => txn[s].out = <<>>
           /\ txn[s].kind = "generate" =>
                 /\ DOMAIN txn[s].out = {"status", "model_outputs"}
                 /\ txn[s].out.status = "model_generated"
           /\ txn[s].kind = "freeze" =>
                 /\ DOMAIN txn[s].out = {"status", "human_labels"}
                 /\ txn[s].out.status = "labels_frozen"
           /\ txn[s].kind \in {"reveal", "blind_reveal"} =>
                 /\ DOMAIN txn[s].out = {"status", "metrics"}
                 /\ txn[s].out.status = "revealed"
           /\ txn[s].kind = "finalize" =>
                 /\ DOMAIN txn[s].out = {"status", "metrics", "final_recommendation"}
                 /\ txn[s].out.status = "finalized"
                 /\ txn[s].out.final_recommendation # None
           /\ txn[s].kind \in LabelKinds \cup {"review", "generate", "freeze", "reveal",
                                               "blind_reveal", "finalize"}
           /\ ~At(s, "idle") /\ batch # NoBatch
  <1>1. ~At(s, "idle") /\ Form(s)
    BY DEF ValidationInductive, Requests, UnderWay, At
  <1>2. \A kinds : txn[s].kind \in kinds => Of(s, kinds)
    BY <1>1 DEF Of, At
  <1>3. txn[s].kind \in LabelKinds \cup {"review", "generate", "freeze", "reveal",
                                         "blind_reveal", "finalize"} /\ batch # NoBatch
    BY <1>1 DEF Form, Kinds, P56Kinds, LabelKinds
  <1>4. txn[s].kind \in LabelKinds \cup {"review"} => txn[s].out = <<>>
    BY <1>1, <1>2 DEF ValidationInductive, Requests, UnderWay, Labelling, Reviewing
  <1>5. txn[s].kind = "generate" => Generating(s)
    BY <1>1, <1>2 DEF ValidationInductive, Requests, UnderWay
  <1>6. txn[s].kind = "freeze" => Freezing(s)
    BY <1>1, <1>2 DEF ValidationInductive, Requests, UnderWay
  <1>7. txn[s].kind \in {"reveal", "blind_reveal"} => Revealing(s)
    BY <1>1, <1>2 DEF ValidationInductive, Requests, UnderWay
  <1>8. txn[s].kind = "finalize" => Finalizing(s)
    BY <1>1, <1>2 DEF ValidationInductive, Requests, UnderWay
  <1> QED
    BY <1>1, <1>3, <1>4, <1>5, <1>6, <1>7, <1>8
       DEF At, Generating, Freezing, Revealing, Finalizing

\* The batch after a commit: the columns of the request, over those it had.
LEMMA CommittedBatch ==
    ASSUME ValidationInductive, NEW s \in Sessions, Commit(s)
    PROVE  /\ IsFcn(batch') /\ DOMAIN batch' = BatchColumns /\ batch' # NoBatch
           /\ \A c \in BatchColumns :
                 batch'[c] = IF c \in DOMAIN txn[s].out THEN txn[s].out[c] ELSE batch[c]
           /\ batch'.protocol = batch.protocol /\ P56' = P56
           /\ txn[s].kind \in LabelKinds \cup {"review"} => batch' = batch
           /\ txn[s].kind \notin LabelKinds \cup {"review"} => batch'.status = txn[s].out.status
  <1>1. At(s, "commit") /\ batch' = Over(txn[s].out, batch)
    BY DEF Commit
  <1>2. IsFcn(batch) /\ DOMAIN batch = BatchColumns /\ batch # NoBatch
    BY <1>1, CommittedColumns DEF ValidationInductive, Rows
  <1>3. DOMAIN txn[s].out \subseteq BatchColumns \ {"protocol", "input_version"}
    BY <1>1, CommittedColumns DEF BatchColumns
  <1>4. /\ DOMAIN batch' = BatchColumns
        /\ \A c \in BatchColumns :
              batch'[c] = IF c \in DOMAIN txn[s].out THEN txn[s].out[c] ELSE batch[c]
    BY <1>1, <1>2, <1>3 DEF Over
  <1>5. IsFcn(batch')
    BY <1>1 DEF Over, IsFcn
  <1>6. batch' # NoBatch
    <2>1. DOMAIN NoBatch = {} /\ "status" \in DOMAIN batch'
      BY <1>4 DEF NoBatch, BatchColumns
    <2> QED
      BY <2>1
  <1>7. batch'.protocol = batch.protocol
    BY <1>3, <1>4 DEF BatchColumns
  <1>8. P56' = P56
    BY <1>2, <1>6, <1>7 DEF P56
  <1>9. txn[s].kind \in LabelKinds \cup {"review"} => batch' = batch
    BY <1>1, <1>2, CommittedColumns, OverNothing
  <1>10. txn[s].kind \notin LabelKinds \cup {"review"} => batch'.status = txn[s].out.status
    <2>1. txn[s].kind \notin LabelKinds \cup {"review"} => "status" \in DOMAIN txn[s].out
      BY <1>1, CommittedColumns
    <2> QED
      BY <1>4, <2>1 DEF BatchColumns
  <1> QED
    BY <1>4, <1>5, <1>6, <1>7, <1>8, <1>9, <1>10

\* The items after a commit: the rows of the request, over those there were.
LEMMA CommittedItems ==
    ASSUME ValidationInductive, NEW s \in Sessions, Commit(s)
    PROVE  /\ IsFcn(items') /\ DOMAIN items' = DOMAIN items
           /\ \A l \in DOMAIN items : IsItem(items'[l])
           /\ \A l \in DOMAIN items : l \in DOMAIN txn[s].writes => items'[l] = txn[s].writes[l]
           /\ \A l \in DOMAIN items \ DOMAIN txn[s].writes : items'[l] = items[l]
           /\ txn[s].kind \notin LabelKinds \cup {"generate"} => items' = items
  <1>1. /\ ~At(s, "idle") /\ items' = Over(txn[s].writes, items)
        /\ IsFcn(items) /\ \A l \in DOMAIN items : IsItem(items[l])
    BY DEF Commit, At, ValidationInductive, Rows
  <1>2. Form(s)
    BY <1>1 DEF ValidationInductive, Requests, UnderWay
  <1>3. DOMAIN txn[s].writes \subseteq DOMAIN items
    BY <1>2 DEF Form, AreItems
  <1>4. DOMAIN items' = DOMAIN items /\ IsFcn(items')
    BY <1>1, <1>3 DEF Over, IsFcn
  <1>5. /\ \A l \in DOMAIN items : l \in DOMAIN txn[s].writes => items'[l] = txn[s].writes[l]
        /\ \A l \in DOMAIN items \ DOMAIN txn[s].writes : items'[l] = items[l]
    BY <1>1, <1>3 DEF Over
  <1>6. \A l \in DOMAIN items : IsItem(items'[l])
    BY <1>1, <1>2, <1>5 DEF Form, AreItems
  <1>7. txn[s].kind \notin LabelKinds \cup {"generate"} => items' = items
    BY <1>1, <1>2, OverNothing DEF Form
  <1> QED
    BY <1>4, <1>5, <1>6, <1>7

\* What a commit does to judgements and results: no class and no result is
\* taken back, a judgement changes only where there is no result, and only a
\* generation changes results.
LEMMA CommittedRows ==
    ASSUME ValidationInductive, NEW s \in Sessions, Commit(s), NEW l \in DOMAIN items
    PROVE  /\ items[l].model # None => items'[l].model # None
           /\ items'[l].human_class = None => items[l].human_class = None
           /\ P56 => SameJudgement(items'[l], items[l]) \/ items[l].model = None
           /\ txn[s].kind # "generate" => SameResult(items'[l], items[l])
           /\ txn[s].kind = "generate" => items'[l].model # None /\ SameJudgement(items'[l], items[l])
  <1>1. At(s, "commit") /\ ~At(s, "idle")
    BY DEF Commit, At
  <1>2. SameResult(items[l], items[l]) /\ SameJudgement(items[l], items[l])
    BY DEF SameResult, SameJudgement
  <1>3. CASE l \notin DOMAIN txn[s].writes
    <2>1. items'[l] = items[l]
      BY <1>3, CommittedItems
    <2>2. txn[s].kind = "generate" => items[l].model # None
      BY <1>1, <1>3 DEF ValidationInductive, Requests, UnderWay, Of, At, Generating
    <2> QED
      BY <1>2, <2>1, <2>2
  <1>4. CASE l \in DOMAIN txn[s].writes
    <2>1. items'[l] = txn[s].writes[l]
      BY <1>4, CommittedItems
    <2>2. CASE txn[s].kind \in LabelKinds
      <3>1. Labelling(s)
        BY <1>1, <2>2 DEF ValidationInductive, Requests, UnderWay, Of, At
      <3> QED
        BY <1>4, <2>1, <2>2, <3>1 DEF Labelling, SameResult, LabelKinds
    <2>3. CASE txn[s].kind = "generate"
      <3>1. Generating(s)
        BY <1>1, <2>3 DEF ValidationInductive, Requests, UnderWay, Of, At
      <3>2. SameJudgement(txn[s].writes[l], items[l]) /\ txn[s].writes[l].model # None
        BY <1>4, <3>1 DEF Generating
      <3> QED
        BY <2>1, <2>3, <3>2 DEF SameJudgement
    <2>4. CASE txn[s].kind \notin LabelKinds \cup {"generate"}
      <3>1. DOMAIN txn[s].writes = {}
        BY <1>1, <2>4 DEF ValidationInductive, Requests, UnderWay, Form
      <3> QED
        BY <1>4, <3>1
    <2> QED
      BY <2>2, <2>3, <2>4
  <1> QED
    BY <1>3, <1>4

\* A verdict stands as long as judgements, results and reviews stay.
LEMMA StandsStays ==
    ASSUME NEW a, NEW b, NEW c, Stands(a, b, c), IsFcn(items),
           IsFcn(items'), DOMAIN items' = DOMAIN items, reviews' = reviews,
           \A l \in DOMAIN items : /\ SameJudgement(items'[l], items[l])
                                   /\ SameResult(items'[l], items[l])
    PROVE  Stands(a, b, c)'
  <1>1. \A l \in DOMAIN items : /\ HumanSnapshot(items'[l]) = HumanSnapshot(items[l])
                                /\ ModelSnapshot(items'[l]) = ModelSnapshot(items[l])
                                /\ MetricCase(items'[l]) = MetricCase(items[l])
    BY DEF SameJudgement, SameResult, HumanSnapshot, ModelSnapshot, MetricCase
  <1>2. LabelsFingerprint(items') = LabelsFingerprint(items)
    BY <1>1 DEF LabelsFingerprint
  <1>3. ModelFingerprint(items') = ModelFingerprint(items)
    BY <1>1 DEF ModelFingerprint
  <1>4. Cases(items') = Cases(items)
    BY <1>1 DEF Cases
  <1>5. \A l \in DOMAIN items : Disagrees(items'[l]) = Disagrees(items[l])
    BY <1>1 DEF Disagrees
  <1>6. RealWorldMetrics(Cases(items'), reviews') = RealWorldMetrics(Cases(items), reviews)
    BY <1>4
  <1> QED
    BY <1>2, <1>3, <1>5, <1>6 DEF Stands

\* Once every item is reviewed no other review is inserted.
LEMMA ReviewsStay ==
    ASSUME ValidationInductive, NEW s \in Sessions, Commit(s), DOMAIN reviews = DOMAIN items
    PROVE  reviews' = reviews
  <1>1. CASE txn[s].kind # "review"
    BY <1>1 DEF Commit, InsertsReview
  <1>2. CASE txn[s].kind = "review"
    <2>1. Reviewing(s)
      BY <1>2 DEF Commit, At, Of, ValidationInductive, Requests, UnderWay
    <2>2. /\ DOMAIN txn[s].payload \cap DOMAIN reviews = {}
          /\ reviews' = Over(txn[s].payload, reviews)
      BY <1>2 DEF Commit, InsertsReview
    <2>3. DOMAIN txn[s].payload = {}
      BY <2>1, <2>2 DEF Reviewing
    <2>4. reviews' = [l \in DOMAIN reviews |-> reviews[l]]
      BY <2>2, <2>3 DEF Over
    <2> QED
      BY <2>4 DEF ValidationInductive, Rows, IsFcn
  <1> QED
    BY <1>1, <1>2

\* Without a lost update a generation commits over frozen labels, and a batch
\* whose items have results is none of those.
LEMMA ResultsStay ==
    ASSUME ValidationInductive, NEW s \in Sessions, Commit(s), P56, Computed, ~lostUpdate'
    PROVE  \A l \in DOMAIN items : /\ SameJudgement(items'[l], items[l])
                                   /\ SameResult(items'[l], items[l])
  <1>1. At(s, "commit") /\ ~lostUpdate /\ (txn[s].out = <<>> \/ batch = txn[s].seen)
    BY DEF Commit, ValidationInductive, Rows
  <1>2. txn[s].kind # "generate"
    <2> SUFFICES ASSUME txn[s].kind = "generate" PROVE FALSE
      OBVIOUS
    <2>1. Generating(s)
      BY <1>1 DEF At, Of, ValidationInductive, Requests, UnderWay
    <2>2. txn[s].out # <<>>
      BY <1>1, <2>1 DEF Generating, At
    <2>3. batch.status = "labels_frozen"
      BY <1>1, <2>1, <2>2 DEF Generating
    <2>4. Blind /\ items # <<>> /\ IsFcn(items)
      BY <1>1, <2>3 DEF ValidationInductive, Stages, Rows
    <2>5. DOMAIN items # {}
      BY <2>4 DEF IsFcn
    <2> QED
      BY <2>4, <2>5 DEF Blind, Computed
  <1> QED
    BY <1>2, CommittedRows DEF Computed

\* A commit leaves every other request in order.
LEMMA OthersCommit ==
    ASSUME ValidationInductive, NEW s \in Sessions, Commit(s), NEW u \in Sessions \ {s}
    PROVE  UnderWay(u)'
  <1>1. At(s, "commit") /\ ~At(s, "idle") /\ txn'[u] = txn[u] /\ UNCHANGED report
    BY DEF Commit, At, ValidationInductive, Rows
  <1>2. CASE At(u, "idle")
    BY <1>1, <1>2 DEF UnderWay, At
  <1>3. CASE ~At(u, "idle")
    <2>1. Form(u)
      BY <1>3 DEF ValidationInductive, Requests, UnderWay
    <2>2. /\ P56' = P56 /\ batch' # NoBatch
          /\ IsFcn(items') /\ DOMAIN items' = DOMAIN items
      BY CommittedBatch, CommittedItems
    <2>3. \A rows : AreItems(rows) => AreItems(rows)'
      BY <2>2 DEF AreItems, IsItem, IsFcn
    <2>4. \A l \in DOMAIN txn[u].writes : items'[l] = items[l]
      <3>1. DOMAIN txn[s].writes \cap DOMAIN txn[u].writes = {}
        BY <1>1, <1>3 DEF ValidationInductive, OwnRows
      <3>2. DOMAIN txn[u].writes \subseteq DOMAIN items
        BY <2>1 DEF Form, AreItems
      <3> QED
        BY <3>1, <3>2, CommittedItems
    <2>5. /\ \A l \in DOMAIN items : items[l].model # None => items'[l].model # None
          /\ \A l \in DOMAIN items : items'[l].human_class = None => items[l].human_class = None
      BY CommittedRows
    <2>6. (Computed => Computed') /\ (Judged => Judged')
      BY <2>2, <2>5 DEF Computed, Judged
    <2>7. Form(u)'
      BY <1>1, <2>1, <2>2, <2>3 DEF Form
    <2>8. \A kinds : Of(u, kinds)' = Of(u, kinds)
      BY <1>1 DEF Of
    <2>9. Of(u, LabelKinds) => Labelling(u)'
      <3> SUFFICES ASSUME Of(u, LabelKinds) PROVE Labelling(u)'
        OBVIOUS
      <3>1. Labelling(u)
        BY <1>3 DEF ValidationInductive, Requests, UnderWay
      <3> QED
        BY <1>1, <2>2, <2>3, <2>4, <3>1 DEF Labelling
    <2>10. Of(u, {"generate"}) => Generating(u)'
      <3> SUFFICES ASSUME Of(u, {"generate"}) PROVE Generating(u)'
        OBVIOUS
      <3>1. Generating(u)
        BY <1>3 DEF ValidationInductive, Requests, UnderWay
      <3>2. batch'.status # "blind_labeling"
        <4>1. batch.status # "blind_labeling"
          BY <3>1 DEF Generating
        <4>2. CASE txn[s].kind \in LabelKinds \cup {"review"}
          BY <4>1, <4>2, CommittedBatch
        <4>3. CASE txn[s].kind \notin LabelKinds \cup {"review"}
          BY <1>1, <4>3, CommittedBatch, CommittedColumns
        <4> QED
          BY <4>2, <4>3
      <3> QED
        BY <1>1, <2>2, <2>3, <2>4, <2>5, <3>1, <3>2 DEF Generating
    <2>11. Of(u, {"freeze"}) => Freezing(u)'
      BY <1>1, <1>3, <2>6 DEF ValidationInductive, Requests, UnderWay, Freezing
    <2>12. Of(u, {"reveal", "blind_reveal"}) => Revealing(u)'
      BY <1>1, <1>3, <2>6 DEF ValidationInductive, Requests, UnderWay, Revealing
    <2>13. Of(u, {"finalize"}) => Finalizing(u)'
      <3> SUFFICES ASSUME Of(u, {"finalize"}) PROVE Finalizing(u)'
        OBVIOUS
      <3>1. Finalizing(u) /\ P56
        BY <1>3, <2>1 DEF ValidationInductive, Requests, UnderWay, Form, Of, P56Kinds
      <3>2. ~lostUpdate' => ~lostUpdate
        BY DEF Commit, ValidationInductive, Rows
      <3>3. ASSUME NEW a, NEW b, NEW c, ~lostUpdate', Stands(a, b, c)
            PROVE  Stands(a, b, c)'
        <4>1. reviews' = reviews
          BY <3>3, ReviewsStay DEF Stands
        <4>2. Computed /\ IsFcn(items)
          BY <3>1 DEF Finalizing, ValidationInductive, Rows
        <4>3. \A l \in DOMAIN items : /\ SameJudgement(items'[l], items[l])
                                      /\ SameResult(items'[l], items[l])
          BY <3>1, <3>3, <4>2, ResultsStay
        <4> QED
          BY <2>2, <3>3, <4>1, <4>2, <4>3, StandsStays
      <3> QED
        BY <1>1, <2>6, <3>1, <3>2, <3>3 DEF Finalizing
    <2>14. Of(u, {"review"}) => Reviewing(u)'
      BY <1>1, <1>3, <2>2 DEF ValidationInductive, Requests, UnderWay, Reviewing
    <2> QED
      BY <2>7, <2>8, <2>9, <2>10, <2>11, <2>12, <2>13, <2>14 DEF UnderWay
  <1> QED
    BY <1>2, <1>3

\* The stage a commit writes fits the items, although the request may not have
\* read the stage it replaces.
LEMMA CommitStages ==
    ASSUME ValidationInductive, NEW s \in Sessions, Commit(s) PROVE Stages'
  <1> DEFINE kind == txn[s].kind
             quiet == LabelKinds \cup {"review"}
  <1>1. At(s, "commit") /\ ~At(s, "idle")
    BY DEF Commit, At
  <1>2. /\ P56' = P56 /\ IsFcn(items') /\ DOMAIN items' = DOMAIN items
        /\ kind \in quiet => batch' = batch
        /\ kind \notin quiet => batch'.status = txn[s].out.status
    BY CommittedBatch, CommittedItems
  <1> SUFFICES ASSUME P56
               PROVE  /\ items' # <<>>
                      /\ batch'.status = "blind_labeling" => Blind'
                      /\ batch'.status # "blind_labeling" => Judged'
                      /\ batch'.status = "labels_frozen" /\ ~lostUpdate' => Blind'
                      /\ batch'.status \in {"model_generated", "revealed", "finalized"} => Computed'
                      /\ Blind' \/ Computed'
    BY <1>2 DEF Stages
  <1>3. /\ items # <<>>
        /\ batch.status = "blind_labeling" => Blind
        /\ batch.status # "blind_labeling" => Judged
        /\ batch.status = "labels_frozen" /\ ~lostUpdate => Blind
        /\ batch.status \in {"model_generated", "revealed", "finalized"} => Computed
        /\ Blind \/ Computed
    BY DEF ValidationInductive, Stages
  <1>4. DOMAIN items # {} /\ items' # <<>>
    <2>1. IsFcn(items)
      BY DEF ValidationInductive, Rows
    <2>2. DOMAIN items # {}
      BY <1>3, <2>1 DEF IsFcn
    <2> QED
      BY <1>2, <2>2
  <1>5. (Computed => Computed') /\ (Judged => Judged') /\ (kind # "generate" /\ Blind => Blind')
    BY <1>2, CommittedRows DEF Computed, Judged, Blind, SameResult
  <1>6. ~(Blind /\ Computed)
    BY <1>4 DEF Blind, Computed
  <1>7. CASE kind \in quiet
    <2>1. batch' = batch /\ kind # "generate" /\ (~lostUpdate' => ~lostUpdate)
      BY <1>2, <1>7 DEF LabelKinds, Commit, ValidationInductive, Rows
    <2> QED
      BY <1>3, <1>4, <1>5, <2>1
  <1>8. CASE kind = "generate"
    <2>1. Computed'
      BY <1>2, <1>8, CommittedRows DEF Computed
    <2>2. Generating(s)
      BY <1>1, <1>8 DEF At, Of, ValidationInductive, Requests, UnderWay
    <2>3. Judged'
      BY <1>3, <1>5, <2>2 DEF Generating
    <2>4. batch'.status = "model_generated"
      BY <1>1, <1>2, <1>8, CommittedColumns DEF LabelKinds
    <2> QED
      BY <1>4, <2>1, <2>3, <2>4
  <1>9. CASE kind = "freeze"
    <2>1. Freezing(s) /\ Judged
      BY <1>1, <1>9 DEF At, Of, ValidationInductive, Requests, UnderWay, Freezing
    <2>2. batch'.status = "labels_frozen" /\ txn[s].out # <<>>
      BY <1>1, <1>2, <1>9, CommittedColumns DEF LabelKinds
    <2>3. ~lostUpdate' => batch.status = "blind_labeling"
      BY <2>1, <2>2 DEF Commit, Freezing, ValidationInductive, Rows
    <2> QED
      BY <1>3, <1>4, <1>5, <1>9, <2>1, <2>2, <2>3
  <1>10. CASE kind \in {"reveal", "blind_reveal", "finalize"}
    <2>1. Computed
      BY <1>1, <1>10 DEF At, Of, ValidationInductive, Requests, UnderWay, Revealing, Finalizing
    <2>2. batch'.status \in {"revealed", "finalized"}
      BY <1>1, <1>2, <1>10, CommittedColumns DEF LabelKinds
    <2>3. Judged
      BY <1>3, <1>6, <2>1
    <2> QED
      BY <1>4, <1>5, <2>1, <2>2, <2>3
  <1> QED
    BY <1>1, <1>7, <1>8, <1>9, <1>10, CommittedColumns

\* A finalization commits the verdict of the rows as they are, and what other
\* requests commit after it leaves the verdict alone.
LEMMA CommitVerdict ==
    ASSUME ValidationInductive, NEW s \in Sessions, Commit(s) PROVE VerdictStands'
  <1>1. At(s, "commit") /\ ~At(s, "idle") /\ UNCHANGED report /\ IsFcn(items)
    BY DEF Commit, At, ValidationInductive, Rows
  <1>2. P56' = P56 /\ IsFcn(items') /\ DOMAIN items' = DOMAIN items
    BY CommittedBatch, CommittedItems
  <1> SUFFICES ASSUME P56, batch'.status = "finalized", ~lostUpdate'
               PROVE  Stands(batch.human_labels, batch.model_outputs,
                             batch.final_recommendation)' /\ report' # None
    BY <1>2 DEF VerdictStands, Stands
  <1>3. ~lostUpdate /\ (txn[s].out = <<>> \/ batch = txn[s].seen)
    BY DEF Commit, ValidationInductive, Rows
  <1>4. CASE txn[s].kind \in LabelKinds \cup {"review"}
    <2>1. batch' = batch
      BY <1>4, CommittedBatch
    <2>2. /\ Stands(batch.human_labels, batch.model_outputs, batch.final_recommendation)
          /\ report # None /\ Computed
      BY <1>3, <2>1 DEF ValidationInductive, VerdictStands, Stands, Stages
    <2>3. \A l \in DOMAIN items : /\ SameJudgement(items'[l], items[l])
                                  /\ SameResult(items'[l], items[l])
      BY <2>2, ResultsStay
    <2>4. reviews' = reviews
      BY <2>2, ReviewsStay DEF Stands
    <2>5. ASSUME NEW a, NEW b, NEW c, Stands(a, b, c) PROVE Stands(a, b, c)'
      BY <1>1, <1>2, <2>3, <2>4, <2>5, StandsStays
    <2> QED
      BY <1>1, <2>1, <2>2, <2>5
  <1>5. CASE txn[s].kind \notin LabelKinds \cup {"review"}
    <2>1. batch'.status = txn[s].out.status
      BY <1>5, CommittedBatch
    <2>2. txn[s].kind = "finalize"
      BY <1>1, <1>5, <2>1, CommittedColumns
    <2>3. DOMAIN txn[s].out = {"status", "metrics", "final_recommendation"}
      BY <1>1, <2>2, CommittedColumns
    <2>4. Finalizing(s)
      BY <1>1, <2>2 DEF At, Of, ValidationInductive, Requests, UnderWay
    <2>5. /\ Stands(txn[s].seen.human_labels, txn[s].seen.model_outputs,
                    txn[s].out.final_recommendation)
          /\ report # None /\ Computed
      BY <1>1, <1>3, <2>4 DEF Finalizing, At
    <2>6. batch = txn[s].seen
      <3>1. DOMAIN txn[s].out # DOMAIN <<>>
        BY <2>3
      <3> QED
        BY <1>3, <3>1
    <2>7. /\ batch'.human_labels = txn[s].seen.human_labels
          /\ batch'.model_outputs = txn[s].seen.model_outputs
          /\ batch'.final_recommendation = txn[s].out.final_recommendation
      BY <2>3, <2>6, CommittedBatch DEF BatchColumns
    <2>8. \A l \in DOMAIN items : /\ SameJudgement(items'[l], items[l])
                                  /\ SameResult(items'[l], items[l])
      BY <2>5, ResultsStay
    <2>9. reviews' = reviews
      BY <2>5, ReviewsStay DEF Stands
    <2>10. ASSUME NEW a, NEW b, NEW c, Stands(a, b, c) PROVE Stands(a, b, c)'
      BY <1>1, <1>2, <2>8, <2>9, <2>10, StandsStays
    <2> QED
      BY <1>1, <2>5, <2>7, <2>10
  <1> QED
    BY <1>4, <1>5

\* A commit keeps the invariant.
LEMMA CommitKeeps ==
    ASSUME ValidationInductive, NEW s \in Sessions, Commit(s) PROVE ValidationInductive'
  <1>1. /\ At(s, "commit") /\ ~At(s, "idle")
        /\ txn' = [txn EXCEPT ![s] = Idle] /\ UNCHANGED <<amendments, inputs, report>>
    BY DEF Commit, At
  <1>2. /\ IsFcn(txn') /\ DOMAIN txn' = Sessions /\ txn'[s] = Idle
        /\ \A u \in Sessions \ {s} : txn'[u] = txn[u]
    BY <1>1 DEF ValidationInductive, Rows, IsFcn
  <1>3. Requests'
    <2>1. UnderWay(s)'
      BY <1>2 DEF UnderWay, At, Idle
    <2>2. \A u \in Sessions \ {s} : UnderWay(u)'
      BY OthersCommit
    <2> QED
      BY <2>1, <2>2 DEF Requests
  <1>4. OwnRows'
    <2>1. \A u \in Sessions : ~At(u, "idle")' => u # s /\ ~At(u, "idle") /\ txn'[u] = txn[u]
      BY <1>2 DEF At, Idle
    <2> QED
      BY <2>1 DEF ValidationInductive, OwnRows
  <1>5. /\ IsFcn(reviews') /\ DOMAIN reviews' \subseteq DOMAIN items
        /\ \A l \in DOMAIN reviews' : /\ reviews'[l].verdict \in Verdicts
                                      /\ reviews'[l].root_cause \in RootCauses \cup {None}
    <2>1. /\ IsFcn(reviews) /\ DOMAIN reviews \subseteq DOMAIN items
          /\ \A l \in DOMAIN reviews : /\ reviews[l].verdict \in Verdicts
                                       /\ reviews[l].root_cause \in RootCauses \cup {None}
      BY DEF ValidationInductive, TypeOK, Rows
    <2>2. CASE txn[s].kind # "review"
      BY <2>1, <2>2 DEF Commit, InsertsReview
    <2>3. CASE txn[s].kind = "review"
      <3>1. Reviewing(s)
        BY <1>1, <2>3 DEF At, Of, ValidationInductive, Requests, UnderWay
      <3>2. reviews' = Over(txn[s].payload, reviews)
        BY <2>3 DEF Commit, InsertsReview
      <3>3. DOMAIN reviews' = DOMAIN txn[s].payload \cup DOMAIN reviews /\ IsFcn(reviews')
        BY <3>2 DEF Over, IsFcn
      <3>4. \A l \in DOMAIN reviews' :
               reviews'[l] = IF l \in DOMAIN txn[s].payload THEN txn[s].payload[l] ELSE reviews[l]
        BY <3>2, <3>3 DEF Over
      <3> QED
        BY <2>1, <3>1, <3>3, <3>4 DEF Reviewing
    <2> QED
      BY <2>2, <2>3
  <1>6. Rows'
    <2>1. lostUpdate' \in BOOLEAN
      BY DEF Commit
    <2>2. /\ IsFcn(items') /\ DOMAIN items' = DOMAIN items
          /\ \A l \in DOMAIN items : IsItem(items'[l])
      BY CommittedItems
    <2>3. /\ batch' # NoBatch /\ IsFcn(batch') /\ DOMAIN batch' = BatchColumns
          /\ batch'.protocol = batch.protocol
      BY CommittedBatch
    <2>4. batch.protocol \in {"p5.6", "p5.5"}
      BY <1>1, CommittedColumns DEF ValidationInductive, Rows
    <2> QED
      BY <1>2, <1>5, <2>1, <2>2, <2>3, <2>4 DEF Rows
  <1>7. TypeOK'
    <2>1. /\ batch' # NoBatch /\ DOMAIN items' = DOMAIN items
          /\ \A l \in DOMAIN items : IsItem(items'[l])
      BY CommittedBatch, CommittedItems
    <2>2. batch'.status \in Statuses
      <3>1. batch.status \in Statuses
        BY <1>1, CommittedColumns DEF ValidationInductive, TypeOK, Statuses
      <3>2. CASE txn[s].kind \in LabelKinds \cup {"review"}
        BY <3>1, <3>2, CommittedBatch
      <3>3. CASE txn[s].kind \notin LabelKinds \cup {"review"}
        BY <1>1, <3>3, CommittedBatch, CommittedColumns DEF Statuses
      <3> QED
        BY <3>2, <3>3
    <2>3. \A u \in Sessions : ~At(u, "idle")' => (DOMAIN txn[u].writes \subseteq DOMAIN items)'
      BY <1>3 DEF Requests, UnderWay, Form, AreItems
    <2>4. DOMAIN items \subseteq Listings /\ inputs' \in 0..MaxInputs /\ amendments' \in 0..MaxAmendments
      BY <1>1 DEF ValidationInductive, TypeOK
    <2> QED
      BY <1>5, <2>1, <2>2, <2>3, <2>4 DEF TypeOK, Statuses, IsItem, ItemColumns
  <1> QED
    BY <1>3, <1>4, <1>6, <1>7, CommitStages, CommitVerdict DEF ValidationInductive

-----------------------------------------------------------------------------
(* The invariant and what follows from it. *)

\* A logged correction, or other inputs, change no row.
LEMMA CountersKeep ==
    ASSUME ValidationInductive, UNCHANGED <<batch, items, reviews, report, txn, lostUpdate>>,
           inputs' \in 0..MaxInputs, amendments' \in 0..MaxAmendments
    PROVE  ValidationInductive'
  <1> USE DEF ValidationInductive
  <1>1. Requests'
    BY OthersStay DEF Requests
  <1>2. TypeOK' /\ Rows' /\ OwnRows'
    BY DEF TypeOK, Rows, OwnRows, At
  <1>3. Stages' /\ VerdictStands'
    BY DEF Stages, VerdictStands, P56, Blind, Judged, Computed, LabelsFingerprint,
           ModelFingerprint, Cases, Disagrees, MetricCase, HumanSnapshot, ModelSnapshot
  <1> QED
    BY <1>1, <1>2, <1>3

\* Every step keeps the invariant.
LEMMA StepInductive == ValidationInductive /\ [Next]_vars => ValidationInductive'
  <1> SUFFICES ASSUME ValidationInductive, [Next]_vars PROVE ValidationInductive'
    OBVIOUS
  <1>1. inputs \in 0..MaxInputs /\ amendments \in 0..MaxAmendments
    BY DEF ValidationInductive, TypeOK
  <1>2. ASSUME NEW s \in Sessions, Serve(s) PROVE ValidationInductive'
    <2>1. ASSUME NEW kind \in Kinds, Begin(s, kind) PROVE ValidationInductive'
      BY <2>1, BeginKeeps
    <2>2. CASE LoadLabel(s)
      BY <2>2, LoadLabelKeeps
    <2>3. CASE WriteLabel(s)
      BY <2>3, WriteLabelKeeps
    <2>4. CASE FreezeLabels(s)
      BY <2>4, FreezeLabelsKeeps
    <2>5. CASE CheckFrozenRuntime(s)
      BY <2>5, CheckFrozenRuntimeKeeps
    <2>6. CASE Evaluate(s)
      BY <2>6, EvaluateKeeps
    <2>7. CASE WriteResult(s)
      BY <2>7, WriteResultKeeps
    <2>8. CASE RevealRun(s)
      BY <2>8, RevealRunKeeps
    <2>9. CASE FinalizeRun(s)
      BY <2>9, FinalizeRunKeeps
    <2>10. CASE RevealBlind(s)
      BY <2>10, RevealBlindKeeps
    <2>11. CASE CheckReview(s)
      BY <2>11, CheckReviewKeeps
    <2>12. CASE Commit(s)
      BY <2>12, CommitKeeps
    <2>13. CASE Rollback(s)
      BY <2>13, RollbackKeeps
    <2> QED
      BY <1>2, <2>1, <2>2, <2>3, <2>4, <2>5, <2>6, <2>7, <2>8, <2>9, <2>10, <2>11, <2>12,
         <2>13 DEF Serve
  <1>3. CASE CreateValidationRun
    BY <1>3, CreateValidationRunKeeps
  <1>4. CASE CreateBlindBatch
    BY <1>4, CreateBlindBatchKeeps
  <1>5. CASE AppendLabelAmendment
    <2>1. amendments' \in 0..MaxAmendments
      BY <1>1, <1>5, ValidationAssumption DEF AppendLabelAmendment
    <2> QED
      BY <1>1, <1>5, <2>1, CountersKeep DEF AppendLabelAmendment
  <1>6. CASE InputsChange
    <2>1. inputs' \in 0..MaxInputs
      BY <1>1, <1>6, ValidationAssumption DEF InputsChange
    <2> QED
      BY <1>1, <1>6, <2>1, CountersKeep DEF InputsChange
  <1>7. CASE UNCHANGED vars
    BY <1>1, <1>7, CountersKeep DEF vars
  <1> QED
    BY <1>2, <1>3, <1>4, <1>5, <1>6, <1>7 DEF Next

\* Types, stages and open requests are in order in every reachable state, for
\* any listings, number of requests, data sets, labels, reviews and results
\* (real_world_validation.py, blind_validation.py and the trigger of 0008).
THEOREM ValidationInductiveHolds == Spec => []ValidationInductive
  <1> QED
    BY InitInductive, StepInductive, PTL DEF Spec

\* The type invariant of the tables of a validation batch.
THEOREM ValidationTypes == Spec => []TypeOK
  <1>1. ValidationInductive => TypeOK
    BY DEF ValidationInductive
  <1> QED
    BY <1>1, ValidationInductiveHolds, PTL

\* A verdict is that of the rows it stands on, for as long as every batch is
\* written by a request that had read it (finalize_validation_run).
THEOREM VerdictHolds == Spec => []VerdictStands
  <1>1. ValidationInductive => VerdictStands
    BY DEF ValidationInductive
  <1> QED
    BY <1>1, ValidationInductiveHolds, PTL

-----------------------------------------------------------------------------
(* What the inductive invariant buys: verdicts accumulate, and a P5.6      *)
(* batch implements the blind trial.                                       *)

-----------------------------------------------------------------------------
(* Steps that write neither the batch nor its items. *)

\* Only creations and commits write the batch, its items and their reviews.
LEMMA WritingSteps ==
    ASSUME [Next]_vars
    PROVE  \/ UNCHANGED <<batch, items, reviews>>
           \/ CreateValidationRun \/ CreateBlindBatch
           \/ \E s \in Sessions : Commit(s)
  <1>1. ASSUME NEW s \in Sessions, Serve(s)
        PROVE  UNCHANGED <<batch, items, reviews>> \/ Commit(s)
    <2>1. ASSUME NEW kind \in Kinds, Begin(s, kind) PROVE UNCHANGED <<batch, items, reviews>>
      BY <2>1 DEF Begin
    <2>2. CASE LoadLabel(s)
      BY <2>2 DEF LoadLabel, Goes
    <2>3. CASE WriteLabel(s)
      BY <2>3 DEF WriteLabel, Goes
    <2>4. CASE FreezeLabels(s)
      BY <2>4 DEF FreezeLabels, Prepares, Goes
    <2>5. CASE CheckFrozenRuntime(s)
      BY <2>5 DEF CheckFrozenRuntime, Goes
    <2>6. CASE Evaluate(s)
      BY <2>6 DEF Evaluate, Goes
    <2>7. CASE WriteResult(s)
      BY <2>7 DEF WriteResult, Goes
    <2>8. CASE RevealRun(s)
      BY <2>8 DEF RevealRun, Prepares, Goes
    <2>9. CASE FinalizeRun(s)
      BY <2>9 DEF FinalizeRun, Prepares, Goes
    <2>10. CASE RevealBlind(s)
      BY <2>10 DEF RevealBlind, Prepares, Goes
    <2>11. CASE CheckReview(s)
      BY <2>11 DEF CheckReview, Goes
    <2>12. CASE Rollback(s)
      BY <2>12 DEF Rollback, Goes
    <2> QED
      BY <1>1, <2>1, <2>2, <2>3, <2>4, <2>5, <2>6, <2>7, <2>8, <2>9, <2>10, <2>11, <2>12 DEF Serve
  <1> QED
    BY <1>1 DEF Next, vars, AppendLabelAmendment, InputsChange

-----------------------------------------------------------------------------
(* Verdicts. *)

\* No step changes or withdraws a review, nor a recommendation.
LEMMA StepAccumulates ==
    ASSUME ValidationInductive, [Next]_vars
    PROVE  /\ DOMAIN reviews \subseteq DOMAIN reviews'
           /\ \A l \in DOMAIN reviews : reviews'[l] = reviews[l]
           /\ batch # NoBatch /\ batch.final_recommendation # None
                  => batch'.final_recommendation # None
  <1>1. CASE UNCHANGED <<batch, items, reviews>>
    BY <1>1
  <1>2. CASE CreateValidationRun \/ CreateBlindBatch
    BY <1>2 DEF CreateValidationRun, CreateBlindBatch
  <1>3. ASSUME NEW s \in Sessions, Commit(s)
        PROVE  /\ DOMAIN reviews \subseteq DOMAIN reviews'
               /\ \A l \in DOMAIN reviews : reviews'[l] = reviews[l]
               /\ batch.final_recommendation # None => batch'.final_recommendation # None
    <2>1. /\ DOMAIN reviews \subseteq DOMAIN reviews'
          /\ \A l \in DOMAIN reviews : reviews'[l] = reviews[l]
      <3>1. CASE txn[s].kind # "review"
        BY <1>3, <3>1 DEF Commit, InsertsReview
      <3>2. CASE txn[s].kind = "review"
        <4>1. /\ DOMAIN txn[s].payload \cap DOMAIN reviews = {}
              /\ reviews' = Over(txn[s].payload, reviews)
          BY <1>3, <3>2 DEF Commit, InsertsReview
        <4> QED
          BY <4>1 DEF Over
      <3> QED
        BY <3>1, <3>2
    <2>2. batch'.final_recommendation =
              IF "final_recommendation" \in DOMAIN txn[s].out
              THEN txn[s].out.final_recommendation ELSE batch.final_recommendation
      BY <1>3, CommittedBatch DEF BatchColumns
    <2>3. "final_recommendation" \in DOMAIN txn[s].out => txn[s].out.final_recommendation # None
      <3>1. At(s, "commit") /\ DOMAIN <<>> = {}
        BY <1>3 DEF Commit
      <3> QED
        BY <3>1, CommittedColumns
    <2> QED
      BY <2>1, <2>2, <2>3
  <1> QED
    BY <1>1, <1>2, <1>3, WritingSteps

\* Reviews and recommendations are never withdrawn (the append-only triggers;
\* finalize_validation_run).
THEOREM VerdictsStay == Spec => VerdictsAccumulate
  <1>1. ValidationInductive /\ [Next]_vars =>
           [/\ DOMAIN reviews \subseteq DOMAIN reviews'
            /\ \A l \in DOMAIN reviews : reviews'[l] = reviews[l]
            /\ batch # NoBatch /\ batch.final_recommendation # None
                   => batch'.final_recommendation # None]_vars
    BY StepAccumulates
  <1> QED
    BY <1>1, ValidationInductiveHolds, PTL DEF Spec, VerdictsAccumulate

-----------------------------------------------------------------------------
(* The blind trial. *)

\* Before it exists nothing is judged, computed or shown.
LEMMA TrialStarts == Init => Trial!TrialInit
  <1> SUFFICES ASSUME Init PROVE Trial!TrialInit
    OBVIOUS
  <1>1. ~P56
    BY DEF Init, P56
  <1>2. [l \in {} |-> <<>>] = <<>>
    OBVIOUS
  <1> QED
    BY <1>1, <1>2 DEF Trial!TrialInit, Trial!Blank

\* A step that leaves batch and items alone is none of the trial.
LEMMA TrialStutters ==
    ASSUME UNCHANGED <<batch, items>> PROVE UNCHANGED Trial!trial
  BY DEF Trial!trial, P56, Judgement, Result, HumanSnapshot

\* A batch of P5.6 enrols its listings; one of P5.5 is no trial.
LEMMA TrialEnrols ==
    ASSUME ValidationInductive, ValidationInductive',
           CreateValidationRun \/ CreateBlindBatch
    PROVE  [Trial!TrialNext]_(Trial!trial)
  <1>1. ~P56 /\ batch = NoBatch
    BY DEF CreateValidationRun, CreateBlindBatch, P56
  <1>2. [l \in {} |-> <<>>] = <<>>
    OBVIOUS
  <1>3. CASE CreateBlindBatch
    <2>1. batch'.protocol = "p5.5"
      BY <1>3, NewBatchIsBatch DEF CreateBlindBatch
    <2>2. ~P56'
      BY <2>1 DEF P56
    <2> QED
      BY <1>1, <2>2 DEF Trial!trial
  <1>4. CASE CreateValidationRun
    <2>1. batch'.protocol = "p5.6" /\ batch'.status = "blind_labeling" /\ batch' # NoBatch
      BY <1>4, NewBatchIsBatch DEF CreateValidationRun
    <2>2. P56'
      BY <2>1 DEF P56
    <2>3. items' # <<>> /\ DOMAIN items' \subseteq Listings /\ IsFcn(items')
      BY <2>2 DEF ValidationInductive, Stages, TypeOK, Rows
    <2>4. DOMAIN items' # {}
      BY <2>3 DEF IsFcn
    <2>5. \A l \in DOMAIN items' : items'[l].human_class = None /\ items'[l].model = None
      BY <1>4, BlankIsItem DEF CreateValidationRun
    <2>6. Trial!Enrol
      <3>1. [l \in DOMAIN items' |-> Judgement(items'[l])] = [l \in DOMAIN items' |-> <<>>]
        BY <2>5 DEF Judgement
      <3>2. [l \in DOMAIN items' |-> Result(items'[l])] = [l \in DOMAIN items' |-> <<>>]
        BY <2>5 DEF Result
      <3>3. (P56 /\ batch.status \in {"revealed", "finalized"})' = FALSE
        BY <2>1
      <3> QED
        BY <1>1, <2>2, <2>3, <2>4, <3>1, <3>2, <3>3 DEF Trial!Enrol, Trial!Blank
    <2> QED
      BY <2>6 DEF Trial!TrialNext
  <1> QED
    BY <1>3, <1>4

\* A commit is a step of the trial: labels judge, a generation computes, the
\* other stages show the results or hide them, and reviews are none of it.
LEMMA TrialCommits ==
    ASSUME ValidationInductive, ValidationInductive', NEW s \in Sessions, Commit(s)
    PROVE  [Trial!TrialNext]_(Trial!trial)
  <1> DEFINE kind == txn[s].kind
             judgement(rows) == [l \in DOMAIN rows |-> Judgement(rows[l])]
             result(rows) == [l \in DOMAIN rows |-> Result(rows[l])]
             shown == batch.status \in {"revealed", "finalized"}
  <1>1. At(s, "commit") /\ P56' = P56 /\ DOMAIN items' = DOMAIN items
    BY CommittedBatch, CommittedItems DEF Commit
  <1>2. CASE ~P56
    BY <1>1, <1>2 DEF Trial!trial
  <1>3. CASE P56
    <2>1. P56'
      BY <1>1, <1>3
    <2>2. \A l \in DOMAIN items :
              SameJudgement(items'[l], items[l]) => Judgement(items'[l]) = Judgement(items[l])
      BY DEF SameJudgement, HumanSnapshot, Judgement
    <2>3. (\A l \in DOMAIN items : SameJudgement(items'[l], items[l]))
              => judgement(items') = judgement(items)
      BY <1>1, <2>2
    <2>4. (\A l \in DOMAIN items : SameResult(items'[l], items[l]))
              => result(items') = result(items)
      BY <1>1 DEF SameResult, Result
    <2>5. /\ batch.status # "blind_labeling" => Judged
          /\ batch.status \in {"model_generated", "revealed", "finalized"} => Computed
          /\ Blind \/ Computed
      BY <1>3 DEF ValidationInductive, Stages, Rows
    <2>6. items # <<>> /\ IsFcn(items)
      BY <1>3 DEF ValidationInductive, Stages, Rows
    <2>7. DOMAIN items # {}
      BY <2>6 DEF IsFcn
    <2>8. CASE kind \in LabelKinds
      <3>1. batch' = batch /\ result(items') = result(items)
        BY <2>4, <2>8, CommittedBatch, CommittedRows DEF LabelKinds
      <3>2. CASE Blind
        <4>1. \A l \in DOMAIN items : Judgement(items'[l]) = <<>> => Judgement(items[l]) = <<>>
          BY <1>1, CommittedRows DEF Judgement, HumanSnapshot
        <4>2. Trial!Judge
          BY <1>1, <1>3, <2>1, <3>1, <3>2, <4>1 DEF Trial!Judge, Blind, Result, Judgement, HumanSnapshot
        <4> QED
          BY <4>2 DEF Trial!TrialNext
      <3>3. CASE Computed
        <4>1. judgement(items') = judgement(items)
          BY <1>3, <2>3, <3>3, CommittedRows DEF Computed
        <4> QED
          BY <1>1, <1>3, <2>1, <3>1, <4>1 DEF Trial!trial, Judgement, Result, HumanSnapshot
      <3> QED
        BY <2>5, <3>2, <3>3
    <2>9. CASE kind = "review"
      <3>1. batch' = batch /\ items' = items
        BY <2>9, CommittedBatch, CommittedItems DEF LabelKinds
      <3> QED
        BY <3>1, TrialStutters
    <2>10. CASE kind = "generate"
      <3>1. judgement(items') = judgement(items)
        BY <2>3, <2>10, CommittedRows
      <3>2. \A l \in DOMAIN items' : items'[l].model # None
        BY <1>1, <2>10, CommittedRows
      <3>3. Judged
        BY <1>1, <2>5, <2>10 DEF ValidationInductive, Requests, UnderWay, At, Of, Generating
      <3>4. batch'.status = "model_generated"
        BY <1>1, <2>10, CommittedBatch, CommittedColumns DEF LabelKinds
      <3>5. \A l \in DOMAIN items : Judgement(items[l]) # <<>>
        BY <3>3 DEF Judged, Judgement, HumanSnapshot
      <3>6. Trial!Compute
        BY <1>1, <1>3, <2>1, <2>7, <3>1, <3>2, <3>4, <3>5
           DEF Trial!Compute, Trial!Complete, Result, Judgement, HumanSnapshot
      <3> QED
        BY <3>6 DEF Trial!TrialNext
    <2>11. CASE kind \in {"freeze", "reveal", "blind_reveal", "finalize"}
      <3>1. items' = items
        BY <2>11, CommittedItems DEF LabelKinds
      <3>2. CASE Computed
        <4>1. Trial!Show
          BY <1>3, <2>1, <2>7, <3>1, <3>2 DEF Trial!Show, Trial!Complete, Computed, Result, Judgement, HumanSnapshot
        <4> QED
          BY <4>1 DEF Trial!TrialNext
      <3>3. CASE ~Computed
        <4>1. kind = "freeze"
          BY <1>1, <2>11, <3>3
             DEF ValidationInductive, Requests, UnderWay, At, Of, Revealing, Finalizing
        <4>2. batch'.status = "labels_frozen"
          BY <1>1, <4>1, CommittedBatch, CommittedColumns DEF LabelKinds
        <4>3. shown = FALSE
          BY <2>5, <3>3
        <4> QED
          BY <1>3, <2>1, <3>1, <4>2, <4>3 DEF Trial!trial, Judgement, Result, HumanSnapshot
      <3> QED
        BY <3>2, <3>3
    <2> QED
      BY <1>1, <2>8, <2>9, <2>10, <2>11, CommittedColumns
  <1> QED
    BY <1>2, <1>3

\* Every step of a batch is a step of the trial or none.
LEMMA StepIsTrial ==
    ValidationInductive /\ ValidationInductive' /\ [Next]_vars => [Trial!TrialNext]_(Trial!trial)
  <1> SUFFICES ASSUME ValidationInductive, ValidationInductive', [Next]_vars
               PROVE  [Trial!TrialNext]_(Trial!trial)
    OBVIOUS
  <1>1. CASE UNCHANGED <<batch, items, reviews>>
    BY <1>1, TrialStutters
  <1>2. CASE CreateValidationRun \/ CreateBlindBatch
    BY <1>2, TrialEnrols
  <1>3. ASSUME NEW s \in Sessions, Commit(s) PROVE [Trial!TrialNext]_(Trial!trial)
    BY <1>3, TrialCommits
  <1> QED
    BY <1>1, <1>2, <1>3, WritingSteps

\* Nobody changes a judgement once a result exists, results are computed only
\* of complete judgements, and shown only when all exist: the batch implements
\* BlindTrial (the trigger of 0008_p56_integrity_guards.py with the row locks).
THEOREM TrialIsBlind == Spec => KeepsTheTrial
  <1>1. Init => Trial!TrialInit
    BY TrialStarts
  <1> QED
    BY <1>1, StepIsTrial, ValidationInductiveHolds, PTL
       DEF Spec, KeepsTheTrial, Trial!TrialSpec

=============================================================================
