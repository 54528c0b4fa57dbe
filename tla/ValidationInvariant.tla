------------------------ MODULE ValidationInvariant ------------------------
(***************************************************************************)
(* The inductive invariant of Validation: what a request under way may     *)
(* still write, and what the stage of a batch says of its items, although  *)
(* a request commits over a stage it has not read.                         *)
(***************************************************************************)
EXTENDS Validation

\* The columns of a row.
ItemColumns == DOMAIN BlankItem
BatchColumns == {"protocol", "status", "input_version", "human_labels", "model_outputs",
                 "metrics", "final_recommendation"}
TxnFields == {"pc", "kind", "payload", "seen", "loaded", "target", "writes", "out"}
Statuses == {"blind_labeling", "labels_frozen", "model_generated", "revealed", "finalized"}

IsFcn(f) == f = [x \in DOMAIN f |-> f[x]]

IsItem(item) ==
    /\ IsFcn(item) /\ DOMAIN item = ItemColumns
    /\ item.human_class \in HumanClasses \cup {None}
    /\ item.human_workflow \in Workflows \cup {None}
    /\ item.rank \in (1..Cardinality(Listings)) \cup {None}

AreItems(rows) ==
    /\ IsFcn(rows) /\ DOMAIN rows \subseteq DOMAIN items
    /\ \A l \in DOMAIN rows : IsItem(rows[l])

\* All the items have results, or none has.
Computed == \A l \in DOMAIN items : items[l].model # None
Blind == \A l \in DOMAIN items : items[l].model = None
Judged == \A l \in DOMAIN items : items[l].human_class # None

\* Two versions of an item with the same judgement, and with the same result.
SameJudgement(a, b) ==
    /\ a.human_class = b.human_class /\ a.human_workflow = b.human_workflow
    /\ a.human_visit = b.human_visit /\ a.notes = b.notes
SameResult(a, b) == a.model = b.model /\ a.rank = b.rank

-----------------------------------------------------------------------------
(* The tables. *)

Rows ==
    /\ IsFcn(items)
    /\ \A l \in DOMAIN items : IsItem(items[l])
    /\ IsFcn(reviews)
    /\ IsFcn(txn) /\ DOMAIN txn = Sessions
    /\ lostUpdate \in BOOLEAN
    /\ batch = NoBatch =>
          /\ reviews = <<>>
          /\ \A s \in Sessions : txn[s] = Idle
    /\ batch # NoBatch =>
          /\ IsFcn(batch) /\ DOMAIN batch = BatchColumns
          /\ batch.protocol \in {"p5.6", "p5.5"}

\* What the stage of a P5.6 batch says of its items.
Stages ==
    P56 =>
        /\ items # <<>>
        /\ batch.status = "blind_labeling" => Blind
        /\ batch.status # "blind_labeling" => Judged
        /\ batch.status = "labels_frozen" /\ ~lostUpdate => Blind
        /\ batch.status \in {"model_generated", "revealed", "finalized"} => Computed
        /\ Blind \/ Computed

-----------------------------------------------------------------------------
(* The requests under way. *)

\* Where a request may be, and what it holds wherever that is.
Form(s) ==
    LET t == txn[s]
    IN  /\ batch # NoBatch
        /\ IsFcn(t) /\ DOMAIN t = TxnFields
        /\ t.kind \in Kinds
        /\ t.kind \in P56Kinds => P56
        /\ t.pc \in {"load", "evaluate", "write", "commit"}
        /\ t.pc = "evaluate" => t.kind = "generate"
        /\ t.pc = "write" => t.kind \in LabelKinds \cup {"generate"}
        /\ AreItems(t.writes)
        /\ t.kind \notin LabelKinds \cup {"generate"} => t.writes = <<>>

\* Two transactions never hold the same row.
OwnRows ==
    \A s, t \in Sessions :
        s # t /\ ~At(s, "idle") /\ ~At(t, "idle")
        => DOMAIN txn[s].writes \cap DOMAIN txn[t].writes = {}

\* A label leaves the result alone, takes no class back, and changes what was
\* judged only where there is no result: such a row it holds until it commits.
Labelling(s) ==
    LET t == txn[s]
    IN  /\ t.out = <<>>
        /\ \A l \in DOMAIN t.payload :
              /\ l \in DOMAIN items
              /\ t.kind = "label" => /\ t.payload[l].class \in HumanClasses
                                     /\ t.payload[l].workflow \in Workflows
        /\ t.pc = "write" =>
              /\ AreItems(t.loaded) /\ AreItems(t.target)
              /\ DOMAIN t.loaded = DOMAIN t.target
              /\ \A l \in DOMAIN t.target :
                    /\ SameResult(t.target[l], t.loaded[l])
                    /\ t.target[l].human_class = None => t.loaded[l].human_class = None
        /\ \A l \in DOMAIN t.writes :
              /\ SameResult(t.writes[l], items[l])
              /\ t.writes[l].human_class = None => items[l].human_class = None
              /\ P56 => SameJudgement(t.writes[l], items[l]) \/ items[l].model = None

\* A generation leaves the judgements alone and takes no result back; when it
\* commits every item has one.
Generating(s) ==
    LET t == txn[s]
        \* What was loaded may be old, but not the fact that there was a result.
        Loaded == /\ AreItems(t.loaded) /\ DOMAIN t.loaded = DOMAIN items
                  /\ \A l \in DOMAIN items : t.loaded[l].model # None => items[l].model # None
    IN  /\ t.seen.status = "labels_frozen"
        /\ batch.status # "blind_labeling"
        /\ t.pc \in {"load", "evaluate"} => t.writes = <<>> /\ t.out = <<>>
        /\ t.pc = "evaluate" => Loaded
        /\ t.pc \in {"write", "commit"} =>
              /\ DOMAIN t.out = {"status", "model_outputs"}
              /\ t.out.status = "model_generated"
        /\ t.pc = "write" =>
              /\ Loaded /\ AreItems(t.target) /\ DOMAIN t.target = DOMAIN items
              /\ \A l \in DOMAIN items : /\ SameJudgement(t.target[l], t.loaded[l])
                                         /\ t.target[l].model # None
        /\ \A l \in DOMAIN t.writes : /\ SameJudgement(t.writes[l], items[l])
                                      /\ t.writes[l].model # None
        /\ t.pc = "commit" => \A l \in DOMAIN items \ DOMAIN t.writes : items[l].model # None

\* A freeze commits when every item has been judged.
Freezing(s) ==
    LET t == txn[s]
    IN  /\ t.seen.status = "blind_labeling"
        /\ t.pc = "load" => t.out = <<>>
        /\ t.pc = "commit" =>
              Judged /\ DOMAIN t.out = {"status", "human_labels"} /\ t.out.status = "labels_frozen"

\* A reveal, of either protocol, commits when every item has a result.
Revealing(s) ==
    LET t == txn[s]
    IN  /\ t.kind = "reveal" => Computed
        /\ t.pc = "load" => t.out = <<>>
        /\ t.pc = "commit" =>
              Computed /\ DOMAIN t.out = {"status", "metrics"} /\ t.out.status = "revealed"

\* What a verdict is about, when it was given on these fingerprints.
Stands(labels, outputs, recommendation) ==
    /\ LabelsFingerprint(items) = labels
    /\ ModelFingerprint(items) = outputs
    /\ DOMAIN reviews = DOMAIN items
    /\ \A l \in DOMAIN items : Disagrees(items[l]) => reviews[l].root_cause # None
    /\ recommendation = GateRecommendation(RealWorldMetrics(Cases(items), reviews), Gate)

\* A finalization has the verdict of the rows as they are, as long as every
\* batch was written by a request that had read it.
Finalizing(s) ==
    LET t == txn[s]
    IN  /\ Computed
        /\ t.pc = "load" => t.out = <<>>
        /\ t.pc = "commit" =>
              /\ DOMAIN t.out = {"status", "metrics", "final_recommendation"}
              /\ t.out.status = "finalized"
              /\ t.out.final_recommendation # None
              /\ report # None
              /\ ~lostUpdate => Stands(t.seen.human_labels, t.seen.model_outputs,
                                       t.out.final_recommendation)

Reviewing(s) ==
    LET t == txn[s]
    IN  /\ t.out = <<>>
        /\ DOMAIN t.payload \subseteq DOMAIN items
        /\ \A l \in DOMAIN t.payload : /\ t.payload[l].verdict \in Verdicts
                                       /\ t.payload[l].root_cause \in RootCauses \cup {None}

UnderWay(s) ==
    ~At(s, "idle") =>
        /\ Form(s)
        /\ Of(s, LabelKinds) => Labelling(s)
        /\ Of(s, {"generate"}) => Generating(s)
        /\ Of(s, {"freeze"}) => Freezing(s)
        /\ Of(s, {"reveal", "blind_reveal"}) => Revealing(s)
        /\ Of(s, {"finalize"}) => Finalizing(s)
        /\ Of(s, {"review"}) => Reviewing(s)

Requests == \A s \in Sessions : UnderWay(s)

\* Types, the stages of a batch, and what every open request may still write
\* (Session.flush, the row locks and the trigger of 0008_p56_integrity_guards).
ValidationInductive ==
    /\ TypeOK
    /\ Rows
    /\ Stages
    /\ OwnRows
    /\ Requests
    /\ VerdictStands

=============================================================================
