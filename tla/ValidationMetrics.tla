------------------------- MODULE ValidationMetrics -------------------------
(***************************************************************************)
(* The arithmetic of the two validation protocols: what is measured when a *)
(* batch of human labels is compared with the model's results, and what    *)
(* the real-world gate recommends (p56_metrics.py, validation.py).         *)
(*                                                                         *)
(* A rate is in ten-thousandths, as the code quantizes it to four places.  *)
(* The cases of a batch are a function from its listings to records.       *)
(***************************************************************************)
EXTENDS Integers, FiniteSets

CONSTANT None            \* the missing value

\* The words of the two vocabularies.
HumanClasses == {"QUALITY_AT_DISCOUNT", "GOOD_BUT_EXPENSIVE", "VALUE_TRAP",
                 "LOW_QUALITY", "INSUFFICIENT_INFORMATION"}
ModelClasses == (HumanClasses \ {"INSUFFICIENT_INFORMATION"}) \cup {"INSUFFICIENT_DATA"}
RootCauses == {"DATA_GAP", "BAD_COMPARABLE_SELECTION", "VALUATION_ERROR", "LIQUIDITY_ERROR",
               "FUTURE_FACTOR_ERROR", "OBSOLESCENCE_ERROR", "DECISION_RULE_ERROR",
               "HUMAN_DISAGREEMENT", "UNKNOWN"}
Verdicts == {"AGREE", "PARTIAL", "CONTRADICT"}
Workflows == {"PASS", "WATCH", "CONTACT", "VIEW"}

\* What the gate may recommend.
Recommendations == {"P6_READY", "P6_READY_WITH_LIMITATIONS", "P5_CALIBRATION_REQUIRED"}

\* A share, rounded half up; there is none of nothing.
Rate(numerator, denominator) ==
    IF denominator = 0 THEN None ELSE (20000 * numerator + denominator) \div (2 * denominator)

\* The model's word for what a human calls INSUFFICIENT_INFORMATION.
AsModelClass(class) == IF class = "INSUFFICIENT_INFORMATION" THEN "INSUFFICIENT_DATA" ELSE class

\* Human and model disagree on the class or on what to do.
IsError(case) ==
    \/ AsModelClass(case.human_class) # case.model_class
    \/ case.human_workflow # case.model_workflow

ConfidenceBand(case) ==
    LET levels == {case.valuation_confidence, case.future_confidence}
    IN  IF levels = {"high"} THEN "high"
        ELSE IF levels \cap {"low", "insufficient"} # {} THEN "low" ELSE "medium"

\* The listings among the first k of the frozen ranking.
Top(cases, k) == {l \in DOMAIN cases : cases[l].rank # None /\ cases[l].rank <= k}

\* The share of a group of listings that are in a second one.
ShareOf(part, group) == Rate(Cardinality(part \cap group), Cardinality(group))

RealWorldMetrics(cases, reviews) ==
    LET all == DOMAIN cases
        Human(class) == {l \in all : cases[l].human_class = class}
        visits == {l \in all : cases[l].human_visit}
        errors == {l \in all : IsError(cases[l])}
        views == {l \in all : cases[l].human_workflow = "VIEW"}
        band(b) == {l \in all : ConfidenceBand(cases[l]) = b}
        reviewed == all \cap DOMAIN reviews
        Verdict(v) == {l \in reviewed : reviews[l].verdict = v}
    IN  [sample_size |-> Cardinality(all),
         ranked_count |-> Cardinality({l \in all : cases[l].rank # None}),
         precision_at_5 |-> ShareOf(Human("QUALITY_AT_DISCOUNT"), Top(cases, 5)),
         precision_at_10 |-> ShareOf(Human("QUALITY_AT_DISCOUNT"), Top(cases, 10)),
         human_acceptance_at_5 |-> ShareOf(visits, Top(cases, 5)),
         human_acceptance_at_10 |-> ShareOf(visits, Top(cases, 10)),
         human_view_recall |-> ShareOf({l \in all : cases[l].model_workflow = "VIEW"}, views),
         value_trap_false_positive_rate |->
             ShareOf({l \in all : /\ cases[l].model_class # "VALUE_TRAP"
                                  /\ \/ cases[l].model_eligibility = "ELIGIBLE"
                                     \/ cases[l].model_workflow = "VIEW"},
                     Human("VALUE_TRAP")),
         value_traps_at_5 |-> Cardinality(Human("VALUE_TRAP") \cap Top(cases, 5)),
         value_traps_at_10 |-> Cardinality(Human("VALUE_TRAP") \cap Top(cases, 10)),
         value_trap_rate_at_5 |-> ShareOf(Human("VALUE_TRAP"), Top(cases, 5)),
         value_trap_rate_at_10 |-> ShareOf(Human("VALUE_TRAP"), Top(cases, 10)),
         workflow_accuracy |->
             ShareOf({l \in all : cases[l].human_workflow = cases[l].model_workflow}, all),
         opportunity_confusion_matrix |->
             [human \in HumanClasses |-> [model \in ModelClasses |->
                 Cardinality({l \in Human(human) : cases[l].model_class = model})]],
         why_ranked_agreement_rate |-> ShareOf(Verdict("AGREE"), reviewed),
         why_ranked_major_contradiction_rate |-> ShareOf(Verdict("CONTRADICT"), reviewed),
         reviewed_count |-> Cardinality(reviewed),
         error_count |-> Cardinality(errors),
         high_confidence_error_rate |-> ShareOf(errors, band("high")),
         low_confidence_error_rate |-> ShareOf(errors, band("low")),
         regret_at_5 |-> Cardinality(Top(cases, 5) \ visits),
         root_cause_distribution |->
             [cause \in {reviews[l].root_cause : l \in reviewed} \ {None} |->
                 Cardinality({l \in reviewed : reviews[l].root_cause = cause})]]

AtLeast(actual, expected) == actual # None /\ actual >= expected
Below(actual, limit) == actual # None /\ actual < limit

\* The checks of the gate that guard the buyer rather than grade the model.
SafetyChecks == {"value_traps_at_10", "why_ranked_major_contradiction_rate", "regret_at_5"}

GateChecks(metrics, gate) ==
    [precision_at_5 |-> AtLeast(metrics.precision_at_5, gate.precision_at_5),
     precision_at_10 |-> AtLeast(metrics.precision_at_10, gate.precision_at_10),
     human_acceptance_at_10 |-> AtLeast(metrics.human_acceptance_at_10, gate.human_acceptance_at_10),
     value_traps_at_10 |-> metrics.value_traps_at_10 <= gate.maximum_value_traps_at_10,
     human_view_recall |-> AtLeast(metrics.human_view_recall, gate.human_view_recall),
     why_ranked_major_contradiction_rate |->
         Below(metrics.why_ranked_major_contradiction_rate,
               gate.maximum_why_ranked_major_contradiction_rate),
     regret_at_5 |-> metrics.regret_at_5 <= gate.maximum_regret_at_5]

GateRecommendation(metrics, gate) ==
    LET checks == GateChecks(metrics, gate)
    IN  IF \A c \in DOMAIN checks : checks[c] THEN "P6_READY"
        ELSE IF \A c \in SafetyChecks : checks[c] THEN "P6_READY_WITH_LIMITATIONS"
        ELSE "P5_CALIBRATION_REQUIRED"

\* The older protocol: one word per listing, compared with the frozen ranking.
BlindMetrics(cases, accepted, strictPositive) ==
    LET all == DOMAIN cases
        Labelled(S) == {l \in all : cases[l].human_label \in S}
        views == {l \in all : cases[l].model_workflow = "VIEW"}
    IN  [labeled_count |-> Cardinality(all),
         precision_at_5 |-> ShareOf(Labelled({strictPositive}), Top(cases, 5)),
         precision_at_10 |-> ShareOf(Labelled({strictPositive}), Top(cases, 10)),
         value_trap_false_positive_rate |->
             ShareOf({l \in all : cases[l].model_eligibility = "ELIGIBLE"} \cup views,
                     Labelled({"VALUE_TRAP"})),
         view_acceptance_rate |-> ShareOf(Labelled({strictPositive}), views),
         top_10_manual_acceptance_rate |-> ShareOf(Labelled(accepted), Top(cases, 10))]

=============================================================================
