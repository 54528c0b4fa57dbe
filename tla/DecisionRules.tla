--------------------------- MODULE DecisionRules ---------------------------
(* P5.5: the decision about a home and the ranking of the decisions        *)
(* (services/decision classification.py, workflow.py, ranking.py,          *)
(* why_ranked.py, orchestrator.py, config.py; routes/decision.py).         *)
EXTENDS FutureRules

CONSTANT DecisionConfig     \* config/decision.yaml

IsEligibilityConfig(c) == c.confidence \in ToSet(Levels) /\ c.risk \in Scores

IsRankingConfig(c) ==
    /\ DOMAIN c.classification = {"QUALITY_AT_DISCOUNT", "GOOD_BUT_EXPENSIVE"}
    /\ DOMAIN c.confidence = ToSet(Levels)
    /\ \A l \in DOMAIN c.classification : c.classification[l] \in Int
    /\ \A l \in DOMAIN c.confidence : c.confidence[l] \in Int

ASSUME DecisionConfigIsValid ==
    /\ \A n \in {"value", "future", "coverage", "riskCoverage"} : DecisionConfig.classification[n] \in Nat
    /\ IsEligibilityConfig(DecisionConfig.eligibility) /\ IsRankingConfig(DecisionConfig.ranking)
    /\ \A n \in {"value", "future", "liquidity", "risk", "contact"} : DecisionConfig.workflow[n] \in Nat
    /\ {DecisionConfig.explanations.liquidity, DecisionConfig.explanations.alpha} \subseteq Int

\* The loader takes priorities in any order, and any warning as a hard risk; in
\* the file the better comes first, and a plan that may fail is not hard.
ASSUME PrioritiesAreInOrder ==
    /\ LET c == DecisionConfig.ranking.classification
        IN  c["QUALITY_AT_DISCOUNT"] >= c["GOOD_BUT_EXPENSIVE"]
    /\ \A i, j \in DOMAIN Levels : i <= j =>
          DecisionConfig.ranking.confidence[Levels[i]] <= DecisionConfig.ranking.confidence[Levels[j]]
    /\ "PLANNING_DEPENDENCY" \notin DecisionConfig.eligibility.hardRisks

\* What a decision is made from: the valuation and the outlook it was made for.
DecisionInputs(v, f) ==
    [value |-> v.score, discount |-> v.discount, liquidity |-> v.liquidity,
     valuationConfidence |-> v.confidence, baselineConfidence |-> v.baseline,
     future |-> f.score, coverage |-> f.coverage, futureConfidence |-> f.confidence,
     risk |-> f.risk, riskCoverage |-> f.riskCoverage, alpha |-> f.alpha,
     warnings |-> v.warnings \cup f.warnings]

\* A valuation a decision may be made from.
ValidInputs(v) == v.ask > 0 /\ v.fair > 0 /\ v.low <= v.fair /\ v.fair <= v.high /\ v.score \in Scores

Insufficient(i) ==
    LET c == DecisionConfig.classification
    IN  \/ None \in {i.future, i.risk}
        \/ i.coverage < c.coverage \/ i.riskCoverage < c.riskCoverage
        \/ "insufficient" \in {i.valuationConfidence, i.futureConfidence, i.baselineConfidence}

ClassifyOpportunity(i) ==
    LET c == DecisionConfig.classification
    IN  IF Insufficient(i) THEN "INSUFFICIENT_DATA"
        ELSE IF i.future >= c.future
        THEN IF i.value >= c.value THEN "QUALITY_AT_DISCOUNT" ELSE "GOOD_BUT_EXPENSIVE"
        ELSE IF i.value >= c.value THEN "VALUE_TRAP" ELSE "LOW_QUALITY"

ConfidenceGatePassed(i) ==
    \A level \in {i.valuationConfidence, i.futureConfidence, i.baselineConfidence} :
        LevelOrder(level) >= LevelOrder(DecisionConfig.eligibility.confidence)

HardRisks(i) ==
    LET c == DecisionConfig.eligibility
    IN  (c.hardRisks \cap i.warnings)
        \cup (IF i.risk # None /\ i.risk >= c.risk THEN {"HIGH_OBSOLESCENCE_RISK"} ELSE {})

EligibilityStatus(class, passed, risks) ==
    IF class = "INSUFFICIENT_DATA" \/ ~passed THEN "INSUFFICIENT"
    ELSE IF risks # {} \/ class \in {"VALUE_TRAP", "LOW_QUALITY"} THEN "HARD_RISK_FILTERED"
    ELSE "ELIGIBLE"

WorkflowStates == <<"PASS", "WATCH", "CONTACT", "VIEW">>

WorkflowState(i, class, status) ==
    LET w == DecisionConfig.workflow
    IN  IF status # "ELIGIBLE" THEN "PASS"
        ELSE IF class = "GOOD_BUT_EXPENSIVE" \/ None \in {i.future, i.risk, i.liquidity} THEN "WATCH"
        ELSE IF /\ i.value >= w.value /\ i.future >= w.future
                /\ i.liquidity >= w.liquidity /\ i.risk <= w.risk
        THEN "VIEW"
        ELSE IF i.liquidity >= w.contact THEN "CONTACT" ELSE "WATCH"

\* The reasons that are given for a decision.
Reasons(i) ==
    LET c == DecisionConfig.explanations
        if(p, x) == IF p THEN {x} ELSE {}
    IN  [positive |-> if(i.discount > 0, "FAIR_VALUE_DISCOUNT")
                      \cup if(i.liquidity # None /\ i.liquidity >= c.liquidity, "HIGH_LIQUIDITY")
                      \cup if(i.future # None /\ i.future >= DecisionConfig.classification.future,
                              "STRONG_FUTURE_QUALITY")
                      \cup if(i.alpha >= c.alpha, "POSITIVE_STRUCTURAL_ALPHA"),
         negative |-> (c.explained \cap i.warnings) \cup if(i.liquidity = None, "MISSING_LIQUIDITY")]

Decide(i) ==
    LET class == ClassifyOpportunity(i)
        status == EligibilityStatus(class, ConfidenceGatePassed(i), HardRisks(i))
    IN  [inputs |-> i, class |-> class, status |-> status,
         state |-> WorkflowState(i, class, status), risks |-> HardRisks(i), reasons |-> Reasons(i)]

\* A decision that decision_assessment stores.
IsDecision(d) ==
    /\ d.class \in {"QUALITY_AT_DISCOUNT", "GOOD_BUT_EXPENSIVE", "VALUE_TRAP", "LOW_QUALITY",
                    "INSUFFICIENT_DATA"}
    /\ d.state \in ToSet(WorkflowStates)
    /\ d.status \in {"ELIGIBLE", "HARD_RISK_FILTERED", "INSUFFICIENT"}
    /\ d.inputs.value \in Scores /\ IsScore(d.inputs.future) /\ IsScore(d.inputs.risk)
    /\ d.inputs.liquidity = None \/ d.inputs.liquidity \in 0 .. 100

-----------------------------------------------------------------------------
(* Ranking.                                                                *)

\* Mutant: the riskier home is ranked first.
SortKeyRiskierFirst(d) ==
    LET r == DecisionConfig.ranking
        i == d.inputs
    IN  <<-r.classification[d.class],
          -Min({r.confidence[i.valuationConfidence], r.confidence[i.futureConfidence]}),
          -OrZero(i.liquidity), IF i.future = None THEN 0 ELSE -i.future, -i.value,
          IF i.risk = None THEN 10100 ELSE -i.risk, -i.alpha>>

\* What the decisions are ranked by, the least first; the listing breaks ties.
DecisionSortKey(d) ==
    LET r == DecisionConfig.ranking
        i == d.inputs
    IN  <<-r.classification[d.class],
          -Min({r.confidence[i.valuationConfidence], r.confidence[i.futureConfidence]}),
          -OrZero(i.liquidity), IF i.future = None THEN 0 ELSE -i.future, -i.value,
          IF i.risk = None THEN 10100 ELSE i.risk, -i.alpha>>

LessThan(x, y) ==
    \E n \in DOMAIN x : x[n] < y[n] /\ \A m \in 1 .. n - 1 : x[m] = y[m]

\* The ranks of the eligible decisions about homes on offer; place gives the
\* order of the listings.
RankContext(decisions, offered, place) ==
    LET eligible == {l \in DOMAIN decisions \cap offered : decisions[l].status = "ELIGIBLE"}
        key(l) == Append(DecisionSortKey(decisions[l]), place[l])
    IN  [l \in eligible |-> 1 + Cardinality({m \in eligible : LessThan(key(m), key(l))})]
=============================================================================
