---------------------------- MODULE MCValidation ----------------------------
(* Model checking a validation batch. *)
EXTENDS ValidationInvariant, TLC

\* Two listings; one data set is refused: a single archetype dominates it.
Entry(bucket, archetypes) ==
    [geography_bucket |-> bucket, archetypes |-> archetypes,
     provenance |-> "REAL_AUTHORIZED", price |-> 28]
TwoDataSets ==
    {1 :> Entry("PUTUO", {"a"}) @@ 2 :> Entry("YANGPU", {"b"}),
     1 :> Entry("PUTUO", {"a", "b"}) @@ 2 :> Entry("PUTUO", {"a", "c"})}
SmallDataset ==
    [minimum_sample_size |-> 2, maximum_sample_size |-> 2,
     required_geography_buckets |-> {"PUTUO"}, minimum_distinct_archetypes |-> 2,
     maximum_single_archetype_percent |-> 50, minimum_price |-> 23, maximum_price |-> 33]

\* The thresholds of config/validation.yaml.
GateOfConfig ==
    [precision_at_5 |-> 8000, precision_at_10 |-> 7000, human_acceptance_at_10 |-> 7000,
     maximum_value_traps_at_10 |-> 1, human_view_recall |-> 8000,
     maximum_why_ranked_major_contradiction_rate |-> 1500, maximum_regret_at_5 |-> 1]

\* A listing judged worth buying, or a trap.
Buy == [class |-> "QUALITY_AT_DISCOUNT", workflow |-> "VIEW", visit |-> TRUE, notes |-> "buy"]
Trap == [class |-> "VALUE_TRAP", workflow |-> "PASS", visit |-> FALSE, notes |-> "trap"]
TwoRequests == {1 :> Buy @@ 2 :> Buy, 2 :> Trap}
OneBlindRequest == {1 :> "WORTH_VIEWING" @@ 2 :> "WAIT"}

Review(verdict, cause) == [verdict |-> verdict, root_cause |-> cause]
TwoReviewRequests == {1 :> Review("AGREE", None) @@ 2 :> Review("CONTRADICT", "DATA_GAP"),
                      1 :> Review("PARTIAL", "UNKNOWN")}
AnySession == Permutations(Sessions)

\* The first listing is a bargain, until the inputs change and it is refused.
Snapshot(class, workflow, eligibility, key) ==
    [class |-> class, workflow |-> workflow, eligibility |-> eligibility, key |-> key,
     valuation_confidence |-> "high", future_confidence |-> "high"]
Results2 ==
    [c \in {1, 2} \X (0..MaxInputs) |->
        IF c[1] = 1 /\ c[2] = 0
        THEN Snapshot("QUALITY_AT_DISCOUNT", "VIEW", "ELIGIBLE", 1)
        ELSE Snapshot("VALUE_TRAP", "PASS", "HARD_RISK", 2)]

=============================================================================
