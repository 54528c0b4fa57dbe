-------------------------- MODULE MCDailyPipeline --------------------------
(* Model checking the daily update. *)
EXTENDS DailyPipelineInvariant

\* Two of the four materialisations: the second waits for the first.
TwoStages == <<"market_baseline", "decision">>

=============================================================================
