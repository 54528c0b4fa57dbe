-------------------------- MODULE ScopeLifecycle --------------------------
(***************************************************************************)
(* What the collector promises about absence, without transactions, locks, *)
(* workers or feeds: a crawl run either succeeds, in one step, with a set  *)
(* of listings seen, or ends without evidence.  Only a complete success    *)
(* counts a miss, and only in the scope of that run.                       *)
(***************************************************************************)
EXTENDS PresenceRows

CONSTANTS Listings, Scopes, Runs, RunScope

VARIABLES runs, presence

vars == <<runs, presence>>

RunStatus == {"none", "succeeded", "failed", "paused_auth", "already_running"}

Completeness == {"unknown", "complete", "partial"}

Init ==
    /\ runs = [r \in Runs |-> [status |-> "none", completeness |-> "unknown"]]
    /\ presence \in [Scopes -> [Listings -> CountedRows]]

\* The row of a listing after a successful run of its scope.
AfterRun(row, observed, complete) ==
    IF observed THEN ObservedRow
    ELSE IF complete /\ Reconcilable(row) THEN MissedRow(row)
    ELSE row

\* A run succeeds: every row of its scope takes its new value at once.
Succeed(r, saw, complete) ==
    /\ runs[r].status # "succeeded"
    /\ runs' = [runs EXCEPT ![r] =
                  [status       |-> "succeeded",
                   completeness |-> IF complete THEN "complete" ELSE "partial"]]
    /\ presence' = [presence EXCEPT ![RunScope[r]] =
                      [l \in Listings |-> AfterRun(@[l], l \in saw, complete)]]

\* A run ends without evidence: no row of any scope changes.
EndWithout(r) ==
    /\ runs[r].status # "succeeded"
    /\ \E st \in {"failed", "paused_auth", "already_running"} :
          runs' = [runs EXCEPT ![r] = [status |-> st, completeness |-> "unknown"]]
    /\ UNCHANGED presence

Next ==
    \E r \in Runs :
        \/ \E saw \in SUBSET Listings, complete \in BOOLEAN : Succeed(r, saw, complete)
        \/ EndWithout(r)

Spec == Init /\ [][Next]_vars
=============================================================================
