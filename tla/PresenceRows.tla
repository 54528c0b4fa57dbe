--------------------------- MODULE PresenceRows ---------------------------
(***************************************************************************)
(* The rows of listing_presence and the listing.status column derived from *)
(* them: the vocabulary shared by the collector and by what it promises.   *)
(*                                                                         *)
(* A row is kept per (listing, source, scope_key).  A scope here stands    *)
(* for the pair (source, scope_key).  The state "none" is the absent row.  *)
(***************************************************************************)
EXTENDS Integers

\* settings.disappearance_final_after_runs: how many consecutive complete
\* runs of a scope must miss a listing before its row becomes inactive.
CONSTANT FinalAfter

ASSUME FinalAfterAssumption == FinalAfter \in Nat /\ FinalAfter >= 2

PresenceState == {"none", "active", "missing_candidate", "inactive"}

Row == [state : PresenceState, misses : Nat]

NoRow == [state |-> "none", misses |-> 0]

\* mark_observed_presence, on the row of a listing the run has seen.
ObservedRow == [state |-> "active", misses |-> 0]

\* The rows reconcile_complete_scope selects when the run has not seen them.
Reconcilable(row) == row.state \in {"active", "missing_candidate"}

\* Mutant of MissedRow: the row is final one complete run too early.
MissedRowEarly(row) ==
    [state  |-> IF row.misses + 2 >= FinalAfter THEN "inactive"
                                                ELSE "missing_candidate",
     misses |-> row.misses + 1]

\* One more complete run without the listing.
MissedRow(row) ==
    [state  |-> IF row.misses + 1 >= FinalAfter THEN "inactive"
                                                ELSE "missing_candidate",
     misses |-> row.misses + 1]

\* The second miss of a candidate that is still below the threshold counts,
\* but appends no snapshot and no event.
Silent(row) ==
    /\ row.state = "missing_candidate"
    /\ MissedRow(row).state = "missing_candidate"

\* The rows complete runs can leave behind: the counter of a row is the number
\* of complete runs in succession that missed its listing, capped by finality.
CountedRows ==
    {row \in [state : PresenceState, misses : 0 .. FinalAfter] :
        /\ row.state \in {"none", "active"} => row.misses = 0
        /\ row.state = "missing_candidate" => row.misses \in 1 .. FinalAfter - 1
        /\ row.state = "inactive" => row.misses = FinalAfter}

\* _refresh_listing_status: the status derived from the states of a listing's
\* rows in all its scopes ("none": no row, the column is left alone).
DerivedStatus(states) ==
    IF "active" \in states THEN "active"
    ELSE IF "missing_candidate" \in states THEN "missing_candidate"
    ELSE IF "inactive" \in states THEN "inactive"
    ELSE "none"

\* A status does not claim more absence than a row of that state shows.
Covers(listingStatus, rowState) ==
    /\ rowState = "active" => listingStatus = "active"
    /\ rowState = "missing_candidate" => listingStatus \in {"active", "missing_candidate"}
    /\ rowState = "inactive" => listingStatus # "none"
=============================================================================
