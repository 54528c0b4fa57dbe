----------------------------- MODULE BlindTrial -----------------------------
(***************************************************************************)
(* What a blind validation promises, whatever the order in which people    *)
(* label, freeze, generate and reveal: nobody can change a judgement once  *)
(* the result it will be compared with exists, results are computed only   *)
(* when every subject has been judged, and nothing is shown before.        *)
(*                                                                         *)
(* Shown results may be hidden again, and computed again: the promise is   *)
(* about the judgements, not about the number of evaluations.              *)
(***************************************************************************)
CONSTANTS Listings,      \* what can be judged
          None           \* no judgement, no result

VARIABLES subjects,      \* the listings of the trial, {} until it exists
          judgement,     \* per subject, the human's word
          result,        \* per subject, the model's word
          shown          \* whether a reader can see the results

trial == <<subjects, judgement, result, shown>>

Complete(f) == \A l \in DOMAIN f : f[l] # None

Blank == [l \in subjects |-> None]

TrialInit ==
    /\ subjects = {}
    /\ judgement = Blank
    /\ result = Blank
    /\ shown = FALSE

\* A trial starts with nothing judged and nothing computed.
Enrol ==
    /\ subjects = {}
    /\ subjects' \in (SUBSET Listings) \ {{}}
    /\ judgement' = Blank'
    /\ result' = Blank'
    /\ UNCHANGED shown

\* Some subjects are judged, or judged again; a judgement is never taken back.
Judge ==
    /\ \A l \in subjects : result[l] = None
    /\ DOMAIN judgement' = subjects
    /\ \A l \in subjects : judgement'[l] = None => judgement[l] = None
    /\ UNCHANGED <<subjects, result, shown>>

\* Every subject gets its result at once, only when all were judged; new
\* results are hidden.
Compute ==
    /\ subjects # {}
    /\ Complete(judgement)
    /\ DOMAIN result' = subjects
    /\ Complete(result')
    /\ shown' = FALSE
    /\ UNCHANGED <<subjects, judgement>>

Show ==
    /\ subjects # {}
    /\ Complete(result)
    /\ shown' \in BOOLEAN
    /\ UNCHANGED <<subjects, judgement, result>>

TrialNext == Enrol \/ Judge \/ Compute \/ Show

TrialSpec == TrialInit /\ [][TrialNext]_trial

=============================================================================
