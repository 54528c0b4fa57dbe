------------------------ MODULE CollectorInvariant ------------------------
(***************************************************************************)
(* The inductive invariant of Collector: what the scope lock and the row   *)
(* locks buy each transaction, and what its uncommitted writes amount to   *)
(* at every step.  The safety properties of Collector follow from it.      *)
(***************************************************************************)
EXTENDS Collector

\* Between mark_observed_presence and the commit.
Closing == {"reconcile", "share", "refresh", "update"}

\* What control says of a worker's run, item and candidate.
Employed ==
    \A w \in Workers :
        /\ pc[w] = "idle" => job[w] = None
        /\ pc[w] # "idle" => job[w] \in Runs
        /\ pc[w] = "insert" => feed[w] # <<>> /\ Item(w) \in Listings
        /\ pc[w] \in {"share", "refresh", "update"} => cur[w] \in Listings

\* A run under way belongs to one worker and has not succeeded.
OwnRun ==
    /\ \A v, w \in Workers : v # w /\ job[v] # None => job[v] # job[w]
    /\ \A w \in Workers : pc[w] # "idle" => runs[job[w]].status # "succeeded"

\* The scope lock is held from the fetch to the end of the transaction.
OwnScope == \A w \in Workers : pc[w] \in Owning => scopeLock[Scope(w)] = w

\* A listing a run has ingested is locked against every other transaction.
OwnListings ==
    /\ \A v, w \in Workers, l \in Listings :
          v # w /\ held[w][l] = "update" => held[v][l] = "none"
    /\ \A w \in Workers : \A l \in seen[w] : held[w][l] = "update"

\* The rows a closing transaction will commit: what the run's evidence says,
\* but for the candidates still to be counted.
DraftOf(w) ==
    /\ todo[w] # {} => complete[w]
    /\ \A l \in todo[w] : l \notin seen[w] /\ Reconcilable(presence[Scope(w)][l])
    /\ \A l \in Listings :
          draft[w][l] =
              IF l \in todo[w] THEN presence[Scope(w)][l]
              ELSE LC!AfterRun(presence[Scope(w)][l], l \in seen[w], complete[w])
    /\ pc[w] # "reconcile" =>
          /\ cur[w] \notin seen[w]
          /\ draft[w][cur[w]].state \in {"missing_candidate", "inactive"}
    /\ pc[w] \in {"refresh", "update"} => held[w][cur[w]] # "none"

\* The statuses a closing transaction will commit: every listing it has seen is
\* among them, each is locked, and each covers the listing's rows.
StatusOf(w) ==
    /\ \A l \in seen[w] : wrote[w][l] # None
    /\ \A l \in Listings : wrote[w][l] # None =>
          /\ wrote[w][l] # "none"
          /\ held[w][l] # "none"
          /\ Covers(wrote[w][l], draft[w][l].state)
          /\ \A s \in Scopes \ {Scope(w)} : Covers(wrote[w][l], presence[s][l].state)

\* A row turns into the state an event of this type reports.
Turns(before, after, type) ==
    before \notin {"none", EventState(type)} /\ after = EventState(type)

\* The events a closing transaction will commit: one for each row that turns.
EventsOf(w) ==
    \A l \in Listings, type \in EventType \ {"new"} :
        <<job[w], l, type>> \in pending[w]
            <=> Turns(presence[Scope(w)][l].state, draft[w][l].state, type)

\* Before that a transaction has announced only listings it has inserted.
Announced(w) ==
    /\ \A e \in pending[w] : e[1] = job[w]
    /\ pc[w] \notin Owning => pending[w] = {}
    /\ pc[w] \notin Closing => \A e \in pending[w] : e[3] = "new"
    /\ \A l \in Listings : <<job[w], l, "new">> \in pending[w] =>
          l \in seen[w] /\ status[l] = "none"

Drafts == \A w \in Workers : pc[w] \in Closing => DraftOf(w)
Statuses == \A w \in Workers : pc[w] \in Closing => StatusOf(w)
Events == \A w \in Workers : pc[w] \in Closing => EventsOf(w)

\* The committed events: of successful runs, one announcement per listing.
Ledger ==
    /\ \A e \in events : runs[e[1]].status = "succeeded"
    /\ \A e \in events : e[3] = "new" => status[e[2]] # "none"
    /\ \A d, e \in events : d[2] = e[2] /\ d[3] = "new" /\ e[3] = "new" => d = e

\* Locks are exclusive, and every open transaction holds exactly the rows,
\* statuses and events its evidence allows (collect, ListingRepository).
Inductive ==
    /\ Employed
    /\ OwnRun
    /\ OwnScope
    /\ OwnListings
    /\ Drafts
    /\ Statuses
    /\ Events
    /\ \A w \in Workers : Announced(w)
    /\ Ledger
    /\ ProjectionIsConservative
=============================================================================
