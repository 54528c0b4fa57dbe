-------------------------- MODULE CollectorProofs --------------------------
(***************************************************************************)
(* Proofs about Collector for any workers, listings, scopes, runs and      *)
(* feeds and any threshold of at least two.                                *)
(***************************************************************************)
EXTENDS CollectorInvariant, FiniteSetTheorems, TLAPS

USE FinalAfterAssumption, CollectorAssumption

\* The operators on rows stay within rows.
LEMMA RowFacts ==
    /\ CountedRows \subseteq Row
    /\ NoRow \in Row
    /\ ObservedRow \in Row
    /\ \A row \in Row : MissedRow(row) \in Row
  BY DEF CountedRows, Row, NoRow, ObservedRow, MissedRow, PresenceState

\* _refresh_listing_status assigns a status, whatever states it reads.
LEMMA DerivedType ==
    \A states : DerivedStatus(states) \in ListingStatus
  BY DEF DerivedStatus, ListingStatus, PresenceState

\* The values an empty session starts from have their types.
LEMMA EmptyTypes ==
    /\ Blank \in [Listings -> Row]
    /\ Unwritten \in [Listings -> ListingStatus \cup {None}]
    /\ Unlocked \in [Listings -> LockMode]
  BY RowFacts DEF Blank, Unwritten, Unlocked, LockMode

\* The variables of a worker keep their types when its transaction ends.
LEMMA EndType ==
    ASSUME TypeOK, NEW w \in Workers, EndTransaction(w)
    PROVE  /\ scopeLock' \in [Scopes -> Workers \cup {None}]
           /\ held' \in [Workers -> [Listings -> LockMode]]
           /\ feed' \in [Workers -> Seq(Listings \cup {Malformed})]
           /\ complete' \in [Workers -> BOOLEAN]
           /\ seen' \in [Workers -> SUBSET Listings]
           /\ draft' \in [Workers -> [Listings -> Row]]
           /\ wrote' \in [Workers -> [Listings -> ListingStatus \cup {None}]]
           /\ pending' \in [Workers -> SUBSET (Runs \X Listings \X EventType)]
           /\ todo' \in [Workers -> SUBSET Listings]
           /\ cur' \in [Workers -> Listings \cup {None}]
           /\ loaded' \in [Workers -> ListingStatus]
  BY EmptyTypes DEF EndTransaction, TypeOK, ListingStatus, PresenceState

\* The initial states have the types of TypeOK.
LEMMA InitType == Init => TypeOK
  BY RowFacts, EmptyTypes, DerivedType
  DEF Init, TypeOK, Control, ListingStatus, PresenceState, LC!RunStatus, LC!Completeness

\* The rest of a feed is a feed.
LEMMA TailType ==
    ASSUME NEW S, NEW q \in Seq(S), q # <<>>
    PROVE  Tail(q) \in Seq(S)
  OBVIOUS

\* Undoing an item's savepoint keeps every type.
LEMMA DropType ==
    ASSUME TypeOK, Employed, NEW w \in Workers, DropItem(w), feed[w] # <<>>,
           pc[w] \in {"ingest", "insert"}
    PROVE  TypeOK' /\ Employed'
  <1>1. Tail(feed[w]) \in Seq(Listings \cup {Malformed})
    BY TailType DEF TypeOK
  <1>2. TypeOK'
    BY <1>1 DEF DropItem, NextItem, Goto, Control, Owning, tables, writes, sweep, TypeOK
  <1>3. Employed'
    BY DEF DropItem, NextItem, Goto, Control, Owning, tables, writes, sweep, TypeOK, Employed, Item
  <1>. QED  BY <1>2, <1>3

\* A rollback keeps every type.
LEMMA RollBackType ==
    ASSUME TypeOK, Employed, NEW w \in Workers, NEW kind \in Failing, RollBack(w, kind)
    PROVE  TypeOK' /\ Employed'
  <1>1. TypeOK'
    BY EndType DEF RollBack, Goto, Control, Failing, tables, TypeOK
  <1>2. Employed'
    BY DEF RollBack, EndTransaction, Goto, Owning, Failing, TypeOK, Employed, Item
  <1>. QED  BY <1>1, <1>2

\* A worker that leaves its run keeps control and session consistent.
LEMMA LeaveEmployed ==
    ASSUME TypeOK, Employed, NEW w \in Workers, EndTransaction(w), Leave(w)
    PROVE  Employed'
  BY DEF EndTransaction, Leave, Goto, Employed, Item, TypeOK

\* Every step of every worker keeps the types.
LEMMA NextType ==
    ASSUME TypeOK, Employed, [Next]_vars
    PROVE  TypeOK' /\ Employed'
  <1>1. ASSUME NEW w \in Workers, NEW r \in Runs, Begin(w, r)
        PROVE  TypeOK' /\ Employed'
    <2>1. TypeOK'
      BY <1>1 DEF TypeOK, Begin, Goto, Control, tables, fetched, writes, sweep
    <2>2. Employed'
      BY <1>1 DEF TypeOK, Employed, Item, Begin, Goto, fetched, sweep
    <2>. QED  BY <2>1, <2>2
  <1>2. ASSUME NEW w \in Workers, TakeScopeLock(w)
        PROVE  TypeOK' /\ Employed'
    <2>1. TypeOK'
      BY <1>2 DEF TypeOK, TakeScopeLock, Goto, Control, Owning, tables, fetched, writes, sweep
    <2>2. Employed'
      BY <1>2 DEF TypeOK, Employed, Item, TakeScopeLock, Goto, fetched, sweep
    <2>. QED  BY <2>1, <2>2
  <1>3. ASSUME NEW w \in Workers, AlreadyRunning(w)
        PROVE  TypeOK' /\ Employed'
    <2>1. TypeOK'
      BY <1>3, EndType DEF TypeOK, AlreadyRunning, Leave, Goto, Control, LC!RunStatus,
            LC!Completeness
    <2>. QED  BY <1>3, <2>1, LeaveEmployed DEF AlreadyRunning
  <1>4. ASSUME NEW w \in Workers, Fetch(w)
        PROVE  TypeOK' /\ Employed'
    <2>1. TypeOK'
      BY <1>4 DEF TypeOK, Fetch, Goto, Control, Owning, tables, writes, sweep
    <2>2. Employed'
      BY <1>4 DEF TypeOK, Employed, Item, Fetch, Goto, sweep
    <2>. QED  BY <2>1, <2>2
  <1>5. ASSUME NEW w \in Workers, RejectItem(w)
        PROVE  TypeOK' /\ Employed'
    <2>1. Tail(feed[w]) \in Seq(Listings \cup {Malformed})
      BY <1>5, TailType DEF RejectItem, AtItem, TypeOK
    <2>2. TypeOK'
      BY <1>5, <2>1 DEF TypeOK, RejectItem, NextItem, tables, writes, sweep
    <2>3. Employed'
      BY <1>5 DEF TypeOK, Employed, Item, RejectItem, AtItem, NextItem, sweep
    <2>. QED  BY <2>2, <2>3
  <1>6. ASSUME NEW w \in Workers, IngestKnown(w)
        PROVE  TypeOK' /\ Employed'
    <2>1. Tail(feed[w]) \in Seq(Listings \cup {Malformed})
      BY <1>6, TailType DEF IngestKnown, AtItem, TypeOK
    <2>2. TypeOK'
      BY <1>6, <2>1 DEF TypeOK, IngestKnown, NextItem, LockMode, tables, sweep
    <2>3. Employed'
      BY <1>6 DEF TypeOK, Employed, Item, IngestKnown, AtItem, NextItem, sweep
    <2>. QED  BY <2>2, <2>3
  <1>7. ASSUME NEW w \in Workers, MissListing(w)
        PROVE  TypeOK' /\ Employed'
    <2>1. TypeOK'
      BY <1>7 DEF TypeOK, MissListing, Goto, Control, Owning, tables, fetched, writes, sweep
    <2>2. Employed'
      BY <1>7 DEF TypeOK, Employed, Item, MissListing, AtItem, Goto, fetched, sweep
    <2>. QED  BY <2>1, <2>2
  <1>8. ASSUME NEW w \in Workers, InsertListing(w)
        PROVE  TypeOK' /\ Employed'
    <2>1. job[w] \in Runs /\ Item(w) \in Listings
      BY <1>8 DEF InsertListing, Employed
    <2>2. Tail(feed[w]) \in Seq(Listings \cup {Malformed})
      BY <1>8, TailType DEF InsertListing, Employed, TypeOK
    <2>3. TypeOK'
      BY <1>8, <2>1, <2>2 DEF TypeOK, InsertListing, Goto, NextItem, LockMode, EventType,
            Control, Owning, tables, sweep
    <2>4. Employed'
      BY <1>8 DEF TypeOK, Employed, Item, InsertListing, Goto, NextItem, sweep
    <2>. QED  BY <2>3, <2>4
  <1>9. ASSUME NEW w \in Workers, DuplicateListing(w)
        PROVE  TypeOK' /\ Employed'
    BY <1>9, DropType DEF DuplicateListing, Employed
  <1>10. ASSUME NEW w \in Workers, ItemError(w)
         PROVE  TypeOK' /\ Employed'
    BY <1>10, DropType DEF ItemError, AtItem, Employed
  <1>11. ASSUME NEW w \in Workers, Settle(w)
         PROVE  TypeOK' /\ Employed'
    <2>1. job[w] \in Runs /\ Scope(w) \in Scopes
      BY <1>11 DEF Settle, Employed, Scope
    <2>2. [l \in Listings |-> IF l \in seen[w] THEN ObservedRow ELSE presence[Scope(w)][l]]
             \in [Listings -> Row]
      BY <2>1, RowFacts DEF TypeOK
    <2>3. complete' \in [Workers -> BOOLEAN]
      BY <1>11 DEF TypeOK, Settle
    <2>4. pending' \in [Workers -> SUBSET (Runs \X Listings \X EventType)]
      BY <1>11, <2>1 DEF TypeOK, Settle, EventType
    <2>5. TypeOK'
      BY <1>11, <2>2, <2>3, <2>4 DEF TypeOK, Settle, Goto, Control, Owning, ListingStatus,
            PresenceState,            Candidates, tables
    <2>6. Employed'
      BY <1>11 DEF TypeOK, Employed, Item, Settle, Goto
    <2>. QED  BY <2>5, <2>6
  <1>12. ASSUME NEW w \in Workers, NEW l \in Listings, MissCandidate(w, l)
         PROVE  TypeOK' /\ Employed'
    <2>1. job[w] \in Runs
      BY <1>12 DEF MissCandidate, Employed
    <2>2. TransitionEvents(w, l) \subseteq Runs \X Listings \X EventType
      BY <2>1 DEF TransitionEvents, EventType
    <2>3. pending' \in [Workers -> SUBSET (Runs \X Listings \X EventType)]
      BY <1>12, <2>2 DEF TypeOK, MissCandidate
    <2>4. draft' \in [Workers -> [Listings -> Row]]
      BY <1>12, RowFacts DEF TypeOK, MissCandidate
    <2>5. /\ pc' \in [Workers -> Control]
          /\ cur' \in [Workers -> Listings \cup {None}]
          /\ loaded' \in [Workers -> ListingStatus]
      <3>1. CASE Silent(draft[w][l])
        BY <1>12, <3>1 DEF TypeOK, MissCandidate
      <3>2. CASE ~Silent(draft[w][l])
        <4>1. /\ pc' = [pc EXCEPT ![w] = "share"]
              /\ cur' = [cur EXCEPT ![w] = l]
              /\ loaded' = [loaded EXCEPT ![w] = status[l]]
          BY <1>12, <3>2 DEF MissCandidate, Goto
        <4>2. pc' \in [Workers -> Control]
          BY <4>1 DEF TypeOK, Control, Owning
        <4>3. cur' \in [Workers -> Listings \cup {None}]
          BY <4>1 DEF TypeOK
        <4>4. loaded' \in [Workers -> ListingStatus]
          BY <4>1 DEF TypeOK
        <4>. QED  BY <4>2, <4>3, <4>4
      <3>. QED  BY <3>1, <3>2
    <2>7. TypeOK'
      BY <1>12, <2>3, <2>4, <2>5 DEF TypeOK, MissCandidate, tables, fetched
    <2>6. Employed'
      BY <1>12 DEF TypeOK, Employed, Item, MissCandidate, Goto, fetched
    <2>. QED  BY <2>6, <2>7
  <1>13. ASSUME NEW w \in Workers, ShareListing(w)
         PROVE  TypeOK' /\ Employed'
    <2>1. TypeOK'
      BY <1>13 DEF TypeOK, ShareListing, Goto, Control, Owning, LockMode, tables, fetched,
            writes, sweep
    <2>2. Employed'
      BY <1>13 DEF TypeOK, Employed, Item, ShareListing, Goto, fetched, sweep
    <2>. QED  BY <2>1, <2>2
  <1>14. ASSUME NEW w \in Workers, RefreshStatus(w)
         PROVE  TypeOK' /\ Employed'
    <2>1. Refreshed(w, cur[w]) \in ListingStatus
      BY DerivedType DEF Refreshed
    <2>2. TypeOK'
      <3>1. CASE Refreshed(w, cur[w]) = loaded[w]
        BY <1>14, <3>1 DEF TypeOK, RefreshStatus, Goto, Control, Owning, tables, fetched, sweep
      <3>2. CASE Refreshed(w, cur[w]) # loaded[w]
        <4>1. /\ pc' = [pc EXCEPT ![w] = "update"]
              /\ wrote' = [wrote EXCEPT ![w][cur[w]] = Refreshed(w, cur[w])]
          BY <1>14, <3>2 DEF RefreshStatus, Goto
        <4>2. pc' \in [Workers -> Control]
          BY <4>1 DEF TypeOK, Control, Owning
        <4>3. wrote' \in [Workers -> [Listings -> ListingStatus \cup {None}]]
          BY <4>1, <2>1 DEF TypeOK
        <4>. QED
          BY <1>14, <4>2, <4>3 DEF TypeOK, RefreshStatus, tables, fetched, sweep
      <3>. QED  BY <3>1, <3>2
    <2>3. Employed'
      BY <1>14 DEF TypeOK, Employed, Item, RefreshStatus, Goto, fetched, sweep
    <2>. QED  BY <2>2, <2>3
  <1>15. ASSUME NEW w \in Workers, UpdateStatus(w)
         PROVE  TypeOK' /\ Employed'
    <2>1. TypeOK'
      BY <1>15 DEF TypeOK, UpdateStatus, Goto, Control, Owning, LockMode, tables, fetched,
            writes, sweep
    <2>2. Employed'
      BY <1>15 DEF TypeOK, Employed, Item, UpdateStatus, Goto, fetched, sweep
    <2>. QED  BY <2>1, <2>2
  <1>16. ASSUME NEW w \in Workers, Commit(w)
         PROVE  TypeOK' /\ Employed'
    <2>1. /\ runs' \in [Runs -> [status : LC!RunStatus, completeness : LC!Completeness]]
          /\ presence' \in [Scopes -> [Listings -> Row]]
          /\ events' \subseteq Runs \X Listings \X EventType
      BY <1>16 DEF TypeOK, Commit, CommittedRows, LC!RunStatus, LC!Completeness
    <2>3. status' \in [Listings -> ListingStatus]
      BY <1>16 DEF TypeOK, Commit
    <2>2. TypeOK'
      BY <1>16, <2>1, <2>3, EndType DEF TypeOK, Commit, Leave, Goto, Control
    <2>. QED  BY <1>16, <2>2, LeaveEmployed DEF Commit
  <1>17. ASSUME NEW w \in Workers, RecordFailure(w)
         PROVE  TypeOK' /\ Employed'
    <2>1. TypeOK'
      BY <1>17 DEF TypeOK, RecordFailure, Leave, Goto, Control, Failing, LC!RunStatus,
            LC!Completeness, fetched, writes, sweep
    <2>2. Employed'
      BY <1>17 DEF TypeOK, Employed, Item, RecordFailure, Leave, Goto, fetched, sweep
    <2>. QED  BY <2>1, <2>2
  <1>18. ASSUME NEW w \in Workers, DeadlockVictim(w)
         PROVE  TypeOK' /\ Employed'
    <2>1. CASE pc[w] \in {"ingest", "insert"}
      <3>1. feed[w] # <<>>
        BY <1>18, <2>1 DEF DeadlockVictim, InDeadlock, WaitsFor, AtItem, Employed
      <3>. QED  BY <1>18, <2>1, <3>1, DropType DEF DeadlockVictim
    <2>2. CASE pc[w] \notin {"ingest", "insert"}
      BY <1>18, <2>2, RollBackType DEF DeadlockVictim, Failing
    <2>. QED  BY <2>1, <2>2
  <1>19. ASSUME NEW w \in Workers, Crash(w)
         PROVE  TypeOK' /\ Employed'
    <2>1. TypeOK'
      BY <1>19, EndType DEF TypeOK, Crash, Leave, Goto, Control, tables
    <2>. QED  BY <1>19, <2>1, LeaveEmployed DEF Crash
  <1>20. CASE UNCHANGED vars
    BY <1>20 DEF TypeOK, Employed, Item, vars, tables, fetched, writes, sweep
  <1>. QED
    BY <1>1, <1>2, <1>3, <1>4, <1>5, <1>6, <1>7, <1>8, <1>9, <1>10, <1>11, <1>12, <1>13,
       <1>14, <1>15, <1>16, <1>17, <1>18, <1>19, <1>20, RollBackType
    DEF Next, Work, Fault

\* Type correctness of the collector (all its tables, locks and sessions).
THEOREM TypeCorrect == Spec => [](TypeOK /\ Employed)
  <1>1. Init => TypeOK /\ Employed
    BY InitType DEF Init, Employed
  <1>. QED  BY <1>1, NextType, PTL DEF Spec

-----------------------------------------------------------------------------
(* The safety properties: each conjunct of Inductive is preserved by every *)
(* step of a worker, and the properties follow.                            *)

\* A step of one worker.
Step(w) == (\E r \in Runs : Begin(w, r)) \/ Work(w) \/ Fault(w)

\* NextType, for a step of one worker.
LEMMA StepTypes ==
    ASSUME TypeOK, Employed, NEW w \in Workers, Step(w)
    PROVE  TypeOK' /\ Employed'
  BY NextType DEF Step, Next

\* A transaction that ends leaves the others' locks and sessions alone.
LEMMA EndOthers ==
    ASSUME TypeOK, NEW w \in Workers, EndTransaction(w), NEW v \in Workers, v # w
    PROVE  /\ \A s \in Scopes : scopeLock[s] = v <=> scopeLock'[s] = v
           /\ held'[v] = held[v]
           /\ complete'[v] = complete[v]
           /\ seen'[v] = seen[v]
           /\ draft'[v] = draft[v]
           /\ wrote'[v] = wrote[v]
           /\ pending'[v] = pending[v]
           /\ todo'[v] = todo[v]
           /\ cur'[v] = cur[v]
  <1>1. \A s \in Scopes : scopeLock[s] = v <=> scopeLock'[s] = v
    BY DEF TypeOK, EndTransaction
  <1>. QED  BY <1>1 DEF TypeOK, EndTransaction

\* A step of a worker leaves the locks and sessions of the others alone.
LEMMA Others ==
    ASSUME TypeOK, NEW w \in Workers, Step(w), NEW v \in Workers, v # w
    PROVE  /\ pc'[v] = pc[v]
           /\ job'[v] = job[v]
           /\ \A s \in Scopes : scopeLock[s] = v => scopeLock'[s] = v
           /\ held'[v] = held[v]
           /\ complete'[v] = complete[v]
           /\ seen'[v] = seen[v]
           /\ draft'[v] = draft[v]
           /\ wrote'[v] = wrote[v]
           /\ pending'[v] = pending[v]
           /\ todo'[v] = todo[v]
           /\ cur'[v] = cur[v]
  <1>1. CASE \E r \in Runs : Begin(w, r)
    BY <1>1 DEF TypeOK, Begin, Goto, fetched, writes, sweep
  <1>2. CASE TakeScopeLock(w)
    BY <1>2 DEF TypeOK, TakeScopeLock, Goto, fetched, writes, sweep
  <1>3. CASE EndTransaction(w) /\ Leave(w)
    BY <1>3, EndOthers DEF TypeOK, Leave, Goto
  <1>4. CASE \E kind \in Failing : RollBack(w, kind)
    BY <1>4, EndOthers DEF TypeOK, RollBack, Goto
  <1>5. CASE Fetch(w)
    BY <1>5 DEF TypeOK, Fetch, Goto, writes, sweep
  <1>6. CASE RejectItem(w) \/ IngestKnown(w)
    BY <1>6 DEF TypeOK, RejectItem, IngestKnown, writes, sweep
  <1>7. CASE MissListing(w) \/ InsertListing(w)
    BY <1>7 DEF TypeOK, MissListing, InsertListing, Goto, fetched, writes, sweep
  <1>8. CASE DropItem(w)
    BY <1>8 DEF TypeOK, DropItem, Goto, writes, sweep
  <1>9. CASE Settle(w)
    BY <1>9 DEF TypeOK, Settle, Goto
  <1>10. CASE \E l \in Listings : MissCandidate(w, l)
    BY <1>10 DEF TypeOK, MissCandidate, Goto, fetched
  <1>11. CASE ShareListing(w) \/ UpdateStatus(w)
    BY <1>11 DEF TypeOK, ShareListing, UpdateStatus, Goto, fetched, writes, sweep
  <1>12. CASE RefreshStatus(w)
    BY <1>12 DEF TypeOK, RefreshStatus, Goto, fetched, sweep
  <1>13. CASE RecordFailure(w)
    BY <1>13 DEF TypeOK, RecordFailure, Leave, Goto, fetched, writes, sweep
  <1>14. CASE DeadlockVictim(w)
    BY <1>4, <1>8, <1>14 DEF DeadlockVictim, Failing
  <1>15. CASE DuplicateListing(w) \/ ItemError(w)
    BY <1>8, <1>15 DEF DuplicateListing, ItemError
  <1>16. CASE AlreadyRunning(w) \/ Commit(w) \/ Crash(w)
    BY <1>3, <1>16 DEF AlreadyRunning, Commit, Crash
  <1>. QED
    BY <1>1, <1>2, <1>4, <1>5, <1>6, <1>7, <1>9, <1>10, <1>11, <1>12, <1>13, <1>14,
       <1>15, <1>16 DEF Step, Work, Fault

\* Only a commit changes rows, statuses and events.
LEMMA TablesFrame ==
    ASSUME NEW w \in Workers, Step(w), ~Commit(w)
    PROVE  UNCHANGED <<presence, status, events>>
  BY DEF Step, Work, Fault, Begin, TakeScopeLock, AlreadyRunning, Fetch, RejectItem,
         IngestKnown, MissListing, InsertListing, DuplicateListing, Settle, MissCandidate,
         ShareListing, RefreshStatus, UpdateStatus, RecordFailure, DeadlockVictim, ItemError,
         DropItem, RollBack, Crash, tables

\* A step changes no run but the worker's own, and only its commit succeeds.
LEMMA RunsFrame ==
    ASSUME TypeOK, Employed, OwnRun, NEW w \in Workers, Step(w)
    PROVE  /\ \A r \in Runs : runs'[r] # runs[r] => r = job[w] /\ pc[w] # "idle"
           /\ ~Commit(w) /\ runs' # runs => pc[w] # "idle" /\ LC!EndWithout(job[w])
           /\ ~Commit(w) /\ runs' # runs => runs'[job[w]].status # "succeeded"
           /\ pc[w] # "idle" /\ pc'[w] # "idle" => runs' = runs
  <1>1. CASE AlreadyRunning(w)
    BY <1>1 DEF TypeOK, Employed, OwnRun, AlreadyRunning, Leave, Goto, Control, LC!EndWithout
  <1>2. CASE RecordFailure(w)
    BY <1>2 DEF TypeOK, Employed, OwnRun, RecordFailure, Leave, Goto, Control, Failing, LC!EndWithout
  <1>3. CASE Commit(w)
    BY <1>3 DEF TypeOK, Employed, Commit, Leave, Goto, Control
  <1>4. CASE ~AlreadyRunning(w) /\ ~RecordFailure(w) /\ ~Commit(w)
    <2>1. UNCHANGED runs
      BY <1>4 DEF Step, Work, Fault, Begin, TakeScopeLock, Fetch, RejectItem, IngestKnown,
         MissListing, InsertListing, DuplicateListing, Settle, MissCandidate, ShareListing,
         RefreshStatus, UpdateStatus, DeadlockVictim, ItemError, DropItem, RollBack, Crash,
         tables
    <2>. QED  BY <2>1
  <1>. QED  BY <1>1, <1>2, <1>3, <1>4

\* A worker takes a run only when idle, and keeps it until idle again.
LEMMA JobFrame ==
    ASSUME TypeOK, NEW w \in Workers, Step(w)
    PROVE  /\ pc[w] # "idle" /\ pc'[w] # "idle" => job'[w] = job[w]
           /\ pc[w] = "idle" /\ pc'[w] # "idle" =>
                \E r \in Runs : /\ job'[w] = r
                                /\ runs[r].status # "succeeded"
                                /\ \A v \in Workers : job[v] # r
                                /\ pc'[w] = "lock"
                                /\ UNCHANGED runs
           /\ pc'[w] = "idle" => job'[w] = None \/ job'[w] = job[w]
  <1>1. CASE \E r \in Runs : Begin(w, r)
    BY <1>1 DEF TypeOK, Begin, Goto, tables
  <1>2. CASE Leave(w) /\ pc[w] # "idle"
    BY <1>2 DEF TypeOK, Leave, Goto
  <1>3. CASE UNCHANGED job /\ pc[w] # "idle"
    BY <1>3
  <1>4. Work(w) \/ Fault(w) => pc[w] # "idle" /\ (UNCHANGED job \/ Leave(w))
    BY DEF Work, Fault, TakeScopeLock, AlreadyRunning, Fetch, RejectItem,
         IngestKnown, MissListing, InsertListing, DuplicateListing, Settle, MissCandidate,
         ShareListing, RefreshStatus, UpdateStatus, Commit, RecordFailure, DeadlockVictim,
         InDeadlock, WaitsFor, ItemError, DropItem, RollBack, Crash, AtItem, Owning, Failing
  <1>. QED  BY <1>1, <1>2, <1>3, <1>4 DEF Step

\* A run under way stays with its worker, and does not succeed before it.
LEMMA OwnRunStep ==
    ASSUME TypeOK, Employed, OwnRun, NEW w \in Workers, Step(w)
    PROVE  OwnRun'
  <1>1. TypeOK' /\ Employed'
    BY StepTypes
  <1>2. ASSUME NEW v \in Workers, NEW u \in Workers, v # u, job'[v] # None
        PROVE  job'[v] # job'[u]
    BY <1>1, <1>2, Others, JobFrame DEF OwnRun, Employed
  <1>3. ASSUME NEW v \in Workers, pc'[v] # "idle"
        PROVE  runs'[job'[v]].status # "succeeded"
    <2>1. CASE v = w
      BY <1>3, <2>1, JobFrame, RunsFrame DEF OwnRun
    <2>2. CASE v # w
      <3>1. pc[v] # "idle" /\ job'[v] = job[v] /\ job[v] \in Runs /\ job[v] # job[w]
        BY <1>3, <2>2, Others DEF Employed, OwnRun
      <3>2. runs'[job[v]] = runs[job[v]]
        BY <3>1, RunsFrame
      <3>. QED  BY <3>1, <3>2 DEF OwnRun
    <2>. QED  BY <2>1, <2>2
  <1>. QED  BY <1>2, <1>3 DEF OwnRun

\* The scope lock stays with the worker that took it.
LEMMA OwnScopeStep ==
    ASSUME TypeOK, Employed, OwnScope, NEW w \in Workers, Step(w)
    PROVE  OwnScope'
  <1>1. ASSUME NEW v \in Workers, v # w, pc'[v] \in Owning
        PROVE  scopeLock'[Scope(v)'] = v
    <2>1. pc[v] \in Owning /\ job'[v] = job[v]
      BY <1>1, Others
    <2>2. job[v] \in Runs
      BY <2>1 DEF Employed, Owning
    <2>. QED  BY <1>1, <2>1, <2>2, Others DEF OwnScope, Scope
  <1>2. ASSUME pc'[w] \in Owning
        PROVE  scopeLock'[Scope(w)'] = w
    <2>1. CASE TakeScopeLock(w)
      BY <2>1 DEF TypeOK, Employed, TakeScopeLock, Scope
    <2>2. CASE UNCHANGED <<scopeLock, job>> /\ pc[w] \in Owning
      BY <2>2 DEF OwnScope, Scope
    <2>3. CASE (\E r \in Runs : Begin(w, r)) \/ Leave(w) \/ \E kind \in Failing : Goto(w, kind)
      BY <1>2, <2>3 DEF TypeOK, Begin, Leave, Goto, Owning, Failing
    <2>4. Work(w) \/ Fault(w) =>
            \/ TakeScopeLock(w)
            \/ UNCHANGED <<scopeLock, job>> /\ pc[w] \in Owning
            \/ Leave(w)
            \/ \E kind \in Failing : Goto(w, kind)
      BY DEF Work, Fault, AlreadyRunning, Fetch, RejectItem,
         IngestKnown, MissListing, InsertListing, DuplicateListing, Settle, MissCandidate,
         ShareListing, RefreshStatus, UpdateStatus, Commit, RecordFailure, DeadlockVictim,
         ItemError, DropItem, RollBack, Crash, AtItem, Owning, Failing, Goto
    <2>. QED  BY <2>1, <2>2, <2>3, <2>4 DEF Step
  <1>. QED  BY <1>1, <1>2 DEF OwnScope

\* Ingested listings stay locked against every other transaction.
LEMMA OwnListingsStep ==
    ASSUME TypeOK, Employed, OwnListings, Drafts, NEW w \in Workers, Step(w)
    PROVE  OwnListings'
  <1>. DEFINE Clear(l) == \A v \in Workers \ {w} : held[v][l] = "none"
              Unclaimed(l) == \A v \in Workers \ {w} : held[v][l] # "update"
  <1>1. CASE UNCHANGED <<held, seen>>
    BY <1>1 DEF OwnListings
  <1>2. CASE EndTransaction(w)
    BY <1>2, EndOthers DEF OwnListings, EndTransaction, Unlocked, TypeOK
  <1>3. ASSUME NEW l \in Listings, Clear(l),
               held' = [held EXCEPT ![w][l] = "update"],
               seen' = [seen EXCEPT ![w] = @ \cup {l}]
        PROVE  OwnListings'
    BY <1>3 DEF OwnListings, TypeOK
  <1>4. ASSUME NEW l \in Listings, NEW mode \in {"share", "write"}, Unclaimed(l),
               l \notin seen[w],
               held' = [held EXCEPT ![w][l] = mode],
               UNCHANGED seen
        PROVE  OwnListings'
    BY <1>4 DEF OwnListings, TypeOK
  <1>5. CASE IngestKnown(w) \/ InsertListing(w)
    <2>1. Item(w) \in Listings /\ Clear(Item(w))
      BY <1>5 DEF IngestKnown, InsertListing, LockedByOther, Employed, TypeOK, LockMode
    <2>. QED  BY <1>3, <1>5, <2>1 DEF IngestKnown, InsertListing
  <1>6. CASE ShareListing(w) \/ UpdateStatus(w)
    <2>1. /\ cur[w] \in Listings \ seen[w]
          /\ Unclaimed(cur[w])
          /\ UNCHANGED seen
          /\ \E mode \in {"share", "write"} : held' = [held EXCEPT ![w][cur[w]] = mode]
      BY <1>6 DEF ShareListing, UpdateStatus, LockedByOther, Employed, Drafts, DraftOf,
            Closing, writes
    <2>. QED  BY <1>4, <2>1
  <1>7. Step(w) =>
          \/ UNCHANGED <<held, seen>>
          \/ EndTransaction(w)
          \/ IngestKnown(w) \/ InsertListing(w)
          \/ ShareListing(w) \/ UpdateStatus(w)
    BY DEF Step, Work, Fault, Begin, TakeScopeLock, AlreadyRunning, Fetch, RejectItem,
         MissListing, DuplicateListing, Settle, MissCandidate, RefreshStatus, Commit,
         RecordFailure, DeadlockVictim, ItemError, DropItem, RollBack, Crash, writes
  <1>. QED  BY <1>1, <1>2, <1>5, <1>6, <1>7

\* While a transaction holds its scope, nobody else commits rows there.
LEMMA ScopeFrame ==
    ASSUME TypeOK, Employed, OwnScope, NEW w \in Workers, Step(w),
           NEW v \in Workers, v # w, pc[v] \in Owning
    PROVE  /\ Scope(v)' = Scope(v) /\ Scope(v) \in Scopes
           /\ presence'[Scope(v)] = presence[Scope(v)]
           /\ Commit(w) => Scope(v) # Scope(w)
  <1>1. Scope(v)' = Scope(v) /\ Scope(v) \in Scopes
    BY Others DEF Scope, Employed, Owning
  <1>2. CASE Commit(w)
    <2>1. pc[w] \in Owning
      BY <1>2 DEF Commit, Owning
    <2>2. Scope(v) # Scope(w)
      BY <2>1 DEF OwnScope
    <2>. QED  BY <1>1, <1>2, <2>2 DEF Commit, TypeOK
  <1>3. CASE ~Commit(w)
    BY <1>1, <1>3, TablesFrame
  <1>. QED  BY <1>2, <1>3

\* The steps that lead to or within the closing of a run.
LEMMA ClosingSteps ==
    ASSUME TypeOK, NEW w \in Workers, Step(w), pc'[w] \in Closing
    PROVE  \/ Settle(w)
           \/ \E l \in Listings : MissCandidate(w, l)
           \/ ShareListing(w)
           \/ RefreshStatus(w)
           \/ UpdateStatus(w)
  BY DEF TypeOK, Closing, Step, Work, Fault, Begin, TakeScopeLock, AlreadyRunning, Fetch,
         RejectItem, IngestKnown, MissListing, InsertListing, DuplicateListing, Commit,
         RecordFailure, DeadlockVictim, ItemError, DropItem, RollBack, Crash, Goto, Leave,
         AtItem, Failing

\* Every step keeps the drafted rows what the evidence says of them.
LEMMA DraftsStep ==
    ASSUME TypeOK, Employed, OwnScope, Drafts, NEW w \in Workers, Step(w)
    PROVE  Drafts'
  <1>1. ASSUME NEW v \in Workers, v # w, pc'[v] \in Closing
        PROVE  DraftOf(v)'
    <2>1. pc[v] \in Closing /\ pc[v] \in Owning
      BY <1>1, Others DEF Closing, Owning
    <2>2. DraftOf(v)
      BY <2>1 DEF Drafts
    <2>3. presence'[Scope(v)'] = presence[Scope(v)]
      BY <1>1, <2>1, ScopeFrame
    <2>. QED  BY <1>1, <2>2, <2>3, Others DEF DraftOf
  <1>. SUFFICES ASSUME pc'[w] \in Closing
                PROVE  DraftOf(w)'
    BY <1>1 DEF Drafts
  <1>. DEFINE rows == presence[Scope(w)]
  <1>2. CASE Settle(w)
    <2>1. /\ presence'[Scope(w)'] = rows
          /\ seen'[w] = seen[w]
          /\ pc'[w] = "reconcile"
      BY <1>2 DEF TypeOK, Settle, Goto, tables, Scope
    <2>2. complete'[w] \in BOOLEAN
      BY <1>2 DEF TypeOK, Settle
    <2>3. todo'[w] = IF complete'[w] THEN Candidates(w) ELSE {}
      BY <1>2 DEF TypeOK, Settle
    <2>4. draft'[w] = [l \in Listings |-> IF l \in seen[w] THEN ObservedRow ELSE rows[l]]
      BY <1>2 DEF TypeOK, Settle
    <2>. QED
      BY <2>1, <2>2, <2>3, <2>4
      DEF DraftOf, Candidates, LC!AfterRun, LC!ObservedRow, LC!Reconcilable, ObservedRow,
          Reconcilable
  <1>3. ASSUME NEW l \in Listings, MissCandidate(w, l)
        PROVE  DraftOf(w)'
    <2>1. /\ presence'[Scope(w)'] = rows
          /\ seen'[w] = seen[w]
          /\ complete'[w] = complete[w]
          /\ l \in todo[w] /\ todo'[w] = todo[w] \ {l}
          /\ draft'[w] = [draft[w] EXCEPT ![l] = MissedRow(@)]
          /\ DraftOf(w)
      BY <1>3 DEF TypeOK, MissCandidate, tables, fetched, Scope, Drafts, Closing
    <2>2. /\ complete[w] /\ l \notin seen[w] /\ Reconcilable(rows[l])
          /\ draft[w][l] = rows[l] /\ draft'[w][l] = MissedRow(rows[l])
          /\ \A k \in Listings \ {l} : draft'[w][k] = draft[w][k]
      BY <2>1 DEF DraftOf, TypeOK
    <2>3. \A k \in Listings :
            draft'[w][k] = IF k \in todo'[w] THEN rows[k]
                           ELSE LC!AfterRun(rows[k], k \in seen[w], complete[w])
      BY <2>1, <2>2 DEF DraftOf, LC!AfterRun, LC!Reconcilable, Reconcilable, LC!MissedRow,
          MissedRow
    <2>4. pc'[w] # "reconcile" => cur'[w] = l /\ pc'[w] = "share"
      <3>1. CASE Silent(draft[w][l])
        BY <1>3, <3>1 DEF MissCandidate
      <3>2. CASE ~Silent(draft[w][l])
        BY <1>3, <3>2 DEF MissCandidate, Goto, TypeOK
      <3>. QED  BY <3>1, <3>2
    <2>5. draft'[w][l].state \in {"missing_candidate", "inactive"}
      BY <2>2 DEF MissedRow
    <2>6. \A k \in todo'[w] : k \notin seen'[w] /\ Reconcilable(rows[k])
      BY <2>1 DEF DraftOf
    <2>7. pc'[w] # "reconcile" =>
            /\ cur'[w] \notin seen'[w]
            /\ draft'[w][cur'[w]].state \in {"missing_candidate", "inactive"}
      BY <2>1, <2>2, <2>4, <2>5
    <2>8. pc'[w] \notin {"refresh", "update"}
      BY <2>4
    <2>9. todo'[w] # {} => complete'[w]
      BY <2>1, <2>2
    <2>. HIDE DEF rows
    <2>10. presence'[Scope(w)'] = rows
      BY <2>1
    <2>. QED  BY <2>1, <2>3, <2>6, <2>7, <2>8, <2>9, <2>10 DEF DraftOf, Reconcilable
  <1>4. CASE ShareListing(w) \/ UpdateStatus(w) \/ RefreshStatus(w)
    <2>1. /\ presence'[Scope(w)'] = rows
          /\ seen'[w] = seen[w]
          /\ complete'[w] = complete[w]
          /\ todo'[w] = todo[w]
          /\ draft'[w] = draft[w]
          /\ cur'[w] = cur[w]
          /\ DraftOf(w)
      BY <1>4 DEF TypeOK, ShareListing, UpdateStatus, RefreshStatus, tables, fetched, writes,
          sweep, Scope, Drafts, Closing
    <2>2. pc[w] # "reconcile"
      BY <1>4 DEF ShareListing, UpdateStatus, RefreshStatus
    <2>3. pc'[w] \in {"refresh", "update"} => held'[w][cur[w]] # "none"
      <3>1. CASE ShareListing(w) \/ UpdateStatus(w)
        BY <3>1 DEF ShareListing, UpdateStatus, TypeOK, Employed
      <3>2. CASE RefreshStatus(w)
        BY <2>1, <3>2 DEF RefreshStatus, DraftOf
      <3>. QED  BY <1>4, <3>1, <3>2
    <2>. QED  BY <2>1, <2>2, <2>3 DEF DraftOf
  <1>. QED  BY <1>2, <1>3, <1>4, ClosingSteps

\* Covering is kept by a miss, and the derived status covers what it is
\* derived from.
LEMMA CoversFacts ==
    /\ \A state : Covers("active", state)
    /\ \A st, row : Reconcilable(row) /\ Covers(st, row.state) => Covers(st, MissedRow(row).state)
    /\ \A states : \A state \in states : Covers(DerivedStatus(states), state)
    /\ \A states : states \cap {"active", "missing_candidate", "inactive"} # {} =>
                      DerivedStatus(states) # "none"
  BY DEF Covers, Reconcilable, MissedRow, DerivedStatus

\* A commit replaces the rows of its scope by what its evidence says of them.
LEMMA CommitRows ==
    ASSUME TypeOK, Employed, Drafts, NEW w \in Workers, Commit(w)
    PROVE  /\ Scope(w) \in Scopes
           /\ \A s \in Scopes \ {Scope(w)} : presence'[s] = presence[s]
           /\ presence'[Scope(w)] = draft[w]
           /\ \A l \in Listings :
                 draft[w][l] = LC!AfterRun(presence[Scope(w)][l], l \in seen[w], complete[w])
  <1>1. Scope(w) \in Scopes /\ DraftOf(w) /\ todo[w] = {}
    BY DEF Employed, Scope, Commit, Drafts, Closing
  <1>2. presence' = [presence EXCEPT ![Scope(w)] = draft[w]]
    BY DEF Commit, CommittedRows
  <1>. QED  BY <1>1, <1>2 DEF DraftOf, TypeOK

\* A row that its run has not seen loses nothing of what covers it.
LEMMA AfterRunCovers ==
    ASSUME NEW st, NEW row, NEW complet, Covers(st, row.state)
    PROVE  Covers(st, LC!AfterRun(row, FALSE, complet).state)
  BY CoversFacts DEF LC!AfterRun, LC!Reconcilable, Reconcilable, LC!MissedRow, MissedRow

\* Every step keeps the statuses to be committed covering and locked; here
\* another worker's commit meets the row locks.
LEMMA StatusesStep ==
    ASSUME TypeOK, Employed, OwnScope, OwnListings, Drafts, Statuses,
           NEW w \in Workers, Step(w)
    PROVE  Statuses'
  <1>1. ASSUME NEW v \in Workers, v # w, pc'[v] \in Closing
        PROVE  StatusOf(v)'
    <2>1. pc[v] \in Closing /\ pc[v] \in Owning
      BY <1>1, Others DEF Closing, Owning
    <2>2. StatusOf(v)
      BY <2>1 DEF Statuses
    <2>3. ASSUME NEW l \in Listings, wrote[v][l] # None, NEW s \in Scopes \ {Scope(v)}
          PROVE  Covers(wrote[v][l], presence'[s][l].state)
      <3>1. CASE ~Commit(w)
        BY <2>2, <2>3, <3>1, TablesFrame DEF StatusOf
      <3>2. CASE Commit(w) /\ s # Scope(w)
        BY <2>2, <2>3, <3>2, CommitRows DEF StatusOf
      <3>3. CASE Commit(w) /\ s = Scope(w)
        <4>1. l \notin seen[w]
          BY <1>1, <2>2, <2>3 DEF StatusOf, OwnListings
        <4>2. Covers(wrote[v][l], presence[s][l].state)
          BY <2>2, <2>3 DEF StatusOf
        <4>3. presence'[s][l] = LC!AfterRun(presence[s][l], FALSE, complete[w])
          BY <3>3, <4>1, CommitRows DEF LC!AfterRun
        <4>. QED  BY <4>2, <4>3, AfterRunCovers
      <3>. QED  BY <3>1, <3>2, <3>3
    <2>4. Scope(v)' = Scope(v)
      BY <1>1, <2>1, ScopeFrame
    <2>5. /\ UNCHANGED <<wrote[v], held[v], draft[v], seen[v]>>
      BY <1>1, Others
    <2>. QED  BY <2>2, <2>3, <2>4, <2>5 DEF StatusOf
  <1>. SUFFICES ASSUME pc'[w] \in Closing
                PROVE  StatusOf(w)'
    BY <1>1 DEF Statuses
  <1>2. Scope(w)' = Scope(w) /\ UNCHANGED <<presence, seen>> /\ Scope(w) \in Scopes
    BY ClosingSteps DEF Settle, MissCandidate, ShareListing, RefreshStatus, UpdateStatus,
        Scope, tables, writes, Employed
  <1>3. CASE Settle(w)
    <2>1. /\ wrote'[w] = [l \in Listings |-> IF l \in seen[w] THEN "active" ELSE None]
          /\ held' = held
      BY <1>3 DEF TypeOK, Settle
    <2>2. \A l \in seen[w] : l \in Listings /\ held[w][l] # "none"
      BY DEF OwnListings, TypeOK
    <2>3. \A l \in seen[w] : wrote'[w][l] # None
      BY <2>1, <2>2 DEF PresenceState
    <2>4. \A l \in Listings : wrote'[w][l] # None => l \in seen[w] /\ wrote'[w][l] = "active"
      BY <2>1
    <2>5. ASSUME NEW l \in Listings, wrote'[w][l] # None
          PROVE  /\ wrote'[w][l] # "none"
                 /\ held'[w][l] # "none"
                 /\ Covers(wrote'[w][l], draft'[w][l].state)
                 /\ \A s \in Scopes \ {Scope(w)} : Covers(wrote'[w][l], presence[s][l].state)
      <3>1. wrote'[w][l] = "active" /\ held'[w][l] # "none"
        BY <2>1, <2>2, <2>4, <2>5
      <3>. QED  BY <3>1, CoversFacts
    <2>. QED  BY <1>2, <2>3, <2>5 DEF StatusOf
  <1>4. ASSUME NEW l \in Listings, MissCandidate(w, l)
        PROVE  StatusOf(w)'
    <2>1. /\ UNCHANGED <<held, wrote>>
          /\ draft'[w] = [draft[w] EXCEPT ![l] = MissedRow(@)]
          /\ DraftOf(w) /\ StatusOf(w)
          /\ l \in todo[w]
      BY <1>4 DEF TypeOK, MissCandidate, Drafts, Statuses, Closing
    <2>2. Reconcilable(draft[w][l]) /\ draft[w] \in [Listings -> Row]
      BY <2>1 DEF DraftOf, TypeOK
    <2>3. \A k \in Listings : Covers(wrote[w][k], draft[w][k].state)
                                 => Covers(wrote[w][k], draft'[w][k].state)
      BY <2>1, <2>2, CoversFacts
    <2>. QED  BY <1>2, <2>1, <2>3 DEF StatusOf
  <1>5. CASE ShareListing(w) \/ UpdateStatus(w)
    <2>1. /\ UNCHANGED <<draft, wrote>>
          /\ StatusOf(w)
          /\ \A l \in Listings : held'[w][l] # held[w][l] => held'[w][l] # "none"
      BY <1>5 DEF TypeOK, ShareListing, UpdateStatus, writes, Statuses, Closing
    <2>. QED  BY <1>2, <2>1 DEF StatusOf
  <1>6. CASE RefreshStatus(w)
    <2>1. /\ UNCHANGED <<draft, held>>
          /\ StatusOf(w) /\ DraftOf(w)
          /\ cur[w] \in Listings
          /\ held[w][cur[w]] # "none"
      BY <1>6 DEF TypeOK, RefreshStatus, Statuses, Drafts, DraftOf, Closing, Employed
    <2>2. \A l \in Listings \ {cur[w]} : wrote'[w][l] = wrote[w][l]
      BY <1>6 DEF TypeOK, RefreshStatus
    <2>3. wrote'[w][cur[w]] \in {wrote[w][cur[w]], Refreshed(w, cur[w])}
      BY <1>6, <2>1 DEF TypeOK, RefreshStatus
    <2>4. /\ draft[w][cur[w]].state \in RowStates(w, cur[w])
          /\ \A s \in Scopes \ {Scope(w)} : presence[s][cur[w]].state \in RowStates(w, cur[w])
      BY <1>2 DEF RowStates
    <2>5. draft[w][cur[w]].state \in {"missing_candidate", "inactive"}
      BY <1>6, <2>1 DEF DraftOf, RefreshStatus
    <2>6. /\ Refreshed(w, cur[w]) # "none"
          /\ Covers(Refreshed(w, cur[w]), draft[w][cur[w]].state)
          /\ \A s \in Scopes \ {Scope(w)} :
                Covers(Refreshed(w, cur[w]), presence[s][cur[w]].state)
      BY <2>4, <2>5, CoversFacts DEF Refreshed
    <2>7. cur[w] \notin seen[w]
      BY <1>6, <2>1 DEF DraftOf, RefreshStatus
    <2>8. \A l \in seen[w] : wrote'[w][l] # None
      BY <2>1, <2>2, <2>7 DEF StatusOf, TypeOK
    <2>9. ASSUME NEW l \in Listings, wrote'[w][l] # None
          PROVE  /\ wrote'[w][l] # "none"
                 /\ held[w][l] # "none"
                 /\ Covers(wrote'[w][l], draft[w][l].state)
                 /\ \A s \in Scopes \ {Scope(w)} : Covers(wrote'[w][l], presence[s][l].state)
      <3>1. CASE wrote'[w][l] = wrote[w][l]
        BY <2>1, <2>9, <3>1 DEF StatusOf
      <3>2. CASE wrote'[w][l] # wrote[w][l]
        <4>1. l = cur[w] /\ wrote'[w][l] = Refreshed(w, cur[w])
          BY <2>2, <2>3, <3>2
        <4>. QED  BY <2>1, <2>6, <4>1
      <3>. QED  BY <3>1, <3>2
    <2>. QED  BY <1>2, <2>1, <2>8, <2>9 DEF StatusOf
  <1>. QED  BY <1>3, <1>4, <1>5, <1>6, ClosingSteps

\* A status the commit assigns is that of a listing the transaction has locked.
LEMMA CommitStatus ==
    ASSUME TypeOK, Statuses, NEW w \in Workers, Commit(w), NEW l \in Listings
    PROVE  /\ status'[l] = IF wrote[w][l] = None THEN status[l] ELSE wrote[w][l]
           /\ status'[l] # status[l] => held[w][l] # "none"
           /\ status[l] # "none" => status'[l] # "none"
  <1>1. StatusOf(w)
    BY DEF Statuses, Commit, Closing
  <1>2. status'[l] = IF wrote[w][l] = None THEN status[l] ELSE wrote[w][l]
    BY DEF Commit
  <1>. QED  BY <1>1, <1>2 DEF StatusOf

\* Every step keeps announcements for listings inserted and not yet visible.
LEMMA AnnouncedStep ==
    ASSUME TypeOK, Employed, OwnListings, Statuses, \A v \in Workers : Announced(v),
           NEW w \in Workers, Step(w)
    PROVE  \A v \in Workers : Announced(v)'
  <1>1. ASSUME NEW v \in Workers, v # w
        PROVE  Announced(v)'
    <2>1. UNCHANGED <<pc[v], job[v], pending[v], seen[v]>>
      BY <1>1, Others
    <2>2. ASSUME NEW l \in Listings, <<job[v], l, "new">> \in pending[v]
          PROVE  l \in seen[v] /\ status'[l] = "none"
      <3>1. l \in seen[v] /\ status[l] = "none"
        BY <2>2 DEF Announced
      <3>2. held[w][l] = "none"
        BY <1>1, <3>1 DEF OwnListings
      <3>. QED  BY <3>1, <3>2, CommitStatus, TablesFrame
    <2>. QED  BY <2>1, <2>2 DEF Announced
  <1>2. Announced(w)'
    <2>. USE DEF Announced
    <2>1. CASE EndTransaction(w)
      BY <2>1 DEF TypeOK, EndTransaction
    <2>2. CASE \E r \in Runs : Begin(w, r)
      BY <2>2 DEF TypeOK, Begin, Goto, writes, Owning, Closing
    <2>3. CASE RecordFailure(w)
      BY <2>3 DEF TypeOK, RecordFailure, Leave, Goto, writes, Owning, Closing, Failing
    <2>4. CASE \/ TakeScopeLock(w) \/ Fetch(w) \/ RejectItem(w) \/ MissListing(w)
               \/ DropItem(w) /\ pc[w] \in {"ingest", "insert"}
      <3>1. UNCHANGED <<job, status, pending, seen>>
        BY <2>4 DEF TakeScopeLock, Fetch, RejectItem, MissListing, DropItem, tables, writes
      <3>2. pc[w] \notin Closing /\ pc'[w] \in Owning \ Closing
        BY <2>4 DEF TypeOK, TakeScopeLock, Fetch, RejectItem, MissListing, DropItem, AtItem, Goto,
           Owning, Closing
      <3>. QED  BY <3>1, <3>2
    <2>5. CASE IngestKnown(w)
      BY <2>5 DEF TypeOK, IngestKnown, AtItem, tables, Owning, Closing
    <2>6. CASE InsertListing(w)
      <3>1. /\ pending'[w] = pending[w] \cup {<<job[w], Item(w), "new">>}
            /\ seen'[w] = seen[w] \cup {Item(w)}
            /\ status[Item(w)] = "none"
            /\ UNCHANGED <<job, status>>
        BY <2>6 DEF TypeOK, InsertListing, Inserts, tables
      <3>2. pc[w] \notin Closing /\ pc'[w] \in Owning \ Closing
        BY <2>6 DEF TypeOK, InsertListing, Goto, Owning, Closing
      <3>. QED  BY <3>1, <3>2
    <2>7. CASE Settle(w)
      BY <2>7 DEF TypeOK, Settle, Goto, tables, Owning, Closing
    <2>8. ASSUME NEW l \in Listings, MissCandidate(w, l)
          PROVE  Announced(w)'
      <3>1. pc'[w] \in {"reconcile", "share"}
        <4>1. CASE Silent(draft[w][l])
          BY <2>8, <4>1 DEF MissCandidate
        <4>2. CASE ~Silent(draft[w][l])
          BY <2>8, <4>2 DEF MissCandidate, Goto, TypeOK
        <4>. QED  BY <4>1, <4>2
      <3>2. \A e \in TransitionEvents(w, l) : e[1] = job[w] /\ e[3] # "new"
        BY DEF TransitionEvents
      <3>3. <<job[w], l, "new">> \notin TransitionEvents(w, l)
        BY <3>2
      <3>4. /\ UNCHANGED <<job, status, seen>>
            /\ pending'[w] = pending[w] \cup TransitionEvents(w, l)
        BY <2>8 DEF MissCandidate, TypeOK, tables
      <3>. QED  BY <3>1, <3>2, <3>4 DEF Owning, Closing
    <2>9. CASE ShareListing(w) \/ RefreshStatus(w) \/ UpdateStatus(w)
      BY <2>9 DEF TypeOK, ShareListing, RefreshStatus, UpdateStatus, Goto, tables, writes,
         Owning, Closing
    <2>10. Step(w) =>
             \/ EndTransaction(w) \/ RecordFailure(w) \/ TakeScopeLock(w) \/ Fetch(w)
             \/ RejectItem(w) \/ MissListing(w) \/ IngestKnown(w)
             \/ InsertListing(w) \/ Settle(w) \/ ShareListing(w) \/ RefreshStatus(w)
             \/ UpdateStatus(w)
             \/ DropItem(w) /\ pc[w] \in {"ingest", "insert"}
             \/ \E r \in Runs : Begin(w, r)
             \/ \E l \in Listings : MissCandidate(w, l)
      BY DEF Step, Work, Fault, AlreadyRunning, DuplicateListing, Commit, DeadlockVictim,
         ItemError, AtItem, RollBack, Crash
    <2>. QED  BY <2>1, <2>2, <2>3, <2>4, <2>5, <2>6, <2>7, <2>8, <2>9, <2>10
  <1>. QED  BY <1>1, <1>2

\* Every step keeps the events to be committed those of the rows that turn.
LEMMA EventsStep ==
    ASSUME TypeOK, Employed, OwnScope, Drafts, Events, \A v \in Workers : Announced(v),
           NEW w \in Workers, Step(w)
    PROVE  Events'
  <1>1. ASSUME NEW v \in Workers, v # w, pc'[v] \in Closing
        PROVE  EventsOf(v)'
    <2>1. pc[v] \in Closing /\ pc[v] \in Owning
      BY <1>1, Others DEF Closing, Owning
    <2>2. EventsOf(v)
      BY <2>1 DEF Events
    <2>3. presence'[Scope(v)'] = presence[Scope(v)]
      BY <1>1, <2>1, ScopeFrame
    <2>4. UNCHANGED <<job[v], pending[v], draft[v]>>
      BY <1>1, Others
    <2>. QED  BY <2>2, <2>3, <2>4 DEF EventsOf
  <1>. SUFFICES ASSUME pc'[w] \in Closing
                PROVE  EventsOf(w)'
    BY <1>1 DEF Events
  <1>2. UNCHANGED <<presence, job>> /\ Scope(w)' = Scope(w) /\ Scope(w) \in Scopes
    BY ClosingSteps DEF Settle, MissCandidate, ShareListing, RefreshStatus, UpdateStatus,
        Scope, tables, Employed
  <1>3. \A k \in Listings : presence[Scope(w)][k].state \in PresenceState
    BY <1>2 DEF TypeOK, Row
  <1>4. CASE Settle(w)
    <2>1. draft'[w] = [l \in Listings |-> IF l \in seen[w] THEN ObservedRow
                                          ELSE presence[Scope(w)][l]]
      BY <1>4 DEF TypeOK, Settle
    <2>2. pending'[w] = pending[w] \cup
            {<<job[w], l, "relisted">> :
               l \in {k \in seen[w] : presence[Scope(w)][k].state
                                        \in {"missing_candidate", "inactive"}}}
      BY <1>4 DEF TypeOK, Settle
    <2>3. \A e \in pending[w] : e[3] = "new"
      BY <1>4 DEF Announced, Settle, Closing
    <2>4. ASSUME NEW l \in Listings, NEW type \in EventType \ {"new"}
          PROVE  <<job[w], l, type>> \in pending'[w]
                   <=> Turns(presence[Scope(w)][l].state, draft'[w][l].state, type)
      <3>1. <<job[w], l, type>> \in pending'[w]
              <=> /\ type = "relisted" /\ l \in seen[w]
                  /\ presence[Scope(w)][l].state \in {"missing_candidate", "inactive"}
        BY <2>2, <2>3
      <3>. QED  BY <1>3, <2>1, <3>1 DEF Turns, EventState, EventType, ObservedRow, PresenceState
    <2>. QED  BY <1>2, <2>4 DEF EventsOf
  <1>5. ASSUME NEW l \in Listings, MissCandidate(w, l)
        PROVE  EventsOf(w)'
    <2>1. /\ pending'[w] = pending[w] \cup TransitionEvents(w, l)
          /\ draft'[w] = [draft[w] EXCEPT ![l] = MissedRow(@)]
          /\ DraftOf(w) /\ EventsOf(w)
          /\ l \in todo[w]
      BY <1>5 DEF TypeOK, MissCandidate, Drafts, Events, Closing
    <2>2. /\ draft[w][l] = presence[Scope(w)][l] /\ Reconcilable(draft[w][l])
          /\ draft'[w][l] = MissedRow(draft[w][l])
          /\ \A k \in Listings \ {l} : draft'[w][k] = draft[w][k]
      BY <2>1 DEF DraftOf, TypeOK
    <2>3. ASSUME NEW k \in Listings, NEW type \in EventType \ {"new"}
          PROVE  <<job[w], k, type>> \in pending'[w]
                   <=> Turns(presence[Scope(w)][k].state, draft'[w][k].state, type)
      <3>1. <<job[w], k, type>> \in pending[w]
              <=> Turns(presence[Scope(w)][k].state, draft[w][k].state, type)
        BY <2>1 DEF EventsOf
      <3>2. CASE k # l
        BY <2>1, <2>2, <3>1, <3>2 DEF TransitionEvents
      <3>3. CASE k = l
        <4>1. <<job[w], l, type>> \notin pending[w]
          BY <2>2, <3>1, <3>3 DEF Turns
        <4>2. <<job[w], l, type>> \in TransitionEvents(w, l)
                <=> Turns(draft[w][l].state, MissedRow(draft[w][l]).state, type)
          BY <2>2 DEF TransitionEvents, Silent, Reconcilable, MissedRow, Turns, EventState,
                EventType
        <4>. QED  BY <2>1, <2>2, <3>3, <4>1, <4>2
      <3>. QED  BY <3>2, <3>3
    <2>. QED  BY <1>2, <2>3 DEF EventsOf
  <1>6. CASE ShareListing(w) \/ RefreshStatus(w) \/ UpdateStatus(w)
    BY <1>2, <1>6 DEF ShareListing, RefreshStatus, UpdateStatus, writes, Events, EventsOf, Closing
  <1>. QED  BY <1>4, <1>5, <1>6, ClosingSteps

\* Every step keeps the committed events those of successful runs.
LEMMA LedgerStep ==
    ASSUME TypeOK, Employed, OwnRun, Statuses, Ledger, \A v \in Workers : Announced(v),
           NEW w \in Workers, Step(w)
    PROVE  Ledger'
  <1>1. CASE ~Commit(w)
    <2>1. UNCHANGED <<events, status>>
      BY <1>1, TablesFrame
    <2>2. \A r \in Runs : runs[r].status = "succeeded" => runs'[r] = runs[r]
      BY RunsFrame DEF OwnRun
    <2>3. \A e \in events : e[1] \in Runs
      BY DEF TypeOK
    <2>. QED  BY <2>1, <2>2, <2>3 DEF Ledger
  <1>2. CASE Commit(w)
    <2>1. /\ pc[w] \in Closing
          /\ events' = events \cup pending[w]
          /\ job[w] \in Runs
          /\ runs[job[w]].status # "succeeded"
          /\ runs'[job[w]].status = "succeeded"
          /\ \A r \in Runs \ {job[w]} : runs'[r] = runs[r]
      BY <1>2 DEF TypeOK, Commit, Closing, Employed, OwnRun
    <2>2. \A e \in events : e[1] \in Runs /\ e[2] \in Listings
      BY DEF TypeOK
    <2>3. \A e \in pending[w] : e[1] = job[w] /\ e[2] \in Listings /\ e = <<e[1], e[2], e[3]>>
      BY DEF Announced, TypeOK
    <2>4. \A e \in pending[w] : e[3] = "new" => e[2] \in seen[w] /\ status[e[2]] = "none"
      BY <2>3 DEF Announced
    <2>5. \A l \in seen[w] : status'[l] # "none"
      BY <1>2, <2>1, CommitStatus DEF Statuses, StatusOf, TypeOK
    <2>6. \A e \in events' : runs'[e[1]].status = "succeeded"
      BY <2>1, <2>2, <2>3 DEF Ledger
    <2>7. \A e \in events' : e[3] = "new" => status'[e[2]] # "none"
      BY <1>2, <2>1, <2>2, <2>4, <2>5, CommitStatus DEF Ledger
    <2>8. ASSUME NEW d \in events', NEW e \in events', d[2] = e[2], d[3] = "new", e[3] = "new"
          PROVE  d = e
      BY <2>1, <2>3, <2>4, <2>8 DEF Ledger
    <2>. QED  BY <2>6, <2>7, <2>8 DEF Ledger
  <1>. QED  BY <1>1, <1>2

\* Every step keeps the projection conservative.
LEMMA ConservativeStep ==
    ASSUME TypeOK, Employed, Drafts, Statuses, ProjectionIsConservative,
           NEW w \in Workers, Step(w)
    PROVE  ProjectionIsConservative'
  <1>1. CASE ~Commit(w)
    BY <1>1, TablesFrame DEF ProjectionIsConservative
  <1>2. ASSUME Commit(w), NEW s \in Scopes, NEW l \in Listings
        PROVE  Covers(status'[l], presence'[s][l].state)
    <2>1. StatusOf(w) /\ Scope(w) \in Scopes
      BY <1>2, CommitRows DEF Statuses, Commit, Closing
    <2>2. CASE wrote[w][l] # None
      BY <1>2, <2>1, <2>2, CommitRows, CommitStatus DEF StatusOf
    <2>3. CASE wrote[w][l] = None /\ s # Scope(w)
      BY <1>2, <2>3, CommitRows, CommitStatus DEF ProjectionIsConservative
    <2>4. CASE wrote[w][l] = None /\ s = Scope(w)
      <3>1. l \notin seen[w]
        BY <2>1, <2>4 DEF StatusOf
      <3>2. presence'[s][l] = LC!AfterRun(presence[s][l], FALSE, complete[w])
        BY <1>2, <2>4, <3>1, CommitRows DEF LC!AfterRun
      <3>3. Covers(status[l], presence'[s][l].state)
        BY <3>2, AfterRunCovers DEF ProjectionIsConservative
      <3>. QED  BY <1>2, <2>4, <3>3, CommitStatus
    <2>. QED  BY <2>2, <2>3, <2>4
  <1>. QED  BY <1>1, <1>2 DEF ProjectionIsConservative

\* The inductive invariant holds initially.
LEMMA InductiveInit == Init => Inductive
  <1>. SUFFICES ASSUME Init PROVE Inductive
    OBVIOUS
  <1>1. ProjectionIsConservative
    BY CoversFacts DEF Init, ProjectionIsConservative, StatesOf
  <1>2. Employed /\ OwnRun /\ OwnScope /\ OwnListings
    BY DEF Init, Employed, OwnRun, OwnScope, OwnListings, Unlocked, Owning
  <1>3. Drafts /\ Statuses /\ Events
    BY DEF Init, Drafts, Statuses, Events, Closing
  <1>4. \A w \in Workers : Announced(w)
    BY DEF Init, Announced
  <1>5. Ledger
    BY DEF Init, Ledger
  <1>. QED  BY <1>1, <1>2, <1>3, <1>4, <1>5 DEF Inductive

\* Every step of the collector keeps the inductive invariant.
LEMMA InductiveStep ==
    ASSUME TypeOK, Inductive, [Next]_vars
    PROVE  Inductive'
  <1>1. ASSUME NEW w \in Workers, Step(w)
        PROVE  Inductive'
    BY <1>1, StepTypes, OwnRunStep, OwnScopeStep, OwnListingsStep, DraftsStep, StatusesStep,
       EventsStep, AnnouncedStep, LedgerStep, ConservativeStep
    DEF Inductive
  <1>2. CASE UNCHANGED vars
    <2>. USE <1>2 DEF vars, tables, fetched, writes, sweep
    <2>1. Employed' /\ OwnRun' /\ OwnScope' /\ OwnListings'
      BY DEF Inductive, Employed, OwnRun, OwnScope, OwnListings, Scope, Item
    <2>2. Drafts' /\ Statuses' /\ Events'
      BY DEF Inductive, Drafts, Statuses, Events, DraftOf, StatusOf, EventsOf, Scope
    <2>3. \A w \in Workers : Announced(w)'
      BY DEF Inductive, Announced
    <2>4. Ledger' /\ ProjectionIsConservative'
      BY DEF Inductive, Ledger, ProjectionIsConservative
    <2>. QED  BY <2>1, <2>2, <2>3, <2>4 DEF Inductive
  <1>. QED  BY <1>1, <1>2 DEF Next, Step

\* Locks are exclusive and open transactions hold what their evidence allows,
\* at every step of any number of workers (collect, ListingRepository).
THEOREM InductiveHolds == Spec => [](TypeOK /\ Inductive)
  <1>1. Init => TypeOK /\ Inductive
    BY InitType, InductiveInit
  <1>2. TypeOK /\ Inductive /\ [Next]_vars => TypeOK' /\ Inductive'
    BY NextType, InductiveStep DEF Inductive
  <1>. QED  BY <1>1, <1>2, PTL DEF Spec

\* listing.status never claims more absence than a committed row of any scope
\* (_refresh_listing_status under the locks of ingest and of the foreign keys).
THEOREM ProjectionConservative == Spec => []ProjectionIsConservative
  <1>1. Inductive => ProjectionIsConservative
    BY DEF Inductive
  <1>. QED  BY <1>1, InductiveHolds, PTL

\* No two runs announce the same listing as new (ingest_observation, the unique
\* constraint of listing).
THEOREM AnnouncementUnique == Spec => []AnnouncedOnce
  <1>1. ASSUME TypeOK, Ledger, NEW l \in Listings
        PROVE  Cardinality({r \in Runs : <<r, l, "new">> \in events}) <= 1
    <2>. DEFINE R == {r \in Runs : <<r, l, "new">> \in events}
    <2>1. \A q, r \in R : q = r
      BY <1>1 DEF Ledger
    <2>2. CASE R = {}
      <3>1. Cardinality(R) = 0
        BY <2>2, FS_EmptySet
      <3>. QED  BY <3>1
    <2>3. CASE R # {}
      <3>1. PICK r \in R : TRUE
        BY <2>3
      <3>2. R = {r}
        BY <2>1, <3>1
      <3>3. Cardinality(R) = 1
        BY <3>2, FS_Singleton
      <3>. QED  BY <3>3
    <2>. QED  BY <2>2, <2>3
  <1>2. TypeOK /\ Inductive => AnnouncedOnce
    BY <1>1 DEF Inductive, AnnouncedOnce
  <1>. QED  BY <1>2, InductiveHolds, PTL

---------------------------------------------------------------------------
\* What a commit does is what ScopeLifecycle lets a successful run do.
LEMMA CommitSucceeds ==
    ASSUME TypeOK, Inductive, NEW w \in Workers, Commit(w)
    PROVE  LC!Succeed(job[w], seen[w], complete[w]) /\ job[w] \in Runs
  <1>1. /\ job[w] \in Runs
        /\ runs[job[w]].status # "succeeded"
    BY DEF Inductive, Employed, OwnRun, Commit
  <1>2. runs' = [runs EXCEPT ![job[w]] =
                   [status       |-> "succeeded",
                    completeness |-> IF complete[w] THEN "complete" ELSE "partial"]]
    BY DEF Commit
  <1>3. /\ presence' = [presence EXCEPT ![RunScope[job[w]]] = draft[w]]
        /\ DraftOf(w) /\ todo[w] = {}
    BY DEF Commit, CommittedRows, Scope, Inductive, Drafts, Closing
  <1>4. draft[w] = [l \in Listings |-> LC!AfterRun(presence[RunScope[job[w]]][l],
                                                   l \in seen[w], complete[w])]
    BY <1>3 DEF DraftOf, TypeOK, Scope
  <1>. QED  BY <1>1, <1>2, <1>3, <1>4 DEF LC!Succeed

\* Every step of the collector is a step of ScopeLifecycle or none at all.
LEMMA StepSimulates ==
    ASSUME TypeOK, Inductive, [Next]_vars
    PROVE  [LC!Next]_(LC!vars)
  <1>1. ASSUME NEW w \in Workers, Step(w), Commit(w)
        PROVE  LC!Next
    BY <1>1, CommitSucceeds DEF LC!Next, TypeOK
  <1>2. ASSUME NEW w \in Workers, Step(w), ~Commit(w)
        PROVE  LC!Next \/ UNCHANGED LC!vars
    BY <1>2, TablesFrame, RunsFrame DEF Inductive, Employed, LC!Next, LC!vars
  <1>3. CASE UNCHANGED vars
    BY <1>3 DEF vars, tables, LC!vars
  <1>. QED  BY <1>1, <1>2, <1>3 DEF Next, Step

\* The collector implements ScopeLifecycle: only a complete successful run
\* counts a miss, only in its own scope and only for listings it has not seen.
THEOREM AbsenceEvidence == Spec => AbsenceNeedsEvidence
  <1>1. Init => LC!Init
    BY DEF Init, LC!Init, LC!CountedRows, CountedRows, LC!PresenceState, PresenceState
  <1>. QED  BY <1>1, InductiveHolds, StepSimulates, PTL DEF Spec, AbsenceNeedsEvidence, LC!Spec

\* A miss or a sighting keeps the counter of a row what it should be.
LEMMA CountedAfterRun ==
    ASSUME NEW row \in CountedRows, NEW observed, NEW complet
    PROVE  LC!AfterRun(row, observed, complet) \in CountedRows
  BY DEF CountedRows, LC!AfterRun, LC!ObservedRow, LC!Reconcilable, LC!MissedRow, PresenceState

\* In every committed row state and counter agree (reconcile_complete_scope,
\* mark_observed_presence).
LEMMA RowsKeepTheirShape == Spec => []RowsAreCounted
  <1>1. Init => RowsAreCounted
    BY DEF Init, RowsAreCounted
  <1>2. ASSUME RowsAreCounted, [LC!Next]_(LC!vars)
        PROVE  presence' \in [Scopes -> [Listings -> CountedRows]]
    <2>1. ASSUME NEW r \in Runs, NEW saw \in SUBSET Listings, NEW complet \in BOOLEAN,
                 LC!Succeed(r, saw, complet)
          PROVE  presence' \in [Scopes -> [Listings -> CountedRows]]
      <3>1. RunScope[r] \in Scopes
        OBVIOUS
      <3>2. [l \in Listings |-> LC!AfterRun(presence[RunScope[r]][l], l \in saw, complet)]
               \in [Listings -> CountedRows]
        BY <1>2, <3>1, CountedAfterRun DEF RowsAreCounted
      <3>. QED  BY <1>2, <2>1, <3>1, <3>2 DEF RowsAreCounted, LC!Succeed
    <2>2. CASE UNCHANGED presence
      BY <1>2, <2>2 DEF RowsAreCounted
    <2>. QED  BY <1>2, <2>1, <2>2 DEF LC!Next, LC!vars, LC!EndWithout
  <1>3. TypeOK /\ Inductive /\ [Next]_vars /\ RowsAreCounted => RowsAreCounted'
    BY <1>2, StepSimulates DEF RowsAreCounted, CountedRows
  <1>. QED  BY <1>1, <1>3, InductiveHolds, PTL DEF Spec

\* Lifecycle events are exactly the changes of rows, under the run whose commit
\* made the change (_add_event_once, reconcile_complete_scope).
THEOREM EventsExact == Spec => EventsAreTheTransitions
  <1>. DEFINE Exact(r, l, type) ==
                <<r, l, type>> \in events' \ events
                   <=> Succeeds(r) /\ RowTurns(RunScope[r], l, EventState(type))
  <1>1. ASSUME TypeOK, Inductive, [Next]_vars,
               NEW r \in Runs, NEW l \in Listings, NEW type \in EventType \ {"new"}
        PROVE  Exact(r, l, type)
    <2>1. ASSUME NEW w \in Workers, Commit(w), r = job[w]
          PROVE  Exact(r, l, type)
      <3>1. /\ EventsOf(w) /\ events' = events \cup pending[w]
            /\ Scope(w) \in Scopes /\ presence'[Scope(w)] = draft[w]
        BY <2>1, <1>1, CommitRows DEF Inductive, Events, Commit, Closing
      <3>2. Succeeds(r)
        BY <2>1, <1>1 DEF Succeeds, Inductive, OwnRun, Commit, TypeOK
      <3>3. <<r, l, type>> \notin events
        BY <1>1, <3>2 DEF Inductive, Ledger, Succeeds
      <3>. QED  BY <2>1, <3>1, <3>2, <3>3 DEF EventsOf, Turns, RowTurns, Scope
    <2>2. ASSUME NEW w \in Workers, Commit(w), r # job[w]
          PROVE  Exact(r, l, type)
      <3>1. runs'[r] = runs[r]
        BY <2>2 DEF Commit
      <3>2. <<r, l, type>> \notin pending[w]
        BY <1>1, <2>2 DEF Inductive, Announced
      <3>. QED  BY <2>2, <3>1, <3>2 DEF Succeeds, Commit
    <2>3. ASSUME NEW w \in Workers, Step(w), ~Commit(w)
          PROVE  Exact(r, l, type)
      <3>1. UNCHANGED events
        BY <2>3, TablesFrame
      <3>2. ~Succeeds(r)
        BY <1>1, <2>3, RunsFrame DEF Inductive, Succeeds
      <3>. QED  BY <3>1, <3>2
    <2>4. CASE UNCHANGED vars
      BY <2>4 DEF vars, tables, Succeeds
    <2>. QED  BY <1>1, <2>1, <2>2, <2>3, <2>4 DEF Next, Step
  <1>2. TypeOK /\ Inductive /\ [Next]_vars =>
          [\A r \in Runs, l \in Listings, type \in EventType \ {"new"} :
             <<r, l, type>> \in events' \ events
               <=> Succeeds(r) /\ RowTurns(RunScope[r], l, EventState(type))]_vars
    BY <1>1
  <1>. QED  BY <1>2, InductiveHolds, PTL DEF Spec, EventsAreTheTransitions

=============================================================================
