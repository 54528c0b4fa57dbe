---------------------------- MODULE HandoffProofs ----------------------------
(***************************************************************************)
(* Proofs about Handoff: HandoffInductive holds in every reachable state,  *)
(* and the safety properties of the session follow from it.                *)
(*                                                                         *)
(* The argument separates what an action does to the data (the object and  *)
(* its files) from what it does to the control (the lock's queue and the   *)
(* awaits): each change of the object is a lemma about Fit, each way to    *)
(* enter, leave or queue for the lock a lemma about Control, and the       *)
(* lemmas about the actions combine them.                                  *)
(***************************************************************************)
EXTENDS HandoffInvariant, TLAPS

\* The data part of the invariant, of an object m, a status file d, a feed file f,
\* v automatic visits and the mark i of an interruption.
Fit(m, d, f, v, i) ==
    /\ m \in Object /\ d \in Record /\ f \in Feed \cup {None}
    /\ v \in Nat /\ i \in BOOLEAN
    /\ Serves(m, f)
    /\ Spaced(m, d, v)
    /\ Stopped(m, i)

\* The control part.
Control ==
    /\ lock \in Seq(Tasks)
    /\ pc \in [Tasks -> Awaits] /\ op \in [Tasks -> Operations]
    /\ Turns

\* The rest of the types.
Remainder ==
    /\ page \in Page /\ loads \in 1 .. MaxLoads
    /\ crashes \in 0 .. MaxCrashes
    /\ asked \in {"pause", "resume"}

\* What a stretch leaves: data that fit, and a settled analysis unless somebody is at
\* it or the disk has failed.
Kept(f) ==
    /\ Fit(memory', disk', f, visits', interrupted')
    /\ Control'
    /\ faults' \in 0 .. MaxFaults
    /\ Analyses'

\* The invariant, taken apart,
LEMMA Parts ==
    ASSUME HandoffInductive
    PROVE  /\ Fit(memory, disk, feedFile, visits, interrupted)
           /\ Control /\ Remainder /\ faults \in 0 .. MaxFaults /\ Analyses
BY DEF HandoffInductive, TypeOK, Fit, Control, Remainder

\* and put together again after a step.
LEMMA Together ==
    ASSUME Kept(feedFile'), Remainder'
    PROVE  HandoffInductive'
BY DEF HandoffInductive, TypeOK, Fit, Control, Remainder, Kept

---------------------------------------------------------------------------
(* The data: each change of the object, whoever makes it. *)

\* save() writes a status that fits: what the visits left not due stays not due.
LEMMA SaveFits ==
    ASSUME NEW m, NEW d, NEW f, NEW v, NEW i, Fit(m, d, f, v, i)
    PROVE  Fit(m, RecordOf(m), f, v, i)
BY DEF Fit, RecordOf, Object, Record, Spaced

\* pause() keeps the object fit, whether or not a capture is interrupted.
LEMMA PauseFits ==
    ASSUME NEW m, NEW d, NEW f, NEW v, NEW i, NEW j \in BOOLEAN, Fit(m, d, f, v, i),
           NEW s \in {"PAUSED", "NEEDS_HUMAN"}
    PROVE  /\ Fit(Paused(m, s), d, f, v, j)
           /\ Settled(m) => Settled(Paused(m, s))
<1> DEFINE n == [m EXCEPT !.manual = TRUE, !.status = s]
<1>1. n \in Object
  BY DEF Fit, Object
<1>2. /\ n.manual = TRUE /\ n.status = s /\ n.due = m.due /\ n.latest = m.latest
      /\ n.analysis = m.analysis /\ n.report = m.report
  BY DEF Fit, Object
<1>3. Paused(m, s) = n
  BY DEF Paused
<1> HIDE DEF n
<1>4. Fit(n, d, f, v, j)
  BY <1>1, <1>2 DEF Fit, Serves, Spaced, Stopped
<1>5. Settled(m) => Settled(n)
  BY <1>2 DEF Settled
<1> QED
  BY <1>3, <1>4, <1>5

\* A resume takes the object back from the human, and no interruption is left.
LEMMA ResumeFits ==
    ASSUME NEW m, NEW d, NEW f, NEW v, NEW i, Fit(m, d, f, v, i)
    PROVE  /\ Fit([m EXCEPT !.manual = FALSE], d, f, v, FALSE)
           /\ Settled(m) => Settled([m EXCEPT !.manual = FALSE])
<1> DEFINE n == [m EXCEPT !.manual = FALSE]
<1>1. n \in Object
  BY DEF Fit, Object
<1>2. /\ n.manual = FALSE /\ n.status = m.status /\ n.due = m.due /\ n.latest = m.latest
      /\ n.analysis = m.analysis /\ n.report = m.report /\ n.success = m.success
  BY DEF Fit, Object
<1> HIDE DEF n
<1>3. Fit(n, d, f, v, FALSE) /\ (Settled(m) => Settled(n))
  BY <1>1, <1>2 DEF Fit, Serves, Spaced, Stopped, Settled
<1> QED
  BY <1>3 DEF n

\* An attempt makes the object not due.
LEMMA AttemptFits ==
    ASSUME NEW m, NEW d, NEW f, NEW v, NEW i, Fit(m, d, f, v, i)
    PROVE  /\ Fit([m EXCEPT !.due = FALSE], d, f, v, i)
           /\ [m EXCEPT !.due = FALSE].due = FALSE
           /\ [m EXCEPT !.due = FALSE].latest = m.latest
           /\ Settled(m) => Settled([m EXCEPT !.due = FALSE])
<1> DEFINE n == [m EXCEPT !.due = FALSE]
<1>1. n \in Object
  BY DEF Fit, Object
<1>2. /\ n.manual = m.manual /\ n.status = m.status /\ n.due = FALSE /\ n.latest = m.latest
      /\ n.analysis = m.analysis /\ n.report = m.report /\ n.success = m.success
  BY DEF Fit, Object
<1> HIDE DEF n
<1>3. Fit(n, d, f, v, i) /\ (Settled(m) => Settled(n))
  BY <1>1, <1>2 DEF Fit, Serves, Spaced, Stopped, Settled
<1> QED
  BY <1>2, <1>3 DEF n

\* What the analyser records: that it runs, what it found, or that it failed.
LEMMA AnalysisFits ==
    ASSUME NEW m, NEW d, NEW f, NEW v, NEW i, Fit(m, d, f, v, i)
    PROVE  /\ Fit([m EXCEPT !.analysis = "running"], d, f, v, i)
           /\ Fit([m EXCEPT !.analysis = "failed"], d, f, v, i)
           /\ Fit([m EXCEPT !.analysis = "complete", !.report = m.latest], d, f, v, i)
           /\ Settled([m EXCEPT !.analysis = "failed"])
           /\ Settled([m EXCEPT !.analysis = "complete", !.report = m.latest])
<1> DEFINE a == [m EXCEPT !.analysis = "running"]
           b == [m EXCEPT !.analysis = "failed"]
           c == [m EXCEPT !.analysis = "complete", !.report = m.latest]
<1>1. a \in Object /\ b \in Object /\ c \in Object
  BY DEF Fit, Object
<1>2. \A n \in {a, b, c} :
        /\ n.manual = m.manual /\ n.status = m.status /\ n.due = m.due
        /\ n.latest = m.latest /\ n.success = m.success
  BY DEF Fit, Object
<1>3. b.analysis = "failed" /\ c.analysis = "complete" /\ c.report = m.latest
  BY DEF Fit, Object
<1> HIDE DEF a, b, c
<1>4. \A n \in {a, b, c} : Fit(n, d, f, v, i)
  BY <1>1, <1>2 DEF Fit, Serves, Spaced, Stopped
<1>5. Settled(b) /\ Settled(c)
  BY <1>2, <1>3 DEF Settled
<1> QED
  BY <1>4, <1>5 DEF a, b, c

\* update_analysis() begins: with a feed the analysis runs, without one nothing changes.
LEMMA UpdateFits ==
    ASSUME NEW m, NEW d, NEW f, NEW v, NEW i, Fit(m, d, f, v, i)
    PROVE  Fit(UpdateAnalysis(m)[1], d, f, v, i)
BY AnalysisFits DEF UpdateAnalysis

\* What prepare() makes of a document is an observation.
LEMMA FeedOfIsFeed ==
    ASSUME NEW doc \in Page, NEW previous
    PROVE  /\ FeedOf(doc, previous) \in Feed /\ FeedOf(doc, previous) # None
           /\ FeedOf(doc, previous).stamp = doc.stamp
           /\ FeedOf(doc, previous).items = doc.items
           /\ FeedOf(doc, previous).changes = Changes(doc.items, previous)
<1>1. doc.stamp \in 1 .. MaxLoads /\ doc.items \in Contents
  BY DEF Page
<1>2. DOMAIN doc.items \in SUBSET Listings
  BY <1>1, HandoffAssumption
<1>3. \A l : ChangeOf(l, doc.items, previous) \in Events
  BY DEF ChangeOf, Events
<1>4. Changes(doc.items, previous) \in [DOMAIN doc.items -> Events]
  BY <1>3 DEF Changes
<1>5. Changes(doc.items, previous) \in UNION {[S -> Events] : S \in SUBSET Listings}
  BY <1>2, <1>4
<1> DEFINE feed == [stamp |-> doc.stamp, items |-> doc.items,
                    changes |-> Changes(doc.items, previous)]
<1>6. feed \in Feed
  BY <1>1, <1>5 DEF Feed
<1> QED
  BY <1>6, NoneAssumption DEF FeedOf

\* A document that was recorded before makes the object READY again: its time is the
\* observation's, so what is served is what is reported.
LEMMA RecheckFits ==
    ASSUME NEW m, NEW d, NEW f, NEW v, NEW i, Fit(m, d, f, v, i), NEW doc \in Page,
           ~Refused(m, doc), ~m.manual, Repeated(m, doc)
    PROVE  Fit([m EXCEPT !.status = "READY"], d, f, v, i)
<1> DEFINE n == [m EXCEPT !.status = "READY"]
<1>1. n \in Object
  BY DEF Fit, Object
<1>2. /\ n.manual = m.manual /\ n.status = "READY" /\ n.due = m.due
      /\ n.latest = m.latest /\ n.success = m.success
  BY DEF Fit, Object
<1>3. m.latest # None /\ m.success = m.latest.stamp
  BY DEF Refused, Repeated, SameItems
<1> HIDE DEF n
<1>4. Fit(n, d, f, v, i)
  BY <1>1, <1>2, <1>3 DEF Fit, Serves, Spaced, Stopped
<1> QED
  BY <1>4 DEF n

\* A publication makes the object serve the feed that it writes.
LEMMA PublishFits ==
    ASSUME NEW m, NEW d, NEW f, NEW v, NEW i, Fit(m, d, f, v, i), ~m.manual,
           NEW doc \in Page, NEW feed \in Feed, feed.stamp = doc.stamp
    PROVE  Fit([m EXCEPT !.latest = feed, !.status = "READY", !.success = doc.stamp],
               d, feed, v, i)
<1> DEFINE n == [m EXCEPT !.latest = feed, !.status = "READY", !.success = doc.stamp]
<1>1. doc.stamp \in 0 .. MaxLoads
  BY HandoffAssumption DEF Page
<1>2. n \in Object
  BY <1>1 DEF Fit, Object
<1>3. /\ n.manual = m.manual /\ n.status = "READY" /\ n.due = m.due
      /\ n.latest = feed /\ n.success = doc.stamp
  BY DEF Fit, Object
<1> HIDE DEF n
<1>4. Fit(n, d, feed, v, i)
  BY <1>2, <1>3, NoneAssumption DEF Fit, Serves, Spaced, Stopped
<1> QED
  BY <1>4 DEF n

\* The object a process starts with fits the files it was started from.
LEMMA StartFits ==
    ASSUME NEW m, NEW d, NEW f, NEW v, NEW i, Fit(m, d, f, v, i),
           NEW g \in Feed \cup {None}
    PROVE  Fit(Started(d, g), RecordOf(Started(d, g)), g, v, FALSE)
<1> DEFINE n == Started(d, g)
<1>1. n \in Object
  BY DEF Fit, Object, Record, Started
<1>2. n.latest = g /\ n.status = "PAUSED" /\ n.manual = TRUE /\ n.due = d.due
  BY DEF Started
<1> HIDE DEF n
<1>3. Fit(n, d, g, v, FALSE)
  BY <1>1, <1>2 DEF Fit, Serves, Spaced, Stopped
<1>4. Fit(n, RecordOf(n), g, v, FALSE)
  BY <1>3, SaveFits
<1> QED
  BY <1>4 DEF n

\* The end of the interval makes object and file due, and no visit counts any more.
LEMMA ElapseFits ==
    ASSUME NEW m, NEW d, NEW f, NEW v, NEW i, Fit(m, d, f, v, i)
    PROVE  /\ Fit([m EXCEPT !.due = TRUE], [d EXCEPT !.due = TRUE], f, 0, i)
           /\ Settled(m) => Settled([m EXCEPT !.due = TRUE])
<1> DEFINE n == [m EXCEPT !.due = TRUE]
           e == [d EXCEPT !.due = TRUE]
<1>1. n \in Object /\ e \in Record
  BY DEF Fit, Object, Record
<1>2. /\ n.manual = m.manual /\ n.status = m.status /\ n.latest = m.latest
      /\ n.analysis = m.analysis /\ n.report = m.report /\ n.success = m.success
  BY DEF Fit, Object
<1> HIDE DEF n, e
<1>3. Fit(n, e, f, 0, i) /\ (Settled(m) => Settled(n))
  BY <1>1, <1>2 DEF Fit, Serves, Spaced, Stopped, Settled
<1> QED
  BY <1>3 DEF n, e

---------------------------------------------------------------------------
(* The control: how a task takes, leaves and queues for the lock. *)

\* q is the queue with t at its head: the lock it holds, or the free one it enters.
At(t, q) ==
    \/ q = lock /\ Holder(t)
    \/ q = <<t>> /\ lock = <<>>

\* Only t can be at work when it holds the lock, and nobody is when it is free.
LEMMA OneAtWork ==
    ASSUME Control, NEW t \in Tasks, NEW q, At(t, q)
    PROVE  \A u \in Tasks \ {t} : pc[u] \notin Inside
BY DEF Control, Turns, Holder, At

\* The queue a task stands at the head of is a queue of tasks.
LEMMA QueueAt ==
    ASSUME Control, NEW t \in Tasks, NEW q, At(t, q)
    PROVE  q \in Seq(Tasks) /\ q # <<>> /\ Head(q) = t /\ Tail(q) \in Seq(Tasks)
<1>1. CASE q = lock /\ Holder(t)
  BY <1>1 DEF Control, Holder
<1>2. CASE q = <<t>> /\ lock = <<>>
  BY <1>2
<1> QED
  BY <1>1, <1>2 DEF At

\* Leaving the lock leaves nobody at work.
LEMMA LeaveControl ==
    ASSUME Control, NEW t \in Tasks, NEW q, At(t, q),
           NEW await \in {"idle", "checked", "dead"}, Leave(t, q, await)
    PROVE  /\ Control'
           /\ \A u \in Tasks : pc'[u] # "analysing"
<1>1. lock' \in Seq(Tasks)
  BY QueueAt DEF Leave
<1>2. pc' \in [Tasks -> Awaits] /\ op' \in [Tasks -> Operations]
  BY DEF Control, Leave, Awaits, Operations
<1>3. pc'[t] = await /\ \A u \in Tasks \ {t} : pc'[u] = pc[u] /\ op'[u] = op[u]
  BY DEF Control, Leave
<1>4. \A u \in Tasks : pc'[u] \notin Inside
  BY <1>3, OneAtWork DEF Inside
<1>5. \A u \in Tasks : pc'[u] = "lock" => op'[u] # "none"
  BY <1>3 DEF Control, Turns
<1>6. Turns'
  BY <1>4, <1>5 DEF Turns
<1> QED
  BY <1>1, <1>2, <1>4, <1>6 DEF Control, Inside

\* Going on under the lock, the task is the one at work.
LEMMA SuspendControl ==
    ASSUME Control, NEW t \in Tasks, NEW q, At(t, q), NEW o \in Operations,
           NEW await \in Inside, Suspend(t, o, q, await)
    PROVE  Control' /\ pc'[t] = await
<1>1. lock' \in Seq(Tasks) /\ lock' # <<>> /\ Head(lock') = t
  BY QueueAt DEF Suspend
<1>2. pc' \in [Tasks -> Awaits] /\ op' \in [Tasks -> Operations]
  BY DEF Control, Suspend, Awaits, Inside
<1>3. pc'[t] = await /\ \A u \in Tasks \ {t} : pc'[u] = pc[u] /\ op'[u] = op[u]
  BY DEF Control, Suspend
<1>4. \A u \in Tasks : pc'[u] \in Inside => u = t
  BY <1>3, OneAtWork
<1>5. \A u \in Tasks : pc'[u] = "lock" => op'[u] # "none"
  BY <1>3 DEF Control, Turns, Inside
<1>6. Turns'
  BY <1>1, <1>4, <1>5 DEF Turns, Holder
<1> QED
  BY <1>1, <1>2, <1>3, <1>6 DEF Control

\* Queueing changes nothing for who is at work.
LEMMA QueueControl ==
    ASSUME Control, NEW t \in Tasks, lock # <<>>, pc[t] \notin Inside,
           NEW o \in Operations \ {"none"}, Suspend(t, o, Append(lock, t), "lock")
    PROVE  /\ Control'
           /\ (\A u \in Tasks : pc'[u] # "analysing") => \A u \in Tasks : pc[u] # "analysing"
<1>1. lock' \in Seq(Tasks) /\ lock' # <<>> /\ Head(lock') = Head(lock)
  BY DEF Control, Suspend
<1>2. pc' \in [Tasks -> Awaits] /\ op' \in [Tasks -> Operations]
  BY DEF Control, Suspend, Awaits
<1>3. /\ pc'[t] = "lock" /\ op'[t] = o
      /\ \A u \in Tasks \ {t} : pc'[u] = pc[u] /\ op'[u] = op[u]
  BY DEF Control, Suspend
<1>4. Turns'
  BY <1>1, <1>3 DEF Control, Turns, Holder, Inside
<1> QED
  BY <1>1, <1>2, <1>3, <1>4 DEF Control, Inside

---------------------------------------------------------------------------
(* The ways a stretch ends. *)

\* Nobody but t can be analysing, so if t is not, the analysis is settled while the
\* disk works.
LEMMA SettledWhenWaiting ==
    ASSUME Control, Analyses, NEW t \in Tasks, NEW q, At(t, q), pc[t] # "analysing"
    PROVE  faults = 0 => Settled(memory)
BY OneAtWork DEF Analyses, Inside

\* An OSError counts as a fault, and leaves files that fit the object.
LEMMA RaiseKeeps ==
    ASSUME Control, NEW t \in Tasks, NEW q, At(t, q), NEW o, NEW m, NEW f, NEW v, NEW i,
           Fit(m, disk, f, v, i), faults \in 0 .. MaxFaults, Raise(t, o, q, m)
    PROVE  Fit(memory', disk', f, v, i) /\ Control' /\ faults' \in 1 .. MaxFaults
<1> DEFINE n == Paused(m, "NEEDS_HUMAN")
<1>1. Fit(n, disk, f, v, i)
  BY PauseFits DEF Fit
<1>2. Fit(n, RecordOf(n), f, v, i)
  BY <1>1, SaveFits
<1> HIDE DEF n
<1>3. CASE t = Monitor /\ o = "snapshot"
  <2>1. \/ faults < MaxFaults /\ faults' = faults + 1 /\ memory' = n /\ disk' = RecordOf(n)
           /\ Leave(t, q, "checked")
        \/ WriteFails(n, 2) /\ Leave(t, q, "dead")
    BY <1>3 DEF Raise, n
  <2>2. Control'
    BY <2>1, LeaveControl
  <2>3. faults' \in 1 .. MaxFaults
    BY <2>1, HandoffAssumption DEF WriteFails
  <2>4. Fit(memory', disk', f, v, i)
    BY <1>1, <1>2, <2>1 DEF WriteFails
  <2> QED
    BY <2>2, <2>3, <2>4
<1>4. CASE ~(t = Monitor /\ o = "snapshot")
  <2>1. /\ memory' = m /\ disk' = disk /\ faults + 1 <= MaxFaults /\ faults' = faults + 1
        /\ Leave(t, q, IF t = Monitor THEN "dead" ELSE "idle")
    BY <1>4 DEF Raise, WriteFails
  <2>2. (IF t = Monitor THEN "dead" ELSE "idle") \in {"idle", "checked", "dead"}
    OBVIOUS
  <2>3. Control'
    BY <2>1, <2>2, LeaveControl
  <2>4. faults' \in 1 .. MaxFaults
    BY <2>1, HandoffAssumption
  <2> QED
    BY <2>1, <2>3, <2>4
<1> QED
  BY <1>3, <1>4

\* A pause at the end of a handler keeps what the handler found.
LEMMA PauseAndFinishKeeps ==
    ASSUME Control, NEW t \in Tasks, Holder(t), NEW m, NEW f,
           NEW status \in {"PAUSED", "NEEDS_HUMAN"},
           Fit(m, disk, f, visits, interrupted), faults \in 0 .. MaxFaults,
           faults = 0 => Settled(m), PauseAndFinish(t, m, status),
           UNCHANGED <<visits, interrupted>>
    PROVE  Kept(f)
<1> DEFINE n == Paused(m, status)
<1>1. Fit(n, disk, f, visits, interrupted) /\ (Settled(m) => Settled(n))
  BY PauseFits DEF Fit
<1>2. Fit(n, RecordOf(n), f, visits, interrupted)
  BY <1>1, SaveFits
<1>3. At(t, lock)
  BY DEF At
<1> HIDE DEF n
<1>4. CASE Write(n) /\ Finish(t)
  <2>1. Leave(t, lock, Rest(t, op[t])) /\ Rest(t, op[t]) \in {"idle", "checked", "dead"}
    BY <1>4 DEF Finish, Rest
  <2>2. Control'
    BY <1>3, <2>1, LeaveControl
  <2>3. memory' = n /\ disk' = RecordOf(n) /\ faults' = faults
    BY <1>4 DEF Write
  <2>4. Analyses'
    BY <1>1, <2>3 DEF Analyses
  <2> QED
    BY <1>2, <2>2, <2>3, <2>4 DEF Kept
<1>5. CASE Raise(t, op[t], lock, n)
  <2>1. /\ Fit(memory', disk', f, visits, interrupted) /\ Control'
        /\ faults' \in 1 .. MaxFaults
    BY <1>1, <1>3, <1>5, RaiseKeeps
  <2>2. Analyses'
    BY <2>1 DEF Analyses
  <2> QED
    BY <2>1, <2>2 DEF Kept
<1> QED
  BY <1>4, <1>5 DEF PauseAndFinish, n

\* A handler that raises keeps what it found.
LEMMA RaiseEnds ==
    ASSUME Control, NEW t \in Tasks, NEW q, At(t, q), NEW o, NEW m, NEW f,
           Fit(m, disk, f, visits, interrupted), faults \in 0 .. MaxFaults,
           Raise(t, o, q, m), UNCHANGED <<visits, interrupted>>
    PROVE  Kept(f)
<1>1. /\ Fit(memory', disk', f, visits, interrupted) /\ Control'
      /\ faults' \in 1 .. MaxFaults
  BY RaiseKeeps
<1>2. Analyses'
  BY <1>1 DEF Analyses
<1> QED
  BY <1>1, <1>2 DEF Kept

---------------------------------------------------------------------------
(* Entering the lock. *)

\* The ways in which the first stretch of an operation goes.
LEMMA EnteredCases ==
    ASSUME NEW m, NEW o \in Operations \ {"none"}
    PROVE  LET object == Entered(m, o)[1]
               await == Entered(m, o)[2] IN
           \/ object = m /\ await = "connecting"
           \/ object = m /\ await = "idle" /\ o # "open"
           \/ object = [m EXCEPT !.manual = FALSE] /\ await = "reading" /\ o # "open"
           \/ /\ m.due /\ object = [m EXCEPT !.due = FALSE] /\ await = "navigating"
              /\ o # "open"
           \/ /\ object = [m EXCEPT !.analysis = "running"] /\ await = "analysing"
              /\ o # "open"
<1>1. CASE o \in {"open", "initialize"}
  BY <1>1 DEF Entered, EnterOpen
<1>2. CASE o = "resume"
  BY <1>2 DEF Entered, EnterResume
<1>3. CASE o = "snapshot"
  BY <1>3 DEF Entered, EnterSnapshot
<1>4. CASE o = "analyse"
  BY <1>4 DEF Entered, UpdateAnalysis
<1> QED
  BY <1>1, <1>2, <1>3, <1>4 DEF Operations

\* A handler that enters and is over at once keeps the object it came with.
LEMMA EnterAndLeave ==
    ASSUME Control, NEW t \in Tasks, NEW q, At(t, q), NEW o, NEW m, NEW d,
           Fit(m, d, feedFile, visits, interrupted), faults \in 0 .. MaxFaults,
           faults = 0 => Settled(m),
           memory' = m, disk' = d, Leave(t, q, Rest(t, o)),
           UNCHANGED <<faults, interrupted, visits>>
    PROVE  Kept(feedFile)
<1>1. Rest(t, o) \in {"idle", "checked", "dead"}
  BY DEF Rest
<1>2. Control'
  BY <1>1, LeaveControl
<1>3. Analyses'
  BY DEF Analyses
<1> QED
  BY <1>2, <1>3 DEF Kept

\* A handler that enters and goes on leaves no interruption behind it.
LEMMA EnterAndStay ==
    ASSUME Control, NEW t \in Tasks, NEW q, At(t, q), NEW o \in Operations, NEW m, NEW d,
           NEW await \in Inside,
           Fit(m, d, feedFile, visits', FALSE), faults \in 0 .. MaxFaults,
           await # "analysing" => (faults = 0 => Settled(m)),
           memory' = m, disk' = d, Suspend(t, o, q, await),
           interrupted' = FALSE, UNCHANGED faults
    PROVE  Kept(feedFile)
<1>1. Control' /\ pc'[t] = await
  BY SuspendControl
<1>2. Analyses'
  BY <1>1 DEF Analyses
<1> QED
  BY <1>1, <1>2 DEF Kept

\* An interruption that is over is no interruption.
LEMMA NotInterrupted ==
    ASSUME NEW m, NEW d, NEW f, NEW v, NEW i, Fit(m, d, f, v, i)
    PROVE  Fit(m, d, f, v, FALSE)
BY DEF Fit, Stopped

\* An automatic visit is made of a due object only, so it is the first of its interval.
LEMMA VisitFits ==
    ASSUME NEW m, NEW d, NEW f, NEW v, NEW i, Fit(m, d, f, v, i), m.due
    PROVE  LET n == [m EXCEPT !.due = FALSE] IN Fit(n, RecordOf(n), f, v + 1, FALSE)
<1> DEFINE n == [m EXCEPT !.due = FALSE]
<1>1. Fit(n, d, f, v, i) /\ n.due = FALSE
  BY AttemptFits
<1> HIDE DEF n
<1>2. v = 0
  BY DEF Fit, Spaced
<1>3. RecordOf(n).due = FALSE /\ Fit(n, RecordOf(n), f, v, i)
  BY <1>1, SaveFits DEF RecordOf
<1>4. Fit(n, RecordOf(n), f, v + 1, FALSE)
  BY <1>1, <1>2, <1>3 DEF Fit, Spaced, Stopped
<1> QED
  BY <1>4 DEF n

\* Whatever operation enters the lock, with whatever object, keeps the invariant.
LEMMA EnterKeeps ==
    ASSUME Control, NEW t \in Tasks, NEW q, At(t, q), NEW o \in Operations \ {"none"},
           NEW m, NEW d,
           Fit(m, d, feedFile, visits, interrupted),
           Fit(m, disk, feedFile, visits, interrupted),
           faults \in 0 .. MaxFaults, faults = 0 => Settled(m),
           Enter(t, o, q, m, d)
    PROVE  Kept(feedFile)
<1> DEFINE object == Entered(m, o)[1]
           await == Entered(m, o)[2]
           Over == /\ await = "idle" \/ o = "open"
                   /\ memory' = object /\ disk' = d /\ Leave(t, q, Rest(t, o))
                   /\ UNCHANGED <<faults, interrupted, visits>>
           Stay == /\ await \in {"connecting", "reading", "analysing"}
                   /\ memory' = object /\ disk' = d /\ Suspend(t, o, q, await)
                   /\ interrupted' = FALSE /\ UNCHANGED <<faults, visits>>
           Visit == /\ await = "navigating" /\ Write(object) /\ Suspend(t, o, q, await)
                    /\ interrupted' = FALSE /\ visits' = visits + 1
           Fail == /\ await = "navigating" /\ Raise(t, o, q, object)
                   /\ UNCHANGED <<interrupted, visits>>
           resumed == [m EXCEPT !.manual = FALSE]
           attempted == [m EXCEPT !.due = FALSE]
           running == [m EXCEPT !.analysis = "running"]
<1>1. Over \/ Stay \/ Visit \/ Fail
  BY DEF Enter
<1>2. \/ object = m /\ await = "connecting"
      \/ object = m /\ await = "idle" /\ o # "open"
      \/ object = resumed /\ await = "reading" /\ o # "open"
      \/ m.due /\ object = attempted /\ await = "navigating" /\ o # "open"
      \/ object = running /\ await = "analysing" /\ o # "open"
  BY EnteredCases
<1>3. Fit(m, d, feedFile, visits, FALSE)
  BY NotInterrupted
<1>4. Fit(resumed, d, feedFile, visits, FALSE) /\ (Settled(m) => Settled(resumed))
  BY ResumeFits
<1>5. m.due => Fit(attempted, RecordOf(attempted), feedFile, visits + 1, FALSE)
  BY VisitFits
<1>6. Fit(attempted, disk, feedFile, visits, interrupted) /\ (Settled(m) => Settled(attempted))
  BY AttemptFits
<1>7. Fit(running, d, feedFile, visits, interrupted)
  BY AnalysisFits
<1>8. Fit(running, d, feedFile, visits, FALSE)
  BY <1>7, NotInterrupted
<1> HIDE DEF object, await, resumed, attempted, running
<1>9. CASE Over
  <2>1. object = m
    BY <1>2, <1>9
  <2> QED
    BY <1>9, <2>1, EnterAndLeave
<1>10. CASE Stay
  <2>1. /\ Fit(object, d, feedFile, visits', FALSE)
        /\ await # "analysing" => (faults = 0 => Settled(object))
    BY <1>2, <1>3, <1>4, <1>8, <1>10
  <2>2. await \in Inside
    BY <1>10 DEF Inside
  <2> QED
    BY <1>10, <2>1, <2>2, EnterAndStay
<1>11. CASE Visit
  <2>1. object = attempted /\ m.due
    BY <1>2, <1>11
  <2>2. Fit(object, RecordOf(object), feedFile, visits', FALSE) /\ (faults = 0 => Settled(object))
    BY <1>5, <1>6, <1>11, <2>1
  <2>3. memory' = object /\ disk' = RecordOf(object) /\ faults' = faults
    BY <1>11 DEF Write
  <2>4. await \in Inside /\ Suspend(t, o, q, await) /\ interrupted' = FALSE
    BY <1>11 DEF Inside
  <2> QED
    BY <2>2, <2>3, <2>4, EnterAndStay
<1>12. CASE Fail
  <2>1. Fit(object, disk, feedFile, visits, interrupted)
    BY <1>2, <1>6, <1>12
  <2> QED
    BY <1>12, <2>1, RaiseEnds
<1> QED
  BY <1>1, <1>9, <1>10, <1>11, <1>12

---------------------------------------------------------------------------
(* The actions of the humans and the clients. *)

\* A task outside the lock finds the analysis settled, if the lock is free.
LEMMA FreeLockSettled ==
    ASSUME HandoffInductive, NEW t \in Tasks, pc[t] \notin Inside, lock = <<>>
    PROVE  At(t, <<t>>) /\ (faults = 0 => Settled(memory))
<1>1. At(t, <<t>>)
  BY DEF At
<1> QED
  BY <1>1, Parts, SettledWhenWaiting DEF Inside

\* A call reaches the lock: whether it enters or queues, the invariant is kept.
LEMMA ArriveKeeps ==
    ASSUME HandoffInductive, NEW t \in Tasks, pc[t] \notin Inside,
           NEW o \in Operations \ {"none"}, Arrive(t, o, memory, disk)
    PROVE  Kept(feedFile)
<1>1. /\ Fit(memory, disk, feedFile, visits, interrupted)
      /\ Control /\ faults \in 0 .. MaxFaults /\ Analyses
  BY Parts
<1>2. CASE lock = <<>> /\ Enter(t, o, <<t>>, memory, disk)
  BY <1>1, <1>2, FreeLockSettled, EnterKeeps
<1>3. CASE /\ lock # <<>>
           /\ memory' = memory /\ disk' = disk
           /\ Suspend(t, o, Append(lock, t), "lock")
           /\ UNCHANGED <<faults, interrupted, visits>>
  <2>1. /\ Control'
        /\ (\A u \in Tasks : pc'[u] # "analysing") => \A u \in Tasks : pc[u] # "analysing"
    BY <1>1, <1>3, QueueControl
  <2>2. Analyses'
    BY <1>1, <1>3, <2>1 DEF Analyses
  <2> QED
    BY <1>1, <1>3, <2>1, <2>2 DEF Kept
<1> QED
  BY <1>2, <1>3 DEF Arrive

\* A step that touches neither the lock nor its tasks keeps the control.
LEMMA SameControl ==
    ASSUME Control, UNCHANGED <<lock, pc, op>>
    PROVE  Control'
BY DEF Control, Turns, Holder

\* POST /action/pause: the object is taken over, the lock and its tasks are not touched.
LEMMA HumanPauseStep ==
    ASSUME HandoffInductive, HumanPause
    PROVE  HandoffInductive'
<1> DEFINE n == Paused(memory, "PAUSED")
<1>1. /\ Fit(memory, disk, feedFile, visits, interrupted)
      /\ Control /\ faults \in 0 .. MaxFaults /\ Analyses /\ Remainder
  BY Parts
<1>2. interrupted' \in BOOLEAN
  BY DEF HumanPause, Running
<1>3. Fit(n, disk, feedFile, visits, interrupted') /\ (Settled(memory) => Settled(n))
  BY <1>1, <1>2, PauseFits
<1>4. Fit(n, RecordOf(n), feedFile, visits, interrupted')
  BY <1>3, SaveFits
<1> HIDE DEF n
<1>5. /\ memory' = n /\ disk' \in {disk, RecordOf(n)}
      /\ faults' = faults \/ (faults' = faults + 1 /\ faults + 1 <= MaxFaults)
  BY DEF HumanPause, Write, WriteFails, n
<1>6. UNCHANGED <<lock, pc, op, visits, feedFile, crashes, page, loads>> /\ asked' = "pause"
  BY DEF HumanPause, KeepPage, KeepFiles
<1>7. Control'
  BY <1>1, <1>6, SameControl
<1>8. faults' \in 0 .. MaxFaults /\ (faults' = 0 => faults = 0)
  BY <1>1, <1>5, HandoffAssumption
<1>9. Analyses'
  BY <1>1, <1>3, <1>5, <1>6, <1>8 DEF Analyses
<1>10. Kept(feedFile')
  BY <1>3, <1>4, <1>5, <1>6, <1>7, <1>8, <1>9 DEF Kept
<1>11. Remainder'
  BY <1>1, <1>6 DEF Remainder
<1> QED
  BY <1>10, <1>11, Together

\* An open or initialize pauses, then enters the lock, queues, or fails to write.
LEMMA OpenBrowserStep ==
    ASSUME HandoffInductive, NEW t \in Clients, NEW o \in {"open", "initialize"},
           OpenBrowser(t, o)
    PROVE  HandoffInductive'
<1> DEFINE n == Paused(memory, "PAUSED")
<1>1. /\ Fit(memory, disk, feedFile, visits, interrupted)
      /\ Control /\ faults \in 0 .. MaxFaults /\ Analyses /\ Remainder
  BY Parts
<1>2. Running \in BOOLEAN
  BY DEF Running
<1>3. \A j \in BOOLEAN : Fit(n, disk, feedFile, visits, j)
  BY <1>1, PauseFits
<1>4. \A j \in BOOLEAN : Fit(n, RecordOf(n), feedFile, visits, j)
  <2>1. ASSUME NEW j \in BOOLEAN
        PROVE  Fit(n, RecordOf(n), feedFile, visits, j)
    BY <1>3, SaveFits
  <2> QED
    BY <2>1
<1>5. Settled(memory) => Settled(n)
  BY <1>1, PauseFits
<1>6. t \in Tasks /\ pc[t] = "idle" /\ pc[t] \notin Inside /\ o \in Operations \ {"none"}
  BY DEF OpenBrowser, Tasks, Inside, Operations
<1> HIDE DEF n
<1>7. Kept(feedFile)
  <2>1. CASE lock = <<>> /\ Enter(t, o, <<t>>, n, RecordOf(n))
    <3>1. At(t, <<t>>) /\ (faults = 0 => Settled(n))
      BY <1>5, <1>6, <2>1, FreeLockSettled
    <3>2. interrupted \in BOOLEAN
      BY <1>1 DEF Fit
    <3>3. /\ Fit(n, disk, feedFile, visits, interrupted)
          /\ Fit(n, RecordOf(n), feedFile, visits, interrupted)
      BY <1>3, <1>4, <3>2
    <3> QED
      BY <1>1, <1>6, <2>1, <3>1, <3>3, EnterKeeps
  <2>2. CASE /\ lock # <<>>
             /\ Write(n)
             /\ Suspend(t, o, Append(lock, t), "lock")
             /\ interrupted' = Running /\ UNCHANGED visits
    <3>1. /\ Control'
          /\ (\A u \in Tasks : pc'[u] # "analysing") => \A u \in Tasks : pc[u] # "analysing"
      BY <1>1, <1>6, <2>2, QueueControl
    <3>2. memory' = n /\ disk' = RecordOf(n) /\ faults' = faults
      BY <2>2 DEF Write
    <3>3. Analyses'
      BY <1>1, <1>5, <3>1, <3>2 DEF Analyses
    <3> QED
      BY <1>1, <1>2, <1>4, <2>2, <3>1, <3>2, <3>3 DEF Kept
  <2>3. CASE /\ WriteFails(n, 1)
             /\ interrupted' = Running /\ UNCHANGED <<lock, pc, op, visits>>
    <3>1. /\ memory' = n /\ disk' = disk /\ faults' = faults + 1 /\ faults' \in 1 .. MaxFaults
      BY <1>1, <2>3, HandoffAssumption DEF WriteFails
    <3>2. Control'
      BY <1>1, <2>3, SameControl
    <3>3. Analyses'
      BY <3>1 DEF Analyses
    <3> QED
      BY <1>2, <1>3, <2>3, <3>1, <3>2, <3>3 DEF Kept
  <2> QED
    BY <2>1, <2>2, <2>3 DEF OpenBrowser, n
<1>8. UNCHANGED <<feedFile, crashes, page, loads>> /\ asked' = "pause"
  BY DEF OpenBrowser, KeepPage, KeepFiles
<1>9. Remainder'
  BY <1>1, <1>8 DEF Remainder
<1> QED
  BY <1>7, <1>8, <1>9, Together

\* A resume reaches the lock.
LEMMA ResumeStep ==
    ASSUME HandoffInductive, NEW t \in Clients, Resume(t)
    PROVE  HandoffInductive'
<1>1. t \in Tasks /\ pc[t] \notin Inside /\ Arrive(t, "resume", memory, disk)
  BY DEF Resume, Tasks, Inside
<1>2. Kept(feedFile)
  BY <1>1, ArriveKeeps DEF Operations
<1>3. UNCHANGED <<feedFile, crashes, page, loads>> /\ asked' = "resume"
  BY DEF Resume, KeepPage, KeepFiles
<1>4. Remainder'
  BY <1>3, Parts DEF Remainder
<1> QED
  BY <1>2, <1>3, <1>4, Together

\* A snapshot reaches the lock.
LEMMA SnapshotStep ==
    ASSUME HandoffInductive, NEW t \in Clients, Snapshot(t)
    PROVE  HandoffInductive'
<1>1. t \in Tasks /\ pc[t] \notin Inside /\ Arrive(t, "snapshot", memory, disk)
  BY DEF Snapshot, Tasks, Inside
<1>2. Kept(feedFile)
  BY <1>1, ArriveKeeps DEF Operations
<1>3. UNCHANGED <<feedFile, crashes, page, loads, asked>>
  BY DEF Snapshot, KeepPage, KeepFiles
<1>4. Remainder'
  BY <1>3, Parts DEF Remainder
<1> QED
  BY <1>2, <1>3, <1>4, Together

\* The first of the queue goes on with the object it finds.
LEMMA AcquireStep ==
    ASSUME HandoffInductive, NEW t \in Tasks, Acquire(t)
    PROVE  HandoffInductive'
<1>1. /\ Fit(memory, disk, feedFile, visits, interrupted)
      /\ Control /\ faults \in 0 .. MaxFaults /\ Analyses /\ Remainder
  BY Parts
<1>2. /\ At(t, lock) /\ pc[t] = "lock" /\ Enter(t, op[t], lock, memory, disk)
  BY DEF Acquire, At
<1>3. op[t] \in Operations \ {"none"}
  BY <1>1, <1>2 DEF Control, Turns
<1>4. faults = 0 => Settled(memory)
  BY <1>1, <1>2, SettledWhenWaiting
<1>5. Kept(feedFile)
  BY <1>1, <1>2, <1>3, <1>4, EnterKeeps
<1>6. UNCHANGED <<feedFile, crashes, page, loads, asked>>
  BY DEF Acquire, KeepPage, KeepFiles
<1>7. Remainder'
  BY <1>1, <1>6 DEF Remainder
<1> QED
  BY <1>5, <1>6, <1>7, Together

---------------------------------------------------------------------------
(* The actions of the task that works. *)

\* What the holder of the lock, not yet analysing, starts from.
LEMMA HolderHas ==
    ASSUME HandoffInductive, NEW t \in Tasks, Holder(t), pc[t] # "analysing"
    PROVE  At(t, lock) /\ op[t] \in Operations /\ (faults = 0 => Settled(memory))
<1>1. At(t, lock)
  BY DEF At
<1> QED
  BY <1>1, Parts, SettledWhenWaiting DEF Control

\* The holder goes on with a settled object.
LEMMA ContinueKeeps ==
    ASSUME Control, NEW t \in Tasks, Holder(t), NEW f, NEW await \in Inside,
           Continue(t, await), Fit(memory', disk', f, visits', interrupted'),
           faults' \in 0 .. MaxFaults,
           await # "analysing" => (faults' = 0 => Settled(memory'))
    PROVE  Kept(f)
<1>1. At(t, lock) /\ op[t] \in Operations /\ Suspend(t, op[t], lock, await)
  BY DEF At, Control, Continue
<1>2. Control' /\ pc'[t] = await
  BY <1>1, SuspendControl
<1>3. Analyses'
  BY <1>2 DEF Analyses
<1> QED
  BY <1>2, <1>3 DEF Kept

\* The browser of an open or initialize answers, or is not there: the object stays
\* taken over.
LEMMA ConnectedStep ==
    ASSUME HandoffInductive, NEW t \in Tasks, Connected(t)
    PROVE  HandoffInductive'
<1>1. /\ Fit(memory, disk, feedFile, visits, interrupted)
      /\ Control /\ faults \in 0 .. MaxFaults /\ Analyses /\ Remainder
  BY Parts
<1>2. Holder(t) /\ pc[t] = "connecting"
  BY DEF Connected
<1>3. At(t, lock) /\ (faults = 0 => Settled(memory))
  BY <1>2, HolderHas
<1>4. UNCHANGED <<page, loads, feedFile, crashes, asked, interrupted, visits>>
  BY DEF Connected, KeepPage, Keep, KeepFiles
<1>5. Kept(feedFile)
  <2>1. ASSUME NEW status \in {"PAUSED", "NEEDS_HUMAN"}, PauseAndFinish(t, memory, status)
        PROVE  Kept(feedFile)
    BY <1>1, <1>2, <1>3, <1>4, <2>1, PauseAndFinishKeeps
  <2>2. CASE Write(memory) /\ Continue(t, "opening")
    <3>1. memory' = memory /\ disk' = RecordOf(memory) /\ faults' = faults
      BY <2>2 DEF Write
    <3>2. Fit(memory, RecordOf(memory), feedFile, visits, interrupted)
      BY <1>1, SaveFits
    <3>3. Fit(memory', disk', feedFile, visits', interrupted')
      BY <1>4, <3>1, <3>2
    <3>4. "opening" \in Inside /\ Continue(t, "opening")
      BY <2>2 DEF Inside
    <3> QED
      BY <1>1, <1>2, <1>3, <3>1, <3>3, <3>4, ContinueKeeps
  <2>3. CASE Raise(t, op[t], lock, memory)
    BY <1>1, <1>3, <1>4, <2>3, RaiseEnds
  <2> QED
    BY <2>1, <2>2, <2>3 DEF Connected
<1>6. Remainder'
  BY <1>1, <1>4 DEF Remainder
<1> QED
  BY <1>4, <1>5, <1>6, Together

\* A navigation leaves a page of a document that was loaded.
LEMMA NavigateTyped ==
    ASSUME Remainder, Navigate
    PROVE  page' \in Page /\ loads' \in 1 .. MaxLoads
<1>1. CASE KeepPage
  BY <1>1 DEF KeepPage, Remainder
<1>2. CASE /\ loads < MaxLoads
           /\ loads' = loads + 1
           /\ \E c \in Contents : page' = [stamp |-> loads + 1, items |-> c]
  <2>1. loads + 1 \in 1 .. MaxLoads
    BY <1>2, HandoffAssumption DEF Remainder
  <2> QED
    BY <1>2, <2>1 DEF Page
<1> QED
  BY <1>1, <1>2 DEF Navigate

\* After open_browser() the human decides.
LEMMA OpenedStep ==
    ASSUME HandoffInductive, NEW t \in Tasks, Opened(t)
    PROVE  HandoffInductive'
<1>1. /\ Fit(memory, disk, feedFile, visits, interrupted)
      /\ Control /\ faults \in 0 .. MaxFaults /\ Analyses /\ Remainder
  BY Parts
<1>2. Holder(t) /\ pc[t] = "opening" /\ Navigate /\ PauseAndFinish(t, memory, "NEEDS_HUMAN")
  BY DEF Opened
<1>3. faults = 0 => Settled(memory)
  BY <1>2, HolderHas
<1>4. UNCHANGED <<feedFile, crashes, asked, interrupted, visits>>
  BY DEF Opened, Keep, KeepFiles
<1>5. Kept(feedFile)
  BY <1>1, <1>2, <1>3, <1>4, PauseAndFinishKeeps
<1>6. page' \in Page /\ loads' \in 1 .. MaxLoads
  BY <1>1, <1>2, NavigateTyped
<1>7. Remainder'
  BY <1>1, <1>4, <1>6 DEF Remainder
<1> QED
  BY <1>4, <1>5, <1>7, Together

\* The visit of a snapshot answers or fails.
LEMMA NavigatedStep ==
    ASSUME HandoffInductive, NEW t \in Tasks, Navigated(t)
    PROVE  HandoffInductive'
<1>1. /\ Fit(memory, disk, feedFile, visits, interrupted)
      /\ Control /\ faults \in 0 .. MaxFaults /\ Analyses /\ Remainder
  BY Parts
<1>2. Holder(t) /\ pc[t] = "navigating" /\ Navigate
  BY DEF Navigated
<1>3. faults = 0 => Settled(memory)
  BY <1>2, HolderHas
<1>4. UNCHANGED <<feedFile, crashes, asked, interrupted, visits>>
  BY DEF Navigated, Keep, KeepFiles
<1>5. Kept(feedFile)
  <2>1. CASE KeepMemory /\ Continue(t, "reading")
    <3>1. memory' = memory /\ disk' = disk /\ faults' = faults
      BY <2>1 DEF KeepMemory
    <3>2. Fit(memory', disk', feedFile, visits', interrupted')
      BY <1>1, <1>4, <3>1
    <3>3. "reading" \in Inside /\ Continue(t, "reading")
      BY <2>1 DEF Inside
    <3> QED
      BY <1>1, <1>2, <1>3, <3>1, <3>2, <3>3, ContinueKeeps
  <2>2. CASE PauseAndFinish(t, memory, "NEEDS_HUMAN")
    BY <1>1, <1>2, <1>3, <1>4, <2>2, PauseAndFinishKeeps
  <2> QED
    BY <2>1, <2>2 DEF Navigated
<1>6. page' \in Page /\ loads' \in 1 .. MaxLoads
  BY <1>1, <1>2, NavigateTyped
<1>7. Remainder'
  BY <1>1, <1>4, <1>6 DEF Remainder
<1> QED
  BY <1>4, <1>5, <1>7, Together

\* A capture that succeeded goes on to the analysis of the observation it serves.
LEMMA CapturedKeeps ==
    ASSUME Control, NEW t \in Tasks, Holder(t), faults \in 0 .. MaxFaults, NEW m, NEW f,
           Fit(m, disk, f, visits, interrupted), Captured(t, m),
           UNCHANGED <<visits, interrupted>>
    PROVE  Kept(f)
<1> DEFINE attempt == IF op[t] = "resume" THEN [m EXCEPT !.due = FALSE] ELSE m
<1>1. Fit(m, RecordOf(m), f, visits, interrupted)
  BY SaveFits
<1>2. Fit(attempt, RecordOf(m), f, visits, interrupted)
  BY <1>1, AttemptFits
<1>3. /\ memory' = UpdateAnalysis(attempt)[1] /\ disk' = RecordOf(m)
      /\ Continue(t, "analysing") /\ faults' = faults
  BY DEF Captured
<1> HIDE DEF attempt
<1>4. Fit(memory', disk', f, visits', interrupted')
  BY <1>2, <1>3, UpdateFits
<1>5. "analysing" \in Inside
  BY DEF Inside
<1> QED
  BY <1>3, <1>4, <1>5, ContinueKeeps

\* What was not recorded before is on a younger document, if it is not refused.
LEMMA AcceptedIsNewer ==
    ASSUME NEW m, NEW doc, ~Refused(m, doc), ~Repeated(m, doc)
    PROVE  Newer(doc, m.latest)
BY DEF Refused

\* A page is read: refused, ignored after a takeover, recognised, or published.
LEMMA AcceptPageStep ==
    ASSUME HandoffInductive, NEW t \in Tasks, AcceptPage(t)
    PROVE  HandoffInductive'
<1>1. /\ Fit(memory, disk, feedFile, visits, interrupted)
      /\ Control /\ faults \in 0 .. MaxFaults /\ Analyses /\ Remainder
  BY Parts
<1>2. Holder(t) /\ pc[t] = "reading"
  BY DEF AcceptPage
<1>3. At(t, lock) /\ (faults = 0 => Settled(memory))
  BY <1>2, HolderHas
<1>4. UNCHANGED <<page, loads, crashes, asked, interrupted, visits>>
  BY DEF AcceptPage, KeepPage
<1>. SUFFICES Kept(feedFile')
  <2>1. Remainder'
    BY <1>1, <1>4 DEF Remainder
  <2> QED
    BY <2>1, Together
<1>5. CASE Unreadable(t)
  BY <1>1, <1>2, <1>3, <1>4, <1>5, PauseAndFinishKeeps DEF Unreadable
<1>6. CASE TakenOver(t)
  <2>1. /\ memory' = memory /\ disk' = disk /\ faults' = faults /\ feedFile' = feedFile
        /\ Leave(t, lock, Rest(t, op[t]))
    BY <1>6 DEF TakenOver, KeepMemory, Finish
  <2> QED
    BY <1>1, <1>3, <1>4, <2>1, EnterAndLeave
<1>7. CASE /\ ~Refused(memory, page) /\ ~memory.manual /\ Repeated(memory, page)
           /\ Recheck(t)
  <2> DEFINE m == [memory EXCEPT !.status = "READY"]
  <2>1. Fit(m, disk, feedFile, visits, interrupted)
    BY <1>1, <1>7, RecheckFits DEF Remainder
  <2>2. (Captured(t, m) \/ Raise(t, op[t], lock, m)) /\ feedFile' = feedFile
    BY <1>7 DEF Recheck
  <2> HIDE DEF m
  <2>3. CASE Captured(t, m)
    BY <1>1, <1>2, <1>4, <2>1, <2>2, <2>3, CapturedKeeps
  <2>4. CASE Raise(t, op[t], lock, m)
    BY <1>1, <1>3, <1>4, <2>1, <2>2, <2>4, RaiseEnds
  <2> QED
    BY <2>2, <2>3, <2>4
<1>8. CASE ~Refused(memory, page) /\ ~memory.manual /\ Publish(t)
  <2> DEFINE feed == FeedOf(page, memory.latest)
             m == [memory EXCEPT !.latest = feed, !.status = "READY", !.success = page.stamp]
  <2>1. page \in Page
    BY <1>1 DEF Remainder
  <2>2. feed \in Feed /\ feed.stamp = page.stamp
    BY <2>1, FeedOfIsFeed
  <2> HIDE DEF feed
  <2>3. Fit(m, disk, feed, visits, interrupted)
    BY <1>1, <1>8, <2>1, <2>2, PublishFits
  <2>4. \/ Captured(t, m) /\ feedFile' = feed
        \/ Raise(t, op[t], lock, m) /\ feedFile' = feed
        \/ Raise(t, op[t], lock, memory) /\ feedFile' = feedFile
    BY <1>8 DEF Publish, feed
  <2> HIDE DEF m
  <2>5. CASE Captured(t, m) /\ feedFile' = feed
    BY <1>1, <1>2, <1>4, <2>3, <2>5, CapturedKeeps
  <2>6. CASE Raise(t, op[t], lock, m) /\ feedFile' = feed
    BY <1>1, <1>3, <1>4, <2>3, <2>6, RaiseEnds
  <2>7. CASE Raise(t, op[t], lock, memory) /\ feedFile' = feedFile
    BY <1>1, <1>3, <1>4, <2>7, RaiseEnds
  <2> QED
    BY <2>4, <2>5, <2>6, <2>7
<1> QED
  BY <1>5, <1>6, <1>7, <1>8 DEF AcceptPage

\* The analysis ends, and is settled.
LEMMA AnalysedStep ==
    ASSUME HandoffInductive, NEW t \in Tasks, Analysed(t)
    PROVE  HandoffInductive'
<1>1. /\ Fit(memory, disk, feedFile, visits, interrupted)
      /\ Control /\ faults \in 0 .. MaxFaults /\ Remainder
  BY Parts
<1>2. UNCHANGED <<page, loads, feedFile, crashes, asked, interrupted, visits>> /\ At(t, lock)
  BY DEF Analysed, KeepPage, Keep, KeepFiles, At
<1> DEFINE ok == [memory EXCEPT !.analysis = "complete", !.report = memory.latest]
           failed == [memory EXCEPT !.analysis = "failed"]
<1>3. \A m \in {ok, failed} : Fit(m, disk, feedFile, visits, interrupted) /\ Settled(m)
  <2>1. /\ Fit(ok, disk, feedFile, visits, interrupted) /\ Settled(ok)
        /\ Fit(failed, disk, feedFile, visits, interrupted) /\ Settled(failed)
    BY <1>1, AnalysisFits
  <2> HIDE DEF ok, failed
  <2> QED
    BY <2>1
<1>4. PICK m \in {ok, failed} : (Write(m) /\ Finish(t)) \/ Raise(t, op[t], lock, m)
  BY DEF Analysed
<1> HIDE DEF ok, failed
<1>5. Fit(m, disk, feedFile, visits, interrupted) /\ Settled(m)
  BY <1>3
<1>6. CASE Write(m) /\ Finish(t)
  <2>1. /\ memory' = m /\ disk' = RecordOf(m) /\ faults' = faults
        /\ Leave(t, lock, Rest(t, op[t])) /\ Rest(t, op[t]) \in {"idle", "checked", "dead"}
    BY <1>6 DEF Write, Finish, Rest
  <2>2. Control'
    BY <1>1, <1>2, <2>1, LeaveControl
  <2>3. Fit(m, RecordOf(m), feedFile, visits, interrupted)
    BY <1>5, SaveFits
  <2>4. Analyses'
    BY <1>5, <2>1 DEF Analyses
  <2> QED
    <3>1. Kept(feedFile')
      BY <1>1, <1>2, <2>1, <2>2, <2>3, <2>4 DEF Kept
    <3>2. Remainder'
      BY <1>1, <1>2 DEF Remainder
    <3> QED
      BY <3>1, <3>2, Together
<1>7. CASE Raise(t, op[t], lock, m)
  <2>1. Kept(feedFile')
    BY <1>1, <1>2, <1>5, <1>7, RaiseEnds
  <2>2. Remainder'
    BY <1>1, <1>2 DEF Remainder
  <2> QED
    BY <2>1, <2>2, Together
<1> QED
  BY <1>4, <1>6, <1>7

---------------------------------------------------------------------------
(* The monitor, the process and the world. *)

\* The monitor goes to its other check without touching anything.
LEMMA LookKeeps ==
    ASSUME HandoffInductive, pc[Monitor] \notin Inside, NEW await \in {"idle", "checked"},
           pc' = [pc EXCEPT ![Monitor] = await],
           KeepMemory, UNCHANGED <<lock, op, interrupted, visits>>
    PROVE  Kept(feedFile)
<1>1. /\ Fit(memory, disk, feedFile, visits, interrupted)
      /\ Control /\ faults \in 0 .. MaxFaults /\ Analyses
  BY Parts
<1>2. memory' = memory /\ disk' = disk /\ faults' = faults
  BY DEF KeepMemory
<1>3. Monitor \in Tasks
  BY DEF Tasks
<1>4. pc' \in [Tasks -> Awaits]
  BY <1>1 DEF Control, Awaits
<1>5. pc'[Monitor] = await /\ \A u \in Tasks \ {Monitor} : pc'[u] = pc[u]
  BY <1>1, <1>3 DEF Control
<1>6. Turns'
  BY <1>1, <1>3, <1>5 DEF Control, Turns, Holder, Inside
<1>7. Control'
  BY <1>1, <1>4, <1>6 DEF Control
<1>8. Analyses'
  BY <1>1, <1>2, <1>3, <1>5 DEF Analyses, Inside
<1> QED
  BY <1>1, <1>2, <1>7, <1>8 DEF Kept

\* The monitor asks for a snapshot of a READY session, or does not.
LEMMA MonitorTickStep ==
    ASSUME HandoffInductive, MonitorTick
    PROVE  HandoffInductive'
<1>1. Monitor \in Tasks /\ pc[Monitor] \notin Inside
  BY DEF MonitorTick, Tasks, Inside
<1> SUFFICES Kept(feedFile')
  <2>1. UNCHANGED <<page, loads, crashes, asked>>
    BY DEF MonitorTick, KeepPage, KeepFiles
  <2>2. Remainder'
    BY <2>1, Parts DEF Remainder
  <2> QED
    BY <2>2, Together
<1>2. feedFile' = feedFile
  BY DEF MonitorTick, KeepFiles
<1>3. CASE Arrive(Monitor, "snapshot", memory, disk)
  BY <1>1, <1>2, <1>3, ArriveKeeps DEF Operations
<1>4. CASE /\ pc' = [pc EXCEPT ![Monitor] = "checked"]
           /\ KeepMemory /\ UNCHANGED <<lock, op, interrupted, visits>>
  BY <1>1, <1>2, <1>4, LookKeeps
<1> QED
  BY <1>3, <1>4 DEF MonitorTick

\* The monitor repeats an analysis that failed, or sleeps.
LEMMA MonitorRetryStep ==
    ASSUME HandoffInductive, MonitorRetry
    PROVE  HandoffInductive'
<1>1. Monitor \in Tasks /\ pc[Monitor] \notin Inside
  BY DEF MonitorRetry, Tasks, Inside
<1> SUFFICES Kept(feedFile')
  <2>1. UNCHANGED <<page, loads, crashes, asked>>
    BY DEF MonitorRetry, KeepPage, KeepFiles
  <2>2. Remainder'
    BY <2>1, Parts DEF Remainder
  <2> QED
    BY <2>2, Together
<1>2. feedFile' = feedFile
  BY DEF MonitorRetry, KeepFiles
<1>3. CASE Arrive(Monitor, "analyse", memory, disk)
  BY <1>1, <1>2, <1>3, ArriveKeeps DEF Operations
<1>4. CASE /\ pc' = [pc EXCEPT ![Monitor] = "idle"]
           /\ KeepMemory /\ UNCHANGED <<lock, op, interrupted, visits>>
  BY <1>1, <1>2, <1>4, LookKeeps
<1> QED
  BY <1>3, <1>4 DEF MonitorRetry

\* A process starts paused, and analyses the feed it finds, if it finds one.
LEMMA RestartKeeps ==
    ASSUME HandoffInductive, NEW g \in Feed \cup {None}, Restart(disk, g),
           UNCHANGED <<faults, visits>>
    PROVE  Kept(g)
<1> DEFINE m == Started(disk, g)
           first == UpdateAnalysis(m)
<1>1. Fit(memory, disk, feedFile, visits, interrupted) /\ faults \in 0 .. MaxFaults
  BY Parts
<1>2. Fit(m, RecordOf(m), g, visits, FALSE)
  BY <1>1, StartFits
<1>3. /\ memory' = first[1] /\ disk' = RecordOf(m) /\ interrupted' = FALSE
      /\ lock' = IF first[2] = "idle" THEN <<>> ELSE <<Monitor>>
      /\ pc' = [t \in Tasks |-> IF t = Monitor THEN first[2] ELSE "idle"]
      /\ op' = [t \in Tasks |-> IF t = Monitor /\ first[2] # "idle" THEN "analyse" ELSE "none"]
  BY DEF Restart
<1> HIDE DEF m
<1>4. Fit(first[1], RecordOf(m), g, visits, FALSE)
  BY <1>2, UpdateFits
<1>5. \/ first[2] = "analysing"
      \/ first[2] = "idle" /\ first[1] = m /\ m.latest = None
  BY DEF UpdateAnalysis
<1> HIDE DEF first
<1>6. Monitor \in Tasks
  BY DEF Tasks
<1>7. lock' \in Seq(Tasks) /\ (first[2] = "analysing" => lock' # <<>> /\ Head(lock') = Monitor)
  BY <1>3, <1>6
<1>8. pc' \in [Tasks -> Awaits] /\ op' \in [Tasks -> Operations]
  BY <1>3, <1>5 DEF Awaits, Operations
<1>9. \A t \in Tasks :
        /\ pc'[t] = IF t = Monitor THEN first[2] ELSE "idle"
  BY <1>3
<1>10. \A t \in Tasks : pc'[t] # "lock" /\ (pc'[t] \in Inside => t = Monitor /\ first[2] = "analysing")
  BY <1>5, <1>9 DEF Inside
<1>11. Control'
  BY <1>7, <1>8, <1>10 DEF Control, Turns, Holder
<1>12. Analyses'
  <2>1. CASE first[2] = "analysing"
    BY <1>6, <1>9, <2>1 DEF Analyses
  <2>2. CASE first[1] = m /\ m.latest = None
    BY <1>3, <2>2 DEF Analyses, Settled
  <2> QED
    BY <1>5, <2>1, <2>2
<1> QED
  BY <1>1, <1>3, <1>4, <1>11, <1>12 DEF Kept

\* The process ends between two stretches.
LEMMA CrashStep ==
    ASSUME HandoffInductive, Crash
    PROVE  HandoffInductive'
<1>1. feedFile \in Feed \cup {None} /\ Remainder
  BY Parts DEF Fit
<1>2. /\ crashes < MaxCrashes /\ crashes' = crashes + 1 /\ Restart(disk, feedFile)
      /\ UNCHANGED <<page, loads, feedFile, faults, visits>>
  BY DEF Crash, KeepPage
<1>3. Kept(feedFile)
  BY <1>1, <1>2, RestartKeeps
<1>4. Remainder'
  BY <1>1, <1>2, HandoffAssumption DEF Remainder, Restart
<1> QED
  BY <1>2, <1>3, <1>4, Together

\* The process ends inside a publication.
LEMMA CrashInPublishStep ==
    ASSUME HandoffInductive, NEW t \in Tasks, CrashInPublish(t)
    PROVE  HandoffInductive'
<1>1. Remainder
  BY Parts
<1>2. /\ crashes < MaxCrashes /\ crashes' = crashes + 1 /\ Restart(disk, feedFile')
      /\ feedFile' = FeedOf(page, memory.latest)
      /\ UNCHANGED <<page, loads, faults, visits>>
  BY DEF CrashInPublish, KeepPage
<1>3. page \in Page
  BY <1>1 DEF Remainder
<1>4. feedFile' \in Feed \cup {None}
  BY <1>2, <1>3, FeedOfIsFeed
<1>5. Kept(feedFile')
  BY <1>2, <1>4, RestartKeeps
<1>6. Remainder'
  BY <1>1, <1>2, HandoffAssumption DEF Remainder, Restart
<1> QED
  BY <1>5, <1>6, Together

\* Whatever the human makes the browser show was loaded.
LEMMA BrowseStep ==
    ASSUME HandoffInductive, Browse
    PROVE  HandoffInductive'
<1>1. Remainder
  BY Parts
<1>2. page' \in Page /\ loads' \in 1 .. MaxLoads
  <2>1. CASE \E s \in 1 .. loads, c \in Contents :
                page' = [stamp |-> s, items |-> c] /\ UNCHANGED loads
    <3>1. PICK s \in 1 .. loads, c \in Contents :
                page' = [stamp |-> s, items |-> c] /\ UNCHANGED loads
      BY <2>1
    <3>2. s \in 1 .. MaxLoads
      BY <1>1, HandoffAssumption DEF Remainder
    <3> QED
      BY <1>1, <3>1, <3>2 DEF Page, Remainder
  <2>2. CASE /\ loads < MaxLoads /\ loads' = loads + 1
             /\ \E c \in Contents : page' = [stamp |-> loads + 1, items |-> c]
    <3>1. loads + 1 \in 1 .. MaxLoads
      BY <1>1, <2>2, HandoffAssumption DEF Remainder
    <3> QED
      BY <2>2, <3>1 DEF Page
  <2> QED
    BY <2>1, <2>2 DEF Browse
<1>3. UNCHANGED <<memory, disk, faults, feedFile, crashes, lock, pc, op, asked, interrupted,
                  visits>>
  BY DEF Browse, KeepMemory, KeepFiles
<1>4. Remainder'
  BY <1>1, <1>2, <1>3 DEF Remainder
<1> QED
  BY <1>2, <1>3 DEF HandoffInductive, TypeOK, Turns, Holder, Analyses

\* The interval ends, and the next visit is the first.
LEMMA ElapseStep ==
    ASSUME HandoffInductive, Elapse
    PROVE  HandoffInductive'
<1>1. /\ Fit(memory, disk, feedFile, visits, interrupted)
      /\ Control /\ faults \in 0 .. MaxFaults /\ Analyses /\ Remainder
  BY Parts
<1> DEFINE m == [memory EXCEPT !.due = TRUE]
           d == [disk EXCEPT !.due = TRUE]
<1>2. Fit(m, d, feedFile, 0, interrupted) /\ (Settled(memory) => Settled(m))
  BY <1>1, ElapseFits
<1>3. memory' = m /\ disk' = d /\ visits' = 0
  BY DEF Elapse
<1>4. UNCHANGED <<page, loads, feedFile, crashes, faults, lock, pc, op, asked, interrupted>>
  BY DEF Elapse, KeepPage, KeepFiles
<1> HIDE DEF m, d
<1>5. Control'
  BY <1>1, <1>4, SameControl
<1>6. Analyses'
  BY <1>1, <1>2, <1>3, <1>4 DEF Analyses
<1>7. Kept(feedFile')
  BY <1>1, <1>2, <1>3, <1>4, <1>5, <1>6 DEF Kept
<1>8. Remainder'
  BY <1>1, <1>4 DEF Remainder
<1> QED
  BY <1>7, <1>8, Together

---------------------------------------------------------------------------
(* The theorems. *)

\* The first process starts on an empty directory.
LEMMA InitHolds == Init => HandoffInductive
<1> SUFFICES ASSUME Init PROVE HandoffInductive
  OBVIOUS
<1>1. disk = [success |-> 0, due |-> TRUE, analysis |-> "none", report |-> None]
  BY DEF Init
<1>2. disk \in Record
  BY <1>1, HandoffAssumption DEF Record
<1>3. /\ memory \in Object /\ memory.status = "PAUSED" /\ memory.latest = None
      /\ memory.manual = TRUE
  BY <1>2 DEF Init, Started, Object, Record
<1>4. page \in Page /\ loads \in 1 .. MaxLoads
  BY HandoffAssumption DEF Init, Page
<1>5. /\ feedFile = None /\ lock = <<>> /\ pc = [t \in Tasks |-> "idle"]
      /\ op = [t \in Tasks |-> "none"] /\ faults = 0 /\ crashes = 0 /\ asked = "pause"
      /\ interrupted = FALSE /\ visits = 0
  BY DEF Init
<1>6. TypeOK
  <2>1. lock \in Seq(Tasks) /\ pc \in [Tasks -> Awaits] /\ op \in [Tasks -> Operations]
    BY <1>5 DEF Awaits, Operations
  <2>2. faults \in 0 .. MaxFaults /\ crashes \in 0 .. MaxCrashes
    BY <1>5, HandoffAssumption
  <2> QED
    BY <1>2, <1>3, <1>4, <1>5, <2>1, <2>2 DEF TypeOK
<1>7. Turns
  BY <1>5 DEF Turns, Inside
<1> QED
  BY <1>3, <1>5, <1>6, <1>7 DEF HandoffInductive, Serves, Spaced, Stopped, Analyses, Settled

\* No action breaks the invariant.
LEMMA NextKeeps ==
    ASSUME HandoffInductive, [Next]_vars
    PROVE  HandoffInductive'
<1>1. ASSUME NEW t \in Tasks, Work(t)
      PROVE  HandoffInductive'
  BY <1>1, AcquireStep, ConnectedStep, OpenedStep, NavigatedStep, AcceptPageStep,
     AnalysedStep DEF Work
<1>2. ASSUME NEW t \in Clients, Request(t)
      PROVE  HandoffInductive'
  BY <1>2, OpenBrowserStep, ResumeStep, SnapshotStep DEF Request
<1>3. CASE UNCHANGED vars
  BY <1>3 DEF vars, HandoffInductive, TypeOK, Turns, Holder, Analyses
<1> QED
  BY <1>1, <1>2, <1>3, HumanPauseStep, MonitorTickStep, MonitorRetryStep, CrashStep,
     CrashInPublishStep, BrowseStep, ElapseStep DEF Next

\* In every reachable state of the session, between any two awaits of its handlers and
\* after any failed write or end of the process, the invariant holds.
THEOREM HandoffInductiveHolds == Spec => []HandoffInductive
<1> QED
  BY InitHolds, NextKeeps, PTL DEF Spec

\* READY is never shown of a session that was taken over, that serves nothing, or whose
\* time is not that of the observation in the feed file.
THEOREM ReadyStandsOnTheFeed == Spec => []ReadyIsRecorded
<1>1. HandoffInductive => ReadyIsRecorded
  BY DEF HandoffInductive, Serves, ReadyIsRecorded
<1> QED
  BY <1>1, HandoffInductiveHolds, PTL

\* The source is visited by itself at most once in an interval.
THEOREM OneVisitPerInterval == Spec => []VisitsAreSpaced
<1>1. HandoffInductive => VisitsAreSpaced
  BY DEF HandoffInductive, Spaced, VisitsAreSpaced
<1> QED
  BY <1>1, HandoffInductiveHolds, PTL

\* On a disk that works, no observation stays without an analysis that nobody repeats.
THEOREM NoAnalysisIsLost == Spec => []AnalysisFollowsCapture
<1>1. ASSUME HandoffInductive, ~Running, faults = 0
      PROVE  Settled(memory)
  <2>1. \A t \in Tasks : pc[t] # "analysing"
    BY <1>1 DEF HandoffInductive, Turns, Holder, Running, Inside
  <2> QED
    BY <1>1, <2>1 DEF HandoffInductive, Analyses
<1>2. HandoffInductive => AnalysisFollowsCapture
  BY <1>1 DEF AnalysisFollowsCapture, Settled
<1> QED
  BY <1>2, HandoffInductiveHolds, PTL

---------------------------------------------------------------------------
(* What a step may never do. *)

\* Neither the start of an analysis nor its end is about READY.
LEMMA AnalysisStatus ==
    ASSUME NEW m \in Object
    PROVE  /\ UpdateAnalysis(m)[1].status = m.status
           /\ [m EXCEPT !.analysis = "failed"].status = m.status
           /\ [m EXCEPT !.analysis = "complete", !.report = m.latest].status = m.status
<1>1. [m EXCEPT !.analysis = "running"].status = m.status
  BY DEF Object
<1> QED
  BY <1>1 DEF UpdateAnalysis, Object

\* A handler that fails is not READY unless what it had made was.
LEMMA RaiseStatus ==
    ASSUME NEW t, NEW o, NEW q, NEW m \in Object, Raise(t, o, q, m),
           memory'.status = "READY"
    PROVE  m.status = "READY"
<1>1. Paused(m, "NEEDS_HUMAN").status = "NEEDS_HUMAN"
  BY DEF Paused, Object
<1> QED
  BY <1>1 DEF Raise, WriteFails

\* Nor is one that pauses at its end.
LEMMA PauseAndFinishStatus ==
    ASSUME NEW t, NEW m \in Object, NEW s \in {"PAUSED", "NEEDS_HUMAN"},
           PauseAndFinish(t, m, s)
    PROVE  memory'.status # "READY"
<1> DEFINE n == Paused(m, s)
<1>1. n \in Object /\ n.status = s
  BY DEF Paused, Object
<1> HIDE DEF n
<1>2. CASE Write(n)
  BY <1>1, <1>2 DEF Write
<1>3. CASE Raise(t, op[t], lock, n)
  BY <1>1, <1>3, RaiseStatus
<1> QED
  BY <1>2, <1>3 DEF PauseAndFinish, n

\* Entering the lock makes nothing READY.
LEMMA EnterStatus ==
    ASSUME NEW t, NEW o \in Operations \ {"none"}, NEW q, NEW m \in Object, NEW d,
           Enter(t, o, q, m, d), memory'.status = "READY"
    PROVE  m.status = "READY"
<1> DEFINE object == Entered(m, o)[1]
           resumed == [m EXCEPT !.manual = FALSE]
           attempted == [m EXCEPT !.due = FALSE]
           running == [m EXCEPT !.analysis = "running"]
<1>0. object \in {m, resumed, attempted, running}
  BY EnteredCases
<1>1. object \in Object /\ object.status = m.status
  <2>1. resumed \in Object /\ resumed.status = m.status
    BY DEF Object
  <2>2. attempted \in Object /\ attempted.status = m.status
    BY DEF Object
  <2>3. running \in Object /\ running.status = m.status
    BY DEF Object
  <2> HIDE DEF object, resumed, attempted, running
  <2> QED
    BY <1>0, <2>1, <2>2, <2>3
<1> HIDE DEF object
<1>2. memory' = object \/ Raise(t, o, q, object)
  BY DEF Enter, Write, object
<1>3. CASE memory' = object
  BY <1>1, <1>3
<1>4. CASE Raise(t, o, q, object)
  BY <1>1, <1>4, RaiseStatus
<1> QED
  BY <1>2, <1>3, <1>4

\* The steps that neither publish nor make the session READY.
Calm == feedFile' = feedFile /\ (memory'.status = "READY" => memory.status = "READY")

\* A request makes nothing READY when it arrives.
LEMMA RequestIsCalm ==
    ASSUME HandoffInductive, NEW t \in Clients, Request(t)
    PROVE  Calm
<1> DEFINE n == Paused(memory, "PAUSED")
<1>1. memory \in Object
  BY DEF HandoffInductive, TypeOK
<1>2. n \in Object /\ n.status = "PAUSED"
  BY <1>1 DEF Paused, Object
<1> HIDE DEF n
<1>3. ASSUME NEW o \in {"open", "initialize"}, OpenBrowser(t, o)
      PROVE  Calm
  <2>1. feedFile' = feedFile
    BY <1>3 DEF OpenBrowser, KeepFiles
  <2>2. o \in Operations \ {"none"}
    BY DEF Operations
  <2>3. memory' = n \/ Enter(t, o, <<t>>, n, RecordOf(n))
    BY <1>3 DEF OpenBrowser, Write, WriteFails, n
  <2> QED
    BY <1>2, <2>1, <2>2, <2>3, EnterStatus DEF Calm
<1>4. ASSUME NEW o \in {"resume", "snapshot"}, Arrive(t, o, memory, disk), KeepFiles
      PROVE  Calm
  <2>1. o \in Operations \ {"none"}
    BY DEF Operations
  <2>2. memory' = memory \/ Enter(t, o, <<t>>, memory, disk)
    BY <1>4 DEF Arrive
  <2> QED
    BY <1>1, <1>4, <2>1, <2>2, EnterStatus DEF Calm, KeepFiles
<1> QED
  BY <1>3, <1>4 DEF Request, Resume, Snapshot

\* The monitor publishes only through the snapshots it asks for.
LEMMA MonitorIsCalm ==
    ASSUME HandoffInductive, MonitorTick \/ MonitorRetry
    PROVE  Calm
<1>1. memory \in Object
  BY DEF HandoffInductive, TypeOK
<1>2. feedFile' = feedFile
  BY DEF MonitorTick, MonitorRetry, KeepFiles
<1>3. \/ memory' = memory
      \/ Arrive(Monitor, "snapshot", memory, disk)
      \/ Arrive(Monitor, "analyse", memory, disk)
  BY DEF MonitorTick, MonitorRetry, KeepMemory
<1>4. ASSUME NEW o \in {"snapshot", "analyse"}, Arrive(Monitor, o, memory, disk)
      PROVE  memory'.status = "READY" => memory.status = "READY"
  <2>1. o \in Operations \ {"none"}
    BY DEF Operations
  <2>2. memory' = memory \/ Enter(Monitor, o, <<Monitor>>, memory, disk)
    BY <1>4 DEF Arrive
  <2> QED
    BY <1>1, <2>1, <2>2, EnterStatus
<1> QED
  BY <1>2, <1>3, <1>4 DEF Calm

\* Of the stretches of a working task only accept_page() is not calm.
LEMMA WorkIsCalm ==
    ASSUME HandoffInductive, NEW t \in Tasks, Work(t), ~AcceptPage(t)
    PROVE  Calm
<1>1. memory \in Object
  BY DEF HandoffInductive, TypeOK
<1>2. CASE Acquire(t)
  <2>1. op[t] \in Operations \ {"none"}
    BY <1>2 DEF Acquire, HandoffInductive, TypeOK, Turns
  <2> QED
    BY <1>1, <1>2, <2>1, EnterStatus DEF Acquire, KeepFiles, Calm
<1>3. CASE Connected(t)
  <2>1. feedFile' = feedFile
    BY <1>3 DEF Connected, Keep, KeepFiles
  <2>2. \/ \E s \in {"PAUSED", "NEEDS_HUMAN"} : PauseAndFinish(t, memory, s)
        \/ memory' = memory
        \/ Raise(t, op[t], lock, memory)
    BY <1>3 DEF Connected, Write
  <2> QED
    BY <1>1, <2>1, <2>2, PauseAndFinishStatus, RaiseStatus DEF Calm
<1>4. CASE Opened(t)
  BY <1>1, <1>4, PauseAndFinishStatus DEF Opened, Keep, KeepFiles, Calm
<1>5. CASE Navigated(t)
  BY <1>1, <1>5, PauseAndFinishStatus DEF Navigated, Keep, KeepFiles, KeepMemory, Calm
<1>6. CASE Analysed(t)
  <2> DEFINE ok == [memory EXCEPT !.analysis = "complete", !.report = memory.latest]
             failed == [memory EXCEPT !.analysis = "failed"]
  <2>1. PICK m \in {ok, failed} : memory' = m \/ Raise(t, op[t], lock, m)
    BY <1>6 DEF Analysed, Write
  <2>2. ok.status = memory.status /\ failed.status = memory.status
    BY <1>1, AnalysisStatus
  <2>3. ok \in Object /\ failed \in Object
    BY <1>1 DEF Object
  <2>4. feedFile' = feedFile
    BY <1>6 DEF Analysed, Keep, KeepFiles
  <2> HIDE DEF ok, failed
  <2>5. m \in Object /\ m.status = memory.status
    BY <2>2, <2>3
  <2> QED
    BY <2>1, <2>4, <2>5, RaiseStatus DEF Calm
<1> QED
  BY <1>2, <1>3, <1>4, <1>5, <1>6 DEF Work

\* A pause, the end of the process, the human's browsing and the clock are calm.
LEMMA WorldIsCalm ==
    ASSUME HandoffInductive, HumanPause \/ Crash \/ Browse \/ Elapse
    PROVE  Calm
<1>1. memory \in Object
  BY DEF HandoffInductive, TypeOK
<1>2. CASE HumanPause
  <2>1. Paused(memory, "PAUSED").status = "PAUSED"
    BY <1>1 DEF Paused, Object
  <2> QED
    BY <1>2, <2>1 DEF HumanPause, Write, WriteFails, KeepFiles, Calm
<1>3. CASE Crash
  <2> DEFINE m == Started(disk, feedFile)
  <2>1. m \in Object /\ m.status = "PAUSED"
    BY DEF HandoffInductive, TypeOK, Started, Object, Record
  <2>2. memory' = UpdateAnalysis(m)[1] /\ feedFile' = feedFile
    BY <1>3 DEF Crash, Restart
  <2> HIDE DEF m
  <2> QED
    BY <2>1, <2>2, AnalysisStatus DEF Calm
<1>4. CASE Browse
  BY <1>4 DEF Browse, KeepMemory, KeepFiles, Calm
<1>5. CASE Elapse
  BY <1>1, <1>5 DEF Elapse, KeepFiles, Calm, Object
<1> QED
  BY <1>2, <1>3, <1>4, <1>5

\* So only a page that is accepted publishes or makes the session READY, and a feed that
\* changes is what prepare() makes of a younger document.
LEMMA Publications ==
    ASSUME HandoffInductive, [Next]_vars, ~Calm
    PROVE  /\ ~memory.manual
           /\ feedFile' # feedFile =>
                /\ Newer(page, memory.latest)
                /\ feedFile' = FeedOf(page, memory.latest)
<1>1. memory \in Object
  BY DEF HandoffInductive, TypeOK
<1>2. UNCHANGED vars => Calm
  BY DEF vars, Calm
<1>3. \/ \E t \in Tasks : AcceptPage(t)
      \/ \E t \in Tasks : CrashInPublish(t)
  BY <1>2, RequestIsCalm, MonitorIsCalm, WorkIsCalm, WorldIsCalm DEF Next
<1>4. ASSUME NEW t \in Tasks, AcceptPage(t)
      PROVE  /\ ~memory.manual
             /\ feedFile' # feedFile =>
                  /\ Newer(page, memory.latest)
                  /\ feedFile' = FeedOf(page, memory.latest)
  <2>1. CASE Unreadable(t)
    <3>1. Calm
      BY <1>1, <2>1, PauseAndFinishStatus DEF Unreadable, Calm
    <3> QED
      BY <3>1
  <2>2. CASE TakenOver(t)
    <3>1. Calm
      BY <2>2 DEF TakenOver, KeepMemory, Calm
    <3> QED
      BY <3>1
  <2>3. CASE ~memory.manual /\ Recheck(t)
    BY <2>3 DEF Recheck
  <2>4. CASE /\ ~Refused(memory, page) /\ ~memory.manual /\ ~Repeated(memory, page)
             /\ Publish(t)
    <3>1. feedFile' # feedFile => feedFile' = FeedOf(page, memory.latest)
      BY <2>4 DEF Publish
    <3> QED
      BY <2>4, <3>1, AcceptedIsNewer
  <2> QED
    BY <1>4, <2>1, <2>2, <2>3, <2>4 DEF AcceptPage
<1>5. ASSUME NEW t \in Tasks, CrashInPublish(t)
      PROVE  /\ ~memory.manual /\ Newer(page, memory.latest)
             /\ feedFile' = FeedOf(page, memory.latest)
  BY <1>5, AcceptedIsNewer DEF CrashInPublish
<1> QED
  BY <1>3, <1>4, <1>5

\* A pause that comes while a page is read or visited stops the capture: no interrupted
\* capture replaces the observation or makes the session READY.
THEOREM PausedCapturesPublishNothing == Spec => PauseStopsCapture
<1> DEFINE A == (feedFile' # feedFile \/ (memory.status # "READY" /\ memory'.status = "READY"))
                    => ~interrupted
<1>1. ASSUME HandoffInductive, [Next]_vars
      PROVE  [A]_vars
  BY <1>1, Publications DEF Calm, HandoffInductive, Stopped
<1>2. Spec => [][A]_vars
  BY <1>1, HandoffInductiveHolds, PTL DEF Spec
<1> QED
  BY <1>2 DEF PauseStopsCapture

\* What is published is relative to what it replaces on disk.
THEOREM FeedsAreRelative == Spec => ChangesAreRelative
<1> DEFINE A == feedFile' # feedFile =>
                    /\ feedFile'.changes = Changes(feedFile'.items, feedFile)
                    /\ Newer(feedFile', feedFile)
<1>1. ASSUME HandoffInductive, [Next]_vars
      PROVE  [A]_vars
  <2>1. memory.latest = feedFile /\ page \in Page
    BY <1>1 DEF HandoffInductive, Serves, TypeOK
  <2>2. ASSUME feedFile' # feedFile
        PROVE  /\ feedFile'.changes = Changes(feedFile'.items, feedFile)
               /\ Newer(feedFile', feedFile)
    <3>1. Newer(page, feedFile) /\ feedFile' = FeedOf(page, feedFile)
      BY <1>1, <2>1, <2>2, Publications DEF Calm
    <3>2. /\ feedFile'.stamp = page.stamp /\ feedFile'.items = page.items
          /\ feedFile'.changes = Changes(page.items, feedFile)
      BY <2>1, <3>1, FeedOfIsFeed
    <3> QED
      BY <3>1, <3>2 DEF Newer
  <2> QED
    BY <2>2
<1>2. Spec => [][A]_vars
  BY <1>1, HandoffInductiveHolds, PTL DEF Spec
<1> QED
  BY <1>2 DEF ChangesAreRelative

=============================================================================
