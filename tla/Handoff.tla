------------------------------ MODULE Handoff ------------------------------
(***************************************************************************)
(* The human-gated browser session of scripts/browser_handoff.py: one      *)
(* Handoff object, one asyncio lock, the HTTP handlers that call it, the   *)
(* monitor task that checks the page when it is due, and the human who     *)
(* pauses, resumes and uses the same browser.                              *)
(*                                                                         *)
(* Everything between two awaits runs without interruption, so one action  *)
(* is one such stretch of a handler.  A handler that finds the lock free   *)
(* enters it in the stretch in which it arrives; the others queue, first   *)
(* come first served, and enter later.                                     *)
(***************************************************************************)
EXTENDS Integers, Sequences, FiniteSets

CONSTANTS
    Clients,        \* the HTTP requests that can be in progress at once
    Monitor,        \* the background task of the application's lifespan
    Listings,       \* listing identifiers
    Contents,       \* what a page may show: functions from listings to prices
    None,           \* no observation
    MaxLoads,       \* bound: page loads whose time origins are told apart
    MaxFaults,      \* bound: writes of the state directory that fail
    MaxCrashes      \* bound: ends of the process

ASSUME HandoffAssumption ==
    /\ Monitor \notin Clients
    /\ \A c \in Contents : DOMAIN c \in (SUBSET Listings) \ {{}} /\ \A l \in DOMAIN c : c[l] \in Nat
    /\ MaxLoads \in Nat \ {0} /\ MaxFaults \in Nat /\ MaxCrashes \in Nat

Tasks == Clients \cup {Monitor}

VARIABLES
    page,       \* the browser's document: its time origin and its cards
    loads,      \* documents loaded so far
    memory,     \* the Handoff object
    disk,       \* status.json
    feedFile,   \* latest.canonical.json
    lock,       \* the tasks that hold (first) or await the asyncio lock
    pc,         \* the await each task is suspended in
    op,         \* the operation each task runs
    faults, crashes,
    \* What the properties remember.
    asked,          \* the human's last word
    interrupted,    \* it was a pause and the holder of the lock was at work
    visits          \* automatic visits of the source in this interval

vars == <<page, loads, memory, disk, feedFile, lock, pc, op, faults, crashes,
          asked, interrupted, visits>>

Operations == {"none", "open", "initialize", "resume", "snapshot", "analyse"}
Awaits == {"idle", "lock", "connecting", "opening", "navigating", "reading", "analysing",
           "checked", "dead"}
Events == {"FIRST_SEEN", "DECREASED", "INCREASED", "UNCHANGED"}
Page == [stamp : 1 .. MaxLoads, items : Contents]
Feed == [stamp : 1 .. MaxLoads, items : Contents,
         changes : UNION {[S -> Events] : S \in SUBSET Listings}]
Record == [success : 0 .. MaxLoads, due : BOOLEAN,
           analysis : {"none", "running", "complete", "failed"}, report : Feed \cup {None}]
Object == [success : 0 .. MaxLoads, due : BOOLEAN,
           analysis : {"none", "running", "complete", "failed"}, report : Feed \cup {None},
           status : {"PAUSED", "NEEDS_HUMAN", "READY"}, manual : BOOLEAN,
           latest : Feed \cup {None}]

ASSUME NoneAssumption == None \notin Feed       \* no observation is not an observation

\* What save() writes.  The status is written too; a restart never uses it.
RecordOf(m) == [success |-> m.success, due |-> m.due,
                analysis |-> m.analysis, report |-> m.report]

\* Mutant: the feed file is not read back.
StartedBlank(record, feed) ==
    [success |-> record.success, due |-> record.due,
     analysis |-> record.analysis, report |-> record.report,
     status |-> "PAUSED", manual |-> TRUE, latest |-> None]

\* The object a starting process builds from the two files: paused, whatever it was before.
Started(record, feed) ==
    [success |-> record.success, due |-> record.due,
     analysis |-> record.analysis, report |-> record.report,
     status |-> "PAUSED", manual |-> TRUE, latest |-> feed]

Paused(m, status) == [m EXCEPT !.manual = TRUE, !.status = status]

Ready(m) == m.status = "READY" /\ ~m.manual

---------------------------------------------------------------------------
(* prepare(): what an observation says against the one before it. *)

\* A listing of the last observation may only be seen again on a younger document.
Newer(doc, previous) ==
    previous # None =>
        \A l \in DOMAIN doc.items \cap DOMAIN previous.items : doc.stamp > previous.stamp

ChangeOf(l, items, previous) ==
    IF previous = None \/ l \notin DOMAIN previous.items THEN "FIRST_SEEN"
    ELSE IF items[l] < previous.items[l] THEN "DECREASED"
    ELSE IF items[l] > previous.items[l] THEN "INCREASED"
    ELSE "UNCHANGED"

Changes(items, previous) == [l \in DOMAIN items |-> ChangeOf(l, items, previous)]

\* Mutant: observations are numbered from zero, not dated.
FeedNumbered(doc, previous) ==
    [stamp |-> IF previous = None THEN 0 ELSE previous.stamp + 1,
     items |-> doc.items, changes |-> Changes(doc.items, previous)]

FeedOf(doc, previous) ==
    [stamp |-> doc.stamp, items |-> doc.items, changes |-> Changes(doc.items, previous)]

\* The document is the one the last success was read from.
Repeated(m, doc) == m.latest # None /\ doc.stamp = m.success

\* Mutant: the cards are compared without their observation time.
SameCards(m, doc) == doc.items = m.latest.items

\* Its cards, each with its observation time, are still those that were recorded.
SameItems(m, doc) == doc.items = m.latest.items /\ doc.stamp = m.latest.stamp

---------------------------------------------------------------------------
(* Storage: save() writes status.json, or raises OSError. *)

Write(m) == memory' = m /\ disk' = RecordOf(m) /\ UNCHANGED faults

WriteFails(m, n) ==
    faults + n <= MaxFaults /\ faults' = faults + n /\ memory' = m /\ UNCHANGED disk

KeepMemory == UNCHANGED <<memory, disk, faults>>
KeepFiles == UNCHANGED <<feedFile, crashes>>
KeepPage == UNCHANGED <<page, loads>>

---------------------------------------------------------------------------
(* The lock and the life of a request.  q is the lock's queue with t at its *)
(* head: the lock itself, or <<t>> for a task that arrives at a free lock.  *)

Holder(t) == lock # <<>> /\ Head(lock) = t

Suspend(t, o, q, await) ==
    /\ lock' = q
    /\ op' = [op EXCEPT ![t] = o]
    /\ pc' = [pc EXCEPT ![t] = await]

\* Mutant: the lock is not released.
LeaveLocked(t, q, await) ==
    /\ lock' = q
    /\ op' = [op EXCEPT ![t] = "none"]
    /\ pc' = [pc EXCEPT ![t] = await]

Leave(t, q, await) ==
    /\ lock' = Tail(q)
    /\ op' = [op EXCEPT ![t] = "none"]
    /\ pc' = [pc EXCEPT ![t] = await]

\* The holder goes on to another await.
Continue(t, await) == Suspend(t, op[t], lock, await)

\* The handler returns, or raises what its caller expects; after its snapshot
\* the monitor goes on to its second check.
Rest(t, o) == IF t = Monitor /\ o = "snapshot" THEN "checked" ELSE "idle"

Finish(t) == Leave(t, lock, Rest(t, op[t]))

\* An OSError leaves the handler with the object m.  A client gets a 500; the
\* monitor pauses after a failed snapshot, and catches nothing anywhere else.
Raise(t, o, q, m) ==
    IF t = Monitor /\ o = "snapshot"
    THEN LET n == Paused(m, "NEEDS_HUMAN") IN
         \/ /\ faults < MaxFaults /\ faults' = faults + 1
            /\ memory' = n /\ disk' = RecordOf(n)
            /\ Leave(t, q, "checked")
         \/ WriteFails(n, 2) /\ Leave(t, q, "dead")
    ELSE WriteFails(m, 1) /\ Leave(t, q, IF t = Monitor THEN "dead" ELSE "idle")

\* pause() as the last thing a handler does.
PauseAndFinish(t, m, status) ==
    \/ Write(Paused(m, status)) /\ Finish(t)
    \/ Raise(t, op[t], lock, Paused(m, status))

---------------------------------------------------------------------------
(* The first stretch of each operation under the lock: what it makes of    *)
(* the object m, and the await it reaches ("idle": it is over).            *)

EnterOpen(m) == <<m, "connecting">>

EnterResume(m) == <<[m EXCEPT !.manual = FALSE], "reading">>

\* Mutant: the visit is not recorded as an attempt.
EnterSnapshotUnrecorded(m) ==
    IF Ready(m) /\ m.due THEN <<m, "navigating">> ELSE <<m, "idle">>

EnterSnapshot(m) ==
    IF Ready(m) /\ m.due THEN <<[m EXCEPT !.due = FALSE], "navigating">> ELSE <<m, "idle">>

UpdateAnalysis(m) ==
    IF m.latest = None THEN <<m, "idle">> ELSE <<[m EXCEPT !.analysis = "running"], "analysing">>

Entered(m, o) ==
    CASE o \in {"open", "initialize"} -> EnterOpen(m)
      [] o = "resume" -> EnterResume(m)
      [] o = "snapshot" -> EnterSnapshot(m)
      [] o = "analyse" -> UpdateAnalysis(m)

\* Task t enters the lock at the head of q with the object m and the file d.
Enter(t, o, q, m, d) ==
    LET entered == Entered(m, o)
        object == entered[1]
        await == entered[2] IN
    \/ /\ await = "idle" \/ o = "open"      \* 429: it was opened within the last minute
       /\ memory' = object /\ disk' = d
       /\ Leave(t, q, Rest(t, o))
       /\ UNCHANGED <<faults, interrupted, visits>>
    \/ /\ await \in {"connecting", "reading", "analysing"}
       /\ memory' = object /\ disk' = d
       /\ Suspend(t, o, q, await)
       /\ interrupted' = FALSE
       /\ UNCHANGED <<faults, visits>>
    \/ /\ await = "navigating"
       /\ Write(object)
       /\ Suspend(t, o, q, await)
       /\ interrupted' = FALSE /\ visits' = visits + 1
    \/ /\ await = "navigating"
       /\ Raise(t, o, q, object)
       /\ UNCHANGED <<interrupted, visits>>

\* The holder of the lock is at work, and not only woken.
Running == lock # <<>> /\ pc[Head(lock)] # "lock"

\* A call reaches the lock: it enters a free one at once and queues at a taken one.
Arrive(t, o, m, d) ==
    \/ lock = <<>> /\ Enter(t, o, <<t>>, m, d)
    \/ /\ lock # <<>>
       /\ memory' = m /\ disk' = d
       /\ Suspend(t, o, Append(lock, t), "lock")
       /\ UNCHANGED <<faults, interrupted, visits>>

---------------------------------------------------------------------------
(* Requests. *)

\* POST /action/pause takes no lock, and holds in memory even when the save fails.
HumanPause ==
    /\ \/ Write(Paused(memory, "PAUSED"))
       \/ WriteFails(Paused(memory, "PAUSED"), 1)
    /\ asked' = "pause" /\ interrupted' = Running
    /\ KeepPage /\ KeepFiles /\ UNCHANGED <<lock, pc, op, visits>>

\* POST /action/open and /action/initialize pause first, then take the lock.
OpenBrowser(t, o) ==
    LET m == Paused(memory, "PAUSED") IN
    /\ pc[t] = "idle" /\ o \in {"open", "initialize"}
    /\ \/ lock = <<>> /\ Enter(t, o, <<t>>, m, RecordOf(m))
       \/ /\ lock # <<>>
          /\ Write(m)
          /\ Suspend(t, o, Append(lock, t), "lock")
          /\ interrupted' = Running /\ UNCHANGED visits
       \/ /\ WriteFails(m, 1)
          /\ interrupted' = Running /\ UNCHANGED <<lock, pc, op, visits>>
    /\ asked' = "pause"
    /\ KeepPage /\ KeepFiles

\* Mutant: the takeover ends when the click arrives, not when its turn comes.
ResumeAtOnce(t) ==
    /\ pc[t] = "idle"
    /\ Arrive(t, "resume", [memory EXCEPT !.manual = FALSE], disk)
    /\ asked' = "resume"
    /\ KeepPage /\ KeepFiles

Resume(t) ==
    /\ pc[t] = "idle"
    /\ Arrive(t, "resume", memory, disk)
    /\ asked' = "resume"
    /\ KeepPage /\ KeepFiles

Snapshot(t) ==
    /\ pc[t] = "idle"
    /\ Arrive(t, "snapshot", memory, disk)
    /\ KeepPage /\ KeepFiles /\ UNCHANGED asked

\* The lock is handed to the first in the queue, which goes on with what it finds.
Acquire(t) ==
    /\ Holder(t) /\ pc[t] = "lock"
    /\ Enter(t, op[t], lock, memory, disk)
    /\ KeepPage /\ KeepFiles /\ UNCHANGED asked

---------------------------------------------------------------------------
(* What the human's open and initialize do under the lock. *)

Keep == KeepFiles /\ UNCHANGED <<asked, interrupted, visits>>

\* browser.initialize() answers.
Connected(t) ==
    /\ Holder(t) /\ pc[t] = "connecting"
    /\ \/ PauseAndFinish(t, memory, "NEEDS_HUMAN")       \* BrowserUnavailable
       \/ op[t] = "initialize" /\ PauseAndFinish(t, memory, "PAUSED")
       \/ /\ op[t] = "open"
          /\ Write(memory) /\ Continue(t, "opening")
       \/ Raise(t, op[t], lock, memory)    \* webdriver.json or status.json is not written
    /\ KeepPage /\ Keep

\* A navigation loads a new document, or fails.
Navigate ==
    \/ /\ loads < MaxLoads
       /\ loads' = loads + 1
       /\ \E c \in Contents : page' = [stamp |-> loads + 1, items |-> c]
    \/ KeepPage

\* navigate() and evidence() of open_browser: readable or not, the human decides.
Opened(t) ==
    /\ Holder(t) /\ pc[t] = "opening"
    /\ Navigate
    /\ PauseAndFinish(t, memory, "NEEDS_HUMAN")
    /\ Keep

---------------------------------------------------------------------------
(* A capture: navigation, the page's evidence, the feed, its analysis. *)

\* browser.navigate() of snapshot() answers.
Navigated(t) ==
    /\ Holder(t) /\ pc[t] = "navigating"
    /\ Navigate
    /\ \/ KeepMemory /\ Continue(t, "reading")
       \/ PauseAndFinish(t, memory, "NEEDS_HUMAN")
    /\ Keep

\* accept_page() refuses the page: a challenge, another page, too few cards, a
\* document older than an hour, cards that do not parse, an observation that is
\* not newer, changed cards on a recorded document; or the browser is gone.
Unreadable(t) == PauseAndFinish(t, memory, "NEEDS_HUMAN") /\ UNCHANGED feedFile

Refused(m, doc) ==
    IF Repeated(m, doc) THEN ~m.manual /\ ~SameItems(m, doc) ELSE ~Newer(doc, m.latest)

\* The human took over while the page was read: nothing is published.
TakenOver(t) == memory.manual /\ KeepMemory /\ Finish(t) /\ UNCHANGED feedFile

\* The resume's attempt counts from here; both callers go on to the analysis.
Captured(t, m) ==
    LET attempt == IF op[t] = "resume" THEN [m EXCEPT !.due = FALSE] ELSE m IN
    /\ memory' = UpdateAnalysis(attempt)[1]
    /\ disk' = RecordOf(m)
    /\ Continue(t, "analysing")
    /\ UNCHANGED faults

\* The recorded document was read again.
Recheck(t) ==
    LET m == [memory EXCEPT !.status = "READY"] IN
    /\ Captured(t, m) \/ Raise(t, op[t], lock, m)
    /\ UNCHANGED feedFile

\* Four writes: raw and canonical observation, the feed, the status.
Publish(t) ==
    LET feed == FeedOf(page, memory.latest)
        m == [memory EXCEPT !.latest = feed, !.status = "READY", !.success = page.stamp] IN
    \/ Captured(t, m) /\ feedFile' = feed
    \/ Raise(t, op[t], lock, m) /\ feedFile' = feed
    \/ Raise(t, op[t], lock, memory) /\ UNCHANGED feedFile

AcceptPage(t) ==
    /\ Holder(t) /\ pc[t] = "reading"
    /\ \/ Unreadable(t)
       \/ ~Refused(memory, page) /\ TakenOver(t)
       \/ /\ ~Refused(memory, page) /\ ~memory.manual
          /\ IF Repeated(memory, page) THEN Recheck(t) ELSE Publish(t)
    /\ KeepPage /\ UNCHANGED <<crashes, asked, interrupted, visits>>

\* The analyser's thread is done with the feed, well or not.
Analysed(t) ==
    /\ Holder(t) /\ pc[t] = "analysing"
    /\ \E m \in {[memory EXCEPT !.analysis = "complete", !.report = memory.latest],
                 [memory EXCEPT !.analysis = "failed"]} :
        \/ Write(m) /\ Finish(t)
        \/ Raise(t, op[t], lock, m)
    /\ KeepPage /\ Keep

---------------------------------------------------------------------------
(* The monitor task. *)

\* Mutant: no check before the last observation has been analysed.
MonitorTickAnalysed ==
    /\ pc[Monitor] = "idle"
    /\ IF Ready(memory) /\ memory.analysis = "complete"
       THEN Arrive(Monitor, "snapshot", memory, disk)
       ELSE /\ pc' = [pc EXCEPT ![Monitor] = "checked"]
            /\ KeepMemory /\ UNCHANGED <<lock, op, interrupted, visits>>
    /\ KeepPage /\ KeepFiles /\ UNCHANGED asked

\* Once a minute: a snapshot if the session is ready, then the second check.
MonitorTick ==
    /\ pc[Monitor] = "idle"
    /\ IF Ready(memory)
       THEN Arrive(Monitor, "snapshot", memory, disk)
       ELSE /\ pc' = [pc EXCEPT ![Monitor] = "checked"]
            /\ KeepMemory /\ UNCHANGED <<lock, op, interrupted, visits>>
    /\ KeepPage /\ KeepFiles /\ UNCHANGED asked

\* Mutant: only a READY session repeats its analysis.
MonitorRetryReady ==
    /\ pc[Monitor] = "checked"
    /\ IF Ready(memory) /\ memory.latest # None /\ memory.analysis = "failed"
       THEN Arrive(Monitor, "analyse", memory, disk)
       ELSE /\ pc' = [pc EXCEPT ![Monitor] = "idle"]
            /\ KeepMemory /\ UNCHANGED <<lock, op, interrupted, visits>>
    /\ KeepPage /\ KeepFiles /\ UNCHANGED asked

\* An analysis that failed is repeated without visiting the source.
MonitorRetry ==
    /\ pc[Monitor] = "checked"
    /\ IF memory.latest # None /\ memory.analysis = "failed"
       THEN Arrive(Monitor, "analyse", memory, disk)
       ELSE /\ pc' = [pc EXCEPT ![Monitor] = "idle"]
            /\ KeepMemory /\ UNCHANGED <<lock, op, interrupted, visits>>
    /\ KeepPage /\ KeepFiles /\ UNCHANGED asked

---------------------------------------------------------------------------
(* The process. *)

\* Mutant: the monitor begins with its sleep.
RestartUnanalysed(record, feed) ==
    LET m == Started(record, feed) IN
    /\ memory' = m /\ disk' = RecordOf(m)
    /\ lock' = <<>>
    /\ pc' = [t \in Tasks |-> "idle"] /\ op' = [t \in Tasks |-> "none"]
    /\ asked' = "pause" /\ interrupted' = FALSE

\* A process starts from what the files hold; the monitor's first act, before any
\* request, is to analyse the feed it finds.
Restart(record, feed) ==
    LET m == Started(record, feed)
        first == UpdateAnalysis(m) IN
    /\ memory' = first[1]
    /\ disk' = RecordOf(m)
    /\ lock' = IF first[2] = "idle" THEN <<>> ELSE <<Monitor>>
    /\ pc' = [t \in Tasks |-> IF t = Monitor THEN first[2] ELSE "idle"]
    /\ op' = [t \in Tasks |-> IF t = Monitor /\ first[2] # "idle" THEN "analyse" ELSE "none"]
    /\ asked' = "pause" /\ interrupted' = FALSE

Crash ==
    /\ crashes < MaxCrashes /\ crashes' = crashes + 1
    /\ Restart(disk, feedFile)
    /\ KeepPage /\ UNCHANGED <<feedFile, faults, visits>>

\* The process ends inside a publication, after the feed and before the status.
CrashInPublish(t) ==
    /\ Holder(t) /\ pc[t] = "reading"
    /\ ~Refused(memory, page) /\ ~memory.manual /\ ~Repeated(memory, page)
    /\ crashes < MaxCrashes /\ crashes' = crashes + 1
    /\ feedFile' = FeedOf(page, memory.latest)
    /\ Restart(disk, feedFile')
    /\ KeepPage /\ UNCHANGED <<faults, visits>>

---------------------------------------------------------------------------
(* The world. *)

\* The human reloads, goes back to an earlier document, or the page's script
\* changes its cards.
Browse ==
    /\ \/ \E s \in 1 .. loads, c \in Contents :
            page' = [stamp |-> s, items |-> c] /\ UNCHANGED loads
       \/ /\ loads < MaxLoads /\ loads' = loads + 1
          /\ \E c \in Contents : page' = [stamp |-> loads + 1, items |-> c]
    /\ KeepMemory /\ KeepFiles
    /\ UNCHANGED <<lock, pc, op, asked, interrupted, visits>>

\* The interval since the last attempt is over.
Elapse ==
    /\ ~memory.due
    /\ memory' = [memory EXCEPT !.due = TRUE]
    /\ disk' = [disk EXCEPT !.due = TRUE]
    /\ visits' = 0
    /\ KeepPage /\ KeepFiles /\ UNCHANGED <<faults, lock, pc, op, asked, interrupted>>

---------------------------------------------------------------------------
Init ==
    /\ \E c \in Contents : page = [stamp |-> 1, items |-> c]
    /\ loads = 1
    /\ disk = [success |-> 0, due |-> TRUE, analysis |-> "none",
               report |-> None]
    /\ memory = Started(disk, None)
    /\ feedFile = None
    /\ lock = <<>>
    /\ pc = [t \in Tasks |-> "idle"]
    /\ op = [t \in Tasks |-> "none"]
    /\ faults = 0 /\ crashes = 0
    /\ asked = "pause" /\ interrupted = FALSE /\ visits = 0

\* The steps of a task once it runs: none of them waits for the human.
Work(t) ==
    \/ Acquire(t)
    \/ Connected(t)
    \/ Opened(t)
    \/ Navigated(t)
    \/ AcceptPage(t)
    \/ Analysed(t)

Request(t) ==
    \/ \E o \in {"open", "initialize"} : OpenBrowser(t, o)
    \/ Resume(t)
    \/ Snapshot(t)

Next ==
    \/ \E t \in Tasks : Work(t)
    \/ \E t \in Clients : Request(t)
    \/ HumanPause
    \/ MonitorTick
    \/ MonitorRetry
    \/ Crash
    \/ \E t \in Tasks : CrashInPublish(t)
    \/ Browse
    \/ Elapse

Spec == Init /\ [][Next]_vars

\* The event loop runs what is ready, the browser's client and the analysis answer
\* or time out, and the monitor's sleep ends.
FairSpec ==
    /\ Spec
    /\ \A t \in Tasks : WF_vars(Work(t))
    /\ WF_vars(MonitorTick)
    /\ WF_vars(MonitorRetry)

---------------------------------------------------------------------------
(* Properties. *)

TypeOK ==
    /\ page \in Page /\ loads \in 1 .. MaxLoads
    /\ memory \in Object
    /\ disk \in Record
    /\ feedFile \in Feed \cup {None}
    /\ lock \in Seq(Tasks)
    /\ pc \in [Tasks -> Awaits] /\ op \in [Tasks -> Operations]
    /\ faults \in 0 .. MaxFaults /\ crashes \in 0 .. MaxCrashes
    /\ asked \in {"pause", "resume"} /\ interrupted \in BOOLEAN /\ visits \in Nat

\* A READY session stands on a recorded observation: no takeover is pending, the
\* observation it serves is the one in the feed file, and the time it reports is
\* that observation's, whatever pauses, failed writes and restarts came before.
ReadyIsRecorded ==
    memory.status = "READY" =>
        /\ ~memory.manual
        /\ memory.latest # None /\ memory.latest = feedFile
        /\ memory.success = memory.latest.stamp

\* The source is visited by itself at most once per interval, whoever asks for
\* snapshots and however often the process restarts in between.
VisitsAreSpaced == visits <= 1

\* With a working disk an analysis is never lost: when nobody works, the last
\* observation has been analysed or its analysis is marked for repetition.
AnalysisFollowsCapture ==
    (~Running /\ memory.latest # None /\ faults = 0) =>
        \/ memory.analysis = "failed"
        \/ memory.analysis = "complete" /\ memory.report = memory.latest

\* The human's last word decides: after a pause, an open or a restart the session is
\* not READY until the human resumes it.
LastWordWins == memory.status = "READY" => asked = "resume"

\* A pause that comes while a page is being read or visited stops that capture: it
\* neither replaces the observation nor makes the session READY.
PauseStopsCapture ==
    [][(feedFile' # feedFile \/ (memory.status # "READY" /\ memory'.status = "READY"))
            => ~interrupted]_vars

\* What an observation says is relative to the observation it replaces on disk: a
\* listing in both was seen on a younger document, and its event compares the two
\* prices; no restart, pause or recheck loses or repeats a change.
ChangesAreRelative ==
    [][feedFile' # feedFile =>
            /\ feedFile'.changes = Changes(feedFile'.items, feedFile)
            /\ Newer(feedFile', feedFile)]_vars

\* Every request is answered.
RequestsEnd == \A t \in Clients : pc[t] # "idle" ~> pc[t] = "idle"

\* While the disk works, a READY session whose interval is over visits the source,
\* or stops being READY.  A failed write may end the monitor for good.
DuePageIsChecked ==
    LET overdue == Ready(memory) /\ memory.due
    IN (overdue /\ faults = 0) ~> (~overdue \/ faults > 0)

\* While the disk works, a failed analysis is tried again, whether or not the
\* session is READY.
FailedAnalysisIsRepeated ==
    (memory.analysis = "failed" /\ faults = 0) ~> (memory.analysis # "failed" \/ faults > 0)

=============================================================================
