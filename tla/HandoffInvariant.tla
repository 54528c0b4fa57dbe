-------------------------- MODULE HandoffInvariant --------------------------
(***************************************************************************)
(* The inductive invariant of Handoff: what every state between two awaits *)
(* keeps, and what the properties of Handoff follow from.                  *)
(***************************************************************************)
EXTENDS Handoff

\* The awaits of a task that holds the lock and is at work.
Inside == {"connecting", "opening", "navigating", "reading", "analysing"}

\* Who works holds the lock, and who queues for it has an operation to run.
Turns ==
    \A t \in Tasks :
        /\ pc[t] \in Inside => Holder(t)
        /\ pc[t] = "lock" => op[t] # "none"

\* The object m serves the observation of the feed file f; READY, it has not been
\* taken over, and the time it reports is that observation's.
Serves(m, f) ==
    /\ m.latest = f
    /\ m.status = "READY" => ~m.manual /\ f # None /\ m.success = f.stamp

\* After v automatic visits of this interval: at most one, and once there was one,
\* neither the object m nor the file d says that another is due.
Spaced(m, d, v) == v \in {0, 1} /\ (v = 1 => ~m.due /\ ~d.due)

\* An interrupted capture finds the object taken over.
Stopped(m, i) == i => m.manual

\* The analysis of the object m, when nobody is at it, is of the observation it
\* serves, or failed.
Settled(m) ==
    m.latest # None =>
        \/ m.analysis = "failed"
        \/ m.analysis = "complete" /\ m.report = m.latest

\* On a disk that works, an analysis that nobody is at is settled.
Analyses == (faults = 0 /\ \A t \in Tasks : pc[t] # "analysing") => Settled(memory)

\* The conjunction, with the types, is inductive.  It is stated of every reachable
\* state: between any two awaits of the handlers, the monitor and the analyser, and
\* after any failed write or end of the process.
HandoffInductive ==
    /\ TypeOK
    /\ Turns
    /\ Serves(memory, feedFile)
    /\ Spaced(memory, disk, visits)
    /\ Stopped(memory, interrupted)
    /\ Analyses

=============================================================================
