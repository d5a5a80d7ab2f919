------------------------------- MODULE Desktop -------------------------------
(***************************************************************************)
(* The services of the desktop around the SQL write path, side by side:    *)
(* the monitor of On-Screen Takeoff and the Access connections, which      *)
(* share the queue of signals and the main thread; the undo history; the   *)
(* projection of batches to the plan views.                                *)
(***************************************************************************)
EXTENDS Integers, Sequences, FiniteSets

CONSTANTS
  Threads,     \* the threads that use Access connections
  Main,        \* the Qt main thread
  None,        \* no connection, no submission
  MaxDepth,    \* how deep leases nest
  MaxStarts,   \* starts of the monitor
  MaxSignals,  \* statuses that the main thread has not handled
  MaxEdits,    \* edits of the history
  MaxSize,     \* entries of a stack of the history
  Surfaces,    \* plan views
  MainPlan,    \* the one of the main window
  Pages        \* the pages a plan view may show

VARIABLES
  pool, writerReads, lease, blocked, maintained, leases, mdbFaults,
  ost, worker, stopFlag, isMonitoring, event, statusEvent, state, statusOnline, published,
  changes, step, signals,
  undo, redo, entryState, pending, forward, nextEdit, generation, queue, results, live,
  uncertain, applied, dropped, strays, replaced, gestures, undoFaults,
  batch, session, open, closed, page, shown, updates, inFlight, waiting, deliveries, visits

mdb == <<pool, writerReads, lease, blocked, maintained, leases, mdbFaults>>
monitor ==
  <<ost, worker, stopFlag, isMonitoring, event, statusEvent, state, statusOnline, published,
    changes>>
access == <<mdb, monitor, step, signals>>
history ==
  <<undo, redo, entryState, pending, forward, nextEdit, generation, queue, results, live,
    uncertain, applied, dropped, strays, replaced, gestures, undoFaults>>
plan ==
  <<batch, session, open, closed, page, shown, updates, inFlight, waiting, deliveries,
    visits>>

Mdb == INSTANCE MdbConnections WITH
  work <- leases, faults <- mdbFaults, others <- <<monitor, history, plan>>
Monitor == INSTANCE TransactionMonitor WITH
  work <- changes, others <- <<mdb, history, plan>>
History == INSTANCE UndoHistory WITH
  work <- gestures, faults <- undoFaults,
  others <- <<access, plan>>
Plan == INSTANCE PlanProjection WITH
  NoUpdate <- None, work <- visits, others <- <<access, history>>

Submissions ==
  [page : Pages, generation : Nat, version : Nat, session : Nat, batches : SUBSET Nat]

ASSUME ThreadsAssumption == Main \in Threads
ASSUME NoneAssumption == None \notin Mdb!Connection /\ None \notin Submissions
ASSUME PagesAssumption == Pages # {}
ASSUME BoundsAssumption == {MaxDepth, MaxStarts, MaxSignals, MaxEdits, MaxSize} \subseteq Nat \ {0}

\* Any amount of work and failures, On-Screen Takeoff in any status, and nothing published
\* but what an earlier monitor may have left: that it is online.
Init ==
  /\ \E n, failures \in Nat : Mdb!InitWith(n, failures)
  /\ \E m \in Nat, status \in {"absent", "offline", "online"}, queued \in {<<>>, <<TRUE>>} :
       Monitor!InitWith(status, m, queued)
  /\ \E n, failures \in Nat : History!InitWith(n, failures)
  /\ \E n, m \in Nat : Plan!InitWith(n, m)

Next == Mdb!Next \/ Monitor!Next \/ History!Next \/ Plan!Next

vars == <<access, history, plan>>

Spec == Init /\ [][Next]_vars

Fairness == Mdb!Fairness /\ Monitor!Fairness /\ Plan!Fairness

\* Every variable of the four instances has its type.
TypeOK == Mdb!TypeOK /\ Monitor!TypeOK /\ History!TypeOK /\ Plan!TypeOK

\* Access connections: see MdbConnections.
BlockedMeansClosed == Mdb!BlockedMeansClosed
ReadsSeeCommits == Mdb!ReadsSeeCommits
UnusableIsEvicted == Mdb!UnusableIsEvicted
MaintenanceExcludes == Mdb!MaintenanceExcludes

\* The monitor of On-Screen Takeoff: see TransactionMonitor.
OneMonitor == Monitor!OneMonitor

\* Undo: see UndoHistory.
UndoIsLastEdit == History!UndoIsLastEdit
StacksTellTheTruth == History!StacksTellTheTruth

\* Projection: see PlanProjection.
VerdictIsTrue == Plan!VerdictIsTrue
ShownNeverGoesBack == Plan!ShownNeverGoesBack
EveryBatchEnds == Plan!EveryBatchEnds

\* Writes that were blocked while On-Screen Takeoff was online are allowed again once it
\* went offline, unless it came back or the monitor was stopped: the monitor publishes
\* the change and the main thread handles it (service_builder.py, set_write_blocked).
BlockIsLifted ==
  blocked /\ isMonitoring ~> ~blocked \/ ost = "online" \/ ~isMonitoring
=============================================================================
