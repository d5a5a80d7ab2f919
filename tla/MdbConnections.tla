--------------------------- MODULE MdbConnections ---------------------------
(***************************************************************************)
(* The Access connections of one database file                             *)
(* (infrastructure/mdb/connection_manager.py) and the transactions that    *)
(* use them (mdb_writer.py): a pooled connection to read with, one to      *)
(* write with, a lock per path that a thread holds while it leases either, *)
(* the block on writes while On-Screen Takeoff is active, and maintenance, *)
(* which needs the file closed.                                            *)
(*                                                                         *)
(* A pooled connection is "bad" when using it would fail, "marked" when    *)
(* the manager knows it is unusable, "deferred" when it is to be closed at *)
(* the end of the outermost lease, "behind" when it was opened before a    *)
(* commit it may not see, and "stuck" when closing it failed.              *)
(***************************************************************************)
EXTENDS Integers, Sequences, FiniteSets

CONSTANTS
  Threads,   \* the threads that read and write, the main thread included
  Main,      \* the thread that handles the signals of the monitor
  None,      \* no pooled connection
  MaxDepth   \* how deep leases of one thread nest

VARIABLES
  pool,          \* [{"reader", "writer"} -> connection or None]
  writerReads,   \* reads use the writer's connection (_writer_read_paths)
  lease,         \* [Threads -> [depth, mode, from, committed]]
  step,          \* [Threads -> what the thread does]
  blocked,       \* _write_blocked
  maintained,    \* the path is in _maintenance_paths
  signals,       \* statuses of On-Screen Takeoff the main thread has not handled yet
  work,          \* leases and closings still to be asked for
  faults,        \* failures the environment may still cause
  others         \* the state of the modules this one is composed with

mdbVars == <<pool, writerReads, lease, step, blocked, maintained, signals, work, faults>>

Pools == {"reader", "writer"}
Modes == {"read", "write"}
Traits == {"bad", "marked", "deferred", "behind", "stuck"}
Connection == [Traits -> BOOLEAN]
Steps == {"idle", "leasing", "ack", "closing", "evicting", "maintaining", "joining"}
Fresh == [x \in Traits |-> FALSE]
NoLease == [depth |-> 0, mode |-> "read", from |-> "reader", committed |-> FALSE]

TypeOK ==
  /\ pool \in [Pools -> Connection \cup {None}]
  /\ writerReads \in BOOLEAN
  /\ lease \in [Threads -> [depth : 0..MaxDepth, mode : Modes, from : Pools, committed : BOOLEAN]]
  /\ step \in [Threads -> Steps]
  /\ blocked \in BOOLEAN
  /\ maintained \in BOOLEAN
  /\ signals \in Seq(BOOLEAN)
  /\ work \in Nat
  /\ faults \in Nat

InitWith(leases, failures) ==
  /\ pool = [p \in Pools |-> None]
  /\ writerReads = FALSE
  /\ lease = [t \in Threads |-> NoLease]
  /\ step = [t \in Threads |-> "idle"]
  /\ blocked = FALSE
  /\ maintained = FALSE
  /\ work = leases
  /\ faults = failures

-----------------------------------------------------------------------------
Leased(t) == lease[t].depth > 0

\* The path lock is reentrant and held from the start of a lease to its end.
PathLockFree(t) == \A u \in Threads \ {t} : ~Leased(u)

Idle(t) == step[t] = "idle"

Usable(c) == c # None /\ ~c.marked /\ ~c.bad

\* The pool a new lease takes its connection from, as long as it is usable.
Source(mode) ==
  IF \/ mode = "write"
     \/ pool["writer"] # None /\ (writerReads \/ pool["reader"] = None)
  THEN "writer"
  ELSE "reader"

\* Mutant: a reader that was replaced and outlived the writer is used again.
OutdatedReader(mode) == mode = "read" /\ ~writerReads /\ pool["writer"] = None

\* A reader that was replaced by the writer and outlived it may miss its commits.
Outdated(mode) == mode = "read" /\ writerReads /\ pool["writer"] = None

Borrowed(mode) == mode = "read" /\ Source(mode) = "writer"

Target(mode) == IF Borrowed(mode) THEN "reader" ELSE Source(mode)

\* What a new lease closes before it opens a connection.
Discarded(mode) ==
  {Source(mode)} \cup (IF Borrowed(mode) THEN {"reader"} ELSE {})

\* Closing the connection of a pool fails.
Stuck(p) == [pool EXCEPT ![p].stuck = TRUE]

Without(closed) == [p \in Pools |-> IF p \in closed THEN None ELSE pool[p]]

Begin(t, mode, from) ==
  /\ lease' = [lease EXCEPT ![t] =
                 [depth |-> 1, mode |-> mode, from |-> from, committed |-> FALSE]]
  /\ step' = [step EXCEPT ![t] = "leasing"]

\* A lease may start: the file is not in maintenance and writes are not blocked.
Admitted(t, mode) ==
  /\ Idle(t)
  /\ PathLockFree(t)
  /\ ~maintained
  /\ mode = "write" => ~blocked
  /\ work > 0

\* connection(): the pooled connection is probed and leased.
Lease(t, mode) ==
  /\ Admitted(t, mode)
  /\ ~Outdated(mode)
  /\ Usable(pool[Source(mode)])
  /\ Begin(t, mode, Source(mode))
  /\ work' = work - 1
  /\ UNCHANGED <<pool, writerReads, blocked, maintained, signals, faults, others>>

\* Nothing usable is pooled: what is there is closed and a connection is opened, which
\* may fail.
Open(t, mode) ==
  /\ Admitted(t, mode)
  /\ Outdated(mode) \/ ~Usable(pool[Source(mode)])
  /\ writerReads' = (writerReads /\ ~Outdated(mode) /\ ~Borrowed(mode))
  /\ \/ /\ pool' = [Without(Discarded(mode)) EXCEPT ![Target(mode)] = Fresh]
        /\ Begin(t, mode, Target(mode))
        /\ UNCHANGED faults
     \/ /\ faults > 0
        /\ faults' = faults - 1
        /\ pool' = Without(Discarded(mode))
        /\ UNCHANGED <<lease, step>>
  /\ work' = work - 1
  /\ UNCHANGED <<blocked, maintained, signals, others>>

\* What has to be closed first cannot be closed: it stays pooled, marked when a probe
\* found it unusable, and nothing is leased.
OpenFails(t, mode) ==
  /\ Admitted(t, mode)
  /\ faults > 0
  /\ LET source == Source(mode)
     IN \/ /\ Outdated(mode)
           /\ pool["reader"] # None
           /\ pool' = Stuck("reader")
        \/ /\ ~Outdated(mode)
           /\ pool[source] # None
           /\ ~Usable(pool[source])
           /\ pool' = [Stuck(source) EXCEPT ![source].marked = TRUE]
        \/ /\ Borrowed(mode)
           /\ pool["reader"] # None
           /\ ~Usable(pool["writer"])
           /\ pool' = [Stuck("reader") EXCEPT !["writer"] = None]
  /\ faults' = faults - 1
  /\ work' = work - 1
  /\ UNCHANGED <<writerReads, lease, step, blocked, maintained, signals, others>>

\* A lease inside another one of the same mode shares its connection. The probe of one
\* that went bad leaves it to the outermost lease to close it.
Nest(t) ==
  LET from == lease[t].from
  IN /\ lease[t].depth \in 1..(MaxDepth - 1)
     /\ ~lease[t].committed
     /\ ~pool[from].marked
     /\ work > 0
     /\ work' = work - 1
     /\ IF pool[from].bad
        THEN /\ pool' = [pool EXCEPT ![from].marked = TRUE, ![from].deferred = TRUE]
             /\ UNCHANGED lease
        ELSE /\ lease' = [lease EXCEPT ![t].depth = @ + 1]
             /\ UNCHANGED pool
     /\ UNCHANGED <<writerReads, step, blocked, maintained, signals, faults, others>>

\* mdb_writer._connection: the outermost lease of a write commits. A reader that is
\* pooled may not see it.
Commit(t) ==
  /\ lease[t].depth = 1
  /\ lease[t].mode = "write"
  /\ ~lease[t].committed
  /\ ~pool["writer"].bad
  /\ lease' = [lease EXCEPT ![t].committed = TRUE]
  /\ pool' = [pool EXCEPT !["reader"] = IF @ = None THEN None ELSE [@ EXCEPT !.behind = TRUE]]
  /\ UNCHANGED <<writerReads, step, blocked, maintained, signals, work, faults, others>>

Outcomes == {"done", "failed", "uncleaned"}

\* A lease may end so: a borrowed connection is rolled back, which fails when it is bad.
Ends(t, outcome) ==
  LET l == lease[t]
  IN /\ Leased(t)
     /\ l.committed => outcome # "failed"
     /\ outcome = "done" =>
          ~(l.mode = "read" /\ l.from = "writer" /\ pool[l.from].bad)

\* Mutant: a nested lease that found the connection unusable is forgotten.
CondemnedNow(t, outcome) ==
  outcome = "uncleaned" \/ (outcome = "failed" /\ pool[lease[t].from].bad)

\* The connection must not be used again: an error showed that it is bad, or a cursor
\* could not be closed.
Condemned(t, outcome) ==
  LET c == pool[lease[t].from]
  IN c.deferred \/ outcome = "uncleaned" \/ (outcome = "failed" /\ c.bad)

\* A nested lease ends: its connection is left to the outermost one.
EndNested(t, outcome) ==
  /\ Ends(t, outcome)
  /\ lease[t].depth > 1
  /\ lease' = [lease EXCEPT ![t].depth = @ - 1]
  /\ pool' = IF Condemned(t, outcome)
             THEN [pool EXCEPT ![lease[t].from].marked = TRUE, ![lease[t].from].deferred = TRUE]
             ELSE pool
  /\ UNCHANGED <<writerReads, step, blocked, maintained, signals, work, faults, others>>

\* The outermost lease ends and closes a condemned connection; closing may fail. A
\* committed writer is announced to the readers once the lock is released.
End(t, outcome) ==
  /\ Ends(t, outcome)
  /\ lease[t].depth = 1
  /\ lease' = [lease EXCEPT ![t] = NoLease]
  /\ step' = [step EXCEPT ![t] = IF lease[t].committed THEN "ack" ELSE "idle"]
  /\ IF ~Condemned(t, outcome)
     THEN UNCHANGED <<pool, faults>>
     ELSE \/ /\ pool' = [pool EXCEPT ![lease[t].from] = None]
             /\ UNCHANGED faults
          \/ /\ faults > 0
             /\ faults' = faults - 1
             /\ pool' = [Stuck(lease[t].from) EXCEPT ![lease[t].from].marked = TRUE,
                                                     ![lease[t].from].deferred = FALSE]
  /\ UNCHANGED <<writerReads, blocked, maintained, signals, work, others>>

\* use_committed_writer_for_reads
UseWriter(t) ==
  /\ step[t] = "ack"
  /\ PathLockFree(t)
  /\ step' = [step EXCEPT ![t] = "idle"]
  /\ writerReads' = TRUE
  /\ UNCHANGED <<pool, lease, blocked, maintained, signals, work, faults, others>>

\* A pooled connection goes bad.
Break(p) ==
  /\ faults > 0
  /\ pool[p] # None
  /\ ~pool[p].bad
  /\ pool' = [pool EXCEPT ![p].bad = TRUE]
  /\ faults' = faults - 1
  /\ UNCHANGED <<writerReads, lease, step, blocked, maintained, signals, work, others>>

-----------------------------------------------------------------------------
\* The main thread handles a signal of the monitor: set_write_blocked sets the flag
\* before it closes anything.
HandleSignal ==
  /\ Idle(Main)
  /\ signals # <<>>
  /\ blocked' = Head(signals)
  /\ signals' = Tail(signals)
  /\ step' = [step EXCEPT ![Main] = IF Head(signals) THEN "closing" ELSE "idle"]
  /\ UNCHANGED <<pool, writerReads, lease, maintained, work, faults, others>>

\* Mutant: the writer is closed only if nobody uses it.
CloseWriterIfFree ==
  /\ step[Main] = "closing"
  /\ step' = [step EXCEPT ![Main] = "idle"]
  /\ pool' = IF PathLockFree(Main) THEN Without({"writer"}) ELSE pool
  /\ UNCHANGED <<writerReads, lease, blocked, maintained, signals, work, faults, others>>

\* close_write_connections waits for the path lock of a pooled writer.
CloseWriter ==
  /\ step[Main] = "closing"
  /\ pool["writer"] # None => PathLockFree(Main)
  /\ step' = [step EXCEPT ![Main] = "idle"]
  /\ \/ /\ pool' = [pool EXCEPT !["writer"] = None]
        /\ UNCHANGED faults
     \/ /\ faults > 0
        /\ pool["writer"] # None
        /\ faults' = faults - 1
        /\ pool' = Stuck("writer")
  /\ UNCHANGED <<writerReads, lease, blocked, maintained, signals, work, others>>

BeginMaintenance(t) ==
  /\ Idle(t)
  /\ ~blocked
  /\ ~maintained
  /\ \A u \in Threads : ~Leased(u)
  /\ work > 0
  /\ maintained' = TRUE
  /\ step' = [step EXCEPT ![t] = "evicting"]
  /\ work' = work - 1
  /\ UNCHANGED <<pool, writerReads, lease, blocked, signals, faults, others>>

\* close_database: both connections are closed, or one of them cannot be.
Evict ==
  \/ /\ pool' = [p \in Pools |-> None]
     /\ writerReads' = FALSE
     /\ UNCHANGED faults
  \/ \E p \in Pools :
       /\ faults > 0
       /\ pool[p] # None
       /\ faults' = faults - 1
       /\ pool' = [q \in Pools |-> IF q = p THEN Stuck(p)[p] ELSE None]
       /\ writerReads' = FALSE

\* Mutant: maintenance goes on although a connection could not be closed.
EvictAnyway(t) ==
  /\ step[t] = "evicting"
  /\ PathLockFree(t)
  /\ Evict
  /\ step' = [step EXCEPT ![t] = "maintaining"]
  /\ UNCHANGED <<lease, blocked, maintained, signals, work, others>>

\* maintenance() closes the file; it gives up when a connection cannot be closed.
EvictForMaintenance(t) ==
  /\ step[t] = "evicting"
  /\ PathLockFree(t)
  /\ Evict
  /\ IF \A p \in Pools : pool'[p] = None
     THEN /\ step' = [step EXCEPT ![t] = "maintaining"]
          /\ UNCHANGED maintained
     ELSE /\ step' = [step EXCEPT ![t] = "idle"]
          /\ maintained' = FALSE
  /\ UNCHANGED <<lease, blocked, signals, work, others>>

EndMaintenance(t) ==
  /\ step[t] = "maintaining"
  /\ step' = [step EXCEPT ![t] = "idle"]
  /\ maintained' = FALSE
  /\ UNCHANGED <<pool, writerReads, lease, blocked, signals, work, faults, others>>

CloseDatabase(t) ==
  /\ Idle(t)
  /\ PathLockFree(t)
  /\ work > 0
  /\ Evict
  /\ work' = work - 1
  /\ UNCHANGED <<lease, step, blocked, maintained, signals, others>>

Next ==
  \/ \E t \in Threads :
       \/ \E mode \in Modes : Lease(t, mode) \/ Open(t, mode) \/ OpenFails(t, mode)
       \/ Nest(t)
       \/ Commit(t)
       \/ \E outcome \in Outcomes : EndNested(t, outcome) \/ End(t, outcome)
       \/ UseWriter(t)
       \/ BeginMaintenance(t)
       \/ EvictForMaintenance(t)
       \/ EndMaintenance(t)
       \/ CloseDatabase(t)
  \/ \E p \in Pools : Break(p)
  \/ HandleSignal
  \/ CloseWriter

\* What a thread has begun it finishes, and the main thread handles its signals.
Finish(t) ==
  \/ \E outcome \in Outcomes : EndNested(t, outcome) \/ End(t, outcome)
  \/ UseWriter(t)
  \/ EvictForMaintenance(t)
  \/ EndMaintenance(t)

Fairness ==
  /\ WF_mdbVars(\E t \in Threads : Finish(t))
  /\ WF_mdbVars(HandleSignal \/ CloseWriter)

-----------------------------------------------------------------------------
\* set_write_blocked(True) has returned: no thread holds a lease to write and the
\* writer's connection is closed, also when a write was under way as the block began.
BlockedMeansClosed ==
  blocked /\ step[Main] # "closing" =>
    /\ \A t \in Threads : Leased(t) => lease[t].mode = "read"
    /\ pool["writer"] # None => pool["writer"]["stuck"]

\* A read does not use a connection that may miss a commit, once the thread that made
\* the commit announced it (use_committed_writer_for_reads).
ReadsSeeCommits ==
  \A t \in Threads :
    Leased(t) /\ pool[lease[t].from]["behind"] =>
      pool[lease[t].from]["stuck"] \/ \E u \in Threads : step[u] = "ack"

\* A connection known to be unusable is on its way out: leased, it is closed when the
\* outermost lease ends, and pooled without a lease it is one that could not be closed.
UnusableIsEvicted ==
  \A p \in Pools :
    pool[p] # None /\ pool[p]["marked"] =>
      IF \E t \in Threads : Leased(t) /\ lease[t].from = p
      THEN pool[p]["deferred"]
      ELSE pool[p]["stuck"]

\* Maintenance has the file for itself: nothing is leased and nothing is pooled.
MaintenanceExcludes ==
  \A t \in Threads :
    step[t] = "maintaining" =>
      /\ \A p \in Pools : pool[p] = None
      /\ \A u \in Threads : ~Leased(u) /\ (step[u] = "maintaining" => u = t)
=============================================================================
