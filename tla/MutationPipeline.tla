--------------------------- MODULE MutationPipeline ---------------------------
(***************************************************************************)
(* The write path of one SQL database: the Qt main thread (the UI), the    *)
(* single worker thread of the database, the dispatcher between them, the  *)
(* on-disk journal of pending operations and the server's transactions.    *)
(*                                                                         *)
(* The UI calls QtCallbackBridge.dispatch synchronously and the worker     *)
(* posts to the UI's event queue, so inbox holds the worker's messages     *)
(* only, in the order they were sent.                                      *)
(*                                                                         *)
(* Abstractions: one database; an operation is an identifier; the change   *)
(* feed is whether a batch arrived and whether it caught up; every state   *)
(* of the capability service that denies editing and is not CONFLICTED is  *)
(* OFFLINE.                                                                *)
(***************************************************************************)
EXTENDS Naturals, Sequences, FiniteSets

CONSTANTS
  Ops,        \* identifiers of mutations the user may submit, each once
  NoOp,       \* no operation
  Critical,   \* the lifecycle-critical ones: a drain waits for them
  Capacity,   \* bound of the mutation queue (_MAX_QUEUED_MUTATIONS)
  MaxFaults,  \* faults in a behaviour: lost connections, failed writes, crashes
  MaxGen      \* runtimes in a behaviour

ASSUME OpsAssumption == NoOp \notin Ops
ASSUME CriticalAssumption == Critical \subseteq Ops
ASSUME BoundsAssumption ==
  /\ Capacity \in Nat \ {0}
  /\ MaxFaults \in Nat
  /\ MaxGen \in Nat \ {0}

VARIABLES
  up,         \* the process runs
  attached,   \* the runtime is registered and its stop_event is clear
  rt,         \* the fields of _DatabaseRuntime
  sync,       \* the UI's collaboration state of the database
  pstate,     \* PendingMutationRegistry: state of each registered operation
  journal,    \* the journal file: state of each recorded operation
  uncertain,  \* keys of _uncertain_callbacks
  queue,      \* runtime.mutation_requests
  inbox,      \* messages from the worker to the UI
  submitting, \* the operation recorded and not yet enqueued by queue_request
  drain,      \* the lifecycle drain
  pc,         \* where the worker is
  cur,        \* the operation the worker handles
  toQuery,    \* journal records still to look up on the server
  txn,        \* the server's transaction of each operation
  told,       \* what the caller of each operation was last told
  verdicts,   \* how many final answers the caller was given
  stage,      \* how far the submission of each operation came
  granted,    \* operations whose cancellation was granted
  faults      \* faults so far

vars == <<up, attached, rt, sync, pstate, journal, uncertain, queue, inbox, submitting,
          drain, pc, cur, toQuery, txn, told, verdicts, stage, granted, faults>>

life == <<up, attached>>
memory == <<pstate, uncertain, submitting, drain>>
worker == <<pc, cur, toQuery>>
ghosts == <<told, verdicts, stage, granted>>

-----------------------------------------------------------------------------
PendingStates == {"none", "QUEUED", "EXECUTING", "PROJECTING", "RECOVERING", "UNCERTAIN"}
Refusals == {"REJECTED", "CONFLICT", "FAILED_BEFORE_COMMIT", "CANCELLED_BEFORE_START"}
Outcomes == Refusals \cup {"COMMITTED", "COMMITTED_PROJECTION_FAILED", "COMMIT_STATUS_UNKNOWN"}

\* Resetting is _reset_session up to the queue's rejection, clearing the rest of it;
\* the suffix is what the worker does next.
ResetSteps == {"failing", "resuming", "ending", "mistrusting"}
ClearSteps == {"failing2", "resuming2", "ending2", "mistrusting2"}
WorkerSteps == {"top", "list", "query", "await", "serve", "taken", "admitted", "txn",
                "settle", "poll", "check", "closing", "ended", "drained"}
               \cup ResetSteps \cup ClearSteps

\* The steps at which the worker handles an operation.
HoldingSteps == {"taken", "admitted", "txn", "settle"}

Answers == [kind : {"result", "local", "recovered"}, op : Ops, outcome : Outcomes,
            gen : Nat, sgen : Nat]
Signals == [kind : {"started", "restored", "batch", "reset", "disconnected", "reconcile",
                    "drained"},
            op : {NoOp}, outcome : {"none"}, gen : Nat, sgen : Nat]
Messages == Answers \cup Signals

Runtimes == [gen : Nat, sgen : Nat, session : BOOLEAN, announced : BOOLEAN,
             established : BOOLEAN, healthy : BOOLEAN, pending : BOOLEAN,
             current : BOOLEAN, ready : BOOLEAN, recReq : BOOLEAN, recReady : BOOLEAN,
             recTried : BOOLEAN, cancelled : SUBSET Ops, recovered : SUBSET Ops]

\* The newly constructed _DatabaseRuntime of generation g.
NewRuntime(g) ==
  [gen |-> g, sgen |-> 0, session |-> FALSE, announced |-> FALSE, established |-> FALSE,
   healthy |-> FALSE, pending |-> FALSE, current |-> TRUE, ready |-> FALSE,
   recReq |-> FALSE, recReady |-> FALSE, recTried |-> FALSE,
   cancelled |-> {}, recovered |-> {}]

Message(kind, op, outcome) ==
  [kind |-> kind, op |-> op, outcome |-> outcome, gen |-> rt.gen, sgen |-> rt.sgen]
Result(op, outcome) == Message("result", op, outcome)
\* Mutant: a message that does not say which session it belongs to.
SignalUntagged(kind) == [kind |-> kind, op |-> NoOp, outcome |-> "none"]
Signal(kind) == Message(kind, NoOp, "none")

Post(message) == inbox' = Append(inbox, message)

Fault == faults < MaxFaults /\ faults' = faults + 1

-----------------------------------------------------------------------------
(* The UI thread: submitting, cancelling and draining mutations *)

UiIdle == up /\ submitting = NoOp

IsEditable == sync = "HEALTHY"
RuntimeCurrent(g) == attached /\ rt.gen = g
SessionCurrent(m) == RuntimeCurrent(m.gen) /\ rt.sgen = m.sgen

\* Mutant: a drain that waits for the queue only.
BlocksDrainQueued(registry) == \E op \in Critical : registry[op] = "QUEUED"

BlocksDrain(registry) ==
  \E op \in Critical : registry[op] \in {"QUEUED", "EXECUTING", "PROJECTING"}

\* The drain after the registry became registry and, if failed, a critical
\* operation was refused.
DrainAfter(registry, failed) ==
  LET noted == IF drain = "waiting" /\ failed THEN "failing" ELSE drain
  IN  IF noted \notin {"waiting", "failing"} \/ BlocksDrain(registry) THEN noted
      ELSE IF noted = "waiting" THEN "ok" ELSE "failed"

\* queue_request up to the journal: the operation is registered and recorded.
Submit(op) ==
  /\ UiIdle
  /\ stage[op] = "new"
  /\ stage' = [stage EXCEPT ![op] = "submitted"]
  /\ pstate' = [pstate EXCEPT ![op] = "QUEUED"]
  /\ journal' = [journal EXCEPT ![op] = "QUEUED"]
  /\ submitting' = op
  /\ UNCHANGED <<life, rt, sync, uncertain, drain, queue, inbox, worker, txn, told,
                 verdicts, granted, faults>>

\* queue_request when the journal cannot record the operation: it is refused.
SubmitUnrecorded(op) ==
  /\ UiIdle /\ Fault
  /\ stage[op] = "new"
  /\ stage' = [stage EXCEPT ![op] = "submitted"]
  /\ told' = [told EXCEPT ![op] = "refused"]
  /\ verdicts' = [verdicts EXCEPT ![op] = @ + 1]
  /\ UNCHANGED <<life, rt, sync, memory, journal, queue, inbox, worker, txn, granted>>

AcceptsMutations ==
  /\ attached /\ IsEditable
  /\ drain \notin {"waiting", "failing"}
  /\ rt.session /\ rt.established /\ ~rt.recReq

\* _enqueue_mutation asks the runtime under its lock, and lets the lock go ...
TestRuntime ==
  /\ up /\ submitting # NoOp /\ stage[submitting] = "submitted" /\ AcceptsMutations
  /\ stage' = [stage EXCEPT ![submitting] = "tested"]
  /\ UNCHANGED <<life, rt, sync, memory, journal, queue, inbox, worker, txn, told, verdicts,
                 granted, faults>>

\* ... before it queues the mutation: the session may be gone by now.
Enqueue ==
  /\ up /\ submitting # NoOp /\ stage[submitting] = "tested" /\ Len(queue) < Capacity
  /\ queue' = Append(queue, submitting)
  /\ stage' = [stage EXCEPT ![submitting] = "accepted"]
  /\ submitting' = NoOp
  /\ UNCHANGED <<life, rt, sync, pstate, uncertain, drain, journal, inbox, worker, txn,
                 told, verdicts, granted, faults>>

\* The rejection finishes the registry entry and the record before the callback.
RefuseEnqueue ==
  /\ up /\ submitting # NoOp
  /\ \/ stage[submitting] = "submitted" /\ ~AcceptsMutations
     \/ stage[submitting] = "tested" /\ Len(queue) >= Capacity
  /\ LET registry == [pstate EXCEPT ![submitting] = "none"]
     IN  pstate' = registry /\ drain' = DrainAfter(registry, FALSE)
  /\ journal' = [journal EXCEPT ![submitting] = "none"]
  /\ told' = [told EXCEPT ![submitting] = "refused"]
  /\ verdicts' = [verdicts EXCEPT ![submitting] = @ + 1]
  /\ submitting' = NoOp
  /\ UNCHANGED <<life, rt, sync, uncertain, queue, inbox, worker, txn, stage, granted,
                 faults>>

\* Mutant: a cancellation granted to a mutation that is already executing.
CancelRunning(op) ==
  /\ UiIdle /\ attached
  /\ pstate[op] \in {"QUEUED", "EXECUTING"}
  /\ rt' = [rt EXCEPT !.cancelled = @ \cup {op}]
  /\ granted' = granted \cup {op}
  /\ UNCHANGED <<life, sync, memory, journal, queue, inbox, worker, txn, told, verdicts,
                 stage, faults>>

\* cancel_queued_mutation returning True. The registry's lock and the runtime's make
\* the check and the record of the cancellation one step.
Cancel(op) ==
  /\ UiIdle /\ attached
  /\ pstate[op] = "QUEUED"
  /\ rt' = [rt EXCEPT !.cancelled = @ \cup {op}]
  /\ granted' = granted \cup {op}
  /\ UNCHANGED <<life, sync, memory, journal, queue, inbox, worker, txn, told, verdicts,
                 stage, faults>>

RequestDrain ==
  /\ UiIdle /\ drain = "none"
  /\ drain' = IF BlocksDrain(pstate) THEN "waiting" ELSE "ok"
  /\ UNCHANGED <<life, rt, sync, pstate, uncertain, submitting, journal, queue, inbox,
                 worker, txn, ghosts, faults>>

-----------------------------------------------------------------------------
(* The UI thread: handling the worker's messages *)

Receive(kind) == UiIdle /\ inbox # <<>> /\ Head(inbox).kind = kind /\ inbox' = Tail(inbox)

\* _on_reconciliation_required. The event it publishes makes the UI call
\* resume_controlled_recovery at once, which succeeds once per establishment.
Reconciling(r) ==
  IF r.recReq THEN r
  ELSE [r EXCEPT !.healthy = FALSE, !.pending = TRUE, !.recReq = TRUE,
                 !.recReady = ~r.recTried, !.recTried = TRUE]

RequireReconciliation(r) ==
  /\ rt' = Reconciling(r)
  /\ sync' = IF r.recReq THEN sync ELSE "OFFLINE"

\* _complete_mutation_request: the callback of op is given outcome, or raises; callbacks
\* are those left in _uncertain_callbacks, g the generation the result belongs to.
Complete(op, outcome, g, callbacks, raises) ==
  LET trusted == RuntimeCurrent(g) /\ ~rt.recReq
      result == IF outcome = "COMMITTED" /\ ~trusted
                  THEN "COMMITTED_PROJECTION_FAILED" ELSE outcome
      registered == pstate[op] # "none"
      next == CASE result = "COMMIT_STATUS_UNKNOWN" -> "UNCERTAIN"
                [] result = "COMMITTED_PROJECTION_FAILED" -> "RECOVERING"
                [] result = "COMMITTED" -> IF raises THEN "RECOVERING" ELSE "none"
                [] OTHER -> "none"
      final == (result = "COMMITTED" /\ ~raises) \/ result \in Refusals
      registry == [pstate EXCEPT ![op] = IF registered THEN next ELSE "none"]
  IN
  /\ raises => result = "COMMITTED"
  /\ told' = [told EXCEPT ![op] = IF ~final THEN "unresolved"
                                  ELSE IF result = "COMMITTED" THEN "committed"
                                  ELSE "refused"]
  /\ verdicts' = [verdicts EXCEPT ![op] = IF final THEN @ + 1 ELSE @]
  /\ pstate' = registry
  /\ journal' = IF registered THEN [journal EXCEPT ![op] = next] ELSE journal
  /\ uncertain' = IF registered /\ ~final THEN callbacks \cup {op} ELSE callbacks
  /\ IF registered /\ next = "RECOVERING" /\ attached
       THEN RequireReconciliation(rt)
       ELSE UNCHANGED <<rt, sync>>
  /\ drain' = DrainAfter(registry, registered /\ op \in Critical /\ result \in Refusals)
  /\ UNCHANGED <<life, submitting, queue, worker, txn, stage, granted>>

HandleResult ==
  /\ Receive("result")
  /\ Complete(Head(inbox).op, Head(inbox).outcome, Head(inbox).gen, uncertain, FALSE)
  /\ UNCHANGED faults

\* _apply_local_mutation_result when the session is still the one that committed and the
\* hydrated operation was projected.
HandleLocal ==
  /\ Receive("local")
  /\ LET m == Head(inbox)
     IN  Complete(m.op,
                  IF SessionCurrent(m) THEN "COMMITTED" ELSE "COMMITTED_PROJECTION_FAILED",
                  m.gen, uncertain, FALSE)
  /\ UNCHANGED faults

\* The same when the navigation changed, the projection failed or the callback raised.
HandleLocalFailure ==
  /\ Receive("local") /\ SessionCurrent(Head(inbox)) /\ Fault
  /\ LET m == Head(inbox)
     IN  \/ Complete(m.op, "COMMITTED_PROJECTION_FAILED", m.gen, uncertain, FALSE)
         \/ Complete(m.op, "COMMITTED", m.gen, uncertain, TRUE)

\* Mutant: a recovered result is delivered whatever became of its session and callback.
HandleRecoveredAlways ==
  /\ Receive("recovered")
  /\ Complete(Head(inbox).op, Head(inbox).outcome, Head(inbox).gen,
              uncertain \ {Head(inbox).op}, FALSE)
  /\ UNCHANGED faults

\* _complete_recovered_mutation_request: the marker of an uncertain commit was not found.
HandleRecovered ==
  /\ Receive("recovered")
  /\ LET m == Head(inbox)
     IN  IF SessionCurrent(m) /\ m.op \in uncertain
           THEN Complete(m.op, m.outcome, m.gen, uncertain \ {m.op}, FALSE)
           ELSE UNCHANGED <<life, rt, sync, memory, journal, queue, worker, txn, ghosts>>
  /\ UNCHANGED faults

\* _project_session_start: the authoritative rows were projected. Of the operations the
\* worker found on the server, those nobody waits for are forgotten, the others are
\* completed in turn: done are those whose callback took the result before one failed.
HandleStarted ==
  /\ Receive("started") /\ SessionCurrent(Head(inbox))
  /\ LET awaited == rt.recovered \cap uncertain
         forgotten == rt.recovered \ uncertain
         r == [rt EXCEPT !.recovered = {}]
     IN
     \E done \in SUBSET awaited :
       LET failed == awaited \ done
           state(op) == IF op \in failed THEN "RECOVERING" ELSE "none"
           registry == [op \in Ops |-> IF op \in rt.recovered THEN state(op) ELSE pstate[op]]
       IN
       /\ rt.recReq => done = {}
       /\ IF failed # {} /\ ~rt.recReq THEN Fault ELSE UNCHANGED faults
       /\ told' = [op \in Ops |-> IF op \in done THEN "committed"
                                  ELSE IF op \in failed THEN "unresolved" ELSE told[op]]
       /\ verdicts' = [op \in Ops |-> IF op \in done THEN verdicts[op] + 1 ELSE verdicts[op]]
       /\ pstate' = registry
       /\ journal' = [op \in Ops |-> IF op \in rt.recovered THEN state(op) ELSE journal[op]]
       /\ uncertain' = uncertain \ done
       /\ rt' = [(IF failed = {} THEN r ELSE Reconciling(r)) EXCEPT !.healthy = FALSE,
                                                                    !.ready = TRUE]
       /\ drain' = DrainAfter(registry, FALSE)
  /\ sync' = "OFFLINE"
  /\ UNCHANGED <<life, submitting, queue, worker, txn, stage, granted>>

\* Mutant: a failed session start that does not wake the worker.
HandleStartedFailureSilent ==
  /\ Receive("started") /\ SessionCurrent(Head(inbox)) /\ Fault
  /\ RequireReconciliation(rt)
  /\ UNCHANGED <<life, memory, journal, queue, worker, txn, ghosts>>

\* _project_session_start when navigation replaced the Bid or the rows could not be
\* projected: the found operations stay recorded for the recovery's session.
HandleStartedFailure ==
  /\ Receive("started") /\ SessionCurrent(Head(inbox)) /\ Fault
  /\ \E navigated \in BOOLEAN :
       LET r == IF navigated /\ ~rt.recReq THEN [rt EXCEPT !.recTried = FALSE] ELSE rt
       IN  /\ rt' = [Reconciling(r) EXCEPT !.ready = TRUE]
           /\ sync' = IF r.recReq THEN sync ELSE "OFFLINE"
  /\ drain' = DrainAfter(pstate, FALSE)
  /\ UNCHANGED <<life, pstate, uncertain, submitting, journal, queue, worker, txn, ghosts>>

\* Messages of a session that is gone are dropped; the start's still lets a drain finish.
HandleStale ==
  /\ UiIdle /\ inbox # <<>> /\ ~SessionCurrent(Head(inbox))
  /\ Head(inbox).kind \in {"started", "restored", "batch", "reset", "disconnected"}
  /\ inbox' = Tail(inbox)
  /\ drain' = IF Head(inbox).kind = "started" THEN DrainAfter(pstate, FALSE) ELSE drain
  /\ UNCHANGED <<life, rt, sync, pstate, uncertain, submitting, journal, queue, worker, txn,
                 ghosts, faults>>

HandleRestored ==
  /\ Receive("restored") /\ SessionCurrent(Head(inbox))
  /\ sync' = "HEALTHY"
  /\ UNCHANGED <<life, rt, memory, journal, queue, worker, txn, ghosts, faults>>

HandleDisconnected ==
  /\ Receive("disconnected") /\ SessionCurrent(Head(inbox))
  /\ sync' = "OFFLINE"
  /\ UNCHANGED <<life, rt, memory, journal, queue, worker, txn, ghosts, faults>>

\* _finish_remote_batch after a projection that succeeded; a batch may be one of several.
HandleBatch ==
  /\ Receive("batch") /\ SessionCurrent(Head(inbox))
  /\ LET trusted == ~rt.recReq /\ sync # "CONFLICTED"
     IN  \E last \in BOOLEAN :
           rt' = [rt EXCEPT !.current = IF trusted THEN last ELSE @,
                            !.pending = ~trusted,
                            !.healthy = trusted /\ last]
  /\ UNCHANGED <<life, sync, memory, journal, queue, worker, txn, ghosts, faults>>

\* The batch overlapped a local draft (enter_resource_conflict), could not be projected,
\* or navigation replaced the Bid it was read for.
HandleBatchFailure ==
  /\ Receive("batch") /\ SessionCurrent(Head(inbox)) /\ Fault
  /\ \/ /\ rt' = [rt EXCEPT !.healthy = FALSE, !.pending = TRUE, !.recReq = TRUE,
                            !.recReady = FALSE]
        /\ sync' = "CONFLICTED"
     \/ RequireReconciliation([rt EXCEPT !.pending = TRUE, !.healthy = FALSE])
     \/ RequireReconciliation(IF rt.recReq THEN rt ELSE [rt EXCEPT !.recTried = FALSE])
  /\ UNCHANGED <<life, memory, journal, queue, worker, txn, ghosts>>

\* The worker asked for a reconciliation: the feed was reset or outlived (only for the
\* session that saw it), or an unexpected value stopped an iteration (any session).
HandleReconcile ==
  /\ \/ Receive("reset") /\ SessionCurrent(Head(inbox))
     \/ Receive("reconcile")
  /\ IF RuntimeCurrent(Head(inbox).gen)
       THEN RequireReconciliation(rt)
       ELSE UNCHANGED <<rt, sync>>
  /\ UNCHANGED <<life, memory, journal, queue, worker, txn, ghosts, faults>>

\* The user refreshes the database: resume_controlled_recovery.
Refresh ==
  /\ UiIdle /\ attached /\ pc # "ended"
  /\ rt.recReq /\ ~rt.recTried
  /\ rt' = [rt EXCEPT !.recTried = TRUE, !.recReady = TRUE]
  /\ sync' = "OFFLINE"
  /\ UNCHANGED <<life, memory, journal, queue, inbox, worker, txn, ghosts, faults>>

\* stop_database_async: the runtime is unregistered and its events are set.
Detach ==
  /\ UiIdle /\ attached
  /\ attached' = FALSE
  /\ rt' = [rt EXCEPT !.ready = TRUE]
  /\ sync' = "OFFLINE"
  /\ UNCHANGED <<up, memory, journal, queue, inbox, worker, txn, ghosts, faults>>

\* _complete_database_drain: the database may be opened again.
HandleDrained ==
  /\ Receive("drained")
  /\ pc' = "drained"
  /\ UNCHANGED <<life, rt, sync, memory, journal, queue, cur, toQuery, txn, ghosts, faults>>

Start ==
  /\ UiIdle /\ pc = "drained" /\ rt.gen < MaxGen
  /\ attached' = TRUE
  /\ rt' = NewRuntime(rt.gen + 1)
  /\ queue' = <<>>
  /\ sync' = "OFFLINE"
  /\ pc' = "top" /\ cur' = NoOp /\ toQuery' = {}
  /\ UNCHANGED <<up, memory, journal, inbox, txn, ghosts, faults>>

-----------------------------------------------------------------------------
(* The worker thread: sessions *)

Worker(step) == up /\ pc = step
Go(step) == pc' = step

\* A lost connection, an expired session or a suspended computer ends an iteration; the
\* worker resets its session and tries again, or ends when the error is not retryable.
FailSteps == {"list", "query", "serve", "poll"}

LoseSession ==
  /\ up /\ Fault
  /\ \/ pc \in FailSteps \/ (pc = "top" /\ rt.session)
     \/ pc = "top" /\ attached /\ ~rt.session /\ ~rt.recReq
  /\ pc' \in IF pc = "top" /\ rt.session THEN {"failing"} ELSE {"failing", "ending"}
  /\ UNCHANGED <<life, rt, sync, memory, journal, queue, inbox, cur, toQuery, txn, ghosts>>

\* _reset_session: the session's generation ends and the queued mutations are cancelled.
Cancellations == [i \in 1..Len(queue) |-> Result(queue[i], "CANCELLED_BEFORE_START")]

Reset(step, next) ==
  /\ Worker(step)
  /\ rt' = [rt EXCEPT !.sgen = IF rt.session THEN @ + 1 ELSE @,
                      !.announced = ~rt.session /\ @]
  /\ inbox' = inbox \o Cancellations
  /\ queue' = <<>>
  /\ Go(next)
  /\ UNCHANGED <<life, sync, memory, journal, cur, toQuery, txn, ghosts, faults>>

BeginReset ==
  \/ Reset("failing", "failing2")
  \/ Reset("resuming", "resuming2")
  \/ Reset("ending", "ending2")
  \/ Reset("mistrusting", "mistrusting2")

\* _clear_runtime_edits and the rest of _reset_session.
Cleared == [rt EXCEPT !.session = FALSE, !.healthy = FALSE, !.ready = FALSE]

\* _handle_worker_failure after the reset, and what its caller in _run_worker does next:
\* try again, end, or (after an unexpected value) ask for a reconciliation.
EndReset ==
  /\ up
  /\ \/ /\ pc = "failing2" /\ Go("top")
        /\ rt' = Cleared
        /\ Post(Signal("disconnected"))
     \/ /\ pc = "resuming2" /\ Go("top")
        /\ rt' = Cleared
        /\ UNCHANGED inbox
     \/ /\ pc = "ending2" /\ Go("closing")
        /\ rt' = Cleared
        /\ Post(Signal("disconnected"))
     \/ /\ pc = "mistrusting2" /\ Go("top")
        /\ rt' = [Cleared EXCEPT !.pending = TRUE]
        /\ inbox' = inbox \o <<Signal("disconnected"), Signal("reconcile")>>
  /\ UNCHANGED <<life, sync, memory, journal, queue, cur, toQuery, txn, ghosts, faults>>

\* Recovery requested while a session is open: give the session up first.
LeaveSession ==
  /\ Worker("top") /\ attached /\ rt.recReq /\ rt.session
  /\ Go("resuming")
  /\ UNCHANGED <<life, rt, sync, memory, journal, queue, inbox, cur, toQuery, txn, ghosts,
                 faults>>

\* start_session and _install_session, after a granted recovery's flags were cleared.
StartSession ==
  /\ Worker("top") /\ attached /\ ~rt.session
  /\ rt.recReq => rt.recReady
  /\ rt' = [rt EXCEPT !.recReq = FALSE, !.recReady = FALSE, !.pending = FALSE,
                      !.healthy = FALSE, !.session = TRUE, !.sgen = @ + 1,
                      !.announced = FALSE, !.current = TRUE]
  /\ Go("list")
  /\ UNCHANGED <<life, sync, memory, journal, queue, inbox, cur, toQuery, txn, ghosts,
                 faults>>

\* The database's authoritative rows are read; then the journal is listed.
ListJournal ==
  /\ Worker("list") /\ attached
  /\ toQuery' = {op \in Ops : journal[op] # "none"}
  /\ Go("query")
  /\ UNCHANGED <<life, rt, sync, memory, journal, queue, inbox, cur, txn, ghosts, faults>>

\* Mutant: the marker is read without the operation's lock.
AnswerableAlways(op) == TRUE

\* query_operation takes the operation's lock: it answers once no transaction holds it.
Answerable(op) == txn[op] # "open"

\* Mutant: a missing marker forgets the operation even if a callback waits for it.
QueryForgets(op) ==
  /\ Worker("query") /\ op \in toQuery /\ Answerable(op)
  /\ toQuery' = toQuery \ {op}
  /\ IF txn[op] = "committed"
       THEN /\ rt' = [rt EXCEPT !.recovered = @ \cup {op}]
            /\ UNCHANGED <<pstate, journal>>
       ELSE /\ pstate' = [pstate EXCEPT ![op] = "none"]
            /\ journal' = [journal EXCEPT ![op] = "none"]
            /\ UNCHANGED rt
  /\ UNCHANGED <<life, sync, uncertain, submitting, drain, queue, inbox, pc, cur, txn,
                 ghosts, faults>>

QueryOperation(op) ==
  /\ Worker("query") /\ op \in toQuery /\ Answerable(op)
  /\ toQuery' = toQuery \ {op}
  /\ IF txn[op] = "committed"
       THEN /\ rt' = [rt EXCEPT !.recovered = @ \cup {op}]
            /\ UNCHANGED <<pstate, journal, inbox>>
       ELSE IF op \in uncertain
       THEN /\ Post(Message("recovered", op, "FAILED_BEFORE_COMMIT"))
            /\ UNCHANGED <<rt, pstate, journal>>
       ELSE /\ pstate' = [pstate EXCEPT ![op] = "none"]
            /\ journal' = [journal EXCEPT ![op] = "none"]
            /\ UNCHANGED <<rt, inbox>>
  /\ UNCHANGED <<life, sync, uncertain, submitting, drain, queue, pc, cur, txn, ghosts,
                 faults>>

\* Mutant: the session start overtakes the results that were posted before it.
AnnounceStartFirst ==
  /\ Worker("query") /\ attached /\ toQuery = {}
  /\ inbox' = <<Signal("started")>> \o inbox
  /\ Go("await")
  /\ UNCHANGED <<life, rt, sync, memory, journal, queue, cur, toQuery, txn, ghosts, faults>>

\* The UI is asked to project what was read; the worker waits for its ready_event.
AnnounceStart ==
  /\ Worker("query") /\ attached /\ toQuery = {}
  /\ Post(Signal("started"))
  /\ Go("await")
  /\ UNCHANGED <<life, rt, sync, memory, journal, queue, cur, toQuery, txn, ghosts, faults>>

BeginIteration ==
  /\ \/ Worker("await") /\ rt.ready
     \/ Worker("top") /\ rt.session /\ ~rt.recReq
  /\ attached
  /\ Go("serve")
  /\ UNCHANGED <<life, rt, sync, memory, journal, queue, inbox, cur, toQuery, txn, ghosts,
                 faults>>

-----------------------------------------------------------------------------
(* The worker thread: one mutation *)

Serving == attached /\ rt.healthy /\ ~rt.pending /\ ~rt.recReq

SkipServe ==
  /\ Worker("serve") /\ (~Serving \/ queue = <<>>)
  /\ Go("poll")
  /\ UNCHANGED <<life, rt, sync, memory, journal, queue, inbox, cur, toQuery, txn, ghosts,
                 faults>>

Take ==
  /\ Worker("serve") /\ Serving /\ queue # <<>>
  /\ cur' = Head(queue)
  /\ queue' = Tail(queue)
  /\ Go("taken")
  /\ UNCHANGED <<life, rt, sync, memory, journal, inbox, toQuery, txn, ghosts, faults>>

\* The runtime's lock makes the reading of the cancellation and the transition to
\* EXECUTING one step. An operation that is no longer registered stops the iteration.
Admit ==
  /\ Worker("taken")
  /\ LET cancelled == cur \in rt.cancelled
         ready == rt.session /\ Serving /\ IsEditable
         r == [rt EXCEPT !.cancelled = @ \ {cur}]
     IN
     \/ /\ ready /\ ~cancelled /\ pstate[cur] # "none"
        /\ pstate' = [pstate EXCEPT ![cur] = "EXECUTING"]
        /\ rt' = r /\ Go("admitted")
        /\ UNCHANGED <<inbox, cur>>
     \/ /\ ready /\ ~cancelled /\ pstate[cur] = "none"
        /\ rt' = r /\ Go("mistrusting") /\ cur' = NoOp
        /\ UNCHANGED <<pstate, inbox>>
     \/ /\ ~ready \/ cancelled
        /\ Post(Result(cur, "CANCELLED_BEFORE_START"))
        /\ rt' = r /\ Go("poll") /\ cur' = NoOp
        /\ UNCHANGED pstate
  /\ UNCHANGED <<life, sync, uncertain, submitting, drain, journal, queue, toQuery, txn,
                 ghosts, faults>>

\* The journal says EXECUTING before the operation runs, or it does not run.
RecordExecuting ==
  /\ Worker("admitted")
  /\ \/ /\ journal' = [journal EXCEPT ![cur] = "EXECUTING"]
        /\ txn' = [txn EXCEPT ![cur] = "open"]
        /\ Go("txn")
        /\ UNCHANGED <<inbox, cur, faults>>
     \/ /\ Fault
        /\ Post(Result(cur, "FAILED_BEFORE_COMMIT"))
        /\ Go("ending") /\ cur' = NoOp
        /\ UNCHANGED <<journal, txn>>
  /\ UNCHANGED <<life, rt, sync, memory, queue, toQuery, ghosts>>

\* An invalid lease, an overlapping draft or a lock that is held: nothing was run.
Deny ==
  /\ Worker("admitted")
  /\ journal' = [journal EXCEPT ![cur] = "EXECUTING"]
  /\ \E outcome \in {"CONFLICT", "REJECTED", "FAILED_BEFORE_COMMIT"} :
       Post(Result(cur, outcome))
  /\ Go("poll") /\ cur' = NoOp
  /\ UNCHANGED <<life, rt, sync, memory, queue, toQuery, txn, ghosts, faults>>

\* The operation raises or is refused before its commit, so the server rolls it back. A
\* lost connection also fails the iteration.
Abort ==
  /\ Worker("txn")
  /\ txn' = [txn EXCEPT ![cur] = "aborted"]
  /\ \/ /\ \E outcome \in {"CONFLICT", "REJECTED", "FAILED_BEFORE_COMMIT"} :
             Post(Result(cur, outcome))
        /\ Go("poll") /\ UNCHANGED faults
     \/ /\ Fault
        /\ Post(Result(cur, "FAILED_BEFORE_COMMIT"))
        /\ pc' \in {"failing", "ending"}
  /\ cur' = NoOp
  /\ UNCHANGED <<life, rt, sync, memory, journal, queue, toQuery, ghosts>>

\* Mutant: a lost COMMIT is taken for a failed one.
LoseCommitAsFailure ==
  /\ Worker("txn") /\ Fault
  /\ Post(Result(cur, "FAILED_BEFORE_COMMIT"))
  /\ Go("failing") /\ cur' = NoOp
  /\ UNCHANGED <<life, rt, sync, memory, journal, queue, toQuery, txn, ghosts>>

\* The connection is lost while COMMIT is outstanding. The callback is kept before the
\* result is posted, so that a recovery never finds the operation without one.
LoseCommit ==
  /\ Worker("txn") /\ Fault
  /\ uncertain' = uncertain \cup {cur}
  /\ Post(Result(cur, "COMMIT_STATUS_UNKNOWN"))
  /\ Go("failing") /\ cur' = NoOp
  /\ UNCHANGED <<life, rt, sync, pstate, submitting, drain, journal, queue, toQuery, txn,
                 ghosts>>

Commit ==
  /\ Worker("txn")
  /\ txn' = [txn EXCEPT ![cur] = "committed"]
  /\ Go("settle")
  /\ UNCHANGED <<life, rt, sync, memory, journal, queue, inbox, cur, toQuery, ghosts,
                 faults>>

\* The committed operation's rows were read back: it is recorded as PROJECTING and the
\* UI is asked to project them.
Settle ==
  /\ Worker("settle")
  /\ pstate' = [pstate EXCEPT ![cur] = "PROJECTING"]
  /\ journal' = [journal EXCEPT ![cur] = "PROJECTING"]
  /\ Post(Message("local", cur, "COMMITTED"))
  /\ Go("poll") /\ cur' = NoOp
  /\ UNCHANGED <<life, rt, sync, uncertain, submitting, drain, queue, toQuery, txn, ghosts,
                 faults>>

\* The rows could not be read back, the result is not authoritative, or the journal could
\* not be written (only then was the registry moved on).
SettleFailure ==
  /\ Worker("settle") /\ Fault
  /\ pstate' \in {pstate, [pstate EXCEPT ![cur] = "PROJECTING"]}
  /\ Post(Result(cur, "COMMITTED_PROJECTION_FAILED"))
  /\ pc' \in IF pstate' = pstate THEN {"failing", "ending"} ELSE {"ending"}
  /\ cur' = NoOp
  /\ UNCHANGED <<life, rt, sync, uncertain, submitting, drain, journal, queue, toQuery, txn,
                 ghosts>>

-----------------------------------------------------------------------------
(* The worker thread: the rest of an iteration, and its end *)

\* _poll_once: nothing while a delivery is pending; otherwise no change, a batch, or a
\* feed that was reset or has outlived the checkpoint.
Poll ==
  /\ Worker("poll") /\ attached
  /\ \/ UNCHANGED <<rt, inbox, faults>>
     \/ /\ ~rt.pending
        /\ rt' = [rt EXCEPT !.pending = TRUE, !.current = FALSE]
        /\ Post(Signal("batch"))
        /\ UNCHANGED faults
     \/ /\ ~rt.pending /\ Fault
        /\ rt' = [rt EXCEPT !.pending = TRUE]
        /\ Post(Signal("reset"))
  /\ Go("check")
  /\ UNCHANGED <<life, sync, memory, journal, queue, cur, toQuery, txn, ghosts>>

\* The end of an iteration: the first time a session has caught up, mark_connected either
\* restores editing or finds the permissions changed.
Check ==
  /\ Worker("check")
  /\ LET caughtUp == ~rt.pending /\ rt.current
         r == [rt EXCEPT !.healthy = caughtUp, !.announced = caughtUp \/ @]
     IN
     IF caughtUp /\ ~rt.announced
       THEN \/ /\ rt' = [r EXCEPT !.established = TRUE, !.recTried = FALSE]
               /\ Post(Signal("restored"))
               /\ Go("top") /\ UNCHANGED faults
            \/ /\ Fault
               /\ rt' = r /\ Go("ending") /\ UNCHANGED inbox
       ELSE rt' = r /\ Go("top") /\ UNCHANGED <<inbox, faults>>
  /\ UNCHANGED <<life, sync, memory, journal, queue, cur, toQuery, txn, ghosts>>

\* stop_event is set: the worker leaves its loop.
StopSteps == {"top", "list", "query", "await", "serve", "poll"}

Leave ==
  /\ up /\ ~attached /\ pc \in StopSteps
  /\ Go("closing")
  /\ toQuery' = {}
  /\ UNCHANGED <<life, rt, sync, memory, journal, queue, inbox, cur, txn, ghosts, faults>>

\* The finally clause of _worker. A mutation that was tested before may still be queued
\* after it: nobody looks at the queue any more.
Close ==
  /\ Worker("closing")
  /\ rt' = [rt EXCEPT !.sgen = IF rt.session THEN @ + 1 ELSE @,
                      !.announced = ~rt.session /\ @,
                      !.session = FALSE, !.healthy = FALSE, !.ready = FALSE]
  /\ inbox' = inbox \o Cancellations
  /\ queue' = <<>>
  /\ Go("ended")
  /\ UNCHANGED <<life, sync, memory, journal, cur, toQuery, txn, ghosts, faults>>

\* _drain_database joined the worker of a detached runtime.
Drained ==
  /\ Worker("ended") /\ ~attached
  /\ \A i \in 1..Len(inbox) : inbox[i].kind # "drained"
  /\ Post(Signal("drained"))
  /\ UNCHANGED <<life, rt, sync, memory, journal, queue, worker, txn, ghosts, faults>>

-----------------------------------------------------------------------------
(* The server and the process *)

\* A transaction whose client is gone: COMMIT had arrived, or the server rolls it back.
ServerResolve(op) ==
  /\ txn[op] = "open"
  /\ ~(up /\ pc = "txn" /\ cur = op)
  /\ \E end \in {"committed", "aborted"} : txn' = [txn EXCEPT ![op] = end]
  /\ UNCHANGED <<life, rt, sync, memory, journal, queue, inbox, worker, ghosts, faults>>

\* The process dies: the journal and the server remain.
Crash ==
  /\ up /\ Fault /\ rt.gen < MaxGen
  /\ up' = FALSE
  /\ attached' = FALSE
  /\ pstate' = [op \in Ops |-> "none"]
  /\ uncertain' = {} /\ submitting' = NoOp /\ drain' = "none"
  /\ queue' = <<>> /\ inbox' = <<>>
  /\ pc' = "drained" /\ cur' = NoOp /\ toQuery' = {}
  /\ sync' = "OFFLINE"
  /\ stage' = [op \in Ops |-> IF stage[op] = "new" THEN "new" ELSE "past"]
  /\ UNCHANGED <<rt, journal, txn, told, verdicts, granted>>

Restart ==
  /\ ~up
  /\ up' = TRUE
  /\ attached' = TRUE
  /\ rt' = NewRuntime(rt.gen + 1)
  /\ pc' = "top"
  /\ UNCHANGED <<sync, memory, journal, queue, inbox, cur, toQuery, txn, ghosts, faults>>

-----------------------------------------------------------------------------
Init ==
  /\ up = TRUE /\ attached = TRUE
  /\ rt = NewRuntime(1)
  /\ sync = "OFFLINE"
  /\ pstate = [op \in Ops |-> "none"]
  /\ journal = [op \in Ops |-> "none"]
  /\ uncertain = {}
  /\ queue = <<>> /\ inbox = <<>>
  /\ submitting = NoOp
  /\ drain = "none"
  /\ pc = "top" /\ cur = NoOp /\ toQuery = {}
  /\ txn = [op \in Ops |-> "none"]
  /\ told = [op \in Ops |-> "nothing"]
  /\ verdicts = [op \in Ops |-> 0]
  /\ stage = [op \in Ops |-> "new"] /\ granted = {}
  /\ faults = 0

UserStep ==
  \/ \E op \in Ops : Submit(op) \/ SubmitUnrecorded(op) \/ Cancel(op)
  \/ RequestDrain \/ Refresh \/ Detach \/ Start

UiStep ==
  \/ TestRuntime \/ Enqueue \/ RefuseEnqueue
  \/ HandleResult \/ HandleLocal \/ HandleLocalFailure \/ HandleRecovered
  \/ HandleStarted \/ HandleStartedFailure \/ HandleStale
  \/ HandleRestored \/ HandleDisconnected \/ HandleBatch \/ HandleBatchFailure
  \/ HandleReconcile \/ HandleDrained

WorkerStep ==
  \/ LoseSession \/ BeginReset \/ EndReset \/ LeaveSession \/ StartSession
  \/ ListJournal \/ (\E op \in Ops : QueryOperation(op)) \/ AnnounceStart \/ BeginIteration
  \/ SkipServe \/ Take \/ Admit \/ RecordExecuting \/ Deny
  \/ Abort \/ LoseCommit \/ Commit \/ Settle \/ SettleFailure
  \/ Poll \/ Check \/ Leave \/ Close \/ Drained

Next ==
  \/ UserStep \/ UiStep \/ WorkerStep
  \/ \E op \in Ops : ServerResolve(op)
  \/ Crash \/ Restart

Spec == Init /\ [][Next]_vars

\* Qt delivers every queued event, the worker's thread is scheduled, and SQL Server
\* resolves every transaction whose client is gone. The user and the faults owe nothing.
Fairness ==
  /\ WF_vars(UiStep)
  /\ WF_vars(WorkerStep)
  /\ \A op \in Ops : WF_vars(ServerResolve(op))

FairSpec == Spec /\ Fairness

-----------------------------------------------------------------------------
(* Properties *)

\* Every variable has its type.
TypeOK ==
  /\ up \in BOOLEAN /\ attached \in BOOLEAN
  /\ rt \in Runtimes
  /\ sync \in {"HEALTHY", "CONFLICTED", "OFFLINE"}
  /\ pstate \in [Ops -> PendingStates] /\ journal \in [Ops -> PendingStates]
  /\ uncertain \in SUBSET Ops
  /\ queue \in Seq(Ops) /\ inbox \in Seq(Messages)
  /\ submitting \in Ops \cup {NoOp} /\ cur \in Ops \cup {NoOp}
  /\ pc \in HoldingSteps => cur \in Ops
  /\ drain \in {"none", "waiting", "failing", "ok", "failed"}
  /\ pc \in WorkerSteps
  /\ toQuery \in SUBSET Ops
  /\ txn \in [Ops -> {"none", "open", "committed", "aborted"}]
  /\ told \in [Ops -> {"nothing", "unresolved", "committed", "refused"}]
  /\ verdicts \in [Ops -> Nat]
  /\ stage \in [Ops -> {"new", "submitted", "tested", "accepted", "past"}]
  /\ granted \in SUBSET Ops
  /\ faults \in Nat

\* A caller told that its mutation committed can find it on the server, and one told that
\* it was refused, cancelled or failed will never see it commit, not even late.
VerdictsAreTrue ==
  \A op \in Ops :
    /\ told[op] = "committed" => txn[op] = "committed"
    /\ told[op] = "refused" => txn[op] \notin {"open", "committed"}

\* A caller gets one final answer.
OneVerdict == \A op \in Ops : verdicts[op] <= 1

\* What the caller sees is the promise of MutationOutcomes: one final answer, true, and
\* after it nothing else. A mutation is decided when the server decided it, or as soon as
\* it was refused.
Fate(op) ==
  IF txn[op] \in {"committed", "aborted"} THEN txn[op]
  ELSE IF told[op] = "refused" THEN "aborted"
  ELSE "open"
Outcome == INSTANCE MutationOutcomes WITH fate <- [op \in Ops |-> Fate(op)]
ImplementsOutcomes == Outcome!Spec

\* A mutation whose cancellation was granted never reaches the server.
CancelledNeverRuns == \A op \in granted : txn[op] = "none"

\* While the process lives, a mutation that committed is either reported as committed or
\* still registered: no recovery forgets it.
CommitReachesCaller ==
  \A op \in Ops : stage[op] = "accepted" /\ txn[op] = "committed" =>
    told[op] = "committed" \/ pstate[op] # "none"

\* A mutation that may commit unseen, or has committed and is not yet reported, is in the
\* journal, where the next session or the next process looks for it.
CommitIsJournaled ==
  \A op \in Ops :
    \/ txn[op] = "open"
    \/ txn[op] = "committed" /\ stage[op] = "accepted" /\ told[op] # "committed"
    => journal[op] # "none"

\* An uncertain commit's callback belongs to a registered operation, so the session start
\* that resolves it cannot raise before it wakes the worker.
UncertainIsRegistered == \A op \in uncertain : pstate[op] # "none"

\* A drain that succeeds leaves no critical mutation in the worker's hands. (A mutation whose
\* outcome is uncertain is in nobody's hands, but its transaction may still be open.)
DrainWaitsForExecution ==
  [][drain' = "ok" /\ drain # "ok" =>
       ~(pc \in {"admitted", "txn", "settle"} /\ cur \in Critical)]_vars

\* A drain that succeeds leaves no accepted critical mutation for the worker to execute.
DrainEmptiesQueue ==
  [][drain' = "ok" /\ drain # "ok" =>
       \A i \in 1..Len(queue) : queue[i] \notin Critical]_vars

\* What only the user can resolve: the program or the database was closed, the worker ended
\* on an error, or the one automatic recovery was used up.
NeedsUser ==
  ~up \/ ~attached \/ pc \in {"closing", "ended"} \/ (rt.recReq /\ ~rt.recReady)

\* A mutation whose fate is unknown to its caller is resolved, or waits for the user.
UnresolvedIsResolved ==
  \A op \in Ops :
    told[op] = "unresolved" ~> told[op] \in {"committed", "refused"} \/ NeedsUser
===============================================================================
