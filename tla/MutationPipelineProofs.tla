----------------------- MODULE MutationPipelineProofs -----------------------
(***************************************************************************)
(* Proofs about MutationPipeline, for every set of operations, capacity,   *)
(* number of faults and number of runtimes: it is correctly typed, its     *)
(* verdicts are true, and a mutation whose cancellation was granted never  *)
(* runs; and, in the second part, a caller gets one final answer, no       *)
(* commit is forgotten by a recovery, a drain waits for what the worker    *)
(* executes, and the pipeline implements MutationOutcomes.                 *)
(***************************************************************************)
EXTENDS MutationPipeline, SequenceTheorems, TLAPS

SignalKinds == {"started", "restored", "batch", "reset", "disconnected", "reconcile",
                "drained"}
DrainStates == {"none", "waiting", "failing", "ok", "failed"}

(* What the helpers of the model return. *)

\* Answers to callers are messages.
LEMMA AnswerType ==
  ASSUME rt \in Runtimes, NEW kind \in {"result", "local", "recovered"},
         NEW op \in Ops, NEW outcome \in Outcomes
  PROVE  Message(kind, op, outcome) \in Messages
BY DEF Message, Messages, Answers, Runtimes

\* Signals to the user interface are messages.
LEMMA SignalType ==
  ASSUME rt \in Runtimes, NEW kind \in SignalKinds
  PROVE  Signal(kind) \in Messages
BY DEF Signal, Message, Messages, Signals, SignalKinds, Runtimes

\* Completing a drain leaves it well-typed.
LEMMA DrainAfterType ==
  ASSUME drain \in DrainStates, NEW registry, NEW failed \in BOOLEAN
  PROVE  DrainAfter(registry, failed) \in DrainStates
BY DEF DrainAfter, DrainStates

\* The cancellations of a session reset are messages.
LEMMA CancellationsType ==
  ASSUME rt \in Runtimes, queue \in Seq(Ops)
  PROVE  Cancellations \in Seq(Messages)
<1>1. Len(queue) \in Nat /\ \A i \in 1..Len(queue) : queue[i] \in Ops
  BY ElementOfSeq, LenProperties
<1>2. \A i \in 1..Len(queue) : Result(queue[i], "CANCELLED_BEFORE_START") \in Messages
  BY <1>1, AnswerType DEF Result, Outcomes, Refusals
<1>3. QED
  BY <1>1, <1>2 DEF Cancellations

\* Requiring a reconciliation leaves the runtime well-typed.
LEMMA ReconcilingType ==
  ASSUME NEW r \in Runtimes
  PROVE  Reconciling(r) \in Runtimes
BY DEF Reconciling, Runtimes

\* The pipeline starts well-typed.
LEMMA InitType == Init => TypeOK
BY OpsAssumption, BoundsAssumption
   DEF Init, TypeOK, NewRuntime, Runtimes, PendingStates, WorkerSteps, HoldingSteps

\* Taking a message from the inbox leaves it well-typed, and the message is one.
LEMMA ReceiveType ==
  ASSUME inbox \in Seq(Messages), NEW kind, Receive(kind)
  PROVE  /\ Head(inbox) \in Messages
         /\ inbox' \in Seq(Messages)
         /\ Head(inbox).kind = kind
         /\ kind \in {"result", "local", "recovered"} =>
              /\ Head(inbox).op \in Ops
              /\ Head(inbox).outcome \in Outcomes
              /\ Head(inbox).gen \in Nat
BY HeadTailProperties DEF Receive, Messages, Answers, Signals

\* Completing a request, whatever its outcome, breaks no type.
LEMMA CompleteType ==
  ASSUME TypeOK, NEW op \in Ops, NEW outcome \in Outcomes, NEW g \in Nat,
         NEW callbacks \in SUBSET Ops, NEW raises \in BOOLEAN,
         Complete(op, outcome, g, callbacks, raises),
         inbox' \in Seq(Messages), faults' \in Nat
  PROVE  TypeOK'
<1> DEFINE trusted == RuntimeCurrent(g) /\ ~rt.recReq
           result == IF outcome = "COMMITTED" /\ ~trusted
                       THEN "COMMITTED_PROJECTION_FAILED" ELSE outcome
           registered == pstate[op] # "none"
           next == CASE result = "COMMIT_STATUS_UNKNOWN" -> "UNCERTAIN"
                     [] result = "COMMITTED_PROJECTION_FAILED" -> "RECOVERING"
                     [] result = "COMMITTED" -> IF raises THEN "RECOVERING" ELSE "none"
                     [] OTHER -> "none"
           final == (result = "COMMITTED" /\ ~raises) \/ result \in Refusals
           registry == [pstate EXCEPT ![op] = IF registered THEN next ELSE "none"]
<1>1. next \in PendingStates
  BY DEF PendingStates
<1>2. /\ told' = [told EXCEPT ![op] = IF ~final THEN "unresolved"
                                      ELSE IF result = "COMMITTED" THEN "committed"
                                      ELSE "refused"]
      /\ verdicts' = [verdicts EXCEPT ![op] = IF final THEN @ + 1 ELSE @]
      /\ pstate' = registry
      /\ journal' = IF registered THEN [journal EXCEPT ![op] = next] ELSE journal
      /\ uncertain' = IF registered /\ ~final THEN callbacks \cup {op} ELSE callbacks
      /\ IF registered /\ next = "RECOVERING" /\ attached
           THEN RequireReconciliation(rt)
           ELSE UNCHANGED <<rt, sync>>
      /\ drain' = DrainAfter(registry,
                             registered /\ op \in Critical /\ result \in Refusals)
      /\ UNCHANGED <<life, submitting, queue, worker, txn, stage, granted>>
  BY DEF Complete
<1> HIDE DEF trusted, result, registered, next, final
<1>3. pstate' \in [Ops -> PendingStates] /\ journal' \in [Ops -> PendingStates]
  BY <1>1, <1>2 DEF TypeOK, PendingStates
<1>4. /\ told' \in [Ops -> {"nothing", "unresolved", "committed", "refused"}]
      /\ verdicts' \in [Ops -> Nat]
  BY <1>2 DEF TypeOK
<1>5. uncertain' \in SUBSET Ops
  BY <1>2
<1>6. rt' \in Runtimes /\ sync' \in {"HEALTHY", "CONFLICTED", "OFFLINE"}
  BY <1>2, ReconcilingType DEF TypeOK, RequireReconciliation
<1>7. drain' \in DrainStates
  BY <1>2, DrainAfterType DEF TypeOK, DrainStates
<1>8. QED
  BY <1>2, <1>3, <1>4, <1>5, <1>6, <1>7 DEF TypeOK, DrainStates, life, worker

\* What the user does breaks no type.
LEMMA UserStepType ==
  ASSUME TypeOK, UserStep
  PROVE  TypeOK'
<1> USE DEF TypeOK, life, memory, worker, ghosts, PendingStates
<1>1. ASSUME NEW op \in Ops, Submit(op)
      PROVE  TypeOK'
  BY <1>1 DEF Submit
<1>2. ASSUME NEW op \in Ops, SubmitUnrecorded(op)
      PROVE  TypeOK'
  BY <1>2 DEF SubmitUnrecorded, Fault
<1>3. ASSUME NEW op \in Ops, Cancel(op)
      PROVE  TypeOK'
  BY <1>3, ZenonT(60) DEF Cancel, Runtimes
<1>4. CASE RequestDrain
  BY <1>4 DEF RequestDrain
<1>5. CASE Refresh
  BY <1>5 DEF Refresh, Runtimes
<1>6. CASE Detach
  BY <1>6 DEF Detach, Runtimes
<1>7. CASE Start
  BY <1>7 DEF Start, NewRuntime, Runtimes, WorkerSteps, HoldingSteps
<1>8. QED
  BY <1>1, <1>2, <1>3, <1>4, <1>5, <1>6, <1>7 DEF UserStep

\* The main thread's handlers break no type.
LEMMA UiStepType ==
  ASSUME TypeOK, UiStep
  PROVE  TypeOK'
<1> USE DEF life, memory, worker, ghosts
<1>0. CASE TestRuntime
  BY <1>0 DEF TestRuntime, TypeOK
<1>1. CASE Enqueue
  <2>1. queue' \in Seq(Ops)
    BY <1>1, AppendProperties DEF Enqueue, TypeOK
  <2>2. QED
    BY <1>1, <2>1 DEF Enqueue, TypeOK
<1>2. CASE RefuseEnqueue
  <2>1. drain' \in DrainStates
    BY <1>2, DrainAfterType DEF RefuseEnqueue, TypeOK, DrainStates
  <2>2. /\ submitting \in Ops
        /\ pstate' = [pstate EXCEPT ![submitting] = "none"]
        /\ journal' = [journal EXCEPT ![submitting] = "none"]
        /\ told' = [told EXCEPT ![submitting] = "refused"]
        /\ verdicts' = [verdicts EXCEPT ![submitting] = @ + 1]
        /\ submitting' = NoOp
        /\ UNCHANGED <<life, rt, sync, uncertain, queue, inbox, worker, txn, stage,
                       granted, faults>>
    BY <1>2 DEF RefuseEnqueue, TypeOK
  <2>3. QED
    BY <2>1, <2>2 DEF TypeOK, DrainStates, PendingStates
<1>3. CASE HandleResult
  BY <1>3, ReceiveType, CompleteType DEF HandleResult, TypeOK
<1>4. CASE HandleLocal
  BY <1>4, ReceiveType, CompleteType DEF HandleLocal, TypeOK, Outcomes
<1>5. CASE HandleLocalFailure
  <2> DEFINE m == Head(inbox)
  <2>1. /\ m.op \in Ops /\ m.gen \in Nat
        /\ inbox' \in Seq(Messages)
        /\ faults' \in Nat
    BY <1>5, ReceiveType DEF HandleLocalFailure, TypeOK, Fault
  <2>2. CASE Complete(m.op, "COMMITTED_PROJECTION_FAILED", m.gen, uncertain, FALSE)
    BY <2>1, <2>2, CompleteType DEF TypeOK, Outcomes
  <2>3. CASE Complete(m.op, "COMMITTED", m.gen, uncertain, TRUE)
    BY <2>1, <2>3, CompleteType DEF TypeOK, Outcomes
  <2>4. QED
    BY <1>5, <2>2, <2>3 DEF HandleLocalFailure
<1>6. CASE HandleRecovered
  BY <1>6, ReceiveType, CompleteType DEF HandleRecovered, TypeOK
<1>7. CASE HandleStarted
  <2> DEFINE awaited == rt.recovered \cap uncertain
             r == [rt EXCEPT !.recovered = {}]
  <2>1. PICK done \in SUBSET awaited :
          LET failed == awaited \ done
              state(op) == IF op \in failed THEN "RECOVERING" ELSE "none"
              registry == [op \in Ops |-> IF op \in rt.recovered THEN state(op)
                                          ELSE pstate[op]]
          IN
          /\ IF failed # {} /\ ~rt.recReq THEN Fault ELSE UNCHANGED faults
          /\ told' = [op \in Ops |-> IF op \in done THEN "committed"
                                     ELSE IF op \in failed THEN "unresolved" ELSE told[op]]
          /\ verdicts' = [op \in Ops |-> IF op \in done THEN verdicts[op] + 1
                                         ELSE verdicts[op]]
          /\ pstate' = registry
          /\ journal' = [op \in Ops |-> IF op \in rt.recovered THEN state(op)
                                        ELSE journal[op]]
          /\ uncertain' = uncertain \ done
          /\ rt' = [(IF failed = {} THEN r ELSE Reconciling(r)) EXCEPT !.healthy = FALSE,
                                                                       !.ready = TRUE]
          /\ drain' = DrainAfter(registry, FALSE)
    BY <1>7 DEF HandleStarted
  <2>2. rt' \in Runtimes
    <3>1. r \in Runtimes
      BY DEF TypeOK, Runtimes
    <3>2. Reconciling(r) \in Runtimes
      BY <3>1, ReconcilingType
    <3>3. QED
      BY <2>1, <3>1, <3>2, ZenonT(60) DEF Runtimes
  <2>3. drain' \in DrainStates
    BY <2>1, DrainAfterType DEF TypeOK, DrainStates
  <2>4. /\ pstate' \in [Ops -> PendingStates]
        /\ journal' \in [Ops -> PendingStates]
        /\ told' \in [Ops -> {"nothing", "unresolved", "committed", "refused"}]
        /\ verdicts' \in [Ops -> Nat]
        /\ uncertain' \in SUBSET Ops
        /\ faults' \in Nat
    BY <2>1 DEF TypeOK, PendingStates, Fault
  <2>5. inbox' \in Seq(Messages)
    BY <1>7, ReceiveType DEF HandleStarted, TypeOK
  <2>6. QED
    BY <1>7, <2>2, <2>3, <2>4, <2>5 DEF HandleStarted, TypeOK, DrainStates
<1>8. CASE HandleStartedFailure
  <2>1. rt' \in Runtimes /\ sync' \in {"HEALTHY", "CONFLICTED", "OFFLINE"}
    <3>1. PICK navigated \in BOOLEAN :
            LET r == IF navigated /\ ~rt.recReq THEN [rt EXCEPT !.recTried = FALSE] ELSE rt
            IN  /\ rt' = [Reconciling(r) EXCEPT !.ready = TRUE]
                /\ sync' = IF r.recReq THEN sync ELSE "OFFLINE"
      BY <1>8 DEF HandleStartedFailure
    <3> DEFINE r == IF navigated /\ ~rt.recReq THEN [rt EXCEPT !.recTried = FALSE] ELSE rt
    <3>2. r \in Runtimes
      BY DEF TypeOK, Runtimes
    <3>3. Reconciling(r) \in Runtimes
      BY <3>2, ReconcilingType
    <3>4. QED
      BY <3>1, <3>3, ZenonT(60) DEF Runtimes, TypeOK
  <2>2. drain' \in DrainStates
    BY <1>8, DrainAfterType DEF HandleStartedFailure, TypeOK, DrainStates
  <2>3. inbox' \in Seq(Messages) /\ faults' \in Nat
    BY <1>8, ReceiveType DEF HandleStartedFailure, Fault, TypeOK
  <2>4. QED
    BY <1>8, <2>1, <2>2, <2>3 DEF HandleStartedFailure, TypeOK, DrainStates
<1>9. CASE HandleStale
  <2>1. inbox' \in Seq(Messages)
    BY <1>9, HeadTailProperties DEF HandleStale, TypeOK
  <2>2. drain' \in DrainStates
    BY <1>9, DrainAfterType DEF HandleStale, TypeOK, DrainStates
  <2>3. QED
    BY <1>9, <2>1, <2>2 DEF HandleStale, TypeOK, DrainStates
<1>10. CASE HandleRestored
  BY <1>10, ReceiveType DEF HandleRestored, TypeOK
<1>11. CASE HandleDisconnected
  BY <1>11, ReceiveType DEF HandleDisconnected, TypeOK
<1>12. CASE HandleBatch
  <2>1. rt' \in Runtimes
    BY <1>12, ZenonT(60) DEF HandleBatch, TypeOK, Runtimes
  <2>2. QED
    BY <1>12, <2>1, ReceiveType DEF HandleBatch, TypeOK
<1>13. CASE HandleBatchFailure
  <2>1. rt' \in Runtimes /\ sync' \in {"HEALTHY", "CONFLICTED", "OFFLINE"}
    <3>1. CASE /\ rt' = [rt EXCEPT !.healthy = FALSE, !.pending = TRUE, !.recReq = TRUE,
                                   !.recReady = FALSE]
               /\ sync' = "CONFLICTED"
      BY <3>1 DEF TypeOK, Runtimes
    <3>2. CASE RequireReconciliation([rt EXCEPT !.pending = TRUE, !.healthy = FALSE])
      <4>1. [rt EXCEPT !.pending = TRUE, !.healthy = FALSE] \in Runtimes
        BY DEF TypeOK, Runtimes
      <4>2. QED
        BY <3>2, <4>1, ReconcilingType DEF RequireReconciliation, TypeOK
    <3>3. CASE RequireReconciliation(IF rt.recReq THEN rt
                                     ELSE [rt EXCEPT !.recTried = FALSE])
      <4>1. (IF rt.recReq THEN rt ELSE [rt EXCEPT !.recTried = FALSE]) \in Runtimes
        BY DEF TypeOK, Runtimes
      <4>2. QED
        BY <3>3, <4>1, ReconcilingType DEF RequireReconciliation, TypeOK
    <3>4. QED
      BY <1>13, <3>1, <3>2, <3>3 DEF HandleBatchFailure
  <2>2. QED
    BY <1>13, <2>1, ReceiveType DEF HandleBatchFailure, Fault, TypeOK
<1>14. CASE HandleReconcile
  <2>1. rt' \in Runtimes /\ sync' \in {"HEALTHY", "CONFLICTED", "OFFLINE"}
    BY <1>14, ReconcilingType DEF HandleReconcile, RequireReconciliation, TypeOK
  <2>2. QED
    BY <1>14, <2>1, ReceiveType DEF HandleReconcile, TypeOK
<1>15. CASE HandleDrained
  BY <1>15, ReceiveType DEF HandleDrained, TypeOK, WorkerSteps, HoldingSteps
<1>20. QED
  BY <1>0, <1>1, <1>2, <1>3, <1>4, <1>5, <1>6, <1>7, <1>8, <1>9, <1>10, <1>11, <1>12, <1>13,
     <1>14, <1>15 DEF UiStep

\* Posting a message leaves the inbox well-typed.
LEMMA PostType ==
  ASSUME inbox \in Seq(Messages), NEW m \in Messages, Post(m)
  PROVE  inbox' \in Seq(Messages)
BY AppendProperties DEF Post

\* The fields of rt whose next value is computed from the current one.
LEMMA EndSessionType ==
  ASSUME rt \in Runtimes, NEW g, g = IF rt.session THEN rt.sgen + 1 ELSE rt.sgen,
         NEW a, a = (~rt.session /\ rt.announced)
  PROVE  [rt EXCEPT !.sgen = g, !.announced = a] \in Runtimes
<1>1. g \in Nat
  BY DEF Runtimes
<1>2. a \in BOOLEAN
  OBVIOUS
<1>3. QED
  BY <1>1, <1>2 DEF Runtimes

\* The worker's steps break no type.
LEMMA WorkerStepType ==
  ASSUME TypeOK, WorkerStep
  PROVE  TypeOK'
<1> USE DEF life, memory, worker, ghosts, Worker, Go, WorkerSteps, HoldingSteps
<1>1. CASE LoseSession
  BY <1>1 DEF LoseSession, FailSteps, Fault, TypeOK, ResetSteps
<1>2. CASE BeginReset
  <2>1. ASSUME NEW step, NEW next \in ClearSteps, Reset(step, next)
        PROVE  TypeOK'
    <3>1. inbox' \in Seq(Messages)
      BY <2>1, CancellationsType, ConcatProperties DEF Reset, TypeOK
    <3>2. rt' \in Runtimes
      BY <2>1, EndSessionType DEF Reset, TypeOK
    <3>3. queue' \in Seq(Ops)
      BY <2>1, EmptySeq DEF Reset
    <3>4. QED
      BY <2>1, <3>1, <3>2, <3>3 DEF Reset, TypeOK, ClearSteps
  <2>2. QED
    BY <1>2, <2>1 DEF BeginReset, ClearSteps
<1>3. CASE EndReset
  <2>1. Cleared \in Runtimes /\ [Cleared EXCEPT !.pending = TRUE] \in Runtimes
    BY DEF Cleared, TypeOK, Runtimes
  <2>2. Signal("disconnected") \in Messages /\ Signal("reconcile") \in Messages
    BY SignalType DEF SignalKinds, TypeOK
  <2>3. inbox' \in Seq(Messages)
    <3>1. <<Signal("disconnected"), Signal("reconcile")>> \in Seq(Messages)
      BY <2>2
    <3>2. Append(inbox, Signal("disconnected")) \in Seq(Messages)
      BY <2>2, AppendProperties DEF TypeOK
    <3>3. inbox \o <<Signal("disconnected"), Signal("reconcile")>> \in Seq(Messages)
      BY <3>1, ConcatProperties DEF TypeOK
    <3>4. \/ inbox' = inbox
          \/ inbox' = Append(inbox, Signal("disconnected"))
          \/ inbox' = inbox \o <<Signal("disconnected"), Signal("reconcile")>>
      BY <1>3 DEF EndReset, Post
    <3>5. QED
      BY <3>2, <3>3, <3>4 DEF TypeOK
  <2>4. QED
    BY <1>3, <2>1, <2>3 DEF EndReset, TypeOK, ResetSteps, ClearSteps
<1>4. CASE LeaveSession
  BY <1>4 DEF LeaveSession, TypeOK, ResetSteps
<1>5. CASE StartSession
  <2>1. rt.sgen + 1 \in Nat
    BY DEF TypeOK, Runtimes
  <2>2. rt' \in Runtimes
    BY <1>5, <2>1 DEF StartSession, TypeOK, Runtimes
  <2>3. QED
    BY <1>5, <2>2 DEF StartSession, TypeOK
<1>6. CASE ListJournal
  BY <1>6 DEF ListJournal, TypeOK
<1>7. ASSUME NEW op \in Ops, QueryOperation(op)
      PROVE  TypeOK'
  <2>1. rt' \in Runtimes
    <3>1. rt.recovered \cup {op} \in SUBSET Ops
      BY DEF TypeOK, Runtimes
    <3>2. [rt EXCEPT !.recovered = @ \cup {op}] \in Runtimes
      BY <3>1 DEF TypeOK, Runtimes
    <3>3. QED
      BY <1>7, <3>2 DEF QueryOperation, TypeOK
  <2>2. inbox' \in Seq(Messages)
    BY <1>7, AnswerType, PostType DEF QueryOperation, TypeOK, Outcomes, Refusals
  <2>3. pstate' \in [Ops -> PendingStates] /\ journal' \in [Ops -> PendingStates]
    BY <1>7 DEF QueryOperation, TypeOK, PendingStates
  <2>4. QED
    BY <1>7, <2>1, <2>2, <2>3 DEF QueryOperation, TypeOK
<1>8. CASE AnnounceStart
  <2>1. inbox' \in Seq(Messages)
    BY <1>8, SignalType, PostType DEF AnnounceStart, TypeOK, SignalKinds
  <2>2. QED
    BY <1>8, <2>1 DEF AnnounceStart, TypeOK
<1>9. CASE BeginIteration
  BY <1>9 DEF BeginIteration, TypeOK
<1>10. CASE SkipServe
  BY <1>10 DEF SkipServe, TypeOK
<1>11. CASE Take
  <2>1. Head(queue) \in Ops /\ Tail(queue) \in Seq(Ops)
    BY <1>11, HeadTailProperties DEF Take, TypeOK
  <2>2. QED
    BY <1>11, <2>1 DEF Take, TypeOK
<1>12. CASE Admit
  <2>1. rt' \in Runtimes /\ cur \in Ops
    <3>1. rt.cancelled \ {cur} \in SUBSET Ops
      BY DEF TypeOK, Runtimes
    <3>2. [rt EXCEPT !.cancelled = @ \ {cur}] \in Runtimes
      BY <3>1 DEF TypeOK, Runtimes
    <3>3. QED
      BY <1>12, <3>2 DEF Admit, TypeOK
  <2>2. inbox' \in Seq(Messages)
    BY <1>12, <2>1, AnswerType, PostType DEF Admit, TypeOK, Result, Outcomes, Refusals
  <2>3. pstate' \in [Ops -> PendingStates]
    BY <1>12 DEF Admit, TypeOK, PendingStates
  <2>4. QED
    BY <1>12, <2>1, <2>2, <2>3 DEF Admit, TypeOK, ResetSteps
<1>13. CASE RecordExecuting
  <2>1. inbox' \in Seq(Messages)
    BY <1>13, AnswerType, PostType DEF RecordExecuting, TypeOK, Result, Outcomes, Refusals
  <2>2. journal' \in [Ops -> PendingStates]
    BY <1>13 DEF RecordExecuting, TypeOK, PendingStates
  <2>3. CASE Go("txn") /\ UNCHANGED <<inbox, cur, faults>>
    BY <1>13, <2>2, <2>3 DEF RecordExecuting, TypeOK
  <2>4. CASE Fault /\ Go("ending") /\ cur' = NoOp /\ UNCHANGED <<journal, txn>>
    BY <1>13, <2>1, <2>4 DEF RecordExecuting, Fault, TypeOK, ResetSteps
  <2>5. QED
    BY <1>13, <2>3, <2>4 DEF RecordExecuting
<1>14. CASE Deny
  <2>1. inbox' \in Seq(Messages)
    BY <1>14, AnswerType, PostType DEF Deny, TypeOK, Result, Outcomes, Refusals
  <2>2. journal' \in [Ops -> PendingStates]
    BY <1>14 DEF Deny, TypeOK, PendingStates
  <2>3. QED
    BY <1>14, <2>1, <2>2 DEF Deny, TypeOK
<1>15. CASE Abort
  <2>1. inbox' \in Seq(Messages)
    BY <1>15, AnswerType, PostType DEF Abort, TypeOK, Result, Outcomes, Refusals
  <2>2. QED
    BY <1>15, <2>1 DEF Abort, Fault, TypeOK, ResetSteps
<1>16. CASE LoseCommit
  <2>1. inbox' \in Seq(Messages)
    BY <1>16, AnswerType, PostType DEF LoseCommit, TypeOK, Result, Outcomes
  <2>2. QED
    BY <1>16, <2>1 DEF LoseCommit, Fault, TypeOK, ResetSteps
<1>17. CASE Commit
  BY <1>17 DEF Commit, TypeOK
<1>18. CASE Settle
  <2>1. inbox' \in Seq(Messages)
    BY <1>18, AnswerType, PostType DEF Settle, TypeOK, Outcomes
  <2>2. QED
    BY <1>18, <2>1 DEF Settle, TypeOK, PendingStates
<1>19. CASE SettleFailure
  <2>1. inbox' \in Seq(Messages)
    BY <1>19, AnswerType, PostType DEF SettleFailure, TypeOK, Result, Outcomes
  <2>2. pstate' \in [Ops -> PendingStates]
    BY <1>19 DEF SettleFailure, TypeOK, PendingStates
  <2>3. QED
    BY <1>19, <2>1, <2>2 DEF SettleFailure, Fault, TypeOK, ResetSteps
<1>20. CASE Poll
  <2>1. rt' \in Runtimes
    BY <1>20, ZenonT(60) DEF Poll, TypeOK, Runtimes
  <2>2. inbox' \in Seq(Messages)
    BY <1>20, SignalType, PostType DEF Poll, TypeOK, SignalKinds
  <2>3. QED
    BY <1>20, <2>1, <2>2 DEF Poll, Fault, TypeOK
<1>21. CASE Check
  <2>1. rt' \in Runtimes
    <3> DEFINE caughtUp == ~rt.pending /\ rt.current
               r == [rt EXCEPT !.healthy = caughtUp, !.announced = caughtUp \/ @]
    <3>1. caughtUp \in BOOLEAN /\ (caughtUp \/ rt.announced) \in BOOLEAN
      OBVIOUS
    <3>2. r \in Runtimes
      BY <3>1 DEF TypeOK, Runtimes
    <3>3. \/ rt' = [r EXCEPT !.established = TRUE, !.recTried = FALSE]
          \/ rt' = r
      BY <1>21 DEF Check
    <3> HIDE DEF r
    <3>4. QED
      BY <3>2, <3>3 DEF Runtimes
  <2>2. inbox' \in Seq(Messages)
    BY <1>21, SignalType, PostType DEF Check, TypeOK, SignalKinds
  <2>3. QED
    BY <1>21, <2>1, <2>2 DEF Check, Fault, TypeOK, ResetSteps
<1>22. CASE Leave
  BY <1>22 DEF Leave, StopSteps, TypeOK
<1>23. CASE Close
  <2>1. rt' \in Runtimes
    <3> DEFINE r == [rt EXCEPT !.sgen = IF rt.session THEN @ + 1 ELSE @,
                               !.announced = ~rt.session /\ @]
    <3>1. r \in Runtimes
      BY EndSessionType DEF TypeOK
    <3>2. rt' = [r EXCEPT !.session = FALSE, !.healthy = FALSE, !.ready = FALSE]
      BY <1>23 DEF Close, TypeOK, Runtimes
    <3> HIDE DEF r
    <3>3. QED
      BY <3>1, <3>2 DEF Runtimes
  <2>2. inbox' \in Seq(Messages) /\ queue' \in Seq(Ops)
    BY <1>23, CancellationsType, ConcatProperties, EmptySeq DEF Close, TypeOK
  <2>3. QED
    BY <1>23, <2>1, <2>2 DEF Close, TypeOK
<1>24. CASE Drained
  <2>1. inbox' \in Seq(Messages)
    BY <1>24, SignalType, PostType DEF Drained, TypeOK, SignalKinds
  <2>2. QED
    BY <1>24, <2>1 DEF Drained, TypeOK
<1>25. QED
  BY <1>1, <1>2, <1>3, <1>4, <1>5, <1>6, <1>7, <1>8, <1>9, <1>10, <1>11, <1>12, <1>13,
     <1>14, <1>15, <1>16, <1>17, <1>18, <1>19, <1>20, <1>21, <1>22, <1>23, <1>24
     DEF WorkerStep

\* Every step keeps the types.
LEMMA StepType ==
  ASSUME TypeOK, [Next]_vars
  PROVE  TypeOK'
<1> USE DEF life, memory, worker, ghosts
<1>1. CASE UserStep
  BY <1>1, UserStepType
<1>2. CASE UiStep
  BY <1>2, UiStepType
<1>3. CASE WorkerStep
  BY <1>3, WorkerStepType
<1>4. ASSUME NEW op \in Ops, ServerResolve(op)
      PROVE  TypeOK'
  BY <1>4 DEF ServerResolve, TypeOK
<1>5. CASE Crash
  <2>1. queue' \in Seq(Ops) /\ inbox' \in Seq(Messages)
    BY <1>5, EmptySeq DEF Crash
  <2>2. stage' \in [Ops -> {"new", "submitted", "tested", "accepted", "past"}]
    BY <1>5 DEF Crash, TypeOK
  <2>3. pstate' \in [Ops -> PendingStates]
    BY <1>5 DEF Crash, PendingStates
  <2>4. /\ up' = FALSE /\ attached' = FALSE /\ sync' = "OFFLINE"
        /\ uncertain' = {} /\ submitting' = NoOp /\ drain' = "none"
        /\ pc' = "drained" /\ cur' = NoOp /\ toQuery' = {}
        /\ faults' = faults + 1
        /\ UNCHANGED <<rt, journal, txn, told, verdicts, granted>>
    BY <1>5 DEF Crash, Fault
  <2>5. pc' \in WorkerSteps /\ pc' \notin HoldingSteps
    BY <2>4 DEF WorkerSteps, HoldingSteps
  <2>6. faults' \in Nat
    BY <2>4 DEF TypeOK
  <2>7. QED
    BY <2>1, <2>2, <2>3, <2>4, <2>5, <2>6 DEF TypeOK
<1>6. CASE Restart
  BY <1>6 DEF Restart, NewRuntime, TypeOK, Runtimes, WorkerSteps, HoldingSteps
<1>7. CASE UNCHANGED vars
  BY <1>7 DEF vars, TypeOK
<1>8. QED
  BY <1>1, <1>2, <1>3, <1>4, <1>5, <1>6, <1>7 DEF Next

\* Every variable keeps its type, whatever the interleaving of the two threads.
THEOREM TypeCorrect == Spec => []TypeOK
<1>1. Init => TypeOK
  BY InitType
<1>2. TypeOK /\ [Next]_vars => TypeOK'
  BY StepType
<1>3. QED
  BY <1>1, <1>2, PTL DEF Spec

-----------------------------------------------------------------------------
(* The invariant behind the verdicts: where an operation is, and what the server has
   done with it, are two accounts of the same fact. *)

Elements(seq) == {seq[i] : i \in 1..Len(seq)}
Queued == Elements(queue)
Held(op) == pc \in HoldingSteps /\ cur = op

\* Neither the UI nor the worker will ever run op again.
Finished(op) == stage[op] # "new" /\ submitting # op /\ op \notin Queued /\ ~Held(op)
NotRun(op) == txn[op] \in {"none", "aborted"}

\* An operation is in one place at a time, and the server's transaction matches it.
Placed ==
  /\ submitting # NoOp => stage[submitting] \in {"submitted", "tested"}
  /\ \A i, j \in 1..Len(queue) : queue[i] = queue[j] => i = j
  /\ \A op \in Queued : stage[op] = "accepted" /\ txn[op] = "none"
  /\ pc \in HoldingSteps => stage[cur] = "accepted" /\ cur \notin Queued
  /\ pc \in {"taken", "admitted"} => txn[cur] = "none"
  /\ pc = "txn" => txn[cur] = "open"
  /\ pc = "settle" => txn[cur] = "committed"
  /\ \A op \in Ops : stage[op] \in {"new", "submitted", "tested"} => txn[op] = "none"
  /\ ~up => queue = <<>> /\ pc = "drained"

\* What a message of the worker claims of the operation it answers.
Truthful(m) ==
  /\ m.kind = "local" \/ m.outcome = "COMMITTED" => txn[m.op] = "committed"
  /\ m.outcome \in Refusals => NotRun(m.op)

\* Answers and verdicts are about operations that will not run again, and are true.
Answered ==
  /\ \A m \in Elements(inbox) : m.op \in Ops => Finished(m.op) /\ Truthful(m)
  /\ \A op \in uncertain : Finished(op)
  /\ \A op \in rt.recovered : txn[op] = "committed"
  /\ \A op \in Ops : told[op] = "refused" => Finished(op) /\ NotRun(op)
  /\ \A op \in Ops : told[op] = "committed" => txn[op] = "committed"

\* A granted cancellation is still in force.
Cancelled ==
  /\ \A op \in Ops : pstate[op] = "QUEUED" =>
       /\ txn[op] = "none"
       /\ ~(pc \in {"admitted", "txn", "settle"} /\ cur = op)
       /\ stage[op] = "accepted" \/ submitting = op
  /\ \A op \in granted :
       /\ txn[op] = "none"
       /\ ~(pc \in {"admitted", "txn", "settle"} /\ cur = op)
       /\ op \in Queued \/ Held(op) => op \in rt.cancelled
       /\ stage[op] \in {"accepted", "past"}

-----------------------------------------------------------------------------
(* Sequences as the sets of their elements. *)

\* Appending to a queue adds one element.
LEMMA ElementsOfAppend ==
  ASSUME NEW S, NEW seq \in Seq(S), NEW e \in S
  PROVE  Elements(Append(seq, e)) = Elements(seq) \cup {e}
<1>1. Len(seq) \in Nat
  BY LenProperties
<1>2. Len(Append(seq, e)) = Len(seq) + 1
  BY AppendProperties
<1>3. \A i \in 1..Len(seq) : Append(seq, e)[i] = seq[i]
  BY AppendProperties
<1>4. Append(seq, e)[Len(seq) + 1] = e
  BY AppendProperties
<1>5. QED
  BY <1>1, <1>2, <1>3, <1>4 DEF Elements

\* Taking the head of a queue adds no element.
LEMMA ElementsOfTail ==
  ASSUME NEW S, NEW seq \in Seq(S), seq # <<>>
  PROVE  /\ Elements(Tail(seq)) \subseteq Elements(seq)
         /\ Head(seq) \in Elements(seq)
<1>1. Len(seq) \in Nat \ {0}
  BY EmptySeq
<1>2. Len(Tail(seq)) = Len(seq) - 1
  BY HeadTailProperties
<1>3. \A i \in 1..Len(Tail(seq)) : Tail(seq)[i] = seq[i+1]
  BY HeadTailProperties
<1>4. Head(seq) = seq[1]
  OBVIOUS
<1>5. QED
  BY <1>1, <1>2, <1>3, <1>4 DEF Elements

\* Joining two queues joins their elements.
LEMMA ElementsOfConcat ==
  ASSUME NEW S, NEW s \in Seq(S), NEW t \in Seq(S)
  PROVE  Elements(s \o t) \subseteq Elements(s) \cup Elements(t)
<1>1. Len(s) \in Nat /\ Len(t) \in Nat
  BY LenProperties
<1>2. Len(s \o t) = Len(s) + Len(t)
  BY ConcatProperties
<1>3. ASSUME NEW i \in 1..(Len(s) + Len(t))
      PROVE  (s \o t)[i] \in Elements(s) \cup Elements(t)
  <2>1. CASE i <= Len(s)
    BY <1>1, <2>1, ConcatProperties DEF Elements
  <2>2. CASE i > Len(s)
    <3>1. (s \o t)[i] = t[i - Len(s)] /\ i - Len(s) \in 1..Len(t)
      BY <1>1, <2>2, ConcatProperties
    <3>2. QED
      BY <3>1 DEF Elements
  <2>3. QED
    BY <1>1, <2>1, <2>2
<1>4. QED
  BY <1>2, <1>3 DEF Elements

\* An empty queue has no element.
LEMMA ElementsOfEmpty == Elements(<<>>) = {}
BY DEF Elements

\* What is queued is an operation.
LEMMA QueueElements ==
  ASSUME TypeOK
  PROVE  Queued \subseteq Ops
BY ElementOfSeq, LenProperties DEF TypeOK, Queued, Elements

-----------------------------------------------------------------------------
(* Placed is an invariant. *)

\* Most steps move neither an operation nor its transaction.
Still ==
  /\ UNCHANGED <<stage, submitting, queue, txn, up>>
  /\ pc' \notin HoldingSteps \/ UNCHANGED <<pc, cur>>
  /\ ~up => UNCHANGED pc

\* The user's other steps leave every operation where it is.
LEMMA StillUserStep ==
  ASSUME RequestDrain \/ Refresh \/ Detach \/ \E op \in Ops : Cancel(op)
  PROVE  Still
BY DEF RequestDrain, Refresh, Detach, Cancel, Still, life, memory, worker, ghosts

UiMove == TestRuntime \/ Enqueue \/ RefuseEnqueue

\* The main thread's other handlers leave every operation where it is.
LEMMA StillUiStep ==
  ASSUME UiStep, ~UiMove
  PROVE  Still
<1> USE DEF Still, life, memory, worker, ghosts
<1>1. CASE HandleResult \/ HandleLocal \/ HandleLocalFailure
  BY <1>1 DEF HandleResult, HandleLocal, HandleLocalFailure, Complete
<1>2. CASE HandleRecovered
  BY <1>2 DEF HandleRecovered, Complete
<1>3. CASE HandleStarted
  BY <1>3 DEF HandleStarted
<1>4. CASE HandleStartedFailure \/ HandleStale
  BY <1>4 DEF HandleStartedFailure, HandleStale
<1>5. CASE HandleRestored \/ HandleDisconnected \/ HandleBatch \/ HandleBatchFailure
  BY <1>5 DEF HandleRestored, HandleDisconnected, HandleBatch, HandleBatchFailure
<1>6. CASE HandleReconcile
  BY <1>6 DEF HandleReconcile
<1>7. CASE HandleDrained
  BY <1>7 DEF HandleDrained, Receive, UiIdle, HoldingSteps
<1>8. QED
  BY <1>1, <1>2, <1>3, <1>4, <1>5, <1>6, <1>7 DEF UiStep, UiMove

WorkerMove == BeginReset \/ Take \/ Admit \/ RecordExecuting \/ Abort \/ Commit \/ Close

\* The worker's other steps leave every operation where it is.
LEMMA StillWorkerStep ==
  ASSUME WorkerStep, ~WorkerMove
  PROVE  Still
<1> USE DEF Still, life, memory, worker, ghosts, Worker, Go, HoldingSteps
<1>1. CASE LoseSession \/ LeaveSession \/ ListJournal
  BY <1>1 DEF LoseSession, LeaveSession, ListJournal, FailSteps
<1>2. CASE EndReset \/ StartSession \/ Leave \/ Drained
  BY <1>2 DEF EndReset, StartSession, Leave, Drained
<1>3. ASSUME NEW op \in Ops, QueryOperation(op)
      PROVE  Still
  BY <1>3 DEF QueryOperation
<1>4. CASE AnnounceStart \/ BeginIteration \/ SkipServe
  BY <1>4 DEF AnnounceStart, BeginIteration, SkipServe
<1>5. CASE Deny \/ LoseCommit \/ Settle \/ SettleFailure
  BY <1>5 DEF Deny, LoseCommit, Settle, SettleFailure
<1>6. CASE Poll \/ Check
  BY <1>6 DEF Poll, Check
<1>7. QED
  BY <1>1, <1>2, <1>3, <1>4, <1>5, <1>6 DEF WorkerStep, WorkerMove

\* A step that moves no operation keeps every operation in one place.
LEMMA PlacedStill ==
  ASSUME Placed, Still
  PROVE  Placed'
BY DEF Placed, Still, Queued, Elements, HoldingSteps

\* A step keeps every operation in one place.
LEMMA PlacedStep ==
  ASSUME TypeOK, Placed, [Next]_vars
  PROVE  Placed'
<1> USE DEF life, memory, worker, ghosts, HoldingSteps
<1>1. ASSUME NEW op \in Ops, Submit(op)
      PROVE  Placed'
  BY <1>1 DEF Submit, UiIdle, Placed, TypeOK, Queued, Elements
<1>2. ASSUME NEW op \in Ops, SubmitUnrecorded(op)
      PROVE  Placed'
  BY <1>2 DEF SubmitUnrecorded, UiIdle, Placed, TypeOK, Queued, Elements
<1>3. CASE Start
  BY <1>3, ElementsOfEmpty DEF Start, UiIdle, Placed, TypeOK, Queued
<1>0. CASE TestRuntime
  BY <1>0 DEF TestRuntime, Placed, TypeOK, Queued, Elements
<1>4. CASE Enqueue
  <2>1. submitting \in Ops /\ stage[submitting] = "tested" /\ txn[submitting] = "none"
    BY <1>4 DEF Enqueue, TypeOK, Placed
  <2>2. Queued' = Queued \cup {submitting}
    BY <1>4, <2>1, ElementsOfAppend DEF Enqueue, Queued, TypeOK
  <2>3. submitting \notin Queued /\ Queued \subseteq Ops
    BY <2>1, QueueElements DEF Placed
  <2>4. \A i, j \in 1..Len(queue') : queue'[i] = queue'[j] => i = j
    <3>1. /\ Len(queue) \in Nat
          /\ Len(queue') = Len(queue) + 1
          /\ \A i \in 1..Len(queue) : queue'[i] = queue[i]
          /\ queue'[Len(queue) + 1] = submitting
      BY <1>4, <2>1, AppendProperties, LenProperties DEF Enqueue, TypeOK
    <3>2. \A i \in 1..Len(queue) : queue[i] # submitting
      BY <2>3 DEF Queued, Elements
    <3>3. QED
      BY <3>1, <3>2 DEF Placed
  <2>5. pc \in HoldingSteps => cur # submitting
    BY <2>1 DEF Placed
  <2>6. QED
    BY <1>4, <2>1, <2>2, <2>3, <2>4, <2>5 DEF Enqueue, Placed, TypeOK
<1>5. CASE RefuseEnqueue
  BY <1>5 DEF RefuseEnqueue, Placed, TypeOK, Queued, Elements
<1>6. CASE BeginReset
  BY <1>6, ElementsOfEmpty DEF BeginReset, Reset, Worker, Go, Placed, Queued
<1>7. CASE Take
  <2>1. queue \in Seq(Ops) /\ queue # <<>>
    BY <1>7 DEF Take, TypeOK
  <2>2. Queued' \subseteq Queued /\ cur' \in Queued
    BY <1>7, <2>1, ElementsOfTail DEF Take, Queued
  <2>3. /\ Len(queue) \in Nat \ {0}
        /\ Len(queue') = Len(queue) - 1
        /\ \A i \in 1..Len(queue') : queue'[i] = queue[i+1]
        /\ cur' = queue[1]
    BY <1>7, <2>1, HeadTailProperties, EmptySeq DEF Take
  <2>4. \A i, j \in 1..Len(queue') : queue'[i] = queue'[j] => i = j
    BY <2>3 DEF Placed
  <2>5. cur' \notin Queued'
    BY <2>3 DEF Placed, Queued, Elements
  <2>6. QED
    BY <1>7, <2>2, <2>4, <2>5 DEF Take, Worker, Go, Placed
<1>8. CASE Admit
  BY <1>8 DEF Admit, Worker, Go, Placed, Queued, Elements
<1>9. CASE RecordExecuting
  BY <1>9 DEF RecordExecuting, Worker, Go, Placed, TypeOK, Queued, Elements
<1>10. CASE Abort
  BY <1>10 DEF Abort, Worker, Go, Placed, TypeOK, Queued, Elements
<1>11. CASE Commit
  BY <1>11 DEF Commit, Worker, Go, Placed, TypeOK, Queued, Elements
<1>12. CASE Close
  BY <1>12, ElementsOfEmpty DEF Close, Worker, Go, Placed, Queued
<1>13. ASSUME NEW op \in Ops, ServerResolve(op)
      PROVE  Placed'
  BY <1>13 DEF ServerResolve, Placed, TypeOK, Queued, Elements
<1>14. CASE Crash
  BY <1>14, ElementsOfEmpty DEF Crash, Placed, TypeOK, Queued
<1>15. CASE Restart
  BY <1>15 DEF Restart, Placed, TypeOK, Queued, Elements
<1>16. CASE UNCHANGED vars
  BY <1>16, PlacedStill DEF vars, Still
<1>17. CASE UserStep
  BY <1>1, <1>2, <1>3, <1>17, StillUserStep, PlacedStill DEF UserStep
<1>18. CASE UiStep
  BY <1>0, <1>4, <1>5, <1>18, StillUiStep, PlacedStill DEF UiMove
<1>19. CASE WorkerStep
  BY <1>6, <1>7, <1>8, <1>9, <1>10, <1>11, <1>12, <1>19, StillWorkerStep, PlacedStill
     DEF WorkerMove
<1>20. QED
  BY <1>13, <1>14, <1>15, <1>16, <1>17, <1>18, <1>19 DEF Next

-----------------------------------------------------------------------------
(* What has finished stays finished, and what committed stays committed. *)

Stable(op) ==
  /\ Finished(op) => Finished(op)'
  /\ Finished(op) /\ NotRun(op) => NotRun(op)'
  /\ txn[op] = "committed" => txn'[op] = "committed"

\* An operation that stays where it is stays finished, and its fate decided.
LEMMA StableStill ==
  ASSUME Still, NEW op \in Ops
  PROVE  Stable(op)
BY DEF Still, Stable, Finished, NotRun, Held, Queued, Elements, HoldingSteps

\* A step reverses the fate of no finished operation.
LEMMA StableStep ==
  ASSUME TypeOK, Placed, [Next]_vars, NEW op \in Ops
  PROVE  Stable(op)
<1> USE DEF life, memory, worker, ghosts, HoldingSteps, Stable, Finished, NotRun, Held
<1>1. ASSUME NEW o \in Ops, Submit(o)
      PROVE  Stable(op)
  BY <1>1 DEF Submit, UiIdle, TypeOK, Queued, Elements
<1>2. ASSUME NEW o \in Ops, SubmitUnrecorded(o)
      PROVE  Stable(op)
  BY <1>2 DEF SubmitUnrecorded, UiIdle, TypeOK, Queued, Elements
<1>3. CASE Start
  BY <1>3, ElementsOfEmpty DEF Start, UiIdle, Queued
<1>0. CASE TestRuntime
  BY <1>0 DEF TestRuntime, TypeOK, Queued, Elements
<1>4. CASE Enqueue
  <2>1. Queued' = Queued \cup {submitting}
    BY <1>4, ElementsOfAppend DEF Enqueue, Queued, TypeOK
  <2>2. QED
    BY <1>4, <2>1, OpsAssumption DEF Enqueue, TypeOK
<1>5. CASE RefuseEnqueue
  BY <1>5, OpsAssumption DEF RefuseEnqueue, TypeOK, Queued, Elements
<1>6. CASE BeginReset
  BY <1>6, ElementsOfEmpty DEF BeginReset, Reset, Worker, Go, Queued
<1>7. CASE Take
  <2>1. Queued' \subseteq Queued /\ cur' \in Queued
    BY <1>7, ElementsOfTail DEF Take, Queued, TypeOK
  <2>2. QED
    BY <1>7, <2>1 DEF Take, Worker, Go
<1>8. CASE Admit
  BY <1>8 DEF Admit, Worker, Go, Queued, Elements
<1>9. CASE RecordExecuting
  BY <1>9 DEF RecordExecuting, Worker, Go, Placed, TypeOK, Queued, Elements
<1>10. CASE Abort
  BY <1>10 DEF Abort, Worker, Go, Placed, TypeOK, Queued, Elements
<1>11. CASE Commit
  BY <1>11 DEF Commit, Worker, Go, Placed, TypeOK, Queued, Elements
<1>12. CASE Close
  BY <1>12, ElementsOfEmpty DEF Close, Worker, Go, Queued
<1>13. ASSUME NEW o \in Ops, ServerResolve(o)
      PROVE  Stable(op)
  BY <1>13 DEF ServerResolve, TypeOK, Queued, Elements
<1>14. CASE Crash
  BY <1>14, ElementsOfEmpty, OpsAssumption DEF Crash, TypeOK, Queued
<1>15. CASE Restart
  BY <1>15 DEF Restart, Queued, Elements
<1>16. CASE UNCHANGED vars
  BY <1>16 DEF vars, Queued, Elements
<1> HIDE DEF Stable
<1>17. CASE UserStep
  BY <1>1, <1>2, <1>3, <1>17, StillUserStep, StableStill DEF UserStep
<1>18. CASE UiStep
  BY <1>0, <1>4, <1>5, <1>18, StillUiStep, StableStill DEF UiMove
<1>19. CASE WorkerStep
  BY <1>6, <1>7, <1>8, <1>9, <1>10, <1>11, <1>12, <1>19, StillWorkerStep, StableStill
     DEF WorkerMove
<1>20. QED
  BY <1>13, <1>14, <1>15, <1>16, <1>17, <1>18, <1>19 DEF Next

-----------------------------------------------------------------------------
(* Answered is an invariant: a step has to justify only what it adds. *)

Letters == Elements(inbox)

Justified ==
  /\ \A m \in Letters' \ Letters : m.op \in Ops => Finished(m.op)' /\ Truthful(m)'
  /\ \A op \in uncertain' \ uncertain : Finished(op)'
  /\ \A op \in rt'.recovered \ rt.recovered : txn'[op] = "committed"
  /\ \A op \in Ops : told'[op] = "refused" /\ told[op] # "refused" =>
       Finished(op)' /\ NotRun(op)'
  /\ \A op \in Ops : told'[op] = "committed" /\ told[op] # "committed" =>
       txn'[op] = "committed"

\* A step whose new answers are justified keeps all of them true.
LEMMA AnsweredJustified ==
  ASSUME TypeOK, Answered, \A op \in Ops : Stable(op), Justified, TypeOK'
  PROVE  Answered'
<1>1. ASSUME NEW m \in Letters', m.op \in Ops
      PROVE  Finished(m.op)' /\ Truthful(m)'
  <2>1. CASE m \in Letters
    <3>1. Finished(m.op) /\ Truthful(m)
      BY <1>1, <2>1 DEF Answered, Letters
    <3>2. QED
      BY <1>1, <3>1 DEF Stable, Truthful
  <2>2. CASE m \notin Letters
    BY <1>1, <2>2 DEF Justified
  <2>3. QED
    BY <2>1, <2>2
<1>2. \A op \in uncertain' : Finished(op)'
  BY DEF Answered, Stable, Justified, TypeOK
<1>3. \A op \in rt'.recovered : txn'[op] = "committed"
  <2>1. rt'.recovered \subseteq Ops
    BY DEF TypeOK, Runtimes
  <2>2. QED
    BY <2>1 DEF Answered, Stable, Justified
<1>4. \A op \in Ops : told'[op] = "refused" => Finished(op)' /\ NotRun(op)'
  BY DEF Answered, Stable, Justified
<1>5. \A op \in Ops : told'[op] = "committed" => txn'[op] = "committed"
  BY DEF Answered, Stable, Justified
<1>6. QED
  BY <1>1, <1>2, <1>3, <1>4, <1>5 DEF Answered, Letters

\* Taking a message adds no letter.
LEMMA LettersOfTail ==
  ASSUME TypeOK, inbox # <<>>, inbox' = Tail(inbox)
  PROVE  Letters' \subseteq Letters /\ Head(inbox) \in Letters
BY ElementsOfTail DEF Letters, TypeOK

\* Posting a message adds that letter only.
LEMMA LettersOfPost ==
  ASSUME TypeOK, NEW m \in Messages, Post(m)
  PROVE  Letters' \ Letters \subseteq {m}
BY ElementsOfAppend DEF Letters, Post, TypeOK

\* A session reset adds cancellations only.
LEMMA LettersOfCancellations ==
  ASSUME TypeOK, inbox' = inbox \o Cancellations
  PROVE  \A m \in Letters' \ Letters :
           \E op \in Queued : m = Result(op, "CANCELLED_BEFORE_START")
<1>1. Letters' \subseteq Letters \cup Elements(Cancellations)
  BY ElementsOfConcat, CancellationsType DEF Letters, TypeOK
<1>2. ASSUME NEW m \in Elements(Cancellations)
      PROVE  \E op \in Queued : m = Result(op, "CANCELLED_BEFORE_START")
  <2>1. Len(Cancellations) = Len(queue)
    BY LenProperties DEF Cancellations, TypeOK
  <2>2. PICK i \in 1..Len(queue) : m = Cancellations[i]
    BY <2>1 DEF Elements
  <2>3. m = Result(queue[i], "CANCELLED_BEFORE_START")
    BY <2>2 DEF Cancellations
  <2>4. queue[i] \in Queued
    BY DEF Queued, Elements
  <2>5. QED
    BY <2>3, <2>4
<1>3. QED
  BY <1>1, <1>2

\* A step that only takes or adds nothing to what Answered speaks about.
LEMMA JustifiedQuiet ==
  ASSUME Letters' \subseteq Letters, UNCHANGED <<uncertain, told>>,
         rt'.recovered \subseteq rt.recovered
  PROVE  Justified
BY DEF Justified

\* Requiring a reconciliation leaves what was recovered.
LEMMA RecoveredOfReconciling ==
  ASSUME NEW r \in Runtimes
  PROVE  Reconciling(r).recovered = r.recovered
BY DEF Reconciling, Runtimes

\* Completing a request keeps what its caller was told justified.
LEMMA CompleteJustified ==
  ASSUME TypeOK, NEW op \in Ops, NEW outcome \in Outcomes, NEW g,
         NEW callbacks \in SUBSET uncertain, NEW raises \in BOOLEAN,
         Complete(op, outcome, g, callbacks, raises),
         Letters' \subseteq Letters,
         Finished(op)',
         outcome = "COMMITTED" => txn'[op] = "committed",
         outcome \in Refusals => NotRun(op)'
  PROVE  Justified
<1> DEFINE trusted == RuntimeCurrent(g) /\ ~rt.recReq
           result == IF outcome = "COMMITTED" /\ ~trusted
                       THEN "COMMITTED_PROJECTION_FAILED" ELSE outcome
           final == (result = "COMMITTED" /\ ~raises) \/ result \in Refusals
<1>1. /\ told' = [told EXCEPT ![op] = IF ~final THEN "unresolved"
                                      ELSE IF result = "COMMITTED" THEN "committed"
                                      ELSE "refused"]
      /\ uncertain' \subseteq callbacks \cup {op}
      /\ RequireReconciliation(rt) \/ UNCHANGED rt
  BY DEF Complete
<1>2. result \in Refusals => outcome \in Refusals
  BY DEF Refusals
<1>3. result = "COMMITTED" => outcome = "COMMITTED"
  OBVIOUS
<1> HIDE DEF trusted, result
<1>4. \A o \in Ops : told'[o] = "committed" /\ told[o] # "committed" => txn'[o] = "committed"
  BY <1>1, <1>3 DEF TypeOK
<1>5. \A o \in Ops : told'[o] = "refused" /\ told[o] # "refused" =>
        Finished(o)' /\ NotRun(o)'
  BY <1>1, <1>2 DEF TypeOK
<1>6. rt'.recovered = rt.recovered
  BY <1>1, RecoveredOfReconciling DEF RequireReconciliation, TypeOK
<1>7. QED
  BY <1>1, <1>4, <1>5, <1>6 DEF Justified

\* The message that is handled was one of the letters.
LEMMA ReceivedAnswer ==
  ASSUME TypeOK, Answered, NEW kind \in {"result", "local", "recovered"}, Receive(kind),
         \A op \in Ops : Stable(op), UNCHANGED txn, NEW m, m = Head(inbox)
  PROVE  /\ m.op \in Ops /\ m.outcome \in Outcomes /\ m.kind = kind
         /\ Finished(m.op)' /\ Truthful(m)'
         /\ Letters' \subseteq Letters
<1>1. inbox # <<>> /\ inbox' = Tail(inbox)
  BY DEF Receive
<1>2. m.op \in Ops /\ m.outcome \in Outcomes /\ m.kind = kind
  BY ReceiveType DEF TypeOK
<1>3. m \in Letters /\ Letters' \subseteq Letters
  BY <1>1, LettersOfTail
<1>4. Finished(m.op) /\ Truthful(m)
  BY <1>2, <1>3 DEF Answered, Letters
<1>5. Finished(m.op)'
  BY <1>2, <1>4 DEF Stable
<1>6. Truthful(m)'
  BY <1>4 DEF Truthful, NotRun
<1>7. QED
  BY <1>2, <1>3, <1>5, <1>6

\* The main thread's handlers keep answers justified.
LEMMA UiStepJustified ==
  ASSUME TypeOK, Placed, Answered, UiStep, \A op \in Ops : Stable(op)
  PROVE  Justified
<1> USE DEF life, memory, worker, ghosts
<1> PICK m : m = Head(inbox)
  OBVIOUS
<1>1. CASE TestRuntime \/ Enqueue
  BY <1>1, JustifiedQuiet DEF TestRuntime, Enqueue, Letters
<1>2. CASE RefuseEnqueue
  <2>1. PICK op \in Ops : op = submitting
    BY <1>2 DEF RefuseEnqueue, TypeOK
  <2>2. /\ told' = [told EXCEPT ![op] = "refused"]
        /\ submitting' = NoOp
        /\ UNCHANGED <<inbox, uncertain, rt, stage, queue, txn, worker>>
    BY <1>2, <2>1 DEF RefuseEnqueue
  <2>3. NotRun(op)' /\ Finished(op)'
    BY <2>1, <2>2, OpsAssumption DEF Placed, NotRun, Finished, Held, Queued, Elements
  <2>4. QED
    BY <2>2, <2>3 DEF Justified, TypeOK, Letters
<1>3. CASE HandleResult
  <2>1. Receive("result") /\ Complete(m.op, m.outcome, m.gen, uncertain, FALSE)
    BY <1>3 DEF HandleResult
  <2>2. UNCHANGED txn
    BY <2>1 DEF Complete
  <2>3. QED
    BY <2>1, <2>2, ReceivedAnswer, CompleteJustified DEF Truthful
<1>4. CASE HandleLocal
  <2> DEFINE outcome == IF SessionCurrent(m) THEN "COMMITTED"
                        ELSE "COMMITTED_PROJECTION_FAILED"
  <2>1. Receive("local") /\ Complete(m.op, outcome, m.gen, uncertain, FALSE)
    BY <1>4 DEF HandleLocal
  <2>2. UNCHANGED txn
    BY <2>1 DEF Complete
  <2>3. outcome \in Outcomes /\ outcome \notin Refusals
    BY DEF Outcomes, Refusals
  <2> HIDE DEF outcome
  <2>4. QED
    BY <2>1, <2>2, <2>3, ReceivedAnswer, CompleteJustified DEF Truthful
<1>5. CASE HandleLocalFailure
  <2>1. PICK outcome \in {"COMMITTED", "COMMITTED_PROJECTION_FAILED"}, raises \in BOOLEAN :
          Complete(m.op, outcome, m.gen, uncertain, raises)
    BY <1>5 DEF HandleLocalFailure
  <2>2. Receive("local") /\ UNCHANGED txn
    BY <1>5, <2>1 DEF HandleLocalFailure, Complete
  <2>3. outcome \in Outcomes /\ outcome \notin Refusals
    BY DEF Outcomes, Refusals
  <2>4. QED
    BY <2>1, <2>2, <2>3, ReceivedAnswer, CompleteJustified DEF Truthful
<1>6. CASE HandleRecovered
  <2>1. CASE Complete(m.op, m.outcome, m.gen, uncertain \ {m.op}, FALSE)
    <3>1. Receive("recovered") /\ UNCHANGED txn
      BY <1>6, <2>1 DEF HandleRecovered, Complete
    <3>2. QED
      BY <2>1, <3>1, ReceivedAnswer, CompleteJustified DEF Truthful
  <2>2. CASE UNCHANGED <<rt, memory, ghosts>>
    BY <1>6, <2>2, LettersOfTail, JustifiedQuiet DEF HandleRecovered, Receive
  <2>3. QED
    BY <1>6, <2>1, <2>2 DEF HandleRecovered
<1>7. CASE HandleStarted
  <2>1. PICK done \in SUBSET (rt.recovered \cap uncertain) :
          /\ told' = [op \in Ops |->
                        IF op \in done THEN "committed"
                        ELSE IF op \in (rt.recovered \cap uncertain) \ done
                        THEN "unresolved" ELSE told[op]]
          /\ uncertain' = uncertain \ done
          /\ rt' = [(IF (rt.recovered \cap uncertain) \ done = {}
                       THEN [rt EXCEPT !.recovered = {}]
                       ELSE Reconciling([rt EXCEPT !.recovered = {}]))
                      EXCEPT !.healthy = FALSE, !.ready = TRUE]
    BY <1>7 DEF HandleStarted
  <2>2. rt'.recovered = {}
    <3>1. [rt EXCEPT !.recovered = {}] \in Runtimes
      BY DEF TypeOK, Runtimes
    <3>2. Reconciling([rt EXCEPT !.recovered = {}]).recovered = {}
      BY <3>1, RecoveredOfReconciling DEF Runtimes
    <3>3. Reconciling([rt EXCEPT !.recovered = {}]) \in Runtimes
      BY <3>1, ReconcilingType
    <3>4. QED
      BY <2>1, <3>1, <3>2, <3>3 DEF Runtimes
  <2>3. UNCHANGED txn /\ Letters' \subseteq Letters
    BY <1>7, LettersOfTail DEF HandleStarted, Receive
  <2>4. QED
    BY <2>1, <2>2, <2>3 DEF Justified, Answered
<1>8. CASE HandleStartedFailure
  <2>1. rt'.recovered = rt.recovered
    <3>1. PICK navigated \in BOOLEAN :
            rt' = [Reconciling(IF navigated /\ ~rt.recReq
                                 THEN [rt EXCEPT !.recTried = FALSE] ELSE rt)
                     EXCEPT !.ready = TRUE]
      BY <1>8 DEF HandleStartedFailure
    <3> DEFINE r == IF navigated /\ ~rt.recReq THEN [rt EXCEPT !.recTried = FALSE] ELSE rt
    <3>2. r \in Runtimes /\ r.recovered = rt.recovered
      BY DEF TypeOK, Runtimes
    <3>3. Reconciling(r) \in Runtimes /\ Reconciling(r).recovered = r.recovered
      BY <3>2, ReconcilingType, RecoveredOfReconciling
    <3>4. QED
      BY <3>1, <3>2, <3>3 DEF Runtimes
  <2>2. QED
    BY <1>8, <2>1, LettersOfTail, JustifiedQuiet DEF HandleStartedFailure, Receive
<1>9. CASE HandleStale
  BY <1>9, LettersOfTail, JustifiedQuiet DEF HandleStale
<1>10. CASE HandleRestored \/ HandleDisconnected \/ HandleDrained
  BY <1>10, LettersOfTail, JustifiedQuiet
     DEF HandleRestored, HandleDisconnected, HandleDrained, Receive
<1>11. CASE HandleBatch
  <2>1. rt'.recovered = rt.recovered
    BY <1>11 DEF HandleBatch, TypeOK, Runtimes
  <2>2. QED
    BY <1>11, <2>1, LettersOfTail, JustifiedQuiet DEF HandleBatch, Receive
<1>12. CASE HandleBatchFailure
  <2>1. rt'.recovered = rt.recovered
    <3> DEFINE q == [rt EXCEPT !.pending = TRUE, !.healthy = FALSE]
               n == IF rt.recReq THEN rt ELSE [rt EXCEPT !.recTried = FALSE]
    <3>1. q \in Runtimes /\ q.recovered = rt.recovered
      BY DEF TypeOK, Runtimes
    <3>2. n \in Runtimes /\ n.recovered = rt.recovered
      BY DEF TypeOK, Runtimes
    <3>3. \/ rt' = [rt EXCEPT !.healthy = FALSE, !.pending = TRUE, !.recReq = TRUE,
                              !.recReady = FALSE]
          \/ rt' = Reconciling(q)
          \/ rt' = Reconciling(n)
      BY <1>12 DEF HandleBatchFailure, RequireReconciliation
    <3> HIDE DEF q, n
    <3>4. QED
      BY <3>1, <3>2, <3>3, RecoveredOfReconciling DEF TypeOK, Runtimes
  <2>2. QED
    BY <1>12, <2>1, LettersOfTail, JustifiedQuiet DEF HandleBatchFailure, Receive
<1>13. CASE HandleReconcile
  <2>1. rt'.recovered = rt.recovered
    BY <1>13, RecoveredOfReconciling DEF HandleReconcile, RequireReconciliation, TypeOK
  <2>2. QED
    BY <1>13, <2>1, LettersOfTail, JustifiedQuiet DEF HandleReconcile, Receive
<1>14. QED
  BY <1>1, <1>2, <1>3, <1>4, <1>5, <1>6, <1>7, <1>8, <1>9, <1>10, <1>11, <1>12, <1>13
     DEF UiStep

\* A step that posts signals only needs no justification.
LEMMA SignalJustified ==
  ASSUME TypeOK, UNCHANGED <<uncertain, told>>, rt'.recovered = rt.recovered,
         \A m \in Letters' \ Letters : m.op = NoOp
  PROVE  Justified
BY OpsAssumption DEF Justified

\* Posting a true answer about a finished operation is justified.
LEMMA AnswerJustified ==
  ASSUME TypeOK, NEW m \in Messages, Post(m), UNCHANGED told, rt'.recovered = rt.recovered,
         uncertain' \subseteq uncertain \cup {m.op},
         Finished(m.op)', Truthful(m)'
  PROVE  Justified
BY LettersOfPost DEF Justified

\* A worker that lets go of its operation leaves it finished.
LEMMA HolderFinished ==
  ASSUME TypeOK, Placed, pc \in HoldingSteps, pc' \notin HoldingSteps,
         UNCHANGED <<stage, submitting, queue>>, NEW op, op = cur
  PROVE  op \in Ops /\ Finished(op)'
BY OpsAssumption DEF TypeOK, Placed, Finished, Held, Queued, Elements

\* The operations a reset cancels were never executed.
LEMMA CancellationsJustified ==
  ASSUME TypeOK, Placed, inbox' = inbox \o Cancellations, queue' = <<>>,
         pc' \notin HoldingSteps, UNCHANGED <<stage, submitting, txn, uncertain, told>>,
         rt'.recovered = rt.recovered
  PROVE  Justified
<1>1. ASSUME NEW m \in Letters' \ Letters
      PROVE  Finished(m.op)' /\ Truthful(m)'
  <2>1. PICK op \in Queued : m = Result(op, "CANCELLED_BEFORE_START")
    BY <1>1, LettersOfCancellations
  <2>2. /\ m.op = op /\ m.outcome = "CANCELLED_BEFORE_START" /\ m.kind = "result"
    BY <2>1 DEF Result, Message
  <2>3. op \in Ops /\ stage[op] = "accepted" /\ txn[op] = "none" /\ submitting # op
    BY QueueElements, OpsAssumption DEF Placed
  <2>4. Finished(op)' /\ NotRun(op)'
    BY <2>3, ElementsOfEmpty DEF Finished, Held, Queued, NotRun
  <2>5. QED
    BY <2>2, <2>4 DEF Truthful
<1>2. QED
  BY <1>1 DEF Justified

\* The worker's steps post justified answers only.
LEMMA WorkerStepJustified ==
  ASSUME TypeOK, Placed, Answered, WorkerStep, \A op \in Ops : Stable(op)
  PROVE  Justified
<1> USE DEF life, memory, worker, ghosts, Worker, Go
<1>1. CASE LoseSession \/ LeaveSession \/ ListJournal \/ BeginIteration \/ SkipServe
  BY <1>1, JustifiedQuiet
     DEF LoseSession, LeaveSession, ListJournal, BeginIteration, SkipServe, Letters
<1>2. CASE Take \/ Commit \/ Leave
  BY <1>2, JustifiedQuiet DEF Take, Commit, Leave, Letters
<1>3. CASE BeginReset
  <2>1. ASSUME NEW step, NEW next, next \notin HoldingSteps, Reset(step, next)
        PROVE  Justified
    <3>1. rt'.recovered = rt.recovered
      BY <2>1 DEF Reset, TypeOK, Runtimes
    <3>2. QED
      BY <2>1, <3>1, CancellationsJustified DEF Reset
  <2>2. QED
    BY <1>3, <2>1 DEF BeginReset, HoldingSteps
<1>4. CASE Close
  <2>1. rt'.recovered = rt.recovered
    BY <1>4 DEF Close, TypeOK, Runtimes
  <2>2. QED
    BY <1>4, <2>1, CancellationsJustified DEF Close, HoldingSteps
<1>5. CASE EndReset
  <2>1. PICK a, b : a = Signal("disconnected") /\ b = Signal("reconcile")
    OBVIOUS
  <2>2. a \in Messages /\ b \in Messages /\ a.op = NoOp /\ b.op = NoOp
    BY <2>1, SignalType DEF TypeOK, SignalKinds, Signal, Message
  <2>3. /\ \/ Post(a) \/ UNCHANGED inbox \/ inbox' = inbox \o <<a, b>>
        /\ rt' = Cleared \/ rt' = [Cleared EXCEPT !.pending = TRUE]
        /\ UNCHANGED <<uncertain, told>>
    BY <1>5, <2>1 DEF EndReset
  <2>4. rt'.recovered = rt.recovered
    BY <2>3 DEF Cleared, TypeOK, Runtimes
  <2>5. \A m \in Letters' \ Letters : m \in {a, b}
    <3>1. CASE Post(a)
      BY <2>2, <3>1, LettersOfPost
    <3>2. CASE UNCHANGED inbox
      BY <3>2 DEF Letters
    <3>3. CASE inbox' = inbox \o <<a, b>>
      <4>1. <<a, b>> \in Seq(Messages) /\ Elements(<<a, b>>) = {a, b}
        BY <2>2 DEF Elements
      <4>2. QED
        BY <3>3, <4>1, ElementsOfConcat DEF Letters, TypeOK
    <3>4. QED
      BY <2>3, <3>1, <3>2, <3>3
  <2>6. QED
    BY <2>2, <2>3, <2>4, <2>5, SignalJustified
<1>6. CASE StartSession
  <2>1. rt'.recovered = rt.recovered
    BY <1>6 DEF StartSession, TypeOK, Runtimes
  <2>2. QED
    BY <1>6, <2>1, JustifiedQuiet DEF StartSession, Letters
<1>7. ASSUME NEW op \in Ops, QueryOperation(op)
      PROVE  Justified
  <2>1. CASE txn[op] = "committed"
    <3>1. rt'.recovered = rt.recovered \cup {op}
      BY <1>7, <2>1 DEF QueryOperation, TypeOK, Runtimes
    <3>2. UNCHANGED <<inbox, uncertain, told, txn>>
      BY <1>7, <2>1 DEF QueryOperation
    <3>3. QED
      BY <2>1, <3>1, <3>2 DEF Justified, Letters
  <2>2. CASE txn[op] # "committed" /\ op \in uncertain
    <3>1. PICK m : m = Message("recovered", op, "FAILED_BEFORE_COMMIT")
      OBVIOUS
    <3>2. m \in Messages /\ m.op = op /\ m.kind = "recovered" /\ m.outcome # "COMMITTED"
      BY <3>1, AnswerType DEF Message, TypeOK, Outcomes, Refusals
    <3>3. Post(m) /\ UNCHANGED <<rt, uncertain, told, txn>>
      BY <1>7, <2>2, <3>1 DEF QueryOperation
    <3>4. Finished(op)'
      BY <2>2 DEF Answered, Stable
    <3>5. NotRun(op)'
      BY <1>7, <2>2, <3>3 DEF QueryOperation, Answerable, NotRun, TypeOK
    <3>6. QED
      BY <3>2, <3>3, <3>4, <3>5, AnswerJustified DEF Truthful
  <2>3. CASE txn[op] # "committed" /\ op \notin uncertain
    BY <1>7, <2>3, JustifiedQuiet DEF QueryOperation, Letters
  <2>4. QED
    BY <2>1, <2>2, <2>3
<1>8. ASSUME NEW kind \in SignalKinds, Post(Signal(kind)) \/ UNCHANGED inbox,
             UNCHANGED <<uncertain, told>>, rt'.recovered = rt.recovered
      PROVE  Justified
  <2>1. PICK m : m = Signal(kind)
    OBVIOUS
  <2>2. m \in Messages /\ m.op = NoOp
    BY <2>1, SignalType DEF TypeOK, Signal, Message
  <2>3. \A l \in Letters' \ Letters : l = m
    BY <1>8, <2>1, <2>2, LettersOfPost DEF Letters
  <2>4. QED
    BY <1>8, <2>2, <2>3, SignalJustified
<1>9. CASE AnnounceStart \/ Drained
  BY <1>8, <1>9 DEF AnnounceStart, Drained, SignalKinds
<1>10. CASE Poll
  <2>1. rt'.recovered = rt.recovered
    BY <1>10 DEF Poll, TypeOK, Runtimes
  <2>2. QED
    BY <1>8, <1>10, <2>1 DEF Poll, SignalKinds
<1>11. CASE Check
  <2>1. rt'.recovered = rt.recovered
    BY <1>11, ZenonT(60) DEF Check, TypeOK, Runtimes
  <2>2. QED
    BY <1>8, <1>11, <2>1 DEF Check, SignalKinds
<1>12. PICK op : op = cur
  OBVIOUS
<1>13. ASSUME NEW kind \in {"result", "local"}, NEW outcome \in Outcomes,
              Post(Message(kind, op, outcome)), pc \in HoldingSteps, pc' \notin HoldingSteps,
              UNCHANGED <<stage, submitting, queue, told>>, rt'.recovered = rt.recovered,
              uncertain' \subseteq uncertain \cup {op},
              kind = "local" \/ outcome = "COMMITTED" => txn'[op] = "committed",
              outcome \in Refusals => NotRun(op)'
       PROVE  Justified
  <2>1. PICK m : m = Message(kind, op, outcome)
    OBVIOUS
  <2>2. op \in Ops /\ Finished(op)'
    BY <1>12, <1>13, HolderFinished
  <2>3. m \in Messages /\ m.op = op /\ m.kind = kind /\ m.outcome = outcome
    BY <2>1, <2>2, AnswerType DEF Message, TypeOK
  <2>4. QED
    BY <1>13, <2>1, <2>2, <2>3, AnswerJustified DEF Truthful
<1>14. CASE Admit
  <2>1. /\ rt'.recovered = rt.recovered
        /\ UNCHANGED <<stage, submitting, queue, told, txn, uncertain>>
    BY <1>14 DEF Admit, TypeOK, Runtimes
  <2>2. pc \in HoldingSteps /\ NotRun(op)'
    BY <1>12, <1>14, <2>1 DEF Admit, Placed, HoldingSteps, NotRun
  <2>3. CASE UNCHANGED inbox
    BY <2>1, <2>3, JustifiedQuiet DEF Letters
  <2>4. CASE Post(Result(op, "CANCELLED_BEFORE_START")) /\ pc' = "poll"
    BY <1>13, <2>1, <2>2, <2>4 DEF Result, Outcomes, Refusals, HoldingSteps
  <2>5. QED
    BY <1>12, <1>14, <2>3, <2>4 DEF Admit
<1>15. CASE RecordExecuting
  <2>1. CASE UNCHANGED inbox
    BY <1>15, <2>1, JustifiedQuiet DEF RecordExecuting, Letters
  <2>2. CASE Post(Result(op, "FAILED_BEFORE_COMMIT")) /\ pc' = "ending" /\ UNCHANGED txn
    <3>1. NotRun(op)' /\ pc \in HoldingSteps
      BY <1>12, <1>15, <2>2 DEF RecordExecuting, Placed, NotRun, HoldingSteps
    <3>2. QED
      BY <1>13, <1>15, <2>2, <3>1 DEF RecordExecuting, Result, Outcomes, Refusals, HoldingSteps
  <2>3. QED
    BY <1>12, <1>15, <2>1, <2>2 DEF RecordExecuting
<1>16. CASE Deny
  <2>1. PICK outcome \in Refusals : Post(Result(op, outcome))
    BY <1>12, <1>16 DEF Deny, Refusals
  <2>2. NotRun(op)' /\ pc \in HoldingSteps
    BY <1>12, <1>16 DEF Deny, Placed, NotRun, HoldingSteps
  <2>3. QED
    BY <1>13, <1>16, <2>1, <2>2 DEF Deny, Result, Outcomes, Refusals, HoldingSteps
<1>17. CASE Abort
  <2>1. PICK outcome \in Refusals : Post(Result(op, outcome))
    BY <1>12, <1>17 DEF Abort, Refusals
  <2>2. NotRun(op)' /\ pc \in HoldingSteps /\ pc' \notin HoldingSteps
    BY <1>12, <1>17 DEF Abort, TypeOK, NotRun, HoldingSteps
  <2>3. QED
    BY <1>13, <1>17, <2>1, <2>2 DEF Abort, Result, Outcomes, Refusals
<1>18. CASE LoseCommit
  BY <1>12, <1>13, <1>18 DEF LoseCommit, Result, Outcomes, Refusals, HoldingSteps
<1>19. CASE Settle
  BY <1>12, <1>13, <1>19 DEF Settle, Placed, Outcomes, Refusals, HoldingSteps
<1>20. CASE SettleFailure
  BY <1>12, <1>13, <1>20 DEF SettleFailure, Result, Outcomes, Refusals, HoldingSteps
<1>21. QED
  BY <1>1, <1>2, <1>3, <1>4, <1>5, <1>6, <1>7, <1>9, <1>10, <1>11, <1>14, <1>15, <1>16,
     <1>17, <1>18, <1>19, <1>20 DEF WorkerStep

\* A step keeps answers justified.
LEMMA AnsweredStep ==
  ASSUME TypeOK, Placed, Answered, [Next]_vars
  PROVE  Answered'
<1>1. \A op \in Ops : Stable(op)
  BY StableStep
<1>2. TypeOK'
  BY StepType
<1> USE DEF life, memory, worker, ghosts
<1>3. Justified
  <2>1. ASSUME NEW op \in Ops, Submit(op) \/ Cancel(op)
        PROVE  Justified
    <3>1. rt'.recovered = rt.recovered
      BY <2>1 DEF Submit, Cancel, TypeOK, Runtimes
    <3>2. QED
      BY <2>1, <3>1, JustifiedQuiet DEF Submit, Cancel, Letters
  <2>2. ASSUME NEW op \in Ops, SubmitUnrecorded(op)
        PROVE  Justified
    <3>1. /\ told' = [told EXCEPT ![op] = "refused"]
          /\ UNCHANGED <<inbox, uncertain, rt, queue, txn, pc, cur, submitting>>
          /\ stage[op] = "new" /\ stage'[op] = "submitted" /\ submitting = NoOp
      BY <2>2 DEF SubmitUnrecorded, UiIdle, TypeOK
    <3>2. NotRun(op)' /\ Finished(op)'
      BY <3>1, OpsAssumption DEF Placed, NotRun, Finished, Held, Queued, Elements
    <3>3. QED
      BY <3>1, <3>2 DEF Justified, TypeOK, Letters
  <2>3. CASE RequestDrain \/ Refresh \/ Detach
    <3>1. rt'.recovered = rt.recovered
      BY <2>3 DEF RequestDrain, Refresh, Detach, TypeOK, Runtimes
    <3>2. QED
      BY <2>3, <3>1, JustifiedQuiet DEF RequestDrain, Refresh, Detach, Letters
  <2>4. CASE Start \/ Restart
    BY <2>4, JustifiedQuiet DEF Start, Restart, NewRuntime, Letters
  <2>5. ASSUME NEW op \in Ops, ServerResolve(op)
        PROVE  Justified
    BY <2>5, JustifiedQuiet DEF ServerResolve, Letters
  <2>6. CASE Crash
    BY <2>6, ElementsOfEmpty DEF Crash, Justified, Letters
  <2>7. CASE UNCHANGED vars
    BY <2>7, JustifiedQuiet DEF vars, Letters
  <2>8. QED
    BY <1>1, <2>1, <2>2, <2>3, <2>4, <2>5, <2>6, <2>7, UiStepJustified, WorkerStepJustified
       DEF Next, UserStep
<1>4. QED
  BY <1>1, <1>2, <1>3, AnsweredJustified

-----------------------------------------------------------------------------
(* The theorems. *)

VerdictInv == TypeOK /\ Placed /\ Answered

\* The invariant behind the verdicts holds in every behaviour.
LEMMA VerdictInvCorrect == Spec => []VerdictInv
<1>1. Init => VerdictInv
  BY InitType, ElementsOfEmpty
     DEF Init, VerdictInv, Placed, Answered, NewRuntime, HoldingSteps, Queued
<1>2. VerdictInv /\ [Next]_vars => VerdictInv'
  BY StepType, PlacedStep, AnsweredStep DEF VerdictInv
<1>3. QED
  BY <1>1, <1>2, PTL DEF Spec

\* A caller told that its mutation committed finds it on the server, and one told that it
\* was refused, cancelled or failed never sees it commit, not even late.
THEOREM VerdictsCorrect == Spec => []VerdictsAreTrue
<1>1. VerdictInv => VerdictsAreTrue
  BY DEF VerdictInv, Answered, VerdictsAreTrue, NotRun
<1>2. QED
  BY <1>1, VerdictInvCorrect, PTL

-----------------------------------------------------------------------------
(* Cancelled is an invariant. *)

\* No cancellation is granted or dropped and nothing is queued.
Kept ==
  /\ UNCHANGED granted
  /\ rt'.cancelled = rt.cancelled
  /\ \A op \in Ops : pstate'[op] = "QUEUED" => pstate[op] = "QUEUED"

\* Requiring a reconciliation revokes no cancellation.
LEMMA ReconcilingKept ==
  ASSUME NEW r \in Runtimes
  PROVE  Reconciling(r).cancelled = r.cancelled
BY DEF Reconciling, Runtimes

\* Completing a request revokes no cancellation.
LEMMA CompleteKept ==
  ASSUME TypeOK, NEW op \in Ops, NEW outcome, NEW g, NEW callbacks, NEW raises \in BOOLEAN,
         Complete(op, outcome, g, callbacks, raises)
  PROVE  Kept
<1> DEFINE registered == pstate[op] # "none"
           result == IF outcome = "COMMITTED" /\ ~(RuntimeCurrent(g) /\ ~rt.recReq)
                       THEN "COMMITTED_PROJECTION_FAILED" ELSE outcome
           next == CASE result = "COMMIT_STATUS_UNKNOWN" -> "UNCERTAIN"
                     [] result = "COMMITTED_PROJECTION_FAILED" -> "RECOVERING"
                     [] result = "COMMITTED" -> IF raises THEN "RECOVERING" ELSE "none"
                     [] OTHER -> "none"
<1>1. /\ pstate' = [pstate EXCEPT ![op] = IF registered THEN next ELSE "none"]
      /\ next # "QUEUED"
  BY DEF Complete
<1>2. rt' = rt \/ rt' = Reconciling(rt)
  BY DEF Complete, RequireReconciliation
<1>3. UNCHANGED granted
  BY DEF Complete
<1>4. QED
  BY <1>1, <1>2, <1>3, ReconcilingKept DEF Kept, TypeOK

\* The main thread's handlers revoke no cancellation.
LEMMA UiStepKept ==
  ASSUME TypeOK, UiStep
  PROVE  Kept
<1> USE DEF life, memory, worker, ghosts
<1>1. CASE TestRuntime \/ Enqueue \/ RefuseEnqueue
  BY <1>1 DEF TestRuntime, Enqueue, RefuseEnqueue, Kept, TypeOK
<1>2. CASE HandleResult
  BY <1>2, ReceiveType, CompleteKept DEF HandleResult, TypeOK
<1>3. CASE HandleLocal \/ HandleLocalFailure
  BY <1>3, ReceiveType, CompleteKept DEF HandleLocal, HandleLocalFailure, TypeOK
<1>4. CASE HandleRecovered
  BY <1>4, ReceiveType, CompleteKept DEF HandleRecovered, TypeOK, Kept
<1>5. CASE HandleStarted
  <2> DEFINE r == [rt EXCEPT !.recovered = {}]
  <2>1. r \in Runtimes /\ r.cancelled = rt.cancelled
    BY DEF TypeOK, Runtimes
  <2>2. Reconciling(r) \in Runtimes /\ Reconciling(r).cancelled = rt.cancelled
    BY <2>1, ReconcilingType, ReconcilingKept
  <2>3. PICK f \in {r, Reconciling(r)} : rt' = [f EXCEPT !.healthy = FALSE, !.ready = TRUE]
    BY <1>5 DEF HandleStarted
  <2>4. rt'.cancelled = rt.cancelled
    <3> HIDE DEF r
    <3>1. QED
      BY <2>1, <2>2, <2>3 DEF Runtimes
  <2>5. \A op \in Ops : pstate'[op] = "QUEUED" => pstate[op] = "QUEUED"
    BY <1>5 DEF HandleStarted
  <2>6. QED
    BY <1>5, <2>4, <2>5 DEF HandleStarted, Kept
<1>6. CASE HandleStartedFailure
  <2>1. PICK navigated \in BOOLEAN :
          rt' = [Reconciling(IF navigated /\ ~rt.recReq
                               THEN [rt EXCEPT !.recTried = FALSE] ELSE rt)
                   EXCEPT !.ready = TRUE]
    BY <1>6 DEF HandleStartedFailure
  <2> DEFINE r == IF navigated /\ ~rt.recReq THEN [rt EXCEPT !.recTried = FALSE] ELSE rt
  <2>2. r \in Runtimes /\ r.cancelled = rt.cancelled
    BY DEF TypeOK, Runtimes
  <2>3. Reconciling(r) \in Runtimes /\ Reconciling(r).cancelled = r.cancelled
    BY <2>2, ReconcilingType, ReconcilingKept
  <2>4. rt'.cancelled = rt.cancelled
    BY <2>1, <2>2, <2>3 DEF Runtimes
  <2>5. QED
    BY <1>6, <2>4 DEF HandleStartedFailure, Kept
<1>7. CASE HandleStale \/ HandleRestored \/ HandleDisconnected \/ HandleDrained
  BY <1>7 DEF HandleStale, HandleRestored, HandleDisconnected, HandleDrained, Kept
<1>8. CASE HandleBatch
  BY <1>8 DEF HandleBatch, Kept, TypeOK, Runtimes
<1>9. CASE HandleBatchFailure
  <2> DEFINE q == [rt EXCEPT !.pending = TRUE, !.healthy = FALSE]
             n == IF rt.recReq THEN rt ELSE [rt EXCEPT !.recTried = FALSE]
  <2>1. q \in Runtimes /\ q.cancelled = rt.cancelled
    BY DEF TypeOK, Runtimes
  <2>2. n \in Runtimes /\ n.cancelled = rt.cancelled
    BY DEF TypeOK, Runtimes
  <2>3. \/ rt' = [rt EXCEPT !.healthy = FALSE, !.pending = TRUE, !.recReq = TRUE,
                            !.recReady = FALSE]
        \/ rt' = Reconciling(q)
        \/ rt' = Reconciling(n)
    BY <1>9 DEF HandleBatchFailure, RequireReconciliation
  <2> HIDE DEF q, n
  <2>4. rt'.cancelled = rt.cancelled
    BY <2>1, <2>2, <2>3, ReconcilingKept DEF TypeOK, Runtimes
  <2>5. QED
    BY <1>9, <2>4 DEF HandleBatchFailure, Kept
<1>10. CASE HandleReconcile
  BY <1>10, ReconcilingKept DEF HandleReconcile, RequireReconciliation, Kept, TypeOK
<1>11. QED
  BY <1>1, <1>2, <1>3, <1>4, <1>5, <1>6, <1>7, <1>8, <1>9, <1>10 DEF UiStep

\* The worker executes nothing that was cancelled.
LEMMA WorkerStepKept ==
  ASSUME TypeOK, WorkerStep, ~Admit
  PROVE  Kept
<1> USE DEF life, memory, worker, ghosts
<1>1. CASE LoseSession \/ LeaveSession \/ ListJournal \/ AnnounceStart \/ BeginIteration
  BY <1>1 DEF LoseSession, LeaveSession, ListJournal, AnnounceStart, BeginIteration, Kept
<1>2. CASE SkipServe \/ Take \/ RecordExecuting \/ Deny \/ Abort
  BY <1>2 DEF SkipServe, Take, RecordExecuting, Deny, Abort, Kept
<1>3. CASE LoseCommit \/ Commit \/ Leave \/ Drained
  BY <1>3 DEF LoseCommit, Commit, Leave, Drained, Kept
<1>4. CASE Settle \/ SettleFailure
  BY <1>4 DEF Settle, SettleFailure, Kept, TypeOK
<1>5. CASE BeginReset
  BY <1>5 DEF BeginReset, Reset, Kept, TypeOK, Runtimes
<1>6. CASE EndReset
  BY <1>6 DEF EndReset, Cleared, Kept, TypeOK, Runtimes
<1>7. CASE StartSession
  BY <1>7 DEF StartSession, Kept, TypeOK, Runtimes
<1>8. ASSUME NEW op \in Ops, QueryOperation(op)
      PROVE  Kept
  <2>1. rt'.cancelled = rt.cancelled
    BY <1>8 DEF QueryOperation, TypeOK, Runtimes
  <2>2. QED
    BY <1>8, <2>1 DEF QueryOperation, Kept, TypeOK
<1>9. CASE Poll
  BY <1>9 DEF Poll, Kept, TypeOK, Runtimes
<1>10. CASE Check
  BY <1>10 DEF Check, Kept, TypeOK, Runtimes
<1>11. CASE Close
  BY <1>11 DEF Close, Kept, TypeOK, Runtimes
<1>12. QED
  BY <1>1, <1>2, <1>3, <1>4, <1>5, <1>6, <1>7, <1>8, <1>9, <1>10, <1>11 DEF WorkerStep

\* A cancellation is unaffected by a step that leaves the operation alone.
LEMMA CancelledStill ==
  ASSUME TypeOK, Cancelled, Still, Kept
  PROVE  Cancelled'
BY DEF Cancelled, Still, Kept, TypeOK, Held, HoldingSteps, Queued, Elements

\* A step revokes no cancellation.
LEMMA CancelledStep ==
  ASSUME TypeOK, Placed, Cancelled, [Next]_vars
  PROVE  Cancelled'
<1> USE DEF life, memory, worker, ghosts, HoldingSteps, Held
<1>1. ASSUME NEW o \in Ops, Submit(o)
      PROVE  Cancelled'
  <2>1. \A op \in Ops : stage[op] = "new" => txn[op] = "none" /\ op \notin granted
    BY DEF Placed, Cancelled
  <2>2. pc \in HoldingSteps => stage[cur] # "new"
    BY DEF Placed
  <2>3. UNCHANGED <<queue, pc, cur, txn, granted, rt>>
    BY <1>1 DEF Submit
  <2>4. QED
    BY <1>1, <2>1, <2>2, <2>3, OpsAssumption
       DEF Submit, UiIdle, Cancelled, TypeOK, Queued, Elements
<1>2. ASSUME NEW o \in Ops, SubmitUnrecorded(o)
      PROVE  Cancelled'
  BY <1>2 DEF SubmitUnrecorded, UiIdle, Cancelled, TypeOK, Queued, Elements
<1>3. ASSUME NEW o \in Ops, Cancel(o)
      PROVE  Cancelled'
  <2>1. rt'.cancelled = rt.cancelled \cup {o}
    BY <1>3 DEF Cancel, TypeOK, Runtimes
  <2>2. submitting # o
    BY <1>3, OpsAssumption DEF Cancel, UiIdle
  <2>3. QED
    BY <1>3, <2>1, <2>2 DEF Cancel, Cancelled, TypeOK, Queued, Elements
<1>4. CASE RequestDrain \/ Refresh \/ Detach
  <2>1. Still
    BY <1>4, StillUserStep
  <2>2. Kept
    BY <1>4 DEF RequestDrain, Refresh, Detach, Kept, TypeOK, Runtimes
  <2>3. QED
    BY <2>1, <2>2, CancelledStill
<1>5. CASE Start
  BY <1>5, ElementsOfEmpty DEF Start, UiIdle, Cancelled, Queued
<1>0. CASE TestRuntime
  <2>1. submitting \in Ops /\ submitting \notin granted
    BY <1>0 DEF TestRuntime, TypeOK, Cancelled
  <2>2. QED
    BY <1>0, <2>1 DEF TestRuntime, Cancelled, TypeOK, Held, Queued, Elements
<1>6. CASE Enqueue
  <2>1. Queued' = Queued \cup {submitting}
    BY <1>6, ElementsOfAppend DEF Enqueue, Queued, TypeOK
  <2>2. submitting \in Ops /\ submitting \notin granted
    BY <1>6 DEF Enqueue, TypeOK, Placed, Cancelled
  <2>3. QED
    BY <1>6, <2>1, <2>2 DEF Enqueue, Cancelled, TypeOK
<1>7. CASE RefuseEnqueue
  BY <1>7 DEF RefuseEnqueue, Cancelled, TypeOK, Queued, Elements
<1>8. CASE UiStep
  BY <1>0, <1>6, <1>7, <1>8, UiStepKept, StillUiStep, CancelledStill DEF UiMove
<1>9. CASE Admit
  <2>1. rt'.cancelled = rt.cancelled \ {cur}
    BY <1>9 DEF Admit, TypeOK, Runtimes
  <2>2. cur \in Ops /\ cur \notin Queued
    BY <1>9 DEF Admit, Worker, TypeOK, Placed
  <2>3. QED
    BY <1>9, <2>1, <2>2 DEF Admit, Worker, Go, Cancelled, TypeOK, Queued, Elements
<1>10. CASE BeginReset \/ Close
  <2>1. Kept /\ Queued' = {} /\ pc' \notin HoldingSteps /\ UNCHANGED <<txn, stage, submitting>>
    <3>1. ~Admit
      BY <1>10 DEF BeginReset, Reset, Close, Admit, Worker
    <3>2. Kept
      BY <1>10, <3>1, WorkerStepKept DEF WorkerStep
    <3>3. QED
      BY <1>10, <3>2, ElementsOfEmpty DEF BeginReset, Reset, Close, Go, Queued
  <2>2. QED
    BY <2>1 DEF Kept, Cancelled, TypeOK
<1>11. CASE Take
  <2>1. Queued' \subseteq Queued /\ cur' \in Queued
    BY <1>11, ElementsOfTail DEF Take, Queued, TypeOK
  <2>2. QED
    BY <1>11, <2>1 DEF Take, Worker, Go, Cancelled, TypeOK
<1>12. CASE RecordExecuting \/ Abort \/ Commit
  <2>1. pc \in {"admitted", "txn"} /\ cur \in Ops
    BY <1>12 DEF RecordExecuting, Abort, Commit, Worker, TypeOK
  <2>2. cur \notin granted /\ pstate[cur] # "QUEUED"
    BY <2>1 DEF Cancelled
  <2>3. \A op \in Ops \ {cur} : txn'[op] = txn[op]
    BY <1>12 DEF RecordExecuting, Abort, Commit, TypeOK
  <2>4. UNCHANGED <<pstate, granted, rt, queue, stage, submitting>>
    BY <1>12 DEF RecordExecuting, Abort, Commit
  <2>5. pc' \in HoldingSteps => cur' = cur
    BY <1>12 DEF RecordExecuting, Abort, Commit, Go
  <2>6. QED
    BY <2>1, <2>2, <2>3, <2>4, <2>5 DEF Cancelled, TypeOK, Queued, Elements
<1>13. CASE WorkerStep
  BY <1>9, <1>10, <1>11, <1>12, <1>13, WorkerStepKept, StillWorkerStep, CancelledStill
     DEF WorkerMove
<1>14. ASSUME NEW o \in Ops, ServerResolve(o)
       PROVE  Cancelled'
  BY <1>14 DEF ServerResolve, Cancelled, TypeOK, Queued, Elements
<1>15. CASE Crash
  BY <1>15, ElementsOfEmpty DEF Crash, Cancelled, TypeOK, Queued
<1>16. CASE Restart
  BY <1>16, ElementsOfEmpty DEF Restart, Placed, Cancelled, Queued
<1>17. CASE UNCHANGED vars
  BY <1>17 DEF vars, Cancelled, Queued, Elements
<1>18. QED
  BY <1>1, <1>2, <1>3, <1>4, <1>5, <1>8, <1>13, <1>14, <1>15, <1>16, <1>17
     DEF Next, UserStep

\* The invariant behind cancellations holds in every behaviour.
LEMMA CancelledCorrect == Spec => [](VerdictInv /\ Cancelled)
<1>1. Init => VerdictInv /\ Cancelled
  <2>1. Init => VerdictInv
    BY InitType, ElementsOfEmpty
       DEF Init, VerdictInv, Placed, Answered, NewRuntime, HoldingSteps, Queued
  <2>2. QED
    BY <2>1 DEF Init, Cancelled
<1>2. VerdictInv /\ Cancelled /\ [Next]_vars => (VerdictInv /\ Cancelled)'
  BY StepType, PlacedStep, AnsweredStep, CancelledStep DEF VerdictInv
<1>3. QED
  BY <1>1, <1>2, PTL DEF Spec

\* A mutation whose cancellation was granted never reaches the server.
THEOREM CancellationCorrect == Spec => []CancelledNeverRuns
<1>1. Cancelled => CancelledNeverRuns
  BY DEF Cancelled, CancelledNeverRuns
<1>2. QED
  BY <1>1, CancelledCorrect, PTL

-----------------------------------------------------------------------------
(* The order of the messages: a session's start is the last of them, and the report of
   an operation is the first about it. *)

\* The answer the worker gives once for each operation it takes off the queue; another
\* one may follow from a recovery.
ReportKinds == {"result", "local"}

\* Messages are of this session or of an earlier one.
Dated ==
  \A i \in 1..Len(inbox) :
    /\ inbox[i].gen <= rt.gen
    /\ inbox[i].gen = rt.gen => inbox[i].sgen <= rt.sgen

\* While the start of the current session is on its way, the worker waits for it and
\* posts nothing; after the news of its end it posts nothing either.
SignalsLast ==
  /\ \A i \in 1..Len(inbox) :
       inbox[i].kind = "started" /\ SessionCurrent(inbox[i]) =>
         i = Len(inbox) /\ pc = "await" /\ ~rt.ready
  /\ \A i \in 1..Len(inbox) :
       inbox[i].kind = "drained" => i = Len(inbox) /\ pc = "ended" /\ ~attached

\* The worker is not released before its session has started.
Waiting ==
  /\ attached /\ rt.ready => rt.session /\ pc \notin {"list", "query"}
  /\ pc \in {"list", "query", "await"} => rt.session

ReportsFirst ==
  \A i, j \in 1..Len(inbox) :
    inbox[j].kind \in ReportKinds /\ inbox[i].op = inbox[j].op => j <= i

-----------------------------------------------------------------------------
(* How a step changes the inbox. *)

Taken == inbox # <<>> /\ inbox' = Tail(inbox)

\* The message at each place after s was posted.
LEMMA PostedPlaces ==
  ASSUME TypeOK, NEW s \in Seq(Messages), inbox' = inbox \o s
  PROVE  /\ Len(inbox) \in Nat /\ Len(s) \in Nat /\ Len(inbox') = Len(inbox) + Len(s)
         /\ \A i \in 1..Len(inbox) : inbox'[i] = inbox[i]
         /\ \A i \in 1..Len(inbox') : i > Len(inbox) =>
              i - Len(inbox) \in 1..Len(s) /\ inbox'[i] = s[i - Len(inbox)]
<1>1. Len(inbox) \in Nat /\ Len(s) \in Nat
  BY LenProperties DEF TypeOK
<1>2. Len(inbox') = Len(inbox) + Len(s)
  BY ConcatProperties DEF TypeOK
<1>3. \A i \in 1..(Len(inbox) + Len(s)) :
        inbox'[i] = IF i <= Len(inbox) THEN inbox[i] ELSE s[i - Len(inbox)]
  BY ConcatProperties DEF TypeOK
<1>4. QED
  BY <1>1, <1>2, <1>3

\* The message at each place after the first one was taken.
LEMMA TakenPlaces ==
  ASSUME TypeOK, Taken
  PROVE  /\ Len(inbox) \in Nat \ {0} /\ Len(inbox') = Len(inbox) - 1
         /\ \A i \in 1..Len(inbox') : i + 1 \in 1..Len(inbox) /\ inbox'[i] = inbox[i+1]
         /\ Head(inbox) = inbox[1]
<1>1. Len(inbox) \in Nat \ {0}
  BY EmptySeq, LenProperties DEF Taken, TypeOK
<1>2. Len(inbox') = Len(inbox) - 1 /\ \A i \in 1..Len(inbox') : inbox'[i] = inbox[i+1]
  BY HeadTailProperties DEF Taken, TypeOK
<1>3. QED
  BY <1>1, <1>2 DEF Taken

\* What the worker posts: messages of its session, the first report of an operation it
\* gives up, and the start of a session as it begins to wait.
Fresh(s) ==
  \A k \in 1..Len(s) :
    /\ s[k].gen = rt.gen /\ s[k].sgen = rt.sgen
    /\ s[k].kind \in ReportKinds =>
         /\ s[k].op \in Ops /\ ~Finished(s[k].op)
         /\ \A h \in 1..Len(s) : s[h].op = s[k].op => k <= h
    /\ s[k].kind = "started" => AnnounceStart /\ k = Len(s)
    /\ s[k].kind = "drained" => Drained /\ k = Len(s)
    /\ s[k].kind \in ReportKinds /\ s[k].op \in uncertain' =>
         s[k].kind = "result" /\ s[k].outcome = "COMMIT_STATUS_UNKNOWN"

\* A single message is posted behind the others.
LEMMA PostOne ==
  ASSUME TypeOK, NEW m \in Messages, Post(m)
  PROVE  /\ <<m>> \in Seq(Messages) /\ inbox' = inbox \o <<m>>
         /\ Len(<<m>>) = 1 /\ <<m>>[1] = m
BY DEF Post, TypeOK

Posting == \E s \in Seq(Messages) : inbox' = inbox \o s /\ Fresh(s)

\* A step that posts nothing.
LEMMA PostNothing ==
  ASSUME TypeOK, UNCHANGED inbox
  PROVE  Posting
<1>1. <<>> \in Seq(Messages) /\ inbox \o <<>> = inbox /\ Len(<<>>) = 0
  BY ConcatEmptySeq DEF TypeOK
<1>2. Fresh(<<>>)
  BY <1>1 DEF Fresh
<1>3. QED
  BY <1>1, <1>2 DEF Posting

\* A step that posts a signal.
LEMMA PostSignal ==
  ASSUME TypeOK, NEW kind \in SignalKinds, Post(Signal(kind)),
         kind = "started" => AnnounceStart, kind = "drained" => Drained
  PROVE  Posting
<1> PICK m : m = Signal(kind)
  OBVIOUS
<1>1. m \in Messages /\ m.kind = kind /\ m.gen = rt.gen /\ m.sgen = rt.sgen
  BY SignalType DEF Signal, Message, TypeOK
<1>2. kind \notin ReportKinds
  BY DEF SignalKinds, ReportKinds
<1>3. Fresh(<<m>>)
  BY <1>1, <1>2 DEF Fresh
<1>4. QED
  BY <1>1, <1>3, PostOne DEF Posting

\* A step in which the worker answers the caller of the operation it held.
LEMMA PostReport ==
  ASSUME TypeOK, Placed, Answered, pc \in HoldingSteps,
         NEW kind \in ReportKinds, NEW outcome \in Outcomes,
         Post(Message(kind, cur, outcome)),
         UNCHANGED uncertain \/ (kind = "result" /\ outcome = "COMMIT_STATUS_UNKNOWN")
  PROVE  Posting
<1> PICK m : m = Message(kind, cur, outcome)
  OBVIOUS
<1>1. cur \in Ops /\ ~Finished(cur)
  BY DEF TypeOK, Finished, Held
<1>2. /\ m \in Messages /\ m.kind = kind /\ m.op = cur /\ m.outcome = outcome
      /\ m.gen = rt.gen /\ m.sgen = rt.sgen
  BY <1>1, AnswerType DEF Message, TypeOK, ReportKinds
<1>3. kind # "started" /\ kind # "drained"
  BY DEF ReportKinds
<1>4. cur \notin uncertain
  BY <1>1 DEF Answered
<1>5. Fresh(<<m>>)
  BY <1>1, <1>2, <1>3, <1>4 DEF Fresh
<1>6. QED
  BY <1>2, <1>5, PostOne DEF Posting

\* A step in which the worker cancels what is queued.
LEMMA PostCancellations ==
  ASSUME TypeOK, Placed, Answered, inbox' = inbox \o Cancellations, UNCHANGED uncertain
  PROVE  Posting
<1>1. Cancellations \in Seq(Messages)
  BY CancellationsType DEF TypeOK
<1>2. Len(queue) \in Nat /\ Len(Cancellations) = Len(queue)
  BY LenProperties DEF Cancellations, TypeOK
<1>3. ASSUME NEW k \in 1..Len(Cancellations)
      PROVE  /\ Cancellations[k].kind = "result" /\ Cancellations[k].op = queue[k]
             /\ Cancellations[k].gen = rt.gen /\ Cancellations[k].sgen = rt.sgen
             /\ queue[k] \in Ops /\ ~Finished(queue[k]) /\ queue[k] \notin uncertain'
  <2>1. Cancellations[k] = Result(queue[k], "CANCELLED_BEFORE_START")
    BY <1>2 DEF Cancellations
  <2>2. queue[k] \in Queued
    BY <1>2 DEF Queued, Elements
  <2>3. queue[k] \in Ops /\ ~Finished(queue[k])
    BY <2>2, QueueElements DEF Finished
  <2>4. QED
    BY <2>1, <2>3 DEF Result, Message, Answered
<1>4. ASSUME NEW h \in 1..Len(Cancellations), NEW k \in 1..Len(Cancellations),
             Cancellations[h].op = Cancellations[k].op
      PROVE  k <= h
  BY <1>2, <1>3, <1>4 DEF Placed
<1>5. Fresh(Cancellations)
  BY <1>3, <1>4 DEF Fresh
<1>6. QED
  BY <1>1, <1>5 DEF Posting

\* All the worker posts is fresh.
LEMMA WorkerPosts ==
  ASSUME TypeOK, Placed, Answered, WorkerStep
  PROVE  Posting
<1> USE DEF life, memory, worker, ghosts, Worker, Go
<1>1. CASE LoseSession \/ LeaveSession \/ StartSession \/ ListJournal \/ BeginIteration
  BY <1>1, PostNothing DEF LoseSession, LeaveSession, StartSession, ListJournal, BeginIteration
<1>2. CASE SkipServe \/ Take \/ Commit \/ Leave
  BY <1>2, PostNothing DEF SkipServe, Take, Commit, Leave
<1>3. CASE BeginReset \/ Close
  BY <1>3, PostCancellations DEF BeginReset, Reset, Close
<1>4. CASE EndReset
  <2>1. CASE UNCHANGED inbox
    BY <2>1, PostNothing
  <2>2. CASE Post(Signal("disconnected"))
    BY <2>2, PostSignal DEF SignalKinds
  <2>3. CASE inbox' = inbox \o <<Signal("disconnected"), Signal("reconcile")>>
    <3> PICK a, b : a = Signal("disconnected") /\ b = Signal("reconcile")
      OBVIOUS
    <3>1. /\ a \in Messages /\ a.kind = "disconnected" /\ a.gen = rt.gen /\ a.sgen = rt.sgen
          /\ b \in Messages /\ b.kind = "reconcile" /\ b.gen = rt.gen /\ b.sgen = rt.sgen
      BY SignalType DEF Signal, Message, SignalKinds, TypeOK
    <3>2. /\ <<a, b>> \in Seq(Messages) /\ Len(<<a, b>>) = 2
          /\ <<a, b>>[1] = a /\ <<a, b>>[2] = b
      BY <3>1
    <3>3. \A k \in 1..Len(<<a, b>>) : <<a, b>>[k] \in {a, b}
      BY <3>2
    <3>4. Fresh(<<a, b>>)
      BY <3>1, <3>3 DEF Fresh, ReportKinds
    <3>5. QED
      BY <2>3, <3>2, <3>4 DEF Posting
  <2>4. QED
    BY <1>4, <2>1, <2>2, <2>3 DEF EndReset
<1>5. ASSUME NEW op \in Ops, QueryOperation(op)
      PROVE  Posting
  <2>1. CASE UNCHANGED inbox
    BY <2>1, PostNothing
  <2>2. CASE Post(Message("recovered", op, "FAILED_BEFORE_COMMIT"))
    <3> PICK m : m = Message("recovered", op, "FAILED_BEFORE_COMMIT")
      OBVIOUS
    <3>1. m \in Messages /\ m.kind = "recovered" /\ m.gen = rt.gen /\ m.sgen = rt.sgen
      BY AnswerType DEF Message, TypeOK, Outcomes, Refusals
    <3>2. Fresh(<<m>>)
      BY <3>1 DEF Fresh, ReportKinds
    <3>3. QED
      BY <2>2, <3>1, <3>2, PostOne DEF Posting
  <2>3. QED
    BY <1>5, <2>1, <2>2 DEF QueryOperation
<1>6. CASE AnnounceStart \/ Drained \/ Poll \/ Check
  BY <1>6, PostNothing, PostSignal DEF AnnounceStart, Drained, Poll, Check, SignalKinds
<1>7. CASE Admit \/ RecordExecuting \/ Deny \/ Abort
  <2>1. pc \in HoldingSteps /\ UNCHANGED uncertain
    BY <1>7 DEF Admit, RecordExecuting, Deny, Abort, HoldingSteps
  <2>2. \/ UNCHANGED inbox
        \/ \E outcome \in Refusals : Post(Message("result", cur, outcome))
    BY <1>7 DEF Admit, RecordExecuting, Deny, Abort, Result, Refusals
  <2>3. Refusals \subseteq Outcomes /\ "result" \in ReportKinds
    BY DEF Outcomes, ReportKinds
  <2>4. ASSUME NEW outcome \in Refusals, Post(Message("result", cur, outcome))
        PROVE  Posting
    BY <2>1, <2>3, <2>4, PostReport
  <2>5. QED
    BY <2>2, <2>4, PostNothing
<1>8. CASE LoseCommit \/ Settle \/ SettleFailure
  <2>1. pc \in HoldingSteps
    BY <1>8 DEF LoseCommit, Settle, SettleFailure, HoldingSteps
  <2>2. CASE LoseCommit
    <3>1. Post(Message("result", cur, "COMMIT_STATUS_UNKNOWN"))
      BY <2>2 DEF LoseCommit, Result
    <3>2. QED
      BY <2>1, <3>1, PostReport DEF Outcomes, ReportKinds
  <2>3. CASE Settle
    <3>1. Post(Message("local", cur, "COMMITTED")) /\ UNCHANGED uncertain
      BY <2>3 DEF Settle
    <3>2. QED
      BY <2>1, <3>1, PostReport DEF Outcomes, ReportKinds
  <2>4. CASE SettleFailure
    <3>1. /\ Post(Message("result", cur, "COMMITTED_PROJECTION_FAILED"))
          /\ UNCHANGED uncertain
      BY <2>4 DEF SettleFailure, Result
    <3>2. QED
      BY <2>1, <3>1, PostReport DEF Outcomes, ReportKinds
  <2>5. QED
    BY <1>8, <2>2, <2>3, <2>4
<1>9. QED
  BY <1>1, <1>2, <1>3, <1>4, <1>5, <1>6, <1>7, <1>8 DEF WorkerStep

\* Messages are taken from the front, added at the back, or lost in a crash.
LEMMA Arrivals ==
  ASSUME TypeOK, Placed, Answered, [Next]_vars
  PROVE  Taken \/ Posting \/ (Crash /\ inbox' = <<>>)
<1> USE DEF life, memory, worker, ghosts
<1>1. CASE TestRuntime \/ Enqueue \/ RefuseEnqueue
  BY <1>1, PostNothing DEF TestRuntime, Enqueue, RefuseEnqueue
<1>2. CASE UiStep /\ ~UiMove
  BY <1>2
     DEF UiStep, UiMove, HandleResult, HandleLocal, HandleLocalFailure, HandleRecovered,
         HandleStarted, HandleStartedFailure, HandleStale, HandleRestored,
         HandleDisconnected, HandleBatch, HandleBatchFailure, HandleReconcile,
         HandleDrained, Receive, Taken
<1>3. CASE UserStep
  BY <1>3, PostNothing
     DEF UserStep, Submit, SubmitUnrecorded, Cancel, RequestDrain, Refresh, Detach, Start
<1>4. CASE (\E op \in Ops : ServerResolve(op)) \/ Restart \/ UNCHANGED vars
  BY <1>4, PostNothing DEF ServerResolve, Restart, vars
<1>5. CASE Crash
  BY <1>5 DEF Crash
<1>6. QED
  BY <1>1, <1>2, <1>3, <1>4, <1>5, WorkerPosts DEF Next, UiMove

\* The report of an operation stays the first message about it.
LEMMA ReportsFirstStep ==
  ASSUME TypeOK, Placed, Answered, ReportsFirst, [Next]_vars
  PROVE  ReportsFirst'
<1>1. CASE Taken
  BY <1>1, TakenPlaces DEF ReportsFirst
<1>2. CASE Crash /\ inbox' = <<>>
  BY <1>2 DEF ReportsFirst
<1>3. CASE Posting
  <2>1. PICK s \in Seq(Messages) : inbox' = inbox \o s /\ Fresh(s)
    BY <1>3 DEF Posting
  <2>2. ASSUME NEW i \in 1..Len(inbox'), NEW j \in 1..Len(inbox'),
               inbox'[j].kind \in ReportKinds, inbox'[i].op = inbox'[j].op, i < j
        PROVE  FALSE
    <3>1. CASE j <= Len(inbox)
      BY <2>1, <2>2, <3>1, PostedPlaces DEF ReportsFirst
    <3>2. CASE j > Len(inbox)
      <4>1. /\ j - Len(inbox) \in 1..Len(s)
            /\ inbox'[j] = s[j - Len(inbox)]
            /\ Len(inbox) \in Nat
        BY <2>1, <3>2, PostedPlaces
      <4>2. inbox'[j].op \in Ops /\ ~Finished(inbox'[j].op)
        BY <2>1, <2>2, <4>1 DEF Fresh
      <4>3. CASE i <= Len(inbox)
        <5>1. inbox'[i] = inbox[i] /\ inbox[i] \in Elements(inbox)
          BY <2>1, <4>1, <4>3, PostedPlaces DEF Elements
        <5>2. QED
          BY <2>2, <4>2, <5>1 DEF Answered
      <4>4. CASE i > Len(inbox)
        <5>1. i - Len(inbox) \in 1..Len(s) /\ inbox'[i] = s[i - Len(inbox)]
          BY <2>1, <4>4, PostedPlaces
        <5>2. j - Len(inbox) <= i - Len(inbox)
          BY <2>1, <2>2, <4>1, <5>1 DEF Fresh
        <5>3. QED
          BY <2>2, <4>1, <5>2
      <4>5. QED
        BY <4>1, <4>3, <4>4
    <3>3. QED
      BY <2>1, <3>1, <3>2, PostedPlaces
  <2>3. \A i \in 1..Len(inbox') : i \in Int
    OBVIOUS
  <2>4. QED
    BY <2>2, <2>3 DEF ReportsFirst
<1>4. QED
  BY <1>1, <1>2, <1>3, Arrivals

-----------------------------------------------------------------------------
(* Sessions: what a step does to the fields of rt that name one. *)

SameSession == rt'.gen = rt.gen /\ rt'.sgen = rt.sgen /\ rt'.session = rt.session

\* Requiring a reconciliation changes no session.
LEMMA ReconcilingSession ==
  ASSUME NEW r \in Runtimes
  PROVE  /\ Reconciling(r) \in Runtimes
         /\ Reconciling(r).gen = r.gen /\ Reconciling(r).sgen = r.sgen
         /\ Reconciling(r).session = r.session /\ Reconciling(r).ready = r.ready
         /\ Reconciling(r).recovered = r.recovered
BY DEF Reconciling, Runtimes

\* Completing a request changes no session.
LEMMA CompleteSession ==
  ASSUME TypeOK, NEW op, NEW outcome, NEW g, NEW callbacks, NEW raises,
         Complete(op, outcome, g, callbacks, raises)
  PROVE  SameSession /\ rt'.ready = rt.ready /\ rt'.recovered = rt.recovered
<1>1. rt' = rt \/ rt' = Reconciling(rt)
  BY DEF Complete, RequireReconciliation
<1>2. QED
  BY <1>1, ReconcilingSession DEF SameSession, TypeOK

\* The main thread changes no session, and releases the worker only as it handles the
\* session's start.
LEMMA UiStepSession ==
  ASSUME TypeOK, UiStep
  PROVE  /\ SameSession
         /\ rt'.ready = rt.ready \/ HandleStarted \/ HandleStartedFailure
         /\ rt'.recovered = rt.recovered \/ HandleStarted
<1> USE DEF life, memory, worker, ghosts
<1>1. CASE TestRuntime \/ Enqueue \/ RefuseEnqueue
  BY <1>1 DEF TestRuntime, Enqueue, RefuseEnqueue, SameSession
<1>2. CASE HandleResult \/ HandleLocal \/ HandleLocalFailure
  BY <1>2, CompleteSession DEF HandleResult, HandleLocal, HandleLocalFailure
<1>3. CASE HandleRecovered
  BY <1>3, CompleteSession DEF HandleRecovered, SameSession
<1>4. CASE HandleStarted
  <2> DEFINE r == [rt EXCEPT !.recovered = {}]
  <2>1. r \in Runtimes /\ r.gen = rt.gen /\ r.sgen = rt.sgen /\ r.session = rt.session
    BY DEF TypeOK, Runtimes
  <2>2. PICK f \in {r, Reconciling(r)} : rt' = [f EXCEPT !.healthy = FALSE, !.ready = TRUE]
    BY <1>4 DEF HandleStarted
  <2> HIDE DEF r
  <2>3. f \in Runtimes /\ f.gen = rt.gen /\ f.sgen = rt.sgen /\ f.session = rt.session
    BY <2>1, <2>2, ReconcilingSession
  <2>4. QED
    BY <1>4, <2>2, <2>3 DEF SameSession, Runtimes
<1>5. CASE HandleStartedFailure
  <2>1. PICK navigated \in BOOLEAN :
          rt' = [Reconciling(IF navigated /\ ~rt.recReq
                               THEN [rt EXCEPT !.recTried = FALSE] ELSE rt)
                   EXCEPT !.ready = TRUE]
    BY <1>5 DEF HandleStartedFailure
  <2> DEFINE r == IF navigated /\ ~rt.recReq THEN [rt EXCEPT !.recTried = FALSE] ELSE rt
  <2>2. /\ r \in Runtimes /\ r.gen = rt.gen /\ r.sgen = rt.sgen /\ r.session = rt.session
        /\ r.recovered = rt.recovered
    <3>1. rt \in Runtimes
      BY DEF TypeOK
    <3>2. PICK q : q = [rt EXCEPT !.recTried = FALSE]
      OBVIOUS
    <3>3. /\ q \in Runtimes /\ q.gen = rt.gen /\ q.sgen = rt.sgen /\ q.session = rt.session
          /\ q.recovered = rt.recovered
      BY ONLY <3>1, <3>2 DEF Runtimes
    <3>4. r = q \/ r = rt
      BY <3>2
    <3>5. QED
      BY ONLY <3>1, <3>3, <3>4
  <2>3. rt' = [Reconciling(r) EXCEPT !.ready = TRUE]
    BY <2>1
  <2> HIDE DEF r
  <2>4. QED
    BY <1>5, <2>2, <2>3, ReconcilingSession DEF SameSession, Runtimes
<1>6. CASE HandleStale \/ HandleRestored \/ HandleDisconnected \/ HandleDrained
  BY <1>6 DEF HandleStale, HandleRestored, HandleDisconnected, HandleDrained, SameSession
<1>7. CASE HandleBatch
  BY <1>7 DEF HandleBatch, SameSession, TypeOK, Runtimes
<1>8. CASE HandleBatchFailure
  <2> DEFINE q == [rt EXCEPT !.pending = TRUE, !.healthy = FALSE]
             n == IF rt.recReq THEN rt ELSE [rt EXCEPT !.recTried = FALSE]
             c == [rt EXCEPT !.healthy = FALSE, !.pending = TRUE, !.recReq = TRUE,
                             !.recReady = FALSE]
  <2>1. /\ q \in Runtimes /\ q.gen = rt.gen /\ q.sgen = rt.sgen /\ q.session = rt.session
        /\ q.ready = rt.ready /\ q.recovered = rt.recovered
    BY DEF TypeOK, Runtimes
  <2>5. /\ n \in Runtimes /\ n.gen = rt.gen /\ n.sgen = rt.sgen /\ n.session = rt.session
        /\ n.ready = rt.ready /\ n.recovered = rt.recovered
    BY DEF TypeOK, Runtimes
  <2>6. /\ c.gen = rt.gen /\ c.sgen = rt.sgen /\ c.session = rt.session
        /\ c.ready = rt.ready /\ c.recovered = rt.recovered
    BY DEF TypeOK, Runtimes
  <2>2. rt' = c \/ rt' = Reconciling(q) \/ rt' = Reconciling(n)
    BY <1>8 DEF HandleBatchFailure, RequireReconciliation
  <2> HIDE DEF q, n, c
  <2>3. QED
    BY <2>1, <2>2, <2>5, <2>6, ReconcilingSession DEF SameSession
<1>9. CASE HandleReconcile
  BY <1>9, ReconcilingSession
     DEF HandleReconcile, RequireReconciliation, SameSession, TypeOK
<1>10. QED
  BY <1>1, <1>2, <1>3, <1>4, <1>5, <1>6, <1>7, <1>8, <1>9 DEF UiStep

\* The worker's steps end a session or begin the next one, and none of them while it waits
\* for the main thread.
LEMMA WorkerStepSession ==
  ASSUME TypeOK, WorkerStep
  PROVE  /\ UNCHANGED life
         /\ rt'.gen = rt.gen /\ rt'.sgen \in {rt.sgen, rt.sgen + 1}
         /\ pc = "await" => rt.ready \/ ~attached
         /\ pc = "ended" => Drained
<1> USE DEF life, memory, worker, ghosts, Worker, Go
<1>1. CASE LoseSession \/ LeaveSession \/ ListJournal \/ AnnounceStart
  BY <1>1 DEF LoseSession, LeaveSession, ListJournal, AnnounceStart, FailSteps
<1>2. CASE BeginIteration \/ SkipServe \/ Take \/ RecordExecuting \/ Deny \/ Abort
  BY <1>2 DEF BeginIteration, SkipServe, Take, RecordExecuting, Deny, Abort
<1>3. CASE LoseCommit \/ Commit \/ Leave \/ Drained \/ Settle \/ SettleFailure
  BY <1>3 DEF LoseCommit, Commit, Leave, Drained, Settle, SettleFailure, StopSteps
<1>4. CASE Admit
  BY <1>4 DEF Admit, TypeOK, Runtimes
<1>5. CASE BeginReset
  BY <1>5 DEF BeginReset, Reset, TypeOK, Runtimes
<1>6. CASE EndReset
  BY <1>6 DEF EndReset, Cleared, TypeOK, Runtimes
<1>7. CASE StartSession
  BY <1>7 DEF StartSession, TypeOK, Runtimes
<1>8. ASSUME NEW op \in Ops, QueryOperation(op)
      PROVE  /\ UNCHANGED life
             /\ rt'.gen = rt.gen /\ rt'.sgen = rt.sgen
             /\ pc = "query"
  BY <1>8 DEF QueryOperation, TypeOK, Runtimes
<1>9. CASE Poll
  BY <1>9 DEF Poll, TypeOK, Runtimes
<1>10. CASE Check
  BY <1>10, ZenonT(60) DEF Check, TypeOK, Runtimes
<1>11. CASE Close
  BY <1>11 DEF Close, TypeOK, Runtimes
<1>12. QED
  BY <1>1, <1>2, <1>3, <1>4, <1>5, <1>6, <1>7, <1>8, <1>9, <1>10, <1>11 DEF WorkerStep

\* The worker releases nobody, and waits only in a session.
LEMMA WorkerStepWaiting ==
  ASSUME TypeOK, Waiting, WorkerStep
  PROVE  Waiting'
<1> USE DEF life, memory, worker, ghosts, Worker, Go, Waiting
<1>1. CASE LoseSession \/ LeaveSession \/ ListJournal \/ AnnounceStart
  BY <1>1 DEF LoseSession, LeaveSession, ListJournal, AnnounceStart, FailSteps
<1>2. CASE BeginIteration \/ SkipServe \/ Take \/ RecordExecuting \/ Deny \/ Abort
  BY <1>2 DEF BeginIteration, SkipServe, Take, RecordExecuting, Deny, Abort
<1>3. CASE LoseCommit \/ Commit \/ Leave \/ Drained \/ Settle \/ SettleFailure
  BY <1>3 DEF LoseCommit, Commit, Leave, Drained, Settle, SettleFailure, StopSteps
<1>4. CASE Admit
  <2>1. /\ rt'.ready = rt.ready /\ rt'.session = rt.session /\ UNCHANGED attached
        /\ pc' \notin {"list", "query", "await"}
    BY <1>4 DEF Admit, TypeOK, Runtimes
  <2>2. QED
    BY <2>1
<1>5. CASE BeginReset
  <2>1. ASSUME NEW step, NEW next, Reset(step, next)
        PROVE  /\ rt'.ready = rt.ready /\ rt'.session = rt.session /\ UNCHANGED attached
               /\ pc' = next
    BY <2>1 DEF Reset, TypeOK, Runtimes
  <2>2. /\ rt'.ready = rt.ready /\ rt'.session = rt.session /\ UNCHANGED attached
        /\ pc' \notin {"list", "query", "await"}
    BY <1>5, <2>1 DEF BeginReset
  <2>3. QED
    BY <2>2
<1>6. CASE EndReset
  BY <1>6 DEF EndReset, Cleared, TypeOK, Runtimes
<1>7. CASE StartSession
  <2>1. /\ rt'.ready = rt.ready /\ rt'.session /\ UNCHANGED attached
        /\ attached /\ ~rt.session
    BY <1>7 DEF StartSession, TypeOK, Runtimes
  <2>2. QED
    BY <2>1
<1>8. ASSUME NEW op \in Ops, QueryOperation(op)
      PROVE  Waiting'
  <2>1. rt'.ready = rt.ready /\ rt'.session = rt.session /\ UNCHANGED <<attached, pc>>
    BY <1>8 DEF QueryOperation, TypeOK, Runtimes
  <2>2. QED
    BY <2>1
<1>9. CASE Poll
  <2>1. /\ rt'.ready = rt.ready /\ rt'.session = rt.session /\ UNCHANGED attached
        /\ pc' \notin {"list", "query", "await"}
    BY <1>9 DEF Poll, TypeOK, Runtimes
  <2>2. QED
    BY <2>1
<1>10. CASE Check
  <2>1. /\ rt'.ready = rt.ready /\ rt'.session = rt.session /\ UNCHANGED attached
        /\ pc' \notin {"list", "query", "await"}
    <3>1. rt \in Runtimes /\ UNCHANGED attached /\ pc' \in {"top", "ending"}
      BY <1>10 DEF Check, TypeOK
    <3>2. rt'.ready = rt.ready /\ rt'.session = rt.session
      BY <1>10, <3>1 DEF Check, Runtimes
    <3>3. QED
      BY <3>1, <3>2
  <2>2. QED
    BY <2>1
<1>11. CASE Close
  BY <1>11 DEF Close, TypeOK, Runtimes
<1> HIDE DEF Waiting
<1>12. QED
  BY <1>1, <1>2, <1>3, <1>4, <1>5, <1>6, <1>7, <1>8, <1>9, <1>10, <1>11 DEF WorkerStep

\* The user's steps post nothing and take nothing; a new runtime has a new generation.
LEMMA UserStepSession ==
  ASSUME TypeOK, UserStep
  PROVE  /\ UNCHANGED <<up, inbox>>
         /\ \/ SameSession /\ rt'.ready = rt.ready /\ UNCHANGED <<attached, pc>>
            \/ SameSession /\ attached /\ ~attached' /\ UNCHANGED pc
            \/ rt' = NewRuntime(rt.gen + 1) /\ pc = "drained" /\ pc' = "top"
<1> USE DEF life, memory, worker, ghosts, SameSession
<1>1. ASSUME NEW op \in Ops, Submit(op) \/ SubmitUnrecorded(op)
      PROVE  SameSession /\ rt'.ready = rt.ready /\ UNCHANGED <<attached, pc, up, inbox>>
  BY <1>1 DEF Submit, SubmitUnrecorded
<1>2. ASSUME NEW op \in Ops, Cancel(op)
      PROVE  SameSession /\ rt'.ready = rt.ready /\ UNCHANGED <<attached, pc, up, inbox>>
  BY <1>2 DEF Cancel, TypeOK, Runtimes
<1>3. CASE RequestDrain \/ Refresh
  BY <1>3 DEF RequestDrain, Refresh, TypeOK, Runtimes
<1>4. CASE Detach
  BY <1>4 DEF Detach, TypeOK, Runtimes
<1>5. CASE Start
  BY <1>5 DEF Start, UiIdle
<1>6. QED
  BY <1>1, <1>2, <1>3, <1>4, <1>5 DEF UserStep

\* A generation is never used again.
LEMMA GenerationsGrow ==
  ASSUME TypeOK, [Next]_vars
  PROVE  \/ rt'.gen = rt.gen /\ rt'.sgen >= rt.sgen
         \/ rt'.gen > rt.gen
<1>1. rt.gen \in Nat /\ rt.sgen \in Nat
  BY DEF TypeOK, Runtimes
<1>2. CASE UserStep
  BY <1>1, <1>2, UserStepSession DEF SameSession, NewRuntime
<1>3. CASE UiStep
  BY <1>1, <1>3, UiStepSession DEF SameSession
<1>4. CASE WorkerStep
  BY <1>1, <1>4, WorkerStepSession
<1>5. CASE (\E op \in Ops : ServerResolve(op)) \/ Crash \/ UNCHANGED vars
  BY <1>1, <1>5 DEF ServerResolve, Crash, vars
<1>6. CASE Restart
  BY <1>1, <1>6 DEF Restart, NewRuntime
<1>7. QED
  BY <1>2, <1>3, <1>4, <1>5, <1>6 DEF Next

\* No message is of a session to come.
LEMMA DatedStep ==
  ASSUME TypeOK, Placed, Answered, Dated, [Next]_vars, TypeOK'
  PROVE  Dated'
<1>1. /\ rt.gen \in Nat /\ rt.sgen \in Nat /\ rt'.gen \in Nat /\ rt'.sgen \in Nat
      /\ \A i \in 1..Len(inbox') : inbox'[i].gen \in Nat /\ inbox'[i].sgen \in Nat
  <2>1. \A i \in 1..Len(inbox') : inbox'[i] \in Messages
    BY ElementOfSeq DEF TypeOK
  <2>2. QED
    BY <2>1 DEF TypeOK, Runtimes, Messages, Answers, Signals
<1>2. ASSUME NEW i \in 1..Len(inbox')
      PROVE  /\ inbox'[i].gen <= rt.gen
             /\ inbox'[i].gen = rt.gen => inbox'[i].sgen <= rt.sgen
  <2>1. CASE Taken
    BY <2>1, TakenPlaces DEF Dated
  <2>2. CASE Crash /\ inbox' = <<>>
    BY <2>2
  <2>3. CASE Posting
    <3>1. PICK s \in Seq(Messages) : inbox' = inbox \o s /\ Fresh(s)
      BY <2>3 DEF Posting
    <3>2. CASE i <= Len(inbox)
      BY <3>1, <3>2, PostedPlaces DEF Dated
    <3>3. CASE i > Len(inbox)
      <4>1. i - Len(inbox) \in 1..Len(s) /\ inbox'[i] = s[i - Len(inbox)]
        BY <3>1, <3>3, PostedPlaces
      <4>2. QED
        BY <1>1, <3>1, <4>1 DEF Fresh
    <3>4. QED
      BY <3>1, <3>2, <3>3, PostedPlaces
  <2>4. QED
    BY <2>1, <2>2, <2>3, Arrivals
<1>3. QED
  BY <1>1, <1>2, GenerationsGrow DEF Dated

\* A step after which no message is out of its place, for it only takes one.
LEMMA SignalsKept ==
  ASSUME TypeOK, SignalsLast, UNCHANGED inbox \/ Taken, SameSession,
         rt'.ready = rt.ready, UNCHANGED <<attached, pc>>
  PROVE  SignalsLast'
<1>1. CASE UNCHANGED inbox
  BY <1>1 DEF SignalsLast, SameSession, SessionCurrent, RuntimeCurrent
<1>2. CASE Taken
  <2>1. \A i \in 1..Len(inbox') : i = Len(inbox') <=> i + 1 = Len(inbox)
    BY <1>2, TakenPlaces
  <2>2. QED
    BY <1>2, <2>1, TakenPlaces DEF SignalsLast, SameSession, SessionCurrent, RuntimeCurrent
<1>3. QED
  BY <1>1, <1>2

\* What the main thread takes, with its effect on the session.
LEMMA UiStepTakes ==
  ASSUME UiStep
  PROVE  /\ UNCHANGED <<up, attached>>
         /\ (UNCHANGED inbox /\ UiMove) \/ Taken
         /\ UNCHANGED pc \/ (HandleDrained /\ ~HandleStarted /\ ~HandleStartedFailure)
<1> USE DEF life, memory, worker, ghosts
<1>1. CASE UiMove
  BY <1>1 DEF UiMove, TestRuntime, Enqueue, RefuseEnqueue
<1>2. CASE HandleResult \/ HandleLocal \/ HandleLocalFailure
  BY <1>2 DEF HandleResult, HandleLocal, HandleLocalFailure, Complete, Receive, Taken
<1>3. CASE HandleRecovered
  BY <1>3 DEF HandleRecovered, Complete, Receive, Taken
<1>4. CASE HandleStarted \/ HandleStartedFailure \/ HandleStale \/ HandleRestored
  BY <1>4 DEF HandleStarted, HandleStartedFailure, HandleStale, HandleRestored, Receive, Taken
<1>5. CASE HandleDisconnected \/ HandleBatch \/ HandleBatchFailure \/ HandleReconcile
  BY <1>5 DEF HandleDisconnected, HandleBatch, HandleBatchFailure, HandleReconcile, Receive,
              Taken
<1>6. CASE HandleDrained
  BY <1>6 DEF HandleDrained, HandleStarted, HandleStartedFailure, Receive, Taken
<1>7. QED
  BY <1>1, <1>2, <1>3, <1>4, <1>5, <1>6 DEF UiStep, UiMove

\* The message that starts a session, or ends one, is the last.
LEMMA LastTaken ==
  ASSUME TypeOK, SignalsLast, Taken,
         \/ Head(inbox).kind = "started" /\ SessionCurrent(Head(inbox))
         \/ Head(inbox).kind = "drained"
  PROVE  /\ inbox' = <<>> /\ Len(inbox) = 1
         /\ Head(inbox).kind = "started" => pc = "await" /\ ~rt.ready
<1>1. 1 \in 1..Len(inbox) /\ Head(inbox) = inbox[1]
  BY TakenPlaces
<1>2. Len(inbox) = 1
  BY <1>1 DEF SignalsLast
<1>3. inbox' \in Seq(Messages) /\ Len(inbox') = 0
  BY <1>2, TakenPlaces, HeadTailProperties DEF Taken, TypeOK
<1>4. inbox' = <<>>
  BY <1>3, EmptySeq
<1>5. Head(inbox).kind = "started" => pc = "await" /\ ~rt.ready
  BY <1>1 DEF SignalsLast
<1>6. QED
  BY <1>2, <1>4, <1>5

\* Starts and ends of sessions stay last.
LEMMA SignalsLastStep ==
  ASSUME TypeOK, Placed, Answered, Dated, SignalsLast, Waiting, [Next]_vars, TypeOK'
  PROVE  SignalsLast' /\ Waiting'
<1> USE DEF life, memory, worker, ghosts
<1>1. CASE UserStep
  <2>1. CASE SameSession /\ rt'.ready = rt.ready /\ UNCHANGED <<attached, pc, inbox>>
    BY <2>1, SignalsKept DEF Waiting, SameSession
  <2>2. CASE SameSession /\ attached /\ ~attached' /\ UNCHANGED <<pc, inbox>>
    BY <2>2 DEF SignalsLast, Waiting, SameSession, SessionCurrent, RuntimeCurrent
  <2>3. CASE rt' = NewRuntime(rt.gen + 1) /\ pc = "drained" /\ pc' = "top" /\ UNCHANGED inbox
    <3>1. rt'.gen = rt.gen + 1 /\ ~rt'.ready /\ rt.gen \in Nat
      BY <2>3 DEF NewRuntime, TypeOK, Runtimes
    <3>2. \A i \in 1..Len(inbox) : ~SessionCurrent(inbox[i])'
      BY <2>3, <3>1 DEF Dated, SessionCurrent, RuntimeCurrent
    <3>3. QED
      BY <2>3, <3>1, <3>2 DEF SignalsLast, Waiting
  <2>4. QED
    BY <1>1, <2>1, <2>2, <2>3, UserStepSession
<1>2. CASE UiStep
  <2>1. SameSession /\ UNCHANGED attached /\ (UNCHANGED inbox \/ Taken)
    BY <1>2, UiStepSession, UiStepTakes
  <2>2. CASE HandleStarted \/ HandleStartedFailure
    <3>1. /\ Taken /\ Head(inbox).kind = "started" /\ SessionCurrent(Head(inbox))
          /\ UNCHANGED pc
      BY <2>2 DEF HandleStarted, HandleStartedFailure, Receive, Taken
    <3>2. inbox' = <<>> /\ pc = "await"
      BY <3>1, LastTaken
    <3>3. QED
      BY <2>1, <3>1, <3>2 DEF SignalsLast, Waiting, SameSession
  <2>3. CASE HandleDrained
    <3>1. Taken /\ Head(inbox).kind = "drained" /\ pc' = "drained" /\ UNCHANGED <<rt, attached>>
      BY <2>3 DEF HandleDrained, Receive, Taken
    <3>2. inbox' = <<>>
      BY <3>1, LastTaken
    <3>3. QED
      BY <3>1, <3>2 DEF SignalsLast, Waiting
  <2>4. CASE UNCHANGED pc /\ rt'.ready = rt.ready
    BY <2>1, <2>4, SignalsKept DEF Waiting, SameSession
  <2>5. QED
    BY <1>2, <2>2, <2>3, <2>4, UiStepSession, UiStepTakes
<1>3. CASE WorkerStep
  <2>1. PICK s \in Seq(Messages) : inbox' = inbox \o s /\ Fresh(s)
    BY <1>3, WorkerPosts DEF Posting
  <2>2. /\ rt.gen \in Nat /\ rt.sgen \in Nat
        /\ UNCHANGED <<up, attached>> /\ rt'.gen = rt.gen
        /\ rt'.sgen \in {rt.sgen, rt.sgen + 1}
        /\ pc = "await" => rt.ready \/ ~attached
        /\ pc = "ended" => Drained
    BY <1>3, WorkerStepSession DEF TypeOK, Runtimes
  <2>3. ASSUME NEW i \in 1..Len(inbox), NEW m, m = inbox[i],
               m.kind = "started", SessionCurrent(m)'
        PROVE  FALSE
    <3>1. SessionCurrent(inbox[i])
      <4>1. inbox[i].gen = rt.gen /\ inbox[i].sgen = rt'.sgen /\ attached
        BY <2>2, <2>3 DEF SessionCurrent, RuntimeCurrent, life
      <4>2. rt'.sgen = rt.sgen
        BY <2>2, <4>1 DEF Dated
      <4>3. QED
        BY <4>1, <4>2 DEF SessionCurrent, RuntimeCurrent
    <3>2. pc = "await" /\ ~rt.ready /\ attached
      BY <2>3, <3>1 DEF SignalsLast, SessionCurrent, RuntimeCurrent
    <3>3. QED
      BY <2>2, <3>2
  <2>4. ASSUME NEW i \in 1..Len(inbox), inbox[i].kind = "drained"
        PROVE  FALSE
    <3>1. pc = "ended"
      BY <2>4 DEF SignalsLast
    <3>2. QED
      BY <2>2, <2>4, <3>1 DEF Drained
  <2>5. ASSUME NEW i \in 1..Len(inbox'), inbox'[i].kind = "started",
               SessionCurrent(inbox[i])'
        PROVE  i = Len(inbox') /\ pc' = "await" /\ ~rt'.ready
    <3>1. i > Len(inbox)
      BY <2>1, <2>3, <2>5, PostedPlaces
    <3>2. i - Len(inbox) \in 1..Len(s) /\ inbox'[i] = s[i - Len(inbox)]
      BY <2>1, <3>1, PostedPlaces
    <3>3. AnnounceStart /\ i - Len(inbox) = Len(s)
      BY <2>1, <2>5, <3>2 DEF Fresh
    <3>4. i = Len(inbox')
      BY <2>1, <3>3, PostedPlaces
    <3>5. QED
      BY <3>3, <3>4 DEF AnnounceStart, Worker, Go, Waiting
  <2>6. ASSUME NEW i \in 1..Len(inbox'), inbox'[i].kind = "drained"
        PROVE  i = Len(inbox') /\ pc' = "ended" /\ ~attached'
    <3>1. i > Len(inbox)
      BY <2>1, <2>4, <2>6, PostedPlaces
    <3>2. i - Len(inbox) \in 1..Len(s) /\ inbox'[i] = s[i - Len(inbox)]
      BY <2>1, <3>1, PostedPlaces
    <3>3. Drained /\ i - Len(inbox) = Len(s)
      BY <2>1, <2>6, <3>2 DEF Fresh
    <3>4. i = Len(inbox')
      BY <2>1, <3>3, PostedPlaces
    <3>5. QED
      BY <3>3, <3>4 DEF Drained, Worker
  <2>7. QED
    BY <1>3, <2>5, <2>6, WorkerStepWaiting DEF SignalsLast
<1>4. CASE (\E op \in Ops : ServerResolve(op)) \/ UNCHANGED vars
  BY <1>4 DEF ServerResolve, vars, SignalsLast, Waiting, SessionCurrent, RuntimeCurrent
<1>5. CASE Crash
  BY <1>5 DEF Crash, SignalsLast, Waiting
<1>6. CASE Restart
  <2>1. rt'.gen = rt.gen + 1 /\ ~rt'.ready /\ rt.gen \in Nat
    BY <1>6 DEF Restart, NewRuntime, TypeOK, Runtimes
  <2>2. \A i \in 1..Len(inbox) : ~SessionCurrent(inbox[i])'
    BY <1>6, <2>1 DEF Restart, Dated, SessionCurrent, RuntimeCurrent
  <2>3. QED
    BY <1>6, <2>1, <2>2 DEF Restart, SignalsLast, Waiting, Placed
<1>7. QED
  BY <1>1, <1>2, <1>3, <1>4, <1>5, <1>6 DEF Next

-----------------------------------------------------------------------------
(* Answers: each caller gets one, and nothing else is said of a mutation after it. *)

Final(op) == told[op] \in {"committed", "refused"}

\* The report of op is on its way.
Pending(op) == \E i \in 1..Len(inbox) : inbox[i].kind \in ReportKinds /\ inbox[i].op = op

\* The final answer is counted once, and no other is on its way or waited for.
OneAnswer ==
  \A op \in Ops :
    /\ verdicts[op] = IF Final(op) THEN 1 ELSE 0
    /\ Final(op) => Finished(op) /\ op \notin uncertain /\ ~Pending(op)

\* The report of an operation whose callback is kept says only that its fate is unknown.
KeptForLost ==
  \A i \in 1..Len(inbox) :
    inbox[i].kind \in ReportKinds /\ inbox[i].op \in uncertain =>
      inbox[i].kind = "result" /\ inbox[i].outcome = "COMMIT_STATUS_UNKNOWN"

\* What a step may do to what is said of op: nothing, or answer a caller that waits.
Quiet(op) ==
  /\ told'[op] = told[op] /\ verdicts'[op] = verdicts[op]
  /\ op \in uncertain' => op \in uncertain \/ ~Finished(op)

Answer(op) ==
  /\ ~Final(op) /\ Finished(op)' /\ ~Pending(op)' /\ txn'[op] = txn[op]
  /\ \/ told'[op] = "unresolved" /\ verdicts'[op] = verdicts[op]
     \/ Final(op)' /\ verdicts'[op] = verdicts[op] + 1 /\ op \notin uncertain'

\* The first message about an operation is taken before any other.
LEMMA PendingTaken ==
  ASSUME TypeOK, ReportsFirst, Taken
  PROVE  /\ \A op \in Ops : Pending(op)' => Pending(op)
         /\ \A op \in Ops : Pending(op) /\ Head(inbox).op # op => Pending(op)'
         /\ \A op \in Ops : Head(inbox).op = op =>
              /\ ~Pending(op)'
              /\ Pending(op) <=> Head(inbox).kind \in ReportKinds
<1>1. /\ Len(inbox) \in Nat \ {0} /\ Len(inbox') = Len(inbox) - 1
      /\ \A i \in 1..Len(inbox') : i + 1 \in 1..Len(inbox) /\ inbox'[i] = inbox[i+1]
      /\ Head(inbox) = inbox[1]
  BY TakenPlaces
<1>2. \A op \in Ops : Pending(op)' => Pending(op)
  BY <1>1 DEF Pending
<1>3. ASSUME NEW op \in Ops, Pending(op), Head(inbox).op # op
      PROVE  Pending(op)'
  <2>1. PICK i \in 1..Len(inbox) : inbox[i].kind \in ReportKinds /\ inbox[i].op = op
    BY <1>3 DEF Pending
  <2>2. i - 1 \in 1..Len(inbox') /\ inbox'[i - 1] = inbox[i]
    BY <1>1, <1>3, <2>1
  <2>3. QED
    BY <2>1, <2>2 DEF Pending
<1>4. 1 \in 1..Len(inbox) /\ \A j \in 1..Len(inbox) : j <= 1 => j = 1
  BY <1>1
<1>5. \A j \in 1..Len(inbox) :
        inbox[j].kind \in ReportKinds /\ inbox[j].op = Head(inbox).op => j = 1
  BY <1>1, <1>4 DEF ReportsFirst
<1>6. ASSUME NEW op \in Ops, Head(inbox).op = op
      PROVE  ~Pending(op)'
  <2>1. ASSUME NEW i \in 1..Len(inbox'), inbox'[i].kind \in ReportKinds, inbox'[i].op = op
        PROVE  FALSE
    <3>1. i + 1 = 1
      BY <1>1, <1>5, <1>6, <2>1
    <3>2. QED
      BY <3>1
  <2>2. QED
    BY <2>1 DEF Pending
<1>7. \A op \in Ops : Head(inbox).op = op =>
        (Pending(op) <=> Head(inbox).kind \in ReportKinds)
  BY <1>1, <1>4, <1>5 DEF Pending
<1>8. QED
  BY <1>2, <1>3, <1>6, <1>7

\* What is posted takes no report away and adds reports of operations given up only.
LEMMA PendingPosted ==
  ASSUME TypeOK, Posting, NEW op \in Ops
  PROVE  /\ Pending(op) => Pending(op)'
         /\ Pending(op)' => Pending(op) \/ ~Finished(op)
<1>1. PICK s \in Seq(Messages) : inbox' = inbox \o s /\ Fresh(s)
  BY DEF Posting
<1>2. /\ Len(inbox) \in Nat /\ Len(s) \in Nat /\ Len(inbox') = Len(inbox) + Len(s)
      /\ \A i \in 1..Len(inbox) : inbox'[i] = inbox[i]
      /\ \A i \in 1..Len(inbox') : i > Len(inbox) =>
           i - Len(inbox) \in 1..Len(s) /\ inbox'[i] = s[i - Len(inbox)]
  BY <1>1, PostedPlaces
<1>3. Pending(op) => Pending(op)'
  BY <1>2 DEF Pending
<1>4. ASSUME NEW i \in 1..Len(inbox'), inbox'[i].kind \in ReportKinds, inbox'[i].op = op
      PROVE  Pending(op) \/ ~Finished(op)
  <2>1. CASE i <= Len(inbox)
    BY <1>2, <1>4, <2>1 DEF Pending
  <2>2. CASE i > Len(inbox)
    BY <1>1, <1>2, <1>4, <2>2 DEF Fresh
  <2>3. QED
    BY <1>2, <2>1, <2>2
<1>5. QED
  BY <1>3, <1>4 DEF Pending

\* The report of an operation is sent when it is finished.
LEMMA PendingFinished ==
  ASSUME Answered, NEW op \in Ops, Pending(op)
  PROVE  Finished(op)
BY DEF Pending, Answered, Elements

\* The answers of a step follow from what it does to each operation.
LEMMA OneAnswerKept ==
  ASSUME TypeOK, Answered, OneAnswer, \A op \in Ops : Stable(op),
         \A op \in Ops : Quiet(op) \/ Answer(op),
         Taken \/ Posting \/ inbox' = <<>>, ReportsFirst, TypeOK'
  PROVE  OneAnswer'
<1>1. ASSUME NEW op \in Ops
      PROVE  /\ verdicts'[op] = IF Final(op)' THEN 1 ELSE 0
             /\ Final(op)' => Finished(op)' /\ op \notin uncertain' /\ ~Pending(op)'
  <2>1. CASE Answer(op)
    BY <2>1 DEF Answer, OneAnswer, Final
  <2>2. CASE Quiet(op)
    <3>1. Final(op)' <=> Final(op)
      BY <2>2 DEF Quiet, Final
    <3>2. Pending(op)' => Pending(op) \/ ~Finished(op)
      <4>1. CASE inbox' = <<>>
        BY <4>1 DEF Pending
      <4>2. QED
        BY <4>1, PendingTaken, PendingPosted
    <3>3. QED
      BY <2>2, <3>1, <3>2 DEF Quiet, OneAnswer, Stable
  <2>3. QED
    BY <2>1, <2>2
<1>2. QED
  BY <1>1 DEF OneAnswer, Final, Finished, Pending

\* Only a lost commit is reported while its callback is kept.
LEMMA KeptForLostKept ==
  ASSUME TypeOK, Answered, KeptForLost,
         \A op \in Ops : Quiet(op) \/ Answer(op),
         Taken \/ Posting \/ inbox' = <<>>, TypeOK'
  PROVE  KeptForLost'
<1>1. ASSUME NEW i \in 1..Len(inbox'),
             inbox'[i].kind \in ReportKinds, inbox'[i].op \in uncertain'
      PROVE  inbox'[i].kind = "result" /\ inbox'[i].outcome = "COMMIT_STATUS_UNKNOWN"
  <2> PICK op \in Ops : op = inbox'[i].op
    BY <1>1 DEF TypeOK
  <2>1. Pending(op)'
    BY <1>1 DEF Pending
  <2>2. op \in uncertain \/ ~Finished(op)
    BY <1>1, <2>1 DEF Quiet, Answer
  <2>3. ASSUME NEW j \in 1..Len(inbox), inbox'[i] = inbox[j]
        PROVE  inbox[j].kind = "result" /\ inbox[j].outcome = "COMMIT_STATUS_UNKNOWN"
    <3>1. Finished(op)
      BY <1>1, <2>3 DEF Answered, Elements
    <3>2. QED
      BY <1>1, <2>2, <2>3, <3>1 DEF KeptForLost
  <2>4. CASE Taken
    BY <2>3, <2>4, TakenPlaces
  <2>5. CASE Posting
    <3>1. PICK s \in Seq(Messages) : inbox' = inbox \o s /\ Fresh(s)
      BY <2>5 DEF Posting
    <3>2. CASE i <= Len(inbox)
      BY <2>3, <3>1, <3>2, PostedPlaces
    <3>3. CASE i > Len(inbox)
      <4>1. i - Len(inbox) \in 1..Len(s) /\ inbox'[i] = s[i - Len(inbox)]
        BY <3>1, <3>3, PostedPlaces
      <4>2. QED
        BY <1>1, <3>1, <4>1 DEF Fresh
    <3>4. QED
      BY <3>1, <3>2, <3>3, PostedPlaces
  <2>6. QED
    BY <1>1, <2>4, <2>5
<1>2. QED
  BY <1>1 DEF KeptForLost

-----------------------------------------------------------------------------
(* The effect of completing a request, without its cases. *)

Said == {"unresolved", "committed", "refused"}

\* The caller of op is told said, and its registry entry and record become next.
Completed(op, said, next, callbacks) ==
  /\ said \in Said /\ next \in {"none", "RECOVERING", "UNCERTAIN"}
  /\ said = "unresolved" <=> next # "none"
  /\ told' = [told EXCEPT ![op] = said]
  /\ verdicts' = [verdicts EXCEPT ![op] = IF said = "unresolved" THEN @ ELSE @ + 1]
  /\ pstate' = [pstate EXCEPT ![op] = IF pstate[op] # "none" THEN next ELSE "none"]
  /\ journal' = IF pstate[op] # "none" THEN [journal EXCEPT ![op] = next] ELSE journal
  /\ uncertain' = IF pstate[op] # "none" /\ said = "unresolved" THEN callbacks \cup {op}
                  ELSE callbacks
  /\ UNCHANGED <<life, submitting, queue, worker, txn, stage, granted>>

\* What Complete does to an operation, whichever of its branches is taken.
LEMMA CompleteEffect ==
  ASSUME TypeOK, NEW op \in Ops, NEW outcome \in Outcomes, NEW g, NEW callbacks,
         NEW raises \in BOOLEAN, Complete(op, outcome, g, callbacks, raises)
  PROVE  /\ \E said, next :
              /\ Completed(op, said, next, callbacks)
              /\ said = "committed" => outcome = "COMMITTED"
              /\ said = "refused" => outcome \in Refusals
         /\ rt'.recovered = rt.recovered
         /\ \E failed : drain' = DrainAfter(pstate', failed)
<1> DEFINE trusted == RuntimeCurrent(g) /\ ~rt.recReq
           result == IF outcome = "COMMITTED" /\ ~trusted
                       THEN "COMMITTED_PROJECTION_FAILED" ELSE outcome
           registered == pstate[op] # "none"
           next == CASE result = "COMMIT_STATUS_UNKNOWN" -> "UNCERTAIN"
                     [] result = "COMMITTED_PROJECTION_FAILED" -> "RECOVERING"
                     [] result = "COMMITTED" -> IF raises THEN "RECOVERING" ELSE "none"
                     [] OTHER -> "none"
           final == (result = "COMMITTED" /\ ~raises) \/ result \in Refusals
           registry == [pstate EXCEPT ![op] = IF registered THEN next ELSE "none"]
           said == IF ~final THEN "unresolved"
                   ELSE IF result = "COMMITTED" THEN "committed" ELSE "refused"
<1>1. result \in Outcomes /\ (result \in Refusals => outcome = result)
      /\ (result = "COMMITTED" => outcome = "COMMITTED")
  BY DEF Outcomes, Refusals
<1>2. /\ told' = [told EXCEPT ![op] = said]
      /\ verdicts' = [verdicts EXCEPT ![op] = IF final THEN @ + 1 ELSE @]
      /\ pstate' = registry
      /\ journal' = IF registered THEN [journal EXCEPT ![op] = next] ELSE journal
      /\ uncertain' = IF registered /\ ~final THEN callbacks \cup {op} ELSE callbacks
      /\ IF registered /\ next = "RECOVERING" /\ attached
           THEN RequireReconciliation(rt)
           ELSE UNCHANGED <<rt, sync>>
      /\ drain' = DrainAfter(registry,
                             registered /\ op \in Critical /\ result \in Refusals)
      /\ UNCHANGED <<life, submitting, queue, worker, txn, stage, granted>>
  BY DEF Complete
<1>3. final <=> said # "unresolved"
  OBVIOUS
<1>4. final <=> next = "none"
  <2> HIDE DEF result
  <2>1. QED
    BY <1>1 DEF Outcomes, Refusals
<1>5. said \in Said /\ next \in {"none", "RECOVERING", "UNCERTAIN"}
  <2> HIDE DEF result
  <2>1. QED
    BY DEF Said
<1>6. (said = "committed" => result = "COMMITTED") /\ (said = "refused" => result \in Refusals)
  <2> HIDE DEF result
  <2>1. QED
    OBVIOUS
<1>7. rt'.recovered = rt.recovered
  BY <1>2, ReconcilingSession DEF RequireReconciliation, TypeOK
<1>8. \E failed : drain' = DrainAfter(pstate', failed)
  BY <1>2
<1> HIDE DEF result, next, final, said
<1>9. Completed(op, said, next, callbacks)
  BY <1>2, <1>3, <1>4, <1>5 DEF Completed
<1>10. QED
  BY <1>1, <1>6, <1>7, <1>8, <1>9

\* Completing the request of an operation answers its caller and no other.
LEMMA CompletedAnswers ==
  ASSUME TypeOK, NEW op \in Ops, NEW said, NEW next, NEW callbacks \in SUBSET uncertain,
         Completed(op, said, next, callbacks),
         ~Final(op), Finished(op), Stable(op), ~Pending(op)',
         op \in callbacks => said = "unresolved"
  PROVE  \A o \in Ops : Quiet(o) \/ Answer(o)
<1>1. Answer(op)
  <2>1. told'[op] = said /\ txn'[op] = txn[op]
        /\ verdicts'[op] = IF said = "unresolved" THEN verdicts[op] ELSE verdicts[op] + 1
    BY DEF Completed, TypeOK
  <2>2. said # "unresolved" => Final(op)' /\ op \notin uncertain'
    BY <2>1 DEF Completed, Said, Final
  <2>3. QED
    BY <2>1, <2>2 DEF Answer, Stable
<1>2. ASSUME NEW o \in Ops, o # op
      PROVE  Quiet(o)
  BY <1>2 DEF Quiet, Completed, TypeOK
<1>3. QED
  BY <1>1, <1>2

\* The handling of an answer that reaches a caller.
Completing ==
  \E op \in Ops, said \in Said, next \in PendingStates, callbacks \in SUBSET uncertain :
    /\ Completed(op, said, next, callbacks)
    /\ Taken /\ Head(inbox).op = op
    /\ ~Final(op) /\ Finished(op) /\ ~Pending(op)'
    /\ op \in callbacks => said = "unresolved"
    /\ uncertain \ {op} \subseteq callbacks
    /\ said = "committed" => txn[op] = "committed"
    /\ said = "refused" => NotRun(op)
    /\ rt'.recovered = rt.recovered
    /\ \E failed : drain' = DrainAfter(pstate', failed)

\* The handling of a message that reaches none.
Ignoring ==
  /\ Taken /\ Head(inbox).kind \notin ReportKinds
  /\ UNCHANGED <<pstate, uncertain, submitting, journal, queue, cur, txn, ghosts>>
  /\ rt'.recovered = rt.recovered
  /\ drain' = drain \/ \E failed : drain' = DrainAfter(pstate', failed)
  /\ UNCHANGED pc \/ (pc = "ended" /\ pc' = "drained" /\ UNCHANGED drain)

\* An answer that is handled completes the request of an operation that is finished and
\* whose caller has no final answer.
LEMMA HandleCompletes ==
  ASSUME TypeOK, Answered, ReportsFirst, OneAnswer, KeptForLost,
         NEW kind \in {"result", "local", "recovered"}, Receive(kind),
         NEW m, m = Head(inbox), NEW outcome \in Outcomes, NEW callbacks \in SUBSET uncertain,
         NEW raises \in BOOLEAN, Complete(m.op, outcome, m.gen, callbacks, raises),
         kind = "recovered" => m.op \in uncertain /\ m.op \notin callbacks,
         uncertain \ {m.op} \subseteq callbacks,
         outcome = "COMMITTED" => kind = "local" \/ m.outcome = "COMMITTED",
         outcome \in Refusals => kind # "local" /\ m.outcome = outcome
  PROVE  Completing
<1>1. Taken /\ inbox[1] = m /\ 1 \in 1..Len(inbox)
  BY TakenPlaces DEF Receive, Taken
<1>2. PICK op \in Ops : op = m.op
  BY ReceiveType DEF TypeOK
<1>3. m.kind = kind /\ m \in Elements(inbox)
  BY <1>1, ReceiveType DEF TypeOK, Elements
<1>4. Finished(op) /\ Truthful(m)
  BY <1>2, <1>3 DEF Answered
<1>5. ~Final(op)
  <2>1. CASE kind = "recovered"
    BY <1>2, <2>1 DEF OneAnswer
  <2>2. CASE kind \in ReportKinds
    <3>1. Pending(op)
      BY <1>1, <1>2, <1>3, <2>2 DEF Pending
    <3>2. QED
      BY <3>1 DEF OneAnswer
  <2>3. QED
    BY <2>1, <2>2 DEF ReportKinds
<1>6. ~Pending(op)'
  BY <1>1, <1>2, PendingTaken
<1>7. op \in callbacks => kind = "result" /\ m.outcome = "COMMIT_STATUS_UNKNOWN"
  BY <1>1, <1>2, <1>3 DEF KeptForLost, ReportKinds
<1>8. PICK said, next :
        /\ Completed(op, said, next, callbacks)
        /\ said = "committed" => outcome = "COMMITTED"
        /\ said = "refused" => outcome \in Refusals
  BY <1>2, CompleteEffect
<1>9. /\ rt'.recovered = rt.recovered
      /\ \E failed : drain' = DrainAfter(pstate', failed)
  BY <1>2, CompleteEffect
<1>10. said = "committed" => txn[op] = "committed"
  BY <1>2, <1>3, <1>4, <1>8 DEF Truthful
<1>11. said = "refused" => NotRun(op)
  BY <1>2, <1>4, <1>8 DEF Truthful
<1>12. op \in callbacks => said = "unresolved"
  <2>1. ASSUME op \in callbacks
        PROVE  outcome # "COMMITTED" /\ outcome \notin Refusals
    BY <1>7, <2>1 DEF Refusals
  <2>2. QED
    BY <1>8, <2>1 DEF Completed, Said
<1>13. /\ op \in Ops /\ callbacks \in SUBSET uncertain
       /\ Completed(op, said, next, callbacks)
       /\ Taken /\ Head(inbox).op = op
       /\ ~Final(op) /\ Finished(op) /\ ~Pending(op)'
       /\ op \in callbacks => said = "unresolved"
       /\ uncertain \ {op} \subseteq callbacks
       /\ said = "committed" => txn[op] = "committed"
       /\ said = "refused" => NotRun(op)
       /\ rt'.recovered = rt.recovered
       /\ \E failed : drain' = DrainAfter(pstate', failed)
  BY <1>1, <1>2, <1>4, <1>5, <1>6, <1>8, <1>9, <1>10, <1>11, <1>12
<1>14. said \in Said /\ next \in PendingStates
  BY <1>8 DEF Completed, PendingStates
<1>15. QED
  BY <1>13, <1>14 DEF Completing

\* A handler completes a request, starts a session, or leaves every operation as it is.
LEMMA UiStepKinds ==
  ASSUME TypeOK, Answered, ReportsFirst, OneAnswer, KeptForLost, SignalsLast, UiStep
  PROVE  UiMove \/ HandleStarted \/ Completing \/ Ignoring
<1> USE DEF life, memory, worker, ghosts
<1> PICK m : m = Head(inbox)
  OBVIOUS
<1>1. CASE HandleResult
  <2>1. Receive("result") /\ Complete(m.op, m.outcome, m.gen, uncertain, FALSE)
    BY <1>1 DEF HandleResult
  <2>2. m.outcome \in Outcomes
    BY <2>1, ReceiveType DEF TypeOK
  <2>3. QED
    BY <2>1, <2>2, HandleCompletes
<1>2. CASE HandleLocal
  <2>1. Receive("local")
    BY <1>2 DEF HandleLocal
  <2>2. PICK outcome \in {"COMMITTED", "COMMITTED_PROJECTION_FAILED"} :
          Complete(m.op, outcome, m.gen, uncertain, FALSE)
    BY <1>2 DEF HandleLocal
  <2>3. outcome \in Outcomes /\ outcome \notin Refusals
    BY DEF Outcomes, Refusals
  <2>4. QED
    BY <2>1, <2>2, <2>3, HandleCompletes
<1>3. CASE HandleLocalFailure
  <2>1. Receive("local")
    BY <1>3 DEF HandleLocalFailure
  <2>2. PICK outcome \in {"COMMITTED", "COMMITTED_PROJECTION_FAILED"}, raises \in BOOLEAN :
          Complete(m.op, outcome, m.gen, uncertain, raises)
    BY <1>3 DEF HandleLocalFailure
  <2>3. outcome \in Outcomes /\ outcome \notin Refusals
    BY DEF Outcomes, Refusals
  <2>4. QED
    BY <2>1, <2>2, <2>3, HandleCompletes
<1>4. CASE HandleRecovered
  <2>1. Receive("recovered")
    BY <1>4 DEF HandleRecovered
  <2>2. CASE /\ m.op \in uncertain
             /\ Complete(m.op, m.outcome, m.gen, uncertain \ {m.op}, FALSE)
    <3>1. m.outcome \in Outcomes
      BY <2>1, ReceiveType DEF TypeOK
    <3>2. QED
      BY <2>1, <2>2, <3>1, HandleCompletes
  <2>3. CASE UNCHANGED <<life, rt, sync, memory, journal, queue, worker, txn, ghosts>>
    BY <2>1, <2>3 DEF Ignoring, Receive, Taken, ReportKinds
  <2>4. QED
    BY <1>4, <2>2, <2>3 DEF HandleRecovered
<1>5. CASE HandleStartedFailure
  <2>1. rt'.recovered = rt.recovered \/ HandleStarted
    BY <1>5, UiStepSession DEF UiStep
  <2>2. QED
    BY <1>5, <2>1 DEF HandleStartedFailure, Ignoring, Receive, Taken, ReportKinds
<1>6. CASE HandleStale
  BY <1>6 DEF HandleStale, Ignoring, Taken, ReportKinds
<1>7. CASE HandleRestored \/ HandleDisconnected
  BY <1>7 DEF HandleRestored, HandleDisconnected, Ignoring, Receive, Taken, ReportKinds
<1>8. CASE HandleBatch \/ HandleBatchFailure \/ HandleReconcile
  <2>1. /\ Taken /\ Head(inbox).kind \in {"batch", "reset", "reconcile"}
        /\ UNCHANGED <<memory, journal, queue, worker, txn, ghosts>>
    BY <1>8 DEF HandleBatch, HandleBatchFailure, HandleReconcile, Receive, Taken
  <2>2. ~HandleStarted
    BY <2>1 DEF HandleStarted, Receive
  <2>3. rt'.recovered = rt.recovered
    BY <2>2, UiStepSession
  <2>4. QED
    BY <2>1, <2>3 DEF Ignoring, ReportKinds
<1>9. CASE HandleDrained
  <2>1. Taken /\ Head(inbox).kind = "drained"
    BY <1>9 DEF HandleDrained, Receive, Taken
  <2>2. pc = "ended"
    BY <2>1, TakenPlaces DEF SignalsLast
  <2>3. QED
    BY <1>9, <2>1, <2>2 DEF HandleDrained, Ignoring, ReportKinds
<1>10. QED
  BY <1>1, <1>2, <1>3, <1>4, <1>5, <1>6, <1>7, <1>8, <1>9 DEF UiStep, UiMove

-----------------------------------------------------------------------------
(* Every step says nothing of an operation, or answers a caller that waits. *)

\* The main thread's steps.
LEMMA UiStepAnswers ==
  ASSUME TypeOK, Placed, Answered, ReportsFirst, SignalsLast, OneAnswer, KeptForLost,
         UiStep, \A op \in Ops : Stable(op),
         \A op \in rt.recovered : Finished(op)
  PROVE  \A op \in Ops : Quiet(op) \/ Answer(op)
<1> USE DEF life, memory, worker, ghosts
<1>1. CASE TestRuntime \/ Enqueue
  BY <1>1 DEF TestRuntime, Enqueue, Quiet
<1>2. CASE RefuseEnqueue
  <2>1. PICK op \in Ops : op = submitting
    BY <1>2 DEF RefuseEnqueue, TypeOK
  <2>2. /\ told' = [told EXCEPT ![op] = "refused"]
        /\ verdicts' = [verdicts EXCEPT ![op] = @ + 1]
        /\ submitting' = NoOp
        /\ UNCHANGED <<inbox, uncertain, stage, queue, txn, worker>>
    BY <1>2, <2>1 DEF RefuseEnqueue
  <2>3. ~Finished(op)
    BY <2>1 DEF Finished
  <2>4. Finished(op)'
    BY <2>1, <2>2, OpsAssumption DEF Placed, Finished, Held, Queued, Elements
  <2>5. ~Final(op) /\ ~Pending(op) /\ op \notin uncertain
    BY <2>3, PendingFinished DEF OneAnswer, Answered
  <2>6. ~Pending(op)'
    BY <2>2, <2>5 DEF Pending
  <2>7. Answer(op)
    BY <2>2, <2>4, <2>5, <2>6 DEF Answer, Final, TypeOK
  <2>8. \A o \in Ops \ {op} : Quiet(o)
    BY <2>2 DEF Quiet, TypeOK
  <2>9. QED
    BY <2>7, <2>8
<1>3. CASE HandleStarted
  <2>1. PICK done \in SUBSET (rt.recovered \cap uncertain) :
          /\ told' = [op \in Ops |->
                        IF op \in done THEN "committed"
                        ELSE IF op \in (rt.recovered \cap uncertain) \ done
                        THEN "unresolved" ELSE told[op]]
          /\ verdicts' = [op \in Ops |-> IF op \in done THEN verdicts[op] + 1
                                         ELSE verdicts[op]]
          /\ uncertain' = uncertain \ done
    BY <1>3 DEF HandleStarted
  <2>2. inbox' = <<>> /\ UNCHANGED txn
    <3>1. /\ Taken /\ Head(inbox).kind = "started" /\ SessionCurrent(Head(inbox))
          /\ UNCHANGED txn
      BY <1>3 DEF HandleStarted, Receive, Taken
    <3>2. QED
      BY <3>1, LastTaken
  <2>3. ASSUME NEW op \in Ops
        PROVE  Quiet(op) \/ Answer(op)
    <3>1. ~Pending(op)'
      BY <2>2 DEF Pending
    <3>2. CASE op \in rt.recovered \cap uncertain
      <4>1. ~Final(op) /\ Finished(op)'
        BY <3>2 DEF OneAnswer, Stable
      <4>2. told'[op] = (IF op \in done THEN "committed" ELSE "unresolved")
            /\ verdicts'[op] = (IF op \in done THEN verdicts[op] + 1 ELSE verdicts[op])
        BY <2>1, <3>2
      <4>3. QED
        BY <2>1, <2>2, <3>1, <4>1, <4>2 DEF Answer, Final
    <3>3. CASE op \notin rt.recovered \cap uncertain
      BY <2>1, <3>3 DEF Quiet
    <3>4. QED
      BY <3>2, <3>3
  <2>4. QED
    BY <2>3
<1>4. CASE Completing
  BY <1>4, CompletedAnswers DEF Completing
<1>5. CASE Ignoring
  BY <1>5 DEF Ignoring, Quiet
<1>6. QED
  BY <1>1, <1>2, <1>3, <1>4, <1>5, UiStepKinds DEF UiMove

\* The worker answers nobody itself, and keeps the callback of what it gives up only.
LEMMA WorkerStepQuiet ==
  ASSUME TypeOK, WorkerStep, NEW op \in Ops
  PROVE  Quiet(op)
<1> USE DEF life, memory, worker, ghosts, Quiet
<1>1. CASE LoseSession \/ LeaveSession \/ ListJournal \/ AnnounceStart \/ BeginIteration
  BY <1>1 DEF LoseSession, LeaveSession, ListJournal, AnnounceStart, BeginIteration
<1>2. CASE BeginReset \/ EndReset \/ StartSession \/ SkipServe \/ Take
  BY <1>2 DEF BeginReset, Reset, EndReset, StartSession, SkipServe, Take
<1>3. ASSUME NEW o \in Ops, QueryOperation(o)
      PROVE  Quiet(op)
  BY <1>3 DEF QueryOperation
<1>4. CASE Admit \/ RecordExecuting \/ Deny \/ Abort
  BY <1>4 DEF Admit, RecordExecuting, Deny, Abort
<1>5. CASE LoseCommit
  BY <1>5 DEF LoseCommit, Worker, Finished, Held, HoldingSteps
<1>6. CASE Commit \/ Settle \/ SettleFailure
  BY <1>6 DEF Commit, Settle, SettleFailure
<1>7. CASE Poll \/ Check \/ Leave \/ Close \/ Drained
  BY <1>7 DEF Poll, Check, Leave, Close, Drained
<1> HIDE DEF Quiet
<1>8. QED
  BY <1>1, <1>2, <1>3, <1>4, <1>5, <1>6, <1>7 DEF WorkerStep

\* A submission that cannot be recorded is refused at once.
LEMMA UserStepAnswers ==
  ASSUME TypeOK, Placed, Answered, OneAnswer, UserStep
  PROVE  \A op \in Ops : Quiet(op) \/ Answer(op)
<1> USE DEF life, memory, worker, ghosts
<1>1. ASSUME NEW op \in Ops, SubmitUnrecorded(op)
      PROVE  \A o \in Ops : Quiet(o) \/ Answer(o)
  <2>1. /\ told' = [told EXCEPT ![op] = "refused"]
        /\ verdicts' = [verdicts EXCEPT ![op] = @ + 1]
        /\ stage' = [stage EXCEPT ![op] = "submitted"]
        /\ stage[op] = "new" /\ submitting = NoOp
        /\ UNCHANGED <<inbox, uncertain, submitting, queue, txn, worker>>
    BY <1>1 DEF SubmitUnrecorded, UiIdle
  <2>2. ~Finished(op) /\ op \notin Queued /\ ~Held(op)
    BY <2>1 DEF Finished, Placed, Held
  <2>3. Finished(op)'
    BY <2>1, <2>2, OpsAssumption DEF Finished, Held, Queued, Elements, TypeOK
  <2>4. ~Final(op) /\ ~Pending(op) /\ op \notin uncertain
    BY <2>2, PendingFinished DEF OneAnswer, Answered
  <2>5. ~Pending(op)'
    BY <2>1, <2>4 DEF Pending
  <2>6. Answer(op)
    BY <2>1, <2>3, <2>4, <2>5 DEF Answer, Final, TypeOK
  <2>7. \A o \in Ops \ {op} : Quiet(o)
    BY <2>1 DEF Quiet, TypeOK
  <2>8. QED
    BY <2>6, <2>7
<1>2. CASE (\E op \in Ops : Submit(op) \/ Cancel(op)) \/ RequestDrain \/ Refresh
           \/ Detach \/ Start
  BY <1>2 DEF Submit, Cancel, RequestDrain, Refresh, Detach, Start, Quiet
<1>3. QED
  BY <1>1, <1>2 DEF UserStep

\* All steps.
LEMMA StepAnswers ==
  ASSUME TypeOK, Placed, Answered, ReportsFirst, SignalsLast, OneAnswer, KeptForLost,
         [Next]_vars, \A op \in rt.recovered : Finished(op)
  PROVE  \A op \in Ops : Quiet(op) \/ Answer(op)
<1>1. \A op \in Ops : Stable(op)
  BY StableStep
<1>2. CASE (\E op \in Ops : ServerResolve(op)) \/ Crash \/ Restart \/ UNCHANGED vars
  BY <1>2 DEF ServerResolve, Crash, Restart, vars, ghosts, memory, Quiet
<1>3. QED
  BY <1>1, <1>2, UiStepAnswers, WorkerStepQuiet, UserStepAnswers DEF Next

-----------------------------------------------------------------------------
(* Accounts: whoever may still have to answer for an operation is known. *)

ExecutingSteps == {"admitted", "txn", "settle"}

AccountOf(op) ==
  /\ op \in uncertain => pstate[op] # "none"
  /\ pc \in ExecutingSteps /\ cur = op => pstate[op] = "EXECUTING"
  /\ op \in rt.recovered => Finished(op)
  \* A transaction is open under the worker's hands, or was lost.
  /\ stage[op] = "accepted" /\ txn[op] = "open" => (pc = "txn" /\ cur = op) \/ op \in uncertain
  \* What committed was answered, or somebody still has the answer.
  /\ stage[op] = "accepted" /\ txn[op] = "committed" =>
       \/ told[op] = "committed"
       \/ pstate[op] # "none" /\ (Held(op) \/ op \in uncertain \/ Pending(op))
  /\ \/ txn[op] = "open"
     \/ txn[op] = "committed" /\ stage[op] = "accepted" /\ told[op] # "committed"
     => journal[op] # "none"

Accounted == \A op \in Ops : AccountOf(op)

\* A step that changes nothing in the account of op.
Undisturbed(op) ==
  /\ told'[op] = told[op] /\ txn'[op] = txn[op] /\ stage'[op] = stage[op]
  /\ pstate'[op] = pstate[op] /\ journal'[op] = journal[op]
  /\ op \in uncertain' <=> op \in uncertain
  /\ op \in rt'.recovered => op \in rt.recovered \/ Finished(op)
  /\ Pending(op) => Pending(op)'
  /\ UNCHANGED <<pc, cur>> \/ (~Held(op) /\ ~(pc' \in HoldingSteps /\ cur' = op))

\* An operation that a step leaves alone is still accounted for.
LEMMA AccountKept ==
  ASSUME NEW op \in Ops, AccountOf(op), Stable(op), Undisturbed(op)
  PROVE  AccountOf(op)'
BY DEF AccountOf, Stable, Undisturbed, Held, HoldingSteps, ExecutingSteps

\* An operation that is gone from the queue and the server's transactions.
LEMMA AccountSettled ==
  ASSUME NEW op \in Ops, txn'[op] \notin {"open", "committed"},
         op \in uncertain' => pstate'[op] # "none",
         pc' \in ExecutingSteps /\ cur' = op => pstate'[op] = "EXECUTING",
         op \notin rt'.recovered
  PROVE  AccountOf(op)'
BY DEF AccountOf

\* What was found on the server has committed.
LEMMA RecoveredCommitted ==
  ASSUME TypeOK, Answered, NEW op \in Ops, txn[op] # "committed"
  PROVE  op \notin rt.recovered
BY DEF Answered

\* What the user does disturbs no account.
LEMMA UserStepAccounted ==
  ASSUME TypeOK, Placed, Answered, Accounted, UserStep, \A op \in Ops : Stable(op)
  PROVE  Accounted'
<1> USE DEF life, memory, worker, ghosts
<1>1. UNCHANGED inbox
  BY UserStepSession
<1>2. \A op \in Ops : Pending(op)' = Pending(op)
  BY <1>1 DEF Pending
<1>3. ASSUME NEW op \in Ops, Submit(op) \/ SubmitUnrecorded(op)
      PROVE  Accounted'
  <2>1. /\ stage[op] = "new" /\ txn[op] = "none" /\ ~Finished(op)
        /\ op \notin uncertain /\ op \notin rt.recovered
    BY <1>3, RecoveredCommitted DEF Submit, SubmitUnrecorded, Placed, Answered, Finished
  <2>2. UNCHANGED <<rt, uncertain, txn, pc, cur>>
    BY <1>3 DEF Submit, SubmitUnrecorded
  <2>3. ~(pc \in ExecutingSteps /\ cur = op)
    BY <2>1 DEF Placed, HoldingSteps, ExecutingSteps
  <2>4. AccountOf(op)'
    BY <2>1, <2>2, <2>3, AccountSettled
  <2>5. ASSUME NEW o \in Ops, o # op
        PROVE  AccountOf(o)'
    <3>1. /\ told'[o] = told[o] /\ stage'[o] = stage[o]
          /\ pstate'[o] = pstate[o] /\ journal'[o] = journal[o]
      BY <1>3, <2>5 DEF Submit, SubmitUnrecorded, TypeOK
    <3>2. Undisturbed(o)
      BY <1>2, <2>2, <3>1 DEF Undisturbed
    <3>3. QED
      BY <3>2, AccountKept DEF Accounted
  <2>6. QED
    BY <2>4, <2>5 DEF Accounted
<1>4. CASE (\E op \in Ops : Cancel(op)) \/ RequestDrain \/ Refresh \/ Detach \/ Start
  <2>1. UNCHANGED <<told, txn, stage, pstate, journal, uncertain>>
    BY <1>4 DEF Cancel, RequestDrain, Refresh, Detach, Start
  <2>2. rt'.recovered \subseteq rt.recovered
    <3>1. CASE (\E op \in Ops : Cancel(op)) \/ RequestDrain \/ Refresh \/ Detach
      BY <3>1, ZenonT(60) DEF Cancel, RequestDrain, Refresh, Detach, TypeOK, Runtimes
    <3>2. CASE Start
      BY <3>2 DEF Start, NewRuntime
    <3>3. QED
      BY <1>4, <3>1, <3>2
  <2>3. UNCHANGED <<pc, cur>> \/ (pc \notin HoldingSteps /\ pc' \notin HoldingSteps)
    BY <1>4 DEF Cancel, RequestDrain, Refresh, Detach, Start, HoldingSteps
  <2>4. \A op \in Ops : Undisturbed(op)
    BY <1>2, <2>1, <2>2, <2>3 DEF Undisturbed, Held
  <2>5. QED
    BY <2>4, AccountKept DEF Accounted
<1>5. QED
  BY <1>3, <1>4 DEF UserStep

\* Completing a request leaves the caller an answer, or the registry an entry.
LEMMA CompletingAccounted ==
  ASSUME TypeOK, Answered, Accounted, ReportsFirst, Completing, \A op \in Ops : Stable(op)
  PROVE  Accounted'
<1> PICK op \in Ops, said \in Said, next \in PendingStates, callbacks \in SUBSET uncertain :
      /\ Completed(op, said, next, callbacks)
      /\ Taken /\ Head(inbox).op = op
      /\ ~Final(op) /\ Finished(op) /\ ~Pending(op)'
      /\ op \in callbacks => said = "unresolved"
      /\ uncertain \ {op} \subseteq callbacks
      /\ said = "committed" => txn[op] = "committed"
      /\ said = "refused" => NotRun(op)
      /\ rt'.recovered = rt.recovered
  BY DEF Completing
<1>1. UNCHANGED <<txn, stage, queue, submitting, pc, cur>>
  BY DEF Completed, worker
<1>2. ASSUME NEW o \in Ops, o # op
      PROVE  AccountOf(o)'
  <2>1. /\ told'[o] = told[o] /\ pstate'[o] = pstate[o] /\ journal'[o] = journal[o]
        /\ o \in uncertain' <=> o \in uncertain
    BY <1>2 DEF Completed, TypeOK
  <2>2. Pending(o) => Pending(o)'
    BY <1>2, PendingTaken
  <2>3. Undisturbed(o)
    BY <1>1, <2>1, <2>2 DEF Undisturbed
  <2>4. QED
    BY <2>3, AccountKept DEF Accounted
<1>3. AccountOf(op)'
  <2>1. AccountOf(op) /\ Finished(op)'
    BY DEF Accounted, Stable
  <2>2. ~(pc' \in ExecutingSteps /\ cur' = op)
    BY <1>1 DEF Finished, Held, HoldingSteps, ExecutingSteps
  <2>3. told'[op] = said
    BY DEF Completed, TypeOK
  <2>4. CASE pstate[op] = "none"
    <3>1. /\ pstate'[op] = "none" /\ journal' = journal
          /\ uncertain' = callbacks /\ op \notin uncertain
      BY <2>1, <2>4 DEF Completed, TypeOK, AccountOf
    <3>2. op \notin uncertain'
      BY <3>1
    <3>3. txn[op] # "open" \/ stage[op] # "accepted"
      BY <2>1, <2>4, <3>1 DEF AccountOf, Finished, Held, HoldingSteps
    <3>4. stage[op] = "accepted" /\ txn[op] = "committed" => FALSE
      BY <2>1, <2>4 DEF AccountOf, Final
    <3>5. QED
      BY <1>1, <2>1, <2>2, <3>1, <3>2, <3>3, <3>4 DEF AccountOf
  <2>5. CASE pstate[op] # "none" /\ said = "unresolved"
    <3>1. /\ pstate'[op] = next /\ journal'[op] = next /\ next # "none"
          /\ op \in uncertain'
      BY <2>5 DEF Completed, TypeOK
    <3>2. QED
      BY <1>1, <2>1, <2>2, <3>1 DEF AccountOf
  <2>6. CASE pstate[op] # "none" /\ said # "unresolved"
    <3>1. op \notin uncertain'
      BY <2>6 DEF Completed
    <3>2. \/ told'[op] = "committed" /\ txn[op] = "committed"
          \/ told'[op] = "refused" /\ txn[op] \notin {"open", "committed"}
      BY <2>3, <2>6 DEF Said, NotRun
    <3>3. QED
      BY <1>1, <2>1, <2>2, <3>1, <3>2 DEF AccountOf
  <2>7. QED
    BY <2>4, <2>5, <2>6
<1>4. QED
  BY <1>2, <1>3 DEF Accounted

\* The start of a session answers those whose commit was found, keeps the others that wait,
\* and forgets only what was answered before.
LEMMA HandleStartedAccounted ==
  ASSUME TypeOK, Answered, Accounted, SignalsLast, HandleStarted, \A op \in Ops : Stable(op)
  PROVE  Accounted'
<1>1. PICK done \in SUBSET (rt.recovered \cap uncertain) :
        /\ told' = [op \in Ops |->
                      IF op \in done THEN "committed"
                      ELSE IF op \in (rt.recovered \cap uncertain) \ done
                      THEN "unresolved" ELSE told[op]]
        /\ pstate' = [op \in Ops |->
                        IF op \in rt.recovered
                          THEN IF op \in (rt.recovered \cap uncertain) \ done
                                 THEN "RECOVERING" ELSE "none"
                          ELSE pstate[op]]
        /\ journal' = [op \in Ops |->
                        IF op \in rt.recovered
                          THEN IF op \in (rt.recovered \cap uncertain) \ done
                                 THEN "RECOVERING" ELSE "none"
                          ELSE journal[op]]
        /\ uncertain' = uncertain \ done
  BY DEF HandleStarted
<1>2. /\ Taken /\ Head(inbox).kind = "started" /\ SessionCurrent(Head(inbox))
      /\ UNCHANGED <<queue, submitting, pc, cur, txn, stage>>
  BY DEF HandleStarted, Receive, Taken, worker
<1>3. Len(inbox) = 1 /\ inbox[1] = Head(inbox)
  BY <1>2, LastTaken, TakenPlaces
<1>4. \A op \in Ops : ~Pending(op)
  BY <1>2, <1>3 DEF Pending, ReportKinds
<1>5. rt'.recovered \subseteq rt.recovered
  <2> DEFINE r == [rt EXCEPT !.recovered = {}]
  <2>1. r \in Runtimes /\ r.recovered = {}
    BY DEF TypeOK, Runtimes
  <2>2. PICK f \in {r, Reconciling(r)} : rt' = [f EXCEPT !.healthy = FALSE, !.ready = TRUE]
    BY DEF HandleStarted
  <2> HIDE DEF r
  <2>3. f \in Runtimes /\ f.recovered = {}
    BY <2>1, <2>2, ReconcilingSession
  <2>4. QED
    BY <2>2, <2>3 DEF Runtimes
<1>6. ASSUME NEW op \in Ops
      PROVE  AccountOf(op)'
  <2>1. AccountOf(op)
    BY DEF Accounted
  <2>2. CASE op \notin rt.recovered
    <3>1. Undisturbed(op)
      BY <1>1, <1>2, <1>4, <1>5, <2>2 DEF Undisturbed
    <3>2. QED
      BY <2>1, <3>1, AccountKept
  <2>3. CASE op \in rt.recovered
    <3>1. /\ Finished(op) /\ Finished(op)' /\ txn'[op] = "committed" /\ txn[op] = "committed"
          /\ ~Held(op) /\ ~(pc' \in ExecutingSteps /\ cur' = op)
      BY <1>2, <2>1, <2>3
         DEF AccountOf, Stable, Answered, Finished, Held, HoldingSteps, ExecutingSteps
    <3>2. CASE op \in done
      BY <1>1, <1>2, <3>1, <3>2 DEF AccountOf
    <3>3. CASE op \in uncertain \ done
      <4>1. pstate'[op] = "RECOVERING" /\ journal'[op] = "RECOVERING" /\ op \in uncertain'
        BY <1>1, <2>3, <3>3
      <4>2. QED
        BY <1>2, <3>1, <4>1 DEF AccountOf
    <3>4. CASE op \notin uncertain
      <4>1. stage[op] = "accepted" => told[op] = "committed"
        BY <1>4, <2>1, <3>1, <3>4 DEF AccountOf
      <4>2. told'[op] = told[op] /\ op \notin uncertain'
        BY <1>1, <3>4
      <4>3. QED
        BY <1>2, <3>1, <4>1, <4>2 DEF AccountOf
    <3>5. QED
      BY <3>2, <3>3, <3>4
  <2>4. QED
    BY <2>2, <2>3
<1>7. QED
  BY <1>6 DEF Accounted

\* The main thread's steps keep the accounts.
LEMMA UiStepAccounted ==
  ASSUME TypeOK, Placed, Answered, ReportsFirst, SignalsLast, OneAnswer, KeptForLost,
         Accounted, UiStep, \A op \in Ops : Stable(op)
  PROVE  Accounted'
<1> USE DEF life, memory, worker, ghosts
<1>0. CASE TestRuntime
  <2>1. /\ submitting \in Ops /\ txn[submitting] = "none"
        /\ submitting \notin rt.recovered /\ submitting \notin uncertain
        /\ ~(pc \in ExecutingSteps /\ cur = submitting)
    BY <1>0, RecoveredCommitted
       DEF TestRuntime, TypeOK, Placed, Answered, Finished, ExecutingSteps, HoldingSteps
  <2>2. /\ UNCHANGED <<rt, pstate, uncertain, journal, inbox, pc, cur, txn, told>>
        /\ stage' = [stage EXCEPT ![submitting] = "tested"]
    BY <1>0 DEF TestRuntime
  <2>3. PICK op \in Ops : op = submitting
    BY <2>1
  <2>4. AccountOf(op)'
    BY <2>1, <2>2, <2>3, AccountSettled
  <2>5. ASSUME NEW o \in Ops, o # op
        PROVE  AccountOf(o)'
    <3>1. Undisturbed(o)
      BY <2>2, <2>3, <2>5 DEF Undisturbed, TypeOK, Pending
    <3>2. QED
      BY <3>1, AccountKept DEF Accounted
  <2>6. QED
    BY <2>4, <2>5 DEF Accounted
<1>1. CASE Enqueue
  <2>1. /\ submitting \in Ops /\ txn[submitting] = "none"
        /\ submitting \notin rt.recovered /\ submitting \notin uncertain
        /\ ~(pc \in ExecutingSteps /\ cur = submitting)
    BY <1>1, RecoveredCommitted
       DEF Enqueue, TypeOK, Placed, Answered, Finished, ExecutingSteps, HoldingSteps
  <2>2. /\ UNCHANGED <<rt, pstate, uncertain, journal, inbox, pc, cur, txn, told>>
        /\ stage' = [stage EXCEPT ![submitting] = "accepted"]
    BY <1>1 DEF Enqueue
  <2>3. PICK op \in Ops : op = submitting
    BY <2>1
  <2>4. AccountOf(op)'
    BY <2>1, <2>2, <2>3, AccountSettled
  <2>5. ASSUME NEW o \in Ops, o # op
        PROVE  AccountOf(o)'
    <3>1. Undisturbed(o)
      BY <2>2, <2>3, <2>5 DEF Undisturbed, TypeOK, Pending
    <3>2. QED
      BY <3>1, AccountKept DEF Accounted
  <2>6. QED
    BY <2>4, <2>5 DEF Accounted
<1>2. CASE RefuseEnqueue
  <2>1. /\ submitting \in Ops /\ txn[submitting] = "none"
        /\ submitting \notin rt.recovered /\ submitting \notin uncertain
        /\ ~(pc \in ExecutingSteps /\ cur = submitting)
    BY <1>2, RecoveredCommitted
       DEF RefuseEnqueue, TypeOK, Placed, Answered, Finished, ExecutingSteps, HoldingSteps
  <2>2. /\ UNCHANGED <<rt, uncertain, inbox, pc, cur, txn, stage>>
        /\ told' = [told EXCEPT ![submitting] = "refused"]
        /\ pstate' = [pstate EXCEPT ![submitting] = "none"]
        /\ journal' = [journal EXCEPT ![submitting] = "none"]
    BY <1>2 DEF RefuseEnqueue
  <2>3. PICK op \in Ops : op = submitting
    BY <2>1
  <2>4. AccountOf(op)'
    BY <2>1, <2>2, <2>3, AccountSettled
  <2>5. ASSUME NEW o \in Ops, o # op
        PROVE  AccountOf(o)'
    <3>1. Undisturbed(o)
      BY <2>2, <2>3, <2>5 DEF Undisturbed, TypeOK, Pending
    <3>2. QED
      BY <3>1, AccountKept DEF Accounted
  <2>6. QED
    BY <2>4, <2>5 DEF Accounted
<1>3. CASE Ignoring
  <2>1. ASSUME NEW op \in Ops
        PROVE  Undisturbed(op)
    <3>1. Pending(op) => Pending(op)'
      BY <1>3, PendingTaken DEF Ignoring
    <3>2. UNCHANGED <<pc, cur>> \/ (pc \notin HoldingSteps /\ pc' \notin HoldingSteps)
      BY <1>3 DEF Ignoring, HoldingSteps
    <3>3. QED
      BY <1>3, <3>1, <3>2 DEF Ignoring, Undisturbed, Held
  <2>2. QED
    BY <2>1, AccountKept DEF Accounted
<1>4. QED
  BY <1>0, <1>1, <1>2, <1>3, UiStepKinds, CompletingAccounted, HandleStartedAccounted
     DEF UiMove

\* The worker's steps keep the accounts: what it lets go of was answered, lost or refused.
LEMMA WorkerStepAccounted ==
  ASSUME TypeOK, Placed, Answered, Accounted, WorkerStep, \A op \in Ops : Stable(op)
  PROVE  Accounted'
<1> USE DEF life, memory, worker, ghosts, Worker, Go
<1>1. \A op \in Ops : Pending(op) => Pending(op)'
  BY WorkerPosts, PendingPosted
<1>2. ASSUME UNCHANGED <<told, txn, stage, pstate, journal, uncertain>>,
             rt'.recovered = rt.recovered,
             UNCHANGED cur, UNCHANGED pc \/ (pc \notin HoldingSteps /\ pc' \notin HoldingSteps)
      PROVE  Accounted'
  <2>1. \A op \in Ops : Undisturbed(op)
    BY <1>1, <1>2 DEF Undisturbed, Held
  <2>2. QED
    BY <2>1, AccountKept DEF Accounted
<1>3. CASE LoseSession \/ LeaveSession \/ ListJournal \/ AnnounceStart \/ BeginIteration
           \/ SkipServe \/ Leave \/ Drained
  BY <1>2, <1>3
     DEF LoseSession, LeaveSession, ListJournal, AnnounceStart, BeginIteration, SkipServe,
         Leave, Drained, FailSteps, StopSteps, HoldingSteps
<1>4. CASE BeginReset
  <2>1. ASSUME NEW step \in ResetSteps, NEW next \in ClearSteps, Reset(step, next)
        PROVE  Accounted'
    <3>1. rt'.recovered = rt.recovered
      BY <2>1 DEF Reset, TypeOK, Runtimes
    <3>2. pc \notin HoldingSteps /\ pc' \notin HoldingSteps
      BY <2>1 DEF Reset, ResetSteps, ClearSteps, HoldingSteps
    <3>3. QED
      BY <1>2, <2>1, <3>1, <3>2 DEF Reset
  <2>2. QED
    BY <1>4, <2>1 DEF BeginReset, ResetSteps, ClearSteps
<1>5. CASE EndReset
  <2>1. rt'.recovered = rt.recovered
    BY <1>5 DEF EndReset, Cleared, TypeOK, Runtimes
  <2>2. QED
    BY <1>2, <1>5, <2>1 DEF EndReset, HoldingSteps
<1>6. CASE StartSession
  <2>1. rt'.recovered = rt.recovered
    BY <1>6 DEF StartSession, TypeOK, Runtimes
  <2>2. QED
    BY <1>2, <1>6, <2>1 DEF StartSession, HoldingSteps
<1>7. CASE Poll
  <2>1. rt'.recovered = rt.recovered
    BY <1>7 DEF Poll, TypeOK, Runtimes
  <2>2. QED
    BY <1>2, <1>7, <2>1 DEF Poll, HoldingSteps
<1>8. CASE Check
  <2>1. rt'.recovered = rt.recovered /\ pc' \in {"top", "ending"}
    <3>1. rt \in Runtimes
      BY DEF TypeOK
    <3>2. QED
      BY <1>8, <3>1 DEF Check, Runtimes
  <2>2. QED
    BY <1>2, <1>8, <2>1 DEF Check, HoldingSteps
<1>9. CASE Close
  <2>1. rt'.recovered = rt.recovered
    BY <1>9 DEF Close, TypeOK, Runtimes
  <2>2. QED
    BY <1>2, <1>9, <2>1 DEF Close, HoldingSteps
<1>10. ASSUME NEW op \in Ops, QueryOperation(op)
       PROVE  Accounted'
  <2>1. /\ UNCHANGED <<told, txn, stage, uncertain, pc, cur>>
        /\ pc = "query" /\ txn[op] # "open"
    BY <1>10 DEF QueryOperation, Answerable
  <2>2. /\ rt'.recovered \subseteq rt.recovered \cup {op}
        /\ op \in rt'.recovered => txn[op] = "committed"
        /\ \A o \in Ops \ {op} : pstate'[o] = pstate[o] /\ journal'[o] = journal[o]
        /\ \/ pstate'[op] = pstate[op] /\ journal'[op] = journal[op]
           \/ op \notin uncertain /\ txn[op] # "committed"
    <3>1. CASE txn[op] = "committed"
      BY <1>10, <3>1 DEF QueryOperation, TypeOK, Runtimes
    <3>2. CASE txn[op] # "committed"
      BY <1>10, <3>2, RecoveredCommitted DEF QueryOperation, TypeOK
    <3>3. QED
      BY <3>1, <3>2
  <2>3. txn[op] = "committed" => Finished(op)
    BY <2>1, OpsAssumption DEF Placed, Finished, Held, HoldingSteps
  <2>4. ASSUME NEW o \in Ops, o # op \/ (pstate'[op] = pstate[op] /\ journal'[op] = journal[op])
        PROVE  AccountOf(o)'
    <3>1. Undisturbed(o)
      BY <1>1, <2>1, <2>2, <2>3, <2>4 DEF Undisturbed
    <3>2. QED
      BY <3>1, AccountKept DEF Accounted
  <2>5. CASE op \notin uncertain /\ txn[op] # "committed"
    <3>1. AccountOf(op)'
      BY <2>1, <2>2, <2>5, AccountSettled DEF ExecutingSteps, TypeOK
    <3>2. QED
      BY <2>4, <3>1 DEF Accounted
  <2>6. QED
    BY <2>2, <2>4, <2>5 DEF Accounted
<1>11. CASE Take
  <2>1. /\ cur' \in Queued /\ pc = "serve" /\ pc' = "taken"
        /\ UNCHANGED <<told, txn, stage, pstate, journal, uncertain, rt>>
    BY <1>11, ElementsOfTail DEF Take, Queued, TypeOK
  <2>2. PICK op \in Ops : op = cur'
    BY <2>1, QueueElements
  <2>3. txn[op] = "none" /\ op \notin uncertain /\ op \notin rt.recovered
    BY <2>1, <2>2, RecoveredCommitted DEF Placed, Answered, Finished
  <2>4. AccountOf(op)'
    BY <2>1, <2>3, AccountSettled DEF ExecutingSteps
  <2>5. \A o \in Ops \ {op} : Undisturbed(o)
    BY <1>1, <2>1, <2>2 DEF Undisturbed, Held, HoldingSteps
  <2>6. QED
    BY <2>4, <2>5, AccountKept DEF Accounted
<1>12. ASSUME pc \in HoldingSteps, UNCHANGED <<told, stage>>, rt'.recovered = rt.recovered,
              \A o \in Ops \ {cur} :
                /\ txn'[o] = txn[o] /\ pstate'[o] = pstate[o] /\ journal'[o] = journal[o]
                /\ o \in uncertain' <=> o \in uncertain,
              pc' \in HoldingSteps => cur' = cur,
              NEW op \in Ops, op = cur, AccountOf(op)'
       PROVE  Accounted'
  <2>1. \A o \in Ops \ {op} : Undisturbed(o)
    BY <1>1, <1>12 DEF Undisturbed, Held
  <2>2. QED
    BY <1>12, <2>1, AccountKept DEF Accounted
<1>13. ASSUME pc \in HoldingSteps
       PROVE  \E op \in Ops : op = cur
  BY <1>13 DEF TypeOK
<1>14. CASE Admit
  <2>1. PICK op \in Ops : op = cur
    BY <1>13, <1>14 DEF Admit, HoldingSteps
  <2>2. txn[op] = "none" /\ op \notin uncertain /\ op \notin rt.recovered
    BY <1>14, <2>1, RecoveredCommitted
       DEF Admit, Placed, Answered, Finished, Held, HoldingSteps
  <2>3. /\ rt'.recovered = rt.recovered
        /\ UNCHANGED <<told, stage, txn, journal, uncertain>>
    BY <1>14 DEF Admit, TypeOK, Runtimes
  <2>4. /\ pc' \in HoldingSteps => cur' = cur /\ pstate' = [pstate EXCEPT ![cur] = "EXECUTING"]
        /\ \A o \in Ops \ {cur} : pstate'[o] = pstate[o]
        /\ pc = "taken"
    BY <1>14 DEF Admit, HoldingSteps, TypeOK
  <2>5. pc' \in ExecutingSteps /\ cur' = op => pstate'[op] = "EXECUTING"
    BY <2>1, <2>4 DEF ExecutingSteps, HoldingSteps, TypeOK
  <2>6. AccountOf(op)'
    BY <2>2, <2>3, <2>5, AccountSettled
  <2>7. QED
    BY <1>12, <2>1, <2>3, <2>4, <2>6 DEF HoldingSteps
<1>15. CASE RecordExecuting \/ Deny
  <2>1. PICK op \in Ops : op = cur
    BY <1>13, <1>15 DEF RecordExecuting, Deny, HoldingSteps
  <2>2. /\ txn[op] = "none" /\ op \notin uncertain /\ op \notin rt.recovered
        /\ pc = "admitted" /\ pstate[op] = "EXECUTING"
    BY <1>15, <2>1, RecoveredCommitted
       DEF RecordExecuting, Deny, Placed, Answered, Finished, Held, HoldingSteps, Accounted,
           AccountOf, ExecutingSteps
  <2>3. /\ UNCHANGED <<rt, told, stage, pstate, uncertain>>
        /\ \A o \in Ops \ {cur} : txn'[o] = txn[o] /\ journal'[o] = journal[o]
        /\ pc' \in HoldingSteps => cur' = cur
    BY <1>15 DEF RecordExecuting, Deny, HoldingSteps, TypeOK
  <2>4. \/ pc' \notin HoldingSteps /\ txn'[op] = "none"
        \/ pc' = "txn" /\ txn'[op] = "open" /\ journal'[op] = "EXECUTING" /\ cur' = op
    BY <1>15, <2>1, <2>2 DEF RecordExecuting, Deny, HoldingSteps, TypeOK
  <2>5. AccountOf(op)'
    BY <2>2, <2>3, <2>4 DEF AccountOf, ExecutingSteps, HoldingSteps
  <2>6. QED
    BY <1>12, <2>1, <2>2, <2>3, <2>5 DEF HoldingSteps
<1>16. CASE Abort \/ Commit \/ LoseCommit
  <2>1. PICK op \in Ops : op = cur
    BY <1>13, <1>16 DEF Abort, Commit, LoseCommit, HoldingSteps
  <2>2. /\ txn[op] = "open" /\ stage[op] = "accepted"
        /\ op \notin uncertain /\ op \notin rt.recovered
        /\ pc = "txn" /\ pstate[op] = "EXECUTING" /\ journal[op] # "none"
    BY <1>16, <2>1, RecoveredCommitted
       DEF Abort, Commit, LoseCommit, Placed, Answered, Finished, Held, HoldingSteps,
           Accounted, AccountOf, ExecutingSteps
  <2>3. /\ UNCHANGED <<rt, told, stage, pstate, journal>>
        /\ \A o \in Ops \ {cur} : txn'[o] = txn[o] /\ (o \in uncertain' <=> o \in uncertain)
        /\ pc' \in HoldingSteps => cur' = cur
    BY <1>16 DEF Abort, Commit, LoseCommit, HoldingSteps, TypeOK
  <2>4. \/ pc' \notin HoldingSteps /\ txn'[op] = "aborted"
        \/ pc' = "settle" /\ txn'[op] = "committed" /\ cur' = op
        \/ pc' \notin HoldingSteps /\ txn'[op] = "open" /\ op \in uncertain'
    BY <1>16, <2>1, <2>2 DEF Abort, Commit, LoseCommit, HoldingSteps, TypeOK
  <2>5. AccountOf(op)'
    BY <2>2, <2>3, <2>4 DEF AccountOf, ExecutingSteps, HoldingSteps, Held
  <2>6. QED
    BY <1>12, <2>1, <2>2, <2>3, <2>5 DEF HoldingSteps
<1>17. CASE Settle \/ SettleFailure
  <2>1. PICK op \in Ops : op = cur
    BY <1>13, <1>17 DEF Settle, SettleFailure, HoldingSteps
  <2>2. /\ txn[op] = "committed" /\ stage[op] = "accepted"
        /\ op \notin uncertain /\ ~Finished(op)
        /\ pc = "settle" /\ pstate[op] = "EXECUTING"
        /\ told[op] # "committed" => journal[op] # "none"
        /\ op \in rt.recovered => Finished(op)
    BY <1>17, <2>1
       DEF Settle, SettleFailure, Placed, Answered, Finished, Held, HoldingSteps,
           Accounted, AccountOf, ExecutingSteps
  <2>3. /\ UNCHANGED <<rt, told, stage, txn, uncertain>>
        /\ \A o \in Ops \ {cur} : pstate'[o] = pstate[o] /\ journal'[o] = journal[o]
        /\ pc' \notin HoldingSteps
        /\ pstate'[op] \in {"EXECUTING", "PROJECTING"}
        /\ journal'[op] \in {journal[op], "PROJECTING"}
    BY <1>17, <2>1, <2>2 DEF Settle, SettleFailure, HoldingSteps, TypeOK
  <2>4. Pending(op)'
    <3>1. PICK m \in Messages : Post(m) /\ m.kind \in ReportKinds /\ m.op = op
      <4>1. /\ Message("local", op, "COMMITTED") \in Messages
            /\ Message("result", op, "COMMITTED_PROJECTION_FAILED") \in Messages
        BY AnswerType DEF TypeOK, Outcomes
      <4>2. \A kind \in ReportKinds, outcome \in Outcomes :
              /\ Message(kind, op, outcome).kind \in ReportKinds
              /\ Message(kind, op, outcome).op = op
        BY DEF Message
      <4>3. QED
        BY <1>17, <2>1, <4>1, <4>2 DEF Settle, SettleFailure, Result, ReportKinds, Outcomes
    <3>2. /\ inbox' = inbox \o <<m>> /\ Len(<<m>>) = 1 /\ <<m>>[1] = m /\ <<m>> \in Seq(Messages)
      BY <3>1, PostOne
    <3>3. Len(inbox) \in Nat /\ Len(inbox') = Len(inbox) + 1
      BY <3>2, PostedPlaces
    <3>4. inbox'[Len(inbox) + 1] = m
      BY <3>2, <3>3, PostedPlaces
    <3>5. QED
      BY <3>1, <3>3, <3>4 DEF Pending
  <2>5. AccountOf(op)'
    BY <2>2, <2>3, <2>4 DEF AccountOf, ExecutingSteps, HoldingSteps
  <2>6. QED
    BY <1>12, <2>1, <2>2, <2>3, <2>5 DEF HoldingSteps
<1>18. QED
  BY <1>3, <1>4, <1>5, <1>6, <1>7, <1>8, <1>9, <1>10, <1>11, <1>14, <1>15, <1>16, <1>17
     DEF WorkerStep

\* All steps.
LEMMA AccountedStep ==
  ASSUME TypeOK, Placed, Answered, ReportsFirst, SignalsLast, OneAnswer, KeptForLost,
         Accounted, [Next]_vars
  PROVE  Accounted'
<1> USE DEF life, memory, worker, ghosts
<1>1. \A op \in Ops : Stable(op)
  BY StableStep
<1>2. ASSUME NEW op \in Ops, ServerResolve(op)
      PROVE  Accounted'
  <2>1. /\ UNCHANGED <<rt, told, stage, pstate, journal, uncertain, inbox, pc, cur>>
        /\ txn[op] = "open" /\ txn'[op] \in {"committed", "aborted"}
        /\ \A o \in Ops \ {op} : txn'[o] = txn[o]
        /\ ~(up /\ pc = "txn" /\ cur = op)
    BY <1>2 DEF ServerResolve, TypeOK
  <2>2. ~(pc = "txn" /\ cur = op)
    BY <2>1 DEF Placed
  <2>3. op \notin rt.recovered
    BY <2>1, RecoveredCommitted
  <2>4. AccountOf(op)'
    BY <2>1, <2>2, <2>3 DEF Accounted, AccountOf
  <2>5. \A o \in Ops \ {op} : Undisturbed(o)
    BY <2>1 DEF Undisturbed, Pending
  <2>6. QED
    BY <1>1, <2>4, <2>5, AccountKept DEF Accounted
<1>3. CASE Crash
  <2>1. ASSUME NEW op \in Ops
        PROVE  AccountOf(op)'
    <3>1. stage'[op] # "accepted" /\ op \notin uncertain' /\ pc' = "drained"
          /\ UNCHANGED <<rt, txn, journal>>
      BY <1>3 DEF Crash
    <3>2. QED
      BY <1>1, <3>1 DEF Accounted, AccountOf, Stable, ExecutingSteps
  <2>2. QED
    BY <2>1 DEF Accounted
<1>4. CASE Restart \/ UNCHANGED vars
  <2>1. /\ UNCHANGED <<told, stage, pstate, journal, uncertain, inbox, cur, txn>>
        /\ rt'.recovered \subseteq rt.recovered
        /\ UNCHANGED pc \/ (pc = "drained" /\ pc' = "top")
    BY <1>4 DEF Restart, NewRuntime, vars, Placed
  <2>2. \A op \in Ops : Undisturbed(op)
    BY <2>1 DEF Undisturbed, Pending, Held, HoldingSteps
  <2>3. QED
    BY <1>1, <2>2, AccountKept DEF Accounted
<1>5. QED
  BY <1>1, <1>2, <1>3, <1>4, UserStepAccounted, UiStepAccounted, WorkerStepAccounted DEF Next

-----------------------------------------------------------------------------
(* The theorems. *)

\* The inductive invariant behind them.
OutcomeInv ==
  /\ VerdictInv
  /\ Dated /\ SignalsLast /\ Waiting /\ ReportsFirst
  /\ OneAnswer /\ KeptForLost /\ Accounted

\* It holds in every state.
LEMMA OutcomeInvCorrect == Spec => []OutcomeInv
<1>1. Init => OutcomeInv
  <2> SUFFICES ASSUME Init
               PROVE  OutcomeInv
    OBVIOUS
  <2>1. VerdictInv
    BY InitType, ElementsOfEmpty
       DEF Init, VerdictInv, Placed, Answered, NewRuntime, HoldingSteps, Queued
  <2>2. Dated /\ SignalsLast /\ Waiting /\ ReportsFirst /\ KeptForLost
    BY DEF Init, Dated, SignalsLast, Waiting, ReportsFirst, KeptForLost, NewRuntime
  <2>3. OneAnswer
    BY DEF Init, OneAnswer, Final
  <2>4. Accounted
    BY DEF Init, Accounted, AccountOf, NewRuntime, ExecutingSteps
  <2>5. QED
    BY <2>1, <2>2, <2>3, <2>4 DEF OutcomeInv
<1>2. OutcomeInv /\ [Next]_vars => OutcomeInv'
  <2> SUFFICES ASSUME OutcomeInv, [Next]_vars
               PROVE  OutcomeInv'
    OBVIOUS
  <2>1. TypeOK /\ Placed /\ Answered
    BY DEF OutcomeInv, VerdictInv
  <2>2. TypeOK' /\ Placed' /\ Answered'
    BY <2>1, StepType, PlacedStep, AnsweredStep
  <2>3. Dated' /\ SignalsLast' /\ Waiting' /\ ReportsFirst'
    BY <2>1, <2>2, DatedStep, SignalsLastStep, ReportsFirstStep DEF OutcomeInv
  <2>4. Accounted'
    BY <2>1, AccountedStep DEF OutcomeInv
  <2>5. OneAnswer' /\ KeptForLost'
    <3>1. \A op \in Ops : Stable(op)
      BY <2>1, StableStep
    <3>2. \A op \in rt.recovered : Finished(op)
      BY <2>1 DEF OutcomeInv, Accounted, AccountOf, TypeOK, Runtimes
    <3>3. \A op \in Ops : Quiet(op) \/ Answer(op)
      BY <2>1, <3>2, StepAnswers DEF OutcomeInv
    <3>4. Taken \/ Posting \/ inbox' = <<>>
      BY <2>1, Arrivals
    <3>5. OneAnswer'
      BY <2>1, <2>2, <3>1, <3>3, <3>4, OneAnswerKept DEF OutcomeInv
    <3>6. KeptForLost'
      BY <2>1, <2>2, <3>3, <3>4, KeptForLostKept DEF OutcomeInv
    <3>7. QED
      BY <3>5, <3>6
  <2>6. QED
    BY <2>2, <2>3, <2>4, <2>5 DEF OutcomeInv, VerdictInv
<1>3. QED
  BY <1>1, <1>2, PTL DEF Spec

\* The caller of a mutation is given one final answer, whatever results of the worker, of
\* recoveries and of the journal cross each other.
THEOREM OneVerdictCorrect == Spec => []OneVerdict
<1>1. OutcomeInv => OneVerdict
  BY DEF OutcomeInv, OneAnswer, OneVerdict
<1>2. QED
  BY <1>1, OutcomeInvCorrect, PTL

\* No recovery forgets a commit: it was reported, or is still registered.
THEOREM CommitReachesCallerCorrect == Spec => []CommitReachesCaller
<1>1. OutcomeInv => CommitReachesCaller
  BY DEF OutcomeInv, Accounted, AccountOf, CommitReachesCaller
<1>2. QED
  BY <1>1, OutcomeInvCorrect, PTL

\* A commit that may go unnoticed is in the journal, for the next session or process.
THEOREM CommitIsJournaledCorrect == Spec => []CommitIsJournaled
<1>1. OutcomeInv => CommitIsJournaled
  BY DEF OutcomeInv, Accounted, AccountOf, CommitIsJournaled
<1>2. QED
  BY <1>1, OutcomeInvCorrect, PTL

\* The callback kept for an uncertain commit belongs to a registered operation.
THEOREM UncertainIsRegisteredCorrect == Spec => []UncertainIsRegistered
<1>1. OutcomeInv => UncertainIsRegistered
  BY DEF OutcomeInv, Accounted, AccountOf, UncertainIsRegistered, VerdictInv, TypeOK
<1>2. QED
  BY <1>1, OutcomeInvCorrect, PTL

\* A drain that has just succeeded found no critical operation blocking it.
LEMMA DrainSucceeds ==
  ASSUME TypeOK, Answered, ReportsFirst, SignalsLast, OneAnswer, KeptForLost,
         [Next]_vars, drain' = "ok", drain # "ok"
  PROVE  ~BlocksDrain(pstate') /\ UNCHANGED <<pc, cur>>
<1> USE DEF life, memory, worker, ghosts
<1>1. \A registry, failed : DrainAfter(registry, failed) = "ok" => ~BlocksDrain(registry)
  BY DEF DrainAfter
<1>2. CASE UserStep
  BY <1>2 DEF UserStep, Submit, SubmitUnrecorded, Cancel, RequestDrain, Refresh, Detach, Start
<1>3. CASE UiStep
  <2>1. CASE UiMove
    BY <1>1, <2>1 DEF UiMove, TestRuntime, Enqueue, RefuseEnqueue
  <2>2. CASE HandleStarted
    BY <1>1, <2>2 DEF HandleStarted
  <2>3. CASE Completing
    BY <1>1, <2>3 DEF Completing, Completed
  <2>4. CASE Ignoring
    <3>1. UNCHANGED pc
      BY <2>4 DEF Ignoring
    <3>2. QED
      BY <1>1, <2>4, <3>1 DEF Ignoring
  <2>5. QED
    BY <1>3, <2>1, <2>2, <2>3, <2>4, UiStepKinds
<1>4. CASE WorkerStep
  <2>1. UNCHANGED drain
    BY <1>4
       DEF WorkerStep, LoseSession, BeginReset, Reset, EndReset, LeaveSession, StartSession,
           ListJournal, QueryOperation, AnnounceStart, BeginIteration, SkipServe, Take,
           Admit, RecordExecuting, Deny, Abort, LoseCommit, Commit, Settle, SettleFailure,
           Poll, Check, Leave, Close, Drained
  <2>2. QED
    BY <2>1
<1>5. CASE (\E op \in Ops : ServerResolve(op)) \/ Crash \/ Restart \/ UNCHANGED vars
  BY <1>5 DEF ServerResolve, Crash, Restart, vars
<1>6. QED
  BY <1>2, <1>3, <1>4, <1>5 DEF Next

\* A drain that succeeds leaves no critical mutation in the worker's hands: what the worker
\* executes is registered as EXECUTING, and blocks the drain.
THEOREM DrainWaitsCorrect == Spec => DrainWaitsForExecution
<1>1. OutcomeInv /\ OutcomeInv' /\ [Next]_vars =>
        [drain' = "ok" /\ drain # "ok" =>
           ~(pc \in {"admitted", "txn", "settle"} /\ cur \in Critical)]_vars
  <2> SUFFICES ASSUME OutcomeInv, OutcomeInv', [Next]_vars, drain' = "ok", drain # "ok",
                      pc \in {"admitted", "txn", "settle"}, cur \in Critical
               PROVE  FALSE
    OBVIOUS
  <2>1. ~BlocksDrain(pstate') /\ UNCHANGED <<pc, cur>>
    BY DrainSucceeds DEF OutcomeInv, VerdictInv
  <2>2. pstate'[cur] = "EXECUTING"
    BY <2>1, CriticalAssumption DEF OutcomeInv, Accounted, AccountOf, ExecutingSteps
  <2>3. QED
    BY <2>1, <2>2 DEF BlocksDrain
<1>2. QED
  BY <1>1, OutcomeInvCorrect, PTL DEF Spec, DrainWaitsForExecution

-----------------------------------------------------------------------------
(* The pipeline implements MutationOutcomes. *)

\* The server decides once.
LEMMA DecidedOnce ==
  ASSUME TypeOK, Placed, [Next]_vars, NEW op \in Ops, txn[op] \in {"committed", "aborted"}
  PROVE  txn'[op] = txn[op]
<1> USE DEF life, memory, worker, ghosts
<1>1. CASE UserStep
  BY <1>1 DEF UserStep, Submit, SubmitUnrecorded, Cancel, RequestDrain, Refresh, Detach, Start
<1>2. CASE UiMove
  BY <1>2 DEF UiMove, TestRuntime, Enqueue, RefuseEnqueue
<1>3. CASE UiStep /\ ~UiMove
  BY <1>3, StillUiStep DEF Still
<1>4. CASE WorkerStep /\ ~WorkerMove
  BY <1>4, StillWorkerStep DEF Still
<1>5. CASE BeginReset \/ Take \/ Admit \/ Close
  BY <1>5 DEF BeginReset, Reset, Take, Admit, Close
<1>6. CASE RecordExecuting \/ Abort \/ Commit
  <2>1. pc \in {"admitted", "txn"} /\ (txn' = txn \/ \E v : txn' = [txn EXCEPT ![cur] = v])
    BY <1>6 DEF RecordExecuting, Abort, Commit, Worker
  <2>2. cur # op
    BY <2>1 DEF Placed
  <2>3. QED
    BY <2>1, <2>2 DEF TypeOK
<1>7. CASE (\E o \in Ops : ServerResolve(o)) \/ Crash \/ Restart \/ UNCHANGED vars
  BY <1>7 DEF ServerResolve, Crash, Restart, vars, TypeOK
<1>8. QED
  BY <1>1, <1>2, <1>3, <1>4, <1>5, <1>6, <1>7 DEF Next, UiMove, UiStep, WorkerMove

\* What a caller of the pipeline sees is what MutationOutcomes promises.
THEOREM OutcomesImplemented == Spec => ImplementsOutcomes
<1>1. Init => Outcome!Init
  BY DEF Init, Outcome!Init, Fate
<1>2. OutcomeInv /\ OutcomeInv' /\ [Next]_vars =>
        [Outcome!Next]_<<[op \in Ops |-> Fate(op)], told>>
  <2> SUFFICES ASSUME OutcomeInv, OutcomeInv', [Next]_vars
               PROVE  Outcome!Next
    OBVIOUS
  <2>1. /\ TypeOK /\ Placed /\ Answered /\ Answered' /\ TypeOK'
        /\ \A op \in Ops : Quiet(op) \/ Answer(op)
    <3>1. \A op \in rt.recovered : Finished(op)
      BY DEF OutcomeInv, VerdictInv, Accounted, AccountOf, TypeOK, Runtimes
    <3>2. QED
      BY <3>1, StepAnswers DEF OutcomeInv, VerdictInv
  <2>2. ASSUME NEW op \in Ops
        PROVE  \/ Fate(op)' = Fate(op) /\ told'[op] = told[op]
               \/ Fate(op) = "open" /\ Fate(op)' \in {"committed", "aborted"}
                  /\ told'[op] = told[op]
               \/ /\ told[op] \in {"nothing", "unresolved"}
                  /\ \/ told'[op] = "unresolved" /\ Fate(op)' = Fate(op)
                     \/ /\ told'[op] = "committed"
                        /\ Fate(op) = "committed" /\ Fate(op)' = "committed"
                     \/ /\ told'[op] = "refused"
                        /\ Fate(op) # "committed" /\ Fate(op)' = "aborted"
    <3>1. /\ told[op] \in {"nothing", "unresolved", "committed", "refused"}
          /\ txn[op] \in {"none", "open", "committed", "aborted"}
          /\ txn'[op] \in {"none", "open", "committed", "aborted"}
      BY <2>1 DEF TypeOK
    <3>2. txn[op] \in {"committed", "aborted"} => txn'[op] = txn[op]
      BY <2>1, DecidedOnce
    <3>3. /\ told'[op] = "committed" => txn'[op] = "committed"
          /\ told'[op] = "refused" => txn'[op] \in {"none", "aborted"}
      BY <2>1 DEF Answered, NotRun
    <3>4. CASE Quiet(op)
      BY <3>1, <3>2, <3>3, <3>4 DEF Quiet, Fate
    <3>5. CASE Answer(op)
      BY <3>1, <3>3, <3>5 DEF Answer, Fate, Final
    <3>6. QED
      BY <2>1, <3>4, <3>5
  <2>3. QED
    BY <2>2 DEF Outcome!Next, Outcome!Decide, Outcome!Report
<1>3. QED
  BY <1>1, <1>2, OutcomeInvCorrect, PTL DEF Spec, ImplementsOutcomes, Outcome!Spec

=============================================================================
