--------------------------- MODULE PlanProjection ---------------------------
(***************************************************************************)
(* How a batch of changes reaches the plan views. The main thread changes  *)
(* the loaded bid, asks each affected surface (the main plan, the window   *)
(* of a detached page) for an update, and seals the barrier of the batch   *)
(* (dtos/remote_projection_dtos.py). Each surface owns a pipeline          *)
(* (coordinators/remote_plan_update_pipeline.py): one update is prepared   *)
(* on a thread of the pool, one more waits, and a further one is coalesced *)
(* with the waiting one or supersedes it. The barrier's verdict is the     *)
(* success of all surfaces; the coordinator acknowledges the batch only if *)
(* it is "success" (sql_collaboration_coordinator.py).                     *)
(*                                                                         *)
(* A version of the data is the number of batches it has taken in.         *)
(***************************************************************************)
EXTENDS Integers, Sequences, FiniteSets

CONSTANTS
  Surfaces,      \* plan views
  MainPlan,      \* the one of the main window
  Pages,         \* pages a surface may show
  NoUpdate       \* no submission

VARIABLES
  batch,         \* the barriers, in the order of their batches
  session,       \* session_generation: a barrier of an earlier one is not current
  open,          \* the surfaces that show a page of the bid
  closed,        \* the surfaces whose pipeline is closed
  page,          \* [Surfaces -> the page it shows]
  shown,         \* [Surfaces -> the version of the data it shows]
  updates,       \* [Surfaces -> _remote_update_generation]
  inFlight,      \* [Surfaces -> _in_flight]
  waiting,       \* [Surfaces -> _pending]
  deliveries,    \* batches still to come
  work,          \* gestures of the user and ends of a session still to come
  others         \* the state of the modules this one is composed with

planVars ==
  <<batch, session, open, closed, page, shown, updates, inFlight, waiting, deliveries,
    work>>

Batches == 1..Len(batch)
Verdicts == {"none", "success", "failure"}
Barrier ==
  [registered : SUBSET Surfaces, pending : SUBSET Surfaces, failed : BOOLEAN,
   session : Nat, verdict : Verdicts]
Submission ==
  [page : Pages, generation : Nat, version : Nat, session : Nat, batches : SUBSET Batches]

TypeOK ==
  /\ batch \in Seq(Barrier)
  /\ session \in Nat
  /\ open \subseteq Surfaces
  /\ closed \subseteq Surfaces
  /\ page \in [Surfaces -> Pages]
  /\ shown \in [Surfaces -> 0..Len(batch)]
  /\ updates \in [Surfaces -> Nat]
  /\ inFlight \in [Surfaces -> Submission \cup {NoUpdate}]
  /\ waiting \in [Surfaces -> Submission \cup {NoUpdate}]
  /\ deliveries \in Nat
  /\ work \in Nat

InitWith(batches, gestures) ==
  /\ batch = <<>>
  /\ session = 0
  /\ open = Surfaces
  /\ closed = {}
  /\ page = [s \in Surfaces |-> CHOOSE p \in Pages : TRUE]
  /\ shown = [s \in Surfaces |-> 0]
  /\ updates = [s \in Surfaces |-> 0]
  /\ inFlight = [s \in Surfaces |-> NoUpdate]
  /\ waiting = [s \in Surfaces |-> NoUpdate]
  /\ deliveries = batches
  /\ work = gestures

-----------------------------------------------------------------------------
\* A barrier after its verdict; of one that failed nothing else is kept.
Succeeded(b) == [b EXCEPT !.verdict = "success"]
Failed ==
  [registered |-> {}, pending |-> {}, failed |-> TRUE, session |-> 0, verdict |-> "failure"]

\* A sealed barrier that waits for no surface gives its verdict.
Settle(b) ==
  IF b.pending # {} \/ b.verdict # "none" THEN b
  ELSE IF ~b.failed /\ b.session = session THEN Succeeded(b)
  ELSE Failed

\* complete(): each of these surfaces reports, once.
Complete(b, surfaces, success) ==
  Settle([b EXCEPT !.pending = @ \ surfaces,
                   !.failed = @ \/ (~success /\ b.pending \cap surfaces # {})])

\* The completions of the submissions reported for surface s.
Report(s, submissions, success) ==
  [n \in Batches |->
     Complete(batch[n], IF \E u \in submissions : n \in u.batches THEN {s} ELSE {}, success)]

Present(submissions) == submissions \ {NoUpdate}

\* What a barrier asks of surface s: the data are captured on the main thread.
Request(s, n) ==
  [page |-> page[s], generation |-> updates[s] + 1, version |-> n, session |-> session,
   batches |-> {n}]

\* The waiting update shows another page: it is given up.
Supersedes(s) == waiting[s] # NoUpdate /\ waiting[s].page # page[s]

\* Mutant: the waiting update keeps the data it captured.
CoalesceOld(previous, current) ==
  IF previous = NoUpdate THEN current
  ELSE [previous EXCEPT !.batches = @ \cup current.batches,
                        !.generation = current.generation]

\* The newer update reports for the waiting one, too.
Coalesce(previous, current) ==
  IF previous = NoUpdate THEN current
  ELSE [current EXCEPT !.batches = @ \cup previous.batches]

\* submit()
Submit(asked, n) ==
  /\ inFlight' = [s \in Surfaces |->
       IF s \in asked /\ inFlight[s] = NoUpdate THEN Request(s, n) ELSE inFlight[s]]
  /\ waiting' = [s \in Surfaces |->
       IF s \notin asked \/ inFlight[s] = NoUpdate THEN waiting[s]
       ELSE IF Supersedes(s) THEN Request(s, n)
       ELSE Coalesce(waiting[s], Request(s, n))]

\* _on_remote_batch and _apply_local_mutation_result: the batch changes the data, the
\* affected surfaces are registered and asked for an update, and the barrier is sealed.
\* The page of the main plan may be missing from the data; the reconciliation may fail.
Reconcile(affected, missing, applied) ==
  LET n == Len(batch) + 1
      asked == affected \ missing
      new == [registered |-> affected, pending |-> asked, session |-> session,
              failed |-> ~applied \/ missing # {}, verdict |-> "none"]
      superseded(m) ==
        {s \in asked : inFlight[s] # NoUpdate /\ Supersedes(s) /\ m \in waiting[s].batches}
  IN /\ deliveries > 0
     /\ affected \subseteq open
     /\ missing \subseteq affected \cap {MainPlan}
     /\ batch' = Append([m \in Batches |-> Complete(batch[m], superseded(m), FALSE)],
                        Settle(new))
     /\ updates' = [s \in Surfaces |-> IF s \in affected THEN updates[s] + 1 ELSE updates[s]]
     /\ Submit(asked, n)
     /\ deliveries' = deliveries - 1
     /\ UNCHANGED <<session, open, closed, page, shown, work, others>>

\* Mutant: an update that others overtook is current.
IsOnPage(s, update) ==
  update.session = session /\ update.page = page[s] /\ s \in open

\* _is_remote_plan_update_current, but for an interaction that blocks the surface
IsCurrent(s, update) ==
  /\ update.generation = updates[s]
  /\ update.session = session
  /\ update.page = page[s]
  /\ s \in open

\* _on_prepared: the update is shown if it is current, its preparation did not fail and
\* no interaction of the user blocks the surface; its completions are called, and the
\* waiting update starts. The preparation itself, on a thread of the pool, works on the
\* copy that was made with the request and is no step of its own.
OnPrepared(s, usable) ==
  LET update == inFlight[s]
      success == usable /\ IsCurrent(s, update)
  IN /\ update # NoUpdate
     /\ shown' = IF success THEN [shown EXCEPT ![s] = update.version] ELSE shown
     /\ batch' = Report(s, {update}, success)
     /\ inFlight' = [inFlight EXCEPT ![s] = waiting[s]]
     /\ waiting' = [waiting EXCEPT ![s] = NoUpdate]
     /\ UNCHANGED <<session, open, closed, page, updates, deliveries, work, others>>

\* update_plan_view and _get_page_data: the user opens a page, or the surface is
\* refreshed for a reason of its own; the data are shown as they are now.
ShowPage(s, p) ==
  /\ work > 0
  /\ s \notin closed
  /\ open' = open \cup {s}
  /\ page' = [page EXCEPT ![s] = p]
  /\ shown' = [shown EXCEPT ![s] = Len(batch)]
  /\ updates' = [updates EXCEPT ![s] = @ + 1]
  /\ work' = work - 1
  /\ UNCHANGED <<batch, session, closed, inFlight, waiting, deliveries,
                 others>>

\* close_view of the detached window; the main plan shows another bid.
CloseView(s) ==
  /\ work > 0
  /\ s \in open
  /\ open' = open \ {s}
  /\ updates' = IF s = MainPlan THEN updates ELSE [updates EXCEPT ![s] = @ + 1]
  /\ work' = work - 1
  /\ UNCHANGED <<batch, session, closed, page, shown, inFlight, waiting, deliveries,
                 others>>

\* Mutant: the completions of the waiting update are not called.
CleanupInFlight(s) ==
  /\ work > 0
  /\ s \notin closed
  /\ closed' = closed \cup {s}
  /\ open' = open \ {s}
  /\ updates' = [updates EXCEPT ![s] = @ + 1]
  /\ batch' = Report(s, Present({inFlight[s]}), FALSE)
  /\ inFlight' = [inFlight EXCEPT ![s] = NoUpdate]
  /\ waiting' = [waiting EXCEPT ![s] = NoUpdate]
  /\ work' = work - 1
  /\ UNCHANGED <<session, page, shown, deliveries, others>>

\* cleanup() of the pipeline: every completion it holds is called.
Cleanup(s) ==
  /\ work > 0
  /\ s \notin closed
  /\ closed' = closed \cup {s}
  /\ open' = open \ {s}
  /\ updates' = [updates EXCEPT ![s] = @ + 1]
  /\ batch' = Report(s, Present({inFlight[s], waiting[s]}), FALSE)
  /\ inFlight' = [inFlight EXCEPT ![s] = NoUpdate]
  /\ waiting' = [waiting EXCEPT ![s] = NoUpdate]
  /\ work' = work - 1
  /\ UNCHANGED <<session, page, shown, deliveries, others>>

\* The session of the database ends or is replaced.
EndSession ==
  /\ work > 0
  /\ session' = session + 1
  /\ work' = work - 1
  /\ UNCHANGED <<batch, open, closed, page, shown, updates, inFlight, waiting, deliveries,
                 others>>

Next ==
  \/ \E affected, missing \in SUBSET Surfaces, applied \in BOOLEAN :
       Reconcile(affected, missing, applied)
  \/ \E s \in Surfaces, usable \in BOOLEAN : OnPrepared(s, usable)
  \/ \E s \in Surfaces, p \in Pages : ShowPage(s, p)
  \/ \E s \in Surfaces : CloseView(s)
  \/ \E s \in Surfaces : Cleanup(s)
  \/ EndSession

\* The pool runs what is started, and the main thread handles what is dispatched to it.
Fairness == WF_planVars(\E s \in Surfaces, usable \in BOOLEAN : OnPrepared(s, usable))

-----------------------------------------------------------------------------
\* A batch that is reported as projected is shown, as it was or newer, by every surface
\* that was registered for it: the coordinator acknowledges it and it never comes back.
VerdictIsTrue ==
  \A n \in Batches :
    batch[n].verdict = "success" => \A s \in batch[n].registered : shown[s] >= n

\* A surface never goes back to older data, though an update is prepared from a copy of
\* the data while newer ones are shown.
ShownNeverGoesBack == [][\A s \in Surfaces : shown'[s] >= shown[s]]_planVars

\* Every batch gets a verdict, without which the worker would wait for ever to deliver
\* the next one: no surface that closes, fails or is superseded keeps its token.
EveryBatchEnds == []<>(\A n \in Batches : batch[n].verdict # "none")
=============================================================================
