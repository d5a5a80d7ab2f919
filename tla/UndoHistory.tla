---------------------------- MODULE UndoHistory ----------------------------
(***************************************************************************)
(* The undo history of a bid in an SQL database                            *)
(* (presentation/services/undo_redo_service.py). Edits, undos and redos    *)
(* are mutations the worker of the database executes in the order of their *)
(* submission. Their results come back later, and those that were left     *)
(* uncertain as a session was lost come back when the next one starts, in  *)
(* the order of a set (sql_collaboration_coordinator.py).                  *)
(*                                                                         *)
(* An edit is named by its forward sequence. The caller of an edit         *)
(* (handlers/plan_view_action_handler.py) begins a forward mutation,       *)
(* submits, and when the commit is reported finishes the mutation. Before  *)
(* that it pushes an entry and binds it to the mutation, but only if the   *)
(* pages the edit was made on are the same objects as then.                *)
(***************************************************************************)
EXTENDS Integers, Sequences, SequencesExt, FiniteSets

CONSTANTS
  MaxEdits,      \* bound: edits
  MaxSize        \* _max_size

VARIABLES
  undo,          \* _undo_stack: the edits of its entries, the last on top
  redo,          \* _redo_stack
  entryState,    \* [1..MaxEdits -> the state of the entry of the edit]
  pending,       \* _history_transition_pending
  forward,       \* _forward_mutations: the edits that are not finished
  nextEdit,      \* _next_forward_sequence
  generation,    \* _history_generation
  queue,         \* the mutations the worker has not executed
  results,       \* results on their way to the main thread
  live,          \* the session is usable, as far as the main thread knows
  uncertain,     \* mutations whose outcome the next session start reports
  applied,       \* the edits whose effect the database holds
  dropped,       \* history: edits whose entry was dropped from a full stack
  strays,        \* history: edits whose undo or redo was reported when another entry was
                 \* on top of their stack, or that were dropped although an older edit is in
                 \* the stack
  replaced,      \* history: edits whose pages were replaced before their report
  work,          \* gestures of the user still to come
  faults,        \* failures still to come
  others         \* the state of the modules this one is composed with

undoVars ==
  <<undo, redo, entryState, pending, forward, nextEdit, generation, queue, results, live,
    uncertain, applied, dropped, strays, replaced, work, faults>>

Edits == 1..MaxEdits
Job == [kind : {"edit", "undo", "redo"}, edit : Edits, generation : Nat]
Statuses == {"committed", "rejected", "conflict", "unknown"}

TypeOK ==
  /\ undo \in Seq(Edits) /\ Len(undo) <= MaxSize
  /\ redo \in Seq(Edits) /\ Len(redo) <= MaxSize
  /\ entryState \in [Edits -> {"ready", "pending", "conflicted", "uncertain"}]
  /\ pending \in BOOLEAN
  /\ forward \subseteq Edits
  /\ nextEdit \in 1..(MaxEdits + 1)
  /\ generation \in Nat
  /\ queue \in Seq(Job)
  /\ results \in Seq([job : Job, status : Statuses])
  /\ live \in BOOLEAN
  /\ uncertain \subseteq [job : Job, status : {"committed", "rejected"}]
  /\ applied \subseteq Edits
  /\ dropped \subseteq Edits
  /\ strays \subseteq Edits
  /\ replaced \subseteq Edits
  /\ work \in Nat
  /\ faults \in Nat

InitWith(gestures, failures) ==
  /\ undo = <<>>
  /\ redo = <<>>
  /\ entryState = [e \in Edits |-> "ready"]
  /\ pending = FALSE
  /\ forward = {}
  /\ nextEdit = 1
  /\ generation = 0
  /\ queue = <<>>
  /\ results = <<>>
  /\ live = TRUE
  /\ uncertain = {}
  /\ applied = {}
  /\ dropped = {}
  /\ strays = {}
  /\ replaced = {}
  /\ work = gestures
  /\ faults = failures

-----------------------------------------------------------------------------
Submit(kind, edit) ==
  queue' = Append(queue, [kind |-> kind, edit |-> edit, generation |-> generation])

\* begin_forward_mutation and the submission of the edit.
Edit ==
  /\ live
  /\ work > 0
  /\ nextEdit <= MaxEdits
  /\ forward' = forward \cup {nextEdit}
  /\ nextEdit' = nextEdit + 1
  /\ Submit("edit", nextEdit)
  /\ work' = work - 1
  /\ UNCHANGED <<undo, redo, entryState, pending, generation, results, live, uncertain,
                 applied, dropped, strays, replaced, faults, others>>

\* can_undo and can_redo, for the stack in question.
Available(stack) ==
  /\ ~pending
  /\ forward = {}
  /\ stack # <<>>
  /\ entryState[Last(stack)] = "ready"

\* _submit_history_transition
Transition(kind, stack) ==
  /\ live
  /\ work > 0
  /\ Available(stack)
  /\ entryState' = [entryState EXCEPT ![Last(stack)] = "pending"]
  /\ pending' = TRUE
  /\ Submit(kind, Last(stack))
  /\ work' = work - 1
  /\ UNCHANGED <<undo, redo, forward, nextEdit, generation, results, live, uncertain,
                 applied, dropped, strays, replaced, faults, others>>

Undo == Transition("undo", undo)
Redo == Transition("redo", redo)

\* clear, by a change of another session or as another bid is selected.
Clear ==
  /\ work > 0
  /\ undo # <<>> \/ redo # <<>> \/ forward # {}
  /\ generation' = generation + 1
  /\ undo' = <<>>
  /\ redo' = <<>>
  /\ forward' = {}
  /\ pending' = FALSE
  /\ work' = work - 1
  /\ UNCHANGED <<entryState, nextEdit, queue, results, live, uncertain, applied, dropped,
                 strays, replaced, faults, others>>

-----------------------------------------------------------------------------
Effect(job) == IF job.kind = "undo" THEN applied \ {job.edit} ELSE applied \cup {job.edit}

\* The worker executes the next mutation.
Execute(status) ==
  /\ queue # <<>>
  /\ LET job == Head(queue)
     IN /\ job.kind = "edit" => status # "conflict"
        /\ applied' = IF status = "committed" THEN Effect(job) ELSE applied
        /\ results' = Append(results, [job |-> job, status |-> status])
  /\ queue' = Tail(queue)
  /\ UNCHANGED <<undo, redo, entryState, pending, forward, nextEdit, generation, live,
                 uncertain, dropped, strays, replaced, work, faults, others>>

\* The connection is lost around a commit: the worker rejects what is queued behind the
\* mutation, whose outcome the next session start finds out.
LoseConnection(status) ==
  /\ queue # <<>>
  /\ faults > 0
  /\ faults' = faults - 1
  /\ LET job == Head(queue)
     IN /\ applied' = IF status = "committed" THEN Effect(job) ELSE applied
        /\ results' = results
             \o <<[job |-> job, status |-> "unknown"]>>
             \o [n \in 1..(Len(queue) - 1) |-> [job |-> queue[n + 1], status |-> "rejected"]]
        /\ uncertain' = uncertain \cup {[job |-> job, status |-> status]}
  /\ queue' = <<>>
  /\ live' = FALSE
  /\ UNCHANGED <<undo, redo, entryState, pending, forward, nextEdit, generation, dropped,
                 strays, replaced, work, others>>

\* The worker notices that the session is lost and rejects what is queued.
RejectQueue ==
  /\ ~live
  /\ queue # <<>>
  /\ queue' = <<>>
  /\ results' = results \o [n \in 1..Len(queue) |-> [job |-> queue[n], status |-> "rejected"]]
  /\ UNCHANGED <<undo, redo, entryState, pending, forward, nextEdit, generation, live,
                 uncertain, applied, dropped, strays, replaced, work, faults, others>>

-----------------------------------------------------------------------------
Unchanged == UNCHANGED <<undo, redo, entryState, pending, forward, dropped, strays>>

\* Mutant: an entry stays where it was pushed.
BoundLast(stack, edit) == Append(stack, edit)

\* bind_latest_history_to_forward_mutation: before the first entry of a later edit.
Bound(stack, edit) ==
  LET later == {n \in 1..Len(stack) : stack[n] > edit}
      place == IF later = {} THEN Len(stack) + 1
               ELSE CHOOSE n \in later : \A m \in later : n <= m
  IN InsertAt(stack, place, edit)

Full == Len(undo) = MaxSize

\* Mutant: a full stack keeps its oldest entry.
PushedOver(edit) == Bound(undo, edit)

\* The entry is appended, which drops the oldest of a full stack, and then bound.
Pushed(edit) == Bound(IF Full THEN Tail(undo) ELSE undo, edit)

\* complete() of an edit finishes the mutation if that is current. A commit pushes the entry
\* if the pages of the edit are still those it was made on.
CompleteEdit(job, status) ==
  IF status # "unknown" /\ job.generation = generation /\ job.edit \in forward
  THEN /\ forward' = forward \ {job.edit}
       /\ IF status = "committed" /\ job.edit \notin replaced
          THEN /\ undo' = Pushed(job.edit)
               /\ dropped' = IF Full THEN dropped \cup {Head(undo)} ELSE dropped
               /\ strays' = strays \cup {e \in dropped' : e > job.edit}
               /\ redo' = <<>>
               /\ entryState' = [entryState EXCEPT ![job.edit] = "ready"]
          ELSE UNCHANGED <<undo, redo, entryState, dropped, strays>>
       /\ UNCHANGED pending
  ELSE Unchanged

OnTop(stack, edit) == stack # <<>> /\ Last(stack) = edit

\* A committed transition moves its entry to the other stack, if it is still on top.
Move(job) ==
  LET source == IF job.kind = "undo" THEN undo ELSE redo IN
  IF OnTop(source, job.edit)
  THEN /\ undo' = IF job.kind = "undo" THEN Front(undo) ELSE Append(undo, job.edit)
       /\ redo' = IF job.kind = "redo" THEN Front(redo) ELSE Append(redo, job.edit)
       /\ UNCHANGED strays
  ELSE /\ strays' = strays \cup {job.edit}
       /\ UNCHANGED <<undo, redo>>

\* Mutant: an entry whose outcome is unknown is ready again.
CompleteUnknown(job, status) ==
  IF job.generation # generation
  THEN Unchanged
  ELSE /\ pending' = FALSE
       /\ entryState' = [entryState EXCEPT ![job.edit] =
                           IF status = "conflict" THEN "conflicted" ELSE "ready"]
       /\ IF status = "committed" THEN Move(job) ELSE UNCHANGED <<undo, redo, strays>>
       /\ UNCHANGED <<forward, dropped>>

\* complete() of _submit_history_transition
CompleteTransition(job, status) ==
  IF job.generation # generation
  THEN Unchanged
  ELSE /\ pending' = (status = "unknown")
       /\ entryState' = [entryState EXCEPT ![job.edit] =
                           CASE status = "unknown" -> "uncertain"
                             [] status = "conflict" -> "conflicted"
                             [] OTHER -> "ready"]
       /\ IF status = "committed" THEN Move(job) ELSE UNCHANGED <<undo, redo, strays>>
       /\ UNCHANGED <<forward, dropped>>

Complete(job, status) ==
  IF job.kind = "edit" THEN CompleteEdit(job, status) ELSE CompleteTransition(job, status)

\* The main thread handles a result. The projection of a commit may fail, and fails when
\* the session was lost: the commit is reported again by the next session start.
Deliver ==
  /\ results # <<>>
  /\ results' = Tail(results)
  /\ LET job == Head(results).job
         status == Head(results).status
     IN \/ /\ status = "committed" => live
           /\ Complete(job, status)
           /\ UNCHANGED <<live, uncertain, faults>>
        \/ /\ status = "committed"
           /\ live => faults > 0
           /\ faults' = IF live THEN faults - 1 ELSE faults
           /\ Complete(job, "unknown")
           /\ uncertain' = uncertain \cup {[job |-> job, status |-> status]}
           /\ live' = FALSE
  /\ UNCHANGED <<nextEdit, generation, queue, applied, replaced, work, others>>

\* The next session starts: what is uncertain is reported, in the order of a set, before
\* the worker executes anything.
Recovering == ~live /\ queue = <<>> /\ results = <<>>

Recover(u) ==
  /\ Recovering
  /\ u \in uncertain
  /\ uncertain' = uncertain \ {u}
  /\ Complete(u.job, u.status)
  /\ UNCHANGED <<nextEdit, generation, queue, results, live, applied, replaced, work,
                 faults, others>>

SessionStarts ==
  /\ Recovering
  /\ uncertain = {}
  /\ live' = TRUE
  /\ UNCHANGED <<undo, redo, entryState, pending, forward, nextEdit, generation, queue,
                 results, uncertain, applied, dropped, strays, replaced, work, faults,
                 others>>

\* The rows of another commit of this session are shown. Those of page settings replace the
\* pages of the bid, and others the bid itself, without clearing the history: edits made on
\* what was replaced no longer recognise it (_page_identities_are_current).
ReplacePages(edits) ==
  /\ live \/ Recovering
  /\ work > 0
  /\ edits # {}
  /\ replaced' = replaced \cup edits
  /\ work' = work - 1
  /\ UNCHANGED <<undo, redo, entryState, pending, forward, nextEdit, generation, queue,
                 results, live, uncertain, applied, dropped, strays, faults, others>>

Next ==
  \/ Edit
  \/ Undo
  \/ Redo
  \/ Clear
  \/ \E status \in Statuses \ {"unknown"} : Execute(status)
  \/ \E status \in {"committed", "rejected"} : LoseConnection(status)
  \/ RejectQueue
  \/ Deliver
  \/ \E u \in uncertain : Recover(u)
  \/ SessionStarts
  \/ \E edits \in SUBSET forward : ReplacePages(edits)

-----------------------------------------------------------------------------
\* An undo that is offered undoes the last edit the database holds. The exceptions are
\* strays, and edits whose pages were replaced while they were under way, for which the code
\* keeps no entry: undo offers the one before.
UndoIsLastEdit ==
  Available(undo) => \A e \in applied : e <= Last(undo) \/ e \in strays \cup replaced

\* What is offered to be undone is done, and what is offered to be redone is not.
StacksTellTheTruth ==
  \A e \in Edits \ strays :
    entryState[e] = "ready" =>
      /\ (\E n \in 1..Len(undo) : undo[n] = e) => e \in applied
      /\ (\E n \in 1..Len(redo) : redo[n] = e) => e \notin applied
=============================================================================
