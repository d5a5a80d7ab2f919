---------------------------- MODULE AiChangesets ----------------------------
(***************************************************************************)
(* Changes an AI client proposes for the bid that is open: scales of a     *)
(* page and elements on it (application/services/ai_changeset_store.py,    *)
(* ai_takeoff_proposal_service.py, presentation/services/ai_changeset_*,   *)
(* ai_takeoff_bridge.py, ai_takeoff_write_commands.py).                    *)
(*                                                                         *)
(* The client's commands and the user act on the main thread. A proposal   *)
(* is planned there from the page (plan_scale, plan_element) and recorded  *)
(* by a worker thread when its geometry is done (finish, _add). The user   *)
(* reviews it in a dialog while the client may go on revising it, and what *)
(* is accepted is applied, and may be undone, in one step of the main      *)
(* thread: changesets are applied to Access databases only.                *)
(***************************************************************************)
EXTENDS Integers, Sequences, SequencesExt, FiniteSets

CONSTANTS
  Changesets,    \* proposals the client may make
  Scales,        \* those of them that set the scale of the page
  Bids,          \* bids of one database, with a page each
  Notes,         \* assumptions of a proposal
  Minor,         \* the assumptions that do not block approval
  Closed,        \* TOKEN_CLOSED
  MaxOpen,       \* MAX_OPEN_CHANGESETS_PER_BID
  MaxWorkers,    \* MAX_CONCURRENT_WORKERS
  MaxRevision,   \* bound: revisions of all changesets
  MaxEdits,      \* bound: edits and switches of the user
  MaxRefusals    \* bound: writes that are refused

VARIABLES
  open,          \* the bid that is open
  page,          \* [Bids -> the content of the bid's page]
  status,        \* [Changesets -> the status of the changeset]; "closed" is discarded,
                 \* expired, rejected, stale, failed, or never stored
  bidOf,         \* [Changesets -> bid_uid]
  planned,       \* [Changesets -> the scale the plan read: previous_sf1, previous_sf2]
  base,          \* [Changesets -> base_tokens]
  revision,      \* [Changesets -> revision]
  notes,         \* [Changesets -> [Notes -> the assumption]]
  result,        \* [Changesets -> resulting_tokens of the applied record]
  order,         \* _applied_order
  review,        \* [Changesets -> what its review dialog shows]
  undo,          \* the entries of applied changesets in _undo_stack
  redo,          \* and in _redo_stack
  notice,        \* the changesets whose refused undo is announced with "Discard Entry"
  before,        \* history: [Changesets -> the page it was applied to]
  displayed,     \* history: [Changesets -> the assumptions on display as it was accepted]
  agreed,        \* history: [Changesets -> [Notes -> the value the user settled]]
  edits,         \* edits and switches so far
  refusals       \* refused writes so far

vars ==
  <<open, page, status, bidOf, planned, base, revision, notes, result, order, review, undo,
    redo, notice, before, displayed, agreed, edits, refusals>>

contents == <<open, page, edits, refusals>>
proposal == <<bidOf, planned, base, revision, notes>>
history == <<order, undo, redo, notice, result, before, displayed>>

-----------------------------------------------------------------------------
(* A page is its scale, the user's own drawing and what changesets made on *)
(* it. A value of either is the edit or the changeset it comes from.       *)

Pages ==
  [scale : 0..MaxEdits \cup Changesets, drawn : 0..MaxEdits,
   made : [Changesets -> {"absent", "intact", "edited"}]]

\* The token of a bid that is not open is no digest of a content.
ASSUME ClosedAssumption ==
  Closed \notin Pages \cup 0..MaxEdits \cup Changesets \cup {"absent", "intact", "edited"}
ASSUME BoundsAssumption == {MaxRevision, MaxEdits, MaxRefusals} \subseteq Nat

Note == [value : 0..(MaxRevision + 1), settled : BOOLEAN]   \* the value 0: not made
NotShown == [revision |-> -1, notes |-> [n \in Notes |-> 0]]
Values(c) == [n \in Notes |-> notes[c][n].value]

TypeOK ==
  /\ open \in Bids
  /\ page \in [Bids -> Pages]
  /\ status \in [Changesets -> {"none", "planned", "proposed", "pending_approval", "applied",
                                "undone", "closed"}]
  /\ bidOf \in [Changesets -> Bids]
  /\ planned \in [Changesets -> 0..MaxEdits \cup Changesets]
  /\ revision \in [Changesets -> 0..MaxRevision]
  /\ notes \in [Changesets -> [Notes -> Note]]
  /\ order \in Seq(Changesets)
  /\ review \in [Changesets -> [revision : -1..MaxRevision,
                                notes : [Notes -> 0..(MaxRevision + 1)]]]
  /\ undo \in Seq(Changesets)
  /\ redo \in Seq(Changesets)
  /\ notice \subseteq Changesets
  /\ edits \in 0..MaxEdits
  /\ refusals \in 0..MaxRefusals

Init ==
  /\ open \in Bids
  /\ page = [b \in Bids |-> [scale |-> 0, drawn |-> 0,
                             made |-> [c \in Changesets |-> "absent"]]]
  /\ status = [c \in Changesets |-> "none"]
  /\ bidOf = [c \in Changesets |-> open]
  /\ planned = [c \in Changesets |-> 0]
  /\ base = [c \in Changesets |-> Closed]
  /\ revision = [c \in Changesets |-> 0]
  /\ notes = [c \in Changesets |-> [n \in Notes |-> [value |-> 0, settled |-> FALSE]]]
  /\ result = [c \in Changesets |-> Closed]
  /\ order = <<>>
  /\ review = [c \in Changesets |-> NotShown]
  /\ undo = <<>>
  /\ redo = <<>>
  /\ notice = {}
  /\ before = [c \in Changesets |-> page[open]]
  /\ displayed = [c \in Changesets |-> Values(c)]
  /\ agreed = displayed
  /\ edits = 0
  /\ refusals = 0

-----------------------------------------------------------------------------
(* Tokens (ProjectDataTokenReader): the content of what is named, if its   *)
(* bid is open.                                                            *)

Token(c, content) == IF open = bidOf[c] THEN content ELSE Closed

\* touched_resources: the page, and the takeoffs on it when its scale is to change.
Touched(c) ==
  Token(c, IF c \in Scales THEN page[bidOf[c]] ELSE page[bidOf[c]].scale)

\* Mutant: the takeoffs of the page are left out of the tokens of a new scale.
MadeScaleOnly(c, p) == Token(c, IF c \in Scales THEN p.scale ELSE p.made[c])

\* The resources of resulting_tokens, on a page with the content p.
Made(c, p) == Token(c, IF c \in Scales THEN p ELSE p.made[c])

Live == {"proposed", "pending_approval"}   \* is_open, apart from what is being applied
Fresh(c) == Touched(c) = base[c]
Blocked(c) == \E n \in Notes \ Minor : notes[c][n].value # 0 /\ ~notes[c][n].settled
Snapshot(c) == [revision |-> revision[c], notes |-> Values(c)]
Shown(c) == review[c] # NotShown
MayRevise == FoldFunction(+, 0, revision) < MaxRevision
OpenIn(b) == {c \in Changesets : status[c] \in Live /\ bidOf[c] = b}

-----------------------------------------------------------------------------
(* The client. *)

\* plan_scale and plan_element on the main thread: a command of the bridge whose job
\* a worker takes.
Plan(c) ==
  /\ status[c] = "none"
  /\ Cardinality({d \in Changesets : status[d] = "planned"}) < MaxWorkers
  /\ status' = [status EXCEPT ![c] = "planned"]
  /\ bidOf' = [bidOf EXCEPT ![c] = open]
  /\ planned' = [planned EXCEPT ![c] = page[open].scale]
  /\ UNCHANGED <<contents, base, revision, notes, history, review, agreed>>

\* finish, _add and AiChangesetStore.add on the worker.
Add(c) ==
  /\ status[c] = "planned"
  /\ IF Cardinality(OpenIn(bidOf[c])) >= MaxOpen
     THEN /\ status' = [status EXCEPT ![c] = "closed"]
          /\ UNCHANGED <<base, notes>>
     ELSE /\ status' = [status EXCEPT ![c] = "proposed"]
          /\ base' = [base EXCEPT ![c] = Touched(c)]
          /\ \E stated \in IF c \in Scales THEN {Notes \ Minor} ELSE SUBSET Notes :
               notes' = [notes EXCEPT ![c] = [n \in Notes |->
                 [value |-> IF n \in stated THEN 1 ELSE 0, settled |-> FALSE]]]
  /\ UNCHANGED <<contents, bidOf, planned, revision, history, review, agreed>>

\* apply_changeset and on_apply_requested
RequestApply(c) ==
  /\ status[c] \in Live
  /\ IF Fresh(c)
     THEN /\ status' = [status EXCEPT ![c] = "pending_approval"]
          /\ review' = [review EXCEPT ![c] = Snapshot(c)]
     ELSE /\ status' = [status EXCEPT ![c] = "closed"]
          /\ UNCHANGED review
  /\ UNCHANGED <<contents, proposal, history, agreed>>

\* Mutant: a revised assumption keeps its status.
RevisedSettled(c, n) == [notes[c][n] EXCEPT !.value = @ + 1]

\* update_assumption: add_assumption, or revise_assumption of one that is made, but not of
\* the assumption that is the scale.
Revised(c, n) == [value |-> notes[c][n].value + 1, settled |-> FALSE]
Revise(c, n) ==
  /\ status[c] \in Live
  /\ c \in Scales => n \in Minor
  /\ MayRevise
  /\ notes' = [notes EXCEPT ![c][n] = Revised(c, n)]
  /\ revision' = [revision EXCEPT ![c] = @ + 1]
  /\ UNCHANGED <<contents, status, bidOf, planned, base, history, review, agreed>>

\* discard_changeset; or 30 minutes pass (is_expired), which the next get() notices.
Discard(c) ==
  /\ status[c] \in Live
  /\ status' = [status EXCEPT ![c] = "closed"]
  /\ UNCHANGED <<contents, proposal, history, review, agreed>>

-----------------------------------------------------------------------------
(* The review. *)

\* _require_revision against what the dialog shows.
SameRevision(c) == review[c].revision = revision[c]

\* _report with refresh
Refresh(c) ==
  /\ review' = [review EXCEPT ![c] = Snapshot(c)]
  /\ UNCHANGED <<contents, proposal, history, agreed>>

\* _accept_assumption and _override_assumption
Settle(c, n) ==
  /\ Shown(c)
  /\ review[c].notes[n] # 0
  /\ IF status[c] \in Live /\ SameRevision(c)
     THEN /\ MayRevise
          /\ notes' = [notes EXCEPT ![c][n].settled = TRUE]
          /\ revision' = [revision EXCEPT ![c] = @ + 1]
          /\ review' = [review EXCEPT ![c].revision = revision[c] + 1, ![c].notes = Values(c)]
          /\ agreed' = [agreed EXCEPT ![c][n] = review[c].notes[n]]
          /\ UNCHANGED <<contents, status, bidOf, planned, base, history>>
     ELSE /\ UNCHANGED status
          /\ Refresh(c)

\* approve, up to the checks of what is approved.
Approvable(c) == status[c] = "pending_approval" /\ SameRevision(c)

\* accept, when approve refuses.
AcceptRefused(c) ==
  /\ Shown(c)
  /\ ~(Approvable(c) /\ Fresh(c) /\ ~Blocked(c))
  /\ status' = IF Approvable(c) /\ ~Fresh(c) THEN [status EXCEPT ![c] = "closed"] ELSE status
  /\ Refresh(c)

Applied(c) ==
  LET p == page[bidOf[c]] IN
  IF c \in Scales THEN [p EXCEPT !.scale = c] ELSE [p EXCEPT !.made[c] = "intact"]

\* accept and apply: approved, written, pushed on the history of the open bid, recorded.
Accept(c) ==
  /\ Shown(c)
  /\ Approvable(c) /\ Fresh(c) /\ ~Blocked(c)
  /\ status' = [status EXCEPT ![c] = "applied"]
  /\ page' = [page EXCEPT ![bidOf[c]] = Applied(c)]
  /\ result' = [result EXCEPT ![c] = Made(c, Applied(c))]
  /\ order' = Append(order, c)
  /\ undo' = Append(undo, c)
  /\ redo' = <<>>
  /\ review' = [review EXCEPT ![c] = NotShown]
  /\ before' = [before EXCEPT ![c] = page[bidOf[c]]]
  /\ displayed' = [displayed EXCEPT ![c] = review[c].notes]
  /\ UNCHANGED <<open, edits, refusals, proposal, notice, agreed>>

\* The same when access is denied or the write is refused.
AcceptFails(c) ==
  /\ Shown(c)
  /\ Approvable(c) /\ Fresh(c) /\ ~Blocked(c)
  /\ refusals < MaxRefusals
  /\ refusals' = refusals + 1
  /\ status' = [status EXCEPT ![c] = "closed"]
  /\ UNCHANGED <<open, page, edits, proposal, history, review, agreed>>

\* reject; or the dialog is closed without a decision.
CloseReview(c) ==
  /\ Shown(c)
  /\ \/ status[c] \in Live /\ status' = [status EXCEPT ![c] = "closed"]
     \/ UNCHANGED status
  /\ review' = [review EXCEPT ![c] = NotShown]
  /\ UNCHANGED <<contents, proposal, history, agreed>>

-----------------------------------------------------------------------------
(* Undoing what was applied. *)

\* A changeset is in each of them once at most.
Without(list, c) ==
  IF c \in ToSet(list) THEN RemoveAt(list, CHOOSE n \in DOMAIN list : list[n] = c) ELSE list

\* undo, up to the write: nothing of what was made is edited since.
Untouched(c) == status[c] = "applied" /\ Made(c, page[bidOf[c]]) = result[c]

\* _run_scale_undo and _run_elements_undo
Reverted(c) ==
  LET p == page[bidOf[c]] IN
  IF c \in Scales THEN [p EXCEPT !.scale = planned[c]] ELSE [p EXCEPT !.made[c] = "absent"]

\* The write of an undo and mark_undone.
Revert(c) ==
  /\ Untouched(c)
  /\ page' = [page EXCEPT ![bidOf[c]] = Reverted(c)]
  /\ status' = [status EXCEPT ![c] = "undone"]
  /\ order' = Without(order, c)
  /\ UNCHANGED <<open, edits, refusals, proposal, notice, result, before, displayed, review,
                 agreed>>

\* Edit > Undo, with the entry of a changeset on top.
HistoryUndo ==
  /\ undo # <<>>
  /\ Revert(Last(undo))
  /\ undo' = Front(undo)
  /\ redo' = Append(redo, Last(undo))

\* The undo is refused, because something was edited or the write is; the notice may
\* be shown.
HistoryUndoRefused ==
  /\ undo # <<>>
  /\ \/ ~Untouched(Last(undo)) /\ UNCHANGED refusals
     \/ refusals < MaxRefusals /\ refusals' = refusals + 1
  /\ notice' = {Last(undo)}
  /\ UNCHANGED <<open, page, edits, status, proposal, order, undo, redo, result, before,
                 displayed, review, agreed>>

\* discard_undo_entry, from the notice.
DiscardEntry(c) ==
  /\ c \in notice
  /\ notice' = {}
  /\ undo' = Without(undo, c)
  /\ UNCHANGED <<contents, status, proposal, order, redo, result, before, displayed, review,
                 agreed>>

LastApplied(b) == LET mine == SelectSeq(order, LAMBDA c : bidOf[c] = b)
                  IN  IF mine = <<>> THEN {} ELSE {Last(mine)}

\* Mutant: the client's undo leaves the entry on the history.
PipeUndoKeepsEntry(c) ==
  /\ c \in LastApplied(open)
  /\ Revert(c)
  /\ UNCHANGED <<undo, redo>>

\* undo_last_ai_changeset; the entry leaves the history.
PipeUndo(c) ==
  /\ c \in LastApplied(open)
  /\ Revert(c)
  /\ undo' = Without(undo, c)
  /\ redo' = redo

-----------------------------------------------------------------------------
(* The user. *)

\* An edit of the page that is shown: of its scale, of the drawing, or of what a
\* changeset made. Its own history entry is left out.
Edit ==
  /\ edits < MaxEdits
  /\ edits' = edits + 1
  /\ \/ page' = [page EXCEPT ![open].scale = edits + 1]
     \/ page' = [page EXCEPT ![open].drawn = edits + 1]
     \/ \E c \in Changesets :
          /\ page[open].made[c] = "intact"
          /\ page' = [page EXCEPT ![open].made[c] = "edited"]
  /\ redo' = <<>>
  /\ UNCHANGED <<open, refusals, status, proposal, order, undo, notice, result, before,
                 displayed, review, agreed>>

\* set_active_bid, as another bid is opened.
OpenBid(b) ==
  /\ b # open
  /\ edits < MaxEdits
  /\ edits' = edits + 1
  /\ open' = b
  /\ undo' = <<>>
  /\ redo' = <<>>
  /\ UNCHANGED <<page, refusals, status, proposal, order, notice, result, before, displayed,
                 review, agreed>>

Client ==
  \E c \in Changesets :
    \/ Plan(c) \/ Add(c) \/ RequestApply(c) \/ Discard(c)
    \/ \E n \in Notes : Revise(c, n)

Reviewer ==
  \E c \in Changesets :
    \/ Accept(c) \/ AcceptRefused(c) \/ AcceptFails(c) \/ CloseReview(c)
    \/ \E n \in Notes : Settle(c, n)

User ==
  \/ HistoryUndo
  \/ HistoryUndoRefused
  \/ \E c \in Changesets : DiscardEntry(c) \/ PipeUndo(c)
  \/ Edit
  \/ \E b \in Bids : OpenBid(b)

Next == Client \/ Reviewer \/ User

Spec == Init /\ [][Next]_vars

-----------------------------------------------------------------------------
(* Properties. *)

\* Only what the user reviewed is applied: the assumptions of an applied changeset are
\* those its dialog showed as the user accepted, and each one that blocks approval has
\* the value the user settled, however the client revised it in between (accept,
\* _set_assumption, revise_assumption).
ReviewedIsApplied ==
  \A c \in Changesets : status[c] \in {"applied", "undone"} =>
    /\ displayed[c] = Values(c)
    /\ \A n \in Notes \ Minor : notes[c][n].value # 0 => agreed[c][n] = notes[c][n].value

\* The history offers each change that can still be undone at most once: an entry to
\* undo is of a changeset that is applied, an entry to redo of one that is not, whether
\* the user or the client undid it (_push_undo, discard_undo_entry, undo).
HistoryIsTrue ==
  /\ IsInjective(undo) /\ IsInjective(redo)
  /\ \A c \in ToSet(undo) : status[c] = "applied"
  /\ \A c \in ToSet(redo) : status[c] = "undone"

\* The changeset was recorded against the page it was planned on.
RecordedInTime(c) ==
  base[c] # Closed /\ planned[c] = IF c \in Scales THEN base[c].scale ELSE base[c]

\* Undoing a change takes away what it made and nothing else: elements that were not
\* edited since, or a scale and with it no edit that followed, so that the page is again
\* what it was (undo, the comparison with resulting_tokens, _run_scale_undo).
UndoIsExact ==
  [][\A c \in Changesets :
       (status[c] = "applied" /\ status'[c] = "undone" /\ RecordedInTime(c)) =>
         IF c \in Scales THEN page'[bidOf[c]] = before[c]
         ELSE page[bidOf[c]].made[c] = "intact"]_vars

=============================================================================
