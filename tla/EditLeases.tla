------------------------------- MODULE EditLeases -------------------------------
(***************************************************************************)
(* The edit leases of a SQL database: the surfaces of the UI (a modal      *)
(* dialog, the gesture of the plan view) that ask for one, the registry of *)
(* local drafts, the worker of the database that owns the leases, and the  *)
(* server's lock of each resource.                                         *)
(*                                                                         *)
(* Abstractions: a draft is named by its surface and the number of its     *)
(* request; a lease is the locks of the resources its surface wants; a     *)
(* handle is the name of its draft; news of a session is marked stale in   *)
(* the main thread's inbox when the session's generation moves on; the     *)
(* presence mode, the feed, the outcome of a mutation and drafts that are  *)
(* discarded from a conflict dialog are left out; and a step of the worker *)
(* that only moves on is part of the step after it.                        *)
(***************************************************************************)
EXTENDS Naturals, Sequences, FiniteSets

CONSTANTS
  Surfaces,  \* what asks for leases
  Gestures,  \* the surfaces that do not ask again once they have saved
  Resources, \* what is leased
  Wants,     \* Wants[s][n]: the resources the n-th request of surface s is to edit
  Reads,     \* Reads[s][n]: the resources that edit depends on
  Free,      \* nobody holds the lock
  Other,     \* another user's session does
  None,      \* no draft
  Conflict,  \* the main thread is entering a conflict
  MaxAsks,   \* requests of a surface in a behaviour
  MaxFaults  \* faults and actions of other users in a behaviour

ASSUME SurfacesAssumption ==
  /\ Gestures \subseteq Surfaces
  /\ Wants \in [Surfaces -> [1..MaxAsks -> (SUBSET Resources) \ {{}}]]
  /\ Reads \in [Surfaces -> [1..MaxAsks -> SUBSET Resources]]
ASSUME BoundsAssumption == MaxAsks \in Nat \ {0} /\ MaxFaults \in Nat

Drafts == Surfaces \X (1..MaxAsks)

ASSUME NamesAssumption ==
  /\ {Free, Other, None, Conflict} \cap Drafts = {}
  /\ Free # Other /\ None # Conflict

VARIABLES
  surface,   \* what each surface does, and the draft it does it with
  asks,      \* how often each surface has asked
  ui,        \* what the main thread is in the middle of: a draft to queue, or a conflict
  tested,    \* the draft for which it found the session usable, and queues next
  stranded,  \* history: drafts whose request was queued when the worker had answered the
             \* queue for the last time
  registry,  \* LocalDraftRegistry: the state of the drafts it has
  attached,  \* the database has a runtime
  editable,  \* the collaboration state is HEALTHY
  rt,        \* the flags of _DatabaseRuntime
  pc,        \* where its worker is
  held,      \* the mutation the worker has taken from its queue
  leased,    \* _DatabaseRuntime.draft_ids
  owned,     \* _DatabaseRuntime.owned_locks: the draft of each
  edits,     \* edit_requests
  mutations, \* mutation_requests
  releases,  \* release_requests
  inbox,     \* messages to the main thread
  lock,      \* the server's lock of each resource
  strays,    \* drafts whose mutation was refused for want of a journal or a queue
  faults     \* faults so far

user == <<surface, asks, ui, tested, stranded, attached, editable>>
worker == <<pc, held, leased, owned>>
queues == <<edits, mutations, releases>>
vars == <<user, registry, rt, worker, queues, inbox, lock, strays, faults>>

-----------------------------------------------------------------------------
Phases == {"idle", "asking", "shown", "saving"}
Steps == {"top", "connect", "await", "release", "execute", "edit", "reject",
          "clear", "off"}
Runtimes == [session : BOOLEAN, healthy : BOOLEAN, ready : BOOLEAN, recReq : BOOLEAN,
             recReady : BOOLEAN, stop : BOOLEAN, failed : BOOLEAN]
SessionNews == {"started", "restored", "disconnected"}
Messages ==
  [kind : {"granted", "denied", "result"}, drafts : {{d} : d \in Drafts}]
    \cup [kind : {"lost"}, drafts : SUBSET Drafts]
    \cup [kind : {"stale"} \cup SessionNews, drafts : {{}}]

Idle == [phase |-> "idle", draft |-> None]

TypeOK ==
  /\ surface \in [Surfaces -> [phase : Phases \ {"idle"}, draft : Drafts] \cup {Idle}]
  /\ asks \in [Surfaces -> 0..MaxAsks]
  /\ ui \in Drafts \cup {None, Conflict}
  /\ tested \in Drafts \cup {None} /\ stranded \in SUBSET Drafts
  /\ registry \in [Drafts -> {"absent", "pending", "active", "conflicted"}]
  /\ attached \in BOOLEAN /\ editable \in BOOLEAN
  /\ rt \in Runtimes /\ pc \in Steps
  /\ held \in Drafts \cup {None} /\ (held # None <=> pc = "execute")
  /\ leased \in SUBSET Drafts
  /\ owned \in [Resources -> Drafts \cup {None}]
  /\ edits \in Seq(Drafts) /\ mutations \in Seq(Drafts) /\ releases \in Seq(Drafts)
  /\ inbox \in Seq(Messages)
  /\ lock \in [Resources -> Drafts \cup {Free, Other}]
  /\ strays \in SUBSET Drafts
  /\ faults \in 0..MaxFaults

FreshRuntime == [session |-> FALSE, healthy |-> FALSE, ready |-> FALSE, recReq |-> FALSE,
                 recReady |-> FALSE, stop |-> FALSE, failed |-> FALSE]

Init ==
  /\ surface = [s \in Surfaces |-> Idle]
  /\ asks = [s \in Surfaces |-> 0]
  /\ ui = None /\ tested = None /\ stranded = {}
  /\ registry = [d \in Drafts |-> "absent"]
  /\ attached = TRUE /\ editable = FALSE
  /\ rt = FreshRuntime /\ pc = "top" /\ held = None
  /\ leased = {} /\ owned = [r \in Resources |-> None]
  /\ edits = <<>> /\ mutations = <<>> /\ releases = <<>> /\ inbox = <<>>
  /\ lock = [r \in Resources |-> Free]
  /\ strays = {} /\ faults = 0

-----------------------------------------------------------------------------
SurfaceOf(d) == d[1]
WantedBy(d) == Wants[d[1]][d[2]]
Touches(d) == WantedBy(d) \cup Reads[d[1]][d[2]]
Registered == {d \in Drafts : registry[d] # "absent"}
Members(s) == {s[i] : i \in 1..Len(s)}

\* Mutant: what an edit depends on is not compared.
OverlappedEdits(d) == \E e \in Registered : WantedBy(e) \cap WantedBy(d) # {}

\* LocalDraftRegistry._overlapping_draft_locked.
Overlapped(d) == \E e \in Registered : Touches(e) \cap Touches(d) # {}

Finish(drafts) == [d \in Drafts |-> IF d \in drafts THEN "absent" ELSE registry[d]]
OwnedBy(d) == {r \in Resources : owned[r] = d}
Disown(drafts) == [r \in Resources |-> IF owned[r] \in drafts THEN None ELSE owned[r]]
FreeLocks(rs) == [r \in Resources |-> IF r \in rs THEN Free ELSE lock[r]]

Message(kind, drafts) == [kind |-> kind, drafts |-> drafts]
Post(kind, d) == inbox' = Append(inbox, Message(kind, {d}))
Denials(requests) == [i \in 1..Len(requests) |-> Message("denied", {requests[i]})]
Results(requests) == [i \in 1..Len(requests) |-> Message("result", {requests[i]})]
\* The inbox when the session's generation moves on: from here on its news is ignored.
Outdated == [i \in 1..Len(inbox) |-> IF inbox[i].kind \in SessionNews
                                     THEN Message("stale", {}) ELSE inbox[i]]

Fault == faults < MaxFaults /\ faults' = faults + 1
NoFault == UNCHANGED faults

-----------------------------------------------------------------------------
(* The main thread: the surfaces *)

MainThread == ui = None /\ tested = None

\* request_local_edit up to the registry, called by surface s with these messages left.
Request(s, messages) ==
  LET d == <<s, asks[s] + 1>>
  IN  /\ asks[s] < MaxAsks
      /\ asks' = [asks EXCEPT ![s] = @ + 1]
      /\ surface' = [surface EXCEPT ![s] = [phase |-> "asking", draft |-> d]]
      /\ IF attached /\ editable /\ ~Overlapped(d)
         THEN /\ registry' = [registry EXCEPT ![d] = "pending"]
              /\ ui' = d
              /\ inbox' = messages
         ELSE inbox' = Append(messages, Message("denied", {d})) /\ UNCHANGED <<registry, ui>>
      /\ UNCHANGED <<tested, stranded, attached, editable, rt, worker, queues, lock, strays,
                     faults>>

\* What request_local_edit and _enqueue_mutation ask under the runtime's lock.
Usable == rt.session /\ ~rt.recReq /\ ~rt.stop

\* ... and from there: the session is found usable, or the draft is finished at once.
TestSession(d) ==
  /\ ui = d /\ tested = None
  /\ IF attached /\ Usable
     THEN tested' = d /\ UNCHANGED <<ui, registry, inbox>>
     ELSE ui' = None /\ registry' = Finish({d}) /\ Post("denied", d) /\ UNCHANGED tested
  /\ UNCHANGED <<surface, asks, stranded, attached, editable, rt, worker, queues, lock,
                 strays, faults>>

\* The worker has ended, or is about to and has answered what it found queued.
LastReset == pc = "off" \/ (pc = "clear" /\ ~rt.failed)

\* The request is queued under the coordinator's lock only, which no reset takes: the
\* session may be gone by now, and the worker too.
Enqueue(d) ==
  /\ ui = d /\ tested = d
  /\ ui' = None /\ tested' = None
  /\ edits' = Append(edits, d)
  /\ stranded' = IF LastReset THEN stranded \cup {d} ELSE stranded
  /\ UNCHANGED <<surface, asks, registry, attached, editable, rt, worker, mutations, releases,
                 inbox, lock, strays, faults>>

Ask(s) == MainThread /\ surface[s].phase = "idle" /\ Request(s, inbox)

EndLease(d) == releases' = IF attached THEN Append(releases, d) ELSE releases

\* Mutant: a closed surface remembers its draft.
CloseRemembers(s) ==
  /\ MainThread /\ surface[s].phase # "idle"
  /\ surface' = [surface EXCEPT ![s].phase = "idle"]
  /\ UNCHANGED <<asks, ui, tested, stranded, registry, attached, editable, rt, worker, queues,
                 inbox, lock, strays, faults>>

\* The dialog closes, or the selection changes.
Close(s) ==
  /\ MainThread /\ surface[s].phase # "idle"
  /\ surface' = [surface EXCEPT ![s] = Idle]
  /\ IF surface[s].phase = "shown" THEN EndLease(surface[s].draft) ELSE UNCHANGED releases
  /\ UNCHANGED <<asks, ui, tested, stranded, registry, attached, editable, rt, worker, edits,
                 mutations, inbox, lock, strays, faults>>

\* queue_request finds the session usable ...
Accepting == attached /\ editable /\ Usable
Save(s) ==
  /\ MainThread /\ surface[s].phase = "shown" /\ Accepting
  /\ tested' = surface[s].draft
  /\ UNCHANGED <<surface, asks, ui, stranded, registry, attached, editable, rt, worker,
                 queues, inbox, lock, strays, faults>>

\* The surface gives its handle up to a mutation; a dialog asks again when it ends.
HandOver(s, d) ==
  /\ surface' = [surface EXCEPT ![s] = IF s \in Gestures THEN Idle
                                       ELSE [phase |-> "saving", draft |-> d]]
  /\ UNCHANGED <<asks, ui, stranded, registry, attached, editable, rt, worker, edits,
                 releases, lock>>

\* ... and queues the mutation.
EnqueueMutation(d) ==
  /\ ui = None /\ tested = d
  /\ tested' = None
  /\ mutations' = Append(mutations, d)
  /\ HandOver(SurfaceOf(d), d)
  /\ UNCHANGED <<inbox, strays, faults>>

\* queue_request returns -1 and reports a rejection; its callers go on as if it had been
\* taken. Beyond a connection that is not ready, the journal may fail, the queue be full
\* or a drain have begun.
SaveRefused(s) ==
  /\ MainThread /\ surface[s].phase = "shown"
  /\ HandOver(s, surface[s].draft)
  /\ \/ ~Accepting /\ NoFault /\ UNCHANGED strays
     \/ Accepting /\ Fault /\ strays' = strays \cup {surface[s].draft}
  /\ Post("result", surface[s].draft)
  /\ UNCHANGED <<tested, mutations>>

-----------------------------------------------------------------------------
(* The main thread: messages *)

Receiving(kind) == MainThread /\ inbox # <<>> /\ Head(inbox).kind = kind
Receive(kind) == Receiving(kind) /\ inbox' = Tail(inbox)

TheDraft == CHOOSE d \in Head(inbox).drafts : TRUE
Expected(d) == surface[SurfaceOf(d)] = [phase |-> "asking", draft |-> d]

\* Mutant: a lease that came too late is forgotten.
HandleGrantedLate ==
  LET d == TheDraft
      active == attached /\ d \in leased
  IN  /\ Receive("granted")
      /\ surface' = [surface EXCEPT ![SurfaceOf(d)] =
                       IF ~Expected(d) THEN @
                       ELSE IF active THEN [@ EXCEPT !.phase = "shown"] ELSE Idle]
      /\ UNCHANGED <<asks, ui, tested, stranded, registry, attached, editable, rt, worker,
                     queues, lock, strays, faults>>

\* _complete_runtime_lease_request, and the callback of the surface: a lease that is gone
\* is a denial, and one that came too late is given back.
HandleGranted ==
  LET d == TheDraft
      active == attached /\ d \in leased
  IN  /\ Receive("granted")
      /\ surface' = [surface EXCEPT ![SurfaceOf(d)] =
                       IF ~Expected(d) THEN @
                       ELSE IF active THEN [@ EXCEPT !.phase = "shown"] ELSE Idle]
      /\ IF active /\ ~Expected(d) THEN EndLease(d) ELSE UNCHANGED releases
      /\ UNCHANGED <<asks, ui, tested, stranded, registry, attached, editable, rt, worker,
                     edits, mutations, lock, strays, faults>>

HandleDenied ==
  /\ Receive("denied")
  /\ surface' = [s \in Surfaces |-> IF Expected(TheDraft) /\ s = SurfaceOf(TheDraft)
                                    THEN Idle ELSE surface[s]]
  /\ UNCHANGED <<asks, ui, tested, stranded, registry, attached, editable, rt, worker, queues,
                 lock, strays, faults>>

\* EDIT_LEASE_LOST: only a surface that still has the handle takes notice.
HandleLost ==
  /\ Receive("lost")
  /\ surface' = [s \in Surfaces |->
                   IF surface[s].phase = "shown" /\ surface[s].draft \in Head(inbox).drafts
                   THEN Idle ELSE surface[s]]
  /\ UNCHANGED <<asks, ui, tested, stranded, registry, attached, editable, rt, worker, queues,
                 lock, strays, faults>>

\* finish_mutation: a dialog that is still open asks again.
Saved(d) == surface[SurfaceOf(d)] = [phase |-> "saving", draft |-> d]

HandleResult ==
  /\ Receiving("result") /\ Saved(TheDraft)
  /\ Request(SurfaceOf(TheDraft), Tail(inbox))

\* Nobody waits for the result any more (or MaxAsks is reached).
IgnoreResult ==
  /\ Receive("result")
  /\ Saved(TheDraft) => asks[SurfaceOf(TheDraft)] = MaxAsks
  /\ surface' = [s \in Surfaces |-> IF Saved(TheDraft) /\ s = SurfaceOf(TheDraft)
                                    THEN Idle ELSE surface[s]]
  /\ UNCHANGED <<asks, ui, tested, stranded, registry, attached, editable, rt, worker, queues,
                 lock, strays, faults>>

\* The handlers check the generation of the session.
IgnoreStale ==
  /\ Receive("stale")
  /\ UNCHANGED <<surface, asks, ui, tested, stranded, registry, attached, editable, rt,
                 worker, queues, lock, strays, faults>>

\* _on_session_started, _on_connection_restored and _on_disconnected.
HandleNews(kind) ==
  /\ Receive(kind)
  /\ editable' = (kind = "restored")
  /\ rt' = IF kind = "started" THEN [rt EXCEPT !.healthy = FALSE, !.ready = TRUE] ELSE rt
  /\ UNCHANGED <<surface, asks, ui, tested, stranded, registry, attached, worker, queues,
                 lock, strays, faults>>

-----------------------------------------------------------------------------
(* The main thread: conflicts, recovery, start and stop *)

\* conflicts_for_changes, of a remote change that touches draft d ...
MarkConflict(d) ==
  /\ MainThread /\ attached /\ rt.session /\ registry[d] # "absent" /\ Fault
  /\ registry' = [e \in Drafts |->
                    IF e \in Registered /\ Touches(e) \cap Touches(d) # {} THEN "conflicted"
                    ELSE registry[e]]
  /\ ui' = Conflict
  /\ UNCHANGED <<surface, asks, tested, stranded, attached, editable, rt, worker, queues,
                 inbox, lock, strays>>

\* ... and enter_conflict.
EnterConflict ==
  /\ ui = Conflict
  /\ ui' = None
  /\ rt' = [rt EXCEPT !.healthy = FALSE, !.recReq = TRUE, !.recReady = FALSE]
  /\ editable' = FALSE
  /\ UNCHANGED <<surface, asks, tested, stranded, registry, attached, worker, queues, inbox,
                 lock, strays, faults>>

\* resume_controlled_recovery, once the user has resolved the conflict.
Resume ==
  /\ MainThread /\ attached /\ rt.recReq /\ ~rt.recReady
  /\ rt' = [rt EXCEPT !.recReady = TRUE]
  /\ editable' = FALSE
  /\ UNCHANGED <<surface, asks, ui, tested, stranded, registry, attached, worker, queues,
                 inbox, lock, strays, faults>>

\* _detach_runtime, and start_database once the drain has joined the worker.
Detach ==
  /\ MainThread /\ attached /\ Fault
  /\ attached' = FALSE /\ editable' = FALSE
  /\ rt' = [rt EXCEPT !.stop = TRUE, !.ready = TRUE]
  /\ inbox' = Outdated
  /\ UNCHANGED <<surface, asks, ui, tested, stranded, registry, worker, queues, lock, strays>>

Start ==
  /\ MainThread /\ ~attached /\ pc = "off"
  /\ attached' = TRUE /\ editable' = FALSE
  /\ rt' = FreshRuntime /\ pc' = "top"
  /\ edits' = <<>> /\ mutations' = <<>> /\ releases' = <<>> /\ inbox' = Outdated
  /\ UNCHANGED <<surface, asks, ui, tested, stranded, registry, held, leased, owned, lock,
                 strays, faults>>

-----------------------------------------------------------------------------
(* The worker: its iterations *)

Go(step) == pc' = step

\* _handle_worker_failure begins.
Fail == Go("reject") /\ rt' = [rt EXCEPT !.failed = TRUE]

\* stop_event ends the loop wherever it looks.
Stopped ==
  /\ pc \in {"top", "connect", "await", "release", "edit"} /\ rt.stop
  /\ Go("reject")
  /\ UNCHANGED <<user, registry, rt, held, leased, owned, queues, inbox, lock, strays,
                 faults>>

\* A recovery resets the session, waits for its resolution, and connects anew.
Top ==
  /\ pc = "top" /\ ~rt.stop
  /\ IF rt.recReq
     THEN IF rt.session THEN Go("reject") /\ UNCHANGED rt
          ELSE rt.recReady /\ Go("connect")
               /\ rt' = [rt EXCEPT !.recReq = FALSE, !.recReady = FALSE]
     ELSE Go(IF rt.session THEN "release" ELSE "connect") /\ UNCHANGED rt
  /\ UNCHANGED <<user, registry, held, leased, owned, queues, inbox, lock, strays, faults>>

Connect ==
  /\ pc = "connect" /\ ~rt.stop
  /\ Go("await")
  /\ rt' = [rt EXCEPT !.session = TRUE, !.healthy = FALSE]
  /\ inbox' = Append(Outdated, Message("started", {}))
  /\ UNCHANGED <<user, registry, held, leased, owned, queues, lock, strays, faults>>

\* A store call fails that holds no lease and no request.
CallFails ==
  /\ pc = "connect" \/ (pc = "edit" /\ edits = <<>>)
  /\ ~rt.stop /\ Fault
  /\ Fail
  /\ UNCHANGED <<user, registry, held, leased, owned, queues, inbox, lock, strays>>

Await ==
  /\ pc = "await" /\ ~rt.stop /\ rt.ready
  /\ Go("release")
  /\ UNCHANGED <<user, registry, rt, held, leased, owned, queues, inbox, lock, strays,
                 faults>>

\* _heartbeat renews the leases; when the polls have caught up the client is healthy.
Beat ==
  /\ pc = "edit" /\ edits = <<>> /\ ~rt.stop /\ NoFault
  /\ IF \E r \in Resources : owned[r] # None /\ lock[r] # owned[r]
     THEN Fail /\ UNCHANGED inbox
     ELSE /\ Go("top")
          /\ rt' = [rt EXCEPT !.healthy = ~rt.recReq]
          /\ inbox' = IF ~rt.healthy /\ ~rt.recReq
                      THEN Append(inbox, Message("restored", {})) ELSE inbox
  /\ UNCHANGED <<user, registry, held, leased, owned, queues, lock, strays>>

-----------------------------------------------------------------------------
(* The worker: releases, mutations, requests *)

\* The handle of d is what the registry and the runtime have.
Held(d) == d \in leased /\ OwnedBy(d) = WantedBy(d)

Forget(drafts) ==
  /\ leased' = leased \ drafts
  /\ owned' = Disown(drafts)
  /\ registry' = Finish(drafts)

\* The server's locks of d are released; or a call fails, and they stay until they expire.
Unlock(d) ==
  \/ lock' = FreeLocks({r \in Resources : lock[r] = d}) /\ NoFault
  \/ UNCHANGED lock /\ Fault

Release ==
  /\ pc = "release" /\ ~rt.stop /\ releases # <<>>
  /\ releases' = Tail(releases)
  /\ LET d == Head(releases)
     IN  IF Held(d) /\ registry[d] # "absent"
         THEN /\ Forget({d})
              /\ Unlock(d)
              /\ IF faults' = faults THEN UNCHANGED <<pc, rt>> ELSE Fail
         ELSE UNCHANGED <<leased, owned, registry, lock, faults, pc, rt>>
  /\ UNCHANGED <<user, held, edits, mutations, inbox, strays>>

TakeMutation ==
  /\ pc = "release" /\ ~rt.stop /\ releases = <<>>
  /\ rt.healthy /\ ~rt.recReq /\ mutations # <<>>
  /\ held' = Head(mutations) /\ mutations' = Tail(mutations)
  /\ Go("execute")
  /\ UNCHANGED <<user, registry, rt, leased, owned, edits, releases, inbox, lock, strays,
                 faults>>

NoMutation ==
  /\ pc = "release" /\ ~rt.stop /\ releases = <<>>
  /\ (~rt.healthy \/ rt.recReq \/ mutations = <<>>)
  /\ Go("edit")
  /\ UNCHANGED <<user, registry, rt, held, leased, owned, queues, inbox, lock, strays,
                 faults>>

Executable(d) ==
  /\ rt.session /\ rt.healthy /\ ~rt.recReq /\ ~rt.stop /\ editable
  /\ registry[d] = "active" /\ Held(d)

\* Not ready, or _validated_mutation_edit_lease finds the lease gone: it is not consumed.
DenyMutation ==
  /\ pc = "execute" /\ ~Executable(held)
  /\ held' = None /\ Post("result", held)
  /\ Go("edit")
  /\ UNCHANGED <<user, registry, rt, leased, owned, queues, lock, strays, faults>>

\* The journal cannot record the start: the worker fails with the lease.
JournalFails ==
  /\ pc = "execute" /\ Executable(held) /\ Fault
  /\ held' = None /\ Post("result", held)
  /\ Fail
  /\ UNCHANGED <<user, registry, leased, owned, queues, lock, strays>>

\* Mutant: a mutation that the store rejects keeps its lease.
ExecuteRejected ==
  /\ pc = "execute" /\ Executable(held)
  /\ held' = None /\ Post("result", held)
  /\ \/ Forget({held}) /\ Unlock(held)
     \/ UNCHANGED <<leased, owned, registry, lock, faults>>
  /\ Go("edit")
  /\ UNCHANGED <<user, rt, queues, strays>>

\* _consume_mutation_edit_lease, whatever the outcome; a lock lost at the server fails the
\* mutation and the worker.
Execute ==
  /\ pc = "execute" /\ Executable(held)
  /\ held' = None /\ Post("result", held)
  /\ Forget({held})
  /\ Unlock(held)
  /\ IF faults' # faults \/ \E r \in WantedBy(held) : lock[r] # held
     THEN Fail ELSE Go("edit") /\ UNCHANGED rt
  /\ UNCHANGED <<user, queues, strays>>

Deny(d) == registry' = Finish({d}) /\ Post("denied", d) /\ UNCHANGED <<leased, owned>>

\* The request of d is taken from the queue, and refused without asking the server.
Refusable(d) == ~editable \/ \E r \in WantedBy(d) : owned[r] # None

RefuseEdit ==
  /\ pc = "edit" /\ ~rt.stop /\ edits # <<>> /\ Refusable(Head(edits))
  /\ edits' = Tail(edits)
  /\ Deny(Head(edits))
  /\ UNCHANGED <<user, rt, pc, held, mutations, releases, lock, strays, faults>>

\* acquire_locks, activate, and the runtime's books. A lock that is held is a plain
\* denial; a failed call may have left its locks on the server.
AcquireEdit ==
  /\ pc = "edit" /\ ~rt.stop /\ edits # <<>> /\ ~Refusable(Head(edits))
  /\ edits' = Tail(edits)
  /\ LET d == Head(edits)
         locked == [r \in Resources |-> IF r \in WantedBy(d) THEN d ELSE lock[r]]
         free == \A r \in WantedBy(d) : lock[r] = Free
     IN  \/ /\ free /\ NoFault
            /\ lock' = locked
            /\ leased' = leased \cup {d}
            /\ owned' = [r \in Resources |-> IF r \in WantedBy(d) THEN d ELSE owned[r]]
            /\ registry' = [registry EXCEPT ![d] = "active"]
            /\ Post("granted", d)
            /\ UNCHANGED <<pc, rt>>
         \/ ~free /\ NoFault /\ Deny(d) /\ UNCHANGED <<lock, pc, rt>>
         \/ /\ Fault /\ Deny(d) /\ Fail
            /\ lock' \in IF free THEN {lock, locked} ELSE {lock}
  /\ UNCHANGED <<user, held, mutations, releases, strays>>

-----------------------------------------------------------------------------
(* The worker: _reset_session *)

\* Mutant: the drafts of the requests that are rejected stay registered.
ResetAnswersOnly ==
  /\ pc = "reject"
  /\ Go("clear")
  /\ inbox' = (IF rt.session THEN Outdated ELSE inbox)
              \o Results(mutations) \o Denials(edits)
  /\ mutations' = <<>> /\ edits' = <<>>
  /\ UNCHANGED <<user, registry, rt, held, leased, owned, releases, lock, strays, faults>>

\* The queued mutations and requests are answered; the main thread may still queue more.
ResetAnswers ==
  /\ pc = "reject"
  /\ Go("clear")
  /\ registry' = Finish(Members(edits))
  /\ inbox' = (IF rt.session THEN Outdated ELSE inbox)
              \o Results(mutations) \o Denials(edits)
  /\ mutations' = <<>> /\ edits' = <<>>
  /\ UNCHANGED <<user, rt, held, leased, owned, releases, lock, strays, faults>>

\* Mutant: the loss of a draft in conflict is not published.
ResetClearsActive ==
  /\ pc = "clear"
  /\ Forget(leased)
  /\ inbox' = inbox \o <<Message("lost", {d \in leased : registry[d] = "active"})>>
                    \o (IF rt.failed THEN <<Message("disconnected", {})>> ELSE <<>>)
  /\ lock' = FreeLocks({r \in Resources : lock[r] \in leased}) /\ NoFault
  /\ IF rt.failed THEN pc' \in {"top", "reject"}
     ELSE Go(IF rt.session /\ rt.recReq /\ ~rt.stop THEN "top" ELSE "off")
  /\ rt' = [rt EXCEPT !.session = FALSE, !.healthy = FALSE, !.ready = FALSE, !.failed = FALSE]
  /\ UNCHANGED <<user, held, queues, strays>>

\* Mutant: a worker that ends does not reset once more.
ResetClearsOnce ==
  /\ pc = "clear"
  /\ Forget(leased)
  /\ inbox' = inbox \o (IF leased = {} THEN <<>> ELSE <<Message("lost", leased)>>)
                    \o (IF rt.failed THEN <<Message("disconnected", {})>> ELSE <<>>)
  /\ lock' = FreeLocks({r \in Resources : lock[r] \in leased}) /\ NoFault
  /\ IF rt.failed THEN pc' \in {"top", "off"} ELSE Go(IF rt.recReq /\ ~rt.stop THEN "top" ELSE "off")
  /\ rt' = [rt EXCEPT !.session = FALSE, !.healthy = FALSE, !.ready = FALSE, !.failed = FALSE]
  /\ UNCHANGED <<user, held, queues, strays>>

\* _clear_runtime_edits: the drafts are finished, their loss is published, the locks are
\* released with the session (or stay until they expire). A failed worker connects
\* again, or ends and resets once more; a stopped one ends.
ResetClears ==
  /\ pc = "clear"
  /\ Forget(leased)
  /\ LET lost == IF leased = {} THEN <<>> ELSE <<Message("lost", leased)>>
         news == IF rt.failed THEN <<Message("disconnected", {})>> ELSE <<>>
     IN  inbox' = inbox \o lost \o news
  /\ \/ lock' = FreeLocks({r \in Resources : lock[r] \in leased}) /\ NoFault
     \/ leased # {} /\ UNCHANGED lock /\ Fault
  /\ \/ rt.failed /\ pc' \in {"top", "reject"}
     \/ ~rt.failed /\ Go(IF rt.session /\ rt.recReq /\ ~rt.stop THEN "top" ELSE "off")
  /\ rt' = [rt EXCEPT !.session = FALSE, !.healthy = FALSE, !.ready = FALSE, !.failed = FALSE]
  /\ UNCHANGED <<user, held, queues, strays>>

-----------------------------------------------------------------------------
(* The server and the other users *)

OthersUnchanged == UNCHANGED <<user, registry, rt, worker, queues, inbox, strays>>

OtherTakes(r) == lock[r] = Free /\ Fault /\ lock' = [lock EXCEPT ![r] = Other] /\ OthersUnchanged
OtherReleases(r) ==
  lock[r] = Other /\ NoFault /\ lock' = [lock EXCEPT ![r] = Free] /\ OthersUnchanged

\* A lock expires that has not been renewed, or whose session is taken for dead.
Expire(r) == lock[r] \in Drafts /\ Fault /\ lock' = [lock EXCEPT ![r] = Free] /\ OthersUnchanged

-----------------------------------------------------------------------------
Answer ==
  \/ \E d \in Drafts : TestSession(d) \/ Enqueue(d) \/ EnqueueMutation(d)
  \/ HandleGranted \/ HandleDenied \/ HandleLost \/ HandleResult \/ IgnoreResult
  \/ \E kind \in SessionNews : HandleNews(kind)
  \/ IgnoreStale
  \/ EnterConflict

User ==
  \/ \E s \in Surfaces : Ask(s) \/ Close(s) \/ Save(s) \/ SaveRefused(s)
  \/ \E d \in Drafts : MarkConflict(d)
  \/ Resume \/ Detach \/ Start

Worker ==
  \/ Stopped \/ Top \/ Connect \/ CallFails \/ Await \/ Beat
  \/ Release \/ TakeMutation \/ NoMutation
  \/ DenyMutation \/ JournalFails \/ Execute
  \/ RefuseEdit \/ AcquireEdit
  \/ ResetAnswers \/ ResetClears

Server == \E r \in Resources : OtherTakes(r) \/ OtherReleases(r) \/ Expire(r)

Next == Answer \/ User \/ Worker \/ Server

Spec == Init /\ [][Next]_vars

\* The main thread's event loop and the worker's thread run; users owe nothing.
FairSpec == Spec /\ WF_vars(Answer) /\ WF_vars(Worker)

-----------------------------------------------------------------------------
(* Safety *)

Announced(kind, d) == \E m \in Members(inbox) : m.kind = kind /\ d \in m.drafts
HandleOf(s) == IF surface[s].phase = "shown" THEN {surface[s].draft} ELSE {}

\* What a surface believes it may edit it may: the worker has its locks, or the news of
\* their loss is on its way to the surface.
HandleIsBacked ==
  \A s \in Surfaces : \A d \in HandleOf(s) : Held(d) \/ Announced("lost", d)

\* The registry keeps two surfaces of one client from editing what overlaps, be it only in
\* what one of them depends on.
OneEditor ==
  \A d, e \in leased : d # e => Touches(d) \cap Touches(e) = {}

\* A draft that is registered blocks every request that overlaps it, so each has somebody
\* who will finish it: the caller about to queue it, the queue of a worker that will look
\* at it again, or the worker's books. Stranded drafts are the exception: the worker ended
\* between the test of its session and the queuing, and they stay registered.
DraftsAreAccounted ==
  Registered \ stranded \subseteq
    leased \cup {ui} \cup (IF LastReset THEN {} ELSE Members(edits))

\* Somebody will give a lease back: a surface, a message or a queue, or the reset that the
\* session is about to have.
InUse(d) ==
  \/ \E s \in Surfaces : d \in HandleOf(s)
  \/ Announced("granted", d)
  \/ d \in Members(releases) \cup Members(mutations) \cup {held}
ResetIsDue ==
  rt.failed \/ rt.recReq \/ rt.stop \/ ui = Conflict \/ pc \in {"reject", "clear"}

\* ... or its mutation was refused for want of a journal entry or of room in the queue.
LeaseHasAnEnd == \A d \in leased : InUse(d) \/ ResetIsDue \/ d \in strays

-----------------------------------------------------------------------------
(* Liveness *)

\* A request is answered, unless it is stranded or the database waits for its user to
\* resolve a conflict.
AskIsAnswered ==
  \A s \in Surfaces :
    surface[s].phase = "asking" ~>
      \/ surface[s].phase # "asking" \/ surface[s].draft \in stranded
      \/ rt.recReq /\ ~rt.recReady

\* The leases of a surface that it neither shows, asks for nor saves with any more are
\* given up.
Abandoned(s) == {d \in leased \ strays : SurfaceOf(d) = s /\ surface[s].draft # d}
LeaseIsGivenBack == \A s \in Surfaces : Abandoned(s) # {} ~> Abandoned(s) = {}
=================================================================================
