------------------------------- MODULE ChangeFeed -------------------------------
(***************************************************************************)
(* What a SQL database's client shows of the other sessions' work: the     *)
(* server's history of committed changes, the worker that reads it from a  *)
(* checkpoint, the Qt main thread that projects what was read and moves    *)
(* the checkpoint, the navigation thread that loads a bid in between, and  *)
(* the row versions (concurrency tokens) that the next write expects.      *)
(*                                                                         *)
(* Abstractions: one database; a bid is one resource, its version is the   *)
(* position in the history of its last change, and what is shown of it is  *)
(* the position of the snapshot it was read from; a reset of the feed is   *)
(* handled as an invalid checkpoint; the queue, the journal, edit leases   *)
(* and stopping are the subject of MutationPipeline, and the locks of      *)
(* CollaborationStore; a navigation starts when the last one has ended; a  *)
(* step of the worker that only moves on is part of the step after it; and *)
(* a handler that waits for the scope of a write is one step after it.     *)
(***************************************************************************)
EXTENDS Naturals, Sequences, FiniteSets

CONSTANTS
  Bids,       \* the bids of the database
  NoBid,      \* no bid
  Limit,      \* transactions in a batch (maximum_batch_size)
  MaxCommits, \* changes in a behaviour
  MaxLoads,   \* navigations in a behaviour
  MaxFaults   \* lost sessions and failed projections in a behaviour

ASSUME NoBidAssumption == NoBid \notin Bids
ASSUME LimitAssumption == Limit \in Nat \ {0}
ASSUME BoundsAssumption == MaxCommits \in Nat /\ MaxLoads \in Nat /\ MaxFaults \in Nat

VARIABLES
  log,        \* the server's committed changes, oldest first
  oldest,     \* CHANGE_TRACKING_MIN_VALID_VERSION
  rt,         \* the fields of _DatabaseRuntime
  pc,         \* where the worker is
  captured,   \* the navigation owner the worker captured
  fetched,    \* what the worker has read and not yet dispatched to the main thread
  draft,      \* the bid and the base token of the mutation being executed
  inbox,      \* messages to the Qt main thread
  projecting, \* the batch whose projection barrier is open
  editable,   \* the UI's collaboration state is HEALTHY
  active,     \* the bid shown
  owner,      \* identity of the Bid object shown: the number of its load, or 0
  content,    \* the snapshot the bid shown was read from
  loads,      \* navigations so far
  nav,        \* the navigation being read
  tokens,     \* DatabaseConcurrencyTokenService: the version of each bid
  loaded,     \* _loaded_bids
  faults      \* faults so far

server == <<log, oldest>>
worker == <<pc, captured, draft, fetched>>
view == <<active, owner, content>>
cache == <<tokens, loaded>>
vars == <<server, rt, worker, inbox, projecting, editable, view, loads, nav, cache, faults>>

-----------------------------------------------------------------------------
\* by is the session of this client that committed, or 0.
Changes == [bid : Bids, by : Nat]

\* The last change of bid b up to position n: the row version a reader sees.
VersionAt(b, n) ==
  LET own == {i \in 1..n : log[i].bid = b}
  IN  IF own = {} THEN 0 ELSE CHOOSE i \in own : \A j \in own : j <= i
Version(b) == VersionAt(b, Len(log))

Runtimes == [session : BOOLEAN, gen : Nat, ack : Nat, high : Nat, pending : BOOLEAN,
             healthy : BOOLEAN, announced : BOOLEAN, ready : BOOLEAN, recReq : BOOLEAN,
             recReady : BOOLEAN, recTried : BOOLEAN]

Messages == [kind : {"started", "batch", "local", "restored", "lost", "invalid",
                     "unprojected"},
             gen : Nat, owner : Nat, bid : Bids \cup {NoBid}, from : Nat, to : Nat,
             snap : Nat]
           \cup [kind : {"loaded"}]

NoBatch == [kind |-> "none"]
NothingFetched == [kind |-> "none"]
NoDraft == [bid |-> NoBid, base |-> 0]
NoNav == [step |-> "idle", bid |-> NoBid, version |-> 0, snap |-> 0, wanted |-> FALSE]

Message(kind) ==
  [kind |-> kind, gen |-> rt.gen, owner |-> captured, bid |-> NoBid, from |-> 0,
   to |-> 0, snap |-> Len(log)]
Post(message) == inbox' = Append(inbox, message)

Fault == faults < MaxFaults /\ faults' = faults + 1
NoFault == UNCHANGED faults

-----------------------------------------------------------------------------
(* The server and the other sessions *)

Record(b, by) == log' = Append(log, [bid |-> b, by |-> by])
Room == Len(log) < MaxCommits

OtherCommit(b) ==
  /\ Room
  /\ Record(b, 0)
  /\ UNCHANGED <<oldest, rt, worker, inbox, projecting, editable, view, loads, nav, cache,
                 faults>>

\* Change tracking forgets changes older than its retention period.
TrimHistory ==
  /\ oldest < Len(log) /\ Fault
  /\ oldest' = Len(log)
  /\ UNCHANGED <<log, rt, worker, inbox, projecting, editable, view, loads, nav, cache>>

-----------------------------------------------------------------------------
(* The worker: sessions *)

Go(step) == pc' = step

\* What is read is dispatched in a step of its own.
Fetch(message) == fetched' = message /\ Go("deliver")
Sequel == [started |-> "await", local |-> "mark", batch |-> "check", invalid |-> "check"]

\* A dispatched batch, or the news of an invalid checkpoint, stops the polls.
Deliver ==
  /\ pc = "deliver"
  /\ Post(fetched)
  /\ rt' = [rt EXCEPT !.pending = @ \/ fetched.kind \in {"batch", "invalid"}]
  /\ fetched' = NothingFetched
  /\ Go(Sequel[fetched.kind])
  /\ UNCHANGED <<server, captured, draft, projecting, editable, view, loads, nav, cache,
                 faults>>

\* _reset_session: callbacks of the session are stale from here on.
Reset == [rt EXCEPT !.gen = @ + 1, !.session = FALSE, !.healthy = FALSE, !.ready = FALSE]

\* An iteration begins, or goes on after a write, with a session that is to be kept.
Iterating ==
  \/ pc = "await" /\ rt.ready
  \/ pc = "top" /\ rt.session /\ ~rt.recReq
  \/ pc = "mark"

\* _handle_worker_failure.
LoseSession ==
  /\ \/ Iterating \/ pc \in {"load", "capture", "hydrate", "draft", "poll"}
     \/ pc = "deliver" /\ fetched.kind = "started"
  /\ Fault
  /\ rt' = Reset
  /\ Post([Message("lost") EXCEPT !.gen = rt.gen + 1])
  /\ Go("top") /\ draft' = NoDraft /\ fetched' = NothingFetched
  /\ UNCHANGED <<server, captured, projecting, editable, view, loads, nav, cache>>

\* A requested recovery ends the session before it starts the next one.
LeaveSession ==
  /\ pc = "top" /\ rt.recReq /\ rt.session
  /\ rt' = Reset
  /\ UNCHANGED <<server, worker, inbox, projecting, editable, view, loads, nav, cache,
                 faults>>

\* start_session and _install_session: the checkpoint is the server's current version.
StartSession ==
  /\ pc = "top" /\ ~rt.session
  /\ rt.recReq => rt.recReady
  /\ rt' = [rt EXCEPT !.session = TRUE, !.gen = @ + 1, !.ack = Len(log), !.high = Len(log),
                      !.pending = FALSE, !.healthy = FALSE, !.announced = FALSE,
                      !.recReq = FALSE, !.recReady = FALSE]
  /\ Go("load")
  /\ UNCHANGED <<server, captured, draft, fetched, inbox, projecting, editable, view, loads,
                 nav, cache, faults>>

\* Mutant: the forgotten versions leave no entries to compare with.
LoadDatabaseUnread ==
  /\ pc = "load"
  /\ loaded' = {} /\ tokens' = <<>>
  /\ Go("capture")
  /\ UNCHANGED <<server, rt, captured, draft, fetched, inbox, projecting, editable, view,
                 loads, nav, faults>>

\* load_database forgets the versions of every bid.
LoadDatabase ==
  /\ pc = "load"
  /\ loaded' = {} /\ tokens' = [b \in Bids |-> 0]
  /\ Go("capture")
  /\ UNCHANGED <<server, rt, captured, draft, fetched, inbox, projecting, editable, view,
                 loads, nav, faults>>

CaptureOwner ==
  /\ pc = "capture"
  /\ captured' = owner
  /\ Go("hydrate")
  /\ UNCHANGED <<server, rt, draft, fetched, inbox, projecting, editable, view, loads, nav,
                 cache, faults>>

\* initial_reconciliation: a snapshot of everything shown.
Hydrate ==
  /\ pc = "hydrate"
  /\ Fetch(Message("started"))
  /\ UNCHANGED <<server, rt, captured, draft, inbox, projecting, editable, view, loads, nav,
                 cache, faults>>

-----------------------------------------------------------------------------
(* The worker: writes *)

Serving == rt.healthy /\ ~rt.pending /\ ~rt.recReq /\ editable

\* mutation_scope: from the choice of the base to the caching of the result, a write keeps
\* every other thread from changing the cached versions.
ScopeFree == pc # "draft"

\* The versions of a bid that is not loaded are read from the server.
EnsureLoaded(b) ==
  /\ loaded' = loaded \cup {b}
  /\ tokens' = IF b \in loaded THEN tokens ELSE [tokens EXCEPT ![b] = Version(b)]

\* The mutation's draft takes the cached versions as its base.
BeginWrite(b) ==
  /\ Iterating /\ pc # "mark" /\ Serving /\ Room
  /\ EnsureLoaded(b)
  /\ draft' = [bid |-> b, base |-> tokens'[b]]
  /\ Go("draft")
  /\ UNCHANGED <<server, rt, captured, fetched, inbox, projecting, editable, view, loads, nav,
                 faults>>

\* The server refuses a write whose base is not the current version.
RefuseWrite ==
  /\ pc = "draft" /\ draft.base # Version(draft.bid)
  /\ draft' = NoDraft /\ Go("mark")
  /\ UNCHANGED <<server, rt, captured, fetched, inbox, projecting, editable, view, loads, nav,
                 cache, faults>>

\* The write commits, apply_result caches its version, and the owner is captured for
\* reading the result back.
Write ==
  /\ pc = "draft" /\ draft.base = Version(draft.bid) /\ Room
  /\ Record(draft.bid, rt.gen)
  /\ tokens' = [tokens EXCEPT ![draft.bid] = Len(log) + 1]
  /\ draft' = [draft EXCEPT !.base = Len(log) + 1]
  /\ captured' = owner
  /\ Go("read")
  /\ UNCHANGED <<oldest, rt, fetched, inbox, projecting, editable, view, loads, nav, loaded,
                 faults>>

\* The connection is lost while COMMIT is outstanding; it may have arrived.
LoseWrite ==
  /\ pc = "draft" /\ draft.base = Version(draft.bid) /\ Room /\ Fault
  /\ Record(draft.bid, rt.gen)
  /\ rt' = Reset
  /\ Post([Message("lost") EXCEPT !.gen = rt.gen + 1])
  /\ draft' = NoDraft /\ Go("top")
  /\ UNCHANGED <<oldest, captured, fetched, projecting, editable, view, loads, nav, cache>>

\* hydrate_operation: a snapshot of what the write changed goes to the UI.
ReadBack ==
  /\ pc = "read"
  /\ Fetch([Message("local") EXCEPT !.bid = draft.bid, !.to = draft.base])
  /\ draft' = NoDraft
  /\ UNCHANGED <<server, rt, captured, inbox, projecting, editable, view, loads, nav, cache,
                 faults>>

\* The result cannot be read back: the caller is told and the session is reset.
ReadBackFails ==
  /\ pc = "read" /\ Fault
  /\ rt' = Reset
  /\ inbox' = inbox \o <<Message("unprojected"), [Message("lost") EXCEPT !.gen = rt.gen + 1]>>
  /\ draft' = NoDraft /\ Go("top")
  /\ UNCHANGED <<server, captured, fetched, projecting, editable, view, loads, nav, cache>>

-----------------------------------------------------------------------------
(* The worker: the feed *)

\* _poll_once up to the query; a delivery that is pending stops it.
BeginPoll ==
  /\ Iterating
  /\ captured' = IF rt.pending THEN captured ELSE owner
  /\ Go(IF rt.pending THEN "check" ELSE "poll")
  /\ UNCHANGED <<server, rt, draft, fetched, inbox, projecting, editable, view, loads, nav,
                 cache, faults>>

\* The position a batch that starts at the checkpoint reaches.
Delivered == IF Len(log) - rt.ack >= Limit THEN rt.ack + Limit ELSE Len(log)

\* The query: its snapshot is one moment of the server.
Poll ==
  /\ pc = "poll"
  /\ rt' = [rt EXCEPT !.high = Len(log)]
  /\ \/ rt.ack < oldest /\ Fetch(Message("invalid"))
     \/ rt.ack >= oldest /\ rt.ack = Len(log) /\ Go("check") /\ UNCHANGED fetched
     \/ /\ rt.ack >= oldest /\ rt.ack < Len(log)
        /\ Fetch([Message("batch") EXCEPT !.from = rt.ack, !.to = Delivered])
  /\ UNCHANGED <<server, captured, draft, inbox, projecting, editable, view, loads, nav,
                 cache, faults>>

\* The end of an iteration: the first time the session has caught up, editing returns.
Check ==
  /\ pc = "check"
  /\ LET caughtUp == ~rt.pending /\ rt.ack >= rt.high
     IN  IF caughtUp /\ ~rt.announced
         THEN /\ rt' = [rt EXCEPT !.healthy = TRUE, !.announced = TRUE, !.recTried = FALSE]
              /\ Post(Message("restored"))
         ELSE rt' = [rt EXCEPT !.healthy = caughtUp] /\ UNCHANGED inbox
  /\ Go("top")
  /\ UNCHANGED <<server, captured, draft, fetched, projecting, editable, view, loads, nav,
                 cache, faults>>

-----------------------------------------------------------------------------
(* The Qt main thread: the worker's messages *)

Receive(kind) == inbox # <<>> /\ Head(inbox).kind = kind /\ inbox' = Tail(inbox)
SessionCurrent(m) == m.gen = rt.gen
\* Mutant: the navigation owner is not compared.
OwnerAny(m) == TRUE
OwnerCurrent(m) == m.owner = owner

\* _on_reconciliation_required. The event it publishes makes the UI call
\* resume_controlled_recovery at once, which succeeds once per establishment.
Reconciling(r) ==
  IF r.recReq THEN r
  ELSE [r EXCEPT !.healthy = FALSE, !.pending = TRUE, !.recReq = TRUE,
                 !.recReady = ~r.recTried, !.recTried = TRUE]
\* A navigation that replaced the bid may always be recovered from.
Replaced(r) == Reconciling(IF r.recReq THEN r ELSE [r EXCEPT !.recTried = FALSE])

RequireRecovery(r) == rt' = r /\ editable' = (rt.recReq /\ editable)

\* _project_session_start: the rows read at the session's start are shown, or a
\* navigation has meanwhile replaced the bid.
HandleStarted ==
  /\ Receive("started") /\ SessionCurrent(Head(inbox))
  /\ IF OwnerCurrent(Head(inbox))
     THEN /\ rt' = [rt EXCEPT !.healthy = FALSE, !.ready = TRUE]
          /\ editable' = FALSE
          /\ content' = IF active = NoBid THEN content ELSE Head(inbox).snap
     ELSE /\ RequireRecovery([Replaced(rt) EXCEPT !.ready = TRUE])
          /\ UNCHANGED content
  /\ UNCHANGED <<server, worker, projecting, active, owner, loads, nav, cache, faults>>

HandleStartedFailure ==
  /\ Receive("started") /\ SessionCurrent(Head(inbox)) /\ OwnerCurrent(Head(inbox)) /\ Fault
  /\ RequireRecovery([Reconciling(rt) EXCEPT !.ready = TRUE])
  /\ UNCHANGED <<server, worker, projecting, view, loads, nav, cache>>

\* The changes of a batch that other sessions made; the session's own are left out.
Foreign(m) == {i \in (m.from + 1)..m.to : log[i].by # m.gen}
ForeignTo(m, b) == {i \in Foreign(m) : log[i].bid = b}

\* _on_remote_batch: the bid shown is replaced by the rows of the batch's snapshot, and the
\* cached versions by those the changes resulted in.
HandleBatch ==
  /\ Receive("batch") /\ SessionCurrent(Head(inbox))
  /\ LET m == Head(inbox)
         last(b) == CHOOSE i \in ForeignTo(m, b) : \A j \in ForeignTo(m, b) : j <= i
     IN
     IF OwnerCurrent(m)
     THEN /\ ScopeFree
          /\ content' = IF active # NoBid /\ ForeignTo(m, active) # {} THEN m.snap ELSE content
          /\ tokens' = [b \in Bids |-> IF ForeignTo(m, b) # {} THEN last(b) ELSE tokens[b]]
          /\ projecting' = m
          /\ UNCHANGED <<rt, editable>>
     ELSE /\ RequireRecovery(Replaced(rt))
          /\ UNCHANGED <<content, tokens, projecting>>
  /\ UNCHANGED <<server, worker, active, owner, loads, nav, loaded, faults>>

\* The batch is malformed, or conflicts with a draft: enter_resource_conflict then waits
\* for the user.
HandleBatchFailure ==
  /\ Receive("batch") /\ SessionCurrent(Head(inbox)) /\ OwnerCurrent(Head(inbox)) /\ Fault
  /\ \/ RequireRecovery(Reconciling(rt))
     \/ /\ rt' = [rt EXCEPT !.healthy = FALSE, !.pending = TRUE, !.recReq = TRUE,
                            !.recReady = FALSE]
        /\ editable' = FALSE
  /\ UNCHANGED <<server, worker, projecting, view, loads, nav, cache>>

\* Mutant: a batch that was projected stays pending.
FinishBatchPending ==
  /\ projecting # NoBatch /\ SessionCurrent(projecting)
  /\ LET trusted == ~rt.recReq
     IN  rt' = [rt EXCEPT !.ack = IF trusted THEN projecting.to ELSE @]
  /\ projecting' = NoBatch
  /\ UNCHANGED <<server, worker, inbox, editable, view, loads, nav, cache, faults>>

\* Mutant: the checkpoint moves to the high water.
FinishBatchHigh ==
  /\ projecting # NoBatch /\ SessionCurrent(projecting)
  /\ LET trusted == ~rt.recReq
     IN  rt' = [rt EXCEPT !.ack = IF trusted THEN rt.high ELSE @,
                          !.pending = ~trusted,
                          !.healthy = trusted]
  /\ projecting' = NoBatch
  /\ UNCHANGED <<server, worker, inbox, editable, view, loads, nav, cache, faults>>

\* _finish_remote_batch: every surface has projected the batch; only now does the
\* checkpoint move.
FinishBatch ==
  /\ projecting # NoBatch /\ SessionCurrent(projecting)
  /\ LET trusted == ~rt.recReq
     IN  rt' = [rt EXCEPT !.ack = IF trusted THEN projecting.to ELSE @,
                          !.pending = ~trusted,
                          !.healthy = trusted /\ projecting.to >= rt.high]
  /\ projecting' = NoBatch
  /\ UNCHANGED <<server, worker, inbox, editable, view, loads, nav, cache, faults>>

FinishBatchFailure ==
  /\ projecting # NoBatch /\ SessionCurrent(projecting) /\ Fault
  /\ RequireRecovery(Reconciling(rt))
  /\ projecting' = NoBatch
  /\ UNCHANGED <<server, worker, inbox, view, loads, nav, cache>>

FinishStale ==
  /\ projecting # NoBatch /\ ~SessionCurrent(projecting)
  /\ projecting' = NoBatch
  /\ UNCHANGED <<server, rt, worker, inbox, editable, view, loads, nav, cache, faults>>

\* _apply_local_mutation_result: a committed write is projected like a remote one, or the
\* database is reconciled.
HandleLocal ==
  /\ Receive("local")
  /\ LET m == Head(inbox)
     IN
     IF SessionCurrent(m) /\ OwnerCurrent(m)
     THEN /\ ScopeFree
          /\ content' = IF m.bid = active THEN m.snap ELSE content
          /\ tokens' = [tokens EXCEPT ![m.bid] = m.to]
          /\ UNCHANGED <<rt, editable>>
     ELSE RequireRecovery(Reconciling(rt)) /\ UNCHANGED <<content, tokens>>
  /\ UNCHANGED <<server, worker, projecting, active, owner, loads, nav, loaded, faults>>

\* The projection of a committed write fails, or its result could not be read back.
HandleUnprojected ==
  /\ \/ Receive("unprojected") /\ NoFault
     \/ Receive("local") /\ SessionCurrent(Head(inbox)) /\ OwnerCurrent(Head(inbox)) /\ Fault
  /\ RequireRecovery(Reconciling(rt))
  /\ UNCHANGED <<server, worker, projecting, view, loads, nav, cache>>

HandleRestored ==
  /\ Receive("restored") /\ SessionCurrent(Head(inbox))
  /\ editable' = TRUE
  /\ UNCHANGED <<server, rt, worker, projecting, view, loads, nav, cache, faults>>

HandleLost ==
  /\ Receive("lost") /\ SessionCurrent(Head(inbox))
  /\ editable' = FALSE
  /\ UNCHANGED <<server, rt, worker, projecting, view, loads, nav, cache, faults>>

HandleInvalid ==
  /\ Receive("invalid") /\ SessionCurrent(Head(inbox))
  /\ RequireRecovery(Reconciling(rt))
  /\ UNCHANGED <<server, worker, projecting, view, loads, nav, cache, faults>>

\* A message of an earlier session changes nothing.
HandleStale ==
  /\ \E kind \in {"started", "batch", "restored", "lost", "invalid"} : Receive(kind)
  /\ ~SessionCurrent(Head(inbox))
  /\ UNCHANGED <<server, rt, worker, projecting, editable, view, loads, nav, cache, faults>>

\* The user refreshes the database: resume_controlled_recovery.
Refresh ==
  /\ rt.recReq /\ ~rt.recTried
  /\ rt' = [rt EXCEPT !.recTried = TRUE, !.recReady = TRUE]
  /\ editable' = FALSE
  /\ UNCHANGED <<server, worker, inbox, projecting, view, loads, nav, cache, faults>>

-----------------------------------------------------------------------------
(* Navigation *)

StartLoad(b) ==
  /\ nav.step = "idle" /\ loads < MaxLoads
  /\ nav' = [NoNav EXCEPT !.step = "versions", !.bid = b, !.wanted = TRUE]
  /\ loads' = loads + 1
  /\ UNCHANGED <<server, rt, worker, inbox, projecting, editable, view, cache, faults>>

\* The user leaves the bid; the result of a read that has started will be dropped.
CloseBid ==
  /\ active # NoBid \/ nav.wanted
  /\ nav' = [nav EXCEPT !.wanted = FALSE]
  /\ active' = NoBid /\ owner' = 0 /\ content' = 0
  /\ UNCHANGED <<server, rt, worker, inbox, projecting, editable, loads, cache, faults>>

\* The navigation thread reads and caches the versions of the bid.
LoadVersions ==
  /\ nav.step = "versions" /\ ScopeFree
  /\ tokens' = [tokens EXCEPT ![nav.bid] = Version(nav.bid)]
  /\ loaded' = loaded \cup {nav.bid}
  /\ nav' = [nav EXCEPT !.step = "data", !.version = Version(nav.bid)]
  /\ UNCHANGED <<server, rt, worker, inbox, projecting, editable, view, loads, faults>>

\* The bid itself is read later, in a snapshot of its own.
ReadData ==
  /\ nav.step = "data"
  /\ nav' = [nav EXCEPT !.step = "read", !.snap = Len(log)]
  /\ UNCHANGED <<server, rt, worker, inbox, projecting, editable, view, loads, cache, faults>>

PostLoad ==
  /\ nav.step = "read"
  /\ IF nav.wanted
     THEN nav' = [nav EXCEPT !.step = "posted"] /\ Post([kind |-> "loaded"])
     ELSE nav' = NoNav /\ UNCHANGED inbox
  /\ UNCHANGED <<server, rt, worker, projecting, editable, view, loads, cache, faults>>

\* Mutant: the versions read are not compared with the cached ones.
VersionsAny == TRUE
\* bid_versions_are_current.
VersionsCurrent == nav.bid \in loaded /\ tokens[nav.bid] = nav.version

\* apply_prepared: the bid is shown unless its versions have changed since they were read.
ApplyLoad ==
  /\ Receive("loaded") /\ ScopeFree
  /\ IF nav.wanted /\ VersionsCurrent
     THEN active' = nav.bid /\ owner' = loads /\ content' = nav.snap
     ELSE UNCHANGED view
  /\ nav' = NoNav
  /\ UNCHANGED <<server, rt, worker, projecting, editable, loads, cache, faults>>

-----------------------------------------------------------------------------
Init ==
  /\ log = <<>> /\ oldest = 0
  /\ rt = [session |-> FALSE, gen |-> 0, ack |-> 0, high |-> 0, pending |-> FALSE,
           healthy |-> FALSE, announced |-> FALSE, ready |-> FALSE, recReq |-> FALSE,
           recReady |-> FALSE, recTried |-> FALSE]
  /\ pc = "top" /\ captured = 0 /\ draft = NoDraft /\ fetched = NothingFetched
  /\ inbox = <<>> /\ projecting = NoBatch /\ editable = FALSE
  /\ active = NoBid /\ owner = 0 /\ content = 0
  /\ loads = 0 /\ nav = NoNav
  /\ tokens = [b \in Bids |-> 0] /\ loaded = {}
  /\ faults = 0

ServerStep == TrimHistory \/ \E b \in Bids : OtherCommit(b)

WorkerStep ==
  \/ LoseSession \/ LeaveSession \/ StartSession \/ LoadDatabase \/ CaptureOwner \/ Hydrate
  \/ Deliver
  \/ (\E b \in Bids : BeginWrite(b)) \/ RefuseWrite \/ Write \/ LoseWrite
  \/ ReadBack \/ ReadBackFails \/ BeginPoll \/ Poll \/ Check

UiStep ==
  \/ HandleStarted \/ HandleStartedFailure \/ HandleBatch \/ HandleBatchFailure
  \/ FinishBatch \/ FinishBatchFailure \/ FinishStale
  \/ HandleLocal \/ HandleUnprojected \/ HandleRestored \/ HandleLost \/ HandleInvalid
  \/ HandleStale \/ ApplyLoad

UserStep == Refresh \/ CloseBid \/ \E b \in Bids : StartLoad(b)
NavigationStep == LoadVersions \/ ReadData \/ PostLoad

Next == ServerStep \/ WorkerStep \/ UiStep \/ UserStep \/ NavigationStep

Spec == Init /\ [][Next]_vars

\* Threads are scheduled, Qt delivers its events and a surface ends its projection; the
\* user, the other sessions and the faults owe nothing.
FairSpec == Spec /\ WF_vars(WorkerStep) /\ WF_vars(UiStep)

-----------------------------------------------------------------------------
(* Properties *)

\* Every variable has its type.
TypeOK ==
  /\ log \in Seq(Changes) /\ oldest \in 0..Len(log)
  /\ rt \in Runtimes
  /\ pc \in {"top", "load", "capture", "hydrate", "await", "draft", "read", "mark",
             "poll", "check", "deliver"}
  /\ captured \in Nat
  /\ draft \in [bid : Bids \cup {NoBid}, base : Nat]
  /\ fetched \in Messages \cup {NothingFetched}
  /\ inbox \in Seq(Messages)
  /\ projecting \in Messages \cup {NoBatch}
  /\ editable \in BOOLEAN
  /\ active \in Bids \cup {NoBid} /\ owner \in Nat /\ content \in Nat
  /\ loads \in 0..MaxLoads
  /\ nav \in [step : {"idle", "versions", "data", "read", "posted"}, bid : Bids \cup {NoBid},
              version : Nat, snap : Nat, wanted : BOOLEAN]
  /\ tokens \in [Bids -> Nat] /\ loaded \subseteq Bids
  /\ faults \in 0..MaxFaults

\* Changes up to the checkpoint that the bid shown does not contain.
Missed == {i \in 1..rt.ack : log[i].bid = active /\ i > content}

\* The checkpoint never passes a change that the bid shown lacks.
CheckpointCovers == rt.ready /\ ~rt.recReq => Missed = {}

\* The same for changes of other sessions.
CheckpointCoversOthers ==
  rt.ready /\ ~rt.recReq => \A i \in Missed : log[i].by = rt.gen

\* While the bid stays open, what is shown of it never goes back to an older snapshot.
FeedNeverGoesBack ==
  [][owner' = owner /\ active' = active => content' >= content]_vars

NeedsUser == rt.recReq /\ ~rt.recReady

\* Every change is shown and passed by the checkpoint, unless recovery waits for the user.
CatchesUp ==
  \A n \in 1..MaxCommits :
    Len(log) >= n ~> (rt.session /\ rt.healthy /\ rt.ack >= n) \/ NeedsUser
=================================================================================
