# OST Visualizer: verification of collaboration, connections and deferred edits

OST Visualizer is a Windows program (PySide6) that shows and edits On-Screen Takeoff databases: local Access files
(`.mdb`) and shared Microsoft SQL Server databases that several users edit at the same time. Most of what is hard to
test is in the second part: each open SQL database has a worker thread beside the Qt main thread, a journal on disk,
edit locks that expire, a change feed read from a checkpoint, and commits whose outcome the client may never hear. The
rest is where the main thread, results that come late, and threads of the program meet: undo, projection to plan views,
deferred writes, proposals of an AI client, pooled Access connections and the monitor of On-Screen Takeoff. This
directory models those parts in TLA+, model-checks them with TLC and proves their safety properties with TLAPS.

Contents: 1 inventory, 2 modules and how they correspond to the code, 3 runs, 4 fairness, 5 proofs, 6 findings and
observations, 7 what is not modelled.

Paths below are relative to `src/ost_visualizer/` unless they start with `tests/` or are `README.md` (in `src/`).

## 1. Inventory

### 1.1 The parts of SQL collaboration

| Component | State | Operations | Talks to | Hard behaviour |
|---|---|---|---|---|
| Coordinator, `application/services/sql_collaboration_coordinator.py` | one `_DatabaseRuntime` per database (session, generations, checkpoint, queues, recovery flags), uncertain callbacks, drains | submit, cancel, drain, detach, recover; worker loop: start session, recover journal, execute, poll, heartbeat, reset | the UI by `QtCallbackBridge`, the stores by calls, the registry and the journal by calls under locks | two threads over one runtime; results that outlive the session or the runtime they belong to |
| Pending mutation registry, `application/services/pending_mutation_registry.py` | state of every mutation not finished | begin, transition, finish, cancel | both threads | check-then-act between the threads |
| Journal, `infrastructure/persistence/repositories/json_pending_sql_operation_repository.py` | a file with the pending operations | record, transition, remove, list | worker and UI | crash between journal and commit |
| Collaboration store, `infrastructure/sql/collaboration_store.py` | tables Sessions, Presence, Locks, ChangeTransactions, ChangeLog | start/close session, heartbeat, acquire/renew/release locks, poll, query an operation | SQL Server | leases that expire, sessions swept by others, transactions that overlap |
| Writer, `infrastructure/sql/writer.py`, `schema_lock.py` | one transaction | prepare, validate locks and versions, run, finish, commit | SQL Server | what was validated must be true at the commit; application locks must not deadlock |
| Token cache, `application/services/database_concurrency_token_service.py` | row version of each resource that the next write will expect | load database or bid, apply remote changes, compare | worker, UI and navigation thread | versions that are newer or older than what the user sees |
| Reconciliation, `application/services/remote_change_reconciliation_service.py` | none of its own | project a batch, a session start, or an own commit | token cache, repositories, UI | the bid shown is replaced while a batch is on its way |
| Projection barrier, `application/dtos/remote_projection_dtos.py` | surfaces that still have to project a batch | register, seal, complete, fail | UI surfaces | a surface that is late, fails, or is destroyed |
| Navigation load, `application/services/navigation_load_service.py` | one active request | submit, cancel, run, complete | navigation thread and UI | a read that ends after the user went elsewhere |
| Edit leases, coordinator, `presentation/services/modal_edit_lease_session.py`, `local_draft_registry.py` | a handle per local draft, the worker's owned locks, queues of requests and releases | begin, renew, lose, consume by a mutation, release | surfaces of the UI, worker and server | release, renewal, mutation, loss and reset cross each other |

Correctness of these parts, in words:

* *Coordinator.* What the caller of a mutation is told is true on the server, now and later; it gets one final answer;
  a cancelled mutation never runs; no committed mutation is forgotten by a recovery; a drain does not succeed while
  the worker has critical work in hand; an unknown outcome is resolved.
* *Store and writer.* An unexpired lock keeps other sessions out; no write overwrites a version its client did not
  expect; no operation is applied twice; "this operation does not exist" stays true; transactions do not deadlock.
* *Feed, tokens, navigation.* The checkpoint never passes a change that the screen lacks; the screen never goes back;
  a conflict reported to the user is one; the client catches up.

* *Edit leases.* What a surface may edit is locked for it or its loss is announced; two surfaces of a client never edit
  what overlaps; no draft and no lease is left without somebody who will end it; every request is answered.
* *Projection.* A batch is acknowledged only if every surface that had to show it did, and it gets its verdict.

### 1.2 The other parts of the program

* *Undo and redo* (`presentation/services/undo_redo_service.py`): two stacks of entries whose mutations complete
  asynchronously, a generation that a cleared history leaves behind, edits that are not finished. Hard: completions out
  of order, outcomes that a recovery finds out. Correct if undo offers the last edit and the stacks agree with the
  database.
* *Projection of batches to plan views* (`coordinators/viewer_sync_coordinator.py`, `remote_plan_update_pipeline.py`,
  `managers/detached_page_view_manager.py`): a pipeline for each surface with one update in flight and one waiting.
  Hard: updates prepared from old data, surfaces that close. Correct if what is shown never goes back.
* *Access connections* (`infrastructure/mdb/connection_manager.py`, `mdb_writer.py`): pooled connections with a write
  block, maintenance and a lock for each path. Hard: blocking writes while one is open, connections that break in a
  nested lease, reads that miss a commit.
* *Transaction monitor* (`infrastructure/monitoring/transaction_monitor.py`): a thread that waits on Windows events and
  tells the main thread whether On-Screen Takeoff is online. Hard: a stop that times out, a status that is not published.
* *Deferred persistence* (`presentation/managers/deferred_persistence_manager.py`): what is shown at once and written
  after a delay, with retries, overlapping keys and a flush at shutdown. Hard: results out of order, failures of some of
  several overlapping writes. Correct if nothing is left behind that would undo a later change, and what the user asked
  for last is stored.
* *AI takeoff* (`application/services/ai_*.py`, `presentation/services/ai_*.py`): changesets that a client proposes, the
  user reviews, and either undoes. Hard: revisions during a review, edits between plan, proposal and approval, two ways
  to undo. Correct if what is applied is what was reviewed and undo takes away nothing else.
* *Licensing* (`application/orchestrators/license_orchestrator.py` and the validation scheduler): not modelled, see 7.
* *Domain, parsers, forty modules of row mapping, Qt presentation, native extensions, installer, administration*:
  sequential computation, drawing, or I/O.

`PROJECT.json` lists all of them with their status, and every hazard with the line where it bites and the property that
covers it, or why none does.

## 2. Modules

MutationPipeline, CollaborationStore, ChangeFeed and EditLeases model four sides of SQL collaboration. They meet at
interfaces that each abstracts: what MutationPipeline sees of a server transaction (none, open, committed, aborted) is
what CollaborationStore does in detail; what it sees of a batch (arrived, last or not) is what ChangeFeed does; the
verdict of a batch that ChangeFeed assumes is what PlanProjection computes; the lock of a resource in EditLeases is a
row of CollaborationStore's table. MdbConnections and TransactionMonitor share the main thread and the queue of signals,
and Desktop composes them with UndoHistory and PlanProjection. MutationOutcomes is the abstract specification of the write path.

### 2.1 MutationPipeline: the write path of one database

*Threads.* The UI thread's steps are `UserStep` (submit, cancel, drain, refresh, detach, start) and `UiStep` (the
handlers of the worker's messages). The worker's steps are `WorkerStep`; `pc` is where it stands between two points at
which the UI can run. `QtCallbackBridge.dispatch` called on the UI thread runs at once and called on the worker posts an
event, so `inbox` is the queue of the worker's messages only.

| Variable | Code |
|---|---|
| `rt` | fields of `_DatabaseRuntime`: `gen`/`sgen` are the runtime's and the session's generation, `announced` is `restored_session_generation = session_generation`, `pending` is `pending_delivery`, `current` is whether the checkpoint has reached the high water, `recReq/recReady/recTried` are `recovery_requested/ready/attempted` |
| `pstate`, `journal` | `PendingMutationRegistry`, and the states in the journal file |
| `uncertain` | keys of `_uncertain_callbacks` |
| `queue` | `mutation_requests` |
| `submitting` | `queue_request` between the journal and `_enqueue_mutation`, where the worker may run |
| `drain` | the lifecycle drain and whether it noted a refused critical mutation |
| `txn` | the operation's transaction on the server |
| `told`, `verdicts`, `stage`, `granted` | history: what the caller was told and how often, how far its submission came, granted cancellations |

A lock in the code (`runtime.lock`, the registry's lock) that makes a test and an assignment one step makes them one
action here (`Cancel`, `Admit`); where the code lets go in between, there are several actions (`Submit`, `TestRuntime` and
`Enqueue`: `_enqueue_mutation` tests the session under `runtime.lock` and puts the mutation into the queue after it;
`BeginReset` and `EndReset`, which are the rejection of the queue and the clearing of the session in `_reset_session`).
`Complete` is `_complete_mutation_request`, with the journal, the registry, the recovery and the drain it sets off.
`Fault` counts failures: a lost connection, a write of the journal that fails, a projection that fails, a crash.

### 2.2 CollaborationStore: sessions, locks and transactions on the server

*Processes.* Any number of sessions, each running one transaction at a time (its worker is one thread). An application
lock is taken in a step of its own, so transactions interleave between two lock waits, between the validation and the
statements, and between sending a commit and its arrival.

| Variable | Code |
|---|---|
| `row`, `editing`, `lock`, `version`, `marker`, `lastToken` | tables Sessions, Presence, Locks, EntityVersions, ChangeTransactions, and the lock tokens |
| `held`, `tx` | `sp_getapplock` locks and the transaction each session runs |
| `client`, `known`, `seen` | the client, its lock tokens (`DatabaseSessionRegistry`) and the versions its next write expects |
| `uncertain`, `absent` | operations to ask for; operations reported as not found |

`Wanted` is the lock modes of `_prepare_mutation` (exclusive for what is written, shared for its bid) and of
`acquire_locks` (exclusive for what is asked for); `NextLock` is the order of `resource_lock_sort_key`; `Valid` is
`_validate_mutation_locks`; `Commit` is what `_finish_mutation` wrote. Time is nondeterministic: a lock or a session
may pass its 45 seconds at any moment (`Expire`, `GoStale`), so no property depends on a clock.

### 2.3 ChangeFeed: what the client shows

*Threads.* The worker (`WorkerStep`: session start, polls, own writes), the UI thread (`UiStep`: projections, the
checkpoint, the bid that is shown), the navigation thread (`NavigationStep`: versions, then data, then the result), other
sessions (`ServerStep`) and the user. The database is its history `log`; a row version is the position of the last change
of a bid, what is shown is the position of the snapshot it was read from. So "the screen lacks a change" is a comparison
of positions (`Missed`), and the token cache can be ahead of or behind what is shown, as in the code.

`Fetch` and `Deliver` separate a query from the dispatch of its result. `HandleBatch` is `_on_remote_batch` up to an open
barrier and `FinishBatch` is the barrier's completion, with navigation free to run in between. `ScopeFree` is the token
service's `mutation_scope`, an RLock that a write holds from the choice of its base to its result.

### 2.4 MutationOutcomes: what the write path promises

Only `fate` and `told`: the fate of a mutation is decided once, its caller may be told for a while that the fate is not
known and is given one final answer that agrees with it. `ImplementsOutcomes` in MutationPipeline states that the write
path implements this specification under the mapping `fate <- Fate`, which reads the fate off the server's transaction
and off what can no longer be executed. The promise is made to each caller: one step, such as a reset of the worker, may
answer several of them.

### 2.5 EditLeases: handles, drafts and locks

*Threads.* The UI (a modal dialog, which asks again after it saved, and a gesture of the plan view, which does not), the
worker of the database, another user. `registry` is `LocalDraftRegistry`; `leased` and `owned` are
`_DatabaseRuntime.draft_ids` and `owned_locks`; `edits`, `mutations` and `releases` are the three queues the worker
serves; `surface` is the session object of each surface (`ModalEditLeaseSession`: asking, shown, saving); `lock` is the
row of each resource on the server. `request_local_edit` is three steps: `Request` registers the draft, `TestSession` tests the
session under `runtime.lock`, and `Enqueue` puts the request into the queue under the coordinator's lock only, which no
reset takes; a submitted mutation is two (`Save` tests, `EnqueueMutation` queues). The worker may reset, or end, between
any two of them. `stranded` is history: requests that are queued when the worker has ended, or is about to and has
answered its queue (`LastReset`); nobody looks at them again, and `DraftsAreAccounted` and `AskIsAnswered` are stated for
all others. `Execute` is a mutation that consumes the lease; `Reset*` is `_clear_runtime_edits` with what it
answers. A mutation that is refused before it is queued (no journal, or a full queue) leaves its lease with nobody: the
submitting functions ignore the refusal, and the lease ends with the session. `strays` names those, and
`tests/presentation/services/test_modal_edit_lease_session.py:300` shows what a caller that does look at it does;
`LeaseHasAnEnd` is stated for all other leases.

### 2.6 The desktop: MdbConnections, TransactionMonitor, UndoHistory, PlanProjection

*MdbConnections.* `pool` holds the reader's and the writer's connection with what may be wrong with them ("bad", known to
be "marked", to be closed later "deferred", "behind" a commit, "stuck"); `lease` is a thread's nested lease of the path
with the connection it uses; `step` is where a thread is in the functions that let go of the manager's lock in between
(leasing, acknowledging, closing, evicting, maintaining). Leases, threads and failures are finite, so weak fairness of
what a thread has begun is enough for `CloseWriter` to happen.

*TransactionMonitor.* `worker` is the thread of each start, `stopFlag` and `isMonitoring` the fields two threads share,
`event` and `statusEvent` the Windows events that are open, `published` the last status told and `signals` the queued
signals. `Joined` and `JoinTimesOut` end `stop_monitoring`.

*UndoHistory.* `undo`, `redo` and `entryState` are the stacks, `forward` the edits begun and not finished, `generation`
the history's, `queue`, `results` and `uncertain` the mutations before, after and without an outcome. `strays` is
history: edits whose transition was reported when another entry had come on top, or that an older edit, recovered late,
drove out of a full stack. `CompleteEdit` is what the completions of the plan's edits do
(`plan_view_action_handler.py:1166-1183` and its like): the entry is pushed only if the pages the edit was made on are
still the same objects, the edit is finished in any case. `ReplacePages` is another own commit, as of page settings, whose
rows replace pages without clearing the history; `replaced` is history: the edits under way that it touched.

*PlanProjection.* `batch` is the barriers with their registered and pending surfaces, `inFlight` and `waiting` the two
places of each pipeline, `updates` the generation of a surface's requests, `shown` the version it shows. Preparation
works on a copy and is no step; a thread that cannot be started is a failed preparation.

*Desktop* composes the four: an action of one leaves the variables of the others alone, except that connections and monitor
share `step` (where a thread is) and `signals` (the queue of the main thread). Each has an operator `InitWith`, which says
how much work its behaviours may contain. Desktop's `Init` allows any amount for all of them, and is what the theorems are
about; MCDesktop's gives work to one group at a time.

### 2.7 DeferredWrites: the visibility of layers

A key stands for each layer and one for all layers. `book` is the manager and what it acts on: `pending` the item of each
key, `status` the revisions whose fate is kept in `_visual_states`, `restore` what a failed write would show again,
`shown` the UI, `db` the database and `queue` the mutation queue (SQL). `Complete` is `_complete_visual_revision` with
its two ends: `Reconciled`, when all writes of overlapping keys are over, and `Settled`. `Flushed` gives each pending item
its `Turn`, in the order of the changes, as `_flush_keys` does. `Newer` is `reproject_newer_layer_visual_revisions`,
which shows newer changes again over the rows a commit brought.

### 2.8 AiChangesets: proposals of a client

`Plan` reads the page on the main thread, `Add` is the worker that records the proposal with the tokens it takes then,
`Revise` and `Discard` are the client's, `Settle`, `Accept` and `CloseReview` the user's in the review dialog, `review`
what that dialog shows. `page` is the content the tokens are computed from: the scale, the user's drawing, and what each
changeset made. A changeset is undone by Edit > Undo, where it is an entry of the history (`HistoryUndo`), or by the
client (`PipeUndo`), which takes the entry away. `before`, `displayed` and `agreed` are history.

### 2.9 Module list

| Module | Role |
|---|---|
| `MutationPipeline`, `CollaborationStore`, `ChangeFeed`, `EditLeases` | SQL collaboration: specifications and properties |
| `MutationOutcomes` | abstract specification of the write path |
| `MdbConnections`, `TransactionMonitor`, `UndoHistory`, `PlanProjection` | services of the desktop |
| `DeferredWrites`, `AiChangesets` | changes made on the main thread |
| `MCMutationPipeline`, `MCCollaborationStore`, `MCChangeFeed`, `MCEditLeases` | symmetry sets, the lock order and the requests of the small instances |
| `MCLiveness` | MutationPipeline and CollaborationStore under fairness |
| `Desktop` | the composition of the services of the desktop, and their properties |
| `MCDesktop` | initial states of Desktop for its small instances |
| `MainThread` | the composition of DeferredWrites and AiChangesets |
| `MCMainThread` | MainThread with the steps of one part at a time, and its symmetry set |
| `MutationPipelineProofs` | types, true verdicts and cancellations; one answer, no forgotten commit, drains, MutationOutcomes implemented |
| `CollaborationStoreProofs` | types; leases, updates, absence, waits, markers |
| `ChangeFeedProofs` | types; the checkpoint, what is shown |
| `EditLeasesProofs` | types, one editor, drafts accounted, handles backed, leases end |
| `AiChangesetsProofs` | what is applied, what the history offers, what undo takes away |
| `DeferredWritesProofs` | types; nothing left behind, intent stored |
| `MainThreadProofs` | MainThread implements its two parts and keeps what they promise |
| `DesktopProofs` | types; connections, the monitor, projection; undo |

Definitions headed "Mutant:" are mutated forms of the definition after them. No specification uses them; they exist to
show that each property notices a plausible error in the code.

## 3. Runs

| Run (configuration) | Instance | Distinct states | Question |
|---|---|---|---|
| `mutation_pipeline` (MCMutationPipeline.cfg) | 2 critical mutations, queue of 1, 2 faults, 2 runtimes | 4,149,095 | are verdicts true and unique, do cancellations hold, is no commit forgotten, does a drain wait, is MutationOutcomes implemented? |
| `write_liveness` (MCLiveness.cfg) | 1 mutation, 3 faults; and 2 sessions, no grant | 420,043 | is every unknown outcome resolved, unless recovery needs the user? does every transaction end although no lock wait times out? |
| `collaboration_leases` (MCCollaborationLeases.cfg) | 2 sessions, a bid and an item, 1 operation, 2 grants | 1,565,176 | do edit locks exclude, can lock waits form a circle, does "not found" stay true? |
| `collaboration_writes` (MCCollaborationWrites.cfg) | 2 sessions, 2 operations, 1 grant | 2,263,993 | is an update lost, or an operation applied twice? |
| `change_feed` (MCChangeFeed.cfg) | 2 bids, 2 changes, 2 navigations, batches of 1, no fault | 1,107,596 | does the checkpoint pass, or the screen lose, a change of another session? |
| `change_feed_recovery` (MCChangeFeedLive.cfg) | 1 bid, 2 changes, 1 navigation, 1 fault | 292,579 | does the client catch up through resets, failed projections and trimmed history? |
| `edit_leases` (MCEditLeases.cfg) | a dialog and a gesture, 2 resources, 2 requests each, 1 fault | 388,433 | is what is edited locked, has every draft and lease an owner, is every request answered and every lease given back? |
| `desktop` (MCDesktop.cfg) | 2 threads, 2 starts of the monitor; 3 edits and 2 failures; 2 surfaces and up to 3 batches | 301,127 | do blocks, maintenance and evictions hold and end, does undo offer the last edit, is a batch shown that is acknowledged? |
| `main_thread` (MCMainThread.cfg) | 2 layers, 3 changes, 1 act of another; a scale and an element, 2 bids, 2 revisions, 2 edits | 2,045,200 | is anything left behind or lost by deferred writes? is what is applied what was reviewed, and undone exactly? |
| `drain_queue` (MCDrainQueue.cfg) | 1 mutation, 1 fault | violated | finding 1 |
| `bid_deletion` (MCDeletion.cfg) | 2 sessions, a bid and an item | violated | finding 2 |
| `stale_navigation` (MCStaleNavigation.cfg) | 1 bid, 3 changes, 1 navigation, no fault | violated | finding 3 |

*Why the bounds are enough.* Two mutations are what it takes for one to wait in the queue (capacity 1) while the other
executes, and for one's verdict to be confused with the other's; two faults are a loss followed by a failure of the
recovery from it, and two runtimes are a result that outlives its database or a crash with a restart. Two sessions and
two resources are enough for every conflict of lock modes and for a circle of waits; a third session adds waiters in the
same order; the proofs of section 5 remove these bounds for all safety properties. In ChangeFeed two bids let a batch
concern the bid shown or another one; a limit of 1 with two changes makes a batch end below the high water; two
navigations let a bid be replaced by another or by itself, between any two steps of a batch. A fault beside two bids is
left to `change_feed_recovery` with one, because the instance with both exceeds what a run should cost; the theorems about
`CheckpointCoversOthers` and `FeedNeverGoesBack` have both. In EditLeases the
two surfaces ask for overlapping and for disjoint resources, with and without a dependency between them, and twice, so
that a handle of the first request meets the second. In the desktop three edits fill a history of two; two starts meet a
monitor that outlived its stop; four leases nest and compete with maintenance and a block. Three changes of two layers
and of all of them give every overlap of an older, a younger and a bulk change in every order of results; a fourth
exceeds what a run should cost. A scale and an element, with two bids, give every order of
two applied changesets and a switch of the bid in between.

MCLiveness, MCDesktop and MCMainThread put several instances side by side: a behaviour has the steps of one of them (of
one group in MCDesktop), and the others stay in their initial states, so that state spaces add up. The first group of MCDesktop is connections and
monitor, which interact; the theorems about Desktop and MainThread hold of all parts at work together.

`CHECK_DEADLOCK FALSE` stands in every configuration: users may stop acting, the bounded counters run out, and a database
may be detached for good; none of these is an error. Waiting for each other is the subject of `NoCircularWait` and
`TransactionsEnd`. Symmetry is used in safety runs only.

## 4. Fairness

* MutationPipeline: weak fairness of the UI's handlers, of the worker's steps and of the server's resolution of a
  transaction whose client is gone. The first is Qt's event loop, the second the thread scheduler (every wait of the
  worker has a timeout), the third SQL Server, which rolls back what a broken connection leaves. Nothing is assumed of
  the user, so `UnresolvedIsResolved` ends in `NeedsUser` when the one automatic recovery is used up
  (`resume_controlled_recovery`), or the database is closed. Faults are not fair.
* CollaborationStore: weak fairness of what a transaction does when it holds its locks and of the rollback of a lost one;
  strong fairness of taking a lock, since SQL Server queues the waiters of a lock. Nothing is assumed of the timeout of a
  lock wait: `TransactionsEnd` holds because the locks are taken in one order, not because waits time out.
* MCLiveness states the two fairness conditions above for the instance that takes the steps. Sessions are
  interchangeable, so `TransactionsEnd` watches one of them.
* ChangeFeed: weak fairness of the worker and of the UI. Navigation, users, other sessions and faults owe nothing.
* EditLeases: weak fairness of the main thread's handling of messages (`Answer`) and of the worker. A surface that is
  shown may stay open for ever; `LeaseIsGivenBack` speaks of leases no surface uses.
* MdbConnections: weak fairness of a thread that has begun something (`Finish`), and of the main thread's handling of
  signals with the closing it leads to. TransactionMonitor: of its threads and of the end of a join, which has a timeout.
  PlanProjection: of the completion of a preparation. The user, On-Screen Takeoff and failures owe nothing.
* DeferredWrites, AiChangesets and UndoHistory have no liveness property: their properties speak of the moments when
  nothing is under way.

## 5. Proofs

All theorems are checked by TLAPS for every value of the constants under the assumptions stated next to them in the
specifications: `OpsAssumption`, `CriticalAssumption`, `BoundsAssumption` (MutationPipeline); `NamesAssumption`,
`RankAssumption`, `TokensAssumption` (CollaborationStore); `NoBidAssumption`, `LimitAssumption`, `BoundsAssumption`
(ChangeFeed); `SurfacesAssumption`, `BoundsAssumption`, `NamesAssumption` (EditLeases); `ThreadsAssumption`,
`NoneAssumption`, `PagesAssumption`, `BoundsAssumption` (Desktop); `ClosedAssumption`, `BoundsAssumption` (AiChangesets);
`WritesAssumption` (DeferredWrites: finitely many layers, none of which is the key of all). They say that names of "nothing"
differ from real names, bounds are numbers, a batch has room for a transaction, the lock order is injective and puts the
bid first, every request wants something, the main thread is one of the threads. The bounds on faults, changes and navigations are any numbers, so a theorem
speaks of behaviours of any length.

Every safety property that a passing run checks is a theorem. `TypeCorrect` of a specification is `Spec => []TypeOK`,
one lemma for each group of actions, one step for each action. Helpers that build messages, runtimes and transactions have lemmas of their own. None of the properties is inductive as
it stands. What has to be added, and why:

*MutationPipeline.*

* `VerdictsCorrect` (`VerdictsAreTrue`): a false answer could already be on its way. `VerdictInv` adds `Placed` (an
  operation is in one place: being submitted, queued once, held by the worker, or finished; and the server's transaction
  fits that place) and `Answered` (every message in the inbox, every recovered operation and every verdict is true, and
  is about an operation that will not run again). `StableStep` shows that what is finished stays finished and what
  committed stays committed, so a step has to justify only the messages and verdicts it adds (`AnsweredJustified`).
* `CancellationCorrect` (`CancelledNeverRuns`): `Cancelled` says that a cancelled operation which is still queued or in
  the worker's hands is still in `rt.cancelled`, and that QUEUED in the registry means it was not admitted; the proof
  goes through `Admit`, where both threads meet.
* `OneVerdictCorrect`, `CommitReachesCallerCorrect`, `CommitIsJournaledCorrect`, `UncertainIsRegisteredCorrect` and
  `DrainWaitsCorrect` follow from `OutcomeInv`. An operation that is reported twice could be answered twice, and a report
  that arrives after the recovery could keep a callback nobody will call. So `OutcomeInv` adds the order of the messages:
  they are of this session or an earlier one (`Dated`), the start of a session is the last message and the worker waits
  for it (`SignalsLast`, `Waiting`), and the first message about an operation is its report (`ReportsFirst`); and the
  account of each operation (`AccountOf`): what has an open transaction is held or uncertain, what committed was answered
  or somebody registered still has the answer, and both are in the journal. `OneAnswer` counts the final answer once and
  says that no other is on its way; `KeptForLost` that a kept callback's report says only that its fate is unknown.
* `OutcomesImplemented` (`ImplementsOutcomes`): with `OutcomeInv`, every step is a step of `MutationOutcomes` or a
  stutter, under the mapping in MutationPipeline.

*CollaborationStore.*

* `LeasesCorrect`, `UpdatesCorrect`, `AbsenceCorrect` (`LeasesExclude`, `NoLostUpdate`, `AbsentStaysAbsent`): the code
  checks locks and versions before the statements run and never again. Why that is enough is `IInv`: a transaction past
  its checks holds the application locks of everything it checked (`HeldAsWanted`, `Exclusive`, `PastHolds`), so no grant
  and no commit of another session changes what it found (`PastExcludes`, `PastCurrent`); and the operation's own lock
  (`OneHolder`, `HeldIsOpen`) keeps a query from answering while the operation may still commit.
* `WaitsCorrect` (`NoCircularWait`): `RankedHeld` says that whatever a waiting transaction holds comes before all it
  misses. In a circle the session whose wanted lock has the highest rank (which exists by `HeldBounded`; the number of
  sessions need not be finite) waits for one that holds this lock and waits for a still higher one.
* `MarkersCorrect` (`VersionsMatchMarkers`): `Counted` says that finitely many operations changed a resource; the version
  is their number, because a commit's marker is new.

*ChangeFeed.*

* `CheckpointCorrect` (`CheckpointCoversOthers`) and `FeedCorrect` (`FeedNeverGoesBack`) follow from `FeedInv`. The
  checkpoint moves to where a batch ends long after the batch was read; by then a navigation may have shown a bid read
  earlier, or a write may have been read back later. `Known` carries the first case: while a session lasts, the cached
  version of a loaded bid is no older than any change of another session that was *reached*, that is, passed by the
  checkpoint or in the batch whose barrier is open; so `bid_versions_are_current` lets no bid pass that lacks one
  (`Covered`). That batches set the cache to their own, possibly older, versions is harmless because at most one batch of
  a session is under way and starts at the checkpoint (`Arriving`, `Open`). The second case is the order of messages
  (`Ordered`): snapshots never decrease, and a result read back is newer than all that was reached before (`ReadingBack`).
  `Past` says that a message that names the load shown is of a snapshot no older than it, which a new navigation cannot
  break since its number is new. `Course` ties these to where the worker is.

*EditLeases.*

* `EditorsCorrect`, `DraftsCorrect` and `HandlesCorrect` (`OneEditor`, `DraftsAreAccounted`, `HandleIsBacked`):
  `OneEditor` speaks of leases only, but two drafts could be queued that overlap; `Books` says that registered drafts do
  not overlap and that each is leased or queued, and never both. `Deserted` says that what is queued when no reset is to
  come is stranded: the last reset empties the queue of requests, and what comes later was tested before it. `Promised`
  ties a positive test to the one step that may follow it, so that no other act of the main thread comes between. `HandleIsBacked` needs more: a handle is given by a
  message that was sent when the lease was taken. `Handles` follows a draft from the queue through the grant to the
  surface and says it is never in two of these places (`Stages`), that the worker's owned locks are those of its leases
  (`Owners`), and that every draft a surface shows or is granted is leased or announced as lost (`Backed`).
* `LeasesCorrect` (`LeaseHasAnEnd`): a release that is asked for could be refused on the way. `EndInv` shows that it is
  not: while leases exist the session is the one the main thread has answered (`Course`), so its drafts are active and its
  worker executes (`Working`) unless a reset is due; and no surface is told of the loss of a draft that is still leased
  (`LostIsGone`).

*Desktop.* `ServicesInv` is the conjunction of an invariant for each service, and `ServicesNext` shows that a step of one
leaves those of the others alone (`AccessStays`, `PlanStays`, `AccessLeavesMonitor`, `MonitorLeavesAccess`).

* `BlockingCorrect`, `ReadsCorrect`, `EvictionCorrect` and `MaintenanceCorrect` (`BlockedMeansClosed`, `ReadsSeeCommits`,
  `UnusableIsEvicted`, `MaintenanceExcludes`) need each other, in `AccessInv`. `Locking`: at most one thread holds the lock
  of the path, and what it leased is pooled, so a connection is not closed under another thread. `Upkeep`: maintenance
  is announced before connections are closed, and while it lasts none is leased or opened. `Announced`: a reader that is
  behind is stuck, or not used for reading, or the thread that committed is still about to say so; what it committed
  stays recorded in its lease through all nested ones.
* `MonitorCorrect` (`OneMonitor`): a second monitor could start while the first is still stopping. `OneAlive` adds
  that `isMonitoring`, which refuses a start, is set as long as a thread runs, also after a join that timed out.
* `ProjectionCorrect` (`VerdictIsTrue`) and `ShownCorrect` (`ShownNeverGoesBack`): a surface takes its token from a barrier
  when an update that covers the batch was shown, but updates are coalesced, superseded, and prepared from copies.
  `Truthful` says that a registered surface that is no longer pending for a batch shows it, unless the barrier failed;
  `UpToDate` that an update reports only for batches its data have taken in, and is no older than what its surface shows
  if nothing overtook it; `Updated` that this holds of the update in flight and of the one that waits, which is younger.
* `LastEditCorrect` and `StacksCorrect` (`UndoIsLastEdit`, `StacksTellTheTruth`): reports come back out of order, twice, or
  when a session starts, and none says what the database holds by then. `UndoInv` treats the queue, the results and
  what is uncertain as one bag of jobs. `Once`: no two of its known reports are about one edit, or about transitions, of
  the current generation, and an unknown one is followed by another; so the report that is handled is the last word.
  `Truthfully`: a current report agrees with the database at the time it is handled. `Awaited`: an edit that is reported is
  unfinished, and an entry in transition cannot be chosen again and stays where it was. `Numbered`: jobs of an
  earlier generation are older than every edit the history remembers, so that what they still do to the database is
  about no entry. `Stacked`: undo is rising, redo falling and above it, and both together fit one stack, which lets an entry move
  without anything being dropped. `Settled` is `StacksTellTheTruth` for entries about which nothing is under way. `Younger`
  and `Oldest` give `UndoIsLastEdit`: what the database holds beyond an entry is remembered or was dropped,
  unless its pages were replaced, and what was dropped is older than what is left.

*AiChangesets* (`ReviewCorrect`, `HistoryCorrect`, `UndoExactCorrect`: `ReviewedIsApplied`, `HistoryIsTrue`,
`UndoIsExact`). The client revises a proposal while its dialog is open, so what is on display may be out of date.
`Reviewed` says that a dialog is of an earlier revision or shows the assumptions as they are, and that what is settled
has the value the user agreed to; a revision keeps the first by its number and the second by taking the settlement back.
`Stacked` is `HistoryIsTrue` itself, which is inductive. `Recorded` says that the record of an applied changeset is what
applying it made of the page its base tokens are of, provided its bid was open as it was recorded; the comparison before
an undo then leaves only the page as it was. `Closed` is no digest of a content (`ClosedAssumption`): else the record of a
page could equal the token of a bid that is not open. `Typed` is the type of the variables without the bound on the
revisions, which is a fold over all changesets.

*DeferredWrites.* The invariant is `DWTypeOK /\ Structure /\ Intent`. A flush is one step of the specification and any
number of turns, so `Structure` and `Faithful` are conjunctions of predicates of a book; that each turn keeps them
(`Stage`) gives them for the whole flush, since no turn can be the first to break them (`FlushSteps`, `UpTo`).

* `NothingLeftCorrect` (`NothingIsLeftBehind`): a key's state is kept while *connected* keys have open writes, and which
  keys are connected changes as states come and go. `Structure` says what each state is kept for: it has a pending item
  or a connected open write (`KeptForWrite`; between two steps of an Access database only the former, `KeptForRetry`); an
  open write is pending, in the queue, answered or being projected (`OpenHasResult`); what is pending is of its own key and
  no result of it is on its way (`PendingIsOwn`), so a result cannot end the state of a change that replaced it; and the
  scope of a state takes in those of its changes (`ScopesNest`), so connection is symmetric where it matters. When all is
  quiet, nothing is left that a state could be kept for.
* `IntentCorrect` (`IntentIsStored`): a commit shows the rows of all layers, so each result may show an older value over a
  newer one until `Newer` or `Complete` shows the newer again. Without faults, `Faithful` says that writes leave in the
  order of the changes (`WritesInOrder`), that results and projections come in that order and the last has the rows of the
  database (`ResultsInOrder`), that the newest change of a layer that is written is what the database has
  (`NewestIsStored`), and that such a layer is shown as it is stored as soon as no result is on its way (`StoredIsShown`);
  in Access, that the newest change is what the user asked for, is shown, and is stored once written (`NewestIsWanted`).
  TLC checked the whole invariant on the layers of `main_thread` before it was proved.
* Two definitions were corrected because their proofs did not go through: `DiscardTerminal` returns early if the key has no
  state, as `_discard_terminal_visual_state` does, and `Saved` treats a pending item whose state was invalidated like a key
  of its own, as `_save_or_queue_page_setting` does.

*MainThread.* `PartsAreImplemented`: each behaviour is one of DeferredWrites and one of AiChangesets, because a step of one
leaves the variables of the other. `MainThreadCorrect` carries the five theorems over to the composition, in which both are at
work in any order; the run `main_thread` has the behaviours in which one of them is.

Only model-checked: all liveness (`UnresolvedIsResolved`, `TransactionsEnd`, `CatchesUp`, `AskIsAnswered`,
`LeaseIsGivenBack`, `BlockIsLifted`, `EveryBatchEnds`) and what uses ENABLED, which are outside TLAPS here. For the
modules without a type theorem TLC evaluates the specification on every state it reaches.

## 6. Findings and observations

1. *A drain that succeeds leaves a mutation behind* (`drain_queue`). `_reset_session` rejects the queue before it takes
   the session away. A mutation accepted in between stays queued; the next session start finds no marker for it and
   removes its record and registry entry. A drain then has nothing to wait for, and the mutation's callback is never
   called.
2. *A bid is deleted under an editor* (`bid_deletion`). A deletion locks the bid and looks for edit locks of items; a lock
   request for an item takes only the item's application lock, so it can be granted between that look and the commit.
3. *A navigation shows a bid without an own change* (`stale_navigation`). `apply_remote_changes` sets cached versions to
   those of delivered changes even if the cache is ahead, since a batch omits the session's own changes. A bid read
   before the own change then passes `bid_versions_are_current`. For the same reason the next write may expect a version
   older than the session's own last write, and the server refuses it as if another session had changed the item. No
   fault is needed: two sessions, one bid, and the usual delay of the feed. `CheckpointCoversOthers`, which holds, says
   how far the damage goes: only own changes can be missing.

While modelling, the following was seen as well. No run shows it; where a property supposes that it does not happen, the
supposition is named.

* *Coalesced changes of layers.* `update_all_layers_visibility_deferred` names only the layers that show something else,
  and a pending change of all layers is replaced by the next one. Hide all, show one layer and hide all again before
  anything is written: the second change names that one layer, and the others, shown as hidden, stay visible in the
  database. `IntentIsStored` supposes `~narrowed`; without it TLC finds this in four steps.
* *What failed writes restore.* A change records what the layer showed when it was made, which may be another change that
  is not written; when the state of that older change is discarded (`_discard_superseded_failed_layer_retries`) and
  the younger fails, a value is shown that was never stored. `IntentIsStored` supposes `~spoiled`.
* *Rows of a commit.* A commit of one layer shows the server's rows of all of them. `reproject_newer_layer_visual_revisions`
  shows a newer change again only for the layers the commit names: another layer whose change is queued is shown as it
  was, and a change of all layers made then leaves it out. `IntentIsStored` claims agreement with the user's last wish for
  Access only; for SQL it claims that the screen shows what the database has.
* *Changes of others.* A state of a layer whose write failed can outlive a remote change that invalidated the state of all
  layers; `NothingIsLeftBehind` is stated for behaviours without changes of others.
* *Freshness of a proposal.* README.md:468-469 says that a changeset is refused if a page it touches has changed since it
  was proposed. The proposal reads the page on the main thread, the tokens are taken when the worker records it; a change
  in between is part of the tokens and not noticed at approval. `UndoIsExact` supposes `RecordedInTime`.
* *Undo.* A transition that is recovered after another edit was pushed leaves its entry READY although it is undone, and
  an older edit that is recovered late drives a newer one out of a full stack, because `_push_entry` drops the bottom
  before the entry is bound. `strays` names both, and `UndoIsLastEdit` and `StacksTellTheTruth` are stated for the rest.
* *The monitor.* After a stop that timed out and whose thread ends later, or when events are lost while On-Screen Takeoff
  is offline, the state stays CONNECTED, and connecting while On-Screen Takeoff is online does not publish a status:
  writes are not blocked then. `tests/infrastructure/monitoring/test_transaction_monitor.py` (about line 1625, "Decision
  D2") takes this as decided. A status event that cannot be opened at connection is never opened again.
* *Replaced pages.* An own commit that replaces pages (`replace_remote_bid_families` and its `set_pages`, as for page
  settings) leaves the undo history as it is. An edit of such a page that was under way commits without an entry, so undo
  then offers the edit before it. `tests/presentation/handlers/test_plan_view_action_handler.py:13650`
  (`test_a_commit_on_a_replaced_page_records_no_history`) takes the missing entry as decided; `UndoIsLastEdit` excepts
  these edits.
* *A queue nobody serves.* A request that is found acceptable just before the worker fails for good is queued after the
  worker answered its queue for the last time. It is never answered, and its draft stays registered: a detach does not
  remove it, and a new start makes new queues, so requests that overlap it are refused until the process ends. A mutation
  in the same position is never reported, and its dialog waits. `stranded` names the requests.
* *Refused mutations.* See section 2.5.

## 7. Abstractions and what is not modelled

* MutationPipeline: one database; operations without contents; the heartbeat, leases and release requests of the worker
  are left out; a journal file that cannot be *removed*, a malformed journal and a worker join that times out are left
  out (a journal that cannot be written is `SubmitUnrecorded`, `RecordExecuting` and `SettleFailure`); every sync state
  other than HEALTHY and CONFLICTED is OFFLINE. A runtime is started only after the worker of the last one ended.
* CollaborationStore: one bid and its items; the contents of rows are their versions; a bid's active editor, job status
  locks, the record limit of a batch and the statements of each operation are left out. Transactions that only read are
  single steps.
* ChangeFeed: one resource for each bid, so families of resources and partial reloads are one version; a batch is
  projected as a whole; a navigation starts when the last one ended, whereas the service can hold one more request; a
  write is executed without MutationPipeline's queue; drafts appear as a conflict that waits for the user. Versions that
  are loaded for a write while the screen shows older data are modelled, but whether the write overwrites what its user
  never saw would need the data each write was based on.
* EditLeases: drafts that are discarded from the conflict dialog, the presence mode and the cancellation of a mutation are
  left out; a changed selection is a grant followed by a close; the limit of one recovery attempt is in ChangeFeed.
* MdbConnections: one path; maintenance may be running when a block begins; `close()` at the exit of the process is left
  out. TransactionMonitor: messages shown to the user are left out. UndoHistory: an exception of a submission is left
  out, edits of an Access database, which are synchronous, too.
* PlanProjection: two kinds of surfaces; the versions of the data are numbers of batches.
* DeferredWrites: the layers of one bid; page settings, which use the same functions with one key each, view states and
  the selected page, navigation to another bid, and other edits of layers are left out; a write that raises is a write
  that fails.
* AiChangesets: Access databases, because changesets are refused for SQL; geometry, conditions that exist already,
  positions, the user's own entries of the history and its maximal size, a reload that fails after the commit, and checks
  of access are left out; all ends of a changeset that is not applied are one status; one page for each bid.
* Licensing is not modelled: its state is one record that a scheduler's thread and the user replace, and what a late
  answer does depends on the answers of a server that is not part of the repository.
* Sequential computation is not modelled: geometry, parsers and row mapping have no state between calls, and their
  results need references that only a second implementation would give. Neither is drawing, dialog layout, native code,
  the installer, or the administration of the SQL schema, which one administrator runs by hand. Most lines of the program
  are of this kind, and so the map covers a small part of all lines.
