---------------------------- MODULE DeferredWrites ----------------------------
(***************************************************************************)
(* The visibility of the layers of the bid that is open                    *)
(* (presentation/managers/deferred_persistence_manager.py, and the         *)
(* functions of presentation/coordinators/ui_event_coordinator.py that use *)
(* it). A change is shown at once and written after a delay: to Access in  *)
(* the same step, where a write that fails is tried again; to SQL through  *)
(* the mutation queue, whose results arrive later and not always in the    *)
(* order of the writes. One key stands for each layer and one for "all     *)
(* layers"; what is shown while several writes of overlapping keys are     *)
(* open, and what is restored when they fail, is the manager's task.       *)
(***************************************************************************)
EXTENDS Integers, Sequences, FiniteSets, FiniteSetsExt

CONSTANTS
  Layers,        \* layers of the bid
  All,           \* the key of ALL_LAYERS_SHOW_KIND
  Kinds,         \* which databases are opened: TRUE for SQL, FALSE for Access
  MaxRevisions,  \* bound: changes of the user
  MaxOthers      \* bound: changes of others and lost sessions

LayersAssumption ==
  /\ All \notin Layers
  /\ IsFiniteSet(Layers)
  /\ Kinds \subseteq BOOLEAN
  /\ MaxRevisions \in Nat
  /\ MaxOthers \in Nat

ASSUME WritesAssumption == LayersAssumption

Keys == Layers \cup {All}
Revisions == 1..MaxRevisions

VARIABLES
  sql,           \* the database uses the mutation queue
  made,          \* the visual revisions, in order: [key, scope, show]
  book,          \* the manager and what it acts on, see DWTypeOK
  messages,      \* results and batches on their way to the main thread
  projecting,    \* committed revisions whose projection is not complete
  closing,       \* _shutdown_started
  wanted,        \* history: [Layers -> what the user asked for last]
  spoiled,       \* history: something was refused, lost or changed by another
  narrowed,      \* history: a pending change was replaced by one of fewer layers
  others         \* changes of others and lost sessions so far

dwVars == <<sql, made, book, messages, projecting, closing, wanted, spoiled, narrowed, others>>

\* status: [revision -> terminal_success], "gone" before and after its state is kept; pending: _pending;
\* restore and origin: restore_authoritative, as pairs of a layer and what it showed,
\* resource_uids (the layers in it) and origin_revision of the keys in _visual_states; shown: what the UI shows; db: the
\* database; queue: the revisions in the mutation queue.
Books ==
  [status : [Revisions -> {"open", "done", "failed", "gone"}],
   pending : [Keys -> {0} \cup DOMAIN made],
   restore : [Keys -> SUBSET (Layers \X BOOLEAN)],
   origin : [Keys -> {0} \cup DOMAIN made],
   shown : [Layers -> BOOLEAN],
   db : [Layers -> BOOLEAN],
   queue : Seq(DOMAIN made)]

Messages ==
  [kind : {"committed"}, rev : DOMAIN made, rows : [Layers -> BOOLEAN]]
    \cup [kind : {"rejected"}, rev : DOMAIN made]
    \cup [kind : {"remote"}, layer : Layers, rows : [Layers -> BOOLEAN]]

DWTypeOK ==
  /\ sql \in Kinds
  /\ made \in Seq([key : Keys, scope : SUBSET Layers, show : BOOLEAN])
  /\ Len(made) <= MaxRevisions
  /\ book \in Books
  /\ messages \in Seq(Messages)
  /\ projecting \subseteq DOMAIN made
  /\ wanted \in [Layers -> BOOLEAN]
  /\ {closing, spoiled, narrowed} \subseteq BOOLEAN
  /\ others \in 0..MaxOthers

DWInit ==
  /\ sql \in Kinds
  /\ made = <<>>
  /\ \E stored \in [Layers -> BOOLEAN] :
       /\ book = [status |-> [r \in Revisions |-> "gone"], pending |-> [k \in Keys |-> 0],
                  restore |-> [k \in Keys |-> {}], origin |-> [k \in Keys |-> 0],
                  shown |-> stored, db |-> stored, queue |-> <<>>]
       /\ wanted = stored
  /\ messages = <<>>
  /\ projecting = {}
  /\ closing = FALSE
  /\ spoiled = FALSE
  /\ narrowed = FALSE
  /\ others = 0

-----------------------------------------------------------------------------
(* The states of the keys. m is a book.                                    *)

Revs(m, k) == {r \in DOMAIN made : made[r].key = k /\ m.status[r] # "gone"}
Viable(m, k) == {r \in Revs(m, k) : m.status[r] # "failed"}
Exists(m, k) == Revs(m, k) # {}
Scope(m, k) == {p[1] : p \in m.restore[k]}
IsOpen(m, k) == \E r \in Revs(m, k) : m.status[r] = "open"
HasFailed(m, r) == r # 0 /\ m.status[r] = "failed"

\* The state of the key is popped from _visual_states.
Drop(m, ks) ==
  [m EXCEPT !.status = [r \in Revisions |->
              IF \E k \in ks : r \in Revs(m, k) THEN "gone" ELSE @[r]],
            !.restore = [k \in Keys |-> IF k \in ks THEN {} ELSE @[k]],
            !.origin = [k \in Keys |-> IF k \in ks THEN 0 ELSE @[k]]]

\* project_value of each of the revisions, the oldest first.
Project(m, rs) ==
  [m EXCEPT !.shown = [l \in Layers |->
     LET mine == {r \in rs : l \in made[r].scope}
     IN  IF mine = {} THEN @[l] ELSE made[Max(mine)].show]]

\* restore_authoritative of each of the keys, the oldest state last.
Restored(m, ks) ==
  [m EXCEPT !.shown = [l \in Layers |->
     LET mine == {k \in ks : l \in Scope(m, k)}
         oldest == CHOOSE k \in mine : \A j \in mine : m.origin[k] <= m.origin[j]
     IN  IF mine = {} THEN @[l] ELSE <<l, TRUE>> \in m.restore[oldest]]]

\* _connected_layer_visual_states: scopes of layers meet only in the one of all.
Connected(m, k) ==
  IF k = All \/ k \in Scope(m, All)
  THEN {All} \cup {l \in Scope(m, All) : Exists(m, l)}
  ELSE {k}

OtherOpen(m, k) == \E j \in Connected(m, k) \ {k} : IsOpen(m, j)

\* _project_individual_layer_revisions_after, together with the baseline.
After(m, base, layers) ==
  {base} \cup {Max({r \in Viable(m, l) : r > base}) :
                 l \in {l \in layers : \E r \in Viable(m, l) : r > base}}

\* What is shown of a key, of which base is the newest revision that counts.
ShowFrom(m, k, base) == Project(m, IF k = All THEN After(m, base, Scope(m, k)) ELSE {base})

\* _reconcile_completed_layer_visual_states, once all connected writes are over.
Reconciled(m, k) ==
  LET ks == Connected(m, k)
      rs == UNION {Revs(m, j) : j \in ks}
      done == {r \in rs : m.status[r] = "done"}
      shown == Project(IF \E r \in rs : m.status[r] = "failed" THEN Restored(m, ks) ELSE m,
                       done)
      Superseded(j) == /\ HasFailed(m, m.pending[j])
                       /\ \E r \in done : /\ r > m.pending[j]
                                          /\ made[r].scope \cap made[m.pending[j]].scope # {}
      ending == {j \in ks : ~HasFailed(m, m.pending[j]) \/ Superseded(j)}
  IN  Drop([shown EXCEPT !.pending = [j \in Keys |->
              IF j \in ks /\ Superseded(j) THEN 0 ELSE @[j]]], ending)

\* The rest of _complete_visual_revision: the key of a layer is alone, or a write of the
\* key or of one connected with it is open.
Settled(m, k, r) ==
  LET newer == {q \in Viable(m, k) \cup
                      (IF k \in Scope(m, All) THEN Viable(m, All) ELSE {}) : q > r}
      done == {q \in Revs(m, k) : m.status[q] = "done"}
      End(n, retain) == Drop(n, IF retain \/ OtherOpen(m, k) THEN {} ELSE {k})
  IN  IF k # All /\ newer # {}
      THEN End(ShowFrom(m, made[Max(newer)].key, Max(newer)), IsOpen(m, k))
      ELSE IF IsOpen(m, k) THEN ShowFrom(m, k, Max(Viable(m, k)))
      ELSE IF done # {} THEN End(ShowFrom(m, k, Max(done)), FALSE)
      ELSE End(Project(Restored(m, {k}),
                       IF k = All THEN After(m, r, Scope(m, k)) \ {r} ELSE {}),
               m.pending[k] = r)

\* _complete_visual_revision
Complete(m, r, success) ==
  LET k == made[r].key
      n == [m EXCEPT !.status[r] = IF success THEN "done" ELSE "failed"]
      ks == Connected(n, k)
  IN  IF m.status[r] # "open" THEN m
      ELSE IF (k = All \/ Cardinality(ks) > 1) /\ \A j \in ks : ~IsOpen(n, j)
      THEN Reconciled(n, k)
      ELSE Settled(n, k, r)

\* _discard_terminal_visual_state
DiscardTerminal(m, k) ==
  IF ~Exists(m, k) \/ \E j \in Connected(m, k) : IsOpen(m, j) THEN m ELSE Drop(m, Connected(m, k))

-----------------------------------------------------------------------------
(* A change of the user. *)

\* _discard_superseded_failed_layer_retries: failed writes of other keys that wait for
\* a retry and meet the scope of the new one.
SupersededRetries(m, k, scope) ==
  {j \in Keys \ {k} : HasFailed(m, m.pending[j]) /\ Scope(m, j) \cap scope # {}}

\* _schedule_visual_setting of the revision Len(made) + 1.
Scheduled(k, scope) ==
  LET gone == SupersededRetries(book, k, scope)
      m == Drop([book EXCEPT !.pending = [j \in Keys |-> IF j \in gone THEN 0 ELSE @[j]]],
                gone)
      r == Len(made) + 1
      previous == m.pending[k]
  IN  [m EXCEPT
        !.status = [q \in Revisions |->
          IF q = previous THEN "gone" ELSE IF q = r THEN "open" ELSE @[q]],
        !.restore[k] = @ \cup {<<l, m.shown[l]>> : l \in scope \ Scope(m, k)},
        !.origin[k] = IF @ = 0 THEN r ELSE @,
        !.pending[k] = r]

Changes(k, scope, show) ==
  /\ ~closing
  /\ Len(made) < MaxRevisions
  /\ made' = Append(made, [key |-> k, scope |-> scope, show |-> show])
  /\ narrowed' = (narrowed \/ \E r \in DOMAIN made : /\ book.pending[k] = r
                                                   /\ ~(made[r].scope \subseteq scope))
  /\ UNCHANGED <<sql, messages, projecting, closing, spoiled, others>>

\* update_layer_visibility_deferred, from the layer's check box.
Toggle(l) ==
  LET show == ~book.shown[l] IN
  /\ Changes(l, {l}, show)
  /\ book' = [Scheduled(l, {l}) EXCEPT !.shown[l] = show]
  /\ wanted' = [wanted EXCEPT ![l] = show]

\* has_all_layers_show_revision
Unwritten(m) ==
  \E k \in Keys : m.pending[k] # 0 \/ IsOpen(m, k)

\* update_all_layers_visibility_deferred: the layers that show something else, or, while
\* changes are on their way, all of them.
ShowAll(show) ==
  LET changed == {l \in Layers : book.shown[l] # show}
      scope == IF changed # {} THEN changed ELSE Layers
  IN  /\ changed # {} \/ Unwritten(book)
      /\ Changes(All, scope, show)
      /\ book' = [Scheduled(All, scope) EXCEPT !.shown = [l \in Layers |-> show]]
      /\ wanted' = [l \in Layers |-> show]

-----------------------------------------------------------------------------
(* Writing what is pending. An outcome is "ok", "fails", or "blocked" if   *)
(* the database or the bid may not be written now.                         *)

Unpend(m, r) ==
  LET k == made[r].key IN [m EXCEPT !.pending[k] = IF @ = r THEN 0 ELSE @]

\* Mutant: the state is left as it is for a retry.
RefusedKept(m, r) == Unpend(Complete(m, r, FALSE), r)

\* _should_skip_expected_block in _execute_item; or the queue refuses the mutation
\* (_save_or_queue_page_setting).
Refused(m, r) == Unpend(DiscardTerminal(Complete(m, r, FALSE), made[r].key), r)

Queued(m, r) == Unpend([m EXCEPT !.queue = Append(@, r)], r)

Stored(m, r) == [m EXCEPT !.db = [l \in Layers |->
                   IF l \in made[r].scope THEN made[r].show ELSE @[l]]]

\* _save_or_queue_page_setting, the fallback succeeds.
Saved(m, r) ==
  LET k == made[r].key
      n == Stored(m, r)
      shared == Exists(m, k) /\ Cardinality(Connected(m, k)) > 1
  IN  Unpend(IF shared THEN Complete([n EXCEPT !.status[r] = "open"], r, TRUE)
             ELSE IF HasFailed(m, r) \/ ~Exists(m, k) THEN Project(Drop(n, {k}), {r})
             ELSE Drop(n, {k}), r)

Execute(m, r, outcome) ==
  CASE outcome = "blocked" -> Refused(m, r)
    [] sql /\ outcome = "ok" -> Queued(m, r)
    [] sql /\ outcome = "fails" -> Refused(m, r)
    [] ~sql /\ outcome = "ok" -> Saved(m, r)
    [] OTHER -> Complete(m, r, FALSE)

\* The turn of the revision r in _flush_keys; one that is not pending any more is passed over.
Turn(m, r, failing, blocked) ==
  IF m.pending[made[r].key] # r THEN m
  ELSE Execute(m, r, IF blocked THEN "blocked"
                     ELSE IF made[r].key \in failing THEN "fails" ELSE "ok")

\* Mutant: the changes of all layers are written first.
FlushedByKind(failing, blocked) ==
  LET after[n \in 0..2 * Len(made)] ==
        LET r == IF n > Len(made) THEN n - Len(made) ELSE n IN
        IF n = 0 THEN book
        ELSE IF n <= Len(made) /\ made[r].key # All THEN after[n - 1]
        ELSE Turn(after[n - 1], r, failing, blocked)
  IN  after[2 * Len(made)]

\* flush, with the keys of which the write fails: layer keys by revision.
Flushed(failing, blocked) ==
  LET after[n \in 0..Len(made)] ==
        IF n = 0 THEN book ELSE Turn(after[n - 1], n, failing, blocked)
  IN  after[Len(made)]

Pending(m) == {k \in Keys : m.pending[k] # 0}

\* The timer, flush_for_file.
Flush ==
  \E failing \in SUBSET Pending(book), blocked \in BOOLEAN :
    /\ ~closing /\ Pending(book) # {}
    /\ book' = Flushed(failing, blocked)
    /\ spoiled' = (spoiled \/ blocked \/ failing # {})
    /\ UNCHANGED <<sql, made, messages, projecting, closing, wanted, narrowed, others>>

\* prepare_shutdown: a write that fails keeps the program open.
PrepareShutdown ==
  \E failing \in SUBSET Pending(book), blocked \in BOOLEAN :
    /\ ~closing
    /\ book' = Flushed(failing, blocked)
    /\ closing' = (Pending(book') = {})
    /\ spoiled' = (spoiled \/ blocked \/ failing # {})
    /\ UNCHANGED <<sql, made, messages, projecting, wanted, narrowed, others>>

\* abort_shutdown, when another part of the shutdown fails.
AbortShutdown ==
  /\ closing
  /\ closing' = FALSE
  /\ UNCHANGED <<sql, made, book, messages, projecting, wanted, spoiled, narrowed, others>>

-----------------------------------------------------------------------------
(* The SQL worker and the results on the main thread. A batch or a commit  *)
(* brings the rows of all layers of the bid.                               *)

\* The worker writes the oldest mutation and reads the layers back.
CommitNext ==
  /\ book.queue # <<>>
  /\ LET r == Head(book.queue) IN
     /\ book' = Stored([book EXCEPT !.queue = Tail(@)], r)
     /\ messages' = Append(messages, [kind |-> "committed", rev |-> r, rows |-> book'.db])
  /\ UNCHANGED <<sql, made, projecting, closing, wanted, spoiled, narrowed, others>>

RejectNext ==
  /\ book.queue # <<>>
  /\ book' = [book EXCEPT !.queue = Tail(@)]
  /\ messages' = Append(messages, [kind |-> "rejected", rev |-> Head(book.queue)])
  /\ spoiled' = TRUE
  /\ UNCHANGED <<sql, made, projecting, closing, wanted, narrowed, others>>

\* reproject_newer_layer_visual_revisions, for the layers a commit names: one, or, when it
\* changed all, none, which stands for each.
Newer(m, layers) ==
  LET bulk(l) == {r \in Viable(m, All) : l \in made[r].scope}
      first == {Max(bulk(l) \cup Viable(m, l)) :
                  l \in {l \in layers : Cardinality(bulk(l) \cup Viable(m, l)) > 1}}
      within == UNION {made[r].scope : r \in {r \in first : made[r].key = All}}
      later(l) == {r \in Viable(m, l) :
                     \E b \in first : made[b].key = All /\ l \in made[b].scope /\ r > b}
  IN  first \cup {Max(later(l)) : l \in {l \in within : later(l) # {}}}

Take(kind) == /\ messages # <<>>
              /\ Head(messages).kind = kind
              /\ messages' = Tail(messages)

\* _apply_local_mutation_result and _on_remote_bid_content_changed.
HandleCommitted ==
  LET r == Head(messages).rev
      m == [book EXCEPT !.shown = Head(messages).rows]
  IN  /\ Take("committed")
      /\ book' = Project(m, Newer(m, IF made[r].key = All THEN Layers ELSE made[r].scope))
      /\ projecting' = projecting \cup {r}
      /\ UNCHANGED <<sql, made, closing, wanted, spoiled, narrowed, others>>

\* The projection is complete (_finish_local_mutation_result).
FinishProjection ==
  \E r \in projecting :
    /\ projecting' = projecting \ {r}
    /\ book' = Complete(book, r, TRUE)
    /\ UNCHANGED <<sql, made, messages, closing, wanted, spoiled, narrowed, others>>

HandleRejected ==
  /\ Take("rejected")
  /\ book' = Complete(book, Head(messages).rev, FALSE)
  /\ UNCHANGED <<sql, made, projecting, closing, wanted, spoiled, narrowed, others>>

-----------------------------------------------------------------------------
(* What others do. *)

Other ==
  /\ others < MaxOthers
  /\ others' = others + 1
  /\ spoiled' = TRUE
  /\ UNCHANGED <<sql, made, closing, wanted, narrowed>>

\* Another session changes a layer; the next poll delivers it.
RemoteChange(l) ==
  /\ sql
  /\ Other
  /\ book' = [book EXCEPT !.db[l] = ~@]
  /\ messages' = Append(messages, [kind |-> "remote", layer |-> l, rows |-> book'.db])
  /\ UNCHANGED projecting

\* invalidate_layer_visual_revisions
Invalid(m, l) ==
  LET ks == {l} \cup IF l \in Scope(m, All) THEN {All} ELSE {} IN
  Drop([m EXCEPT !.pending = [k \in Keys |-> IF k \in ks THEN 0 ELSE @[k]]], ks)

HandleRemote ==
  /\ Take("remote")
  /\ book' = Invalid([book EXCEPT !.shown = Head(messages).rows], Head(messages).layer)
  /\ UNCHANGED <<sql, made, projecting, closing, wanted, spoiled, narrowed, others>>

\* cancel_for_file, and what is read again: the session is lost and another begins with
\* the rows of the server, where the mutation that executes may have committed; or On-
\* Screen Takeoff changed the Access file.
Reload ==
  /\ Other
  /\ \E stored \in IF sql THEN {book.db} \cup {Stored(book, r).db : r \in
                                   IF book.queue = <<>> THEN {} ELSE {Head(book.queue)}}
                          ELSE [Layers -> BOOLEAN] :
       book' = [Drop(book, Keys) EXCEPT !.pending = [k \in Keys |-> 0], !.queue = <<>>,
                                        !.db = stored, !.shown = stored]
  /\ messages' = <<>>
  /\ projecting' = {}

DWNext ==
  \/ \E l \in Layers : Toggle(l) \/ RemoteChange(l)
  \/ \E show \in BOOLEAN : ShowAll(show)
  \/ Flush \/ PrepareShutdown \/ AbortShutdown
  \/ CommitNext \/ RejectNext \/ HandleCommitted \/ FinishProjection \/ HandleRejected
  \/ HandleRemote \/ Reload

DWSpec == DWInit /\ [][DWNext]_dwVars

-----------------------------------------------------------------------------
(* Properties. *)

\* Nothing is pending, queued or on its way.
Quiet ==
  /\ Pending(book) = {}
  /\ book.queue = <<>>
  /\ messages = <<>>
  /\ projecting = {}

\* When all writes are over, in whatever order their results came and whichever of them
\* failed, no state of a key is left behind, which would undo a later change
\* (_complete_visual_revision, _discard_terminal_visual_state).
NothingIsLeftBehind == (Quiet /\ others = 0) => \A k \in Keys : ~Exists(book, k)

\* When all writes are over, none was refused or changed by another, and no pending change
\* was replaced by one of fewer layers (of which the layers that are left out are not
\* written), the UI shows what the database has, and in an Access file that is what the
\* user asked for last (_reconcile_completed_layer_visual_states, _flush_keys).
IntentIsStored ==
  (Quiet /\ ~spoiled /\ ~narrowed) => book.shown = book.db /\ (sql \/ book.db = wanted)

=============================================================================
