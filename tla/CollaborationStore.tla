-------------------------- MODULE CollaborationStore --------------------------
(***************************************************************************)
(* The SQL side of collaboration: sessions with heartbeats, expiring edit  *)
(* locks, entity versions, the markers of committed operations, and the    *)
(* transactions of SqlCollaborationStore and SqlProjectWriter, which are   *)
(* serialised by application locks (sp_getapplock) on the operation and on *)
(* the resources.  One worker per session runs its transactions one after  *)
(* the other; sessions run theirs concurrently.                            *)
(*                                                                         *)
(* Abstractions: one bid and items of that bid; a transaction that only    *)
(* reads or fails before its first wait is not a step; an application lock *)
(* is taken in one step, the statement after the last one in another; the  *)
(* 45 seconds of a heartbeat and of a lock are nondeterministic, so        *)
(* renewing a lock that is alive changes nothing; a row's contents are its *)
(* version; the job status that locks a bid and the 450-record limit of    *)
(* the feed are left out.                                                  *)
(***************************************************************************)
EXTENDS Naturals, FiniteSets

CONSTANTS
  Sessions,   \* identifiers of sessions, each opened once
  NoSession,  \* no session
  Items,      \* the resources inside the bid
  Bid,        \* the bid itself
  Rank,       \* resource_lock_sort_key: the bid before its items
  Ops,        \* identifiers of mutations
  NoOp,       \* no mutation
  MaxTokens   \* grants in a behaviour

Resources == Items \cup {Bid}

ASSUME NamesAssumption ==
  /\ NoSession \notin Sessions
  /\ Bid \notin Items
  /\ NoOp \notin Ops
ASSUME RankAssumption ==
  /\ Rank \in [Resources -> Nat]
  /\ \A r, q \in Resources : Rank[r] = Rank[q] => r = q
  /\ \A i \in Items : Rank[Bid] < Rank[i]
ASSUME TokensAssumption == MaxTokens \in Nat

VARIABLES
  row,        \* ostv.Sessions: the heartbeat of each session's row
  editing,    \* ostv.Presence: sessions whose mode is editing
  lock,       \* ostv.Locks: the edit lock of each resource
  version,    \* ostv.EntityVersions: the row version of each resource
  marker,     \* ostv.ChangeTransactions: the resources of each committed operation
  lastToken,  \* the last lock token given out
  held,       \* application locks, by session and resource
  tx,         \* the transaction each session runs
  client,     \* whether the client of each session still uses it
  known,      \* the client's lock tokens: DatabaseSessionRegistry
  seen,       \* the versions the client's next write expects
  uncertain,  \* operations whose client lost its connection
  absent      \* operations a query did not find

database == <<row, editing, lock, version, marker, lastToken>>
running == <<held, tx>>
clients == <<client, known, seen>>
queries == <<uncertain, absent>>
vars == <<database, running, clients, queries>>

-----------------------------------------------------------------------------
Modes == {"none", "shared", "exclusive"}

\* pc: waiting for application locks, validated, or its commit was sent.
Transactions == [kind : {"none", "acquire", "mutate"},
                 pc : {"locking", "validated", "committing"},
                 res : SUBSET Resources, op : Ops \cup {NoOp}, block : BOOLEAN]
NoTx == [kind |-> "none", pc |-> "locking", res |-> {}, op |-> NoOp, block |-> FALSE]

Locks == [owner : Sessions \cup {NoSession}, token : Nat, live : BOOLEAN]
NoLock == [owner |-> NoSession, token |-> 0, live |-> FALSE]

Ready(s) == client[s] = "up" /\ tx[s].kind = "none"

Owns(s, r) == lock[r].live /\ lock[r].owner = s
OwnedByOther(s, r) == lock[r].live /\ lock[r].owner # s
HasToken(s, r) == lock[r].owner = s /\ lock[r].token = known[s][r]

\* _cleanup: what is left of the session rows, and of the locks when the rows
\* became rows.
RowsCleaned == [s \in Sessions |-> IF row[s] = "stale" THEN "ended" ELSE row[s]]
\* Mutant: a removed lock keeps its expiry.
LocksCleanedPartly(rows) ==
  [r \in Resources |->
     IF lock[r].live /\ rows[lock[r].owner] = "ended"
     THEN [lock[r] EXCEPT !.owner = NoSession, !.token = 0] ELSE lock[r]]
LocksCleaned(rows) ==
  [r \in Resources |->
     IF lock[r].live /\ rows[lock[r].owner] # "ended" THEN lock[r] ELSE NoLock]

-----------------------------------------------------------------------------
(* Sessions *)

\* start_session, with the client's first read of the versions.
Open(s) ==
  /\ client[s] = "none"
  /\ row' = [RowsCleaned EXCEPT ![s] = "fresh"]
  /\ lock' = LocksCleaned(RowsCleaned)
  /\ editing' = {o \in editing : RowsCleaned[o] # "ended"}
  /\ client' = [client EXCEPT ![s] = "up"]
  /\ seen' = [seen EXCEPT ![s] = version]
  /\ UNCHANGED <<version, marker, lastToken, running, known, queries>>

\* heartbeat of a session whose row is still fresh; it reports editing while the
\* client holds edit locks.
Heartbeat(s) ==
  /\ Ready(s)
  /\ row[s] = "fresh"
  /\ row' = RowsCleaned
  /\ lock' = LocksCleaned(RowsCleaned)
  /\ LET others == {o \in editing : RowsCleaned[o] # "ended"} \ {s}
     IN  editing' = IF \E r \in Resources : known[s][r] # 0 THEN others \cup {s} ELSE others
  /\ UNCHANGED <<version, marker, lastToken, running, clients, queries>>

\* The client's registries are cleared with its session.
Forget(s) ==
  /\ known' = [known EXCEPT ![s] = [r \in Resources |-> 0]]
  /\ seen' = [seen EXCEPT ![s] = [r \in Resources |-> 0]]

\* A heartbeat or a renewal is refused: the client gives its session up.
Expired(s) ==
  /\ Ready(s)
  /\ \/ row[s] # "fresh"
     \/ \E r \in Resources : known[s][r] # 0 /\ ~(Owns(s, r) /\ HasToken(s, r))
  /\ client' = [client EXCEPT ![s] = "gone"]
  /\ Forget(s)
  /\ UNCHANGED <<database, running, queries>>

\* close_session, by the client itself or when it resets a session it lost.
Close(s) ==
  /\ Ready(s) \/ client[s] = "gone"
  /\ row[s] # "ended"
  /\ row' = [row EXCEPT ![s] = "ended"]
  /\ lock' = [r \in Resources |-> IF lock[r].owner = s THEN NoLock ELSE lock[r]]
  /\ editing' = editing \ {s}
  /\ client' = [client EXCEPT ![s] = "gone"]
  /\ IF tx[s].kind = "none" THEN Forget(s) ELSE UNCHANGED <<known, seen>>
  /\ UNCHANGED <<version, marker, lastToken, running, queries>>

\* 45 seconds pass without a heartbeat.
GoStale(s) ==
  /\ row[s] = "fresh"
  /\ row' = [row EXCEPT ![s] = "stale"]
  /\ UNCHANGED <<editing, lock, version, marker, lastToken, running, clients,
                 queries>>

\* 45 seconds pass without a renewal.
Expire(r) ==
  /\ lock[r].live
  /\ lock' = [lock EXCEPT ![r].live = FALSE]
  /\ UNCHANGED <<row, editing, version, marker, lastToken, running, clients,
                 queries>>

\* Resources whose cached version a change of the feed replaces: one the client
\* edits keeps its base version, and a mutation holds the cache.
Refreshable(s) ==
  {r \in Resources : known[s][r] = 0 /\ tx[s].kind # "mutate" /\ r \notin tx[s].res}

\* The client applies the change feed.
Refresh(s) ==
  /\ client[s] = "up"
  /\ \E r \in Refreshable(s) : seen[s][r] # version[r]
  /\ seen' = [seen EXCEPT ![s] = [r \in Resources |->
                IF r \in Refreshable(s) THEN version[r] ELSE seen[s][r]]]
  /\ UNCHANGED <<database, running, client, known, queries>>

-----------------------------------------------------------------------------
(* Application locks *)

\* Mutant: a mutation of an item leaves the bid unlocked.
WantedItemsOnly(t, r) == IF r \in t.res THEN "exclusive" ELSE "none"
\* Mutant: a mutation shares what it writes.
WantedShared(t, r) ==
  IF r \in t.res /\ t.kind = "acquire" THEN "exclusive"
  ELSE IF t.kind # "none" /\ (r \in t.res \/ r = Bid) THEN "shared" ELSE "none"

\* The mode in which transaction t locks resource r.
Wanted(t, r) ==
  IF r \in t.res THEN "exclusive"
  ELSE IF t.kind = "mutate" /\ r = Bid THEN "shared" ELSE "none"

Compatible(s, r, mode) ==
  \A o \in Sessions \ {s} : held[o][r] = "none" \/ (held[o][r] = "shared" /\ mode = "shared")

Missing(s) == {r \in Resources : Wanted(tx[s], r) # "none" /\ held[s][r] = "none"}

\* Mutant: the locks are taken in any order.
NextLockAny(s, r) == r \in Missing(s)
NextLock(s, r) == r \in Missing(s) /\ \A q \in Missing(s) : Rank[r] <= Rank[q]

TakeLock(s) ==
  /\ tx[s].pc = "locking"
  /\ \E r \in Resources :
       /\ NextLock(s, r)
       /\ Compatible(s, r, Wanted(tx[s], r))
       /\ held' = [held EXCEPT ![s][r] = Wanted(tx[s], r)]
  /\ UNCHANGED <<database, tx, clients, queries>>

Locked(s, kind) == tx[s].kind = kind /\ tx[s].pc = "locking" /\ Missing(s) = {}

\* The transaction of s ends and its application locks with it.
EndTx(s) ==
  /\ tx' = [tx EXCEPT ![s] = NoTx]
  /\ held' = [held EXCEPT ![s] = [r \in Resources |-> "none"]]

\* A lock wait times out, validation fails or the operation raises: rollback.
Refuse(s) ==
  /\ client[s] = "up"
  /\ tx[s].kind # "none"
  /\ tx[s].pc # "committing"
  /\ EndTx(s)
  /\ UNCHANGED <<database, clients, queries>>

-----------------------------------------------------------------------------
(* Edit locks *)

\* The coordinator denies a resource it already owns before it asks the server.
BeginAcquire(s, R) ==
  /\ Ready(s)
  /\ R # {} /\ \A r \in R : known[s][r] = 0
  /\ tx' = [tx EXCEPT ![s] = [NoTx EXCEPT !.kind = "acquire", !.res = R]]
  /\ UNCHANGED <<database, held, clients, queries>>

\* acquire_locks: all resources or none.
Grant(s) ==
  LET left == LocksCleaned(RowsCleaned)
      free == {r \in tx[s].res : left[r].owner = NoSession}
  IN  /\ client[s] = "up"
      /\ Locked(s, "acquire")
      /\ row[s] = "fresh"
      /\ \A r \in tx[s].res : left[r].owner \in {s, NoSession}
      /\ lastToken < MaxTokens
      /\ lastToken' = lastToken + 1
      /\ row' = RowsCleaned
      /\ editing' = {o \in editing : RowsCleaned[o] # "ended"}
      /\ lock' = [r \in Resources |->
                    IF r \in free THEN [owner |-> s, token |-> lastToken + 1, live |-> TRUE]
                    ELSE left[r]]
      /\ known' = [known EXCEPT ![s] = [r \in Resources |->
                     IF r \in tx[s].res THEN lock'[r].token ELSE known[s][r]]]
      /\ EndTx(s)
      /\ UNCHANGED <<version, marker, client, seen, queries>>

\* release_lock.
Release(s, r) ==
  /\ Ready(s)
  /\ known[s][r] # 0
  /\ lock' = [lock EXCEPT ![r] = IF HasToken(s, r) THEN NoLock ELSE @]
  /\ known' = [known EXCEPT ![s][r] = 0]
  /\ UNCHANGED <<row, editing, version, marker, lastToken, running, client, seen,
                 queries>>

-----------------------------------------------------------------------------
(* Mutations *)

\* A transaction holds the lock of operation op.
OperationHeld(op) == \E s \in Sessions : tx[s].op = op

\* Mutant: the marker is not looked up before the operation runs.
AdmissibleAgain(s, op) == op \notin absent /\ row[s] = "fresh"
\* _prepare_mutation up to its first wait on a resource: a committed operation
\* is answered from its marker and an expired session is refused.
Admissible(s, op) == op \notin absent /\ row[s] = "fresh" /\ marker[op] = {}

\* A request never carries an identifier again whose caller was told it failed.
BeginMutation(s, op, R, block) ==
  /\ Ready(s)
  /\ R # {}
  /\ block => R = {Bid}
  /\ ~OperationHeld(op)
  /\ Admissible(s, op)
  /\ tx' = [tx EXCEPT ![s] = [kind |-> "mutate", pc |-> "locking", res |-> R, op |-> op,
                              block |-> block]]
  /\ UNCHANGED <<database, held, clients, queries>>

\* _validate_mutation_locks finds no violation.
Valid(s) ==
  LET t == tx[s]
  IN  /\ \A r \in t.res : ~OwnedByOther(s, r)
      /\ t.res \cap Items # {} => ~OwnedByOther(s, Bid)
      /\ t.block => /\ \A r \in Resources : ~OwnedByOther(s, r)
                    /\ \A o \in editing \ {s} : row[o] # "fresh"
      /\ \A r \in t.res :
           known[s][r] # 0 \/ Owns(s, r) => Owns(s, r) /\ HasToken(s, r)
      /\ \A r \in t.res : seen[s][r] = version[r]

Validate(s) ==
  /\ client[s] = "up"
  /\ Locked(s, "mutate")
  /\ Valid(s)
  /\ tx' = [tx EXCEPT ![s].pc = "validated"]
  /\ UNCHANGED <<database, held, clients, queries>>

\* _finish_mutation: the tokens can still be consumed; then the commit is sent.
SendCommit(s) ==
  /\ client[s] = "up"
  /\ tx[s].pc = "validated"
  /\ \A r \in tx[s].res : known[s][r] # 0 => HasToken(s, r)
  /\ tx' = [tx EXCEPT ![s].pc = "committing"]
  /\ UNCHANGED <<database, held, clients, queries>>

\* The server commits what _finish_mutation wrote; a client that is still there
\* learns the new versions and forgets the consumed tokens.
Commit(s) ==
  LET R == tx[s].res
  IN  /\ tx[s].pc = "committing"
      /\ version' = [r \in Resources |-> IF r \in R THEN version[r] + 1 ELSE version[r]]
      /\ marker' = [marker EXCEPT ![tx[s].op] = R]
      /\ lock' = [r \in Resources |->
                    IF r \in R /\ known[s][r] # 0 /\ HasToken(s, r) THEN NoLock ELSE lock[r]]
      /\ IF client[s] = "up"
         THEN /\ known' = [known EXCEPT ![s] = [r \in Resources |->
                             IF r \in R THEN 0 ELSE known[s][r]]]
              /\ seen' = [seen EXCEPT ![s] = [r \in Resources |->
                            IF r \in R THEN version'[r] ELSE seen[s][r]]]
         ELSE Forget(s)
      /\ EndTx(s)
      /\ UNCHANGED <<row, editing, lastToken, client, queries>>

-----------------------------------------------------------------------------
(* Lost connections *)

\* The client loses its connection, or its process ends; the operation it was
\* executing is looked up by a later session.
LoseConnection(s) ==
  /\ client[s] = "up"
  /\ client' = [client EXCEPT ![s] = "gone"]
  /\ uncertain' = IF tx[s].kind = "mutate" THEN uncertain \cup {tx[s].op} ELSE uncertain
  /\ IF tx[s].kind = "none" THEN Forget(s) ELSE UNCHANGED <<known, seen>>
  /\ UNCHANGED <<database, running, absent>>

\* The server notices: a transaction whose commit did not arrive is rolled back.
RollBack(s) ==
  /\ client[s] = "gone"
  /\ tx[s].kind # "none"
  /\ EndTx(s)
  /\ Forget(s)
  /\ UNCHANGED <<database, client, queries>>

\* Mutant: the marker is read without the operation's lock.
AnswerableAlways(op) == op \in uncertain
Answerable(op) == op \in uncertain /\ ~OperationHeld(op)

\* query_operation for an operation of the journal.
QueryOperation(s, op) ==
  /\ Ready(s)
  /\ Answerable(op)
  /\ uncertain' = uncertain \ {op}
  /\ absent' = IF marker[op] = {} THEN absent \cup {op} ELSE absent
  /\ UNCHANGED <<database, running, clients>>

-----------------------------------------------------------------------------
Init ==
  /\ row = [s \in Sessions |-> "none"]
  /\ editing = {}
  /\ lock = [r \in Resources |-> NoLock]
  /\ version = [r \in Resources |-> 0]
  /\ marker = [op \in Ops |-> {}]
  /\ lastToken = 0
  /\ held = [s \in Sessions |-> [r \in Resources |-> "none"]]
  /\ tx = [s \in Sessions |-> NoTx]
  /\ client = [s \in Sessions |-> "none"]
  /\ known = [s \in Sessions |-> [r \in Resources |-> 0]]
  /\ seen = [s \in Sessions |-> [r \in Resources |-> 0]]
  /\ uncertain = {}
  /\ absent = {}

ClientStep(s) ==
  \/ Open(s) \/ Heartbeat(s) \/ Refresh(s) \/ Expired(s) \/ Close(s) \/ LoseConnection(s)
  \/ \E r \in Resources : Release(s, r)
  \/ \E R \in SUBSET Resources : BeginAcquire(s, R)
  \/ \E op \in Ops, R \in SUBSET Resources, block \in BOOLEAN :
       BeginMutation(s, op, R, block)
  \/ \E op \in Ops : QueryOperation(s, op)

TxStep(s) ==
  \/ TakeLock(s) \/ Grant(s) \/ Validate(s) \/ SendCommit(s) \/ Commit(s)
  \/ RollBack(s) \/ Refuse(s)

\* What needs no lock that another transaction has.
AdvanceTx(s) == Grant(s) \/ Validate(s) \/ SendCommit(s) \/ Commit(s) \/ RollBack(s)

Next ==
  \/ \E s \in Sessions : ClientStep(s) \/ TxStep(s) \/ GoStale(s)
  \/ \E r \in Resources : Expire(r)

Spec == Init /\ [][Next]_vars

\* The client goes on with its transaction and the server with a lost one; nothing
\* is assumed of the time-out of a lock wait.  Lock waits are served in turn, so one
\* that could end again and again does end.
Fairness ==
  \A s \in Sessions :
    /\ SF_vars(TakeLock(s))
    /\ WF_vars(AdvanceTx(s))
    /\ WF_vars(Missing(s) = {} /\ Refuse(s))

FairSpec == Spec /\ Fairness

-----------------------------------------------------------------------------
(* Properties *)

\* Every variable holds what the schema and the client's registries can hold, and
\* only a lock row that exists can be unexpired.
TypeOK ==
  /\ row \in [Sessions -> {"none", "fresh", "stale", "ended"}]
  /\ editing \subseteq Sessions
  /\ lock \in [Resources -> Locks]
  /\ \A r \in Resources : lock[r].live => lock[r].owner \in Sessions
  /\ version \in [Resources -> Nat]
  /\ marker \in [Ops -> SUBSET Resources]
  /\ lastToken \in 0..MaxTokens
  /\ held \in [Sessions -> [Resources -> Modes]]
  /\ tx \in [Sessions -> Transactions]
  /\ \A s \in Sessions : tx[s].kind = "mutate" <=> tx[s].op # NoOp
  /\ client \in [Sessions -> {"none", "up", "gone"}]
  /\ known \in [Sessions -> [Resources -> Nat]]
  /\ seen \in [Sessions -> [Resources -> Nat]]
  /\ uncertain \subseteq Ops
  /\ absent \subseteq Ops

\* This step is the commit of a mutation of s.
Commits(s) == tx[s].pc = "committing" /\ tx'[s] = NoTx /\ version' # version

\* An unexpired edit lock keeps every other session from changing its resource and,
\* if it is the bid's, any item of the bid: the locks are looked up by
\* _validate_mutation_locks, long before the commit, and others may be granted,
\* renewed or cleaned up in between.
LeasesExclude ==
  [][\A s \in Sessions : Commits(s) =>
       \A r \in Resources : version'[r] # version[r] =>
         ~OwnedByOther(s, r) /\ ~OwnedByOther(s, Bid)]_vars

\* A write only replaces the version its client expected, although the versions are
\* compared before the operation runs and other sessions commit meanwhile.
NoLostUpdate ==
  [][\A s \in Sessions : Commits(s) =>
       \A r \in Resources : version'[r] # version[r] => seen[s][r] = version[r]]_vars

\* An operation whose marker a recovering client did not find never commits later:
\* its caller was told that it failed (query_operation takes the operation's lock).
AbsentStaysAbsent == \A op \in absent : marker[op] = {}

\* Every resource was changed once by each committed operation that names it: no
\* operation is applied twice, and its marker commits with its effects.
VersionsMatchMarkers ==
  \A r \in Resources : version[r] = Cardinality({op \in Ops : r \in marker[op]})

\* The session s waits for an application lock that o holds.
Waits(s, o) ==
  /\ s # o
  /\ tx[s].pc = "locking"
  /\ \E r \in Resources :
       /\ NextLock(s, r)
       /\ held[o][r] # "none"
       /\ ~(held[o][r] = "shared" /\ Wanted(tx[s], r) = "shared")

\* No sessions wait for each other in a circle: leases and mutations of different
\* sessions take the locks of a bid and its items in one order.
NoCircularWait ==
  \A S \in (SUBSET Sessions) \ {{}} : \E s \in S : \A o \in S : ~Waits(s, o)

\* Every transaction ends, even if no lock wait ever timed out.
TransactionsEnd == \A s \in Sessions : tx[s].kind # "none" ~> tx[s].kind = "none"

\* The deletion of a bid is never committed while another session has an item of it
\* locked for editing, as the test of the writer's child_owner rule has it.
DeletionSparesEditors ==
  [][\A s \in Sessions : Commits(s) /\ tx[s].block =>
       \A i \in Items : ~OwnedByOther(s, i)]_vars
===============================================================================
