------------------------ MODULE CollaborationStoreProofs -----------------------
(***************************************************************************)
(* Proofs about CollaborationStore, for any number of sessions, items,     *)
(* operations and grants: its types; edit locks exclude, no update is      *)
(* lost, an operation that was not found never commits, no sessions wait   *)
(* in a circle and every operation counts once.  The argument: a           *)
(* transaction past its checks holds the application locks of everything   *)
(* it checked, so what it found stays true until it commits; and it takes  *)
(* them by rank, so whoever is waited for waits for a higher one.          *)
(***************************************************************************)
EXTENDS CollaborationStore, FiniteSetTheorems, WellFoundedInduction, TLAPS

-----------------------------------------------------------------------------
(* What the helpers return. *)

RowStates == {"none", "fresh", "stale", "ended"}

\* Cleaning up ended or stale sessions leaves the edit locks well-typed.
LEMMA CleanedType ==
  ASSUME TypeOK, NEW rows \in [Sessions -> RowStates]
  PROVE  /\ LocksCleaned(rows) \in [Resources -> Locks]
         /\ \A r \in Resources : LocksCleaned(rows)[r] \in {lock[r], NoLock}
         /\ \A r \in Resources :
              LocksCleaned(rows)[r].live => LocksCleaned(rows)[r].owner \in Sessions
<1>1. NoLock \in Locks /\ ~NoLock.live
  BY DEF NoLock, Locks
<1>2. QED
  BY <1>1 DEF LocksCleaned, TypeOK

\* Cleaning up leaves the session rows well-typed.
LEMMA RowsCleanedType == TypeOK => RowsCleaned \in [Sessions -> RowStates]
BY DEF TypeOK, RowsCleaned, RowStates

\* A session outside a transaction has a well-typed record of it.
LEMMA NoTxType == NoTx \in Transactions /\ NoTx.kind = "none" /\ NoTx.op = NoOp /\ NoTx.res = {}
BY DEF NoTx, Transactions

\* Moving a transaction to its next stage leaves it well-typed.
LEMMA StageType ==
  ASSUME TypeOK, NEW s \in Sessions, NEW pc \in {"locking", "validated", "committing"},
         tx' = [tx EXCEPT ![s].pc = pc]
  PROVE  /\ tx' \in [Sessions -> Transactions]
         /\ \A o \in Sessions : tx'[o].kind = "mutate" <=> tx'[o].op # NoOp
<1>1. tx' = [tx EXCEPT ![s] = [tx[s] EXCEPT !.pc = pc]]
  BY DEF TypeOK
<1>2. tx[s] \in Transactions
  BY DEF TypeOK
<1>3. /\ [tx[s] EXCEPT !.pc = pc] \in Transactions
      /\ [tx[s] EXCEPT !.pc = pc].kind = tx[s].kind
      /\ [tx[s] EXCEPT !.pc = pc].op = tx[s].op
  BY <1>2 DEF Transactions
<1>4. QED
  BY <1>1, <1>3 DEF TypeOK

\* Ending a transaction leaves transactions and application locks well-typed.
LEMMA EndTxType ==
  ASSUME TypeOK, NEW s \in Sessions, EndTx(s)
  PROVE  /\ tx' \in [Sessions -> Transactions]
         /\ \A o \in Sessions : tx'[o].kind = "mutate" <=> tx'[o].op # NoOp
         /\ held' \in [Sessions -> [Resources -> Modes]]
BY NoTxType DEF EndTx, TypeOK, Modes

\* A registry that forgets a session forgets its versions, and stays well-typed.
LEMMA ForgetType ==
  ASSUME TypeOK, NEW s \in Sessions, Forget(s)
  PROVE  known' \in [Sessions -> [Resources -> Nat]] /\ seen' \in [Sessions -> [Resources -> Nat]]
BY DEF Forget, TypeOK

\* The tables start well-typed.
LEMMA InitType == Init => TypeOK
<1>1. NoLock \in Locks /\ ~NoLock.live
  BY DEF NoLock, Locks
<1>2. QED
  BY <1>1, NoTxType, TokensAssumption DEF Init, TypeOK, Modes

(* Every action keeps the types. *)

\* Sessions come, beat and go without breaking a type.
LEMMA SessionStepType ==
  ASSUME TypeOK, NEW s \in Sessions,
         Open(s) \/ Heartbeat(s) \/ Refresh(s) \/ Expired(s) \/ Close(s) \/ GoStale(s)
  PROVE  TypeOK'
<1> USE RowsCleanedType, CleanedType DEF RowStates
<1>1. CASE Open(s)
  BY <1>1 DEF Open, TypeOK, database, running, queries
<1>2. CASE Heartbeat(s)
  BY <1>2 DEF Heartbeat, TypeOK, running, clients, queries
<1>3. CASE Refresh(s)
  BY <1>3 DEF Refresh, TypeOK, database, running, queries
<1>4. CASE Expired(s)
  BY <1>4, ForgetType DEF Expired, TypeOK, database, running, queries
<1>5. CASE Close(s)
  <2>1. NoLock \in Locks /\ ~NoLock.live
    BY DEF NoLock, Locks
  <2>2. /\ known' \in [Sessions -> [Resources -> Nat]]
        /\ seen' \in [Sessions -> [Resources -> Nat]]
    BY <1>5, ForgetType DEF Close, TypeOK
  <2>3. QED
    BY <1>5, <2>1, <2>2 DEF Close, TypeOK, running, queries
<1>6. CASE GoStale(s)
  BY <1>6 DEF GoStale, TypeOK, running, clients, queries
<1>7. QED
  BY <1>1, <1>2, <1>3, <1>4, <1>5, <1>6

\* The expiry of an edit lock breaks no type.
LEMMA ExpireType ==
  ASSUME TypeOK, NEW r \in Resources, Expire(r)
  PROVE  TypeOK'
BY ZenonT(60) DEF Expire, TypeOK, Locks, running, clients, queries

\* The lock requests, in every stage, break no type.
LEMMA LockStepType ==
  ASSUME TypeOK, NEW s \in Sessions,
         \/ TakeLock(s) \/ Refuse(s) \/ Grant(s)
         \/ \E r \in Resources : Release(s, r)
         \/ \E R \in SUBSET Resources : BeginAcquire(s, R)
  PROVE  TypeOK'
<1>1. CASE TakeLock(s)
  <2>1. held' \in [Sessions -> [Resources -> Modes]]
    BY <1>1 DEF TakeLock, TypeOK, Wanted, Modes
  <2>2. QED
    BY <1>1, <2>1 DEF TakeLock, TypeOK, database, clients, queries
<1>2. CASE Refuse(s)
  BY <1>2, EndTxType DEF Refuse, TypeOK, database, clients, queries
<1>3. CASE Grant(s)
  <2> DEFINE left == LocksCleaned(RowsCleaned)
             free == {r \in tx[s].res : left[r].owner = NoSession}
             new == [owner |-> s, token |-> lastToken + 1, live |-> TRUE]
  <2>1. lastToken \in Nat /\ lastToken' \in 0..MaxTokens
    BY <1>3, TokensAssumption DEF Grant, TypeOK
  <2>2. new \in Locks /\ new.owner \in Sessions
    BY <2>1 DEF Locks
  <2>3. /\ left \in [Resources -> Locks]
        /\ \A r \in Resources : left[r].live => left[r].owner \in Sessions
    BY RowsCleanedType, CleanedType
  <2>4. lock' = [r \in Resources |-> IF r \in free THEN new ELSE left[r]]
    BY <1>3 DEF Grant
  <2> HIDE DEF left, free, new
  <2>5. /\ lock' \in [Resources -> Locks]
        /\ \A r \in Resources : lock'[r].live => lock'[r].owner \in Sessions
    BY <2>2, <2>3, <2>4
  <2>6. \A r \in Resources : lock'[r].token \in Nat
    BY <2>5 DEF Locks
  <2>7. known' \in [Sessions -> [Resources -> Nat]]
    BY <1>3, <2>6 DEF Grant, TypeOK
  <2>8. EndTx(s)
    BY <1>3 DEF Grant
  <2>9. QED
    BY <1>3, <2>1, <2>5, <2>7, <2>8, EndTxType, RowsCleanedType
       DEF Grant, TypeOK, RowStates, queries
<1>4. CASE \E r \in Resources : Release(s, r)
  <2>1. NoLock \in Locks /\ ~NoLock.live
    BY DEF NoLock, Locks
  <2>2. QED
    BY <1>4, <2>1 DEF Release, TypeOK, running, queries
<1>5. CASE \E R \in SUBSET Resources : BeginAcquire(s, R)
  <2>1. PICK R \in SUBSET Resources : BeginAcquire(s, R)
    BY <1>5
  <2>2. [NoTx EXCEPT !.kind = "acquire", !.res = R] \in Transactions
    BY DEF NoTx, Transactions
  <2>3. [NoTx EXCEPT !.kind = "acquire", !.res = R].kind = "acquire"
        /\ [NoTx EXCEPT !.kind = "acquire", !.res = R].op = NoOp
    BY DEF NoTx
  <2>4. QED
    BY <2>1, <2>2, <2>3 DEF BeginAcquire, TypeOK, database, clients, queries
<1>6. QED
  BY <1>1, <1>2, <1>3, <1>4, <1>5

\* A mutation, from its beginning to its commit, breaks no type.
LEMMA MutationStepType ==
  ASSUME TypeOK, NEW s \in Sessions,
         \/ \E op \in Ops, R \in SUBSET Resources, block \in BOOLEAN :
              BeginMutation(s, op, R, block)
         \/ Validate(s) \/ SendCommit(s) \/ Commit(s)
  PROVE  TypeOK'
<1>1. CASE \E op \in Ops, R \in SUBSET Resources, block \in BOOLEAN :
             BeginMutation(s, op, R, block)
  BY <1>1, NamesAssumption
     DEF BeginMutation, TypeOK, Transactions, database, clients, queries
<1>2. CASE Validate(s)
  BY <1>2, StageType DEF Validate, TypeOK, database, clients, queries
<1>3. CASE SendCommit(s)
  BY <1>3, StageType DEF SendCommit, TypeOK, database, clients, queries
<1>4. CASE Commit(s)
  <2> DEFINE R == tx[s].res
  <2>1. R \in SUBSET Resources
    BY DEF TypeOK, Transactions
  <2>2. version' \in [Resources -> Nat]
    BY <1>4 DEF Commit, TypeOK
  <2>3. marker' \in [Ops -> SUBSET Resources]
    BY <1>4, <2>1 DEF Commit, TypeOK
  <2>4. /\ lock' \in [Resources -> Locks]
        /\ \A r \in Resources : lock'[r].live => lock'[r].owner \in Sessions
    <3>1. NoLock \in Locks /\ ~NoLock.live
      BY DEF NoLock, Locks
    <3>2. lock' = [r \in Resources |->
                     IF r \in R /\ known[s][r] # 0 /\ HasToken(s, r) THEN NoLock ELSE lock[r]]
      BY <1>4 DEF Commit
    <3>3. QED
      BY <3>1, <3>2 DEF TypeOK
  <2>5. /\ known' \in [Sessions -> [Resources -> Nat]]
        /\ seen' \in [Sessions -> [Resources -> Nat]]
    <3>1. CASE client[s] = "up"
      <4>1. known' = [known EXCEPT ![s] = [r \in Resources |->
                        IF r \in R THEN 0 ELSE known[s][r]]]
        BY <1>4, <3>1 DEF Commit
      <4>2. seen' = [seen EXCEPT ![s] = [r \in Resources |->
                       IF r \in R THEN version'[r] ELSE seen[s][r]]]
        BY <1>4, <3>1 DEF Commit
      <4>3. [r \in Resources |-> IF r \in R THEN version'[r] ELSE seen[s][r]]
              \in [Resources -> Nat]
        BY <2>2 DEF TypeOK
      <4>4. [r \in Resources |-> IF r \in R THEN 0 ELSE known[s][r]] \in [Resources -> Nat]
        BY DEF TypeOK
      <4>5. QED
        BY <4>1, <4>2, <4>3, <4>4 DEF TypeOK
    <3>2. CASE client[s] # "up"
      BY <1>4, <3>2, ForgetType DEF Commit
    <3>3. QED
      BY <3>1, <3>2
  <2>6. EndTx(s) /\ UNCHANGED <<row, editing, lastToken, client, queries>>
    BY <1>4 DEF Commit
  <2>7. QED
    BY <2>2, <2>3, <2>4, <2>5, <2>6, EndTxType DEF TypeOK, queries
<1>5. QED
  BY <1>1, <1>2, <1>3, <1>4

\* Lost connections, rollbacks and the queries after them break no type.
LEMMA LostStepType ==
  ASSUME TypeOK, NEW s \in Sessions,
         LoseConnection(s) \/ RollBack(s) \/ \E op \in Ops : QueryOperation(s, op)
  PROVE  TypeOK'
<1>1. CASE LoseConnection(s)
  <2>1. /\ known' \in [Sessions -> [Resources -> Nat]]
        /\ seen' \in [Sessions -> [Resources -> Nat]]
    BY <1>1, ForgetType DEF LoseConnection, TypeOK
  <2>2. uncertain' \subseteq Ops
    BY <1>1 DEF LoseConnection, TypeOK, Transactions
  <2>3. QED
    BY <1>1, <2>1, <2>2 DEF LoseConnection, TypeOK, database, running
<1>2. CASE RollBack(s)
  BY <1>2, EndTxType, ForgetType DEF RollBack, TypeOK, database, queries
<1>3. CASE \E op \in Ops : QueryOperation(s, op)
  BY <1>3 DEF QueryOperation, TypeOK, database, running, clients
<1>4. QED
  BY <1>1, <1>2, <1>3

\* Every step keeps the types.
LEMMA StepType == TypeOK /\ [Next]_vars => TypeOK'
<1> SUFFICES ASSUME TypeOK, [Next]_vars PROVE TypeOK'
  OBVIOUS
<1>1. CASE \E s \in Sessions : ClientStep(s) \/ TxStep(s) \/ GoStale(s)
  BY <1>1, SessionStepType, LockStepType, MutationStepType, LostStepType
     DEF ClientStep, TxStep
<1>2. CASE \E r \in Resources : Expire(r)
  BY <1>2, ExpireType
<1>3. CASE UNCHANGED vars
  BY <1>3 DEF TypeOK, vars, database, running, clients, queries
<1>4. QED
  BY <1>1, <1>2, <1>3 DEF Next

\* Sessions, locks, versions, markers and transactions keep the types that the schema
\* and the client's registries give them.
THEOREM TypeCorrect == Spec => []TypeOK
BY InitType, StepType, PTL DEF Spec

-----------------------------------------------------------------------------
(* The safety properties. *)

\* The checks of the writer are behind transaction s.
Past(s) == tx[s].pc \in {"validated", "committing"}

\* A session without a transaction holds nothing, and one never opened has none.
IdleIsEmpty ==
  \A s \in Sessions : tx[s].kind = "none" \/ client[s] = "none" => tx[s] = NoTx

\* A transaction holds application locks in the modes it wants.
HeldAsWanted ==
  \A s \in Sessions, r \in Resources : held[s][r] \in {"none", Wanted(tx[s], r)}

\* Two sessions hold an application lock together only if both share it.
Exclusive ==
  \A s, o \in Sessions : s # o =>
    \A r \in Resources : held[s][r] = "exclusive" => held[o][r] = "none"

\* What was true when the writer checked it is true until the transaction ends,
\* because of the application locks it holds.
PastHolds == \A s \in Sessions : Past(s) => tx[s].kind = "mutate" /\ Missing(s) = {}
PastExcludes ==
  \A s \in Sessions : Past(s) =>
    \A r \in tx[s].res : ~OwnedByOther(s, r) /\ ~OwnedByOther(s, Bid)
PastCurrent ==
  \A s \in Sessions : Past(s) => \A r \in tx[s].res : seen[s][r] = version[r]

\* One transaction at a time holds the lock of an operation, and only for an
\* operation that was neither committed nor reported as not found.
OneHolder ==
  \A s, o \in Sessions : s # o /\ tx[s].op # NoOp => tx[o].op # tx[s].op
HeldIsOpen ==
  \A s \in Sessions : tx[s].op # NoOp => tx[s].op \notin absent /\ marker[tx[s].op] = {}

IInv ==
  /\ TypeOK
  /\ IdleIsEmpty /\ HeldAsWanted /\ Exclusive
  /\ PastHolds /\ PastExcludes /\ PastCurrent
  /\ OneHolder /\ HeldIsOpen /\ AbsentStaysAbsent

\* The invariant holds of empty tables.
LEMMA InitSafe == Init => IInv
<1> SUFFICES ASSUME Init PROVE IInv
  OBVIOUS
<1>1. TypeOK
  BY InitType
<1>2. \A s \in Sessions : tx[s] = NoTx /\ ~Past(s)
  BY DEF Init, NoTx, Past
<1>3. HeldAsWanted /\ Exclusive
  BY DEF Init, HeldAsWanted, Exclusive
<1>4. QED
  BY <1>1, <1>2, <1>3, NoTxType
     DEF Init, IInv, IdleIsEmpty, PastHolds, PastExcludes, PastCurrent, OneHolder, HeldIsOpen,
         AbsentStaysAbsent

-----------------------------------------------------------------------------
(* What a step does to the transactions and their application locks. *)

\* A transaction that ends leaves nothing behind: no operation, no lock.
LEMMA EndTxFrees ==
  ASSUME TypeOK, NEW s \in Sessions, EndTx(s)
  PROVE  /\ tx'[s] = NoTx
         /\ \A r \in Resources : held'[s][r] = "none"
         /\ \A o \in Sessions \ {s} : tx'[o] = tx[o] /\ held'[o] = held[o]
BY DEF EndTx, TypeOK

\* A transaction only changes in a step of its own session, in one of these ways.
TxEnds(s) ==
  /\ Refuse(s) \/ Grant(s) \/ Commit(s) \/ RollBack(s)
  /\ EndTx(s)
TxBegins(s) ==
  /\ \/ \E R \in SUBSET Resources : BeginAcquire(s, R)
     \/ \E op \in Ops, R \in SUBSET Resources, block \in BOOLEAN :
          BeginMutation(s, op, R, block)
  /\ Ready(s)
  /\ held' = held
  /\ tx'[s].pc = "locking" /\ tx'[s].kind # "none"
  /\ \A o \in Sessions \ {s} : tx'[o] = tx[o]
TxAdvances(s) ==
  /\ Validate(s) \/ SendCommit(s)
  /\ held' = held
  /\ tx[s].kind # "none"
  /\ tx'[s].kind = tx[s].kind /\ tx'[s].res = tx[s].res /\ tx'[s].op = tx[s].op
  /\ \A o \in Sessions \ {s} : tx'[o] = tx[o]
TxStays == tx' = tx

\* In every step at most one session's transaction begins, advances or ends.
LEMMA TxChanges ==
  ASSUME IInv, [Next]_vars
  PROVE  \/ TxStays
         \/ \E s \in Sessions : TxEnds(s) \/ TxBegins(s) \/ TxAdvances(s)
<1>1. CASE UNCHANGED vars
  BY <1>1 DEF vars, running, TxStays
<1>2. CASE \E r \in Resources : Expire(r)
  BY <1>2 DEF Expire, running, TxStays
<1>3. ASSUME NEW s \in Sessions, ClientStep(s) \/ TxStep(s) \/ GoStale(s)
      PROVE  TxStays \/ TxEnds(s) \/ TxBegins(s) \/ TxAdvances(s)
  <2>1. CASE \/ Open(s) \/ Heartbeat(s) \/ Refresh(s) \/ Expired(s) \/ Close(s)
             \/ LoseConnection(s) \/ GoStale(s) \/ TakeLock(s)
    BY <2>1 DEF Open, Heartbeat, Refresh, Expired, Close, LoseConnection, GoStale, TakeLock,
                running, TxStays
  <2>2. CASE \/ \E r \in Resources : Release(s, r)
             \/ \E op \in Ops : QueryOperation(s, op)
    BY <2>2 DEF Release, QueryOperation, running, TxStays
  <2>3. CASE \E R \in SUBSET Resources : BeginAcquire(s, R)
    BY <2>3, ZenonT(60) DEF BeginAcquire, TxBegins, NoTx, IInv, TypeOK
  <2>4. CASE \E op \in Ops, R \in SUBSET Resources, block \in BOOLEAN :
               BeginMutation(s, op, R, block)
    <3>1. PICK op \in Ops, R \in SUBSET Resources, block \in BOOLEAN :
                 BeginMutation(s, op, R, block)
      BY <2>4
    <3>2. tx'[s] = [kind |-> "mutate", pc |-> "locking", res |-> R, op |-> op,
                    block |-> block]
          /\ \A o \in Sessions \ {s} : tx'[o] = tx[o]
      BY <3>1 DEF BeginMutation, IInv, TypeOK
    <3>3. tx'[s].pc = "locking" /\ tx'[s].kind # "none"
      BY <3>2
    <3>4. Ready(s) /\ held' = held
      BY <3>1 DEF BeginMutation
    <3>5. QED
      BY <2>4, <3>2, <3>3, <3>4 DEF TxBegins
  <2>5. CASE Validate(s) \/ SendCommit(s)
    <3>1. \E pc \in {"validated", "committing"} : tx' = [tx EXCEPT ![s].pc = pc]
      BY <2>5 DEF Validate, SendCommit
    <3>2. /\ tx'[s].kind = tx[s].kind /\ tx'[s].res = tx[s].res /\ tx'[s].op = tx[s].op
          /\ \A o \in Sessions \ {s} : tx'[o] = tx[o]
      BY <3>1 DEF IInv, TypeOK, Transactions
    <3>3. held' = held
      BY <2>5 DEF Validate, SendCommit
    <3>4. tx[s].kind # "none"
      BY <2>5 DEF Validate, SendCommit, Locked, IInv, PastHolds, Past
    <3>5. QED
      BY <2>5, <3>2, <3>3, <3>4 DEF TxAdvances
  <2>6. CASE Refuse(s) \/ Grant(s) \/ Commit(s) \/ RollBack(s)
    BY <2>6 DEF Refuse, Grant, Commit, RollBack, TxEnds
  <2>7. QED
    BY <1>3, <2>1, <2>2, <2>3, <2>4, <2>5, <2>6 DEF ClientStep, TxStep
<1>4. QED
  BY <1>1, <1>2, <1>3 DEF Next

\* Application locks are taken by TakeLock and dropped at the end.
LEMMA HeldChanges ==
  ASSUME IInv, [Next]_vars, TxStays
  PROVE  held' = held \/ \E s \in Sessions : TakeLock(s) \/ EndTx(s)
<1>1. CASE UNCHANGED vars
  BY <1>1 DEF vars, running
<1>2. CASE \E r \in Resources : Expire(r)
  BY <1>2 DEF Expire, running
<1>3. ASSUME NEW s \in Sessions, ClientStep(s) \/ TxStep(s) \/ GoStale(s)
      PROVE  held' = held \/ TakeLock(s) \/ EndTx(s)
  <2>1. CASE \/ Open(s) \/ Heartbeat(s) \/ Refresh(s) \/ Expired(s) \/ Close(s)
             \/ LoseConnection(s) \/ GoStale(s)
             \/ \E r \in Resources : Release(s, r)
             \/ \E op \in Ops : QueryOperation(s, op)
    BY <2>1 DEF Open, Heartbeat, Refresh, Expired, Close, LoseConnection, GoStale, Release,
                QueryOperation, running
  <2>2. CASE \/ \E R \in SUBSET Resources : BeginAcquire(s, R)
             \/ \E op \in Ops, R \in SUBSET Resources, block \in BOOLEAN :
                  BeginMutation(s, op, R, block)
             \/ Validate(s) \/ SendCommit(s)
    BY <2>2 DEF BeginAcquire, BeginMutation, Validate, SendCommit
  <2>3. CASE Refuse(s) \/ Grant(s) \/ Commit(s) \/ RollBack(s) \/ TakeLock(s)
    BY <2>3 DEF Refuse, Grant, Commit, RollBack
  <2>4. QED
    BY <1>3, <2>1, <2>2, <2>3 DEF ClientStep, TxStep
<1>4. QED
  BY <1>1, <1>2, <1>3 DEF Next

\* The locks a session holds are in the modes its transaction wants.
LEMMA HeldAsWantedStep ==
  ASSUME IInv, [Next]_vars
  PROVE  HeldAsWanted'
<1> SUFFICES ASSUME NEW o \in Sessions, NEW r \in Resources
             PROVE  held'[o][r] \in {"none", Wanted(tx'[o], r)}
  BY DEF HeldAsWanted
<1>1. held[o][r] \in {"none", Wanted(tx[o], r)}
  BY DEF IInv, HeldAsWanted
<1>2. TypeOK
  BY DEF IInv
<1>3. ASSUME NEW s \in Sessions, TxEnds(s)
      PROVE  held'[o][r] \in {"none", Wanted(tx'[o], r)}
  BY <1>1, <1>2, <1>3, EndTxFrees DEF TxEnds
<1>4. ASSUME NEW s \in Sessions, TxBegins(s)
      PROVE  held'[o][r] \in {"none", Wanted(tx'[o], r)}
  <2>1. tx[s] = NoTx
    BY <1>4 DEF TxBegins, Ready, IInv, IdleIsEmpty
  <2>2. o = s => held[o][r] = "none"
    BY <1>1, <2>1, NoTxType DEF Wanted
  <2>3. QED
    BY <1>1, <1>4, <2>2 DEF TxBegins
<1>5. ASSUME NEW s \in Sessions, TxAdvances(s)
      PROVE  held'[o][r] \in {"none", Wanted(tx'[o], r)}
  BY <1>1, <1>5 DEF TxAdvances, Wanted
<1>6. ASSUME TxStays
      PROVE  held'[o][r] \in {"none", Wanted(tx'[o], r)}
  <2>1. CASE held' = held
    BY <1>1, <1>6, <2>1 DEF TxStays
  <2>2. ASSUME NEW s \in Sessions, TakeLock(s)
        PROVE  held'[o][r] \in {"none", Wanted(tx'[o], r)}
    BY <1>1, <1>2, <1>6, <2>2 DEF TakeLock, TxStays, TypeOK
  <2>3. ASSUME NEW s \in Sessions, EndTx(s)
        PROVE  held'[o][r] \in {"none", Wanted(tx'[o], r)}
    BY <1>1, <1>2, <2>3, EndTxFrees
  <2>4. QED
    BY <1>6, <2>1, <2>2, <2>3, HeldChanges
<1>7. QED
  BY <1>3, <1>4, <1>5, <1>6, TxChanges

\* A step keeps exclusive application locks exclusive.
LEMMA ExclusiveStep ==
  ASSUME IInv, [Next]_vars
  PROVE  Exclusive'
<1> SUFFICES ASSUME NEW p \in Sessions, NEW o \in Sessions, p # o, NEW r \in Resources,
                    held'[p][r] = "exclusive"
             PROVE  held'[o][r] = "none"
  BY DEF Exclusive
<1>1. /\ held[p][r] = "exclusive" => held[o][r] = "none"
      /\ held[o][r] = "exclusive" => held[p][r] = "none"
  BY DEF IInv, Exclusive
<1>2. TypeOK
  BY DEF IInv
<1>3. ASSUME NEW s \in Sessions, TakeLock(s)
      PROVE  held'[o][r] = "none"
  <2>1. PICK q \in Resources :
          /\ Compatible(s, q, Wanted(tx[s], q))
          /\ held' = [held EXCEPT ![s][q] = Wanted(tx[s], q)]
          /\ Wanted(tx[s], q) # "none"
    BY <1>3 DEF TakeLock, NextLock, Missing
  <2>2. CASE q # r
    BY <1>1, <1>2, <2>1, <2>2 DEF TypeOK
  <2>3. CASE q = r /\ s = p
    <3>1. Wanted(tx[s], q) = "exclusive"
      BY <1>2, <2>1, <2>3 DEF TypeOK
    <3>2. QED
      BY <1>2, <2>1, <2>3, <3>1 DEF Compatible, TypeOK
  <2>4. CASE q = r /\ s = o
    BY <1>2, <2>1, <2>4 DEF Compatible, TypeOK
  <2>5. CASE s # p /\ s # o
    BY <1>1, <1>2, <2>1, <2>5 DEF TypeOK
  <2>6. QED
    BY <2>2, <2>3, <2>4, <2>5
<1>4. ASSUME NEW s \in Sessions, EndTx(s)
      PROVE  held'[o][r] = "none"
  BY <1>1, <1>2, <1>4, EndTxFrees
<1>5. CASE held' = held
  BY <1>1, <1>5
<1>6. QED
  BY <1>3, <1>4, <1>5, TxChanges, HeldChanges DEF TxEnds, TxBegins, TxAdvances

\* A step leaves no application lock outside a transaction.
LEMMA IdleIsEmptyStep ==
  ASSUME IInv, [Next]_vars
  PROVE  IdleIsEmpty'
<1> SUFFICES ASSUME NEW o \in Sessions, tx'[o].kind = "none" \/ client'[o] = "none"
             PROVE  tx'[o] = NoTx
  BY DEF IdleIsEmpty
<1>1. TypeOK /\ IdleIsEmpty
  BY DEF IInv
<1>2. client'[o] = "none" => client[o] = "none"
  BY <1>1, ZenonT(60) DEF Next, ClientStep, TxStep, Open, Heartbeat, Refresh, Expired, Close, LoseConnection,
              Release, BeginAcquire, BeginMutation, QueryOperation, TakeLock, Grant, Validate,
              SendCommit, Commit, RollBack, Refuse, GoStale, Expire, vars, clients, queries, TypeOK
<1>3. ASSUME NEW s \in Sessions, TxEnds(s)
      PROVE  tx'[o] = NoTx
  BY <1>1, <1>2, <1>3, EndTxFrees DEF TxEnds, IdleIsEmpty
<1>4. ASSUME NEW s \in Sessions, TxBegins(s)
      PROVE  tx'[o] = NoTx
  BY <1>1, <1>2, <1>4 DEF TxBegins, IdleIsEmpty, Ready
<1>5. ASSUME NEW s \in Sessions, TxAdvances(s)
      PROVE  tx'[o] = NoTx
  BY <1>1, <1>2, <1>5, NoTxType DEF TxAdvances, IdleIsEmpty
<1>6. CASE TxStays
  BY <1>1, <1>2, <1>6 DEF TxStays, IdleIsEmpty
<1>7. QED
  BY <1>3, <1>4, <1>5, <1>6, TxChanges

\* A step leaves every transaction that has taken all its locks with all of them.
LEMMA PastHoldsStep ==
  ASSUME IInv, [Next]_vars
  PROVE  PastHolds'
<1> SUFFICES ASSUME NEW o \in Sessions, Past(o)'
             PROVE  tx'[o].kind = "mutate" /\ Missing(o)' = {}
  BY DEF PastHolds
<1>1. TypeOK /\ PastHolds
  BY DEF IInv
<1>2. Past(o) => tx[o].kind = "mutate" /\ Missing(o) = {}
  BY <1>1 DEF PastHolds
<1>3. ASSUME tx'[o] = tx[o], held'[o] = held[o]
      PROVE  tx'[o].kind = "mutate" /\ Missing(o)' = {}
  BY <1>2, <1>3 DEF Past, Missing, Wanted
<1>4. ASSUME NEW s \in Sessions, EndTx(s)
      PROVE  tx'[o].kind = "mutate" /\ Missing(o)' = {}
  <2>1. o # s
    BY <1>1, <1>4, EndTxFrees DEF Past, NoTx
  <2>2. QED
    BY <1>1, <1>3, <1>4, <2>1, EndTxFrees
<1>5. ASSUME NEW s \in Sessions, TxBegins(s)
      PROVE  tx'[o].kind = "mutate" /\ Missing(o)' = {}
  BY <1>3, <1>5 DEF TxBegins, Past
<1>6. ASSUME NEW s \in Sessions, TxAdvances(s)
      PROVE  tx'[o].kind = "mutate" /\ Missing(o)' = {}
  <2>1. CASE o # s
    BY <1>3, <1>6, <2>1 DEF TxAdvances
  <2>2. CASE o = s
    <3>1. tx[s].kind = "mutate" /\ Missing(s) = {}
      BY <1>1, <1>6 DEF TxAdvances, Validate, SendCommit, Locked, PastHolds, Past
    <3>2. QED
      BY <1>6, <2>2, <3>1 DEF TxAdvances, Missing, Wanted
  <2>3. QED
    BY <2>1, <2>2
<1>7. ASSUME NEW s \in Sessions, TakeLock(s), TxStays
      PROVE  tx'[o].kind = "mutate" /\ Missing(o)' = {}
  <2>1. o # s
    BY <1>7 DEF TakeLock, TxStays, Past
  <2>2. held'[o] = held[o]
    BY <1>1, <1>7, <2>1 DEF TakeLock, TypeOK
  <2>3. QED
    BY <1>3, <1>7, <2>2 DEF TxStays
<1>8. QED
  BY <1>3, <1>4, <1>5, <1>6, <1>7, TxChanges, HeldChanges DEF TxEnds, TxStays

-----------------------------------------------------------------------------
(* Application locks keep what a transaction checked. *)

\* No other session holds exclusively what a transaction past its checks relies on.
LEMMA PastShields ==
  ASSUME IInv, NEW s \in Sessions, NEW o \in Sessions, s # o, Past(s),
         NEW r \in Resources, r \in tx[s].res \/ r = Bid
  PROVE  /\ held[o][r] # "exclusive"
         /\ r \in tx[s].res => held[o][r] = "none"
         /\ Missing(o) = {} => r \notin tx[o].res
<1>1. held[s][r] # "none"
  BY DEF IInv, PastHolds, Missing, Wanted
<1>2. held[s][r] = Wanted(tx[s], r)
  BY <1>1 DEF IInv, HeldAsWanted
<1>3. held[o][r] # "exclusive"
  BY <1>1 DEF IInv, Exclusive
<1>4. r \in tx[s].res => held[o][r] = "none"
  BY <1>2 DEF IInv, Exclusive, Wanted
<1>5. ASSUME Missing(o) = {}, r \in tx[o].res
      PROVE  FALSE
  <2>1. Wanted(tx[o], r) = "exclusive"
    BY <1>5 DEF Wanted
  <2>2. held[o][r] = "exclusive"
    BY <1>5, <2>1 DEF Missing, IInv, HeldAsWanted
  <2>3. QED
    BY <1>3, <2>2
<1>6. QED
  BY <1>3, <1>4, <1>5

\* A transaction works on resources of the database.
LEMMA ResourcesOf ==
  ASSUME TypeOK, NEW s \in Sessions
  PROVE  tx[s].res \subseteq Resources /\ Bid \in Resources /\ Items \subseteq Resources
BY DEF TypeOK, Transactions, Resources

\* Only a grant makes a lock that another session did not have.
LEMMA NewLocks ==
  ASSUME IInv, [Next]_vars, NEW s \in Sessions, NEW r \in Resources,
         OwnedByOther(s, r)', ~OwnedByOther(s, r)
  PROVE  \E o \in Sessions \ {s} : Grant(o) /\ r \in tx[o].res
<1>1. TypeOK
  BY DEF IInv
<1>2. /\ lock'[r] # lock[r] /\ lock'[r] # NoLock
      /\ lock'[r] # [lock[r] EXCEPT !.live = FALSE]
  <2>1. lock[r] \in Locks
    BY <1>1 DEF TypeOK
  <2>2. ~[lock[r] EXCEPT !.live = FALSE].live
    BY <2>1 DEF Locks
  <2>3. lock'[r].live /\ ~NoLock.live
    BY DEF OwnedByOther, NoLock
  <2>4. lock'[r] # lock[r]
    BY DEF OwnedByOther
  <2>5. QED
    BY <2>2, <2>3, <2>4
<1>3. LocksCleaned(RowsCleaned)[r] \in {lock[r], NoLock}
  BY <1>1, CleanedType, RowsCleanedType
<1>4. ~UNCHANGED vars
  BY <1>2 DEF vars, database
<1>5. ASSUME NEW q \in Resources, Expire(q)
      PROVE  FALSE
  <2>1. lock' = [lock EXCEPT ![q] = [lock[q] EXCEPT !.live = FALSE]]
    BY <1>5 DEF Expire
  <2>2. QED
    BY <1>1, <1>2, <2>1 DEF TypeOK
<1>6. ASSUME NEW o \in Sessions, ClientStep(o) \/ TxStep(o) \/ GoStale(o)
      PROVE  Grant(o) /\ o # s /\ r \in tx[o].res
  <2>1. CASE \/ Refresh(o) \/ Expired(o) \/ GoStale(o) \/ LoseConnection(o) \/ TakeLock(o)
             \/ Refuse(o) \/ Validate(o) \/ SendCommit(o) \/ RollBack(o)
             \/ \E op \in Ops : QueryOperation(o, op)
             \/ \E R \in SUBSET Resources : BeginAcquire(o, R)
             \/ \E op \in Ops, R \in SUBSET Resources, block \in BOOLEAN :
                  BeginMutation(o, op, R, block)
    BY <1>2, <2>1 DEF Refresh, Expired, GoStale, LoseConnection, TakeLock, Refuse, Validate,
                      SendCommit, RollBack, QueryOperation, BeginAcquire, BeginMutation, database
  <2>2. CASE Open(o) \/ Heartbeat(o)
    BY <1>2, <1>3, <2>2 DEF Open, Heartbeat
  <2>3. CASE Close(o) \/ Commit(o) \/ \E q \in Resources : Release(o, q)
    BY <1>1, <1>2, <2>3 DEF Close, Commit, Release, TypeOK
  <2>4. CASE Grant(o)
    <3>1. r \in tx[o].res
      BY <1>2, <1>3, <2>4 DEF Grant
    <3>2. lock'[r].owner = o
      <4>1. lock'[r] # LocksCleaned(RowsCleaned)[r]
        BY <1>2, <1>3
      <4>2. QED
        BY <2>4, <4>1 DEF Grant
    <3>3. QED
      BY <2>4, <3>1, <3>2 DEF OwnedByOther
  <2>5. QED
    BY <1>6, <2>1, <2>2, <2>3, <2>4 DEF ClientStep, TxStep
<1>7. QED
  BY <1>4, <1>5, <1>6 DEF Next

\* A step brings no foreign edit lock under a transaction past its checks.
LEMMA PastExcludesStep ==
  ASSUME IInv, [Next]_vars
  PROVE  PastExcludes'
<1> SUFFICES ASSUME NEW s \in Sessions, Past(s)', NEW r \in tx'[s].res
             PROVE  ~OwnedByOther(s, r)' /\ ~OwnedByOther(s, Bid)'
  BY DEF PastExcludes
<1>1. TypeOK
  BY DEF IInv
<1>2. tx'[s].res = tx[s].res /\ (Past(s) \/ Validate(s))
  BY <1>1, TxChanges, EndTxFrees
     DEF TxStays, TxEnds, TxBegins, TxAdvances, Past, NoTx, Validate, SendCommit
<1>3. r \in Resources /\ Bid \in Resources
  BY <1>1, <1>2, ResourcesOf
<1>4. CASE Validate(s)
  <2>1. ~OwnedByOther(s, r)
    BY <1>2, <1>4 DEF Validate, Valid
  <2>2. ~OwnedByOther(s, Bid)
    <3>1. CASE r = Bid
      BY <2>1, <3>1
    <3>2. CASE r # Bid
      <4>1. tx[s].res \cap Items # {}
        BY <1>2, <1>3, <3>2 DEF Resources
      <4>2. QED
        BY <1>4, <4>1 DEF Validate, Valid
    <3>3. QED
      BY <3>1, <3>2
  <2>3. lock' = lock
    BY <1>4 DEF Validate, database
  <2>4. QED
    BY <2>1, <2>2, <2>3 DEF OwnedByOther
<1>5. CASE Past(s)
  <2>1. ~OwnedByOther(s, r) /\ ~OwnedByOther(s, Bid)
    BY <1>2, <1>5 DEF IInv, PastExcludes
  <2>2. ASSUME NEW q \in {r, Bid}, OwnedByOther(s, q)'
        PROVE  FALSE
    <3>1. PICK o \in Sessions \ {s} : Grant(o) /\ q \in tx[o].res
      BY <1>3, <2>1, <2>2, NewLocks
    <3>2. Missing(o) = {}
      BY <3>1 DEF Grant, Locked
    <3>3. QED
      BY <1>2, <1>3, <1>5, <3>1, <3>2, PastShields
  <2>3. QED
    BY <2>2
<1>6. QED
  BY <1>2, <1>4, <1>5

\* Versions change with commits only, and only those the committing session wrote.
LEMMA VersionChanges ==
  ASSUME IInv, [Next]_vars, version' # version
  PROVE  \E s \in Sessions :
           /\ Commit(s)
           /\ \A r \in Resources : version'[r] # version[r] => r \in tx[s].res
<1>1. ASSUME NEW s \in Sessions, ClientStep(s) \/ TxStep(s) \/ GoStale(s)
      PROVE  Commit(s)
  BY <1>1 DEF ClientStep, TxStep, Open, Heartbeat, Refresh, Expired, Close, LoseConnection,
              Release, BeginAcquire, BeginMutation, QueryOperation, TakeLock, Grant, Validate,
              SendCommit, RollBack, Refuse, GoStale, database
<1>2. \E s \in Sessions : Commit(s)
  BY <1>1 DEF Next, Expire, vars, database
<1>3. QED
  BY <1>2 DEF Commit

\* A session past its checks never refreshes the versions it expects.
LEMMA SeenChanges ==
  ASSUME IInv, [Next]_vars, NEW s \in Sessions, Past(s), tx' = tx \/ tx'[s] # NoTx,
         NEW r \in tx[s].res
  PROVE  seen'[s][r] = seen[s][r]
<1>1. TypeOK /\ r \in Resources
  BY ResourcesOf DEF IInv
<1>2. tx[s].kind = "mutate" /\ tx[s] # NoTx /\ client[s] # "none"
  BY NoTxType DEF IInv, PastHolds, IdleIsEmpty
<1>3. ~Ready(s)
  BY <1>2 DEF Ready
<1>4. CASE UNCHANGED vars
  BY <1>4 DEF vars, clients
<1>5. CASE \E q \in Resources : Expire(q)
  BY <1>5 DEF Expire, clients
<1>6. ASSUME NEW o \in Sessions, ClientStep(o) \/ TxStep(o) \/ GoStale(o)
      PROVE  seen'[s][r] = seen[s][r]
  <2>1. CASE \/ Heartbeat(o) \/ GoStale(o) \/ TakeLock(o) \/ Refuse(o) \/ Validate(o)
             \/ SendCommit(o) \/ Grant(o)
             \/ \E q \in Resources : Release(o, q)
             \/ \E op \in Ops : QueryOperation(o, op)
             \/ \E R \in SUBSET Resources : BeginAcquire(o, R)
             \/ \E op \in Ops, R \in SUBSET Resources, block \in BOOLEAN :
                  BeginMutation(o, op, R, block)
    BY <2>1 DEF Heartbeat, GoStale, TakeLock, Refuse, Validate, SendCommit, Grant, Release,
                QueryOperation, BeginAcquire, BeginMutation, clients
  <2>2. CASE Open(o)
    BY <1>1, <1>2, <2>2 DEF Open, TypeOK
  <2>3. CASE Refresh(o)
    BY <1>1, <1>2, <2>3 DEF Refresh, Refreshable, TypeOK
  <2>4. CASE Expired(o) \/ Close(o) \/ LoseConnection(o)
    BY <1>1, <1>2, <1>3, <2>4 DEF Expired, Close, LoseConnection, Forget, TypeOK
  <2>5. ASSUME RollBack(o) \/ Commit(o)
        PROVE  seen'[s][r] = seen[s][r]
    <3>1. EndTx(o) /\ tx[o].kind # "none"
      BY <2>5 DEF RollBack, Commit, IInv, PastHolds, Past
    <3>2. o # s
      BY <1>1, <1>2, <3>1, NoTxType, EndTxFrees
    <3>3. QED
      BY <1>1, <2>5, <3>2 DEF RollBack, Commit, Forget, TypeOK
  <2>6. QED
    BY <1>6, <2>1, <2>2, <2>3, <2>4, <2>5 DEF ClientStep, TxStep
<1>7. QED
  BY <1>4, <1>5, <1>6 DEF Next

\* A step brings no newer version under a transaction past its checks.
LEMMA PastCurrentStep ==
  ASSUME IInv, [Next]_vars
  PROVE  PastCurrent'
<1> SUFFICES ASSUME NEW s \in Sessions, Past(s)', NEW r \in tx'[s].res
             PROVE  seen'[s][r] = version'[r]
  BY DEF PastCurrent
<1>1. TypeOK
  BY DEF IInv
<1>2. /\ tx'[s].res = tx[s].res /\ (Past(s) \/ Validate(s))
      /\ tx'[s] # NoTx
  BY <1>1, TxChanges, EndTxFrees
     DEF TxStays, TxEnds, TxBegins, TxAdvances, Past, NoTx, Validate, SendCommit
<1>3. r \in Resources
  BY <1>1, <1>2, ResourcesOf
<1>4. CASE Validate(s)
  BY <1>2, <1>4 DEF Validate, Valid, database, clients
<1>5. CASE Past(s)
  <2>1. seen'[s][r] = seen[s][r]
    BY <1>2, <1>5, SeenChanges
  <2>2. seen[s][r] = version[r]
    BY <1>2, <1>5 DEF IInv, PastCurrent
  <2>3. ASSUME version'[r] # version[r]
        PROVE  FALSE
    <3>1. PICK o \in Sessions : Commit(o) /\ r \in tx[o].res
      BY <1>3, <2>3, VersionChanges
    <3>2. o # s
      BY <1>1, <1>2, <3>1, EndTxFrees DEF Commit
    <3>3. Missing(o) = {}
      BY <3>1 DEF Commit, IInv, PastHolds, Past
    <3>4. QED
      BY <1>2, <1>3, <1>5, <3>1, <3>2, <3>3, PastShields
  <2>4. QED
    BY <2>1, <2>2, <2>3
<1>6. QED
  BY <1>2, <1>4, <1>5

-----------------------------------------------------------------------------
(* Operations *)

\* A step leaves every operation with at most one transaction.
LEMMA OneHolderStep ==
  ASSUME IInv, [Next]_vars
  PROVE  OneHolder'
<1> SUFFICES ASSUME NEW p \in Sessions, NEW o \in Sessions, p # o, tx'[p].op # NoOp
             PROVE  tx'[o].op # tx'[p].op
  BY DEF OneHolder
<1>1. TypeOK /\ (tx[p].op # NoOp => tx[o].op # tx[p].op)
      /\ (tx[o].op # NoOp => tx[o].op # tx[p].op)
  BY DEF IInv, OneHolder
<1>2. ASSUME NEW s \in Sessions, EndTx(s)
      PROVE  tx'[o].op # tx'[p].op
  BY <1>1, <1>2, EndTxFrees, NoTxType
<1>3. ASSUME NEW s \in Sessions, TxBegins(s)
      PROVE  tx'[o].op # tx'[p].op
  <2>1. CASE \E R \in SUBSET Resources : BeginAcquire(s, R)
    <3>1. tx'[s].op = NoOp
      BY <1>1, <2>1 DEF BeginAcquire, NoTx, TypeOK
    <3>2. QED
      BY <1>1, <1>3, <3>1 DEF TxBegins
  <2>2. CASE \E op \in Ops, R \in SUBSET Resources, block \in BOOLEAN :
               BeginMutation(s, op, R, block)
    <3>1. PICK op \in Ops, R \in SUBSET Resources, block \in BOOLEAN :
                 BeginMutation(s, op, R, block)
      BY <2>2
    <3>2. tx'[s].op = op /\ ~OperationHeld(op)
      BY <1>1, <3>1 DEF BeginMutation, TypeOK
    <3>3. \A q \in Sessions \ {s} : tx'[q] = tx[q] /\ tx[q].op # op
      BY <1>3, <3>2 DEF TxBegins, OperationHeld
    <3>4. QED
      BY <1>1, <3>2, <3>3
  <2>3. QED
    BY <1>3, <2>1, <2>2 DEF TxBegins
<1>4. ASSUME NEW s \in Sessions, TxAdvances(s)
      PROVE  tx'[o].op # tx'[p].op
  BY <1>1, <1>4 DEF TxAdvances
<1>5. CASE TxStays
  BY <1>1, <1>5 DEF TxStays
<1>6. QED
  BY <1>2, <1>3, <1>4, <1>5, TxChanges DEF TxEnds

\* Who adds to the operations reported as not found, and to the committed ones.
LEMMA VerdictChanges ==
  ASSUME IInv, [Next]_vars, NEW op \in Ops
  PROVE  /\ op \in absent' /\ op \notin absent => ~OperationHeld(op) /\ marker[op] = {}
         /\ marker'[op] # marker[op] =>
              \E s \in Sessions : Commit(s) /\ tx[s].op = op /\ absent' = absent
<1>1. CASE UNCHANGED vars
  BY <1>1 DEF vars, database, queries
<1>2. CASE \E r \in Resources : Expire(r)
  BY <1>2 DEF Expire, queries
<1>3. ASSUME NEW s \in Sessions, ClientStep(s) \/ TxStep(s) \/ GoStale(s)
      PROVE  \/ marker' = marker /\ absent' = absent
             \/ Commit(s)
             \/ \E p \in Ops : QueryOperation(s, p)
  BY <1>3 DEF ClientStep, TxStep, Open, Heartbeat, Refresh, Expired, Close, LoseConnection,
              Release, BeginAcquire, BeginMutation, TakeLock, Grant, Validate, SendCommit,
              RollBack, Refuse, GoStale, database, queries
<1>4. ASSUME NEW s \in Sessions, Commit(s)
      PROVE  absent' = absent /\ (marker'[op] # marker[op] => tx[s].op = op)
  BY <1>4 DEF Commit, queries, IInv, TypeOK
<1>5. ASSUME NEW s \in Sessions, NEW p \in Ops, QueryOperation(s, p)
      PROVE  /\ marker' = marker
             /\ op \in absent' /\ op \notin absent => ~OperationHeld(op) /\ marker[op] = {}
  BY <1>5 DEF QueryOperation, Answerable, database
<1>6. QED
  BY <1>1, <1>2, <1>3, <1>4, <1>5 DEF Next

\* A step leaves an operation that a transaction carries out undecided.
LEMMA HeldIsOpenStep ==
  ASSUME IInv, [Next]_vars
  PROVE  HeldIsOpen'
<1> SUFFICES ASSUME NEW s \in Sessions, tx'[s].op # NoOp
             PROVE  tx'[s].op \notin absent' /\ marker'[tx'[s].op] = {}
  BY DEF HeldIsOpen
<1>1. TypeOK
  BY DEF IInv
<1>2. CASE tx'[s].op = tx[s].op
  <2> DEFINE op == tx[s].op
  <2>1. op \in Ops /\ op \notin absent /\ marker[op] = {} /\ OperationHeld(op)
    BY <1>1, <1>2 DEF TypeOK, Transactions, IInv, HeldIsOpen, OperationHeld
  <2>2. op \notin absent'
    BY <2>1, VerdictChanges
  <2>3. marker'[op] = marker[op]
    <3>1. SUFFICES ASSUME marker'[op] # marker[op] PROVE FALSE
      OBVIOUS
    <3>2. PICK o \in Sessions : Commit(o) /\ tx[o].op = op
      BY <2>1, <3>1, VerdictChanges
    <3>3. o # s
      BY <1>1, <1>2, <3>2, EndTxFrees, NoTxType DEF Commit
    <3>4. QED
      BY <1>2, <3>2, <3>3 DEF IInv, OneHolder
  <2>4. QED
    BY <1>2, <2>1, <2>2, <2>3
<1>3. CASE tx'[s].op # tx[s].op
  <2>1. TxBegins(s)
    BY <1>1, <1>3, TxChanges, EndTxFrees, NoTxType DEF TxStays, TxEnds, TxBegins, TxAdvances
  <2>2. PICK op \in Ops, R \in SUBSET Resources, block \in BOOLEAN :
               BeginMutation(s, op, R, block)
    <3>1. ASSUME NEW R \in SUBSET Resources, BeginAcquire(s, R)
          PROVE  FALSE
      BY <1>1, <3>1 DEF BeginAcquire, NoTx, TypeOK
    <3>2. QED
      BY <2>1, <3>1 DEF TxBegins
  <2>3. tx'[s].op = op /\ op \notin absent /\ marker[op] = {}
    BY <1>1, <2>2 DEF BeginMutation, Admissible, TypeOK
  <2>4. absent' = absent /\ marker' = marker
    BY <2>2 DEF BeginMutation, database, queries
  <2>5. QED
    BY <2>3, <2>4
<1>4. QED
  BY <1>2, <1>3

\* A step commits no operation that was reported as not found.
LEMMA AbsentStep ==
  ASSUME IInv, [Next]_vars
  PROVE  AbsentStaysAbsent'
<1> SUFFICES ASSUME NEW op \in absent'
             PROVE  marker'[op] = {}
  BY DEF AbsentStaysAbsent
<1>1. op \in Ops
  <2>1. TypeOK'
    BY StepType DEF IInv
  <2>2. QED
    BY <2>1 DEF TypeOK
<1>2. marker[op] = {}
  BY <1>1, VerdictChanges DEF IInv, AbsentStaysAbsent
<1>3. ASSUME marker'[op] # marker[op]
      PROVE  FALSE
  <2>1. PICK s \in Sessions : Commit(s) /\ tx[s].op = op /\ absent' = absent
    BY <1>1, <1>3, VerdictChanges
  <2>2. op # NoOp
    BY <1>1, NamesAssumption
  <2>3. QED
    BY <2>1, <2>2 DEF IInv, HeldIsOpen
<1>4. QED
  BY <1>2, <1>3

-----------------------------------------------------------------------------
(* The results *)

\* Every step keeps the invariant.
LEMMA StepSafe == IInv /\ [Next]_vars => IInv'
<1> SUFFICES ASSUME IInv, [Next]_vars PROVE IInv'
  OBVIOUS
<1>1. TypeOK'
  BY StepType DEF IInv
<1>2. QED
  BY <1>1, IdleIsEmptyStep, HeldAsWantedStep, ExclusiveStep, PastHoldsStep, PastExcludesStep,
     PastCurrentStep, OneHolderStep, HeldIsOpenStep, AbsentStep DEF IInv

\* The inductive invariant holds in every behaviour of acquire_locks, the writer's
\* transactions and their recovery: what a transaction checked stays true until it ends.
THEOREM InvariantCorrect == Spec => []IInv
BY InitSafe, StepSafe, PTL DEF Spec

\* The commit that a step makes is the one of the session it belongs to.
LEMMA CommitsIsCommit ==
  ASSUME IInv, [Next]_vars, NEW s \in Sessions, Commits(s)
  PROVE  /\ Past(s)
         /\ \A r \in Resources : version'[r] # version[r] => r \in tx[s].res
<1>1. TypeOK /\ Past(s)
  BY DEF IInv, Commits, Past
<1>2. PICK o \in Sessions :
        /\ Commit(o)
        /\ \A r \in Resources : version'[r] # version[r] => r \in tx[o].res
  BY VersionChanges DEF Commits
<1>3. o = s
  <2>1. tx[s] # NoTx
    BY DEF Commits, NoTx
  <2>2. EndTx(o)
    BY <1>2 DEF Commit
  <2>3. QED
    BY <1>1, <2>1, <2>2, EndTxFrees DEF Commits
<1>4. QED
  BY <1>1, <1>2, <1>3

\* An unexpired edit lock keeps every other session from committing a change of its
\* resource or, if it is the bid's, of any item, although _validate_mutation_locks
\* looked the locks up before the operation ran.
THEOREM LeasesCorrect == Spec => LeasesExclude
<1>1. IInv /\ [Next]_vars =>
        [\A s \in Sessions : Commits(s) =>
           \A r \in Resources : version'[r] # version[r] =>
             ~OwnedByOther(s, r) /\ ~OwnedByOther(s, Bid)]_vars
  BY CommitsIsCommit DEF IInv, PastExcludes
<1>2. QED
  BY <1>1, InvariantCorrect, PTL DEF Spec, LeasesExclude

\* A write only replaces the version its client had seen: the versions compared before
\* the operation ran are those it overwrites.
THEOREM UpdatesCorrect == Spec => NoLostUpdate
<1>1. IInv /\ [Next]_vars =>
        [\A s \in Sessions : Commits(s) =>
           \A r \in Resources : version'[r] # version[r] => seen[s][r] = version[r]]_vars
  BY CommitsIsCommit DEF IInv, PastCurrent
<1>2. QED
  BY <1>1, InvariantCorrect, PTL DEF Spec, NoLostUpdate

\* An operation that query_operation did not find never commits later.
THEOREM AbsenceCorrect == Spec => []AbsentStaysAbsent
<1>1. IInv => AbsentStaysAbsent
  BY DEF IInv
<1>2. QED
  BY <1>1, InvariantCorrect, PTL

-----------------------------------------------------------------------------
(* Lock waits *)

\* What a waiting transaction holds comes before everything it still misses, and
\* the ranks of what is held at a time are bounded.
RankedHeld ==
  \A s \in Sessions : tx[s].pc = "locking" =>
    \A r \in Resources : held[s][r] # "none" => \A q \in Missing(s) : Rank[r] < Rank[q]
HeldBounded ==
  \E b \in Nat : \A s \in Sessions, r \in Resources : held[s][r] # "none" => Rank[r] <= b

WaitInv == IInv /\ RankedHeld /\ HeldBounded

\* No transaction holds or misses anything at first.
LEMMA InitRanked == Init => RankedHeld /\ HeldBounded
<1>1. Init => \A s \in Sessions, r \in Resources : held[s][r] = "none"
  BY DEF Init
<1>2. 0 \in Nat
  OBVIOUS
<1>3. QED
  BY <1>1, <1>2 DEF RankedHeld, HeldBounded

\* A session takes the missing lock of the lowest rank.
LEMMA TakeLockRanked ==
  ASSUME WaitInv, NEW s \in Sessions, TakeLock(s)
  PROVE  RankedHeld' /\ HeldBounded'
<1>1. TypeOK /\ tx' = tx
  BY DEF WaitInv, IInv, TakeLock
<1>2. PICK n \in Resources :
        /\ NextLock(s, n)
        /\ held' = [held EXCEPT ![s][n] = Wanted(tx[s], n)]
  BY DEF TakeLock
<1>3. /\ Wanted(tx[s], n) # "none" /\ n \in Missing(s)
      /\ held'[s][n] = Wanted(tx[s], n)
      /\ \A r \in Resources : r # n => held'[s][r] = held[s][r]
      /\ \A o \in Sessions : o # s => held'[o] = held[o]
  BY <1>1, <1>2 DEF TypeOK, NextLock, Missing
<1>4. Missing(s)' = Missing(s) \ {n}
  BY <1>1, <1>3 DEF Missing
<1>5. \A q \in Missing(s) \ {n} : Rank[n] < Rank[q]
  BY <1>2, <1>3, RankAssumption DEF NextLock, Missing
<1>6. RankedHeld'
  <2> SUFFICES ASSUME NEW o \in Sessions, tx'[o].pc = "locking",
                      NEW r \in Resources, held'[o][r] # "none", NEW q \in Missing(o)'
               PROVE  Rank[r] < Rank[q]
    BY DEF RankedHeld
  <2>1. CASE o # s
    <3>1. Missing(o)' = Missing(o)
      BY <1>1, <1>3, <2>1 DEF Missing
    <3>2. QED
      BY <1>1, <1>3, <2>1, <3>1 DEF WaitInv, RankedHeld
  <2>2. CASE o = s /\ r = n
    BY <1>4, <1>5, <2>2
  <2>3. CASE o = s /\ r # n
    BY <1>1, <1>3, <1>4, <2>3 DEF WaitInv, RankedHeld
  <2>4. QED
    BY <2>1, <2>2, <2>3
<1>7. HeldBounded'
  <2>1. PICK b \in Nat :
          \A o \in Sessions, r \in Resources : held[o][r] # "none" => Rank[r] <= b
    BY DEF WaitInv, HeldBounded
  <2> DEFINE c == IF Rank[n] <= b THEN b ELSE Rank[n]
  <2>2. c \in Nat /\ b <= c /\ Rank[n] <= c
    BY RankAssumption
  <2>3. \A o \in Sessions, r \in Resources : held'[o][r] # "none" => Rank[r] <= c
    <3> SUFFICES ASSUME NEW o \in Sessions, NEW r \in Resources, held'[o][r] # "none"
                 PROVE  Rank[r] <= c
      OBVIOUS
    <3>1. r = n \/ held[o][r] # "none"
      BY <1>3
    <3>2. Rank[r] \in Nat
      BY RankAssumption
    <3> HIDE DEF c
    <3>3. QED
      BY <2>1, <2>2, <3>1, <3>2
  <2>4. QED
    BY <2>2, <2>3 DEF HeldBounded
<1>8. QED
  BY <1>6, <1>7

\* Every step keeps the order of the locks held and missing.
LEMMA RankedStep ==
  ASSUME WaitInv, [Next]_vars
  PROVE  RankedHeld' /\ HeldBounded'
<1>1. TypeOK /\ IInv /\ RankedHeld
  BY DEF WaitInv, IInv
<1>2. ASSUME \A o \in Sessions, r \in Resources : held'[o][r] # "none" => held[o][r] # "none"
      PROVE  HeldBounded'
  BY <1>2 DEF WaitInv, HeldBounded
<1>3. ASSUME NEW s \in Sessions, EndTx(s)
      PROVE  RankedHeld' /\ HeldBounded'
  <2>1. HeldBounded'
    BY <1>1, <1>2, <1>3, EndTxFrees
  <2>2. ASSUME NEW o \in Sessions \ {s}
        PROVE  tx'[o] = tx[o] /\ held'[o] = held[o] /\ Missing(o)' = Missing(o)
    BY <1>1, <1>3, EndTxFrees DEF Missing
  <2>3. RankedHeld'
    BY <1>1, <1>3, <2>2, EndTxFrees DEF RankedHeld
  <2>4. QED
    BY <2>1, <2>3
<1>4. ASSUME NEW s \in Sessions, TxBegins(s)
      PROVE  RankedHeld' /\ HeldBounded'
  <2>1. tx[s] = NoTx
    BY <1>1, <1>4 DEF TxBegins, Ready, IInv, IdleIsEmpty
  <2>2. \A r \in Resources : held[s][r] = "none"
    BY <1>1, <2>1, NoTxType DEF IInv, HeldAsWanted, Wanted
  <2>3. ASSUME NEW o \in Sessions \ {s}
        PROVE  tx'[o] = tx[o] /\ Missing(o)' = Missing(o)
    BY <1>4 DEF TxBegins, Missing
  <2>4. RankedHeld'
    BY <1>1, <1>4, <2>2, <2>3 DEF RankedHeld, TxBegins
  <2>5. QED
    BY <1>2, <1>4, <2>4 DEF TxBegins
<1>5. ASSUME NEW s \in Sessions, TxAdvances(s)
      PROVE  RankedHeld' /\ HeldBounded'
  <2>1. tx'[s].pc # "locking"
    BY <1>1, <1>5 DEF TxAdvances, Validate, SendCommit, TypeOK, Transactions
  <2>2. ASSUME NEW o \in Sessions \ {s}
        PROVE  tx'[o] = tx[o] /\ Missing(o)' = Missing(o)
    BY <1>5 DEF TxAdvances, Missing
  <2>3. RankedHeld'
    BY <1>1, <1>5, <2>1, <2>2 DEF RankedHeld, TxAdvances
  <2>4. QED
    BY <1>2, <1>5, <2>3 DEF TxAdvances
<1>6. CASE TxStays
  <2>1. CASE held' = held
    BY <1>1, <1>2, <1>6, <2>1 DEF TxStays, RankedHeld, Missing
  <2>2. QED
    BY <1>1, <1>3, <1>6, <2>1, HeldChanges, TakeLockRanked
<1>7. QED
  BY <1>1, <1>3, <1>4, <1>5, <1>6, TxChanges DEF TxEnds

\* A nonempty set of natural numbers has a least one.
LEMMA Least ==
  ASSUME NEW T, T \subseteq Nat, T # {}
  PROVE  \E n \in T : \A m \in T : ~(m < n)
<1>1. PICK n \in T : \A m \in T : ~(<<m, n>> \in OpToRel(<, Nat))
  BY NatLessThanWellFounded, WFMin
<1>2. ASSUME NEW m \in T, m < n
      PROVE  FALSE
  <2>1. <<m, n>> \in OpToRel(<, Nat)
    BY <1>2 DEF OpToRel
  <2>2. QED
    BY <1>1, <2>1
<1>3. QED
  BY <1>2

\* Whoever is waited for waits for a lock of a higher rank, if at all.
LEMMA WaitsRise ==
  ASSUME WaitInv, NEW o \in Sessions, NEW p \in Sessions,
         NEW r \in Resources, held[o][r] # "none", Waits(o, p)
  PROVE  \E q \in Resources : NextLock(o, q) /\ held[p][q] # "none" /\ Rank[r] < Rank[q]
<1>1. PICK q \in Resources : NextLock(o, q) /\ held[p][q] # "none"
  BY DEF Waits
<1>2. tx[o].pc = "locking" /\ q \in Missing(o)
  BY <1>1 DEF Waits, NextLock
<1>3. QED
  BY <1>1, <1>2 DEF WaitInv, RankedHeld

\* The order of the locks admits no circle of waits.
LEMMA NoCircle == WaitInv => NoCircularWait
<1> SUFFICES ASSUME WaitInv, NEW S \in SUBSET Sessions, S # {},
                    \A s \in S : \E o \in S : Waits(s, o)
             PROVE  FALSE
  BY DEF NoCircularWait
<1>1. PICK b \in Nat :
        \A s \in Sessions, r \in Resources : held[s][r] # "none" => Rank[r] <= b
  BY DEF WaitInv, HeldBounded
<1> DEFINE Distances == {n \in Nat : \E o \in S, r \in Resources :
                                       held[o][r] # "none" /\ n = b - Rank[r]
                                       /\ \E s \in S : NextLock(s, r)}
<1>2. ASSUME NEW o \in S, NEW s \in S, NEW r \in Resources,
             held[o][r] # "none", NextLock(s, r)
      PROVE  b - Rank[r] \in Distances
  <2>1. Rank[r] \in Nat /\ Rank[r] <= b
    BY <1>1, <1>2, RankAssumption
  <2>2. b - Rank[r] \in Nat
    BY <2>1
  <2>3. QED
    BY <1>2, <2>2
<1>3. Distances # {}
  <2>1. PICK s \in S, o \in S : Waits(s, o)
    OBVIOUS
  <2>2. QED
    BY <1>2, <2>1 DEF Waits
<1>4. PICK n \in Distances : \A m \in Distances : ~(m < n)
  <2>1. Distances \subseteq Nat
    OBVIOUS
  <2> HIDE DEF Distances
  <2>2. QED
    BY <1>3, <2>1, Least
<1>5. PICK o \in S, r \in Resources : held[o][r] # "none" /\ n = b - Rank[r]
  BY <1>4
<1>6. PICK p \in S : Waits(o, p)
  OBVIOUS
<1>7. PICK q \in Resources : NextLock(o, q) /\ held[p][q] # "none" /\ Rank[r] < Rank[q]
  BY <1>5, <1>6, WaitsRise
<1>8. b - Rank[q] \in Distances
  BY <1>2, <1>7
<1>9. b - Rank[q] < n
  BY <1>5, <1>7, RankAssumption
<1>10. QED
  BY <1>4, <1>8, <1>9

\* Sessions that lock a bid and its items, for leases and for mutations, never wait for
\* each other in a circle: all take their application locks by resource_lock_sort_key.
THEOREM WaitsCorrect == Spec => []NoCircularWait
<1>1. Init => WaitInv
  BY InitSafe, InitRanked DEF WaitInv
<1>2. WaitInv /\ [Next]_vars => WaitInv'
  BY StepSafe, RankedStep DEF WaitInv
<1>3. QED
  BY <1>1, <1>2, NoCircle, PTL DEF Spec

-----------------------------------------------------------------------------
(* Versions and markers *)

\* The operations whose marker names a resource.
Changers(r) == {op \in Ops : r \in marker[op]}

\* Finitely many operations changed a resource, each once.
Counted ==
  \A r \in Resources : IsFiniteSet(Changers(r)) /\ version[r] = Cardinality(Changers(r))

\* A commit adds its operation to those that changed what it names, and no other does.
LEMMA CommitCounted ==
  ASSUME IInv, Counted, NEW s \in Sessions, Commit(s), NEW r \in Resources
  PROVE  IsFiniteSet(Changers(r)') /\ version'[r] = Cardinality(Changers(r)')
<1> DEFINE op == tx[s].op
<1>1. op \in Ops /\ marker[op] = {}
  <2>1. tx[s].kind = "mutate"
    BY DEF Commit, IInv, PastHolds, Past
  <2>2. op # NoOp /\ op \in Ops \cup {NoOp}
    BY <2>1 DEF IInv, TypeOK, Transactions
  <2>3. QED
    BY <2>2 DEF IInv, HeldIsOpen
<1>2. marker' = [marker EXCEPT ![op] = tx[s].res]
  BY DEF Commit
<1>3. version'[r] = IF r \in tx[s].res THEN version[r] + 1 ELSE version[r]
  BY DEF Commit
<1>4. op \notin Changers(r)
  BY <1>1 DEF Changers
<1>5. Changers(r)' = IF r \in tx[s].res THEN Changers(r) \cup {op} ELSE Changers(r)
  BY <1>1, <1>2 DEF Changers, IInv, TypeOK
<1>6. IsFiniteSet(Changers(r)) /\ version[r] = Cardinality(Changers(r))
  BY DEF Counted
<1> HIDE DEF op
<1>7. IsFiniteSet(Changers(r) \cup {op})
      /\ Cardinality(Changers(r) \cup {op}) = Cardinality(Changers(r)) + 1
  BY <1>4, <1>6, FS_AddElement
<1>8. CASE r \in tx[s].res
  BY <1>3, <1>5, <1>6, <1>7, <1>8
<1>9. CASE r \notin tx[s].res
  BY <1>3, <1>5, <1>6, <1>9
<1>10. QED
  BY <1>8, <1>9

\* Only a commit changes a version or a marker.
LEMMA CountedStep ==
  ASSUME IInv, Counted, [Next]_vars
  PROVE  Counted'
<1>1. ASSUME NEW s \in Sessions, Commit(s)
      PROVE  Counted'
  BY <1>1, CommitCounted DEF Counted
<1>2. CASE version' = version /\ \A op \in Ops : marker'[op] = marker[op]
  <2>1. \A r \in Resources : Changers(r)' = Changers(r)
    BY <1>2 DEF Changers
  <2>2. QED
    BY <1>2, <2>1 DEF Counted
<1>3. QED
  BY <1>1, <1>2, VersionChanges, VerdictChanges

\* Every committed operation changed each resource it names exactly once, and only
\* those: _finish_mutation writes the marker in the transaction of its effects.
THEOREM MarkersCorrect == Spec => []VersionsMatchMarkers
<1>1. Init => IInv /\ Counted
  <2>1. ASSUME Init, NEW r \in Resources
        PROVE  Changers(r) = {} /\ version[r] = 0
    BY <2>1 DEF Init, Changers
  <2>2. QED
    BY <2>1, InitSafe, FS_EmptySet DEF Counted
<1>2. IInv /\ Counted /\ [Next]_vars => IInv' /\ Counted'
  BY StepSafe, CountedStep
<1>3. Counted => VersionsMatchMarkers
  BY DEF Counted, Changers, VersionsMatchMarkers
<1>4. QED
  BY <1>1, <1>2, <1>3, PTL DEF Spec
===============================================================================
