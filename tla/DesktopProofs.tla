----------------------------- MODULE DesktopProofs -----------------------------
(***************************************************************************)
(* Proofs about Desktop, for any threads, surfaces, amounts of work and    *)
(* failures; and, from "Stacks" on, that UndoIsLastEdit and                *)
(* StacksTellTheTruth hold of it for any number of edits and size of the   *)
(* stacks.                                                                 *)
(***************************************************************************)
EXTENDS Desktop, FiniteSetTheorems, SequenceTheorems, WellFoundedInduction, TLAPS

-----------------------------------------------------------------------------
(* Access connections: the invariant. *)

Leased(t) == Mdb!Leased(t)

\* One thread at a time holds the lock of the path, and what it leased is pooled.
Locking ==
  \A t \in Threads :
    /\ Leased(t) <=> step[t] = "leasing"
    /\ Leased(t) =>
         /\ pool[lease[t].from] # None
         /\ lease[t].mode = "write" => lease[t].from = "writer"
         /\ \A u \in Threads : Leased(u) => u = t

\* Maintenance is announced before the file is closed, and the file stays closed.
Upkeep ==
  \A t \in Threads :
    /\ step[t] \in {"evicting", "maintaining"} =>
         /\ maintained
         /\ \A u \in Threads : ~Leased(u) /\ (step[u] \in {"evicting", "maintaining"} => u = t)
    /\ step[t] = "maintaining" => \A p \in Mdb!Pools : pool[p] = None

\* Whoever committed announces it: until reads use the writer, the thread that did is
\* known to be about to.
Announcing == \E u \in Threads : step[u] = "ack" \/ (Leased(u) /\ lease[u].committed)
Announced ==
  /\ pool["writer"] # None => ~pool["writer"]["behind"]
  /\ pool["reader"] # None /\ pool["reader"]["behind"] =>
       pool["reader"]["stuck"] \/ writerReads \/ Announcing

AccessInv ==
  /\ Mdb!TypeOK /\ Locking /\ Upkeep /\ Announced
  /\ BlockedMeansClosed /\ UnusableIsEvicted /\ ReadsSeeCommits

-----------------------------------------------------------------------------
(* Access connections: the types. *)

\* A lease that begins.
LEMMA BeginType ==
  ASSUME Mdb!TypeOK, NEW t \in Threads, NEW m \in Mdb!Modes, NEW p \in Mdb!Pools, Mdb!Begin(t, m, p)
  PROVE  /\ lease' \in [Threads -> [depth : 0..MaxDepth, mode : Mdb!Modes, from : Mdb!Pools,
                                     committed : BOOLEAN]]
         /\ step' \in [Threads -> Mdb!Steps]
         /\ lease'[t].depth = 1 /\ lease'[t].mode = m /\ lease'[t].from = p
         /\ lease'[t].committed = FALSE /\ step'[t] = "leasing"
         /\ \A u \in Threads : u # t => lease'[u] = lease[u] /\ step'[u] = step[u]
<1>1. 1 \in 0..MaxDepth
  BY BoundsAssumption
<1>2. QED
  BY <1>1 DEF Mdb!TypeOK, Mdb!Begin, Mdb!Steps

\* What is pooled when closing a connection fails.
LEMMA StuckType ==
  ASSUME Mdb!TypeOK, NEW p \in Mdb!Pools, pool[p] # None
  PROVE  /\ Mdb!Stuck(p) \in [Mdb!Pools -> Mdb!Connection \cup {None}]
         /\ Mdb!Stuck(p)[p] \in Mdb!Connection
         /\ Mdb!Stuck(p)[p]["stuck"]
         /\ \A x \in Mdb!Traits : x # "stuck" => Mdb!Stuck(p)[p][x] = pool[p][x]
         /\ \A q \in Mdb!Pools : q # p => Mdb!Stuck(p)[q] = pool[q]
BY DEF Mdb!TypeOK, Mdb!Stuck, Mdb!Connection, Mdb!Traits

\* What is pooled when some connections were closed.
LEMMA WithoutType ==
  ASSUME Mdb!TypeOK, NEW S
  PROVE  /\ Mdb!Without(S) \in [Mdb!Pools -> Mdb!Connection \cup {None}]
         /\ \A p \in Mdb!Pools : Mdb!Without(S)[p] = IF p \in S THEN None ELSE pool[p]
BY DEF Mdb!TypeOK, Mdb!Without

\* A connection that was just opened.
LEMMA FreshType ==
  /\ Mdb!Fresh \in Mdb!Connection
  /\ \A x \in Mdb!Traits : Mdb!Fresh[x] = FALSE
BY DEF Mdb!Fresh, Mdb!Connection

\* A connection whose traits are set stays one.
LEMMA TraitType ==
  ASSUME Mdb!TypeOK, NEW p \in Mdb!Pools, pool[p] \in Mdb!Connection,
         NEW x \in Mdb!Traits, NEW b \in BOOLEAN
  PROVE  /\ [pool EXCEPT ![p] = [@ EXCEPT ![x] = b]] \in
              [Mdb!Pools -> Mdb!Connection \cup {None}]
         /\ [pool[p] EXCEPT ![x] = b] \in Mdb!Connection
         /\ [pool[p] EXCEPT ![x] = b][x] = b
         /\ \A y \in Mdb!Traits : y # x => [pool[p] EXCEPT ![x] = b][y] = pool[p][y]
BY DEF Mdb!TypeOK, Mdb!Connection

\* A connection that is to be closed at the end of the lease.
LEMMA DeferredType ==
  ASSUME Mdb!TypeOK, NEW p \in Mdb!Pools, pool[p] \in Mdb!Connection,
         pool' = [pool EXCEPT ![p].marked = TRUE, ![p].deferred = TRUE]
  PROVE  /\ pool' \in [Mdb!Pools -> Mdb!Connection \cup {None}]
         /\ pool'[p] \in Mdb!Connection
         /\ pool'[p]["marked"] /\ pool'[p]["deferred"]
         /\ \A x \in {"bad", "behind", "stuck"} : pool'[p][x] = pool[p][x]
         /\ \A q \in Mdb!Pools : q # p => pool'[q] = pool[q]
<1>1. PICK c : c = [[pool[p] EXCEPT !["marked"] = TRUE] EXCEPT !["deferred"] = TRUE]
  OBVIOUS
<1>2. /\ c \in Mdb!Connection /\ c["marked"] /\ c["deferred"]
      /\ \A x \in {"bad", "behind", "stuck"} : c[x] = pool[p][x]
  BY <1>1 DEF Mdb!Connection, Mdb!Traits
<1>3. pool' = [pool EXCEPT ![p] = c]
  BY <1>1 DEF Mdb!TypeOK
<1>4. QED
  BY <1>2, <1>3, ZenonT(60) DEF Mdb!TypeOK

\* Every action of the connections keeps the types.
LEMMA LeaseType ==
  ASSUME Mdb!TypeOK, NEW t \in Threads, NEW mode \in Mdb!Modes,
         Mdb!Lease(t, mode) \/ Mdb!Open(t, mode) \/ Mdb!OpenFails(t, mode)
  PROVE  Mdb!TypeOK'
<1>1. Mdb!Source(mode) \in Mdb!Pools /\ Mdb!Target(mode) \in Mdb!Pools
  BY DEF Mdb!Source, Mdb!Target, Mdb!Pools
<1>2. leases > 0 => leases - 1 \in Nat
  BY DEF Mdb!TypeOK
<1>3. mdbFaults > 0 => mdbFaults - 1 \in Nat
  BY DEF Mdb!TypeOK
<1>4. CASE Mdb!Lease(t, mode)
  BY <1>1, <1>2, <1>4, BeginType DEF Mdb!Lease, Mdb!Admitted, Mdb!TypeOK
<1>5. CASE Mdb!Open(t, mode)
  <2>1. writerReads' \in BOOLEAN
    BY <1>5 DEF Mdb!Open
  <2>2. /\ leases' \in Nat /\ UNCHANGED <<blocked, maintained, signals>>
    BY <1>2, <1>5 DEF Mdb!Open, Mdb!Admitted
  <2>3. pool' \in [Mdb!Pools -> Mdb!Connection \cup {None}] /\ mdbFaults' \in Nat
    BY <1>1, <1>3, <1>5, WithoutType, FreshType DEF Mdb!Open, Mdb!TypeOK
  <2>4. /\ lease' \in [Threads -> [depth : 0..MaxDepth, mode : Mdb!Modes, from : Mdb!Pools,
                                   committed : BOOLEAN]]
        /\ step' \in [Threads -> Mdb!Steps]
    BY <1>1, <1>5, BeginType DEF Mdb!Open, Mdb!TypeOK
  <2>5. QED
    BY <2>1, <2>2, <2>3, <2>4 DEF Mdb!TypeOK
<1>6. CASE Mdb!OpenFails(t, mode)
  <2>1. /\ leases' \in Nat /\ mdbFaults' \in Nat
        /\ UNCHANGED <<writerReads, lease, step, blocked, maintained, signals>>
    BY <1>2, <1>3, <1>6 DEF Mdb!OpenFails, Mdb!Admitted
  <2>2. pool' \in [Mdb!Pools -> Mdb!Connection \cup {None}]
    <3>1. "reader" \in Mdb!Pools /\ "writer" \in Mdb!Pools
      BY DEF Mdb!Pools
    <3>2. CASE pool["reader"] # None /\ pool' = Mdb!Stuck("reader")
      BY <3>1, <3>2, StuckType
    <3>3. CASE pool[Mdb!Source(mode)] # None /\
               pool' = [Mdb!Stuck(Mdb!Source(mode)) EXCEPT ![Mdb!Source(mode)].marked = TRUE]
      BY <1>1, <3>3, StuckType DEF Mdb!Connection, Mdb!Traits
    <3>4. CASE pool["reader"] # None /\ pool' = [Mdb!Stuck("reader") EXCEPT !["writer"] = None]
      BY <3>1, <3>4, StuckType
    <3>5. QED
      BY <1>6, <3>2, <3>3, <3>4 DEF Mdb!OpenFails
  <2>3. QED
    BY <2>1, <2>2 DEF Mdb!TypeOK
<1>7. QED
  BY <1>4, <1>5, <1>6

\* The actions of a thread that leased something.
LEMMA LeasedType ==
  ASSUME Mdb!TypeOK, Locking, NEW t \in Threads, NEW outcome \in Mdb!Outcomes,
         \/ Mdb!Nest(t) \/ Mdb!Commit(t) \/ Mdb!EndNested(t, outcome) \/ Mdb!End(t, outcome)
         \/ Mdb!UseWriter(t)
  PROVE  Mdb!TypeOK'
<1> DEFINE from == lease[t].from
<1>1. from \in Mdb!Pools /\ lease[t].depth \in 0..MaxDepth
  BY DEF Mdb!TypeOK
<1>2. Leased(t) => pool[from] \in Mdb!Connection
  BY <1>1 DEF Mdb!TypeOK, Locking
<1>3. CASE Mdb!Nest(t)
  <2>1. Leased(t) /\ leases - 1 \in Nat
    BY <1>3 DEF Mdb!Nest, Leased, Mdb!Leased, Mdb!TypeOK
  <2>2. lease[t].depth + 1 \in 0..MaxDepth
    BY <1>3, BoundsAssumption DEF Mdb!Nest
  <2>3. pool' \in [Mdb!Pools -> Mdb!Connection \cup {None}]
    <3>1. pool' = pool \/ pool' = [pool EXCEPT ![from].marked = TRUE, ![from].deferred = TRUE]
      BY <1>3 DEF Mdb!Nest
    <3>2. QED
      BY <1>1, <1>2, <2>1, <3>1, DeferredType DEF Mdb!TypeOK
  <2>4. lease' \in [Threads -> [depth : 0..MaxDepth, mode : Mdb!Modes, from : Mdb!Pools,
                                committed : BOOLEAN]]
    BY <1>3, <2>2 DEF Mdb!Nest, Mdb!TypeOK
  <2>5. leases' \in Nat /\ UNCHANGED <<writerReads, step, blocked, maintained, signals, mdbFaults>>
    BY <1>3, <2>1 DEF Mdb!Nest
  <2>6. QED
    BY <2>3, <2>4, <2>5 DEF Mdb!TypeOK
<1>4. CASE Mdb!Commit(t)
  <2>1. pool' \in [Mdb!Pools -> Mdb!Connection \cup {None}]
    BY <1>4 DEF Mdb!Commit, Mdb!TypeOK, Mdb!Connection, Mdb!Traits
  <2>2. lease' \in [Threads -> [depth : 0..MaxDepth, mode : Mdb!Modes, from : Mdb!Pools,
                                committed : BOOLEAN]]
    BY <1>4 DEF Mdb!Commit, Mdb!TypeOK
  <2>3. QED
    BY <1>4, <2>1, <2>2 DEF Mdb!Commit, Mdb!TypeOK
<1>5. CASE Mdb!EndNested(t, outcome)
  <2>1. Leased(t) /\ lease[t].depth - 1 \in 0..MaxDepth
    BY <1>1, <1>5, BoundsAssumption DEF Mdb!EndNested, Mdb!Ends, Leased
  <2>2. pool' \in [Mdb!Pools -> Mdb!Connection \cup {None}]
    BY <1>1, <1>2, <1>5, <2>1 DEF Mdb!EndNested, Mdb!TypeOK, Mdb!Connection, Mdb!Traits
  <2>3. lease' \in [Threads -> [depth : 0..MaxDepth, mode : Mdb!Modes, from : Mdb!Pools,
                                committed : BOOLEAN]]
    BY <1>5, <2>1 DEF Mdb!EndNested, Mdb!TypeOK
  <2>4. QED
    BY <1>5, <2>2, <2>3 DEF Mdb!EndNested, Mdb!TypeOK
<1>6. CASE Mdb!End(t, outcome)
  <2>1. Leased(t) /\ pool[from] # None
    BY <1>6 DEF Mdb!End, Mdb!Ends, Leased, Locking
  <2>2. pool' \in [Mdb!Pools -> Mdb!Connection \cup {None}]
    <3>1. CASE pool' = pool \/ pool' = [pool EXCEPT ![from] = None]
      BY <1>1, <3>1 DEF Mdb!TypeOK
    <3>2. CASE pool' = [Mdb!Stuck(from) EXCEPT ![from].marked = TRUE, ![from].deferred = FALSE]
      BY <1>1, <2>1, <3>2, StuckType, ZenonT(60) DEF Mdb!Connection, Mdb!Traits
    <3>3. QED
      BY <1>6, <3>1, <3>2 DEF Mdb!End
  <2>3. lease' \in [Threads -> [depth : 0..MaxDepth, mode : Mdb!Modes, from : Mdb!Pools,
                                committed : BOOLEAN]]
    BY <1>6, BoundsAssumption DEF Mdb!End, Mdb!TypeOK, Mdb!NoLease, Mdb!Modes, Mdb!Pools
  <2>4. step' \in [Threads -> Mdb!Steps] /\ mdbFaults' \in Nat
    BY <1>6 DEF Mdb!End, Mdb!TypeOK, Mdb!Steps
  <2>5. QED
    BY <1>6, <2>2, <2>3, <2>4 DEF Mdb!End, Mdb!TypeOK
<1>7. CASE Mdb!UseWriter(t)
  BY <1>7 DEF Mdb!UseWriter, Mdb!TypeOK, Mdb!Steps
<1>8. QED
  BY <1>3, <1>4, <1>5, <1>6, <1>7

\* Closing both connections.
LEMMA EvictType ==
  ASSUME Mdb!TypeOK, Mdb!Evict
  PROVE  /\ pool' \in [Mdb!Pools -> Mdb!Connection \cup {None}]
         /\ writerReads' = FALSE /\ mdbFaults' \in Nat
         /\ \A p \in Mdb!Pools : \/ pool'[p] = None
                                 \/ pool[p] # None /\ pool'[p] = Mdb!Stuck(p)[p]
<1>1. CASE pool' = [p \in Mdb!Pools |-> None]
  BY <1>1 DEF Mdb!TypeOK, Mdb!Evict
<1>2. ASSUME NEW p \in Mdb!Pools, pool[p] # None,
             pool' = [q \in Mdb!Pools |-> IF q = p THEN Mdb!Stuck(p)[p] ELSE None]
      PROVE  /\ pool' \in [Mdb!Pools -> Mdb!Connection \cup {None}]
             /\ \A q \in Mdb!Pools : \/ pool'[q] = None
                                     \/ pool[q] # None /\ pool'[q] = Mdb!Stuck(q)[q]
  BY <1>2, StuckType
<1>3. writerReads' = FALSE /\ mdbFaults' \in Nat
  BY DEF Mdb!TypeOK, Mdb!Evict
<1>4. QED
  BY <1>1, <1>2, <1>3 DEF Mdb!Evict

\* The other actions.
LEMMA ClosingType ==
  ASSUME Mdb!TypeOK, NEW t \in Threads, NEW p \in Mdb!Pools,
         \/ Mdb!BeginMaintenance(t) \/ Mdb!EvictForMaintenance(t) \/ Mdb!EndMaintenance(t)
         \/ Mdb!CloseDatabase(t) \/ Mdb!Break(p) \/ Mdb!HandleSignal \/ Mdb!CloseWriter
  PROVE  Mdb!TypeOK'
<1>1. CASE Mdb!BeginMaintenance(t)
  BY <1>1 DEF Mdb!BeginMaintenance, Mdb!TypeOK, Mdb!Steps
<1>2. CASE Mdb!EvictForMaintenance(t)
  <2>1. step' \in [Threads -> Mdb!Steps] /\ maintained' \in BOOLEAN
    BY <1>2 DEF Mdb!EvictForMaintenance, Mdb!TypeOK, Mdb!Steps
  <2>2. QED
    BY <1>2, <2>1, EvictType DEF Mdb!EvictForMaintenance, Mdb!TypeOK
<1>3. CASE Mdb!EndMaintenance(t)
  BY <1>3 DEF Mdb!EndMaintenance, Mdb!TypeOK, Mdb!Steps
<1>4. CASE Mdb!CloseDatabase(t)
  <2>1. /\ pool' \in [Mdb!Pools -> Mdb!Connection \cup {None}]
        /\ writerReads' = FALSE /\ mdbFaults' \in Nat
    BY <1>4, EvictType DEF Mdb!CloseDatabase
  <2>2. writerReads' \in BOOLEAN
    BY <2>1
  <2>3. leases' \in Nat
    BY <1>4 DEF Mdb!CloseDatabase, Mdb!TypeOK
  <2>4. UNCHANGED <<lease, step, blocked, maintained, signals>>
    BY <1>4 DEF Mdb!CloseDatabase
  <2>5. pool' \in [Mdb!Pools -> Mdb!Connection \cup {None}] /\ mdbFaults' \in Nat
    BY <2>1
  <2>6. QED
    BY <2>2, <2>3, <2>4, <2>5 DEF Mdb!TypeOK
<1>5. CASE Mdb!Break(p)
  <2>1. pool[p] \in Mdb!Connection /\ "bad" \in Mdb!Traits
    BY <1>5 DEF Mdb!Break, Mdb!TypeOK, Mdb!Traits
  <2>2. pool' = [pool EXCEPT ![p] = [@ EXCEPT !["bad"] = TRUE]]
    BY <1>5 DEF Mdb!Break
  <2>3. pool' \in [Mdb!Pools -> Mdb!Connection \cup {None}]
    BY <2>1, <2>2, TraitType
  <2>4. QED
    BY <1>5, <2>3 DEF Mdb!Break, Mdb!TypeOK
<1>6. CASE Mdb!HandleSignal
  BY <1>6, ThreadsAssumption, HeadTailProperties DEF Mdb!HandleSignal, Mdb!TypeOK, Mdb!Steps
<1>7. CASE Mdb!CloseWriter
  <2>1. "writer" \in Mdb!Pools
    BY DEF Mdb!Pools
  <2>2. pool' \in [Mdb!Pools -> Mdb!Connection \cup {None}] /\ mdbFaults' \in Nat
    BY <1>7, <2>1, StuckType DEF Mdb!CloseWriter, Mdb!TypeOK
  <2>3. step' \in [Threads -> Mdb!Steps]
    BY <1>7, ThreadsAssumption DEF Mdb!CloseWriter, Mdb!TypeOK, Mdb!Steps
  <2>4. QED
    BY <1>7, <2>2, <2>3 DEF Mdb!CloseWriter, Mdb!TypeOK
<1>8. QED
  BY <1>1, <1>2, <1>3, <1>4, <1>5, <1>6, <1>7

-----------------------------------------------------------------------------
(* Access connections: each action keeps the invariant. *)

Kept == /\ Locking' /\ Upkeep' /\ Announced'
        /\ BlockedMeansClosed' /\ UnusableIsEvicted' /\ ReadsSeeCommits'

\* Who finds the lock of the path free and leased nothing is alone.
LEMMA NobodyLeases ==
  ASSUME Locking, NEW t \in Threads, step[t] # "leasing", Mdb!PathLockFree(t)
  PROVE  \A u \in Threads : ~Leased(u)
BY DEF Locking, Leased, Mdb!Leased, Mdb!PathLockFree

\* A new lease while nobody leases, of a connection that is usable and up to date.
LEMMA BeginKeeps ==
  ASSUME AccessInv, NEW t \in Threads, NEW m \in Mdb!Modes, NEW p \in Mdb!Pools,
         \A u \in Threads : ~Leased(u),
         Mdb!Idle(t), ~maintained, m = "write" => ~blocked /\ p = "writer",
         Mdb!Begin(t, m, p), UNCHANGED <<blocked, maintained>>,
         Mdb!TypeOK',
         pool'[p] # None, ~pool'[p]["marked"],
         pool'[p]["behind"] => pool'[p]["stuck"] \/ \E u \in Threads : step[u] = "ack",
         Announced',
         \A q \in Mdb!Pools : q # p => pool'[q] = None \/ pool'[q] = pool[q],
         p = "writer" => pool' = pool \/ ~blocked
  PROVE  Kept
<1>1. /\ lease'[t].depth = 1 /\ lease'[t].mode = m /\ lease'[t].from = p
      /\ lease'[t].committed = FALSE /\ step'[t] = "leasing"
      /\ \A u \in Threads : u # t => lease'[u] = lease[u] /\ step'[u] = step[u]
  BY BeginType DEF AccessInv
<1>2. \A u \in Threads : Leased(u)' <=> u = t
  BY <1>1 DEF Leased, Mdb!Leased
<1>3. Locking'
  BY <1>1, <1>2 DEF AccessInv, Locking
<1>4. \A u \in Threads : step'[u] \notin {"evicting", "maintaining"}
  BY <1>1 DEF AccessInv, Upkeep
<1>5. Upkeep'
  BY <1>4 DEF Upkeep
<1>6. BlockedMeansClosed'
  <2>1. SUFFICES ASSUME blocked, step'[Main] # "closing"
                 PROVE  /\ \A u \in Threads : Leased(u)' => lease'[u].mode = "read"
                        /\ pool'["writer"] # None => pool'["writer"]["stuck"]
    BY DEF BlockedMeansClosed, Mdb!BlockedMeansClosed, Leased
  <2>2. m = "read"
    BY <2>1 DEF Mdb!Modes
  <2>3. step[Main] # "closing"
    BY <1>1, <2>1, ThreadsAssumption DEF Mdb!Idle
  <2>4. pool["writer"] # None => pool["writer"]["stuck"]
    BY <2>1, <2>3 DEF AccessInv, BlockedMeansClosed, Mdb!BlockedMeansClosed
  <2>5. pool'["writer"] = None \/ pool'["writer"] = pool["writer"]
    BY <2>1 DEF Mdb!Pools
  <2>6. QED
    BY <1>1, <1>2, <2>2, <2>4, <2>5
<1>7. UnusableIsEvicted'
  <2>1. SUFFICES ASSUME NEW q \in Mdb!Pools, pool'[q] # None, pool'[q]["marked"]
                 PROVE  IF \E u \in Threads : Leased(u)' /\ lease'[u].from = q
                        THEN pool'[q]["deferred"] ELSE pool'[q]["stuck"]
    BY DEF UnusableIsEvicted, Mdb!UnusableIsEvicted, Leased
  <2>2. q # p /\ pool'[q] = pool[q]
    BY <2>1
  <2>3. pool[q]["stuck"]
    BY <2>1, <2>2 DEF AccessInv, UnusableIsEvicted, Mdb!UnusableIsEvicted, Leased
  <2>4. QED
    BY <1>1, <1>2, <2>2, <2>3
<1>8. ReadsSeeCommits'
  BY <1>1, <1>2 DEF ReadsSeeCommits, Mdb!ReadsSeeCommits, Leased, Mdb!Idle
<1>9. QED
  BY <1>3, <1>5, <1>6, <1>7, <1>8 DEF Kept

\* A usable connection is leased.
LEMMA LeaseKeeps ==
  ASSUME AccessInv, NEW t \in Threads, NEW m \in Mdb!Modes, Mdb!Lease(t, m), Mdb!TypeOK'
  PROVE  Kept
<1> DEFINE p == Mdb!Source(m)
<1>1. /\ Mdb!Idle(t) /\ Mdb!PathLockFree(t) /\ ~maintained /\ (m = "write" => ~blocked)
      /\ pool' = pool /\ UNCHANGED <<blocked, maintained, writerReads>>
      /\ Mdb!Begin(t, m, p) /\ pool[p] # None /\ ~pool[p]["marked"]
      /\ ~Mdb!Outdated(m)
  BY DEF Mdb!Lease, Mdb!Admitted, Mdb!Usable
<1>2. \A u \in Threads : ~Leased(u)
  BY <1>1, NobodyLeases DEF AccessInv, Mdb!Idle
<1>3. p \in Mdb!Pools /\ (m = "write" => p = "writer")
  BY DEF Mdb!Source, Mdb!Pools
<1>4. pool[p]["behind"] => pool[p]["stuck"] \/ \E u \in Threads : step[u] = "ack"
  <2>1. CASE p = "writer"
    BY <1>1, <2>1 DEF AccessInv, Announced
  <2>2. CASE p # "writer"
    <3>1. p = "reader" /\ m = "read" /\ ~writerReads
      BY <1>1, <1>3, <2>2 DEF Mdb!Source, Mdb!Outdated, Mdb!Modes, Mdb!Pools
    <3>2. QED
      BY <1>1, <1>2, <3>1 DEF AccessInv, Announced, Announcing
  <2>3. QED
    BY <2>1, <2>2
<1>5. \A u \in Threads : step[u] = "ack" => step'[u] = "ack"
  BY <1>1, BeginType, <1>3 DEF AccessInv, Mdb!Idle
<1>6. Announced'
  BY <1>1, <1>2, <1>5 DEF AccessInv, Announced, Announcing
<1>7. QED
  BY <1>1, <1>2, <1>3, <1>4, <1>6, BeginKeeps

\* Nobody leases, and connections are closed, or left because they could not be.
Shrunk(p) ==
  \/ pool'[p] = None
  \/ /\ pool[p] # None
     /\ pool'[p]["behind"] = pool[p]["behind"]
     /\ pool[p]["stuck"] => pool'[p]["stuck"]
     /\ pool'[p]["marked"] => pool[p]["marked"] \/ pool'[p]["stuck"]

\* Closing connections that nobody leases.
LEMMA ClosingKeeps ==
  ASSUME AccessInv, \A u \in Threads : ~Leased(u), lease' = lease,
         \A u \in Threads : step'[u] # "leasing" /\ (step[u] = "ack" => step'[u] = "ack"),
         Upkeep', blocked' = blocked, \A p \in Mdb!Pools : Shrunk(p),
         \/ writerReads' = writerReads
         \/ pool'["reader"] = None \/ pool'["reader"]["stuck"],
         \/ step'[Main] = "closing" \/ step[Main] # "closing"
         \/ pool'["writer"] = None \/ pool'["writer"]["stuck"]
  PROVE  Kept
<1>1. \A u \in Threads : ~Leased(u)'
  BY DEF Leased, Mdb!Leased
<1>2. "reader" \in Mdb!Pools /\ "writer" \in Mdb!Pools
  BY DEF Mdb!Pools
<1>3. Locking'
  BY <1>1 DEF Locking
<1>4. Announced'
  <2>1. pool'["writer"] # None => ~pool'["writer"]["behind"]
    BY <1>2 DEF AccessInv, Announced, Shrunk
  <2>2. ASSUME pool'["reader"] # None, pool'["reader"]["behind"], ~pool'["reader"]["stuck"]
        PROVE  writerReads' \/ \E u \in Threads : step'[u] = "ack"
    <3>1. pool[ "reader"] # None /\ pool["reader"]["behind"] /\ ~pool["reader"]["stuck"]
      BY <1>2, <2>2 DEF Shrunk
    <3>2. writerReads \/ \E u \in Threads : step[u] = "ack"
      BY <3>1 DEF AccessInv, Announced, Announcing
    <3>3. QED
      BY <2>2, <3>2
  <2>3. QED
    BY <2>1, <2>2 DEF Announced, Announcing
<1>5. BlockedMeansClosed'
  <2>1. SUFFICES ASSUME blocked, step'[Main] # "closing", pool'["writer"] # None
                 PROVE  pool'["writer"]["stuck"]
    BY <1>1 DEF BlockedMeansClosed, Mdb!BlockedMeansClosed, Leased
  <2>2. CASE step[Main] # "closing"
    BY <1>2, <2>1, <2>2 DEF AccessInv, BlockedMeansClosed, Mdb!BlockedMeansClosed, Shrunk
  <2>3. QED
    BY <2>1, <2>2
<1>6. UnusableIsEvicted'
  <2>1. SUFFICES ASSUME NEW q \in Mdb!Pools, pool'[q] # None, pool'[q]["marked"]
                 PROVE  pool'[q]["stuck"]
    BY <1>1 DEF UnusableIsEvicted, Mdb!UnusableIsEvicted, Leased
  <2>2. pool[q]["marked"] => pool[q]["stuck"] \/ pool[q] = None
    BY DEF AccessInv, UnusableIsEvicted, Mdb!UnusableIsEvicted, Leased
  <2>3. QED
    BY <2>1, <2>2 DEF Shrunk
<1>7. ReadsSeeCommits'
  BY <1>1 DEF ReadsSeeCommits, Mdb!ReadsSeeCommits, Leased
<1>8. QED
  BY <1>3, <1>4, <1>5, <1>6, <1>7 DEF Kept

\* A connection that could not be closed.
LEMMA StuckShrinks ==
  ASSUME Mdb!TypeOK, NEW p \in Mdb!Pools, pool[p] # None,
         \/ pool'[p] = Mdb!Stuck(p)[p]
         \/ pool'[p] = [Mdb!Stuck(p)[p] EXCEPT !["marked"] = TRUE]
         \/ pool'[p] = [[Mdb!Stuck(p)[p] EXCEPT !["marked"] = TRUE] EXCEPT !["deferred"] = FALSE]
  PROVE  Shrunk(p) /\ pool'[p]["stuck"]
<1> DEFINE c == Mdb!Stuck(p)[p]
<1>1. c \in Mdb!Connection /\ c["stuck"] /\ c["behind"] = pool[p]["behind"]
      /\ c["marked"] = pool[p]["marked"]
  BY StuckType DEF Mdb!Traits
<1>2. pool'[p]["stuck"] /\ pool'[p]["behind"] = pool[p]["behind"]
  BY <1>1 DEF Mdb!Connection, Mdb!Traits
<1>3. QED
  BY <1>1, <1>2 DEF Shrunk

\* A connection is opened, or cannot be.
LEMMA OpenKeeps ==
  ASSUME AccessInv, NEW t \in Threads, NEW m \in Mdb!Modes, Mdb!Open(t, m), Mdb!TypeOK'
  PROVE  Kept
<1> DEFINE p == Mdb!Target(m)
           rest == Mdb!Without(Mdb!Discarded(m))
<1>1. /\ Mdb!Idle(t) /\ Mdb!PathLockFree(t) /\ ~maintained /\ (m = "write" => ~blocked)
      /\ UNCHANGED <<blocked, maintained>>
      /\ writerReads' = (writerReads /\ ~Mdb!Outdated(m) /\ ~Mdb!Borrowed(m))
      /\ \/ pool' = [rest EXCEPT ![p] = Mdb!Fresh] /\ Mdb!Begin(t, m, p)
         \/ pool' = rest /\ lease' = lease /\ step' = step
  BY DEF Mdb!Open, Mdb!Admitted
<1>2. \A u \in Threads : ~Leased(u)
  BY <1>1, NobodyLeases DEF AccessInv, Mdb!Idle
<1>3. /\ p \in Mdb!Pools /\ (m = "write" => p = "writer") /\ (m = "read" => p = "reader" \/ p = "writer")
      /\ Mdb!Source(m) \in Mdb!Pools
  BY DEF Mdb!Target, Mdb!Borrowed, Mdb!Source, Mdb!Pools
<1>4. m = "read" => p = "reader"
  BY DEF Mdb!Target, Mdb!Borrowed, Mdb!Source, Mdb!Pools
<1>5. writerReads' = writerReads \/ "reader" \in Mdb!Discarded(m)
  BY <1>1 DEF Mdb!Discarded, Mdb!Outdated, Mdb!Source, Mdb!Borrowed, AccessInv, Mdb!TypeOK
<1>6. /\ rest \in [Mdb!Pools -> Mdb!Connection \cup {None}]
      /\ \A q \in Mdb!Pools : rest[q] = IF q \in Mdb!Discarded(m) THEN None ELSE pool[q]
  BY WithoutType DEF AccessInv
<1>7. "reader" \in Mdb!Pools /\ "writer" \in Mdb!Pools
  BY DEF Mdb!Pools
<1>8. CASE pool' = [rest EXCEPT ![p] = Mdb!Fresh] /\ Mdb!Begin(t, m, p)
  <2>1. /\ pool'[p] = Mdb!Fresh
        /\ \A q \in Mdb!Pools : q # p => pool'[q] = rest[q]
    BY <1>3, <1>6, <1>8
  <2>2. /\ Mdb!Fresh \in Mdb!Connection /\ Mdb!Fresh # None
        /\ ~Mdb!Fresh["marked"] /\ ~Mdb!Fresh["behind"]
    BY FreshType, NoneAssumption DEF Mdb!Traits
  <2>3. \A u \in Threads : step[u] = "ack" => step'[u] = "ack"
    BY <1>1, <1>3, <1>8, BeginType DEF AccessInv, Mdb!Idle
  <2>4. Announced'
    <3>1. pool'["writer"] # None => ~pool'["writer"]["behind"]
      BY <1>6, <1>7, <2>1, <2>2 DEF AccessInv, Announced
    <3>2. ASSUME pool'["reader"] # None, pool'["reader"]["behind"]
          PROVE  pool'["reader"]["stuck"] \/ writerReads' \/ Announcing'
      <4>1. pool'["reader"] = pool["reader"] /\ "reader" \notin Mdb!Discarded(m)
        BY <1>6, <1>7, <2>1, <2>2, <3>2
      <4>2. pool["reader"]["stuck"] \/ writerReads \/ \E u \in Threads : step[u] = "ack"
        BY <1>2, <3>2, <4>1 DEF AccessInv, Announced, Announcing
      <4>3. QED
        BY <1>5, <2>3, <4>1, <4>2 DEF Announcing
    <3>3. QED
      BY <3>1, <3>2 DEF Announced
  <2>5. \A q \in Mdb!Pools : q # p => pool'[q] = None \/ pool'[q] = pool[q]
    BY <1>6, <2>1
  <2>6. p = "writer" => ~blocked
    BY <1>1, <1>4 DEF Mdb!Modes
  <2>7. QED
    BY <1>1, <1>2, <1>3, <1>8, <2>1, <2>2, <2>4, <2>5, <2>6, BeginKeeps
<1>9. CASE pool' = rest /\ lease' = lease /\ step' = step
  <2>1. \A q \in Mdb!Pools : Shrunk(q)
    BY <1>6, <1>9 DEF Shrunk
  <2>2. writerReads' = writerReads \/ pool'["reader"] = None
    BY <1>5, <1>6, <1>7, <1>9
  <2>3. Upkeep'
    BY <1>1, <1>9 DEF AccessInv, Upkeep
  <2>4. \A u \in Threads : step'[u] # "leasing" /\ (step[u] = "ack" => step'[u] = "ack")
    BY <1>2, <1>9 DEF AccessInv, Locking
  <2>5. QED
    BY <1>1, <1>2, <1>9, <2>1, <2>2, <2>3, <2>4, ClosingKeeps
<1>10. QED
  BY <1>1, <1>8, <1>9

\* What must be closed first cannot be.
LEMMA OpenFailsKeeps ==
  ASSUME AccessInv, NEW t \in Threads, NEW m \in Mdb!Modes, Mdb!OpenFails(t, m), Mdb!TypeOK'
  PROVE  Kept
<1> DEFINE source == Mdb!Source(m)
<1>1. /\ Mdb!Idle(t) /\ Mdb!PathLockFree(t) /\ ~maintained
      /\ UNCHANGED <<blocked, maintained, writerReads, lease, step>>
  BY DEF Mdb!OpenFails, Mdb!Admitted
<1>2. \A u \in Threads : ~Leased(u)
  BY <1>1, NobodyLeases DEF AccessInv, Mdb!Idle
<1>3. source \in Mdb!Pools /\ "reader" \in Mdb!Pools /\ "writer" \in Mdb!Pools
  BY DEF Mdb!Source, Mdb!Pools
<1>4. \A q \in Mdb!Pools : Shrunk(q)
  <2>1. ASSUME NEW p \in Mdb!Pools, pool[p] # None, pool' = Mdb!Stuck(p)
        PROVE  \A q \in Mdb!Pools : Shrunk(q)
    BY <2>1, StuckType, StuckShrinks DEF AccessInv, Shrunk
  <2>2. ASSUME NEW p \in Mdb!Pools, pool[p] # None,
               pool' = [Mdb!Stuck(p) EXCEPT ![p].marked = TRUE]
        PROVE  \A q \in Mdb!Pools : Shrunk(q)
    <3>1. /\ pool'[p] = [Mdb!Stuck(p)[p] EXCEPT !["marked"] = TRUE]
          /\ \A q \in Mdb!Pools : q # p => pool'[q] = pool[q]
      BY <2>2, StuckType DEF AccessInv
    <3>2. QED
      BY <2>2, <3>1, StuckShrinks DEF AccessInv, Shrunk
  <2>3. CASE pool["reader"] # None /\ pool' = [Mdb!Stuck("reader") EXCEPT !["writer"] = None]
    <3>1. pool'["reader"] = Mdb!Stuck("reader")["reader"] /\ pool'["writer"] = None
      BY <1>3, <2>3, StuckType DEF AccessInv
    <3>2. QED
      BY <1>3, <2>3, <3>1, StuckShrinks DEF AccessInv, Shrunk, Mdb!Pools
  <2>4. QED
    BY <1>3, <2>1, <2>2, <2>3 DEF Mdb!OpenFails
<1>5. Upkeep'
  BY <1>1 DEF AccessInv, Upkeep
<1>6. \A u \in Threads : step'[u] # "leasing" /\ (step[u] = "ack" => step'[u] = "ack")
  BY <1>1, <1>2 DEF AccessInv, Locking
<1>7. QED
  BY <1>1, <1>2, <1>4, <1>5, <1>6, ClosingKeeps

\* The writer is closed, or cannot be.
LEMMA CloseWriterKeeps ==
  ASSUME AccessInv, Mdb!CloseWriter, Mdb!TypeOK'
  PROVE  Kept
<1>1. /\ step[Main] = "closing" /\ (pool["writer"] # None => Mdb!PathLockFree(Main))
      /\ step' = [step EXCEPT ![Main] = "idle"]
      /\ UNCHANGED <<writerReads, lease, blocked, maintained>>
      /\ \/ pool' = [pool EXCEPT !["writer"] = None]
         \/ pool["writer"] # None /\ pool' = Mdb!Stuck("writer")
  BY DEF Mdb!CloseWriter
<1>2. "reader" \in Mdb!Pools /\ "writer" \in Mdb!Pools
  BY DEF Mdb!Pools
<1>3. step'[Main] = "idle" /\ \A u \in Threads : u # Main => step'[u] = step[u]
  BY <1>1, ThreadsAssumption DEF AccessInv, Mdb!TypeOK
<1>4. \A u \in Threads : step[u] = "ack" <=> step'[u] = "ack"
  BY <1>1, <1>3
<1>5. Upkeep'
  <2>1. \A q \in Mdb!Pools : pool[q] = None => pool'[q] = None
    BY <1>1, <1>2, StuckType DEF AccessInv, Mdb!TypeOK
  <2>2. QED
    BY <1>1, <1>3, <2>1 DEF AccessInv, Upkeep, Leased, Mdb!Leased
<1>6. CASE pool["writer"] = None
  <2>1. pool' = pool
    BY <1>1, <1>2, <1>6 DEF AccessInv, Mdb!TypeOK
  <2>2. Locking'
    BY <1>1, <1>3, <2>1 DEF AccessInv, Locking, Leased, Mdb!Leased
  <2>3. Announced'
    BY <1>1, <1>4, <2>1 DEF AccessInv, Announced, Announcing, Leased, Mdb!Leased
  <2>4. BlockedMeansClosed'
    <3>1. \A u \in Threads : Leased(u) => lease[u].mode # "write"
      BY <1>6 DEF AccessInv, Locking
    <3>2. QED
      BY <1>1, <1>6, <2>1, <3>1
      DEF BlockedMeansClosed, Mdb!BlockedMeansClosed, AccessInv, Mdb!TypeOK, Mdb!Modes, Leased,
          Mdb!Leased
  <2>5. UnusableIsEvicted'
    BY <1>1, <2>1 DEF AccessInv, UnusableIsEvicted, Mdb!UnusableIsEvicted, Mdb!Leased
  <2>6. ReadsSeeCommits'
    BY <1>1, <1>4, <2>1 DEF AccessInv, ReadsSeeCommits, Mdb!ReadsSeeCommits, Mdb!Leased
  <2>7. QED
    BY <1>5, <2>2, <2>3, <2>4, <2>5, <2>6 DEF Kept
<1>7. CASE pool["writer"] # None
  <2>1. \A u \in Threads : ~Leased(u)
    BY <1>1, <1>7, ThreadsAssumption, NobodyLeases DEF AccessInv
  <2>2. /\ pool'["reader"] = pool["reader"]
        /\ pool'["writer"] = None \/ pool'["writer"] = Mdb!Stuck("writer")["writer"]
    BY <1>1, <1>2, StuckType DEF AccessInv, Mdb!TypeOK
  <2>3. /\ \A q \in Mdb!Pools : Shrunk(q)
        /\ pool'["writer"] = None \/ pool'["writer"]["stuck"]
    BY <1>2, <1>7, <2>2, StuckShrinks DEF AccessInv, Shrunk, Mdb!Pools
  <2>4. \A u \in Threads : step'[u] # "leasing"
    BY <1>3, <2>1 DEF AccessInv, Locking
  <2>5. QED
    BY <1>1, <1>4, <1>5, <2>1, <2>3, <2>4, ClosingKeeps
<1>8. QED
  BY <1>6, <1>7

\* Both are closed, or one of them cannot be.
LEMMA EvictKeeps ==
  ASSUME AccessInv, NEW t \in Threads, Mdb!PathLockFree(t), Mdb!Evict, Mdb!TypeOK',
         lease' = lease, blocked' = blocked,
         \/ Mdb!Idle(t) /\ UNCHANGED <<step, maintained>>
         \/ /\ step[t] = "evicting"
            /\ \/ step' = [step EXCEPT ![t] = "maintaining"] /\ maintained' = maintained
                  /\ \A p \in Mdb!Pools : pool'[p] = None
               \/ step' = [step EXCEPT ![t] = "idle"] /\ maintained' = FALSE
  PROVE  Kept
<1>1. \A u \in Threads : ~Leased(u)
  BY NobodyLeases DEF AccessInv, Mdb!Idle
<1>2. \A p \in Mdb!Pools : \/ pool'[p] = None
                           \/ pool[p] # None /\ pool'[p] = Mdb!Stuck(p)[p]
  BY EvictType DEF AccessInv
<1>3. \A p \in Mdb!Pools : Shrunk(p) /\ (pool'[p] = None \/ pool'[p]["stuck"])
  BY <1>2, StuckShrinks DEF AccessInv, Shrunk
<1>4. "reader" \in Mdb!Pools /\ "writer" \in Mdb!Pools
  BY DEF Mdb!Pools
<1>5. \A u \in Threads : /\ u # t => step'[u] = step[u]
                         /\ step'[u] # "leasing" /\ (step[u] = "ack" => step'[u] = "ack")
  BY <1>1 DEF AccessInv, Mdb!TypeOK, Locking, Mdb!Idle
<1>6. Upkeep'
  <2>1. CASE Mdb!Idle(t) /\ UNCHANGED <<step, maintained>>
    BY <1>2, <2>1 DEF AccessInv, Upkeep, Leased, Mdb!Leased
  <2>2. CASE /\ step[t] = "evicting" /\ step' = [step EXCEPT ![t] = "maintaining"]
             /\ maintained' = maintained /\ \A p \in Mdb!Pools : pool'[p] = None
    BY <1>5, <2>2 DEF AccessInv, Mdb!TypeOK, Upkeep, Leased, Mdb!Leased
  <2>3. CASE step[t] = "evicting" /\ step' = [step EXCEPT ![t] = "idle"] /\ maintained' = FALSE
    BY <1>5, <2>3 DEF AccessInv, Mdb!TypeOK, Upkeep, Leased, Mdb!Leased
  <2>4. QED
    BY <2>1, <2>2, <2>3
<1>7. QED
  BY <1>1, <1>3, <1>4, <1>5, <1>6, ClosingKeeps

\* Connections and leases stay; a thread other than those that lease or announce moves.
LEMMA MovingKeeps ==
  ASSUME AccessInv, UNCHANGED <<pool, lease, writerReads>>, Upkeep',
         \A u \in Threads : /\ step[u] = "leasing" <=> step'[u] = "leasing"
                            /\ step[u] = "ack" <=> step'[u] = "ack",
         blocked' => blocked \/ step'[Main] = "closing",
         step[Main] = "closing" => step'[Main] = "closing"
  PROVE  Kept
<1>1. \A u \in Threads : Leased(u)' <=> Leased(u)
  BY DEF Leased, Mdb!Leased
<1>2. Locking'
  BY <1>1 DEF AccessInv, Locking
<1>3. Announced'
  BY <1>1 DEF AccessInv, Announced, Announcing
<1>4. BlockedMeansClosed'
  BY <1>1 DEF AccessInv, BlockedMeansClosed, Mdb!BlockedMeansClosed, Leased
<1>5. UnusableIsEvicted'
  BY <1>1 DEF AccessInv, UnusableIsEvicted, Mdb!UnusableIsEvicted, Leased
<1>6. ReadsSeeCommits'
  BY <1>1 DEF AccessInv, ReadsSeeCommits, Mdb!ReadsSeeCommits, Leased
<1>7. QED
  BY <1>2, <1>3, <1>4, <1>5, <1>6 DEF Kept

\* Maintenance begins or ends, or the main thread takes a signal.
LEMMA MaintenanceKeeps ==
  ASSUME AccessInv, NEW t \in Threads, Mdb!TypeOK',
         Mdb!BeginMaintenance(t) \/ Mdb!EndMaintenance(t) \/ Mdb!HandleSignal
  PROVE  Kept
<1>1. CASE Mdb!BeginMaintenance(t)
  <2>1. /\ step[t] = "idle" /\ step'[t] = "evicting" /\ maintained' /\ ~maintained
        /\ \A u \in Threads : ~Leased(u) /\ (u # t => step'[u] = step[u])
        /\ UNCHANGED <<pool, lease, writerReads, blocked>>
    BY <1>1 DEF Mdb!BeginMaintenance, Mdb!Idle, AccessInv, Mdb!TypeOK, Leased
  <2>2. Upkeep'
    BY <2>1 DEF AccessInv, Upkeep, Leased, Mdb!Leased
  <2>3. \A u \in Threads : /\ step[u] = "leasing" <=> step'[u] = "leasing"
                           /\ step[u] = "ack" <=> step'[u] = "ack"
                           /\ step[u] = "closing" <=> step'[u] = "closing"
    BY <2>1
  <2>4. QED
    BY <2>1, <2>2, <2>3, ThreadsAssumption, MovingKeeps
<1>2. CASE Mdb!EndMaintenance(t)
  <2>1. /\ step[t] = "maintaining" /\ step'[t] = "idle"
        /\ \A u \in Threads : u # t => step'[u] = step[u]
        /\ UNCHANGED <<pool, lease, writerReads, blocked>>
    BY <1>2 DEF Mdb!EndMaintenance, AccessInv, Mdb!TypeOK
  <2>2. Upkeep'
    BY <2>1 DEF AccessInv, Upkeep, Leased, Mdb!Leased
  <2>3. \A u \in Threads : /\ step[u] = "leasing" <=> step'[u] = "leasing"
                           /\ step[u] = "ack" <=> step'[u] = "ack"
                           /\ step[u] = "closing" <=> step'[u] = "closing"
    BY <2>1
  <2>4. QED
    BY <2>1, <2>2, <2>3, ThreadsAssumption, MovingKeeps
<1>3. CASE Mdb!HandleSignal
  <2>1. /\ step[Main] = "idle" /\ blocked' = Head(signals)
        /\ step'[Main] = (IF Head(signals) THEN "closing" ELSE "idle")
        /\ \A u \in Threads : u # Main => step'[u] = step[u]
        /\ UNCHANGED <<pool, lease, writerReads, maintained>>
    BY <1>3, ThreadsAssumption DEF Mdb!HandleSignal, Mdb!Idle, AccessInv, Mdb!TypeOK
  <2>2. Upkeep'
    BY <2>1 DEF AccessInv, Upkeep, Leased, Mdb!Leased
  <2>3. \A u \in Threads : /\ step[u] = "leasing" <=> step'[u] = "leasing"
                           /\ step[u] = "ack" <=> step'[u] = "ack"
    BY <2>1
  <2>4. blocked' => step'[Main] = "closing"
    BY <2>1
  <2>5. QED
    BY <2>1, <2>2, <2>3, <2>4, MovingKeeps
<1>4. QED
  BY <1>1, <1>2, <1>3

\* A connection goes bad.
LEMMA BreakKeeps ==
  ASSUME AccessInv, NEW p \in Mdb!Pools, Mdb!Break(p), Mdb!TypeOK'
  PROVE  Kept
<1>1. /\ UNCHANGED <<writerReads, lease, step, blocked, maintained>>
      /\ pool[p] # None /\ pool[p] \in Mdb!Connection
      /\ pool' = [pool EXCEPT ![p] = [@ EXCEPT !["bad"] = TRUE]]
  BY DEF Mdb!Break, AccessInv, Mdb!TypeOK
<1>2. \A q \in Mdb!Pools :
        /\ pool'[q] = None <=> pool[q] = None
        /\ pool[q] # None => \A x \in {"marked", "deferred", "behind", "stuck"} :
                               pool'[q][x] = pool[q][x]
  <2>1. pool'[p] = [pool[p] EXCEPT !["bad"] = TRUE] /\ \A q \in Mdb!Pools : q # p => pool'[q] = pool[q]
    BY <1>1 DEF AccessInv, Mdb!TypeOK
  <2>2. pool'[p] \in Mdb!Connection /\ \A x \in {"marked", "deferred", "behind", "stuck"} :
                               pool'[p][x] = pool[p][x]
    BY <1>1, <2>1 DEF Mdb!Connection, Mdb!Traits
  <2>3. QED
    BY <1>1, <2>1, <2>2, NoneAssumption
<1>3. \A u \in Threads : (Leased(u)' <=> Leased(u)) /\ lease[u].from \in Mdb!Pools
  BY <1>1 DEF Leased, Mdb!Leased, AccessInv, Mdb!TypeOK
<1>4. "reader" \in Mdb!Pools /\ "writer" \in Mdb!Pools
  BY DEF Mdb!Pools
<1>5. Locking'
  BY <1>1, <1>2, <1>3 DEF AccessInv, Locking
<1>6. Upkeep'
  BY <1>1, <1>2, <1>3 DEF AccessInv, Upkeep
<1>7. Announced'
  BY <1>1, <1>2, <1>3, <1>4 DEF AccessInv, Announced, Announcing
<1>8. BlockedMeansClosed'
  BY <1>1, <1>2, <1>3, <1>4 DEF AccessInv, BlockedMeansClosed, Mdb!BlockedMeansClosed, Leased
<1>9. UnusableIsEvicted'
  BY <1>1, <1>2, <1>3 DEF AccessInv, UnusableIsEvicted, Mdb!UnusableIsEvicted, Leased
<1>10. ReadsSeeCommits'
  BY <1>1, <1>2, <1>3 DEF AccessInv, ReadsSeeCommits, Mdb!ReadsSeeCommits, Leased, Locking
<1>11. QED
  BY <1>5, <1>6, <1>7, <1>8, <1>9, <1>10 DEF Kept

\* A committed writer is announced.
LEMMA UseWriterKeeps ==
  ASSUME AccessInv, NEW t \in Threads, Mdb!UseWriter(t), Mdb!TypeOK'
  PROVE  Kept
<1>1. /\ step[t] = "ack" /\ step'[t] = "idle" /\ writerReads' = TRUE /\ Mdb!PathLockFree(t)
      /\ \A u \in Threads : u # t => step'[u] = step[u]
      /\ UNCHANGED <<pool, lease, blocked, maintained>>
  BY DEF Mdb!UseWriter, AccessInv, Mdb!TypeOK
<1>2. \A u \in Threads : ~Leased(u)
  BY <1>1, NobodyLeases DEF AccessInv
<1>3. \A u \in Threads : ~Leased(u)'
  BY <1>1, <1>2 DEF Leased, Mdb!Leased
<1>4. Locking'
  BY <1>1, <1>2, <1>3 DEF AccessInv, Locking
<1>5. Upkeep'
  BY <1>1, <1>3 DEF AccessInv, Upkeep
<1>6. Announced'
  BY <1>1 DEF AccessInv, Announced
<1>7. BlockedMeansClosed'
  BY <1>1, <1>3, ThreadsAssumption DEF AccessInv, BlockedMeansClosed, Mdb!BlockedMeansClosed, Leased
<1>8. UnusableIsEvicted'
  BY <1>1, <1>2, <1>3 DEF AccessInv, UnusableIsEvicted, Mdb!UnusableIsEvicted, Leased
<1>9. ReadsSeeCommits'
  BY <1>3 DEF ReadsSeeCommits, Mdb!ReadsSeeCommits, Leased
<1>10. QED
  BY <1>4, <1>5, <1>6, <1>7, <1>8, <1>9 DEF Kept

\* A connection that is leased may turn out to be unusable.
LEMMA HoldingKeeps ==
  ASSUME AccessInv, NEW t \in Threads, Leased(t), Leased(t)',
         \A u \in Threads : u # t => lease'[u] = lease[u],
         lease'[t].mode = lease[t].mode, lease'[t].from = lease[t].from,
         lease'[t].committed = lease[t].committed,
         UNCHANGED <<step, writerReads, blocked, maintained>>,
         \/ pool' = pool
         \/ pool' = [pool EXCEPT ![lease[t].from].marked = TRUE, ![lease[t].from].deferred = TRUE]
  PROVE  Kept
<1> DEFINE from == lease[t].from
<1>1. from \in Mdb!Pools /\ pool[from] # None /\ pool[from] \in Mdb!Connection
  BY DEF AccessInv, Mdb!TypeOK, Locking
<1>2. /\ \A q \in Mdb!Pools : q # from => pool'[q] = pool[q]
      /\ pool'[from] # None
      /\ \A x \in {"behind", "stuck"} : pool'[from][x] = pool[from][x]
      /\ pool' = pool \/ pool'[from]["deferred"]
  <2>1. CASE pool' = pool
    BY <1>1, <2>1
  <2>2. CASE pool' = [pool EXCEPT ![from].marked = TRUE, ![from].deferred = TRUE]
    <3>1. PICK p \in Mdb!Pools : p = from
      BY <1>1
    <3>2. pool[p] \in Mdb!Connection /\ Mdb!TypeOK
      BY <1>1, <3>1 DEF AccessInv
    <3>3. pool' = [pool EXCEPT ![p].marked = TRUE, ![p].deferred = TRUE]
      BY <2>2, <3>1
    <3>4. /\ pool'[p] \in Mdb!Connection
          /\ pool'[p]["marked"] /\ pool'[p]["deferred"]
          /\ \A x \in {"bad", "behind", "stuck"} : pool'[p][x] = pool[p][x]
          /\ \A q \in Mdb!Pools : q # p => pool'[q] = pool[q]
      BY <3>2, <3>3, DeferredType
    <3>5. pool'[p] # None
      BY <3>4, NoneAssumption
    <3>6. QED
      BY <3>1, <3>4, <3>5
  <2>3. QED
    BY <2>1, <2>2
<1>3. \A u \in Threads : /\ Leased(u)' <=> Leased(u)
                         /\ Leased(u) => u = t
  BY DEF Leased, Mdb!Leased, AccessInv, Locking
<1>4. \A u \in Threads : lease'[u].mode = lease[u].mode /\ lease'[u].from = lease[u].from
                         /\ lease'[u].committed = lease[u].committed
  OBVIOUS
<1>5. \A q \in Mdb!Pools : /\ pool'[q] = None <=> pool[q] = None
                           /\ \A x \in {"behind", "stuck"} : pool'[q][x] = pool[q][x]
  BY <1>1, <1>2
<1>6. "reader" \in Mdb!Pools /\ "writer" \in Mdb!Pools
  BY DEF Mdb!Pools
<1>7. Locking'
  BY <1>1, <1>2, <1>3, <1>4 DEF AccessInv, Locking
<1>8. Upkeep'
  BY <1>3, <1>5 DEF AccessInv, Upkeep
<1>9. Announced'
  BY <1>3, <1>4, <1>5, <1>6 DEF AccessInv, Announced, Announcing
<1>10. BlockedMeansClosed'
  BY <1>3, <1>4, <1>5, <1>6 DEF AccessInv, BlockedMeansClosed, Mdb!BlockedMeansClosed, Leased
<1>11. UnusableIsEvicted'
  <2>1. SUFFICES ASSUME NEW q \in Mdb!Pools, pool'[q] # None, pool'[q]["marked"]
                 PROVE  IF \E u \in Threads : Leased(u)' /\ lease'[u].from = q
                        THEN pool'[q]["deferred"] ELSE pool'[q]["stuck"]
    BY DEF UnusableIsEvicted, Mdb!UnusableIsEvicted, Leased
  <2>2. (\E u \in Threads : Leased(u)' /\ lease'[u].from = q) <=> q = from
    BY <1>3, <1>4
  <2>3. CASE pool'[q] = pool[q]
    BY <1>3, <2>1, <2>2, <2>3 DEF AccessInv, UnusableIsEvicted, Mdb!UnusableIsEvicted, Leased
  <2>4. CASE pool'[q] # pool[q]
    BY <1>2, <2>2, <2>4
  <2>5. QED
    BY <2>3, <2>4
<1>12. ReadsSeeCommits'
  BY <1>1, <1>3, <1>4, <1>5 DEF AccessInv, ReadsSeeCommits, Mdb!ReadsSeeCommits, Leased
<1>13. QED
  BY <1>7, <1>8, <1>9, <1>10, <1>11, <1>12 DEF Kept

\* A nested lease begins or ends.
LEMMA NestedKeeps ==
  ASSUME AccessInv, NEW t \in Threads, NEW outcome \in Mdb!Outcomes,
         Mdb!Nest(t) \/ Mdb!EndNested(t, outcome)
  PROVE  Kept
<1>1. lease[t].depth \in Nat
  BY DEF AccessInv, Mdb!TypeOK
<1>2. CASE Mdb!Nest(t)
  <2>1. /\ Leased(t) /\ UNCHANGED <<step, writerReads, blocked, maintained>>
        /\ lease' = lease \/ lease' = [lease EXCEPT ![t].depth = @ + 1]
        /\ \/ pool' = pool
           \/ pool' = [pool EXCEPT ![lease[t].from].marked = TRUE, ![lease[t].from].deferred = TRUE]
    BY <1>1, <1>2, BoundsAssumption DEF Mdb!Nest, Leased, Mdb!Leased
  <2>2. /\ \A u \in Threads : u # t => lease'[u] = lease[u]
        /\ lease'[t].depth > 0 /\ lease'[t].mode = lease[t].mode /\ lease'[t].from = lease[t].from
        /\ lease'[t].committed = lease[t].committed
    BY <1>1, <2>1 DEF AccessInv, Mdb!TypeOK, Leased, Mdb!Leased
  <2>3. QED
    BY <2>1, <2>2, HoldingKeeps DEF Leased, Mdb!Leased
<1>3. CASE Mdb!EndNested(t, outcome)
  <2>1. /\ Leased(t) /\ lease[t].depth > 1 /\ UNCHANGED <<step, writerReads, blocked, maintained>>
        /\ lease' = [lease EXCEPT ![t].depth = @ - 1]
        /\ \/ pool' = pool
           \/ pool' = [pool EXCEPT ![lease[t].from].marked = TRUE, ![lease[t].from].deferred = TRUE]
    BY <1>1, <1>3 DEF Mdb!EndNested, Mdb!Ends, Leased
  <2>2. /\ \A u \in Threads : u # t => lease'[u] = lease[u]
        /\ lease'[t].depth > 0 /\ lease'[t].mode = lease[t].mode /\ lease'[t].from = lease[t].from
        /\ lease'[t].committed = lease[t].committed
    BY <1>1, <2>1 DEF AccessInv, Mdb!TypeOK
  <2>3. QED
    BY <2>1, <2>2, HoldingKeeps DEF Leased, Mdb!Leased
<1>4. QED
  BY <1>2, <1>3

\* The outermost lease commits.
LEMMA CommitKeeps ==
  ASSUME AccessInv, NEW t \in Threads, Mdb!Commit(t)
  PROVE  Kept
<1>0. Leased(t) /\ lease[t].mode = "write"
  BY DEF Mdb!Commit, Leased, Mdb!Leased
<1>1. /\ Leased(t) /\ lease[t].mode = "write"
      /\ lease' = [lease EXCEPT ![t].committed = TRUE]
      /\ pool' = [pool EXCEPT !["reader"] =
                     IF pool["reader"] = None THEN None
                     ELSE [pool["reader"] EXCEPT !["behind"] = TRUE]]
      /\ UNCHANGED <<writerReads, step, blocked, maintained>>
  BY <1>0 DEF Mdb!Commit
<1>2. "reader" \in Mdb!Pools /\ "writer" \in Mdb!Pools
  BY DEF Mdb!Pools
<1>3. /\ \A u \in Threads : u # t => lease'[u] = lease[u]
      /\ lease'[t].depth = lease[t].depth /\ lease'[t].mode = "write"
      /\ lease'[t].from = lease[t].from /\ lease'[t].committed
  BY <1>1 DEF AccessInv, Mdb!TypeOK
<1>4. lease[t].from = "writer" /\ \A u \in Threads : Leased(u) => u = t
  BY <1>1 DEF AccessInv, Locking
<1>5. pool'["writer"] = pool["writer"]
  BY <1>1, <1>2 DEF AccessInv, Mdb!TypeOK
<1>6. /\ pool'["reader"] = None <=> pool["reader"] = None
      /\ pool["reader"] # None => \A x \in {"marked", "deferred", "stuck"} :
                                    pool'["reader"][x] = pool["reader"][x]
  <2>1. CASE pool["reader"] = None
    BY <1>1, <1>2, <2>1 DEF AccessInv, Mdb!TypeOK
  <2>2. CASE pool["reader"] # None
    <3>1. pool["reader"] \in Mdb!Connection /\ pool'["reader"] = [pool["reader"] EXCEPT !["behind"] = TRUE]
      BY <1>1, <1>2, <2>2 DEF AccessInv, Mdb!TypeOK
    <3>2. pool'["reader"] \in Mdb!Connection
          /\ \A x \in {"marked", "deferred", "stuck"} : pool'["reader"][x] = pool["reader"][x]
      BY <3>1 DEF Mdb!Connection, Mdb!Traits
    <3>3. QED
      BY <2>2, <3>2, NoneAssumption
  <2>3. QED
    BY <2>1, <2>2
<1>7. \A u \in Threads : Leased(u)' <=> Leased(u)
  BY <1>3 DEF Leased, Mdb!Leased
<1>8. \A q \in Mdb!Pools : q = "reader" \/ q = "writer"
  BY DEF Mdb!Pools
<1>9. Locking'
  BY <1>1, <1>3, <1>4, <1>5, <1>6, <1>7 DEF AccessInv, Locking
<1>10. Upkeep'
  BY <1>1, <1>7 DEF AccessInv, Upkeep
<1>11. Announced'
  BY <1>1, <1>3, <1>5, <1>7 DEF AccessInv, Announced, Announcing
<1>12. BlockedMeansClosed'
  BY <1>1, <1>3, <1>5, <1>7 DEF AccessInv, BlockedMeansClosed, Mdb!BlockedMeansClosed, Leased
<1>13. UnusableIsEvicted'
  BY <1>1, <1>3, <1>4, <1>5, <1>6, <1>7, <1>8
  DEF AccessInv, UnusableIsEvicted, Mdb!UnusableIsEvicted, Leased
<1>14. ReadsSeeCommits'
  <2>1. \A u \in Threads : Leased(u)' => lease'[u].from = "writer" /\ pool'["writer"] # None
    BY <1>1, <1>3, <1>4, <1>5, <1>7 DEF AccessInv, Locking
  <2>2. ~pool'["writer"]["behind"] \/ pool'["writer"] = None
    BY <1>5 DEF AccessInv, Announced
  <2>3. QED
    BY <2>1, <2>2 DEF ReadsSeeCommits, Mdb!ReadsSeeCommits, Leased
<1>15. QED
  BY <1>9, <1>10, <1>11, <1>12, <1>13, <1>14 DEF Kept

\* The outermost lease ends; its connection is closed if it is condemned.
LEMMA EndKeeps ==
  ASSUME AccessInv, NEW t \in Threads, NEW outcome \in Mdb!Outcomes, Mdb!End(t, outcome),
         Mdb!TypeOK'
  PROVE  Kept
<1> DEFINE from == lease[t].from
<1>1. /\ Leased(t) /\ lease'[t] = Mdb!NoLease
      /\ step'[t] = (IF lease[t].committed THEN "ack" ELSE "idle")
      /\ \A u \in Threads : u # t => lease'[u] = lease[u] /\ step'[u] = step[u]
      /\ UNCHANGED <<writerReads, blocked, maintained>>
  BY DEF Mdb!End, Mdb!Ends, Leased, AccessInv, Mdb!TypeOK
<1>2. /\ step[t] = "leasing" /\ from \in Mdb!Pools /\ pool[from] # None
      /\ \A u \in Threads : Leased(u) => u = t
  BY <1>1 DEF AccessInv, Locking, Mdb!TypeOK
<1>3. \A u \in Threads : ~Leased(u)'
  BY <1>1, <1>2 DEF Leased, Mdb!Leased, Mdb!NoLease
<1>4. \A q \in Mdb!Pools : q # from => pool'[q] = pool[q]
  <2>1. CASE pool' = pool \/ pool' = [pool EXCEPT ![from] = None]
    BY <2>1 DEF AccessInv, Mdb!TypeOK
  <2>2. CASE pool' = [Mdb!Stuck(from) EXCEPT ![from].marked = TRUE, ![from].deferred = FALSE]
    BY <1>2, <2>2, StuckType DEF AccessInv
  <2>3. QED
    BY <2>1, <2>2 DEF Mdb!End
<1>5. \/ pool' = pool /\ ~pool[from]["deferred"]
      \/ pool'[from] = None
      \/ pool'[from] = [[Mdb!Stuck(from)[from] EXCEPT !["marked"] = TRUE] EXCEPT !["deferred"] = FALSE]
  <2>1. CASE UNCHANGED pool /\ ~Mdb!Condemned(t, outcome)
    BY <2>1 DEF Mdb!Condemned
  <2>2. CASE pool' = [pool EXCEPT ![from] = None]
    BY <1>2, <2>2 DEF AccessInv, Mdb!TypeOK
  <2>3. CASE pool' = [Mdb!Stuck(from) EXCEPT ![from].marked = TRUE, ![from].deferred = FALSE]
    BY <1>2, <2>3, StuckType DEF AccessInv
  <2>4. QED
    BY <2>1, <2>2, <2>3 DEF Mdb!End
<1>6. /\ Shrunk(from)
      /\ \/ pool'[from] = None \/ pool'[from]["stuck"]
         \/ ~pool[from]["deferred"] /\ pool' = pool
  <2>1. CASE pool' = pool /\ ~pool[from]["deferred"]
    BY <1>2, <2>1 DEF Shrunk
  <2>2. CASE pool'[from] = None
    BY <2>2 DEF Shrunk
  <2>3. CASE pool'[from] = [[Mdb!Stuck(from)[from] EXCEPT !["marked"] = TRUE]
                              EXCEPT !["deferred"] = FALSE]
    BY <1>2, <2>3, StuckShrinks DEF AccessInv
  <2>4. QED
    BY <1>5, <2>1, <2>2, <2>3
<1>7. \A q \in Mdb!Pools : Shrunk(q)
  BY <1>4, <1>6 DEF Shrunk
<1>8. "reader" \in Mdb!Pools /\ "writer" \in Mdb!Pools
  BY DEF Mdb!Pools
<1>9. Locking'
  BY <1>1, <1>2, <1>3 DEF AccessInv, Locking
<1>10. Upkeep'
  BY <1>1, <1>2, <1>3 DEF AccessInv, Upkeep
<1>11. Announced'
  <2>1. Announcing => Announcing'
    <3>1. ASSUME NEW u \in Threads, step[u] = "ack" PROVE step'[u] = "ack"
      BY <1>1, <1>2, <3>1
    <3>2. lease[t].committed => step'[t] = "ack"
      BY <1>1
    <3>3. QED
      BY <1>2, <3>1, <3>2 DEF Announcing
  <2>2. QED
    BY <1>1, <1>7, <1>8, <2>1 DEF AccessInv, Announced, Shrunk
<1>12. BlockedMeansClosed'
  <2>1. step'[Main] = "closing" <=> step[Main] = "closing"
    BY <1>1, <1>2, ThreadsAssumption
  <2>2. QED
    BY <1>1, <1>3, <1>7, <1>8, <2>1
    DEF AccessInv, BlockedMeansClosed, Mdb!BlockedMeansClosed, Leased, Shrunk
<1>13. UnusableIsEvicted'
  <2>1. SUFFICES ASSUME NEW q \in Mdb!Pools, pool'[q] # None, pool'[q]["marked"]
                 PROVE  pool'[q]["stuck"]
    BY <1>3 DEF UnusableIsEvicted, Mdb!UnusableIsEvicted, Leased
  <2>2. CASE q = from
    BY <1>1, <1>6, <2>1, <2>2 DEF AccessInv, UnusableIsEvicted, Mdb!UnusableIsEvicted, Leased
  <2>3. CASE q # from
    BY <1>2, <1>4, <2>1, <2>3 DEF AccessInv, UnusableIsEvicted, Mdb!UnusableIsEvicted, Leased
  <2>4. QED
    BY <2>2, <2>3
<1>14. ReadsSeeCommits'
  BY <1>3 DEF ReadsSeeCommits, Mdb!ReadsSeeCommits, Leased
<1>15. QED
  BY <1>9, <1>10, <1>11, <1>12, <1>13, <1>14 DEF Kept

\* Every action of the connections keeps the invariant.
LEMMA MdbNext ==
  ASSUME AccessInv, Mdb!Next
  PROVE  AccessInv'
<1>1. ASSUME NEW t \in Threads, NEW mode \in Mdb!Modes,
             Mdb!Lease(t, mode) \/ Mdb!Open(t, mode) \/ Mdb!OpenFails(t, mode)
      PROVE  AccessInv'
  <2>1. Mdb!TypeOK'
    BY <1>1, LeaseType DEF AccessInv
  <2>2. Kept
    BY <1>1, <2>1, LeaseKeeps, OpenKeeps, OpenFailsKeeps
  <2>3. QED
    BY <2>1, <2>2 DEF AccessInv, Kept
<1>2. ASSUME NEW t \in Threads, NEW outcome \in Mdb!Outcomes,
             \/ Mdb!Nest(t) \/ Mdb!Commit(t) \/ Mdb!EndNested(t, outcome) \/ Mdb!End(t, outcome)
             \/ Mdb!UseWriter(t)
      PROVE  AccessInv'
  <2>1. Mdb!TypeOK'
    BY <1>2, LeasedType DEF AccessInv
  <2>2. Kept
    BY <1>2, <2>1, NestedKeeps, CommitKeeps, EndKeeps, UseWriterKeeps
  <2>3. QED
    BY <2>1, <2>2 DEF AccessInv, Kept
<1>3. ASSUME NEW t \in Threads, NEW p \in Mdb!Pools,
             \/ Mdb!BeginMaintenance(t) \/ Mdb!EvictForMaintenance(t) \/ Mdb!EndMaintenance(t)
             \/ Mdb!CloseDatabase(t) \/ Mdb!Break(p) \/ Mdb!HandleSignal \/ Mdb!CloseWriter
      PROVE  AccessInv'
  <2>1. Mdb!TypeOK'
    BY <1>3, ClosingType DEF AccessInv
  <2>2. Mdb!EvictForMaintenance(t) => Kept
    <3>1. SUFFICES ASSUME Mdb!EvictForMaintenance(t) PROVE Kept
      OBVIOUS
    <3>2. /\ Mdb!PathLockFree(t) /\ Mdb!Evict /\ lease' = lease /\ blocked' = blocked
          /\ step[t] = "evicting"
          /\ \/ step' = [step EXCEPT ![t] = "maintaining"] /\ maintained' = maintained
                /\ \A q \in Mdb!Pools : pool'[q] = None
             \/ step' = [step EXCEPT ![t] = "idle"] /\ maintained' = FALSE
      BY <3>1 DEF Mdb!EvictForMaintenance
    <3>3. QED
      BY <2>1, <3>2, EvictKeeps
  <2>3. Mdb!CloseDatabase(t) => Kept
    BY <2>1, EvictKeeps DEF Mdb!CloseDatabase
  <2>4. Kept
    BY <1>3, <2>1, <2>2, <2>3, MaintenanceKeeps, BreakKeeps, CloseWriterKeeps
  <2>5. QED
    BY <2>1, <2>4 DEF AccessInv, Kept
<1>4. "reader" \in Mdb!Pools /\ "done" \in Mdb!Outcomes /\ Main \in Threads
  BY ThreadsAssumption DEF Mdb!Pools, Mdb!Outcomes
<1>5. QED
  BY <1>1, <1>2, <1>3, <1>4 DEF Mdb!Next

\* No thread, no connection.
LEMMA MdbInit ==
  ASSUME NEW n \in Nat, NEW failures \in Nat, Mdb!InitWith(n, failures), signals \in Seq(BOOLEAN)
  PROVE  AccessInv
<1>1. \A t \in Threads : /\ step[t] = "idle" /\ ~Leased(t)
  BY DEF Mdb!InitWith, Leased, Mdb!Leased, Mdb!NoLease
<1>2. \A p \in Mdb!Pools : pool[p] = None
  BY DEF Mdb!InitWith
<1>3. Mdb!NoLease \in [depth : 0..MaxDepth, mode : Mdb!Modes, from : Mdb!Pools, committed : BOOLEAN]
  BY BoundsAssumption DEF Mdb!NoLease, Mdb!Modes, Mdb!Pools
<1>4. Mdb!TypeOK
  BY <1>3 DEF Mdb!TypeOK, Mdb!InitWith, Mdb!Steps
<1>5. "reader" \in Mdb!Pools /\ "writer" \in Mdb!Pools
  BY DEF Mdb!Pools
<1>6. Locking /\ Upkeep /\ Announced
  BY <1>1, <1>2, <1>5 DEF Locking, Upkeep, Announced
<1>7. BlockedMeansClosed /\ UnusableIsEvicted /\ ReadsSeeCommits
  BY <1>1, <1>2, <1>5 DEF BlockedMeansClosed, Mdb!BlockedMeansClosed, UnusableIsEvicted,
     Mdb!UnusableIsEvicted, ReadsSeeCommits, Mdb!ReadsSeeCommits, Leased
<1>8. QED
  BY <1>4, <1>6, <1>7 DEF AccessInv

-----------------------------------------------------------------------------
(* The monitor of On-Screen Takeoff. *)

Alive(n) == Monitor!Alive(n)

\* The thread of a start that is alive keeps the monitor from being started again.
OneAlive ==
  \A n \in 1..MaxStarts : Alive(n) => /\ isMonitoring
                                      /\ \A m \in 1..MaxStarts : Alive(m) => m = n

MonitorInv == Monitor!TypeOK /\ OneAlive

\* What the monitor does keeps the types.
LEMMA MonitorType ==
  ASSUME Monitor!TypeOK, Monitor!Next
  PROVE  Monitor!TypeOK'
<1> USE DEF Monitor!TypeOK
<1>1. ASSUME NEW status \in BOOLEAN, Monitor!Publish(status)
      PROVE  signals' \in Seq(BOOLEAN) /\ Len(signals') <= MaxSignals /\ published' \in BOOLEAN
  <2>1. signals' \in Seq(BOOLEAN) /\ Len(signals') = Len(signals) + 1
    BY <1>1, AppendProperties DEF Monitor!Publish
  <2>2. Len(signals) \in Nat /\ MaxSignals \in Nat
    BY LenProperties, BoundsAssumption
  <2>3. QED
    BY <1>1, <2>1, <2>2 DEF Monitor!Publish
<1>2. ASSUME Monitor!PublishNothing
      PROVE  signals' \in Seq(BOOLEAN) /\ Len(signals') <= MaxSignals /\ published' \in BOOLEAN
  BY <1>2 DEF Monitor!PublishNothing
<1>3. ASSUME Monitor!PublishStaleOffline
      PROVE  signals' \in Seq(BOOLEAN) /\ Len(signals') <= MaxSignals /\ published' \in BOOLEAN
  BY <1>1, <1>2, <1>3 DEF Monitor!PublishStaleOffline
<1>4. ASSUME NEW n \in 1..MaxStarts, Monitor!ConnectFails(n)
      PROVE  Monitor!TypeOK'
  BY <1>3, <1>4 DEF Monitor!ConnectFails, Monitor!States
<1>5. ASSUME NEW n \in 1..MaxStarts, Monitor!Connect(n)
      PROVE  Monitor!TypeOK'
  <2>1. signals' \in Seq(BOOLEAN) /\ Len(signals') <= MaxSignals /\ published' \in BOOLEAN
    BY <1>1, <1>2, <1>3, <1>5 DEF Monitor!Connect
  <2>2. statusOnline' \in BOOLEAN /\ statusEvent' \in BOOLEAN /\ event' \in BOOLEAN
    BY <1>5 DEF Monitor!Connect
  <2>3. worker' \in [1..MaxStarts -> {"none", "connecting", "watching", "ended"}]
    BY <1>5 DEF Monitor!Connect, Monitor!At
  <2>4. UNCHANGED <<ost, stopFlag, isMonitoring, changes>> /\ state' = "CONNECTED"
    BY <1>5 DEF Monitor!Connect
  <2>5. QED
    BY <2>1, <2>2, <2>3, <2>4 DEF Monitor!States
<1>6. ASSUME NEW n \in 1..MaxStarts, Monitor!CheckStatus(n)
      PROVE  Monitor!TypeOK'
  <2>1. signals' \in Seq(BOOLEAN) /\ Len(signals') <= MaxSignals /\ published' \in BOOLEAN
    BY <1>1, <1>6 DEF Monitor!CheckStatus
  <2>2. statusOnline' \in BOOLEAN /\ statusEvent' \in BOOLEAN /\ event' \in BOOLEAN
    BY <1>6 DEF Monitor!CheckStatus, Monitor!ResetEvents
  <2>3. worker' \in [1..MaxStarts -> {"none", "connecting", "watching", "ended"}]
    BY <1>6 DEF Monitor!CheckStatus, Monitor!At
  <2>4. UNCHANGED <<ost, stopFlag, isMonitoring, changes>> /\ state' \in Monitor!States
    BY <1>6 DEF Monitor!CheckStatus, Monitor!States
  <2>5. QED
    BY <2>1, <2>2, <2>3, <2>4
<1>7. ASSUME NEW n \in 1..MaxStarts, Monitor!LoseEvents(n) \/ Monitor!EndLoop(n)
      PROVE  Monitor!TypeOK'
  <2>1. UNCHANGED <<ost, stopFlag, state, published, signals>>
    BY <1>7 DEF Monitor!LoseEvents, Monitor!EndLoop
  <2>2. statusOnline' \in BOOLEAN /\ statusEvent' \in BOOLEAN /\ event' \in BOOLEAN
    BY <1>7 DEF Monitor!LoseEvents, Monitor!EndLoop, Monitor!ResetEvents
  <2>3. worker' \in [1..MaxStarts -> {"none", "connecting", "watching", "ended"}]
    BY <1>7 DEF Monitor!LoseEvents, Monitor!EndLoop, Monitor!At
  <2>4. isMonitoring' = isMonitoring \/ isMonitoring' = FALSE
    BY <1>7 DEF Monitor!LoseEvents, Monitor!EndLoop
  <2>5. changes' \in Nat
    BY <1>7 DEF Monitor!LoseEvents, Monitor!EndLoop
  <2>6. isMonitoring' \in BOOLEAN
    BY <2>4
  <2>7. QED
    BY <2>1, <2>2, <2>3, <2>5, <2>6
<1>8. ASSUME NEW n \in 1..MaxStarts, Monitor!StartMonitoring(n)
      PROVE  Monitor!TypeOK'
  <2>1. worker' \in [1..MaxStarts -> {"none", "connecting", "watching", "ended"}]
    BY <1>8 DEF Monitor!StartMonitoring, Monitor!At
  <2>2. stopFlag' = FALSE /\ isMonitoring' = TRUE
    BY <1>8 DEF Monitor!StartMonitoring
  <2>3. stopFlag' \in BOOLEAN /\ isMonitoring' \in BOOLEAN
    BY <2>2
  <2>4. changes' \in Nat
    BY <1>8 DEF Monitor!StartMonitoring
  <2>5. UNCHANGED <<ost, event, statusEvent, state, statusOnline, published, signals>>
    BY <1>8 DEF Monitor!StartMonitoring
  <2>6. QED
    BY <2>1, <2>3, <2>4, <2>5
<1>9. CASE Monitor!StopMonitoring \/ Monitor!JoinTimesOut
  <2>1. stopFlag' \in BOOLEAN
    BY <1>9 DEF Monitor!StopMonitoring, Monitor!JoinTimesOut
  <2>2. UNCHANGED <<ost, worker, isMonitoring, event, statusEvent, state, statusOnline, published,
                    signals, changes>>
    BY <1>9 DEF Monitor!StopMonitoring, Monitor!JoinTimesOut
  <2>3. QED
    BY <2>1, <2>2
<1>10. CASE Monitor!Joined
  <2>1. UNCHANGED <<ost, worker, stopFlag, published, signals, changes>>
    BY <1>10 DEF Monitor!Joined
  <2>2. /\ statusOnline' \in BOOLEAN /\ statusEvent' \in BOOLEAN /\ event' \in BOOLEAN
        /\ isMonitoring' \in BOOLEAN /\ state' \in Monitor!States
    BY <1>10 DEF Monitor!Joined, Monitor!ResetEvents, Monitor!States
  <2>3. QED
    BY <2>1, <2>2
<1>11. CASE Monitor!OstChanges
  BY <1>11 DEF Monitor!OstChanges
<1>12. QED
  BY <1>4, <1>5, <1>6, <1>7, <1>8, <1>9, <1>10, <1>11 DEF Monitor!Next, Monitor!Thread

\* A monitor is started when none is alive.
LEMMA MonitorNext ==
  ASSUME MonitorInv, Monitor!Next
  PROVE  MonitorInv'
<1>1. Monitor!TypeOK'
  BY MonitorType DEF MonitorInv
<1>2. ASSUME NEW n \in 1..MaxStarts,
             \/ Monitor!ConnectFails(n) \/ Monitor!Connect(n) \/ Monitor!CheckStatus(n)
             \/ Monitor!LoseEvents(n)
      PROVE  OneAlive'
  <2>1. /\ Alive(n) /\ isMonitoring' = isMonitoring
        /\ \/ worker' = worker
           \/ worker' = [worker EXCEPT ![n] = "connecting"]
           \/ worker' = [worker EXCEPT ![n] = "watching"]
    BY <1>2 DEF Monitor!ConnectFails, Monitor!Connect, Monitor!CheckStatus, Monitor!LoseEvents,
                Monitor!At, Alive, Monitor!Alive
  <2>2. \A m \in 1..MaxStarts : Alive(m)' => Alive(m)
    BY <2>1 DEF Alive, Monitor!Alive, MonitorInv, Monitor!TypeOK
  <2>3. QED
    BY <2>1, <2>2 DEF MonitorInv, OneAlive
<1>3. ASSUME NEW n \in 1..MaxStarts, Monitor!EndLoop(n)
      PROVE  OneAlive'
  <2>1. Alive(n) /\ worker' = [worker EXCEPT ![n] = "ended"]
    BY <1>3 DEF Monitor!EndLoop, Monitor!At, Alive
  <2>2. \A m \in 1..MaxStarts : ~Alive(m)'
    BY <2>1 DEF Alive, Monitor!Alive, MonitorInv, OneAlive, Monitor!TypeOK
  <2>3. QED
    BY <2>2 DEF OneAlive
<1>4. ASSUME NEW n \in 1..MaxStarts, Monitor!StartMonitoring(n)
      PROVE  OneAlive'
  <2>1. ~isMonitoring /\ isMonitoring' /\ worker' = [worker EXCEPT ![n] = "connecting"]
    BY <1>4 DEF Monitor!StartMonitoring, Monitor!At
  <2>2. \A m \in 1..MaxStarts : Alive(m)' => m = n
    BY <2>1 DEF Alive, Monitor!Alive, MonitorInv, OneAlive, Monitor!TypeOK
  <2>3. QED
    BY <2>1, <2>2 DEF OneAlive
<1>5. CASE Monitor!Joined
  <2>1. \A m \in 1..MaxStarts : ~Alive(m)'
    BY <1>5 DEF Monitor!Joined, Alive, Monitor!Alive
  <2>2. QED
    BY <1>1, <2>1 DEF MonitorInv, OneAlive
<1>6. CASE Monitor!StopMonitoring \/ Monitor!JoinTimesOut \/ Monitor!OstChanges
  <2>1. UNCHANGED <<worker, isMonitoring>>
    BY <1>6 DEF Monitor!StopMonitoring, Monitor!JoinTimesOut, Monitor!OstChanges
  <2>2. \A m \in 1..MaxStarts : Alive(m)' <=> Alive(m)
    BY <2>1 DEF Alive, Monitor!Alive
  <2>3. QED
    BY <1>1, <2>1, <2>2 DEF MonitorInv, OneAlive
<1>7. QED
  BY <1>1, <1>2, <1>3, <1>4, <1>5, <1>6 DEF MonitorInv, Monitor!Next, Monitor!Thread

\* At first no monitor was started.
LEMMA MonitorInit ==
  ASSUME NEW m \in Nat, NEW status \in {"absent", "offline", "online"},
         NEW queued \in {<<>>, <<TRUE>>}, Monitor!InitWith(status, m, queued)
  PROVE  MonitorInv
<1>1. signals \in Seq(BOOLEAN) /\ Len(signals) <= MaxSignals
  <2>1. signals = <<>> \/ signals = <<TRUE>>
    BY DEF Monitor!InitWith
  <2>2. MaxSignals \in Nat /\ 1 <= MaxSignals
    BY BoundsAssumption
  <2>3. CASE signals = <<>>
    <3>1. Len(signals) = 0
      BY <2>3
    <3>2. signals \in Seq(BOOLEAN)
      BY <2>3
    <3>3. QED
      BY <2>2, <3>1, <3>2
  <2>4. CASE signals = <<TRUE>>
    <3>1. <<TRUE>> = Append(<<>>, TRUE)
      OBVIOUS
    <3>2. <<>> \in Seq(BOOLEAN) /\ Len(<<>>) = 0
      OBVIOUS
    <3>3. Append(<<>>, TRUE) \in Seq(BOOLEAN) /\ Len(Append(<<>>, TRUE)) = 1
      BY <3>2, AppendProperties
    <3>4. QED
      BY <2>2, <2>4, <3>1, <3>3
  <2>5. QED
    BY <2>1, <2>3, <2>4
<1>2. published \in BOOLEAN
  BY DEF Monitor!InitWith
<1>3. /\ worker = [n \in 1..MaxStarts |-> "none"]
      /\ stopFlag = FALSE /\ isMonitoring = FALSE /\ event = FALSE
      /\ statusEvent = FALSE /\ statusOnline = FALSE
      /\ ost \in {"absent", "offline", "online"} /\ state = "INITIAL" /\ changes \in Nat
  BY DEF Monitor!InitWith
<1>4. Monitor!TypeOK
  BY <1>1, <1>2, <1>3 DEF Monitor!TypeOK, Monitor!States
<1>5. \A n \in 1..MaxStarts : ~Alive(n)
  BY <1>3 DEF Alive, Monitor!Alive
<1>6. QED
  BY <1>4, <1>5 DEF MonitorInv, OneAlive

-----------------------------------------------------------------------------
(* The two together: they share the main thread and the signals. *)

\* What the monitor does to the connections: the main thread waits for a thread, and a
\* status is published.
LEMMA MonitorLeavesAccess ==
  ASSUME AccessInv, MonitorInv, Monitor!Next
  PROVE  AccessInv'
<1>1. UNCHANGED mdb
  BY DEF Monitor!Next, Monitor!Thread, Monitor!ConnectFails, Monitor!Connect,
     Monitor!CheckStatus, Monitor!EndLoop, Monitor!LoseEvents, Monitor!StartMonitoring,
     Monitor!StopMonitoring, Monitor!Joined, Monitor!JoinTimesOut, Monitor!OstChanges
<1>2. \/ step' = step
      \/ step[Main] = "idle" /\ step' = [step EXCEPT ![Main] = "joining"]
      \/ step[Main] = "joining" /\ step' = [step EXCEPT ![Main] = "idle"]
  BY DEF Monitor!Next, Monitor!Thread, Monitor!ConnectFails, Monitor!Connect,
     Monitor!CheckStatus, Monitor!EndLoop, Monitor!LoseEvents, Monitor!StartMonitoring,
     Monitor!StopMonitoring, Monitor!Joined, Monitor!JoinTimesOut, Monitor!OstChanges
<1>3. /\ \A u \in Threads : u # Main => step'[u] = step[u]
      /\ step'[Main] = step[Main] \/ {step[Main], step'[Main]} = {"idle", "joining"}
      /\ step' \in [Threads -> Mdb!Steps]
  BY <1>2, ThreadsAssumption DEF AccessInv, Mdb!TypeOK, Mdb!Steps
<1>4. signals' \in Seq(BOOLEAN)
  BY MonitorNext DEF MonitorInv, Monitor!TypeOK
<1>5. Mdb!TypeOK'
  BY <1>1, <1>3, <1>4 DEF AccessInv, Mdb!TypeOK, mdb
<1>6. \A u \in Threads : /\ step[u] = "leasing" <=> step'[u] = "leasing"
                         /\ step[u] = "ack" <=> step'[u] = "ack"
                         /\ step[u] = "closing" <=> step'[u] = "closing"
                         /\ step[u] = "evicting" <=> step'[u] = "evicting"
                         /\ step[u] = "maintaining" <=> step'[u] = "maintaining"
  BY <1>3
<1>7. \A u \in Threads : Leased(u)' <=> Leased(u)
  BY <1>1 DEF mdb, Leased, Mdb!Leased
<1>8. Upkeep'
  BY <1>1, <1>6, <1>7 DEF AccessInv, Upkeep, mdb
<1>9. Kept
  BY <1>1, <1>6, <1>8, ThreadsAssumption, MovingKeeps DEF mdb
<1>10. QED
  BY <1>5, <1>9 DEF AccessInv, Kept

\* What the connections do to the monitor: the main thread takes a signal.
LEMMA AccessLeavesMonitor ==
  ASSUME AccessInv, MonitorInv, Mdb!Next
  PROVE  MonitorInv'
<1>1. UNCHANGED monitor
  BY DEF Mdb!Next, Mdb!Lease, Mdb!Open, Mdb!OpenFails, Mdb!Nest, Mdb!Commit, Mdb!EndNested,
     Mdb!End, Mdb!UseWriter, Mdb!Break, Mdb!HandleSignal, Mdb!CloseWriter,
     Mdb!BeginMaintenance, Mdb!EvictForMaintenance, Mdb!EndMaintenance, Mdb!CloseDatabase
<1>2. signals' = signals \/ (signals # <<>> /\ signals' = Tail(signals))
  BY DEF Mdb!Next, Mdb!Lease, Mdb!Open, Mdb!OpenFails, Mdb!Nest, Mdb!Commit, Mdb!EndNested,
     Mdb!End, Mdb!UseWriter, Mdb!Break, Mdb!HandleSignal, Mdb!CloseWriter,
     Mdb!BeginMaintenance, Mdb!EvictForMaintenance, Mdb!EndMaintenance, Mdb!CloseDatabase
<1>3. signals' \in Seq(BOOLEAN) /\ Len(signals') <= MaxSignals
  <2>1. signals \in Seq(BOOLEAN) /\ Len(signals) <= MaxSignals
    BY DEF MonitorInv, Monitor!TypeOK
  <2>2. CASE signals # <<>> /\ signals' = Tail(signals)
    <3>1. signals' \in Seq(BOOLEAN) /\ Len(signals') = Len(signals) - 1
      BY <2>1, <2>2, HeadTailProperties
    <3>2. Len(signals) \in Nat /\ MaxSignals \in Nat
      BY <2>1, LenProperties, BoundsAssumption
    <3>3. QED
      BY <2>1, <3>1, <3>2
  <2>3. QED
    BY <1>2, <2>1, <2>2
<1>4. Monitor!TypeOK'
  BY <1>1, <1>3 DEF MonitorInv, Monitor!TypeOK, monitor
<1>5. \A n \in 1..MaxStarts : Alive(n)' <=> Alive(n)
  BY <1>1 DEF monitor, Alive, Monitor!Alive
<1>6. QED
  BY <1>1, <1>4, <1>5 DEF MonitorInv, OneAlive, monitor

-----------------------------------------------------------------------------
(* The projection of batches: the invariant. *)

\* What barrier b of batch n tells: a surface that reported without a failure shows the
\* data of the batch, and the verdict waited for all of them. (versions: what each shows)
Truthful(b, n, versions) ==
  /\ b.pending \subseteq b.registered
  /\ b.verdict = "success" => b.pending = {} /\ ~b.failed
  /\ ~b.failed => \A s \in b.registered \ b.pending : versions[s] >= n

\* An update reports for batches that its data have taken in; one that nothing overtook is
\* not older than what its surface shows.
UpToDate(u, s) ==
  /\ u.version <= Len(batch)
  /\ \A n \in u.batches : n <= u.version
  /\ u.generation <= updates[s]
  /\ u.generation = updates[s] => shown[s] <= u.version

Updated(s) ==
  /\ inFlight[s] # None => UpToDate(inFlight[s], s)
  /\ waiting[s] # None => /\ UpToDate(waiting[s], s)
                          /\ inFlight[s] # None
                          /\ inFlight[s].generation < waiting[s].generation

PlanInv ==
  /\ Plan!TypeOK
  /\ \A n \in Plan!Batches : Truthful(batch[n], n, shown)
  /\ \A s \in Surfaces : Updated(s)

\* No update and no batch is taken for a missing one.
LEMMA SubmissionIsSome ==
  Plan!TypeOK => None \notin Plan!Submission
<1>1. SUFFICES ASSUME Plan!TypeOK PROVE Plan!Submission \subseteq Submissions
  BY NoneAssumption
<1>2. Plan!Batches \subseteq Nat
  BY DEF Plan!Batches, Plan!TypeOK
<1>3. QED
  BY <1>2 DEF Plan!Submission, Submissions

\* A barrier that settles.
LEMMA SettleFacts ==
  ASSUME NEW b \in Plan!Barrier
  PROVE  /\ Plan!Settle(b) \in Plan!Barrier
         /\ \/ Plan!Settle(b) = b
            \/ /\ Plan!Settle(b) = Plan!Succeeded(b)
               /\ b.pending = {} /\ ~b.failed
            \/ Plan!Settle(b) = Plan!Failed
<1>1. Plan!Failed \in Plan!Barrier
  BY DEF Plan!Failed, Plan!Barrier, Plan!Verdicts
<1>2. Plan!Succeeded(b) \in Plan!Barrier
  BY DEF Plan!Succeeded, Plan!Barrier, Plan!Verdicts
<1>3. QED
  BY <1>1, <1>2 DEF Plan!Settle

\* A barrier that settles stays truthful.
LEMMA SettleTruthful ==
  ASSUME NEW b \in Plan!Barrier, NEW n, NEW w, Truthful(b, n, w)
  PROVE  Truthful(Plan!Settle(b), n, w)
<1>1. Truthful(Plan!Failed, n, w)
  BY DEF Truthful, Plan!Failed
<1>2. ASSUME b.pending = {}, ~b.failed PROVE Truthful(Plan!Succeeded(b), n, w)
  <2>1. /\ Plan!Succeeded(b).pending = b.pending /\ Plan!Succeeded(b).registered = b.registered
        /\ Plan!Succeeded(b).failed = b.failed
    BY DEF Plan!Succeeded, Plan!Barrier
  <2>2. QED
    BY <1>2, <2>1 DEF Truthful
<1>3. QED
  BY <1>1, <1>2, SettleFacts

\* Surfaces report to a barrier.
LEMMA CompleteType ==
  ASSUME NEW b \in Plan!Barrier, NEW S, NEW ok \in BOOLEAN
  PROVE  Plan!Complete(b, S, ok) \in Plan!Barrier
<1> DEFINE c == [b EXCEPT !.pending = @ \ S, !.failed = @ \/ (~ok /\ b.pending \cap S # {})]
<1>1. PICK p \in SUBSET Surfaces, f \in BOOLEAN :
        p = b.pending \ S /\ f = (b.failed \/ (~ok /\ b.pending \cap S # {}))
  BY DEF Plan!Barrier
<1>2. [b EXCEPT !.pending = p, !.failed = f] \in Plan!Barrier
  BY DEF Plan!Barrier
<1>3. c = [b EXCEPT !.pending = p, !.failed = f]
  BY <1>1
<1>4. c \in Plan!Barrier
  BY <1>2, <1>3
<1> HIDE DEF c
<1>5. Plan!Complete(b, S, ok) = Plan!Settle(c)
  BY DEF Plan!Complete, c
<1>6. QED
  BY <1>4, <1>5, SettleFacts

\* A surface that reports a success shows the data of the batch.
LEMMA CompleteTruthful ==
  ASSUME NEW b \in Plan!Barrier, NEW S, NEW ok \in BOOLEAN, NEW n \in Nat,
         NEW w \in [Surfaces -> Nat], NEW v \in [Surfaces -> Nat],
         Truthful(b, n, w), \A s \in Surfaces : v[s] >= w[s],
         \A s \in Surfaces \cap S : ok => v[s] >= n
  PROVE  Truthful(Plan!Complete(b, S, ok), n, v)
<1>1. PICK p \in SUBSET Surfaces, f \in BOOLEAN :
        p = b.pending \ S /\ f = (b.failed \/ (~ok /\ b.pending \cap S # {}))
  BY DEF Plan!Barrier
<1>2. PICK c : c = [b EXCEPT !.pending = p, !.failed = f]
  OBVIOUS
<1>3. /\ c \in Plan!Barrier /\ c.pending = p /\ c.registered = b.registered
      /\ c.failed = f /\ c.verdict = b.verdict
  BY <1>2 DEF Plan!Barrier
<1>4. Plan!Complete(b, S, ok) = Plan!Settle(c)
  BY <1>1, <1>2 DEF Plan!Complete
<1>5. b.registered \subseteq Surfaces /\ b.pending \subseteq b.registered
  BY DEF Plan!Barrier, Truthful
<1>6. Truthful(c, n, v)
  <2>1. c.pending \subseteq c.registered
    BY <1>1, <1>3, <1>5
  <2>2. ASSUME c.verdict = "success" PROVE c.pending = {} /\ ~c.failed
    <3>1. b.pending = {} /\ ~b.failed
      BY <1>3, <2>2 DEF Truthful
    <3>2. QED
      BY <1>1, <1>3, <3>1
  <2>3. ASSUME ~c.failed, NEW s \in c.registered \ c.pending PROVE v[s] >= n
    <3>1. ~b.failed /\ (ok \/ b.pending \cap S = {}) /\ s \in Surfaces /\ s \in b.registered
      BY <1>1, <1>3, <1>5, <2>3
    <3>2. CASE s \notin b.pending
      <4>1. w[s] >= n
        BY <3>1, <3>2 DEF Truthful
      <4>2. w[s] \in Nat /\ v[s] \in Nat /\ v[s] >= w[s]
        BY <3>1
      <4>3. QED
        BY <4>1, <4>2
    <3>3. CASE s \in b.pending
      <4>1. s \in S /\ ok
        BY <1>1, <1>3, <2>3, <3>1, <3>3
      <4>2. QED
        BY <3>1, <4>1
    <3>4. QED
      BY <3>2, <3>3
  <2>4. QED
    BY <2>1, <2>2, <2>3 DEF Truthful
<1>7. QED
  BY <1>3, <1>4, <1>6, SettleTruthful

\* The update of a surface, before and after batches that only grow in number.
LEMMA SubmissionFacts ==
  ASSUME PlanInv, NEW s \in Surfaces
  PROVE  /\ inFlight[s] # None => /\ inFlight[s] \in Plan!Submission
                                  /\ UpToDate(inFlight[s], s)
         /\ waiting[s] # None => /\ waiting[s] \in Plan!Submission
                                 /\ UpToDate(waiting[s], s) /\ inFlight[s] # None
                                 /\ inFlight[s].generation < waiting[s].generation
         /\ updates[s] \in Nat /\ shown[s] \in Nat /\ shown[s] <= Len(batch) /\ Len(batch) \in Nat
BY DEF PlanInv, Plan!TypeOK, Updated

\* Whom the updates S of surface s report for to batch n.
Reporting(s, S, n) == IF \E u \in S : n \in u.batches THEN {s} ELSE {}

\* The barriers after the reports of some surfaces.
LEMMA ReportType ==
  ASSUME PlanInv, NEW s, NEW S, NEW ok \in BOOLEAN, batch' = Plan!Report(s, S, ok)
  PROVE  /\ batch' \in Seq(Plan!Barrier) /\ Len(batch') = Len(batch)
         /\ \A n \in Plan!Batches :
              batch'[n] = Plan!Complete(batch[n], Reporting(s, S, n), ok)
<1>1. batch \in Seq(Plan!Barrier) /\ Len(batch) \in Nat
  BY DEF PlanInv, Plan!TypeOK
<1>2. \A n \in Plan!Batches : batch[n] \in Plan!Barrier
  BY <1>1, ElementOfSeq DEF Plan!Batches
<1>3. \A n \in 1..Len(batch) :
        Plan!Complete(batch[n], Reporting(s, S, n), ok)
          \in Plan!Barrier
  BY <1>2, CompleteType DEF Plan!Batches
<1>4. batch' = [n \in 1..Len(batch) |->
             Plan!Complete(batch[n], Reporting(s, S, n), ok)]
  BY DEF Plan!Report, Plan!Batches, Reporting
<1>5. batch' \in [1..Len(batch) -> Plan!Barrier]
  BY <1>3, <1>4
<1>6. batch' \in Seq(Plan!Barrier)
  BY <1>1, <1>5
<1>7. Len(batch') = Len(batch)
  BY <1>1, <1>5, <1>6
<1>8. QED
  BY <1>4, <1>6, <1>7 DEF Plan!Batches

\* What surface s reports is true.
LEMMA ReportTruthful ==
  ASSUME PlanInv, NEW s \in Surfaces, NEW S, NEW ok \in BOOLEAN, batch' = Plan!Report(s, S, ok),
         shown' \in [Surfaces -> 0..Len(batch)],
         \A x \in Surfaces : shown'[x] >= shown[x],
         ok => \A u \in S : \A n \in u.batches : shown'[s] >= n
  PROVE  /\ batch' \in Seq(Plan!Barrier) /\ Len(batch') = Len(batch)
         /\ \A n \in Plan!Batches' : Truthful(batch'[n], n, shown')
<1>1. /\ batch' \in Seq(Plan!Barrier) /\ Len(batch') = Len(batch)
      /\ \A n \in Plan!Batches :
           batch'[n] = Plan!Complete(batch[n], Reporting(s, S, n), ok)
  BY ReportType
<1>2. ASSUME NEW n \in Plan!Batches PROVE Truthful(batch'[n], n, shown')
  <2> DEFINE S2 == Reporting(s, S, n)
  <2>1. batch'[n] = Plan!Complete(batch[n], S2, ok)
    BY <1>1, <1>2
  <2>2. n \in Nat /\ batch[n] \in Plan!Barrier /\ Truthful(batch[n], n, shown)
    BY <1>2, ElementOfSeq DEF PlanInv, Plan!TypeOK, Plan!Batches
  <2>3. shown \in [Surfaces -> Nat] /\ shown' \in [Surfaces -> Nat]
    BY DEF PlanInv, Plan!TypeOK
  <2>4. \A x \in Surfaces \cap S2 : ok => shown'[x] >= n
    BY DEF Reporting
  <2> HIDE DEF S2
  <2>5. QED
    BY <2>1, <2>2, <2>3, <2>4, CompleteTruthful
<1>3. Plan!Batches' = Plan!Batches
  BY <1>1 DEF Plan!Batches
<1>4. QED
  BY <1>1, <1>2, <1>3

\* An update was prepared.
LEMMA OnPreparedKeeps ==
  ASSUME PlanInv, NEW s \in Surfaces, NEW usable \in BOOLEAN, Plan!OnPrepared(s, usable)
  PROVE  PlanInv' /\ \A x \in Surfaces : shown'[x] >= shown[x]
<1> DEFINE update == inFlight[s]
           ok == usable /\ Plan!IsCurrent(s, update)
<1>1. /\ update # None /\ shown' = (IF ok THEN [shown EXCEPT ![s] = update.version] ELSE shown)
      /\ batch' = Plan!Report(s, {update}, ok)
      /\ inFlight' = [inFlight EXCEPT ![s] = waiting[s]]
      /\ waiting' = [waiting EXCEPT ![s] = None]
      /\ UNCHANGED <<session, open, closed, page, updates, deliveries, visits>>
  BY DEF Plan!OnPrepared
<1>2. /\ update \in Plan!Submission /\ UpToDate(update, s)
      /\ update.version \in Nat /\ update.batches \subseteq Nat
  BY <1>1, SubmissionFacts DEF Plan!Submission, Plan!Batches, PlanInv, Plan!TypeOK
<1>3. ok => update.generation = updates[s]
  BY DEF Plan!IsCurrent
<1>4. /\ shown \in [Surfaces -> 0..Len(batch)] /\ Len(batch) \in Nat
  BY SubmissionFacts DEF PlanInv, Plan!TypeOK
<1>5. shown' \in [Surfaces -> 0..Len(batch)] /\ \A x \in Surfaces : shown'[x] >= shown[x]
  <2>1. CASE ok
    <3>1. shown' = [shown EXCEPT ![s] = update.version]
      BY <1>1, <2>1
    <3>2. update.version \in 0..Len(batch) /\ shown[s] <= update.version
      BY <1>2, <1>3, <1>4, <2>1 DEF UpToDate
    <3>3. \A x \in Surfaces : shown[x] \in Nat
      BY <1>4
    <3>4. QED
      BY <1>4, <3>1, <3>2, <3>3
  <2>2. CASE ~ok
    BY <1>1, <1>4, <2>2
  <2>3. QED
    BY <2>1, <2>2
<1>6. ok \in BOOLEAN /\ (ok => shown'[s] = update.version)
  BY <1>1, <1>4 DEF Plan!IsCurrent
<1>7. ok => \A u \in {update} : \A n \in u.batches : shown'[s] >= n
  BY <1>2, <1>6 DEF UpToDate
<1> HIDE DEF ok
<1>8. /\ batch' \in Seq(Plan!Barrier) /\ Len(batch') = Len(batch)
      /\ \A n \in Plan!Batches' : Truthful(batch'[n], n, shown')
  <2>1. PICK S : S = {update}
    OBVIOUS
  <2>2. batch' = Plan!Report(s, S, ok)
    BY <1>1, <2>1
  <2>3. ok => \A u \in S : \A n \in u.batches : shown'[s] >= n
    BY <1>7, <2>1
  <2>4. QED
    BY <1>5, <1>6, <2>2, <2>3, ReportTruthful
<1>9. Plan!Submission' = Plan!Submission
  BY <1>8 DEF Plan!Submission, Plan!Batches
<1>10. /\ inFlight' \in [Surfaces -> Plan!Submission \cup {None}]
       /\ waiting' \in [Surfaces -> Plan!Submission \cup {None}]
  BY <1>1 DEF PlanInv, Plan!TypeOK
<1>11. Plan!TypeOK'
  BY <1>1, <1>5, <1>8, <1>9, <1>10 DEF PlanInv, Plan!TypeOK
<1>12. ASSUME NEW x \in Surfaces PROVE Updated(x)'
  <2>1. CASE x # s
    <3>1. inFlight'[x] = inFlight[x] /\ waiting'[x] = waiting[x] /\ updates'[x] = updates[x]
      BY <1>1, <2>1 DEF PlanInv, Plan!TypeOK
    <3>2. shown'[x] = shown[x]
      BY <1>1, <1>4, <2>1
    <3>3. QED
      BY <1>8, <3>1, <3>2 DEF PlanInv, Updated, UpToDate
  <2>2. CASE x = s
    <3>1. inFlight'[s] = waiting[s] /\ waiting'[s] = None
      BY <1>1 DEF PlanInv, Plan!TypeOK
    <3>2. PICK u : u = waiting[s]
      OBVIOUS
    <3>3. ASSUME u # None PROVE UpToDate(u, s)'
      <4>1. u \in Plan!Submission /\ UpToDate(u, s) /\ update.generation < u.generation
        BY <3>2, <3>3, SubmissionFacts
      <4>2. u.generation \in Nat /\ update.generation \in Nat /\ updates[s] \in Nat
        BY <1>2, <4>1, SubmissionFacts DEF Plan!Submission
      <4>3. CASE ok
        <5>1. u.generation # updates[s]
          BY <1>3, <4>1, <4>2, <4>3 DEF UpToDate, ok
        <5>2. QED
          BY <1>1, <1>8, <4>1, <4>2, <5>1 DEF UpToDate
      <4>4. CASE ~ok
        BY <1>1, <1>8, <4>1, <4>4 DEF UpToDate
      <4>5. QED
        BY <4>3, <4>4
    <3>4. inFlight'[x] = u /\ waiting'[x] = None
      BY <2>2, <3>1, <3>2
    <3>5. QED
      BY <2>2, <3>3, <3>4 DEF Updated, UpToDate
  <2>3. QED
    BY <2>1, <2>2
<1>13. QED
  BY <1>5, <1>8, <1>11, <1>12 DEF PlanInv

\* The number of batches stays: so do the types of submissions.
LEMMA SameSubmissions ==
  ASSUME Len(batch') = Len(batch)
  PROVE  Plan!Submission' = Plan!Submission /\ Plan!Batches' = Plan!Batches
BY DEF Plan!Submission, Plan!Batches

\* The user opens a page.
LEMMA ShowPageKeeps ==
  ASSUME PlanInv, NEW s \in Surfaces, NEW p \in Pages, Plan!ShowPage(s, p)
  PROVE  PlanInv' /\ \A x \in Surfaces : shown'[x] >= shown[x]
<1>1. /\ open' = open \cup {s} /\ page' = [page EXCEPT ![s] = p]
      /\ shown' = [shown EXCEPT ![s] = Len(batch)]
      /\ updates' = [updates EXCEPT ![s] = @ + 1]
      /\ visits > 0 /\ visits' = visits - 1
      /\ UNCHANGED <<batch, session, closed, inFlight, waiting, deliveries>>
  BY DEF Plan!ShowPage
<1>2. /\ shown \in [Surfaces -> 0..Len(batch)] /\ Len(batch) \in Nat
      /\ updates \in [Surfaces -> Nat]
  BY SubmissionFacts DEF PlanInv, Plan!TypeOK
<1>3. /\ shown' \in [Surfaces -> 0..Len(batch)]
      /\ shown'[s] = Len(batch) /\ updates'[s] = updates[s] + 1
      /\ \A x \in Surfaces : /\ x # s => shown'[x] = shown[x] /\ updates'[x] = updates[x]
                             /\ shown'[x] >= shown[x]
  BY <1>1, <1>2
<1>4. Plan!Submission' = Plan!Submission /\ Plan!Batches' = Plan!Batches
  BY <1>1, SameSubmissions
<1>5. Plan!TypeOK'
  <2>1. open' \subseteq Surfaces /\ page' \in [Surfaces -> Pages] /\ visits' \in Nat
    BY <1>1 DEF PlanInv, Plan!TypeOK
  <2>2. updates' \in [Surfaces -> Nat]
    BY <1>1, <1>2
  <2>3. QED
    BY <1>1, <1>3, <1>4, <2>1, <2>2 DEF PlanInv, Plan!TypeOK
<1>6. ASSUME NEW n \in Plan!Batches PROVE Truthful(batch[n], n, shown')
  <2>1. batch[n] \in Plan!Barrier /\ Truthful(batch[n], n, shown) /\ n \in Nat
    BY ElementOfSeq DEF PlanInv, Plan!TypeOK, Plan!Batches
  <2>2. batch[n].registered \subseteq Surfaces
    BY <2>1 DEF Plan!Barrier
  <2>3. \A x \in Surfaces : shown[x] >= n => shown'[x] >= n
    BY <1>2, <1>3, <2>1
  <2>4. QED
    BY <2>1, <2>2, <2>3 DEF Truthful
<1>7. ASSUME NEW x \in Surfaces PROVE Updated(x)'
  <2>1. PICK f, w : f = inFlight[x] /\ w = waiting[x]
    OBVIOUS
  <2>2. inFlight'[x] = f /\ waiting'[x] = w
    BY <1>1, <2>1
  <2>3. /\ f # None => f \in Plan!Submission /\ UpToDate(f, x)
        /\ w # None => w \in Plan!Submission /\ UpToDate(w, x)
                       /\ f # None /\ f.generation < w.generation
    BY <2>1, SubmissionFacts
  <2>4. ASSUME NEW u \in Plan!Submission, UpToDate(u, x) PROVE UpToDate(u, x)'
    <3>1. u.generation \in Nat /\ updates[x] \in Nat /\ u.generation <= updates[x]
      BY <1>2, <2>4 DEF Plan!Submission, UpToDate
    <3>2. updates'[x] = updates[x] + 1 \/ (updates'[x] = updates[x] /\ shown'[x] = shown[x])
      BY <1>3
    <3>3. QED
      BY <1>1, <2>4, <3>1, <3>2 DEF UpToDate
  <2>5. QED
    BY <2>2, <2>3, <2>4 DEF Updated, UpToDate
<1>8. QED
  BY <1>1, <1>3, <1>4, <1>5, <1>6, <1>7 DEF PlanInv

\* A surface closes, or a session ends.
LEMMA CloseKeeps ==
  ASSUME PlanInv, Plan!EndSession \/ \E s \in Surfaces : Plan!CloseView(s)
  PROVE  PlanInv' /\ shown' = shown
<1>1. /\ UNCHANGED <<batch, closed, page, shown, inFlight, waiting, deliveries>>
      /\ session' = session \/ session' = session + 1
      /\ open' \subseteq Surfaces /\ visits' \in Nat
  BY DEF Plan!EndSession, Plan!CloseView, PlanInv, Plan!TypeOK
<1>2. updates' = updates \/ \E s \in Surfaces : updates' = [updates EXCEPT ![s] = @ + 1]
  BY DEF Plan!EndSession, Plan!CloseView
<1>3. /\ updates \in [Surfaces -> Nat] /\ updates' \in [Surfaces -> Nat]
      /\ \A x \in Surfaces : updates'[x] = updates[x] \/ updates'[x] = updates[x] + 1
  <2>1. updates \in [Surfaces -> Nat]
    BY DEF PlanInv, Plan!TypeOK
  <2>2. QED
    BY <1>2, <2>1
<1>4. Plan!Submission' = Plan!Submission /\ Plan!Batches' = Plan!Batches
  BY <1>1, SameSubmissions
<1>5. Plan!TypeOK'
  <2>1. session' \in Nat
    BY <1>1 DEF PlanInv, Plan!TypeOK
  <2>2. QED
    BY <1>1, <1>3, <1>4, <2>1 DEF PlanInv, Plan!TypeOK
<1>6. ASSUME NEW x \in Surfaces PROVE Updated(x)'
  <2>1. PICK f, w : f = inFlight[x] /\ w = waiting[x]
    OBVIOUS
  <2>2. inFlight'[x] = f /\ waiting'[x] = w
    BY <1>1, <2>1
  <2>3. /\ f # None => f \in Plan!Submission /\ UpToDate(f, x)
        /\ w # None => w \in Plan!Submission /\ UpToDate(w, x)
                       /\ f # None /\ f.generation < w.generation
    BY <2>1, SubmissionFacts
  <2>4. ASSUME NEW u \in Plan!Submission, UpToDate(u, x) PROVE UpToDate(u, x)'
    <3>1. u.generation \in Nat /\ updates[x] \in Nat /\ u.generation <= updates[x]
      BY <1>3, <2>4 DEF Plan!Submission, UpToDate
    <3>2. QED
      BY <1>1, <1>3, <2>4, <3>1 DEF UpToDate
  <2>5. QED
    BY <2>2, <2>3, <2>4 DEF Updated, UpToDate
<1>7. QED
  BY <1>1, <1>4, <1>5, <1>6 DEF PlanInv

\* The pipeline of a surface is cleaned up.
LEMMA CleanupKeeps ==
  ASSUME PlanInv, NEW s \in Surfaces, Plan!Cleanup(s)
  PROVE  PlanInv' /\ shown' = shown
<1>1. PICK S : S = Plan!Present({inFlight[s], waiting[s]})
  OBVIOUS
<1>2. /\ batch' = Plan!Report(s, S, FALSE)
      /\ closed' = closed \cup {s} /\ open' = open \ {s}
      /\ updates' = [updates EXCEPT ![s] = @ + 1]
      /\ inFlight' = [inFlight EXCEPT ![s] = None] /\ waiting' = [waiting EXCEPT ![s] = None]
      /\ visits > 0 /\ visits' = visits - 1
      /\ UNCHANGED <<session, page, shown, deliveries>>
  BY <1>1 DEF Plan!Cleanup
<1>3. /\ shown \in [Surfaces -> 0..Len(batch)] /\ Len(batch) \in Nat
      /\ updates \in [Surfaces -> Nat] /\ shown' \in [Surfaces -> 0..Len(batch)]
      /\ \A x \in Surfaces : shown'[x] >= shown[x]
  BY <1>2, SubmissionFacts DEF PlanInv, Plan!TypeOK
<1>4. /\ batch' \in Seq(Plan!Barrier) /\ Len(batch') = Len(batch)
      /\ \A n \in Plan!Batches' : Truthful(batch'[n], n, shown')
  <2>1. PICK ok \in BOOLEAN : ok = FALSE
    OBVIOUS
  <2>2. batch' = Plan!Report(s, S, ok)
    BY <1>2, <2>1
  <2>3. QED
    BY <1>3, <2>1, <2>2, ReportTruthful
<1>5. Plan!Submission' = Plan!Submission /\ Plan!Batches' = Plan!Batches
  BY <1>4, SameSubmissions
<1>6. Plan!TypeOK'
  <2>1. closed' \subseteq Surfaces /\ open' \subseteq Surfaces /\ visits' \in Nat
    BY <1>2 DEF PlanInv, Plan!TypeOK
  <2>2. /\ inFlight' \in [Surfaces -> Plan!Submission \cup {None}]
        /\ waiting' \in [Surfaces -> Plan!Submission \cup {None}]
        /\ updates' \in [Surfaces -> Nat]
    BY <1>2 DEF PlanInv, Plan!TypeOK
  <2>3. QED
    BY <1>2, <1>3, <1>4, <1>5, <2>1, <2>2 DEF PlanInv, Plan!TypeOK
<1>7. ASSUME NEW x \in Surfaces PROVE Updated(x)'
  <2>1. CASE x = s
    BY <1>2, <2>1 DEF PlanInv, Plan!TypeOK, Updated
  <2>2. CASE x # s
    <3>1. /\ inFlight'[x] = inFlight[x] /\ waiting'[x] = waiting[x] /\ updates'[x] = updates[x]
          /\ shown'[x] = shown[x]
      BY <1>2, <2>2 DEF PlanInv, Plan!TypeOK
    <3>2. QED
      BY <1>4, <3>1 DEF PlanInv, Updated, UpToDate
  <2>3. QED
    BY <2>1, <2>2
<1>8. QED
  BY <1>2, <1>4, <1>6, <1>7 DEF PlanInv

\* What the batches before a new one become: a surface whose waiting update is superseded
\* reports a failure.
Superseded(asked, m) ==
  {s \in asked : inFlight[s] # None /\ Plan!Supersedes(s) /\ m \in waiting[s].batches}

\* The batch that a reconciliation adds.
New(affected, missing, ok) ==
  [registered |-> affected, pending |-> affected \ missing, session |-> session,
   failed |-> ~ok \/ missing # {}, verdict |-> "none"]

\* A new batch: its barrier waits for the surfaces that were asked.
LEMMA NewTruthful ==
  ASSUME PlanInv, NEW affected \in SUBSET Surfaces, NEW missing \in SUBSET affected,
         NEW ok \in BOOLEAN, NEW n \in Nat
  PROVE  /\ Plan!Settle(New(affected, missing, ok)) \in Plan!Barrier
         /\ Truthful(Plan!Settle(New(affected, missing, ok)), n, shown)
<1>1. PICK f \in BOOLEAN : f = (~ok \/ missing # {})
  OBVIOUS
<1>2. PICK b : b = [registered |-> affected, pending |-> affected \ missing, session |-> session,
                    failed |-> f, verdict |-> "none"]
  OBVIOUS
<1>3. b = New(affected, missing, ok)
  BY <1>1, <1>2 DEF New
<1>4. session \in Nat
  BY DEF PlanInv, Plan!TypeOK
<1>5. b \in Plan!Barrier
  BY <1>2, <1>4 DEF Plan!Barrier, Plan!Verdicts
<1>6. /\ b.registered = affected /\ b.pending = affected \ missing /\ b.failed = f
      /\ b.verdict = "none"
  BY <1>2
<1>7. Truthful(b, n, shown)
  <2>1. ~f => missing = {}
    BY <1>1
  <2>2. QED
    BY <1>6, <2>1 DEF Truthful
<1>8. QED
  BY <1>3, <1>5, <1>7, SettleFacts, SettleTruthful

\* The batches after a reconciliation.
LEMMA ReconcileBatches ==
  ASSUME PlanInv, NEW affected \in SUBSET Surfaces, NEW missing \in SUBSET Surfaces,
         NEW ok \in BOOLEAN, Plan!Reconcile(affected, missing, ok)
  PROVE  /\ batch' \in Seq(Plan!Barrier) /\ Len(batch') = Len(batch) + 1
         /\ \A n \in Plan!Batches' : Truthful(batch'[n], n, shown)
<1> DEFINE asked == affected \ missing
<1>1. missing \subseteq affected
  BY DEF Plan!Reconcile
<1>2. PICK new : new = Plan!Settle(New(affected, missing, ok))
  OBVIOUS
<1>3. PICK old : old = [m \in Plan!Batches |-> Plan!Complete(batch[m], Superseded(asked, m), FALSE)]
  OBVIOUS
<1>4. batch' = Append(old, new)
  BY <1>2, <1>3 DEF Plan!Reconcile, New, Superseded
<1>5. Len(batch) \in Nat /\ batch \in Seq(Plan!Barrier) /\ shown \in [Surfaces -> Nat]
  BY SubmissionFacts DEF PlanInv, Plan!TypeOK
<1>6. ASSUME NEW m \in Plan!Batches
      PROVE  old[m] \in Plan!Barrier /\ Truthful(old[m], m, shown)
  <2>1. m \in Nat /\ batch[m] \in Plan!Barrier /\ Truthful(batch[m], m, shown)
    BY <1>5, ElementOfSeq DEF PlanInv, Plan!Batches
  <2>2. PICK S : S = Superseded(asked, m)
    OBVIOUS
  <2>3. PICK no \in BOOLEAN : no = FALSE
    OBVIOUS
  <2>4. old[m] = Plan!Complete(batch[m], S, no)
    BY <1>3, <2>2, <2>3
  <2>5. \A s \in Surfaces : shown[s] \in Nat /\ shown[s] >= shown[s]
    BY <1>5
  <2>6. Plan!Complete(batch[m], S, no) \in Plan!Barrier
    BY <2>1, CompleteType
  <2>7. Truthful(Plan!Complete(batch[m], S, no), m, shown)
    BY <1>5, <2>1, <2>3, <2>5, CompleteTruthful
  <2>8. QED
    BY <2>4, <2>6, <2>7
<1>7. old \in [1..Len(batch) -> Plan!Barrier]
  BY <1>3, <1>6 DEF Plan!Batches
<1>8. old \in Seq(Plan!Barrier)
  BY <1>5, <1>7
<1>9. Len(old) = Len(batch)
  BY <1>5, <1>7, <1>8
<1>10. new \in Plan!Barrier /\ Truthful(new, Len(batch) + 1, shown)
  BY <1>1, <1>2, <1>5, NewTruthful
<1>11. /\ batch' \in Seq(Plan!Barrier) /\ Len(batch') = Len(batch) + 1
       /\ \A m \in 1..Len(batch) : batch'[m] = old[m]
       /\ batch'[Len(batch) + 1] = new
  BY <1>4, <1>8, <1>9, <1>10, AppendProperties
<1>12. ASSUME NEW n \in Plan!Batches' PROVE Truthful(batch'[n], n, shown)
  <2>1. n \in 1..Len(batch) \/ n = Len(batch) + 1
    BY <1>5, <1>11 DEF Plan!Batches
  <2>2. CASE n \in 1..Len(batch)
    BY <1>6, <1>11, <2>2 DEF Plan!Batches
  <2>3. CASE n = Len(batch) + 1
    BY <1>10, <1>11, <2>3
  <2>4. QED
    BY <2>1, <2>2, <2>3
<1>13. QED
  BY <1>11, <1>12

\* A surface is asked for an update.
LEMMA RequestFacts ==
  ASSUME PlanInv, NEW s \in Surfaces, NEW r, r = Plan!Request(s, Len(batch) + 1),
         Len(batch') = Len(batch) + 1
  PROVE  /\ r \in Plan!Submission' /\ r.version = Len(batch) + 1
         /\ r.generation = updates[s] + 1 /\ r.batches = {Len(batch) + 1}
<1>1. /\ Len(batch) \in Nat /\ updates[s] \in Nat /\ page[s] \in Pages /\ session \in Nat
  BY SubmissionFacts DEF PlanInv, Plan!TypeOK
<1>2. Len(batch) + 1 \in Plan!Batches'
  BY <1>1 DEF Plan!Batches
<1>3. QED
  BY <1>1, <1>2 DEF Plan!Request, Plan!Submission

\* It reports for the waiting update, too.
LEMMA CoalesceFacts ==
  ASSUME PlanInv, NEW s \in Surfaces, NEW r, r = Plan!Request(s, Len(batch) + 1),
         Len(batch') = Len(batch) + 1, NEW c, c = Plan!Coalesce(waiting[s], r)
  PROVE  /\ c \in Plan!Submission' /\ c.version = Len(batch) + 1
         /\ c.generation = updates[s] + 1 /\ \A n \in c.batches : n <= Len(batch) + 1
<1>1. /\ r \in Plan!Submission' /\ r.version = Len(batch) + 1
      /\ r.generation = updates[s] + 1 /\ r.batches = {Len(batch) + 1}
  BY RequestFacts
<1>2. Len(batch) \in Nat /\ Plan!Batches \subseteq Plan!Batches'
      /\ Plan!Batches' = 1..(Len(batch) + 1)
  BY SubmissionFacts DEF PlanInv, Plan!TypeOK, Plan!Batches
<1>3. CASE waiting[s] = None
  BY <1>1, <1>2, <1>3 DEF Plan!Coalesce
<1>4. CASE waiting[s] # None
  <2>1. PICK B : B = r.batches \cup waiting[s].batches
    OBVIOUS
  <2>2. waiting[s].batches \subseteq Plan!Batches
    BY <1>4, SubmissionFacts DEF Plan!Submission
  <2>3. B \subseteq Plan!Batches'
    BY <1>1, <1>2, <2>1, <2>2 DEF Plan!Submission
  <2>4. c = [r EXCEPT !.batches = B]
    BY <1>4, <2>1 DEF Plan!Coalesce
  <2>5. c \in Plan!Submission' /\ c.version = r.version /\ c.generation = r.generation
        /\ c.batches = B
    BY <1>1, <2>3, <2>4 DEF Plan!Submission
  <2>6. QED
    BY <1>1, <1>2, <2>3, <2>5
<1>5. QED
  BY <1>3, <1>4

\* A batch arrives.
LEMMA ReconcileKeeps ==
  ASSUME PlanInv, NEW affected \in SUBSET Surfaces, NEW missing \in SUBSET Surfaces,
         NEW ok \in BOOLEAN, Plan!Reconcile(affected, missing, ok)
  PROVE  PlanInv' /\ shown' = shown
<1> DEFINE asked == affected \ missing
           n == Len(batch) + 1
<1>1. /\ batch' \in Seq(Plan!Barrier) /\ Len(batch') = Len(batch) + 1
      /\ \A m \in Plan!Batches' : Truthful(batch'[m], m, shown)
  BY ReconcileBatches
<1>2. /\ updates' = [s \in Surfaces |-> IF s \in affected THEN updates[s] + 1 ELSE updates[s]]
      /\ Plan!Submit(asked, n)
      /\ deliveries > 0 /\ deliveries' = deliveries - 1
      /\ UNCHANGED <<session, open, closed, page, shown, visits>>
  BY DEF Plan!Reconcile
<1>3. /\ inFlight' = [s \in Surfaces |->
           IF s \in asked /\ inFlight[s] = None THEN Plan!Request(s, n) ELSE inFlight[s]]
      /\ waiting' = [s \in Surfaces |->
           IF s \notin asked \/ inFlight[s] = None THEN waiting[s]
           ELSE IF Plan!Supersedes(s) THEN Plan!Request(s, n)
           ELSE Plan!Coalesce(waiting[s], Plan!Request(s, n))]
  BY <1>2 DEF Plan!Submit
<1>4. Len(batch) \in Nat /\ Plan!Submission \subseteq Plan!Submission'
  <2>1. Len(batch) \in Nat
    BY DEF PlanInv, Plan!TypeOK
  <2>2. Plan!Batches \subseteq Plan!Batches'
    BY <1>1, <2>1 DEF Plan!Batches
  <2>3. QED
    BY <2>1, <2>2 DEF Plan!Submission
<1>5. Plan!Submission' \subseteq Submissions
  <2>1. Plan!Batches' \subseteq Nat
    BY <1>1, <1>4 DEF Plan!Batches
  <2>2. QED
    BY <2>1 DEF Plan!Submission, Submissions
<1>6. ASSUME NEW x \in Surfaces
      PROVE  /\ inFlight'[x] \in Plan!Submission' \cup {None}
             /\ waiting'[x] \in Plan!Submission' \cup {None}
             /\ updates'[x] \in Nat
             /\ Updated(x)'
  <2>1. PICK f, w, r, c, g : /\ f = inFlight[x] /\ w = waiting[x] /\ g = updates[x]
                             /\ r = Plan!Request(x, n) /\ c = Plan!Coalesce(waiting[x], r)
    OBVIOUS
  <2>2. /\ f # None => f \in Plan!Submission /\ UpToDate(f, x)
        /\ w # None => w \in Plan!Submission /\ UpToDate(w, x)
                       /\ f # None /\ f.generation < w.generation
        /\ g \in Nat /\ shown[x] \in Nat /\ shown[x] <= Len(batch)
    BY <2>1, SubmissionFacts
  <2>3. /\ r \in Plan!Submission' /\ r.version = n /\ r.generation = g + 1 /\ r.batches = {n}
        /\ c \in Plan!Submission' /\ c.version = n /\ c.generation = g + 1
        /\ \A m \in c.batches : m <= n
    BY <1>1, <2>1, RequestFacts, CoalesceFacts
  <2>4. r # None /\ c # None
    BY <1>5, <2>3, NoneAssumption
  <2>5. updates'[x] = (IF x \in affected THEN g + 1 ELSE g) /\ shown'[x] = shown[x]
    BY <1>2, <2>1
  <2>6. ASSUME NEW u \in Plan!Submission, UpToDate(u, x) PROVE UpToDate(u, x)'
    <3>1. /\ u.generation \in Nat /\ u.version \in Nat /\ u.generation <= g
          /\ u.version <= Len(batch) /\ \A m \in u.batches : m <= u.version
          /\ u.generation = g => shown[x] <= u.version
      BY <2>1, <2>6 DEF Plan!Submission, UpToDate
    <3>2. u.version <= Len(batch')
      BY <1>1, <1>4, <3>1
    <3>3. u.generation <= updates'[x] /\ (u.generation = updates'[x] => u.generation = g)
      BY <2>2, <2>5, <3>1
    <3>4. QED
      BY <2>5, <3>1, <3>2, <3>3 DEF UpToDate
  <2>7. CASE x \notin asked
    <3>1. inFlight'[x] = f /\ waiting'[x] = w
      BY <1>3, <2>1, <2>7
    <3>2. Updated(x)'
      BY <2>2, <2>6, <3>1 DEF Updated, UpToDate
    <3>3. QED
      BY <1>4, <2>2, <2>5, <3>1, <3>2
  <2>8. CASE x \in asked /\ f = None
    <3>1. inFlight'[x] = r /\ waiting'[x] = None
      BY <1>3, <2>1, <2>2, <2>8
    <3>2. updates'[x] = g + 1
      BY <2>5, <2>8
    <3>3. UpToDate(r, x)'
      BY <1>1, <1>4, <2>2, <2>3, <2>5, <3>2 DEF UpToDate
    <3>4. Updated(x)'
      BY <3>1, <3>3 DEF Updated, UpToDate
    <3>5. QED
      BY <2>2, <2>3, <3>1, <3>2, <3>4
  <2>9. CASE x \in asked /\ f # None
    <3>1. inFlight'[x] = f /\ (waiting'[x] = r \/ waiting'[x] = c)
      BY <1>3, <2>1, <2>9
    <3>2. updates'[x] = g + 1
      BY <2>5, <2>9
    <3>3. UpToDate(r, x)' /\ UpToDate(c, x)'
      BY <1>1, <1>4, <2>2, <2>3, <2>5, <3>2 DEF UpToDate
    <3>4. f.generation \in Nat /\ f.generation <= g
      BY <2>1, <2>2, <2>9 DEF Plan!Submission, UpToDate
    <3>5. f.generation < g + 1
      BY <2>2, <3>4
    <3>6. UpToDate(f, x)'
      BY <2>2, <2>6, <2>9
    <3>7. Updated(x)'
      BY <2>3, <2>9, <3>1, <3>3, <3>5, <3>6 DEF Updated, UpToDate
    <3>8. QED
      BY <1>4, <2>2, <2>3, <2>9, <3>1, <3>2, <3>7
  <2>10. QED
    BY <2>7, <2>8, <2>9
<1>7. Plan!TypeOK'
  <2>1. /\ inFlight' \in [Surfaces -> Plan!Submission' \cup {None}]
        /\ waiting' \in [Surfaces -> Plan!Submission' \cup {None}]
        /\ updates' \in [Surfaces -> Nat]
    BY <1>2, <1>3, <1>6
  <2>2. shown' \in [Surfaces -> 0..Len(batch')]
    BY <1>1, <1>2, <1>4 DEF PlanInv, Plan!TypeOK
  <2>3. QED
    BY <1>1, <1>2, <2>1, <2>2 DEF PlanInv, Plan!TypeOK
<1>8. QED
  BY <1>1, <1>2, <1>6, <1>7 DEF PlanInv

\* Every action of the projection keeps the invariant, and no surface goes back.
LEMMA PlanNext ==
  ASSUME PlanInv, Plan!Next
  PROVE  PlanInv' /\ \A s \in Surfaces : shown'[s] >= shown[s]
<1>1. \A s \in Surfaces : shown[s] >= shown[s]
  BY DEF PlanInv, Plan!TypeOK
<1>2. QED
  BY <1>1, ReconcileKeeps, OnPreparedKeeps, ShowPageKeeps, CloseKeeps, CleanupKeeps DEF Plan!Next

\* No batch yet.
LEMMA PlanInit ==
  ASSUME NEW n \in Nat, NEW m \in Nat, Plan!InitWith(n, m)
  PROVE  PlanInv
<1>1. batch = <<>> /\ Len(batch) = 0 /\ batch \in Seq(Plan!Barrier)
  BY DEF Plan!InitWith
<1>2. (CHOOSE p \in Pages : TRUE) \in Pages
  BY PagesAssumption
<1>3. Plan!TypeOK
  BY <1>1, <1>2 DEF Plan!TypeOK, Plan!InitWith
<1>4. \A k \in Plan!Batches : FALSE
  BY <1>1 DEF Plan!Batches
<1>5. \A s \in Surfaces : Updated(s)
  BY DEF Plan!InitWith, Updated
<1>6. QED
  BY <1>3, <1>4, <1>5 DEF PlanInv

\* What the invariant says of a batch that succeeded.
LEMMA PlanVerdict ==
  ASSUME PlanInv
  PROVE  VerdictIsTrue
BY DEF PlanInv, Truthful, VerdictIsTrue, Plan!VerdictIsTrue

-----------------------------------------------------------------------------
(* The composition: each group of services leaves the variables of the others alone. *)

\* What the connections and the monitor leave alone.
LEMMA AccessLeavesPlan ==
  ASSUME Mdb!Next \/ Monitor!Next
  PROVE  UNCHANGED <<history, plan>>
<1>1. CASE Mdb!Next
  BY <1>1 DEF Mdb!Next, Mdb!Lease, Mdb!Open, Mdb!OpenFails, Mdb!Nest, Mdb!Commit, Mdb!EndNested,
     Mdb!End, Mdb!UseWriter, Mdb!Break, Mdb!HandleSignal, Mdb!CloseWriter,
     Mdb!BeginMaintenance, Mdb!EvictForMaintenance, Mdb!EndMaintenance, Mdb!CloseDatabase
<1>2. CASE Monitor!Next
  BY <1>2 DEF Monitor!Next, Monitor!Thread, Monitor!ConnectFails, Monitor!Connect,
     Monitor!CheckStatus, Monitor!EndLoop, Monitor!LoseEvents, Monitor!StartMonitoring,
     Monitor!StopMonitoring, Monitor!Joined, Monitor!JoinTimesOut, Monitor!OstChanges
<1>3. QED
  BY <1>1, <1>2

\* What the undo history leaves alone.
LEMMA HistoryLeaves ==
  ASSUME History!Next
  PROVE  UNCHANGED <<access, plan>>
BY DEF History!Next, History!Edit, History!Undo, History!Redo, History!Transition,
   History!Clear, History!Execute, History!LoseConnection, History!RejectQueue,
   History!Deliver, History!Recover, History!SessionStarts, History!ReplacePages

\* What the projection leaves alone.
LEMMA PlanLeaves ==
  ASSUME Plan!Next
  PROVE  UNCHANGED <<access, history>>
BY DEF Plan!Next, Plan!Reconcile, Plan!OnPrepared, Plan!ShowPage, Plan!CloseView,
   Plan!Cleanup, Plan!EndSession

\* Variables that stay keep what is said of them.
LEMMA AccessStays ==
  ASSUME AccessInv, MonitorInv, UNCHANGED access
  PROVE  AccessInv' /\ MonitorInv'
<1>1. UNCHANGED <<mdb, monitor, step, signals>>
  BY DEF access
<1>2. Mdb!TypeOK'
  BY <1>1 DEF AccessInv, Mdb!TypeOK, mdb
<1>3. Upkeep'
  BY <1>1 DEF AccessInv, Upkeep, Leased, Mdb!Leased, mdb
<1>4. Kept
  BY <1>1, <1>3, MovingKeeps DEF mdb
<1>5. Monitor!TypeOK'
  BY <1>1 DEF MonitorInv, Monitor!TypeOK, monitor
<1>6. OneAlive'
  BY <1>1 DEF MonitorInv, OneAlive, Alive, Monitor!Alive, monitor
<1>7. QED
  BY <1>2, <1>4, <1>5, <1>6 DEF AccessInv, Kept, MonitorInv

\* Variables that stay keep what is said of the projection.
LEMMA PlanStays ==
  ASSUME PlanInv, UNCHANGED plan
  PROVE  PlanInv' /\ \A s \in Surfaces : shown'[s] >= shown[s]
<1>1. UNCHANGED <<batch, session, open, closed, page, shown, updates, inFlight, waiting,
                  deliveries, visits>>
  BY DEF plan
<1>2. Plan!TypeOK'
  BY <1>1 DEF PlanInv, Plan!TypeOK, Plan!Submission, Plan!Batches
<1>3. \A s \in Surfaces : Updated(s)'
  BY <1>1 DEF PlanInv, Updated, UpToDate
<1>4. \A n \in Plan!Batches' : Truthful(batch'[n], n, shown')
  BY <1>1 DEF PlanInv, Plan!Batches
<1>5. \A s \in Surfaces : shown'[s] >= shown[s]
  BY <1>1 DEF PlanInv, Plan!TypeOK
<1>6. QED
  BY <1>2, <1>3, <1>4, <1>5 DEF PlanInv

ServicesInv == AccessInv /\ MonitorInv /\ PlanInv

\* The invariant holds at first.
LEMMA ServicesInit == Init => ServicesInv
<1>1. SUFFICES ASSUME Init PROVE ServicesInv
  OBVIOUS
<1>2. PICK m \in Nat, status \in {"absent", "offline", "online"}, queued \in {<<>>, <<TRUE>>} :
        Monitor!InitWith(status, m, queued)
  BY <1>1 DEF Init
<1>3. MonitorInv
  BY <1>2, MonitorInit
<1>4. AccessInv
  BY <1>1, <1>3, MdbInit DEF Init, MonitorInv, Monitor!TypeOK
<1>5. PlanInv
  BY <1>1, PlanInit DEF Init
<1>6. QED
  BY <1>3, <1>4, <1>5 DEF ServicesInv

\* Every step keeps it, and no surface goes back.
LEMMA ServicesNext ==
  ASSUME ServicesInv, [Next]_vars
  PROVE  ServicesInv' /\ \A s \in Surfaces : shown'[s] >= shown[s]
<1>1. CASE Mdb!Next
  BY <1>1, MdbNext, AccessLeavesMonitor, AccessLeavesPlan, PlanStays DEF ServicesInv
<1>2. CASE Monitor!Next
  BY <1>2, MonitorNext, MonitorLeavesAccess, AccessLeavesPlan, PlanStays DEF ServicesInv
<1>3. CASE History!Next
  BY <1>3, HistoryLeaves, AccessStays, PlanStays DEF ServicesInv
<1>4. CASE Plan!Next
  BY <1>4, PlanNext, PlanLeaves, AccessStays DEF ServicesInv
<1>5. CASE UNCHANGED vars
  BY <1>5, AccessStays, PlanStays DEF ServicesInv, vars
<1>6. QED
  BY <1>1, <1>2, <1>3, <1>4, <1>5 DEF Next

\* It holds always.
LEMMA ServicesCorrect == Spec => []ServicesInv
<1>1. ServicesInv /\ [Next]_vars => ServicesInv'
  BY ServicesNext
<1>2. QED
  BY <1>1, ServicesInit, PTL DEF Spec

\* For any threads, nesting and failures: once set_write_blocked(True) returned, nobody writes
\* and the writer's connection is closed (connection_manager.py).
THEOREM BlockingCorrect == Spec => []BlockedMeansClosed
<1>1. ServicesInv => BlockedMeansClosed
  BY DEF ServicesInv, AccessInv
<1>2. QED
  BY <1>1, ServicesCorrect, PTL

\* For any threads, nesting and failures: a read uses a connection that sees the commits that
\* were announced (use_committed_writer_for_reads).
THEOREM ReadsCorrect == Spec => []ReadsSeeCommits
<1>1. ServicesInv => ReadsSeeCommits
  BY DEF ServicesInv, AccessInv
<1>2. QED
  BY <1>1, ServicesCorrect, PTL

\* For any threads, nesting and failures: a connection known to be unusable is closed when the
\* outermost lease of it ends, or cannot be closed (connection_manager.py).
THEOREM EvictionCorrect == Spec => []UnusableIsEvicted
<1>1. ServicesInv => UnusableIsEvicted
  BY DEF ServicesInv, AccessInv
<1>2. QED
  BY <1>1, ServicesCorrect, PTL

\* For any threads, nesting and failures: whoever maintains the file has it for itself, from
\* the eviction of its connections on (connection_manager.py).
THEOREM MaintenanceCorrect == Spec => []MaintenanceExcludes
<1>1. ServicesInv => MaintenanceExcludes
  BY DEF ServicesInv, AccessInv, Upkeep, Leased, MaintenanceExcludes, Mdb!MaintenanceExcludes
<1>2. QED
  BY <1>1, ServicesCorrect, PTL

\* For any number of starts: no two monitors of On-Screen Takeoff run, even if the join of the
\* one that is stopped timed out (transaction_monitor.py).
THEOREM MonitorCorrect == Spec => []OneMonitor
<1>1. ServicesInv => OneMonitor
  BY DEF ServicesInv, MonitorInv, OneAlive, Alive, OneMonitor, Monitor!OneMonitor
<1>2. QED
  BY <1>1, ServicesCorrect, PTL

\* For any surfaces, pages and batches: a batch whose barrier succeeded is shown, as it was or
\* newer, by every surface that was registered for it (remote_projection_dtos.py).
THEOREM ProjectionCorrect == Spec => []VerdictIsTrue
<1>1. ServicesInv => VerdictIsTrue
  BY PlanVerdict DEF ServicesInv
<1>2. QED
  BY <1>1, ServicesCorrect, PTL

\* For any surfaces, pages and batches: no surface goes back to older data, although updates are
\* prepared from copies (remote_plan_update_pipeline.py).
THEOREM ShownCorrect == Spec => ShownNeverGoesBack
<1>1. ServicesInv /\ [Next]_vars => [\A s \in Surfaces : shown'[s] >= shown[s]]_Plan!planVars
  BY ServicesNext
<1>2. QED
  BY <1>1, ServicesCorrect, PTL DEF Spec, ShownNeverGoesBack, Plan!ShownNeverGoesBack

-----------------------------------------------------------------------------
(* Stacks, whatever is in them. *)

In(stack, e) == \E n \in 1..Len(stack) : stack[n] = e
Rising(stack) == \A m, n \in 1..Len(stack) : m < n => stack[m] < stack[n]
Falling(stack) == \A m, n \in 1..Len(stack) : m < n => stack[n] < stack[m]

Smaller == {ss \in Nat \X Nat : ss[1] < ss[2]}

\* A set of numbers has a least one.
LEMMA LeastExists ==
  ASSUME NEW T, T \subseteq Nat, T # {}
  PROVE  \E n \in T : \A m \in T : n <= m
<1>1. IsWellFoundedOn(Smaller, Nat)
  BY NatLessThanWellFounded DEF OpToRel, Smaller
<1>2. \E n \in T : \A m \in T : ~(<<m, n>> \in Smaller)
  BY <1>1, WFMin
<1>3. PICK n \in T : \A m \in T : ~(<<m, n>> \in Smaller)
  BY <1>2
<1>4. ASSUME NEW m \in T, m < n
      PROVE  FALSE
  <2>1. PICK p : p = <<m, n>>
    OBVIOUS
  <2>2. p \in Nat \X Nat /\ p[1] = m /\ p[2] = n
    BY <2>1
  <2>3. p \in Smaller
    BY <2>2, <1>4 DEF Smaller
  <2>4. QED
    BY <2>1, <2>3, <1>3
<1>5. QED
  BY <1>3, <1>4

\* An element that is inserted.
LEMMA InsertFacts ==
  ASSUME NEW S, NEW s \in Seq(S), NEW i \in 1..(Len(s) + 1), NEW e \in S
  PROVE  /\ History!InsertAt(s, i, e) \in Seq(S)
         /\ Len(History!InsertAt(s, i, e)) = Len(s) + 1
         /\ \A n \in 1..(Len(s) + 1) :
              History!InsertAt(s, i, e)[n] =
                IF n < i THEN s[n] ELSE IF n = i THEN e ELSE s[n - 1]
<1> DEFINE a == SubSeq(s, 1, i - 1)
           b == SubSeq(s, i, Len(s))
<1>1. Len(s) \in Nat /\ i \in Int /\ i >= 1 /\ i <= Len(s) + 1
  BY LenProperties
<1>2. /\ a \in Seq(S) /\ Len(a) = i - 1
      /\ \A n \in 1..(i - 1) : a[n] = s[n]
  <2>1. \A n \in 1..(i - 1) : s[n] \in S
    BY <1>1, ElementOfSeq
  <2>2. i - 1 \in Int /\ 1 \in Int
    BY <1>1
  <2>3. /\ SubSeq(s, 1, i - 1) \in Seq(S)
        /\ Len(SubSeq(s, 1, i - 1)) = IF 1 <= i - 1 THEN (i - 1) - 1 + 1 ELSE 0
        /\ \A n \in 1..((i - 1) - 1 + 1) : SubSeq(s, 1, i - 1)[n] = s[1 + n - 1]
    BY ONLY <2>1, <2>2, SubSeqProperties
  <2>4. QED
    BY ONLY <2>3, <1>1
<1>3. /\ b \in Seq(S) /\ Len(b) = Len(s) + 1 - i
      /\ \A n \in 1..(Len(s) + 1 - i) : b[n] = s[n + i - 1]
  <2>1. \A n \in i..Len(s) : s[n] \in S
    BY <1>1, ElementOfSeq
  <2>2. /\ SubSeq(s, i, Len(s)) \in Seq(S)
        /\ Len(SubSeq(s, i, Len(s))) = IF i <= Len(s) THEN Len(s) - i + 1 ELSE 0
        /\ \A n \in 1..(Len(s) - i + 1) : SubSeq(s, i, Len(s))[n] = s[i + n - 1]
    BY ONLY <1>1, <2>1, SubSeqProperties
  <2>3. QED
    BY ONLY <2>2, <1>1
<1>4. /\ <<e>> \in Seq(S) /\ Len(<<e>>) = 1 /\ <<e>>[1] = e
  OBVIOUS
<1> HIDE DEF a, b
<1>5. /\ a \o <<e>> \in Seq(S) /\ Len(a \o <<e>>) = i
      /\ \A n \in 1..i : (a \o <<e>>)[n] = IF n < i THEN s[n] ELSE e
  <2>1. /\ a \o <<e>> \in Seq(S) /\ Len(a \o <<e>>) = (i - 1) + 1
        /\ \A n \in 1..((i - 1) + 1) :
             (a \o <<e>>)[n] = IF n <= i - 1 THEN a[n] ELSE <<e>>[n - (i - 1)]
    <3>1. /\ a \o <<e>> \in Seq(S) /\ Len(a \o <<e>>) = Len(a) + Len(<<e>>)
          /\ \A n \in 1..(Len(a) + Len(<<e>>)) :
               (a \o <<e>>)[n] = IF n <= Len(a) THEN a[n] ELSE <<e>>[n - Len(a)]
      BY ONLY <1>2, <1>4, ConcatProperties
    <3>2. QED
      BY ONLY <3>1, <1>2, <1>4
  <2>2. \A n \in 1..i : n < i \/ n - (i - 1) = 1
    BY ONLY <1>1
  <2>3. QED
    BY ONLY <2>1, <2>2, <1>1, <1>2, <1>4
<1>6. /\ (a \o <<e>>) \o b \in Seq(S)
      /\ Len((a \o <<e>>) \o b) = i + (Len(s) + 1 - i)
      /\ \A n \in 1..(i + (Len(s) + 1 - i)) :
           ((a \o <<e>>) \o b)[n] = IF n <= i THEN (a \o <<e>>)[n] ELSE b[n - i]
  <2>1. PICK c : c = a \o <<e>>
    OBVIOUS
  <2>2. c \in Seq(S) /\ Len(c) = i /\ b \in Seq(S) /\ Len(b) = Len(s) + 1 - i
    BY ONLY <2>1, <1>3, <1>5
  <2>3. /\ c \o b \in Seq(S) /\ Len(c \o b) = Len(c) + Len(b)
        /\ \A n \in 1..(Len(c) + Len(b)) :
             (c \o b)[n] = IF n <= Len(c) THEN c[n] ELSE b[n - Len(c)]
    BY ONLY <2>2, ConcatProperties
  <2>4. /\ c \o b \in Seq(S) /\ Len(c \o b) = i + (Len(s) + 1 - i)
        /\ \A n \in 1..(i + (Len(s) + 1 - i)) :
             (c \o b)[n] = IF n <= i THEN c[n] ELSE b[n - i]
    BY ONLY <2>2, <2>3
  <2>5. QED
    BY ONLY <2>1, <2>4
<1>7. History!InsertAt(s, i, e) = (a \o <<e>>) \o b
  BY DEF History!InsertAt, a, b
<1>8. ASSUME NEW n \in 1..(Len(s) + 1)
      PROVE  ((a \o <<e>>) \o b)[n] = IF n < i THEN s[n] ELSE IF n = i THEN e ELSE s[n - 1]
  <2>1. CASE n <= i
    BY ONLY <2>1, <1>1, <1>5, <1>6, <1>8
  <2>2. CASE n > i
    <3>1. n - i \in 1..(Len(s) + 1 - i) /\ (n - i) + i - 1 = n - 1
      BY ONLY <2>2, <1>1, <1>8
    <3>2. b[n - i] = s[n - 1]
      BY ONLY <3>1, <1>3
    <3>3. ((a \o <<e>>) \o b)[n] = b[n - i]
      <4>1. n \in 1..(i + (Len(s) + 1 - i)) /\ ~(n <= i)
        BY ONLY <2>2, <1>1, <1>8
      <4>2. QED
        BY ONLY <4>1, <1>6
    <3>4. ~(n < i) /\ n # i
      BY ONLY <2>2, <1>1, <1>8
    <3>5. QED
      BY ONLY <3>2, <3>3, <3>4
  <2>3. n <= i \/ n > i
    BY <1>1
  <2>4. QED
    BY <2>1, <2>2, <2>3, Zenon
<1>9. QED
  BY ONLY <1>1, <1>6, <1>7, <1>8

\* An entry bound to its place in a rising stack.
LEMMA BoundFacts ==
  ASSUME NEW s \in Seq(History!Edits), Rising(s), NEW e \in History!Edits, ~In(s, e)
  PROVE  /\ History!Bound(s, e) \in Seq(History!Edits)
         /\ Len(History!Bound(s, e)) = Len(s) + 1
         /\ Rising(History!Bound(s, e))
         /\ \A x : In(History!Bound(s, e), x) <=> In(s, x) \/ x = e
<1> DEFINE later == {n \in 1..Len(s) : s[n] > e}
           least == CHOOSE n \in later : \A m \in later : n <= m
           place == IF later = {} THEN Len(s) + 1 ELSE least
           b == History!InsertAt(s, place, e)
<1>1. Len(s) \in Nat /\ e \in Int /\ \A n \in 1..Len(s) : s[n] \in Int /\ s[n] \in History!Edits
  BY LenProperties, ElementOfSeq, BoundsAssumption DEF History!Edits
<1>2. /\ place \in 1..(Len(s) + 1)
      /\ \A n \in 1..Len(s) : (n < place => s[n] < e) /\ (n >= place => s[n] > e)
  <2>1. CASE later = {}
    <3>1. \A n \in 1..Len(s) : s[n] # e /\ ~(s[n] > e)
      BY <2>1 DEF In
    <3>2. place = Len(s) + 1
      BY <2>1
    <3>3. \A n \in 1..Len(s) : s[n] < e
      BY ONLY <3>1, <1>1
    <3> HIDE DEF place
    <3>4. QED
      BY ONLY <3>2, <3>3, <1>1
  <2>2. CASE later # {}
    <3>1. \E n \in later : \A m \in later : n <= m
      <4>1. later \subseteq Nat
        BY <1>1
      <4>2. QED
        BY <2>2, <4>1, LeastExists
    <3> HIDE DEF later
    <3>2. least \in later /\ \A m \in later : least <= m
      BY <3>1, Zenon
    <3> HIDE DEF least
    <3>3. PICK p : p = place /\ p \in later /\ \A m \in later : p <= m
      BY <2>2, <3>2
    <3>4. /\ p \in 1..Len(s) /\ s[p] > e
          /\ \A n \in 1..Len(s) : s[n] > e => p <= n
      BY <3>3 DEF later
    <3>5. \A n \in 1..Len(s) : s[n] # e
      BY DEF In
    <3> HIDE DEF place
    <3>6. ASSUME NEW n \in 1..Len(s), n >= p
          PROVE  s[n] > e
      BY <3>4, <3>6, <1>1 DEF Rising
    <3>7. ASSUME NEW n \in 1..Len(s), n < p
          PROVE  s[n] < e
      BY <3>4, <3>5, <3>7, <1>1
    <3>8. QED
      BY <3>3, <3>4, <3>6, <3>7, <1>1
  <2>3. QED
    BY <2>1, <2>2
<1>3. History!Bound(s, e) = b
  BY DEF History!Bound
<1> HIDE DEF place
<1>4. /\ b \in Seq(History!Edits) /\ Len(b) = Len(s) + 1
      /\ \A n \in 1..(Len(s) + 1) :
           b[n] = IF n < place THEN s[n] ELSE IF n = place THEN e ELSE s[n - 1]
  BY <1>2, InsertFacts
<1> HIDE DEF b
<1>5. \A x : In(b, x) <=> In(s, x) \/ x = e
  <2> TAKE x
  <2>1. ASSUME In(b, x) PROVE In(s, x) \/ x = e
    <3>1. PICK n \in 1..(Len(s) + 1) : b[n] = x
      BY <2>1, <1>4 DEF In
    <3>2. CASE n < place
      BY ONLY <3>1, <3>2, <1>1, <1>2, <1>4 DEF In
    <3>3. CASE n = place
      BY ONLY <3>1, <3>3, <1>1, <1>2, <1>4
    <3>4. CASE n > place
      <4>1. n - 1 \in 1..Len(s) /\ b[n] = s[n - 1]
        BY ONLY <3>1, <3>4, <1>1, <1>2, <1>4
      <4>2. QED
        BY <3>1, <4>1 DEF In
    <3>5. QED
      BY ONLY <3>2, <3>3, <3>4, <1>1, <1>2
  <2>2. ASSUME In(s, x) PROVE In(b, x)
    <3>1. PICK n \in 1..Len(s) : s[n] = x
      BY <2>2 DEF In
    <3>2. CASE n < place
      BY <3>1, <3>2, <1>1, <1>2, <1>4 DEF In
    <3>3. CASE n >= place
      <4>1. n + 1 \in 1..(Len(s) + 1) /\ b[n + 1] = s[n]
        BY <3>3, <1>1, <1>2, <1>4
      <4>2. QED
        BY <3>1, <4>1, <1>4 DEF In
    <3>4. QED
      BY <3>2, <3>3, <1>1, <1>2
  <2>3. ASSUME x = e PROVE In(b, x)
    BY <2>3, <1>2, <1>4 DEF In
  <2>4. QED
    BY <2>1, <2>2, <2>3
<1>6. Rising(b)
  <2>1. SUFFICES ASSUME NEW m \in 1..(Len(s) + 1), NEW n \in 1..(Len(s) + 1), m < n
                 PROVE  b[m] < b[n]
    BY <1>4 DEF Rising
  <2>2. CASE n < place
    <3>1. m \in 1..Len(s) /\ n \in 1..Len(s) /\ b[m] = s[m] /\ b[n] = s[n]
      BY ONLY <2>1, <2>2, <1>1, <1>2, <1>4
    <3>2. QED
      BY ONLY <2>1, <3>1, Rising(s) DEF Rising
  <2>3. CASE n = place
    BY <2>1, <2>3, <1>1, <1>2, <1>4
  <2>4. CASE n > place /\ m = place
    BY <2>1, <2>4, <1>1, <1>2, <1>4, SMTT(30)
  <2>5. CASE n > place /\ m < place
    <3>1. n - 1 \in 1..Len(s) /\ m \in 1..Len(s) /\ b[m] = s[m] /\ b[n] = s[n - 1]
      BY <2>1, <2>5, <1>1, <1>2, <1>4
    <3>2. s[m] < e /\ e < s[n - 1]
      BY <3>1, <2>5, <1>1, <1>2
    <3>3. QED
      BY <3>1, <3>2, <1>1
  <2>6. CASE n > place /\ m > place
    <3>1. /\ n - 1 \in 1..Len(s) /\ m - 1 \in 1..Len(s) /\ m - 1 < n - 1
          /\ b[m] = s[m - 1] /\ b[n] = s[n - 1]
      BY <2>1, <2>6, <1>1, <1>2, <1>4
    <3>2. QED
      BY <3>1 DEF Rising
  <2>7. QED
    BY <2>2, <2>3, <2>4, <2>5, <2>6, <1>1, <1>2
<1>7. QED
  BY <1>3, <1>4, <1>5, <1>6

\* An entry on top of a stack.
LEMMA AppendFacts ==
  ASSUME NEW s \in Seq(History!Edits), NEW e \in History!Edits
  PROVE  /\ Append(s, e) \in Seq(History!Edits)
         /\ Len(Append(s, e)) = Len(s) + 1
         /\ \A x : In(Append(s, e), x) <=> In(s, x) \/ x = e
         /\ Rising(s) /\ (\A x : In(s, x) => x < e) => Rising(Append(s, e))
         /\ Falling(s) /\ (\A x : In(s, x) => e < x) => Falling(Append(s, e))
<1>1. PICK a : a = Append(s, e)
  OBVIOUS
<1>2. /\ a \in Seq(History!Edits) /\ Len(a) = Len(s) + 1 /\ Len(s) \in Nat
      /\ \A n \in 1..Len(s) : a[n] = s[n]
      /\ a[Len(s) + 1] = e
  BY <1>1, AppendProperties, LenProperties
<1>3. \A x : In(a, x) <=> In(s, x) \/ x = e
  BY <1>2 DEF In
<1>4. \A n \in 1..(Len(s) + 1) : n = Len(s) + 1 \/ n \in 1..Len(s)
  BY <1>2
<1>5. ASSUME Rising(s), \A x : In(s, x) => x < e
      PROVE  Rising(a)
  BY <1>2, <1>4, <1>5 DEF In, Rising
<1>6. ASSUME Falling(s), \A x : In(s, x) => e < x
      PROVE  Falling(a)
  BY <1>2, <1>4, <1>6 DEF In, Falling
<1>7. QED
  BY <1>1, <1>2, <1>3, <1>5, <1>6

\* A stack without its top.
LEMMA FrontFacts ==
  ASSUME NEW s \in Seq(History!Edits), s # <<>>, Rising(s) \/ Falling(s)
  PROVE  /\ History!Last(s) \in History!Edits /\ In(s, History!Last(s))
         /\ History!Front(s) \in Seq(History!Edits)
         /\ Len(History!Front(s)) = Len(s) - 1 /\ Len(s) >= 1
         /\ \A x : In(History!Front(s), x) <=> In(s, x) /\ x # History!Last(s)
         /\ Rising(s) => /\ Rising(History!Front(s))
                         /\ \A x : In(s, x) => x <= History!Last(s)
         /\ Falling(s) => /\ Falling(History!Front(s))
                          /\ \A x : In(s, x) => History!Last(s) <= x
<1>1. /\ Len(s) \in Nat \ {0}
      /\ \A n \in 1..Len(s) : s[n] \in History!Edits /\ s[n] \in Int
  BY EmptySeq, ElementOfSeq, BoundsAssumption DEF History!Edits
<1>2. PICK f : f = SubSeq(s, 1, Len(s) - 1)
  OBVIOUS
<1>3. /\ f \in Seq(History!Edits) /\ Len(f) = Len(s) - 1
      /\ \A n \in 1..(Len(s) - 1) : f[n] = s[n]
  <2>1. \A n \in 1..(Len(s) - 1) : s[n] \in History!Edits
    BY <1>1
  <2>2. /\ f \in Seq(History!Edits)
        /\ Len(f) = IF 1 <= Len(s) - 1 THEN (Len(s) - 1) - 1 + 1 ELSE 0
        /\ \A n \in 1..((Len(s) - 1) - 1 + 1) : f[n] = s[1 + n - 1]
    BY <1>1, <1>2, <2>1, SubSeqProperties
  <2>3. (Len(s) - 1) - 1 + 1 = Len(s) - 1 /\ \A n \in 1..(Len(s) - 1) : 1 + n - 1 = n
    BY <1>1
  <2>4. Len(f) = Len(s) - 1
    <3>1. PICK k \in Nat \ {0} : k = Len(s)
      BY <1>1
    <3>2. k = 1 \/ 1 <= k - 1
      OBVIOUS
    <3>3. Len(f) = IF 1 <= k - 1 THEN (k - 1) - 1 + 1 ELSE 0
      BY <2>2, <3>1
    <3>4. QED
      BY <3>1, <3>2, <3>3
  <2>5. QED
    BY <2>2, <2>3, <2>4
<1>4. History!Front(s) = f
  BY <1>2 DEF History!Front
<1>5. PICK top : top = s[Len(s)]
  OBVIOUS
<1>6. History!Last(s) = top
  BY <1>5 DEF History!Last
<1>7. top \in History!Edits /\ In(s, top)
  BY <1>1, <1>5 DEF In
<1>8. \A n \in 1..Len(s) : n = Len(s) \/ n \in 1..(Len(s) - 1)
  BY <1>1
<1>9. \A x : In(f, x) <=> In(s, x) /\ x # top
  BY <1>1, <1>3, <1>5, <1>8, SMTT(30) DEF In, Rising, Falling
<1>10. ASSUME Rising(s)
       PROVE  Rising(f) /\ \A x : In(s, x) => x <= top
  BY <1>1, <1>3, <1>5, <1>8, <1>10 DEF In, Rising
<1>11. ASSUME Falling(s)
       PROVE  Falling(f) /\ \A x : In(s, x) => top <= x
  BY <1>1, <1>3, <1>5, <1>8, <1>11 DEF In, Falling
<1>12. QED
  BY <1>1, <1>3, <1>4, <1>6, <1>7, <1>9, <1>10, <1>11

\* A rising stack without its oldest entry.
LEMMA TailFacts ==
  ASSUME NEW s \in Seq(History!Edits), s # <<>>, Rising(s)
  PROVE  /\ Head(s) \in History!Edits /\ In(s, Head(s))
         /\ Tail(s) \in Seq(History!Edits)
         /\ Len(Tail(s)) = Len(s) - 1
         /\ Rising(Tail(s))
         /\ \A x : In(Tail(s), x) <=> In(s, x) /\ x # Head(s)
         /\ \A x : In(s, x) => Head(s) <= x
<1>1. /\ Len(s) \in Nat \ {0}
      /\ \A n \in 1..Len(s) : s[n] \in History!Edits /\ s[n] \in Int
  BY EmptySeq, ElementOfSeq, BoundsAssumption DEF History!Edits
<1>2. PICK t : t = Tail(s)
  OBVIOUS
<1>3. /\ t \in Seq(History!Edits) /\ Len(t) = Len(s) - 1
      /\ \A n \in 1..(Len(s) - 1) : t[n] = s[n + 1]
  BY <1>2, HeadTailProperties
<1>4. Head(s) = s[1]
  BY <1>1
<1>5. \A n \in 1..Len(s) : n = 1 \/ (n - 1 \in 1..(Len(s) - 1) /\ t[n - 1] = s[n])
  BY <1>1, <1>3
<1>6. \A n \in 1..(Len(s) - 1) : n + 1 \in 1..Len(s)
  BY <1>1
<1>7. \A x : In(s, x) => s[1] <= x
  BY <1>1 DEF In, Rising
<1>8. \A n \in 1..Len(s) : s[n] = s[1] => n = 1
  BY <1>1 DEF Rising
<1>9. \A x : In(t, x) <=> In(s, x) /\ x # s[1]
  <2> TAKE x
  <2>1. ASSUME In(t, x) PROVE In(s, x) /\ x # s[1]
    <3>1. PICK n \in 1..(Len(s) - 1) : t[n] = x
      BY <2>1, <1>3 DEF In
    <3>2. n + 1 \in 1..Len(s) /\ s[n + 1] = x /\ n + 1 # 1
      BY <3>1, <1>1, <1>3
    <3>3. QED
      BY <3>2, <1>8 DEF In
  <2>2. ASSUME In(s, x), x # s[1] PROVE In(t, x)
    BY <2>2, <1>3, <1>5 DEF In
  <2>3. QED
    BY <2>1, <2>2
<1>10. Rising(t)
  <2>1. SUFFICES ASSUME NEW m \in 1..(Len(s) - 1), NEW n \in 1..(Len(s) - 1), m < n
                 PROVE  t[m] < t[n]
    BY <1>3 DEF Rising
  <2>2. m + 1 \in 1..Len(s) /\ n + 1 \in 1..Len(s) /\ m + 1 < n + 1
    BY <2>1, <1>1
  <2>3. s[m + 1] < s[n + 1]
    BY <2>2 DEF Rising
  <2>4. QED
    BY <2>3, <1>3
<1>11. QED
  BY <1>1, <1>2, <1>3, <1>4, <1>7, <1>9, <1>10 DEF In

-----------------------------------------------------------------------------
(* The mutations under way: the results on their way to the main thread, the mutations the
   worker has not executed, and those whose outcome the next session start reports. *)

Total == Len(results) + Len(queue)
Items ==
  [n \in 1..Total |->
     IF n <= Len(results) THEN results[n]
     ELSE [job |-> queue[n - Len(results)], status |-> "queued"]]

\* What says how a mutation ends, or will. An unknown result does not.
Known(n) == Items[n].status # "unknown"

Jobs == {Items[n].job : n \in 1..Total} \cup {u.job : u \in uncertain}
Done ==
  {Items[n].job : n \in {m \in 1..Total : Items[m].status = "committed"}}
    \cup {u.job : u \in {v \in uncertain : v.status = "committed"}}
NotDone ==
  {Items[n].job : n \in {m \in 1..Total : Known(m) /\ Items[m].status # "committed"}}
    \cup {u.job : u \in {v \in uncertain : v.status # "committed"}}

\* Two jobs of this generation of the history that are about one edit, or are transitions, of
\* which there is one at a time.
Current(job) == job.generation = generation
Clash(a, b) ==
  /\ Current(a) /\ Current(b)
  /\ IF a.kind = "edit" THEN b.kind = "edit" /\ a.edit = b.edit ELSE b.kind # "edit"

\* A job is reported once, and an unknown result is followed by another report.
Once ==
  /\ \A m, n \in 1..Total :
       Known(m) /\ Known(n) /\ Clash(Items[m].job, Items[n].job) => m = n
  /\ \A n \in 1..Total, u \in uncertain : Known(n) => ~Clash(Items[n].job, u.job)
  /\ \A u, v \in uncertain : Clash(u.job, v.job) => u = v
  /\ \A n \in 1..Total : ~Known(n) => \E u \in uncertain : u.job = Items[n].job

\* What is under way has its type.
LEMMA ItemsType ==
  ASSUME History!TypeOK
  PROVE  /\ Len(results) \in Nat /\ Len(queue) \in Nat /\ Total \in Nat
         /\ \A n \in 1..Total :
              /\ Items[n].job \in History!Job
              /\ Items[n].status \in History!Statuses \cup {"queued"}
         /\ \A u \in uncertain : u.job \in History!Job /\ u.status \in {"committed", "rejected"}
         /\ Jobs \subseteq History!Job
         /\ Done \subseteq Jobs /\ NotDone \subseteq Jobs
<1>1. Len(results) \in Nat /\ Len(queue) \in Nat
  BY LenProperties DEF History!TypeOK
<1>2. Total \in Nat
  BY <1>1 DEF Total
<1>3. ASSUME NEW n \in 1..Total
      PROVE  /\ Items[n].job \in History!Job
             /\ Items[n].status \in History!Statuses \cup {"queued"}
  <2>1. CASE n <= Len(results)
    <3>1. results[n] \in [job : History!Job, status : History!Statuses]
      <4>1. n \in 1..Len(results)
        BY <1>1, <1>2, <2>1
      <4>2. results \in Seq([job : History!Job, status : History!Statuses])
        BY DEF History!TypeOK
      <4>3. QED
        BY <4>1, <4>2, ElementOfSeq
    <3>2. Items[n] = results[n]
      BY <2>1, <1>3 DEF Items
    <3>3. QED
      BY <3>1, <3>2
  <2>2. CASE ~(n <= Len(results))
    <3>1. n - Len(results) \in 1..Len(queue)
      BY <2>2, <1>1, <1>2 DEF Total
    <3>2. queue[n - Len(results)] \in History!Job
      BY <3>1, ElementOfSeq DEF History!TypeOK
    <3>3. Items[n] = [job |-> queue[n - Len(results)], status |-> "queued"]
      BY <2>2, <1>3 DEF Items
    <3>4. QED
      BY <3>2, <3>3
  <2>3. QED
    BY <2>1, <2>2
<1>4. \A u \in uncertain : u.job \in History!Job /\ u.status \in {"committed", "rejected"}
  BY DEF History!TypeOK
<1>5. QED
  BY <1>1, <1>2, <1>3, <1>4 DEF Jobs, Done, NotDone

\* A mutation that is submitted.
LEMMA ItemsSubmit ==
  ASSUME History!TypeOK, Once, NEW job \in History!Job, \A j \in Jobs : ~Clash(j, job),
         queue' = Append(queue, job), UNCHANGED <<results, uncertain, generation>>
  PROVE  /\ Once'
         /\ \A j : j \in Jobs' <=> j \in Jobs \/ j = job
         /\ \A j : j \in Done' <=> j \in Done
         /\ \A j : j \in NotDone' <=> j \in NotDone \/ j = job
<1>1. /\ Len(results) \in Nat /\ Len(queue) \in Nat /\ Total \in Nat
      /\ Len(queue') = Len(queue) + 1
      /\ \A n \in 1..Len(queue) : queue'[n] = queue[n]
      /\ queue'[Len(queue) + 1] = job
  BY ItemsType, AppendProperties DEF History!TypeOK
<1>2. Total' = Total + 1
  BY <1>1 DEF Total
<1>3. ASSUME NEW n \in 1..Total
      PROVE  Items'[n] = Items[n]
  <2>1. n \in 1..Total'
    BY <1>1, <1>2
  <2>2. CASE n <= Len(results)
    BY <2>1, <2>2 DEF Items
  <2>3. CASE ~(n <= Len(results))
    <3>1. n - Len(results) \in 1..Len(queue)
      BY <2>3, <1>1 DEF Total
    <3>2. queue'[n - Len(results)] = queue[n - Len(results)]
      BY <3>1, <1>1
    <3>3. QED
      BY <2>1, <2>3, <3>2 DEF Items
  <2>4. QED
    BY <2>2, <2>3
<1>4. Items'[Total + 1] = [job |-> job, status |-> "queued"]
  <2>1. /\ Total + 1 \in 1..Total' /\ ~(Total + 1 <= Len(results))
        /\ Total + 1 - Len(results) = Len(queue) + 1
    BY <1>1, <1>2 DEF Total
  <2>2. QED
    BY <2>1, <1>1 DEF Items
<1>5. \A n : n \in 1..Total' <=> n \in 1..Total \/ n = Total + 1
  BY <1>1, <1>2
<1> HIDE DEF Total, Items
<1>6. \A j : j \in Jobs' <=> j \in Jobs \/ j = job
  BY <1>3, <1>4, <1>5 DEF Jobs
<1>7. \A j : j \in Done' <=> j \in Done
  BY <1>3, <1>4, <1>5 DEF Done
<1>8. \A j : j \in NotDone' <=> j \in NotDone \/ j = job
  <2>1. /\ Items'[Total + 1].job = job
        /\ Items'[Total + 1].status # "committed" /\ Items'[Total + 1].status # "unknown"
    BY <1>4
  <2>2. ASSUME NEW j \in NotDone'
        PROVE  j \in NotDone \/ j = job
    BY <2>1, <1>3, <1>5 DEF NotDone, Known
  <2>3. job \in NotDone'
    BY <2>1, <1>5 DEF NotDone, Known
  <2>4. ASSUME NEW j \in NotDone
        PROVE  j \in NotDone'
    BY <1>3, <1>5 DEF NotDone, Known
  <2>5. QED
    BY <2>2, <2>3, <2>4
<1>9. /\ \A n \in 1..Total : ~Clash(Items[n].job, job) /\ ~Clash(job, Items[n].job)
      /\ \A u \in uncertain : ~Clash(u.job, job) /\ ~Clash(job, u.job)
  BY DEF Jobs, Clash, Current
<1>10. Once'
  <2>1. \A n \in 1..Total' :
          \/ n \in 1..Total /\ Items'[n] = Items[n] /\ (Known(n)' <=> Known(n))
          \/ n = Total + 1 /\ Items'[n].job = job /\ Known(n)'
    BY <1>3, <1>4, <1>5 DEF Known
  <2>2. \A a, b : Clash(a, b)' <=> Clash(a, b)
    BY DEF Clash, Current
  <2> HIDE DEF Known, Clash
  <2>3. \A m, n \in 1..Total' :
          Known(m)' /\ Known(n)' /\ Clash(Items'[m].job, Items'[n].job) => m = n
    BY <2>1, <1>9 DEF Once
  <2>4. \A n \in 1..Total', u \in uncertain : Known(n)' => ~Clash(Items'[n].job, u.job)
    BY <2>1, <1>9 DEF Once
  <2>5. \A n \in 1..Total' : ~Known(n)' => \E u \in uncertain : u.job = Items'[n].job
    BY <2>1 DEF Once
  <2>6. QED
    BY <2>2, <2>3, <2>4, <2>5 DEF Once
<1>11. QED
  BY <1>6, <1>7, <1>8, <1>10

\* A mutation that the worker executes.
LEMMA ItemsExecute ==
  ASSUME History!TypeOK, Once, queue # <<>>, NEW job, job = Head(queue),
         NEW status \in History!Statuses \ {"unknown"},
         results' = Append(results, [job |-> job, status |-> status]),
         queue' = Tail(queue), UNCHANGED <<uncertain, generation>>
  PROVE  /\ Once'
         /\ job \in NotDone
         /\ \A j : j \in Jobs' <=> j \in Jobs
         /\ \A j \in Done' : (j = job /\ status = "committed") \/ (j \in Done /\ ~Clash(j, job))
         /\ \A j \in NotDone' : (j = job /\ status # "committed") \/ (j \in NotDone /\ ~Clash(j, job))
<1>1. /\ Len(results) \in Nat /\ Len(queue) \in Nat \ {0} /\ Total \in Nat
      /\ job \in History!Job
      /\ Len(queue') = Len(queue) - 1
      /\ \A n \in 1..(Len(queue) - 1) : queue'[n] = queue[n + 1]
      /\ queue[1] = job
  BY ItemsType, EmptySeq, HeadTailProperties DEF History!TypeOK
<1>2. PICK r : r = [job |-> job, status |-> status]
  OBVIOUS
<1>3. /\ r \in [job : History!Job, status : History!Statuses]
      /\ r.job = job /\ r.status = status
  BY <1>1, <1>2
<1>4. /\ Len(results') = Len(results) + 1
      /\ \A n \in 1..Len(results) : results'[n] = results[n]
      /\ results'[Len(results) + 1] = r
  BY <1>2, <1>3, AppendProperties DEF History!TypeOK
<1>5. Total' = Total
  BY <1>1, <1>4 DEF Total
<1>6. PICK k \in 1..Total : k = Len(results) + 1
  BY <1>1 DEF Total
<1>7. /\ Items[k].job = job /\ Items[k].status = "queued"
      /\ Items'[k].job = job /\ Items'[k].status = status
  <2>1. ~(k <= Len(results)) /\ k - Len(results) = 1 /\ k <= Len(results')
    BY <1>1, <1>4, <1>6
  <2>2. Items[k] = [job |-> queue[1], status |-> "queued"]
    BY <2>1, <1>6 DEF Items
  <2>3. Items'[k] = r
    BY <2>1, <1>4, <1>5, <1>6 DEF Items
  <2>4. QED
    BY <2>2, <2>3, <1>1, <1>3
<1>8. ASSUME NEW n \in 1..Total, n # k
      PROVE  Items'[n] = Items[n]
  <2>1. CASE n <= Len(results)
    <3>1. n \in 1..Len(results) /\ n <= Len(results')
      BY <2>1, <1>1, <1>4, <1>8
    <3>2. QED
      BY <2>1, <3>1, <1>4, <1>5, <1>8 DEF Items
  <2>2. CASE ~(n <= Len(results))
    <3>1. /\ ~(n <= Len(results'))
          /\ n - Len(results) - 1 \in 1..(Len(queue) - 1)
          /\ n - Len(results') = n - Len(results) - 1
          /\ (n - Len(results) - 1) + 1 = n - Len(results)
      BY <2>2, <1>1, <1>4, <1>6, <1>8 DEF Total
    <3>2. queue'[n - Len(results')] = queue[n - Len(results)]
      BY <3>1, <1>1
    <3>3. QED
      BY <2>2, <3>1, <3>2, <1>5, <1>8 DEF Items
  <2>3. QED
    BY <2>1, <2>2
<1> HIDE DEF Total, Items
<1>9. \A j : j \in Jobs' <=> j \in Jobs
  BY <1>5, <1>6, <1>7, <1>8 DEF Jobs
<1>10. job \in NotDone
  BY <1>6, <1>7 DEF NotDone, Known
<1>11. /\ Known(k) /\ Known(k)'
       /\ \A n \in 1..Total : (Known(n)' <=> Known(n)) /\ Items'[n].job = Items[n].job
  <2>1. Known(k) /\ Known(k)' /\ Items'[k].job = Items[k].job
    BY <1>7 DEF Known
  <2>2. ASSUME NEW n \in 1..Total, n # k
        PROVE  (Known(n)' <=> Known(n)) /\ Items'[n].job = Items[n].job
    BY <2>2, <1>8 DEF Known
  <2>3. QED
    BY <2>1, <2>2
<1>12. \A a, b : Clash(a, b)' <=> Clash(a, b)
  BY DEF Clash, Current
<1>13. Once'
  BY <1>5, <1>11, <1>12 DEF Once
<1>14. /\ \A n \in 1..Total : Known(n) /\ n # k => ~Clash(Items[n].job, job)
       /\ \A u \in uncertain : ~Clash(u.job, job)
  <2>1. \A n \in 1..Total : Known(n) /\ n # k => ~Clash(Items[n].job, job)
    BY <1>6, <1>7, <1>11 DEF Once
  <2>2. \A u \in uncertain : ~Clash(job, u.job)
    BY <1>6, <1>7, <1>11 DEF Once
  <2>3. QED
    BY <2>1, <2>2 DEF Clash, Current
<1>15. ASSUME NEW j \in Done'
       PROVE  (j = job /\ status = "committed") \/ (j \in Done /\ ~Clash(j, job))
  <2>1. CASE \E n \in 1..Total : Items'[n].job = j /\ Items'[n].status = "committed"
    <3>1. PICK n \in 1..Total : Items'[n].job = j /\ Items'[n].status = "committed"
      BY <2>1
    <3>2. CASE n = k
      BY <3>1, <3>2, <1>7
    <3>3. CASE n # k
      BY <3>1, <3>3, <1>8, <1>14 DEF Done, Known
    <3>4. QED
      BY <3>2, <3>3
  <2>2. CASE \E u \in uncertain : u.job = j /\ u.status = "committed"
    BY <2>2, <1>14 DEF Done
  <2>3. QED
    BY <2>1, <2>2, <1>5, <1>15 DEF Done
<1>16. ASSUME NEW j \in NotDone'
       PROVE  (j = job /\ status # "committed") \/ (j \in NotDone /\ ~Clash(j, job))
  <2>1. CASE \E n \in 1..Total : /\ Items'[n].job = j /\ Known(n)'
                                 /\ Items'[n].status # "committed"
    <3>1. PICK n \in 1..Total : /\ Items'[n].job = j /\ Known(n)'
                                /\ Items'[n].status # "committed"
      BY <2>1
    <3>2. CASE n = k
      BY <3>1, <3>2, <1>7
    <3>3. CASE n # k
      BY <3>1, <3>3, <1>8, <1>11, <1>14 DEF NotDone
    <3>4. QED
      BY <3>2, <3>3
  <2>2. CASE \E u \in uncertain : u.job = j /\ u.status # "committed"
    BY <2>2, <1>14 DEF NotDone
  <2>3. QED
    BY <2>1, <2>2, <1>5, <1>16 DEF NotDone
<1>17. QED
  BY <1>9, <1>10, <1>13, <1>15, <1>16

\* What is queued as it is rejected.
LEMMA RejectedType ==
  ASSUME NEW q \in Seq(History!Job), NEW m \in Nat, NEW d \in Nat, m + d <= Len(q)
  PROVE  LET s == [n \in 1..m |-> [job |-> q[n + d], status |-> "rejected"]]
         IN  /\ s \in Seq([job : History!Job, status : History!Statuses])
             /\ Len(s) = m
             /\ \A n \in 1..m : s[n].job = q[n + d] /\ s[n].status = "rejected"
<1> DEFINE s == [n \in 1..m |-> [job |-> q[n + d], status |-> "rejected"]]
<1>1. ASSUME NEW n \in 1..m
      PROVE  [job |-> q[n + d], status |-> "rejected"] \in [job : History!Job, status : History!Statuses]
  <2>1. n + d \in 1..Len(q)
    BY LenProperties
  <2>2. q[n + d] \in History!Job
    BY <2>1, ElementOfSeq
  <2>3. QED
    BY <2>2 DEF History!Statuses
<1>2. s \in [1..m -> [job : History!Job, status : History!Statuses]]
  BY <1>1
<1>3. s \in Seq([job : History!Job, status : History!Statuses]) /\ Len(s) = m
  BY <1>2
<1>4. QED
  BY <1>3

\* The queue is rejected.
LEMMA ItemsReject ==
  ASSUME History!TypeOK, Once, queue' = <<>>,
         results' = results \o [n \in 1..Len(queue) |-> [job |-> queue[n], status |-> "rejected"]],
         UNCHANGED <<uncertain, generation>>
  PROVE  /\ Once'
         /\ results' \in Seq([job : History!Job, status : History!Statuses])
         /\ \A j : j \in Jobs' <=> j \in Jobs
         /\ \A j \in Done' : j \in Done
         /\ \A j \in NotDone' : j \in NotDone
<1>1. /\ Len(results) \in Nat /\ Len(queue) \in Nat /\ Total \in Nat
  BY ItemsType
<1>2. PICK s : s = [n \in 1..Len(queue) |-> [job |-> queue[n], status |-> "rejected"]]
  OBVIOUS
<1>3. s = [n \in 1..Len(queue) |-> [job |-> queue[n + 0], status |-> "rejected"]]
  BY <1>1, <1>2
<1>4. /\ s \in Seq([job : History!Job, status : History!Statuses])
      /\ Len(s) = Len(queue)
      /\ \A n \in 1..Len(queue) : s[n].job = queue[n] /\ s[n].status = "rejected"
  <2>1. queue \in Seq(History!Job) /\ 0 \in Nat /\ Len(queue) + 0 <= Len(queue)
    BY <1>1 DEF History!TypeOK
  <2>2. /\ s \in Seq([job : History!Job, status : History!Statuses])
        /\ Len(s) = Len(queue)
        /\ \A n \in 1..Len(queue) : s[n].job = queue[n + 0] /\ s[n].status = "rejected"
    BY <1>1, <1>3, <2>1, RejectedType, ZenonT(60)
  <2>3. QED
    BY <2>2, <1>1
<1>5. /\ results' \in Seq([job : History!Job, status : History!Statuses])
      /\ Len(results') = Len(results) + Len(queue)
      /\ \A n \in 1..(Len(results) + Len(queue)) :
           results'[n] = IF n <= Len(results) THEN results[n] ELSE s[n - Len(results)]
  BY <1>2, <1>4, ConcatProperties DEF History!TypeOK
<1>6. Total' = Total /\ Len(results') = Total
  BY <1>1, <1>5 DEF Total
<1>7. ASSUME NEW n \in 1..Total
      PROVE  \/ Items'[n] = Items[n]
             \/ /\ Items'[n].job = Items[n].job
                /\ Items'[n].status = "rejected" /\ Items[n].status = "queued"
  <2>1. Items'[n] = results'[n]
    BY <1>1, <1>6 DEF Items
  <2>2. CASE n <= Len(results)
    BY <2>1, <2>2, <1>5, <1>7 DEF Items, Total
  <2>3. CASE ~(n <= Len(results))
    <3>1. n - Len(results) \in 1..Len(queue)
      BY <2>3, <1>1 DEF Total
    <3>2. Items[n] = [job |-> queue[n - Len(results)], status |-> "queued"]
      BY <2>3 DEF Items
    <3>3. results'[n] = s[n - Len(results)]
      BY <2>3, <1>5, <1>7 DEF Total
    <3>4. QED
      BY <2>1, <3>1, <3>2, <3>3, <1>4
  <2>4. QED
    BY <2>2, <2>3
<1> HIDE DEF Total, Items
<1>8. \A n \in 1..Total :
        /\ Items'[n].job = Items[n].job
        /\ Known(n)' <=> Known(n)
        /\ Items'[n].status = "committed" <=> Items[n].status = "committed"
  BY <1>7 DEF Known
<1>9. \A a, b : Clash(a, b)' <=> Clash(a, b)
  BY DEF Clash, Current
<1>10. Once'
  BY <1>6, <1>8, <1>9 DEF Once
<1>11. \A j : j \in Jobs' <=> j \in Jobs
  BY <1>6, <1>8 DEF Jobs
<1>12. \A j \in Done' : j \in Done
  BY <1>6, <1>8 DEF Done
<1>13. \A j \in NotDone' : j \in NotDone
  BY <1>6, <1>8 DEF NotDone
<1>14. QED
  BY <1>5, <1>10, <1>11, <1>12, <1>13

\* The connection is lost around a commit.
LEMMA ItemsLose ==
  ASSUME History!TypeOK, Once, queue # <<>>, NEW job, job = Head(queue),
         NEW status \in {"committed", "rejected"},
         results' = results
             \o <<[job |-> job, status |-> "unknown"]>>
             \o [n \in 1..(Len(queue) - 1) |-> [job |-> queue[n + 1], status |-> "rejected"]],
         queue' = <<>>, uncertain' = uncertain \cup {[job |-> job, status |-> status]},
         generation' = generation
  PROVE  /\ Once'
         /\ results' \in Seq([job : History!Job, status : History!Statuses])
         /\ job \in NotDone
         /\ \A j : j \in Jobs' <=> j \in Jobs
         /\ \A j \in Done' : (j = job /\ status = "committed") \/ (j \in Done /\ ~Clash(j, job))
         /\ \A j \in NotDone' : (j = job /\ status # "committed") \/ (j \in NotDone /\ ~Clash(j, job))
<1> DEFINE R == [job : History!Job, status : History!Statuses]
<1>1. /\ Len(results) \in Nat /\ Len(queue) \in Nat \ {0} /\ Total \in Nat
      /\ job \in History!Job
      /\ queue[1] = job
  BY ItemsType, EmptySeq, HeadTailProperties DEF History!TypeOK
<1>2. PICK s : s = [n \in 1..(Len(queue) - 1) |-> [job |-> queue[n + 1], status |-> "rejected"]]
  OBVIOUS
<1>3. /\ s \in Seq(R)
      /\ Len(s) = Len(queue) - 1
      /\ \A n \in 1..(Len(queue) - 1) : s[n].job = queue[n + 1] /\ s[n].status = "rejected"
  <2>1. queue \in Seq(History!Job) /\ 1 \in Nat /\ Len(queue) - 1 \in Nat
        /\ (Len(queue) - 1) + 1 <= Len(queue)
    BY <1>1 DEF History!TypeOK
  <2>2. QED
    BY <1>2, <2>1, RejectedType
<1>4. PICK r : r = [job |-> job, status |-> "unknown"]
  OBVIOUS
<1>5. r \in R /\ r.job = job /\ r.status = "unknown"
  BY <1>1, <1>4 DEF History!Statuses
<1>6. PICK p : p = results \o <<r>>
  OBVIOUS
<1>7. /\ p \in Seq(R) /\ Len(p) = Len(results) + 1
      /\ \A n \in 1..(Len(results) + 1) : p[n] = IF n <= Len(results) THEN results[n] ELSE r
  <2>1. Append(results, r) = p
    BY <1>5, <1>6, AppendIsConcat DEF History!TypeOK
  <2>2. /\ p \in Seq(R) /\ Len(p) = Len(results) + 1
        /\ \A n \in 1..Len(results) : p[n] = results[n]
        /\ p[Len(results) + 1] = r
    <3>1. results \in Seq(R)
      BY DEF History!TypeOK
    <3> HIDE DEF R
    <3>2. /\ Append(results, r) \in Seq(R) /\ Len(Append(results, r)) = Len(results) + 1
          /\ \A n \in 1..Len(results) : Append(results, r)[n] = results[n]
          /\ Append(results, r)[Len(results) + 1] = r
      BY <3>1, <1>5, AppendProperties
    <3>3. QED
      BY <2>1, <3>2
  <2>3. \A n \in 1..(Len(results) + 1) :
          IF n <= Len(results) THEN n \in 1..Len(results) ELSE n = Len(results) + 1
    BY <1>1
  <2>4. QED
    BY <2>2, <2>3
<1>8. /\ results' \in Seq(R)
      /\ Len(results') = Total
      /\ \A n \in 1..Total :
           results'[n] = IF n <= Len(results) + 1 THEN p[n] ELSE s[n - (Len(results) + 1)]
  <2>1. results' = p \o s
    BY <1>2, <1>4, <1>6
  <2>2. /\ results' \in Seq(R)
        /\ Len(results') = Len(p) + Len(s)
        /\ \A n \in 1..(Len(p) + Len(s)) :
             results'[n] = IF n <= Len(p) THEN p[n] ELSE s[n - Len(p)]
    <3> HIDE DEF R
    <3>1. /\ p \o s \in Seq(R)
          /\ Len(p \o s) = Len(p) + Len(s)
          /\ \A n \in 1..(Len(p) + Len(s)) :
               (p \o s)[n] = IF n <= Len(p) THEN p[n] ELSE s[n - Len(p)]
      BY <1>3, <1>7, ConcatProperties
    <3>2. QED
      BY <2>1, <3>1
  <2>3. Len(p) + Len(s) = Total
    BY <1>1, <1>3, <1>7 DEF Total
  <2>4. QED
    BY <2>2, <2>3, <1>7
<1>9. Total' = Total /\ Len(results') = Total
  BY <1>1, <1>8 DEF Total
<1>10. PICK k \in 1..Total : k = Len(results) + 1
  BY <1>1 DEF Total
<1>11. \A n \in 1..Total : Items'[n] = results'[n]
  BY <1>1, <1>9 DEF Items
<1>12. /\ Items[k].job = job /\ Items[k].status = "queued"
       /\ Items'[k].job = job /\ Items'[k].status = "unknown"
  <2>1. ~(k <= Len(results)) /\ k - Len(results) = 1
    BY <1>1, <1>10
  <2>2. Items[k] = [job |-> queue[1], status |-> "queued"]
    BY <2>1, <1>10 DEF Items
  <2>3. Items'[k] = r
    <3>1. p[k] = r /\ k <= Len(results) + 1
      BY <2>1, <1>1, <1>7, <1>10
    <3>2. QED
      BY <3>1, <1>8, <1>11
  <2>4. QED
    BY <2>2, <2>3, <1>1, <1>5
<1>13. ASSUME NEW n \in 1..Total, n # k
       PROVE  \/ Items'[n] = Items[n]
              \/ /\ Items'[n].job = Items[n].job
                 /\ Items'[n].status = "rejected" /\ Items[n].status = "queued"
  <2>1. CASE n <= Len(results)
    <3>1. n \in 1..(Len(results) + 1)
      BY <2>1, <1>1
    <3>2. results'[n] = p[n]
      <4>1. n <= Len(results) + 1
        BY <2>1, <1>1
      <4>2. QED
        BY <4>1, <1>8, <1>13
    <3>3. QED
      BY <2>1, <3>1, <3>2, <1>7, <1>11, <1>13 DEF Items
  <2>2. CASE ~(n <= Len(results))
    <3>1. /\ n - (Len(results) + 1) \in 1..(Len(queue) - 1) /\ ~(n <= Len(results) + 1)
          /\ n - (Len(results) + 1) + 1 = n - Len(results)
      BY <2>2, <1>1, <1>10, <1>13 DEF Total
    <3>2. Items[n] = [job |-> queue[n - Len(results)], status |-> "queued"]
      BY <2>2 DEF Items
    <3>3. results'[n] = s[n - (Len(results) + 1)]
      BY <3>1, <1>8, <1>9, <1>13
    <3>4. QED
      <4>1. PICK m \in 1..(Len(queue) - 1) : m = n - (Len(results) + 1)
        BY <3>1
      <4>2. m + 1 = n - Len(results)
        BY <3>1, <4>1
      <4>3. s[m].job = queue[n - Len(results)] /\ s[m].status = "rejected"
        BY <4>1, <4>2, <1>3
      <4>4. QED
        <5>1. Items'[n] = s[m]
          BY <3>3, <4>1, <1>11, <1>13
        <5>2. Items[n].job = queue[n - Len(results)] /\ Items[n].status = "queued"
          BY <3>2
        <5>3. QED
          BY <5>1, <5>2, <4>3
  <2>3. QED
    BY <2>1, <2>2
<1> HIDE DEF Total, Items
<1>14. /\ ~Known(k)' /\ Known(k)
       /\ \A n \in 1..Total :
            /\ Items'[n].job = Items[n].job
            /\ n # k => /\ Known(n)' <=> Known(n)
                        /\ Items'[n].status = "committed" <=> Items[n].status = "committed"
  <2>1. ~Known(k)' /\ Known(k) /\ Items'[k].job = Items[k].job
    BY <1>12 DEF Known
  <2>2. ASSUME NEW n \in 1..Total, n # k
        PROVE  /\ Items'[n].job = Items[n].job
               /\ Known(n)' <=> Known(n)
               /\ Items'[n].status = "committed" <=> Items[n].status = "committed"
    BY <2>2, <1>13 DEF Known
  <2>3. QED
    BY <2>1, <2>2
<1>15. \A a, b : Clash(a, b)' <=> Clash(a, b)
  BY DEF Clash, Current
<1>16. /\ \A n \in 1..Total : Known(n) /\ n # k => ~Clash(Items[n].job, job)
       /\ \A u \in uncertain : ~Clash(u.job, job) /\ ~Clash(job, u.job)
  <2>1. \A n \in 1..Total : Known(n) /\ n # k => ~Clash(Items[n].job, job)
    BY <1>12, <1>14 DEF Once
  <2>2. \A u \in uncertain : ~Clash(job, u.job)
    BY <1>12, <1>14 DEF Once
  <2>3. QED
    BY <2>1, <2>2 DEF Clash, Current
<1>17. PICK v : v = [job |-> job, status |-> status]
  OBVIOUS
<1>18. v.job = job /\ v.status = status /\ uncertain' = uncertain \cup {v}
  BY <1>17
<1> HIDE DEF Clash, Known
<1>19. Once'
  <2>1. \A m, n \in 1..Total :
          Known(m)' /\ Known(n)' /\ Clash(Items'[m].job, Items'[n].job) => m = n
    BY <1>14 DEF Once
  <2>2. \A n \in 1..Total, u \in uncertain' : Known(n)' => ~Clash(Items'[n].job, u.job)
    <3>1. ASSUME NEW n \in 1..Total, NEW u \in uncertain', Known(n)'
          PROVE  ~Clash(Items'[n].job, u.job)
      <4>1. n # k /\ Known(n) /\ Items'[n].job = Items[n].job
        BY ONLY <3>1, <1>14
      <4>2. CASE u = v
        BY ONLY <4>1, <4>2, <1>16, <1>18
      <4>3. CASE u \in uncertain
        BY <4>1, <4>3 DEF Once
      <4>4. QED
        BY ONLY <4>2, <4>3, <3>1, <1>18
    <3>2. QED
      BY ONLY <3>1
  <2>3. \A u, w \in uncertain' : Clash(u.job, w.job) => u = w
    BY <1>16, <1>18 DEF Once
  <2>4. \A n \in 1..Total : ~Known(n)' => \E u \in uncertain' : u.job = Items'[n].job
    BY <1>12, <1>14, <1>18 DEF Once
  <2>5. generation' = generation
    BY <1>12
  <2>6. \A m, n \in 1..Total' :
          Known(m)' /\ Known(n)' /\ Clash(Items[m].job, Items[n].job)' => m = n
    BY ONLY <2>1, <2>5, <1>9 DEF Clash, Current
  <2>7. \A n \in 1..Total', u \in uncertain' : Known(n)' => ~Clash(Items[n].job, u.job)'
    BY ONLY <2>2, <2>5, <1>9 DEF Clash, Current
  <2>8. \A u, w \in uncertain' : Clash(u.job, w.job)' => u = w
    BY ONLY <2>3, <2>5 DEF Clash, Current
  <2>9. \A n \in 1..Total' : ~Known(n)' => \E u \in uncertain' : u.job = Items'[n].job
    BY ONLY <2>4, <1>9
  <2>10. QED
    BY ONLY <2>6, <2>7, <2>8, <2>9 DEF Once
<1>20. \A j : j \in Jobs' <=> j \in Jobs
  <2>1. ASSUME NEW j \in Jobs'
        PROVE  j \in Jobs
    <3>1. CASE \E n \in 1..Total : Items'[n].job = j
      BY <3>1, <1>14 DEF Jobs
    <3>2. CASE \E u \in uncertain' : u.job = j
      BY <3>2, <1>12, <1>18 DEF Jobs
    <3>3. QED
      BY <3>1, <3>2, <2>1, <1>9 DEF Jobs
  <2>2. ASSUME NEW j \in Jobs
        PROVE  j \in Jobs'
    <3>1. CASE \E n \in 1..Total : Items[n].job = j
      BY <3>1, <1>9, <1>14 DEF Jobs
    <3>2. CASE \E u \in uncertain : u.job = j
      BY <3>2, <1>18 DEF Jobs
    <3>3. QED
      BY <3>1, <3>2, <2>2 DEF Jobs
  <2>3. QED
    BY <2>1, <2>2
<1>21. job \in NotDone
  BY <1>12, <1>14 DEF NotDone
<1>22. ASSUME NEW j \in Done'
       PROVE  (j = job /\ status = "committed") \/ (j \in Done /\ ~Clash(j, job))
  <2>1. CASE \E n \in 1..Total : Items'[n].job = j /\ Items'[n].status = "committed"
    <3>1. PICK n \in 1..Total : Items'[n].job = j /\ Items'[n].status = "committed"
      BY <2>1
    <3>2. n # k
      BY <3>1, <1>12
    <3>3. Items[n].job = j /\ Items[n].status = "committed" /\ Known(n)
      BY <3>1, <3>2, <1>14 DEF Known
    <3>4. QED
      BY <3>2, <3>3, <1>16 DEF Done
  <2>2. CASE \E u \in uncertain' : u.job = j /\ u.status = "committed"
    BY <2>2, <1>16, <1>18 DEF Done
  <2>3. QED
    BY <2>1, <2>2, <1>9, <1>22 DEF Done
<1>23. ASSUME NEW j \in NotDone'
       PROVE  (j = job /\ status # "committed") \/ (j \in NotDone /\ ~Clash(j, job))
  <2>1. CASE \E n \in 1..Total : /\ Items'[n].job = j /\ Known(n)'
                                 /\ Items'[n].status # "committed"
    <3>1. PICK n \in 1..Total : /\ Items'[n].job = j /\ Known(n)'
                                /\ Items'[n].status # "committed"
      BY <2>1
    <3>2. n # k
      BY <3>1, <1>14
    <3>3. QED
      BY <3>1, <3>2, <1>14, <1>16 DEF NotDone
  <2>2. CASE \E u \in uncertain' : u.job = j /\ u.status # "committed"
    BY <2>2, <1>16, <1>18 DEF NotDone
  <2>3. QED
    BY <2>1, <2>2, <1>9, <1>23 DEF NotDone
<1>24. QED
  BY <1>8, <1>19, <1>20, <1>21, <1>22, <1>23

\* The first result is taken off.
LEMMA ItemsShift ==
  ASSUME History!TypeOK, results # <<>>, results' = Tail(results), queue' = queue
  PROVE  /\ Total \in Nat \ {0} /\ 1 \in 1..Total
         /\ Items[1] = Head(results)
         /\ \A n \in 1..Total' : n + 1 \in 1..Total /\ Items'[n] = Items[n + 1]
         /\ \A n \in 1..Total : n = 1 \/ \E m \in 1..Total' : n = m + 1
         /\ Head(results) \in [job : History!Job, status : History!Statuses]
         /\ results' \in Seq([job : History!Job, status : History!Statuses])
<1> DEFINE R == [job : History!Job, status : History!Statuses]
<1>1. results \in Seq(R) /\ Len(queue) \in Nat
  BY ItemsType DEF History!TypeOK
<1> HIDE DEF R
<1>2. /\ Len(results) \in Nat \ {0}
      /\ Head(results) = results[1]
      /\ Head(results) \in R
      /\ results' \in Seq(R)
      /\ Len(results') = Len(results) - 1
      /\ \A n \in 1..(Len(results) - 1) : results'[n] = results[n + 1]
  BY <1>1, EmptySeq, HeadTailProperties
<1>3. /\ Total \in Nat \ {0} /\ 1 \in 1..Total
      /\ Total' = Total - 1
  BY <1>1, <1>2 DEF Total
<1>4. Items[1] = Head(results)
  BY <1>2, <1>3 DEF Items
<1>5. ASSUME NEW n \in 1..Total'
      PROVE  n + 1 \in 1..Total /\ Items'[n] = Items[n + 1]
  <2>1. n + 1 \in 1..Total
    BY <1>3, <1>5
  <2>2. CASE n <= Len(results')
    <3>1. n \in 1..(Len(results) - 1) /\ n + 1 <= Len(results)
      BY <2>2, <1>2, <1>5
    <3>2. results'[n] = results[n + 1]
      BY <3>1, <1>2
    <3>3. Items'[n] = results'[n]
      BY <2>2, <1>5 DEF Items
    <3>4. Items[n + 1] = results[n + 1]
      BY <2>1, <3>1 DEF Items
    <3>5. QED
      BY <2>1, <3>2, <3>3, <3>4
  <2>3. CASE ~(n <= Len(results'))
    <3>1. ~(n + 1 <= Len(results)) /\ n - Len(results') = n + 1 - Len(results)
      BY <2>3, <1>2, <1>5
    <3>2. Items'[n] = [job |-> queue[n - Len(results')], status |-> "queued"]
      BY <2>3, <1>5 DEF Items
    <3>3. Items[n + 1] = [job |-> queue[n + 1 - Len(results)], status |-> "queued"]
      BY <2>1, <3>1 DEF Items
    <3>4. QED
      BY <2>1, <3>1, <3>2, <3>3
  <2>4. QED
    BY <2>2, <2>3
<1>6. ASSUME NEW n \in 1..Total, n # 1
      PROVE  \E m \in 1..Total' : n = m + 1
  <2>1. n - 1 \in 1..Total' /\ n = (n - 1) + 1
    BY <1>3, <1>6
  <2>2. QED
    BY <2>1
<1>7. QED
  BY <1>2, <1>3, <1>4, <1>5, <1>6 DEF R

\* The main thread takes a result.
LEMMA ItemsDeliver ==
  ASSUME History!TypeOK, Once, results # <<>>,
         NEW job, job = Head(results).job, NEW status, status = Head(results).status,
         results' = Tail(results), UNCHANGED <<queue, uncertain, generation>>
  PROVE  /\ Once' /\ job \in Jobs
         /\ \A j \in Jobs' : j \in Jobs
         /\ \A j \in Jobs : j \in Jobs' \/ j = job
         /\ \A j \in Done' : j \in Done
         /\ \A j \in NotDone' : j \in NotDone
         /\ status = "unknown" => job \in Jobs'
         /\ status = "committed" => job \in Done
         /\ status \notin {"committed", "unknown"} => job \in NotDone
         /\ status # "unknown" => \A j \in Jobs' : ~Clash(j, job)
<1>1. /\ 1 \in 1..Total /\ Items[1].job = job /\ Items[1].status = status
      /\ \A n \in 1..Total' : n + 1 \in 1..Total /\ n + 1 # 1 /\ Items'[n] = Items[n + 1]
      /\ \A n \in 1..Total : n = 1 \/ \E m \in 1..Total' : n = m + 1
  <2>1. /\ 1 \in 1..Total /\ Items[1] = Head(results)
        /\ \A n \in 1..Total' : n + 1 \in 1..Total /\ Items'[n] = Items[n + 1]
        /\ \A n \in 1..Total : n = 1 \/ \E m \in 1..Total' : n = m + 1
    BY ItemsShift
  <2>2. \A n \in 1..Total' : n + 1 # 1
    OBVIOUS
  <2>3. Items[1].job = job /\ Items[1].status = status
    BY <2>1
  <2>4. QED
    BY ONLY <2>1, <2>2, <2>3
<1> HIDE DEF Total, Items
<1>2. \A n \in 1..Total' : Known(n)' <=> Known(n + 1)
  BY <1>1 DEF Known
<1>3. Known(1) <=> status # "unknown"
  BY <1>1 DEF Known
<1>4. \A m, n \in 1..Total' : m + 1 = n + 1 => m = n
  OBVIOUS
<1> HIDE DEF Known
<1>5. /\ \A m, n \in 1..Total' :
           Known(m)' /\ Known(n)' /\ Clash(Items'[m].job, Items'[n].job) => m = n
      /\ \A n \in 1..Total', u \in uncertain : Known(n)' => ~Clash(Items'[n].job, u.job)
      /\ \A n \in 1..Total' : ~Known(n)' => \E u \in uncertain : u.job = Items'[n].job
  BY <1>1, <1>2, <1>4 DEF Once
<1>6. Once'
  BY <1>5 DEF Once, Clash, Current
<1>7. /\ \A j \in Jobs' : j \in Jobs
      /\ \A j \in Done' : j \in Done
      /\ \A j \in NotDone' : j \in NotDone
  BY <1>1, <1>2, SMTT(30) DEF Jobs, Done, NotDone
<1>8. ASSUME NEW j \in Jobs
      PROVE  j \in Jobs' \/ j = job
  BY <1>1, <1>8 DEF Jobs
<1>9. job \in Jobs
  BY <1>1 DEF Jobs
<1>10. /\ status = "committed" => job \in Done
       /\ status \notin {"committed", "unknown"} => job \in NotDone
  BY <1>1, <1>3 DEF Done, NotDone
<1>11. ASSUME status = "unknown"
       PROVE  job \in Jobs'
  BY <1>1, <1>3, <1>11 DEF Once, Jobs
<1>12. ASSUME status # "unknown", NEW j \in Jobs'
       PROVE  ~Clash(j, job)
  <2>1. \A u \in uncertain : ~Clash(job, u.job)
    BY <1>1, <1>3, <1>12 DEF Once
  <2>2. \A u \in uncertain : ~Clash(u.job, job)
    BY <2>1 DEF Clash, Current
  <2>3. ASSUME NEW n \in 1..Total'
        PROVE  ~Clash(Items'[n].job, job)
    <3>1. CASE Known(n + 1)
      BY <3>1, <1>1, <1>3, <1>12 DEF Once
    <3>2. CASE ~Known(n + 1)
      <4>1. PICK u \in uncertain : u.job = Items[n + 1].job
        BY <3>2, <1>1 DEF Once
      <4>2. QED
        BY <4>1, <2>2, <1>1
    <3>3. QED
      BY <3>1, <3>2
  <2>4. QED
    BY <2>2, <2>3, <1>12 DEF Jobs
<1>13. QED
  BY <1>6, <1>7, <1>8, <1>9, <1>10, <1>11, <1>12

\* A commit that will be reported again.
LEMMA ItemsPostpone ==
  ASSUME History!TypeOK, Once, results # <<>>, NEW job, job = Head(results).job,
         Head(results).status = "committed", results' = Tail(results),
         uncertain' = uncertain \cup {[job |-> job, status |-> "committed"]},
         UNCHANGED <<queue, generation>>
  PROVE  /\ Once' /\ job \in Jobs
         /\ \A j : j \in Jobs' <=> j \in Jobs
         /\ \A j \in Done' : j \in Done
         /\ \A j \in NotDone' : j \in NotDone
<1>1. /\ 1 \in 1..Total /\ Items[1].job = job /\ Items[1].status = "committed"
      /\ \A n \in 1..Total' : n + 1 \in 1..Total /\ n + 1 # 1 /\ Items'[n] = Items[n + 1]
      /\ \A n \in 1..Total : n = 1 \/ \E m \in 1..Total' : n = m + 1
  <2>1. /\ 1 \in 1..Total /\ Items[1] = Head(results)
        /\ \A n \in 1..Total' : n + 1 \in 1..Total /\ Items'[n] = Items[n + 1]
        /\ \A n \in 1..Total : n = 1 \/ \E m \in 1..Total' : n = m + 1
    BY ItemsShift
  <2>2. \A n \in 1..Total' : n + 1 # 1
    OBVIOUS
  <2>3. Items[1].job = job /\ Items[1].status = "committed"
    BY <2>1
  <2>4. QED
    BY ONLY <2>1, <2>2, <2>3
<1> HIDE DEF Total, Items
<1>2. PICK v : v = [job |-> job, status |-> "committed"]
  OBVIOUS
<1>3. v.job = job /\ v.status = "committed" /\ uncertain' = uncertain \cup {v}
  BY <1>2
<1>4. /\ \A n \in 1..Total' : Known(n)' <=> Known(n + 1)
      /\ Known(1)
  BY <1>1 DEF Known
<1>5. \A m, n \in 1..Total' : m + 1 = n + 1 => m = n
  OBVIOUS
<1>6. /\ \A n \in 1..Total : Known(n) /\ n # 1 => ~Clash(Items[n].job, job)
      /\ \A u \in uncertain : ~Clash(job, u.job) /\ ~Clash(u.job, job)
  <2>1. \A n \in 1..Total : Known(n) /\ n # 1 => ~Clash(Items[n].job, job)
    BY <1>1, <1>4 DEF Once
  <2>2. \A u \in uncertain : ~Clash(job, u.job)
    BY <1>1, <1>4 DEF Once
  <2>3. QED
    BY <2>1, <2>2 DEF Clash, Current
<1> HIDE DEF Known, Clash
<1>7. Once'
  <2>1. \A m, n \in 1..Total' :
          Known(m)' /\ Known(n)' /\ Clash(Items'[m].job, Items'[n].job) => m = n
    BY <1>1, <1>4, <1>5 DEF Once
  <2>2. \A n \in 1..Total', u \in uncertain' : Known(n)' => ~Clash(Items'[n].job, u.job)
    BY <1>1, <1>3, <1>4, <1>6 DEF Once
  <2>3. \A u, w \in uncertain' : Clash(u.job, w.job) => u = w
    BY <1>3, <1>6 DEF Once
  <2>4. \A n \in 1..Total' : ~Known(n)' => \E u \in uncertain' : u.job = Items'[n].job
    BY <1>1, <1>3, <1>4 DEF Once
  <2>5. QED
    BY <2>1, <2>2, <2>3, <2>4 DEF Once, Clash, Current
<1>8. ASSUME NEW j \in Jobs'
      PROVE  j \in Jobs
  <2>1. CASE \E n \in 1..Total' : Items'[n].job = j
    BY <2>1, <1>1 DEF Jobs
  <2>2. CASE \E u \in uncertain' : u.job = j
    BY <2>2, <1>1, <1>3 DEF Jobs
  <2>3. QED
    BY <2>1, <2>2, <1>8 DEF Jobs
<1>9. ASSUME NEW j \in Jobs
      PROVE  j \in Jobs'
  <2>1. CASE \E n \in 1..Total : Items[n].job = j
    <3>1. PICK n \in 1..Total : Items[n].job = j
      BY <2>1
    <3>2. CASE n = 1
      BY <3>1, <3>2, <1>1, <1>3 DEF Jobs
    <3>3. CASE n # 1
      BY <3>1, <3>3, <1>1 DEF Jobs
    <3>4. QED
      BY <3>2, <3>3
  <2>2. CASE \E u \in uncertain : u.job = j
    BY <2>2, <1>3 DEF Jobs
  <2>3. QED
    BY <2>1, <2>2, <1>9 DEF Jobs
<1>10. ASSUME NEW j \in Done'
       PROVE  j \in Done
  <2>1. CASE \E n \in 1..Total' : Items'[n].job = j /\ Items'[n].status = "committed"
    BY <2>1, <1>1 DEF Done
  <2>2. CASE \E u \in uncertain' : u.job = j /\ u.status = "committed"
    BY <2>2, <1>1, <1>3 DEF Done
  <2>3. QED
    BY <2>1, <2>2, <1>10 DEF Done
<1>11. ASSUME NEW j \in NotDone'
       PROVE  j \in NotDone
  <2>1. CASE \E n \in 1..Total' : /\ Items'[n].job = j /\ Known(n)'
                                  /\ Items'[n].status # "committed"
    BY <2>1, <1>1, <1>4 DEF NotDone
  <2>2. CASE \E u \in uncertain' : u.job = j /\ u.status # "committed"
    BY <2>2, <1>3 DEF NotDone
  <2>3. QED
    BY <2>1, <2>2, <1>11 DEF NotDone
<1>12. job \in Jobs
  BY <1>1 DEF Jobs
<1>13. QED
  BY <1>7, <1>8, <1>9, <1>10, <1>11, <1>12

\* A report of a session start.
LEMMA ItemsRecover ==
  ASSUME History!TypeOK, Once, results = <<>>, queue = <<>>, NEW u \in uncertain,
         uncertain' = uncertain \ {u}, UNCHANGED <<results, queue, generation>>
  PROVE  /\ Once' /\ u.job \in Jobs
         /\ \A j \in Jobs' : j \in Jobs /\ ~Clash(j, u.job)
         /\ \A j \in Jobs : j \in Jobs' \/ j = u.job
         /\ \A j \in Done' : j \in Done
         /\ \A j \in NotDone' : j \in NotDone
         /\ IF u.status = "committed" THEN u.job \in Done ELSE u.job \in NotDone
<1>1. Total = 0 /\ Total' = 0
  BY DEF Total
<1>2. \A n : n \notin 1..Total /\ n \notin 1..Total'
  BY <1>1
<1> HIDE DEF Total, Items, Known
<1>3. Once'
  BY <1>2 DEF Once, Clash, Current
<1>4. /\ u.job \in Jobs
      /\ \A j \in Jobs' : j \in Jobs
      /\ \A j \in Jobs : j \in Jobs' \/ j = u.job
  BY <1>2 DEF Jobs
<1>5. ASSUME NEW j \in Jobs'
      PROVE  ~Clash(j, u.job)
  <2>1. PICK v \in uncertain : v # u /\ v.job = j
    BY <1>2, <1>5 DEF Jobs
  <2>2. QED
    BY <2>1 DEF Once
<1>6. /\ \A j \in Done' : j \in Done
      /\ \A j \in NotDone' : j \in NotDone
      /\ IF u.status = "committed" THEN u.job \in Done ELSE u.job \in NotDone
  BY <1>2 DEF Done, NotDone
<1>7. QED
  BY <1>3, <1>4, <1>5, <1>6

-----------------------------------------------------------------------------
(* The invariant of the history. *)

\* A transition of the entry of e is under way.
Out(e) == \E j \in Jobs : j.kind # "edit" /\ Current(j) /\ j.edit = e

\* The history of this generation still knows e.
Remembered(e) == e \in forward \/ In(undo, e) \/ In(redo, e) \/ Out(e)

\* The database holds what the job is for.
Effective(job) == job.edit \in applied <=> job.kind # "undo"

\* Edits are numbered in their order: what an earlier generation left under way is older than
\* what the history knows.
Numbered ==
  /\ \A j \in Jobs : j.edit < nextEdit /\ j.generation <= generation
  /\ \A j \in Jobs, e \in History!Edits : ~Current(j) /\ Remembered(e) => j.edit < e
  /\ \A e \in History!Edits : Remembered(e) \/ e \in applied \/ e \in dropped => e < nextEdit
  /\ \A e \in dropped : e \notin forward

\* The stacks are in the order of the edits, and an edit that is not finished is in neither.
Stacked ==
  /\ Rising(undo) /\ Falling(redo)
  /\ \A x, y : In(undo, x) /\ In(redo, y) => x < y
  /\ Len(undo) + Len(redo) <= MaxSize
  /\ \A e \in forward : ~In(undo, e) /\ ~In(redo, e) /\ ~Out(e)

\* What a current job is about: an edit that is not finished, or an entry that cannot be
\* undone or redone meanwhile and is where it was unless another came on top of it.
Awaited ==
  \A j \in Jobs :
    Current(j) =>
      IF j.kind = "edit" THEN j.edit \in forward
      ELSE /\ pending /\ entryState[j.edit] \in {"pending", "uncertain"}
           /\ j.edit \notin strays =>
                IF j.kind = "undo"
                THEN (In(undo, j.edit) \/ j.edit \in dropped) /\ ~In(redo, j.edit)
                ELSE ~In(undo, j.edit)

\* A report is true as it arrives.
Truthfully ==
  /\ \A j \in Done : Current(j) /\ (j.kind = "edit" \/ j.edit \notin strays) => Effective(j)
  /\ \A j \in NotDone : Current(j) /\ (j.kind = "edit" \/ j.edit \notin strays) => ~Effective(j)

\* An entry about which nothing is under way is in the stack that fits the database.
Settled ==
  \A e \in History!Edits \ strays :
    ~Out(e) => (In(undo, e) => e \in applied) /\ (In(redo, e) => e \notin applied)

\* Younger edits than one the history knows are known to it, too, or were dropped, unless
\* their pages were replaced.
Younger ==
  \A e \in applied \ (strays \cup replaced), x \in History!Edits :
    x < e /\ Remembered(x) => Remembered(e) \/ e \in dropped

\* What was dropped is older than what is left.
Oldest ==
  \A e \in dropped \ strays, x \in History!Edits : In(undo, x) \/ In(redo, x) => e < x

UndoInv ==
  /\ History!TypeOK /\ Once
  /\ Numbered /\ Stacked /\ Awaited /\ Truthfully /\ Settled /\ Younger /\ Oldest

-----------------------------------------------------------------------------
(* What the user does keeps it. *)

\* The state but for what follows from the queue.
books == <<undo, redo, forward, nextEdit, generation, applied, dropped, strays>>

\* Edits are numbers, and the entries of the stacks are edits.
LEMMA EditFacts ==
  ASSUME History!TypeOK
  PROVE  /\ History!Edits \subseteq Nat /\ nextEdit \in Nat /\ MaxEdits \in Nat /\ MaxSize \in Nat \ {0}
         /\ \A e : In(undo, e) \/ In(redo, e) => e \in History!Edits
         /\ \A e \in forward \cup applied \cup dropped \cup strays : e \in History!Edits
         /\ \A j \in Jobs : /\ j.edit \in History!Edits /\ j.generation \in Nat
                            /\ j.kind \in {"edit", "undo", "redo"}
         /\ \A e : Out(e) => e \in History!Edits
<1>1. /\ History!Edits \subseteq Nat /\ nextEdit \in Nat /\ MaxEdits \in Nat
      /\ MaxSize \in Nat \ {0}
  BY BoundsAssumption DEF History!Edits, History!TypeOK
<1>2. \A e : In(undo, e) \/ In(redo, e) => e \in History!Edits
  BY ElementOfSeq DEF In, History!TypeOK
<1>3. \A e \in forward \cup applied \cup dropped \cup strays : e \in History!Edits
  BY DEF History!TypeOK
<1>4. \A j \in Jobs : /\ j.edit \in History!Edits /\ j.generation \in Nat
                      /\ j.kind \in {"edit", "undo", "redo"}
  BY ItemsType DEF History!Job
<1>5. \A e : Out(e) => e \in History!Edits
  BY <1>4 DEF Out
<1>6. QED
  BY <1>1, <1>2, <1>3, <1>4, <1>5

\* The user makes an edit.
LEMMA EditKeeps ==
  ASSUME UndoInv, History!Edit
  PROVE  UndoInv'
<1> USE DEF UndoInv
<1>1. PICK job : job = [kind |-> "edit", edit |-> nextEdit, generation |-> generation]
  OBVIOUS
<1>2. /\ nextEdit \in History!Edits /\ nextEdit' = nextEdit + 1 /\ forward' = forward \cup {nextEdit}
      /\ queue' = Append(queue, job)
      /\ UNCHANGED <<undo, redo, entryState, pending, generation, results, live, uncertain,
                     applied, dropped, strays, replaced, undoFaults>>
      /\ gestures' \in Nat
  BY <1>1 DEF History!Edit, History!Submit, History!TypeOK, History!Edits
<1>3. /\ job \in History!Job
      /\ job.kind = "edit" /\ job.edit = nextEdit /\ job.generation = generation
  BY <1>1, <1>2 DEF History!Job, History!TypeOK
<1>4. \A j \in Jobs : ~Clash(j, job)
  BY <1>3, EditFacts DEF Clash, Numbered
<1>5. /\ Once'
      /\ \A j : j \in Jobs' <=> j \in Jobs \/ j = job
      /\ \A j : j \in Done' <=> j \in Done
      /\ \A j : j \in NotDone' <=> j \in NotDone \/ j = job
  BY <1>2, <1>3, <1>4, ItemsSubmit
<1>6. History!TypeOK'
  <2>1. queue' \in Seq(History!Job)
    BY <1>2, <1>3, AppendProperties DEF History!TypeOK
  <2>2. nextEdit' \in 1..(MaxEdits + 1)
    BY <1>2, EditFacts DEF History!Edits
  <2>3. QED
    BY <1>2, <2>1, <2>2 DEF History!TypeOK
<1> USE EditFacts
<1> HIDE DEF Once, Jobs, Done, NotDone
<1>7. \A j : Current(j)' <=> Current(j)
  BY <1>2 DEF Current
<1>8. /\ \A e : In(undo, e)' <=> In(undo, e)
      /\ \A e : In(redo, e)' <=> In(redo, e)
      /\ \A e : Out(e)' <=> Out(e)
      /\ \A e : Remembered(e)' <=> Remembered(e) \/ e = nextEdit
  <2>1. \A e : (In(undo, e)' <=> In(undo, e)) /\ (In(redo, e)' <=> In(redo, e))
    BY <1>2 DEF In
  <2>2. \A e : Out(e)' <=> Out(e)
    BY <1>3, <1>5, <1>7 DEF Out
  <2>3. QED
    BY <2>1, <2>2, <1>2 DEF Remembered
<1>9. /\ ~Remembered(nextEdit) /\ nextEdit \notin applied /\ nextEdit \notin dropped
  BY <1>2 DEF Numbered
<1>10. Numbered'
  <2>1. \A j \in Jobs' : j.edit < nextEdit' /\ j.generation <= generation'
    <3>1. \A j \in Jobs : j.edit < nextEdit' /\ j.generation <= generation'
      BY <1>2 DEF Numbered
    <3>2. job.edit < nextEdit' /\ job.generation <= generation'
      BY <1>2, <1>3 DEF History!TypeOK
    <3>3. QED
      BY <3>1, <3>2, <1>5
  <2>2. ASSUME NEW j \in Jobs', NEW e \in History!Edits, ~Current(j)', Remembered(e)'
        PROVE  j.edit < e
    BY <2>2, <1>3, <1>5, <1>7, <1>8 DEF Numbered, Current
  <2>3. ASSUME NEW e \in History!Edits, Remembered(e)' \/ e \in applied' \/ e \in dropped'
        PROVE  e < nextEdit'
    BY <2>3, <1>2, <1>8 DEF Numbered
  <2>4. \A e \in dropped' : e \notin forward'
    BY <1>2, <1>9 DEF Numbered
  <2>5. QED
    BY <2>1, <2>2, <2>3, <2>4 DEF Numbered
<1>11. Stacked'
  <2>1. \A e \in forward' : ~In(undo, e)' /\ ~In(redo, e)' /\ ~Out(e)'
    BY <1>2, <1>8, <1>9 DEF Stacked, Remembered
  <2>2. QED
    BY <2>1, <1>2, <1>8 DEF Stacked, Rising, Falling
<1>12. Awaited'
  BY <1>2, <1>3, <1>5, <1>7, <1>8 DEF Awaited
<1>13. Truthfully'
  BY <1>2, <1>3, <1>5, <1>7, <1>9 DEF Truthfully, Effective
<1>14. Settled'
  BY <1>2, <1>8 DEF Settled
<1>15. Younger'
  BY <1>2, <1>8 DEF Younger, Numbered
<1>16. Oldest'
  BY <1>2, <1>8 DEF Oldest
<1>17. QED
  BY <1>5, <1>6, <1>10, <1>11, <1>12, <1>13, <1>14, <1>15, <1>16

\* The user undoes or redoes the entry on top of a stack.
LEMMA TransitionKeeps ==
  ASSUME UndoInv, NEW kind \in {"undo", "redo"}, NEW top \in History!Edits,
         IF kind = "undo" THEN In(undo, top) ELSE In(redo, top),
         ~pending, forward = {}, gestures' \in Nat,
         entryState' = [entryState EXCEPT ![top] = "pending"], pending' = TRUE,
         queue' = Append(queue, [kind |-> kind, edit |-> top, generation |-> generation]),
         UNCHANGED <<books, replaced, results, live, uncertain, undoFaults>>
  PROVE  UndoInv'
<1> USE DEF UndoInv
<1>1. PICK job : job = [kind |-> kind, edit |-> top, generation |-> generation]
  OBVIOUS
<1>2. /\ queue' = Append(queue, job)
      /\ UNCHANGED <<undo, redo, forward, nextEdit, generation, applied, dropped, strays,
                     replaced, results, live, uncertain, undoFaults>>
  BY <1>1 DEF books
<1>3. /\ job \in History!Job
      /\ job.kind = kind /\ job.edit = top /\ job.generation = generation
  BY <1>1 DEF History!Job, History!TypeOK
<1>4. \A j \in Jobs : j.kind # "edit" => ~Current(j)
  BY DEF Awaited
<1>5. /\ \A j \in Jobs : ~Clash(j, job)
      /\ \A e : ~Out(e)
  BY <1>3, <1>4 DEF Clash, Out
<1>6. /\ Once'
      /\ \A j : j \in Jobs' <=> j \in Jobs \/ j = job
      /\ \A j : j \in Done' <=> j \in Done
      /\ \A j : j \in NotDone' <=> j \in NotDone \/ j = job
  BY <1>2, <1>3, <1>5, ItemsSubmit
<1>7. History!TypeOK'
  <2>1. queue' \in Seq(History!Job)
    BY <1>2, <1>3, AppendProperties DEF History!TypeOK
  <2>2. QED
    BY <1>2, <2>1 DEF History!TypeOK
<1> USE EditFacts
<1> HIDE DEF Once, Jobs, Done, NotDone
<1>8. \A j : Current(j)' <=> Current(j)
  BY <1>2 DEF Current
<1>9. Done \subseteq Jobs /\ NotDone \subseteq Jobs
  BY ItemsType
<1>10. /\ \A e : In(undo, e)' <=> In(undo, e)
       /\ \A e : In(redo, e)' <=> In(redo, e)
       /\ \A e : Out(e)' <=> e = top
       /\ \A e : Remembered(e)' <=> Remembered(e)
  <2>1. \A e : (In(undo, e)' <=> In(undo, e)) /\ (In(redo, e)' <=> In(redo, e))
    BY <1>2 DEF In
  <2>2. \A e : Out(e)' <=> e = top
    <3>1. Out(top)'
      BY <1>3, <1>6, <1>2 DEF Out, Current
    <3>2. ASSUME NEW e, Out(e)'
          PROVE  e = top
      BY <3>2, <1>3, <1>4, <1>6, <1>8 DEF Out
    <3>3. QED
      BY <3>1, <3>2
  <2>3. QED
    BY <2>1, <2>2, <1>2, <1>5 DEF Remembered
<1>11. top < nextEdit
  BY <1>10 DEF Numbered, Remembered
<1>12. Numbered'
  <2>1. \A j \in Jobs' : j.edit < nextEdit' /\ j.generation <= generation'
    BY <1>2, <1>3, <1>6, <1>11 DEF Numbered, History!TypeOK
  <2>2. ASSUME NEW j \in Jobs', NEW e \in History!Edits, ~Current(j)', Remembered(e)'
        PROVE  j.edit < e
    BY <2>2, <1>3, <1>6, <1>8, <1>10 DEF Numbered, Current
  <2>3. QED
    BY <2>1, <2>2, <1>2, <1>10 DEF Numbered
<1>13. Stacked'
  BY <1>2, <1>10 DEF Stacked, Rising, Falling
<1>14. Awaited'
  <2>1. ASSUME NEW j \in Jobs, Current(j)'
        PROVE  j.kind = "edit" /\ j.edit \in forward'
    BY <2>1, <1>2, <1>4, <1>8 DEF Awaited
  <2>2. /\ pending' /\ entryState'[top] = "pending"
    BY DEF History!TypeOK
  <2>3. IF kind = "undo" THEN In(undo, top)' /\ ~In(redo, top)' ELSE ~In(undo, top)'
    <3>1. ~(In(undo, top) /\ In(redo, top))
      <4>1. ~(top < top)
        OBVIOUS
      <4>2. QED
        BY <4>1 DEF Stacked
    <3>2. QED
      BY <3>1, <1>10
  <2>4. QED
    BY <2>1, <2>2, <2>3, <1>3, <1>6 DEF Awaited
<1>15. Truthfully'
  <2>1. \A j : Effective(j)' <=> Effective(j)
    BY <1>2 DEF Effective
  <2>2. job.edit \notin strays => ~Effective(job)
    BY <1>3, <1>5 DEF Effective, Settled
  <2>3. QED
    BY <2>1, <2>2, <1>2, <1>3, <1>6, <1>8 DEF Truthfully
<1>16. Settled'
  BY <1>2, <1>5, <1>10 DEF Settled
<1>17. Younger'
  BY <1>2, <1>10 DEF Younger
<1>18. Oldest'
  BY <1>2, <1>10 DEF Oldest
<1>19. QED
  BY <1>6, <1>7, <1>12, <1>13, <1>14, <1>15, <1>16, <1>17, <1>18

\* The history is cleared.
LEMMA ClearKeeps ==
  ASSUME UndoInv, History!Clear
  PROVE  UndoInv'
<1> USE DEF UndoInv
<1>1. /\ generation' = generation + 1 /\ undo' = <<>> /\ redo' = <<>>
      /\ forward' = {} /\ pending' = FALSE /\ gestures' \in Nat
      /\ UNCHANGED <<entryState, nextEdit, queue, results, live, uncertain, applied, dropped,
                     strays, replaced, undoFaults>>
  BY DEF History!Clear, History!TypeOK
<1>2. /\ generation \in Nat /\ generation' \in Nat
      /\ Len(undo') = 0 /\ Len(redo') = 0
  BY <1>1 DEF History!TypeOK
<1>3. History!TypeOK'
  <2>1. /\ undo' \in Seq(History!Edits) /\ Len(undo') <= MaxSize
        /\ redo' \in Seq(History!Edits) /\ Len(redo') <= MaxSize
    BY <1>1, <1>2, EditFacts
  <2>2. QED
    BY <1>1, <1>2, <2>1 DEF History!TypeOK
<1>4. UNCHANGED <<Total, Items, Jobs, Done, NotDone>>
  BY <1>1 DEF Total, Items, Jobs, Done, NotDone, Known
<1> USE EditFacts
<1>5. \A j \in Jobs : ~Current(j)'
  BY <1>1, <1>2 DEF Numbered, Current
<1>6. Once'
  <2>1. \A n \in 1..Total : Items[n].job \in Jobs
    BY DEF Jobs
  <2>2. \A u \in uncertain : u.job \in Jobs
    BY DEF Jobs
  <2>3. \A n \in 1..Total : Known(n)' <=> Known(n)
    BY <1>4 DEF Known
  <2> HIDE DEF Jobs, Total, Items, Known
  <2>4. QED
    BY <2>1, <2>2, <2>3, <1>1, <1>4, <1>5 DEF Once, Clash
<1> HIDE DEF Once, Jobs, Done, NotDone
<1>7. \A e : ~In(undo, e)' /\ ~In(redo, e)' /\ ~Out(e)' /\ ~Remembered(e)'
  BY <1>1, <1>2, <1>4, <1>5 DEF In, Out, Remembered
<1>8. Done \subseteq Jobs /\ NotDone \subseteq Jobs
  BY ItemsType
<1>9. Numbered'
  <2>1. \A j \in Jobs : j.generation <= generation'
    BY <1>1, <1>2 DEF Numbered
  <2>2. QED
    BY <2>1, <1>1, <1>4, <1>7 DEF Numbered
<1>10. Stacked'
  BY <1>1, <1>2, <1>7 DEF Stacked, Rising, Falling
<1>11. Awaited' /\ Truthfully'
  BY <1>4, <1>5, <1>8 DEF Awaited, Truthfully
<1>12. Settled' /\ Younger' /\ Oldest'
  BY <1>7 DEF Settled, Younger, Oldest
<1>13. QED
  BY <1>3, <1>6, <1>9, <1>10, <1>11, <1>12

-----------------------------------------------------------------------------
(* What the worker does keeps it. *)

\* What a current job is about is known to the history, and no other job is about it, nor one of
\* an earlier generation about anything the history knows.
LEMMA JobFacts ==
  ASSUME UndoInv, NEW job \in Jobs
  PROVE  /\ Current(job) => Remembered(job.edit)
         /\ Current(job) /\ job.kind = "edit" => job.edit \in forward
         /\ Current(job) /\ job.kind # "edit" => Out(job.edit)
         /\ ~Current(job) => \A e : Remembered(e) => job.edit < e
         /\ \A j \in Jobs : Current(j) /\ ~Clash(j, job) => j.edit # job.edit
<1> USE DEF UndoInv
<1> USE EditFacts
<1>1. \A j \in Jobs : Current(j) /\ j.kind = "edit" => j.edit \in forward
  BY DEF Awaited
<1>2. \A j \in Jobs : Current(j) /\ j.kind # "edit" => Out(j.edit)
  BY DEF Out
<1>3. \A j \in Jobs : Current(j) => Remembered(j.edit)
  BY <1>1, <1>2 DEF Remembered
<1>4. \A e : Remembered(e) => e \in History!Edits
  BY DEF Remembered
<1>5. ~Current(job) => \A e : Remembered(e) => job.edit < e
  BY <1>4 DEF Numbered
<1>6. ASSUME NEW j \in Jobs, Current(j), ~Clash(j, job), j.edit = job.edit
      PROVE  FALSE
  <2>1. CASE ~Current(job)
    <3>1. job.edit < job.edit
      BY <2>1, <1>3, <1>5, <1>6
    <3>2. QED
      BY <3>1
  <2>2. CASE Current(job)
    <3>1. (j.kind = "edit") # (job.kind = "edit")
      BY <2>2, <1>6 DEF Clash
    <3>2. QED
      BY <2>2, <3>1, <1>1, <1>2, <1>6 DEF Stacked
  <2>3. QED
    BY <2>1, <2>2
<1>7. QED
  BY <1>1, <1>2, <1>3, <1>5, <1>6

\* What reports say no longer, or say again, changes nothing.
LEMMA BooksKeep ==
  ASSUME UndoInv, History!TypeOK', Once', UNCHANGED books, replaced \subseteq replaced',
         \A j \in Jobs' : j \in Jobs, \A j \in Jobs : Current(j) => j \in Jobs',
         \A j \in Done' : j \in Done, \A j \in NotDone' : j \in NotDone,
         \A e : Out(e) => pending' /\ entryState'[e] \in {"pending", "uncertain"}
  PROVE  UndoInv'
<1> USE DEF UndoInv
<1>1. UNCHANGED <<undo, redo, forward, nextEdit, generation, applied, dropped, strays>>
  BY DEF books
<1> HIDE DEF Once, Jobs, Done, NotDone
<1>2. \A j : (Current(j)' <=> Current(j)) /\ (Effective(j)' <=> Effective(j))
  BY <1>1 DEF Current, Effective
<1>3. /\ \A e : In(undo, e)' <=> In(undo, e)
      /\ \A e : In(redo, e)' <=> In(redo, e)
      /\ \A e : Out(e)' <=> Out(e)
      /\ \A e : Remembered(e)' <=> Remembered(e)
  BY <1>1, <1>2 DEF In, Out, Remembered
<1>4. Numbered'
  BY <1>1, <1>2, <1>3 DEF Numbered
<1>5. Stacked'
  BY <1>1, <1>3 DEF Stacked, Rising, Falling
<1>6. Awaited'
  BY <1>1, <1>2, <1>3, JobFacts DEF Awaited
<1>7. Truthfully'
  BY <1>1, <1>2 DEF Truthfully
<1>8. Settled' /\ Younger' /\ Oldest'
  BY <1>1, <1>3 DEF Settled, Younger, Oldest
<1>9. QED
  BY <1>4, <1>5, <1>6, <1>7, <1>8

\* The database does what a job is for, and the report says so.
LEMMA EffectKeeps ==
  ASSUME UndoInv, History!TypeOK', Once', NEW job \in NotDone,
         applied' = History!Effect(job),
         UNCHANGED <<undo, redo, forward, nextEdit, generation, dropped, strays, replaced,
                     pending, entryState>>,
         \A j : j \in Jobs' <=> j \in Jobs,
         \A j \in Done' : j = job \/ (j \in Done /\ ~Clash(j, job)),
         \A j \in NotDone' : j \in NotDone /\ ~Clash(j, job)
  PROVE  UndoInv'
<1> USE DEF UndoInv
<1>1. Done \subseteq Jobs /\ NotDone \subseteq Jobs /\ job \in Jobs
  BY ItemsType
<1> HIDE DEF Once, Jobs, Done, NotDone
<1>2. \A j : Current(j)' <=> Current(j)
  BY DEF Current
<1>3. /\ \A e : In(undo, e)' <=> In(undo, e)
      /\ \A e : In(redo, e)' <=> In(redo, e)
      /\ \A e : Out(e)' <=> Out(e)
      /\ \A e : Remembered(e)' <=> Remembered(e)
  BY <1>2 DEF In, Out, Remembered
<1>4. /\ \A e : e # job.edit => (e \in applied' <=> e \in applied)
      /\ job.edit \in applied' <=> job.kind # "undo"
  BY DEF History!Effect
<1>5. /\ Current(job) => Remembered(job.edit)
      /\ Current(job) /\ job.kind = "edit" => job.edit \in forward
      /\ Current(job) /\ job.kind # "edit" => Out(job.edit)
      /\ ~Current(job) => \A e : Remembered(e) => job.edit < e
      /\ \A j \in Jobs : Current(j) /\ ~Clash(j, job) => j.edit # job.edit
  BY <1>1, JobFacts
<1> USE EditFacts
<1>6. Numbered'
  <2>1. \A e \in applied' : e < nextEdit
    BY <1>1, <1>4 DEF Numbered
  <2>2. QED
    BY <2>1, <1>2, <1>3 DEF Numbered
<1>7. Stacked'
  BY <1>3 DEF Stacked, Rising, Falling
<1>8. Awaited'
  BY <1>2, <1>3 DEF Awaited
<1>9. Truthfully'
  <2>1. ASSUME NEW j \in Jobs, Current(j), ~Clash(j, job)
        PROVE  Effective(j)' <=> Effective(j)
    BY <2>1, <1>4, <1>5 DEF Effective
  <2>2. Effective(job)'
    BY <1>4 DEF Effective
  <2>3. QED
    BY <2>1, <2>2, <1>1, <1>2 DEF Truthfully
<1>10. Settled'
  <2>1. SUFFICES ASSUME NEW e \in History!Edits \ strays, ~Out(e)
                 PROVE  (In(undo, e) => e \in applied') /\ (In(redo, e) => e \notin applied')
    BY <1>3 DEF Settled
  <2>2. CASE e # job.edit
    BY <2>1, <2>2, <1>4 DEF Settled
  <2>3. CASE e = job.edit
    <3>1. ~In(undo, e) /\ ~In(redo, e)
      <4>1. CASE Current(job)
        BY <2>1, <2>3, <4>1, <1>5 DEF Stacked
      <4>2. CASE ~Current(job)
        <5>1. ~(e < e)
          OBVIOUS
        <5>2. QED
          BY <2>3, <4>2, <5>1, <1>5 DEF Remembered
      <4>3. QED
        BY <4>1, <4>2
    <3>2. QED
      BY <3>1
  <2>4. QED
    BY <2>2, <2>3
<1>11. Younger'
  <2>1. SUFFICES ASSUME NEW e \in applied' \ (strays \cup replaced), NEW x \in History!Edits,
                        x < e, Remembered(x)
                 PROVE  Remembered(e) \/ e \in dropped
    BY <1>3 DEF Younger
  <2>2. CASE e \in applied
    BY <2>1, <2>2 DEF Younger
  <2>3. CASE e \notin applied
    <3>1. e = job.edit
      BY <2>1, <2>3, <1>4
    <3>2. CASE ~Current(job)
      <4>1. e < x
        BY <2>1, <3>1, <3>2, <1>5
      <4>2. e \in Nat /\ x \in Nat
        BY <3>1, <1>1
      <4>3. QED
        BY <2>1, <4>1, <4>2
    <3>3. QED
      BY <3>1, <3>2, <1>5
  <2>4. QED
    BY <2>2, <2>3
<1>12. Oldest'
  BY <1>3 DEF Oldest
<1>13. QED
  BY <1>6, <1>7, <1>8, <1>9, <1>10, <1>11, <1>12

\* The worker executes a mutation.
LEMMA ExecuteKeeps ==
  ASSUME UndoInv, NEW status \in History!Statuses \ {"unknown"}, History!Execute(status)
  PROVE  UndoInv'
<1>1. History!TypeOK /\ Once
  BY DEF UndoInv
<1>2. PICK job : job = Head(queue)
  OBVIOUS
<1>3. /\ queue # <<>> /\ queue' = Tail(queue)
      /\ applied' = IF status = "committed" THEN History!Effect(job) ELSE applied
      /\ results' = Append(results, [job |-> job, status |-> status])
      /\ UNCHANGED <<undo, redo, entryState, pending, forward, nextEdit, generation, live,
                     uncertain, dropped, strays, replaced, gestures,
                     undoFaults>>
  BY <1>2 DEF History!Execute
<1>4. /\ Once' /\ job \in NotDone
      /\ \A j : j \in Jobs' <=> j \in Jobs
      /\ \A j \in Done' : (j = job /\ status = "committed") \/ (j \in Done /\ ~Clash(j, job))
      /\ \A j \in NotDone' : (j = job /\ status # "committed") \/ (j \in NotDone /\ ~Clash(j, job))
  BY <1>1, <1>2, <1>3, ItemsExecute
<1>5. job \in History!Job
  BY <1>1, <1>4, ItemsType
<1>6. History!TypeOK'
  <2>1. applied' \subseteq History!Edits
    BY <1>1, <1>3, <1>5 DEF History!Effect, History!Job, History!TypeOK
  <2>2. queue' \in Seq(History!Job)
    BY <1>1, <1>3, HeadTailProperties DEF History!TypeOK
  <2>3. PICK r : r = [job |-> job, status |-> status]
    OBVIOUS
  <2>4. r \in [job : History!Job, status : History!Statuses]
    BY <1>5, <2>3
  <2>5. results' \in Seq([job : History!Job, status : History!Statuses])
    BY <1>1, <1>3, <2>3, <2>4, AppendProperties DEF History!TypeOK
  <2>6. QED
    BY <1>1, <1>3, <2>1, <2>2, <2>5 DEF History!TypeOK
<1> HIDE DEF Once, Jobs, Done, NotDone
<1>7. CASE status = "committed"
  BY <1>3, <1>4, <1>6, <1>7, EffectKeeps
<1>8. CASE status # "committed"
  <2>1. UNCHANGED books /\ replaced \subseteq replaced'
    BY <1>3, <1>8 DEF books
  <2>2. \A e : Out(e) => pending' /\ entryState'[e] \in {"pending", "uncertain"}
    BY <1>3 DEF UndoInv, Out, Awaited
  <2>3. (\A j \in Done' : j \in Done) /\ (\A j \in NotDone' : j \in NotDone)
    BY <1>4, <1>8
  <2>4. QED
    BY <2>1, <2>2, <2>3, <1>4, <1>6, BooksKeep
<1>9. QED
  BY <1>7, <1>8

\* The connection is lost around a commit.
LEMMA LoseKeeps ==
  ASSUME UndoInv, NEW status \in {"committed", "rejected"}, History!LoseConnection(status)
  PROVE  UndoInv'
<1>1. History!TypeOK /\ Once
  BY DEF UndoInv
<1>2. PICK job : job = Head(queue)
  OBVIOUS
<1>3. /\ queue # <<>> /\ queue' = <<>>
      /\ applied' = IF status = "committed" THEN History!Effect(job) ELSE applied
      /\ results' = results
             \o <<[job |-> job, status |-> "unknown"]>>
             \o [n \in 1..(Len(queue) - 1) |-> [job |-> queue[n + 1], status |-> "rejected"]]
      /\ uncertain' = uncertain \cup {[job |-> job, status |-> status]}
      /\ live' = FALSE /\ undoFaults > 0 /\ undoFaults' = undoFaults - 1
      /\ UNCHANGED <<undo, redo, entryState, pending, forward, nextEdit, generation, dropped,
                     strays, replaced, gestures>>
  BY <1>2 DEF History!LoseConnection
<1>4. /\ Once' /\ job \in NotDone
      /\ results' \in Seq([job : History!Job, status : History!Statuses])
      /\ \A j : j \in Jobs' <=> j \in Jobs
      /\ \A j \in Done' : (j = job /\ status = "committed") \/ (j \in Done /\ ~Clash(j, job))
      /\ \A j \in NotDone' : (j = job /\ status # "committed") \/ (j \in NotDone /\ ~Clash(j, job))
  BY <1>1, <1>2, <1>3, ItemsLose
<1>5. job \in History!Job
  BY <1>1, <1>4, ItemsType
<1>6. History!TypeOK'
  <2>1. applied' \subseteq History!Edits
    BY <1>1, <1>3, <1>5 DEF History!Effect, History!Job, History!TypeOK
  <2>2. uncertain' \subseteq [job : History!Job, status : {"committed", "rejected"}]
    BY <1>1, <1>3, <1>5 DEF History!TypeOK
  <2>3. undoFaults' \in Nat /\ queue' \in Seq(History!Job)
    BY <1>1, <1>3 DEF History!TypeOK
  <2>4. QED
    BY <1>1, <1>3, <1>4, <2>1, <2>2, <2>3 DEF History!TypeOK
<1> HIDE DEF Once, Jobs, Done, NotDone
<1>7. CASE status = "committed"
  BY <1>3, <1>4, <1>6, <1>7, EffectKeeps
<1>8. CASE status # "committed"
  <2>1. UNCHANGED books /\ replaced \subseteq replaced'
    BY <1>3, <1>8 DEF books
  <2>2. \A e : Out(e) => pending' /\ entryState'[e] \in {"pending", "uncertain"}
    BY <1>3 DEF UndoInv, Out, Awaited
  <2>3. (\A j \in Done' : j \in Done) /\ (\A j \in NotDone' : j \in NotDone)
    BY <1>4, <1>8
  <2>4. QED
    BY <2>1, <2>2, <2>3, <1>4, <1>6, BooksKeep
<1>9. QED
  BY <1>7, <1>8

\* What is queued is rejected.
LEMMA RejectKeeps ==
  ASSUME UndoInv, History!RejectQueue
  PROVE  UndoInv'
<1>1. History!TypeOK /\ Once
  BY DEF UndoInv
<1>2. /\ queue' = <<>>
      /\ results' = results \o [n \in 1..Len(queue) |-> [job |-> queue[n], status |-> "rejected"]]
      /\ UNCHANGED <<undo, redo, entryState, pending, forward, nextEdit, generation, live,
                     uncertain, applied, dropped, strays, replaced, gestures,
                     undoFaults>>
  BY DEF History!RejectQueue
<1>3. /\ Once'
      /\ results' \in Seq([job : History!Job, status : History!Statuses])
      /\ \A j : j \in Jobs' <=> j \in Jobs
      /\ \A j \in Done' : j \in Done
      /\ \A j \in NotDone' : j \in NotDone
  BY <1>1, <1>2, ItemsReject
<1>4. History!TypeOK'
  BY <1>1, <1>2, <1>3 DEF History!TypeOK
<1> HIDE DEF Once, Jobs, Done, NotDone
<1>5. UNCHANGED books /\ replaced \subseteq replaced'
  BY <1>2 DEF books
<1>6. \A e : Out(e) => pending' /\ entryState'[e] \in {"pending", "uncertain"}
  BY <1>2 DEF UndoInv, Out, Awaited
<1>7. QED
  BY <1>3, <1>4, <1>5, <1>6, BooksKeep

-----------------------------------------------------------------------------
(* What the main thread does with a report keeps it. *)

\* The part of the types that a report leaves to its caller.
QueuesOK ==
  /\ queue \in Seq(History!Job)
  /\ results \in Seq([job : History!Job, status : History!Statuses])
  /\ live \in BOOLEAN
  /\ uncertain \subseteq [job : History!Job, status : {"committed", "rejected"}]
  /\ gestures \in Nat
  /\ undoFaults \in Nat

\* A job is reported, and is not under way any more.
Reported(job, done) ==
  /\ job \in Jobs
  /\ IF done THEN job \in Done ELSE job \in NotDone
  /\ \A j \in Jobs' : j \in Jobs /\ ~Clash(j, job)
  /\ \A j \in Jobs : j \in Jobs' \/ j = job
  /\ \A j \in Done' : j \in Done
  /\ \A j \in NotDone' : j \in NotDone
  /\ UNCHANGED <<nextEdit, generation, applied, replaced>>

\* The edits that stay under way when an edit was reported, and when a transition was.
LEMMA ReportedFacts ==
  ASSUME UndoInv, NEW job, NEW done \in BOOLEAN, Reported(job, done), Current(job)
  PROVE  /\ job.edit \in History!Edits
         /\ \A j : (Current(j)' <=> Current(j)) /\ (Effective(j)' <=> Effective(j))
         /\ IF job.kind = "edit"
            THEN /\ job.edit \in forward
                 /\ Effective(job) <=> done
                 /\ \A e : Out(e)' <=> Out(e)
                 /\ \A j \in Jobs' : Current(j) /\ j.kind = "edit" => j.edit # job.edit
            ELSE /\ Out(job.edit)
                 /\ job.edit \notin strays => (Effective(job) <=> done)
                 /\ \A e : ~Out(e)'
                 /\ \A e : Out(e) => e = job.edit
                 /\ \A j \in Jobs' : Current(j) => j.kind = "edit"
<1> USE DEF UndoInv
<1>1. job \in Jobs /\ job.edit \in History!Edits
  BY EditFacts DEF Reported
<1>2. \A j : (Current(j)' <=> Current(j)) /\ (Effective(j)' <=> Effective(j))
  BY DEF Reported, Current, Effective
<1>3. job.kind = "edit" \/ job.edit \notin strays => (Effective(job) <=> done)
  BY DEF Reported, Truthfully
<1>4. CASE job.kind = "edit"
  <2>1. job.edit \in forward
    BY <1>1, <1>4, JobFacts
  <2>2. \A e : Out(e)' <=> Out(e)
    BY <1>2, <1>4 DEF Out, Reported
  <2>3. \A j \in Jobs' : Current(j) /\ j.kind = "edit" => j.edit # job.edit
    BY <1>4 DEF Reported, Clash
  <2>4. QED
    BY <1>1, <1>2, <1>3, <1>4, <2>1, <2>2, <2>3
<1>5. CASE job.kind # "edit"
  <2>1. Out(job.edit)
    BY <1>1, <1>5, JobFacts
  <2>2. \A j \in Jobs' : Current(j) => j.kind = "edit"
    BY <1>5 DEF Reported, Clash
  <2>3. \A e : ~Out(e)'
    BY <1>2, <2>2 DEF Out
  <2>4. \A e : Out(e) => e = job.edit
    BY <2>2 DEF Out, Reported
  <2>5. QED
    BY <1>1, <1>2, <1>3, <1>5, <2>1, <2>2, <2>3, <2>4
<1>6. QED
  BY <1>4, <1>5

\* The commit of an edit is reported: its entry is pushed.
LEMMA PushKeeps ==
  ASSUME UndoInv, NEW job, Reported(job, TRUE), Current(job), job.kind = "edit",
         QueuesOK', Once',
         forward' = forward \ {job.edit},
         undo' = History!Pushed(job.edit),
         dropped' = IF History!Full THEN dropped \cup {Head(undo)} ELSE dropped,
         strays' = strays \cup {e \in dropped' : e > job.edit},
         redo' = <<>>,
         entryState' = [entryState EXCEPT ![job.edit] = "ready"],
         pending' = pending
  PROVE  UndoInv'
<1> USE DEF UndoInv
<1> USE EditFacts
<1>1. PICK e \in forward : e = job.edit
  BY ReportedFacts
<1>2. /\ e \in History!Edits /\ ~In(undo, e) /\ ~In(redo, e) /\ ~Out(e)
      /\ e \notin dropped
  BY DEF Stacked, Numbered
<1>3. /\ \A j : (Current(j)' <=> Current(j)) /\ (Effective(j)' <=> Effective(j))
      /\ Effective(job)
      /\ \A x : Out(x)' <=> Out(x)
      /\ \A j \in Jobs' : Current(j) /\ j.kind = "edit" => j.edit # e
  BY <1>1, ReportedFacts
<1>4. e \in applied
  BY <1>1, <1>3 DEF Effective
<1>5. /\ UNCHANGED <<nextEdit, generation, applied, replaced>>
      /\ \A j \in Jobs' : j \in Jobs
      /\ \A j \in Done' : j \in Done
      /\ \A j \in NotDone' : j \in NotDone
  BY DEF Reported
<1> HIDE DEF Once, Jobs, Done, NotDone
<1>6. PICK s : s = IF History!Full THEN Tail(undo) ELSE undo
  OBVIOUS
<1>7. /\ s \in Seq(History!Edits) /\ Rising(s) /\ Len(s) + 1 <= MaxSize
      /\ \A x : In(s, x) <=> In(undo, x) /\ (History!Full => x # Head(undo))
      /\ History!Full => In(undo, Head(undo)) /\ \A x : In(s, x) => Head(undo) < x
  <2>1. undo \in Seq(History!Edits) /\ Rising(undo) /\ Len(undo) \in Nat /\ Len(undo) <= MaxSize
    BY LenProperties DEF Stacked, History!TypeOK
  <2>2. CASE History!Full
    <3>1. undo # <<>>
      BY <2>2, EmptySeq DEF History!Full
    <3>2. /\ s = Tail(undo) /\ Head(undo) \in History!Edits /\ In(undo, Head(undo))
          /\ s \in Seq(History!Edits) /\ Len(s) = Len(undo) - 1 /\ Rising(s)
          /\ \A x : In(s, x) <=> In(undo, x) /\ x # Head(undo)
          /\ \A x : In(undo, x) => Head(undo) <= x
      BY <2>1, <2>2, <3>1, <1>6, TailFacts
    <3>3. \A x : In(s, x) => Head(undo) < x
      <4>1. SUFFICES ASSUME NEW x, In(undo, x), x # Head(undo)
                     PROVE  Head(undo) < x
        BY <3>2
      <4>2. Head(undo) <= x /\ x \in Nat /\ Head(undo) \in Nat
        BY <3>2, <4>1
      <4>3. QED
        BY <4>1, <4>2
    <3>4. QED
      BY <2>1, <2>2, <3>2, <3>3 DEF History!Full
  <2>3. CASE ~History!Full
    BY <2>1, <2>3, <1>6 DEF History!Full
  <2>4. QED
    BY <2>2, <2>3
<1>8. /\ undo' \in Seq(History!Edits) /\ Len(undo') <= MaxSize /\ Len(undo') \in Nat
      /\ Rising(undo')
      /\ \A x : In(undo', x) <=> In(s, x) \/ x = e
  <2>1. undo' = History!Bound(s, e)
    BY <1>1, <1>6 DEF History!Pushed
  <2>2. ~In(s, e)
    BY <1>2, <1>7
  <2>3. /\ History!Bound(s, e) \in Seq(History!Edits)
        /\ Len(History!Bound(s, e)) = Len(s) + 1
        /\ Rising(History!Bound(s, e))
        /\ \A x : In(History!Bound(s, e), x) <=> In(s, x) \/ x = e
    BY <2>2, <1>2, <1>7, BoundFacts
  <2>4. Len(s) \in Nat
    BY <1>7, LenProperties
  <2>5. QED
    BY <2>1, <2>3, <2>4, <1>7
<1>9. /\ \A x : In(undo, x)' <=> In(s, x) \/ x = e
      /\ \A x : ~In(redo, x)'
  BY <1>8 DEF In
<1>10. /\ \A x : Remembered(x)' => Remembered(x)
       /\ \A x : x \in forward' <=> x \in forward /\ x # e
       /\ \A x : x \in dropped' <=> x \in dropped \/ (History!Full /\ x = Head(undo))
       /\ \A x : x \in strays' <=> x \in strays \/ (x \in dropped' /\ x > e)
  BY <1>1, <1>3, <1>7, <1>9 DEF Remembered
<1>11. History!TypeOK'
  <2>1. dropped' \subseteq History!Edits
    BY <1>7 DEF History!TypeOK
  <2>2. strays' \subseteq History!Edits /\ forward' \subseteq History!Edits
    BY <2>1 DEF History!TypeOK
  <2>3. redo' \in Seq(History!Edits) /\ Len(redo') <= MaxSize
    OBVIOUS
  <2>4. entryState' \in [History!Edits -> {"ready", "pending", "conflicted", "uncertain"}]
    BY DEF History!TypeOK
  <2>5. QED
    BY <1>5, <1>8, <2>1, <2>2, <2>3, <2>4 DEF History!TypeOK, QueuesOK
<1>12. Numbered'
  <2>1. \A x \in History!Edits : Remembered(x)' \/ x \in applied' \/ x \in dropped' => x < nextEdit'
    BY <1>5, <1>7, <1>10 DEF Numbered, Remembered
  <2>2. \A x \in dropped' : x \notin forward'
    BY <1>7, <1>10 DEF Numbered, Stacked
  <2>3. QED
    BY <2>1, <2>2, <1>3, <1>5, <1>10 DEF Numbered
<1>13. Stacked'
  <2>1. \A x \in forward' : ~In(undo, x)' /\ ~In(redo, x)' /\ ~Out(x)'
    BY <1>3, <1>7, <1>9, <1>10 DEF Stacked
  <2>2. Falling(redo') /\ Len(undo') + Len(redo') <= MaxSize
    BY <1>8 DEF Falling
  <2>3. QED
    BY <2>1, <2>2, <1>8, <1>9 DEF Stacked, Rising, Falling
<1>14. Awaited'
  <2>1. SUFFICES ASSUME NEW j \in Jobs', Current(j)
                 PROVE  IF j.kind = "edit" THEN j.edit \in forward'
                        ELSE /\ pending' /\ entryState'[j.edit] \in {"pending", "uncertain"}
                             /\ j.edit \notin strays' =>
                                  IF j.kind = "undo"
                                  THEN (In(undo, j.edit)' \/ j.edit \in dropped') /\ ~In(redo, j.edit)'
                                  ELSE ~In(undo, j.edit)'
    BY <1>3 DEF Awaited
  <2>2. j \in Jobs
    BY <2>1, <1>5
  <2>3. CASE j.kind = "edit"
    BY <2>1, <2>2, <2>3, <1>3, <1>10 DEF Awaited
  <2>4. CASE j.kind # "edit"
    <3>1. Out(j.edit) /\ j.edit # e
      BY <2>1, <2>2, <2>4, <1>2 DEF Out
    <3>2. pending' /\ entryState'[j.edit] \in {"pending", "uncertain"}
      BY <2>1, <2>2, <2>4, <3>1, <1>1 DEF Awaited, History!TypeOK
    <3>3. ASSUME j.edit \notin strays'
          PROVE  IF j.kind = "undo"
                 THEN (In(undo, j.edit)' \/ j.edit \in dropped') /\ ~In(redo, j.edit)'
                 ELSE ~In(undo, j.edit)'
      BY <2>1, <2>2, <2>4, <3>1, <3>3, <1>7, <1>9, <1>10 DEF Awaited
    <3>4. QED
      BY <2>4, <3>2, <3>3
  <2>5. QED
    BY <2>3, <2>4
<1>15. Truthfully'
  BY <1>3, <1>5, <1>10 DEF Truthfully
<1>16. Settled'
  BY <1>3, <1>4, <1>5, <1>7, <1>9, <1>10 DEF Settled
<1>17. Younger'
  <2>1. SUFFICES ASSUME NEW y \in applied \ (strays' \cup replaced), NEW x \in History!Edits,
                        x < y, Remembered(x)'
                 PROVE  Remembered(y)' \/ y \in dropped'
    BY <1>5 DEF Younger
  <2>2. Remembered(y) \/ y \in dropped
    BY <2>1, <1>10 DEF Younger
  <2>3. CASE y \in dropped
    BY <2>3, <1>10
  <2>4. CASE y \in forward
    BY <2>4, <1>9, <1>10 DEF Remembered
  <2>5. CASE In(undo, y)
    BY <2>5, <1>7, <1>9, <1>10 DEF Remembered
  <2>6. CASE Out(y)
    BY <2>6, <1>3 DEF Remembered
  <2>7. CASE In(redo, y) /\ ~Out(y)
    BY <2>1, <2>7, <1>10 DEF Settled
  <2>8. QED
    BY <2>2, <2>3, <2>4, <2>5, <2>6, <2>7 DEF Remembered
<1>18. Oldest'
  <2>1. SUFFICES ASSUME NEW d \in dropped' \ strays', NEW x \in History!Edits, In(s, x) \/ x = e
                 PROVE  d < x
    BY <1>9 DEF Oldest
  <2>2. d \in Nat /\ e \in Nat /\ ~(d > e) /\ d # e
    BY <2>1, <1>2, <1>7, <1>10
  <2>3. CASE x = e
    BY <2>2, <2>3
  <2>4. CASE In(s, x)
    BY <2>1, <2>4, <1>7, <1>10 DEF Oldest
  <2>5. QED
    BY <2>1, <2>3, <2>4
<1>19. Once'
  OBVIOUS
<1>20. QED
  BY <1>11, <1>12, <1>13, <1>14, <1>15, <1>16, <1>17, <1>18, <1>19

\* An edit did not succeed, or its pages were replaced: it is finished without an entry.
LEMMA DropKeeps ==
  ASSUME UndoInv, NEW job, NEW done \in BOOLEAN, Reported(job, done), Current(job),
         job.kind = "edit", done => job.edit \in replaced,
         QueuesOK', Once',
         forward' = forward \ {job.edit},
         UNCHANGED <<undo, redo, entryState, pending, dropped, strays>>
  PROVE  UndoInv'
<1> USE DEF UndoInv
<1> USE EditFacts
<1>1. PICK e \in forward : e = job.edit
  BY ReportedFacts
<1>2. /\ e \in History!Edits /\ ~In(undo, e) /\ ~In(redo, e) /\ ~Out(e)
  BY DEF Stacked
<1>3. /\ \A j : (Current(j)' <=> Current(j)) /\ (Effective(j)' <=> Effective(j))
      /\ Effective(job) <=> done
      /\ \A x : Out(x)' <=> Out(x)
      /\ \A j \in Jobs' : Current(j) /\ j.kind = "edit" => j.edit # e
  BY <1>1, ReportedFacts
<1>4. e \in applied => e \in replaced
  BY <1>1, <1>3 DEF Effective
<1>5. /\ UNCHANGED <<nextEdit, generation, applied, replaced>>
      /\ \A j \in Jobs' : j \in Jobs
      /\ \A j \in Done' : j \in Done
      /\ \A j \in NotDone' : j \in NotDone
  BY DEF Reported
<1> HIDE DEF Once, Jobs, Done, NotDone
<1>6. /\ \A x : (In(undo, x)' <=> In(undo, x)) /\ (In(redo, x)' <=> In(redo, x))
      /\ \A x : x \in forward' <=> x \in forward /\ x # e
      /\ \A x : Remembered(x)' <=> Remembered(x) /\ x # e
  <2>1. \A x : (In(undo, x)' <=> In(undo, x)) /\ (In(redo, x)' <=> In(redo, x))
    BY DEF In
  <2>2. \A x : x \in forward' <=> x \in forward /\ x # e
    BY <1>1
  <2>3. QED
    BY <2>1, <2>2, <1>2, <1>3 DEF Remembered
<1>7. History!TypeOK'
  BY <1>5 DEF History!TypeOK, QueuesOK
<1>8. Numbered'
  BY <1>3, <1>5, <1>6 DEF Numbered
<1>9. Stacked'
  BY <1>3, <1>6 DEF Stacked, Rising, Falling
<1>10. Awaited'
  BY <1>3, <1>5, <1>6 DEF Awaited
<1>11. Truthfully'
  BY <1>3, <1>5 DEF Truthfully
<1>12. Settled'
  BY <1>3, <1>5, <1>6 DEF Settled
<1>13. Younger'
  BY <1>4, <1>5, <1>6 DEF Younger
<1>14. Oldest'
  BY <1>6 DEF Oldest
<1>15. Once'
  OBVIOUS
<1>16. QED
  BY <1>7, <1>8, <1>9, <1>10, <1>11, <1>12, <1>13, <1>14, <1>15

\* A transition is over: its entry is where the database says it belongs, or is a stray, and
\* the others are where they were.
LEMMA TransitionEndKeeps ==
  ASSUME NEW job, NEW done \in BOOLEAN, NEW st \in {"ready", "conflicted"},
         UndoInv, Reported(job, done), Current(job),
         job.kind # "edit", QueuesOK', Once',
         pending' = FALSE, entryState' = [entryState EXCEPT ![job.edit] = st],
         UNCHANGED <<forward, dropped>>,
         undo' \in Seq(History!Edits), redo' \in Seq(History!Edits),
         Rising(undo'), Falling(redo'), Len(undo') + Len(redo') <= MaxSize,
         \A a, b : In(undo', a) /\ In(redo', b) => a < b,
         \A a : In(undo', a) \/ In(redo', a) <=> In(undo, a) \/ In(redo, a),
         \A a : a # job.edit => (In(undo', a) <=> In(undo, a)) /\ (In(redo', a) <=> In(redo, a)),
         strays' = strays \/ strays' = strays \cup {job.edit},
         job.edit \notin strays' =>
           /\ In(undo', job.edit) => job.edit \in applied
           /\ In(redo', job.edit) => job.edit \notin applied
           /\ job.edit \in applied => In(undo', job.edit) \/ job.edit \in dropped
  PROVE  UndoInv'
<1> USE DEF UndoInv
<1> USE EditFacts
<1>1. PICK e \in History!Edits : e = job.edit
  BY ReportedFacts
<1>2. /\ \A j : (Current(j)' <=> Current(j)) /\ (Effective(j)' <=> Effective(j))
      /\ Out(e)
      /\ \A x : ~Out(x)'
      /\ \A x : Out(x) => x = e
      /\ \A j \in Jobs' : Current(j) => j.kind = "edit"
  BY <1>1, ReportedFacts
<1>3. /\ UNCHANGED <<nextEdit, generation, applied, replaced>>
      /\ \A j \in Jobs' : j \in Jobs
      /\ \A j \in Done' : j \in Done
      /\ \A j \in NotDone' : j \in NotDone
  BY DEF Reported
<1>4. Done' \subseteq Jobs' /\ NotDone' \subseteq Jobs'
  BY DEF Done, NotDone, Jobs
<1> HIDE DEF Once, Jobs, Done, NotDone
<1>5. /\ \A x : In(undo, x)' <=> In(undo', x)
      /\ \A x : In(redo, x)' <=> In(redo', x)
      /\ \A x : Remembered(x)' => Remembered(x)
      /\ \A x : Remembered(x) => Remembered(x)' \/ x = e
      /\ \A x \in forward : x # e
  <2>1. \A x : (In(undo, x)' <=> In(undo', x)) /\ (In(redo, x)' <=> In(redo', x))
    BY DEF In
  <2>2. \A x \in forward : x # e
    BY <1>2 DEF Stacked
  <2>3. QED
    BY <2>1, <2>2, <1>2 DEF Remembered
<1>6. strays \subseteq strays' /\ strays' \subseteq strays \cup {e}
  BY <1>1
<1>7. Len(undo') \in Nat /\ Len(redo') \in Nat
  BY LenProperties
<1>8. History!TypeOK'
  <2>1. Len(undo') <= MaxSize /\ Len(redo') <= MaxSize
    BY <1>7
  <2>2. entryState' \in [History!Edits -> {"ready", "pending", "conflicted", "uncertain"}]
    BY DEF History!TypeOK
  <2>3. strays' \subseteq History!Edits /\ dropped' \subseteq History!Edits
    BY <1>6 DEF History!TypeOK
  <2>4. QED
    BY <2>1, <2>2, <2>3, <1>3 DEF History!TypeOK, QueuesOK
<1>9. Numbered'
  BY <1>2, <1>3, <1>5 DEF Numbered
<1>10. Stacked'
  <2>1. \A x \in forward' : ~In(undo, x)' /\ ~In(redo, x)' /\ ~Out(x)'
    BY <1>2, <1>5 DEF Stacked
  <2>2. QED
    BY <2>1, <1>5 DEF Stacked, Rising, Falling
<1>11. Awaited'
  BY <1>2, <1>3 DEF Awaited
<1>12. Truthfully'
  BY <1>2, <1>3, <1>4, <1>6 DEF Truthfully
<1>13. Settled'
  <2>1. SUFFICES ASSUME NEW x \in History!Edits, x \notin strays'
                 PROVE  (In(undo', x) => x \in applied) /\ (In(redo', x) => x \notin applied)
    BY <1>3, <1>5 DEF Settled
  <2>2. CASE x = e
    BY <2>1, <2>2, <1>1
  <2>3. CASE x # e
    BY <2>1, <2>3, <1>1, <1>2, <1>6 DEF Settled
  <2>4. QED
    BY <2>2, <2>3
<1>14. Younger'
  <2>1. SUFFICES ASSUME NEW y \in applied, y \notin strays' \cup replaced,
                        NEW x \in History!Edits, x < y, Remembered(x)'
                 PROVE  Remembered(y)' \/ y \in dropped
    BY <1>3 DEF Younger
  <2>2. CASE y = e
    BY <2>1, <2>2, <1>1, <1>5 DEF Remembered
  <2>3. CASE y # e
    BY <2>1, <2>3, <1>5, <1>6 DEF Younger
  <2>4. QED
    BY <2>2, <2>3
<1>15. Oldest'
  BY <1>5, <1>6 DEF Oldest
<1>16. Once'
  OBVIOUS
<1>17. QED
  BY <1>8, <1>9, <1>10, <1>11, <1>12, <1>13, <1>14, <1>15, <1>16

\* A transition did not succeed: its entry stays where it is.
LEMMA FailedTransitionKeeps ==
  ASSUME UndoInv, NEW job, Reported(job, FALSE), Current(job), job.kind # "edit",
         QueuesOK', Once', pending' = FALSE,
         NEW st \in {"ready", "conflicted"}, entryState' = [entryState EXCEPT ![job.edit] = st],
         UNCHANGED <<undo, redo, forward, dropped, strays>>
  PROVE  UndoInv'
<1>1. PICK e \in History!Edits : e = job.edit
  BY ReportedFacts
<1>2. job \in Jobs /\ job.kind \in {"undo", "redo"}
  BY EditFacts DEF Reported, UndoInv
<1>3. /\ undo \in Seq(History!Edits) /\ redo \in Seq(History!Edits)
      /\ Rising(undo) /\ Falling(redo) /\ Len(undo) + Len(redo) <= MaxSize
      /\ \A a, b : In(undo, a) /\ In(redo, b) => a < b
  BY DEF UndoInv, History!TypeOK, Stacked
<1>4. ASSUME e \notin strays
      PROVE  /\ In(undo, e) => e \in applied
             /\ In(redo, e) => e \notin applied
             /\ e \in applied => In(undo, e) \/ e \in dropped
  <2>1. ~Effective(job)
    BY <1>1, <1>4, ReportedFacts
  <2>2. e \in applied <=> job.kind = "undo"
    BY <2>1, <1>1 DEF Effective
  <2>3. IF job.kind = "undo" THEN (In(undo, e) \/ e \in dropped) /\ ~In(redo, e)
        ELSE ~In(undo, e)
    BY <1>1, <1>2, <1>4 DEF UndoInv, Awaited
  <2>4. QED
    BY <2>2, <2>3
<1> HIDE DEF UndoInv, Reported, Current, QueuesOK, Once, In, Rising, Falling
<1>5. QED
  BY <1>1, <1>3, <1>4, TransitionEndKeeps

\* A transition succeeded, and another entry is on top: it becomes a stray.
LEMMA StrayTransitionKeeps ==
  ASSUME UndoInv, NEW job, Reported(job, TRUE), Current(job), job.kind # "edit",
         QueuesOK', Once', pending' = FALSE,
         NEW st \in {"ready", "conflicted"}, entryState' = [entryState EXCEPT ![job.edit] = st],
         strays' = strays \cup {job.edit},
         UNCHANGED <<undo, redo, forward, dropped>>
  PROVE  UndoInv'
<1>1. /\ undo \in Seq(History!Edits) /\ redo \in Seq(History!Edits)
      /\ Rising(undo) /\ Falling(redo) /\ Len(undo) + Len(redo) <= MaxSize
      /\ \A a, b : In(undo, a) /\ In(redo, b) => a < b
  BY DEF UndoInv, History!TypeOK, Stacked
<1> HIDE DEF UndoInv, Reported, Current, QueuesOK, Once, In, Rising, Falling
<1>2. QED
  BY <1>1, TransitionEndKeeps

\* A transition succeeded: its entry moves to the other stack.
LEMMA MoveKeeps ==
  ASSUME UndoInv, NEW job, Reported(job, TRUE), Current(job), job.kind # "edit",
         QueuesOK', Once', pending' = FALSE,
         NEW st \in {"ready", "conflicted"}, entryState' = [entryState EXCEPT ![job.edit] = st],
         History!OnTop(IF job.kind = "undo" THEN undo ELSE redo, job.edit),
         undo' = IF job.kind = "undo" THEN History!Front(undo) ELSE Append(undo, job.edit),
         redo' = IF job.kind = "redo" THEN History!Front(redo) ELSE Append(redo, job.edit),
         UNCHANGED <<forward, dropped, strays>>
  PROVE  UndoInv'
<1>1. PICK e \in History!Edits : e = job.edit
  BY ReportedFacts
<1>2. job \in Jobs /\ job.kind \in {"undo", "redo"} /\ History!Edits \subseteq Nat
  BY EditFacts DEF Reported, UndoInv
<1>3. /\ undo \in Seq(History!Edits) /\ redo \in Seq(History!Edits)
      /\ Rising(undo) /\ Falling(redo) /\ Len(undo) + Len(redo) <= MaxSize
      /\ \A a, b : In(undo, a) /\ In(redo, b) => a < b
      /\ \A a : In(undo, a) \/ In(redo, a) => a \in History!Edits
  BY EditFacts DEF UndoInv, History!TypeOK, Stacked
<1>4. Len(undo) \in Nat /\ Len(redo) \in Nat
  BY <1>3, LenProperties
<1>5. e \notin strays => (e \in applied <=> job.kind = "redo")
  BY <1>1, <1>2, ReportedFacts DEF Effective
<1> HIDE DEF UndoInv, Reported, Current, QueuesOK, Once, In, Rising, Falling
<1>6. /\ undo' \in Seq(History!Edits) /\ redo' \in Seq(History!Edits)
      /\ Rising(undo') /\ Falling(redo') /\ Len(undo') + Len(redo') <= MaxSize
      /\ \A a, b : In(undo', a) /\ In(redo', b) => a < b
      /\ \A a : In(undo', a) \/ In(redo', a) <=> In(undo, a) \/ In(redo, a)
      /\ \A a : a # e => (In(undo', a) <=> In(undo, a)) /\ (In(redo', a) <=> In(redo, a))
      /\ In(undo', e) <=> job.kind = "redo"
      /\ In(redo', e) <=> job.kind = "undo"
  <2>1. CASE job.kind = "undo"
    <3>1. undo # <<>> /\ History!Last(undo) = e
      BY <2>1, <1>1 DEF History!OnTop
    <3>2. undo' = History!Front(undo) /\ redo' = Append(redo, e)
      BY <2>1, <1>1
    <3>3. /\ In(undo, e)
          /\ undo' \in Seq(History!Edits) /\ Len(undo') = Len(undo) - 1
          /\ \A x : In(undo', x) <=> In(undo, x) /\ x # e
          /\ Rising(undo') /\ \A x : In(undo, x) => x <= e
      BY <3>1, <3>2, <1>3, FrontFacts
    <3>4. \A x : In(redo, x) => e < x
      BY <3>3, <1>3
    <3>5. /\ redo' \in Seq(History!Edits) /\ Len(redo') = Len(redo) + 1
          /\ \A x : In(redo', x) <=> In(redo, x) \/ x = e
          /\ Falling(redo')
      <4>1. PICK r : r = Append(redo, e)
        OBVIOUS
      <4>2. /\ r \in Seq(History!Edits) /\ Len(r) = Len(redo) + 1
            /\ \A x : In(r, x) <=> In(redo, x) \/ x = e
            /\ Falling(r)
        BY <4>1, <3>4, <1>3, AppendFacts
      <4>3. QED
        BY <4>1, <4>2, <3>2
    <3>6. \A a, b : In(undo', a) /\ In(redo', b) => a < b
      <4>1. SUFFICES ASSUME NEW a \in History!Edits, NEW b \in History!Edits,
                            In(undo, a), a # e, In(redo, b) \/ b = e
                     PROVE  a < b
        BY <3>3, <3>5, <1>3
      <4>2. a \in Nat /\ b \in Nat /\ e \in Nat
        BY <1>2
      <4>3. a <= e /\ (b = e \/ e < b)
        BY <4>1, <3>3, <3>4
      <4>4. QED
        BY <4>1, <4>2, <4>3
    <3>7. Len(undo') + Len(redo') = Len(undo) + Len(redo)
      <4>1. PICK m \in Nat : m = Len(undo)
        BY <1>4
      <4>2. PICK n \in Nat : n = Len(redo)
        BY <1>4
      <4>3. Len(undo') = m - 1 /\ Len(redo') = n + 1
        BY <4>1, <4>2, <3>3, <3>5
      <4>4. (m - 1) + (n + 1) = m + n
        OBVIOUS
      <4>5. QED
        BY ONLY <4>1, <4>2, <4>3, <4>4
    <3>8. ~In(redo, e)
      <4>1. ~(e < e)
        BY <1>2
      <4>2. QED
        BY <4>1, <3>4
    <3>9. QED
      BY <2>1, <3>3, <3>5, <3>6, <3>7, <3>8, <1>3
  <2>2. CASE job.kind = "redo"
    <3>1. redo # <<>> /\ History!Last(redo) = e
      BY <2>2, <1>1 DEF History!OnTop
    <3>2. redo' = History!Front(redo) /\ undo' = Append(undo, e)
      BY <2>2, <1>1
    <3>3. /\ In(redo, e)
          /\ redo' \in Seq(History!Edits) /\ Len(redo') = Len(redo) - 1
          /\ \A x : In(redo', x) <=> In(redo, x) /\ x # e
          /\ Falling(redo') /\ \A x : In(redo, x) => e <= x
      BY <3>1, <3>2, <1>3, FrontFacts
    <3>4. \A x : In(undo, x) => x < e
      BY <3>3, <1>3
    <3>5. /\ undo' \in Seq(History!Edits) /\ Len(undo') = Len(undo) + 1
          /\ \A x : In(undo', x) <=> In(undo, x) \/ x = e
          /\ Rising(undo')
      <4>1. PICK u : u = Append(undo, e)
        OBVIOUS
      <4>2. /\ u \in Seq(History!Edits) /\ Len(u) = Len(undo) + 1
            /\ \A x : In(u, x) <=> In(undo, x) \/ x = e
            /\ Rising(u)
        BY <4>1, <3>4, <1>3, AppendFacts
      <4>3. QED
        BY <4>1, <4>2, <3>2
    <3>6. \A a, b : In(undo', a) /\ In(redo', b) => a < b
      <4>1. SUFFICES ASSUME NEW a \in History!Edits, NEW b \in History!Edits,
                            In(undo, a) \/ a = e, In(redo, b), b # e
                     PROVE  a < b
        BY <3>3, <3>5, <1>3
      <4>2. a \in Nat /\ b \in Nat /\ e \in Nat
        BY <1>2
      <4>3. e <= b /\ (a = e \/ a < e)
        BY <4>1, <3>3, <3>4
      <4>4. QED
        BY <4>1, <4>2, <4>3
    <3>7. Len(undo') + Len(redo') = Len(undo) + Len(redo)
      <4>1. PICK m \in Nat : m = Len(undo)
        BY <1>4
      <4>2. PICK n \in Nat : n = Len(redo)
        BY <1>4
      <4>3. Len(undo') = m + 1 /\ Len(redo') = n - 1
        BY <4>1, <4>2, <3>3, <3>5
      <4>4. (m + 1) + (n - 1) = m + n
        OBVIOUS
      <4>5. QED
        BY ONLY <4>1, <4>2, <4>3, <4>4
    <3>8. ~In(undo, e)
      <4>1. ~(e < e)
        BY <1>2
      <4>2. QED
        BY <4>1, <3>4
    <3>9. QED
      BY <2>2, <3>3, <3>5, <3>6, <3>7, <3>8, <1>3
  <2>3. QED
    BY <2>1, <2>2, <1>2
<1>7. job.edit \notin strays' =>
        /\ In(undo', job.edit) => job.edit \in applied
        /\ In(redo', job.edit) => job.edit \notin applied
        /\ job.edit \in applied => In(undo', job.edit) \/ job.edit \in dropped
  BY <1>1, <1>2, <1>5, <1>6
<1>8. \A a : a # job.edit => (In(undo', a) <=> In(undo, a)) /\ (In(redo', a) <=> In(redo, a))
  BY <1>1, <1>6
<1>9. strays' = strays \/ strays' = strays \cup {job.edit}
  OBVIOUS
<1>10. QED
  BY <1>6, <1>7, <1>8, <1>9, TransitionEndKeeps

\* A final report is handled.
LEMMA CompleteKeeps ==
  ASSUME UndoInv, NEW job, NEW status \in History!Statuses \ {"unknown"},
         IF status = "committed" THEN Reported(job, TRUE) ELSE Reported(job, FALSE),
         History!Complete(job, status), QueuesOK', Once'
  PROVE  UndoInv'
<1>1. job \in Jobs /\ job.kind \in {"edit", "undo", "redo"}
  BY EditFacts DEF Reported, UndoInv
<1>2. CASE ~Current(job)
  <2>1. UNCHANGED <<undo, redo, entryState, pending, forward, dropped, strays>>
    BY <1>1, <1>2 DEF History!Complete, History!CompleteEdit, History!CompleteTransition,
                      History!Unchanged, Current
  <2>2. /\ UNCHANGED <<nextEdit, generation, applied, replaced>>
        /\ \A j \in Jobs' : j \in Jobs
        /\ \A j \in Jobs : j \in Jobs' \/ j = job
        /\ \A j \in Done' : j \in Done
        /\ \A j \in NotDone' : j \in NotDone
    BY DEF Reported
  <2>3. UNCHANGED books /\ replaced \subseteq replaced'
    BY <2>1, <2>2 DEF books
  <2>4. History!TypeOK'
    BY <2>1, <2>2 DEF UndoInv, History!TypeOK, QueuesOK
  <2>5. \A e : Out(e) => pending' /\ entryState'[e] \in {"pending", "uncertain"}
    BY <2>1 DEF UndoInv, Out, Awaited
  <2> HIDE DEF UndoInv, Once, Jobs, Done, NotDone, books
  <2>6. QED
    BY <1>2, <2>2, <2>3, <2>4, <2>5, BooksKeep
<1>3. CASE Current(job) /\ job.kind = "edit"
  <2>1. job.edit \in forward /\ job.generation = generation
    BY <1>3, ReportedFacts DEF Current
  <2>2. /\ History!CompleteEdit(job, status)
        /\ forward' = forward \ {job.edit} /\ pending' = pending
    BY <1>3, <2>1 DEF History!Complete, History!CompleteEdit
  <2>3. CASE status = "committed" /\ job.edit \notin replaced
    <3>1. /\ undo' = History!Pushed(job.edit)
          /\ dropped' = IF History!Full THEN dropped \cup {Head(undo)} ELSE dropped
          /\ strays' = strays \cup {e \in dropped' : e > job.edit}
          /\ redo' = <<>>
          /\ entryState' = [entryState EXCEPT ![job.edit] = "ready"]
      BY <2>1, <2>2, <2>3 DEF History!CompleteEdit
    <3> HIDE DEF UndoInv, Once, QueuesOK, Reported, Current
    <3>2. QED
      BY <1>3, <2>2, <2>3, <3>1, PushKeeps
  <2>4. CASE status # "committed" \/ job.edit \in replaced
    <3>1. UNCHANGED <<undo, redo, entryState, pending, dropped, strays>>
      BY <2>1, <2>2, <2>4 DEF History!CompleteEdit
    <3>2. PICK done \in BOOLEAN : done <=> status = "committed"
      OBVIOUS
    <3>3. Reported(job, done)
      BY <3>2
    <3> HIDE DEF UndoInv, Once, QueuesOK, Reported, Current
    <3>4. QED
      BY <1>3, <2>2, <2>4, <3>1, <3>2, <3>3, DropKeeps
  <2>5. QED
    BY <2>3, <2>4
<1>4. CASE Current(job) /\ job.kind # "edit"
  <2>1. PICK st \in {"ready", "conflicted"} : st = IF status = "conflict" THEN "conflicted" ELSE "ready"
    OBVIOUS
  <2>2. /\ pending' = FALSE
        /\ entryState' = [entryState EXCEPT ![job.edit] = st]
        /\ IF status = "committed" THEN History!Move(job) ELSE UNCHANGED <<undo, redo, strays>>
        /\ UNCHANGED <<forward, dropped>>
    <3>1. History!CompleteTransition(job, status) /\ ~(job.generation # generation)
      BY <1>4 DEF History!Complete, Current
    <3>2. (CASE status = "unknown" -> "uncertain"
             [] status = "conflict" -> "conflicted"
             [] OTHER -> "ready") = st
      BY <2>1
    <3>3. QED
      BY <3>1, <3>2 DEF History!CompleteTransition
  <2>3. CASE status # "committed"
    <3>1. UNCHANGED <<undo, redo, forward, dropped, strays>>
      BY <2>2, <2>3
    <3> HIDE DEF UndoInv, Once, QueuesOK, Reported, Current
    <3>2. QED
      BY <1>4, <2>2, <2>3, <3>1, FailedTransitionKeeps
  <2>4. CASE status = "committed" /\ History!OnTop(IF job.kind = "undo" THEN undo ELSE redo, job.edit)
    <3>1. /\ undo' = IF job.kind = "undo" THEN History!Front(undo) ELSE Append(undo, job.edit)
          /\ redo' = IF job.kind = "redo" THEN History!Front(redo) ELSE Append(redo, job.edit)
          /\ UNCHANGED <<forward, dropped, strays>>
      BY <2>2, <2>4 DEF History!Move
    <3> HIDE DEF UndoInv, Once, QueuesOK, Reported, Current
    <3>2. QED
      BY <1>4, <2>2, <2>4, <3>1, MoveKeeps
  <2>5. CASE status = "committed" /\ ~History!OnTop(IF job.kind = "undo" THEN undo ELSE redo, job.edit)
    <3>1. /\ strays' = strays \cup {job.edit}
          /\ UNCHANGED <<undo, redo, forward, dropped>>
      BY <2>2, <2>5 DEF History!Move
    <3> HIDE DEF UndoInv, Once, QueuesOK, Reported, Current
    <3>2. QED
      BY <1>4, <2>2, <2>5, <3>1, StrayTransitionKeeps
  <2>6. QED
    BY <2>3, <2>4, <2>5
<1>5. QED
  BY <1>2, <1>3, <1>4

\* A report that the outcome is unknown is handled: another will follow.
LEMMA UnknownKeeps ==
  ASSUME UndoInv, NEW job \in Jobs, History!Complete(job, "unknown"), QueuesOK', Once',
         UNCHANGED <<nextEdit, generation, applied, replaced>>,
         \A j \in Jobs' : j \in Jobs, \A j \in Jobs : Current(j) => j \in Jobs',
         \A j \in Done' : j \in Done, \A j \in NotDone' : j \in NotDone
  PROVE  UndoInv'
<1>1. job.edit \in History!Edits
  BY EditFacts DEF UndoInv
<1>2. \A e : Out(e) => pending /\ entryState[e] \in {"pending", "uncertain"}
  BY DEF UndoInv, Out, Awaited
<1>3. \A e : Out(e) => e \in History!Edits
  BY EditFacts DEF UndoInv
<1>4. entryState \in [History!Edits -> {"ready", "pending", "conflicted", "uncertain"}]
  BY DEF UndoInv, History!TypeOK
<1>5. /\ UNCHANGED <<undo, redo, forward, dropped, strays>>
      /\ \/ UNCHANGED <<entryState, pending>>
         \/ pending' = TRUE /\ entryState' = [entryState EXCEPT ![job.edit] = "uncertain"]
  <2>1. CASE job.kind = "edit"
    BY <2>1 DEF History!Complete, History!CompleteEdit, History!Unchanged
  <2>2. CASE job.kind # "edit" /\ job.generation # generation
    BY <2>2 DEF History!Complete, History!CompleteTransition, History!Unchanged
  <2>3. CASE job.kind # "edit" /\ job.generation = generation
    BY <2>3 DEF History!Complete, History!CompleteTransition
  <2>4. QED
    BY <2>1, <2>2, <2>3
<1>6. \A e : Out(e) => pending' /\ entryState'[e] \in {"pending", "uncertain"}
  BY <1>1, <1>2, <1>3, <1>4, <1>5
<1>7. entryState' \in [History!Edits -> {"ready", "pending", "conflicted", "uncertain"}]
  BY <1>4, <1>5
<1>8. pending' \in BOOLEAN
  BY <1>5 DEF UndoInv, History!TypeOK
<1>9. History!TypeOK'
  BY <1>5, <1>7, <1>8 DEF UndoInv, History!TypeOK, QueuesOK
<1>10. UNCHANGED books /\ replaced \subseteq replaced'
  BY <1>5 DEF books
<1> HIDE DEF UndoInv, Once, Jobs, Done, NotDone, books
<1>11. QED
  BY <1>6, <1>9, <1>10, BooksKeep

\* The main thread handles a result.
LEMMA DeliverKeeps ==
  ASSUME UndoInv, History!Deliver
  PROVE  UndoInv'
<1>1. History!TypeOK /\ Once
  BY DEF UndoInv
<1>2. PICK job : job = Head(results).job
  OBVIOUS
<1>3. PICK status : status = Head(results).status
  OBVIOUS
<1>4. /\ results # <<>> /\ results' = Tail(results)
      /\ UNCHANGED <<nextEdit, generation, queue, applied, replaced, gestures>>
  BY DEF History!Deliver
<1>5. /\ job \in History!Job /\ status \in History!Statuses
      /\ results' \in Seq([job : History!Job, status : History!Statuses])
  BY <1>1, <1>2, <1>3, <1>4, ItemsShift
<1>6. \/ /\ status = "committed" => live
         /\ History!Complete(job, status)
         /\ UNCHANGED <<live, uncertain, undoFaults>>
      \/ /\ status = "committed"
         /\ live => undoFaults > 0
         /\ undoFaults' = IF live THEN undoFaults - 1 ELSE undoFaults
         /\ History!Complete(job, "unknown")
         /\ uncertain' = uncertain \cup {[job |-> job, status |-> status]}
         /\ live' = FALSE
  BY <1>2, <1>3 DEF History!Deliver
<1>7. CASE History!Complete(job, status) /\ UNCHANGED <<live, uncertain, undoFaults>>
  <2>1. /\ Once' /\ job \in Jobs
        /\ \A j \in Jobs' : j \in Jobs
        /\ \A j \in Jobs : j \in Jobs' \/ j = job
        /\ \A j \in Done' : j \in Done
        /\ \A j \in NotDone' : j \in NotDone
        /\ status = "unknown" => job \in Jobs'
        /\ status = "committed" => job \in Done
        /\ status \notin {"committed", "unknown"} => job \in NotDone
        /\ status # "unknown" => \A j \in Jobs' : ~Clash(j, job)
    BY <1>1, <1>2, <1>3, <1>4, <1>7, ItemsDeliver
  <2>2. QueuesOK'
    BY <1>1, <1>4, <1>5, <1>7 DEF History!TypeOK, QueuesOK
  <2> HIDE DEF UndoInv, Once, Jobs, Done, NotDone, QueuesOK, Clash
  <2>3. CASE status = "unknown"
    <3>1. History!Complete(job, "unknown")
      BY <1>7, <2>3
    <3>2. \A j \in Jobs : Current(j) => j \in Jobs'
      BY <2>1, <2>3
    <3>3. QED
      BY <1>4, <2>1, <2>2, <3>1, <3>2, UnknownKeeps
  <2>4. CASE status # "unknown"
    <3>1. IF status = "committed" THEN Reported(job, TRUE) ELSE Reported(job, FALSE)
      BY <1>4, <2>1, <2>4 DEF Reported
    <3>2. QED
      BY <1>5, <1>7, <2>1, <2>2, <2>4, <3>1, CompleteKeeps
  <2>5. QED
    BY <2>3, <2>4
<1>8. CASE /\ status = "committed"
           /\ live => undoFaults > 0
           /\ undoFaults' = IF live THEN undoFaults - 1 ELSE undoFaults
           /\ History!Complete(job, "unknown")
           /\ uncertain' = uncertain \cup {[job |-> job, status |-> status]}
           /\ live' = FALSE
  <2>1. uncertain' = uncertain \cup {[job |-> job, status |-> "committed"]}
    BY <1>8
  <2>2. /\ Once' /\ job \in Jobs
        /\ \A j : j \in Jobs' <=> j \in Jobs
        /\ \A j \in Done' : j \in Done
        /\ \A j \in NotDone' : j \in NotDone
    BY <1>1, <1>2, <1>3, <1>4, <1>8, <2>1, ItemsPostpone
  <2>3. QueuesOK'
    <3>1. undoFaults' \in Nat
      BY <1>1, <1>8 DEF History!TypeOK
    <3>2. uncertain' \subseteq [job : History!Job, status : {"committed", "rejected"}]
      BY <1>1, <1>5, <2>1 DEF History!TypeOK
    <3>3. QED
      BY <1>1, <1>4, <1>5, <1>8, <3>1, <3>2 DEF History!TypeOK, QueuesOK
  <2> HIDE DEF UndoInv, Once, Jobs, Done, NotDone, QueuesOK
  <2>4. QED
    BY <1>4, <1>8, <2>2, <2>3, UnknownKeeps
<1>9. QED
  BY <1>6, <1>7, <1>8

\* The next session reports what was uncertain.
LEMMA RecoverKeeps ==
  ASSUME UndoInv, NEW u \in uncertain, History!Recover(u)
  PROVE  UndoInv'
<1>1. History!TypeOK /\ Once
  BY DEF UndoInv
<1>2. /\ queue = <<>> /\ results = <<>> /\ uncertain' = uncertain \ {u}
      /\ History!Complete(u.job, u.status)
      /\ UNCHANGED <<nextEdit, generation, queue, results, live, applied, replaced, gestures,
                     undoFaults>>
  BY DEF History!Recover, History!Recovering
<1>3. u.status \in {"committed", "rejected"}
  BY <1>1 DEF History!TypeOK
<1>4. /\ Once' /\ u.job \in Jobs
      /\ \A j \in Jobs' : j \in Jobs /\ ~Clash(j, u.job)
      /\ \A j \in Jobs : j \in Jobs' \/ j = u.job
      /\ \A j \in Done' : j \in Done
      /\ \A j \in NotDone' : j \in NotDone
      /\ IF u.status = "committed" THEN u.job \in Done ELSE u.job \in NotDone
  BY <1>1, <1>2, ItemsRecover
<1>5. QueuesOK'
  BY <1>1, <1>2 DEF History!TypeOK, QueuesOK
<1> HIDE DEF UndoInv, Once, Jobs, Done, NotDone, QueuesOK, Clash
<1>6. IF u.status = "committed" THEN Reported(u.job, TRUE) ELSE Reported(u.job, FALSE)
  BY <1>2, <1>4 DEF Reported
<1>7. u.status \in History!Statuses \ {"unknown"}
  BY <1>3 DEF History!Statuses
<1>8. QED
  BY <1>2, <1>4, <1>5, <1>6, <1>7, CompleteKeeps

\* The user undoes or redoes.
LEMMA GestureKeeps ==
  ASSUME UndoInv, History!Undo \/ History!Redo
  PROVE  UndoInv'
<1>1. /\ undo \in Seq(History!Edits) /\ Rising(undo)
      /\ redo \in Seq(History!Edits) /\ Falling(redo)
      /\ gestures \in Nat
  BY DEF UndoInv, History!TypeOK, Stacked
<1>2. CASE History!Undo
  <2>1. PICK top : top = History!Last(undo)
    OBVIOUS
  <2>2. /\ undo # <<>> /\ ~pending /\ forward = {}
        /\ entryState' = [entryState EXCEPT ![top] = "pending"] /\ pending' = TRUE
        /\ queue' = Append(queue, [kind |-> "undo", edit |-> top, generation |-> generation])
        /\ gestures > 0 /\ gestures' = gestures - 1
        /\ UNCHANGED <<books, replaced, results, live, uncertain, undoFaults>>
    BY <1>2, <2>1 DEF History!Undo, History!Transition, History!Available, History!Submit, books
  <2>3. top \in History!Edits /\ In(undo, top)
    BY <1>1, <2>1, <2>2, FrontFacts
  <2>4. gestures' \in Nat
    BY <1>1, <2>2
  <2> HIDE DEF UndoInv, books, In
  <2>5. QED
    BY <2>2, <2>3, <2>4, TransitionKeeps
<1>3. CASE History!Redo
  <2>1. PICK top : top = History!Last(redo)
    OBVIOUS
  <2>2. /\ redo # <<>> /\ ~pending /\ forward = {}
        /\ entryState' = [entryState EXCEPT ![top] = "pending"] /\ pending' = TRUE
        /\ queue' = Append(queue, [kind |-> "redo", edit |-> top, generation |-> generation])
        /\ gestures > 0 /\ gestures' = gestures - 1
        /\ UNCHANGED <<books, replaced, results, live, uncertain, undoFaults>>
    BY <1>3, <2>1 DEF History!Redo, History!Transition, History!Available, History!Submit, books
  <2>3. top \in History!Edits /\ In(redo, top)
    BY <1>1, <2>1, <2>2, FrontFacts
  <2>4. gestures' \in Nat
    BY <1>1, <2>2
  <2> HIDE DEF UndoInv, books, In
  <2>5. QED
    BY <2>2, <2>3, <2>4, TransitionKeeps
<1>4. QED
  BY <1>2, <1>3

\* The next session is there, or pages are replaced: the history itself does not change.
LEMMA StartKeeps ==
  ASSUME UndoInv, UNCHANGED <<books, entryState, pending, queue, results, uncertain>>,
         live' \in BOOLEAN, gestures' \in Nat, undoFaults' \in Nat,
         replaced \subseteq replaced', replaced' \subseteq History!Edits
  PROVE  UndoInv'
<1>1. UNCHANGED <<undo, redo, forward, nextEdit, generation, applied, dropped, strays,
                  entryState, pending, queue, results, uncertain>>
  BY DEF books
<1>2. History!TypeOK'
  BY <1>1 DEF UndoInv, History!TypeOK
<1>3. UNCHANGED <<Total, Items>>
  BY <1>1 DEF Total, Items
<1>4. UNCHANGED <<Jobs, Done, NotDone>>
  BY <1>1, <1>3 DEF Jobs, Done, NotDone, Known
<1>5. Once'
  BY <1>1, <1>3 DEF UndoInv, Once, Known, Clash, Current
<1>6. \A e : Out(e) => pending' /\ entryState'[e] \in {"pending", "uncertain"}
  BY <1>1 DEF UndoInv, Out, Awaited
<1> HIDE DEF UndoInv, Once, Jobs, Done, NotDone, books
<1>7. QED
  BY <1>2, <1>4, <1>5, <1>6, BooksKeep

\* Every step of the history keeps its invariant.
LEMMA HistoryKeeps ==
  ASSUME UndoInv, History!Next
  PROVE  UndoInv'
<1> HIDE DEF UndoInv
<1>1. CASE History!SessionStarts
  <2>1. UNCHANGED <<books, entryState, pending, queue, results, uncertain>>
    BY <1>1 DEF History!SessionStarts, books
  <2>2. /\ live' \in BOOLEAN /\ gestures' \in Nat /\ undoFaults' \in Nat
        /\ replaced \subseteq replaced' /\ replaced' \subseteq History!Edits
    BY <1>1 DEF History!SessionStarts, UndoInv, History!TypeOK
  <2>3. QED
    BY <2>1, <2>2, StartKeeps
<1>2. CASE \E edits \in SUBSET forward : History!ReplacePages(edits)
  <2>1. UNCHANGED <<books, entryState, pending, queue, results, uncertain>>
    BY <1>2 DEF History!ReplacePages, books
  <2>2. /\ live' \in BOOLEAN /\ gestures' \in Nat /\ undoFaults' \in Nat
        /\ replaced \subseteq replaced' /\ replaced' \subseteq History!Edits
    BY <1>2 DEF History!ReplacePages, UndoInv, History!TypeOK
  <2>3. QED
    BY <2>1, <2>2, StartKeeps
<1>3. QED
  BY <1>1, <1>2, EditKeeps, GestureKeeps, ClearKeeps, ExecuteKeeps, LoseKeeps, RejectKeeps,
     DeliverKeeps, RecoverKeeps DEF History!Next

-----------------------------------------------------------------------------
(* The invariant holds of the desktop, and the properties follow. *)

\* It holds at first.
LEMMA UndoInit == Init => UndoInv
<1>1. SUFFICES ASSUME Init PROVE UndoInv
  OBVIOUS
<1>2. PICK k \in Nat, failures \in Nat : History!InitWith(k, failures)
  BY <1>1 DEF Init
<1>3. /\ undo = <<>> /\ redo = <<>> /\ forward = {} /\ nextEdit = 1 /\ generation = 0
      /\ queue = <<>> /\ results = <<>> /\ uncertain = {} /\ applied = {}
      /\ dropped = {} /\ strays = {} /\ replaced = {}
  BY <1>2 DEF History!InitWith
<1>4. MaxEdits \in Nat \ {0} /\ MaxSize \in Nat \ {0}
  BY BoundsAssumption
<1>5. /\ undo \in Seq(History!Edits) /\ Len(undo) <= MaxSize /\ Len(undo) = 0
      /\ redo \in Seq(History!Edits) /\ Len(redo) <= MaxSize /\ Len(redo) = 0
  BY <1>3, <1>4
<1>6. History!TypeOK
  <2>1. /\ nextEdit \in 1..(MaxEdits + 1) /\ generation \in Nat
        /\ forward \subseteq History!Edits /\ applied \subseteq History!Edits
        /\ dropped \subseteq History!Edits /\ strays \subseteq History!Edits
        /\ replaced \subseteq History!Edits
        /\ uncertain \subseteq [job : History!Job, status : {"committed", "rejected"}]
    BY <1>3, <1>4
  <2>2. /\ queue \in Seq(History!Job)
        /\ results \in Seq([job : History!Job, status : History!Statuses])
    BY <1>3
  <2>3. entryState \in [History!Edits -> {"ready", "pending", "conflicted", "uncertain"}]
    BY <1>2 DEF History!InitWith
  <2>4. pending \in BOOLEAN /\ live \in BOOLEAN /\ gestures \in Nat /\ undoFaults \in Nat
    BY <1>2 DEF History!InitWith
  <2>5. QED
    BY <1>5, <2>1, <2>2, <2>3, <2>4 DEF History!TypeOK
<1>7. Total = 0
  BY <1>3 DEF Total
<1>8. \A n : n \notin 1..Total
  BY <1>7
<1> HIDE DEF Total, Items
<1>9. Jobs = {} /\ Done = {} /\ NotDone = {} /\ Once
  BY <1>3, <1>8 DEF Jobs, Done, NotDone, Once
<1> HIDE DEF Jobs, Done, NotDone, Once
<1>10. \A e : ~In(undo, e) /\ ~In(redo, e) /\ ~Out(e) /\ ~Remembered(e)
  BY <1>3, <1>5, <1>9 DEF In, Out, Remembered
<1>11. Numbered /\ Awaited /\ Truthfully
  BY <1>3, <1>9, <1>10 DEF Numbered, Awaited, Truthfully
<1>12. Stacked
  BY <1>3, <1>4, <1>5, <1>10 DEF Stacked, Rising, Falling
<1>13. Settled /\ Younger /\ Oldest
  BY <1>3, <1>10 DEF Settled, Younger, Oldest
<1>14. QED
  BY <1>6, <1>9, <1>11, <1>12, <1>13 DEF UndoInv

\* Variables that stay keep it.
LEMMA UndoStays ==
  ASSUME UndoInv, UNCHANGED history
  PROVE  UndoInv'
<1>1. UNCHANGED <<books, entryState, pending, queue, results, uncertain>>
  BY DEF history, books
<1>2. /\ live' \in BOOLEAN /\ gestures' \in Nat /\ undoFaults' \in Nat
      /\ replaced \subseteq replaced' /\ replaced' \subseteq History!Edits
  BY DEF history, UndoInv, History!TypeOK
<1> HIDE DEF UndoInv, books
<1>3. QED
  BY <1>1, <1>2, StartKeeps

\* It holds always.
LEMMA UndoCorrect == Spec => []UndoInv
<1>1. ASSUME UndoInv, [Next]_vars
      PROVE  UndoInv'
  <2> HIDE DEF UndoInv
  <2>1. CASE Mdb!Next \/ Monitor!Next
    BY <1>1, <2>1, AccessLeavesPlan, UndoStays
  <2>2. CASE History!Next
    BY <1>1, <2>2, HistoryKeeps
  <2>3. CASE Plan!Next
    BY <1>1, <2>3, PlanLeaves, UndoStays
  <2>4. CASE UNCHANGED vars
    BY <1>1, <2>4, UndoStays DEF vars
  <2>5. QED
    BY <1>1, <2>1, <2>2, <2>3, <2>4 DEF Next
<1>2. QED
  BY <1>1, UndoInit, PTL DEF Spec

\* For any edits, size of the stacks, sessions that are lost and commits that are reported late:
\* what undo offers is the last edit the database holds, but for strays
\* and for edits whose pages were replaced while they were under way
\* (undo_redo_service.py, can_undo; plan_view_action_handler.py, the callers of
\* bind_latest_history_to_forward_mutation).
THEOREM LastEditCorrect == Spec => []UndoIsLastEdit
<1>1. ASSUME UndoInv PROVE UndoIsLastEdit
  <2>1. SUFFICES ASSUME ~pending, forward = {}, undo # <<>>,
                        NEW e \in applied, e \notin strays \cup replaced,
                        ~(e <= History!Last(undo))
                 PROVE  FALSE
    BY DEF UndoIsLastEdit, History!UndoIsLastEdit, History!Available
  <2>2. undo \in Seq(History!Edits) /\ Rising(undo)
    BY <1>1 DEF UndoInv, History!TypeOK, Stacked
  <2>3. PICK top : top = History!Last(undo)
    OBVIOUS
  <2>4. /\ top \in History!Edits /\ In(undo, top)
        /\ \A x : In(undo, x) => x <= top
    BY <2>1, <2>2, <2>3, FrontFacts
  <2>5. e \in History!Edits /\ e \in Nat /\ top \in Nat
    BY <1>1, <2>1, <2>4, EditFacts DEF UndoInv
  <2>6. top < e /\ ~In(undo, e)
    BY <2>1, <2>3, <2>4, <2>5
  <2>7. \A x : ~Out(x)
    BY <1>1, <2>1 DEF UndoInv, Awaited, Out
  <2>8. ~In(redo, e)
    BY <1>1, <2>1, <2>5, <2>7 DEF UndoInv, Settled
  <2>9. e \in dropped
    BY <1>1, <2>1, <2>4, <2>5, <2>6, <2>7, <2>8 DEF UndoInv, Younger, Remembered
  <2>10. e < top
    BY <1>1, <2>1, <2>4, <2>9 DEF UndoInv, Oldest
  <2>11. QED
    BY <2>5, <2>6, <2>10
<1>2. QED
  BY <1>1, UndoCorrect, PTL

\* For any edits, size of the stacks, sessions that are lost and commits that are reported late:
\* an entry that is offered to be undone is done, and one to be redone is not, but for strays
\* (undo_redo_service.py, _submit_history_transition).
THEOREM StacksCorrect == Spec => []StacksTellTheTruth
<1>1. ASSUME UndoInv PROVE StacksTellTheTruth
  <2>1. SUFFICES ASSUME NEW e \in History!Edits, e \notin strays, entryState[e] = "ready"
                 PROVE  (In(undo, e) => e \in applied) /\ (In(redo, e) => e \notin applied)
    BY DEF StacksTellTheTruth, History!StacksTellTheTruth, In
  <2>2. ~Out(e)
    BY <1>1, <2>1 DEF UndoInv, Awaited, Out
  <2>3. QED
    BY <1>1, <2>1, <2>2 DEF UndoInv, Settled
<1>2. QED
  BY <1>1, UndoCorrect, PTL
=============================================================================
