------------------------ MODULE DeferredWritesProofs ------------------------
(***************************************************************************)
(* Proofs about DeferredWrites: whatever the number of layers and of       *)
(* changes, no visual state outlives the writes it is for, and without     *)
(* faults what is shown is what is stored.                                 *)
(***************************************************************************)
EXTENDS DeferredWrites, FiniteSetTheorems, WellFoundedInduction, TLAPS

-----------------------------------------------------------------------------
(* The inductive invariant. Predicates of a book m, which a flush changes  *)
(* one turn at a time.                                                     *)

\* The revision is in the state of its key.
Lives(m, r) == r \in DOMAIN made /\ m.status[r] # "gone"

\* The revision is pending; it is pending or in the mutation queue.
IsPending(m, r) == r \in DOMAIN made /\ m.pending[made[r].key] = r
InQueue(m, r) == \E i \in DOMAIN m.queue : m.queue[i] = r
Waits(m, r) == IsPending(m, r) \/ InQueue(m, r)

\* Its result is on its way, or its projection is not complete.
Answered(r) ==
  \/ \E i \in DOMAIN messages : messages[i].kind # "remote" /\ messages[i].rev = r
  \/ r \in projecting

\* What is pending is pending under its own key, was not sent, and lives as long as the
\* state of the key. In SQL it is open: what the queue refuses is not tried again.
PendingIsOwn(m) ==
  \A k \in Keys : m.pending[k] # 0 =>
    /\ made[m.pending[k]].key = k
    /\ ~InQueue(m, m.pending[k])
    /\ ~Answered(m.pending[k])
    /\ Exists(m, k) => m.status[m.pending[k]] # "gone"
    /\ sql => m.status[m.pending[k]] = "open"

\* Nothing is restored of a key that has no state.
NoEmptyState(m) == \A k \in Keys : ~Exists(m, k) => m.restore[k] = {}

\* An open revision has a result to come.
OpenHasResult(m) ==
  \A r \in DOMAIN made : m.status[r] = "open" => Waits(m, r) \/ Answered(r)

\* The scope of a state takes in those of its revisions.
ScopesNest(m) ==
  \A r \in DOMAIN made : m.status[r] # "gone" => made[r].scope \subseteq Scope(m, made[r].key)

\* A state is kept for a write that is pending, or for one of a connected key that is open.
KeptForWrite(m) ==
  \A k \in Keys : Exists(m, k) =>
    m.pending[k] # 0 \/ \E j \in Connected(m, k) : IsOpen(m, j)

\* Between two steps a state in Access is kept for a write that is pending.
KeptForRetry(m) == \A k \in Keys : Exists(m, k) => m.pending[k] # 0

\* A change of one layer is of that layer.
OwnScope == \A r \in DOMAIN made : made[r].key # All => made[r].scope = {made[r].key}

Structure ==
  /\ PendingIsOwn(book)
  /\ OpenHasResult(book)
  /\ NoEmptyState(book)
  /\ ScopesNest(book)
  /\ OwnScope
  /\ ~sql => book.queue = <<>> /\ messages = <<>> /\ projecting = {}
  /\ others = 0 =>
       /\ \A i \in DOMAIN messages : messages[i].kind # "remote"
       /\ KeptForWrite(book)
       /\ ~sql => KeptForRetry(book)

\* What follows holds while nothing was refused, lost, changed by another or narrowed.
Covering(m, l) == {r \in DOMAIN made : m.status[r] # "gone" /\ l \in made[r].scope}

\* No write of the layer is waiting.
Written(m, l) == \A r \in DOMAIN made : Waits(m, r) => l \notin made[r].scope

NoneFailed(m) == \A r \in DOMAIN made : m.status[r] # "failed"

WaitingIsOpen(m) == \A r \in DOMAIN made : Waits(m, r) => m.status[r] = "open"

\* Writes are made in the order of the changes.
WritesInOrder(m) ==
  /\ \A i, j \in DOMAIN m.queue : i < j => m.queue[i] < m.queue[j]
  /\ \A r, q \in DOMAIN made : InQueue(m, r) /\ IsPending(m, q) => r < q
  /\ \A r, q \in DOMAIN made : Lives(m, r) /\ ~Waits(m, r) /\ Waits(m, q) => r < q

\* The newest change of a layer that is written is what the database has.
NewestIsStored(m) ==
  \A l \in Layers :
    Written(m, l) /\ Covering(m, l) # {} => m.db[l] = made[Max(Covering(m, l))].show

\* In Access the newest change is what the user asked for, which is shown and, once
\* written, stored.
NewestIsWanted(m) ==
  /\ m.shown = wanted
  /\ \A l \in Layers :
       /\ Covering(m, l) # {} => made[Max(Covering(m, l))].show = wanted[l]
       /\ Written(m, l) => m.db[l] = wanted[l]

\* The results ms and the projections ps come in the order of the writes.
ResultsInOrder(m, ms, ps) ==
  /\ \A i \in DOMAIN ms :
       /\ ms[i].kind = "committed"
       /\ m.status[ms[i].rev] = "open"
       /\ ~Waits(m, ms[i].rev)
       /\ \A r \in DOMAIN made : Lives(m, r) /\ ~Waits(m, r) => r <= ms[Len(ms)].rev
       /\ \A j \in DOMAIN ms : i < j => ms[i].rev < ms[j].rev
       /\ \A r \in ps : r < ms[i].rev
  /\ \A r \in ps : m.status[r] = "open" /\ ~Waits(m, r)
  /\ ms # <<>> => ms[Len(ms)].rows = m.db

\* A layer of which every write is over is shown as it is stored, once its rows are read.
StoredIsShown(m, ms) ==
  ms = <<>> => \A l \in Layers : Written(m, l) => m.shown[l] = m.db[l]

NoneDone(m) == \A r \in DOMAIN made : m.status[r] # "done"

Faithful(m, ms, ps) ==
  /\ NoneFailed(m)
  /\ WaitingIsOpen(m)
  /\ WritesInOrder(m)
  /\ sql => NewestIsStored(m) /\ ResultsInOrder(m, ms, ps) /\ StoredIsShown(m, ms)
  /\ ~sql => NewestIsWanted(m) /\ NoneDone(m)

Intent == ~spoiled /\ ~narrowed => others = 0 /\ Faithful(book, messages, projecting)

IInv == DWTypeOK /\ Structure /\ Intent

-----------------------------------------------------------------------------
(* Numbers, sets and books. *)

\* What is known of the changes: they are numbered from one.
LEMMA MadeFacts ==
  ASSUME LayersAssumption, DWTypeOK
  PROVE  /\ DOMAIN made = 1..Len(made)
         /\ Len(made) \in Nat
         /\ DOMAIN made \subseteq Revisions
         /\ DOMAIN made \subseteq Nat \ {0}
         /\ \A r \in DOMAIN made : /\ made[r] \in [key : Keys, scope : SUBSET Layers, show : BOOLEAN]
                                   /\ made[r].key \in Keys
                                   /\ made[r].scope \subseteq Layers
                                   /\ made[r].show \in BOOLEAN
<1>1. made \in Seq([key : Keys, scope : SUBSET Layers, show : BOOLEAN]) /\ Len(made) <= MaxRevisions
  BY DEF DWTypeOK
<1>2. MaxRevisions \in Nat
  BY DEF LayersAssumption
<1>3. DOMAIN made = 1..Len(made) /\ Len(made) \in Nat
  BY <1>1
<1>4. PICK N \in Nat : N = Len(made) /\ N <= MaxRevisions
  BY <1>1, <1>3
<1>5. 1..N \subseteq 1..MaxRevisions /\ 1..N \subseteq Nat \ {0}
  <2>1. N <= MaxRevisions
    BY <1>4
  <2> QED BY ONLY <2>1, <1>2, N \in Nat
<1>6. ASSUME NEW r \in DOMAIN made
      PROVE  made[r] \in [key : Keys, scope : SUBSET Layers, show : BOOLEAN]
  <2>1. PICK S : S = [key : Keys, scope : SUBSET Layers, show : BOOLEAN]
    OBVIOUS
  <2>2. made \in Seq(S) /\ r \in 1..Len(made)
    BY <1>1, <1>3, <2>1
  <2>3. made[r] \in S
    BY ONLY <2>2
  <2> QED BY <2>1, <2>3
<1>7. DOMAIN made = 1..N
  BY <1>3, <1>4
<1>8. DOMAIN made \subseteq Revisions /\ DOMAIN made \subseteq Nat \ {0}
  BY ONLY <1>5, <1>7 DEF Revisions
<1>9. \A r \in DOMAIN made : /\ made[r].key \in Keys
                             /\ made[r].scope \subseteq Layers
                             /\ made[r].show \in BOOLEAN
  BY <1>6
<1> QED BY <1>3, <1>6, <1>8, <1>9

\* A set of numbers from 0 to N that has 0 and the successor of each of its numbers has all.
LEMMA UpTo ==
  ASSUME NEW N \in Nat, NEW S, 0 \in S, \A n \in 1..N : n - 1 \in S => n \in S
  PROVE  \A n \in 0..N : n \in S
<1> SUFFICES ASSUME NEW n \in 0..N, n \notin S PROVE FALSE
  OBVIOUS
<1> DEFINE Out == {i \in 0..N : i \notin S}
<1>1. Out \subseteq Nat /\ Out # {}
  OBVIOUS
<1>2. PICK least \in Out : \A i \in Out : ~(<<i, least>> \in OpToRel(<, Nat))
  BY <1>1, NatLessThanWellFounded, WFMin
<1>3. least \in 0..N /\ least \notin S
  OBVIOUS
<1>4. least \in 1..N /\ least - 1 \in 0..N /\ least - 1 < least
  BY ONLY <1>3, N \in Nat, 0 \in S
<1>5. least - 1 \notin S
  BY <1>3, <1>4
<1>6. least - 1 \in Out
  BY ONLY <1>4, <1>5 DEF Out
<1>7. <<least - 1, least>> \in OpToRel(<, Nat)
  BY <1>4 DEF OpToRel
<1> QED BY <1>2, <1>6, <1>7

\* A set of changes that is not empty has a newest one, and Max is it.
LEMMA MaxOfSome ==
  ASSUME NEW N \in Nat, NEW S \in SUBSET (1..N), S # {}
  PROVE  /\ Max(S) \in S
         /\ \A x \in S : x <= Max(S)
<1> DEFINE Low == {n \in 0..N : (\E x \in S : x <= n) => \E x \in S : \A y \in S : y <= n => y <= x}
<1>1. 0 \in Low
  OBVIOUS
<1>2. ASSUME NEW n \in 1..N, n - 1 \in Low
      PROVE  n \in Low
  <2>1. CASE n \in S
    BY <2>1
  <2>2. CASE n \notin S
    <3>1. \A y \in S : y <= n => y <= n - 1
      BY <2>2
    <3>2. (\E x \in S : x <= n - 1) => \E x \in S : \A y \in S : y <= n - 1 => y <= x
      BY <1>2
    <3> QED BY <3>1, <3>2
  <2> QED BY <2>1, <2>2
<1> HIDE DEF Low
<1>3. N \in Low
  BY <1>1, <1>2, UpTo
<1>4. PICK x \in S : \A y \in S : x >= y
  <2>1. PICK s \in S : TRUE
    OBVIOUS
  <2>2. \A y \in S : y \in Nat /\ y <= N
    OBVIOUS
  <2>3. \E x \in S : \A y \in S : y <= N => y <= x
    BY <1>3, <2>1, <2>2 DEF Low
  <2> QED BY <2>2, <2>3
<1>5. Max(S) = CHOOSE z \in S : \A y \in S : z >= y
  BY DEF Max
<1>6. Max(S) \in S /\ \A y \in S : Max(S) >= y
  BY <1>4, <1>5
<1> QED BY <1>6

\* The newest of some changes.
LEMMA Newest ==
  ASSUME LayersAssumption, DWTypeOK, NEW S \in SUBSET DOMAIN made, S # {}
  PROVE  /\ Max(S) \in S
         /\ Max(S) \in DOMAIN made
         /\ \A x \in S : x <= Max(S)
BY MadeFacts, MaxOfSome

\* The fields of a book.
LEMMA BookFields ==
  ASSUME NEW m \in Books
  PROVE  /\ m.status \in [Revisions -> {"open", "done", "failed", "gone"}]
         /\ m.pending \in [Keys -> {0} \cup DOMAIN made]
         /\ m.restore \in [Keys -> SUBSET (Layers \X BOOLEAN)]
         /\ m.origin \in [Keys -> {0} \cup DOMAIN made]
         /\ m.shown \in [Layers -> BOOLEAN]
         /\ m.db \in [Layers -> BOOLEAN]
         /\ m.queue \in Seq(DOMAIN made)
         /\ \A k \in Keys : Scope(m, k) \subseteq Layers
<1>1. \A k \in Keys : Scope(m, k) \subseteq Layers
  BY DEF Books, Scope
<1> QED BY <1>1 DEF Books

\* Drop: the states of the keys are gone, and nothing else changes.
LEMMA DropFields ==
  ASSUME LayersAssumption, DWTypeOK, NEW m \in Books, NEW ks
  PROVE  /\ Drop(m, ks) \in Books
         /\ \A r \in DOMAIN made : Drop(m, ks).status[r] = IF made[r].key \in ks THEN "gone" ELSE m.status[r]
         /\ \A k \in Keys : Drop(m, ks).restore[k] = IF k \in ks THEN {} ELSE m.restore[k]
         /\ Drop(m, ks).pending = m.pending
         /\ Drop(m, ks).shown = m.shown
         /\ Drop(m, ks).db = m.db
         /\ Drop(m, ks).queue = m.queue
<1> DEFINE status == [r \in Revisions |-> IF \E k \in ks : r \in Revs(m, k) THEN "gone" ELSE m.status[r]]
           restore == [k \in Keys |-> IF k \in ks THEN {} ELSE m.restore[k]]
           origin == [k \in Keys |-> IF k \in ks THEN 0 ELSE m.origin[k]]
<1>1. /\ status \in [Revisions -> {"open", "done", "failed", "gone"}]
      /\ restore \in [Keys -> SUBSET (Layers \X BOOLEAN)]
      /\ origin \in [Keys -> {0} \cup DOMAIN made]
  BY BookFields
<1>2. \A r \in DOMAIN made : status[r] = IF made[r].key \in ks THEN "gone" ELSE m.status[r]
  BY MadeFacts, BookFields DEF Revs
<1>3. Drop(m, ks) = [m EXCEPT !.status = status, !.restore = restore, !.origin = origin]
  BY DEF Drop
<1> HIDE DEF status, restore, origin
<1>4. /\ Drop(m, ks) \in Books
      /\ Drop(m, ks).status = status
      /\ Drop(m, ks).restore = restore
      /\ Drop(m, ks).pending = m.pending
      /\ Drop(m, ks).shown = m.shown
      /\ Drop(m, ks).db = m.db
      /\ Drop(m, ks).queue = m.queue
  BY <1>1, <1>3 DEF Books
<1> QED BY <1>2, <1>4 DEF restore

\* Project changes only what is shown: each layer as its newest of these changes says.
LEMMA ProjectFields ==
  ASSUME LayersAssumption, DWTypeOK, NEW m \in Books, NEW rs \in SUBSET DOMAIN made
  PROVE  /\ Project(m, rs) \in Books
         /\ Project(m, rs).status = m.status
         /\ Project(m, rs).restore = m.restore
         /\ Project(m, rs).pending = m.pending
         /\ Project(m, rs).origin = m.origin
         /\ Project(m, rs).db = m.db
         /\ Project(m, rs).queue = m.queue
         /\ \A l \in Layers :
              Project(m, rs).shown[l] = IF {r \in rs : l \in made[r].scope} = {} THEN m.shown[l]
                                        ELSE made[Max({r \in rs : l \in made[r].scope})].show
<1> DEFINE shown == [l \in Layers |-> IF {r \in rs : l \in made[r].scope} = {} THEN m.shown[l]
                                      ELSE made[Max({r \in rs : l \in made[r].scope})].show]
<1>1. ASSUME NEW l \in Layers
      PROVE  shown[l] \in BOOLEAN
  <2>1. CASE {r \in rs : l \in made[r].scope} = {}
    BY <2>1, BookFields
  <2>2. CASE {r \in rs : l \in made[r].scope} # {}
    <3>1. Max({r \in rs : l \in made[r].scope}) \in DOMAIN made
      BY <2>2, Newest
    <3> QED BY <3>1, <2>2, MadeFacts
  <2> QED BY <2>1, <2>2
<1>2. shown \in [Layers -> BOOLEAN]
  BY <1>1
<1>3. Project(m, rs) = [m EXCEPT !.shown = shown]
  BY DEF Project
<1>4. \A l \in Layers : shown[l] = IF {r \in rs : l \in made[r].scope} = {} THEN m.shown[l]
                                   ELSE made[Max({r \in rs : l \in made[r].scope})].show
  OBVIOUS
<1> HIDE DEF shown
<1>5. /\ Project(m, rs) \in Books
      /\ Project(m, rs).status = m.status
      /\ Project(m, rs).restore = m.restore
      /\ Project(m, rs).pending = m.pending
      /\ Project(m, rs).origin = m.origin
      /\ Project(m, rs).db = m.db
      /\ Project(m, rs).queue = m.queue
      /\ Project(m, rs).shown = shown
  BY <1>2, <1>3 DEF Books
<1> QED BY <1>4, <1>5

\* Restored changes only what is shown.
LEMMA RestoredFields ==
  ASSUME NEW m \in Books, NEW ks
  PROVE  /\ Restored(m, ks) \in Books
         /\ Restored(m, ks).status = m.status
         /\ Restored(m, ks).restore = m.restore
         /\ Restored(m, ks).pending = m.pending
         /\ Restored(m, ks).origin = m.origin
         /\ Restored(m, ks).db = m.db
         /\ Restored(m, ks).queue = m.queue
<1> DEFINE mine(l) == {k \in ks : l \in Scope(m, k)}
           oldest(l) == CHOOSE k \in mine(l) : \A j \in mine(l) : m.origin[k] <= m.origin[j]
           shown == [l \in Layers |-> IF mine(l) = {} THEN m.shown[l]
                                      ELSE <<l, TRUE>> \in m.restore[oldest(l)]]
<1>1. ASSUME NEW l \in Layers
      PROVE  shown[l] \in BOOLEAN
  <2>1. (<<l, TRUE>> \in m.restore[oldest(l)]) \in BOOLEAN
    OBVIOUS
  <2>2. m.shown[l] \in BOOLEAN
    BY BookFields
  <2> QED BY <2>1, <2>2
<1>2. shown \in [Layers -> BOOLEAN]
  BY <1>1
<1>3. Restored(m, ks) = [m EXCEPT !.shown = shown]
  BY DEF Restored
<1> HIDE DEF shown
<1> QED BY <1>2, <1>3 DEF Books

-----------------------------------------------------------------------------
(* The states that are connected: those of the layers in the scope of All, *)
(* and that one; any other is alone.                                       *)

InAll(m, k) == k = All \/ k \in Scope(m, All)

LEMMA ConnectedIff ==
  ASSUME LayersAssumption, NEW m \in Books, NEW i \in Keys, NEW j \in Keys, Exists(m, i)
  PROVE  i \in Connected(m, j) <=> i = j \/ (InAll(m, i) /\ InAll(m, j))
BY DEF Connected, InAll, Keys

LEMMA ConnectedIsKeys ==
  ASSUME NEW m \in Books, NEW k \in Keys
  PROVE  /\ Connected(m, k) \subseteq Keys
         /\ ~InAll(m, k) => Connected(m, k) = {k}
         /\ InAll(m, k) => All \in Connected(m, k)
         /\ \A j \in Connected(m, k) : j = k \/ InAll(m, j)
<1>1. Scope(m, All) \subseteq Layers
  BY BookFields DEF Keys
<1> QED BY <1>1 DEF Connected, InAll, Keys

\* A state is shared if it is connected with another one.
LEMMA SharedMeansOther ==
  ASSUME LayersAssumption, NEW m \in Books, NEW k \in Keys, k \in Connected(m, k)
  PROVE  Cardinality(Connected(m, k)) > 1 <=> Connected(m, k) # {k}
<1>1. IsFiniteSet(Keys)
  BY FS_AddElement DEF LayersAssumption, Keys
<1>2. IsFiniteSet(Connected(m, k))
  BY <1>1, ConnectedIsKeys, FS_Subset
<1>3. Cardinality({k}) = 1
  BY FS_Singleton
<1>4. ASSUME Connected(m, k) # {k}
      PROVE  Cardinality(Connected(m, k)) > 1
  <2>1. {k} \subseteq Connected(m, k)
    OBVIOUS
  <2>2. PICK T : T = Connected(m, k)
    OBVIOUS
  <2>3. IsFiniteSet(T) /\ {k} \subseteq T /\ {k} # T
    BY <1>2, <1>4, <2>1, <2>2
  <2>4. Cardinality({k}) <= Cardinality(T) /\ Cardinality({k}) # Cardinality(T)
    BY ONLY <2>3, FS_Subset
  <2>5. Cardinality(T) \in Nat
    BY <2>3, FS_CardinalityType
  <2>6. Cardinality(T) > 1
    BY ONLY <1>3, <2>4, <2>5
  <2> QED BY <2>2, <2>6
<1> QED BY <1>3, <1>4

-----------------------------------------------------------------------------
(* How a state ends. c is the book n in which the states of the keys in    *)
(* gone, all connected with k, ended, and the retries of those in zero are *)
(* not pending any more. What remains of those connected with k is kept    *)
(* for a write.                                                            *)

Ended(n, c, k, gone, zero) ==
  /\ c \in Books
  /\ zero \subseteq gone
  /\ gone \subseteq Connected(n, k)
  /\ \A r \in DOMAIN made : c.status[r] = IF made[r].key \in gone THEN "gone" ELSE n.status[r]
  /\ \A j \in Keys : c.restore[j] = IF j \in gone THEN {} ELSE n.restore[j]
  /\ \A j \in Keys : c.pending[j] = IF j \in zero THEN 0 ELSE n.pending[j]
  /\ \A j \in zero : HasFailed(n, n.pending[j])
  /\ c.db = n.db
  /\ c.queue = n.queue
  /\ \A j \in Connected(n, k) \ gone :
       Exists(n, j) => n.pending[j] # 0 \/ (gone = {} /\ \E i \in Connected(n, k) : IsOpen(n, i))

\* States with an open revision do not end.
NoOpenEnds(n, k, gone) == gone # {} => \A j \in Connected(n, k) : ~IsOpen(n, j)

LEMMA KeptEnds ==
  ASSUME LayersAssumption, DWTypeOK, NEW n \in Books, NEW c, NEW k \in Keys, Exists(n, k),
         NEW gone \in SUBSET Keys, NEW zero, Ended(n, c, k, gone, zero),
         \A j \in Keys : Exists(n, j) => \/ n.pending[j] # 0
                                         \/ \E i \in Connected(n, j) : IsOpen(n, i)
                                         \/ j \in Connected(n, k)
  PROVE  KeptForWrite(c)
<1> SUFFICES ASSUME NEW j \in Keys, Exists(c, j)
             PROVE  c.pending[j] # 0 \/ \E i \in Connected(c, j) : IsOpen(c, i)
  BY DEF KeptForWrite
<1>0. c \in Books
  BY DEF Ended
<1>1. j \notin gone /\ Exists(n, j) /\ c.pending[j] = n.pending[j]
  BY DEF Ended, Exists, Revs
<1>2. \A i \in Keys : IsOpen(n, i) => Exists(n, i)
  BY DEF IsOpen, Exists
<1>3. \A i \in Keys : i \notin gone /\ IsOpen(n, i) => IsOpen(c, i)
  BY DEF Ended, IsOpen, Revs
<1>4. \A i \in Keys : IsOpen(c, i) => Exists(c, i)
  BY DEF IsOpen, Exists
<1>5. All \notin gone => \A i \in Keys : InAll(n, i) => InAll(c, i)
  <2>1. ASSUME All \notin gone
        PROVE  c.restore[All] = n.restore[All]
    BY <2>1 DEF Ended, Keys
  <2> QED BY <2>1 DEF InAll, Scope
<1>6. CASE j \in Connected(n, k)
  <2>1. CASE n.pending[j] # 0
    BY <1>1, <2>1
  <2>2. CASE gone = {} /\ \E i \in Connected(n, k) : IsOpen(n, i)
    <3>1. PICK i \in Connected(n, k) : IsOpen(n, i)
      BY <2>2
    <3>2. i \in Keys
      BY ConnectedIsKeys
    <3>3. IsOpen(c, i) /\ Exists(c, i) /\ Exists(n, i)
      BY <1>2, <1>3, <1>4, <2>2, <3>1, <3>2
    <3>4. i = j \/ (InAll(n, i) /\ InAll(n, j))
      BY <1>1, <1>6, <3>1, <3>2, <3>3, ConnectedIff
    <3>5. i = j \/ (InAll(c, i) /\ InAll(c, j))
      BY <1>5, <2>2, <3>2, <3>4
    <3>6. i \in Connected(c, j)
      BY <1>0, <3>2, <3>3, <3>5, ConnectedIff
    <3> QED BY <3>3, <3>6
  <2> QED BY <1>1, <1>6, <2>1, <2>2 DEF Ended
<1>7. CASE j \notin Connected(n, k) /\ n.pending[j] = 0
  <2>1. PICK i \in Connected(n, j) : IsOpen(n, i)
    BY <1>1, <1>7
  <2>2. i \in Keys /\ Exists(n, i)
    BY <1>2, <2>1, ConnectedIsKeys
  <2>3. i = j \/ (InAll(n, i) /\ InAll(n, j))
    BY <2>1, <2>2, ConnectedIff
  <2>4. ~(j = k \/ (InAll(n, j) /\ InAll(n, k)))
    BY <1>1, <1>7, ConnectedIff
  <2>5. i \notin gone
    <3>1. i \notin Connected(n, k)
      BY <2>2, <2>3, <2>4, ConnectedIff
    <3> QED BY <3>1 DEF Ended
  <2>6. IsOpen(c, i) /\ Exists(c, i)
    BY <1>3, <1>4, <2>1, <2>2, <2>5
  <2>7. InAll(n, j) => All \notin gone
    <3>1. ASSUME InAll(n, j), All \in gone
          PROVE  FALSE
      <4>1. All \in Connected(n, k)
        BY <3>1 DEF Ended
      <4>2. InAll(n, k)
        BY <4>1, ConnectedIsKeys DEF InAll
      <4> QED BY <2>4, <3>1, <4>2
    <3> QED BY <3>1
  <2>8. i = j \/ (InAll(c, i) /\ InAll(c, j))
    BY <1>5, <2>2, <2>3, <2>7
  <2>9. i \in Connected(c, j)
    BY <1>0, <2>2, <2>6, <2>8, ConnectedIff
  <2> QED BY <2>6, <2>9
<1> QED BY <1>1, <1>6, <1>7

LEMMA AfterIsMade ==
  ASSUME LayersAssumption, DWTypeOK, NEW m \in Books, NEW base \in DOMAIN made, NEW layers \in SUBSET Layers
  PROVE  After(m, base, layers) \subseteq DOMAIN made
<1>1. ASSUME NEW l \in layers, \E r \in Viable(m, l) : r > base
      PROVE  Max({r \in Viable(m, l) : r > base}) \in DOMAIN made
  <2>1. {r \in Viable(m, l) : r > base} \in SUBSET DOMAIN made
    BY DEF Viable, Revs
  <2> QED BY <1>1, <2>1, Newest
<1> QED BY <1>1 DEF After

LEMMA ShowFromFields ==
  ASSUME LayersAssumption, DWTypeOK, NEW m \in Books, NEW k \in Keys, NEW base \in DOMAIN made
  PROVE  /\ ShowFrom(m, k, base) \in Books
         /\ ShowFrom(m, k, base).status = m.status
         /\ ShowFrom(m, k, base).restore = m.restore
         /\ ShowFrom(m, k, base).pending = m.pending
         /\ ShowFrom(m, k, base).db = m.db
         /\ ShowFrom(m, k, base).queue = m.queue
<1> DEFINE rs == IF k = All THEN After(m, base, Scope(m, k)) ELSE {base}
<1>1. rs \in SUBSET DOMAIN made
  BY AfterIsMade, BookFields
<1>2. ShowFrom(m, k, base) = Project(m, rs)
  BY DEF ShowFrom
<1> HIDE DEF rs
<1> QED BY <1>1, <1>2, ProjectFields

\* All connected writes are over: their states end, but for those of retries.
LEMMA ReconciledEnds ==
  ASSUME LayersAssumption, DWTypeOK, NEW n \in Books, NEW k \in Keys,
         \A j \in Connected(n, k) : ~IsOpen(n, j)
  PROVE  \E gone, zero \in SUBSET Keys :
           /\ Ended(n, Reconciled(n, k), k, gone, zero)
           /\ ~HasFailed(n, n.pending[k]) /\ k \in Connected(n, k) => k \in gone
           /\ NoneFailed(n) => gone = Connected(n, k)
<1> DEFINE ks == Connected(n, k)
           rs == UNION {Revs(n, j) : j \in ks}
           done == {r \in rs : n.status[r] = "done"}
           before == IF \E r \in rs : n.status[r] = "failed" THEN Restored(n, ks) ELSE n
           shown == Project(before, done)
           Superseded(j) == /\ HasFailed(n, n.pending[j])
                            /\ \E r \in done : /\ r > n.pending[j]
                                               /\ made[r].scope \cap made[n.pending[j]].scope # {}
           ending == {j \in ks : ~HasFailed(n, n.pending[j]) \/ Superseded(j)}
           zero == {j \in ks : Superseded(j)}
           pending == [j \in Keys |-> IF j \in ks /\ Superseded(j) THEN 0 ELSE n.pending[j]]
           unpended == [shown EXCEPT !.pending = [j \in Keys |-> IF j \in ks /\ Superseded(j) THEN 0 ELSE @[j]]]
<1>1. done \in SUBSET DOMAIN made
  BY DEF Revs
<1>2. /\ before \in Books /\ before.status = n.status /\ before.restore = n.restore
      /\ before.pending = n.pending /\ before.db = n.db /\ before.queue = n.queue
  BY RestoredFields
<1>3. Reconciled(n, k) = Drop(unpended, ending)
  BY DEF Reconciled
<1>4. ks \subseteq Keys /\ ending \subseteq ks /\ zero \subseteq ending
  BY ConnectedIsKeys
<1>5. \A j \in zero : HasFailed(n, n.pending[j])
  OBVIOUS
<1>6. \A j \in ks \ ending : n.pending[j] # 0
  BY DEF HasFailed
<1>7. NoneFailed(n) => ending = ks
  <2>1. ASSUME NoneFailed(n), NEW j \in ks
        PROVE  ~HasFailed(n, n.pending[j])
    BY <1>4, <2>1, BookFields DEF NoneFailed, HasFailed
  <2> QED BY <2>1
<1>8. ~HasFailed(n, n.pending[k]) /\ k \in ks => k \in ending
  OBVIOUS
<1>9. /\ pending \in [Keys -> {0} \cup DOMAIN made]
      /\ \A j \in Keys : pending[j] = IF j \in zero THEN 0 ELSE n.pending[j]
  BY BookFields
<1> HIDE DEF done, before
<1>10. /\ shown \in Books /\ shown.status = n.status /\ shown.restore = n.restore
       /\ shown.pending = n.pending /\ shown.db = n.db /\ shown.queue = n.queue
  BY <1>1, <1>2, ProjectFields
<1> HIDE DEF shown
<1>11. unpended = [shown EXCEPT !.pending = pending]
  BY <1>10
<1> HIDE DEF pending, unpended, ending, zero, ks
<1>12. /\ unpended \in Books /\ unpended.status = n.status /\ unpended.restore = n.restore
       /\ unpended.pending = pending /\ unpended.db = n.db /\ unpended.queue = n.queue
  BY <1>9, <1>10, <1>11 DEF Books
<1>13. /\ Drop(unpended, ending) \in Books
       /\ \A r \in DOMAIN made : Drop(unpended, ending).status[r]
                                   = IF made[r].key \in ending THEN "gone" ELSE n.status[r]
       /\ \A j \in Keys : Drop(unpended, ending).restore[j]
                            = IF j \in ending THEN {} ELSE n.restore[j]
       /\ Drop(unpended, ending).pending = pending
       /\ Drop(unpended, ending).db = n.db
       /\ Drop(unpended, ending).queue = n.queue
  BY <1>12, DropFields
<1>14. Ended(n, Reconciled(n, k), k, ending, zero)
  BY <1>3, <1>4, <1>5, <1>6, <1>9, <1>13 DEF Ended, ks
<1> QED BY <1>4, <1>7, <1>8, <1>14 DEF ks

\* What End does in Settled: the state of k ends unless it or one connected is needed.
LEMMA DroppedEnds ==
  ASSUME LayersAssumption, DWTypeOK, NEW n \in Books, NEW c \in Books, NEW k \in Keys, NEW retain \in BOOLEAN,
         c.status = n.status, c.restore = n.restore, c.pending = n.pending,
         c.db = n.db, c.queue = n.queue,
         Exists(n, k),
         retain => IsOpen(n, k) \/ (n.pending[k] # 0 /\ Connected(n, k) = {k}) \/ OtherOpen(n, k),
         ~IsOpen(n, k) /\ ~OtherOpen(n, k) => Connected(n, k) = {k},
         IsOpen(n, k) => retain
  PROVE  LET d == Drop(c, IF retain \/ OtherOpen(n, k) THEN {} ELSE {k})
             gone == IF retain \/ OtherOpen(n, k) THEN {} ELSE {k}
         IN  /\ Ended(n, d, k, gone, {})
             /\ NoOpenEnds(n, k, gone)
             /\ gone = {} \/ gone = Connected(n, k)
             /\ retain \/ k \in gone \/ \E i \in Connected(n, k) : IsOpen(n, i)
<1> DEFINE gone == IF retain \/ OtherOpen(n, k) THEN {} ELSE {k}
           d == Drop(c, gone)
<1>1. k \in Connected(n, k)
  BY ConnectedIff
<1>2. gone # {} => ~IsOpen(n, k) /\ ~OtherOpen(n, k) /\ Connected(n, k) = {k} /\ gone = {k}
  OBVIOUS
<1>3. \A j \in Connected(n, k) \ gone :
        Exists(n, j) => n.pending[j] # 0 \/ (gone = {} /\ \E i \in Connected(n, k) : IsOpen(n, i))
  <2>1. CASE gone # {}
    BY <1>2, <2>1
  <2>2. CASE gone = {}
    <3>1. retain \/ OtherOpen(n, k)
      BY <2>2
    <3>2. IsOpen(n, k) \/ (n.pending[k] # 0 /\ Connected(n, k) = {k}) \/ OtherOpen(n, k)
      BY <3>1
    <3>3. OtherOpen(n, k) => \E i \in Connected(n, k) : IsOpen(n, i)
      BY DEF OtherOpen
    <3> QED BY <1>1, <2>2, <3>2, <3>3
  <2> QED BY <2>1, <2>2
<1>4. NoOpenEnds(n, k, gone) /\ (gone = {} \/ gone = Connected(n, k))
  BY <1>2 DEF NoOpenEnds
<1>5. retain \/ k \in gone \/ \E i \in Connected(n, k) : IsOpen(n, i)
  BY DEF OtherOpen
<1>6. gone \subseteq Connected(n, k)
  BY <1>1
<1> HIDE DEF gone
<1>7. /\ d \in Books
      /\ \A r \in DOMAIN made : d.status[r] = IF made[r].key \in gone THEN "gone" ELSE n.status[r]
      /\ \A j \in Keys : d.restore[j] = IF j \in gone THEN {} ELSE n.restore[j]
      /\ d.pending = n.pending /\ d.db = n.db /\ d.queue = n.queue
  BY DropFields
<1>8. Ended(n, d, k, gone, {})
  BY <1>3, <1>6, <1>7 DEF Ended
<1> QED BY <1>4, <1>5, <1>8 DEF gone

\* The rest of _complete_visual_revision, of a revision that is over.
LEMMA SettledEnds ==
  ASSUME LayersAssumption, DWTypeOK, NEW n \in Books, NEW r \in DOMAIN made,
         n.status[r] \in {"done", "failed"},
         ~(/\ made[r].key = All \/ Cardinality(Connected(n, made[r].key)) > 1
           /\ \A j \in Connected(n, made[r].key) : ~IsOpen(n, j))
  PROVE  \E gone \in SUBSET Keys :
           /\ Ended(n, Settled(n, made[r].key, r), made[r].key, gone, {})
           /\ NoOpenEnds(n, made[r].key, gone)
           /\ gone = {} \/ gone = Connected(n, made[r].key)
           /\ n.status[r] = "done" =>
                made[r].key \in gone \/ \E i \in Connected(n, made[r].key) : IsOpen(n, i)
<1> DEFINE k == made[r].key
           ks == Connected(n, k)
           newer == {q \in Viable(n, k) \cup
                            (IF k \in Scope(n, All) THEN Viable(n, All) ELSE {}) : q > r}
           done == {q \in Revs(n, k) : n.status[q] = "done"}
           End(c, retain) == Drop(c, IF retain \/ OtherOpen(n, k) THEN {} ELSE {k})
           Goal(c) == \E gone \in SUBSET Keys :
                        /\ Ended(n, c, k, gone, {})
                        /\ NoOpenEnds(n, k, gone)
                        /\ gone = {} \/ gone = ks
                        /\ n.status[r] = "done" => k \in gone \/ \E i \in ks : IsOpen(n, i)
           first == ShowFrom(n, made[Max(newer)].key, Max(newer))
           second == ShowFrom(n, k, Max(Viable(n, k)))
           third == ShowFrom(n, k, Max(done))
           fourth == Project(Restored(n, {k}), IF k = All THEN After(n, r, Scope(n, k)) \ {r} ELSE {})
<1>1. k \in Keys /\ r \in Revs(n, k) /\ Exists(n, k)
  BY MadeFacts DEF Revs, Exists
<1>2. k \in ks /\ ks \subseteq Keys
  BY <1>1, ConnectedIff, ConnectedIsKeys
<1>3. ~IsOpen(n, k) /\ ~OtherOpen(n, k) => ks = {k}
  <2>1. ASSUME ~IsOpen(n, k), ~OtherOpen(n, k)
        PROVE  \A j \in ks : ~IsOpen(n, j)
    BY <2>1 DEF OtherOpen
  <2> QED BY <1>1, <1>2, <2>1, SharedMeansOther
<1>4. /\ newer \in SUBSET DOMAIN made
      /\ Viable(n, k) \in SUBSET DOMAIN made
      /\ done \in SUBSET DOMAIN made
  BY DEF Viable, Revs
<1>5. n.status[r] = "done" => done # {}
  BY <1>1
<1>6. IsOpen(n, k) => Viable(n, k) # {}
  BY DEF IsOpen, Viable
<1>7. Settled(n, k, r) = IF k # All /\ newer # {} THEN End(first, IsOpen(n, k))
                         ELSE IF IsOpen(n, k) THEN second
                         ELSE IF done # {} THEN End(third, FALSE)
                         ELSE End(fourth, n.pending[k] = r)
  BY DEF Settled
<1>8. r \in Nat \ {0}
  BY MadeFacts
<1> HIDE DEF newer, done
<1>9. ASSUME NEW c \in Books, NEW retain \in BOOLEAN,
             c.status = n.status, c.restore = n.restore, c.pending = n.pending,
             c.db = n.db, c.queue = n.queue,
             retain => IsOpen(n, k) \/ (n.pending[k] = r /\ n.status[r] # "done"),
             IsOpen(n, k) => retain
      PROVE  Goal(End(c, retain))
  <2>1. retain => IsOpen(n, k) \/ (n.pending[k] # 0 /\ ks = {k}) \/ OtherOpen(n, k)
    BY <1>3, <1>8, <1>9
  <2>2. PICK gone : gone = IF retain \/ OtherOpen(n, k) THEN {} ELSE {k}
    OBVIOUS
  <2>3. /\ Ended(n, End(c, retain), k, gone, {})
        /\ NoOpenEnds(n, k, gone)
        /\ gone = {} \/ gone = ks
        /\ retain \/ k \in gone \/ \E i \in ks : IsOpen(n, i)
    BY <1>1, <1>3, <1>9, <2>1, <2>2, DroppedEnds
  <2>4. n.status[r] = "done" => k \in gone \/ \E i \in ks : IsOpen(n, i)
    BY <1>2, <1>9, <2>3
  <2>5. gone \in SUBSET Keys
    BY <1>1, <2>2
  <2> QED BY <2>3, <2>4, <2>5
<1>10. CASE k # All /\ newer # {}
  <2>1. Max(newer) \in DOMAIN made
    BY <1>4, <1>10, Newest
  <2>2. made[Max(newer)].key \in Keys
    BY <2>1, MadeFacts
  <2>3. /\ first \in Books /\ first.status = n.status /\ first.restore = n.restore
        /\ first.pending = n.pending /\ first.db = n.db /\ first.queue = n.queue
    BY <2>1, <2>2, ShowFromFields
  <2> HIDE DEF first, Goal
  <2>4. IsOpen(n, k) \in BOOLEAN
    BY DEF IsOpen
  <2>5. Goal(End(first, IsOpen(n, k)))
    BY <1>9, <2>3, <2>4
  <2> QED BY <1>7, <1>10, <2>5 DEF Goal
<1>11. CASE ~(k # All /\ newer # {}) /\ IsOpen(n, k)
  <2>1. Max(Viable(n, k)) \in DOMAIN made
    BY <1>4, <1>6, <1>11, Newest
  <2>2. /\ second \in Books /\ second.status = n.status /\ second.restore = n.restore
        /\ second.pending = n.pending /\ second.db = n.db /\ second.queue = n.queue
    BY <1>1, <2>1, ShowFromFields
  <2> HIDE DEF second
  <2>3. Settled(n, k, r) = second
    BY <1>7, <1>11
  <2>4. Ended(n, second, k, {}, {})
    BY <1>2, <1>11, <2>2 DEF Ended
  <2>5. NoOpenEnds(n, k, {})
    BY DEF NoOpenEnds
  <2> QED BY <1>2, <1>11, <2>3, <2>4, <2>5
<1>12. CASE ~(k # All /\ newer # {}) /\ ~IsOpen(n, k) /\ done # {}
  <2>1. Max(done) \in DOMAIN made
    BY <1>4, <1>12, Newest
  <2>2. /\ third \in Books /\ third.status = n.status /\ third.restore = n.restore
        /\ third.pending = n.pending /\ third.db = n.db /\ third.queue = n.queue
    BY <1>1, <2>1, ShowFromFields
  <2> HIDE DEF third, Goal
  <2>3. Goal(End(third, FALSE))
    BY <1>9, <1>12, <2>2
  <2> QED BY <1>7, <1>12, <2>3 DEF Goal
<1>13. CASE ~(k # All /\ newer # {}) /\ ~IsOpen(n, k) /\ done = {}
  <2> DEFINE rs == IF k = All THEN After(n, r, Scope(n, k)) \ {r} ELSE {}
             restored == Restored(n, {k})
  <2>1. rs \in SUBSET DOMAIN made
    BY <1>1, AfterIsMade, BookFields
  <2>2. /\ restored \in Books /\ restored.status = n.status /\ restored.restore = n.restore
        /\ restored.pending = n.pending /\ restored.db = n.db /\ restored.queue = n.queue
    BY RestoredFields
  <2>3. fourth = Project(restored, rs)
    OBVIOUS
  <2> HIDE DEF rs, restored, fourth
  <2>4. /\ fourth \in Books /\ fourth.status = n.status /\ fourth.restore = n.restore
        /\ fourth.pending = n.pending /\ fourth.db = n.db /\ fourth.queue = n.queue
    BY <2>1, <2>2, <2>3, ProjectFields
  <2>5. (n.pending[k] = r) \in BOOLEAN
    OBVIOUS
  <2> HIDE DEF Goal
  <2>6. Goal(End(fourth, n.pending[k] = r))
    BY <1>5, <1>9, <1>13, <2>4, <2>5
  <2> QED BY <1>7, <1>13, <2>6 DEF Goal
<1> QED BY <1>10, <1>11, <1>12, <1>13

\* _complete_visual_revision of an open revision: n is the book in which it is over.
LEMMA CompleteEnds ==
  ASSUME LayersAssumption, DWTypeOK, NEW m \in Books, NEW r \in DOMAIN made,
         m.status[r] = "open", NEW success \in BOOLEAN
  PROVE  \E n \in Books, gone, zero \in SUBSET Keys :
           /\ n.status = [m.status EXCEPT ![r] = IF success THEN "done" ELSE "failed"]
           /\ n.restore = m.restore /\ n.pending = m.pending
           /\ n.db = m.db /\ n.queue = m.queue
           /\ Exists(n, made[r].key)
           /\ Ended(n, Complete(m, r, success), made[r].key, gone, zero)
           /\ NoOpenEnds(n, made[r].key, gone)
           /\ success /\ m.pending[made[r].key] = r =>
                \/ made[r].key \in gone
                \/ \E i \in Connected(n, made[r].key) : IsOpen(n, i)
           /\ NoneFailed(n) => gone = {} \/ gone = Connected(n, made[r].key)
<1> DEFINE k == made[r].key
           status == [m.status EXCEPT ![r] = IF success THEN "done" ELSE "failed"]
<1>1. r \in Revisions /\ k \in Keys
  BY MadeFacts
<1>2. PICK n : n = [m EXCEPT !.status = status]
  OBVIOUS
<1>3. status \in [Revisions -> {"open", "done", "failed", "gone"}]
  BY <1>1, BookFields
<1> HIDE DEF status
<1>4. /\ n \in Books /\ n.status = status
      /\ n.restore = m.restore /\ n.pending = m.pending
      /\ n.db = m.db /\ n.queue = m.queue
  BY <1>2, <1>3 DEF Books
<1>5. [m EXCEPT !.status[r] = IF success THEN "done" ELSE "failed"] = n
  BY <1>2 DEF status, Books
<1>6. n.status[r] = IF success THEN "done" ELSE "failed"
  BY <1>1, <1>4, BookFields DEF status
<1>7. Exists(n, k)
  BY <1>6 DEF Exists, Revs
<1>8. k \in Connected(n, k)
  BY <1>1, <1>4, <1>7, ConnectedIff
<1>9. Complete(m, r, success)
        = IF (k = All \/ Cardinality(Connected(n, k)) > 1) /\ \A j \in Connected(n, k) : ~IsOpen(n, j)
          THEN Reconciled(n, k) ELSE Settled(n, k, r)
  BY <1>5 DEF Complete
<1>10. CASE (k = All \/ Cardinality(Connected(n, k)) > 1) /\ \A j \in Connected(n, k) : ~IsOpen(n, j)
  <2>1. PICK gone, zero \in SUBSET Keys :
           /\ Ended(n, Reconciled(n, k), k, gone, zero)
           /\ ~HasFailed(n, n.pending[k]) /\ k \in Connected(n, k) => k \in gone
           /\ NoneFailed(n) => gone = Connected(n, k)
    BY <1>1, <1>4, <1>10, ReconciledEnds
  <2>2. success /\ m.pending[k] = r => k \in gone
    BY <1>4, <1>6, <1>8, <2>1 DEF HasFailed
  <2>3. NoOpenEnds(n, k, gone)
    BY <1>10 DEF NoOpenEnds
  <2> QED BY <1>4, <1>7, <1>9, <1>10, <2>1, <2>2, <2>3 DEF status
<1>11. CASE ~((k = All \/ Cardinality(Connected(n, k)) > 1) /\ \A j \in Connected(n, k) : ~IsOpen(n, j))
  <2>1. PICK gone \in SUBSET Keys :
           /\ Ended(n, Settled(n, k, r), k, gone, {})
           /\ NoOpenEnds(n, k, gone)
           /\ gone = {} \/ gone = Connected(n, k)
           /\ n.status[r] = "done" => k \in gone \/ \E i \in Connected(n, k) : IsOpen(n, i)
    BY <1>4, <1>6, <1>11, SettledEnds
  <2>2. {} \in SUBSET Keys
    OBVIOUS
  <2>3. success => k \in gone \/ \E i \in Connected(n, k) : IsOpen(n, i)
    BY <1>6, <2>1
  <2>4. Complete(m, r, success) = Settled(n, k, r)
    BY <1>9, <1>11
  <2> QED BY <1>4, <1>7, <2>1, <2>2, <2>3, <2>4 DEF status
<1> QED BY <1>10, <1>11

\* c is m after some writes ended, of which only that of r was open.
Shrinks(m, c, r) ==
  /\ c \in Books
  /\ \A q \in DOMAIN made : c.status[q] = "open" <=> m.status[q] = "open" /\ q # r
  /\ \E gone \in SUBSET Keys : \A q \in DOMAIN made :
       c.status[q] = "gone" <=> m.status[q] = "gone" \/ made[q].key \in gone
  /\ \A j \in Keys : c.pending[j] # m.pending[j] =>
       c.pending[j] = 0 /\ (m.pending[j] = r \/ HasFailed(m, m.pending[j]))
  /\ c.queue = m.queue
  /\ ScopesNest(m) => ScopesNest(c)
  /\ NoEmptyState(m) => NoEmptyState(c)

\* No state of k is left that no other write needs.
Released(c, k) == ~Exists(c, k) \/ \E i \in Connected(c, k) : IsOpen(c, i)

LEMMA EndedReleases ==
  ASSUME LayersAssumption, DWTypeOK, NEW n \in Books, NEW c, NEW k \in Keys, Exists(n, k),
         NEW gone \in SUBSET Keys, NEW zero, Ended(n, c, k, gone, zero), NoOpenEnds(n, k, gone),
         k \in gone \/ \E i \in Connected(n, k) : IsOpen(n, i)
  PROVE  Released(c, k)
<1>1. CASE k \in gone
  BY <1>1 DEF Ended, Released, Exists, Revs
<1>2. CASE k \notin gone
  <2>1. PICK i \in Connected(n, k) : IsOpen(n, i)
    BY <1>2
  <2>2. gone = {}
    BY <2>1 DEF NoOpenEnds
  <2>3. i \in Keys /\ Exists(n, i)
    BY <2>1, ConnectedIsKeys DEF IsOpen, Exists
  <2>4. IsOpen(c, i) /\ Exists(c, i)
    BY <2>1, <2>2, <2>3 DEF Ended, IsOpen, Revs, Exists
  <2>5. \A j \in Keys : c.restore[j] = n.restore[j]
    BY <2>2 DEF Ended
  <2>6. \A j \in Keys : InAll(n, j) <=> InAll(c, j)
    BY <2>5 DEF InAll, Scope, Keys
  <2>7. i = k \/ (InAll(n, i) /\ InAll(n, k))
    BY <2>1, <2>3, ConnectedIff
  <2>8. i = k \/ (InAll(c, i) /\ InAll(c, k))
    BY <2>3, <2>6, <2>7
  <2>9. i \in Connected(c, k)
    BY <2>3, <2>4, <2>8, ConnectedIff DEF Ended
  <2> QED BY <2>4, <2>9 DEF Released
<1> QED BY <1>1, <1>2

LEMMA EndedNests ==
  ASSUME NEW n, NEW c, NEW k, DWTypeOK, LayersAssumption,
         NEW gone, NEW zero, Ended(n, c, k, gone, zero), ScopesNest(n)
  PROVE  ScopesNest(c)
<1> SUFFICES ASSUME NEW q \in DOMAIN made, c.status[q] # "gone"
             PROVE  made[q].scope \subseteq Scope(c, made[q].key)
  BY DEF ScopesNest
<1>1. made[q].key \in Keys
  BY MadeFacts
<1>2. made[q].key \notin gone /\ n.status[q] # "gone"
  BY DEF Ended
<1>3. c.restore[made[q].key] = n.restore[made[q].key]
  BY <1>1, <1>2 DEF Ended
<1> QED BY <1>2, <1>3 DEF ScopesNest, Scope

LEMMA EndedIsWhole ==
  ASSUME NEW n, NEW c, NEW k, DWTypeOK, LayersAssumption,
         NEW gone, NEW zero, Ended(n, c, k, gone, zero), NoEmptyState(n)
  PROVE  NoEmptyState(c)
<1> SUFFICES ASSUME NEW j \in Keys, ~Exists(c, j), j \notin gone
             PROVE  n.restore[j] = {}
  BY DEF NoEmptyState, Ended
<1>1. ~Exists(n, j)
  BY DEF Ended, Exists, Revs
<1> QED BY <1>1 DEF NoEmptyState

LEMMA CompleteShrinks ==
  ASSUME LayersAssumption, DWTypeOK, NEW m \in Books, NEW r \in DOMAIN made, NEW success \in BOOLEAN
  PROVE  LET c == Complete(m, r, success)
         IN  /\ Shrinks(m, c, r)
             /\ c.db = m.db
             /\ KeptForWrite(m) => KeptForWrite(c)
             /\ success /\ m.status[r] = "open" /\ m.pending[made[r].key] = r => Released(c, made[r].key)
<1> DEFINE c == Complete(m, r, success)
           k == made[r].key
<1>1. CASE m.status[r] # "open"
  <2>1. c = m
    BY <1>1 DEF Complete
  <2>2. \A q \in DOMAIN made : c.status[q] = "gone" <=> m.status[q] = "gone" \/ made[q].key \in {}
    BY <2>1
  <2>3. {} \in SUBSET Keys
    OBVIOUS
  <2> QED BY <1>1, <2>1, <2>2, <2>3 DEF Shrinks
<1>2. CASE m.status[r] = "open"
  <2>1. PICK n \in Books, gone \in SUBSET Keys, zero \in SUBSET Keys :
           /\ n.status = [m.status EXCEPT ![r] = IF success THEN "done" ELSE "failed"]
           /\ n.restore = m.restore /\ n.pending = m.pending
           /\ n.db = m.db /\ n.queue = m.queue
           /\ Exists(n, made[r].key)
           /\ Ended(n, Complete(m, r, success), made[r].key, gone, zero)
           /\ NoOpenEnds(n, made[r].key, gone)
           /\ success /\ m.pending[made[r].key] = r =>
                \/ made[r].key \in gone
                \/ \E i \in Connected(n, made[r].key) : IsOpen(n, i)
    BY <1>2, CompleteEnds
  <2> HIDE DEF c
  <2>2. Ended(n, c, k, gone, zero)
    BY <2>1 DEF c
  <2>3. r \in Revisions /\ k \in Keys /\ \A q \in DOMAIN made : q \in Revisions /\ made[q].key \in Keys
    BY MadeFacts
  <2>4. /\ \A q \in DOMAIN made : q # r => n.status[q] = m.status[q]
        /\ n.status[r] = IF success THEN "done" ELSE "failed"
    BY <2>1, <2>3, BookFields
  <2>5. \A q \in DOMAIN made : n.status[q] = "open" <=> m.status[q] = "open" /\ q # r
    BY <2>4
  <2>6. \A q \in DOMAIN made : n.status[q] # "gone" <=> m.status[q] # "gone"
    BY <1>2, <2>4
  <2>7. \A j \in gone, q \in DOMAIN made : made[q].key = j => n.status[q] # "open"
    <3>1. ASSUME NEW j \in gone, NEW q \in DOMAIN made, made[q].key = j, n.status[q] = "open"
          PROVE  FALSE
      <4>1. IsOpen(n, j)
        BY <3>1 DEF IsOpen, Revs
      <4> QED BY <2>1, <2>2, <4>1 DEF Ended, NoOpenEnds
    <3> QED BY <3>1
  <2>8. \A q \in DOMAIN made : c.status[q] = "open" <=> m.status[q] = "open" /\ q # r
    BY <2>2, <2>5, <2>7 DEF Ended
  <2>9. \A q \in DOMAIN made :
          c.status[q] = "gone" <=> m.status[q] = "gone" \/ made[q].key \in gone
    BY <2>2, <2>6 DEF Ended
  <2>10. \A j \in Keys : c.pending[j] # m.pending[j] =>
           c.pending[j] = 0 /\ (m.pending[j] = r \/ HasFailed(m, m.pending[j]))
    <3>1. ASSUME NEW j \in Keys, c.pending[j] # m.pending[j]
          PROVE  c.pending[j] = 0 /\ (m.pending[j] = r \/ HasFailed(m, m.pending[j]))
      <4>1. c.pending[j] = 0 /\ HasFailed(n, m.pending[j])
        BY <2>1, <2>2, <3>1 DEF Ended
      <4>2. m.pending[j] \in DOMAIN made
        BY <4>1, BookFields DEF HasFailed
      <4> QED BY <2>4, <4>1, <4>2 DEF HasFailed
    <3> QED BY <3>1
  <2>11. ScopesNest(m) => ScopesNest(c)
    <3>1. ASSUME ScopesNest(m)
          PROVE  ScopesNest(n)
      BY <2>1, <2>6, <3>1 DEF ScopesNest, Scope
    <3> QED BY <2>2, <3>1, EndedNests
  <2>12. Shrinks(m, c, r)
    <3>1. NoEmptyState(m) => NoEmptyState(c)
      <4>1. ASSUME NoEmptyState(m)
            PROVE  NoEmptyState(n)
        BY <2>1, <2>6, <4>1 DEF NoEmptyState, Exists, Revs
      <4> QED BY <2>2, <4>1, EndedIsWhole
    <3> QED BY <2>1, <2>2, <2>8, <2>9, <2>10, <2>11, <3>1 DEF Shrinks, Ended
  <2>13. KeptForWrite(m) => KeptForWrite(c)
    <3> SUFFICES ASSUME KeptForWrite(m) PROVE KeptForWrite(c)
      OBVIOUS
    <3>1. \A j \in Keys : Exists(n, j) <=> Exists(m, j)
      BY <2>6 DEF Exists, Revs
    <3>2. \A j \in Keys : Scope(n, j) = Scope(m, j)
      BY <2>1 DEF Scope
    <3>3. \A j \in Keys : InAll(n, j) <=> InAll(m, j)
      BY <3>2 DEF InAll, Keys
    <3>4. ASSUME NEW j \in Keys, Exists(n, j), n.pending[j] = 0, j \notin Connected(n, k)
          PROVE  \E i \in Connected(n, j) : IsOpen(n, i)
      <4>1. PICK i \in Connected(m, j) : IsOpen(m, i)
        BY <2>1, <3>1, <3>4 DEF KeptForWrite
      <4>2. i \in Keys /\ Exists(m, i)
        BY <4>1, ConnectedIsKeys DEF IsOpen, Exists
      <4>3. i = j \/ (InAll(n, i) /\ InAll(n, j))
        BY <3>3, <4>1, <4>2, ConnectedIff
      <4>4. i \in Connected(n, j)
        BY <3>1, <4>2, <4>3, ConnectedIff
      <4>5. i # k
        BY <2>1, <2>3, <3>4, <4>3, ConnectedIff
      <4>6. IsOpen(n, i)
        BY <2>4, <4>1, <4>5 DEF IsOpen, Revs
      <4> QED BY <4>4, <4>6
    <3> QED BY <2>1, <2>2, <2>3, <3>4, KeptEnds
  <2>14. success /\ m.pending[k] = r => Released(c, k)
    BY <2>1, <2>2, <2>3, EndedReleases
  <2> QED BY <2>1, <2>2, <2>12, <2>13, <2>14 DEF Ended, c
<1> QED BY <1>1, <1>2

\* _discard_terminal_visual_state: what is left of k is for another write that is open.
LEMMA DiscardShrinks ==
  ASSUME LayersAssumption, DWTypeOK, NEW m \in Books, NEW k \in Keys, NEW d, d = DiscardTerminal(m, k)
  PROVE  /\ d \in Books
         /\ \A q \in DOMAIN made : d.status[q] = "open" <=> m.status[q] = "open"
         /\ \E gone \in SUBSET Keys : \A q \in DOMAIN made :
              d.status[q] = "gone" <=> m.status[q] = "gone" \/ made[q].key \in gone
         /\ d.pending = m.pending /\ d.queue = m.queue /\ d.db = m.db
         /\ ScopesNest(m) => ScopesNest(d)
         /\ NoEmptyState(m) => NoEmptyState(d)
         /\ KeptForWrite(m) => KeptForWrite(d)
         /\ Released(d, k)
<1> DEFINE ks == Connected(m, k)
<1>1. CASE ~Exists(m, k) \/ \E j \in ks : IsOpen(m, j)
  <2>1. d = m
    BY <1>1 DEF DiscardTerminal
  <2>2. \A q \in DOMAIN made : d.status[q] = "gone" <=> m.status[q] = "gone" \/ made[q].key \in {}
    BY <2>1
  <2>3. {} \in SUBSET Keys
    OBVIOUS
  <2>4. Released(m, k)
    BY <1>1 DEF Released
  <2> QED BY <2>1, <2>2, <2>3, <2>4
<1>2. CASE Exists(m, k) /\ \A j \in ks : ~IsOpen(m, j)
  <2>1. d = Drop(m, ks)
    BY <1>2 DEF DiscardTerminal
  <2>2. ks \in SUBSET Keys /\ k \in ks
    BY <1>2, ConnectedIsKeys, ConnectedIff
  <2> HIDE DEF ks
  <2>3. /\ d \in Books
        /\ \A q \in DOMAIN made : d.status[q] = IF made[q].key \in ks THEN "gone" ELSE m.status[q]
        /\ \A j \in Keys : d.restore[j] = IF j \in ks THEN {} ELSE m.restore[j]
        /\ d.pending = m.pending /\ d.queue = m.queue /\ d.db = m.db
    BY <2>1, DropFields
  <2>4. Ended(m, d, k, ks, {})
    BY <2>3 DEF Ended, ks
  <2>5. NoOpenEnds(m, k, ks)
    BY <1>2 DEF NoOpenEnds, ks
  <2>6. \A q \in DOMAIN made : made[q].key \in ks => m.status[q] # "open"
    BY <1>2 DEF IsOpen, Revs
  <2>7. \A q \in DOMAIN made : d.status[q] = "open" <=> m.status[q] = "open"
    BY <2>3, <2>6
  <2>8. \A q \in DOMAIN made : d.status[q] = "gone" <=> m.status[q] = "gone" \/ made[q].key \in ks
    BY <2>3
  <2>9. Released(d, k)
    BY <1>2, <2>2, <2>4, <2>5, EndedReleases
  <2>10. ScopesNest(m) => ScopesNest(d)
    BY <2>4, EndedNests
  <2>11. NoEmptyState(m) => NoEmptyState(d)
    BY <2>4, EndedIsWhole
  <2>12. KeptForWrite(m) => KeptForWrite(d)
    <3>1. ASSUME KeptForWrite(m)
          PROVE  \A j \in Keys : Exists(m, j) => \/ m.pending[j] # 0
                                                 \/ \E i \in Connected(m, j) : IsOpen(m, i)
                                                 \/ j \in Connected(m, k)
      BY <3>1 DEF KeptForWrite
    <3> QED BY <1>2, <2>2, <2>4, <3>1, KeptEnds
  <2> QED BY <2>2, <2>3, <2>7, <2>8, <2>9, <2>10, <2>11, <2>12
<1> QED BY <1>1, <1>2

LEMMA UnpendFields ==
  ASSUME LayersAssumption, DWTypeOK, NEW m \in Books, NEW r \in DOMAIN made
  PROVE  LET u == Unpend(m, r)
         IN  /\ u \in Books
             /\ u.status = m.status /\ u.restore = m.restore /\ u.origin = m.origin
             /\ u.queue = m.queue /\ u.db = m.db /\ u.shown = m.shown
             /\ \A j \in Keys : u.pending[j] =
                  IF j = made[r].key /\ m.pending[j] = r THEN 0 ELSE m.pending[j]
<1> DEFINE pending == [m.pending EXCEPT ![made[r].key] = IF @ = r THEN 0 ELSE @]
<1>1. /\ pending \in [Keys -> {0} \cup DOMAIN made]
      /\ \A j \in Keys : pending[j] = IF j = made[r].key /\ m.pending[j] = r THEN 0 ELSE m.pending[j]
  BY MadeFacts, BookFields
<1>2. Unpend(m, r) = [m EXCEPT !.pending = pending]
  BY DEF Unpend, Books
<1> HIDE DEF pending
<1> QED BY <1>1, <1>2 DEF Books

\* A flush after the turns of the first n changes.
Stage(m, n) ==
  /\ m \in Books
  /\ PendingIsOwn(m)
  /\ OpenHasResult(m)
  /\ NoEmptyState(m)
  /\ ScopesNest(m)
  /\ ~sql => m.queue = <<>>
  /\ ~sql => \A r \in DOMAIN made : m.status[r] = "open" => r > n
  /\ others = 0 => KeptForWrite(m)

\* A turn in which the write of n is over, or is not open any more.
LEMMA ShrunkStage ==
  ASSUME LayersAssumption, DWTypeOK, NEW m, NEW n \in DOMAIN made, Stage(m, n - 1),
         NEW u, Shrinks(m, u, n), sql => u.pending[made[n].key] # n,
         others = 0 => KeptForWrite(u)
  PROVE  Stage(u, n)
<1>1. m \in Books /\ u \in Books /\ n \in Nat \ {0} /\ made[n].key \in Keys
  BY MadeFacts DEF Stage, Shrinks
<1>2. \A j \in Keys : u.pending[j] # 0 => u.pending[j] = m.pending[j]
  BY DEF Shrinks
<1>3. \A r : InQueue(u, r) <=> InQueue(m, r)
  BY DEF InQueue, Shrinks
<1>4. PICK gone \in SUBSET Keys : \A q \in DOMAIN made :
         u.status[q] = "gone" <=> m.status[q] = "gone" \/ made[q].key \in gone
  BY DEF Shrinks
<1>5. \A j \in Keys : Exists(u, j) => Exists(m, j)
  BY <1>4 DEF Exists, Revs
<1>6. PendingIsOwn(u)
  <2> SUFFICES ASSUME NEW k \in Keys, u.pending[k] # 0
               PROVE  /\ made[u.pending[k]].key = k
                      /\ ~InQueue(u, u.pending[k])
                      /\ ~Answered(u.pending[k])
                      /\ Exists(u, k) => u.status[u.pending[k]] # "gone"
                      /\ sql => u.status[u.pending[k]] = "open"
    BY DEF PendingIsOwn
  <2>1. PICK p : p = u.pending[k]
    OBVIOUS
  <2>2. p = m.pending[k] /\ p # 0 /\ p \in DOMAIN made
    BY <1>1, <1>2, <2>1, BookFields
  <2>3. /\ made[p].key = k /\ ~InQueue(m, p) /\ ~Answered(p)
        /\ Exists(m, k) => m.status[p] # "gone"
        /\ sql => m.status[p] = "open"
    BY <2>2 DEF Stage, PendingIsOwn
  <2>4. Exists(u, k) => u.status[p] # "gone"
    <3>1. ASSUME Exists(u, k), u.status[p] = "gone"
          PROVE  FALSE
      <4>1. k \in gone
        BY <1>4, <1>5, <2>2, <2>3, <3>1
      <4> QED BY <1>4, <3>1, <4>1 DEF Exists, Revs
    <3> QED BY <3>1
  <2>5. sql => u.status[p] = "open"
    <3>1. ASSUME sql
          PROVE  p # n
      BY <2>1, <2>3, <3>1
    <3> QED BY <2>2, <2>3, <3>1 DEF Shrinks
  <2> QED BY <1>3, <2>1, <2>3, <2>4, <2>5
<1>7. OpenHasResult(u)
  <2> SUFFICES ASSUME NEW r \in DOMAIN made, u.status[r] = "open"
               PROVE  Waits(u, r) \/ Answered(r)
    BY DEF OpenHasResult
  <2>1. m.status[r] = "open" /\ r # n /\ r # 0 /\ made[r].key \in Keys
    BY MadeFacts DEF Shrinks
  <2>2. IsPending(m, r) => IsPending(u, r)
    <3>1. ASSUME m.pending[made[r].key] = r
          PROVE  u.pending[made[r].key] = r
      <4>1. ~HasFailed(m, r)
        BY <2>1 DEF HasFailed
      <4> QED BY <2>1, <3>1, <4>1 DEF Shrinks
    <3> QED BY <3>1 DEF IsPending
  <2> QED BY <1>3, <2>1, <2>2 DEF Stage, OpenHasResult, Waits
<1>8. NoEmptyState(u) /\ ScopesNest(u)
  BY DEF Stage, Shrinks
<1>9. ~sql => u.queue = <<>>
  BY DEF Stage, Shrinks
<1>10. ~sql => \A r \in DOMAIN made : u.status[r] = "open" => r > n
  <2>1. ASSUME ~sql, NEW r \in DOMAIN made, u.status[r] = "open"
        PROVE  r > n
    <3>1. m.status[r] = "open" /\ r # n
      BY <2>1 DEF Shrinks
    <3>2. r > n - 1
      BY <2>1, <3>1 DEF Stage
    <3>3. r \in Nat
      BY MadeFacts
    <3> QED BY ONLY <1>1, <3>1, <3>2, <3>3
  <2> QED BY <2>1
<1> QED BY <1>1, <1>6, <1>7, <1>8, <1>9, <1>10 DEF Stage

\* The same when it is not pending any more.
LEMMA UnpendedStage ==
  ASSUME LayersAssumption, DWTypeOK, NEW m, NEW n \in DOMAIN made, Stage(m, n - 1),
         NEW c, Shrinks(m, c, n),
         others = 0 => KeptForWrite(c) /\ Released(c, made[n].key)
  PROVE  Stage(Unpend(c, n), n)
<1>1. c \in Books /\ made[n].key \in Keys /\ n # 0
  BY MadeFacts DEF Shrinks
<1>2. PICK u : u = Unpend(c, n)
  OBVIOUS
<1>3. /\ u \in Books
      /\ u.status = c.status /\ u.restore = c.restore /\ u.queue = c.queue
      /\ \A j \in Keys : u.pending[j] =
           IF j = made[n].key /\ c.pending[j] = n THEN 0 ELSE c.pending[j]
  BY <1>1, <1>2, UnpendFields
<1>4. \A i \in Keys : (Exists(u, i) <=> Exists(c, i)) /\ (IsOpen(u, i) <=> IsOpen(c, i))
  BY <1>3 DEF Exists, IsOpen, Revs
<1>5. others = 0 => KeptForWrite(u)
  <2> SUFFICES ASSUME others = 0, NEW j \in Keys, Exists(u, j)
               PROVE  u.pending[j] # 0 \/ \E i \in Connected(u, j) : IsOpen(u, i)
    BY DEF KeptForWrite
  <2>1. Connected(u, j) = Connected(c, j)
    BY <1>3 DEF Connected, Scope, Exists, Revs
  <2>2. Connected(c, j) \subseteq Keys
    BY <1>1, ConnectedIsKeys
  <2>3. CASE j = made[n].key
    BY <1>4, <2>1, <2>2, <2>3 DEF Released
  <2>4. CASE j # made[n].key
    BY <1>3, <1>4, <2>1, <2>2, <2>4 DEF KeptForWrite
  <2> QED BY <2>3, <2>4
<1>6. Shrinks(m, u, n)
  <2>1. ScopesNest(c) => ScopesNest(u)
    BY <1>3 DEF ScopesNest, Scope
  <2>2. NoEmptyState(c) => NoEmptyState(u)
    BY <1>3, <1>4 DEF NoEmptyState
  <2>3. \A j \in Keys : u.pending[j] # m.pending[j] =>
          u.pending[j] = 0 /\ (m.pending[j] = n \/ HasFailed(m, m.pending[j]))
    BY <1>3 DEF Shrinks
  <2> QED BY <1>3, <2>1, <2>2, <2>3 DEF Shrinks
<1>7. u.pending[made[n].key] # n
  BY <1>1, <1>3
<1> QED BY <1>2, <1>5, <1>6, <1>7, ShrunkStage

LEMMA RefusedStage ==
  ASSUME LayersAssumption, DWTypeOK, NEW m, NEW n \in DOMAIN made, Stage(m, n - 1)
  PROVE  Stage(Refused(m, n), n)
<1>1. PICK k \in Keys : k = made[n].key
  BY MadeFacts
<1>2. PICK c : c = Complete(m, n, FALSE)
  OBVIOUS
<1>3. m \in Books /\ Shrinks(m, c, n) /\ (KeptForWrite(m) => KeptForWrite(c)) /\ c \in Books
  <2>1. m \in Books
    BY DEF Stage
  <2>2. Shrinks(m, Complete(m, n, FALSE), n) /\ (KeptForWrite(m) => KeptForWrite(Complete(m, n, FALSE)))
    BY <2>1, CompleteShrinks
  <2> QED BY <1>2, <2>1, <2>2 DEF Shrinks
<1>4. PICK d : d = DiscardTerminal(c, k)
  OBVIOUS
<1>5. /\ d \in Books
      /\ \A q \in DOMAIN made : d.status[q] = "open" <=> c.status[q] = "open"
      /\ \E gone \in SUBSET Keys : \A q \in DOMAIN made :
           d.status[q] = "gone" <=> c.status[q] = "gone" \/ made[q].key \in gone
      /\ d.pending = c.pending /\ d.queue = c.queue
      /\ ScopesNest(c) => ScopesNest(d)
      /\ NoEmptyState(c) => NoEmptyState(d)
      /\ KeptForWrite(c) => KeptForWrite(d)
      /\ Released(d, k)
  <2>1. c \in Books
    BY <1>3
  <2> QED BY <1>4, <2>1, DiscardShrinks, SMTT(30)
<1>6. Shrinks(m, d, n)
  <2>1. PICK a \in SUBSET Keys : \A q \in DOMAIN made :
          c.status[q] = "gone" <=> m.status[q] = "gone" \/ made[q].key \in a
    BY <1>3 DEF Shrinks
  <2>2. PICK b \in SUBSET Keys : \A q \in DOMAIN made :
          d.status[q] = "gone" <=> c.status[q] = "gone" \/ made[q].key \in b
    BY <1>5
  <2>3. a \cup b \in SUBSET Keys
    OBVIOUS
  <2>4. \A q \in DOMAIN made :
          d.status[q] = "gone" <=> m.status[q] = "gone" \/ made[q].key \in a \cup b
    BY <2>1, <2>2
  <2> QED BY <1>3, <1>5, <2>3, <2>4 DEF Shrinks
<1>7. others = 0 => KeptForWrite(d) /\ Released(d, k)
  BY <1>3, <1>5 DEF Stage
<1>8. Refused(m, n) = Unpend(d, n)
  BY <1>1, <1>2, <1>4 DEF Refused
<1> QED BY <1>6, <1>7, <1>8, <1>1, UnpendedStage

\* The write fails and stays pending.
LEMMA FailedStage ==
  ASSUME LayersAssumption, DWTypeOK, NEW m, NEW n \in DOMAIN made, Stage(m, n - 1), ~sql
  PROVE  Stage(Complete(m, n, FALSE), n)
<1>1. m \in Books
  BY DEF Stage
<1>2. /\ Shrinks(m, Complete(m, n, FALSE), n)
      /\ KeptForWrite(m) => KeptForWrite(Complete(m, n, FALSE))
  BY <1>1, CompleteShrinks
<1> QED BY <1>2, ShrunkStage DEF Stage

LEMMA QueuedStage ==
  ASSUME LayersAssumption, DWTypeOK, NEW m, NEW n \in DOMAIN made, Stage(m, n - 1),
         m.pending[made[n].key] = n, sql
  PROVE  Stage(Queued(m, n), n)
<1>1. m \in Books /\ made[n].key \in Keys /\ n # 0
  BY MadeFacts DEF Stage
<1>2. PICK queue : queue = Append(m.queue, n)
  OBVIOUS
<1>3. queue \in Seq(DOMAIN made) /\ \A r : (\E i \in DOMAIN queue : queue[i] = r) <=> InQueue(m, r) \/ r = n
  <2>1. m.queue \in Seq(DOMAIN made)
    BY <1>1, BookFields
  <2>2. PICK len \in Nat : len = Len(m.queue)
    BY <2>1
  <2>3. /\ DOMAIN queue = 1..(len + 1)
        /\ DOMAIN m.queue = 1..len
        /\ queue[len + 1] = n
        /\ \A i \in 1..len : queue[i] = m.queue[i]
    BY <1>2, <2>1, <2>2
  <2>4. 1..(len + 1) = 1..len \cup {len + 1}
    OBVIOUS
  <2> QED BY <1>2, <2>1, <2>3, <2>4 DEF InQueue
<1>4. PICK c : c = [m EXCEPT !.queue = queue]
  OBVIOUS
<1>5. /\ c \in Books
      /\ c.status = m.status /\ c.restore = m.restore /\ c.pending = m.pending /\ c.queue = queue
  BY <1>1, <1>3, <1>4 DEF Books
<1>6. Queued(m, n) = Unpend(c, n)
  BY <1>1, <1>2, <1>4 DEF Queued, Books
<1>7. PICK u : u = Queued(m, n)
  OBVIOUS
<1>8. /\ u \in Books
      /\ u.status = m.status /\ u.restore = m.restore /\ u.queue = queue
      /\ \A j \in Keys : u.pending[j] =
           IF j = made[n].key /\ m.pending[j] = n THEN 0 ELSE m.pending[j]
  BY <1>5, <1>6, <1>7, UnpendFields
<1>9. \A r : InQueue(u, r) <=> InQueue(m, r) \/ r = n
  BY <1>3, <1>8 DEF InQueue
<1>10. \A j \in Keys : (Exists(u, j) <=> Exists(m, j)) /\ (IsOpen(u, j) <=> IsOpen(m, j))
  BY <1>8 DEF Exists, IsOpen, Revs
<1>11. PendingIsOwn(u)
  <2> SUFFICES ASSUME NEW k \in Keys, u.pending[k] # 0
               PROVE  /\ made[u.pending[k]].key = k
                      /\ ~InQueue(u, u.pending[k])
                      /\ ~Answered(u.pending[k])
                      /\ Exists(u, k) => u.status[u.pending[k]] # "gone"
                      /\ sql => u.status[u.pending[k]] = "open"
    BY DEF PendingIsOwn
  <2>1. u.pending[k] = m.pending[k] /\ m.pending[k] # 0
    BY <1>8
  <2>2. u.pending[k] # n
    BY <1>8, <2>1 DEF Stage, PendingIsOwn
  <2> QED BY <1>8, <1>9, <1>10, <2>1, <2>2 DEF Stage, PendingIsOwn
<1>12. OpenHasResult(u)
  <2> SUFFICES ASSUME NEW r \in DOMAIN made, u.status[r] = "open"
               PROVE  Waits(u, r) \/ Answered(r)
    BY DEF OpenHasResult
  <2>1. IsPending(m, r) /\ r # n => IsPending(u, r)
    BY <1>8, MadeFacts DEF IsPending
  <2> QED BY <1>8, <1>9, <2>1 DEF Stage, OpenHasResult, Waits
<1>13. NoEmptyState(u) /\ ScopesNest(u)
  BY <1>8, <1>10 DEF Stage, NoEmptyState, ScopesNest, Scope
<1>14. others = 0 => KeptForWrite(u)
  <2> SUFFICES ASSUME others = 0, NEW j \in Keys, Exists(u, j)
               PROVE  u.pending[j] # 0 \/ \E i \in Connected(u, j) : IsOpen(u, i)
    BY DEF KeptForWrite
  <2>1. Connected(u, j) = Connected(m, j)
    BY <1>8 DEF Connected, Scope, Exists, Revs
  <2>2. Connected(m, j) \subseteq Keys
    BY <1>1, ConnectedIsKeys
  <2>3. CASE j = made[n].key
    <3>1. m.status[n] = "open"
      BY <1>1 DEF Stage, PendingIsOwn
    <3>2. IsOpen(u, j)
      BY <1>8, <2>3, <3>1 DEF IsOpen, Revs
    <3>3. j \in Connected(u, j)
      BY <1>8, ConnectedIff
    <3> QED BY <3>2, <3>3
  <2>4. CASE j # made[n].key
    BY <1>8, <1>10, <2>1, <2>2, <2>4 DEF Stage, KeptForWrite
  <2> QED BY <2>3, <2>4
<1> QED BY <1>7, <1>8, <1>11, <1>12, <1>13, <1>14 DEF Stage

LEMMA StoredFields ==
  ASSUME LayersAssumption, DWTypeOK, NEW m \in Books, NEW r \in DOMAIN made
  PROVE  /\ Stored(m, r) \in Books
         /\ Stored(m, r).status = m.status /\ Stored(m, r).restore = m.restore
         /\ Stored(m, r).origin = m.origin /\ Stored(m, r).pending = m.pending
         /\ Stored(m, r).queue = m.queue /\ Stored(m, r).shown = m.shown
         /\ \A l \in Layers : Stored(m, r).db[l] =
              IF l \in made[r].scope THEN made[r].show ELSE m.db[l]
<1> DEFINE db == [l \in Layers |-> IF l \in made[r].scope THEN made[r].show ELSE m.db[l]]
<1>1. db \in [Layers -> BOOLEAN]
  BY MadeFacts, BookFields
<1>2. Stored(m, r) = [m EXCEPT !.db = db]
  BY DEF Stored
<1>3. \A l \in Layers : db[l] = IF l \in made[r].scope THEN made[r].show ELSE m.db[l]
  OBVIOUS
<1> HIDE DEF db
<1> QED BY <1>1, <1>2, <1>3, SMTT(30) DEF Books

\* Two books with the same states and pending writes.
LEMMA SameStates ==
  ASSUME LayersAssumption, DWTypeOK, NEW m, NEW c, c \in Books, m \in Books,
         \A q \in DOMAIN made : c.status[q] = "gone" <=> m.status[q] = "gone",
         \A q \in DOMAIN made : m.status[q] = "open" => c.status[q] = "open",
         \A j \in Keys : c.restore[j] = m.restore[j],
         \A j \in Keys : c.pending[j] = m.pending[j]
  PROVE  /\ \A j \in Keys : Exists(c, j) <=> Exists(m, j)
         /\ \A j \in Keys : Connected(c, j) = Connected(m, j)
         /\ KeptForWrite(m) => KeptForWrite(c)
         /\ ScopesNest(m) => ScopesNest(c)
         /\ NoEmptyState(m) => NoEmptyState(c)
<1>1. \A j \in Keys : Exists(c, j) <=> Exists(m, j)
  BY DEF Exists, Revs
<1>2. \A j \in Keys : Scope(c, j) = Scope(m, j)
  BY DEF Scope
<1>3. \A l \in Scope(m, All) : l \in Keys
  BY BookFields DEF Keys
<1>4. ASSUME NEW j \in Keys
      PROVE  Connected(c, j) = Connected(m, j)
  <2>1. Scope(c, All) = Scope(m, All)
    BY <1>2 DEF Keys
  <2>2. {l \in Scope(c, All) : Exists(c, l)} = {l \in Scope(m, All) : Exists(m, l)}
    BY <1>1, <1>3, <2>1
  <2> QED BY <2>1, <2>2 DEF Connected
<1>5. \A j \in Keys : IsOpen(m, j) => IsOpen(c, j)
  BY DEF IsOpen, Revs
<1>6. KeptForWrite(m) => KeptForWrite(c)
  <2>1. \A j \in Keys : Connected(m, j) \subseteq Keys
    BY ConnectedIsKeys
  <2> QED BY <1>1, <1>4, <1>5, <2>1 DEF KeptForWrite
<1>7. ScopesNest(m) => ScopesNest(c)
  BY <1>2, MadeFacts DEF ScopesNest
<1>8. NoEmptyState(m) => NoEmptyState(c)
  BY <1>1 DEF NoEmptyState
<1> QED BY <1>1, <1>4, <1>6, <1>7, <1>8

LEMMA SavedStage ==
  ASSUME LayersAssumption, DWTypeOK, Structure, NEW m, NEW n \in DOMAIN made, Stage(m, n - 1),
         m.pending[made[n].key] = n, ~sql
  PROVE  Stage(Saved(m, n), n)
<1>1. PICK k \in Keys : k = made[n].key
  BY MadeFacts
<1>2. m \in Books /\ n \in Revisions /\ n # 0
  BY MadeFacts DEF Stage
<1>3. PICK x : x = Stored(m, n)
  OBVIOUS
<1>4. /\ x \in Books
      /\ x.status = m.status /\ x.restore = m.restore /\ x.pending = m.pending /\ x.queue = m.queue
  BY <1>2, <1>3, StoredFields
<1>5. /\ \A j \in Keys : Exists(x, j) <=> Exists(m, j)
      /\ \A j \in Keys : Connected(x, j) = Connected(m, j)
      /\ KeptForWrite(m) => KeptForWrite(x)
      /\ ScopesNest(m) => ScopesNest(x)
      /\ NoEmptyState(m) => NoEmptyState(x)
  BY <1>2, <1>4, SameStates
<1>6. \A q \in DOMAIN made : m.status[q] = "open" /\ made[q].key = k => q = n
  <2>1. \A q : ~InQueue(m, q) /\ ~Answered(q)
    BY DEF Stage, Structure, InQueue, Answered
  <2> QED BY <1>1, <2>1 DEF Stage, OpenHasResult, Waits, IsPending
<1>7. CASE Exists(m, k) /\ Cardinality(Connected(m, k)) > 1
  <2>1. PICK status : status = [x.status EXCEPT ![n] = "open"]
    OBVIOUS
  <2>2. PICK y : y = [x EXCEPT !.status = status]
    OBVIOUS
  <2>3. status \in [Revisions -> {"open", "done", "failed", "gone"}]
    BY <1>2, <1>4, <2>1, BookFields
  <2>4. /\ y \in Books /\ y.status = status
        /\ y.restore = m.restore /\ y.pending = m.pending /\ y.queue = m.queue
    BY <1>4, <2>2, <2>3 DEF Books
  <2>5. y = [x EXCEPT !.status[n] = "open"]
    BY <1>4, <2>1, <2>2 DEF Books
  <2>6. y.status[n] = "open" /\ \A q \in DOMAIN made : q # n => y.status[q] = m.status[q]
    BY <1>2, <1>4, <2>1, <2>4, MadeFacts, BookFields
  <2>7. m.status[n] # "gone"
    BY <1>1, <1>2, <1>7 DEF Stage, PendingIsOwn
  <2>8. /\ KeptForWrite(m) => KeptForWrite(y)
        /\ ScopesNest(m) => ScopesNest(y)
        /\ NoEmptyState(m) => NoEmptyState(y)
    BY <1>2, <2>4, <2>6, <2>7, SameStates
  <2>9. PICK c : c = Complete(y, n, TRUE)
    OBVIOUS
  <2>10. Saved(m, n) = Unpend(c, n)
    BY <1>1, <1>3, <1>7, <2>5, <2>9 DEF Saved
  <2>11. /\ Shrinks(y, Complete(y, n, TRUE), n)
         /\ KeptForWrite(y) => KeptForWrite(Complete(y, n, TRUE))
         /\ y.status[n] = "open" /\ y.pending[made[n].key] = n => Released(Complete(y, n, TRUE), made[n].key)
    BY <2>4, CompleteShrinks
  <2>12. Shrinks(y, c, n) /\ (KeptForWrite(y) => KeptForWrite(c)) /\ Released(c, made[n].key)
    BY <2>4, <2>6, <2>9, <2>11
  <2>13. Shrinks(m, c, n)
    <3>1. \A q \in DOMAIN made : c.status[q] = "open" <=> m.status[q] = "open" /\ q # n
      BY <2>6, <2>12 DEF Shrinks
    <3>2. \E gone \in SUBSET Keys : \A q \in DOMAIN made :
            c.status[q] = "gone" <=> m.status[q] = "gone" \/ made[q].key \in gone
      <4>1. \A q \in DOMAIN made : y.status[q] = "gone" <=> m.status[q] = "gone"
        BY <2>6, <2>7
      <4>2. PICK gone \in SUBSET Keys : \A q \in DOMAIN made :
              c.status[q] = "gone" <=> y.status[q] = "gone" \/ made[q].key \in gone
        BY <2>12 DEF Shrinks
      <4> QED BY <4>1, <4>2
    <3>3. ASSUME NEW j \in Keys, c.pending[j] # m.pending[j]
          PROVE  c.pending[j] = 0 /\ (m.pending[j] = n \/ HasFailed(m, m.pending[j]))
      <4>1. c.pending[j] = 0 /\ (m.pending[j] = n \/ HasFailed(y, m.pending[j]))
        BY <2>4, <2>12, <3>3 DEF Shrinks
      <4>2. m.pending[j] \in {0} \cup DOMAIN made
        BY <1>2, BookFields
      <4> QED BY <2>6, <4>1, <4>2 DEF HasFailed
    <3> QED BY <2>4, <2>8, <2>12, <3>1, <3>2, <3>3 DEF Shrinks
  <2>14. others = 0 => KeptForWrite(c) /\ Released(c, made[n].key)
    BY <2>8, <2>12 DEF Stage
  <2> QED BY <2>10, <2>13, <2>14, UnpendedStage
<1>8. CASE ~(Exists(m, k) /\ Cardinality(Connected(m, k)) > 1)
  <2>1. PICK d : d = Drop(x, {k})
    OBVIOUS
  <2>2. /\ d \in Books
        /\ \A q \in DOMAIN made : d.status[q] = IF made[q].key \in {k} THEN "gone" ELSE x.status[q]
        /\ \A j \in Keys : d.restore[j] = IF j \in {k} THEN {} ELSE x.restore[j]
        /\ d.pending = x.pending /\ d.db = x.db /\ d.queue = x.queue
    BY <1>4, <2>1, DropFields
  <2>3. PICK c : c = IF HasFailed(m, n) \/ ~Exists(m, k) THEN Project(d, {n}) ELSE d
    OBVIOUS
  <2>4. Saved(m, n) = Unpend(c, n)
    BY <1>1, <1>3, <1>8, <2>1, <2>3 DEF Saved
  <2>5. /\ Project(d, {n}) \in Books
        /\ Project(d, {n}).status = d.status /\ Project(d, {n}).restore = d.restore
        /\ Project(d, {n}).pending = d.pending /\ Project(d, {n}).db = d.db
        /\ Project(d, {n}).queue = d.queue
    BY <2>2, ProjectFields
  <2>6. /\ c \in Books
        /\ \A q \in DOMAIN made : c.status[q] = IF made[q].key = k THEN "gone" ELSE m.status[q]
        /\ \A j \in Keys : c.restore[j] = IF j = k THEN {} ELSE m.restore[j]
        /\ c.pending = m.pending /\ c.db = x.db /\ c.queue = m.queue
    BY <1>4, <2>2, <2>3, <2>5
  <2>7. Released(c, k)
    BY <2>6 DEF Released, Exists, Revs
  <2>8. KeptForWrite(m) => KeptForWrite(c)
    <3>1. ASSUME KeptForWrite(m), Exists(m, k)
          PROVE  KeptForWrite(c)
      <4>1. k \in Connected(m, k)
        BY <1>2, <3>1, ConnectedIff
      <4>2. Connected(m, k) = {k}
        BY <1>2, <1>8, <3>1, <4>1, SharedMeansOther
      <4>3. Ended(x, c, k, {k}, {})
        BY <1>4, <1>5, <2>6, <4>2 DEF Ended
      <4>4. \A j \in Keys : Exists(x, j) => \/ x.pending[j] # 0
                                            \/ \E i \in Connected(x, j) : IsOpen(x, i)
                                            \/ j \in Connected(x, k)
        BY <1>5, <3>1 DEF KeptForWrite
      <4>5. Exists(x, k) /\ {k} \in SUBSET Keys
        BY <1>5, <3>1
      <4> QED BY <1>4, <4>3, <4>4, <4>5, KeptEnds
    <3>2. ASSUME KeptForWrite(m), ~Exists(m, k)
          PROVE  KeptForWrite(c)
      <4>1. \A q \in DOMAIN made : made[q].key = k => m.status[q] = "gone"
        BY <3>2 DEF Exists, Revs
      <4>2. \A q \in DOMAIN made : c.status[q] = m.status[q]
        BY <2>6, <4>1
      <4>3. \A j \in Keys : c.restore[j] = m.restore[j]
        BY <2>6, <3>2 DEF Stage, NoEmptyState
      <4> QED BY <1>2, <2>6, <3>2, <4>2, <4>3, SameStates
    <3> QED BY <3>1, <3>2
  <2>9. Shrinks(m, c, n)
    <3>1. \A q \in DOMAIN made : c.status[q] = "open" <=> m.status[q] = "open" /\ q # n
      BY <1>1, <1>6, <2>6
    <3>2. /\ {k} \in SUBSET Keys
          /\ \A q \in DOMAIN made : c.status[q] = "gone" <=> m.status[q] = "gone" \/ made[q].key \in {k}
      BY <2>6
    <3>3. ScopesNest(m) => ScopesNest(c)
      BY <2>6, MadeFacts DEF ScopesNest, Scope
    <3>4. NoEmptyState(m) => NoEmptyState(c)
      <4>1. \A j \in Keys : j # k => (Exists(c, j) <=> Exists(m, j))
        BY <2>6 DEF Exists, Revs
      <4> QED BY <2>6, <4>1 DEF NoEmptyState
    <3> QED BY <2>6, <3>1, <3>2, <3>3, <3>4 DEF Shrinks
  <2>10. others = 0 => KeptForWrite(c) /\ Released(c, made[n].key)
    BY <1>1, <2>7, <2>8 DEF Stage
  <2> QED BY <2>4, <2>9, <2>10, UnpendedStage
<1> QED BY <1>7, <1>8

LEMMA TurnStage ==
  ASSUME LayersAssumption, DWTypeOK, Structure, NEW m, NEW n \in DOMAIN made, Stage(m, n - 1),
         NEW failing, NEW blocked
  PROVE  Stage(Turn(m, n, failing, blocked), n)
<1>1. CASE m.pending[made[n].key] # n
  <2>1. Turn(m, n, failing, blocked) = m
    BY <1>1 DEF Turn
  <2>2. ~sql => \A r \in DOMAIN made : m.status[r] = "open" => r > n
    <3>1. ASSUME ~sql, NEW r \in DOMAIN made, m.status[r] = "open"
          PROVE  r > n
      <4>1. \A q : ~InQueue(m, q) /\ ~Answered(q)
        BY <3>1 DEF Stage, Structure, InQueue, Answered
      <4>2. IsPending(m, r)
        BY <3>1, <4>1 DEF Stage, OpenHasResult, Waits
      <4>3. r # n
        BY <1>1, <4>2 DEF IsPending
      <4>4. r > n - 1
        BY <3>1 DEF Stage
      <4>5. r \in Nat /\ n \in Nat
        BY MadeFacts
      <4> QED BY ONLY <4>3, <4>4, <4>5
    <3> QED BY <3>1
  <2> QED BY <2>1, <2>2 DEF Stage
<1>2. CASE m.pending[made[n].key] = n
  <2>1. PICK outcome : outcome = IF blocked THEN "blocked" ELSE IF made[n].key \in failing THEN "fails" ELSE "ok"
    OBVIOUS
  <2>2. Turn(m, n, failing, blocked) = Execute(m, n, outcome)
    BY <1>2, <2>1 DEF Turn
  <2>3. outcome \in {"blocked", "fails", "ok"}
    BY <2>1
  <2>4. CASE outcome = "blocked" \/ (sql /\ outcome = "fails")
    <3>1. Execute(m, n, outcome) = Refused(m, n)
      BY <2>4 DEF Execute
    <3> QED BY <2>2, <3>1, RefusedStage
  <2>5. CASE sql /\ outcome = "ok"
    <3>1. Execute(m, n, outcome) = Queued(m, n)
      BY <2>5 DEF Execute
    <3> QED BY <1>2, <2>2, <2>5, <3>1, QueuedStage
  <2>6. CASE ~sql /\ outcome = "ok"
    <3>1. Execute(m, n, outcome) = Saved(m, n)
      BY <2>6 DEF Execute
    <3> QED BY <1>2, <2>2, <2>6, <3>1, SavedStage
  <2>7. CASE ~sql /\ outcome = "fails"
    <3>1. Execute(m, n, outcome) = Complete(m, n, FALSE)
      BY <2>7 DEF Execute
    <3> QED BY <2>2, <2>7, <3>1, FailedStage
  <2> QED BY <2>3, <2>4, <2>5, <2>6, <2>7
<1> QED BY <1>1, <1>2

-----------------------------------------------------------------------------
(* A flush: the turns of all changes, from the oldest.                     *)

LEMMA FlushSteps ==
  ASSUME LayersAssumption, DWTypeOK, NEW failing, NEW blocked
  PROVE  \E after : /\ after[0] = book
                    /\ \A n \in DOMAIN made : after[n] = Turn(after[n - 1], n, failing, blocked)
                    /\ Flushed(failing, blocked) = after[Len(made)]
<1>1. PICK N \in Nat : N = Len(made) /\ DOMAIN made = 1..N
  BY MadeFacts
<1> DEFINE Step(f, i) == IF i = 0 THEN book ELSE Turn(f[i - 1], i, failing, blocked)
           Some == {n \in 0..N : \E f : f = [i \in 0..n |-> Step(f, i)]}
<1>2. 0 \in Some
  <2>1. PICK f : f = [i \in 0..0 |-> book]
    OBVIOUS
  <2>2. f = [i \in 0..0 |-> Step(f, i)]
    BY <2>1
  <2> QED BY <2>2
<1>3. ASSUME NEW n \in 1..N, n - 1 \in Some
      PROVE  n \in Some
  <2>1. PICK f : f = [i \in 0..(n - 1) |-> Step(f, i)]
    BY <1>3
  <2>2. PICK g : g = [i \in 0..n |-> IF i = n THEN Turn(f[n - 1], n, failing, blocked) ELSE f[i]]
    OBVIOUS
  <2>3. ASSUME NEW i \in 0..n
        PROVE  g[i] = Step(g, i)
    <3>1. CASE i = n
      <4>1. g[n] = Turn(f[n - 1], n, failing, blocked) /\ g[n - 1] = f[n - 1] /\ n # 0
        BY <2>2
      <4> QED BY <3>1, <4>1
    <3>2. CASE i # n /\ i # 0
      <4>1. i \in 0..(n - 1) /\ i - 1 \in 0..n /\ i - 1 # n
        BY <3>2
      <4>2. g[i] = f[i] /\ g[i - 1] = f[i - 1]
        BY <2>2, <3>2, <4>1
      <4>3. f[i] = Step(f, i)
        BY <2>1, <4>1
      <4> QED BY <3>2, <4>2, <4>3
    <3>3. CASE i # n /\ i = 0
      <4>1. 0 \in 0..(n - 1)
        OBVIOUS
      <4>2. f[0] = book
        BY <2>1, <4>1
      <4> QED BY <2>2, <3>3, <4>2
    <3> QED BY <3>1, <3>2, <3>3
  <2>4. g = [i \in 0..n |-> g[i]]
    BY <2>2
  <2> HIDE DEF Step
  <2>5. g = [i \in 0..n |-> Step(g, i)]
    BY <2>3, <2>4
  <2> QED BY <2>5
<1> HIDE DEF Some
<1>4. N \in Some
  BY <1>2, <1>3, UpTo
<1>5. \E f : f = [i \in 0..N |-> Step(f, i)]
  BY <1>4 DEF Some
<1>6. PICK after : after = CHOOSE f : f = [i \in 0..N |-> Step(f, i)]
  OBVIOUS
<1>7. after = [i \in 0..N |-> Step(after, i)]
  BY <1>5, <1>6
<1>8. Flushed(failing, blocked) = after[N]
  BY <1>1, <1>6 DEF Flushed
<1>9. after[0] = book
  BY <1>7
<1>10. ASSUME NEW n \in 1..N
       PROVE  after[n] = Turn(after[n - 1], n, failing, blocked)
  BY <1>7
<1> QED BY <1>1, <1>8, <1>9, <1>10

LEMMA FlushStage ==
  ASSUME LayersAssumption, DWTypeOK, Structure, NEW failing, NEW blocked
  PROVE  Stage(Flushed(failing, blocked), Len(made))
<1>1. PICK N \in Nat : N = Len(made) /\ DOMAIN made = 1..N
  BY MadeFacts
<1>2. PICK after : /\ after[0] = book
                   /\ \A n \in DOMAIN made : after[n] = Turn(after[n - 1], n, failing, blocked)
                   /\ Flushed(failing, blocked) = after[Len(made)]
  BY FlushSteps
<1> DEFINE Kept == {n \in 0..N : Stage(after[n], n)}
<1>3. 0 \in Kept
  <2>1. \A r \in DOMAIN made : r > 0
    BY <1>1
  <2>2. Stage(book, 0)
    BY <2>1 DEF Stage, Structure, DWTypeOK
  <2> QED BY <1>2, <2>2
<1>4. ASSUME NEW n \in 1..N, n - 1 \in Kept
      PROVE  n \in Kept
  <2>1. Stage(after[n - 1], n - 1) /\ n \in DOMAIN made
    BY <1>1, <1>4
  <2>2. Stage(Turn(after[n - 1], n, failing, blocked), n)
    BY <2>1, TurnStage
  <2> QED BY <1>2, <2>1, <2>2
<1> HIDE DEF Kept
<1>5. N \in Kept
  BY <1>3, <1>4, UpTo
<1> QED BY <1>1, <1>2, <1>5 DEF Kept

\* In Access a flush leaves nothing open, so what is left is kept for a write that is pending.
LEMMA FlushRetains ==
  ASSUME LayersAssumption, DWTypeOK, Structure, NEW b, Stage(b, Len(made)), ~sql, others = 0
  PROVE  KeptForRetry(b)
<1>1. \A r \in DOMAIN made : b.status[r] # "open"
  <2>1. ASSUME NEW r \in DOMAIN made, b.status[r] = "open"
        PROVE  FALSE
    <3>1. r > Len(made)
      BY <2>1 DEF Stage
    <3> QED BY <3>1, MadeFacts
  <2> QED BY <2>1
<1>2. \A k \in Keys : ~IsOpen(b, k)
  BY <1>1 DEF IsOpen, Revs
<1>3. \A k \in Keys : Connected(b, k) \subseteq Keys
  BY ConnectedIsKeys DEF Stage
<1> QED BY <1>2, <1>3 DEF Stage, KeptForWrite, KeptForRetry

-----------------------------------------------------------------------------
(* The structure is kept by every step.                                    *)

\* A step after which no more has been answered, and what was open still is.
LEMMA StructureStays ==
  ASSUME Structure, NEW n, NEW b, Stage(b, n), book' = b, UNCHANGED <<sql, made, others>>,
         \A r : Answered(r)' => Answered(r),
         \A r \in DOMAIN made : b.status[r] = "open" /\ Answered(r) => Answered(r)',
         ~sql => messages' = <<>> /\ projecting' = {},
         others = 0 => \A i \in DOMAIN messages' : messages'[i].kind # "remote",
         ~sql /\ others = 0 => KeptForRetry(b)
  PROVE  Structure'
<1>1. PendingIsOwn(book)'
  <2>1. PendingIsOwn(b)
    BY DEF Stage
  <2>2. \A k \in Keys : Exists(book, k)' <=> Exists(b, k)
    BY DEF Exists, Revs
  <2>3. \A r : InQueue(book, r)' <=> InQueue(b, r)
    BY DEF InQueue
  <2> SUFFICES ASSUME NEW k \in Keys, book'.pending[k] # 0
               PROVE  /\ made'[book'.pending[k]].key = k
                      /\ ~InQueue(book, book.pending[k])'
                      /\ ~Answered(book.pending[k])'
                      /\ Exists(book, k)' => book'.status[book'.pending[k]] # "gone"
                      /\ sql' => book'.status[book'.pending[k]] = "open"
    BY DEF PendingIsOwn, Keys
  <2>4. PICK p : p = b.pending[k]
    OBVIOUS
  <2>5. /\ made[p].key = k /\ ~InQueue(b, p) /\ ~Answered(p)
        /\ Exists(b, k) => b.status[p] # "gone"
        /\ sql => b.status[p] = "open"
    BY <2>1, <2>4 DEF PendingIsOwn
  <2>6. ~InQueue(book, book.pending[k])'
    BY <2>4, <2>5 DEF InQueue
  <2>7. ~Answered(p)'
    BY <2>5
  <2>8. ~Answered(book.pending[k])'
    BY <2>4, <2>7 DEF Answered
  <2> QED BY <2>2, <2>4, <2>5, <2>6, <2>8
<1>2. OpenHasResult(book)'
  <2>1. OpenHasResult(b)
    BY DEF Stage
  <2>2. \A r : Waits(book, r)' <=> Waits(b, r)
    BY DEF Waits, IsPending, InQueue
  <2> QED BY <2>1, <2>2 DEF OpenHasResult
<1>3. NoEmptyState(book)' /\ ScopesNest(book)'
  BY DEF Stage, NoEmptyState, ScopesNest, Exists, Revs, Scope, Keys
<1>4. OwnScope'
  BY DEF Structure, OwnScope
<1>5. ~sql' => book'.queue = <<>> /\ messages' = <<>> /\ projecting' = {}
  BY DEF Stage
<1>6. others' = 0 => KeptForWrite(book)'
  <2>1. \A k : Exists(book, k)' <=> Exists(b, k)
    BY DEF Exists, Revs
  <2>2. \A k : IsOpen(book, k)' <=> IsOpen(b, k)
    BY DEF IsOpen, Revs
  <2>3. \A k : Connected(book, k)' = Connected(b, k)
    <3>1. Scope(book, All)' = Scope(b, All)
      BY DEF Scope
    <3> QED BY <2>1, <3>1 DEF Connected
  <2>4. others' = 0 => KeptForWrite(b)
    BY DEF Stage
  <2>5. book' = b
    OBVIOUS
  <2> QED BY ONLY <2>1, <2>2, <2>3, <2>4, <2>5 DEF KeptForWrite, Keys
<1>7. others' = 0 => (~sql' => KeptForRetry(book)')
  BY DEF KeptForRetry, Exists, Revs, Keys
<1> QED BY <1>1, <1>2, <1>3, <1>4, <1>5, <1>6, <1>7 DEF Structure

\* Between two steps every stage of a flush that does not begin is reached.
LEMMA StageOfBook ==
  ASSUME LayersAssumption, DWTypeOK, Structure
  PROVE  /\ Stage(book, 0)
         /\ sql => \A n : Stage(book, n)
<1>1. \A r \in DOMAIN made : r > 0
  BY MadeFacts
<1> QED BY <1>1 DEF Stage, Structure, DWTypeOK

LEMMA FlushKeeps ==
  ASSUME LayersAssumption, DWTypeOK, Structure, NEW failing, NEW blocked,
         book' = Flushed(failing, blocked),
         UNCHANGED <<sql, made, messages, projecting, others>>
  PROVE  Structure' /\ book' \in Books
<1>1. PICK b : b = Flushed(failing, blocked)
  OBVIOUS
<1>2. Stage(b, Len(made))
  BY <1>1, FlushStage
<1>3. ~sql /\ others = 0 => KeptForRetry(b)
  BY <1>2, FlushRetains
<1>4. \A r : Answered(r)' <=> Answered(r)
  BY DEF Answered
<1>5. ~sql => messages' = <<>> /\ projecting' = {}
  BY DEF Structure
<1>6. others = 0 => \A i \in DOMAIN messages' : messages'[i].kind # "remote"
  BY DEF Structure
<1>7. book' = b
  BY <1>1
<1>8. UNCHANGED <<sql, made, others>>
  OBVIOUS
<1>9. Structure'
  BY ONLY <1>2, <1>3, <1>4, <1>5, <1>6, <1>7, <1>8, Structure, StructureStays
<1> QED BY <1>2, <1>7, <1>9 DEF Stage

\* A change is added to those made.
LEMMA MadeGrows ==
  ASSUME LayersAssumption, DWTypeOK, NEW k \in Keys, NEW scope \in SUBSET Layers, NEW show \in BOOLEAN,
         Len(made) < MaxRevisions,
         made' = Append(made, [key |-> k, scope |-> scope, show |-> show])
  PROVE  /\ made' \in Seq([key : Keys, scope : SUBSET Layers, show : BOOLEAN])
         /\ Len(made') = Len(made) + 1 /\ Len(made') <= MaxRevisions
         /\ DOMAIN made' = DOMAIN made \cup {Len(made) + 1}
         /\ Len(made) + 1 \in Revisions /\ Len(made) + 1 \notin DOMAIN made /\ Len(made) + 1 # 0
         /\ \A q \in DOMAIN made : made'[q] = made[q] /\ q < Len(made) + 1
         /\ made'[Len(made) + 1] = [key |-> k, scope |-> scope, show |-> show]
<1>1. PICK N \in Nat : N = Len(made)
  BY MadeFacts
<1>2. PICK T : T = [key : Keys, scope : SUBSET Layers, show : BOOLEAN]
  OBVIOUS
<1>3. PICK e : e = [key |-> k, scope |-> scope, show |-> show]
  OBVIOUS
<1>4. e \in T /\ made \in Seq(T)
  BY <1>2, <1>3 DEF DWTypeOK
<1>5. made' = Append(made, e)
  BY <1>3
<1>6. /\ made' \in Seq(T) /\ Len(made') = N + 1
      /\ DOMAIN made' = 1..(N + 1) /\ DOMAIN made = 1..N
      /\ made'[N + 1] = e
      /\ \A q \in 1..N : made'[q] = made[q]
  BY ONLY <1>1, <1>4, <1>5
<1>7. 1..(N + 1) = 1..N \cup {N + 1} /\ N + 1 \notin 1..N /\ \A q \in 1..N : q < N + 1
  OBVIOUS
<1>8. MaxRevisions \in Nat /\ N < MaxRevisions
  BY <1>1 DEF LayersAssumption
<1>9. N + 1 <= MaxRevisions /\ N + 1 \in 1..MaxRevisions /\ N + 1 # 0
  BY ONLY <1>8, N \in Nat
<1>10. /\ made' \in Seq(T) /\ Len(made') = Len(made) + 1 /\ Len(made') <= MaxRevisions
       /\ made'[Len(made) + 1] = e
  BY <1>1, <1>6, <1>9
<1>11. /\ DOMAIN made' = DOMAIN made \cup {Len(made) + 1}
       /\ Len(made) + 1 \notin DOMAIN made
       /\ \A q \in DOMAIN made : made'[q] = made[q] /\ q < Len(made) + 1
  BY <1>1, <1>6, <1>7
<1>12. Len(made) + 1 \in Revisions /\ Len(made) + 1 # 0
  BY <1>1, <1>9 DEF Revisions
<1> QED BY <1>2, <1>3, <1>10, <1>11, <1>12

\* The fields of the book in which a change is scheduled.
LEMMA ScheduledFields ==
  ASSUME LayersAssumption, DWTypeOK, NEW k \in Keys, NEW scope \in SUBSET Layers,
         NEW N, N = Len(made) + 1, N \in Revisions, N \notin DOMAIN made,
         NEW gone, gone = SupersededRetries(book, k, scope),
         NEW b, b = Scheduled(k, scope)
  PROVE  /\ b \in [status : [Revisions -> {"open", "done", "failed", "gone"}],
                   pending : [Keys -> {0} \cup DOMAIN made \cup {N}],
                   restore : [Keys -> SUBSET (Layers \X BOOLEAN)],
                   origin : [Keys -> {0} \cup DOMAIN made \cup {N}],
                   shown : [Layers -> BOOLEAN], db : [Layers -> BOOLEAN],
                   queue : Seq(DOMAIN made)]
         /\ b.shown = book.shown /\ b.db = book.db /\ b.queue = book.queue
         /\ \A q \in DOMAIN made : b.status[q] =
              IF q = book.pending[k] \/ made[q].key \in gone THEN "gone" ELSE book.status[q]
         /\ b.status[N] = "open"
         /\ \A j \in Keys : b.pending[j] = IF j = k THEN N
                                           ELSE IF j \in gone THEN 0 ELSE book.pending[j]
         /\ \A j \in Keys : j # k => b.restore[j] = IF j \in gone THEN {} ELSE book.restore[j]
         /\ Scope(b, k) = Scope(book, k) \cup scope
<1>0. k \notin gone /\ gone \subseteq Keys
  BY DEF SupersededRetries
<1>1. PICK r \in Revisions : r = N /\ r = Len(made) + 1 /\ r # 0
  BY MadeFacts
<1>2. PICK P0 : P0 = [j \in Keys |-> IF j \in gone THEN 0 ELSE book.pending[j]]
  OBVIOUS
<1>3. book \in Books
  BY DEF DWTypeOK
<1>4. PICK x : x = [book EXCEPT !.pending = P0]
  OBVIOUS
<1>5. P0 \in [Keys -> {0} \cup DOMAIN made]
  BY <1>2, <1>3, BookFields
<1>6. /\ x \in Books /\ x.pending = P0 /\ x.status = book.status /\ x.restore = book.restore
      /\ x.shown = book.shown /\ x.db = book.db /\ x.queue = book.queue
  BY <1>3, <1>4, <1>5 DEF Books
<1>7. x = [book EXCEPT !.pending = [j \in Keys |-> IF j \in gone THEN 0 ELSE @[j]]]
  BY <1>2, <1>3, <1>4 DEF Books
<1>8. PICK m : m = Drop(x, gone)
  OBVIOUS
<1>9. /\ m \in Books
      /\ \A q \in DOMAIN made : m.status[q] = IF made[q].key \in gone THEN "gone" ELSE book.status[q]
      /\ \A j \in Keys : m.restore[j] = IF j \in gone THEN {} ELSE book.restore[j]
      /\ m.pending = P0 /\ m.shown = book.shown /\ m.db = book.db /\ m.queue = book.queue
  BY <1>6, <1>8, DropFields
<1>10. m.pending[k] = book.pending[k] /\ m.restore[k] = book.restore[k]
  BY <1>0, <1>2, <1>9
<1>11. PICK status : status = [q \in Revisions |->
          IF q = book.pending[k] THEN "gone" ELSE IF q = r THEN "open" ELSE m.status[q]]
  OBVIOUS
<1>12. PICK added : added = {<<l, m.shown[l]>> : l \in scope \ Scope(m, k)}
  OBVIOUS
<1>13. PICK restore : restore = [m.restore EXCEPT ![k] = m.restore[k] \cup added]
  OBVIOUS
<1>14. PICK origin : origin = [m.origin EXCEPT ![k] = IF m.origin[k] = 0 THEN r ELSE m.origin[k]]
  OBVIOUS
<1>15. PICK pending : pending = [m.pending EXCEPT ![k] = r]
  OBVIOUS
<1>16. b = [m EXCEPT !.status = status, !.restore = restore, !.origin = origin, !.pending = pending]
  <2>1. b = [m EXCEPT
        !.status = [q \in Revisions |->
          IF q = m.pending[k] THEN "gone" ELSE IF q = r THEN "open" ELSE @[q]],
        !.restore[k] = @ \cup {<<l, m.shown[l]>> : l \in scope \ Scope(m, k)},
        !.origin[k] = IF @ = 0 THEN r ELSE @,
        !.pending[k] = r]
    BY <1>1, <1>7, <1>8 DEF Scheduled
  <2>2. m \in [status : [Revisions -> {"open", "done", "failed", "gone"}],
               pending : [Keys -> {0} \cup DOMAIN made],
               restore : [Keys -> SUBSET (Layers \X BOOLEAN)],
               origin : [Keys -> {0} \cup DOMAIN made],
               shown : [Layers -> BOOLEAN], db : [Layers -> BOOLEAN],
               queue : Seq(DOMAIN made)]
    BY <1>9 DEF Books
  <2> QED BY <1>10, <1>11, <1>12, <1>13, <1>14, <1>15, <2>1, <2>2
<1>17. status \in [Revisions -> {"open", "done", "failed", "gone"}]
  BY <1>9, <1>11, BookFields
<1>18. pending \in [Keys -> {0} \cup DOMAIN made \cup {N}] /\ origin \in [Keys -> {0} \cup DOMAIN made \cup {N}]
  <2>1. m.pending \in [Keys -> {0} \cup DOMAIN made] /\ m.origin \in [Keys -> {0} \cup DOMAIN made]
    BY <1>1, <1>9, BookFields
  <2> QED BY <1>1, <1>14, <1>15, <2>1
<1>19. restore \in [Keys -> SUBSET (Layers \X BOOLEAN)]
  <2>1. added \in SUBSET (Layers \X BOOLEAN)
    BY <1>9, <1>12, BookFields
  <2>2. m.restore \in [Keys -> SUBSET (Layers \X BOOLEAN)]
    BY <1>9, BookFields
  <2> QED BY <1>13, <2>1, <2>2
<1>20. /\ b \in [status : [Revisions -> {"open", "done", "failed", "gone"}],
                 pending : [Keys -> {0} \cup DOMAIN made \cup {N}],
                 restore : [Keys -> SUBSET (Layers \X BOOLEAN)],
                 origin : [Keys -> {0} \cup DOMAIN made \cup {N}],
                 shown : [Layers -> BOOLEAN], db : [Layers -> BOOLEAN],
                 queue : Seq(DOMAIN made)]
       /\ b.status = status /\ b.pending = pending /\ b.restore = restore
       /\ b.shown = book.shown /\ b.db = book.db /\ b.queue = book.queue
  BY <1>9, <1>16, <1>17, <1>18, <1>19 DEF Books
<1>21. \A j \in Keys : b.pending[j] = IF j = k THEN N
                                      ELSE IF j \in gone THEN 0 ELSE book.pending[j]
  <2>1. m.pending \in [Keys -> {0} \cup DOMAIN made]
    BY <1>9, BookFields
  <2> QED BY <1>1, <1>2, <1>9, <1>15, <1>20, <2>1
<1>22. \A j \in Keys : b.restore[j] = IF j = k THEN m.restore[k] \cup added ELSE m.restore[j]
  <2>1. m.restore \in [Keys -> SUBSET (Layers \X BOOLEAN)]
    BY <1>9, BookFields
  <2> QED BY <1>13, <1>20, <2>1
<1>23. Scope(b, k) = Scope(book, k) \cup scope
  <2>1. Scope(m, k) = Scope(book, k)
    BY <1>10 DEF Scope
  <2>2. \A l : (\E p \in added : p[1] = l) <=> l \in scope \ Scope(m, k)
    <3>1. ASSUME NEW l, NEW p \in added, p[1] = l
          PROVE  l \in scope \ Scope(m, k)
      <4>1. PICK i \in scope \ Scope(m, k) : p = <<i, m.shown[i]>>
        BY <1>12
      <4> QED BY ONLY <3>1, <4>1
    <3>2. ASSUME NEW l \in scope \ Scope(m, k)
          PROVE  \E p \in added : p[1] = l
      <4>1. PICK p : p = <<l, m.shown[l]>>
        OBVIOUS
      <4>2. p \in added /\ p[1] = l
        BY <1>12, <4>1
      <4> QED BY <4>2
    <3> QED BY <3>1, <3>2
  <2>3. Scope(b, k) = Scope(m, k) \cup {p[1] : p \in added}
    BY <1>10, <1>22 DEF Scope
  <2>4. {p[1] : p \in added} = scope \ Scope(m, k)
    BY <2>2
  <2> QED BY <2>1, <2>3, <2>4
<1>24. \A q \in DOMAIN made : b.status[q] =
              IF q = book.pending[k] \/ made[q].key \in gone THEN "gone" ELSE book.status[q]
  <2> SUFFICES ASSUME NEW q \in DOMAIN made
               PROVE  b.status[q] = IF q = book.pending[k] \/ made[q].key \in gone THEN "gone" ELSE book.status[q]
    OBVIOUS
  <2>1. q \in Revisions /\ q # N
    BY MadeFacts
  <2> QED BY <1>1, <1>9, <1>11, <1>20, <2>1
<1>25. b.status[N] = "open"
  <2>1. r # book.pending[k]
    BY <1>1, <1>3, BookFields
  <2> QED BY <1>1, <1>11, <1>20, <2>1
<1> QED BY <1>9, <1>20, <1>21, <1>22, <1>23, <1>24, <1>25

\* A change is scheduled: it is pending, and the state of its key lives.
LEMMA ScheduledStructure ==
  ASSUME LayersAssumption, DWTypeOK, Structure,
         NEW k \in Keys, NEW scope \in SUBSET Layers, NEW show \in BOOLEAN,
         k # All => scope = {k}, Len(made) < MaxRevisions,
         made' = Append(made, [key |-> k, scope |-> scope, show |-> show]),
         NEW shown \in [Layers -> BOOLEAN],
         book' = [Scheduled(k, scope) EXCEPT !.shown = shown],
         UNCHANGED <<sql, messages, projecting, others>>
  PROVE  Structure' /\ book' \in Books'
<1>1. PICK N : N = Len(made) + 1
  OBVIOUS
<1>2. PICK gone : gone = SupersededRetries(book, k, scope)
  OBVIOUS
<1>3. PICK b : b = Scheduled(k, scope)
  OBVIOUS
<1> DEFINE D == DOMAIN made \cup {N}
<1>4. D = DOMAIN made \cup {N}
  OBVIOUS
<1>5. /\ DOMAIN made' = D /\ N \in Revisions /\ N \notin DOMAIN made /\ N # 0
      /\ \A q \in DOMAIN made : made'[q] = made[q]
      /\ made'[N].key = k /\ made'[N].scope = scope
  <2>1. /\ DOMAIN made' = DOMAIN made \cup {N}
        /\ N \in Revisions /\ N \notin DOMAIN made /\ N # 0
        /\ \A q \in DOMAIN made : made'[q] = made[q] /\ q < N
        /\ made'[N] = [key |-> k, scope |-> scope, show |-> show]
    BY <1>1, MadeGrows
  <2> QED BY <1>4, <2>1
<1>6. /\ b \in [status : [Revisions -> {"open", "done", "failed", "gone"}],
                pending : [Keys -> {0} \cup DOMAIN made \cup {N}],
                restore : [Keys -> SUBSET (Layers \X BOOLEAN)],
                origin : [Keys -> {0} \cup DOMAIN made \cup {N}],
                shown : [Layers -> BOOLEAN], db : [Layers -> BOOLEAN],
                queue : Seq(DOMAIN made)]
      /\ b.db = book.db /\ b.queue = book.queue
      /\ \A q \in DOMAIN made : b.status[q] =
           IF q = book.pending[k] \/ made[q].key \in gone THEN "gone" ELSE book.status[q]
      /\ b.status[N] = "open"
      /\ \A j \in Keys : b.pending[j] = IF j = k THEN N ELSE IF j \in gone THEN 0 ELSE book.pending[j]
      /\ \A j \in Keys : j # k => b.restore[j] = IF j \in gone THEN {} ELSE book.restore[j]
      /\ Scope(b, k) = Scope(book, k) \cup scope
  BY ONLY LayersAssumption, DWTypeOK, k \in Keys, scope \in SUBSET Layers,
          <1>1, <1>2, <1>3, <1>4, <1>5, ScheduledFields
<1>7. k \notin gone /\ gone \subseteq Keys /\ (sql => gone = {})
  <2>1. ASSUME NEW j \in gone, sql
        PROVE  FALSE
    <3>1. j \in Keys /\ HasFailed(book, book.pending[j])
      BY <1>2 DEF SupersededRetries
    <3> QED BY <2>1, <3>1 DEF HasFailed, Structure, PendingIsOwn
  <2> QED BY <1>2, <2>1 DEF SupersededRetries
<1>8. book \in Books
  BY DEF DWTypeOK
<1>9. /\ \A j \in Keys : book.pending[j] \in {0} \cup DOMAIN made
      /\ \A i \in DOMAIN book.queue : book.queue[i] \in DOMAIN made
      /\ \A q \in DOMAIN made : book.status[q] \in {"open", "done", "failed", "gone"}
      /\ 0 \notin DOMAIN made
  BY <1>8, BookFields, MadeFacts
<1>10. PICK c : c = [b EXCEPT !.shown = shown]
  OBVIOUS
<1>11. /\ c \in [status : [Revisions -> {"open", "done", "failed", "gone"}],
                 pending : [Keys -> {0} \cup DOMAIN made \cup {N}],
                 restore : [Keys -> SUBSET (Layers \X BOOLEAN)],
                 origin : [Keys -> {0} \cup DOMAIN made \cup {N}],
                 shown : [Layers -> BOOLEAN], db : [Layers -> BOOLEAN],
                 queue : Seq(DOMAIN made)]
       /\ c.status = b.status /\ c.pending = b.pending /\ c.restore = b.restore
       /\ c.queue = b.queue /\ book' = c
  BY <1>3, <1>6, <1>10
<1>12. book' \in Books'
  <2>1. c.queue \in Seq(D)
    <3>1. c.queue \in Seq(DOMAIN made)
      BY <1>11
    <3>2. DOMAIN made \subseteq D
      BY <1>4
    <3> QED BY ONLY <3>1, <3>2
  <2>2. c \in [status : [Revisions -> {"open", "done", "failed", "gone"}],
               pending : [Keys -> {0} \cup DOMAIN made \cup {N}],
               restore : [Keys -> SUBSET (Layers \X BOOLEAN)],
               origin : [Keys -> {0} \cup DOMAIN made \cup {N}],
               shown : [Layers -> BOOLEAN], db : [Layers -> BOOLEAN],
               queue : Seq(D)]
    BY ONLY <1>11, <2>1
  <2> QED BY <1>5, <1>11, <2>2 DEF Books, Keys, Revisions
<1>13. PICK p : p = book.pending[k]
  OBVIOUS
<1>14. /\ \A q \in DOMAIN made : made[q].key # k => q # p
       /\ p \in {0} \cup DOMAIN made
  BY <1>9, <1>13 DEF Structure, PendingIsOwn
<1>15. /\ \A q \in DOMAIN made : book'.status[q] =
            IF q = p \/ made[q].key \in gone THEN "gone" ELSE book.status[q]
       /\ book'.status[N] = "open"
       /\ \A j \in Keys : book'.pending[j] = IF j = k THEN N ELSE IF j \in gone THEN 0 ELSE book.pending[j]
       /\ \A j \in Keys : j # k => book'.restore[j] = IF j \in gone THEN {} ELSE book.restore[j]
       /\ Scope(book, k)' = Scope(book, k) \cup scope
       /\ book'.queue = book.queue
       /\ \A j \in Keys : j # k => Scope(book, j)' = IF j \in gone THEN {} ELSE Scope(book, j)
  <2>1. /\ book'.status = b.status /\ book'.pending = b.pending /\ book'.restore = b.restore
        /\ book'.queue = book.queue
    BY ONLY <1>6, <1>11
  <2>2. Scope(book, k)' = Scope(b, k)
    BY <2>1 DEF Scope
  <2>3. \A j \in Keys : j # k => Scope(book, j)' = IF j \in gone THEN {} ELSE Scope(book, j)
    BY <1>6, <2>1 DEF Scope
  <2>4. \A q \in DOMAIN made : book'.status[q] =
            IF q = p \/ made[q].key \in gone THEN "gone" ELSE book.status[q]
    BY ONLY <1>6, <1>13, <2>1
  <2> QED BY ONLY <1>6, <2>1, <2>2, <2>3, <2>4
<1>16. \A q \in D : q \in DOMAIN made \/ q = N
  BY <1>4
<1>17. Exists(book, k)' /\ IsOpen(book, k)'
  BY <1>4, <1>5, <1>15 DEF Exists, IsOpen, Revs
<1>18. \A j \in Keys : j # k => (Exists(book, j)' <=> j \notin gone /\ Exists(book, j))
  <2>1. ASSUME NEW j \in Keys, j # k, Exists(book, j)'
        PROVE  j \notin gone /\ Exists(book, j)
    <3>1. PICK q \in D : made'[q].key = j /\ book'.status[q] # "gone"
      BY <1>5, <2>1 DEF Exists, Revs
    <3>2. q \in DOMAIN made /\ made[q].key = j
      BY <1>5, <1>16, <2>1, <3>1
    <3> QED BY <1>15, <3>1, <3>2 DEF Exists, Revs
  <2>2. ASSUME NEW j \in Keys, j # k, Exists(book, j), j \notin gone
        PROVE  Exists(book, j)'
    <3>1. PICK q \in DOMAIN made : made[q].key = j /\ book.status[q] # "gone"
      BY <2>2 DEF Exists, Revs
    <3>2. q \in D /\ made'[q].key = j /\ book'.status[q] # "gone"
      BY <1>4, <1>5, <1>14, <1>15, <2>2, <3>1
    <3> QED BY <1>5, <3>2 DEF Exists, Revs
  <2> QED BY <2>1, <2>2
<1>19. \A r : Answered(r)' <=> Answered(r)
  BY DEF Answered
<1>20. ~Answered(N) /\ ~InQueue(book, N)
  <2>1. messages \in Seq(Messages) /\ projecting \subseteq DOMAIN made
    BY DEF DWTypeOK
  <2>2. ASSUME NEW i \in DOMAIN messages, messages[i].kind # "remote"
        PROVE  messages[i].rev \in DOMAIN made
    <3>1. messages[i] \in Messages
      BY <2>1
    <3> QED BY <2>2, <3>1 DEF Messages
  <2> QED BY <1>5, <1>9, <2>1, <2>2 DEF Answered, InQueue
<1>21. PendingIsOwn(book)'
  <2> SUFFICES ASSUME NEW j \in Keys, book'.pending[j] # 0
               PROVE  /\ made'[book'.pending[j]].key = j
                      /\ ~InQueue(book, book.pending[j])'
                      /\ ~Answered(book.pending[j])'
                      /\ Exists(book, j)' => book'.status[book'.pending[j]] # "gone"
                      /\ sql' => book'.status[book'.pending[j]] = "open"
    BY DEF PendingIsOwn, Keys
  <2>1. PICK q : q = book'.pending[j]
    OBVIOUS
  <2>2. /\ made'[q].key = j /\ ~InQueue(book, q) /\ ~Answered(q)
        /\ Exists(book, j)' => book'.status[q] # "gone"
        /\ sql => book'.status[q] = "open"
    <3>1. CASE j = k
      BY <1>5, <1>15, <1>20, <2>1, <3>1
    <3>2. CASE j # k
      <4>1. j \notin gone /\ q = book.pending[j] /\ q # 0
        BY <1>15, <2>1, <3>2
      <4>2. q \in DOMAIN made
        BY <1>9, <4>1
      <4>3. /\ made[q].key = j /\ ~InQueue(book, q) /\ ~Answered(q)
            /\ Exists(book, j) => book.status[q] # "gone"
            /\ sql => book.status[q] = "open"
        BY <4>1 DEF Structure, PendingIsOwn
      <4>4. book'.status[q] = book.status[q]
        BY <1>14, <1>15, <3>2, <4>1, <4>2, <4>3
      <4> QED BY <1>5, <1>18, <3>2, <4>2, <4>3, <4>4
    <3> QED BY <3>1, <3>2
  <2>3. ~InQueue(book, book.pending[j])'
    BY <1>15, <2>1, <2>2 DEF InQueue
  <2>4. ~Answered(book.pending[j])'
    BY <2>1, <2>2 DEF Answered
  <2> QED BY <2>1, <2>2, <2>3, <2>4
<1>22. OpenHasResult(book)'
  <2> SUFFICES ASSUME NEW r \in D, book'.status[r] = "open"
               PROVE  Waits(book, r)' \/ Answered(r)'
    BY <1>5 DEF OpenHasResult
  <2>1. CASE r = N
    BY <1>5, <1>15, <1>4, <2>1 DEF Waits, IsPending
  <2>2. CASE r \in DOMAIN made
    <3>1. r # p /\ made[r].key \notin gone /\ book.status[r] = "open" /\ made[r].key \in Keys
      BY <1>15, <2>2, MadeFacts
    <3>2. Waits(book, r) \/ Answered(r)
      BY <2>2, <3>1 DEF Structure, OpenHasResult
    <3>3. CASE IsPending(book, r)
      <4>1. made[r].key # k /\ book'.pending[made[r].key] = r
        BY <1>13, <1>15, <3>1, <3>3 DEF IsPending
      <4> QED BY <1>4, <1>5, <2>2, <4>1 DEF Waits, IsPending
    <3>4. CASE InQueue(book, r)
      BY <1>15, <3>4 DEF Waits, InQueue
    <3> QED BY <1>19, <3>2, <3>3, <3>4 DEF Waits
  <2> QED BY <1>16, <2>1, <2>2
<1>23. NoEmptyState(book)'
  <2> SUFFICES ASSUME NEW j \in Keys, ~Exists(book, j)'
               PROVE  book'.restore[j] = {}
    BY DEF NoEmptyState, Keys
  <2>1. j # k
    BY <1>17
  <2>2. j \notin gone => book.restore[j] = {}
    BY <1>18, <2>1 DEF Structure, NoEmptyState
  <2> QED BY <1>15, <2>1, <2>2
<1>24. ScopesNest(book)'
  <2> SUFFICES ASSUME NEW r \in D, book'.status[r] # "gone"
               PROVE  made'[r].scope \subseteq Scope(book, made[r].key)'
    BY <1>5 DEF ScopesNest
  <2>1. CASE r = N
    <3>1. Scope(book, made[r].key)' = Scope(book, k)'
      BY <1>5, <2>1 DEF Scope
    <3> QED BY <1>5, <1>15, <2>1, <3>1
  <2>2. CASE r \in DOMAIN made
    <3>1. /\ made[r].key \notin gone /\ book.status[r] # "gone" /\ made[r].key \in Keys
          /\ made'[r] = made[r]
      BY <1>5, <1>15, <2>2, MadeFacts
    <3>2. PICK j \in Keys : j = made[r].key
      BY <3>1
    <3>3. made[r].scope \subseteq Scope(book, j)
      BY <2>2, <3>1, <3>2 DEF Structure, ScopesNest
    <3>4. Scope(book, j) \subseteq Scope(book, j)'
      BY <1>15, <3>1, <3>2
    <3>5. Scope(book, j)' = Scope(book, made[r].key)'
      BY <3>1, <3>2 DEF Scope
    <3> QED BY <3>1, <3>3, <3>4, <3>5
  <2> QED BY <1>16, <2>1, <2>2
<1>25. OwnScope'
  <2> SUFFICES ASSUME NEW r \in D, made'[r].key # All
               PROVE  made'[r].scope = {made'[r].key}
    BY <1>5 DEF OwnScope
  <2> QED BY <1>5, <1>16 DEF Structure, OwnScope
<1>26. ~sql' => book'.queue = <<>> /\ messages' = <<>> /\ projecting' = {}
  BY <1>15 DEF Structure
<1>27. others = 0 /\ ~sql => KeptForRetry(book)'
  <2> SUFFICES ASSUME others = 0, ~sql, NEW j \in Keys, Exists(book, j)'
               PROVE  book'.pending[j] # 0
    BY DEF KeptForRetry, Keys
  <2>1. j # k => j \notin gone /\ book.pending[j] # 0
    BY <1>18 DEF Structure, KeptForRetry
  <2> QED BY <1>5, <1>15, <2>1
<1>28. others = 0 => KeptForWrite(book)'
  <2> SUFFICES ASSUME others = 0, NEW j \in Keys, Exists(book, j)', book'.pending[j] = 0
               PROVE  \E i \in Connected(book, j)' : IsOpen(book, i)'
    BY DEF KeptForWrite, Keys
  <2>1. sql
    BY <1>27 DEF KeptForRetry, Keys
  <2>2. j # k /\ gone = {} /\ book.pending[j] = 0 /\ Exists(book, j)
    BY <1>5, <1>7, <1>15, <1>18, <2>1
  <2>3. PICK i \in Connected(book, j) : IsOpen(book, i)
    BY <2>2 DEF Structure, KeptForWrite
  <2>4. i \in Keys
    BY <1>8, <2>3, ConnectedIsKeys
  <2>5. Exists(book, i)
    BY <2>3 DEF Exists, IsOpen, Revs
  <2>6. i = j \/ (InAll(book, i) /\ InAll(book, j))
    BY <1>8, <2>3, <2>4, <2>5, ConnectedIff
  <2>7. Exists(book, i)'
    BY <1>17, <1>18, <2>2, <2>4, <2>5
  <2>8. IsOpen(book, i)'
    <3>1. PICK q \in DOMAIN made : made[q].key = i /\ book.status[q] = "open"
      BY <2>3 DEF IsOpen, Revs
    <3>2. CASE q = p
      BY <1>14, <1>17, <3>1, <3>2
    <3>3. CASE q # p
      BY <1>4, <1>5, <1>15, <2>2, <3>1, <3>3 DEF IsOpen, Revs
    <3> QED BY <3>2, <3>3
  <2>9. Scope(book, All) \subseteq Scope(book, All)'
    BY <1>15, <2>2 DEF Keys
  <2>10. i \in Connected(book, j)'
    <3>1. CASE i = j
      BY <2>7, <3>1 DEF Connected, Exists, Revs, Scope
    <3>2. CASE InAll(book, i) /\ InAll(book, j)
      BY <2>7, <2>9, <3>2 DEF InAll, Connected, Exists, Revs, Scope
    <3> QED BY <2>6, <3>1, <3>2
  <2> QED BY <2>8, <2>10
<1>29. others' = 0 => \A i \in DOMAIN messages' : messages'[i].kind # "remote"
  BY DEF Structure
<1> QED BY <1>12, <1>21, <1>22, <1>23, <1>24, <1>25, <1>26, <1>27, <1>28, <1>29 DEF Structure

\* What is in a queue, when its head is taken and when one is added.
LEMMA HeadTail ==
  ASSUME NEW S, NEW s \in Seq(S), s # <<>>
  PROVE  /\ Head(s) \in S /\ Tail(s) \in Seq(S)
         /\ 1 \in DOMAIN s /\ Head(s) = s[1]
         /\ \A i \in DOMAIN Tail(s) : i + 1 \in DOMAIN s /\ i + 1 > i /\ i + 1 > 1 /\ Tail(s)[i] = s[i + 1]
         /\ \A i \in DOMAIN s : i # 1 => i - 1 \in DOMAIN Tail(s) /\ Tail(s)[i - 1] = s[i]
<1>1. PICK n \in Nat : n = Len(s)
  OBVIOUS
<1>2. n # 0 /\ DOMAIN s = 1..n /\ n >= 1
  BY <1>1
<1>3. /\ Tail(s) \in Seq(S) /\ DOMAIN Tail(s) = 1..(n - 1) /\ Head(s) = s[1]
      /\ \A i \in 1..(n - 1) : Tail(s)[i] = s[i + 1]
  <2>1. Tail(s) \in Seq(S) /\ Len(Tail(s)) = n - 1 /\ Head(s) = s[1]
    BY <1>1
  <2>2. \A i \in 1..(n - 1) : Tail(s)[i] = s[i + 1]
    BY <1>1
  <2> QED BY ONLY <2>1, <2>2, <1>2, n \in Nat
<1>4. 1 \in DOMAIN s
  BY <1>2
<1>5. \A i \in 1..(n - 1) : i + 1 \in 1..n /\ i + 1 > i /\ i + 1 > 1
  BY ONLY n \in Nat, <1>2
<1>6. ASSUME NEW i \in 1..n, i # 1
      PROVE  i - 1 \in DOMAIN Tail(s) /\ Tail(s)[i - 1] = s[i]
  <2>1. PICK j \in 1..(n - 1) : j = i - 1 /\ j + 1 = i
    BY <1>6
  <2>2. Tail(s)[j] = s[j + 1]
    BY <1>3
  <2> QED BY ONLY <2>1, <2>2, <1>3
<1>7. Head(s) \in S
  BY <1>3, <1>4
<1> QED BY <1>2, <1>3, <1>4, <1>5, <1>6, <1>7

LEMMA Appended ==
  ASSUME NEW S, NEW s \in Seq(S), NEW e \in S
  PROVE  /\ Append(s, e) \in Seq(S)
         /\ DOMAIN Append(s, e) = DOMAIN s \cup {Len(s) + 1}
         /\ Len(Append(s, e)) = Len(s) + 1
         /\ Append(s, e)[Len(s) + 1] = e
         /\ \A i \in DOMAIN s : Append(s, e)[i] = s[i] /\ i < Len(s) + 1
<1>1. PICK n \in Nat : n = Len(s)
  OBVIOUS
<1>2. /\ Append(s, e) \in Seq(S) /\ Len(Append(s, e)) = n + 1
      /\ DOMAIN Append(s, e) = 1..(n + 1) /\ DOMAIN s = 1..n
      /\ Append(s, e)[n + 1] = e
      /\ \A i \in 1..n : Append(s, e)[i] = s[i]
  BY <1>1
<1>3. 1..(n + 1) = 1..n \cup {n + 1} /\ \A i \in 1..n : i < n + 1
  OBVIOUS
<1> QED BY <1>1, <1>2, <1>3

\* Each message is one of the three kinds.
LEMMA MessageKinds ==
  ASSUME DWTypeOK
  PROVE  /\ \A i \in DOMAIN messages :
              /\ messages[i] \in Messages
              /\ messages[i].kind \in {"committed", "rejected", "remote"}
              /\ messages[i].kind # "remote" => messages[i].rev \in DOMAIN made
              /\ messages[i].kind = "remote" => messages[i].layer \in Layers
              /\ messages[i].kind # "rejected" => messages[i].rows \in [Layers -> BOOLEAN]
         /\ messages # <<>> =>
              /\ 1 \in DOMAIN messages /\ Head(messages) = messages[1]
              /\ Tail(messages) \in Seq(Messages)
              /\ \A i \in DOMAIN Tail(messages) : /\ i + 1 \in DOMAIN messages
                                                  /\ Tail(messages)[i] = messages[i + 1]
              /\ \A i \in DOMAIN messages : i # 1 => /\ i - 1 \in DOMAIN Tail(messages)
                                                     /\ Tail(messages)[i - 1] = messages[i]
<1>1. PICK M : M = Messages
  OBVIOUS
<1>2. messages \in Seq(M)
  BY <1>1 DEF DWTypeOK
<1>3. \A i \in DOMAIN messages : messages[i] \in Messages
  BY <1>1, <1>2
<1>4. ASSUME NEW x \in Messages
      PROVE  /\ x.kind \in {"committed", "rejected", "remote"}
             /\ x.kind # "remote" => x.rev \in DOMAIN made
             /\ x.kind = "remote" => x.layer \in Layers
             /\ x.kind # "rejected" => x.rows \in [Layers -> BOOLEAN]
  BY DEF Messages
<1>5. messages # <<>> =>
        /\ 1 \in DOMAIN messages /\ Head(messages) = messages[1]
        /\ Tail(messages) \in Seq(M)
        /\ \A i \in DOMAIN Tail(messages) : /\ i + 1 \in DOMAIN messages
                                            /\ Tail(messages)[i] = messages[i + 1]
        /\ \A i \in DOMAIN messages : i # 1 => /\ i - 1 \in DOMAIN Tail(messages)
                                               /\ Tail(messages)[i - 1] = messages[i]
  BY <1>2, HeadTail
<1> QED BY <1>1, <1>3, <1>4, <1>5

\* The revisions with a result, when the head of the messages is taken and when one is added.
LEMMA AnsweredOnTake ==
  ASSUME DWTypeOK, messages # <<>>, messages' = Tail(messages)
  PROVE  /\ \A q : Answered(q)' => Answered(q) \/ q \in projecting'
         /\ \A q : Answered(q) => \/ Answered(q)'
                                  \/ q \in projecting
                                  \/ Head(messages).kind # "remote" /\ Head(messages).rev = q
         /\ Head(messages).kind # "remote" => Answered(Head(messages).rev)
         /\ (\A i \in DOMAIN messages : messages[i].kind # "remote") =>
              \A i \in DOMAIN messages' : messages'[i].kind # "remote"
<1>1. /\ 1 \in DOMAIN messages /\ Head(messages) = messages[1]
      /\ \A i \in DOMAIN messages' : /\ i + 1 \in DOMAIN messages
                                     /\ messages'[i] = messages[i + 1]
      /\ \A i \in DOMAIN messages : i # 1 => /\ i - 1 \in DOMAIN messages'
                                             /\ messages'[i - 1] = messages[i]
  BY MessageKinds
<1> HIDE DEF DWTypeOK
<1>2. ASSUME NEW q, Answered(q)', q \notin projecting'
      PROVE  Answered(q)
  <2>1. PICK i \in DOMAIN messages' : messages'[i].kind # "remote" /\ messages'[i].rev = q
    BY <1>2 DEF Answered
  <2>2. i + 1 \in DOMAIN messages /\ messages'[i] = messages[i + 1]
    BY <1>1
  <2> QED BY <2>1, <2>2 DEF Answered
<1>3. ASSUME NEW q, Answered(q), q \notin projecting,
             ~(Head(messages).kind # "remote" /\ Head(messages).rev = q)
      PROVE  Answered(q)'
  <2>1. PICK i \in DOMAIN messages : messages[i].kind # "remote" /\ messages[i].rev = q
    BY <1>3 DEF Answered
  <2>2. i # 1
    BY <1>1, <1>3, <2>1
  <2>3. PICK j \in DOMAIN messages' : messages'[j] = messages[i]
    BY <1>1, <2>2
  <2> QED BY <2>1, <2>3 DEF Answered
<1>4. Head(messages).kind # "remote" => Answered(Head(messages).rev)
  BY <1>1 DEF Answered
<1> QED BY <1>1, <1>2, <1>3, <1>4

LEMMA AnsweredOnSend ==
  ASSUME DWTypeOK, NEW e \in Messages, messages' = Append(messages, e), UNCHANGED projecting
  PROVE  /\ messages' \in Seq(Messages)
         /\ \A q : Answered(q)' <=> Answered(q) \/ (e.kind # "remote" /\ e.rev = q)
         /\ e.kind # "remote" /\ (\A i \in DOMAIN messages : messages[i].kind # "remote") =>
              \A i \in DOMAIN messages' : messages'[i].kind # "remote"
<1>1. PICK M : M = Messages
  OBVIOUS
<1>2. messages \in Seq(M) /\ e \in M
  BY <1>1 DEF DWTypeOK
<1>3. PICK n : n = Len(messages) + 1
  OBVIOUS
<1>4. /\ messages' \in Seq(M)
      /\ DOMAIN messages' = DOMAIN messages \cup {n}
      /\ messages'[n] = e
      /\ \A i \in DOMAIN messages : messages'[i] = messages[i]
  BY <1>2, <1>3, Appended
<1>5. \A q : Answered(q)' <=> Answered(q) \/ (e.kind # "remote" /\ e.rev = q)
  BY <1>4 DEF Answered
<1>6. e.kind # "remote" /\ (\A i \in DOMAIN messages : messages[i].kind # "remote") =>
        \A i \in DOMAIN messages' : messages'[i].kind # "remote"
  BY <1>4
<1> QED BY <1>1, <1>4, <1>5, <1>6

\* A book with the same states and the same queue is at the same stage.
LEMMA SameStage ==
  ASSUME LayersAssumption, DWTypeOK, NEW m, NEW n, Stage(m, n), NEW b \in Books,
         b.status = m.status, b.restore = m.restore, b.pending = m.pending, b.queue = m.queue
  PROVE  Stage(b, n)
<1>1. m \in Books
  BY DEF Stage
<1>2. /\ \A j \in Keys : Exists(b, j) <=> Exists(m, j)
      /\ KeptForWrite(m) => KeptForWrite(b)
      /\ ScopesNest(m) => ScopesNest(b)
      /\ NoEmptyState(m) => NoEmptyState(b)
  BY <1>1, SameStates
<1>3. \A q : InQueue(b, q) <=> InQueue(m, q)
  BY DEF InQueue
<1>4. PendingIsOwn(b)
  BY <1>2, <1>3 DEF Stage, PendingIsOwn
<1>5. OpenHasResult(b)
  BY <1>3 DEF Stage, OpenHasResult, Waits, IsPending
<1> QED BY <1>2, <1>4, <1>5 DEF Stage

\* The mutation at the head of the queue is executed, and its result is on its way.
LEMMA SentStructure ==
  ASSUME LayersAssumption, DWTypeOK, Structure, NEW b \in Books, book' = b, book.queue # <<>>,
         b.status = book.status, b.restore = book.restore, b.pending = book.pending,
         b.queue = Tail(book.queue),
         NEW e \in Messages, e.kind # "remote", e.rev = Head(book.queue),
         messages' = Append(messages, e),
         UNCHANGED <<sql, made, projecting, others>>
  PROVE  Structure'
<1>1. PICK r : r = Head(book.queue)
  OBVIOUS
<1>2. book \in Books /\ book.queue \in Seq(DOMAIN made)
  BY DEF DWTypeOK, Books
<1>3. /\ r \in DOMAIN made /\ 1 \in DOMAIN book.queue /\ r = book.queue[1]
      /\ \A i \in DOMAIN b.queue : i + 1 \in DOMAIN book.queue /\ b.queue[i] = book.queue[i + 1]
      /\ \A i \in DOMAIN book.queue : i # 1 => /\ i - 1 \in DOMAIN b.queue
                                               /\ b.queue[i - 1] = book.queue[i]
  BY <1>1, <1>2, HeadTail
<1>4. InQueue(book, r)
  BY <1>3 DEF InQueue
<1>5. \A q : InQueue(b, q) => InQueue(book, q)
  <2>1. ASSUME NEW q, NEW i \in DOMAIN b.queue, b.queue[i] = q
        PROVE  InQueue(book, q)
    <3>1. i + 1 \in DOMAIN book.queue /\ b.queue[i] = book.queue[i + 1]
      BY <1>3
    <3> QED BY <2>1, <3>1 DEF InQueue
  <2> QED BY <2>1 DEF InQueue
<1>6. \A q : InQueue(book, q) => q = r \/ InQueue(b, q)
  <2>1. ASSUME NEW q, NEW i \in DOMAIN book.queue, book.queue[i] = q, q # r
        PROVE  InQueue(b, q)
    <3>1. i - 1 \in DOMAIN b.queue /\ b.queue[i - 1] = q
      BY <1>3, <2>1
    <3> QED BY <3>1 DEF InQueue
  <2> QED BY <2>1 DEF InQueue
<1>7. /\ \A q : Answered(q)' <=> Answered(q) \/ q = r
      /\ (\A i \in DOMAIN messages : messages[i].kind # "remote") =>
           \A i \in DOMAIN messages' : messages'[i].kind # "remote"
  <2>1. e.kind # "remote" /\ e.rev = r
    BY <1>1
  <2>2. /\ \A q : Answered(q)' <=> Answered(q) \/ (e.kind # "remote" /\ e.rev = q)
        /\ e.kind # "remote" /\ (\A i \in DOMAIN messages : messages[i].kind # "remote") =>
             \A i \in DOMAIN messages' : messages'[i].kind # "remote"
    BY AnsweredOnSend
  <2> QED BY ONLY <2>1, <2>2
<1>8. sql
  BY DEF Structure
<1>9. /\ \A j \in Keys : Exists(b, j) <=> Exists(book, j)
      /\ KeptForWrite(book) => KeptForWrite(b)
      /\ ScopesNest(book) => ScopesNest(b)
      /\ NoEmptyState(book) => NoEmptyState(b)
  BY <1>2, SameStates
<1>10. PendingIsOwn(book)'
  <2> SUFFICES ASSUME NEW k \in Keys, book'.pending[k] # 0
               PROVE  /\ made'[book'.pending[k]].key = k
                      /\ ~InQueue(book, book.pending[k])'
                      /\ ~Answered(book.pending[k])'
                      /\ Exists(book, k)' => book'.status[book'.pending[k]] # "gone"
                      /\ sql' => book'.status[book'.pending[k]] = "open"
    BY DEF PendingIsOwn, Keys
  <2>1. PICK p : p = book.pending[k]
    OBVIOUS
  <2>2. /\ made[p].key = k /\ ~InQueue(book, p) /\ ~Answered(p)
        /\ Exists(book, k) => book.status[p] # "gone"
        /\ sql => book.status[p] = "open"
    BY <2>1 DEF Structure, PendingIsOwn
  <2>3. ~InQueue(b, p) /\ ~Answered(p)'
    BY <1>4, <1>5, <1>7, <2>2
  <2>4. ~InQueue(book, book.pending[k])' /\ ~Answered(book.pending[k])'
    BY <2>1, <2>3 DEF InQueue, Answered
  <2>5. book'.status[book'.pending[k]] = "open"
    BY <1>8, <2>1, <2>2
  <2> QED BY <2>1, <2>2, <2>4, <2>5
<1>11. OpenHasResult(book)'
  <2> SUFFICES ASSUME NEW q \in DOMAIN made, book'.status[q] = "open"
               PROVE  Waits(book, q)' \/ Answered(q)'
    BY DEF OpenHasResult
  <2>1. Waits(book, q) \/ Answered(q)
    BY DEF Structure, OpenHasResult
  <2>2. IsPending(book, q) => Waits(book, q)'
    BY DEF Waits, IsPending
  <2>3. InQueue(book, q) /\ q # r => Waits(book, q)'
    BY <1>6 DEF Waits, InQueue
  <2> QED BY <1>7, <2>1, <2>2, <2>3 DEF Waits
<1>12. NoEmptyState(book)' /\ ScopesNest(book)'
  BY DEF Structure, NoEmptyState, ScopesNest, Exists, Revs, Scope, Keys
<1>13. OwnScope'
  BY DEF Structure, OwnScope
<1>14. others' = 0 => KeptForWrite(book)'
  <2>1. others = 0 => KeptForWrite(b)
    BY <1>9 DEF Structure
  <2> QED BY <2>1 DEF KeptForWrite, Exists, IsOpen, Revs, Connected, Scope, Keys
<1>15. others' = 0 => \A i \in DOMAIN messages' : messages'[i].kind # "remote"
  BY <1>7 DEF Structure
<1>16. sql'
  BY <1>8
<1> QED BY ONLY <1>10, <1>11, <1>12, <1>13, <1>14, <1>15, <1>16 DEF Structure

\* A result is applied.
LEMMA AppliedStructure ==
  ASSUME LayersAssumption, DWTypeOK, Structure, NEW r \in DOMAIN made, NEW success \in BOOLEAN, sql,
         Answered(r), book' = Complete(book, r, success),
         \A q : Answered(q)' => Answered(q),
         \A q \in DOMAIN made : Answered(q) => q = r \/ Answered(q)',
         others = 0 => \A i \in DOMAIN messages' : messages'[i].kind # "remote",
         UNCHANGED <<sql, made, others>>
  PROVE  Structure' /\ book' \in Books
<1>1. PICK b : b = Complete(book, r, success)
  OBVIOUS
<1>2. book \in Books /\ Stage(book, r - 1) /\ Stage(book, r)
  BY StageOfBook DEF DWTypeOK
<1>3. Shrinks(book, b, r) /\ (KeptForWrite(book) => KeptForWrite(b))
  BY <1>1, <1>2, CompleteShrinks
<1>4. made[r].key \in Keys /\ book.pending[made[r].key] # r
  BY MadeFacts DEF Structure, PendingIsOwn
<1>5. b.pending[made[r].key] # r
  BY <1>3, <1>4, MadeFacts DEF Shrinks
<1>6. Stage(b, r)
  BY <1>2, <1>3, <1>5, ShrunkStage DEF Structure
<1>7. b.status[r] # "open"
  BY <1>3 DEF Shrinks
<1>8. \A q \in DOMAIN made : b.status[q] = "open" /\ Answered(q) => Answered(q)'
  BY <1>7
<1>9. book' = b
  BY <1>1
<1>10. Structure'
  BY <1>6, <1>8, <1>9, StructureStays
<1> QED BY <1>6, <1>9, <1>10 DEF Stage

\* The newer of the revisions that a commit names layers of are of those made.
LEMMA NewerIsMade ==
  ASSUME LayersAssumption, DWTypeOK, NEW m \in Books, NEW layers \in SUBSET Layers
  PROVE  Newer(m, layers) \subseteq DOMAIN made
<1> DEFINE bulk(l) == {r \in Viable(m, All) : l \in made[r].scope}
           first == {Max(bulk(l) \cup Viable(m, l)) :
                       l \in {l \in layers : Cardinality(bulk(l) \cup Viable(m, l)) > 1}}
           within == UNION {made[r].scope : r \in {r \in first : made[r].key = All}}
           later(l) == {r \in Viable(m, l) :
                          \E b \in first : made[b].key = All /\ l \in made[b].scope /\ r > b}
<1>1. \A k : Viable(m, k) \subseteq DOMAIN made
  BY DEF Viable, Revs
<1>2. ASSUME NEW x \in first
      PROVE  x \in DOMAIN made
  <2>1. PICK l \in layers : /\ Cardinality(bulk(l) \cup Viable(m, l)) > 1
                            /\ x = Max(bulk(l) \cup Viable(m, l))
    OBVIOUS
  <2>2. PICK S : S = bulk(l) \cup Viable(m, l)
    OBVIOUS
  <2>3. S \subseteq DOMAIN made
    BY <1>1, <2>2
  <2>4. S # {}
    <3>1. Cardinality(S) > 1
      BY <2>1, <2>2
    <3>2. Cardinality({}) = 0
      BY FS_EmptySet
    <3> QED BY ONLY <3>1, <3>2
  <2> QED BY <2>1, <2>2, <2>3, <2>4, Newest
<1>3. ASSUME NEW x \in {Max(later(l)) : l \in {l \in within : later(l) # {}}}
      PROVE  x \in DOMAIN made
  <2>1. PICK l \in within : later(l) # {} /\ x = Max(later(l))
    OBVIOUS
  <2>2. later(l) \subseteq DOMAIN made
    BY <1>1
  <2> QED BY <2>1, <2>2, Newest
<1>4. Newer(m, layers) = first \cup {Max(later(l)) : l \in {l \in within : later(l) # {}}}
  BY DEF Newer
<1> QED BY <1>2, <1>3, <1>4

\* A commit is applied: the rows are shown, and over them the newer revisions.
LEMMA CommittedStructure ==
  ASSUME LayersAssumption, DWTypeOK, Structure, HandleCommitted
  PROVE  /\ Structure' /\ book' \in Books
         /\ messages' \in Seq(Messages) /\ projecting' \subseteq DOMAIN made
<1>1. PICK r : r = Head(messages).rev
  OBVIOUS
<1>2. PICK layers : layers = IF made[r].key = All THEN Layers ELSE made[r].scope
  OBVIOUS
<1>3. PICK m : m = [book EXCEPT !.shown = Head(messages).rows]
  OBVIOUS
<1>4. /\ messages # <<>> /\ Head(messages).kind = "committed" /\ messages' = Tail(messages)
      /\ book' = Project(m, Newer(m, layers))
      /\ projecting' = projecting \cup {r}
      /\ UNCHANGED <<sql, made, others>>
  BY <1>1, <1>2, <1>3 DEF HandleCommitted, Take
<1>5. r \in DOMAIN made /\ Head(messages).rows \in [Layers -> BOOLEAN] /\ messages' \in Seq(Messages)
  BY <1>1, <1>4, MessageKinds
<1>6. layers \subseteq Layers
  BY <1>2, <1>5, MadeFacts
<1>7. /\ m \in Books /\ m.status = book.status /\ m.restore = book.restore
      /\ m.pending = book.pending /\ m.queue = book.queue
  BY <1>3, <1>5 DEF DWTypeOK, Books
<1>8. PICK rs : rs = Newer(m, layers)
  OBVIOUS
<1>9. rs \subseteq DOMAIN made
  BY <1>6, <1>7, <1>8, NewerIsMade
<1>10. PICK b : b = Project(m, rs)
  OBVIOUS
<1>11. /\ b \in Books /\ b.status = book.status /\ b.restore = book.restore
       /\ b.pending = book.pending /\ b.queue = book.queue
  BY <1>7, <1>9, <1>10, ProjectFields
<1>12. sql
  BY <1>4 DEF Structure
<1>13. Stage(b, 0)
  BY <1>11, StageOfBook, SameStage
<1>14. /\ \A q : Answered(q)' => Answered(q) \/ q \in projecting'
       /\ \A q : Answered(q) => Answered(q)' \/ q \in projecting \/ r = q
       /\ Answered(r)
       /\ (\A i \in DOMAIN messages : messages[i].kind # "remote") =>
            \A i \in DOMAIN messages' : messages'[i].kind # "remote"
  <2>1. Head(messages).kind # "remote"
    BY <1>4
  <2> QED BY <1>1, <1>4, <2>1, AnsweredOnTake
<1>15. \A q : Answered(q)' <=> Answered(q)
  <2>1. \A q : q \in projecting' => Answered(q)'
    BY DEF Answered
  <2>2. \A q : q \in projecting => Answered(q)
    BY DEF Answered
  <2> QED BY <1>4, <1>14, <2>1, <2>2
<1>16. others = 0 => \A i \in DOMAIN messages' : messages'[i].kind # "remote"
  BY <1>14 DEF Structure
<1>17. book' = b
  BY <1>4, <1>8, <1>10
<1>18. Structure'
  BY ONLY <1>4, <1>12, <1>13, <1>15, <1>16, <1>17, Structure, StructureStays
<1>19. projecting' \subseteq DOMAIN made
  BY <1>4, <1>5 DEF DWTypeOK
<1> QED BY <1>5, <1>11, <1>17, <1>18, <1>19

\* A projection is complete.
LEMMA FinishedStructure ==
  ASSUME LayersAssumption, DWTypeOK, Structure, FinishProjection
  PROVE  Structure' /\ book' \in Books /\ projecting' \subseteq DOMAIN made
<1>1. PICK r \in projecting : projecting' = projecting \ {r} /\ book' = Complete(book, r, TRUE)
  BY DEF FinishProjection
<1>2. UNCHANGED <<sql, made, messages, others>>
  BY DEF FinishProjection
<1>3. r \in DOMAIN made /\ projecting' \subseteq DOMAIN made
  BY <1>1 DEF DWTypeOK
<1>4. sql
  BY <1>1 DEF Structure
<1>5. Answered(r)
  BY DEF Answered
<1>6. \A q : Answered(q)' => Answered(q)
  BY <1>1, <1>2 DEF Answered
<1>7. \A q \in DOMAIN made : Answered(q) => q = r \/ Answered(q)'
  BY <1>1, <1>2 DEF Answered
<1>8. others = 0 => \A i \in DOMAIN messages' : messages'[i].kind # "remote"
  BY <1>2 DEF Structure
<1> QED BY <1>1, <1>2, <1>3, <1>4, <1>5, <1>6, <1>7, <1>8, AppliedStructure

\* A rejection is applied.
LEMMA RejectedStructure ==
  ASSUME LayersAssumption, DWTypeOK, Structure, HandleRejected
  PROVE  Structure' /\ book' \in Books /\ messages' \in Seq(Messages)
<1>1. PICK r : r = Head(messages).rev
  OBVIOUS
<1>2. /\ messages # <<>> /\ Head(messages).kind = "rejected" /\ messages' = Tail(messages)
      /\ book' = Complete(book, r, FALSE)
      /\ UNCHANGED <<sql, made, projecting, others>>
  BY <1>1 DEF HandleRejected, Take
<1>3. r \in DOMAIN made /\ messages' \in Seq(Messages)
  BY <1>1, <1>2, MessageKinds
<1>4. sql
  BY <1>2 DEF Structure
<1>5. /\ \A q : Answered(q)' => Answered(q) \/ q \in projecting'
      /\ \A q : Answered(q) => Answered(q)' \/ q \in projecting \/ r = q
      /\ Answered(r)
      /\ (\A i \in DOMAIN messages : messages[i].kind # "remote") =>
           \A i \in DOMAIN messages' : messages'[i].kind # "remote"
  <2>1. Head(messages).kind # "remote"
    BY <1>2
  <2> QED BY <1>1, <1>2, <2>1, AnsweredOnTake
<1>6. /\ \A q : q \in projecting' => Answered(q)'
      /\ \A q : q \in projecting => Answered(q)
  BY DEF Answered
<1>7. \A q : Answered(q)' => Answered(q)
  BY <1>2, <1>5, <1>6
<1>8. \A q \in DOMAIN made : Answered(q) => q = r \/ Answered(q)'
  BY <1>2, <1>5, <1>6
<1>9. others = 0 => \A i \in DOMAIN messages' : messages'[i].kind # "remote"
  BY <1>5 DEF Structure
<1> QED BY <1>2, <1>3, <1>4, <1>5, <1>7, <1>8, <1>9, AppliedStructure

\* The worker writes or refuses the mutation at the head of the queue.
LEMMA CommitStructure ==
  ASSUME LayersAssumption, DWTypeOK, Structure, CommitNext
  PROVE  Structure' /\ book' \in Books /\ messages' \in Seq(Messages)
<1>1. PICK r : r = Head(book.queue)
  OBVIOUS
<1>2. PICK m : m = [book EXCEPT !.queue = Tail(@)]
  OBVIOUS
<1>3. PICK b : b = Stored(m, r)
  OBVIOUS
<1>4. PICK e : e = [kind |-> "committed", rev |-> r, rows |-> b.db]
  OBVIOUS
<1>5. /\ book.queue # <<>> /\ book' = b /\ messages' = Append(messages, e)
      /\ UNCHANGED <<sql, made, projecting, others>>
  BY <1>1, <1>2, <1>3, <1>4 DEF CommitNext
<1>6. book \in Books /\ book.queue \in Seq(DOMAIN made)
  BY DEF DWTypeOK, Books
<1>7. r \in DOMAIN made /\ Tail(book.queue) \in Seq(DOMAIN made)
  BY <1>1, <1>5, <1>6, HeadTail
<1>8. /\ m \in Books /\ m.status = book.status /\ m.restore = book.restore
      /\ m.pending = book.pending /\ m.queue = Tail(book.queue)
  BY <1>2, <1>6, <1>7 DEF Books
<1>9. /\ b \in Books /\ b.status = book.status /\ b.restore = book.restore
      /\ b.pending = book.pending /\ b.queue = Tail(book.queue)
  BY <1>3, <1>7, <1>8, StoredFields
<1>10. b.db \in [Layers -> BOOLEAN]
  BY <1>9, BookFields
<1>11. e \in Messages /\ e.kind # "remote" /\ e.rev = r
  BY <1>4, <1>7, <1>10 DEF Messages
<1>12. messages' \in Seq(Messages)
  BY <1>5, <1>11, AnsweredOnSend
<1>13. Structure'
  BY <1>1, <1>5, <1>9, <1>11, SentStructure
<1> QED BY <1>5, <1>9, <1>12, <1>13

LEMMA RejectStructure ==
  ASSUME LayersAssumption, DWTypeOK, Structure, RejectNext
  PROVE  Structure' /\ book' \in Books /\ messages' \in Seq(Messages)
<1>1. PICK r : r = Head(book.queue)
  OBVIOUS
<1>2. PICK b : b = [book EXCEPT !.queue = Tail(@)]
  OBVIOUS
<1>3. PICK e : e = [kind |-> "rejected", rev |-> r]
  OBVIOUS
<1>4. /\ book.queue # <<>> /\ book' = b /\ messages' = Append(messages, e)
      /\ UNCHANGED <<sql, made, projecting, others>>
  BY <1>1, <1>2, <1>3 DEF RejectNext
<1>5. book \in Books /\ book.queue \in Seq(DOMAIN made)
  BY DEF DWTypeOK, Books
<1>6. r \in DOMAIN made /\ Tail(book.queue) \in Seq(DOMAIN made)
  BY <1>1, <1>4, <1>5, HeadTail
<1>7. /\ b \in Books /\ b.status = book.status /\ b.restore = book.restore
      /\ b.pending = book.pending /\ b.queue = Tail(book.queue)
  BY <1>2, <1>5, <1>6 DEF Books
<1>8. e \in Messages /\ e.kind # "remote" /\ e.rev = r
  BY <1>3, <1>6 DEF Messages
<1>9. messages' \in Seq(Messages)
  BY <1>4, <1>8, AnsweredOnSend
<1>10. Structure'
  BY <1>1, <1>4, <1>7, <1>8, SentStructure
<1> QED BY <1>4, <1>7, <1>9, <1>10

\* A step of another session or of another program.
LEMMA LaterStructure ==
  ASSUME Structure, NEW n, NEW b, Stage(b, n), book' = b, UNCHANGED <<sql, made>>, others' # 0,
         \A q : Answered(q)' <=> Answered(q), sql
  PROVE  Structure'
<1>1. PendingIsOwn(book)'
  <2>1. PendingIsOwn(b)
    BY DEF Stage
  <2>2. \A k \in Keys : Exists(book, k)' <=> Exists(b, k)
    BY DEF Exists, Revs
  <2> SUFFICES ASSUME NEW k \in Keys, book'.pending[k] # 0
               PROVE  /\ made'[book'.pending[k]].key = k
                      /\ ~InQueue(book, book.pending[k])'
                      /\ ~Answered(book.pending[k])'
                      /\ Exists(book, k)' => book'.status[book'.pending[k]] # "gone"
                      /\ sql' => book'.status[book'.pending[k]] = "open"
    BY DEF PendingIsOwn, Keys
  <2>4. PICK p : p = b.pending[k]
    OBVIOUS
  <2>5. /\ made[p].key = k /\ ~InQueue(b, p) /\ ~Answered(p)
        /\ Exists(b, k) => b.status[p] # "gone"
        /\ sql => b.status[p] = "open"
    BY <2>1, <2>4 DEF PendingIsOwn
  <2>6. ~InQueue(book, book.pending[k])'
    BY <2>4, <2>5 DEF InQueue
  <2>7. ~Answered(p)'
    BY <2>5
  <2>8. ~Answered(book.pending[k])'
    BY <2>4, <2>7 DEF Answered
  <2> QED BY <2>2, <2>4, <2>5, <2>6, <2>8
<1>2. OpenHasResult(book)'
  <2>1. OpenHasResult(b)
    BY DEF Stage
  <2>2. \A r : Waits(book, r)' <=> Waits(b, r)
    BY DEF Waits, IsPending, InQueue
  <2> QED BY <2>1, <2>2 DEF OpenHasResult
<1>3. NoEmptyState(book)' /\ ScopesNest(book)'
  BY DEF Stage, NoEmptyState, ScopesNest, Exists, Revs, Scope, Keys
<1>4. OwnScope'
  BY DEF Structure, OwnScope
<1> QED BY <1>1, <1>2, <1>3, <1>4 DEF Structure

\* Another session changes a layer: its rows are on their way.
LEMMA RemoteStructure ==
  ASSUME LayersAssumption, DWTypeOK, Structure, NEW l \in Layers, RemoteChange(l)
  PROVE  Structure' /\ book' \in Books /\ messages' \in Seq(Messages)
<1>1. PICK b : b = [book EXCEPT !.db[l] = ~@]
  OBVIOUS
<1>2. PICK e : e = [kind |-> "remote", layer |-> l, rows |-> b.db]
  OBVIOUS
<1>3. /\ sql /\ book' = b /\ messages' = Append(messages, e)
      /\ UNCHANGED <<sql, made, projecting>>
      /\ others' = others + 1
  BY <1>1, <1>2 DEF RemoteChange, Other
<1>4. others' # 0
  <2>1. PICK x \in Nat : x = others
    BY DEF DWTypeOK, LayersAssumption
  <2> QED BY <1>3, <2>1
<1>5. book \in Books
  BY DEF DWTypeOK
<1>6. PICK d : d = [book.db EXCEPT ![l] = ~book.db[l]]
  OBVIOUS
<1>7. d \in [Layers -> BOOLEAN] /\ b = [book EXCEPT !.db = d]
  <2>1. book.db \in [Layers -> BOOLEAN]
    BY <1>5, BookFields
  <2>2. b = [book EXCEPT !.db = d]
    BY <1>1, <1>5, <1>6 DEF Books
  <2>3. \A x \in Layers : d[x] \in BOOLEAN
    BY <1>6, <2>1
  <2>4. d = [x \in Layers |-> d[x]]
    BY <1>6, <2>1
  <2> QED BY <2>2, <2>3, <2>4
<1>8. /\ b \in Books /\ b.status = book.status /\ b.restore = book.restore
      /\ b.pending = book.pending /\ b.queue = book.queue /\ b.db = d
  BY <1>5, <1>7 DEF Books
<1>9. e \in Messages /\ e.kind = "remote"
  BY <1>2, <1>7, <1>8 DEF Messages
<1>10. messages' \in Seq(Messages) /\ \A q : Answered(q)' <=> Answered(q)
  BY <1>3, <1>9, AnsweredOnSend
<1>11. Stage(b, 0)
  BY <1>8, StageOfBook, SameStage
<1>12. Structure'
  BY <1>3, <1>4, <1>10, <1>11, LaterStructure
<1> QED BY <1>3, <1>8, <1>10, <1>12

\* The rows of another session are shown; what was pending for the layer is not any more.
LEMMA RemoteHandledStructure ==
  ASSUME LayersAssumption, DWTypeOK, Structure, HandleRemote
  PROVE  Structure' /\ book' \in Books /\ messages' \in Seq(Messages) /\ others # 0
<1>1. PICK l : l = Head(messages).layer
  OBVIOUS
<1>2. PICK m : m = [book EXCEPT !.shown = Head(messages).rows]
  OBVIOUS
<1>3. PICK ks : ks = {l} \cup IF l \in Scope(m, All) THEN {All} ELSE {}
  OBVIOUS
<1>4. PICK pending : pending = [k \in Keys |-> IF k \in ks THEN 0 ELSE m.pending[k]]
  OBVIOUS
<1>5. PICK x : x = [m EXCEPT !.pending = pending]
  OBVIOUS
<1>6. /\ messages # <<>> /\ Head(messages).kind = "remote" /\ messages' = Tail(messages)
      /\ book' = Invalid(m, l)
      /\ UNCHANGED <<sql, made, projecting, others>>
  BY <1>1, <1>2 DEF HandleRemote, Take
<1>7. /\ Head(messages).rows \in [Layers -> BOOLEAN] /\ messages' \in Seq(Messages)
      /\ 1 \in DOMAIN messages /\ messages[1].kind = "remote"
  BY <1>6, MessageKinds
<1>8. others # 0 /\ sql
  BY <1>6, <1>7 DEF Structure
<1>9. /\ m \in Books /\ m.status = book.status /\ m.restore = book.restore
      /\ m.pending = book.pending /\ m.queue = book.queue
  BY <1>2, <1>7 DEF DWTypeOK, Books
<1>10. pending \in [Keys -> {0} \cup DOMAIN made]
  BY <1>4, <1>9, BookFields
<1>11. /\ x \in Books /\ x.status = book.status /\ x.restore = book.restore
       /\ x.pending = pending /\ x.queue = book.queue
  BY <1>5, <1>9, <1>10 DEF Books
<1>12. PICK b : b = Drop(x, ks)
  OBVIOUS
<1>13. book' = b
  <2>1. x = [m EXCEPT !.pending = [k \in Keys |-> IF k \in ks THEN 0 ELSE @[k]]]
    BY <1>4, <1>5, <1>9 DEF Books
  <2> QED BY <1>3, <1>6, <1>12, <2>1 DEF Invalid
<1>14. /\ b \in Books
       /\ \A r \in DOMAIN made : b.status[r] = IF made[r].key \in ks THEN "gone" ELSE book.status[r]
       /\ \A k \in Keys : b.restore[k] = IF k \in ks THEN {} ELSE book.restore[k]
       /\ b.pending = pending /\ b.queue = book.queue
  BY <1>11, <1>12, DropFields
<1>15. Stage(b, 0)
  <2>1. \A k \in Keys : b.pending[k] = IF k \in ks THEN 0 ELSE book.pending[k]
    BY <1>4, <1>9, <1>14
  <2> HIDE DEF DWTypeOK, LayersAssumption
  <2>2. \A k \in Keys : Exists(b, k) <=> k \notin ks /\ Exists(book, k)
    BY <1>14 DEF Exists, Revs
  <2>3. \A q : InQueue(b, q) <=> InQueue(book, q)
    BY <1>14 DEF InQueue
  <2>4. PendingIsOwn(b)
    <3> SUFFICES ASSUME NEW k \in Keys, b.pending[k] # 0
                 PROVE  /\ made[b.pending[k]].key = k
                        /\ ~InQueue(b, b.pending[k])
                        /\ ~Answered(b.pending[k])
                        /\ Exists(b, k) => b.status[b.pending[k]] # "gone"
                        /\ sql => b.status[b.pending[k]] = "open"
      BY DEF PendingIsOwn
    <3>1. k \notin ks /\ b.pending[k] = book.pending[k]
      BY <2>1
    <3>2. PICK p \in DOMAIN made : p = book.pending[k]
      BY <3>1, BookFields DEF DWTypeOK
    <3>3. /\ made[p].key = k /\ ~InQueue(book, p) /\ ~Answered(p)
          /\ Exists(book, k) => book.status[p] # "gone"
          /\ sql => book.status[p] = "open"
      BY <3>1, <3>2 DEF Structure, PendingIsOwn
    <3>4. b.status[p] = book.status[p]
      BY <1>14, <3>1, <3>2, <3>3
    <3> QED BY <2>2, <2>3, <3>1, <3>2, <3>3, <3>4
  <2>5. OpenHasResult(b)
    <3> SUFFICES ASSUME NEW r \in DOMAIN made, b.status[r] = "open"
                 PROVE  Waits(b, r) \/ Answered(r)
      BY DEF OpenHasResult
    <3>1. made[r].key \in Keys /\ made[r].key \notin ks /\ book.status[r] = "open"
      BY <1>14, MadeFacts
    <3>2. Waits(book, r) \/ Answered(r)
      BY <3>1 DEF Structure, OpenHasResult
    <3> QED BY <2>1, <2>3, <3>1, <3>2 DEF Waits, IsPending
  <2>6. NoEmptyState(b)
    BY <1>14, <2>2 DEF Structure, NoEmptyState
  <2>7. ScopesNest(b)
    <3> SUFFICES ASSUME NEW r \in DOMAIN made, b.status[r] # "gone"
                 PROVE  made[r].scope \subseteq Scope(b, made[r].key)
      BY DEF ScopesNest
    <3>1. made[r].key \in Keys /\ made[r].key \notin ks /\ book.status[r] # "gone"
      BY <1>14, MadeFacts
    <3>2. made[r].scope \subseteq Scope(book, made[r].key)
      BY <3>1 DEF Structure, ScopesNest
    <3> QED BY <1>14, <3>1, <3>2 DEF Scope
  <2> QED BY <1>8, <1>14, <2>4, <2>5, <2>6, <2>7 DEF Stage
<1>16. \A q : Answered(q)' <=> Answered(q)
  <2>1. /\ \A q : Answered(q)' => Answered(q) \/ q \in projecting'
        /\ \A q : Answered(q) => Answered(q)' \/ q \in projecting
    BY <1>6, AnsweredOnTake
  <2>2. /\ \A q : q \in projecting' => Answered(q)'
        /\ \A q : q \in projecting => Answered(q)
    BY DEF Answered
  <2> QED BY <1>6, <2>1, <2>2
<1>17. Structure'
  BY <1>6, <1>8, <1>13, <1>15, <1>16, LaterStructure
<1> QED BY <1>7, <1>8, <1>13, <1>14, <1>17

\* What is stored is read again, and nothing else is left.
LEMMA ReloadStructure ==
  ASSUME LayersAssumption, DWTypeOK, Structure, Reload
  PROVE  Structure' /\ book' \in Books
<1>1. PICK stored \in IF sql THEN {book.db} \cup {Stored(book, r).db : r \in
                                 IF book.queue = <<>> THEN {} ELSE {Head(book.queue)}}
                      ELSE [Layers -> BOOLEAN] :
        book' = [Drop(book, Keys) EXCEPT !.pending = [k \in Keys |-> 0], !.queue = <<>>,
                                         !.db = stored, !.shown = stored]
  BY DEF Reload
<1>2. /\ messages' = <<>> /\ projecting' = {} /\ others' = others + 1
      /\ UNCHANGED <<sql, made>>
  BY DEF Reload, Other
<1>3. others' # 0
  <2>1. PICK x \in Nat : x = others
    BY DEF DWTypeOK, LayersAssumption
  <2> QED BY <1>2, <2>1
<1>4. book \in Books
  BY DEF DWTypeOK
<1>5. stored \in [Layers -> BOOLEAN]
  <2>1. book.db \in [Layers -> BOOLEAN]
    BY <1>4, BookFields
  <2>2. ASSUME NEW r, book.queue # <<>>, r = Head(book.queue)
        PROVE  Stored(book, r).db \in [Layers -> BOOLEAN]
    <3>1. r \in DOMAIN made
      BY <1>4, <2>2, HeadTail, BookFields
    <3> QED BY <1>4, <3>1, StoredFields, BookFields
  <2> QED BY <1>1, <2>1, <2>2
<1>6. PICK m : m = Drop(book, Keys)
  OBVIOUS
<1>7. /\ m \in Books
      /\ \A r \in DOMAIN made : m.status[r] = "gone"
      /\ \A k \in Keys : m.restore[k] = {}
  BY <1>4, <1>6, DropFields, MadeFacts
<1>8. PICK b : b = [m EXCEPT !.pending = [k \in Keys |-> 0], !.queue = <<>>,
                             !.db = stored, !.shown = stored]
  OBVIOUS
<1>9. /\ b \in Books /\ b.status = m.status /\ b.restore = m.restore
      /\ b.pending = [k \in Keys |-> 0] /\ b.queue = <<>>
  <2>1. [k \in Keys |-> 0] \in [Keys -> {0} \cup DOMAIN made] /\ <<>> \in Seq(DOMAIN made)
    OBVIOUS
  <2>2. PICK zeros : zeros = [k \in Keys |-> 0]
    OBVIOUS
  <2>3. b = [m EXCEPT !.pending = zeros, !.queue = <<>>, !.db = stored, !.shown = stored]
    BY <1>8, <2>2
  <2>4. zeros \in [Keys -> {0} \cup DOMAIN made]
    BY <2>1, <2>2
  <2> QED BY ONLY <1>5, <1>7, <2>1, <2>2, <2>3, <2>4 DEF Books
<1>10. book' = b
  BY <1>1, <1>6, <1>8
<1>11. \A r \in DOMAIN made : b.status[r] = "gone"
  BY <1>7, <1>9
<1>12. PendingIsOwn(book)' /\ OpenHasResult(book)' /\ ScopesNest(book)'
  BY <1>2, <1>9, <1>10, <1>11 DEF PendingIsOwn, OpenHasResult, ScopesNest, Keys
<1>13. NoEmptyState(book)'
  BY <1>7, <1>9, <1>10 DEF NoEmptyState, Keys
<1>14. OwnScope'
  BY <1>2 DEF Structure, OwnScope
<1> QED BY <1>2, <1>3, <1>9, <1>10, <1>12, <1>13, <1>14 DEF Structure

-----------------------------------------------------------------------------
(* Every step keeps the types and the structure. *)

LEMMA InitTyped ==
  ASSUME LayersAssumption, DWInit
  PROVE  DWTypeOK /\ Structure
<1>1. PICK stored \in [Layers -> BOOLEAN] :
        /\ book = [status |-> [r \in Revisions |-> "gone"], pending |-> [k \in Keys |-> 0],
                   restore |-> [k \in Keys |-> {}], origin |-> [k \in Keys |-> 0],
                   shown |-> stored, db |-> stored, queue |-> <<>>]
        /\ wanted = stored
  BY DEF DWInit
<1>2. /\ sql \in Kinds /\ made = <<>> /\ messages = <<>> /\ projecting = {}
      /\ closing = FALSE /\ spoiled = FALSE /\ narrowed = FALSE /\ others = 0
  BY DEF DWInit
<1>3. DOMAIN made = {} /\ DOMAIN messages = {} /\ Len(made) = 0
  BY <1>2
<1>4. book \in Books
  BY <1>1 DEF Books
<1>5. made \in Seq([key : Keys, scope : SUBSET Layers, show : BOOLEAN]) /\ messages \in Seq(Messages)
  BY <1>2
<1>6. Len(made) <= MaxRevisions /\ others \in 0..MaxOthers
  BY <1>2, <1>3 DEF LayersAssumption
<1>7. wanted \in [Layers -> BOOLEAN] /\ projecting \subseteq DOMAIN made
  BY <1>1, <1>2
<1>8. DWTypeOK
  BY <1>2, <1>4, <1>5, <1>6, <1>7 DEF DWTypeOK
<1>9. PendingIsOwn(book) /\ NoEmptyState(book)
  BY <1>1 DEF PendingIsOwn, NoEmptyState
<1>10. OpenHasResult(book) /\ ScopesNest(book) /\ OwnScope
  BY <1>3 DEF OpenHasResult, ScopesNest, OwnScope
<1>11. \A k \in Keys : ~Exists(book, k)
  BY <1>3 DEF Exists, Revs
<1>12. KeptForWrite(book) /\ KeptForRetry(book)
  BY <1>11 DEF KeptForWrite, KeptForRetry
<1>13. book.queue = <<>>
  BY <1>1
<1> QED BY ONLY <1>2, <1>3, <1>8, <1>9, <1>10, <1>12, <1>13 DEF Structure

\* A change of the user.
LEMMA ChangeTyped ==
  ASSUME LayersAssumption, DWTypeOK, Structure,
         NEW k \in Keys, NEW scope \in SUBSET Layers, NEW show \in BOOLEAN,
         k # All => scope = {k}, Changes(k, scope, show),
         NEW shown \in [Layers -> BOOLEAN],
         book' = [Scheduled(k, scope) EXCEPT !.shown = shown],
         wanted' \in [Layers -> BOOLEAN]
  PROVE  DWTypeOK' /\ Structure'
<1>1. /\ Len(made) < MaxRevisions
      /\ made' = Append(made, [key |-> k, scope |-> scope, show |-> show])
      /\ UNCHANGED <<sql, messages, projecting, closing, spoiled, others>>
      /\ narrowed' \in BOOLEAN
  BY DEF Changes, DWTypeOK
<1>2. Structure' /\ book' \in Books'
  BY <1>1, ScheduledStructure
<1>3. /\ made' \in Seq([key : Keys, scope : SUBSET Layers, show : BOOLEAN])
      /\ Len(made') <= MaxRevisions
      /\ DOMAIN made \subseteq DOMAIN made'
  BY <1>1, MadeGrows
<1>4. messages' \in Seq(Messages)'
  <2>1. PICK D : D = DOMAIN made'
    OBVIOUS
  <2>2. PICK old : old = [kind : {"committed"}, rev : DOMAIN made, rows : [Layers -> BOOLEAN]]
                           \cup [kind : {"rejected"}, rev : DOMAIN made]
                           \cup [kind : {"remote"}, layer : Layers, rows : [Layers -> BOOLEAN]]
    OBVIOUS
  <2>3. PICK new : new = [kind : {"committed"}, rev : D, rows : [Layers -> BOOLEAN]]
                           \cup [kind : {"rejected"}, rev : D]
                           \cup [kind : {"remote"}, layer : Layers, rows : [Layers -> BOOLEAN]]
    OBVIOUS
  <2>4. old \subseteq new
    BY ONLY <1>3, <2>1, <2>2, <2>3
  <2>5. messages \in Seq(old)
    BY <2>2 DEF DWTypeOK, Messages
  <2>6. messages \in Seq(new)
    BY ONLY <2>4, <2>5
  <2> QED BY <1>1, <2>1, <2>3, <2>6 DEF Messages
<1>5. projecting' \subseteq DOMAIN made'
  BY <1>1, <1>3 DEF DWTypeOK
<1> QED BY <1>1, <1>2, <1>3, <1>4, <1>5 DEF DWTypeOK, Keys

\* A step in which the user changes nothing.
LEMMA SameMadeTyped ==
  ASSUME DWTypeOK, made' = made, sql' = sql, book' \in Books, messages' \in Seq(Messages),
         projecting' \subseteq DOMAIN made, wanted' = wanted, narrowed' = narrowed,
         closing' \in BOOLEAN, spoiled' \in BOOLEAN, others' \in 0..MaxOthers
  PROVE  DWTypeOK'
<1>1. Books' = Books /\ Messages' = Messages
  BY DEF Books, Messages, Keys, Revisions
<1> QED BY <1>1 DEF DWTypeOK, Keys

LEMMA NextTyped ==
  ASSUME LayersAssumption, DWTypeOK, Structure, [DWNext]_dwVars
  PROVE  DWTypeOK' /\ Structure'
<1>0. /\ closing \in BOOLEAN /\ spoiled \in BOOLEAN /\ others \in 0..MaxOthers
      /\ messages \in Seq(Messages) /\ projecting \subseteq DOMAIN made /\ book \in Books
      /\ wanted \in [Layers -> BOOLEAN]
  BY DEF DWTypeOK
<1>00. book.shown \in [Layers -> BOOLEAN]
  BY <1>0, BookFields
<1>1. ASSUME NEW l \in Layers, Toggle(l)
      PROVE  DWTypeOK' /\ Structure'
  <2>1. PICK show \in BOOLEAN : show = ~book.shown[l]
    OBVIOUS
  <2>2. PICK b : b = Scheduled(l, {l})
    OBVIOUS
  <2>3. PICK shown : shown = [b.shown EXCEPT ![l] = show]
    OBVIOUS
  <2>4. /\ Changes(l, {l}, show) /\ book' = [b EXCEPT !.shown[l] = show]
        /\ wanted' = [wanted EXCEPT ![l] = show]
    BY <1>1, <2>1, <2>2 DEF Toggle
  <2>5. l \in Keys /\ l # All /\ {l} \in SUBSET Layers
    BY DEF Keys, LayersAssumption
  <2>6. b.shown = book.shown
    <3>1. PICK N : N = Len(made) + 1
      OBVIOUS
    <3>2. N \in Revisions /\ N \notin DOMAIN made
      BY <2>4, <2>5, <3>1, MadeGrows DEF Changes
    <3>3. PICK gone : gone = SupersededRetries(book, l, {l})
      OBVIOUS
    <3> QED BY <2>2, <2>5, <3>1, <3>2, <3>3, ScheduledFields
  <2>7. shown \in [Layers -> BOOLEAN]
    BY <1>00, <2>3, <2>6
  <2>8. book' = [Scheduled(l, {l}) EXCEPT !.shown = shown]
    BY <2>2, <2>3, <2>4
  <2>9. wanted' \in [Layers -> BOOLEAN]
    BY <1>0, <2>4
  <2>10. PICK scope : scope = {l}
    OBVIOUS
  <2>11. Changes(l, scope, show) /\ book' = [Scheduled(l, scope) EXCEPT !.shown = shown]
    BY <2>4, <2>8, <2>10
  <2>12. l \in Keys /\ scope \in SUBSET Layers /\ (l # All => scope = {l})
    BY <2>5, <2>10
  <2> QED BY ONLY <2>1, <2>7, <2>9, <2>11, <2>12, LayersAssumption, DWTypeOK, Structure, ChangeTyped
<1>2. ASSUME NEW show \in BOOLEAN, ShowAll(show)
      PROVE  DWTypeOK' /\ Structure'
  <2>1. PICK scope : scope = IF {l \in Layers : book.shown[l] # show} # {}
                             THEN {l \in Layers : book.shown[l] # show} ELSE Layers
    OBVIOUS
  <2>2. PICK shown : shown = [l \in Layers |-> show]
    OBVIOUS
  <2>3. /\ Changes(All, scope, show) /\ book' = [Scheduled(All, scope) EXCEPT !.shown = shown]
        /\ wanted' = shown
    BY <1>2, <2>1, <2>2 DEF ShowAll
  <2>4. shown \in [Layers -> BOOLEAN] /\ All \in Keys /\ scope \in SUBSET Layers
    BY <2>1, <2>2 DEF Keys
  <2> QED BY <2>3, <2>4, ChangeTyped
<1>3. ASSUME NEW failing, NEW blocked \in BOOLEAN,
             book' = Flushed(failing, blocked), closing' \in BOOLEAN,
             spoiled' = (spoiled \/ blocked \/ failing # {}),
             UNCHANGED <<sql, made, messages, projecting, wanted, narrowed, others>>
      PROVE  DWTypeOK' /\ Structure'
  <2>1. Structure' /\ book' \in Books
    BY <1>3, FlushKeeps
  <2> QED BY <1>0, <1>3, <2>1, SameMadeTyped
<1>4. CASE Flush
  <2>1. PICK failing \in SUBSET Pending(book), blocked \in BOOLEAN :
          /\ book' = Flushed(failing, blocked)
          /\ spoiled' = (spoiled \/ blocked \/ failing # {})
    BY <1>4 DEF Flush
  <2> QED BY <1>0, <1>3, <1>4, <2>1 DEF Flush
<1>5. CASE PrepareShutdown
  <2>1. PICK failing \in SUBSET Pending(book), blocked \in BOOLEAN :
          /\ book' = Flushed(failing, blocked)
          /\ closing' = (Pending(book') = {})
          /\ spoiled' = (spoiled \/ blocked \/ failing # {})
    BY <1>5 DEF PrepareShutdown
  <2>2. UNCHANGED <<sql, made, messages, projecting, wanted, narrowed, others>>
    BY <1>5 DEF PrepareShutdown
  <2> QED BY <1>3, <2>1, <2>2
<1>6. CASE AbortShutdown \/ UNCHANGED dwVars
  <2>1. /\ closing' \in BOOLEAN
        /\ UNCHANGED <<sql, made, book, messages, projecting, wanted, spoiled, narrowed, others>>
    BY <1>0, <1>6 DEF AbortShutdown, dwVars
  <2>2. DWTypeOK'
    BY <1>0, <2>1, SameMadeTyped
  <2>3. Stage(book, 0)
    BY StageOfBook
  <2>4. \A q : Answered(q)' <=> Answered(q)
    BY <2>1 DEF Answered
  <2>5. /\ ~sql => messages' = <<>> /\ projecting' = {}
        /\ others = 0 => \A i \in DOMAIN messages' : messages'[i].kind # "remote"
        /\ ~sql /\ others = 0 => KeptForRetry(book)
    BY <2>1 DEF Structure
  <2>6. Structure'
    BY ONLY <2>1, <2>3, <2>4, <2>5, Structure, StructureStays
  <2> QED BY <2>2, <2>6
<1>7. CASE CommitNext
  <2>1. /\ UNCHANGED <<sql, made, projecting, closing, wanted, spoiled, narrowed, others>>
        /\ Structure' /\ book' \in Books /\ messages' \in Seq(Messages)
    BY <1>7, CommitStructure DEF CommitNext
  <2> QED BY <1>0, <2>1, SameMadeTyped
<1>8. CASE RejectNext
  <2>1. /\ UNCHANGED <<sql, made, projecting, closing, wanted, narrowed, others>> /\ spoiled' = TRUE
        /\ Structure' /\ book' \in Books /\ messages' \in Seq(Messages)
    BY <1>8, RejectStructure DEF RejectNext
  <2> QED BY <1>0, <2>1, SameMadeTyped
<1>9. CASE HandleCommitted
  <2>1. /\ UNCHANGED <<sql, made, closing, wanted, spoiled, narrowed, others>>
        /\ Structure' /\ book' \in Books /\ messages' \in Seq(Messages) /\ projecting' \subseteq DOMAIN made
    BY <1>9, CommittedStructure DEF HandleCommitted
  <2> QED BY <1>0, <2>1, SameMadeTyped
<1>10. CASE FinishProjection
  <2>1. /\ UNCHANGED <<sql, made, messages, closing, wanted, spoiled, narrowed, others>>
        /\ Structure' /\ book' \in Books /\ projecting' \subseteq DOMAIN made
    BY <1>10, FinishedStructure DEF FinishProjection
  <2> QED BY <1>0, <2>1, SameMadeTyped
<1>11. CASE HandleRejected
  <2>1. /\ UNCHANGED <<sql, made, projecting, closing, wanted, spoiled, narrowed, others>>
        /\ Structure' /\ book' \in Books /\ messages' \in Seq(Messages)
    BY <1>11, RejectedStructure DEF HandleRejected
  <2> QED BY <1>0, <2>1, SameMadeTyped
<1>12. ASSUME Other
       PROVE  others' \in 0..MaxOthers
  <2>1. others < MaxOthers /\ others' = others + 1
    BY <1>12 DEF Other
  <2>2. MaxOthers \in Nat
    BY DEF LayersAssumption
  <2> QED BY ONLY <1>0, <2>1, <2>2
<1>13. ASSUME NEW l \in Layers, RemoteChange(l)
       PROVE  DWTypeOK' /\ Structure'
  <2>1. /\ UNCHANGED <<sql, made, projecting, closing, wanted, narrowed>> /\ spoiled' = TRUE
        /\ others' \in 0..MaxOthers
    BY <1>12, <1>13 DEF RemoteChange, Other
  <2>2. Structure' /\ book' \in Books /\ messages' \in Seq(Messages)
    BY <1>13, RemoteStructure
  <2> QED BY <1>0, <2>1, <2>2, SameMadeTyped
<1>14. CASE HandleRemote
  <2>1. /\ UNCHANGED <<sql, made, projecting, closing, wanted, spoiled, narrowed, others>>
        /\ Structure' /\ book' \in Books /\ messages' \in Seq(Messages)
    BY <1>14, RemoteHandledStructure DEF HandleRemote
  <2> QED BY <1>0, <2>1, SameMadeTyped
<1>15. CASE Reload
  <2>1. /\ UNCHANGED <<sql, made, closing, wanted, narrowed>> /\ spoiled' = TRUE
        /\ messages' = <<>> /\ projecting' = {} /\ others' \in 0..MaxOthers
    BY <1>12, <1>15 DEF Reload, Other
  <2>2. Structure' /\ book' \in Books
    BY <1>15, ReloadStructure
  <2>3. messages' \in Seq(Messages) /\ projecting' \subseteq DOMAIN made
    BY <2>1
  <2> QED BY <1>0, <2>1, <2>2, <2>3, SameMadeTyped
<1> QED BY <1>1, <1>2, <1>4, <1>5, <1>6, <1>7, <1>8, <1>9, <1>10, <1>11, <1>13, <1>14, <1>15 DEF DWNext

-----------------------------------------------------------------------------
(* The theorems. *)

\* The books are correctly typed, and as Structure says: whatever is pending, open or kept
\* has a write or a result to come (_schedule_visual_setting, _complete_visual_revision).
THEOREM WritesTypeCorrect == DWSpec => [](DWTypeOK /\ Structure)
<1>1. DWInit => DWTypeOK /\ Structure
  BY WritesAssumption, InitTyped
<1>2. DWTypeOK /\ Structure /\ [DWNext]_dwVars => (DWTypeOK /\ Structure)'
  BY WritesAssumption, NextTyped
<1> QED BY <1>1, <1>2, PTL DEF DWSpec

\* When all writes are over, no state of a key is left, whatever the layers, the results and
\* their order (_complete_visual_revision, _discard_terminal_visual_state).
THEOREM NothingLeftCorrect == DWSpec => []NothingIsLeftBehind
<1> USE WritesAssumption
<1>1. ASSUME DWTypeOK, Structure
      PROVE  NothingIsLeftBehind
  <2> SUFFICES ASSUME Quiet, others = 0, NEW k \in Keys, Exists(book, k)
               PROVE  FALSE
    BY DEF NothingIsLeftBehind
  <2>1. \A j \in Keys : book.pending[j] = 0
    BY DEF Quiet, Pending
  <2>2. \A r \in DOMAIN made : ~Waits(book, r) /\ ~Answered(r)
    <3>1. \A r \in DOMAIN made : ~IsPending(book, r)
      BY <1>1, <2>1, MadeFacts DEF IsPending
    <3>2. \A r : ~InQueue(book, r) /\ ~Answered(r)
      BY DEF Quiet, InQueue, Answered
    <3> QED BY <3>1, <3>2 DEF Waits
  <2>3. \A j : ~IsOpen(book, j)
    BY <1>1, <2>2 DEF Structure, OpenHasResult, IsOpen, Revs
  <2> QED BY <1>1, <2>1, <2>3 DEF Structure, KeptForWrite
<1> QED BY <1>1, WritesTypeCorrect, PTL

-----------------------------------------------------------------------------
(* Without faults: what is shown of a layer when a write is over. c shows  *)
(* each layer as m does, or as the newest change of it says.               *)

Shows(m, c) ==
  \A l \in Layers :
    \/ c.shown[l] = m.shown[l]
    \/ Covering(m, l) # {} /\ c.shown[l] = made[Max(Covering(m, l))].show

LEMMA MaxIs ==
  ASSUME LayersAssumption, DWTypeOK, NEW S \in SUBSET DOMAIN made, NEW x \in S, \A y \in S : y <= x
  PROVE  Max(S) = x
<1>1. Max(S) \in S /\ x <= Max(S)
  BY Newest
<1>2. Max(S) \in Nat /\ x \in Nat /\ Max(S) <= x
  BY <1>1, MadeFacts
<1> QED BY ONLY <1>1, <1>2

\* The changes of a layer are those of its key and some of the key of all.
LEMMA CoveringIs ==
  ASSUME LayersAssumption, DWTypeOK, OwnScope, NEW m \in Books, NEW l \in Layers
  PROVE  /\ Covering(m, l) \subseteq DOMAIN made
         /\ \A x \in Covering(m, l) : /\ made[x].key \in {l, All} /\ made[x].key \in Keys
                                      /\ x \in Revs(m, made[x].key)
                                      /\ l \in made[x].scope
         /\ \A x \in Revs(m, l) : x \in Covering(m, l) /\ made[x].scope = {l}
         /\ \A x \in Revs(m, All) : l \in made[x].scope => x \in Covering(m, l)
         /\ l # All /\ l \in Keys
<1>1. l # All /\ l \in Keys
  BY DEF LayersAssumption, Keys
<1>2. ASSUME NEW x \in Covering(m, l)
      PROVE  made[x].key \in {l, All} /\ made[x].key \in Keys /\ x \in Revs(m, made[x].key)
  BY MadeFacts DEF Covering, OwnScope, Revs
<1>3. ASSUME NEW x \in Revs(m, l)
      PROVE  x \in Covering(m, l) /\ made[x].scope = {l}
  BY <1>1 DEF Covering, OwnScope, Revs
<1> QED BY <1>1, <1>2, <1>3 DEF Covering, Revs

\* All states of the changes of a layer are connected, or none is.
LEMMA CoveringWhole ==
  ASSUME LayersAssumption, DWTypeOK, OwnScope, NEW n \in Books, ScopesNest(n), NEW k \in Keys, NEW l \in Layers,
         NEW x \in Covering(n, l), NEW y \in Covering(n, l), made[x].key \in Connected(n, k)
  PROVE  made[y].key \in Connected(n, k)
<1>1. /\ made[x].key \in {l, All} /\ x \in Revs(n, made[x].key) /\ made[x].key \in Keys
      /\ made[y].key \in {l, All} /\ y \in Revs(n, made[y].key) /\ made[y].key \in Keys
      /\ l \in made[x].scope /\ l \in made[y].scope /\ l # All
  BY CoveringIs
<1>2. Exists(n, made[x].key) /\ Exists(n, made[y].key)
  BY <1>1 DEF Exists
<1>3. CASE made[x].key = made[y].key
  BY <1>3
<1>4. CASE made[x].key # made[y].key
  <2>1. l \in Scope(n, All)
    BY <1>1, <1>4 DEF ScopesNest, Revs
  <2>2. InAll(n, made[x].key) /\ InAll(n, made[y].key)
    BY <1>1, <2>1 DEF InAll
  <2>3. InAll(n, k)
    BY <1>1, <1>2, <2>2, ConnectedIff
  <2> QED BY <1>1, <1>2, <2>2, <2>3, ConnectedIff
<1> QED BY <1>3, <1>4

\* The newest change of a layer is projected alone.
LEMMA ShowsOne ==
  ASSUME LayersAssumption, DWTypeOK, OwnScope, NEW m \in Books, NEW k \in Layers,
         NEW base \in Covering(m, k), made[base].key = k, \A x \in Covering(m, k) : x <= base
  PROVE  Shows(m, ShowFrom(m, k, base))
<1>1. /\ Covering(m, k) \subseteq DOMAIN made /\ base \in Revs(m, k) /\ made[base].scope = {k} /\ k # All
  BY CoveringIs
<1>2. Max(Covering(m, k)) = base
  BY <1>1, MaxIs
<1>3. ShowFrom(m, k, base) = Project(m, {base})
  BY <1>1 DEF ShowFrom
<1>4. ASSUME NEW l \in Layers
      PROVE  \/ ShowFrom(m, k, base).shown[l] = m.shown[l]
             \/ Covering(m, l) # {} /\ ShowFrom(m, k, base).shown[l] = made[Max(Covering(m, l))].show
  <2>1. Project(m, {base}).shown[l] = IF {r \in {base} : l \in made[r].scope} = {} THEN m.shown[l]
                                      ELSE made[Max({r \in {base} : l \in made[r].scope})].show
    <3>1. PICK rs : rs = {base}
      OBVIOUS
    <3>2. rs \in SUBSET DOMAIN made
      BY <1>1, <3>1
    <3>3. Project(m, rs).shown[l] = IF {r \in rs : l \in made[r].scope} = {} THEN m.shown[l]
                                    ELSE made[Max({r \in rs : l \in made[r].scope})].show
      BY <3>2, ProjectFields
    <3> QED BY <3>1, <3>3
  <2>2. CASE l = k
    <3>1. PICK S : S = {r \in {base} : l \in made[r].scope}
      OBVIOUS
    <3>2. base \in S /\ S \subseteq DOMAIN made /\ \A y \in S : y <= base
      BY <1>1, <2>2, <3>1
    <3>3. Max(S) = base
      BY <3>2, MaxIs
    <3> QED BY <1>2, <1>3, <2>1, <2>2, <3>1, <3>2, <3>3
  <2>3. CASE l # k
    <3>1. {r \in {base} : l \in made[r].scope} = {}
      BY <1>1, <2>3
    <3> QED BY <1>3, <2>1, <3>1
  <2> QED BY <2>2, <2>3
<1> QED BY <1>4 DEF Shows

\* The newest change of all layers is projected, with those of layers after it.
LEMMA ShowsAll ==
  ASSUME LayersAssumption, DWTypeOK, OwnScope, NEW m \in Books, NoneFailed(m), ScopesNest(m),
         NEW base \in Revs(m, All), \A x \in Revs(m, All) : x <= base
  PROVE  Shows(m, ShowFrom(m, All, base))
<1>1. base \in DOMAIN made /\ made[base].key = All /\ m.status[base] # "gone"
  BY DEF Revs
<1>2. PICK rs : rs = After(m, base, Scope(m, All))
  OBVIOUS
<1>3. ShowFrom(m, All, base) = Project(m, rs)
  BY <1>2 DEF ShowFrom
<1>4. All \in Keys /\ Scope(m, All) \subseteq Layers
  BY BookFields DEF Keys
<1>5. rs \subseteq DOMAIN made
  BY <1>1, <1>2, <1>4, AfterIsMade
<1>6. \A j : Viable(m, j) = Revs(m, j)
  BY DEF Viable, NoneFailed, Revs
<1> DEFINE later(j) == {r \in Viable(m, j) : r > base}
<1>7. \A j : later(j) \subseteq DOMAIN made
  BY DEF Viable, Revs
<1>8. rs = {base} \cup {Max(later(j)) : j \in {j \in Scope(m, All) : \E r \in Viable(m, j) : r > base}}
  BY <1>2 DEF After
<1>9. ASSUME NEW x \in rs, x # base
      PROVE  \E j \in Scope(m, All) : /\ j \in Layers /\ x \in Revs(m, j) /\ x > base
                                      /\ made[x].scope = {j}
  <2>1. PICK j \in Scope(m, All) : (\E r \in Viable(m, j) : r > base) /\ x = Max(later(j))
    BY <1>8, <1>9
  <2>2. later(j) # {}
    BY <2>1
  <2>3. x \in later(j)
    BY <1>7, <2>1, <2>2, Newest
  <2>4. x \in Revs(m, j) /\ x > base /\ j \in Layers
    BY <1>4, <1>6, <2>3
  <2>5. made[x].scope = {j}
    BY <2>4, CoveringIs
  <2> QED BY <2>4, <2>5
<1>10. ASSUME NEW j \in Scope(m, All), NEW y \in Revs(m, j), y > base
       PROVE  Max(later(j)) \in rs /\ y <= Max(later(j)) /\ Max(later(j)) \in Revs(m, j)
  <2>1. y \in later(j)
    BY <1>6, <1>10
  <2>2. Max(later(j)) \in later(j) /\ y <= Max(later(j))
    BY <1>7, <2>1, Newest
  <2> QED BY <1>6, <1>8, <2>1, <2>2
<1> HIDE DEF later
<1>11. ASSUME NEW l \in Layers, NEW mine, mine = {r \in rs : l \in made[r].scope}, mine # {}
       PROVE  Covering(m, l) # {} /\ Max(mine) = Max(Covering(m, l))
  <2>1. mine \subseteq DOMAIN made
    BY <1>5, <1>11
  <2>2. PICK top \in mine : top = Max(mine) /\ \A x \in mine : x <= top
    BY <1>11, <2>1, Newest
  <2>3. \A x \in rs : x \in Nat /\ base <= x
    BY <1>1, <1>5, <1>9, MadeFacts
  <2>4. top \in Covering(m, l)
    <3>1. top \in rs /\ l \in made[top].scope
      BY <1>11
    <3>2. CASE top = base
      BY <1>1, <3>1, <3>2 DEF Covering
    <3>3. CASE top # base
      BY <1>9, <3>1, <3>3 DEF Covering, Revs
    <3> QED BY <3>2, <3>3
  <2>5. l \in Scope(m, All)
    <3>1. top \in rs /\ l \in made[top].scope
      BY <1>11
    <3>2. CASE top = base
      BY <1>1, <3>1, <3>2 DEF ScopesNest
    <3>3. CASE top # base
      BY <1>9, <3>1, <3>3
    <3> QED BY <3>2, <3>3
  <2>6. ASSUME NEW y \in Covering(m, l)
        PROVE  y <= top
    <3>1. /\ made[y].key \in {l, All} /\ y \in Revs(m, made[y].key) /\ y \in Nat
      BY CoveringIs, MadeFacts
    <3>2. base <= top /\ top \in Nat /\ base \in Nat
      BY <1>1, <1>11, <2>3, MadeFacts
    <3>3. CASE y <= base
      BY ONLY <3>1, <3>2, <3>3
    <3>4. CASE y > base
      <4>1. made[y].key = l
        <5>1. made[y].key = All => y <= base
          BY <3>1
        <5> QED BY ONLY <3>1, <3>2, <3>4, <5>1
      <4>2. PICK x : x = Max(later(l))
        OBVIOUS
      <4>3. x \in rs /\ y <= x /\ x \in Revs(m, l)
        BY <1>10, <2>5, <3>1, <3>4, <4>1, <4>2
      <4>4. made[x].scope = {l}
        BY <4>3, CoveringIs
      <4>5. x \in mine /\ x \in Nat
        BY <1>11, <2>3, <4>3, <4>4
      <4>6. x <= top
        BY <2>2, <4>5
      <4> QED BY ONLY <3>1, <3>2, <4>3, <4>5, <4>6
    <3> QED BY ONLY <3>1, <3>2, <3>3, <3>4
  <2>7. Max(Covering(m, l)) = top
    BY <2>4, <2>6, CoveringIs, MaxIs
  <2> QED BY <2>2, <2>4, <2>7
<1>12. ASSUME NEW l \in Layers
       PROVE  \/ Project(m, rs).shown[l] = m.shown[l]
              \/ Covering(m, l) # {} /\ Project(m, rs).shown[l] = made[Max(Covering(m, l))].show
  <2>1. PICK mine : mine = {r \in rs : l \in made[r].scope}
    OBVIOUS
  <2>2. Project(m, rs).shown[l] = IF mine = {} THEN m.shown[l] ELSE made[Max(mine)].show
    BY <1>5, <2>1, ProjectFields
  <2>3. mine # {} => Covering(m, l) # {} /\ Max(mine) = Max(Covering(m, l))
    BY <1>11, <2>1
  <2> QED BY <2>2, <2>3
<1> QED BY <1>3, <1>12 DEF Shows

LEMMA ReconciledShows ==
  ASSUME LayersAssumption, DWTypeOK, OwnScope, NEW n \in Books, NoneFailed(n), ScopesNest(n), NEW k \in Keys,
         \A j \in Connected(n, k) : ~IsOpen(n, j)
  PROVE  Shows(n, Reconciled(n, k))
<1> DEFINE ks == Connected(n, k)
           rs == UNION {Revs(n, j) : j \in ks}
           done == {r \in rs : n.status[r] = "done"}
           shown == Project(n, done)
           Superseded(j) == /\ HasFailed(n, n.pending[j])
                            /\ \E r \in done : /\ r > n.pending[j]
                                               /\ made[r].scope \cap made[n.pending[j]].scope # {}
           ending == {j \in ks : ~HasFailed(n, n.pending[j]) \/ Superseded(j)}
           unpended == [shown EXCEPT !.pending = [j \in Keys |-> IF j \in ks /\ Superseded(j) THEN 0 ELSE @[j]]]
           pending == [j \in Keys |-> IF j \in ks /\ Superseded(j) THEN 0 ELSE n.pending[j]]
<1>1. done \in SUBSET DOMAIN made
  BY DEF Revs
<1>2. ~\E r \in rs : n.status[r] = "failed"
  BY DEF NoneFailed, Revs
<1>3. Reconciled(n, k) = Drop(unpended, ending)
  BY <1>2 DEF Reconciled
<1>4. \A x \in DOMAIN made : made[x].key \in ks /\ n.status[x] # "gone" => x \in done
  <2>1. ASSUME NEW x \in DOMAIN made, made[x].key \in ks, n.status[x] # "gone"
        PROVE  x \in done
    <3>1. x \in Revs(n, made[x].key)
      BY <2>1 DEF Revs
    <3>2. n.status[x] \in {"open", "done", "failed", "gone"}
      BY BookFields, MadeFacts
    <3>3. n.status[x] # "open"
      BY <2>1, <3>1 DEF IsOpen
    <3> QED BY <2>1, <3>1, <3>2, <3>3 DEF NoneFailed
  <2> QED BY <2>1
<1>5. \A x \in done : made[x].key \in ks /\ n.status[x] # "gone"
  BY DEF Revs
<1>6. pending \in [Keys -> {0} \cup DOMAIN made]
  BY BookFields
<1> HIDE DEF done
<1>7. /\ shown \in Books /\ shown.pending = n.pending
      /\ \A l \in Layers : shown.shown[l] = IF {r \in done : l \in made[r].scope} = {} THEN n.shown[l]
                                            ELSE made[Max({r \in done : l \in made[r].scope})].show
  BY <1>1, ProjectFields
<1> HIDE DEF shown
<1>8. unpended = [shown EXCEPT !.pending = pending]
  BY <1>7
<1> HIDE DEF pending, unpended, ending
<1>9. unpended \in Books /\ unpended.shown = shown.shown
  BY <1>6, <1>7, <1>8 DEF Books
<1>10. Reconciled(n, k).shown = shown.shown
  BY <1>3, <1>9, DropFields
<1>11. ASSUME NEW l \in Layers, NEW mine, mine = {r \in done : l \in made[r].scope}, mine # {}
       PROVE  Covering(n, l) # {} /\ Max(mine) = Max(Covering(n, l))
  <2>1. PICK top \in mine : top = Max(mine) /\ \A x \in mine : x <= top
    BY <1>1, <1>11, Newest
  <2>2. top \in Covering(n, l)
    BY <1>1, <1>5, <1>11 DEF Covering
  <2>3. ASSUME NEW y \in Covering(n, l)
        PROVE  y <= top
    <3>1. made[top].key \in Connected(n, k)
      BY <1>5, <1>11
    <3>2. made[y].key \in ks
      BY <2>2, <3>1, CoveringWhole
    <3>3. y \in done /\ l \in made[y].scope
      BY <1>4, <3>2 DEF Covering
    <3> QED BY <1>11, <2>1, <3>3
  <2>4. Max(Covering(n, l)) = top
    BY <2>2, <2>3, CoveringIs, MaxIs
  <2> QED BY <2>1, <2>2, <2>4
<1>12. ASSUME NEW l \in Layers
       PROVE  \/ Reconciled(n, k).shown[l] = n.shown[l]
              \/ Covering(n, l) # {} /\ Reconciled(n, k).shown[l] = made[Max(Covering(n, l))].show
  <2>1. PICK mine : mine = {r \in done : l \in made[r].scope}
    OBVIOUS
  <2>2. Reconciled(n, k).shown[l] = IF mine = {} THEN n.shown[l] ELSE made[Max(mine)].show
    BY <1>7, <1>10, <2>1
  <2>3. mine # {} => Covering(n, l) # {} /\ Max(mine) = Max(Covering(n, l))
    BY <1>11, <2>1
  <2> QED BY <2>2, <2>3
<1> QED BY <1>12 DEF Shows

LEMMA SettledShows ==
  ASSUME LayersAssumption, DWTypeOK, OwnScope, NEW n \in Books, NoneFailed(n), ScopesNest(n),
         NEW r \in DOMAIN made, n.status[r] = "done"
  PROVE  Shows(n, Settled(n, made[r].key, r))
<1> DEFINE k == made[r].key
           newer == {q \in Viable(n, k) \cup
                            (IF k \in Scope(n, All) THEN Viable(n, All) ELSE {}) : q > r}
           done == {q \in Revs(n, k) : n.status[q] = "done"}
           End(c, retain) == Drop(c, IF retain \/ OtherOpen(n, k) THEN {} ELSE {k})
           first == ShowFrom(n, made[Max(newer)].key, Max(newer))
           second == ShowFrom(n, k, Max(Viable(n, k)))
           third == ShowFrom(n, k, Max(done))
           fourth == Project(Restored(n, {k}), IF k = All THEN After(n, r, Scope(n, k)) \ {r} ELSE {})
<1>1. k \in Keys /\ r \in Revs(n, k) /\ r \in Nat
  BY MadeFacts DEF Revs
<1>2. \A j : Viable(n, j) = Revs(n, j)
  BY DEF Viable, NoneFailed, Revs
<1>3. newer \subseteq DOMAIN made /\ done \subseteq DOMAIN made
  BY DEF Viable, Revs
<1>4. r \in done
  BY <1>1
<1>5. Settled(n, k, r) = IF k # All /\ newer # {} THEN End(first, IsOpen(n, k))
                         ELSE IF IsOpen(n, k) THEN second
                         ELSE IF done # {} THEN End(third, FALSE)
                         ELSE End(fourth, n.pending[k] = r)
  BY DEF Settled
<1>6. ~IsOpen(n, k) => done = Revs(n, k)
  <2>1. ASSUME NEW x \in Revs(n, k), ~IsOpen(n, k)
        PROVE  n.status[x] = "done"
    <3>1. n.status[x] \in {"open", "done", "failed", "gone"}
      BY BookFields, MadeFacts DEF Revs
    <3> QED BY <2>1, <3>1 DEF IsOpen, NoneFailed, Revs
  <2> QED BY <2>1
<1>7. k # All => /\ k \in Layers
                 /\ \A x \in Covering(n, k) : x \in Revs(n, k) \/ (k \in Scope(n, All) /\ x \in Revs(n, All))
  <2>1. ASSUME k # All, NEW x \in Covering(n, k)
        PROVE  x \in Revs(n, k) \/ (k \in Scope(n, All) /\ x \in Revs(n, All))
    BY <1>1, <2>1, CoveringIs DEF Keys, ScopesNest, Revs
  <2> QED BY <1>1, <2>1 DEF Keys
<1>8. \A x \in Revs(n, k) : x \in Nat /\ x \in DOMAIN made
  BY MadeFacts DEF Revs
<1>9. ASSUME NEW c \in Books, NEW retain, Shows(n, c)
      PROVE  Shows(n, End(c, retain))
  <2>1. End(c, retain).shown = c.shown
    BY <1>9, DropFields
  <2> QED BY <1>9, <2>1 DEF Shows
<1>10. ASSUME NEW base \in DOMAIN made, NEW j \in Keys
       PROVE  ShowFrom(n, j, base) \in Books
  BY ShowFromFields
<1>11. ASSUME NEW base \in Revs(n, k), \A x \in Revs(n, k) : x <= base, ~(k # All /\ newer # {})
       PROVE  Shows(n, ShowFrom(n, k, base))
  <2>1. CASE k = All
    BY <1>11, <2>1, ShowsAll
  <2>2. CASE k # All
    <3>1. base \in Covering(n, k) /\ made[base].key = k
      BY <1>7, <2>2, CoveringIs DEF Revs
    <3>2. ASSUME NEW x \in Covering(n, k)
          PROVE  x <= base
      <4>1. x \in Revs(n, k) \/ (k \in Scope(n, All) /\ x \in Revs(n, All))
        BY <1>7, <2>2
      <4>2. ~(x > r) /\ x \in Nat
        BY <1>2, <1>11, <2>2, <4>1, MadeFacts DEF Revs
      <4>3. r <= base /\ base \in Nat
        BY <1>1, <1>8, <1>11
      <4> QED BY ONLY <4>2, <4>3, <1>1
    <3> QED BY <1>7, <2>2, <3>1, <3>2, ShowsOne
  <2> QED BY <2>1, <2>2
<1>12. CASE k # All /\ newer # {}
  <2>1. PICK q \in newer : q = Max(newer) /\ \A x \in newer : x <= q
    BY <1>3, <1>12, Newest
  <2>2. q \in DOMAIN made /\ q \in Nat /\ q > r
    BY <1>3, MadeFacts
  <2>3. first = ShowFrom(n, made[q].key, q)
    BY <2>1
  <2>4. \A x \in Revs(n, k) : x <= q
    <3>1. ASSUME NEW x \in Revs(n, k)
          PROVE  x <= q
      <4>1. x > r => x <= q
        BY <1>2, <2>1
      <4> QED BY ONLY <4>1, <2>2, <1>1, <1>8, x \in Revs(n, k)
    <3> QED BY <3>1
  <2>5. k \in Scope(n, All) => \A x \in Revs(n, All) : x <= q
    <3>1. ASSUME NEW x \in Revs(n, All), k \in Scope(n, All)
          PROVE  x <= q
      <4>1. x > r => x <= q
        BY <1>2, <2>1, <3>1
      <4>2. x \in Nat
        BY MadeFacts DEF Revs
      <4> QED BY ONLY <4>1, <4>2, <2>2, <1>1
    <3> QED BY <3>1
  <2>6. ASSUME q \in Revs(n, k)
        PROVE  Shows(n, first)
    <3>1. made[q].key = k /\ q \in Covering(n, k)
      BY <1>7, <1>12, <2>6, CoveringIs DEF Revs
    <3>2. \A x \in Covering(n, k) : x <= q
      BY <1>7, <1>12, <2>4, <2>5
    <3> QED BY <1>7, <1>12, <2>3, <3>1, <3>2, ShowsOne
  <2>7. ASSUME q \notin Revs(n, k)
        PROVE  Shows(n, first)
    <3>1. k \in Scope(n, All) /\ q \in Revs(n, All)
      BY <1>2, <2>7
    <3>2. made[q].key = All
      BY <3>1 DEF Revs
    <3>3. \A x \in Revs(n, All) : x <= q
      BY <2>5, <3>1
    <3>4. Shows(n, ShowFrom(n, All, q))
      BY <3>1, <3>3, ShowsAll
    <3> QED BY <2>3, <3>2, <3>4
  <2>8. Shows(n, first)
    BY <2>6, <2>7
  <2>9. first \in Books
    <3>1. made[q].key \in Keys
      BY <2>2, MadeFacts
    <3> QED BY <1>10, <2>2, <2>3, <3>1
  <2> HIDE DEF first, newer
  <2> QED BY <1>5, <1>9, <1>12, <2>8, <2>9
<1>13. CASE ~(k # All /\ newer # {}) /\ IsOpen(n, k)
  <2>1. PICK base : base = Max(Viable(n, k))
    OBVIOUS
  <2>2. base \in Revs(n, k) /\ \A x \in Revs(n, k) : x <= base
    BY <1>1, <1>2, <1>8, <2>1, Newest
  <2>3. Shows(n, second)
    BY <1>11, <1>13, <2>1, <2>2
  <2> QED BY <1>5, <1>13, <2>3
<1>14. CASE ~(k # All /\ newer # {}) /\ ~IsOpen(n, k)
  <2>1. PICK base : base = Max(done)
    OBVIOUS
  <2>2. base \in Revs(n, k) /\ \A x \in Revs(n, k) : x <= base
    BY <1>1, <1>3, <1>6, <1>14, <2>1, Newest
  <2>3. Shows(n, third) /\ third \in Books
    BY <1>1, <1>8, <1>10, <1>11, <1>14, <2>1, <2>2
  <2> HIDE DEF third, newer
  <2>4. Shows(n, End(third, FALSE))
    BY <1>9, <2>3
  <2> QED BY <1>4, <1>5, <1>14, <2>4
<1> QED BY <1>12, <1>13, <1>14

\* The write of r is over and none failed: the changes of each layer are kept or end
\* together, and the layer is shown as before, or as its newest change says.
CleanEnd(m, c, r) ==
  /\ c \in Books /\ NoneFailed(c)
  /\ \A j \in Keys : c.pending[j] = m.pending[j]
  /\ c.db = m.db /\ c.queue = m.queue
  /\ \A q \in DOMAIN made : c.status[q] = "open" <=> m.status[q] = "open" /\ q # r
  /\ \A q \in DOMAIN made : c.status[q] = "done" => m.status[q] = "done" \/ q = r
  /\ \A q \in DOMAIN made : c.status[q] # "gone" => m.status[q] # "gone"
  /\ \A l \in Layers : Covering(c, l) = {} \/ Covering(c, l) = Covering(m, l)
  /\ Shows(m, c)

LEMMA CompleteClean ==
  ASSUME LayersAssumption, DWTypeOK, OwnScope, NEW m \in Books, NoneFailed(m), ScopesNest(m),
         NEW r \in DOMAIN made, m.status[r] = "open", NEW c, c = Complete(m, r, TRUE)
  PROVE  CleanEnd(m, c, r)
<1> DEFINE k == made[r].key
<1>1. r \in Revisions /\ k \in Keys /\ \A q \in DOMAIN made : q \in Revisions
  BY MadeFacts
<1>2. PICK n \in Books, gone \in SUBSET Keys, zero \in SUBSET Keys :
        /\ n.status = [m.status EXCEPT ![r] = "done"]
        /\ n.restore = m.restore /\ n.pending = m.pending
        /\ n.db = m.db /\ n.queue = m.queue
        /\ Ended(n, c, k, gone, zero)
        /\ NoneFailed(n) => gone = {} \/ gone = Connected(n, k)
  <2>1. PICK success \in BOOLEAN : success = TRUE
    OBVIOUS
  <2>2. c = Complete(m, r, success)
    BY <2>1
  <2>3. \E n \in Books, gone, zero \in SUBSET Keys :
           /\ n.status = [m.status EXCEPT ![r] = IF success THEN "done" ELSE "failed"]
           /\ n.restore = m.restore /\ n.pending = m.pending
           /\ n.db = m.db /\ n.queue = m.queue
           /\ Exists(n, made[r].key)
           /\ Ended(n, Complete(m, r, success), made[r].key, gone, zero)
           /\ NoOpenEnds(n, made[r].key, gone)
           /\ success /\ m.pending[made[r].key] = r =>
                \/ made[r].key \in gone
                \/ \E i \in Connected(n, made[r].key) : IsOpen(n, i)
           /\ NoneFailed(n) => gone = {} \/ gone = Connected(n, made[r].key)
    BY CompleteEnds
  <2> QED BY <2>1, <2>2, <2>3
<1>3. \A q \in DOMAIN made : n.status[q] = IF q = r THEN "done" ELSE m.status[q]
  BY <1>1, <1>2, BookFields
<1>4. NoneFailed(n)
  BY <1>3 DEF NoneFailed
<1>5. zero = {}
  <2>1. ASSUME NEW j \in zero
        PROVE  FALSE
    <3>1. n.pending[j] \in {0} \cup DOMAIN made /\ HasFailed(n, n.pending[j])
      BY <1>2, BookFields DEF Ended
    <3> QED BY <1>4, <3>1 DEF HasFailed, NoneFailed
  <2> QED BY <2>1
<1>6. /\ c \in Books /\ c.db = m.db /\ c.queue = m.queue
      /\ \A j \in Keys : c.pending[j] = m.pending[j]
      /\ \A q \in DOMAIN made : c.status[q] = IF made[q].key \in gone THEN "gone" ELSE n.status[q]
  BY <1>2, <1>5 DEF Ended
<1>7. NoneFailed(c)
  BY <1>4, <1>6 DEF NoneFailed
<1>8. \A q \in DOMAIN made : c.status[q] = "open" <=> m.status[q] = "open" /\ q # r
  <2>1. PICK success \in BOOLEAN : success = TRUE
    OBVIOUS
  <2>2. c = Complete(m, r, success) /\ m \in Books
    BY <2>1
  <2>3. Shrinks(m, c, r)
    BY <2>2, CompleteShrinks
  <2> QED BY ONLY <2>3, m.status[r] = "open" DEF Shrinks
<1>9. /\ \A q \in DOMAIN made : c.status[q] = "done" => m.status[q] = "done" \/ q = r
      /\ \A q \in DOMAIN made : c.status[q] # "gone" => m.status[q] # "gone"
  BY <1>3, <1>6
<1>10. \A l : Covering(n, l) = Covering(m, l)
  BY <1>3 DEF Covering
<1>11. ScopesNest(n)
  <2>1. \A j : Scope(n, j) = Scope(m, j)
    BY <1>2 DEF Scope
  <2> QED BY <1>3, <2>1 DEF ScopesNest
<1>12. ASSUME NEW l \in Layers
       PROVE  Covering(c, l) = {} \/ Covering(c, l) = Covering(n, l)
  <2>1. \A x : x \in Covering(c, l) <=> x \in Covering(n, l) /\ made[x].key \notin gone
    BY <1>6 DEF Covering
  <2>2. CASE gone = {}
    BY <2>1, <2>2
  <2>3. CASE gone = Connected(n, k)
    <3>1. ASSUME NEW x \in Covering(c, l), NEW y \in Covering(n, l)
          PROVE  y \in Covering(c, l)
      <4>1. x \in Covering(n, l) /\ made[x].key \notin gone
        BY <2>1
      <4>2. made[y].key \in Connected(n, k) => made[x].key \in Connected(n, k)
        BY <1>1, <1>11, <4>1, CoveringWhole
      <4> QED BY <2>1, <2>3, <4>1, <4>2
    <3> QED BY <2>1, <3>1
  <2> QED BY <1>2, <1>4, <2>2, <2>3
<1>13. Shows(m, c)
  <2>1. PICK status : status = [m.status EXCEPT ![r] = "done"]
    OBVIOUS
  <2>2. PICK d : d = [m EXCEPT !.status = status]
    OBVIOUS
  <2>3. status \in [Revisions -> {"open", "done", "failed", "gone"}]
    BY <1>1, <2>1, BookFields
  <2>4. /\ d \in Books /\ d.status = status /\ d.restore = m.restore /\ d.shown = m.shown
    BY <2>2, <2>3 DEF Books
  <2>5. d = [m EXCEPT !.status[r] = "done"]
    BY <2>1, <2>2 DEF Books
  <2>6. d.status = n.status /\ d.restore = n.restore
    BY <1>2, <2>1, <2>4
  <2>7. NoneFailed(d) /\ d.status[r] = "done"
    BY <1>3, <1>4, <2>6 DEF NoneFailed
  <2>8. ScopesNest(d) /\ \A l : Covering(d, l) = Covering(m, l)
    BY <1>10, <1>11, <2>6 DEF ScopesNest, Scope, Covering
  <2>9. CASE (k = All \/ Cardinality(Connected(d, k)) > 1) /\ \A j \in Connected(d, k) : ~IsOpen(d, j)
    <3>1. c = Reconciled(d, k)
      BY <2>5, <2>9 DEF Complete
    <3>2. Shows(d, c)
      BY <1>1, <2>4, <2>7, <2>8, <2>9, <3>1, ReconciledShows
    <3> QED BY <2>4, <2>8, <3>2 DEF Shows
  <2>10. CASE ~((k = All \/ Cardinality(Connected(d, k)) > 1) /\ \A j \in Connected(d, k) : ~IsOpen(d, j))
    <3>1. c = Settled(d, k, r)
      BY <2>5, <2>10 DEF Complete
    <3>2. Shows(d, c)
      BY <2>4, <2>7, <2>8, <3>1, SettledShows
    <3> QED BY <2>4, <2>8, <3>2 DEF Shows
  <2> QED BY <2>9, <2>10
<1> QED BY <1>6, <1>7, <1>8, <1>9, <1>10, <1>12, <1>13 DEF CleanEnd

-----------------------------------------------------------------------------
(* Without faults: a flush. *)

\* A step in which the user changes nothing.
LEMMA IntentStays ==
  ASSUME NEW b, NEW ms, NEW ps, book' = b, messages' = ms, projecting' = ps,
         UNCHANGED <<sql, made, wanted>>, others' = 0, Faithful(b, ms, ps)
  PROVE  Intent'
<1>1. /\ \A q : Waits(book, q)' <=> Waits(b, q)
      /\ \A q : InQueue(book, q)' <=> InQueue(b, q)
      /\ \A q : IsPending(book, q)' <=> IsPending(b, q)
      /\ \A q : Lives(book, q)' <=> Lives(b, q)
  BY DEF Waits, IsPending, InQueue, Lives
<1>2. \A l : Covering(book, l)' = Covering(b, l)
  BY DEF Covering
<1>3. \A l : Written(book, l)' <=> Written(b, l)
  BY <1>1 DEF Written
<1>4. NoneFailed(book)' /\ WaitingIsOpen(book)' /\ WritesInOrder(book)'
  BY <1>1 DEF Faithful, NoneFailed, WaitingIsOpen, WritesInOrder
<1>5. sql => NewestIsStored(book)'
  BY <1>2, <1>3 DEF Faithful, NewestIsStored
<1>6. sql => ResultsInOrder(book, messages, projecting)'
  BY <1>1 DEF Faithful, ResultsInOrder
<1>7. sql => StoredIsShown(book, messages)'
  BY <1>3 DEF Faithful, StoredIsShown
<1>8. ~sql => NewestIsWanted(book)' /\ NoneDone(book)'
  BY <1>2, <1>3 DEF Faithful, NewestIsWanted, NoneDone
<1> QED BY <1>4, <1>5, <1>6, <1>7, <1>8 DEF Intent, Faithful

\* A turn of a flush in SQL: what is pending goes to the queue.
SqlStage(m, n) ==
  /\ Stage(m, n)
  /\ m.status = book.status /\ m.shown = book.shown /\ m.db = book.db
  /\ \A q \in DOMAIN made : Waits(m, q) <=> Waits(book, q)
  /\ WritesInOrder(m)
  /\ \A q \in DOMAIN made : IsPending(m, q) => q > n

LEMMA SqlTurn ==
  ASSUME LayersAssumption, DWTypeOK, Structure, WaitingIsOpen(book), sql,
         NEW m, NEW n \in DOMAIN made, SqlStage(m, n - 1)
  PROVE  SqlStage(Turn(m, n, {}, FALSE), n)
<1>1. Stage(m, n - 1) /\ Stage(Turn(m, n, {}, FALSE), n) /\ m \in Books
  BY TurnStage DEF SqlStage, Stage
<1>2. \A q \in DOMAIN made : IsPending(m, q) => q = n \/ q > n
  <2>1. ASSUME NEW q \in DOMAIN made, IsPending(m, q)
        PROVE  q = n \/ q > n
    <3>1. q > n - 1 /\ q \in Nat /\ n \in Nat
      BY <2>1, MadeFacts DEF SqlStage
    <3> QED BY ONLY <3>1
  <2> QED BY <2>1
<1>3. made[n].key \in Keys
  BY MadeFacts
<1>4. CASE m.pending[made[n].key] # n
  <2>1. Turn(m, n, {}, FALSE) = m
    BY <1>4 DEF Turn
  <2>2. \A q \in DOMAIN made : IsPending(m, q) => q > n
    BY <1>2, <1>4 DEF IsPending
  <2> QED BY <1>1, <2>1, <2>2 DEF SqlStage
<1>5. CASE m.pending[made[n].key] = n
  <2>1. PICK queue : queue = Append(m.queue, n)
    OBVIOUS
  <2>2. PICK x : x = [m EXCEPT !.queue = queue]
    OBVIOUS
  <2>3. PICK u : u = Unpend(x, n)
    OBVIOUS
  <2>4. Turn(m, n, {}, FALSE) = u
    BY <1>5, <2>1, <2>2, <2>3 DEF Turn, Execute, Queued
  <2>5. PICK N : N = Len(m.queue) + 1
    OBVIOUS
  <2>6. /\ queue \in Seq(DOMAIN made) /\ DOMAIN queue = DOMAIN m.queue \cup {N} /\ queue[N] = n
        /\ \A i \in DOMAIN m.queue : queue[i] = m.queue[i] /\ i < N /\ i \in Nat
        /\ N \in Nat
    <3>1. m.queue \in Seq(DOMAIN made)
      BY <1>1, BookFields
    <3>2. Len(m.queue) \in Nat /\ DOMAIN m.queue = 1..Len(m.queue)
      BY <3>1
    <3>3. N \in Nat /\ \A i \in DOMAIN m.queue : i \in Nat
      BY ONLY <2>5, <3>2
    <3> QED BY <2>1, <2>5, <3>1, <3>3, Appended
  <2>7. /\ x \in Books /\ x.status = m.status /\ x.pending = m.pending
        /\ x.shown = m.shown /\ x.db = m.db /\ x.queue = queue
    BY <1>1, <2>2, <2>6 DEF Books
  <2>8. /\ u.status = m.status /\ u.shown = m.shown /\ u.db = m.db /\ u.queue = queue
        /\ \A j \in Keys : u.pending[j] = IF j = made[n].key /\ m.pending[j] = n THEN 0 ELSE m.pending[j]
    BY <2>3, <2>7, UnpendFields
  <2>9. \A q \in DOMAIN made : IsPending(u, q) <=> IsPending(m, q) /\ q # n
    BY <1>5, <2>8, MadeFacts DEF IsPending
  <2>10. \A q : InQueue(u, q) <=> InQueue(m, q) \/ q = n
    BY <2>6, <2>8 DEF InQueue
  <2>11. IsPending(m, n)
    BY <1>5 DEF IsPending
  <2>12. \A q \in DOMAIN made : Waits(u, q) <=> Waits(m, q)
    BY <2>9, <2>10, <2>11 DEF Waits
  <2>13. \A q \in DOMAIN made : IsPending(u, q) => q > n
    BY <1>2, <2>9
  <2>14. \A r, q \in DOMAIN made : InQueue(u, r) /\ IsPending(u, q) => r < q
    <3>1. ASSUME NEW r \in DOMAIN made, NEW q \in DOMAIN made, InQueue(u, r), IsPending(u, q)
          PROVE  r < q
      <4>1. CASE r = n
        <5>1. q > n /\ q \in Nat /\ n \in Nat
          BY <2>13, <3>1, MadeFacts
        <5> QED BY ONLY <4>1, <5>1
      <4>2. CASE r # n
        BY <2>9, <2>10, <3>1, <4>2 DEF SqlStage, WritesInOrder
      <4> QED BY <4>1, <4>2
    <3> QED BY <3>1
  <2>15. \A i, j \in DOMAIN u.queue : i < j => u.queue[i] < u.queue[j]
    <3>1. ASSUME NEW i \in DOMAIN queue, NEW j \in DOMAIN queue, i < j
          PROVE  queue[i] < queue[j]
      <4>1. CASE j = N
        <5>1. i # N
          BY ONLY <2>6, <3>1, <4>1
        <5>2. i \in DOMAIN m.queue /\ queue[i] = m.queue[i]
          BY <2>6, <5>1
        <5>3. InQueue(m, queue[i]) /\ queue[i] \in DOMAIN made
          BY <1>1, <5>2, BookFields DEF InQueue
        <5>4. queue[i] < n
          BY <2>11, <5>3 DEF SqlStage, WritesInOrder
        <5> QED BY <2>6, <4>1, <5>4
      <4>2. CASE j # N
        <5>1. j \in DOMAIN m.queue /\ j < N /\ j \in Nat
          BY <2>6, <4>2
        <5>2. i # N
          BY ONLY <2>6, <3>1, <5>1
        <5>3. i \in DOMAIN m.queue
          BY <2>6, <5>2
        <5> QED BY <2>6, <3>1, <5>1, <5>3 DEF SqlStage, WritesInOrder
      <4> QED BY <4>1, <4>2
    <3> QED BY <2>8, <3>1
  <2>16. \A r, q \in DOMAIN made : Lives(u, r) /\ ~Waits(u, r) /\ Waits(u, q) => r < q
    BY <2>8, <2>12 DEF SqlStage, WritesInOrder, Lives
  <2> QED BY <1>1, <2>4, <2>8, <2>12, <2>13, <2>14, <2>15, <2>16 DEF SqlStage, WritesInOrder
<1> QED BY <1>4, <1>5

\* A turn of a flush in Access: what is pending is written, oldest first.
AccessStage(m, n) ==
  /\ Stage(m, n)
  /\ NoneFailed(m)
  /\ WaitingIsOpen(m)
  /\ NewestIsWanted(m)
  /\ \A q \in DOMAIN made : m.status[q] = "done" => q <= n

\* c is m after the write of n: the states of n and of those connected are kept or end.
Over(m, c, n) ==
  /\ c \in Books /\ NoneFailed(c)
  /\ \A j \in Keys : c.pending[j] = m.pending[j]
  /\ c.db = Stored(m, n).db /\ c.queue = m.queue
  /\ \A q \in DOMAIN made : m.status[q] = "open" /\ q # n => c.status[q] = "open"
  /\ \A q \in DOMAIN made : c.status[q] = "done" => m.status[q] = "done" \/ q = n
  /\ \A l \in Layers : Covering(c, l) = {} \/ Covering(c, l) = Covering(m, l)
  /\ Shows(m, c)

\* In Access what is open is pending.
LEMMA OpenIsPending ==
  ASSUME Structure, ~sql, NEW m, NEW n, Stage(m, n)
  PROVE  \A q \in DOMAIN made : m.status[q] = "open" => IsPending(m, q) /\ Waits(m, q)
<1>1. \A q : ~InQueue(m, q) /\ ~Answered(q)
  BY DEF Stage, Structure, InQueue, Answered
<1> QED BY <1>1 DEF Stage, OpenHasResult, Waits

LEMMA OverIsWanted ==
  ASSUME LayersAssumption, DWTypeOK, Structure, ~sql, NEW m, NEW n \in DOMAIN made, AccessStage(m, n - 1),
         m.pending[made[n].key] = n, NEW c, Over(m, c, n), NEW u, u = Unpend(c, n)
  PROVE  /\ NoneFailed(u) /\ WaitingIsOpen(u) /\ NewestIsWanted(u)
         /\ \A q \in DOMAIN made : u.status[q] = "done" => q <= n
<1>1. m \in Books /\ c \in Books /\ Stage(m, n - 1) /\ n \in Nat /\ OwnScope
  BY MadeFacts DEF AccessStage, Stage, Over, Structure
<1>2. /\ u \in Books
      /\ u.status = c.status /\ u.queue = c.queue /\ u.db = c.db /\ u.shown = c.shown
      /\ \A j \in Keys : u.pending[j] = IF j = made[n].key /\ c.pending[j] = n THEN 0 ELSE c.pending[j]
  BY <1>1, UnpendFields
<1>3. \A q : ~InQueue(m, q) /\ ~InQueue(u, q)
  BY <1>1, <1>2 DEF Over, Stage, InQueue
<1>4. \A q \in DOMAIN made : Waits(u, q) <=> Waits(m, q) /\ q # n
  BY <1>2, <1>3, MadeFacts DEF Waits, IsPending, Over
<1>5. Waits(m, n) /\ m.status[n] = "open"
  BY DEF Waits, IsPending, AccessStage, WaitingIsOpen
<1>6. NoneFailed(u)
  BY <1>2 DEF Over, NoneFailed
<1>7. WaitingIsOpen(u)
  BY <1>2, <1>4 DEF Over, WaitingIsOpen, AccessStage
<1>8. \A q \in DOMAIN made : u.status[q] = "done" => q <= n
  <2>1. ASSUME NEW q \in DOMAIN made, u.status[q] = "done"
        PROVE  q <= n
    <3>1. q = n \/ q <= n - 1
      BY <1>2, <2>1 DEF Over, AccessStage
    <3>2. q \in Nat
      BY MadeFacts
    <3> QED BY ONLY <1>1, <3>1, <3>2
  <2> QED BY <2>1
<1>9. /\ m.shown = wanted
      /\ \A l \in Layers : Covering(m, l) # {} => made[Max(Covering(m, l))].show = wanted[l]
      /\ \A l \in Layers : Written(m, l) => m.db[l] = wanted[l]
  BY DEF AccessStage, NewestIsWanted
<1>10. u.shown = wanted
  <2>1. \A l \in Layers : u.shown[l] = wanted[l]
    BY <1>2, <1>9 DEF Over, Shows
  <2>2. u.shown \in [Layers -> BOOLEAN] /\ wanted \in [Layers -> BOOLEAN]
    BY <1>2, BookFields DEF DWTypeOK
  <2> QED BY <2>1, <2>2
<1>11. ASSUME NEW l \in Layers, Covering(u, l) # {}
       PROVE  made[Max(Covering(u, l))].show = wanted[l]
  <2>1. Covering(u, l) = Covering(c, l)
    BY <1>2 DEF Covering
  <2> QED BY <1>9, <1>11, <2>1 DEF Over
<1>12. ASSUME NEW l \in Layers, Written(u, l)
       PROVE  u.db[l] = wanted[l]
  <2>1. u.db[l] = IF l \in made[n].scope THEN made[n].show ELSE m.db[l]
    BY <1>1, <1>2, StoredFields DEF Over
  <2>2. CASE l \in made[n].scope
    <3>1. n \in Covering(m, l)
      BY <1>5, <2>2 DEF Covering
    <3>2. ASSUME NEW x \in Covering(m, l)
          PROVE  x <= n
      <4>1. x \in DOMAIN made /\ m.status[x] # "gone" /\ l \in made[x].scope /\ x \in Nat
        BY MadeFacts DEF Covering
      <4>2. m.status[x] \in {"open", "done"}
        BY <1>1, <4>1, MadeFacts, BookFields DEF AccessStage, NoneFailed
      <4>3. CASE m.status[x] = "open"
        <5>1. Waits(m, x)
          BY <1>1, <4>1, <4>3, OpenIsPending
        <5>2. x = n
          BY <1>4, <1>12, <4>1, <5>1 DEF Written
        <5> QED BY ONLY <5>2, <1>1
      <4>4. CASE m.status[x] = "done"
        <5>1. x <= n - 1
          BY <4>1, <4>4 DEF AccessStage
        <5> QED BY ONLY <1>1, <4>1, <5>1
      <4> QED BY <4>2, <4>3, <4>4
    <3>3. Max(Covering(m, l)) = n
      BY <1>1, <3>1, <3>2, CoveringIs, MaxIs
    <3> QED BY <1>9, <2>1, <2>2, <3>1, <3>3
  <2>3. CASE l \notin made[n].scope
    <3>1. Written(m, l)
      BY <1>4, <1>12, <2>3 DEF Written
    <3> QED BY <1>9, <2>1, <2>3, <3>1
  <2> QED BY <2>2, <2>3
<1> QED BY <1>6, <1>7, <1>8, <1>10, <1>11, <1>12 DEF NewestIsWanted

LEMMA SavedOver ==
  ASSUME LayersAssumption, DWTypeOK, Structure, ~sql, NEW m, NEW n \in DOMAIN made, AccessStage(m, n - 1),
         m.pending[made[n].key] = n
  PROVE  \E c : Over(m, c, n) /\ Saved(m, n) = Unpend(c, n)
<1>1. PICK k \in Keys : k = made[n].key
  BY MadeFacts
<1>2. m \in Books /\ n \in Revisions /\ n # 0 /\ Stage(m, n - 1) /\ OwnScope /\ NoneFailed(m) /\ ScopesNest(m)
  BY MadeFacts DEF AccessStage, Stage, Structure
<1>3. m.status[n] = "open"
  BY DEF AccessStage, WaitingIsOpen, Waits, IsPending
<1>4. PICK x : x = Stored(m, n)
  OBVIOUS
<1>5. /\ x \in Books /\ x.shown = m.shown
      /\ x.status = m.status /\ x.restore = m.restore /\ x.pending = m.pending /\ x.queue = m.queue
  BY <1>2, <1>4, StoredFields
<1>6. Exists(m, k) /\ ~HasFailed(m, n)
  BY <1>1, <1>3 DEF Exists, Revs, HasFailed
<1>7. CASE Cardinality(Connected(m, k)) > 1
  <2>1. PICK status : status = [x.status EXCEPT ![n] = "open"]
    OBVIOUS
  <2>2. PICK y : y = [x EXCEPT !.status = status]
    OBVIOUS
  <2>3. status \in [Revisions -> {"open", "done", "failed", "gone"}]
    BY <1>2, <1>5, <2>1, BookFields
  <2>4. /\ y \in Books /\ y.status = status /\ y.shown = m.shown /\ y.db = x.db
        /\ y.restore = m.restore /\ y.pending = m.pending /\ y.queue = m.queue
    BY <1>5, <2>2, <2>3 DEF Books
  <2>5. y = [x EXCEPT !.status[n] = "open"]
    BY <1>5, <2>1, <2>2 DEF Books
  <2>6. \A q \in DOMAIN made : y.status[q] = m.status[q]
    BY <1>2, <1>3, <1>5, <2>1, <2>4, MadeFacts, BookFields
  <2>7. NoneFailed(y) /\ ScopesNest(y) /\ \A l : Covering(y, l) = Covering(m, l)
    BY <1>2, <2>4, <2>6 DEF NoneFailed, ScopesNest, Scope, Covering
  <2>8. PICK c : c = Complete(y, n, TRUE)
    OBVIOUS
  <2>9. Saved(m, n) = Unpend(c, n)
    BY <1>1, <1>4, <1>6, <1>7, <2>5, <2>8 DEF Saved
  <2>10. CleanEnd(y, c, n)
    <3>1. OwnScope /\ y \in Books /\ NoneFailed(y) /\ ScopesNest(y) /\ y.status[n] = "open"
      BY <1>2, <1>3, <2>4, <2>6, <2>7
    <3> QED BY ONLY LayersAssumption, DWTypeOK, n \in DOMAIN made, <2>8, <3>1, CompleteClean
  <2>11. Shows(m, c)
    BY <2>4, <2>7, <2>10 DEF Shows, CleanEnd
  <2>12. Over(m, c, n)
    BY <1>4, <2>4, <2>6, <2>7, <2>10, <2>11 DEF Over, CleanEnd
  <2> QED BY <2>9, <2>12
<1>8. CASE ~(Cardinality(Connected(m, k)) > 1)
  <2>1. PICK d : d = Drop(x, {k})
    OBVIOUS
  <2>2. /\ d \in Books
        /\ \A q \in DOMAIN made : d.status[q] = IF made[q].key = k THEN "gone" ELSE m.status[q]
        /\ d.pending = m.pending /\ d.shown = m.shown /\ d.db = x.db /\ d.queue = m.queue
    BY <1>5, <2>1, DropFields
  <2>3. Saved(m, n) = Unpend(d, n)
    BY <1>1, <1>4, <1>6, <1>8, <2>1 DEF Saved
  <2>4. Connected(m, k) = {k}
    BY <1>2, <1>6, <1>8, ConnectedIff, SharedMeansOther
  <2>5. ASSUME NEW q \in DOMAIN made, m.status[q] = "open", q # n
        PROVE  d.status[q] = "open"
    <3>1. m.pending[made[q].key] = q
      BY <1>2, <2>5, OpenIsPending DEF IsPending
    <3> QED BY <1>1, <2>2, <2>5, <3>1
  <2>6. ASSUME NEW l \in Layers
        PROVE  Covering(d, l) = {} \/ Covering(d, l) = Covering(m, l)
    <3>1. \A q : q \in Covering(d, l) <=> q \in Covering(m, l) /\ made[q].key # k
      BY <2>2 DEF Covering
    <3>2. ASSUME NEW q \in Covering(d, l), NEW y \in Covering(m, l)
          PROVE  y \in Covering(d, l)
      <4>1. q \in Covering(m, l) /\ made[q].key # k
        BY <3>1
      <4>2. made[y].key \in Connected(m, k) => made[q].key \in Connected(m, k)
        BY <1>2, <4>1, CoveringWhole
      <4> QED BY <2>4, <3>1, <4>1, <4>2
    <3> QED BY <3>1, <3>2
  <2>7. NoneFailed(d) /\ Shows(m, d)
    BY <1>2, <2>2 DEF NoneFailed, Shows
  <2>8. Over(m, d, n)
    BY <1>4, <2>2, <2>5, <2>6, <2>7 DEF Over
  <2> QED BY <2>3, <2>8
<1> QED BY <1>7, <1>8

LEMMA AccessTurn ==
  ASSUME LayersAssumption, DWTypeOK, Structure, ~sql, NEW m, NEW n \in DOMAIN made, AccessStage(m, n - 1)
  PROVE  AccessStage(Turn(m, n, {}, FALSE), n)
<1>1. Stage(Turn(m, n, {}, FALSE), n)
  BY TurnStage DEF AccessStage
<1>2. CASE m.pending[made[n].key] # n
  <2>1. Turn(m, n, {}, FALSE) = m
    BY <1>2 DEF Turn
  <2>2. ASSUME NEW q \in DOMAIN made, m.status[q] = "done"
        PROVE  q <= n
    <3>1. q <= n - 1 /\ q \in Nat /\ n \in Nat
      BY <2>2, MadeFacts DEF AccessStage
    <3> QED BY ONLY <3>1
  <2> QED BY <1>1, <2>1, <2>2 DEF AccessStage
<1>3. CASE m.pending[made[n].key] = n
  <2>1. PICK c : Over(m, c, n) /\ Saved(m, n) = Unpend(c, n)
    BY <1>3, SavedOver
  <2>2. PICK u : u = Unpend(c, n)
    OBVIOUS
  <2>3. Turn(m, n, {}, FALSE) = u
    BY <1>3, <2>1, <2>2 DEF Turn, Execute
  <2>4. /\ NoneFailed(u) /\ WaitingIsOpen(u) /\ NewestIsWanted(u)
        /\ \A q \in DOMAIN made : u.status[q] = "done" => q <= n
    BY <1>3, <2>1, <2>2, OverIsWanted
  <2> QED BY <1>1, <2>3, <2>4 DEF AccessStage
<1> QED BY <1>2, <1>3

LEMMA FlushFaithful ==
  ASSUME LayersAssumption, DWTypeOK, Structure, Faithful(book, messages, projecting), others = 0,
         NEW b, b = Flushed({}, FALSE)
  PROVE  Faithful(b, messages, projecting)
<1>1. PICK after : /\ after[0] = book
                   /\ \A n \in DOMAIN made : after[n] = Turn(after[n - 1], n, {}, FALSE)
                   /\ b = after[Len(made)]
  BY FlushSteps
<1>2. PICK N \in Nat : N = Len(made) /\ DOMAIN made = 1..N
  BY MadeFacts
<1>3. Stage(book, 0)
  BY StageOfBook
<1>4. CASE sql
  <2> DEFINE Kept == {n \in 0..N : SqlStage(after[n], n)}
  <2>1. 0 \in Kept
    <3>1. SqlStage(book, 0)
      BY <1>3, MadeFacts DEF SqlStage, Faithful
    <3> QED BY <1>1, <3>1
  <2>2. ASSUME NEW n \in 1..N, n - 1 \in Kept
        PROVE  n \in Kept
    <3>1. n \in DOMAIN made /\ SqlStage(after[n - 1], n - 1)
      BY <1>2, <2>2
    <3>2. SqlStage(Turn(after[n - 1], n, {}, FALSE), n)
      BY <1>4, <3>1, SqlTurn DEF Faithful
    <3>3. after[n] = Turn(after[n - 1], n, {}, FALSE)
      BY <1>1, <3>1
    <3>4. SqlStage(after[n], n)
      BY ONLY <3>2, <3>3
    <3>5. n \in 0..N
      BY ONLY <2>2, N \in Nat
    <3> QED BY <3>4, <3>5
  <2> HIDE DEF Kept
  <2>3. N \in Kept
    BY <2>1, <2>2, UpTo
  <2>4. SqlStage(b, N)
    BY <1>1, <1>2, <2>3 DEF Kept
  <2>5. /\ b.status = book.status /\ b.shown = book.shown /\ b.db = book.db
        /\ \A q \in DOMAIN made : Waits(b, q) <=> Waits(book, q)
    BY <2>4 DEF SqlStage
  <2>6. /\ \A l : Covering(b, l) = Covering(book, l)
        /\ \A l : Written(b, l) <=> Written(book, l)
        /\ \A q : Lives(b, q) <=> Lives(book, q)
    BY <2>5 DEF Covering, Written, Lives
  <2>7. NoneFailed(b) /\ WaitingIsOpen(b)
    BY <2>5 DEF Faithful, NoneFailed, WaitingIsOpen
  <2>8. NewestIsStored(b)
    BY <1>4, <2>5, <2>6 DEF Faithful, NewestIsStored
  <2>9. ResultsInOrder(b, messages, projecting)
    <3>1. \A i \in DOMAIN messages : messages[i].kind = "committed" => messages[i].rev \in DOMAIN made
      BY MessageKinds
    <3>2. projecting \subseteq DOMAIN made
      BY DEF DWTypeOK
    <3> QED BY <1>4, <2>5, <2>6, <3>1, <3>2 DEF Faithful, ResultsInOrder
  <2>10. StoredIsShown(b, messages)
    BY <1>4, <2>5, <2>6 DEF Faithful, StoredIsShown
  <2> QED BY <1>4, <2>4, <2>7, <2>8, <2>9, <2>10 DEF Faithful, SqlStage
<1>5. CASE ~sql
  <2> DEFINE Kept == {n \in 0..N : AccessStage(after[n], n)}
  <2>1. 0 \in Kept
    <3>1. AccessStage(book, 0)
      BY <1>3, <1>5 DEF AccessStage, Faithful, NoneDone
    <3> QED BY <1>1, <3>1
  <2>2. ASSUME NEW n \in 1..N, n - 1 \in Kept
        PROVE  n \in Kept
    <3>1. n \in DOMAIN made /\ AccessStage(after[n - 1], n - 1)
      BY <1>2, <2>2
    <3>2. AccessStage(Turn(after[n - 1], n, {}, FALSE), n)
      BY <1>5, <3>1, AccessTurn
    <3>3. after[n] = Turn(after[n - 1], n, {}, FALSE)
      BY <1>1, <3>1
    <3>4. AccessStage(after[n], n)
      BY ONLY <3>2, <3>3
    <3>5. n \in 0..N
      BY ONLY <2>2, N \in Nat
    <3> QED BY <3>4, <3>5
  <2> HIDE DEF Kept
  <2>3. N \in Kept
    BY <2>1, <2>2, UpTo
  <2>4. AccessStage(b, N) /\ Stage(b, Len(made))
    BY <1>1, <1>2, <2>3 DEF Kept, AccessStage
  <2>5. KeptForRetry(b)
    BY <1>5, <2>4, FlushRetains
  <2>6. \A q \in DOMAIN made : b.status[q] # "open"
    <3>1. ASSUME NEW q \in DOMAIN made, b.status[q] = "open"
          PROVE  FALSE
      <4>1. q > N /\ q \in 1..N
        BY <1>2, <1>5, <2>4, <3>1 DEF Stage
      <4> QED BY ONLY <4>1
    <3> QED BY <3>1
  <2>7. \A q \in DOMAIN made : ~Waits(b, q)
    BY <2>4, <2>6 DEF AccessStage, WaitingIsOpen
  <2>8. \A q \in DOMAIN made : b.status[q] = "gone"
    <3>1. ASSUME NEW q \in DOMAIN made, b.status[q] # "gone"
          PROVE  FALSE
      <4>1. PICK k \in Keys : k = made[q].key
        BY MadeFacts
      <4>2. Exists(b, k)
        BY <3>1, <4>1 DEF Exists, Revs
      <4>3. PICK p : p = b.pending[k]
        OBVIOUS
      <4>4. p # 0 /\ p \in {0} \cup DOMAIN made /\ made[p].key = k
        <5>1. b \in Books /\ PendingIsOwn(b)
          BY <2>4 DEF Stage
        <5>2. p # 0
          BY ONLY <2>5, <4>2, <4>3, k \in Keys DEF KeptForRetry
        <5>3. made[p].key = k
          BY ONLY <4>3, <5>1, <5>2, k \in Keys DEF PendingIsOwn
        <5>4. p \in {0} \cup DOMAIN made
          BY <4>3, <5>1, BookFields
        <5> QED BY ONLY <5>2, <5>3, <5>4
      <4> QED BY <2>7, <4>3, <4>4 DEF Waits, IsPending
    <3> QED BY <3>1
  <2>9. WritesInOrder(b)
    <3>1. b.queue = <<>>
      BY <1>5, <2>4 DEF Stage
    <3>2. DOMAIN b.queue = {}
      <4>1. PICK s : s = b.queue
        OBVIOUS
      <4>2. s = <<>>
        BY <3>1, <4>1
      <4>3. DOMAIN s = {}
        BY ONLY <4>2
      <4> QED BY <4>1, <4>3
    <3>3. \A q : ~InQueue(b, q)
      BY <3>2 DEF InQueue
    <3>4. \A q : ~Lives(b, q)
      BY <2>8 DEF Lives
    <3> QED BY ONLY <3>2, <3>3, <3>4 DEF WritesInOrder
  <2>10. NoneDone(b)
    BY <2>8 DEF NoneDone
  <2> QED BY <1>5, <2>4, <2>9, <2>10 DEF Faithful, AccessStage
<1> QED BY <1>4, <1>5

-----------------------------------------------------------------------------
(* Without faults: the results.                                            *)

\* The head of the queue is the oldest of the writes that wait, and newer than those over.
LEMMA HeadIsNext ==
  ASSUME LayersAssumption, DWTypeOK, Structure, WritesInOrder(book), book.queue # <<>>,
         NEW r, r = Head(book.queue), NEW b, b.queue = Tail(book.queue), b.pending = book.pending,
         b.status = book.status
  PROVE  /\ r \in DOMAIN made /\ Waits(book, r) /\ ~Waits(b, r)
         /\ \A q \in DOMAIN made : Waits(b, q) <=> Waits(book, q) /\ q # r
         /\ \A q \in DOMAIN made : Waits(book, q) /\ q # r => r < q
         /\ \A q \in DOMAIN made : Lives(book, q) /\ ~Waits(book, q) => q < r
         /\ WritesInOrder(b)
<1>1. PICK s : s = book.queue
  OBVIOUS
<1>2. s \in Seq(DOMAIN made) /\ s # <<>> /\ r = Head(s) /\ b.queue = Tail(s)
  BY <1>1, BookFields DEF DWTypeOK
<1>3. /\ r \in DOMAIN made
      /\ 1 \in DOMAIN s /\ r = s[1]
      /\ \A i \in DOMAIN Tail(s) : i + 1 \in DOMAIN s /\ i + 1 > i /\ i + 1 > 1 /\ Tail(s)[i] = s[i + 1]
      /\ \A i \in DOMAIN s : i # 1 => i - 1 \in DOMAIN Tail(s) /\ Tail(s)[i - 1] = s[i]
  BY <1>2, HeadTail
<1>4. \A i, j \in DOMAIN s : i < j => s[i] < s[j]
  BY <1>1 DEF WritesInOrder
<1>5. \A i \in DOMAIN s : i \in Nat /\ i >= 1
  <2>1. DOMAIN s = 1..Len(s) /\ Len(s) \in Nat
    BY <1>2
  <2> QED BY ONLY <2>1
<1>6. \A i \in DOMAIN s : s[i] \in DOMAIN made /\ s[i] \in Nat
  BY <1>2, MadeFacts
<1>7. \A i \in DOMAIN s : i # 1 => r < s[i]
  <2>1. ASSUME NEW i \in DOMAIN s, i # 1
        PROVE  r < s[i]
    <3>1. 1 < i
      BY ONLY <1>5, <2>1
    <3> QED BY <1>3, <1>4, <2>1, <3>1
  <2> QED BY <2>1
<1>8. \A q \in DOMAIN made : InQueue(b, q) => InQueue(book, q) /\ r < q
  <2>1. ASSUME NEW q \in DOMAIN made, InQueue(b, q)
        PROVE  InQueue(book, q) /\ r < q
    <3>1. PICK i \in DOMAIN Tail(s) : Tail(s)[i] = q
      BY <1>2, <2>1 DEF InQueue
    <3>2. PICK j \in DOMAIN s : j > 1 /\ s[j] = q
      BY <1>3, <3>1
    <3>3. j # 1
      BY ONLY <1>5, <3>2
    <3> QED BY <1>1, <1>7, <3>2, <3>3 DEF InQueue
  <2> QED BY <2>1
<1>9. \A q \in DOMAIN made : InQueue(book, q) => q = r \/ InQueue(b, q)
  <2>1. ASSUME NEW q \in DOMAIN made, InQueue(book, q), q # r
        PROVE  InQueue(b, q)
    <3>1. PICK i \in DOMAIN s : s[i] = q
      BY <1>1, <2>1 DEF InQueue
    <3>2. i # 1
      BY <1>3, <2>1, <3>1
    <3>3. PICK j \in DOMAIN Tail(s) : Tail(s)[j] = q
      BY <1>3, <3>1, <3>2
    <3> QED BY <1>2, <3>3 DEF InQueue
  <2> QED BY <2>1
<1>10. InQueue(book, r)
  BY <1>1, <1>3 DEF InQueue
<1>11. \A q : IsPending(b, q) <=> IsPending(book, q)
  BY DEF IsPending
<1>12. ~IsPending(book, r)
  BY <1>3, <1>10, MadeFacts DEF Structure, PendingIsOwn, IsPending
<1>13. ~InQueue(b, r)
  <2>1. ~(r < r)
    BY <1>3, MadeFacts
  <2> QED BY <1>3, <1>8, <2>1
<1>14. \A q \in DOMAIN made : Waits(b, q) <=> Waits(book, q) /\ q # r
  BY <1>8, <1>9, <1>11, <1>12, <1>13 DEF Waits
<1>15. \A q \in DOMAIN made : Waits(book, q) /\ q # r => r < q
  BY <1>3, <1>8, <1>9, <1>10 DEF Waits, WritesInOrder
<1>16. \A q \in DOMAIN made : Lives(book, q) /\ ~Waits(book, q) => q < r
  BY <1>3, <1>10 DEF Waits, WritesInOrder
<1>17. \A i, j \in DOMAIN b.queue : i < j => b.queue[i] < b.queue[j]
  <2>1. ASSUME NEW i \in DOMAIN Tail(s), NEW j \in DOMAIN Tail(s), i < j
        PROVE  Tail(s)[i] < Tail(s)[j]
    <3>1. PICK t : t = Tail(s)
      OBVIOUS
    <3>2. t \in Seq(DOMAIN made)
      BY <1>2, <3>1, HeadTail
    <3>3. DOMAIN t = 1..Len(t) /\ Len(t) \in Nat
      BY <3>2
    <3>4. i \in Nat /\ j \in Nat
      BY <2>1, <3>1, <3>3
    <3>5. i + 1 < j + 1
      BY ONLY <2>1, <3>4
    <3> QED BY <1>3, <1>4, <2>1, <3>5
  <2> QED BY <1>2, <2>1
<1>18. WritesInOrder(b)
  <2>1. \A q \in DOMAIN made : Lives(b, q) <=> Lives(book, q)
    BY DEF Lives
  <2>2. \A x, q \in DOMAIN made : InQueue(b, x) /\ IsPending(b, q) => x < q
    BY <1>8, <1>11 DEF WritesInOrder
  <2>3. \A x, q \in DOMAIN made : Lives(b, x) /\ ~Waits(b, x) /\ Waits(b, q) => x < q
    BY <1>14, <1>15, <2>1 DEF WritesInOrder
  <2> QED BY <1>17, <2>2, <2>3 DEF WritesInOrder
<1>19. Waits(book, r) /\ ~Waits(b, r)
  BY <1>3, <1>10, <1>14 DEF Waits
<1> QED BY ONLY <1>3, <1>14, <1>15, <1>16, <1>18, <1>19

\* The worker commits the oldest write.
LEMMA CommitIntent ==
  ASSUME LayersAssumption, DWTypeOK, Structure, Intent, CommitNext
  PROVE  Intent'
<1> SUFFICES ASSUME ~spoiled', ~narrowed'
             PROVE  Intent'
  BY DEF Intent
<1>1. /\ book.queue # <<>> /\ UNCHANGED <<sql, made, wanted, projecting>>
      /\ others' = others /\ ~spoiled /\ ~narrowed
  BY DEF CommitNext
<1>2. PICK r : r = Head(book.queue)
  OBVIOUS
<1>3. PICK queue : queue = Tail(book.queue)
  OBVIOUS
<1>4. PICK d : d = [book EXCEPT !.queue = queue]
  OBVIOUS
<1>5. PICK b : b = Stored(d, r)
  OBVIOUS
<1>6. PICK e : e = [kind |-> "committed", rev |-> r, rows |-> b.db]
  OBVIOUS
<1>7. PICK ms : ms = Append(messages, e)
  OBVIOUS
<1>8. book' = b /\ messages' = ms
  BY <1>2, <1>3, <1>4, <1>5, <1>6, <1>7 DEF CommitNext
<1>9. sql /\ others = 0 /\ Faithful(book, messages, projecting)
  BY <1>1 DEF Structure, Intent
<1>10. r \in DOMAIN made /\ queue \in Seq(DOMAIN made)
  BY <1>1, <1>2, <1>3, HeadTail, BookFields DEF DWTypeOK
<1>11. /\ d \in Books /\ d.status = book.status /\ d.pending = book.pending /\ d.queue = queue
       /\ d.shown = book.shown /\ d.db = book.db
  BY <1>4, <1>10 DEF DWTypeOK, Books
<1>12. /\ b \in Books /\ b.status = book.status /\ b.pending = book.pending /\ b.queue = queue
       /\ b.shown = book.shown
       /\ \A l \in Layers : b.db[l] = IF l \in made[r].scope THEN made[r].show ELSE book.db[l]
  BY <1>5, <1>10, <1>11, StoredFields
<1>13. /\ Waits(book, r) /\ ~Waits(b, r)
       /\ \A q \in DOMAIN made : Waits(b, q) <=> Waits(book, q) /\ q # r
       /\ \A q \in DOMAIN made : Waits(book, q) /\ q # r => r < q
       /\ \A q \in DOMAIN made : Lives(book, q) /\ ~Waits(book, q) => q < r
       /\ WritesInOrder(b)
  BY <1>1, <1>2, <1>3, <1>9, <1>12, HeadIsNext DEF Faithful
<1>14. NoneFailed(b) /\ WaitingIsOpen(b) /\ book.status[r] = "open"
  BY <1>9, <1>10, <1>12, <1>13 DEF Faithful, NoneFailed, WaitingIsOpen
<1>15. \A l : Covering(b, l) = Covering(book, l)
  BY <1>12 DEF Covering
<1>16. \A q : Lives(b, q) <=> Lives(book, q)
  BY <1>12 DEF Lives
<1>17. NewestIsStored(b)
  <2> SUFFICES ASSUME NEW l \in Layers, Written(b, l), Covering(b, l) # {}
               PROVE  b.db[l] = made[Max(Covering(b, l))].show
    BY DEF NewestIsStored
  <2>1. CASE l \in made[r].scope
    <3>1. r \in Covering(book, l)
      BY <1>10, <1>14, <2>1 DEF Covering
    <3>2. ASSUME NEW x \in Covering(book, l)
          PROVE  x <= r
      <4>1. x \in DOMAIN made /\ Lives(book, x) /\ l \in made[x].scope /\ x \in Nat /\ r \in Nat
        BY <1>10, MadeFacts DEF Covering, Lives
      <4>2. x = r \/ ~Waits(book, x)
        BY <1>13, <4>1 DEF Written
      <4>3. x = r \/ x < r
        BY <1>13, <4>1, <4>2
      <4> QED BY ONLY <4>1, <4>3
    <3>3. Covering(book, l) \subseteq DOMAIN made
      BY DEF Covering
    <3>4. Max(Covering(book, l)) = r
      BY <3>1, <3>2, <3>3, MaxIs
    <3> QED BY <1>12, <1>15, <2>1, <3>4
  <2>2. CASE l \notin made[r].scope
    <3>1. Written(book, l)
      BY <1>13, <2>2 DEF Written
    <3> QED BY <1>9, <1>12, <1>15, <2>2, <3>1 DEF Faithful, NewestIsStored
  <2> QED BY <2>1, <2>2
<1>18. PICK n : n = Len(messages) + 1
  OBVIOUS
<1>19. /\ DOMAIN ms = DOMAIN messages \cup {n} /\ Len(ms) = n /\ ms[n] = e
       /\ \A i \in DOMAIN messages : ms[i] = messages[i] /\ i < n
       /\ ms # <<>>
  <2>1. PICK M : M = Messages
    OBVIOUS
  <2>2. messages \in Seq(M) /\ e \in M
    <3>1. b.db \in [Layers -> BOOLEAN]
      BY <1>12, BookFields
    <3>2. e \in Messages
      BY <1>6, <1>10, <3>1 DEF Messages
    <3> QED BY <2>1, <3>2 DEF DWTypeOK
  <2>3. /\ DOMAIN ms = DOMAIN messages \cup {n} /\ Len(ms) = n /\ ms[n] = e
        /\ \A i \in DOMAIN messages : ms[i] = messages[i] /\ i < n
    BY <1>7, <1>18, <2>2, Appended
  <2>4. ms # <<>>
    BY <1>7, <2>2
  <2> QED BY <2>3, <2>4
<1>20. e.kind = "committed" /\ e.rev = r /\ e.rows = b.db
  BY <1>6
<1>21. /\ \A i \in DOMAIN messages :
            /\ messages[i].kind = "committed" /\ messages[i].rev \in DOMAIN made
            /\ book.status[messages[i].rev] = "open" /\ ~Waits(book, messages[i].rev)
            /\ \A j \in DOMAIN messages : i < j => messages[i].rev < messages[j].rev
            /\ \A x \in projecting : x < messages[i].rev
       /\ \A x \in projecting : x \in DOMAIN made /\ book.status[x] = "open" /\ ~Waits(book, x)
  <2>1. ResultsInOrder(book, messages, projecting)
    BY <1>9 DEF Faithful
  <2>2. \A i \in DOMAIN messages : messages[i].kind # "remote" => messages[i].rev \in DOMAIN made
    BY MessageKinds
  <2>3. \A i \in DOMAIN messages : messages[i].kind = "committed"
    BY <2>1 DEF ResultsInOrder
  <2> QED BY <2>1, <2>2, <2>3 DEF ResultsInOrder, DWTypeOK
<1>22. \A q \in DOMAIN made : book.status[q] = "open" /\ ~Waits(book, q) => q < r
  BY <1>13 DEF Lives
<1>23. \A q \in DOMAIN made : Lives(b, q) /\ ~Waits(b, q) => q <= r
  <2>1. ASSUME NEW q \in DOMAIN made, Lives(b, q), ~Waits(b, q)
        PROVE  q <= r
    <3>1. q = r \/ q < r
      BY <1>13, <1>16, <2>1
    <3>2. q \in Nat /\ r \in Nat
      BY <1>10, MadeFacts
    <3> QED BY ONLY <3>1, <3>2
  <2> QED BY <2>1
<1>24. ASSUME NEW i \in DOMAIN ms
       PROVE  /\ ms[i].kind = "committed"
              /\ b.status[ms[i].rev] = "open"
              /\ ~Waits(b, ms[i].rev)
              /\ \A j \in DOMAIN ms : i < j => ms[i].rev < ms[j].rev
              /\ \A x \in projecting : x < ms[i].rev
  <2>1. CASE i = n
    <3>1. \A j \in DOMAIN ms : ~(n < j)
      <4>1. Len(messages) \in Nat /\ DOMAIN messages = 1..Len(messages)
        <5>1. PICK M : M = Messages
          OBVIOUS
        <5>2. messages \in Seq(M)
          BY <5>1 DEF DWTypeOK
        <5> QED BY ONLY <5>2
      <4>2. n \in Nat /\ \A j \in DOMAIN messages : j \in Nat
        BY ONLY <1>18, <4>1
      <4> QED BY ONLY <1>19, <4>2
    <3> QED BY <1>12, <1>13, <1>14, <1>19, <1>20, <1>21, <1>22, <2>1, <3>1
  <2>2. CASE i # n
    <3>1. i \in DOMAIN messages /\ ms[i] = messages[i]
      BY <1>19, <2>2
    <3>2. ~Waits(b, ms[i].rev)
      BY <1>13, <1>21, <3>1
    <3> QED BY <1>12, <1>19, <1>20, <1>21, <1>22, <3>1, <3>2
  <2> QED BY <2>1, <2>2
<1>25. \A x \in projecting : b.status[x] = "open" /\ ~Waits(b, x)
  BY <1>12, <1>13, <1>21
<1>26. ResultsInOrder(b, ms, projecting)
  BY <1>19, <1>20, <1>23, <1>24, <1>25 DEF ResultsInOrder
<1>27. StoredIsShown(b, ms)
  BY <1>19 DEF StoredIsShown
<1>28. Faithful(b, ms, projecting)
  BY <1>9, <1>13, <1>14, <1>17, <1>26, <1>27 DEF Faithful
<1>29. PICK ps : ps = projecting
  OBVIOUS
<1>30. projecting' = ps /\ others' = 0 /\ Faithful(b, ms, ps) /\ UNCHANGED <<sql, made, wanted>>
  BY <1>1, <1>9, <1>28, <1>29
<1> QED BY ONLY <1>8, <1>30, IntentStays

\* The projection of a commit is complete.
LEMMA FinishIntent ==
  ASSUME LayersAssumption, DWTypeOK, Structure, Intent, FinishProjection
  PROVE  Intent'
<1> SUFFICES ASSUME ~spoiled', ~narrowed'
             PROVE  Intent'
  BY DEF Intent
<1>1. PICK r \in projecting : projecting' = projecting \ {r} /\ book' = Complete(book, r, TRUE)
  BY DEF FinishProjection
<1>2. UNCHANGED <<sql, made, wanted, messages, others>> /\ ~spoiled /\ ~narrowed
  BY DEF FinishProjection
<1>3. sql /\ others = 0 /\ Faithful(book, messages, projecting)
  BY <1>1, <1>2 DEF Structure, Intent
<1>4. ResultsInOrder(book, messages, projecting)
  BY <1>3 DEF Faithful
<1>5. r \in DOMAIN made /\ book.status[r] = "open" /\ ~Waits(book, r)
  BY <1>1, <1>4 DEF ResultsInOrder, DWTypeOK
<1>6. PICK c : c = Complete(book, r, TRUE)
  OBVIOUS
<1>7. CleanEnd(book, c, r)
  <2>1. OwnScope /\ book \in Books /\ NoneFailed(book) /\ ScopesNest(book)
    BY <1>3 DEF Structure, DWTypeOK, Faithful
  <2> QED BY ONLY LayersAssumption, DWTypeOK, <1>5, <1>6, <2>1, CompleteClean
<1>8. \A q \in DOMAIN made : Waits(c, q) <=> Waits(book, q)
  BY <1>7, MadeFacts DEF CleanEnd, Waits, IsPending, InQueue
<1>9. \A q \in DOMAIN made : InQueue(c, q) <=> InQueue(book, q)
  BY <1>7 DEF CleanEnd, InQueue
<1>10. \A q \in DOMAIN made : IsPending(c, q) <=> IsPending(book, q)
  BY <1>7, MadeFacts DEF CleanEnd, IsPending
<1>11. \A q : Lives(c, q) => Lives(book, q)
  BY <1>7 DEF CleanEnd, Lives
<1>12. \A l : Written(c, l) <=> Written(book, l)
  BY <1>8 DEF Written
<1>13. NoneFailed(c) /\ c.db = book.db /\ c.queue = book.queue
  BY <1>7 DEF CleanEnd
<1>14. WaitingIsOpen(c)
  BY <1>3, <1>5, <1>7, <1>8 DEF Faithful, WaitingIsOpen, CleanEnd
<1>15. WritesInOrder(c)
  BY <1>3, <1>8, <1>9, <1>10, <1>11, <1>13 DEF Faithful, WritesInOrder
<1>16. NewestIsStored(c)
  BY <1>3, <1>7, <1>12, <1>13 DEF Faithful, NewestIsStored, CleanEnd
<1>17. ASSUME NEW i \in DOMAIN messages
       PROVE  /\ messages[i].kind = "committed"
              /\ c.status[messages[i].rev] = "open"
              /\ ~Waits(c, messages[i].rev)
              /\ \A q \in DOMAIN made : Lives(c, q) /\ ~Waits(c, q) => q <= messages[Len(messages)].rev
              /\ \A j \in DOMAIN messages : i < j => messages[i].rev < messages[j].rev
              /\ \A q \in projecting \ {r} : q < messages[i].rev
  <2>1. /\ messages[i].kind = "committed"
        /\ book.status[messages[i].rev] = "open"
        /\ ~Waits(book, messages[i].rev)
        /\ \A q \in DOMAIN made : Lives(book, q) /\ ~Waits(book, q) => q <= messages[Len(messages)].rev
        /\ \A j \in DOMAIN messages : i < j => messages[i].rev < messages[j].rev
        /\ \A q \in projecting : q < messages[i].rev
    BY <1>4 DEF ResultsInOrder
  <2>2. messages[i].rev \in DOMAIN made
    BY <2>1, MessageKinds
  <2>3. messages[i].rev # r
    <3>1. r < messages[i].rev /\ r \in Nat /\ messages[i].rev \in Nat
      BY <1>1, <1>5, <2>1, <2>2, MadeFacts
    <3> QED BY ONLY <3>1
  <2>4. c.status[messages[i].rev] = "open" /\ ~Waits(c, messages[i].rev)
    BY <1>7, <1>8, <2>1, <2>2, <2>3 DEF CleanEnd
  <2> QED BY <1>8, <1>11, <2>1, <2>4
<1>18. \A q \in projecting \ {r} : c.status[q] = "open" /\ ~Waits(c, q)
  BY <1>4, <1>7, <1>8 DEF ResultsInOrder, CleanEnd, DWTypeOK
<1>19. messages # <<>> => messages[Len(messages)].rows = c.db
  BY <1>4, <1>13 DEF ResultsInOrder
<1>20. ResultsInOrder(c, messages, projecting \ {r})
  BY <1>17, <1>18, <1>19 DEF ResultsInOrder
<1>21. StoredIsShown(c, messages)
  <2> SUFFICES ASSUME messages = <<>>, NEW l \in Layers, Written(c, l)
               PROVE  c.shown[l] = c.db[l]
    BY DEF StoredIsShown
  <2>1. Written(book, l) /\ book.shown[l] = book.db[l]
    BY <1>3, <1>12 DEF Faithful, StoredIsShown
  <2>2. Covering(book, l) # {} => book.db[l] = made[Max(Covering(book, l))].show
    BY <1>3, <2>1 DEF Faithful, NewestIsStored
  <2> QED BY <1>7, <1>13, <2>1, <2>2 DEF CleanEnd, Shows
<1>22. Faithful(c, messages, projecting \ {r})
  BY <1>3, <1>13, <1>14, <1>15, <1>16, <1>20, <1>21 DEF Faithful
<1>23. PICK ps : ps = projecting \ {r}
  OBVIOUS
<1>24. PICK ms : ms = messages
  OBVIOUS
<1>25. /\ book' = c /\ messages' = ms /\ projecting' = ps /\ others' = 0
       /\ Faithful(c, ms, ps) /\ UNCHANGED <<sql, made, wanted>>
  BY <1>1, <1>2, <1>3, <1>6, <1>22, <1>23, <1>24
<1> QED BY ONLY <1>25, IntentStays

\* What a commit projects over its rows is the newest change of a layer, if any is projected
\* of a layer of which no write is waiting: r is the newest of the writes that are over.
LEMMA NewerIsNewest ==
  ASSUME LayersAssumption, DWTypeOK, OwnScope, NEW m \in Books, NoneFailed(m),
         NEW r \in DOMAIN made, m.status[r] = "open",
         \A x \in DOMAIN made : Lives(m, x) /\ ~Waits(m, x) => x <= r,
         NEW layers \in SUBSET Layers, layers = IF made[r].key = All THEN Layers ELSE made[r].scope,
         NEW l \in Layers, Written(m, l),
         NEW rs, rs = Newer(m, layers), NEW mine, mine = {x \in rs : l \in made[x].scope}, mine # {}
  PROVE  Covering(m, l) # {} /\ Max(mine) = Max(Covering(m, l))
<1> DEFINE bulk(j) == {x \in Viable(m, All) : j \in made[x].scope}
           first == {Max(bulk(j) \cup Viable(m, j)) :
                       j \in {j \in layers : Cardinality(bulk(j) \cup Viable(m, j)) > 1}}
           within == UNION {made[x].scope : x \in {x \in first : made[x].key = All}}
           later(j) == {x \in Viable(m, j) :
                          \E b \in first : made[b].key = All /\ j \in made[b].scope /\ x > b}
<1>1. rs = first \cup {Max(later(j)) : j \in {j \in within : later(j) # {}}}
  BY DEF Newer
<1>2. \A k : Viable(m, k) = Revs(m, k)
  BY DEF Viable, NoneFailed, Revs
<1>3. \A j \in Layers : bulk(j) \cup Viable(m, j) = Covering(m, j)
  <2>1. ASSUME NEW j \in Layers
        PROVE  bulk(j) \cup Viable(m, j) = Covering(m, j)
    <3>1. \A x \in Covering(m, j) : made[x].key \in {j, All} /\ x \in Revs(m, made[x].key) /\ j \in made[x].scope
      BY CoveringIs
    <3>2. \A x \in Revs(m, j) : x \in Covering(m, j)
      BY CoveringIs
    <3>3. \A x \in Revs(m, All) : j \in made[x].scope => x \in Covering(m, j)
      BY CoveringIs
    <3> QED BY <1>2, <3>1, <3>2, <3>3
  <2> QED BY <2>1
<1>4. first = {Max(Covering(m, j)) : j \in {j \in layers : Cardinality(Covering(m, j)) > 1}}
  BY <1>3
<1> HIDE DEF first
<1>5. \A j \in Layers : Covering(m, j) \subseteq DOMAIN made
  BY DEF Covering
<1>6. IsFiniteSet(DOMAIN made)
  <2>1. PICK N \in Nat : DOMAIN made = 1..N
    BY MadeFacts
  <2>2. IsFiniteSet(1..N)
    BY FS_Interval
  <2> QED BY <2>1, <2>2
<1>7. ASSUME NEW j \in layers, NEW x \in Covering(m, j), NEW y \in Covering(m, j), x # y
      PROVE  Cardinality(Covering(m, j)) > 1
  <2>1. PICK S : S = Covering(m, j)
    OBVIOUS
  <2>2. IsFiniteSet(S)
    BY <1>5, <1>6, <2>1, FS_Subset
  <2>3. Cardinality(S) \in Nat
    BY <2>2, FS_CardinalityType
  <2>4. Cardinality(S) # 0
    BY <1>7, <2>1, <2>2, FS_EmptySet
  <2>5. Cardinality(S) # 1
    <3>1. ~\E z : S = {z}
      BY <1>7, <2>1
    <3> QED BY <2>2, <3>1, FS_Singleton
  <2> QED BY ONLY <2>1, <2>3, <2>4, <2>5
<1>8. ASSUME NEW x \in first
      PROVE  \E j \in layers : /\ x \in Covering(m, j) /\ \A y \in Covering(m, j) : y <= x
                               /\ x \in DOMAIN made
  <2>1. PICK j \in layers : x = Max(Covering(m, j)) /\ Cardinality(Covering(m, j)) > 1
    BY <1>4
  <2>2. PICK S : S = Covering(m, j)
    OBVIOUS
  <2>3. S # {}
    <3>1. Cardinality(S) > 1
      BY <2>1, <2>2
    <3>2. Cardinality({}) = 0
      BY FS_EmptySet
    <3> QED BY ONLY <3>1, <3>2
  <2>4. S \subseteq DOMAIN made /\ x = Max(S)
    BY <1>5, <2>1, <2>2
  <2>5. x \in S /\ x \in DOMAIN made /\ \A y \in S : y <= x
    BY <2>3, <2>4, Newest
  <2> QED BY <2>2, <2>5
<1>9. ASSUME NEW y \in rs, y \notin first, l \in made[y].scope
      PROVE  /\ y \in Covering(m, l)
             /\ \E b \in first : made[b].key = All /\ l \in made[b].scope
  <2>1. PICK j \in within : later(j) # {} /\ y = Max(later(j))
    BY <1>1, <1>9
  <2>2. PICK S : S = later(j)
    OBVIOUS
  <2>3. S \subseteq DOMAIN made
    BY <1>2, <2>2 DEF Revs
  <2>4. y \in S
    BY <2>1, <2>2, <2>3, Newest
  <2>5. j \in Layers
    <3>1. PICK x \in first : j \in made[x].scope
      OBVIOUS
    <3>2. x \in DOMAIN made
      BY <1>8
    <3> QED BY <3>1, <3>2, MadeFacts
  <2>6. y \in Revs(m, j) /\ \E b \in first : made[b].key = All /\ j \in made[b].scope
    BY <1>2, <2>2, <2>4
  <2>7. made[y].scope = {j} /\ y \in Covering(m, j)
    BY <2>5, <2>6, CoveringIs
  <2>8. l = j
    BY <1>9, <2>7
  <2> QED BY <2>6, <2>7, <2>8
<1>10. mine \subseteq Covering(m, l)
  <2>1. ASSUME NEW x \in mine
        PROVE  x \in Covering(m, l)
    <3>1. CASE x \in first
      BY <1>8, <3>1 DEF Covering
    <3>2. CASE x \notin first
      BY <1>9, <3>2
    <3> QED BY <3>1, <3>2
  <2> QED BY <2>1
<1>11. \A x \in Covering(m, l) : x <= r
  <2>1. ASSUME NEW x \in Covering(m, l)
        PROVE  x <= r
    <3>1. x \in DOMAIN made /\ Lives(m, x) /\ ~Waits(m, x)
      BY DEF Covering, Lives, Written
    <3> QED BY <3>1
  <2> QED BY <2>1
<1>12. PICK top : top = Max(Covering(m, l))
  OBVIOUS
<1>13. top \in Covering(m, l) /\ top \in DOMAIN made /\ \A x \in Covering(m, l) : x <= top
  BY <1>5, <1>10, <1>12, Newest
<1>14. top \in mine
  <2>1. CASE l \in layers
    <3>1. CASE Cardinality(Covering(m, l)) > 1
      <4>1. top \in first
        BY <1>4, <1>12, <2>1, <3>1
      <4> QED BY <1>1, <1>13, <4>1 DEF Covering
    <3>2. CASE ~(Cardinality(Covering(m, l)) > 1)
      <4>1. PICK y \in mine : TRUE
        OBVIOUS
      <4>2. y = top
        BY <1>7, <1>10, <1>13, <2>1, <3>2, <4>1
      <4> QED BY <4>1, <4>2
    <3> QED BY <3>1, <3>2
  <2>2. CASE l \notin layers
    <3>1. PICK k : k = made[r].key
      OBVIOUS
    <3>2. k \in Layers /\ layers = {k} /\ made[r].scope = {k} /\ k # All /\ k # l
      <4>1. k # All
        BY <2>2, <3>1
      <4>2. k \in Layers
        BY <3>1, <4>1, MadeFacts DEF Keys
      <4> QED BY <2>2, <3>1, <4>1, <4>2 DEF OwnScope
    <3>3. PICK b \in first : made[b].key = All /\ l \in made[b].scope
      <4>1. PICK y \in mine : TRUE
        OBVIOUS
      <4>2. CASE y \in first
        <5>1. y \in Covering(m, k)
          BY <1>8, <3>2, <4>2
        <5>2. made[y].key \in {k, All} /\ (made[y].key = k => made[y].scope = {k})
          BY <3>2, <5>1, CoveringIs
        <5> QED BY <3>2, <4>1, <4>2, <5>2
      <4>3. CASE y \notin first
        BY <1>9, <4>1, <4>3
      <4> QED BY <4>2, <4>3
    <3>4. b \in Covering(m, k) /\ b \in DOMAIN made /\ \A y \in Covering(m, k) : y <= b
      BY <1>8, <3>2
    <3>5. r \in Covering(m, k)
      BY <3>2 DEF Covering
    <3>6. r <= b /\ r # b /\ r \in Nat /\ b \in Nat
      BY <3>1, <3>2, <3>3, <3>4, <3>5, MadeFacts
    <3>7. ~(b <= r)
      BY ONLY <3>6
    <3>8. Lives(m, b)
      BY <3>4 DEF Covering, Lives
    <3>9. Waits(m, b)
      BY <3>4, <3>7, <3>8
    <3> QED BY <3>3, <3>4, <3>9 DEF Written
  <2> QED BY <2>1, <2>2
<1>15. Max(mine) = top
  BY <1>5, <1>10, <1>13, <1>14, MaxIs
<1> QED BY <1>12, <1>13, <1>15

\* A commit is applied: its rows are shown, and over them the newer changes.
LEMMA AppliedIntent ==
  ASSUME LayersAssumption, DWTypeOK, Structure, Intent, HandleCommitted
  PROVE  Intent'
<1> SUFFICES ASSUME ~spoiled', ~narrowed'
             PROVE  Intent'
  BY DEF Intent
<1>1. PICK r : r = Head(messages).rev
  OBVIOUS
<1>2. PICK rows : rows = Head(messages).rows
  OBVIOUS
<1>3. PICK layers : layers = IF made[r].key = All THEN Layers ELSE made[r].scope
  OBVIOUS
<1>4. PICK m : m = [book EXCEPT !.shown = rows]
  OBVIOUS
<1>5. PICK rs : rs = Newer(m, layers)
  OBVIOUS
<1>6. PICK b : b = Project(m, rs)
  OBVIOUS
<1>7. PICK ms : ms = Tail(messages)
  OBVIOUS
<1>8. PICK ps : ps = projecting \cup {r}
  OBVIOUS
<1>9. /\ messages # <<>> /\ Head(messages).kind = "committed" /\ messages' = ms
      /\ book' = b /\ projecting' = ps
      /\ UNCHANGED <<sql, made, wanted, spoiled, narrowed, others>>
  BY <1>1, <1>2, <1>3, <1>4, <1>5, <1>6, <1>7, <1>8 DEF HandleCommitted, Take
<1>10. sql /\ others = 0 /\ Faithful(book, messages, projecting)
  BY <1>9 DEF Structure, Intent
<1>11. /\ 1 \in DOMAIN messages /\ Head(messages) = messages[1] /\ r \in DOMAIN made
       /\ rows \in [Layers -> BOOLEAN]
  BY <1>1, <1>2, <1>9, MessageKinds
<1>12. layers \in SUBSET Layers
  BY <1>3, <1>11, MadeFacts
<1>13. /\ m \in Books /\ m.status = book.status /\ m.pending = book.pending /\ m.queue = book.queue
       /\ m.db = book.db /\ m.shown = rows
  BY <1>4, <1>11 DEF DWTypeOK, Books
<1>14. rs \in SUBSET DOMAIN made
  BY <1>5, <1>12, <1>13, NewerIsMade
<1>15. /\ b \in Books /\ b.status = book.status /\ b.pending = book.pending /\ b.queue = book.queue
       /\ b.db = book.db
       /\ \A l \in Layers : b.shown[l] = IF {x \in rs : l \in made[x].scope} = {} THEN rows[l]
                                         ELSE made[Max({x \in rs : l \in made[x].scope})].show
  BY <1>6, <1>13, <1>14, ProjectFields
<1>16. /\ \A q : (Waits(b, q) <=> Waits(book, q)) /\ (Waits(m, q) <=> Waits(book, q))
       /\ \A q : (Lives(b, q) <=> Lives(book, q)) /\ (Lives(m, q) <=> Lives(book, q))
       /\ \A q : InQueue(b, q) <=> InQueue(book, q)
       /\ \A q : IsPending(b, q) <=> IsPending(book, q)
  BY <1>13, <1>15 DEF Waits, Lives, InQueue, IsPending
<1>17. /\ \A l : Covering(b, l) = Covering(book, l) /\ Covering(m, l) = Covering(book, l)
       /\ \A l : (Written(b, l) <=> Written(book, l)) /\ (Written(m, l) <=> Written(book, l))
  BY <1>13, <1>15, <1>16 DEF Covering, Written
<1>18. NoneFailed(b) /\ NoneFailed(m) /\ WaitingIsOpen(b)
  BY <1>10, <1>13, <1>15, <1>16 DEF Faithful, NoneFailed, WaitingIsOpen
<1>19. WritesInOrder(b)
  BY <1>10, <1>15, <1>16 DEF Faithful, WritesInOrder
<1>20. NewestIsStored(b)
  BY <1>10, <1>15, <1>17 DEF Faithful, NewestIsStored
<1>21. PICK N \in Nat : N = Len(messages) /\ DOMAIN messages = 1..N
  <2>1. PICK M : M = Messages
    OBVIOUS
  <2>2. messages \in Seq(M)
    BY <2>1 DEF DWTypeOK
  <2>3. Len(messages) \in Nat /\ DOMAIN messages = 1..Len(messages)
    BY <2>2
  <2> QED BY <2>3
<1>22. DOMAIN ms = 1..(N - 1) /\ Len(ms) = N - 1 /\ \A i \in 1..(N - 1) : ms[i] = messages[i + 1]
  <2>1. PICK M : M = Messages
    OBVIOUS
  <2>2. messages \in Seq(M) /\ messages # <<>>
    BY <1>9, <2>1 DEF DWTypeOK
  <2>3. Tail(messages) \in Seq(M) /\ Len(Tail(messages)) = Len(messages) - 1
    BY <2>2
  <2>4. \A i \in DOMAIN Tail(messages) : Tail(messages)[i] = messages[i + 1]
    BY <1>9, MessageKinds
  <2>5. DOMAIN Tail(messages) = 1..Len(Tail(messages))
    BY <2>3
  <2> QED BY <1>7, <1>21, <2>3, <2>4, <2>5
<1>23. ASSUME NEW i \in DOMAIN messages
       PROVE  /\ messages[i].kind = "committed"
              /\ book.status[messages[i].rev] = "open"
              /\ ~Waits(book, messages[i].rev)
              /\ \A q \in DOMAIN made : Lives(book, q) /\ ~Waits(book, q) => q <= messages[N].rev
              /\ \A j \in DOMAIN messages : i < j => messages[i].rev < messages[j].rev
              /\ \A q \in projecting : q < messages[i].rev
  BY <1>10, <1>21 DEF Faithful, ResultsInOrder
<1>24. messages[N].rows = book.db /\ \A q \in projecting : book.status[q] = "open" /\ ~Waits(book, q)
  BY <1>9, <1>10, <1>21 DEF Faithful, ResultsInOrder
<1>25. N >= 1 /\ N - 1 \in Nat
  BY ONLY <1>11, <1>21
<1>26. book.status[r] = "open" /\ ~Waits(book, r)
  BY <1>1, <1>11, <1>23
<1>27. ASSUME NEW i \in DOMAIN ms
       PROVE  /\ ms[i].kind = "committed"
              /\ b.status[ms[i].rev] = "open"
              /\ ~Waits(b, ms[i].rev)
              /\ \A q \in DOMAIN made : Lives(b, q) /\ ~Waits(b, q) => q <= ms[Len(ms)].rev
              /\ \A j \in DOMAIN ms : i < j => ms[i].rev < ms[j].rev
              /\ \A q \in ps : q < ms[i].rev
  <2>1. PICK i1 \in 1..N : i1 = i + 1 /\ 1 < i1
    BY ONLY <1>22, <1>27, N \in Nat
  <2>2. ms[i] = messages[i1]
    BY <1>22, <1>27, <2>1
  <2>3. ms[Len(ms)] = messages[N]
    <3>1. N - 1 \in 1..(N - 1) /\ (N - 1) + 1 = N
      BY ONLY <1>22, <1>27, N \in Nat
    <3> QED BY <1>22, <3>1
  <2>4. \A j \in DOMAIN ms : i < j => ms[i].rev < ms[j].rev
    <3>1. ASSUME NEW j \in DOMAIN ms, i < j
          PROVE  ms[i].rev < ms[j].rev
      <4>0. i \in 1..(N - 1) /\ j \in 1..(N - 1)
        BY <1>22, <1>27, <3>1
      <4>1. PICK j1 \in 1..N : j1 = j + 1 /\ i1 < j1
        BY ONLY <2>1, <3>1, <4>0, N \in Nat
      <4>2. ms[j] = messages[j1]
        BY <1>22, <3>1, <4>1
      <4> QED BY <1>21, <1>23, <2>1, <2>2, <4>1, <4>2
    <3> QED BY <3>1
  <2>5. r < messages[i1].rev
    BY <1>1, <1>11, <1>21, <1>23, <2>1
  <2> QED BY <1>8, <1>15, <1>16, <1>21, <1>23, <2>1, <2>2, <2>3, <2>4, <2>5
<1>28. \A q \in ps : b.status[q] = "open" /\ ~Waits(b, q)
  BY <1>8, <1>15, <1>16, <1>24, <1>26
<1>29. ms # <<>> => ms[Len(ms)].rows = b.db
  <2> SUFFICES ASSUME ms # <<>>
               PROVE  ms[Len(ms)].rows = b.db
    OBVIOUS
  <2>1. N - 1 # 0
    <3>1. PICK M : M = Messages
      OBVIOUS
    <3>2. ms \in Seq(M)
      BY <1>7, <1>9, <3>1, MessageKinds
    <3>3. Len(ms) # 0
      BY ONLY <3>2, ms # <<>>
    <3> QED BY <1>22, <3>3
  <2>2. N - 1 \in 1..(N - 1) /\ (N - 1) + 1 = N
    BY ONLY <1>25, <2>1
  <2> QED BY <1>15, <1>22, <1>24, <2>2
<1>30. ResultsInOrder(b, ms, ps)
  BY <1>27, <1>28, <1>29 DEF ResultsInOrder
<1>31. StoredIsShown(b, ms)
  <2> SUFFICES ASSUME ms = <<>>, NEW l \in Layers, Written(b, l)
               PROVE  b.shown[l] = b.db[l]
    BY DEF StoredIsShown
  <2>1. N = 1
    <3>1. Len(ms) = 0
      BY ONLY ms = <<>>
    <3>2. N - 1 = 0
      BY <1>22, <3>1
    <3> QED BY ONLY <3>2, N \in Nat
  <2>2. rows = book.db /\ \A q \in DOMAIN made : Lives(m, q) /\ ~Waits(m, q) => q <= r
    BY <1>1, <1>2, <1>11, <1>16, <1>23, <1>24, <2>1
  <2>3. PICK mine : mine = {x \in rs : l \in made[x].scope}
    OBVIOUS
  <2>4. b.shown[l] = IF mine = {} THEN rows[l] ELSE made[Max(mine)].show
    BY <1>15, <2>3
  <2>5. CASE mine = {}
    BY <1>15, <2>2, <2>4, <2>5
  <2>6. CASE mine # {}
    <3>1. m.status[r] = "open" /\ Written(m, l)
      BY <1>13, <1>17, <1>26
    <3>2. OwnScope
      BY DEF Structure
    <3>3. Covering(m, l) # {} /\ Max(mine) = Max(Covering(m, l))
      BY ONLY LayersAssumption, DWTypeOK, l \in Layers, <1>3, <1>5, <1>11, <1>12, <1>13, <1>18,
              <2>2, <2>3, <2>6, <3>1, <3>2, NewerIsNewest
    <3> QED BY <1>10, <1>15, <1>17, <2>4, <2>6, <3>1, <3>3 DEF Faithful, NewestIsStored
  <2> QED BY <2>5, <2>6
<1>32. Faithful(b, ms, ps)
  BY <1>10, <1>18, <1>19, <1>20, <1>30, <1>31 DEF Faithful
<1>33. others' = 0 /\ UNCHANGED <<sql, made, wanted>>
  BY <1>9, <1>10
<1> QED BY ONLY <1>9, <1>32, <1>33, IntentStays

-----------------------------------------------------------------------------
(* Without faults: a change of the user.                                   *)

LEMMA ChangeIntent ==
  ASSUME LayersAssumption, DWTypeOK, Structure, Faithful(book, messages, projecting), others = 0,
         NEW k \in Keys, NEW scope \in SUBSET Layers, NEW show \in BOOLEAN, Len(made) < MaxRevisions,
         made' = Append(made, [key |-> k, scope |-> scope, show |-> show]),
         \A q \in DOMAIN made : book.pending[k] = q => made[q].scope \subseteq scope,
         NEW shown \in [Layers -> BOOLEAN],
         \A l \in Layers : shown[l] = IF l \in scope THEN show ELSE book.shown[l],
         book' = [Scheduled(k, scope) EXCEPT !.shown = shown],
         ~sql => wanted' = shown,
         UNCHANGED <<sql, messages, projecting, others>>
  PROVE  Intent'
<1>1. PICK N : N = Len(made) + 1
  OBVIOUS
<1>2. PICK gone : gone = SupersededRetries(book, k, scope)
  OBVIOUS
<1>3. PICK b : b = Scheduled(k, scope)
  OBVIOUS
<1>4. PICK p : p = book.pending[k]
  OBVIOUS
<1>5. PICK D : D = DOMAIN made \cup {N}
  OBVIOUS
<1>6. /\ DOMAIN made' = D /\ N \in Revisions /\ N \notin DOMAIN made /\ N # 0 /\ N \in Nat
      /\ \A q \in DOMAIN made : made'[q] = made[q] /\ q < N /\ q \in Nat
      /\ made'[N].key = k /\ made'[N].scope = scope /\ made'[N].show = show
  <2>1. /\ DOMAIN made' = DOMAIN made \cup {N}
        /\ N \in Revisions /\ N \notin DOMAIN made /\ N # 0
        /\ \A q \in DOMAIN made : made'[q] = made[q] /\ q < N
        /\ made'[N] = [key |-> k, scope |-> scope, show |-> show]
    BY <1>1, MadeGrows
  <2>2. N \in Nat
    BY <2>1 DEF Revisions, LayersAssumption
  <2> QED BY <1>5, <2>1, <2>2, MadeFacts
<1>7. /\ b \in [status : [Revisions -> {"open", "done", "failed", "gone"}],
                pending : [Keys -> {0} \cup DOMAIN made \cup {N}],
                restore : [Keys -> SUBSET (Layers \X BOOLEAN)],
                origin : [Keys -> {0} \cup DOMAIN made \cup {N}],
                shown : [Layers -> BOOLEAN], db : [Layers -> BOOLEAN],
                queue : Seq(DOMAIN made)]
      /\ b.db = book.db /\ b.queue = book.queue
      /\ \A q \in DOMAIN made : b.status[q] =
           IF q = book.pending[k] \/ made[q].key \in gone THEN "gone" ELSE book.status[q]
      /\ b.status[N] = "open"
      /\ \A j \in Keys : b.pending[j] = IF j = k THEN N ELSE IF j \in gone THEN 0 ELSE book.pending[j]
  BY <1>1, <1>2, <1>3, <1>6, ScheduledFields
<1>8. gone = {}
  <2>1. ASSUME NEW j \in gone
        PROVE  FALSE
    <3>1. j \in Keys /\ HasFailed(book, book.pending[j])
      BY <1>2 DEF SupersededRetries
    <3>2. book.pending[j] \in {0} \cup DOMAIN made
      BY <3>1, BookFields DEF DWTypeOK
    <3> QED BY <3>1, <3>2 DEF HasFailed, Faithful, NoneFailed
  <2> QED BY <2>1
<1>9. PICK c : c = [b EXCEPT !.shown = shown]
  OBVIOUS
<1>10. /\ book' = c /\ c.shown = shown /\ c.db = book.db /\ c.queue = book.queue
       /\ \A q \in DOMAIN made : c.status[q] = IF q = p THEN "gone" ELSE book.status[q]
       /\ c.status[N] = "open"
       /\ \A j \in Keys : c.pending[j] = IF j = k THEN N ELSE book.pending[j]
  <2>1. /\ c.shown = shown /\ c.db = b.db /\ c.queue = b.queue /\ c.status = b.status
        /\ c.pending = b.pending
    BY <1>7, <1>9
  <2> QED BY <1>3, <1>4, <1>7, <1>8, <1>9, <2>1
<1>11. p \in {0} \cup DOMAIN made
  BY <1>4, BookFields DEF DWTypeOK
<1>12. p # 0 => /\ IsPending(book, p) /\ ~InQueue(book, p) /\ made[p].key = k
                /\ made[p].scope \subseteq scope
  BY <1>4, <1>11 DEF Structure, PendingIsOwn, IsPending
<1>13. \A q : InQueue(book, q)' <=> InQueue(book, q)
  BY <1>10 DEF InQueue
<1>14. \A q : InQueue(book, q) => q \in DOMAIN made
  <2>1. ASSUME NEW q, InQueue(book, q)
        PROVE  q \in DOMAIN made
    <3>1. PICK i \in DOMAIN book.queue : book.queue[i] = q
      BY <2>1 DEF InQueue
    <3>2. book.queue \in Seq(DOMAIN made)
      BY BookFields DEF DWTypeOK
    <3> QED BY <3>1, <3>2
  <2> QED BY <2>1
<1>15. \A q \in DOMAIN made : IsPending(book, q)' <=> IsPending(book, q) /\ q # p
  <2>1. ASSUME NEW q \in DOMAIN made
        PROVE  IsPending(book, q)' <=> IsPending(book, q) /\ q # p
    <3>1. made'[q] = made[q] /\ q \in DOMAIN made' /\ q # N /\ made[q].key \in Keys
      BY <1>5, <1>6, MadeFacts
    <3>2. IsPending(book, q)' <=> c.pending[made[q].key] = q
      BY <1>10, <3>1 DEF IsPending
    <3>3. CASE made[q].key = k
      BY <1>4, <1>10, <3>1, <3>2, <3>3 DEF IsPending
    <3>4. CASE made[q].key # k
      <4>1. q # p
        BY <1>11, <1>12, <3>4, MadeFacts
      <4> QED BY <1>10, <3>1, <3>2, <3>4, <4>1 DEF IsPending
    <3> QED BY <3>3, <3>4
  <2> QED BY <2>1
<1>16. IsPending(book, N)'
  BY <1>5, <1>6, <1>10 DEF IsPending
<1>17. \A q \in DOMAIN made : Waits(book, q)' <=> Waits(book, q) /\ q # p
  <2>1. ASSUME NEW q \in DOMAIN made
        PROVE  Waits(book, q)' <=> Waits(book, q) /\ q # p
    <3>1. q = p => ~InQueue(book, q)
      BY <1>12, MadeFacts
    <3> QED BY <1>13, <1>15, <3>1 DEF Waits
  <2> QED BY <2>1
<1>18. Waits(book, N)'
  BY <1>16 DEF Waits
<1>19. p # 0 => Waits(book, p)
  BY <1>12 DEF Waits
<1>20. \A q \in DOMAIN made : Lives(book, q)' <=> Lives(book, q) /\ q # p
  <2>1. ASSUME NEW q \in DOMAIN made
        PROVE  Lives(book, q)' <=> Lives(book, q) /\ q # p
    <3>1. q \in DOMAIN made' /\ c.status[q] = IF q = p THEN "gone" ELSE book.status[q]
      BY <1>5, <1>6, <1>10
    <3> QED BY ONLY <1>10, <3>1, q \in DOMAIN made DEF Lives
  <2> QED BY <2>1
<1>21. D = DOMAIN made' /\ \A q \in D : q = N \/ q \in DOMAIN made
  BY <1>5, <1>6
<1>22. NoneFailed(book)'
  <2>1. \A q \in DOMAIN made : book.status[q] # "failed"
    BY DEF Faithful, NoneFailed
  <2>2. \A q \in D : c.status[q] # "failed"
    BY <1>10, <1>21, <2>1
  <2> QED BY <1>10, <1>21, <2>2 DEF NoneFailed
<1>23. WaitingIsOpen(book)'
  BY <1>10, <1>17, <1>21 DEF Faithful, WaitingIsOpen
<1>24. WritesInOrder(book)'
  <2>1. \A i, j \in DOMAIN c.queue : i < j => c.queue[i] < c.queue[j]
    BY <1>10 DEF Faithful, WritesInOrder
  <2>2. \A x, q \in D : InQueue(book, x)' /\ IsPending(book, q)' => x < q
    <3>1. ASSUME NEW x \in D, NEW q \in D, InQueue(book, x)', IsPending(book, q)'
          PROVE  x < q
      <4>1. x \in DOMAIN made /\ InQueue(book, x)
        BY <1>13, <1>14, <3>1
      <4> QED BY <1>6, <1>15, <1>21, <3>1, <4>1 DEF Faithful, WritesInOrder
    <3> QED BY <3>1
  <2>3. \A x, q \in D : Lives(book, x)' /\ ~Waits(book, x)' /\ Waits(book, q)' => x < q
    <3>1. ASSUME NEW x \in D, NEW q \in D, Lives(book, x)', ~Waits(book, x)', Waits(book, q)'
          PROVE  x < q
      <4>1. x \in DOMAIN made /\ Lives(book, x) /\ ~Waits(book, x)
        BY <1>17, <1>18, <1>20, <1>21, <3>1
      <4> QED BY <1>6, <1>17, <1>21, <3>1, <4>1 DEF Faithful, WritesInOrder
    <3> QED BY <3>1
  <2> QED BY <1>10, <1>21, <2>1, <2>2, <2>3 DEF WritesInOrder
<1>25. \A l \in Layers : l \notin scope => Covering(book, l)' = Covering(book, l)
  <2>1. ASSUME NEW l \in Layers, l \notin scope
        PROVE  Covering(book, l)' = Covering(book, l)
    <3>1. ASSUME NEW x \in Covering(book, l)
          PROVE  x \in Covering(book, l)'
      <4>1. x \in DOMAIN made /\ book.status[x] # "gone" /\ l \in made[x].scope
        BY DEF Covering
      <4>2. x # p
        BY <1>12, <2>1, <4>1, MadeFacts
      <4>3. x \in D /\ made'[x] = made[x] /\ c.status[x] = book.status[x]
        BY <1>5, <1>6, <1>10, <4>1, <4>2
      <4> QED BY ONLY <1>6, <1>10, <4>1, <4>3 DEF Covering
    <3>2. ASSUME NEW x \in Covering(book, l)'
          PROVE  x \in Covering(book, l)
      <4>1. x \in D /\ c.status[x] # "gone" /\ l \in made'[x].scope
        BY <1>10, <1>21 DEF Covering
      <4>2. x \in DOMAIN made
        BY <1>6, <1>21, <2>1, <4>1
      <4> QED BY <1>6, <1>10, <4>1, <4>2 DEF Covering
    <3> QED BY <3>1, <3>2
  <2> QED BY <2>1
<1>26. \A l \in scope : Max(Covering(book, l))' = N
  <2>1. ASSUME NEW l \in scope
        PROVE  Max(Covering(book, l))' = N
    <3>1. PICK S : S = Covering(book, l)'
      OBVIOUS
    <3>2. N \in S
      BY <1>5, <1>6, <1>10, <3>1 DEF Covering
    <3>3. S \subseteq 1..N
      <4>1. ASSUME NEW x \in S
            PROVE  x \in 1..N
        <5>1. x \in D
          BY <1>6, <3>1 DEF Covering
        <5>2. x = N \/ (x \in Nat \ {0} /\ x < N)
          BY <1>6, <1>21, <5>1, MadeFacts
        <5>3. N \in Nat /\ N # 0
          BY <1>6
        <5> QED BY ONLY <5>2, <5>3
      <4> QED BY <4>1
    <3>4. Max(S) \in S /\ N <= Max(S)
      BY <1>6, <3>2, <3>3, MaxOfSome
    <3>5. Max(S) = N
      <4>1. PICK z : z = Max(S)
        OBVIOUS
      <4>2. z \in 1..N /\ N <= z /\ N \in Nat
        BY <1>6, <3>3, <3>4, <4>1
      <4>3. z = N
        BY ONLY <4>2
      <4> QED BY <4>1, <4>3
    <3>6. Max(Covering(book, l))' = Max(S)
      BY <3>1 DEF Max
    <3> QED BY <3>5, <3>6
  <2> QED BY <2>1
<1>27. \A l \in Layers : Written(book, l)' => l \notin scope /\ Written(book, l)
  <2>1. ASSUME NEW l \in Layers, Written(book, l)'
        PROVE  l \notin scope /\ Written(book, l)
    <3>1. \A q \in D : Waits(book, q)' => l \notin made'[q].scope
      BY <1>21, <2>1 DEF Written
    <3>2. l \notin scope
      BY <1>5, <1>6, <1>18, <3>1
    <3>3. ASSUME NEW q \in DOMAIN made, Waits(book, q)
          PROVE  l \notin made[q].scope
      <4>1. CASE q = p
        BY <1>12, <3>2, <4>1, MadeFacts
      <4>2. CASE q # p
        BY <1>5, <1>6, <1>17, <3>1, <3>3, <4>2
      <4> QED BY <4>1, <4>2
    <3> QED BY <3>2, <3>3 DEF Written
  <2> QED BY <2>1
<1>28. \A l \in Layers : l \notin scope /\ Covering(book, l) # {} =>
         /\ Max(Covering(book, l))' = Max(Covering(book, l))
         /\ made'[Max(Covering(book, l))] = made[Max(Covering(book, l))]
  <2>1. ASSUME NEW l \in Layers, l \notin scope, Covering(book, l) # {}
        PROVE  /\ Max(Covering(book, l))' = Max(Covering(book, l))
               /\ made'[Max(Covering(book, l))] = made[Max(Covering(book, l))]
    <3>1. Covering(book, l) \subseteq DOMAIN made
      BY DEF Covering
    <3>2. Max(Covering(book, l)) \in DOMAIN made
      BY <2>1, <3>1, Newest
    <3>3. Max(Covering(book, l))' = Max(Covering(book, l))
      BY <1>25, <2>1 DEF Max
    <3> QED BY <1>6, <3>2, <3>3
  <2> QED BY <2>1
<1>29. sql => NewestIsStored(book)'
  <2> SUFFICES ASSUME sql
               PROVE  NewestIsStored(book)'
    OBVIOUS
  <2>1. NewestIsStored(book)
    BY DEF Faithful
  <2>2. ASSUME NEW l \in Layers, Written(book, l)', Covering(book, l)' # {}
        PROVE  book'.db[l] = made'[Max(Covering(book, l))'].show
    <3>1. l \notin scope /\ Written(book, l) /\ Covering(book, l) # {}
      BY <1>25, <1>27, <2>2
    <3>2. book.db[l] = made[Max(Covering(book, l))].show
      BY <2>1, <3>1 DEF NewestIsStored
    <3>3. /\ Max(Covering(book, l))' = Max(Covering(book, l))
          /\ made'[Max(Covering(book, l))] = made[Max(Covering(book, l))]
      BY <1>28, <3>1
    <3>4. book'.db[l] = book.db[l]
      BY <1>10
    <3> QED BY ONLY <3>2, <3>3, <3>4
  <2>3. \A l : Max(Covering(book, l))' = Max(Covering(book, l)')
    BY DEF Max
  <2> QED BY <2>2, <2>3 DEF NewestIsStored
<1>30. \A q \in DOMAIN made : book.status[q] = "open" /\ ~Waits(book, q) =>
          c.status[q] = "open" /\ ~Waits(book, q)'
  <2>1. ASSUME NEW q \in DOMAIN made, book.status[q] = "open", ~Waits(book, q)
        PROVE  c.status[q] = "open" /\ ~Waits(book, q)'
    <3>1. q # p
      BY <1>19, <2>1, MadeFacts
    <3> QED BY <1>10, <1>17, <2>1, <3>1
  <2> QED BY <2>1
<1>31. \A q \in D : Lives(book, q)' /\ ~Waits(book, q)' =>
          q \in DOMAIN made /\ Lives(book, q) /\ ~Waits(book, q)
  BY <1>17, <1>18, <1>20, <1>21
<1>32. sql => ResultsInOrder(book, messages, projecting)'
  <2> SUFFICES ASSUME sql
               PROVE  ResultsInOrder(book, messages, projecting)'
    OBVIOUS
  <2>1. ResultsInOrder(book, messages, projecting)
    BY DEF Faithful
  <2>2. \A i \in DOMAIN messages : messages[i].kind = "committed" /\ messages[i].rev \in DOMAIN made
    BY <2>1, MessageKinds DEF ResultsInOrder
  <2>3. ASSUME NEW i \in DOMAIN messages
        PROVE  /\ messages[i].kind = "committed"
               /\ c.status[messages[i].rev] = "open"
               /\ ~Waits(book, messages[i].rev)'
               /\ \A q \in D : Lives(book, q)' /\ ~Waits(book, q)' => q <= messages[Len(messages)].rev
               /\ \A j \in DOMAIN messages : i < j => messages[i].rev < messages[j].rev
               /\ \A q \in projecting : q < messages[i].rev
    <3>1. /\ book.status[messages[i].rev] = "open"
          /\ ~Waits(book, messages[i].rev)
          /\ \A q \in DOMAIN made : Lives(book, q) /\ ~Waits(book, q) => q <= messages[Len(messages)].rev
          /\ \A j \in DOMAIN messages : i < j => messages[i].rev < messages[j].rev
          /\ \A q \in projecting : q < messages[i].rev
      BY <2>1 DEF ResultsInOrder
    <3>2. c.status[messages[i].rev] = "open"
      BY <1>30, <2>2, <3>1
    <3>3. PICK x : x = messages[i].rev
      OBVIOUS
    <3>4. ~Waits(book, x)'
      BY <1>30, <2>2, <3>1, <3>3
    <3>5. messages'[i].rev = x
      BY <3>3
    <3>6. ~Waits(book, messages[i].rev)'
      BY <3>4, <3>5 DEF Waits, IsPending, InQueue
    <3> QED BY <1>31, <2>2, <3>1, <3>2, <3>6
  <2>4. \A q \in projecting : c.status[q] = "open" /\ ~Waits(book, q)'
    BY <1>30, <2>1 DEF ResultsInOrder, DWTypeOK
  <2>5. messages # <<>> => messages[Len(messages)].rows = c.db
    BY <1>10, <2>1 DEF ResultsInOrder
  <2>6. messages' = messages /\ projecting' = projecting /\ book' = c
    BY <1>10
  <2> QED BY ONLY <1>21, <2>3, <2>4, <2>5, <2>6 DEF ResultsInOrder
<1>33. sql => StoredIsShown(book, messages)'
  <2> SUFFICES ASSUME sql, messages = <<>>, NEW l \in Layers, Written(book, l)'
               PROVE  book'.shown[l] = book'.db[l]
    BY DEF StoredIsShown
  <2>1. l \notin scope /\ Written(book, l)
    BY <1>27
  <2>2. book.shown[l] = book.db[l]
    BY <2>1 DEF Faithful, StoredIsShown
  <2>3. shown[l] = book.shown[l]
    BY <2>1
  <2> QED BY <1>10, <2>2, <2>3
<1>34. ~sql => NewestIsWanted(book)' /\ NoneDone(book)'
  <2> SUFFICES ASSUME ~sql
               PROVE  NewestIsWanted(book)' /\ NoneDone(book)'
    OBVIOUS
  <2>1. NewestIsWanted(book) /\ NoneDone(book) /\ wanted' = shown
    BY DEF Faithful
  <2>2. NoneDone(book)'
    <3>1. \A q \in DOMAIN made : book.status[q] # "done"
      BY <2>1 DEF NoneDone
    <3>2. \A q \in D : c.status[q] # "done"
      BY <1>10, <1>21, <3>1
    <3> QED BY <1>10, <1>21, <3>2 DEF NoneDone
  <2>3. ASSUME NEW l \in Layers, Covering(book, l)' # {}
        PROVE  made'[Max(Covering(book, l))'].show = shown[l]
    <3>1. CASE l \in scope
      BY <1>6, <1>26, <3>1
    <3>2. CASE l \notin scope
      <4>1. Covering(book, l) # {}
        BY <1>25, <2>3, <3>2
      <4>2. made[Max(Covering(book, l))].show = book.shown[l]
        BY <2>1, <4>1 DEF NewestIsWanted
      <4> QED BY <1>28, <3>2, <4>1, <4>2
    <3> QED BY <3>1, <3>2
  <2>4. \A l \in Layers : Written(book, l)' => c.db[l] = shown[l]
    BY <1>10, <1>27, <2>1 DEF NewestIsWanted
  <2>5. \A l : Max(Covering(book, l))' = Max(Covering(book, l)')
    BY DEF Max
  <2> QED BY <1>10, <2>1, <2>2, <2>3, <2>4, <2>5 DEF NewestIsWanted
<1> QED BY <1>22, <1>23, <1>24, <1>29, <1>32, <1>33, <1>34 DEF Intent, Faithful

LEMMA InitIntent ==
  ASSUME LayersAssumption, DWInit
  PROVE  Intent
<1>1. /\ made = <<>> /\ messages = <<>> /\ projecting = {} /\ others = 0
      /\ book.shown = book.db /\ book.queue = <<>> /\ wanted = book.shown
  BY DEF DWInit
<1>2. DOMAIN made = {} /\ DOMAIN messages = {} /\ DOMAIN book.queue = {}
  <2>1. PICK s : s = <<>>
    OBVIOUS
  <2>2. DOMAIN s = {}
    BY <2>1
  <2> QED BY <1>1, <2>1, <2>2
<1>3. \A l : Covering(book, l) = {}
  BY <1>2 DEF Covering
<1>4. NoneFailed(book) /\ WaitingIsOpen(book) /\ WritesInOrder(book) /\ NoneDone(book)
  BY <1>2 DEF NoneFailed, WaitingIsOpen, WritesInOrder, NoneDone
<1>5. NewestIsStored(book) /\ NewestIsWanted(book) /\ StoredIsShown(book, messages)
  BY <1>1, <1>3 DEF NewestIsStored, NewestIsWanted, StoredIsShown
<1>6. ResultsInOrder(book, messages, projecting)
  BY <1>1, <1>2 DEF ResultsInOrder
<1> QED BY <1>1, <1>4, <1>5, <1>6 DEF Intent, Faithful

LEMMA NextIntent ==
  ASSUME LayersAssumption, DWTypeOK, Structure, Intent, [DWNext]_dwVars
  PROVE  Intent'
<1>1. CASE spoiled' \/ narrowed'
  BY <1>1 DEF Intent
<1>2. CASE ~spoiled' /\ ~narrowed'
  <2>1. ~spoiled /\ ~narrowed
    <3>1. spoiled => spoiled'
      BY DEF DWNext, dwVars, Toggle, ShowAll, Changes, RemoteChange, Flush, PrepareShutdown, AbortShutdown,
             CommitNext, RejectNext, HandleCommitted, FinishProjection, HandleRejected, HandleRemote,
             Reload, Other
    <3>2. narrowed => narrowed'
      BY DEF DWNext, dwVars, Toggle, ShowAll, Changes, RemoteChange, Flush, PrepareShutdown, AbortShutdown,
             CommitNext, RejectNext, HandleCommitted, FinishProjection, HandleRejected, HandleRemote,
             Reload, Other
    <3> QED BY <1>2, <3>1, <3>2
  <2>2. others = 0 /\ Faithful(book, messages, projecting)
    BY <2>1 DEF Intent
  <2>3. /\ book.shown \in [Layers -> BOOLEAN] /\ wanted \in [Layers -> BOOLEAN]
        /\ ~sql => wanted = book.shown
    BY <2>2, BookFields DEF DWTypeOK, Faithful, NewestIsWanted
  <2>4. ASSUME NEW k, NEW scope, NEW show, Changes(k, scope, show)
        PROVE  \A q \in DOMAIN made : book.pending[k] = q => made[q].scope \subseteq scope
    <3>1. narrowed' = (narrowed \/ \E r \in DOMAIN made : /\ book.pending[k] = r
                                                         /\ ~(made[r].scope \subseteq scope))
      BY <2>4 DEF Changes
    <3> QED BY <1>2, <3>1
  <2>5. ASSUME NEW l \in Layers, Toggle(l)
        PROVE  Intent'
    <3>1. PICK show \in BOOLEAN : show = ~book.shown[l]
      OBVIOUS
    <3>2. PICK scope : scope = {l}
      OBVIOUS
    <3>3. PICK b : b = Scheduled(l, scope)
      OBVIOUS
    <3>4. PICK shown : shown = [book.shown EXCEPT ![l] = show]
      OBVIOUS
    <3>5. /\ Changes(l, scope, show) /\ book' = [b EXCEPT !.shown[l] = show]
          /\ wanted' = [wanted EXCEPT ![l] = show]
      BY <2>5, <3>1, <3>2, <3>3 DEF Toggle
    <3>6. l \in Keys /\ scope \in SUBSET Layers
      BY <3>2 DEF Keys
    <3>7. b.shown = book.shown
      <4>1. PICK N : N = Len(made) + 1
        OBVIOUS
      <4>2. N \in Revisions /\ N \notin DOMAIN made
        BY <3>5, <3>6, <4>1, MadeGrows DEF Changes
      <4>3. PICK gone : gone = SupersededRetries(book, l, scope)
        OBVIOUS
      <4> QED BY <3>3, <3>6, <4>1, <4>2, <4>3, ScheduledFields
    <3>8. book' = [Scheduled(l, scope) EXCEPT !.shown = shown]
      BY <3>3, <3>4, <3>5, <3>7
    <3>9. /\ shown \in [Layers -> BOOLEAN] /\ (~sql => wanted' = shown)
          /\ \A j \in Layers : shown[j] = IF j \in scope THEN show ELSE book.shown[j]
      BY <2>3, <3>2, <3>4, <3>5
    <3>10. /\ Len(made) < MaxRevisions
           /\ made' = Append(made, [key |-> l, scope |-> scope, show |-> show])
           /\ UNCHANGED <<sql, messages, projecting, others>>
      BY <3>5 DEF Changes
    <3>11. \A q \in DOMAIN made : book.pending[l] = q => made[q].scope \subseteq scope
      BY <2>4, <3>5
    <3> QED BY ONLY LayersAssumption, DWTypeOK, Structure, <2>2, <3>1, <3>6, <3>8, <3>9, <3>10, <3>11, ChangeIntent
  <2>6. ASSUME NEW show \in BOOLEAN, ShowAll(show)
        PROVE  Intent'
    <3>1. PICK scope : scope = IF {l \in Layers : book.shown[l] # show} # {}
                               THEN {l \in Layers : book.shown[l] # show} ELSE Layers
      OBVIOUS
    <3>2. PICK shown : shown = [l \in Layers |-> show]
      OBVIOUS
    <3>3. /\ Changes(All, scope, show) /\ book' = [Scheduled(All, scope) EXCEPT !.shown = shown]
          /\ wanted' = shown
      BY <2>6, <3>1, <3>2 DEF ShowAll
    <3>4. shown \in [Layers -> BOOLEAN] /\ All \in Keys /\ scope \in SUBSET Layers
      BY <3>1, <3>2 DEF Keys
    <3>5. \A l \in Layers : shown[l] = IF l \in scope THEN show ELSE book.shown[l]
      BY <3>1, <3>2
    <3>6. /\ Len(made) < MaxRevisions
          /\ made' = Append(made, [key |-> All, scope |-> scope, show |-> show])
          /\ UNCHANGED <<sql, messages, projecting, others>>
      BY <3>3 DEF Changes
    <3>7. \A q \in DOMAIN made : book.pending[All] = q => made[q].scope \subseteq scope
      BY <2>4, <3>3
    <3> QED BY ONLY LayersAssumption, DWTypeOK, Structure, <2>2, <2>6, <3>3, <3>4, <3>5, <3>6, <3>7, ChangeIntent
  <2>7. ASSUME NEW failing, NEW blocked \in BOOLEAN, book' = Flushed(failing, blocked),
               spoiled' = (spoiled \/ blocked \/ failing # {}),
               UNCHANGED <<sql, made, messages, projecting, wanted, others>>
        PROVE  Intent'
    <3>1. failing = {} /\ blocked = FALSE
      BY <1>2, <2>7
    <3>2. PICK b : b = Flushed({}, FALSE)
      OBVIOUS
    <3>3. Faithful(b, messages, projecting)
      BY ONLY LayersAssumption, DWTypeOK, Structure, <2>2, <3>2, FlushFaithful
    <3>4. PICK ms : ms = messages
      OBVIOUS
    <3>5. PICK ps : ps = projecting
      OBVIOUS
    <3>6. /\ book' = b /\ messages' = ms /\ projecting' = ps /\ others' = 0
          /\ Faithful(b, ms, ps) /\ UNCHANGED <<sql, made, wanted>>
      BY <2>2, <2>7, <3>1, <3>2, <3>3, <3>4, <3>5
    <3> QED BY ONLY <3>6, IntentStays
  <2>8. CASE Flush
    <3>1. PICK failing \in SUBSET Pending(book), blocked \in BOOLEAN :
            /\ book' = Flushed(failing, blocked)
            /\ spoiled' = (spoiled \/ blocked \/ failing # {})
            /\ UNCHANGED <<sql, made, messages, projecting, wanted, others>>
      BY <2>8 DEF Flush
    <3> QED BY <2>7, <3>1
  <2>9. CASE PrepareShutdown
    <3>1. PICK failing \in SUBSET Pending(book), blocked \in BOOLEAN :
            /\ book' = Flushed(failing, blocked)
            /\ spoiled' = (spoiled \/ blocked \/ failing # {})
            /\ UNCHANGED <<sql, made, messages, projecting, wanted, others>>
      BY <2>9 DEF PrepareShutdown
    <3> QED BY <2>7, <3>1
  <2>10. CASE AbortShutdown \/ UNCHANGED dwVars
    <3>1. PICK b : b = book
      OBVIOUS
    <3>2. PICK ms : ms = messages
      OBVIOUS
    <3>3. PICK ps : ps = projecting
      OBVIOUS
    <3>4. UNCHANGED <<sql, made, book, messages, projecting, wanted, others>>
      BY <2>10 DEF AbortShutdown, dwVars
    <3>5. /\ book' = b /\ messages' = ms /\ projecting' = ps /\ others' = 0
          /\ Faithful(b, ms, ps) /\ UNCHANGED <<sql, made, wanted>>
      BY <2>2, <3>1, <3>2, <3>3, <3>4
    <3> QED BY ONLY <3>5, IntentStays
  <2>11. CASE RejectNext \/ Reload \/ \E l \in Layers : RemoteChange(l)
    BY <1>2, <2>11 DEF RejectNext, Reload, RemoteChange, Other
  <2>12. ~HandleRemote
    <3>1. ASSUME HandleRemote
          PROVE  FALSE
      <4>1. messages # <<>> /\ Head(messages).kind = "remote"
        BY <3>1 DEF HandleRemote, Take
      <4>2. 1 \in DOMAIN messages /\ Head(messages) = messages[1]
        BY <4>1, MessageKinds
      <4> QED BY <2>2, <4>1, <4>2 DEF Structure
    <3> QED BY <3>1
  <2>13. ~HandleRejected
    <3>1. ASSUME HandleRejected
          PROVE  FALSE
      <4>1. messages # <<>> /\ Head(messages).kind = "rejected"
        BY <3>1 DEF HandleRejected, Take
      <4>2. 1 \in DOMAIN messages /\ Head(messages) = messages[1]
        BY <4>1, MessageKinds
      <4>3. sql
        BY <4>1 DEF Structure
      <4>4. messages[1].kind = "committed"
        BY <2>2, <4>2, <4>3 DEF Faithful, ResultsInOrder
      <4> QED BY <4>1, <4>2, <4>4
    <3> QED BY <3>1
  <2> QED BY <2>5, <2>6, <2>8, <2>9, <2>10, <2>11, <2>12, <2>13,
             CommitIntent, FinishIntent, AppliedIntent DEF DWNext
<1> QED BY <1>1, <1>2

\* When all writes are over and nothing was refused or changed by another, what is shown is
\* stored, and in Access that is what the user asked for last, whatever the layers and the
\* order of the changes, writes and results (_reconcile_completed_layer_visual_states,
\* reproject_newer_layer_visual_revisions, _flush_keys).
THEOREM IntentCorrect == DWSpec => []IntentIsStored
<1>1. DWInit => IInv
  BY WritesAssumption, InitTyped, InitIntent DEF IInv
<1>2. IInv /\ [DWNext]_dwVars => IInv'
  BY WritesAssumption, NextTyped, NextIntent DEF IInv
<1>3. IInv => IntentIsStored
  <2> SUFFICES ASSUME IInv, Quiet, ~spoiled, ~narrowed
               PROVE  book.shown = book.db /\ (sql \/ book.db = wanted)
    BY DEF IntentIsStored
  <2>1. Faithful(book, messages, projecting)
    BY DEF IInv, Intent
  <2>2. DWTypeOK
    BY DEF IInv
  <2>3. /\ book.shown \in [Layers -> BOOLEAN] /\ book.db \in [Layers -> BOOLEAN]
        /\ wanted \in [Layers -> BOOLEAN]
    BY <2>2, BookFields DEF DWTypeOK
  <2>4. \A r \in DOMAIN made : ~Waits(book, r)
    <3>1. \A k \in Keys : book.pending[k] = 0
      BY DEF Quiet, Pending
    <3>2. \A r \in DOMAIN made : ~IsPending(book, r)
      BY WritesAssumption, <2>2, <3>1, MadeFacts DEF IsPending
    <3>3. \A r : ~InQueue(book, r)
      BY DEF Quiet, InQueue
    <3> QED BY <3>2, <3>3 DEF Waits
  <2>5. \A l \in Layers : Written(book, l)
    BY <2>4 DEF Written
  <2>6. CASE sql
    <3>1. \A l \in Layers : book.shown[l] = book.db[l]
      BY <2>1, <2>5, <2>6 DEF Faithful, StoredIsShown, Quiet
    <3> QED BY <2>3, <2>6, <3>1
  <2>7. CASE ~sql
    <3>1. book.shown = wanted /\ \A l \in Layers : book.db[l] = wanted[l]
      BY <2>1, <2>5, <2>7 DEF Faithful, NewestIsWanted
    <3> QED BY <2>3, <3>1
  <2> QED BY <2>6, <2>7
<1> QED BY <1>1, <1>2, <1>3, PTL DEF DWSpec
=============================================================================
