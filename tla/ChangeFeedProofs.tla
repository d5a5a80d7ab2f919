---------------------------- MODULE ChangeFeedProofs ----------------------------
(***************************************************************************)
(* Proofs about ChangeFeed, for any number of bids, changes, navigations   *)
(* and faults: its types; the checkpoint never passes a change of another  *)
(* session that the bid shown lacks; and what is shown never goes back.    *)
(*                                                                         *)
(* The argument: at most one batch of a session is under way, and it       *)
(* starts at the checkpoint; the snapshots of the messages to the main     *)
(* thread never decrease, and a message that names the bid shown is of a   *)
(* snapshot no older than what is shown; and while a session lasts, the    *)
(* cached version of a loaded bid is no older than any change of another   *)
(* session that was projected.                                             *)
(***************************************************************************)
EXTENDS ChangeFeed, SequenceTheorems, WellFoundedInduction, TLAPS

-----------------------------------------------------------------------------
(* The invariant. *)

Members(q) == {q[i] : i \in 1..Len(q)}

\* A message of the worker; the others are of the navigation.
Real(m) == m.kind # "loaded"
RealMessages == {m \in Messages : Real(m)}
Current(m) == m.gen = rt.gen

\* The barrier of a batch of this session is open; the worker asks for the next batch, or
\* holds it; the session is being hydrated.
Projecting == projecting # NoBatch /\ Current(projecting)
Asking == pc = "poll" \/ (pc = "deliver" /\ fetched.kind = "batch")
Starting == pc \in {"load", "capture", "hydrate"}

\* A change that the checkpoint passed, or will pass when the open barrier closes.
Reached(i) == i <= rt.ack \/ (Projecting /\ i <= projecting.to)

\* Two messages in the order of their posting.
Pair(m, n) ==
  /\ Real(m) \/ Real(n)
  /\ Real(m) /\ Real(n) => m.snap <= n.snap /\ (n.kind = "local" => m.snap <= n.to)
  /\ m.kind = "batch" /\ n.kind = "batch" => m.gen # n.gen
Ordered(q) == \A i, j \in 1..Len(q) : i < j => Pair(q[i], q[j])

\* What the types leave open.
Shapes ==
  /\ pc = "deliver" => fetched \in Messages /\ fetched.kind \in DOMAIN Sequel
  /\ pc = "deliver" /\ fetched.kind = "local" => fetched.bid \in Bids
  /\ pc \in {"draft", "read"} => draft.bid \in Bids
  /\ nav.step # "idle" => nav.bid \in Bids
  /\ projecting # NoBatch => projecting.kind = "batch"
  /\ \A m \in Members(inbox) : m.kind = "local" => m.bid \in Bids
Shaped == TypeOK /\ Shapes

\* Where the worker is tells how far its session has come.
Course ==
  /\ pc # "top" => rt.session
  /\ Starting => ~rt.ready
  /\ pc \in {"draft", "read", "mark", "poll", "check"} => rt.ready
  /\ pc = "deliver" => fetched.kind = "started" \/ rt.ready
  /\ pc = "top" => (rt.session <=> rt.ready)

\* A message is of the past, and one that names the bid shown is no older than it.
Past(m) ==
  /\ m.snap <= Len(log) /\ m.gen <= rt.gen
  /\ m.owner <= loads /\ (nav.step # "idle" => m.owner < loads)
  /\ m.owner = owner => content <= m.snap
  /\ m.kind \in {"batch", "local"} => m.to <= m.snap

\* What a message of this session says is still so when it arrives.
OfSession(m) ==
  Current(m) =>
    /\ m.kind = "started" => ~Starting /\ rt.session /\ (rt.ready \/ rt.ack <= m.snap)
    /\ m.kind = "batch" => rt.ready /\ m.from = rt.ack /\ m.from < m.to /\ ~Projecting
    /\ m.kind = "local" => \A i \in 1..Len(log) : Reached(i) => i <= m.to
Sound(m) == Past(m) /\ OfSession(m)

\* While a batch waits for the main thread no other is asked for.
Pending(m) == m.kind = "batch" /\ Current(m) => rt.pending /\ ~Asking

\* The messages that wait for the main thread.
Arriving ==
  /\ \A m \in Members(inbox) : Real(m) => Sound(m) /\ Pending(m)
  /\ \A m \in Members(inbox) : ~Real(m) => nav.step = "posted"
  /\ Ordered(inbox)

\* The message the worker is about to post.
Departing ==
  pc = "deliver" => Sound(fetched) /\ \A m \in Members(inbox) : Pair(m, fetched)

\* The write whose result is about to be read back is the newest change of the session.
ReadingBack ==
  pc = "read" => /\ draft.base <= Len(log)
                 /\ \A i \in 1..Len(log) : Reached(i) => i <= draft.base
                 /\ \A m \in Members(inbox) : Real(m) => m.snap <= draft.base

\* The batch whose barrier is open.
Open ==
  projecting # NoBatch => /\ projecting.gen <= rt.gen /\ projecting.to <= Len(log)
                          /\ Projecting => rt.ready /\ rt.pending /\ ~Asking

\* Positions in the history, and the numbers of navigations.
Positions ==
  /\ rt.ack <= Len(log) /\ content <= Len(log)
  /\ captured <= loads /\ owner <= loads
  /\ nav.step # "idle" => captured < loads /\ owner < loads
  /\ active = NoBid => content = 0
  /\ nav.step \in {"data", "read", "posted"} => nav.version <= Len(log)
  /\ nav.step \in {"read", "posted"} => nav.version <= nav.snap /\ nav.snap <= Len(log)

Foreigner(i) == log[i].by # rt.gen

\* The cached version of a loaded bid is no older than what other sessions did to it.
Known ==
  rt.session /\ pc # "load" =>
    \A b \in loaded : \A i \in 1..Len(log) :
      Reached(i) /\ log[i].bid = b /\ Foreigner(i) => i <= tokens[b]

\* The bid shown contains what other sessions did to it.
Covered ==
  rt.ready /\ ~rt.recReq =>
    \A i \in 1..Len(log) : Reached(i) /\ log[i].bid = active /\ Foreigner(i) => i <= content

FeedInv ==
  /\ Shaped /\ Course
  /\ Arriving /\ Departing /\ ReadingBack /\ Open
  /\ Positions /\ Known /\ Covered

-----------------------------------------------------------------------------
(* Numbers and sequences. *)

\* Bounded positions have a last one.
LEMMA Largest ==
  ASSUME NEW n \in Nat, NEW S, S \subseteq 1..n, S # {}
  PROVE  \E i \in S : \A j \in S : j <= i
<1> DEFINE T == {n - i : i \in S}
<1>1. T \subseteq Nat /\ T # {}
  <2>1. \A i \in S : i \in Nat /\ i <= n
    OBVIOUS
  <2>2. \A i \in S : n - i \in Nat
    BY <2>1
  <2>3. QED
    BY <2>2
<1> HIDE DEF T
<1>2. PICK d \in T : \A e \in T : ~(<<e, d>> \in OpToRel(<, Nat))
  BY <1>1, NatLessThanWellFounded, WFMin
<1>3. PICK i \in S : d = n - i
  BY DEF T
<1>4. ASSUME NEW j \in S
      PROVE  j <= i
  <2>1. n - j \in T
    BY DEF T
  <2>2. ~(n - j < n - i)
    BY <1>1, <1>2, <1>3, <2>1 DEF OpToRel
  <2>3. QED
    BY <2>2
<1>5. QED
  BY <1>4

\* The version of a bid is the position of its last change.
LEMMA VersionIsLast ==
  ASSUME TypeOK, NEW b \in Bids
  PROVE  /\ Version(b) \in 0..Len(log)
         /\ \A i \in 1..Len(log) : log[i].bid = b => i <= Version(b)
<1> DEFINE own == {i \in 1..Len(log) : log[i].bid = b}
<1>1. Len(log) \in Nat
  BY LenProperties DEF TypeOK
<1>2. Version(b) = IF own = {} THEN 0 ELSE CHOOSE i \in own : \A j \in own : j <= i
  BY DEF Version, VersionAt
<1>3. own \subseteq 1..Len(log)
  OBVIOUS
<1>4. ASSUME own # {}
      PROVE  Version(b) \in own /\ \A j \in own : j <= Version(b)
  <2> HIDE DEF own
  <2>1. \E i \in own : \A j \in own : j <= i
    BY <1>1, <1>3, <1>4, Largest
  <2>2. QED
    BY <1>2, <1>4, <2>1
<1>5. CASE own = {}
  BY <1>1, <1>2, <1>5
<1>6. CASE own # {}
  <2>1. \A i \in own : i \in 1..Len(log) /\ i <= Version(b)
    BY <1>4, <1>6
  <2>2. Version(b) \in 1..Len(log)
    BY <1>4, <1>6
  <2>3. QED
    BY <1>1, <2>1, <2>2
<1>7. QED
  BY <1>5, <1>6

\* Appending to a queue adds one member.
LEMMA MembersAppend ==
  ASSUME NEW S, NEW q \in Seq(S), NEW e \in S
  PROVE  /\ Append(q, e) \in Seq(S)
         /\ Members(Append(q, e)) = Members(q) \cup {e}
<1>1. Len(q) \in Nat
  BY LenProperties
<1>2. Append(q, e) \in Seq(S) /\ Len(Append(q, e)) = Len(q) + 1
  BY AppendProperties
<1>3. \A i \in 1..Len(q) : Append(q, e)[i] = q[i]
  BY AppendProperties
<1>4. Append(q, e)[Len(q) + 1] = e
  BY AppendProperties
<1>5. QED
  BY <1>1, <1>2, <1>3, <1>4 DEF Members

\* Appending two members at once is appending them one after the other.
LEMMA MembersTwice ==
  ASSUME NEW S, NEW q \in Seq(S), NEW d \in S, NEW e \in S
  PROVE  /\ q \o <<d, e>> = Append(Append(q, d), e)
         /\ q \o <<d, e>> \in Seq(S)
         /\ Members(q \o <<d, e>>) = (Members(q) \cup {d}) \cup {e}
<1>1. /\ Append(q, d) \in Seq(S) /\ Len(Append(q, d)) = Len(q) + 1
      /\ \A i \in 1..Len(q) : Append(q, d)[i] = q[i]
      /\ Append(q, d)[Len(q) + 1] = d
  BY AppendProperties
<1>2. /\ Append(Append(q, d), e) \in Seq(S)
      /\ Len(Append(Append(q, d), e)) = Len(q) + 2
      /\ \A i \in 1..(Len(q) + 1) : Append(Append(q, d), e)[i] = Append(q, d)[i]
      /\ Append(Append(q, d), e)[Len(q) + 2] = e
  <2>1. Len(q) \in Nat
    BY LenProperties
  <2>2. QED
    BY <1>1, <2>1, AppendProperties
<1>3. /\ <<d, e>> \in Seq(S) /\ Len(<<d, e>>) = 2 /\ <<d, e>>[1] = d /\ <<d, e>>[2] = e
  OBVIOUS
<1>4. /\ q \o <<d, e>> \in Seq(S) /\ Len(q \o <<d, e>>) = Len(q) + 2
      /\ \A i \in 1..(Len(q) + 2) :
           (q \o <<d, e>>)[i] = IF i <= Len(q) THEN q[i] ELSE <<d, e>>[i - Len(q)]
  BY <1>3, ConcatProperties
<1>5. ASSUME NEW i \in 1..(Len(q) + 2)
      PROVE  (q \o <<d, e>>)[i] = Append(Append(q, d), e)[i]
  <2>0. Len(q) \in Nat
    BY LenProperties
  <2>1. CASE i \in 1..Len(q)
    BY <1>1, <1>2, <1>4, <2>0, <2>1
  <2>2. CASE i = Len(q) + 1
    BY <1>1, <1>2, <1>3, <1>4, <2>0, <2>2
  <2>3. CASE i = Len(q) + 2
    BY <1>2, <1>3, <1>4, <2>0, <2>3
  <2>4. QED
    BY <2>0, <2>1, <2>2, <2>3
<1>6. q \o <<d, e>> = Append(Append(q, d), e)
  BY <1>2, <1>4, <1>5, SeqEqual
<1>7. Members(Append(q, d)) = Members(q) \cup {d}
  BY MembersAppend
<1>8. Members(Append(Append(q, d), e)) = Members(Append(q, d)) \cup {e}
  <2> DEFINE p == Append(q, d)
  <2>1. p \in Seq(S)
    BY <1>1
  <2> HIDE DEF p
  <2>2. Members(Append(p, e)) = Members(p) \cup {e}
    BY <2>1, MembersAppend
  <2>3. QED
    BY <2>2 DEF p
<1>9. QED
  BY <1>4, <1>6, <1>7, <1>8

\* Taking the head of a queue adds no member.
LEMMA MembersTail ==
  ASSUME NEW S, NEW q \in Seq(S), q # <<>>
  PROVE  /\ Tail(q) \in Seq(S)
         /\ Members(Tail(q)) \subseteq Members(q)
         /\ Head(q) \in Members(q) /\ Head(q) \in S
<1>1. Len(q) \in Nat \ {0}
  BY EmptySeq
<1>2. Tail(q) \in Seq(S) /\ Len(Tail(q)) = Len(q) - 1
  BY HeadTailProperties
<1>3. \A i \in 1..Len(Tail(q)) : Tail(q)[i] = q[i+1]
  BY HeadTailProperties
<1>4. Head(q) = q[1]
  OBVIOUS
<1>5. QED
  BY <1>1, <1>2, <1>3, <1>4, ElementOfSeq DEF Members

\* What waits for the main thread are messages.
LEMMA MembersType ==
  ASSUME NEW S, NEW q \in Seq(S), NEW m \in Members(q)
  PROVE  m \in S
BY ElementOfSeq, LenProperties DEF Members

\* A queue stays in order if what is appended follows all that waits.
LEMMA OrderedAppend ==
  ASSUME NEW S, NEW q \in Seq(S), NEW e \in S, Ordered(q), \A m \in Members(q) : Pair(m, e)
  PROVE  Ordered(Append(q, e))
<1>1. Len(q) \in Nat
  BY LenProperties
<1>2. Len(Append(q, e)) = Len(q) + 1
  BY AppendProperties
<1>3. \A i \in 1..Len(q) : Append(q, e)[i] = q[i] /\ q[i] \in Members(q)
  BY AppendProperties DEF Members
<1>4. Append(q, e)[Len(q) + 1] = e
  BY AppendProperties
<1>5. ASSUME NEW i \in 1..(Len(q) + 1), NEW j \in 1..(Len(q) + 1), i < j
      PROVE  Pair(Append(q, e)[i], Append(q, e)[j])
  <2>1. i \in 1..Len(q)
    BY <1>1, <1>5
  <2>2. CASE j = Len(q) + 1
    <3>1. Pair(q[i], e)
      BY <1>3, <2>1
    <3>2. QED
      BY <1>3, <1>4, <2>1, <2>2, <3>1
  <2>3. CASE j \in 1..Len(q)
    <3>1. Pair(q[i], q[j])
      BY <1>5, <2>1, <2>3 DEF Ordered
    <3>2. QED
      BY <1>3, <2>1, <2>3, <3>1
  <2>4. QED
    BY <1>1, <2>2, <2>3
<1>6. QED
  BY <1>2, <1>5 DEF Ordered

\* A queue stays in order when its head is taken, and the head came before the rest.
LEMMA OrderedTail ==
  ASSUME NEW S, NEW q \in Seq(S), q # <<>>, Ordered(q)
  PROVE  /\ Ordered(Tail(q))
         /\ \A m \in Members(Tail(q)) : Pair(Head(q), m)
<1>1. Len(q) \in Nat \ {0}
  BY EmptySeq
<1>2. Len(Tail(q)) = Len(q) - 1
  BY HeadTailProperties
<1>3. \A i \in 1..(Len(q) - 1) : Tail(q)[i] = q[i+1]
  BY <1>2, HeadTailProperties
<1>4. Head(q) = q[1]
  OBVIOUS
<1>5. ASSUME NEW i \in 1..(Len(q) - 1), NEW j \in 1..(Len(q) - 1), i < j
      PROVE  Pair(Tail(q)[i], Tail(q)[j])
  <2>1. Pair(q[i+1], q[j+1])
    BY <1>1, <1>5 DEF Ordered
  <2>2. QED
    BY <1>3, <2>1
<1>6. ASSUME NEW i \in 1..(Len(q) - 1)
      PROVE  Pair(Head(q), Tail(q)[i])
  <2>1. Pair(q[1], q[i+1])
    BY <1>1, <1>6 DEF Ordered
  <2>2. QED
    BY <1>3, <1>4, <2>1
<1>7. QED
  BY <1>2, <1>5, <1>6 DEF Ordered, Members

-----------------------------------------------------------------------------
(* Messages and the fields of the runtime. *)

\* The fields of a worker's message.
LEMMA RealType ==
  ASSUME NEW m \in Messages, m.kind # "loaded"
  PROVE  /\ m.kind \in {"started", "batch", "local", "restored", "lost", "invalid", "unprojected"}
         /\ m.gen \in Nat /\ m.owner \in Nat /\ m.from \in Nat /\ m.to \in Nat /\ m.snap \in Nat
         /\ m.bid \in Bids \cup {NoBid}
BY DEF Messages

\* A message made now is of this session, names the captured owner and is of this moment.
LEMMA MessageType ==
  ASSUME TypeOK,
         NEW k \in {"started", "batch", "local", "restored", "lost", "invalid", "unprojected"},
         NEW m, m = Message(k)
  PROVE  /\ m \in Messages /\ m.kind = k /\ m.gen = rt.gen /\ m.owner = captured
         /\ m.snap = Len(log) /\ m.from = 0 /\ m.to = 0 /\ m.bid = NoBid
<1>1. Len(log) \in Nat /\ rt.gen \in Nat /\ captured \in Nat
  BY LenProperties DEF TypeOK, Runtimes
<1>2. QED
  BY <1>1 DEF Message, Messages

\* The news that a session is lost belongs to the one that will follow.
LEMMA LostType ==
  ASSUME TypeOK, NEW m, m = [Message("lost") EXCEPT !.gen = rt.gen + 1]
  PROVE  /\ m \in Messages /\ m.kind = "lost" /\ m.gen = rt.gen + 1 /\ m.owner = captured
         /\ m.snap = Len(log)
<1>1. Len(log) \in Nat /\ rt.gen \in Nat /\ captured \in Nat
  BY LenProperties DEF TypeOK, Runtimes
<1>2. QED
  BY <1>1 DEF Message, Messages

\* A batch starts at the checkpoint and spans at least one change.
LEMMA BatchType ==
  ASSUME TypeOK, rt.ack < Len(log),
         NEW m, m = [Message("batch") EXCEPT !.from = rt.ack, !.to = Delivered]
  PROVE  /\ m \in Messages /\ m.kind = "batch" /\ m.gen = rt.gen /\ m.owner = captured
         /\ m.snap = Len(log) /\ m.from = rt.ack /\ m.from < m.to /\ m.to <= Len(log)
<1>1. Len(log) \in Nat /\ rt.gen \in Nat /\ captured \in Nat /\ rt.ack \in Nat
  BY LenProperties DEF TypeOK, Runtimes
<1>2. Delivered \in Nat /\ rt.ack < Delivered /\ Delivered <= Len(log)
  BY <1>1, LimitAssumption DEF Delivered
<1>3. QED
  BY <1>1, <1>2 DEF Message, Messages

\* The result of a write names its bid and its position.
LEMMA LocalType ==
  ASSUME TypeOK, draft.bid \in Bids,
         NEW m, m = [Message("local") EXCEPT !.bid = draft.bid, !.to = draft.base]
  PROVE  /\ m \in Messages /\ m.kind = "local" /\ m.gen = rt.gen /\ m.owner = captured
         /\ m.snap = Len(log) /\ m.to = draft.base /\ m.bid = draft.bid
<1>1. Len(log) \in Nat /\ rt.gen \in Nat /\ captured \in Nat /\ draft.base \in Nat
  BY LenProperties DEF TypeOK, Runtimes
<1>2. QED
  BY <1>1 DEF Message, Messages

\* What a reset leaves of the runtime.
LEMMA ResetFields ==
  ASSUME TypeOK, NEW r, r = Reset
  PROVE  /\ r \in Runtimes /\ r.gen = rt.gen + 1 /\ r.session = FALSE /\ r.ready = FALSE
         /\ r.ack = rt.ack
<1>1. rt \in Runtimes
  BY DEF TypeOK
<1>2. rt.gen + 1 \in Nat
  BY <1>1 DEF Runtimes
<1>3. /\ r.gen = rt.gen + 1 /\ r.session = FALSE /\ r.ready = FALSE
      /\ r.ack = rt.ack
  BY <1>1 DEF Reset, Runtimes
<1>4. r \in Runtimes
  BY <1>1, <1>2 DEF Reset, Runtimes
<1>5. QED
  BY <1>3, <1>4

\* A required recovery leaves the session, and stops deliveries.
LEMMA ReconcilingFields ==
  ASSUME NEW r \in Runtimes, NEW q, q = Reconciling(r)
  PROVE  /\ q \in Runtimes /\ q.gen = r.gen /\ q.ack = r.ack /\ q.session = r.session
         /\ q.ready = r.ready /\ q.recReq = TRUE
         /\ r.pending => q.pending
<1>1. CASE r.recReq
  BY <1>1 DEF Reconciling, Runtimes
<1>2. CASE ~r.recReq
  BY <1>2 DEF Reconciling, Runtimes
<1>3. QED
  BY <1>1, <1>2

\* So does a recovery because the bid was replaced.
LEMMA ReplacedFields ==
  ASSUME NEW r \in Runtimes, NEW q, q = Replaced(r)
  PROVE  /\ q \in Runtimes /\ q.gen = r.gen /\ q.ack = r.ack /\ q.session = r.session
         /\ q.ready = r.ready /\ q.recReq = TRUE
         /\ r.pending => q.pending
<1>1. CASE r.recReq
  BY <1>1, ReconcilingFields DEF Replaced
<1>2. CASE ~r.recReq
  <2> DEFINE p == [r EXCEPT !.recTried = FALSE]
  <2>1. /\ p \in Runtimes /\ p.gen = r.gen /\ p.ack = r.ack /\ p.session = r.session
        /\ p.ready = r.ready /\ p.pending = r.pending
    BY DEF Runtimes
  <2>2. q = Reconciling(p)
    BY <1>2 DEF Replaced
  <2> HIDE DEF p
  <2>3. QED
    BY <2>1, <2>2, ReconcilingFields
<1>3. QED
  BY <1>1, <1>2

\* The arrival of a session's start makes the session ready.
LEMMA ReadyFields ==
  ASSUME NEW r \in Runtimes, NEW q, q = [r EXCEPT !.ready = TRUE]
  PROVE  /\ q \in Runtimes /\ q.gen = r.gen /\ q.ack = r.ack /\ q.session = r.session
         /\ q.ready = TRUE /\ q.recReq = r.recReq /\ q.pending = r.pending
BY DEF Runtimes

-----------------------------------------------------------------------------
(* Every action keeps the types. *)

\* The handling of a message takes the head of the queue.
LEMMA ReceiveType ==
  ASSUME Shaped, NEW k, Receive(k)
  PROVE  /\ inbox # <<>> /\ inbox' = Tail(inbox) /\ inbox' \in Seq(Messages)
         /\ Members(inbox') \subseteq Members(inbox)
         /\ Head(inbox) \in Members(inbox) /\ Head(inbox) \in Messages /\ Head(inbox).kind = k
         /\ \A m \in Members(inbox') : m.kind = "local" => m.bid \in Bids
<1>1. inbox \in Seq(Messages) /\ inbox # <<>> /\ inbox' = Tail(inbox) /\ Head(inbox).kind = k
  BY DEF Receive, Shaped, TypeOK
<1>2. /\ Tail(inbox) \in Seq(Messages) /\ Members(Tail(inbox)) \subseteq Members(inbox)
      /\ Head(inbox) \in Members(inbox) /\ Head(inbox) \in Messages
  BY <1>1, MembersTail
<1>3. QED
  BY <1>1, <1>2 DEF Shaped, Shapes

\* The posting of a message adds it to the queue.
LEMMA PostType ==
  ASSUME Shaped, NEW e \in Messages, e.kind = "local" => e.bid \in Bids, Post(e)
  PROVE  /\ inbox' = Append(inbox, e) /\ inbox' \in Seq(Messages)
         /\ Members(inbox') = Members(inbox) \cup {e}
         /\ \A m \in Members(inbox') : m.kind = "local" => m.bid \in Bids
<1>1. inbox \in Seq(Messages) /\ inbox' = Append(inbox, e)
  BY DEF Post, Shaped, TypeOK
<1>2. Append(inbox, e) \in Seq(Messages) /\ Members(Append(inbox, e)) = Members(inbox) \cup {e}
  BY <1>1, MembersAppend
<1>3. QED
  BY <1>1, <1>2 DEF Shaped, Shapes

\* A new change is well-typed and changes nothing before it.
LEMMA RecordType ==
  ASSUME TypeOK, NEW b \in Bids, NEW by \in Nat, Record(b, by)
  PROVE  /\ log' \in Seq(Changes) /\ Len(log') = Len(log) + 1 /\ Len(log) \in Nat
         /\ \A i \in 1..Len(log) : log'[i] = log[i]
         /\ log'[Len(log) + 1] = [bid |-> b, by |-> by]
         /\ oldest \in 0..Len(log')
<1>1. log \in Seq(Changes) /\ Len(log) \in Nat
  BY LenProperties DEF TypeOK
<1>2. [bid |-> b, by |-> by] \in Changes
  BY DEF Changes
<1>3. log' = Append(log, [bid |-> b, by |-> by])
  BY DEF Record
<1>4. /\ log' \in Seq(Changes) /\ Len(log') = Len(log) + 1
      /\ \A i \in 1..Len(log) : log'[i] = log[i]
      /\ log'[Len(log) + 1] = [bid |-> b, by |-> by]
  BY <1>1, <1>2, <1>3, AppendProperties
<1>5. QED
  BY <1>1, <1>4 DEF TypeOK

\* The versions of a bid that is loaded on demand.
LEMMA EnsureType ==
  ASSUME TypeOK, NEW b \in Bids, EnsureLoaded(b)
  PROVE  tokens' \in [Bids -> Nat] /\ loaded' \subseteq Bids
<1>1. Version(b) \in Nat
  BY VersionIsLast, LenProperties DEF TypeOK
<1>2. QED
  BY <1>1 DEF EnsureLoaded, TypeOK

\* The last change of a batch to a bid.
LEMMA LastForeign ==
  ASSUME NEW m, m.from \in Nat, m.to \in Nat, NEW b, ForeignTo(m, b) # {},
         NEW l, l = CHOOSE i \in ForeignTo(m, b) : \A j \in ForeignTo(m, b) : j <= i
  PROVE  l \in ForeignTo(m, b) /\ l \in Nat /\ \A j \in ForeignTo(m, b) : j <= l
<1>1. ForeignTo(m, b) \subseteq 1..m.to
  BY DEF ForeignTo, Foreign
<1>2. \E i \in ForeignTo(m, b) : \A j \in ForeignTo(m, b) : j <= i
  BY <1>1, Largest
<1>3. l \in ForeignTo(m, b) /\ \A j \in ForeignTo(m, b) : j <= l
  BY <1>2
<1>4. QED
  BY <1>1, <1>3

\* The names of nothing have their types.
LEMMA NothingType ==
  /\ NoDraft \in [bid : Bids \cup {NoBid}, base : Nat]
  /\ NoNav \in [step : {"idle", "versions", "data", "read", "posted"}, bid : Bids \cup {NoBid},
                version : Nat, snap : Nat, wanted : BOOLEAN]
  /\ NoNav.step = "idle" /\ NothingFetched \notin Messages /\ NoBatch \notin Messages
BY DEF NoDraft, NoNav, NothingFetched, NoBatch, Messages

\* Faults are bounded.
LEMMA FaultType == TypeOK /\ Fault => faults' \in 0..MaxFaults
BY BoundsAssumption DEF TypeOK, Fault

\* The tables start well-typed.
LEMMA InitType == Init => Shaped
<1> SUFFICES ASSUME Init PROVE Shaped
  OBVIOUS
<1>1. log \in Seq(Changes) /\ Len(log) = 0 /\ inbox \in Seq(Messages)
  BY EmptySeq DEF Init
<1>2. Members(inbox) = {}
  BY EmptySeq DEF Init, Members
<1>3. rt \in Runtimes
  BY DEF Init, Runtimes
<1>4. TypeOK
  <2>1. oldest \in 0..Len(log) /\ loads \in 0..MaxLoads /\ faults \in 0..MaxFaults
    BY <1>1, BoundsAssumption DEF Init
  <2>2. tokens \in [Bids -> Nat]
    BY DEF Init
  <2>3. captured \in Nat /\ owner \in Nat /\ content \in Nat
    BY DEF Init
  <2>4. QED
    BY <1>1, <1>3, <2>1, <2>2, <2>3, NothingType DEF Init, TypeOK
<1>5. Shapes
  BY <1>2, NothingType DEF Init, Shapes
<1>6. QED
  BY <1>4, <1>5 DEF Shaped

\* The server's steps break no type.
LEMMA ServerType ==
  ASSUME Shaped, ServerStep
  PROVE  Shaped'
<1>1. CASE TrimHistory
  <2>1. Len(log) \in Nat
    BY LenProperties DEF Shaped, TypeOK
  <2>2. TypeOK'
    BY <1>1, <2>1, BoundsAssumption DEF TrimHistory, Fault, Shaped, TypeOK, worker, view, cache
  <2>3. Shapes'
    BY <1>1 DEF TrimHistory, Shaped, Shapes, worker
  <2>4. QED
    BY <2>2, <2>3 DEF Shaped
<1>2. CASE \E b \in Bids : OtherCommit(b)
  <2>1. PICK b \in Bids : OtherCommit(b)
    BY <1>2
  <2>2. log' \in Seq(Changes) /\ oldest \in 0..Len(log')
    BY <2>1, RecordType DEF OtherCommit, Shaped
  <2>3. TypeOK'
    BY <2>1, <2>2 DEF OtherCommit, Shaped, TypeOK, worker, view, cache
  <2>4. Shapes'
    BY <2>1 DEF OtherCommit, Shaped, Shapes, worker
  <2>5. QED
    BY <2>3, <2>4 DEF Shaped
<1>3. QED
  BY <1>1, <1>2 DEF ServerStep

\* The steps of a session's life break no type.
LEMMA SessionType ==
  ASSUME Shaped,
         \/ LoseSession \/ LeaveSession \/ StartSession \/ LoadDatabase \/ CaptureOwner
         \/ Hydrate \/ Deliver
  PROVE  Shaped'
<1>t. TypeOK /\ Shapes /\ Len(log) \in Nat /\ rt \in Runtimes
  BY LenProperties DEF Shaped, TypeOK
<1>1. CASE LoseSession
  <2> DEFINE e == [Message("lost") EXCEPT !.gen = rt.gen + 1]
  <2>1. e \in Messages /\ e.kind = "lost"
    BY <1>t, LostType
  <2>2. Post(e)
    BY <1>1 DEF LoseSession
  <2> HIDE DEF e
  <2>3. inbox' \in Seq(Messages) /\ \A m \in Members(inbox') : m.kind = "local" => m.bid \in Bids
    BY <2>1, <2>2, PostType
  <2>4. rt' \in Runtimes
    BY <1>1, <1>t, ResetFields DEF LoseSession
  <2>5. TypeOK'
    BY <1>1, <1>t, <2>3, <2>4, NothingType, FaultType
       DEF LoseSession, Go, TypeOK, server, view, cache
  <2>6. Shapes'
    BY <1>1, <1>t, <2>3 DEF LoseSession, Go, Shapes
  <2>7. QED
    BY <2>5, <2>6 DEF Shaped
<1>2. CASE LeaveSession
  <2>1. rt' \in Runtimes
    BY <1>2, <1>t, ResetFields DEF LeaveSession
  <2>2. TypeOK'
    BY <1>2, <1>t, <2>1 DEF LeaveSession, TypeOK, server, worker, view, cache
  <2>3. Shapes'
    BY <1>2, <1>t DEF LeaveSession, Shapes, worker
  <2>4. QED
    BY <2>2, <2>3 DEF Shaped
<1>3. CASE StartSession
  <2>1. rt' \in Runtimes
    <3>1. rt.gen + 1 \in Nat
      BY <1>t DEF Runtimes
    <3>2. QED
      BY <1>3, <1>t, <3>1 DEF StartSession, Runtimes
  <2>2. TypeOK'
    BY <1>3, <1>t, <2>1 DEF StartSession, Go, TypeOK, server, view, cache
  <2>3. Shapes'
    BY <1>3, <1>t DEF StartSession, Go, Shapes
  <2>4. QED
    BY <2>2, <2>3 DEF Shaped
<1>4. CASE LoadDatabase
  <2>1. TypeOK'
    BY <1>4, <1>t DEF LoadDatabase, Go, TypeOK, server, view
  <2>2. Shapes'
    BY <1>4, <1>t DEF LoadDatabase, Go, Shapes
  <2>3. QED
    BY <2>1, <2>2 DEF Shaped
<1>5. CASE CaptureOwner
  <2>1. TypeOK'
    BY <1>5, <1>t DEF CaptureOwner, Go, TypeOK, server, view, cache
  <2>2. Shapes'
    BY <1>5, <1>t DEF CaptureOwner, Go, Shapes
  <2>3. QED
    BY <2>1, <2>2 DEF Shaped
<1>6. CASE Hydrate
  <2>1. fetched' \in Messages /\ fetched'.kind = "started" /\ pc' = "deliver"
    BY <1>6, <1>t, MessageType DEF Hydrate, Fetch, Go
  <2>2. TypeOK'
    BY <1>6, <1>t, <2>1 DEF Hydrate, TypeOK, server, view, cache
  <2>3. Shapes'
    BY <1>6, <1>t, <2>1 DEF Hydrate, Shapes, Sequel
  <2>4. QED
    BY <2>2, <2>3 DEF Shaped
<1>7. CASE Deliver
  <2>1. /\ fetched \in Messages /\ fetched.kind \in {"started", "local", "batch", "invalid"}
        /\ fetched.kind = "local" => fetched.bid \in Bids
    BY <1>7, <1>t DEF Deliver, Shapes, Sequel
  <2>2. inbox' \in Seq(Messages) /\ \A m \in Members(inbox') : m.kind = "local" => m.bid \in Bids
    BY <1>7, <2>1, PostType DEF Deliver
  <2>3. pc' \in {"await", "mark", "check"}
    BY <1>7, <2>1 DEF Deliver, Go, Sequel
  <2>4. rt' \in Runtimes
    <3>1. (rt.pending \/ fetched.kind \in {"batch", "invalid"}) \in BOOLEAN
      OBVIOUS
    <3>2. rt' = [rt EXCEPT !.pending = (rt.pending \/ fetched.kind \in {"batch", "invalid"})]
      BY <1>7 DEF Deliver
    <3>3. QED
      BY <1>t, <3>1, <3>2 DEF Runtimes
  <2>5. TypeOK'
    BY <1>7, <1>t, <2>2, <2>3, <2>4 DEF Deliver, NothingFetched, TypeOK, server, view, cache
  <2>6. Shapes'
    BY <1>7, <1>t, <2>2, <2>3 DEF Deliver, Shapes
  <2>7. QED
    BY <2>5, <2>6 DEF Shaped
<1>8. QED
  BY <1>1, <1>2, <1>3, <1>4, <1>5, <1>6, <1>7

\* The steps of a write break no type.
LEMMA WriteType ==
  ASSUME Shaped,
         \/ (\E b \in Bids : BeginWrite(b)) \/ RefuseWrite \/ Write \/ LoseWrite
         \/ ReadBack \/ ReadBackFails
  PROVE  Shaped'
<1>t. TypeOK /\ Shapes /\ Len(log) \in Nat /\ rt \in Runtimes /\ rt.gen \in Nat
  BY LenProperties DEF Shaped, TypeOK, Runtimes
<1>1. CASE \E b \in Bids : BeginWrite(b)
  <2>1. PICK b \in Bids : BeginWrite(b)
    BY <1>1
  <2>2. tokens' \in [Bids -> Nat] /\ loaded' \subseteq Bids
    BY <1>t, <2>1, EnsureType DEF BeginWrite
  <2>3. draft' \in [bid : Bids \cup {NoBid}, base : Nat] /\ draft'.bid \in Bids
    BY <2>1, <2>2 DEF BeginWrite
  <2>4. TypeOK'
    BY <1>t, <2>1, <2>2, <2>3 DEF BeginWrite, Go, TypeOK, server, view
  <2>5. Shapes'
    BY <1>t, <2>1, <2>3 DEF BeginWrite, Go, Shapes
  <2>6. QED
    BY <2>4, <2>5 DEF Shaped
<1>2. CASE RefuseWrite
  <2>1. TypeOK'
    BY <1>2, <1>t, NothingType DEF RefuseWrite, Go, TypeOK, server, view, cache
  <2>2. Shapes'
    BY <1>2, <1>t DEF RefuseWrite, Go, Shapes
  <2>3. QED
    BY <2>1, <2>2 DEF Shaped
<1>3. CASE Write
  <2>1. draft.bid \in Bids /\ Record(draft.bid, rt.gen)
    BY <1>3, <1>t DEF Write, Shapes
  <2>2. log' \in Seq(Changes) /\ oldest \in 0..Len(log')
    BY <1>t, <2>1, RecordType
  <2>3. /\ draft' \in [bid : Bids \cup {NoBid}, base : Nat] /\ draft'.bid \in Bids
    <3>1. Len(log) + 1 \in Nat
      BY <1>t
    <3>2. QED
      BY <1>3, <1>t, <2>1, <3>1 DEF Write, TypeOK
  <2>4. tokens' \in [Bids -> Nat]
    BY <1>3, <1>t, <2>1 DEF Write, TypeOK
  <2>5. TypeOK'
    BY <1>3, <1>t, <2>2, <2>3, <2>4 DEF Write, Go, TypeOK, view
  <2>6. Shapes'
    BY <1>3, <1>t, <2>3 DEF Write, Go, Shapes
  <2>7. QED
    BY <2>5, <2>6 DEF Shaped
<1>4. CASE LoseWrite
  <2> DEFINE e == [Message("lost") EXCEPT !.gen = rt.gen + 1]
  <2>1. e \in Messages /\ e.kind = "lost"
    BY <1>t, LostType
  <2>2. Post(e)
    BY <1>4 DEF LoseWrite
  <2> HIDE DEF e
  <2>3. inbox' \in Seq(Messages) /\ \A m \in Members(inbox') : m.kind = "local" => m.bid \in Bids
    BY <2>1, <2>2, PostType
  <2>4. rt' \in Runtimes
    BY <1>4, <1>t, ResetFields DEF LoseWrite
  <2>5. draft.bid \in Bids /\ Record(draft.bid, rt.gen)
    BY <1>4, <1>t DEF LoseWrite, Shapes
  <2>6. log' \in Seq(Changes) /\ oldest \in 0..Len(log')
    BY <1>t, <2>5, RecordType
  <2>7. TypeOK'
    BY <1>4, <1>t, <2>3, <2>4, <2>6, NothingType, FaultType
       DEF LoseWrite, Go, TypeOK, view, cache
  <2>8. Shapes'
    BY <1>4, <1>t, <2>3 DEF LoseWrite, Go, Shapes
  <2>9. QED
    BY <2>7, <2>8 DEF Shaped
<1>5. CASE ReadBack
  <2>1. draft.bid \in Bids /\ draft.base \in Nat
    BY <1>5, <1>t DEF ReadBack, Shapes, TypeOK
  <2> DEFINE e == [Message("local") EXCEPT !.bid = draft.bid, !.to = draft.base]
  <2>2. e \in Messages /\ e.kind = "local" /\ e.bid \in Bids
    BY <1>t, <2>1, LocalType
  <2>3. fetched' = e
    BY <1>5 DEF ReadBack, Fetch
  <2> HIDE DEF e
  <2>4. TypeOK'
    BY <1>5, <1>t, <2>2, <2>3, NothingType DEF ReadBack, Fetch, Go, TypeOK, server, view, cache
  <2>5. Shapes'
    BY <1>5, <1>t, <2>2, <2>3 DEF ReadBack, Fetch, Go, Shapes, Sequel
  <2>6. QED
    BY <2>4, <2>5 DEF Shaped
<1>6. CASE ReadBackFails
  <2> DEFINE e == [Message("lost") EXCEPT !.gen = rt.gen + 1]
             u == Message("unprojected")
  <2>1. e \in Messages /\ e.kind = "lost" /\ u \in Messages /\ u.kind = "unprojected"
    BY <1>t, LostType, MessageType
  <2>2. inbox' = inbox \o <<u, e>>
    BY <1>6 DEF ReadBackFails
  <2> HIDE DEF e, u
  <2>3. /\ inbox' \in Seq(Messages) /\ Members(inbox') = (Members(inbox) \cup {u}) \cup {e}
    BY <1>t, <2>1, <2>2, MembersTwice DEF TypeOK
  <2>4. \A m \in Members(inbox') : m.kind = "local" => m.bid \in Bids
    BY <1>t, <2>1, <2>3 DEF Shapes
  <2>5. rt' \in Runtimes
    BY <1>6, <1>t, ResetFields DEF ReadBackFails
  <2>6. TypeOK'
    BY <1>6, <1>t, <2>3, <2>5, NothingType, FaultType
       DEF ReadBackFails, Go, TypeOK, server, view, cache
  <2>7. Shapes'
    BY <1>6, <1>t, <2>4 DEF ReadBackFails, Go, Shapes
  <2>8. QED
    BY <2>6, <2>7 DEF Shaped
<1>7. QED
  BY <1>1, <1>2, <1>3, <1>4, <1>5, <1>6

\* The steps of a poll break no type.
LEMMA FeedType ==
  ASSUME Shaped, BeginPoll \/ Poll \/ Check
  PROVE  Shaped'
<1>t. TypeOK /\ Shapes /\ Len(log) \in Nat /\ rt \in Runtimes /\ rt.ack \in Nat
  BY LenProperties DEF Shaped, TypeOK, Runtimes
<1>1. CASE BeginPoll
  <2>1. pc' \in {"check", "poll"} /\ captured' \in {captured, owner}
    BY <1>1 DEF BeginPoll, Go
  <2>2. TypeOK'
    BY <1>1, <1>t, <2>1 DEF BeginPoll, TypeOK, server, view, cache
  <2>3. Shapes'
    BY <1>1, <1>t, <2>1 DEF BeginPoll, Shapes
  <2>4. QED
    BY <2>2, <2>3 DEF Shaped
<1>2. CASE Poll
  <2>1. rt' \in Runtimes
    BY <1>2, <1>t DEF Poll, Runtimes
  <2>2. \/ pc' = "check" /\ fetched' = fetched
        \/ pc' = "deliver" /\ fetched' \in Messages /\ fetched'.kind \in {"batch", "invalid"}
    <3>1. CASE Fetch(Message("invalid"))
      BY <1>t, <3>1, MessageType DEF Fetch, Go
    <3>2. CASE Go("check") /\ UNCHANGED fetched
      BY <3>2 DEF Go
    <3>3. CASE /\ rt.ack < Len(log)
               /\ Fetch([Message("batch") EXCEPT !.from = rt.ack, !.to = Delivered])
      <4> DEFINE e == [Message("batch") EXCEPT !.from = rt.ack, !.to = Delivered]
      <4>1. e \in Messages /\ e.kind = "batch"
        BY <1>t, <3>3, BatchType
      <4> HIDE DEF e
      <4>2. fetched' = e /\ pc' = "deliver"
        BY <3>3 DEF Fetch, Go, e
      <4>3. QED
        BY <4>1, <4>2
    <3>4. QED
      BY <1>2, <3>1, <3>2, <3>3 DEF Poll
  <2>3. TypeOK'
    BY <1>2, <1>t, <2>1, <2>2 DEF Poll, TypeOK, server, view, cache
  <2>4. Shapes'
    BY <1>2, <1>t, <2>2 DEF Poll, Shapes, Sequel
  <2>5. QED
    BY <2>3, <2>4 DEF Shaped
<1>3. CASE Check
  <2> DEFINE e == Message("restored")
             caughtUp == ~rt.pending /\ rt.ack >= rt.high
  <2>1. e \in Messages /\ e.kind = "restored"
    BY <1>t, MessageType
  <2>2. \/ /\ rt' = [rt EXCEPT !.healthy = TRUE, !.announced = TRUE, !.recTried = FALSE]
           /\ Post(e)
        \/ rt' = [rt EXCEPT !.healthy = caughtUp] /\ inbox' = inbox
    BY <1>3 DEF Check
  <2>3. caughtUp \in BOOLEAN
    OBVIOUS
  <2> HIDE DEF e, caughtUp
  <2>4. inbox' \in Seq(Messages) /\ \A m \in Members(inbox') : m.kind = "local" => m.bid \in Bids
    BY <1>t, <2>1, <2>2, PostType DEF TypeOK, Shapes
  <2>5. rt' \in Runtimes
    BY <1>t, <2>2, <2>3 DEF Runtimes
  <2>6. TypeOK'
    BY <1>3, <1>t, <2>4, <2>5 DEF Check, Go, TypeOK, server, view, cache
  <2>7. Shapes'
    BY <1>3, <1>t, <2>4 DEF Check, Go, Shapes
  <2>8. QED
    BY <2>6, <2>7 DEF Shaped
<1>4. QED
  BY <1>1, <1>2, <1>3

\* A required recovery breaks no type.
LEMMA RecoveryType ==
  ASSUME TypeOK, NEW r \in Runtimes,
         \/ RequireRecovery(Reconciling(r)) \/ RequireRecovery(Replaced(r))
         \/ RequireRecovery([Reconciling(r) EXCEPT !.ready = TRUE])
         \/ RequireRecovery([Replaced(r) EXCEPT !.ready = TRUE])
  PROVE  rt' \in Runtimes /\ editable' \in BOOLEAN
<1>1. editable' \in BOOLEAN
  BY DEF RequireRecovery, TypeOK
<1>2. Reconciling(r) \in Runtimes /\ Replaced(r) \in Runtimes
  BY ReconcilingFields, ReplacedFields
<1>3. /\ [Reconciling(r) EXCEPT !.ready = TRUE] \in Runtimes
      /\ [Replaced(r) EXCEPT !.ready = TRUE] \in Runtimes
  BY <1>2, ReadyFields
<1>4. rt' \in {Reconciling(r), Replaced(r), [Reconciling(r) EXCEPT !.ready = TRUE],
               [Replaced(r) EXCEPT !.ready = TRUE]}
  BY DEF RequireRecovery
<1>5. QED
  BY <1>1, <1>2, <1>3, <1>4

\* The handling of a session's start and of its changes of state breaks no type.
LEMMA HandleSessionType ==
  ASSUME Shaped,
         \/ HandleStarted \/ HandleStartedFailure \/ HandleRestored \/ HandleLost
         \/ HandleInvalid \/ HandleStale \/ Refresh
  PROVE  Shaped'
<1>t. TypeOK /\ Shapes /\ rt \in Runtimes
  BY DEF Shaped, TypeOK
<1>1. CASE HandleStarted
  <2>1. /\ inbox' \in Seq(Messages) /\ Head(inbox) \in Messages /\ Head(inbox).kind = "started"
        /\ \A m \in Members(inbox') : m.kind = "local" => m.bid \in Bids
    BY <1>1, ReceiveType DEF HandleStarted
  <2>2. Head(inbox).snap \in Nat
    BY <2>1, RealType
  <2>3. rt' \in Runtimes /\ editable' \in BOOLEAN /\ content' \in Nat
    <3>1. CASE OwnerCurrent(Head(inbox))
      <4>1. /\ rt' = [rt EXCEPT !.healthy = FALSE, !.ready = TRUE] /\ editable' = FALSE
            /\ content' = IF active = NoBid THEN content ELSE Head(inbox).snap
        BY <1>1, <3>1 DEF HandleStarted
      <4>2. QED
        BY <1>t, <2>2, <4>1 DEF Runtimes, TypeOK
    <3>2. CASE ~OwnerCurrent(Head(inbox))
      <4>1. RequireRecovery([Replaced(rt) EXCEPT !.ready = TRUE]) /\ UNCHANGED content
        BY <1>1, <3>2 DEF HandleStarted
      <4>2. QED
        BY <1>t, <4>1, RecoveryType DEF TypeOK
    <3>3. QED
      BY <3>1, <3>2
  <2>4. TypeOK'
    BY <1>1, <1>t, <2>1, <2>3 DEF HandleStarted, TypeOK, server, worker, cache
  <2>5. Shapes'
    BY <1>1, <1>t, <2>1 DEF HandleStarted, Shapes, worker
  <2>6. QED
    BY <2>4, <2>5 DEF Shaped
<1>2. CASE HandleStartedFailure
  <2>1. /\ inbox' \in Seq(Messages)
        /\ \A m \in Members(inbox') : m.kind = "local" => m.bid \in Bids
    BY <1>2, ReceiveType DEF HandleStartedFailure
  <2>2. rt' \in Runtimes /\ editable' \in BOOLEAN
    BY <1>2, <1>t, RecoveryType DEF HandleStartedFailure
  <2>3. TypeOK'
    BY <1>2, <1>t, <2>1, <2>2, FaultType, SMTT(30)
       DEF HandleStartedFailure, TypeOK, server, worker, view, cache
  <2>4. Shapes'
    BY <1>2, <1>t, <2>1 DEF HandleStartedFailure, Shapes, worker
  <2>5. QED
    BY <2>3, <2>4 DEF Shaped
<1>3. CASE HandleRestored \/ HandleLost
  <2>1. /\ inbox' \in Seq(Messages)
        /\ \A m \in Members(inbox') : m.kind = "local" => m.bid \in Bids
    BY <1>3, ReceiveType DEF HandleRestored, HandleLost
  <2>2. TypeOK'
    BY <1>3, <1>t, <2>1
       DEF HandleRestored, HandleLost, TypeOK, server, worker, view, cache
  <2>3. Shapes'
    BY <1>3, <1>t, <2>1 DEF HandleRestored, HandleLost, Shapes, worker
  <2>4. QED
    BY <2>2, <2>3 DEF Shaped
<1>4. CASE HandleInvalid
  <2>1. /\ inbox' \in Seq(Messages)
        /\ \A m \in Members(inbox') : m.kind = "local" => m.bid \in Bids
    BY <1>4, ReceiveType DEF HandleInvalid
  <2>2. rt' \in Runtimes /\ editable' \in BOOLEAN
    BY <1>4, <1>t, RecoveryType DEF HandleInvalid
  <2>3. TypeOK'
    BY <1>4, <1>t, <2>1, <2>2 DEF HandleInvalid, TypeOK, server, worker, view, cache
  <2>4. Shapes'
    BY <1>4, <1>t, <2>1 DEF HandleInvalid, Shapes, worker
  <2>5. QED
    BY <2>3, <2>4 DEF Shaped
<1>5. CASE HandleStale
  <2>1. /\ inbox' \in Seq(Messages)
        /\ \A m \in Members(inbox') : m.kind = "local" => m.bid \in Bids
    BY <1>5, ReceiveType DEF HandleStale
  <2>2. TypeOK'
    BY <1>5, <1>t, <2>1 DEF HandleStale, TypeOK, server, worker, view, cache
  <2>3. Shapes'
    BY <1>5, <1>t, <2>1 DEF HandleStale, Shapes, worker
  <2>4. QED
    BY <2>2, <2>3 DEF Shaped
<1>6. CASE Refresh
  <2>1. rt' \in Runtimes
    <3>1. rt' = [rt EXCEPT !.recTried = TRUE, !.recReady = TRUE]
      BY <1>6 DEF Refresh
    <3>2. QED
      BY <1>t, <3>1 DEF Runtimes
  <2>2. TypeOK'
    <3>1. editable' = FALSE
          /\ UNCHANGED <<server, worker, inbox, projecting, view, loads, nav, cache, faults>>
      BY <1>6 DEF Refresh
    <3>2. editable' \in BOOLEAN
      BY <3>1
    <3>3. UNCHANGED <<server, worker, inbox, projecting, view, loads, nav, cache, faults>>
      BY <3>1
    <3>4. QED
      BY <1>t, <2>1, <3>2, <3>3 DEF TypeOK, server, worker, view, cache
  <2>3. Shapes'
    BY <1>6, <1>t DEF Refresh, Shapes, worker
  <2>4. QED
    BY <2>2, <2>3 DEF Shaped
<1>7. QED
  BY <1>1, <1>2, <1>3, <1>4, <1>5, <1>6

\* The projection of batches and of local writes breaks no type.
LEMMA ProjectionType ==
  ASSUME Shaped,
         \/ HandleBatch \/ HandleBatchFailure \/ FinishBatch \/ FinishBatchFailure
         \/ FinishStale \/ HandleLocal \/ HandleUnprojected
  PROVE  Shaped'
<1>t. TypeOK /\ Shapes /\ rt \in Runtimes
  BY DEF Shaped, TypeOK
<1>1. CASE HandleBatch
  <2> DEFINE m == Head(inbox)
             last(b) == CHOOSE i \in ForeignTo(m, b) : \A j \in ForeignTo(m, b) : j <= i
  <2>1. /\ inbox' \in Seq(Messages) /\ m \in Messages /\ m.kind = "batch"
        /\ \A n \in Members(inbox') : n.kind = "local" => n.bid \in Bids
    BY <1>1, ReceiveType DEF HandleBatch
  <2>2. m.snap \in Nat /\ m.from \in Nat /\ m.to \in Nat
    BY <2>1, RealType
  <2>3. \/ /\ OwnerCurrent(m)
           /\ content' = IF active # NoBid /\ ForeignTo(m, active) # {} THEN m.snap ELSE content
           /\ tokens' = [b \in Bids |-> IF ForeignTo(m, b) # {} THEN last(b) ELSE tokens[b]]
           /\ projecting' = m /\ UNCHANGED <<rt, editable>>
        \/ /\ RequireRecovery(Replaced(rt)) /\ UNCHANGED <<content, tokens, projecting>>
    BY <1>1 DEF HandleBatch
  <2>4. \A b \in Bids : ForeignTo(m, b) # {} => last(b) \in Nat
    <3> HIDE DEF m
    <3>1. QED
      BY <2>2, LastForeign
  <2> HIDE DEF m, last
  <2>5. /\ rt' \in Runtimes /\ editable' \in BOOLEAN /\ content' \in Nat
        /\ tokens' \in [Bids -> Nat] /\ projecting' \in Messages \cup {NoBatch}
        /\ projecting' # NoBatch => projecting'.kind = "batch"
    <3>1. CASE RequireRecovery(Replaced(rt)) /\ UNCHANGED <<content, tokens, projecting>>
      BY <1>t, <3>1, RecoveryType DEF TypeOK, Shapes
    <3>2. CASE /\ content' = IF active # NoBid /\ ForeignTo(m, active) # {} THEN m.snap ELSE content
               /\ tokens' = [b \in Bids |-> IF ForeignTo(m, b) # {} THEN last(b) ELSE tokens[b]]
               /\ projecting' = m /\ UNCHANGED <<rt, editable>>
      BY <1>t, <2>1, <2>2, <2>4, <3>2 DEF TypeOK
    <3>3. QED
      BY <2>3, <3>1, <3>2
  <2>6. TypeOK'
    BY <1>1, <1>t, <2>1, <2>5 DEF HandleBatch, TypeOK, server, worker
  <2>7. Shapes'
    BY <1>1, <1>t, <2>1, <2>5 DEF HandleBatch, Shapes, worker
  <2>8. QED
    BY <2>6, <2>7 DEF Shaped
<1>2. CASE HandleBatchFailure
  <2>1. /\ inbox' \in Seq(Messages)
        /\ \A m \in Members(inbox') : m.kind = "local" => m.bid \in Bids
    BY <1>2, ReceiveType DEF HandleBatchFailure
  <2>2. rt' \in Runtimes /\ editable' \in BOOLEAN
    <3>1. CASE RequireRecovery(Reconciling(rt))
      BY <1>t, <3>1, RecoveryType
    <3>2. CASE /\ rt' = [rt EXCEPT !.healthy = FALSE, !.pending = TRUE, !.recReq = TRUE,
                                   !.recReady = FALSE]
               /\ editable' = FALSE
      BY <1>t, <3>2 DEF Runtimes
    <3>3. QED
      BY <1>2, <3>1, <3>2 DEF HandleBatchFailure
  <2>3. TypeOK'
    BY <1>2, <1>t, <2>1, <2>2, FaultType, SMTT(30)
       DEF HandleBatchFailure, TypeOK, server, worker, view, cache
  <2>4. Shapes'
    BY <1>2, <1>t, <2>1 DEF HandleBatchFailure, Shapes, worker
  <2>5. QED
    BY <2>3, <2>4 DEF Shaped
<1>3. CASE FinishBatch
  <2>1. rt' \in Runtimes
    <3> DEFINE a == IF ~rt.recReq THEN projecting.to ELSE rt.ack
               h == ~rt.recReq /\ projecting.to >= rt.high
    <3>1. rt' = [rt EXCEPT !.ack = a, !.pending = ~(~rt.recReq), !.healthy = h]
      BY <1>3 DEF FinishBatch
    <3>2. a \in Nat
      BY <1>3, <1>t, RealType DEF FinishBatch, TypeOK, Shapes, Runtimes
    <3>3. h \in BOOLEAN
      OBVIOUS
    <3> HIDE DEF a, h
    <3>4. QED
      BY <1>t, <3>1, <3>2, <3>3 DEF Runtimes
  <2>2. TypeOK'
    BY <1>3, <1>t, <2>1 DEF FinishBatch, TypeOK, server, worker, view, cache
  <2>3. Shapes'
    BY <1>3, <1>t DEF FinishBatch, Shapes, worker
  <2>4. QED
    BY <2>2, <2>3 DEF Shaped
<1>4. CASE FinishBatchFailure
  <2>1. rt' \in Runtimes /\ editable' \in BOOLEAN
    BY <1>4, <1>t, RecoveryType DEF FinishBatchFailure
  <2>2. TypeOK'
    BY <1>4, <1>t, <2>1, FaultType DEF FinishBatchFailure, TypeOK, server, worker, view, cache
  <2>3. Shapes'
    BY <1>4, <1>t DEF FinishBatchFailure, Shapes, worker
  <2>4. QED
    BY <2>2, <2>3 DEF Shaped
<1>5. CASE FinishStale
  <2>1. TypeOK'
    BY <1>5, <1>t DEF FinishStale, TypeOK, server, worker, view, cache
  <2>2. Shapes'
    BY <1>5, <1>t DEF FinishStale, Shapes, worker
  <2>3. QED
    BY <2>1, <2>2 DEF Shaped
<1>6. CASE HandleLocal
  <2> DEFINE m == Head(inbox)
  <2>1. /\ inbox' \in Seq(Messages) /\ m \in Messages /\ m.kind = "local" /\ m \in Members(inbox)
        /\ \A n \in Members(inbox') : n.kind = "local" => n.bid \in Bids
    BY <1>6, ReceiveType DEF HandleLocal
  <2>2. m.snap \in Nat /\ m.to \in Nat
    BY <2>1, RealType
  <2>3. \/ /\ content' = IF m.bid = active THEN m.snap ELSE content
           /\ tokens' = [tokens EXCEPT ![m.bid] = m.to] /\ UNCHANGED <<rt, editable>>
        \/ RequireRecovery(Reconciling(rt)) /\ UNCHANGED <<content, tokens>>
    BY <1>6 DEF HandleLocal
  <2> HIDE DEF m
  <2>4. /\ rt' \in Runtimes /\ editable' \in BOOLEAN /\ content' \in Nat
        /\ tokens' \in [Bids -> Nat]
    <3>1. CASE RequireRecovery(Reconciling(rt)) /\ UNCHANGED <<content, tokens>>
      BY <1>t, <3>1, RecoveryType DEF TypeOK
    <3>2. CASE /\ content' = IF m.bid = active THEN m.snap ELSE content
               /\ tokens' = [tokens EXCEPT ![m.bid] = m.to] /\ UNCHANGED <<rt, editable>>
      BY <1>t, <2>1, <2>2, <3>2 DEF TypeOK, Shapes
    <3>3. QED
      BY <2>3, <3>1, <3>2
  <2>5. TypeOK'
    BY <1>6, <1>t, <2>1, <2>4 DEF HandleLocal, TypeOK, server, worker
  <2>6. Shapes'
    BY <1>6, <1>t, <2>1 DEF HandleLocal, Shapes, worker
  <2>7. QED
    BY <2>5, <2>6 DEF Shaped
<1>7. CASE HandleUnprojected
  <2>1. /\ inbox' \in Seq(Messages)
        /\ \A m \in Members(inbox') : m.kind = "local" => m.bid \in Bids
    BY <1>7, ReceiveType DEF HandleUnprojected
  <2>2. rt' \in Runtimes /\ editable' \in BOOLEAN
    BY <1>7, <1>t, RecoveryType DEF HandleUnprojected
  <2>3. faults' \in 0..MaxFaults
    BY <1>7, <1>t, FaultType DEF HandleUnprojected, NoFault, TypeOK
  <2>4. TypeOK'
    BY <1>7, <1>t, <2>1, <2>2, <2>3
       DEF HandleUnprojected, TypeOK, server, worker, view, cache
  <2>5. Shapes'
    BY <1>7, <1>t, <2>1 DEF HandleUnprojected, Shapes, worker
  <2>6. QED
    BY <2>4, <2>5 DEF Shaped
<1>8. QED
  BY <1>1, <1>2, <1>3, <1>4, <1>5, <1>6, <1>7

\* A navigation and the user's leaving a bid break no type.
LEMMA NavigationType ==
  ASSUME Shaped,
         \/ (\E b \in Bids : StartLoad(b)) \/ CloseBid \/ LoadVersions \/ ReadData \/ PostLoad
         \/ ApplyLoad
  PROVE  Shaped'
<1> DEFINE Navs == [step : {"idle", "versions", "data", "read", "posted"},
                    bid : Bids \cup {NoBid}, version : Nat, snap : Nat, wanted : BOOLEAN]
<1>t. TypeOK /\ Shapes /\ nav \in Navs /\ NoNav \in Navs /\ Len(log) \in Nat
  BY LenProperties, NothingType DEF Shaped, TypeOK
<1>1. CASE \E b \in Bids : StartLoad(b)
  <2>1. PICK b \in Bids : StartLoad(b)
    BY <1>1
  <2>2. nav' \in Navs /\ nav'.bid \in Bids
    BY <1>t, <2>1 DEF StartLoad, NoNav
  <2>3. loads' \in 0..MaxLoads
    <3>1. loads \in 0..MaxLoads
      BY <1>t DEF TypeOK
    <3>2. loads < MaxLoads /\ loads' = loads + 1
      BY <2>1 DEF StartLoad
    <3>3. QED
      BY <3>1, <3>2, BoundsAssumption
  <2>4. TypeOK'
    BY <1>t, <2>1, <2>2, <2>3 DEF StartLoad, TypeOK, server, worker, view, cache
  <2>5. Shapes'
    BY <1>t, <2>1, <2>2 DEF StartLoad, Shapes, worker
  <2>6. QED
    BY <2>4, <2>5 DEF Shaped
<1>2. CASE CloseBid
  <2>1. nav' \in Navs /\ nav'.step = nav.step /\ nav'.bid = nav.bid
    BY <1>2, <1>t DEF CloseBid
  <2>2. TypeOK'
    BY <1>2, <1>t, <2>1 DEF CloseBid, TypeOK, server, worker, cache
  <2>3. Shapes'
    BY <1>2, <1>t, <2>1 DEF CloseBid, Shapes, worker
  <2>4. QED
    BY <2>2, <2>3 DEF Shaped
<1>3. CASE LoadVersions
  <2>1. nav.bid \in Bids /\ Version(nav.bid) \in Nat
    BY <1>3, <1>t, VersionIsLast DEF LoadVersions, Shapes
  <2>2. nav' \in Navs /\ nav'.bid = nav.bid
    BY <1>3, <1>t, <2>1 DEF LoadVersions
  <2>3. tokens' \in [Bids -> Nat] /\ loaded' \subseteq Bids
    BY <1>3, <1>t, <2>1 DEF LoadVersions, TypeOK
  <2>4. TypeOK'
    BY <1>3, <1>t, <2>2, <2>3 DEF LoadVersions, TypeOK, server, worker, view
  <2>5. Shapes'
    BY <1>3, <1>t, <2>1, <2>2 DEF LoadVersions, Shapes, worker
  <2>6. QED
    BY <2>4, <2>5 DEF Shaped
<1>4. CASE ReadData
  <2>1. nav' \in Navs /\ nav'.bid = nav.bid
    BY <1>4, <1>t DEF ReadData
  <2>2. TypeOK'
    BY <1>4, <1>t, <2>1 DEF ReadData, TypeOK, server, worker, view, cache
  <2>3. Shapes'
    BY <1>4, <1>t, <2>1 DEF ReadData, Shapes, worker
  <2>4. QED
    BY <2>2, <2>3 DEF Shaped
<1>5. CASE PostLoad
  <2> DEFINE e == [kind |-> "loaded"]
  <2>1. e \in Messages /\ e.kind = "loaded"
    BY DEF Messages
  <2>2. \/ Post(e) /\ nav' = [nav EXCEPT !.step = "posted"]
        \/ inbox' = inbox /\ nav' = NoNav
    BY <1>5 DEF PostLoad
  <2> HIDE DEF e
  <2>3. inbox' \in Seq(Messages) /\ \A m \in Members(inbox') : m.kind = "local" => m.bid \in Bids
    BY <1>t, <2>1, <2>2, PostType DEF TypeOK, Shapes
  <2>4. nav' \in Navs /\ (nav'.step # "idle" => nav'.bid = nav.bid)
    BY <1>t, <2>2, NothingType
  <2>5. TypeOK'
    BY <1>5, <1>t, <2>3, <2>4 DEF PostLoad, TypeOK, server, worker, view, cache
  <2>6. Shapes'
    BY <1>5, <1>t, <2>3, <2>4 DEF PostLoad, Shapes, worker
  <2>7. QED
    BY <2>5, <2>6 DEF Shaped
<1>6. CASE ApplyLoad
  <2>1. /\ inbox' \in Seq(Messages)
        /\ \A m \in Members(inbox') : m.kind = "local" => m.bid \in Bids
    BY <1>6, ReceiveType DEF ApplyLoad
  <2>2. active' \in Bids \cup {NoBid} /\ owner' \in Nat /\ content' \in Nat
    BY <1>6, <1>t, BoundsAssumption DEF ApplyLoad, TypeOK, view
  <2>3. TypeOK'
    BY <1>6, <1>t, <2>1, <2>2, SMTT(30) DEF ApplyLoad, TypeOK, server, worker, cache
  <2>4. Shapes'
    BY <1>6, <1>t, <2>1, NothingType DEF ApplyLoad, Shapes, worker
  <2>5. QED
    BY <2>3, <2>4 DEF Shaped
<1>7. QED
  BY <1>1, <1>2, <1>3, <1>4, <1>5, <1>6

\* Every step keeps the types.
LEMMA StepType == Shaped /\ [Next]_vars => Shaped'
<1> SUFFICES ASSUME Shaped, [Next]_vars PROVE Shaped'
  OBVIOUS
<1>1. CASE ServerStep
  BY <1>1, ServerType
<1>2. CASE WorkerStep
  BY <1>2, SessionType, WriteType, FeedType DEF WorkerStep
<1>3. CASE UiStep
  BY <1>3, HandleSessionType, ProjectionType, NavigationType DEF UiStep
<1>4. CASE UserStep
  BY <1>4, HandleSessionType, NavigationType DEF UserStep
<1>5. CASE NavigationStep
  BY <1>5, NavigationType DEF NavigationStep
<1>6. CASE UNCHANGED vars
  <2>1. TypeOK'
    BY <1>6 DEF vars, server, worker, view, cache, Shaped, TypeOK
  <2>2. Shapes'
    BY <1>6 DEF vars, server, worker, view, cache, Shaped, Shapes
  <2>3. QED
    BY <2>1, <2>2 DEF Shaped
<1>7. QED
  BY <1>1, <1>2, <1>3, <1>4, <1>5, <1>6 DEF Next

\* Every variable keeps its type: the worker, the main thread and the navigation thread
\* only ever leave each other what the others know how to read.
THEOREM TypeCorrect == Spec => []TypeOK
<1>1. Shaped => TypeOK
  BY DEF Shaped
<1>2. QED
  BY InitType, StepType, <1>1, PTL DEF Spec

-----------------------------------------------------------------------------
(* What a step leaves as it was. *)

\* The history only grows.
Grows == Len(log) <= Len(log') /\ \A i \in 1..Len(log) : log'[i] = log[i]

\* The session goes on, or another begins or will.
Going ==
  /\ rt'.gen = rt.gen /\ rt'.ack = rt.ack /\ rt'.session = rt.session
  /\ rt.ready => rt'.ready
  /\ rt.pending => rt'.pending
  /\ Starting' => Starting
  /\ Asking' => Asking \/ ~rt.pending
  /\ projecting' \in {projecting, NoBatch}
NewSession ==
  /\ rt'.gen > rt.gen /\ ~rt'.ready /\ rt'.ack <= Len(log) /\ projecting' = projecting
  /\ pc' \in {"top", "load"} /\ (rt'.session => pc' = "load")
Onward == Grows /\ (Going \/ NewSession)

\* The session goes on, and does not become trusted.
SameSession == Going /\ (rt'.ready /\ ~rt'.recReq => rt.ready /\ ~rt.recReq)

\* What is shown stays, and no navigation begins.
Still == UNCHANGED <<view, loads>> /\ (nav'.step # "idle" => nav.step # "idle")

\* Numbers of the runtime and of the history.
LEMMA RuntimeType ==
  ASSUME Shaped
  PROVE  /\ Len(log) \in Nat /\ rt.gen \in Nat /\ rt.ack \in Nat /\ loads \in Nat
         /\ owner \in Nat /\ content \in Nat /\ captured \in Nat
BY LenProperties, BoundsAssumption DEF Shaped, TypeOK, Runtimes

\* The same of the state after the step.
LEMMA NextRuntimeType ==
  ASSUME Shaped'
  PROVE  Len(log') \in Nat /\ rt'.gen \in Nat /\ rt'.ack \in Nat /\ content' \in Nat
BY LenProperties DEF Shaped, TypeOK, Runtimes

\* The batch whose barrier is open is well-typed.
LEMMA OpenType ==
  ASSUME Shaped, projecting # NoBatch
  PROVE  projecting.gen \in Nat /\ projecting.to \in Nat /\ projecting.kind = "batch"
BY RealType DEF Shaped, TypeOK, Shapes

\* Generations never go back, and no barrier opens on the way.
LEMMA OnwardFacts ==
  ASSUME Shaped, Shaped', Open, Onward
  PROVE  /\ rt.gen <= rt'.gen /\ Len(log) <= Len(log')
         /\ Projecting' => Projecting /\ Going /\ projecting' = projecting
<1>1. rt.gen \in Nat /\ rt'.gen \in Nat
  BY RuntimeType, NextRuntimeType
<1>2. CASE Going
  <2>1. Projecting' => projecting' = projecting /\ Projecting
    BY <1>2 DEF Going, Projecting, Current
  <2>2. QED
    BY <1>1, <1>2, <2>1 DEF Onward, Grows, Going
<1>3. CASE NewSession
  <2>1. Projecting' => projecting # NoBatch /\ projecting.gen = rt'.gen
    BY <1>3 DEF NewSession, Projecting, Current
  <2>2. projecting # NoBatch => projecting.gen \in Nat /\ projecting.gen <= rt.gen
    BY OpenType DEF Open
  <2>3. rt.gen < rt'.gen
    BY <1>1, <1>3 DEF NewSession
  <2>4. ~Projecting'
    BY <1>1, <2>1, <2>2, <2>3
  <2>5. QED
    BY <1>1, <2>3, <2>4 DEF Onward, Grows
<1>4. QED
  BY <1>2, <1>3 DEF Onward

\* Only the end of a barrier makes the session reach further.
LEMMA ReachedKept ==
  ASSUME Shaped, Shaped', Open, Positions, Going, Onward, NEW i, Reached(i)'
  PROVE  Reached(i)
BY OnwardFacts DEF Reached, Going

\* What is reached has happened.
LEMMA ReachedPast ==
  ASSUME Shaped, Open, Positions, NEW i \in Nat, Reached(i)
  PROVE  i <= Len(log)
<1>1. rt.ack \in Nat /\ Len(log) \in Nat /\ rt.ack <= Len(log)
  BY RuntimeType DEF Positions
<1>2. CASE i <= rt.ack
  BY <1>1, <1>2
<1>3. CASE Projecting /\ i <= projecting.to
  BY <1>1, <1>3, OpenType DEF Projecting, Open
<1>4. QED
  BY <1>2, <1>3 DEF Reached

\* A message stays of the past while the screen stays as it is.
LEMMA PastKept ==
  ASSUME Shaped, Shaped', Open, Onward, Still,
         NEW m \in Messages, Real(m), Past(m)
  PROVE  Past(m)'
<1>1. /\ m.snap \in Nat /\ m.gen \in Nat /\ rt.gen \in Nat /\ rt'.gen \in Nat
      /\ Len(log) \in Nat /\ Len(log') \in Nat
  BY RealType, RuntimeType, NextRuntimeType DEF Real
<1>2. rt.gen <= rt'.gen /\ Len(log) <= Len(log')
  BY OnwardFacts
<1>3. QED
  BY <1>1, <1>2 DEF Past, Still, view

\* What a message of the session says stays so.
LEMMA OfSessionKept ==
  ASSUME Shaped, Shaped', Open, Positions, Onward,
         NEW m \in Messages, Real(m), Past(m), OfSession(m)
  PROVE  OfSession(m)'
<1>1. /\ m.gen \in Nat /\ m.snap \in Nat /\ rt.gen \in Nat /\ rt'.gen \in Nat
      /\ m.gen <= rt.gen
  BY RealType, RuntimeType, NextRuntimeType DEF Real, Past
<1>2. CASE NewSession
  <2>1. ~Current(m)'
    BY <1>1, <1>2 DEF NewSession, Current
  <2>2. QED
    BY <2>1 DEF OfSession
<1>3. CASE Going
  <2> SUFFICES ASSUME Current(m)'
               PROVE  OfSession(m)'
    BY DEF OfSession
  <2>1. Current(m)
    BY <1>3 DEF Going, Current
  <2>2. m.kind = "started" => (~Starting /\ rt.session /\ (rt.ready \/ rt.ack <= m.snap))'
    BY <1>3, <2>1 DEF OfSession, Going
  <2>3. m.kind = "batch" => (rt.ready /\ m.from = rt.ack /\ m.from < m.to /\ ~Projecting)'
    BY <1>3, <2>1, OnwardFacts DEF OfSession, Going
  <2>4. ASSUME m.kind = "local", NEW i \in 1..Len(log'), Reached(i)'
        PROVE  i <= m.to
    <3>1. Reached(i)
      BY <1>3, <2>4, ReachedKept
    <3>2. i \in 1..Len(log)
      BY <3>1, ReachedPast, RuntimeType
    <3>3. QED
      BY <2>1, <2>4, <3>1, <3>2 DEF OfSession
  <2>5. QED
    BY <2>2, <2>3, <2>4 DEF OfSession
<1>4. QED
  BY <1>2, <1>3 DEF Onward

\* A message stays sound.
LEMMA SoundKept ==
  ASSUME Shaped, Shaped', Open, Positions, Onward, Still,
         NEW m \in Messages, Real(m), Sound(m)
  PROVE  Sound(m)'
BY PastKept, OfSessionKept DEF Sound

\* A batch under way stays the only one.
LEMMA PendingKept ==
  ASSUME Shaped, Shaped', Open, Onward,
         NEW m \in Messages, Real(m), Past(m), Pending(m)
  PROVE  Pending(m)'
<1>1. /\ m.gen \in Nat /\ rt.gen \in Nat /\ rt'.gen \in Nat /\ m.gen <= rt.gen
  BY RealType, RuntimeType, NextRuntimeType DEF Real, Past
<1>2. CASE NewSession
  <2>1. ~Current(m)'
    BY <1>1, <1>2 DEF NewSession, Current
  <2>2. QED
    BY <2>1 DEF Pending
<1>3. CASE Going
  BY <1>3 DEF Going, Current, Pending
<1>4. QED
  BY <1>2, <1>3 DEF Onward

-----------------------------------------------------------------------------
(* Each part of the invariant, under the steps that do not concern it. *)

\* At most the head of the queue is taken.
Taken == inbox' = inbox \/ (inbox # <<>> /\ inbox' = Tail(inbox))

\* A queue from which only the head is taken keeps its order.
LEMMA TakenFacts ==
  ASSUME Shaped, Arriving, Taken
  PROVE  Ordered(inbox') /\ Members(inbox') \subseteq Members(inbox)
<1>1. inbox \in Seq(Messages) /\ Ordered(inbox)
  BY DEF Shaped, TypeOK, Arriving
<1>2. CASE inbox' = inbox
  BY <1>1, <1>2
<1>3. CASE inbox # <<>> /\ inbox' = Tail(inbox)
  BY <1>1, <1>3, OrderedTail, MembersTail
<1>4. QED
  BY <1>2, <1>3 DEF Taken

\* Members of the queue are messages.
LEMMA InboxType ==
  ASSUME Shaped, NEW m \in Members(inbox)
  PROVE  m \in Messages
BY MembersType DEF Shaped, TypeOK

\* The waiting messages stay as they should be, if those that come are.
LEMMA ArrivingStep ==
  ASSUME Shaped, Shaped', Arriving, Open, Positions, Onward, Still, Ordered(inbox'),
         \A m \in Members(inbox') : Real(m) =>
           m \in Members(inbox) \/ (Sound(m)' /\ Pending(m)'),
         \A m \in Members(inbox') : ~Real(m) => nav'.step = "posted"
  PROVE  Arriving'
<1>1. ASSUME NEW m \in Members(inbox'), Real(m), m \in Members(inbox)
      PROVE  Sound(m)' /\ Pending(m)'
  <2>1. m \in Messages /\ Sound(m) /\ Pending(m) /\ Past(m)
    BY <1>1, InboxType DEF Arriving, Sound
  <2>2. QED
    BY <1>1, <2>1, SoundKept, PendingKept
<1>2. \A m \in Members(inbox') : Real(m) => Sound(m)' /\ Pending(m)'
  BY <1>1
<1>3. QED
  BY <1>2 DEF Arriving

\* So they do when at most the head is taken.
LEMMA ArrivingKept ==
  ASSUME Shaped, Shaped', Arriving, Open, Positions, Onward, Still, Taken,
         nav'.step = nav.step
  PROVE  Arriving'
BY TakenFacts, ArrivingStep DEF Arriving

\* The message that is about to be posted stays as it should be.
LEMMA DepartingKept ==
  ASSUME Shaped, Shaped', Departing, Open, Positions, Onward, Still,
         pc' = "deliver" => pc = "deliver" /\ fetched' = fetched,
         \A m \in Members(inbox') : Real(m) => m \in Members(inbox)
  PROVE  Departing'
<1> SUFFICES ASSUME pc' = "deliver"
             PROVE  Sound(fetched)' /\ \A m \in Members(inbox') : Pair(m, fetched')
  BY DEF Departing
<1>1. PICK e : e = fetched
  OBVIOUS
<1>2. /\ e \in Messages /\ e.kind \in {"started", "local", "batch", "invalid"} /\ Sound(e)
      /\ \A m \in Members(inbox) : Pair(m, e)
  BY <1>1 DEF Shaped, Shapes, Sequel, Departing
<1>3. Real(e)
  BY <1>2 DEF Real
<1>4. Sound(e)'
  BY <1>2, <1>3, SoundKept
<1>5. \A m \in Members(inbox') : Pair(m, e)
  <2>1. ASSUME NEW m \in Members(inbox'), ~Real(m)
        PROVE  Pair(m, e)
    BY <1>3, <2>1 DEF Pair, Real
  <2>2. QED
    BY <1>2, <2>1
<1>6. fetched' = e
  BY <1>1
<1>7. QED
  BY <1>4, <1>5, <1>6

\* The write that is about to be read back stays the newest.
LEMMA ReadingBackKept ==
  ASSUME Shaped, Shaped', ReadingBack, Open, Positions, Onward,
         pc' = "read" => pc = "read" /\ draft' = draft,
         \A m \in Members(inbox') : Real(m) => m \in Members(inbox)
  PROVE  ReadingBack'
<1> SUFFICES ASSUME pc' = "read"
             PROVE  ReadingBack'
  BY DEF ReadingBack
<1>1. Going /\ Len(log) <= Len(log')
  BY DEF Onward, NewSession, Grows
<1>2. draft' = draft /\ pc = "read" /\ draft.base \in Nat
  BY DEF Shaped, TypeOK
<1>3. ASSUME NEW i \in 1..Len(log'), Reached(i)'
      PROVE  i <= draft.base
  <2>1. Reached(i)
    BY <1>1, <1>3, ReachedKept
  <2>2. i \in 1..Len(log)
    BY <2>1, ReachedPast, RuntimeType
  <2>3. QED
    BY <1>2, <2>1, <2>2 DEF ReadingBack
<1>4. draft.base <= Len(log')
  BY <1>1, <1>2, RuntimeType DEF ReadingBack
<1>5. QED
  BY <1>2, <1>3, <1>4 DEF ReadingBack

\* The open barrier stays as it should be.
LEMMA OpenKept ==
  ASSUME Shaped, Shaped', Open, Onward
  PROVE  Open'
<1> SUFFICES ASSUME projecting' # NoBatch
             PROVE  Open'
  BY DEF Open
<1>1. projecting' = projecting
  BY DEF Onward, Going, NewSession
<1>2. projecting.gen <= rt'.gen /\ projecting.to <= Len(log')
  BY <1>1, OnwardFacts, OpenType, RuntimeType, NextRuntimeType DEF Open
<1>3. Projecting' => (rt.ready /\ rt.pending /\ ~Asking)'
  BY <1>1, OnwardFacts DEF Open, Going
<1>4. QED
  BY <1>1, <1>2, <1>3 DEF Open

\* Positions stay within the history.
LEMMA PositionsKept ==
  ASSUME Shaped, Shaped', Positions, Onward, UNCHANGED <<view, loads, nav>>,
         captured' \in {captured, owner}
  PROVE  Positions'
<1>1. rt'.ack <= Len(log') /\ Len(log) <= Len(log')
  BY RuntimeType, NextRuntimeType DEF Onward, Grows, Going, NewSession, Positions
<1>2. nav.version \in Nat /\ nav.snap \in Nat
  BY DEF Shaped, TypeOK
<1>3. QED
  BY <1>1, <1>2, RuntimeType DEF Positions, view

\* The cache stays ahead of what other sessions did.
LEMMA KnownKept ==
  ASSUME Shaped, Shaped', Known, Open, Positions, Onward, UNCHANGED cache,
         rt'.session /\ pc' # "load" => pc # "load"
  PROVE  Known'
<1> SUFFICES ASSUME (rt.session /\ pc # "load")',
                    NEW b \in loaded', NEW i \in 1..Len(log'),
                    Reached(i)', log'[i].bid = b, Foreigner(i)'
             PROVE  i <= tokens'[b]
  BY DEF Known
<1>1. Going
  BY DEF Onward, NewSession
<1>2. Reached(i)
  BY <1>1, ReachedKept
<1>3. i \in 1..Len(log)
  BY <1>2, ReachedPast, RuntimeType
<1>4. log'[i] = log[i] /\ Foreigner(i)
  BY <1>1, <1>3 DEF Onward, Grows, Going, Foreigner
<1>5. rt.session /\ pc # "load" /\ b \in loaded /\ tokens' = tokens
  BY <1>1 DEF Going, cache
<1>6. QED
  BY <1>2, <1>3, <1>4, <1>5 DEF Known

\* What is shown keeps containing what other sessions did.
LEMMA CoveredKept ==
  ASSUME Shaped, Shaped', Covered, Open, Positions, Onward, UNCHANGED view,
         SameSession \/ NewSession
  PROVE  Covered'
<1> SUFFICES ASSUME (rt.ready /\ ~rt.recReq)', NEW i \in 1..Len(log'),
                    Reached(i)', log'[i].bid = active', Foreigner(i)'
             PROVE  i <= content'
  BY DEF Covered
<1>1. Going /\ SameSession
  BY DEF SameSession, NewSession
<1>2. Reached(i)
  BY <1>1, ReachedKept
<1>3. i \in 1..Len(log)
  BY <1>2, ReachedPast, RuntimeType
<1>4. log'[i] = log[i] /\ Foreigner(i)
  BY <1>1, <1>3 DEF Onward, Grows, Going, Foreigner
<1>5. rt.ready /\ ~rt.recReq /\ active' = active /\ content' = content
  BY <1>1 DEF SameSession, view
<1>6. QED
  BY <1>2, <1>3, <1>4, <1>5 DEF Covered

-----------------------------------------------------------------------------
(* Steps in the background: nothing is shown, cached or posted. *)

Background ==
  /\ Grows /\ (SameSession \/ NewSession) /\ UNCHANGED <<view, loads, nav>>
  /\ captured' \in {captured, owner}
  /\ Taken
  /\ pc' = "deliver" => pc = "deliver" /\ fetched' = fetched
  /\ pc' = "read" => pc = "read" /\ draft' = draft

\* A step in the background keeps the invariant, if it keeps the worker's course and the
\* cache.
LEMMA CacheStep ==
  ASSUME FeedInv, Shaped', Course', Known', Background
  PROVE  FeedInv'
<1> USE DEF FeedInv
<1>1. Still /\ Onward /\ Taken /\ (SameSession \/ NewSession)
  BY DEF Background, Still, Onward, SameSession
<1>2. Members(inbox') \subseteq Members(inbox)
  BY <1>1, TakenFacts
<1>3. Arriving'
  BY <1>1, ArrivingKept DEF Background
<1>4. Departing'
  BY <1>1, <1>2, DepartingKept DEF Background
<1>5. ReadingBack'
  BY <1>1, <1>2, ReadingBackKept DEF Background
<1>6. Open'
  BY <1>1, OpenKept
<1>7. Positions'
  BY <1>1, PositionsKept DEF Background
<1>8. Covered'
  BY <1>1, CoveredKept DEF Background
<1>9. QED
  BY <1>3, <1>4, <1>5, <1>6, <1>7, <1>8

\* So does one that leaves the cache alone.
LEMMA BackgroundStep ==
  ASSUME FeedInv, Shaped', Course', Background, UNCHANGED cache,
         rt'.session /\ pc' # "load" => pc # "load"
  PROVE  FeedInv'
<1>1. Known'
  BY KnownKept DEF Background, FeedInv, Onward, SameSession
<1>2. QED
  BY <1>1, CacheStep

\* A recorded change makes the history grow.
LEMMA RecordGrows ==
  ASSUME TypeOK, NEW b \in Bids, NEW by \in Nat, Record(b, by)
  PROVE  Grows
<1>1. /\ Len(log') = Len(log) + 1 /\ Len(log) \in Nat
      /\ \A i \in 1..Len(log) : log'[i] = log[i]
  BY RecordType
<1>2. QED
  BY <1>1 DEF Grows

\* A history that does not change grows, trivially.
LEMMA GrowsStill == Shaped /\ UNCHANGED log => Grows
BY RuntimeType DEF Grows

\* The main thread only changes what it knows of the session's health.
LEMMA UiBackground ==
  ASSUME FeedInv, Shaped', UNCHANGED <<server, worker, view, loads, nav, cache>>, Taken,
         projecting' \in {projecting, NoBatch},
         rt'.gen = rt.gen, rt'.ack = rt.ack, rt'.session = rt.session,
         rt.pending => rt'.pending,
         rt'.ready /\ ~rt'.recReq => rt.ready /\ ~rt.recReq,
         rt'.ready = rt.ready \/ (rt'.ready = TRUE /\ rt.session /\ ~Starting)
  PROVE  FeedInv'
<1>1. UNCHANGED <<pc, captured, draft, fetched, log>>
  BY DEF worker, server
<1>2. Grows
  BY <1>1, GrowsStill DEF FeedInv
<1>3. SameSession
  BY <1>1 DEF SameSession, Going, Starting, Asking
<1>4. Background
  BY <1>1, <1>2, <1>3 DEF Background, Onward, view, cache
<1>5. Course'
  BY <1>1 DEF FeedInv, Course, Starting
<1>6. QED
  BY <1>1, <1>4, <1>5, BackgroundStep

\* A required recovery is such a change.
LEMMA RecoveryStep ==
  ASSUME FeedInv, Shaped', UNCHANGED <<server, worker, view, loads, nav, cache>>, Taken,
         projecting' \in {projecting, NoBatch},
         RequireRecovery(Reconciling(rt)) \/ RequireRecovery(Replaced(rt))
  PROVE  FeedInv'
<1>1. rt \in Runtimes /\ rt' \in {Reconciling(rt), Replaced(rt)}
  BY DEF FeedInv, Shaped, TypeOK, RequireRecovery
<1>2. /\ rt'.gen = rt.gen /\ rt'.ack = rt.ack /\ rt'.session = rt.session
      /\ rt.pending => rt'.pending
      /\ rt'.ready = rt.ready /\ rt'.recReq = TRUE
  BY <1>1, ReconcilingFields, ReplacedFields
<1>3. QED
  BY <1>2, UiBackground

\* So is one that the arrival of the session's start requires.
LEMMA ReadyRecoveryStep ==
  ASSUME FeedInv, Shaped', UNCHANGED <<server, worker, view, loads, nav, cache>>,
         Receive("started"), SessionCurrent(Head(inbox)),
         projecting' = projecting,
         \/ RequireRecovery([Reconciling(rt) EXCEPT !.ready = TRUE])
         \/ RequireRecovery([Replaced(rt) EXCEPT !.ready = TRUE])
  PROVE  FeedInv'
<1>1. PICK r \in {Reconciling(rt), Replaced(rt)} : rt' = [r EXCEPT !.ready = TRUE]
  BY DEF RequireRecovery
<1>2. rt \in Runtimes
  BY DEF FeedInv, Shaped, TypeOK
<1>3. /\ r \in Runtimes /\ r.gen = rt.gen /\ r.ack = rt.ack /\ r.session = rt.session
      /\ r.recReq = TRUE
      /\ rt.pending => r.pending
  BY <1>2, ReconcilingFields, ReplacedFields
<1>4. /\ rt'.gen = r.gen /\ rt'.ack = r.ack /\ rt'.session = r.session
      /\ rt'.ready = TRUE /\ rt'.recReq = r.recReq /\ rt'.pending = r.pending
  BY <1>1, <1>3, ReadyFields
<1>5. Head(inbox) \in Members(inbox) /\ Head(inbox).kind = "started" /\ Taken
  BY ReceiveType DEF FeedInv, Taken
<1>6. OfSession(Head(inbox))
  BY <1>5 DEF FeedInv, Arriving, Sound, Real
<1>7. rt.session /\ ~Starting
  BY <1>5, <1>6 DEF OfSession, Current, SessionCurrent
<1>8. QED
  BY <1>3, <1>4, <1>5, <1>7, UiBackground

\* The main thread's handling of news that shows nothing.
LEMMA NewsStep ==
  ASSUME FeedInv, Shaped',
         \/ HandleStartedFailure \/ HandleBatchFailure \/ FinishBatchFailure \/ FinishStale
         \/ HandleUnprojected \/ HandleRestored \/ HandleLost \/ HandleInvalid
         \/ HandleStale \/ Refresh
  PROVE  FeedInv'
<1>t. Shaped /\ rt \in Runtimes
  BY DEF FeedInv, Shaped, TypeOK
<1>1. CASE HandleStartedFailure
  BY <1>1, ReadyRecoveryStep DEF HandleStartedFailure
<1>2. CASE HandleBatchFailure
  <2>1. Taken
    BY <1>2, <1>t, ReceiveType DEF HandleBatchFailure, Taken
  <2>2. CASE RequireRecovery(Reconciling(rt))
    BY <1>2, <2>1, <2>2, RecoveryStep DEF HandleBatchFailure
  <2>3. CASE rt' = [rt EXCEPT !.healthy = FALSE, !.pending = TRUE, !.recReq = TRUE,
                              !.recReady = FALSE]
    <3>1. /\ rt'.gen = rt.gen /\ rt'.ack = rt.ack /\ rt'.session = rt.session
          /\ rt'.ready = rt.ready /\ rt'.recReq = TRUE /\ rt'.pending = TRUE
      BY <1>t, <2>3 DEF Runtimes
    <3>2. UNCHANGED <<server, worker, projecting, view, loads, nav, cache>>
      BY <1>2 DEF HandleBatchFailure
    <3>3. QED
      BY <2>1, <3>1, <3>2, UiBackground
  <2>4. QED
    BY <1>2, <2>2, <2>3 DEF HandleBatchFailure
<1>3. CASE FinishBatchFailure
  BY <1>3, RecoveryStep DEF FinishBatchFailure, Taken
<1>4. CASE FinishStale
  <2>1. /\ UNCHANGED <<server, rt, worker, inbox, view, loads, nav, cache>>
        /\ projecting' = NoBatch
    BY <1>4 DEF FinishStale
  <2>2. QED
    BY <2>1, UiBackground DEF Taken
<1>5. CASE HandleUnprojected
  <2>1. Taken
    BY <1>5, <1>t, ReceiveType DEF HandleUnprojected, Taken
  <2>2. QED
    BY <1>5, <2>1, RecoveryStep DEF HandleUnprojected
<1>6. CASE HandleRestored \/ HandleLost \/ HandleStale
  <2>1. Taken
    BY <1>6, <1>t, ReceiveType DEF HandleRestored, HandleLost, HandleStale, Taken
  <2>2. UNCHANGED <<server, rt, worker, projecting, view, loads, nav, cache>>
    BY <1>6 DEF HandleRestored, HandleLost, HandleStale
  <2>3. QED
    BY <2>1, <2>2, UiBackground
<1>7. CASE HandleInvalid
  <2>1. Taken
    BY <1>7, <1>t, ReceiveType DEF HandleInvalid, Taken
  <2>2. QED
    BY <1>7, <2>1, RecoveryStep DEF HandleInvalid
<1>8. CASE Refresh
  <2>1. rt' = [rt EXCEPT !.recTried = TRUE, !.recReady = TRUE]
    BY <1>8 DEF Refresh
  <2>2. /\ rt'.gen = rt.gen /\ rt'.ack = rt.ack /\ rt'.session = rt.session
        /\ rt'.ready = rt.ready /\ rt'.recReq = rt.recReq /\ rt'.pending = rt.pending
    BY <1>t, <2>1 DEF Runtimes
  <2>3. UNCHANGED <<server, worker, inbox, projecting, view, loads, nav, cache>>
    BY <1>8 DEF Refresh
  <2>4. QED
    BY <2>2, <2>3, UiBackground DEF Taken
<1>9. QED
  BY <1>1, <1>2, <1>3, <1>4, <1>5, <1>6, <1>7, <1>8

\* The server's steps.
LEMMA ServerKeeps ==
  ASSUME FeedInv, Shaped', ServerStep
  PROVE  FeedInv'
<1>1. CASE TrimHistory
  <2>1. UNCHANGED <<log, rt, worker, inbox, projecting, view, loads, nav, cache>>
    BY <1>1 DEF TrimHistory
  <2>2. UNCHANGED <<pc, captured, draft, fetched>> /\ Taken
    BY <2>1 DEF worker, Taken
  <2>3. Grows /\ SameSession
    BY <2>1, <2>2, GrowsStill DEF FeedInv, SameSession, Going, Starting, Asking
  <2>4. Background
    BY <2>1, <2>2, <2>3 DEF Background, Onward
  <2>5. Course'
    BY <2>1, <2>2 DEF FeedInv, Course, Starting
  <2>6. QED
    BY <2>1, <2>2, <2>4, <2>5, BackgroundStep
<1>2. CASE \E b \in Bids : OtherCommit(b)
  <2>1. PICK b \in Bids : OtherCommit(b)
    BY <1>2
  <2>2. Grows
    <3>1. Record(b, 0) /\ TypeOK
      BY <2>1 DEF OtherCommit, FeedInv, Shaped
    <3>2. QED
      BY <3>1, RecordGrows
  <2>3. UNCHANGED <<rt, worker, inbox, projecting, view, loads, nav, cache>>
    BY <2>1 DEF OtherCommit
  <2>4. UNCHANGED <<pc, captured, draft, fetched>> /\ Taken
    BY <2>3 DEF worker, Taken
  <2>5. SameSession
    BY <2>3, <2>4 DEF SameSession, Going, Starting, Asking
  <2>6. Background
    BY <2>2, <2>3, <2>4, <2>5 DEF Background, Onward
  <2>7. Course'
    BY <2>3, <2>4 DEF FeedInv, Course, Starting
  <2>8. QED
    BY <2>3, <2>4, <2>6, <2>7, BackgroundStep
<1>3. QED
  BY <1>1, <1>2 DEF ServerStep

-----------------------------------------------------------------------------
(* The worker. *)

\* The steps by which the worker moves on, within its session or to another.
LEMMA MovingStep ==
  ASSUME FeedInv, Shaped',
         LeaveSession \/ StartSession \/ CaptureOwner \/ RefuseWrite \/ BeginPoll
  PROVE  FeedInv'
<1>t. Shaped /\ Course /\ rt \in Runtimes /\ rt.gen \in Nat /\ Len(log) \in Nat
  BY RuntimeType DEF FeedInv, Shaped, TypeOK
<1>1. CASE LeaveSession
  <2>1. /\ rt'.gen = rt.gen + 1 /\ rt'.session = FALSE /\ rt'.ready = FALSE /\ rt'.ack = rt.ack
    BY <1>1, <1>t, ResetFields DEF LeaveSession, Shaped
  <2>2. /\ UNCHANGED <<server, worker, inbox, projecting, view, loads, nav, cache>>
        /\ pc = "top"
    BY <1>1 DEF LeaveSession
  <2>3. UNCHANGED <<pc, captured, draft, fetched, log>> /\ Taken
    BY <2>2 DEF worker, server, Taken
  <2>4. NewSession
    BY <1>t, <2>1, <2>2, <2>3 DEF NewSession, FeedInv, Positions
  <2>5. Background
    BY <1>t, <2>2, <2>3, <2>4, GrowsStill DEF Background, Onward
  <2>6. Course'
    BY <2>1, <2>2, <2>3 DEF Course, Starting
  <2>7. QED
    BY <2>1, <2>2, <2>5, <2>6, BackgroundStep
<1>2. CASE StartSession
  <2>1. /\ rt'.gen = rt.gen + 1 /\ rt'.session = TRUE /\ rt'.ready = rt.ready
        /\ rt'.ack = Len(log)
    BY <1>2, <1>t DEF StartSession, Runtimes
  <2>2. /\ UNCHANGED <<server, captured, draft, fetched, inbox, projecting, view, loads, nav,
                       cache>>
        /\ pc = "top" /\ pc' = "load" /\ ~rt.session
    BY <1>2 DEF StartSession, Go
  <2>3. ~rt.ready
    BY <1>t, <2>2 DEF Course
  <2>4. UNCHANGED log /\ Taken
    BY <2>2 DEF server, Taken
  <2>5. NewSession
    BY <1>t, <2>1, <2>2, <2>3 DEF NewSession
  <2>6. Background
    BY <1>t, <2>2, <2>4, <2>5, GrowsStill DEF Background, Onward
  <2>7. Course'
    BY <2>1, <2>2, <2>3 DEF Course, Starting
  <2>8. QED
    BY <2>1, <2>2, <2>6, <2>7, BackgroundStep
<1>3. CASE CaptureOwner
  <2>1. /\ UNCHANGED <<server, rt, draft, fetched, inbox, projecting, view, loads, nav, cache>>
        /\ pc = "capture" /\ pc' = "hydrate" /\ captured' = owner
    BY <1>3 DEF CaptureOwner, Go
  <2>2. UNCHANGED log /\ Taken
    BY <2>1 DEF server, Taken
  <2>3. SameSession
    BY <2>1 DEF SameSession, Going, Starting, Asking
  <2>4. Background
    BY <1>t, <2>1, <2>2, <2>3, GrowsStill DEF Background, Onward
  <2>5. Course'
    BY <1>t, <2>1 DEF Course, Starting
  <2>6. QED
    BY <2>1, <2>4, <2>5, BackgroundStep
<1>4. CASE RefuseWrite
  <2>1. /\ UNCHANGED <<server, rt, captured, fetched, inbox, projecting, view, loads, nav,
                       cache>>
        /\ pc = "draft" /\ pc' = "mark"
    BY <1>4 DEF RefuseWrite, Go
  <2>2. UNCHANGED log /\ Taken
    BY <2>1 DEF server, Taken
  <2>3. SameSession
    BY <2>1 DEF SameSession, Going, Starting, Asking
  <2>4. Background
    BY <1>t, <2>1, <2>2, <2>3, GrowsStill DEF Background, Onward
  <2>5. Course'
    BY <1>t, <2>1 DEF Course, Starting
  <2>6. QED
    BY <2>1, <2>4, <2>5, BackgroundStep
<1>5. CASE BeginPoll
  <2>1. /\ UNCHANGED <<server, rt, draft, fetched, inbox, projecting, view, loads, nav, cache>>
        /\ pc' = (IF rt.pending THEN "check" ELSE "poll") /\ captured' \in {captured, owner}
        /\ Iterating
    BY <1>5 DEF BeginPoll, Go
  <2>2. rt.ready /\ rt.session
    BY <1>t, <2>1 DEF Iterating, Course
  <2>3. UNCHANGED log /\ Taken
    BY <2>1 DEF server, Taken
  <2>4. SameSession
    BY <2>1 DEF SameSession, Going, Starting, Asking
  <2>5. pc # "load" /\ pc' \in {"check", "poll"}
    BY <2>1 DEF Iterating
  <2>6. Background
    BY <1>t, <2>1, <2>3, <2>4, <2>5, GrowsStill DEF Background, Onward
  <2>7. Course'
    BY <1>t, <2>1, <2>2, <2>5 DEF Course, Starting
  <2>8. QED
    BY <2>1, <2>5, <2>6, <2>7, BackgroundStep
<1>6. QED
  BY <1>1, <1>2, <1>3, <1>4, <1>5

\* The forgetting of the cached versions leaves nothing that could be behind.
LEMMA LoadDatabaseStep ==
  ASSUME FeedInv, Shaped', LoadDatabase
  PROVE  FeedInv'
<1>1. /\ UNCHANGED <<server, rt, captured, draft, fetched, inbox, projecting, view, loads, nav>>
      /\ pc = "load" /\ pc' = "capture" /\ loaded' = {}
  BY DEF LoadDatabase, Go
<1>2. UNCHANGED log /\ Taken /\ Shaped /\ Course
  BY <1>1 DEF server, Taken, FeedInv
<1>3. SameSession
  BY <1>1 DEF SameSession, Going, Starting, Asking
<1>4. Background
  BY <1>1, <1>2, <1>3, GrowsStill DEF Background, Onward
<1>5. Course'
  BY <1>1, <1>2 DEF Course, Starting
<1>6. Known'
  BY <1>1 DEF Known
<1>7. QED
  BY <1>4, <1>5, <1>6, CacheStep

\* What is loaded on demand is the newest version.
LEMMA EnsureKnown ==
  ASSUME FeedInv, NEW b \in Bids, EnsureLoaded(b), UNCHANGED <<log, rt, projecting>>,
         pc # "load"
  PROVE  Known'
<1> SUFFICES ASSUME rt.session, NEW c \in loaded', NEW i \in 1..Len(log),
                    Reached(i), log[i].bid = c, Foreigner(i)
             PROVE  i <= tokens'[c]
  BY DEF Known, Reached, Projecting, Current, Foreigner
<1>1. tokens \in [Bids -> Nat] /\ TypeOK /\ Known
  BY DEF FeedInv, Shaped, TypeOK
<1>2. CASE c \in loaded /\ tokens'[c] = tokens[c]
  BY <1>1, <1>2 DEF Known
<1>3. CASE c = b /\ tokens'[c] = Version(b)
  BY <1>1, <1>3, VersionIsLast
<1>4. QED
  BY <1>1, <1>2, <1>3 DEF EnsureLoaded

\* The beginning of a write.
LEMMA BeginWriteStep ==
  ASSUME FeedInv, Shaped', NEW b \in Bids, BeginWrite(b)
  PROVE  FeedInv'
<1>1. /\ UNCHANGED <<server, rt, captured, fetched, inbox, projecting, view, loads, nav>>
      /\ pc' = "draft" /\ Iterating /\ EnsureLoaded(b)
  BY DEF BeginWrite, Go
<1>2. UNCHANGED log /\ Taken /\ Shaped /\ Course
  BY <1>1 DEF server, Taken, FeedInv
<1>3. rt.ready /\ rt.session /\ pc # "load"
  BY <1>1, <1>2 DEF Iterating, Course
<1>4. SameSession
  BY <1>1 DEF SameSession, Going, Starting, Asking
<1>5. Background
  BY <1>1, <1>2, <1>4, GrowsStill DEF Background, Onward
<1>6. Course'
  BY <1>1, <1>2, <1>3 DEF Course, Starting
<1>7. Known'
  BY <1>1, <1>2, <1>3, EnsureKnown
<1>8. QED
  BY <1>5, <1>6, <1>7, CacheStep

\* A message that was just made is of the past, whatever its generation.
LEMMA FreshPast ==
  ASSUME FeedInv, Shaped', Grows, Still,
         NEW e \in Messages, Real(e), e.owner = captured, e.snap = Len(log), e.gen <= rt'.gen,
         e.kind \in {"batch", "local"} => e.to <= Len(log)
  PROVE  Past(e)'
<1>1. /\ Len(log) \in Nat /\ Len(log') \in Nat /\ loads' = loads /\ owner' = owner
      /\ content' = content /\ Len(log) <= Len(log')
  BY RuntimeType, NextRuntimeType DEF FeedInv, Still, view, Grows
<1>2. /\ captured <= loads /\ content <= Len(log)
      /\ nav.step # "idle" => captured < loads
  BY DEF FeedInv, Positions
<1>3. QED
  BY <1>1, <1>2 DEF Past, Still

\* It comes after all that waits.
LEMMA FreshPair ==
  ASSUME FeedInv, NEW e \in Messages, Real(e), e.snap = Len(log),
         NEW m \in Members(inbox),
         e.kind = "local" /\ Real(m) => m.snap <= e.to,
         e.kind = "batch" /\ m.kind = "batch" => m.gen # e.gen
  PROVE  Pair(m, e)
<1>1. Real(m) => m.snap <= Len(log)
  BY DEF FeedInv, Arriving, Sound, Past
<1>2. QED
  BY <1>1 DEF Pair

\* What is read within a session is ready to be posted.
LEMMA FetchStep ==
  ASSUME FeedInv, Shaped', SameSession, UNCHANGED <<log, captured, inbox, view, loads, nav, cache>>,
         rt'.ready = rt.ready, rt.session, pc # "load", pc' = "deliver",
         NEW e \in Messages, fetched' = e, Real(e), e.kind = "started" \/ rt.ready,
         e.gen = rt.gen, e.owner = captured, e.snap = Len(log), OfSession(e)',
         e.kind \in {"batch", "local"} => e.to <= Len(log),
         \A m \in Members(inbox) : Pair(m, e)
  PROVE  FeedInv'
<1> USE DEF FeedInv
<1>1. Grows /\ Onward /\ Still /\ Taken
  BY GrowsStill DEF Onward, SameSession, Still, Taken
<1>2. e.gen <= rt'.gen
  BY RuntimeType DEF SameSession, Going
<1>3. Past(e)'
  BY <1>1, <1>2, FreshPast
<1>4. Departing'
  BY <1>3 DEF Departing, Sound
<1>5. Arriving'
  BY <1>1, ArrivingKept
<1>6. ReadingBack'
  BY DEF ReadingBack
<1>7. Open' /\ Positions' /\ Covered'
  BY <1>1, OpenKept, PositionsKept, CoveredKept
<1>8. Known'
  BY <1>1, KnownKept
<1>9. Course'
  BY DEF Course, Starting, SameSession, Going
<1>10. QED
  BY <1>4, <1>5, <1>6, <1>7, <1>8, <1>9

\* The rows read at a session's start.
LEMMA HydrateStep ==
  ASSUME FeedInv, Shaped', Hydrate
  PROVE  FeedInv'
<1>1. PICK e : e = Message("started")
  OBVIOUS
<1>2. /\ UNCHANGED <<server, rt, captured, draft, inbox, projecting, view, loads, nav, cache>>
      /\ pc = "hydrate" /\ pc' = "deliver" /\ fetched' = e
  BY <1>1 DEF Hydrate, Fetch, Go
<1>3. /\ e \in Messages /\ e.kind = "started" /\ e.gen = rt.gen /\ e.owner = captured
      /\ e.snap = Len(log)
  BY <1>1, MessageType DEF FeedInv, Shaped
<1>4. Real(e) /\ \A m \in Members(inbox) : Pair(m, e)
  BY <1>3, FreshPair DEF Real
<1>5. SameSession
  BY <1>2, <1>3 DEF SameSession, Going, Starting, Asking
<1>6. rt.session /\ rt.ack <= e.snap
  BY <1>2, <1>3 DEF FeedInv, Course, Positions
<1>7. OfSession(e)'
  BY <1>2, <1>3, <1>6 DEF OfSession, Starting
<1>8. QED
  BY <1>2, <1>3, <1>4, <1>5, <1>6, <1>7, FetchStep DEF server

\* The result of a write, read back.
LEMMA ReadBackStep ==
  ASSUME FeedInv, Shaped', ReadBack
  PROVE  FeedInv'
<1>1. PICK e : e = [Message("local") EXCEPT !.bid = draft.bid, !.to = draft.base]
  OBVIOUS
<1>2. /\ UNCHANGED <<server, rt, captured, inbox, projecting, view, loads, nav, cache>>
      /\ pc = "read" /\ pc' = "deliver" /\ fetched' = e
  BY <1>1 DEF ReadBack, Fetch, Go
<1>3. /\ e \in Messages /\ e.kind = "local" /\ e.gen = rt.gen /\ e.owner = captured
      /\ e.snap = Len(log) /\ e.to = draft.base
  BY <1>1, <1>2, LocalType DEF FeedInv, Shaped, Shapes
<1>4. /\ e.to <= Len(log)
      /\ \A i \in 1..Len(log) : Reached(i) => i <= e.to
      /\ \A m \in Members(inbox) : Real(m) => m.snap <= e.to
  BY <1>2, <1>3 DEF FeedInv, ReadingBack
<1>5. Real(e) /\ \A m \in Members(inbox) : Pair(m, e)
  BY <1>3, <1>4, FreshPair DEF Real
<1>6. SameSession
  BY <1>2, <1>3 DEF SameSession, Going, Starting, Asking
<1>7. rt.session /\ rt.ready
  BY <1>2 DEF FeedInv, Course
<1>8. OfSession(e)'
  BY <1>2, <1>3, <1>4 DEF OfSession, Reached, Projecting, Current, server
<1>9. QED
  BY <1>2, <1>3, <1>4, <1>5, <1>6, <1>7, <1>8, FetchStep DEF server

\* A poll: only one batch is ever under way, and it starts at the checkpoint.
LEMMA PollStep ==
  ASSUME FeedInv, Shaped', Poll
  PROVE  FeedInv'
<1>1. /\ UNCHANGED <<server, captured, draft, inbox, projecting, view, loads, nav, cache>>
      /\ pc = "poll"
  BY DEF Poll
<1>2. /\ rt'.gen = rt.gen /\ rt'.ack = rt.ack /\ rt'.session = rt.session
      /\ rt'.ready = rt.ready /\ rt'.recReq = rt.recReq /\ rt'.pending = rt.pending
  BY DEF Poll, FeedInv, Shaped, TypeOK, Runtimes
<1>3. Asking /\ rt.ready /\ rt.session
  BY <1>1 DEF Asking, FeedInv, Course
<1>4. ~Projecting /\ \A m \in Members(inbox) : m.kind = "batch" => m.gen # rt.gen
  BY <1>3 DEF FeedInv, Open, Projecting, Arriving, Pending, Current, Real
<1>5. pc' \in {"deliver", "check"} => SameSession
  BY <1>1, <1>2, <1>3 DEF SameSession, Going, Starting
<1>6. ASSUME NEW e \in Messages, fetched' = e, pc' = "deliver",
             e.gen = rt.gen, e.owner = captured, e.snap = Len(log),
             \/ e.kind = "invalid"
             \/ e.kind = "batch" /\ e.from = rt.ack /\ e.from < e.to /\ e.to <= Len(log)
      PROVE  FeedInv'
  <2>1. Real(e)
    BY <1>6 DEF Real
  <2>2. \A m \in Members(inbox) : Pair(m, e)
    BY <1>4, <1>6, <2>1, FreshPair
  <2>3. OfSession(e)'
    BY <1>1, <1>2, <1>3, <1>4, <1>6 DEF OfSession, Projecting, Current
  <2>4. QED
    BY <1>1, <1>2, <1>3, <1>5, <1>6, <2>1, <2>2, <2>3, FetchStep DEF server
<1>7. CASE Fetch(Message("invalid"))
  <2>1. PICK e : e = Message("invalid")
    OBVIOUS
  <2>2. /\ e \in Messages /\ e.kind = "invalid" /\ e.gen = rt.gen /\ e.owner = captured
        /\ e.snap = Len(log)
    BY <2>1, MessageType DEF FeedInv, Shaped
  <2>3. fetched' = e /\ pc' = "deliver"
    BY <1>7, <2>1 DEF Fetch, Go
  <2>4. QED
    BY <1>6, <2>2, <2>3
<1>8. CASE Go("check") /\ UNCHANGED fetched
  <2>1. pc' = "check"
    BY <1>8 DEF Go
  <2>2. UNCHANGED log /\ Taken
    BY <1>1 DEF server, Taken
  <2>3. Background
    BY <1>1, <1>5, <2>1, <2>2, GrowsStill DEF Background, Onward, FeedInv
  <2>4. Course'
    BY <1>2, <1>3, <2>1 DEF Course, Starting
  <2>5. QED
    BY <1>1, <2>3, <2>4, BackgroundStep
<1>9. CASE /\ rt.ack < Len(log)
           /\ Fetch([Message("batch") EXCEPT !.from = rt.ack, !.to = Delivered])
  <2>1. PICK e : e = [Message("batch") EXCEPT !.from = rt.ack, !.to = Delivered]
    OBVIOUS
  <2>2. /\ e \in Messages /\ e.kind = "batch" /\ e.gen = rt.gen /\ e.owner = captured
        /\ e.snap = Len(log) /\ e.from = rt.ack /\ e.from < e.to /\ e.to <= Len(log)
    BY <1>9, <2>1, BatchType DEF FeedInv, Shaped
  <2>3. fetched' = e /\ pc' = "deliver"
    BY <1>9, <2>1 DEF Fetch, Go
  <2>4. QED
    BY <1>6, <2>2, <2>3
<1>10. QED
  BY <1>7, <1>8, <1>9 DEF Poll

\* A step that posts something and leaves the worker neither delivering nor reading back.
LEMMA PostStep ==
  ASSUME FeedInv, Shaped', Course', Known', Onward, SameSession \/ NewSession,
         UNCHANGED <<captured, view, loads, nav>>,
         pc' \notin {"deliver", "read"}, Ordered(inbox'),
         \A m \in Members(inbox') :
           m \in Members(inbox) \/ (Real(m) /\ Sound(m)' /\ Pending(m)')
  PROVE  FeedInv'
<1> USE DEF FeedInv
<1>1. Still
  BY DEF Still
<1>2. \A m \in Members(inbox') : ~Real(m) => nav'.step = "posted"
  BY DEF Arriving
<1>3. Arriving'
  BY <1>1, <1>2, ArrivingStep
<1>4. Departing' /\ ReadingBack'
  BY DEF Departing, ReadingBack
<1>5. Open' /\ Positions' /\ Covered'
  BY OpenKept, PositionsKept, CoveredKept
<1>6. QED
  BY <1>3, <1>4, <1>5

\* The posting of what was read.
LEMMA DeliverStep ==
  ASSUME FeedInv, Shaped', Deliver
  PROVE  FeedInv'
<1>1. PICK e : e = fetched
  OBVIOUS
<1>2. /\ UNCHANGED <<server, captured, draft, projecting, view, loads, nav, cache>>
      /\ pc = "deliver" /\ Post(e) /\ pc' = Sequel[e.kind]
      /\ rt' = [rt EXCEPT !.pending = rt.pending \/ e.kind \in {"batch", "invalid"}]
  BY <1>1 DEF Deliver, Go
<1>3. /\ e \in Messages /\ e.kind \in {"started", "local", "batch", "invalid"}
      /\ e.kind = "local" => e.bid \in Bids
      /\ Sound(e) /\ \A m \in Members(inbox) : Pair(m, e)
  BY <1>1, <1>2 DEF FeedInv, Shaped, Shapes, Sequel, Departing
<1>4. Real(e)
  BY <1>3 DEF Real
<1>5. /\ rt'.gen = rt.gen /\ rt'.ack = rt.ack /\ rt'.session = rt.session
      /\ rt'.ready = rt.ready /\ rt'.recReq = rt.recReq
      /\ rt.pending => rt'.pending
      /\ e.kind = "batch" => rt'.pending
  <2>1. PICK p \in BOOLEAN : p = (rt.pending \/ e.kind \in {"batch", "invalid"})
    OBVIOUS
  <2>2. rt' = [rt EXCEPT !.pending = p] /\ rt \in Runtimes
    BY <1>2, <2>1 DEF FeedInv, Shaped, TypeOK
  <2>3. /\ rt'.gen = rt.gen /\ rt'.ack = rt.ack /\ rt'.session = rt.session
        /\ rt'.ready = rt.ready /\ rt'.recReq = rt.recReq /\ rt'.pending = p
    BY <2>2 DEF Runtimes
  <2>4. QED
    BY <2>1, <2>3
<1>6. /\ pc' \in {"await", "mark", "check"}
      /\ pc' # "await" => e.kind # "started"
  BY <1>2, <1>3 DEF Sequel
<1>7. ~Starting' /\ ~Asking'
  BY <1>6 DEF Starting, Asking
<1>8. SameSession
  BY <1>2, <1>5, <1>7 DEF SameSession, Going
<1>9. Onward /\ Still
  BY <1>2, <1>8, GrowsStill DEF Onward, SameSession, FeedInv, server, Still
<1>10. Course'
  BY <1>1, <1>2, <1>5, <1>6, <1>7 DEF FeedInv, Course
<1>11. Sound(e)'
  BY <1>3, <1>4, <1>9, SoundKept DEF FeedInv
<1>12. Pending(e)'
  BY <1>5, <1>7 DEF Pending
<1>13. inbox' = Append(inbox, e) /\ Members(inbox') = Members(inbox) \cup {e}
  BY <1>2, <1>3, PostType DEF FeedInv
<1>14. Ordered(inbox')
  BY <1>3, <1>13, OrderedAppend DEF FeedInv, Shaped, TypeOK, Arriving
<1>15. Known'
  BY <1>2, <1>9, KnownKept DEF FeedInv
<1>16. QED
  BY <1>2, <1>4, <1>6, <1>8, <1>9, <1>10, <1>11, <1>12, <1>13, <1>14, <1>15, PostStep

\* The loss of a session: its successor's callbacks will not mix with its own.
LEMMA LosingStep ==
  ASSUME FeedInv, Shaped', Grows, UNCHANGED <<captured, projecting, view, loads, nav>>,
         rt' = Reset, pc' = "top", Ordered(inbox'),
         \A m \in Members(inbox') :
           \/ m \in Members(inbox)
           \/ /\ m \in Messages /\ m.kind \in {"lost", "unprojected"} /\ m.owner = captured
              /\ m.snap = Len(log) /\ m.gen <= rt.gen + 1
  PROVE  FeedInv'
<1>1. /\ rt'.gen = rt.gen + 1 /\ rt'.session = FALSE /\ rt'.ready = FALSE /\ rt'.ack = rt.ack
      /\ rt.gen \in Nat
  BY ResetFields, RuntimeType DEF FeedInv, Shaped
<1>2. NewSession
  BY <1>1 DEF NewSession, FeedInv, Positions
<1>3. Onward /\ Still
  BY <1>2 DEF Onward, Still
<1>4. Course' /\ Known'
  BY <1>1 DEF Course, Starting, Known
<1>5. ASSUME NEW m \in Messages, m.kind \in {"lost", "unprojected"}, m.owner = captured,
             m.snap = Len(log), m.gen <= rt.gen + 1
      PROVE  Real(m) /\ Sound(m)' /\ Pending(m)'
  <2>1. Real(m)
    BY <1>5 DEF Real
  <2>2. Past(m)'
    BY <1>1, <1>3, <1>5, <2>1, FreshPast
  <2>3. OfSession(m)' /\ Pending(m)'
    BY <1>5 DEF OfSession, Pending
  <2>4. QED
    BY <2>1, <2>2, <2>3 DEF Sound
<1>6. QED
  BY <1>2, <1>3, <1>4, <1>5, PostStep

\* The steps in which a session is lost.
LEMMA LostStep ==
  ASSUME FeedInv, Shaped', LoseSession \/ LoseWrite \/ ReadBackFails
  PROVE  FeedInv'
<1>t. /\ Shaped /\ TypeOK /\ inbox \in Seq(Messages) /\ Ordered(inbox)
      /\ rt.gen \in Nat
  BY RuntimeType DEF FeedInv, Shaped, TypeOK, Arriving
<1>1. PICK e : e = [Message("lost") EXCEPT !.gen = rt.gen + 1]
  OBVIOUS
<1>2. /\ e \in Messages /\ e.kind = "lost" /\ e.gen = rt.gen + 1 /\ e.owner = captured
      /\ e.snap = Len(log)
  BY <1>t, <1>1, LostType
<1>3. Real(e) /\ \A m \in Members(inbox) : Pair(m, e)
  BY <1>2, FreshPair DEF Real
<1>4. CASE LoseSession \/ LoseWrite
  <2>1. /\ UNCHANGED <<captured, projecting, view, loads, nav>>
        /\ rt' = Reset /\ pc' = "top" /\ Post(e)
    BY <1>1, <1>4 DEF LoseSession, LoseWrite, Go
  <2>2. Grows
    <3>1. CASE LoseSession
      BY <1>t, <3>1, GrowsStill DEF LoseSession, server
    <3>2. CASE LoseWrite
      <4>1. draft.bid \in Bids /\ Record(draft.bid, rt.gen)
        BY <1>t, <3>2 DEF LoseWrite, Shaped, Shapes
      <4>2. QED
        BY <1>t, <4>1, RecordGrows
    <3>3. QED
      BY <1>4, <3>1, <3>2
  <2>3. inbox' = Append(inbox, e) /\ Members(inbox') = Members(inbox) \cup {e}
    BY <1>t, <1>2, <2>1, PostType
  <2>4. Ordered(inbox')
    BY <1>t, <1>2, <1>3, <2>3, OrderedAppend
  <2>5. rt.gen + 1 <= rt.gen + 1
    BY <1>t
  <2>6. QED
    BY <1>2, <2>1, <2>2, <2>3, <2>4, <2>5, LosingStep
<1>5. CASE ReadBackFails
  <2>1. PICK u : u = Message("unprojected")
    OBVIOUS
  <2>2. /\ UNCHANGED <<server, captured, projecting, view, loads, nav>>
        /\ rt' = Reset /\ pc' = "top" /\ inbox' = inbox \o <<u, e>>
    BY <1>1, <1>5, <2>1 DEF ReadBackFails, Go
  <2>3. /\ u \in Messages /\ u.kind = "unprojected" /\ u.gen = rt.gen /\ u.owner = captured
        /\ u.snap = Len(log)
    BY <1>t, <2>1, MessageType
  <2>4. Real(u) /\ \A m \in Members(inbox) : Pair(m, u)
    BY <2>3, FreshPair DEF Real
  <2>5. Pair(u, e)
    BY <1>2, <1>3, <2>3, <2>4, RuntimeType DEF Pair
  <2>6. PICK q : q = Append(inbox, u)
    OBVIOUS
  <2>7. q \in Seq(Messages) /\ Members(q) = Members(inbox) \cup {u} /\ Ordered(q)
    BY <1>t, <2>3, <2>4, <2>6, MembersAppend, OrderedAppend
  <2>8. inbox' = Append(q, e) /\ Members(inbox') = Members(q) \cup {e}
    <3>1. inbox \o <<u, e>> = Append(Append(inbox, u), e)
      BY <1>t, <1>2, <2>3, MembersTwice
    <3>2. inbox' = Append(q, e)
      BY <2>2, <2>6, <3>1
    <3>3. Members(Append(q, e)) = Members(q) \cup {e}
      BY <1>2, <2>7, MembersAppend
    <3>4. QED
      BY <3>2, <3>3
  <2>9. Ordered(inbox')
    <3>1. \A m \in Members(q) : Pair(m, e)
      BY <1>3, <2>5, <2>7
    <3>2. QED
      BY <1>2, <2>7, <2>8, <3>1, OrderedAppend
  <2>10. Grows
    BY <1>t, <2>2, GrowsStill DEF server
  <2>11. rt.gen <= rt.gen + 1 /\ rt.gen + 1 <= rt.gen + 1
    BY <1>t
  <2>12. \A m \in Members(inbox') : m \in Members(inbox) \/ m = u \/ m = e
    BY <2>7, <2>8
  <2>13. QED
    BY <1>2, <2>2, <2>3, <2>9, <2>10, <2>11, <2>12, LosingStep
<1>6. QED
  BY <1>4, <1>5

\* The end of an iteration, with or without the news that editing returns.
LEMMA CheckStep ==
  ASSUME FeedInv, Shaped', Check
  PROVE  FeedInv'
<1>t. Shaped /\ TypeOK /\ rt \in Runtimes /\ inbox \in Seq(Messages) /\ Ordered(inbox)
  BY DEF FeedInv, Shaped, TypeOK, Arriving
<1>1. PICK e : e = Message("restored")
  OBVIOUS
<1>2. /\ UNCHANGED <<server, captured, projecting, view, loads, nav, cache>>
      /\ pc = "check" /\ pc' = "top"
  BY DEF Check, Go
<1>3. PICK caughtUp \in BOOLEAN : caughtUp = (~rt.pending /\ rt.ack >= rt.high)
  OBVIOUS
<1>4. \/ /\ rt' = [rt EXCEPT !.healthy = TRUE, !.announced = TRUE, !.recTried = FALSE]
         /\ Post(e)
      \/ rt' = [rt EXCEPT !.healthy = caughtUp] /\ inbox' = inbox
  BY <1>1, <1>3 DEF Check
<1>5. /\ rt'.gen = rt.gen /\ rt'.ack = rt.ack /\ rt'.session = rt.session
      /\ rt'.ready = rt.ready /\ rt'.recReq = rt.recReq /\ rt'.pending = rt.pending
  BY <1>t, <1>4 DEF Runtimes
<1>6. rt.ready /\ rt.session
  BY <1>2 DEF FeedInv, Course
<1>7. SameSession
  BY <1>2, <1>5 DEF SameSession, Going, Starting, Asking
<1>8. Onward /\ Still
  BY <1>2, <1>7, <1>t, GrowsStill DEF Onward, SameSession, server, Still
<1>9. Course' /\ Known'
  BY <1>2, <1>5, <1>6, <1>8, KnownKept DEF Course, Starting, FeedInv
<1>10. /\ e \in Messages /\ e.kind = "restored" /\ e.gen = rt.gen /\ e.owner = captured
       /\ e.snap = Len(log)
  BY <1>t, <1>1, MessageType
<1>11. Real(e) /\ \A m \in Members(inbox) : Pair(m, e)
  BY <1>10, FreshPair DEF Real
<1>12. Sound(e)' /\ Pending(e)'
  <2>1. e.gen <= rt'.gen /\ Grows
    BY <1>5, <1>8, <1>10, RuntimeType DEF FeedInv, Onward
  <2>2. Past(e)'
    BY <1>8, <1>10, <1>11, <2>1, FreshPast
  <2>3. QED
    BY <1>10, <2>2 DEF Sound, OfSession, Pending
<1>13. CASE Post(e)
  <2>1. inbox' = Append(inbox, e) /\ Members(inbox') = Members(inbox) \cup {e}
    BY <1>t, <1>10, <1>13, PostType
  <2>2. Ordered(inbox')
    BY <1>t, <1>10, <1>11, <2>1, OrderedAppend
  <2>3. QED
    BY <1>2, <1>7, <1>8, <1>9, <1>11, <1>12, <2>1, <2>2, PostStep
<1>14. CASE inbox' = inbox
  BY <1>2, <1>7, <1>8, <1>9, <1>14, <1>t, PostStep
<1>15. QED
  BY <1>4, <1>13, <1>14

\* A write that commits is the newest change there is.
LEMMA WriteStep ==
  ASSUME FeedInv, Shaped', Write
  PROVE  FeedInv'
<1> USE DEF FeedInv
<1>t. /\ Shaped /\ TypeOK /\ Len(log) \in Nat /\ rt.gen \in Nat
  BY RuntimeType DEF Shaped
<1>1. /\ UNCHANGED <<oldest, rt, fetched, inbox, projecting, view, loads, nav, loaded>>
      /\ pc = "draft" /\ pc' = "read" /\ captured' = owner
      /\ draft' = [draft EXCEPT !.base = Len(log) + 1]
      /\ tokens' = [tokens EXCEPT ![draft.bid] = Len(log) + 1]
      /\ Record(draft.bid, rt.gen) /\ draft.bid \in Bids
  BY <1>t DEF Write, Go, Shaped, Shapes
<1>2. /\ Len(log') = Len(log) + 1 /\ Grows
      /\ \A i \in 1..Len(log) : log'[i] = log[i]
  BY <1>1, <1>t, RecordType, RecordGrows
<1>3. SameSession
  BY <1>1 DEF SameSession, Going, Starting, Asking
<1>4. Onward /\ Still /\ Taken
  BY <1>1, <1>2, <1>3 DEF Onward, SameSession, Still, Taken
<1>5. Course'
  BY <1>1 DEF Course, Starting
<1>6. Arriving'
  BY <1>1, <1>4, ArrivingKept
<1>7. Departing'
  BY <1>1 DEF Departing
<1>8. ReadingBack'
  <2>1. draft'.base = Len(log')
    BY <1>1, <1>2, <1>t DEF TypeOK
  <2>2. \A m \in Members(inbox) : Real(m) => m.snap <= Len(log) + 1
    <3>1. ASSUME NEW m \in Members(inbox), Real(m)
          PROVE  m.snap <= Len(log) + 1
      <4>1. m \in Messages /\ m.snap <= Len(log)
        BY <3>1, InboxType DEF Arriving, Sound, Past
      <4>2. m.snap \in Nat
        BY <3>1, <4>1, RealType DEF Real
      <4>3. QED
        BY <1>t, <4>1, <4>2
    <3>2. QED
      BY <3>1
  <2>3. QED
    BY <1>1, <1>2, <1>t, <2>1, <2>2 DEF ReadingBack
<1>9. Open' /\ Covered'
  BY <1>1, <1>3, <1>4, OpenKept, CoveredKept
<1>10. Positions'
  BY <1>1, <1>4, PositionsKept
<1>11. Known'
  <2> SUFFICES ASSUME NEW b \in loaded, NEW i \in 1..Len(log'),
                      Reached(i)', log'[i].bid = b, Foreigner(i)'
               PROVE  i <= tokens'[b]
    BY <1>1 DEF Known
  <2>1. Reached(i)
    BY <1>3, <1>4, ReachedKept DEF SameSession
  <2>2. i \in 1..Len(log) /\ b \in Bids /\ tokens \in [Bids -> Nat]
    BY <1>t, <2>1, ReachedPast DEF TypeOK
  <2>3. log[i].bid = b /\ Foreigner(i) /\ rt.session /\ pc # "load"
    BY <1>1, <1>2, <2>2 DEF Foreigner, Course
  <2>4. i <= tokens[b]
    BY <2>1, <2>2, <2>3 DEF Known
  <2>5. CASE b = draft.bid
    BY <1>1, <1>t, <2>2, <2>5
  <2>6. CASE b # draft.bid
    BY <1>1, <2>2, <2>4, <2>6
  <2>7. QED
    BY <2>5, <2>6
<1>12. QED
  BY <1>5, <1>6, <1>7, <1>8, <1>9, <1>10, <1>11

-----------------------------------------------------------------------------
(* The projections. *)

\* What is shown was read at the moment of a message that waited first, so no message that
\* still waits is older.
LEMMA ShownPast ==
  ASSUME FeedInv, UNCHANGED <<log, owner, loads, nav>>, rt'.gen = rt.gen,
         NEW h, Real(h), content' \in {content, h.snap},
         NEW m \in Messages, Real(m), Past(m), Pair(h, m)
  PROVE  Past(m)'
<1>1. h.snap <= m.snap
  BY DEF Pair
<1>2. QED
  BY <1>1 DEF Past

\* The main thread projects the head of the queue.
LEMMA ProjectedStep ==
  ASSUME FeedInv, Shaped', NEW h, h = Head(inbox), Real(h), Past(h), h.snap \in Nat,
         inbox # <<>>, inbox' = Tail(inbox),
         UNCHANGED <<log, worker, active, owner, loads, nav>>,
         rt'.gen = rt.gen, rt'.ack = rt.ack, rt.pending => rt'.pending,
         content' \in {content, h.snap}, active = NoBid => content' = content,
         \A m \in Messages : Real(m) /\ Past(m) /\ OfSession(m) /\ Pair(h, m) => OfSession(m)',
         pc = "read" => \A i \in 1..Len(log) : Reached(i)' => i <= draft.base,
         Course', Open', Known', Covered'
  PROVE  FeedInv'
<1>1. UNCHANGED <<pc, captured, draft, fetched>> /\ inbox \in Seq(Messages)
  BY DEF worker, FeedInv, Shaped, TypeOK
<1>2. /\ Members(inbox') \subseteq Members(inbox) /\ h \in Members(inbox)
      /\ Ordered(inbox') /\ \A m \in Members(inbox') : Pair(h, m)
  BY <1>1, MembersTail, OrderedTail DEF FeedInv, Arriving
<1>3. ASSUME NEW m \in Messages, Real(m), Sound(m), Pair(h, m)
      PROVE  Sound(m)'
  BY <1>3, ShownPast DEF Sound
<1>4. Arriving'
  <2>1. ASSUME NEW m \in Members(inbox'), Real(m)
        PROVE  Sound(m)' /\ Pending(m)'
    <3>1. m \in Messages /\ Sound(m) /\ Pending(m) /\ Pair(h, m)
      BY <1>2, <2>1, InboxType DEF FeedInv, Arriving
    <3>2. Sound(m)'
      BY <1>3, <2>1, <3>1
    <3>3. Pending(m)'
      BY <1>1, <3>1 DEF Pending, Current, Asking
    <3>4. QED
      BY <3>2, <3>3
  <2>2. \A m \in Members(inbox') : ~Real(m) => nav'.step = "posted"
    BY <1>2 DEF FeedInv, Arriving
  <2>3. QED
    BY <1>2, <2>1, <2>2 DEF Arriving
<1>5. Departing'
  <2> SUFFICES ASSUME pc = "deliver"
               PROVE  Sound(fetched)' /\ \A m \in Members(inbox') : Pair(m, fetched)'
    BY <1>1 DEF Departing
  <2>1. PICK e : e = fetched
    OBVIOUS
  <2>2. /\ e \in Messages /\ e.kind \in {"started", "local", "batch", "invalid"} /\ Sound(e)
        /\ \A m \in Members(inbox) : Pair(m, e)
    BY <2>1 DEF FeedInv, Shaped, Shapes, Sequel, Departing
  <2>3. Real(e) /\ Pair(h, e)
    BY <1>2, <2>2 DEF Real
  <2>4. Sound(e)'
    BY <1>3, <2>2, <2>3
  <2>5. fetched' = e
    BY <1>1, <2>1
  <2>6. QED
    BY <1>2, <2>2, <2>4, <2>5
<1>6. ReadingBack'
  BY <1>1, <1>2 DEF FeedInv, ReadingBack
<1>7. Positions'
  <2>1. h.snap <= Len(log)
    BY DEF Past
  <2>2. QED
    BY <1>1, <2>1 DEF FeedInv, Positions
<1>8. QED
  BY <1>4, <1>5, <1>6, <1>7 DEF FeedInv

\* A message of this session that names the bid shown.
LEMMA HeadFacts ==
  ASSUME FeedInv, NEW k, k # "loaded", Receive(k), NEW h, h = Head(inbox), SessionCurrent(h)
  PROVE  /\ h \in Messages /\ h.kind = k /\ h \in Members(inbox) /\ Current(h) /\ Real(h)
         /\ inbox # <<>> /\ inbox' = Tail(inbox) /\ h.snap \in Nat /\ h.to \in Nat /\ h.from \in Nat
         /\ Past(h) /\ OfSession(h) /\ Pending(h)
<1>1. /\ inbox # <<>> /\ inbox' = Tail(inbox) /\ h \in Members(inbox) /\ h \in Messages
      /\ h.kind = k
  BY ReceiveType DEF FeedInv
<1>2. Real(h) /\ Current(h)
  BY <1>1 DEF Real, Current, SessionCurrent
<1>3. QED
  BY <1>1, <1>2, RealType DEF FeedInv, Arriving, Sound

\* The rows read at a session's start are shown.
LEMMA HandleStartedStep ==
  ASSUME FeedInv, Shaped', HandleStarted
  PROVE  FeedInv'
<1> USE DEF FeedInv
<1>1. PICK h : h = Head(inbox)
  OBVIOUS
<1>2. /\ h \in Messages /\ h.kind = "started" /\ h \in Members(inbox) /\ Current(h) /\ Real(h)
      /\ inbox # <<>> /\ inbox' = Tail(inbox) /\ h.snap \in Nat
      /\ Past(h) /\ OfSession(h)
  BY <1>1, HeadFacts DEF HandleStarted
<1>3. UNCHANGED <<server, worker, projecting, active, owner, loads, nav, cache>>
  BY DEF HandleStarted
<1>4. CASE ~OwnerCurrent(h)
  <2>1. RequireRecovery([Replaced(rt) EXCEPT !.ready = TRUE]) /\ UNCHANGED content
    BY <1>1, <1>4 DEF HandleStarted
  <2>2. UNCHANGED view /\ Receive("started") /\ SessionCurrent(Head(inbox))
    BY <1>3, <2>1 DEF view, HandleStarted
  <2>3. QED
    BY <1>3, <2>1, <2>2, ReadyRecoveryStep
<1>5. CASE OwnerCurrent(h)
  <2>1. /\ rt' = [rt EXCEPT !.healthy = FALSE, !.ready = TRUE]
        /\ content' = IF active = NoBid THEN content ELSE h.snap
    BY <1>1, <1>5 DEF HandleStarted
  <2>2. /\ rt'.gen = rt.gen /\ rt'.ack = rt.ack /\ rt'.session = rt.session
        /\ rt'.ready = TRUE /\ rt'.recReq = rt.recReq /\ rt'.pending = rt.pending
    BY <2>1 DEF Shaped, TypeOK, Runtimes
  <2>3. UNCHANGED <<log, pc, captured, draft, fetched, projecting, tokens, loaded>>
    BY <1>3 DEF server, worker, cache
  <2>4. Going
    BY <2>2, <2>3 DEF Going, Starting, Asking
  <2>5. Onward
    BY <2>3, <2>4, GrowsStill DEF Onward
  <2>6. ~Starting /\ rt.session /\ (rt.ready \/ rt.ack <= h.snap)
    BY <1>2 DEF OfSession
  <2>7. Course'
    BY <2>2, <2>3, <2>6 DEF Course, Starting
  <2>8. Open'
    BY <2>5, OpenKept
  <2>9. Known'
    BY <2>3, <2>5, KnownKept DEF cache
  <2>10. content <= h.snap
    BY <1>2, <1>5 DEF Past, OwnerCurrent
  <2>11. Covered'
    <3> SUFFICES ASSUME ~rt.recReq, NEW i \in 1..Len(log), Reached(i)', log[i].bid = active,
                        Foreigner(i)
                 PROVE  i <= content'
      BY <1>3, <2>2, <2>3 DEF Covered, Foreigner
    <3>1. Reached(i)
      BY <2>4, <2>5, ReachedKept
    <3>2. content' = h.snap
      <4>1. log[i] \in Changes
        BY ElementOfSeq DEF Shaped, TypeOK
      <4>2. active # NoBid
        BY <4>1, NoBidAssumption DEF Changes
      <4>3. QED
        BY <2>1, <4>2
    <3>3. CASE rt.ready
      <4>1. i <= content
        BY <3>1, <3>3 DEF Covered
      <4>2. QED
        BY <1>2, <2>10, <3>2, <4>1, RuntimeType
    <3>4. CASE ~rt.ready
      <4>1. ~Projecting /\ rt.ack <= h.snap
        BY <2>6, <3>4 DEF Open, Projecting
      <4>2. i <= rt.ack
        BY <3>1, <4>1 DEF Reached
      <4>3. QED
        BY <1>2, <3>2, <4>1, <4>2, RuntimeType
    <3>5. QED
      BY <3>3, <3>4
  <2>12. \A m \in Messages : Real(m) /\ Past(m) /\ OfSession(m) => OfSession(m)'
    BY <2>5, OfSessionKept
  <2>13. pc = "read" => \A i \in 1..Len(log) : Reached(i)' => i <= draft.base
    BY <2>4, <2>5, ReachedKept DEF ReadingBack
  <2>14. /\ content' \in {content, h.snap}
         /\ active = NoBid => content' = content
    BY <2>1
  <2>15. QED
    BY <1>1, <1>2, <1>3, <2>2, <2>3, <2>7, <2>8, <2>9, <2>11, <2>12, <2>13, <2>14, ProjectedStep
<1>6. QED
  BY <1>4, <1>5

\* The result of a write is shown, and its version cached.
LEMMA HandleLocalStep ==
  ASSUME FeedInv, Shaped', HandleLocal
  PROVE  FeedInv'
<1> USE DEF FeedInv
<1>1. PICK h : h = Head(inbox)
  OBVIOUS
<1>2. UNCHANGED <<server, worker, projecting, active, owner, loads, nav, loaded>>
  BY DEF HandleLocal
<1>3. CASE ~(SessionCurrent(h) /\ OwnerCurrent(h))
  <2>1. RequireRecovery(Reconciling(rt)) /\ UNCHANGED <<content, tokens>>
    BY <1>1, <1>3 DEF HandleLocal
  <2>2. UNCHANGED <<view, cache>>
    BY <1>2, <2>1 DEF view, cache
  <2>3. Taken
    BY ReceiveType DEF HandleLocal, Taken
  <2>4. QED
    BY <1>2, <2>1, <2>2, <2>3, RecoveryStep
<1>4. CASE SessionCurrent(h) /\ OwnerCurrent(h)
  <2>1. /\ content' = IF h.bid = active THEN h.snap ELSE content
        /\ tokens' = [tokens EXCEPT ![h.bid] = h.to]
        /\ UNCHANGED rt
    BY <1>1, <1>4 DEF HandleLocal
  <2>2. /\ h \in Messages /\ h.kind = "local" /\ h \in Members(inbox) /\ Current(h) /\ Real(h)
        /\ inbox # <<>> /\ inbox' = Tail(inbox) /\ h.snap \in Nat /\ h.to \in Nat
        /\ Past(h) /\ OfSession(h)
    BY <1>1, <1>4, HeadFacts DEF HandleLocal
  <2>3. UNCHANGED <<log, pc, captured, draft, fetched, projecting>>
    BY <1>2 DEF server, worker
  <2>4. Going
    BY <2>1, <2>3 DEF Going, Starting, Asking
  <2>5. Onward
    BY <2>3, <2>4, GrowsStill DEF Onward
  <2>6. Course'
    BY <2>1, <2>3 DEF Course, Starting
  <2>7. Open'
    BY <2>5, OpenKept
  <2>8. Known'
    <3> SUFFICES ASSUME rt.session, pc # "load", NEW b \in loaded, NEW i \in 1..Len(log),
                        Reached(i)', log[i].bid = b, Foreigner(i)
                 PROVE  i <= tokens'[b]
      BY <1>2, <2>1, <2>3 DEF Known, Foreigner
    <3>1. Reached(i) /\ b \in Bids /\ tokens \in [Bids -> Nat]
      BY <2>4, <2>5, ReachedKept DEF Shaped, TypeOK
    <3>2. CASE b = h.bid
      <4>1. i <= h.to
        BY <2>2, <3>1 DEF OfSession
      <4>2. QED
        BY <2>1, <3>1, <3>2, <4>1
    <3>3. CASE b # h.bid
      BY <2>1, <3>1, <3>3 DEF Known
    <3>4. QED
      BY <3>2, <3>3
  <2>9. content <= h.snap
    BY <1>4, <2>2 DEF Past, OwnerCurrent
  <2>10. Covered'
    <3> SUFFICES ASSUME rt.ready, ~rt.recReq, NEW i \in 1..Len(log), Reached(i)',
                        log[i].bid = active, Foreigner(i)
                 PROVE  i <= content'
      BY <1>2, <2>1, <2>3 DEF Covered, Foreigner
    <3>1. Reached(i)
      BY <2>4, <2>5, ReachedKept
    <3>2. i <= content
      BY <3>1 DEF Covered
    <3>3. QED
      BY <2>1, <2>2, <2>9, <3>2, RuntimeType
  <2>11. \A m \in Messages : Real(m) /\ Past(m) /\ OfSession(m) => OfSession(m)'
    BY <2>5, OfSessionKept
  <2>12. pc = "read" => \A i \in 1..Len(log) : Reached(i)' => i <= draft.base
    BY <2>4, <2>5, ReachedKept DEF ReadingBack
  <2>13. /\ content' \in {content, h.snap}
         /\ active = NoBid => content' = content
    <3>1. h.bid \in Bids
      BY <2>2 DEF Shaped, Shapes
    <3>2. QED
      BY <2>1, <3>1, NoBidAssumption
  <2>14. QED
    BY <1>1, <1>2, <2>1, <2>2, <2>3, <2>6, <2>7, <2>8, <2>10, <2>11, <2>12, <2>13, ProjectedStep
<1>5. QED
  BY <1>3, <1>4

\* A batch is shown, and the versions its changes resulted in are cached.
LEMMA HandleBatchStep ==
  ASSUME FeedInv, Shaped', HandleBatch
  PROVE  FeedInv'
<1> USE DEF FeedInv
<1>1. PICK h : h = Head(inbox)
  OBVIOUS
<1>2. /\ UNCHANGED <<server, worker, active, owner, loads, nav, loaded>>
      /\ Receive("batch") /\ SessionCurrent(h)
  BY <1>1 DEF HandleBatch
<1>3. /\ h \in Messages /\ h.kind = "batch" /\ h \in Members(inbox) /\ Current(h) /\ Real(h)
      /\ inbox # <<>> /\ inbox' = Tail(inbox)
      /\ h.snap \in Nat /\ h.to \in Nat /\ h.from \in Nat
      /\ Past(h) /\ OfSession(h) /\ Pending(h)
  BY <1>1, <1>2, HeadFacts
<1>4. CASE ~OwnerCurrent(h)
  <2>1. RequireRecovery(Replaced(rt)) /\ UNCHANGED <<content, tokens, projecting>>
    BY <1>1, <1>4 DEF HandleBatch
  <2>2. UNCHANGED <<view, cache>> /\ Taken
    BY <1>2, <1>3, <2>1 DEF view, cache, Taken
  <2>3. QED
    BY <1>2, <2>1, <2>2, RecoveryStep
<1>5. CASE OwnerCurrent(h)
  <2> DEFINE last(b) == CHOOSE i \in ForeignTo(h, b) : \A j \in ForeignTo(h, b) : j <= i
  <2>1. /\ content' = IF active # NoBid /\ ForeignTo(h, active) # {} THEN h.snap ELSE content
        /\ tokens' = [b \in Bids |-> IF ForeignTo(h, b) # {} THEN last(b) ELSE tokens[b]]
        /\ projecting' = h /\ UNCHANGED rt
    BY <1>1, <1>5 DEF HandleBatch
  <2>2. \A b \in Bids : ForeignTo(h, b) # {} =>
          last(b) \in ForeignTo(h, b) /\ \A j \in ForeignTo(h, b) : j <= last(b)
    BY <1>3, LastForeign
  <2> HIDE DEF last
  <2>3. UNCHANGED <<log, pc, captured, draft, fetched>>
    BY <1>2 DEF server, worker
  <2>4. /\ rt.ready /\ h.from = rt.ack /\ h.from < h.to /\ ~Projecting
        /\ rt.pending /\ ~Asking /\ h.gen = rt.gen
        /\ h.to <= h.snap /\ h.snap <= Len(log) /\ content <= h.snap
    BY <1>3, <1>5 DEF OfSession, Pending, Past, OwnerCurrent, Current
  <2>5. h # NoBatch
    BY <1>3, NothingType
  <2>6. \A i : Reached(i)' <=> i <= rt.ack \/ i <= h.to
    BY <2>1, <2>4, <2>5 DEF Reached, Projecting, Current
  <2>7. \A i : Reached(i) <=> i <= rt.ack
    BY <2>4 DEF Reached
  <2>8. Course'
    BY <2>1, <2>3 DEF Course, Starting
  <2>9. Open'
    <3>1. h.gen <= rt.gen /\ h.to <= Len(log)
      BY <1>3, <2>4, RuntimeType DEF Past
    <3>2. QED
      BY <2>1, <2>3, <2>4, <3>1 DEF Open, Asking
  <2>10. ASSUME NEW b \in Bids, NEW i \in 1..Len(log), log[i].bid = b, Foreigner(i),
                Reached(i)', ~Reached(i)
         PROVE  i \in ForeignTo(h, b)
    <3>1. i \in (h.from + 1)..h.to
      BY <1>3, <2>4, <2>6, <2>7, <2>10
    <3>2. QED
      BY <2>4, <2>10, <3>1 DEF ForeignTo, Foreign, Foreigner
  <2>11. Known'
    <3> SUFFICES ASSUME rt.session, pc # "load", NEW b \in loaded, NEW i \in 1..Len(log),
                        Reached(i)', log[i].bid = b, Foreigner(i)
                 PROVE  i <= tokens'[b]
      BY <1>2, <2>1, <2>3 DEF Known, Foreigner
    <3>1. b \in Bids /\ tokens \in [Bids -> Nat]
      BY DEF Shaped, TypeOK
    <3>2. CASE ForeignTo(h, b) = {}
      <4>1. Reached(i)
        BY <2>10, <3>1, <3>2
      <4>2. QED
        BY <2>1, <3>1, <3>2, <4>1 DEF Known
    <3>3. CASE ForeignTo(h, b) # {} /\ ~Reached(i)
      BY <2>1, <2>2, <2>10, <3>1, <3>3
    <3>4. CASE ForeignTo(h, b) # {} /\ Reached(i)
      <4>1. tokens'[b] \in ForeignTo(h, b)
        BY <2>1, <2>2, <3>1, <3>4
      <4>2. tokens'[b] \in (h.from + 1)..h.to
        BY <4>1 DEF ForeignTo, Foreign
      <4>3. i <= h.from
        BY <2>4, <2>7, <3>4
      <4>4. QED
        BY <1>3, <4>2, <4>3
    <3>5. QED
      BY <3>2, <3>3, <3>4
  <2>12. Covered'
    <3> SUFFICES ASSUME rt.ready, ~rt.recReq, NEW i \in 1..Len(log), Reached(i)',
                        log[i].bid = active, Foreigner(i)
                 PROVE  i <= content'
      BY <1>2, <2>1, <2>3 DEF Covered, Foreigner
    <3>1. active \in Bids /\ active # NoBid
      <4>1. log[i] \in Changes
        BY ElementOfSeq DEF Shaped, TypeOK
      <4>2. QED
        BY <4>1, NoBidAssumption DEF Changes
    <3>2. CASE Reached(i)
      <4>1. i <= content
        BY <3>2 DEF Covered
      <4>2. QED
        BY <1>3, <2>1, <2>4, <4>1, RuntimeType
    <3>3. CASE ~Reached(i)
      <4>1. i \in ForeignTo(h, active) /\ i <= h.to
        BY <2>6, <2>7, <2>10, <3>1, <3>3
      <4>2. content' = h.snap
        BY <2>1, <3>1, <4>1
      <4>3. QED
        BY <1>3, <2>4, <4>1, <4>2
    <3>4. QED
      BY <3>2, <3>3
  <2>13. ASSUME NEW m \in Messages, Real(m), Past(m), OfSession(m), Pair(h, m)
         PROVE  OfSession(m)'
    <3> SUFFICES ASSUME Current(m)
                 PROVE  OfSession(m)'
      BY <2>1 DEF OfSession, Current
    <3>1. m.kind # "batch" /\ h.snap <= m.snap /\ (m.kind = "local" => h.snap <= m.to)
      BY <1>3, <2>13 DEF Pair, Current
    <3>2. ASSUME m.kind = "local", NEW i \in 1..Len(log), Reached(i)'
          PROVE  i <= m.to
      <4>1. CASE Reached(i)
        BY <2>13, <3>2, <4>1 DEF OfSession
      <4>2. CASE ~Reached(i)
        <5>1. i <= h.to /\ m.to \in Nat
          BY <2>6, <2>7, <2>13, <3>2, <4>2, RealType DEF Real
        <5>2. QED
          BY <1>3, <2>4, <3>1, <3>2, <5>1
      <4>3. QED
        BY <4>1, <4>2
    <3>3. m.kind = "started" => (~Starting /\ rt.session /\ (rt.ready \/ rt.ack <= m.snap))'
      BY <2>1, <2>3, <2>13 DEF OfSession, Starting
    <3>4. QED
      BY <2>3, <3>1, <3>2, <3>3 DEF OfSession
  <2>14. ASSUME pc = "read", NEW i \in 1..Len(log), Reached(i)'
         PROVE  i <= draft.base
    <3>1. h.snap <= draft.base /\ draft.base \in Nat
      BY <1>3, <2>14 DEF ReadingBack, Shaped, TypeOK
    <3>2. CASE Reached(i)
      BY <2>14, <3>2 DEF ReadingBack
    <3>3. CASE ~Reached(i)
      BY <1>3, <2>4, <2>6, <2>7, <2>14, <3>1, <3>3
    <3>4. QED
      BY <3>2, <3>3
  <2>15. /\ content' \in {content, h.snap}
         /\ active = NoBid => content' = content
    BY <2>1
  <2>16. QED
    BY <1>1, <1>2, <1>3, <2>1, <2>3, <2>8, <2>9, <2>11, <2>12, <2>13, <2>14, <2>15, ProjectedStep
<1>6. QED
  BY <1>4, <1>5

\* The end of a batch's barrier: the checkpoint moves to what was already reached.
LEMMA FinishBatchStep ==
  ASSUME FeedInv, Shaped', FinishBatch
  PROVE  FeedInv'
<1> USE DEF FeedInv
<1>t. rt \in Runtimes
  BY DEF Shaped, TypeOK
<1>1. /\ UNCHANGED <<server, worker, inbox, view, loads, nav, cache>>
      /\ projecting' = NoBatch /\ Projecting
  BY DEF FinishBatch, SessionCurrent, Projecting, Current
<1>2. UNCHANGED <<log, pc, captured, draft, fetched, active, owner, content, tokens, loaded>>
  BY <1>1 DEF server, worker, view, cache
<1>3. /\ rt.ready /\ rt.pending /\ ~Asking /\ projecting.to <= Len(log) /\ projecting.to \in Nat
  BY <1>1, OpenType DEF Open, Projecting
<1>4. PICK a \in Nat : a = IF ~rt.recReq THEN projecting.to ELSE rt.ack
  BY <1>3, RuntimeType
<1>5. PICK p \in BOOLEAN : p = ~(~rt.recReq)
  OBVIOUS
<1>6. PICK d \in BOOLEAN : d = (~rt.recReq /\ projecting.to >= rt.high)
  OBVIOUS
<1>7. rt' = [rt EXCEPT !.ack = a, !.pending = p, !.healthy = d]
  BY <1>4, <1>5, <1>6 DEF FinishBatch
<1>8. /\ rt'.gen = rt.gen /\ rt'.ack = a /\ rt'.session = rt.session
      /\ rt'.ready = rt.ready /\ rt'.recReq = rt.recReq
  BY <1>t, <1>7 DEF Runtimes
<1>9. \A i : Reached(i)' => Reached(i)
  BY <1>1, <1>4, <1>8 DEF Reached, Projecting
<1>10. \A m : m.kind = "batch" /\ OfSession(m) => ~Current(m)
  BY <1>1 DEF OfSession
<1>11. ~Projecting'
  BY <1>1 DEF Projecting
<1>12. ASSUME NEW m, Sound(m)
       PROVE  Sound(m)' /\ Pending(m)'
  <2>1. Past(m)'
    BY <1>1, <1>2, <1>8, <1>12 DEF Sound, Past
  <2>2. OfSession(m)'
    BY <1>2, <1>3, <1>8, <1>9, <1>10, <1>12 DEF Sound, OfSession, Current, Starting
  <2>3. Pending(m)'
    BY <1>8, <1>10, <1>12 DEF Sound, Pending, Current
  <2>4. QED
    BY <2>1, <2>2, <2>3 DEF Sound
<1>13. Course'
  BY <1>2, <1>8 DEF Course, Starting
<1>14. Arriving'
  BY <1>1, <1>12 DEF Arriving
<1>15. Departing'
  <2>1. PICK e : e = fetched
    OBVIOUS
  <2>2. Sound(e) => Sound(e)'
    BY <1>12
  <2>3. fetched' = e
    BY <1>2, <2>1
  <2>4. QED
    BY <1>1, <1>2, <2>1, <2>2, <2>3 DEF Departing
<1>16. ReadingBack'
  BY <1>1, <1>2, <1>9 DEF ReadingBack
<1>17. Open'
  BY <1>1 DEF Open
<1>18. Positions'
  <2>1. a <= Len(log)
    BY <1>3, <1>4 DEF Positions
  <2>2. QED
    BY <1>1, <1>2, <1>8, <2>1 DEF Positions
<1>19. Known'
  BY <1>2, <1>8, <1>9 DEF Known, Foreigner
<1>20. Covered'
  BY <1>2, <1>8, <1>9 DEF Covered, Foreigner
<1>21. QED
  BY <1>13, <1>14, <1>15, <1>16, <1>17, <1>18, <1>19, <1>20

\* A navigation leaves the worker and its session alone: it is enough that the messages stay
\* of the past, and that versions, positions and what is shown fit.
LEMMA NavStep ==
  ASSUME FeedInv, Shaped', UNCHANGED <<log, rt, worker, projecting>>,
         \A m \in Messages : Real(m) /\ Past(m) => Past(m)',
         \A m \in Members(inbox') : IF Real(m) THEN m \in Members(inbox)
                                               ELSE m.kind = "loaded" /\ nav'.step = "posted",
         Ordered(inbox)', Positions', Known', Covered'
  PROVE  FeedInv'
<1> USE DEF FeedInv
<1>1. UNCHANGED <<pc, captured, draft, fetched>>
  BY DEF worker
<1>2. ASSUME NEW m \in Messages, Real(m), Sound(m)
      PROVE  Sound(m)'
  <2>1. OfSession(m)'
    BY <1>1, <1>2
       DEF Sound, OfSession, Current, Starting, Reached, Projecting
  <2>2. QED
    BY <1>2, <2>1 DEF Sound
<1>3. \A m \in Members(inbox) : m \in Messages
  BY MembersType DEF Shaped, TypeOK
<1>4. \A m : Pending(m) => Pending(m)'
  BY <1>1 DEF Pending, Current, Asking
<1>5. Arriving'
  <2>1. \A m \in Members(inbox') : Real(m) => Sound(m)' /\ Pending(m)'
    BY <1>2, <1>3, <1>4 DEF Arriving
  <2>2. \A m \in Members(inbox') : ~Real(m) => nav'.step = "posted"
    OBVIOUS
  <2>3. QED
    BY <2>1, <2>2 DEF Arriving
<1>6. Departing'
  <2> SUFFICES ASSUME pc = "deliver"
               PROVE  Sound(fetched)' /\ \A m \in Members(inbox') : Pair(m, fetched)'
    BY <1>1 DEF Departing
  <2>1. PICK e : e = fetched
    OBVIOUS
  <2>2. /\ e \in Messages /\ e.kind \in {"started", "local", "batch", "invalid"} /\ Sound(e)
        /\ \A m \in Members(inbox) : Pair(m, e)
    BY <2>1 DEF Shaped, Shapes, Sequel, Departing
  <2>3. Real(e)
    BY <2>2 DEF Real
  <2>4. Sound(e)'
    BY <1>2, <2>2, <2>3
  <2>5. \A m \in Members(inbox') : Pair(m, e)
    <3> SUFFICES ASSUME NEW m \in Members(inbox'), ~Real(m)
                 PROVE  Pair(m, e)
      BY <2>2
    <3>1. QED
      BY <2>3 DEF Pair
  <2>6. fetched' = e
    BY <1>1, <2>1
  <2>7. QED
    BY <2>4, <2>5, <2>6
<1>7. Course' /\ Open'
  BY <1>1 DEF Course, Starting, Open, Projecting, Current, Asking
<1>8. ReadingBack'
  BY <1>1 DEF ReadingBack, Reached, Projecting, Current
<1>9. QED
  BY <1>5, <1>6, <1>7, <1>8

\* A queue that a navigation leaves alone.
LEMMA QueueKept ==
  ASSUME FeedInv, UNCHANGED inbox, nav.step = "posted" => nav'.step = "posted"
  PROVE  /\ \A m \in Members(inbox') : IF Real(m) THEN m \in Members(inbox)
                                       ELSE m.kind = "loaded" /\ nav'.step = "posted"
         /\ Ordered(inbox)'
BY DEF FeedInv, Arriving, Real

\* The start of a navigation: its number is new.
LEMMA StartLoadStep ==
  ASSUME FeedInv, Shaped', NEW b \in Bids, StartLoad(b)
  PROVE  FeedInv'
<1> USE DEF FeedInv
<1>1. /\ UNCHANGED <<server, rt, worker, inbox, projecting, view, cache>>
      /\ nav.step = "idle" /\ loads' = loads + 1 /\ nav'.step = "versions" /\ loads \in Nat
  BY BoundsAssumption DEF StartLoad, NoNav, Shaped, TypeOK
<1>2. UNCHANGED <<log, pc, captured, draft, fetched, active, owner, content, tokens, loaded>>
  BY <1>1 DEF server, worker, view, cache
<1>3. ASSUME NEW m \in Messages, Real(m), Past(m)
      PROVE  Past(m)'
  <2>1. m.owner <= loads /\ m.owner \in Nat
    BY <1>3, RealType DEF Past, Real
  <2>2. m.owner < loads'
    BY <1>1, <2>1
  <2>3. QED
    BY <1>1, <1>2, <1>3, <2>1, <2>2 DEF Past
<1>4. Positions'
  <2>1. captured \in Nat /\ owner \in Nat /\ captured <= loads /\ owner <= loads
    BY DEF Positions, Shaped, TypeOK
  <2>2. QED
    BY <1>1, <1>2, <2>1 DEF Positions
<1>5. Known' /\ Covered'
  BY <1>1, <1>2 DEF Known, Covered, Reached, Projecting, Current, Foreigner
<1>6. QED
  BY <1>1, <1>2, <1>3, <1>4, <1>5, NavStep, QueueKept

\* Nothing is shown, so nothing is missed.
LEMMA CloseBidStep ==
  ASSUME FeedInv, Shaped', CloseBid
  PROVE  FeedInv'
<1> USE DEF FeedInv
<1>1. /\ UNCHANGED <<server, rt, worker, inbox, projecting, loads, cache>>
      /\ active' = NoBid /\ owner' = 0 /\ content' = 0
      /\ nav'.step = nav.step /\ nav'.version = nav.version /\ nav'.snap = nav.snap
  BY DEF CloseBid, Shaped, TypeOK
<1>2. UNCHANGED <<log, pc, captured, draft, fetched, tokens, loaded>>
  BY <1>1 DEF server, worker, cache
<1>3. ASSUME NEW m \in Messages, Real(m), Past(m)
      PROVE  Past(m)'
  <2>1. m.snap \in Nat
    BY <1>3, RealType DEF Real
  <2>2. QED
    BY <1>1, <1>2, <1>3, <2>1 DEF Past
<1>4. Positions'
  <2>1. captured \in Nat /\ loads \in Nat /\ Len(log) \in Nat
    BY RuntimeType, BoundsAssumption DEF Shaped, TypeOK
  <2>2. nav.step # "idle" => 0 < loads
    BY <2>1 DEF Positions
  <2>3. QED
    BY <1>1, <1>2, <2>1, <2>2 DEF Positions
<1>5. Known'
  BY <1>1, <1>2 DEF Known, Reached, Projecting, Current, Foreigner
<1>6. Covered'
  <2>1. ASSUME NEW i \in 1..Len(log)
        PROVE  log[i].bid # NoBid
    <3>1. log[i] \in Changes
      BY ElementOfSeq DEF Shaped, TypeOK
    <3>2. QED
      BY <3>1, NoBidAssumption DEF Changes
  <2>2. QED
    BY <1>1, <1>2, <2>1 DEF Covered
<1>7. QED
  BY <1>1, <1>2, <1>3, <1>4, <1>5, <1>6, NavStep, QueueKept

\* The versions a navigation caches are the newest.
LEMMA LoadVersionsStep ==
  ASSUME FeedInv, Shaped', LoadVersions
  PROVE  FeedInv'
<1> USE DEF FeedInv
<1>1. /\ UNCHANGED <<server, rt, worker, inbox, projecting, view, loads>>
      /\ nav.step = "versions" /\ nav'.step = "data" /\ nav'.version = Version(nav.bid)
      /\ tokens' = [tokens EXCEPT ![nav.bid] = Version(nav.bid)]
      /\ loaded' = loaded \cup {nav.bid}
  BY DEF LoadVersions, Shaped, TypeOK
<1>2. UNCHANGED <<log, pc, captured, draft, fetched, active, owner, content>>
  BY <1>1 DEF server, worker, view
<1>3. nav.bid \in Bids /\ TypeOK /\ tokens \in [Bids -> Nat]
  BY <1>1 DEF Shaped, Shapes, TypeOK
<1>4. /\ Version(nav.bid) \in 0..Len(log)
      /\ \A i \in 1..Len(log) : log[i].bid = nav.bid => i <= Version(nav.bid)
  BY <1>3, VersionIsLast
<1>5. \A m \in Messages : Real(m) /\ Past(m) => Past(m)'
  BY <1>1, <1>2 DEF Past
<1>6. Positions'
  BY <1>1, <1>2, <1>4 DEF Positions
<1>7. Known'
  <2> SUFFICES ASSUME rt.session, pc # "load", NEW c \in loaded', NEW i \in 1..Len(log),
                      Reached(i), log[i].bid = c, Foreigner(i)
               PROVE  i <= tokens'[c]
    BY <1>1, <1>2 DEF Known, Reached, Projecting, Current, Foreigner
  <2>1. CASE c = nav.bid
    <3>1. tokens'[c] = Version(nav.bid)
      BY <1>1, <1>3, <2>1
    <3>2. QED
      BY <1>4, <2>1, <3>1
  <2>2. CASE c # nav.bid
    <3>1. c \in loaded /\ tokens'[c] = tokens[c]
      BY <1>1, <1>3, <2>2
    <3>2. QED
      BY <3>1 DEF Known
  <2>3. QED
    BY <2>1, <2>2
<1>8. Covered'
  BY <1>1, <1>2 DEF Covered, Reached, Projecting, Current, Foreigner
<1>9. QED
  BY <1>1, <1>2, <1>5, <1>6, <1>7, <1>8, NavStep, QueueKept

\* The rows are read no earlier than their versions.
LEMMA ReadDataStep ==
  ASSUME FeedInv, Shaped', ReadData
  PROVE  FeedInv'
<1> USE DEF FeedInv
<1>1. /\ UNCHANGED <<server, rt, worker, inbox, projecting, view, loads, cache>>
      /\ nav.step = "data" /\ nav'.step = "read" /\ nav'.version = nav.version
      /\ nav'.snap = Len(log)
  BY DEF ReadData, Shaped, TypeOK
<1>2. UNCHANGED <<log, pc, captured, draft, fetched, active, owner, content, tokens, loaded>>
  BY <1>1 DEF server, worker, view, cache
<1>3. \A m \in Messages : Real(m) /\ Past(m) => Past(m)'
  BY <1>1, <1>2 DEF Past
<1>4. Positions'
  BY <1>1, <1>2, RuntimeType DEF Positions
<1>5. Known' /\ Covered'
  BY <1>1, <1>2 DEF Known, Covered, Reached, Projecting, Current, Foreigner
<1>6. QED
  BY <1>1, <1>2, <1>3, <1>4, <1>5, NavStep, QueueKept

\* The result of a navigation is posted, or dropped if the user has left.
LEMMA PostLoadStep ==
  ASSUME FeedInv, Shaped', PostLoad
  PROVE  FeedInv'
<1> USE DEF FeedInv
<1>1. /\ UNCHANGED <<server, rt, worker, projecting, view, loads, cache>> /\ nav.step = "read"
  BY DEF PostLoad
<1>2. UNCHANGED <<log, pc, captured, draft, fetched, active, owner, content, tokens, loaded>>
  BY <1>1 DEF server, worker, view, cache
<1>3. \A m \in Messages : Real(m) /\ Past(m) => Past(m)'
  BY <1>1, <1>2 DEF Past
<1>4. Known' /\ Covered'
  BY <1>1, <1>2 DEF Known, Covered, Reached, Projecting, Current, Foreigner
<1>5. CASE nav.wanted
  <2>1. PICK e : e = [kind |-> "loaded"]
    OBVIOUS
  <2>2. e \in Messages /\ ~Real(e) /\ e.kind = "loaded"
    BY <2>1 DEF Messages, Real
  <2>3. /\ inbox' = Append(inbox, e) /\ nav'.step = "posted"
        /\ nav'.version = nav.version /\ nav'.snap = nav.snap
    BY <1>5, <2>1 DEF PostLoad, Post, Shaped, TypeOK
  <2>4. inbox \in Seq(Messages) /\ \A m \in Members(inbox) : Real(m)
    BY <1>1 DEF Shaped, TypeOK, Arriving
  <2>5. Members(inbox') = Members(inbox) \cup {e}
    BY <2>2, <2>3, <2>4, MembersAppend
  <2>6. \A m \in Members(inbox) : Pair(m, e)
    BY <2>2, <2>4 DEF Pair
  <2>7. Ordered(inbox')
    BY <2>2, <2>3, <2>4, <2>6, OrderedAppend DEF Arriving
  <2>8. Positions'
    BY <1>1, <1>2, <2>3 DEF Positions
  <2>9. \A m \in Members(inbox') : IF Real(m) THEN m \in Members(inbox)
                                   ELSE m.kind = "loaded" /\ nav'.step = "posted"
    BY <2>2, <2>3, <2>4, <2>5
  <2>10. QED
    BY <1>1, <1>2, <1>3, <1>4, <2>7, <2>8, <2>9, NavStep
<1>6. CASE ~nav.wanted
  <2>1. UNCHANGED inbox /\ nav'.step = "idle"
    BY <1>6 DEF PostLoad, NoNav
  <2>2. Positions'
    BY <1>1, <1>2, <2>1 DEF Positions
  <2>3. QED
    BY <1>1, <1>2, <1>3, <1>4, <2>1, <2>2, NavStep, QueueKept
<1>7. QED
  BY <1>5, <1>6

\* A bid is shown only while its cached versions are those it was read with: whatever of
\* another session was reached is no newer than those.
LEMMA ApplyLoadStep ==
  ASSUME FeedInv, Shaped', ApplyLoad
  PROVE  FeedInv'
<1> USE DEF FeedInv
<1>1. /\ UNCHANGED <<server, rt, worker, projecting, loads, cache>> /\ nav' = NoNav
      /\ Receive("loaded")
  BY DEF ApplyLoad
<1>2. UNCHANGED <<log, pc, captured, draft, fetched, tokens, loaded>>
  BY <1>1 DEF server, worker, cache
<1>3. PICK h : h = Head(inbox)
  OBVIOUS
<1>4. /\ inbox \in Seq(Messages) /\ inbox # <<>> /\ inbox' = Tail(inbox) /\ h.kind = "loaded"
  BY <1>1, <1>3 DEF Receive, Shaped, TypeOK
<1>5. ~Real(h) /\ h \in Members(inbox) /\ Members(inbox') \subseteq Members(inbox)
  BY <1>3, <1>4, MembersTail DEF Real
<1>6. nav.step = "posted" /\ nav'.step = "idle"
  BY <1>1, <1>5 DEF Arriving, NoNav
<1>7. Ordered(inbox') /\ \A m \in Members(inbox') : Pair(h, m)
  BY <1>3, <1>4, OrderedTail DEF Arriving
<1>8. \A m \in Members(inbox') : Real(m) /\ m \in Members(inbox)
  BY <1>5, <1>7 DEF Pair
<1>9. Known'
  BY <1>1, <1>2 DEF Known, Reached, Projecting, Current, Foreigner
<1>10. CASE UNCHANGED view
  <2>1. UNCHANGED <<active, owner, content>>
    BY <1>10 DEF view
  <2>2. \A m \in Messages : Real(m) /\ Past(m) => Past(m)'
    BY <1>1, <1>2, <1>6, <2>1 DEF Past
  <2>3. Positions'
    BY <1>1, <1>2, <1>6, <2>1 DEF Positions
  <2>4. Covered'
    BY <1>1, <1>2, <2>1 DEF Covered, Reached, Projecting, Current, Foreigner
  <2>5. QED
    BY <1>1, <1>2, <1>7, <1>8, <1>9, <2>2, <2>3, <2>4, NavStep
<1>11. CASE /\ VersionsCurrent
            /\ active' = nav.bid /\ owner' = loads /\ content' = nav.snap
  <2>1. nav.bid \in loaded /\ tokens[nav.bid] = nav.version /\ nav.bid \in Bids
    BY <1>6, <1>11 DEF VersionsCurrent, Shaped, Shapes
  <2>2. /\ nav.version <= nav.snap /\ nav.snap <= Len(log)
        /\ nav.version \in Nat /\ nav.snap \in Nat
    BY <1>6 DEF Positions, Shaped, TypeOK
  <2>3. ASSUME NEW m \in Messages, Real(m), Past(m)
        PROVE  Past(m)'
    <3>0. m.owner \in Nat /\ loads \in Nat
      BY <2>3, RealType, BoundsAssumption, SMTT(30) DEF Real, Shaped, TypeOK
    <3>1. m.owner < loads
      BY <1>6, <2>3 DEF Past
    <3>2. m.owner # owner' /\ m.owner <= loads
      BY <1>11, <3>0, <3>1
    <3>3. QED
      BY <1>1, <1>2, <1>6, <2>3, <3>2 DEF Past
  <2>4. Positions'
    <3>1. loads \in Nat /\ loads <= loads
      BY BoundsAssumption DEF Shaped, TypeOK
    <3>2. QED
      BY <1>1, <1>2, <1>6, <1>11, <2>1, <2>2, <3>1, NoBidAssumption DEF Positions
  <2>5. Covered'
    <3> SUFFICES ASSUME rt.ready, NEW i \in 1..Len(log), Reached(i), log[i].bid = nav.bid,
                        Foreigner(i)
                 PROVE  i <= nav.snap
      BY <1>1, <1>2, <1>11 DEF Covered, Reached, Projecting, Current, Foreigner
    <3>1. rt.session /\ pc # "load"
      BY DEF Course, Starting
    <3>2. i <= tokens[nav.bid]
      BY <2>1, <3>1 DEF Known
    <3>3. QED
      BY <2>1, <2>2, <3>2
  <2>6. QED
    BY <1>1, <1>2, <1>7, <1>8, <1>9, <2>3, <2>4, <2>5, NavStep
<1>12. QED
  BY <1>10, <1>11 DEF ApplyLoad

-----------------------------------------------------------------------------
(* The theorems. *)

\* At the start nothing has happened and nothing waits.
LEMMA InitFeed == Init => FeedInv
<1> SUFFICES ASSUME Init
             PROVE  FeedInv
  OBVIOUS
<1>1. Shaped
  BY InitType
<1>2. /\ log = <<>> /\ inbox = <<>> /\ Len(log) = 0 /\ Len(inbox) = 0
      /\ pc = "top" /\ captured = 0 /\ projecting = NoBatch
      /\ active = NoBid /\ owner = 0 /\ content = 0 /\ loads = 0 /\ loaded = {}
      /\ rt.session = FALSE /\ rt.ready = FALSE /\ rt.ack = 0 /\ nav.step = "idle"
  BY DEF Init, NoNav
<1>3. Members(inbox) = {}
  BY <1>2 DEF Members
<1>4. Course
  BY <1>2 DEF Course, Starting
<1>5. Arriving
  BY <1>2, <1>3 DEF Arriving, Ordered
<1>6. Departing /\ ReadingBack /\ Open
  BY <1>2 DEF Departing, ReadingBack, Open
<1>7. Positions /\ Known /\ Covered
  BY <1>2 DEF Positions, Known, Covered
<1>8. QED
  BY <1>1, <1>4, <1>5, <1>6, <1>7 DEF FeedInv

\* Every step keeps the invariant.
LEMMA FeedStep == FeedInv /\ [Next]_vars => FeedInv'
<1> SUFFICES ASSUME FeedInv, [Next]_vars
             PROVE  FeedInv'
  OBVIOUS
<1>1. Shaped'
  BY StepType DEF FeedInv
<1>2. CASE ServerStep
  BY <1>1, <1>2, ServerKeeps
<1>3. CASE WorkerStep
  <2>1. CASE LeaveSession \/ StartSession \/ CaptureOwner \/ RefuseWrite \/ BeginPoll
    BY <1>1, <2>1, MovingStep
  <2>2. CASE LoseSession \/ LoseWrite \/ ReadBackFails
    BY <1>1, <2>2, LostStep
  <2>3. CASE LoadDatabase
    BY <1>1, <2>3, LoadDatabaseStep
  <2>4. CASE Hydrate
    BY <1>1, <2>4, HydrateStep
  <2>5. CASE Deliver
    BY <1>1, <2>5, DeliverStep
  <2>6. CASE \E b \in Bids : BeginWrite(b)
    BY <1>1, <2>6, BeginWriteStep
  <2>7. CASE Write
    BY <1>1, <2>7, WriteStep
  <2>8. CASE ReadBack
    BY <1>1, <2>8, ReadBackStep
  <2>9. CASE Poll
    BY <1>1, <2>9, PollStep
  <2>10. CASE Check
    BY <1>1, <2>10, CheckStep
  <2>11. QED
    BY <1>3, <2>1, <2>2, <2>3, <2>4, <2>5, <2>6, <2>7, <2>8, <2>9, <2>10 DEF WorkerStep
<1>4. CASE UiStep
  <2>1. CASE HandleStarted
    BY <1>1, <2>1, HandleStartedStep
  <2>2. CASE HandleBatch
    BY <1>1, <2>2, HandleBatchStep
  <2>3. CASE FinishBatch
    BY <1>1, <2>3, FinishBatchStep
  <2>4. CASE HandleLocal
    BY <1>1, <2>4, HandleLocalStep
  <2>5. CASE ApplyLoad
    BY <1>1, <2>5, ApplyLoadStep
  <2>6. CASE \/ HandleStartedFailure \/ HandleBatchFailure \/ FinishBatchFailure \/ FinishStale
             \/ HandleUnprojected \/ HandleRestored \/ HandleLost \/ HandleInvalid
             \/ HandleStale
    BY <1>1, <2>6, NewsStep
  <2>7. QED
    BY <1>4, <2>1, <2>2, <2>3, <2>4, <2>5, <2>6 DEF UiStep
<1>5. CASE UserStep
  <2>1. CASE Refresh
    BY <1>1, <2>1, NewsStep
  <2>2. CASE CloseBid
    BY <1>1, <2>2, CloseBidStep
  <2>3. CASE \E b \in Bids : StartLoad(b)
    BY <1>1, <2>3, StartLoadStep
  <2>4. QED
    BY <1>5, <2>1, <2>2, <2>3 DEF UserStep
<1>6. CASE NavigationStep
  BY <1>1, <1>6, LoadVersionsStep, ReadDataStep, PostLoadStep DEF NavigationStep
<1>7. CASE UNCHANGED vars
  <2>1. UNCHANGED <<log, rt, worker, inbox, projecting, view, loads, nav, cache>>
    BY <1>7 DEF vars, server
  <2>2. UNCHANGED <<active, owner, content, captured, tokens, loaded>>
    BY <2>1 DEF worker, view, cache
  <2>3. \A m \in Messages : Real(m) /\ Past(m) => Past(m)'
    BY <2>1, <2>2 DEF Past
  <2>4. Positions' /\ Known' /\ Covered'
    <3>1. pc' = pc
      BY <2>1 DEF worker
    <3>2. Positions /\ Known /\ Covered
      BY DEF FeedInv
    <3>3. Positions'
      BY <2>1, <2>2, <3>2 DEF Positions
    <3>4. Known'
      BY <2>1, <2>2, <3>1, <3>2 DEF Known, Reached, Projecting, Current, Foreigner
    <3>5. Covered'
      BY <2>1, <2>2, <3>2 DEF Covered, Reached, Projecting, Current, Foreigner
    <3>6. QED
      BY <3>3, <3>4, <3>5
  <2>5. QED
    BY <1>1, <2>1, <2>3, <2>4, NavStep, QueueKept
<1>8. QED
  BY <1>2, <1>3, <1>4, <1>5, <1>6, <1>7 DEF Next

\* While the session is trusted, the bid shown contains every change of another session that
\* the checkpoint has passed: moving the checkpoint at the end of a batch never loses one,
\* whatever navigation, write, lost session or failed projection came in between.
THEOREM CheckpointCorrect == Spec => []CheckpointCoversOthers
<1>1. FeedInv => CheckpointCoversOthers
  <2> SUFFICES ASSUME FeedInv, rt.ready, ~rt.recReq, NEW i \in Missed, log[i].by # rt.gen
               PROVE  FALSE
    BY DEF CheckpointCoversOthers
  <2>1. rt.ack \in Nat /\ Len(log) \in Nat /\ rt.ack <= Len(log) /\ content \in Nat
    BY RuntimeType DEF FeedInv, Positions, Shaped, TypeOK
  <2>2. i \in 1..Len(log) /\ i <= rt.ack /\ log[i].bid = active /\ i > content
    BY <2>1 DEF Missed
  <2>3. i <= content
    BY <2>2 DEF FeedInv, Covered, Reached, Foreigner
  <2>4. QED
    BY <2>1, <2>2, <2>3
<1>2. QED
  BY InitFeed, FeedStep, <1>1, PTL DEF Spec

\* The steps that may replace what is shown.
LEMMA ViewSteps ==
  ASSUME [Next]_vars
  PROVE  \/ UNCHANGED view \/ CloseBid \/ ApplyLoad
         \/ HandleStarted \/ HandleBatch \/ HandleLocal
<1>1. CASE ServerStep
  BY <1>1 DEF ServerStep, TrimHistory, OtherCommit
<1>2. CASE WorkerStep
  BY <1>2 DEF WorkerStep, LoseSession, LeaveSession, StartSession, LoadDatabase, CaptureOwner,
     Hydrate, Deliver, BeginWrite, RefuseWrite, Write, LoseWrite, ReadBack, ReadBackFails,
     BeginPoll, Poll, Check
<1>3. CASE UiStep
  BY <1>3 DEF UiStep, HandleStartedFailure, HandleBatchFailure, FinishBatch,
     FinishBatchFailure, FinishStale, HandleUnprojected, HandleRestored, HandleLost,
     HandleInvalid, HandleStale
<1>4. CASE UserStep
  BY <1>4 DEF UserStep, Refresh, StartLoad
<1>5. CASE NavigationStep
  BY <1>5 DEF NavigationStep, LoadVersions, ReadData, PostLoad
<1>6. CASE UNCHANGED vars
  BY <1>6 DEF vars
<1>7. QED
  BY <1>1, <1>2, <1>3, <1>4, <1>5, <1>6 DEF Next

\* A step shows the same load of a bid from no older a snapshot.
LEMMA ShownStep ==
  ASSUME FeedInv, [Next]_vars, owner' = owner, active' = active
  PROVE  content' >= content
<1> USE DEF FeedInv
<1>1. content \in Nat
  BY DEF Shaped, TypeOK
<1>2. PICK h : h = Head(inbox)
  OBVIOUS
<1>3. CASE UNCHANGED view
  BY <1>1, <1>3 DEF view
<1>4. CASE CloseBid
  BY <1>1, <1>4 DEF CloseBid, Positions
<1>5. CASE ApplyLoad
  <2>1. CASE UNCHANGED view
    BY <1>1, <2>1 DEF view
  <2>2. CASE owner' = loads
    <3>1. Head(inbox) \in Members(inbox) /\ Head(inbox).kind = "loaded"
      BY <1>5, MembersTail DEF ApplyLoad, Receive, Shaped, TypeOK
    <3>2. nav.step # "idle"
      BY <3>1 DEF Arriving, Real
    <3>3. owner < loads /\ owner \in Nat /\ loads \in Nat
      BY <3>2, BoundsAssumption DEF Positions, Shaped, TypeOK
    <3>4. QED
      BY <2>2, <3>3
  <2>3. QED
    BY <1>5, <2>1, <2>2 DEF ApplyLoad
<1>6. CASE HandleStarted
  <2>1. CASE OwnerCurrent(h)
    <3>1. content' \in {content, h.snap}
      BY <1>2, <1>6, <2>1 DEF HandleStarted
    <3>2. Past(h) /\ h.snap \in Nat
      BY <1>2, <1>6, HeadFacts DEF HandleStarted
    <3>3. content <= h.snap
      BY <2>1, <3>2 DEF Past, OwnerCurrent
    <3>4. QED
      BY <1>1, <3>1, <3>2, <3>3
  <2>2. CASE ~OwnerCurrent(h)
    BY <1>1, <1>2, <1>6, <2>2 DEF HandleStarted
  <2>3. QED
    BY <2>1, <2>2
<1>7. CASE HandleBatch
  <2>1. CASE OwnerCurrent(h)
    <3>1. content' \in {content, h.snap}
      BY <1>2, <1>7, <2>1 DEF HandleBatch
    <3>2. Past(h) /\ h.snap \in Nat
      BY <1>2, <1>7, HeadFacts DEF HandleBatch
    <3>3. content <= h.snap
      BY <2>1, <3>2 DEF Past, OwnerCurrent
    <3>4. QED
      BY <1>1, <3>1, <3>2, <3>3
  <2>2. CASE ~OwnerCurrent(h)
    BY <1>1, <1>2, <1>7, <2>2 DEF HandleBatch
  <2>3. QED
    BY <2>1, <2>2
<1>8. CASE HandleLocal
  <2>1. CASE SessionCurrent(h) /\ OwnerCurrent(h)
    <3>1. content' \in {content, h.snap}
      BY <1>2, <1>8, <2>1 DEF HandleLocal
    <3>2. Past(h) /\ h.snap \in Nat
      BY <1>2, <1>8, <2>1, HeadFacts DEF HandleLocal
    <3>3. content <= h.snap
      BY <2>1, <3>2 DEF Past, OwnerCurrent
    <3>4. QED
      BY <1>1, <3>1, <3>2, <3>3
  <2>2. CASE ~(SessionCurrent(h) /\ OwnerCurrent(h))
    BY <1>1, <1>2, <1>8, <2>2 DEF HandleLocal
  <2>3. QED
    BY <2>1, <2>2
<1>9. QED
  BY <1>3, <1>4, <1>5, <1>6, <1>7, <1>8, ViewSteps

\* While a bid stays open, no message replaces what is shown of it by an older snapshot: not a
\* batch that waited behind a local result, nor the rows of a session that has ended.
THEOREM FeedCorrect == Spec => FeedNeverGoesBack
<1>1. FeedInv /\ [Next]_vars =>
        [owner' = owner /\ active' = active => content' >= content]_vars
  BY ShownStep
<1>2. QED
  BY InitFeed, FeedStep, <1>1, PTL DEF Spec, FeedNeverGoesBack
=================================================================================
