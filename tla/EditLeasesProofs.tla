-------------------------- MODULE EditLeasesProofs --------------------------
(***************************************************************************)
(* EditLeases is correctly typed, and OneEditor, DraftsAreAccounted,       *)
(* HandleIsBacked and LeaseHasAnEnd hold of it, for any surfaces,          *)
(* resources, requests and number of faults.                               *)
(*                                                                         *)
(* A draft is registered from its request until it is finished, and while  *)
(* it is, it is in exactly one place: with the caller about to queue it,   *)
(* in the queue, or in the worker's books (Books); or its request was      *)
(* queued when the worker would not look at the queue any more             *)
(* (Deserted). It is granted at most once, then shown at most once, and    *)
(* after that released or used up by a mutation (Handles). That a number   *)
(* is never given to two requests of a surface keeps these stages apart,   *)
(* and that the main thread does nothing else between a test and the       *)
(* queuing that follows it (Promised).                                     *)
(***************************************************************************)
EXTENDS EditLeases, TLAPS

-----------------------------------------------------------------------------
(* What the helpers return. *)

\* A draft names a surface and one of its requests, whose resources are known.
LEMMA DraftParts ==
  ASSUME NEW d \in Drafts
  PROVE  /\ SurfaceOf(d) \in Surfaces /\ d[2] \in 1..MaxAsks
         /\ d = <<SurfaceOf(d), d[2]>>
         /\ WantedBy(d) \in (SUBSET Resources) \ {{}}
         /\ Touches(d) \in SUBSET Resources
         /\ d # None /\ d # Conflict /\ d # Free /\ d # Other
BY SurfacesAssumption, BoundsAssumption, NamesAssumption
   DEF Drafts, SurfaceOf, WantedBy, Touches

\* A message about one draft is a message.
LEMMA MessageType ==
  ASSUME NEW kind \in {"granted", "denied", "result"}, NEW d \in Drafts
  PROVE  /\ Message(kind, {d}) \in Messages
         /\ Message(kind, {d}).kind = kind /\ Message(kind, {d}).drafts = {d}
BY DEF Message, Messages

\* News of the session and of lost leases are messages.
LEMMA NewsType ==
  /\ \A kind \in {"stale"} \cup SessionNews : Message(kind, {}) \in Messages
  /\ \A drafts \in SUBSET Drafts : Message("lost", drafts) \in Messages
BY DEF Message, Messages

\* The inbox stays well-typed when its news become stale.
LEMMA OutdatedType == inbox \in Seq(Messages) => Outdated \in Seq(Messages)
<1> SUFFICES ASSUME inbox \in Seq(Messages) PROVE Outdated \in Seq(Messages)
  OBVIOUS
<1>1. \A i \in 1..Len(inbox) : inbox[i] \in Messages
  OBVIOUS
<1>2. \A i \in 1..Len(inbox) :
        (IF inbox[i].kind \in SessionNews THEN Message("stale", {}) ELSE inbox[i]) \in Messages
  BY <1>1, NewsType
<1>3. Len(inbox) \in Nat
  OBVIOUS
<1>4. QED
  BY <1>2, <1>3 DEF Outdated

\* The answers to what was queued are messages.
LEMMA AnswersType ==
  ASSUME NEW requests \in Seq(Drafts)
  PROVE  Denials(requests) \in Seq(Messages) /\ Results(requests) \in Seq(Messages)
<1>1. \A i \in 1..Len(requests) : requests[i] \in Drafts
  OBVIOUS
<1>2. /\ \A i \in 1..Len(requests) : Message("denied", {requests[i]}) \in Messages
      /\ \A i \in 1..Len(requests) : Message("result", {requests[i]}) \in Messages
  BY <1>1, MessageType
<1>3. Len(requests) \in Nat
  OBVIOUS
<1>4. Denials(requests) \in Seq(Messages)
  BY <1>2, <1>3 DEF Denials
<1>5. Results(requests) \in Seq(Messages)
  BY <1>2, <1>3 DEF Results
<1>6. QED
  BY <1>4, <1>5

\* The answer at the head of the inbox is about one draft.
LEMMA HeadType ==
  ASSUME TypeOK, inbox # <<>>
  PROVE  /\ Head(inbox) \in Messages /\ Tail(inbox) \in Seq(Messages)
         /\ Head(inbox).kind \in {"granted", "denied", "result"} =>
              TheDraft \in Drafts /\ Head(inbox).drafts = {TheDraft}
<1>1. Head(inbox) \in Messages /\ Tail(inbox) \in Seq(Messages)
  BY DEF TypeOK
<1>2. ASSUME Head(inbox).kind \in {"granted", "denied", "result"}
      PROVE  TheDraft \in Drafts /\ Head(inbox).drafts = {TheDraft}
  <2>1. PICK d \in Drafts : Head(inbox).drafts = {d}
    BY <1>1, <1>2 DEF Messages, SessionNews
  <2>2. QED
    BY <2>1 DEF TheDraft
<1>3. QED
  BY <1>1, <1>2

\* The members of a queue are its drafts, before and after one is added or taken.
LEMMA MembersType ==
  ASSUME NEW S, NEW q \in Seq(S)
  PROVE  /\ Members(q) \in SUBSET S
         /\ \A e \in S : Append(q, e) \in Seq(S) /\ Members(Append(q, e)) = Members(q) \cup {e}
         /\ q # <<>> => /\ Head(q) \in Members(q) /\ Tail(q) \in Seq(S)
                        /\ Members(q) = {Head(q)} \cup Members(Tail(q))
<1>1. Members(q) \in SUBSET S
  BY DEF Members
<1>2. ASSUME NEW e \in S
      PROVE  Append(q, e) \in Seq(S) /\ Members(Append(q, e)) = Members(q) \cup {e}
  <2>1. /\ Len(Append(q, e)) = Len(q) + 1 /\ Append(q, e)[Len(q) + 1] = e
        /\ \A i \in 1..Len(q) : Append(q, e)[i] = q[i]
    OBVIOUS
  <2>2. 1..(Len(q) + 1) = 1..Len(q) \cup {Len(q) + 1}
    OBVIOUS
  <2>3. QED
    BY <2>1, <2>2 DEF Members
<1>3. ASSUME q # <<>>
      PROVE  /\ Head(q) \in Members(q) /\ Tail(q) \in Seq(S)
             /\ Members(q) = {Head(q)} \cup Members(Tail(q))
  <2>1. /\ Len(Tail(q)) = Len(q) - 1 /\ Len(q) \in Nat \ {0} /\ Head(q) = q[1]
        /\ \A i \in 1..Len(Tail(q)) : Tail(q)[i] = q[i + 1]
    BY <1>3
  <2>2. Members(q) \subseteq {Head(q)} \cup Members(Tail(q))
    <3>1. ASSUME NEW i \in 1..Len(q), i # 1 PROVE q[i] \in Members(Tail(q))
      <4>1. i - 1 \in 1..Len(Tail(q)) /\ Tail(q)[i - 1] = q[(i - 1) + 1]
        BY <2>1, <3>1
      <4>2. QED
        BY <4>1 DEF Members
    <3>2. QED
      BY <2>1, <3>1 DEF Members
  <2>3. Members(Tail(q)) \subseteq Members(q)
    <3>1. ASSUME NEW i \in 1..Len(Tail(q)) PROVE Tail(q)[i] \in Members(q)
      <4>1. i + 1 \in 1..Len(q) /\ Tail(q)[i] = q[i + 1]
        BY <2>1
      <4>2. QED
        BY <4>1 DEF Members
    <3>2. QED
      BY <3>1 DEF Members
  <2>4. Head(q) \in Members(q)
    BY <2>1 DEF Members
  <2>5. QED
    BY <1>3, <2>2, <2>3, <2>4
<1>4. QED
  BY <1>1, <1>2, <1>3

-----------------------------------------------------------------------------
(* Every action keeps the types. *)

\* The variables start well-typed.
LEMMA InitType == Init => TypeOK
<1> SUFFICES ASSUME Init PROVE TypeOK
  OBVIOUS
<1>1. /\ surface \in [Surfaces -> [phase : Phases \ {"idle"}, draft : Drafts] \cup {Idle}]
      /\ asks \in [Surfaces -> 0..MaxAsks] /\ faults \in 0..MaxFaults
      /\ ui \in Drafts \cup {None, Conflict} /\ tested \in Drafts \cup {None}
      /\ stranded \in SUBSET Drafts /\ strays \in SUBSET Drafts
  BY BoundsAssumption DEF Init
<1>2. /\ registry \in [Drafts -> {"absent", "pending", "active", "conflicted"}]
      /\ attached \in BOOLEAN /\ editable \in BOOLEAN
      /\ rt \in Runtimes /\ pc \in Steps /\ pc # "execute"
  BY DEF Init, FreshRuntime, Runtimes, Steps
<1>3. /\ held \in Drafts \cup {None} /\ held = None
      /\ leased \in SUBSET Drafts /\ owned \in [Resources -> Drafts \cup {None}]
      /\ lock \in [Resources -> Drafts \cup {Free, Other}]
  BY DEF Init
<1>4. /\ edits \in Seq(Drafts) /\ mutations \in Seq(Drafts) /\ releases \in Seq(Drafts)
      /\ inbox \in Seq(Messages)
  BY DEF Init
<1>5. QED
  BY <1>1, <1>2, <1>3, <1>4 DEF TypeOK

\* A request that a surface makes, or makes again, breaks no type.
LEMMA RequestType ==
  ASSUME TypeOK, NEW s \in Surfaces, NEW messages \in Seq(Messages), Request(s, messages),
         MainThread
  PROVE  TypeOK'
<1> DEFINE d == <<s, asks[s] + 1>>
<1>1. d \in Drafts /\ asks' \in [Surfaces -> 0..MaxAsks]
  BY BoundsAssumption DEF Request, TypeOK, Drafts
<1>2. surface' \in [Surfaces -> [phase : Phases \ {"idle"}, draft : Drafts] \cup {Idle}]
  BY <1>1 DEF Request, TypeOK, Phases
<1>3. Append(messages, Message("denied", {d})) \in Seq(Messages)
  BY <1>1, MessageType
<1>4. /\ inbox' \in Seq(Messages) /\ ui' \in Drafts \cup {None, Conflict}
      /\ registry' \in [Drafts -> {"absent", "pending", "active", "conflicted"}]
  BY <1>1, <1>3 DEF Request, TypeOK
<1>5. QED
  BY <1>1, <1>2, <1>4 DEF Request, TypeOK, worker, queues

\* Taking a request to the queue, or finishing its draft, breaks no type.
LEMMA EnqueueType ==
  ASSUME TypeOK, NEW d \in Drafts, TestSession(d) \/ Enqueue(d)
  PROVE  TypeOK'
<1>1. Append(edits, d) \in Seq(Drafts) /\ Append(inbox, Message("denied", {d})) \in Seq(Messages)
  BY MessageType DEF TypeOK
<1>2. Finish({d}) \in [Drafts -> {"absent", "pending", "active", "conflicted"}]
  BY DEF Finish, TypeOK
<1>3. QED
  BY <1>1, <1>2 DEF TestSession, Enqueue, Post, TypeOK, worker, queues

\* A surface that shows a lease has its draft.
LEMMA ShownType ==
  ASSUME TypeOK, NEW s \in Surfaces, surface[s].phase # "idle"
  PROVE  surface[s].draft \in Drafts /\ surface[s].phase \in Phases
BY DEF TypeOK, Idle, Phases

\* A surface that gives its handle up keeps its type.
LEMMA HandOverType ==
  ASSUME TypeOK, NEW s \in Surfaces, NEW d \in Drafts, HandOver(s, d)
  PROVE  surface' \in [Surfaces -> [phase : Phases \ {"idle"}, draft : Drafts] \cup {Idle}]
BY DEF HandOver, TypeOK, Phases

\* What a user does with a surface breaks no type.
LEMMA SurfaceType ==
  ASSUME TypeOK, NEW s \in Surfaces, Ask(s) \/ Close(s) \/ Save(s) \/ SaveRefused(s)
  PROVE  TypeOK'
<1>1. CASE Ask(s)
  BY <1>1, RequestType DEF Ask, TypeOK
<1>2. CASE Close(s)
  <2>1. releases' \in Seq(Drafts)
    <3>1. releases \in Seq(Drafts) /\ surface[s].draft \in Drafts
      BY <1>2, ShownType DEF Close, TypeOK
    <3>2. Append(releases, surface[s].draft) \in Seq(Drafts)
      BY <3>1
    <3>3. QED
      BY <1>2, <3>1, <3>2 DEF Close, EndLease
  <2>2. surface' \in [Surfaces -> [phase : Phases \ {"idle"}, draft : Drafts] \cup {Idle}]
    BY <1>2 DEF Close, TypeOK
  <2>3. QED
    BY <1>2, <2>1, <2>2 DEF Close, TypeOK, worker
<1>3. CASE SaveRefused(s)
  <2> DEFINE d == surface[s].draft
  <2>1. HandOver(s, d) /\ surface[s].phase = "shown" /\ d \in Drafts
    BY <1>3, ShownType DEF SaveRefused
  <2>2. surface' \in [Surfaces -> [phase : Phases \ {"idle"}, draft : Drafts] \cup {Idle}]
    BY <2>1, HandOverType
  <2>3. /\ Message("result", {d}) \in Messages
        /\ mutations \in Seq(Drafts) /\ inbox \in Seq(Messages)
    BY <2>1, MessageType DEF TypeOK
  <2>4. Append(mutations, d) \in Seq(Drafts) /\ Append(inbox, Message("result", {d})) \in Seq(Messages)
    BY <2>1, <2>3
  <2>5. mutations' \in Seq(Drafts) /\ inbox' \in Seq(Messages) /\ tested' = tested
    BY <1>3, <2>3, <2>4 DEF SaveRefused, Post
  <2>6. strays' \in SUBSET Drafts /\ faults' \in 0..MaxFaults
    BY <1>3, <2>1, BoundsAssumption DEF SaveRefused, Fault, NoFault, TypeOK
  <2>7. QED
    BY <2>1, <2>2, <2>5, <2>6 DEF HandOver, TypeOK, worker
<1>4. CASE Save(s)
  <2>1. tested' \in Drafts
    BY <1>4, ShownType DEF Save
  <2>2. QED
    BY <1>4, <2>1 DEF Save, TypeOK, worker, queues
<1>5. QED
  BY <1>1, <1>2, <1>3, <1>4

\* Queuing a mutation breaks no type.
LEMMA MutationType ==
  ASSUME TypeOK, NEW d \in Drafts, EnqueueMutation(d)
  PROVE  TypeOK'
<1>1. HandOver(SurfaceOf(d), d) /\ SurfaceOf(d) \in Surfaces
  BY DraftParts DEF EnqueueMutation
<1>2. mutations' \in Seq(Drafts)
  BY DEF EnqueueMutation, TypeOK
<1>3. surface' \in [Surfaces -> [phase : Phases \ {"idle"}, draft : Drafts] \cup {Idle}]
  BY <1>1, HandOverType
<1>4. QED
  BY <1>1, <1>2, <1>3 DEF EnqueueMutation, HandOver, TypeOK, worker

\* Handling a message breaks no type.
LEMMA MessageStepType ==
  ASSUME TypeOK,
         \/ HandleGranted \/ HandleDenied \/ HandleLost \/ HandleResult \/ IgnoreResult
         \/ IgnoreStale
         \/ \E kind \in SessionNews : HandleNews(kind)
  PROVE  TypeOK'
<1>1. inbox # <<>> /\ Tail(inbox) \in Seq(Messages)
  BY HeadType DEF HandleGranted, HandleDenied, HandleLost, HandleResult, IgnoreResult,
                  IgnoreStale, HandleNews, Receive, Receiving
<1> DEFINE surfaces == [Surfaces -> [phase : Phases \ {"idle"}, draft : Drafts] \cup {Idle}]
<1>2. CASE HandleGranted
  <2>1. TheDraft \in Drafts /\ inbox' = Tail(inbox)
    BY <1>1, <1>2, HeadType DEF HandleGranted, Receive, Receiving
  <2>2. surface' \in surfaces
    <3> DEFINE s == SurfaceOf(TheDraft)
    <3>1. s \in Surfaces
      BY <2>1, DraftParts
    <3>2. CASE ~Expected(TheDraft)
      <4>1. surface' = [surface EXCEPT ![s] = surface[s]]
        BY <1>2, <3>2 DEF HandleGranted
      <4>2. QED
        BY <4>1 DEF TypeOK
    <3>3. CASE Expected(TheDraft)
      <4>1. surface[s] = [phase |-> "asking", draft |-> TheDraft]
        BY <3>3 DEF Expected
      <4>2. [surface[s] EXCEPT !.phase = "shown"] \in [phase : Phases \ {"idle"}, draft : Drafts]
        BY <2>1, <4>1 DEF Phases
      <4>3. \/ surface' = [surface EXCEPT ![s] = [surface[s] EXCEPT !.phase = "shown"]]
            \/ surface' = [surface EXCEPT ![s] = Idle]
        BY <1>2, <3>1, <3>3 DEF HandleGranted, TypeOK
      <4>4. QED
        BY <4>2, <4>3 DEF TypeOK
    <3>4. QED
      BY <3>2, <3>3
  <2>3. releases' \in Seq(Drafts)
    <3>1. releases \in Seq(Drafts)
      BY DEF TypeOK
    <3>2. Append(releases, TheDraft) \in Seq(Drafts)
      BY <2>1, <3>1
    <3>3. QED
      BY <1>2, <3>1, <3>2 DEF HandleGranted, EndLease
  <2>4. QED
    BY <1>1, <1>2, <2>1, <2>2, <2>3 DEF HandleGranted, TypeOK, worker
<1>3. CASE HandleDenied \/ HandleLost \/ IgnoreResult
  <2>1. surface' \in surfaces
    BY <1>3 DEF HandleDenied, HandleLost, IgnoreResult, TypeOK
  <2>2. QED
    BY <1>1, <1>3, <2>1
       DEF HandleDenied, HandleLost, IgnoreResult, Receive, TypeOK, worker, queues
<1>4. CASE HandleResult
  <2>1. TheDraft \in Drafts
    BY <1>1, <1>4, HeadType DEF HandleResult, Receiving
  <2>2. QED
    BY <1>1, <1>4, <2>1, DraftParts, RequestType DEF HandleResult, Receiving
<1>5. CASE IgnoreStale
  BY <1>1, <1>5 DEF IgnoreStale, Receive, TypeOK, worker, queues
<1>6. CASE \E kind \in SessionNews : HandleNews(kind)
  BY <1>1, <1>6 DEF HandleNews, Receive, TypeOK, Runtimes, worker, queues
<1>7. QED
  BY <1>2, <1>3, <1>4, <1>5, <1>6

\* Conflicts, recovery, start and stop break no type.
LEMMA LifecycleType ==
  ASSUME TypeOK,
         \/ EnterConflict \/ Resume \/ Detach \/ Start
         \/ \E d \in Drafts : MarkConflict(d)
  PROVE  TypeOK'
<1>1. CASE EnterConflict \/ Resume
  <2>1. /\ rt' \in Runtimes /\ editable' \in BOOLEAN /\ ui' \in Drafts \cup {None, Conflict}
        /\ UNCHANGED <<surface, asks, tested, stranded, registry, attached, worker, queues,
                       inbox, lock, strays, faults>>
    BY <1>1 DEF EnterConflict, Resume, TypeOK, Runtimes
  <2>2. QED
    BY <2>1 DEF TypeOK, worker, queues
<1>2. CASE Detach
  <2>1. rt' \in Runtimes
    BY <1>2 DEF Detach, TypeOK, Runtimes
  <2>2. inbox' \in Seq(Messages) /\ faults' \in 0..MaxFaults
    BY <1>2, OutdatedType, BoundsAssumption DEF Detach, Fault, TypeOK
  <2>3. QED
    BY <1>2, <2>1, <2>2 DEF Detach, TypeOK, worker, queues
<1>3. CASE Start
  <2>1. FreshRuntime \in Runtimes /\ <<>> \in Seq(Drafts)
    BY DEF FreshRuntime, Runtimes
  <2>2. QED
    BY <1>3, <2>1, OutdatedType DEF Start, TypeOK, Steps
<1>4. CASE \E d \in Drafts : MarkConflict(d)
  BY <1>4, BoundsAssumption DEF MarkConflict, Fault, TypeOK, worker, queues
<1>5. QED
  BY <1>1, <1>2, <1>3, <1>4

\* The steps of the worker that touch no lease break no type.
LEMMA WorkerType ==
  ASSUME TypeOK,
         \/ Stopped \/ Top \/ Connect \/ CallFails \/ Await \/ Beat
         \/ TakeMutation \/ NoMutation \/ DenyMutation \/ JournalFails
  PROVE  TypeOK'
<1>1. CASE Stopped \/ Await \/ NoMutation
  BY <1>1 DEF Stopped, Await, NoMutation, Go, TypeOK, Steps, user, queues
<1>2. CASE Top
  <2>1. rt' \in Runtimes /\ pc' \in Steps /\ pc' # "execute" /\ pc # "execute"
    BY <1>2, ZenonT(60) DEF Top, Go, TypeOK, Runtimes, Steps
  <2>2. QED
    BY <1>2, <2>1 DEF Top, TypeOK, user, queues
<1>3. CASE Connect
  <2>1. Append(Outdated, Message("started", {})) \in Seq(Messages)
    BY OutdatedType, NewsType DEF TypeOK, SessionNews
  <2>2. rt' \in Runtimes /\ pc' \in Steps /\ pc' # "execute" /\ pc # "execute"
    BY <1>3 DEF Connect, Go, TypeOK, Runtimes, Steps
  <2>3. QED
    BY <1>3, <2>1, <2>2 DEF Connect, TypeOK, user, queues
<1>4. CASE CallFails
  <2>1. rt' \in Runtimes /\ pc' \in Steps /\ pc' # "execute" /\ pc # "execute"
    BY <1>4 DEF CallFails, Fail, Go, TypeOK, Runtimes, Steps
  <2>2. QED
    BY <1>4, <2>1, BoundsAssumption DEF CallFails, Fault, TypeOK, user, queues
<1>5. CASE Beat
  <2>1. rt' \in Runtimes /\ pc' \in Steps /\ pc' # "execute" /\ pc # "execute"
    BY <1>5, ZenonT(60) DEF Beat, Fail, Go, TypeOK, Runtimes, Steps
  <2>2. Append(inbox, Message("restored", {})) \in Seq(Messages)
    BY NewsType DEF TypeOK, SessionNews
  <2>3. inbox' \in Seq(Messages)
    BY <1>5, <2>2 DEF Beat, TypeOK
  <2>4. QED
    BY <1>5, <2>1, <2>3 DEF Beat, NoFault, TypeOK, user, queues
<1>6. CASE TakeMutation
  <2>1. held' \in Drafts /\ mutations' \in Seq(Drafts) /\ pc' = "execute"
    BY <1>6 DEF TakeMutation, Go, TypeOK
  <2>2. QED
    BY <1>6, <2>1, NamesAssumption DEF TakeMutation, TypeOK, Steps, user
<1>7. CASE DenyMutation \/ JournalFails
  <2>1. held \in Drafts /\ held' = None /\ inbox' = Append(inbox, Message("result", {held}))
    BY <1>7 DEF DenyMutation, JournalFails, Post, TypeOK
  <2>2. inbox' \in Seq(Messages)
    <3>1. Message("result", {held}) \in Messages
      BY <2>1, MessageType
    <3>2. inbox \in Seq(Messages)
      BY DEF TypeOK
    <3>3. QED
      BY <2>1, <3>1, <3>2
  <2>3. rt' \in Runtimes /\ pc' \in Steps /\ pc' # "execute"
    BY <1>7 DEF DenyMutation, JournalFails, Fail, Go, TypeOK, Runtimes, Steps
  <2>4. faults' \in 0..MaxFaults
    BY <1>7, BoundsAssumption DEF DenyMutation, JournalFails, Fault, TypeOK
  <2>5. QED
    BY <1>7, <2>1, <2>2, <2>3, <2>4 DEF DenyMutation, JournalFails, TypeOK, user, queues
<1>8. QED
  BY <1>1, <1>2, <1>3, <1>4, <1>5, <1>6, <1>7

\* Forgetting drafts, and releasing their locks, leaves the books well-typed.
LEMMA ForgetType ==
  ASSUME TypeOK, NEW drafts \in SUBSET Drafts, Forget(drafts)
  PROVE  /\ leased' \in SUBSET Drafts
         /\ owned' \in [Resources -> Drafts \cup {None}]
         /\ registry' \in [Drafts -> {"absent", "pending", "active", "conflicted"}]
BY DEF Forget, Disown, Finish, TypeOK

\* Unlocking a draft leaves the types of the locks.
LEMMA UnlockType ==
  ASSUME TypeOK, NEW d \in Drafts, Unlock(d)
  PROVE  /\ lock' \in [Resources -> Drafts \cup {Free, Other}]
         /\ faults' \in 0..MaxFaults
BY BoundsAssumption DEF Unlock, FreeLocks, Fault, NoFault, TypeOK

\* Giving a lease back breaks no type.
LEMMA ReleaseType ==
  ASSUME TypeOK, Release \/ Execute
  PROVE  TypeOK'
<1>1. CASE Release
  <2>1. Head(releases) \in Drafts /\ releases' \in Seq(Drafts)
    BY <1>1 DEF Release, TypeOK
  <2>2. /\ leased' \in SUBSET Drafts
        /\ owned' \in [Resources -> Drafts \cup {None}]
        /\ registry' \in [Drafts -> {"absent", "pending", "active", "conflicted"}]
        /\ lock' \in [Resources -> Drafts \cup {Free, Other}] /\ faults' \in 0..MaxFaults
    BY <1>1, <2>1, ForgetType, UnlockType DEF Release, TypeOK
  <2>3. rt' \in Runtimes /\ pc' \in Steps /\ pc' # "execute" /\ pc # "execute"
    BY <1>1, ZenonT(60) DEF Release, Fail, Go, TypeOK, Runtimes, Steps
  <2>4. QED
    BY <1>1, <2>1, <2>2, <2>3 DEF Release, TypeOK, user
<1>2. CASE Execute
  <2>1. held \in Drafts /\ held' = None /\ inbox' = Append(inbox, Message("result", {held}))
    BY <1>2 DEF Execute, Post, TypeOK
  <2>2. inbox' \in Seq(Messages)
    <3>1. Message("result", {held}) \in Messages
      BY <2>1, MessageType
    <3>2. inbox \in Seq(Messages)
      BY DEF TypeOK
    <3>3. QED
      BY <2>1, <3>1, <3>2
  <2>3. /\ leased' \in SUBSET Drafts
        /\ owned' \in [Resources -> Drafts \cup {None}]
        /\ registry' \in [Drafts -> {"absent", "pending", "active", "conflicted"}]
        /\ lock' \in [Resources -> Drafts \cup {Free, Other}] /\ faults' \in 0..MaxFaults
    BY <1>2, <2>1, ForgetType, UnlockType DEF Execute
  <2>4. rt' \in Runtimes /\ pc' \in Steps /\ pc' # "execute"
    BY <1>2, ZenonT(60) DEF Execute, Fail, Go, TypeOK, Runtimes, Steps
  <2>5. QED
    BY <1>2, <2>1, <2>2, <2>3, <2>4 DEF Execute, TypeOK, user, queues
<1>3. QED
  BY <1>1, <1>2

\* Answering a request breaks no type.
LEMMA EditType ==
  ASSUME TypeOK, RefuseEdit \/ AcquireEdit
  PROVE  TypeOK'
<1> DEFINE d == Head(edits)
<1>1. d \in Drafts /\ edits' \in Seq(Drafts)
  <2>1. edits \in Seq(Drafts) /\ edits # <<>> /\ edits' = Tail(edits)
    BY DEF RefuseEdit, AcquireEdit, TypeOK
  <2>2. QED
    BY <2>1
<1>2. \A kind \in {"granted", "denied"} : Append(inbox, Message(kind, {d})) \in Seq(Messages)
  <2>1. inbox \in Seq(Messages)
    BY DEF TypeOK
  <2>2. \A kind \in {"granted", "denied"} : Message(kind, {d}) \in Messages
    BY <1>1, MessageType
  <2>3. QED
    BY <2>1, <2>2
<1>3. Finish({d}) \in [Drafts -> {"absent", "pending", "active", "conflicted"}]
  BY DEF Finish, TypeOK
<1>4. ASSUME Deny(d)
      PROVE  /\ inbox' \in Seq(Messages)
             /\ registry' \in [Drafts -> {"absent", "pending", "active", "conflicted"}]
             /\ leased' \in SUBSET Drafts /\ owned' \in [Resources -> Drafts \cup {None}]
  BY <1>2, <1>3, <1>4 DEF Deny, Post, TypeOK
<1>5. CASE RefuseEdit
  BY <1>1, <1>4, <1>5 DEF RefuseEdit, TypeOK, user
<1>6. CASE AcquireEdit
  <2> DEFINE locked == [r \in Resources |-> IF r \in WantedBy(d) THEN d ELSE lock[r]]
             free == \A r \in WantedBy(d) : lock[r] = Free
  <2>1. locked \in [Resources -> Drafts \cup {Free, Other}]
    BY <1>1 DEF TypeOK
  <2>2. CASE Deny(d) /\ Fail /\ Fault /\ lock' \in {lock, locked}
    <3>1. rt' \in Runtimes /\ pc' \in Steps /\ pc' # "execute" /\ pc # "execute"
      BY <1>6, <2>2 DEF AcquireEdit, Fail, Go, TypeOK, Runtimes, Steps
    <3>2. lock' \in [Resources -> Drafts \cup {Free, Other}] /\ faults' \in 0..MaxFaults
      <4>1. lock' \in [Resources -> Drafts \cup {Free, Other}]
        BY <2>1, <2>2 DEF TypeOK
      <4>2. QED
        BY <2>2, <4>1, BoundsAssumption DEF Fault, TypeOK
    <3>3. UNCHANGED <<user, held, mutations, releases, strays>>
      BY <1>6 DEF AcquireEdit
    <3>4. QED
      BY <1>1, <1>4, <2>2, <3>1, <3>2, <3>3 DEF TypeOK, user
  <2>3. CASE Deny(d) /\ NoFault /\ UNCHANGED <<lock, pc, rt>>
    <3>1. UNCHANGED <<user, held, mutations, releases, strays>>
      BY <1>6 DEF AcquireEdit
    <3>2. QED
      BY <1>1, <1>4, <2>3, <3>1 DEF NoFault, TypeOK, user
  <2>4. CASE /\ NoFault /\ lock' = locked /\ leased' = leased \cup {d}
             /\ owned' = [r \in Resources |-> IF r \in WantedBy(d) THEN d ELSE owned[r]]
             /\ registry' = [registry EXCEPT ![d] = "active"]
             /\ Post("granted", d) /\ UNCHANGED <<pc, rt>>
    <3>1. UNCHANGED <<user, held, mutations, releases, strays>>
      BY <1>6 DEF AcquireEdit
    <3>2. inbox' \in Seq(Messages)
      BY <1>2, <2>4 DEF Post
    <3>3. /\ leased' \in SUBSET Drafts
          /\ owned' \in [Resources -> Drafts \cup {None}]
          /\ registry' \in [Drafts -> {"absent", "pending", "active", "conflicted"}]
      BY <1>1, <2>4 DEF TypeOK
    <3>4. QED
      BY <1>1, <2>1, <2>4, <3>1, <3>2, <3>3 DEF NoFault, TypeOK, user
  <2>5. QED
    BY <1>6, <2>2, <2>3, <2>4 DEF AcquireEdit
<1>7. QED
  BY <1>5, <1>6

\* A reset of the session breaks no type.
LEMMA ResetType ==
  ASSUME TypeOK, ResetAnswers \/ ResetClears
  PROVE  TypeOK'
<1>1. CASE ResetAnswers
  <2>1. inbox' \in Seq(Messages)
    <3> DEFINE old == IF rt.session THEN Outdated ELSE inbox
    <3>1. old \in Seq(Messages)
      BY OutdatedType DEF TypeOK
    <3>2. Results(mutations) \in Seq(Messages) /\ Denials(edits) \in Seq(Messages)
      BY AnswersType DEF TypeOK
    <3>3. inbox' = old \o Results(mutations) \o Denials(edits)
      BY <1>1 DEF ResetAnswers
    <3> HIDE DEF old
    <3>4. QED
      BY <3>1, <3>2, <3>3
  <2>2. registry' \in [Drafts -> {"absent", "pending", "active", "conflicted"}]
    BY <1>1 DEF ResetAnswers, Finish, TypeOK
  <2>3. pc' = "clear" /\ pc = "reject" /\ mutations' \in Seq(Drafts) /\ edits' \in Seq(Drafts)
    BY <1>1 DEF ResetAnswers, Go
  <2>4. QED
    BY <1>1, <2>1, <2>2, <2>3 DEF ResetAnswers, TypeOK, Steps, user
<1>2. CASE ResetClears
  <2>1. inbox' \in Seq(Messages)
    <3> DEFINE lost == IF leased = {} THEN <<>> ELSE <<Message("lost", leased)>>
               news == IF rt.failed THEN <<Message("disconnected", {})>> ELSE <<>>
    <3>1. Message("lost", leased) \in Messages /\ Message("disconnected", {}) \in Messages
      BY NewsType DEF TypeOK, SessionNews
    <3>2. lost \in Seq(Messages) /\ news \in Seq(Messages)
      BY <3>1
    <3>3. inbox' = inbox \o lost \o news
      BY <1>2 DEF ResetClears
    <3> HIDE DEF lost, news
    <3>4. QED
      BY <3>2, <3>3 DEF TypeOK
  <2>2. /\ leased' \in SUBSET Drafts
        /\ owned' \in [Resources -> Drafts \cup {None}]
        /\ registry' \in [Drafts -> {"absent", "pending", "active", "conflicted"}]
    BY <1>2, ForgetType DEF ResetClears, TypeOK
  <2>3. lock' \in [Resources -> Drafts \cup {Free, Other}] /\ faults' \in 0..MaxFaults
    BY <1>2, BoundsAssumption DEF ResetClears, FreeLocks, Fault, NoFault, TypeOK
  <2>4. rt' \in Runtimes /\ pc' \in Steps /\ pc' # "execute" /\ pc # "execute"
    BY <1>2 DEF ResetClears, Go, TypeOK, Runtimes, Steps
  <2>5. QED
    BY <1>2, <2>1, <2>2, <2>3, <2>4 DEF ResetClears, TypeOK, user, queues
<1>3. QED
  BY <1>1, <1>2

\* What the server and other users do breaks no type.
LEMMA ServerType ==
  ASSUME TypeOK, Server
  PROVE  TypeOK'
<1>1. PICK r \in Resources : OtherTakes(r) \/ OtherReleases(r) \/ Expire(r)
  BY DEF Server
<1>2. lock' \in [Resources -> Drafts \cup {Free, Other}]
  BY <1>1 DEF OtherTakes, OtherReleases, Expire, TypeOK
<1>3. faults' \in 0..MaxFaults
  BY <1>1, BoundsAssumption DEF OtherTakes, OtherReleases, Expire, Fault, NoFault, TypeOK
<1>4. OthersUnchanged
  BY <1>1 DEF OtherTakes, OtherReleases, Expire
<1>5. QED
  BY <1>2, <1>3, <1>4 DEF OthersUnchanged, TypeOK, user, worker, queues

\* Every step keeps the types.
LEMMA StepType == TypeOK /\ [Next]_vars => TypeOK'
<1> SUFFICES ASSUME TypeOK, [Next]_vars PROVE TypeOK'
  OBVIOUS
<1>1. CASE Answer
  BY <1>1, EnqueueType, MutationType, MessageStepType, LifecycleType DEF Answer
<1>2. CASE User
  BY <1>2, SurfaceType, LifecycleType DEF User
<1>3. CASE Worker
  BY <1>3, WorkerType, ReleaseType, EditType, ResetType DEF Worker
<1>4. CASE Server
  BY <1>4, ServerType
<1>5. CASE UNCHANGED vars
  BY <1>5 DEF TypeOK, vars, user, worker, queues
<1>6. QED
  BY <1>1, <1>2, <1>3, <1>4, <1>5 DEF Next

\* Surfaces, the registry, the runtime's flags and books, the queues, the inbox and the
\* server's locks keep the types the code gives them, for any number of requests.
THEOREM TypeCorrect == Spec => []TypeOK
BY InitType, StepType, PTL DEF Spec

-----------------------------------------------------------------------------
\* The number of a draft has been given out.
Known(d) == d[2] <= asks[SurfaceOf(d)]

\* Requests that the worker has not taken, and drafts that will be or are given up.
Queued == Members(edits) \cup ({ui} \cap Drafts)
Used == Members(releases) \cup Members(mutations) \cup ({held} \ {None})

Distinct(q) == \A i, j \in 1..Len(q) : q[i] = q[j] => i = j

\* Registered drafts do not overlap, and each is leased, queued or stranded. Drafts are
\* leased or queued once.
Books ==
  /\ \A d, e \in Registered : d # e => Touches(d) \cap Touches(e) = {}
  /\ leased \cup Queued \subseteq Registered
  /\ Registered \subseteq leased \cup Queued \cup stranded
  /\ leased \cap Queued = {}
  /\ ui \notin Members(edits)
  /\ Distinct(edits)
  /\ \A d \in Registered : Known(d)

\* What is queued when no reset is to come is stranded.
Deserted == LastReset => Members(edits) \subseteq stranded

-----------------------------------------------------------------------------
\* The drafts of the messages of a kind, and that no draft is granted by two of them.
DraftsOf(q, kind) == UNION {m.drafts : m \in {x \in Members(q) : x.kind = kind}}
GrantedOnce(q) ==
  \A i, j \in 1..Len(q) :
    q[i].kind = "granted" /\ q[j].kind = "granted" /\ q[i].drafts = q[j].drafts => i = j

Shows(d) == surface[SurfaceOf(d)] = [phase |-> "shown", draft |-> d]
Asks(d) == surface[SurfaceOf(d)] = [phase |-> "asking", draft |-> d]
Granted == DraftsOf(inbox, "granted")
Lost == DraftsOf(inbox, "lost")

\* A leased draft has the locks it wants, and no other draft has one.
Owners ==
  /\ \A d \in leased : OwnedBy(d) = WantedBy(d)
  /\ \A r \in Resources : owned[r] # None => owned[r] \in leased

\* A draft that is shown is leased, or its loss is announced.
Backed == \A d \in Drafts : Shows(d) => d \in leased \/ d \in Lost

\* A draft is queued, then granted, then shown, then used: never two of them.
Stages ==
  /\ \A s \in Surfaces : surface[s].phase # "idle" =>
       SurfaceOf(surface[s].draft) = s /\ Known(surface[s].draft)
  /\ GrantedOnce(inbox)
  /\ \A d \in Granted : Known(d) /\ ~Shows(d) /\ d \notin Used /\ d \notin Queued
  /\ \A d \in Queued : ~Shows(d) /\ d \notin Used
  /\ \A d \in Used : Known(d) /\ ~Shows(d) /\ ~Asks(d)

Handles == Owners /\ Backed /\ Stages

\* The draft that the main thread found the session usable for is the one it is to queue a
\* request for, or the one it is to queue a mutation with.
Promised == tested # None => ui = tested \/ (ui = None /\ Shows(tested))

IInv == TypeOK /\ Books /\ Deserted /\ Handles /\ Promised

-----------------------------------------------------------------------------
(* The books: who has a registered draft. *)

\* The first of a queue without repetition is not in its rest.
LEMMA DistinctTail ==
  ASSUME NEW S, NEW q \in Seq(S), q # <<>>, Distinct(q)
  PROVE  /\ Distinct(Tail(q)) /\ Head(q) \notin Members(Tail(q))
         /\ Members(Tail(q)) = Members(q) \ {Head(q)}
<1>1. /\ Len(q) \in Nat \ {0} /\ Head(q) = q[1] /\ Len(Tail(q)) = Len(q) - 1
      /\ \A i \in 1..Len(Tail(q)) : Tail(q)[i] = q[i + 1]
  OBVIOUS
<1>2. \A i \in 1..Len(Tail(q)) : i + 1 \in 1..Len(q) /\ i + 1 # 1
  BY <1>1
<1>3. Head(q) \notin Members(Tail(q))
  <2>1. SUFFICES ASSUME NEW i \in 1..Len(Tail(q)), Tail(q)[i] = Head(q) PROVE FALSE
    BY DEF Members
  <2>2. i + 1 \in 1..Len(q) /\ 1 \in 1..Len(q) /\ q[i + 1] = q[1] /\ i + 1 # 1
    BY <1>1, <1>2, <2>1
  <2>3. QED
    BY <2>2 DEF Distinct
<1>4. Distinct(Tail(q))
  <2>1. SUFFICES ASSUME NEW i \in 1..Len(Tail(q)), NEW j \in 1..Len(Tail(q)),
                        Tail(q)[i] = Tail(q)[j]
                 PROVE  i = j
    BY DEF Distinct
  <2>2. i + 1 \in 1..Len(q) /\ j + 1 \in 1..Len(q) /\ q[i + 1] = q[j + 1]
    BY <1>1, <1>2, <2>1
  <2>3. i + 1 = j + 1
    BY <2>2 DEF Distinct
  <2>4. QED
    BY <1>1, <2>3
<1>5. QED
  BY <1>3, <1>4, MembersType

\* A queue stays without repetition when what it has not is added.
LEMMA DistinctAppend ==
  ASSUME NEW S, NEW q \in Seq(S), NEW e \in S, Distinct(q), e \notin Members(q)
  PROVE  Distinct(Append(q, e))
<1>1. /\ Len(q) \in Nat /\ Len(Append(q, e)) = Len(q) + 1 /\ Append(q, e)[Len(q) + 1] = e
      /\ \A i \in 1..Len(q) : Append(q, e)[i] = q[i]
  OBVIOUS
<1>2. \A i \in 1..Len(q) : q[i] # e
  BY DEF Members
<1>3. SUFFICES ASSUME NEW i \in 1..(Len(q) + 1), NEW j \in 1..(Len(q) + 1),
                      Append(q, e)[i] = Append(q, e)[j]
               PROVE  i = j
  BY <1>1 DEF Distinct
<1>4. CASE i \in 1..Len(q) /\ j \in 1..Len(q)
  BY <1>1, <1>3, <1>4 DEF Distinct
<1>5. CASE i = Len(q) + 1 \/ j = Len(q) + 1
  BY <1>1, <1>2, <1>3, <1>5
<1>6. QED
  BY <1>1, <1>4, <1>5

\* The books are right at the start.
LEMMA BooksInit == Init => Books
<1> SUFFICES ASSUME Init PROVE Books
  OBVIOUS
<1>1. Registered = {} /\ leased = {} /\ edits = <<>> /\ ui = None
  BY DEF Init, Registered
<1>2. Members(edits) = {} /\ Distinct(edits)
  BY <1>1 DEF Members, Distinct
<1>3. Queued = {}
  BY <1>1, <1>2, NamesAssumption DEF Queued
<1>4. QED
  BY <1>1, <1>2, <1>3 DEF Books

\* A step that neither registers nor finishes a draft leaves the books as they are.
LEMMA BooksKept ==
  ASSUME Books, Registered' = Registered, leased' = leased, Queued' = Queued, edits' = edits,
         asks' = asks, stranded' = stranded, ui' \notin Members(edits)
  PROVE  Books'
BY DEF Books, Distinct, Known

\* Leased drafts that are forgotten leave the registry too.
LEMMA BooksForget ==
  ASSUME TypeOK, Books, NEW drafts \in SUBSET leased, Forget(drafts),
         UNCHANGED <<edits, ui, asks, stranded>>
  PROVE  Books'
<1>1. Registered' = Registered \ drafts
  BY DEF Forget, Finish, Registered, TypeOK
<1>2. leased' = leased \ drafts /\ Queued' = Queued
  BY DEF Forget, Queued
<1>3. QED
  BY <1>1, <1>2 DEF Books, Distinct, Known

\* The request at the head of the queue is denied.
LEMMA BooksDeny ==
  ASSUME TypeOK, Books, edits # <<>>, edits' = Tail(edits), registry' = Finish({Head(edits)}),
         UNCHANGED <<leased, ui, asks, stranded>>
  PROVE  Books'
<1>1. /\ Members(Tail(edits)) = Members(edits) \ {Head(edits)} /\ Distinct(Tail(edits))
      /\ Head(edits) \in Members(edits)
  BY DistinctTail, MembersType DEF Books, TypeOK
<1>2. Registered' = Registered \ {Head(edits)}
  BY DEF Finish, Registered, TypeOK
<1>3. Queued' = Queued \ {Head(edits)} /\ Head(edits) \in Queued
  BY <1>1 DEF Queued, Books
<1>4. QED
  BY <1>1, <1>2, <1>3 DEF Books, Distinct, Known

\* The request at the head of the queue is granted.
LEMMA BooksGrant ==
  ASSUME TypeOK, Books, edits # <<>>, edits' = Tail(edits),
         leased' = leased \cup {Head(edits)},
         registry' = [registry EXCEPT ![Head(edits)] = "active"],
         UNCHANGED <<ui, asks, stranded>>
  PROVE  Books'
<1>1. /\ Members(Tail(edits)) = Members(edits) \ {Head(edits)} /\ Distinct(Tail(edits))
      /\ Head(edits) \in Members(edits) /\ Head(edits) \in Drafts
  BY DistinctTail, MembersType DEF Books, TypeOK
<1>2. Queued' = Queued \ {Head(edits)} /\ Head(edits) \in Queued
  BY <1>1 DEF Queued, Books
<1>3. Registered' = Registered
  <2>1. Head(edits) \in Registered
    BY <1>2 DEF Books
  <2>2. QED
    BY <1>1, <2>1 DEF Registered, TypeOK
<1>4. QED
  BY <1>1, <1>2, <1>3 DEF Books, Distinct, Known

\* A request that is registered is new, and overlaps nothing that is.
LEMMA BooksRequest ==
  ASSUME TypeOK, Books, NEW s \in Surfaces, NEW messages, MainThread, Request(s, messages)
  PROVE  Books'
<1> SUFFICES ASSUME NEW d, d = <<s, asks[s] + 1>> PROVE Books'
  OBVIOUS
<1>1. d \in Drafts /\ asks[s] \in Nat /\ asks' = [asks EXCEPT ![s] = asks[s] + 1]
  BY BoundsAssumption DEF Request, TypeOK, Drafts
<1>2. \A e \in Drafts : Known(e) => Known(e)'
  <2>1. \A e \in Drafts : SurfaceOf(e) \in Surfaces /\ e[2] \in Nat
    BY DraftParts, BoundsAssumption
  <2>2. \A t \in Surfaces : asks[t] \in Nat
    BY BoundsAssumption DEF TypeOK
  <2>3. \A t \in Surfaces : asks[t] <= asks'[t]
    BY <1>1, <2>2 DEF TypeOK
  <2>4. QED
    BY <1>1, <2>1, <2>2, <2>3 DEF Known, SurfaceOf, TypeOK
<1>3. ~Known(d) /\ Known(d)'
  <2>1. d[1] = s /\ d[2] = asks[s] + 1 /\ asks'[s] = asks[s] + 1
    BY <1>1 DEF TypeOK
  <2>2. QED
    BY <1>1, <2>1 DEF Known, SurfaceOf
<1>4. CASE attached /\ editable /\ ~Overlapped(d)
  <2>1. /\ registry' = [registry EXCEPT ![d] = "pending"] /\ ui' = d
        /\ UNCHANGED <<edits, leased, stranded>>
    BY <1>4 DEF Request, worker, queues
  <2>2. d \notin Registered
    BY <1>3 DEF Books
  <2>3. Registered' = Registered \cup {d}
    BY <1>1, <2>1 DEF Registered, TypeOK
  <2>4. Queued = Members(edits) /\ Queued' = Members(edits) \cup {d}
    BY <1>1, <2>1, NamesAssumption DEF Queued, MainThread
  <2>5. \A e \in Registered : Touches(e) \cap Touches(d) = {}
    BY <1>4 DEF Overlapped
  <2>6. \A e, f \in Registered' : e # f => Touches(e) \cap Touches(f) = {}
    BY <2>3, <2>5 DEF Books
  <2>7. \A e \in Registered' : Known(e)'
    <3>1. Registered \in SUBSET Drafts /\ \A e \in Registered : Known(e)
      BY DEF Books, Registered
    <3>2. QED
      BY <1>2, <1>3, <2>3, <3>1
  <2>8. d \notin Members(edits) /\ d \notin leased
    BY <2>2, <2>4 DEF Books
  <2>9. QED
    BY <2>1, <2>3, <2>4, <2>6, <2>7, <2>8 DEF Books, Distinct
<1>5. CASE ~(attached /\ editable /\ ~Overlapped(d))
  <2>1. UNCHANGED <<registry, ui, edits, leased, stranded>>
    BY <1>5 DEF Request, worker, queues
  <2>2. Registered' = Registered /\ Queued' = Queued
    BY <2>1 DEF Registered, Queued
  <2>3. \A e \in Registered' : Known(e)'
    BY <1>2, <2>2 DEF Books, Registered
  <2>4. QED
    BY <2>1, <2>2, <2>3 DEF Books, Distinct
<1>6. QED
  BY <1>4, <1>5

\* The caller finds the session usable, or finishes its draft.
LEMMA BooksTest ==
  ASSUME TypeOK, Books, NEW d \in Drafts, TestSession(d)
  PROVE  Books'
<1>1. ui = d /\ UNCHANGED <<asks, leased, edits, stranded>>
  BY DEF TestSession, worker, queues
<1>2. Queued = Members(edits) \cup {d} /\ d \notin Members(edits)
  BY <1>1 DEF Queued, Books
<1>3. None \notin Drafts /\ Members(edits) \in SUBSET Drafts
  BY NamesAssumption, MembersType DEF TypeOK
<1>4. CASE UNCHANGED <<ui, registry>>
  BY <1>1, <1>4, BooksKept DEF Registered, Queued, Books
<1>5. CASE ui' = None /\ registry' = Finish({d})
  <2>1. Queued' = Queued \ {d}
    BY <1>1, <1>2, <1>3, <1>5 DEF Queued
  <2>2. Registered' = Registered \ {d}
    BY <1>5 DEF Finish, Registered, TypeOK
  <2>3. d \notin leased
    BY <1>2 DEF Books
  <2>4. ui' \notin Members(edits)
    BY <1>3, <1>5
  <2>5. QED
    BY <1>1, <2>1, <2>2, <2>3, <2>4 DEF Books, Distinct, Known
<1>6. QED
  BY <1>4, <1>5 DEF TestSession

\* The caller queues its request.
LEMMA BooksEnqueue ==
  ASSUME TypeOK, Books, NEW d \in Drafts, Enqueue(d)
  PROVE  Books'
<1>1. /\ ui = d /\ ui' = None /\ edits' = Append(edits, d)
      /\ UNCHANGED <<asks, leased, registry>> /\ stranded \subseteq stranded'
  BY DEF Enqueue, worker
<1>2. Queued = Members(edits) \cup {d} /\ d \notin Members(edits)
  BY <1>1 DEF Queued, Books
<1>3. None \notin Drafts /\ edits \in Seq(Drafts) /\ Members(edits) \in SUBSET Drafts
  BY NamesAssumption, MembersType DEF TypeOK
<1>4. Members(edits') = Members(edits) \cup {d} /\ Distinct(edits')
  BY <1>1, <1>2, <1>3, MembersType, DistinctAppend DEF Books
<1>5. Queued' = Queued /\ Registered' = Registered
  BY <1>1, <1>2, <1>3, <1>4 DEF Queued, Registered
<1>6. ui' \notin Members(edits')
  BY <1>1, <1>3, <1>4
<1>7. QED
  BY <1>1, <1>4, <1>5, <1>6 DEF Books, Known

\* A new runtime has new queues: what was in the old one's is stranded.
LEMMA BooksStart ==
  ASSUME TypeOK, Books, Deserted, Start
  PROVE  Books'
<1>1. /\ edits' = <<>> /\ ui = None /\ pc = "off"
      /\ UNCHANGED <<registry, leased, ui, asks, stranded>>
  BY DEF Start, MainThread
<1>2. Registered' = Registered /\ Members(edits') = {} /\ Distinct(edits')
  BY <1>1 DEF Registered, Members, Distinct
<1>3. Queued = Members(edits) /\ Queued' = {}
  BY <1>1, <1>2, NamesAssumption DEF Queued
<1>4. Members(edits) \subseteq stranded
  BY <1>1 DEF Deserted, LastReset
<1>5. QED
  BY <1>1, <1>2, <1>3, <1>4 DEF Books, Known

\* The reset denies what is queued.
LEMMA BooksAnswers ==
  ASSUME TypeOK, Books, ResetAnswers
  PROVE  Books'
<1>1. /\ registry' = Finish(Members(edits)) /\ edits' = <<>>
      /\ UNCHANGED <<leased, ui, asks, stranded>>
  BY DEF ResetAnswers, user
<1>2. Registered' = Registered \ Members(edits)
  BY <1>1 DEF Finish, Registered, TypeOK
<1>3. Members(edits') = {} /\ Distinct(edits')
  BY <1>1 DEF Members, Distinct
<1>4. Queued' = Queued \ Members(edits)
  BY <1>1, <1>3 DEF Queued, Books
<1>5. Members(edits) \cap leased = {}
  BY DEF Books, Queued
<1>6. QED
  BY <1>1, <1>2, <1>3, <1>4, <1>5 DEF Books, Known

\* Every step keeps the books.
LEMMA BooksNext ==
  ASSUME TypeOK, Books, Deserted, [Next]_vars
  PROVE  Books'
<1>1. ASSUME UNCHANGED <<registry, leased, edits, ui, asks, stranded>> PROVE Books'
  BY <1>1, BooksKept DEF Registered, Queued, Books
<1>2. CASE \E d \in Drafts : TestSession(d) \/ Enqueue(d) \/ EnqueueMutation(d)
  <2>1. PICK d \in Drafts : TestSession(d) \/ Enqueue(d) \/ EnqueueMutation(d)
    BY <1>2
  <2>2. CASE EnqueueMutation(d)
    BY <1>1, <2>2 DEF EnqueueMutation, HandOver, worker
  <2>3. QED
    BY <2>1, <2>2, BooksTest, BooksEnqueue
<1>3. CASE HandleResult
  <2>1. TheDraft \in Drafts
    BY <1>3, HeadType DEF HandleResult, Receiving
  <2>2. QED
    BY <1>3, <2>1, DraftParts, BooksRequest DEF HandleResult, Receiving
<1>4. CASE \/ HandleGranted \/ HandleDenied \/ HandleLost \/ IgnoreResult \/ IgnoreStale
           \/ \E kind \in SessionNews : HandleNews(kind)
  <2>1. UNCHANGED <<registry, leased, edits, ui, asks, stranded>>
    BY <1>4 DEF HandleGranted, HandleDenied, HandleLost, IgnoreResult, IgnoreStale,
                HandleNews, worker, queues
  <2>2. QED
    BY <1>1, <2>1
<1>5. CASE EnterConflict \/ \E d \in Drafts : MarkConflict(d)
  <2>1. UNCHANGED <<leased, edits, asks, stranded>>
    BY <1>5 DEF EnterConflict, MarkConflict, worker, queues
  <2>2. {ui} \cap Drafts = {} /\ {ui'} \cap Drafts = {}
    BY <1>5, NamesAssumption DEF EnterConflict, MarkConflict, MainThread
  <2>3. Queued' = Queued
    BY <2>1, <2>2 DEF Queued
  <2>4. Registered' = Registered
    BY <1>5, ZenonT(60) DEF EnterConflict, MarkConflict, Registered, TypeOK
  <2>5. ui' \notin Members(edits)
    BY <2>2, MembersType DEF TypeOK
  <2>6. QED
    BY <2>1, <2>3, <2>4, <2>5, BooksKept
<1>6. CASE Resume \/ Detach \/ Start
  <2>1. CASE Resume \/ Detach
    BY <1>1, <2>1 DEF Resume, Detach, worker, queues
  <2>2. QED
    BY <1>6, <2>1, BooksStart
<1>7. ASSUME NEW s \in Surfaces, Ask(s) \/ Close(s) \/ Save(s) \/ SaveRefused(s)
      PROVE  Books'
  <2>1. CASE Ask(s)
    BY <2>1, BooksRequest DEF Ask
  <2>2. CASE Close(s) \/ Save(s) \/ SaveRefused(s)
    <3>1. UNCHANGED <<registry, leased, edits, ui, asks, stranded>>
      BY <2>2 DEF Close, Save, SaveRefused, HandOver, worker, queues
    <3>2. QED
      BY <1>1, <3>1
  <2>3. QED
    BY <1>7, <2>1, <2>2
<1>8. CASE \/ Stopped \/ Top \/ Connect \/ CallFails \/ Await \/ Beat
           \/ TakeMutation \/ NoMutation \/ DenyMutation \/ JournalFails
  <2>1. UNCHANGED <<registry, leased, edits, ui, asks, stranded>>
    BY <1>8 DEF Stopped, Top, Connect, CallFails, Await, Beat, TakeMutation, NoMutation,
                DenyMutation, JournalFails, user, queues
  <2>2. QED
    BY <1>1, <2>1
<1>9. CASE Release
  <2>1. CASE Held(Head(releases)) /\ registry[Head(releases)] # "absent"
    <3>1. {Head(releases)} \in SUBSET leased /\ Forget({Head(releases)})
      BY <1>9, <2>1 DEF Release, Held
    <3>2. QED
      BY <1>9, <3>1, BooksForget DEF Release, user
  <2>2. CASE ~(Held(Head(releases)) /\ registry[Head(releases)] # "absent")
    <3>1. UNCHANGED <<registry, leased, edits, ui, asks, stranded>>
      BY <1>9, <2>2 DEF Release, user
    <3>2. QED
      BY <1>1, <3>1
  <2>3. QED
    BY <2>1, <2>2
<1>10. CASE Execute
  <2>1. {held} \in SUBSET leased
    BY <1>10 DEF Execute, Executable, Held
  <2>2. QED
    BY <1>10, <2>1, BooksForget DEF Execute, user, queues
<1>11. CASE RefuseEdit
  BY <1>11, BooksDeny DEF RefuseEdit, Deny, user
<1>12. CASE AcquireEdit
  <2>1. edits # <<>> /\ edits' = Tail(edits) /\ UNCHANGED <<ui, asks, stranded>>
    BY <1>12 DEF AcquireEdit, user
  <2>2. CASE Deny(Head(edits))
    BY <2>1, <2>2, BooksDeny DEF Deny
  <2>3. CASE /\ leased' = leased \cup {Head(edits)}
             /\ registry' = [registry EXCEPT ![Head(edits)] = "active"]
    BY <2>1, <2>3, BooksGrant
  <2>4. QED
    BY <1>12, <2>2, <2>3 DEF AcquireEdit
<1>13. CASE ResetAnswers
  BY <1>13, BooksAnswers
<1>14. CASE ResetClears
  BY <1>14, BooksForget DEF ResetClears, user, queues
<1>15. CASE Server \/ UNCHANGED vars
  <2>1. UNCHANGED <<registry, leased, edits, ui, asks, stranded>>
    BY <1>15 DEF Server, OtherTakes, OtherReleases, Expire, OthersUnchanged, vars, user,
                 worker, queues
  <2>2. QED
    BY <1>1, <2>1
<1>16. QED
  BY <1>2, <1>3, <1>4, <1>5, <1>6, <1>7, <1>8, <1>9, <1>10, <1>11, <1>12, <1>13, <1>14, <1>15
     DEF Next, Answer, User, Worker

\* Every step leaves what nobody will look at stranded.
LEMMA DesertedNext ==
  ASSUME TypeOK, Deserted, [Next]_vars
  PROVE  Deserted'
<1>1. ASSUME UNCHANGED <<edits, stranded>>, LastReset' => LastReset PROVE Deserted'
  BY <1>1 DEF Deserted, Members
<1>2. ASSUME NEW d \in Drafts, TestSession(d) \/ Enqueue(d) \/ EnqueueMutation(d)
      PROVE  Deserted'
  <2>1. CASE TestSession(d) \/ EnqueueMutation(d)
    BY <1>1, <2>1 DEF TestSession, EnqueueMutation, HandOver, worker, queues, LastReset
  <2>2. CASE Enqueue(d)
    <3>1. edits \in Seq(Drafts) /\ edits' = Append(edits, d) /\ LastReset' = LastReset
      BY <2>2 DEF Enqueue, worker, LastReset, TypeOK
    <3>2. Members(edits') = Members(edits) \cup {d}
      BY <3>1, MembersType
    <3>3. QED
      BY <2>2, <3>1, <3>2 DEF Enqueue, Deserted
  <2>3. QED
    BY <1>2, <2>1, <2>2
<1>3. CASE Answer /\ ~(\E d \in Drafts : TestSession(d) \/ Enqueue(d) \/ EnqueueMutation(d))
  <2>1. UNCHANGED <<edits, stranded, pc>> /\ rt'.failed = rt.failed
    BY <1>3 DEF Answer, HandleGranted, HandleDenied, HandleLost, HandleResult, Request,
                IgnoreResult, HandleNews, IgnoreStale, EnterConflict, worker, queues, TypeOK,
                Runtimes
  <2>2. QED
    BY <1>1, <2>1 DEF LastReset
<1>4. CASE User /\ ~Start
  <2>1. UNCHANGED <<edits, stranded, pc>> /\ rt'.failed = rt.failed
    BY <1>4 DEF User, Ask, Request, Close, Save, SaveRefused, HandOver, MarkConflict, Resume,
                Detach, worker, queues, TypeOK, Runtimes
  <2>2. QED
    BY <1>1, <2>1 DEF LastReset
<1>5. CASE Start \/ ResetAnswers
  <2>1. edits' = <<>>
    BY <1>5 DEF Start, ResetAnswers
  <2>2. QED
    BY <2>1 DEF Deserted, Members
<1>6. CASE \/ Stopped \/ Top \/ Connect \/ CallFails \/ Await \/ Beat \/ Release
           \/ TakeMutation \/ NoMutation \/ DenyMutation \/ JournalFails \/ Execute
           \/ RefuseEdit \/ AcquireEdit
  <2>1. pc' \notin {"clear", "off"}
    BY <1>6 DEF Stopped, Top, Connect, CallFails, Await, Beat, Release, TakeMutation,
                NoMutation, DenyMutation, JournalFails, Execute, RefuseEdit, AcquireEdit, Go,
                Fail, TypeOK
  <2>2. QED
    BY <2>1 DEF Deserted, LastReset
<1>7. CASE ResetClears
  <2>1. UNCHANGED <<edits, stranded>> /\ pc = "clear" /\ (pc' # "off" \/ ~rt.failed)
    BY <1>7 DEF ResetClears, Go, user, queues
  <2>2. pc' # "clear"
    BY <1>7 DEF ResetClears, Go
  <2>3. QED
    BY <1>1, <2>1, <2>2 DEF LastReset
<1>8. CASE Server \/ UNCHANGED vars
  BY <1>1, <1>8 DEF Server, OtherTakes, OtherReleases, Expire, OthersUnchanged, vars, user,
                    worker, queues, LastReset
<1>9. QED
  BY <1>2, <1>3, <1>4, <1>5, <1>6, <1>7, <1>8 DEF Next, Answer, User, Worker

\* The books are right at the start, and every step keeps them.
LEMMA BooksHold ==
  /\ Init => TypeOK /\ Books /\ Deserted
  /\ TypeOK /\ Books /\ Deserted /\ [Next]_vars => TypeOK' /\ Books' /\ Deserted'
<1>1. Init => Deserted
  BY DEF Init, Deserted, LastReset
<1>2. QED
  BY <1>1, InitType, BooksInit, StepType, BooksNext, DesertedNext

\* The registry keeps two surfaces of one client from editing what overlaps.
THEOREM EditorsCorrect == Spec => []OneEditor
<1>1. Books => OneEditor
  BY DEF Books, OneEditor
<1>2. QED
  BY <1>1, BooksHold, PTL DEF Spec

\* Every registered draft has somebody who will finish it, and so blocks its resources for
\* a while only: but for those whose request was queued when the worker would not look at
\* the queue any more.
THEOREM DraftsCorrect == Spec => []DraftsAreAccounted
<1>1. Books /\ Deserted => DraftsAreAccounted
  BY DEF Books, Queued, Deserted, DraftsAreAccounted
<1>2. QED
  BY <1>1, BooksHold, PTL DEF Spec

-----------------------------------------------------------------------------
(* What messages say. *)

\* The drafts of the messages of a kind, when one message is posted or handled.
LEMMA DraftsAppend ==
  ASSUME NEW q \in Seq(Messages), NEW m \in Messages, NEW kind
  PROVE  /\ m.kind = kind => DraftsOf(Append(q, m), kind) = DraftsOf(q, kind) \cup m.drafts
         /\ m.kind # kind => DraftsOf(Append(q, m), kind) = DraftsOf(q, kind)
<1>1. Members(Append(q, m)) = Members(q) \cup {m}
  BY MembersType
<1>2. QED
  BY <1>1 DEF DraftsOf

\* Taking the head of a queue takes the drafts it names, and no other.
LEMMA DraftsTail ==
  ASSUME NEW q \in Seq(Messages), q # <<>>, NEW kind
  PROVE  /\ Head(q).kind = kind => DraftsOf(q, kind) = DraftsOf(Tail(q), kind) \cup Head(q).drafts
         /\ Head(q).kind # kind => DraftsOf(q, kind) = DraftsOf(Tail(q), kind)
<1>1. Members(q) = {Head(q)} \cup Members(Tail(q))
  BY MembersType
<1>2. QED
  BY <1>1 DEF DraftsOf

\* The members of two queues, one after the other.
LEMMA MembersConcat ==
  ASSUME NEW S, NEW q \in Seq(S), NEW r \in Seq(S)
  PROVE  /\ q \o r \in Seq(S) /\ Members(q \o r) = Members(q) \cup Members(r)
         /\ Len(q \o r) = Len(q) + Len(r) /\ Len(q) \in Nat /\ Len(r) \in Nat
         /\ \A i \in 1..Len(q) : (q \o r)[i] = q[i]
         /\ \A i \in 1..Len(q \o r) : i \notin 1..Len(q) =>
              i - Len(q) \in 1..Len(r) /\ (q \o r)[i] = r[i - Len(q)]
<1>1. /\ q \o r \in Seq(S) /\ Len(q \o r) = Len(q) + Len(r) /\ Len(q) \in Nat /\ Len(r) \in Nat
      /\ \A i \in 1..Len(q) : (q \o r)[i] = q[i]
      /\ \A i \in 1..Len(q \o r) : i \notin 1..Len(q) =>
              i - Len(q) \in 1..Len(r) /\ (q \o r)[i] = r[i - Len(q)]
  OBVIOUS
<1>2. Members(q \o r) \subseteq Members(q) \cup Members(r)
  BY <1>1 DEF Members
<1>3. Members(q) \subseteq Members(q \o r)
  BY <1>1 DEF Members
<1>4. Members(r) \subseteq Members(q \o r)
  <2>1. SUFFICES ASSUME NEW i \in 1..Len(r) PROVE r[i] \in Members(q \o r)
    BY DEF Members
  <2>2. Len(q) + i \in 1..Len(q \o r) /\ (q \o r)[Len(q) + i] = r[(Len(q) + i) - Len(q)]
    BY <1>1
  <2>3. QED
    BY <1>1, <2>2 DEF Members
<1>5. QED
  BY <1>1, <1>2, <1>3, <1>4

\* Messages that grant nothing can be added.
LEMMA QuietConcat ==
  ASSUME NEW q \in Seq(Messages), NEW r \in Seq(Messages), \A m \in Members(r) : m.kind # "granted"
  PROVE  /\ DraftsOf(q \o r, "granted") = DraftsOf(q, "granted")
         /\ DraftsOf(q \o r, "lost") = DraftsOf(q, "lost") \cup DraftsOf(r, "lost")
         /\ GrantedOnce(q) => GrantedOnce(q \o r)
<1>1. Members(q \o r) = Members(q) \cup Members(r)
  BY MembersConcat
<1>2. DraftsOf(q \o r, "granted") = DraftsOf(q, "granted")
  BY <1>1 DEF DraftsOf
<1>3. DraftsOf(q \o r, "lost") = DraftsOf(q, "lost") \cup DraftsOf(r, "lost")
  BY <1>1 DEF DraftsOf
<1>4. ASSUME GrantedOnce(q) PROVE GrantedOnce(q \o r)
  <2>1. \A i \in 1..Len(q \o r) : (q \o r)[i].kind = "granted" =>
          i \in 1..Len(q) /\ (q \o r)[i] = q[i]
    <3>1. SUFFICES ASSUME NEW i \in 1..Len(q \o r), (q \o r)[i].kind = "granted",
                          i \notin 1..Len(q)
                   PROVE  FALSE
      BY MembersConcat
    <3>2. i - Len(q) \in 1..Len(r) /\ (q \o r)[i] = r[i - Len(q)]
      BY <3>1, MembersConcat
    <3>3. QED
      BY <3>1, <3>2 DEF Members
  <2>2. QED
    BY <1>4, <2>1 DEF GrantedOnce
<1>5. QED
  BY <1>2, <1>3, <1>4

\* A queue of one.
LEMMA Single ==
  ASSUME NEW m \in Messages
  PROVE  <<m>> \in Seq(Messages) /\ Members(<<m>>) = {m}
<1>1. <<m>> \in Seq(Messages) /\ Len(<<m>>) = 1 /\ <<m>>[1] = m
  OBVIOUS
<1>2. 1..1 = {1}
  OBVIOUS
<1>3. QED
  BY <1>1, <1>2 DEF Members

\* A message that grants nothing can be posted ...
LEMMA QuietAppend ==
  ASSUME NEW q \in Seq(Messages), NEW m \in Messages, m.kind # "granted"
  PROVE  /\ DraftsOf(Append(q, m), "granted") = DraftsOf(q, "granted")
         /\ DraftsOf(q, "lost") \subseteq DraftsOf(Append(q, m), "lost")
         /\ GrantedOnce(q) => GrantedOnce(Append(q, m))
<1>1. Append(q, m) = q \o <<m>>
  OBVIOUS
<1>2. <<m>> \in Seq(Messages) /\ \A x \in Members(<<m>>) : x.kind # "granted"
  BY Single
<1>3. /\ DraftsOf(q \o <<m>>, "granted") = DraftsOf(q, "granted")
      /\ DraftsOf(q \o <<m>>, "lost") = DraftsOf(q, "lost") \cup DraftsOf(<<m>>, "lost")
      /\ GrantedOnce(q) => GrantedOnce(q \o <<m>>)
  BY <1>2, QuietConcat
<1>4. QED
  BY <1>1, <1>3

\* ... and so can the grant of a draft that has none.
LEMMA GrantAppend ==
  ASSUME NEW q \in Seq(Messages), NEW d \in Drafts, GrantedOnce(q), d \notin DraftsOf(q, "granted")
  PROVE  GrantedOnce(Append(q, Message("granted", {d})))
<1> DEFINE m == Message("granted", {d})
<1>1. m \in Messages /\ m.kind = "granted" /\ m.drafts = {d}
  BY MessageType
<1>2. /\ Len(q) \in Nat /\ Len(Append(q, m)) = Len(q) + 1 /\ Append(q, m)[Len(q) + 1] = m
      /\ \A i \in 1..Len(q) : Append(q, m)[i] = q[i]
  BY <1>1
<1>3. \A i \in 1..Len(q) : q[i].kind = "granted" => q[i].drafts # {d}
  <2>1. SUFFICES ASSUME NEW i \in 1..Len(q), q[i].kind = "granted", q[i].drafts = {d} PROVE FALSE
    OBVIOUS
  <2>2. q[i] \in Members(q)
    BY DEF Members
  <2>3. QED
    BY <2>1, <2>2 DEF DraftsOf
<1> HIDE DEF m
<1>4. SUFFICES ASSUME NEW i \in 1..(Len(q) + 1), NEW j \in 1..(Len(q) + 1),
                      Append(q, m)[i].kind = "granted", Append(q, m)[j].kind = "granted",
                      Append(q, m)[i].drafts = Append(q, m)[j].drafts
               PROVE  i = j
  BY <1>2 DEF GrantedOnce, m
<1>5. CASE i \in 1..Len(q) /\ j \in 1..Len(q)
  BY <1>2, <1>4, <1>5 DEF GrantedOnce
<1>6. CASE i = Len(q) + 1 \/ j = Len(q) + 1
  BY <1>1, <1>2, <1>3, <1>4, <1>6
<1>7. QED
  BY <1>2, <1>5, <1>6

\* A grant that is handled was the only one of its draft.
LEMMA GrantTail ==
  ASSUME NEW q \in Seq(Messages), q # <<>>, GrantedOnce(q)
  PROVE  /\ GrantedOnce(Tail(q))
         /\ \A d \in Drafts : Head(q).kind = "granted" /\ Head(q).drafts = {d} =>
              d \notin DraftsOf(Tail(q), "granted")
<1>1. /\ Len(q) \in Nat \ {0} /\ Head(q) = q[1] /\ Len(Tail(q)) = Len(q) - 1
      /\ \A i \in 1..Len(Tail(q)) : Tail(q)[i] = q[i + 1]
      /\ Tail(q) \in Seq(Messages)
  OBVIOUS
<1>2. \A i \in 1..Len(Tail(q)) : i + 1 \in 1..Len(q) /\ i + 1 # 1
  BY <1>1
<1>3. GrantedOnce(Tail(q))
  <2>1. SUFFICES ASSUME NEW i \in 1..Len(Tail(q)), NEW j \in 1..Len(Tail(q)),
                        Tail(q)[i].kind = "granted", Tail(q)[j].kind = "granted",
                        Tail(q)[i].drafts = Tail(q)[j].drafts
                 PROVE  i = j
    BY DEF GrantedOnce
  <2>2. i + 1 \in 1..Len(q) /\ j + 1 \in 1..Len(q) /\ Tail(q)[i] = q[i + 1] /\ Tail(q)[j] = q[j + 1]
    BY <1>1, <1>2
  <2>3. i + 1 = j + 1
    BY <2>1, <2>2 DEF GrantedOnce
  <2>4. QED
    BY <1>1, <2>3
<1>4. ASSUME NEW d \in Drafts, Head(q).kind = "granted", Head(q).drafts = {d},
             d \in DraftsOf(Tail(q), "granted")
      PROVE  FALSE
  <2>1. PICK m \in Members(Tail(q)) : m.kind = "granted" /\ d \in m.drafts
    BY <1>4 DEF DraftsOf
  <2>2. PICK i \in 1..Len(Tail(q)) : Tail(q)[i] = m
    BY <2>1 DEF Members
  <2>3. m.drafts = {d}
    <3>1. m \in Messages
      BY <1>1, <2>1, MembersType
    <3>2. QED
      BY <2>1, <3>1 DEF Messages, SessionNews
  <2>4. i + 1 \in 1..Len(q) /\ 1 \in 1..Len(q) /\ q[i + 1] = m /\ i + 1 # 1
    BY <1>1, <1>2, <2>2
  <2>5. q[1].kind = "granted" /\ q[1].drafts = q[i + 1].drafts /\ q[i + 1].kind = "granted"
    BY <1>1, <1>4, <2>1, <2>3, <2>4
  <2>6. QED
    BY <2>4, <2>5 DEF GrantedOnce
<1>5. QED
  BY <1>3, <1>4

\* When the session's generation moves on, grants and losses stay what they are.
LEMMA QuietOutdated ==
  ASSUME inbox \in Seq(Messages)
  PROVE  /\ DraftsOf(Outdated, "granted") = DraftsOf(inbox, "granted")
         /\ DraftsOf(Outdated, "lost") = DraftsOf(inbox, "lost")
         /\ GrantedOnce(inbox) => GrantedOnce(Outdated)
<1>1. /\ Len(Outdated) = Len(inbox)
      /\ \A i \in 1..Len(inbox) :
           Outdated[i] = IF inbox[i].kind \in SessionNews THEN Message("stale", {}) ELSE inbox[i]
  BY DEF Outdated
<1>2. \A i \in 1..Len(inbox) : \A kind \in {"granted", "lost"} :
        /\ Outdated[i].kind = kind <=> inbox[i].kind = kind
        /\ inbox[i].kind = kind => Outdated[i] = inbox[i]
  BY <1>1 DEF SessionNews, Message
<1>3. \A kind \in {"granted", "lost"} :
        {m \in Members(Outdated) : m.kind = kind} = {m \in Members(inbox) : m.kind = kind}
  BY <1>1, <1>2 DEF Members
<1>4. DraftsOf(Outdated, "granted") = DraftsOf(inbox, "granted")
  BY <1>3 DEF DraftsOf
<1>5. DraftsOf(Outdated, "lost") = DraftsOf(inbox, "lost")
  BY <1>3 DEF DraftsOf
<1>6. GrantedOnce(inbox) => GrantedOnce(Outdated)
  BY <1>1, <1>2 DEF GrantedOnce
<1>7. QED
  BY <1>4, <1>5, <1>6

-----------------------------------------------------------------------------
(* The stages of a draft. *)

\* A surface keeps its draft, saves with it or gives it up.
Settles ==
  \A s \in Surfaces :
    \/ surface'[s] = surface[s]
    \/ surface'[s] = Idle
    \/ /\ surface'[s].phase = "saving" /\ surface[s].phase = "shown"
       /\ surface'[s].draft = surface[s].draft

\* Such a surface neither shows nor asks for more than before.
LEMMA SettlesShows ==
  ASSUME Settles, NEW d \in Drafts
  PROVE  (Shows(d)' => Shows(d)) /\ (Asks(d)' => Asks(d))
<1>1. SurfaceOf(d) \in Surfaces
  BY DraftParts
<1>2. QED
  BY <1>1 DEF Settles, Shows, Asks, Idle

\* At the start nothing is granted, shown or used.
LEMMA HandlesInit == Init => Handles
<1> SUFFICES ASSUME Init PROVE Handles
  OBVIOUS
<1>1. /\ inbox = <<>> /\ edits = <<>> /\ mutations = <<>> /\ releases = <<>>
      /\ held = None /\ ui = None /\ leased = {}
  BY DEF Init
<1>2. /\ Members(inbox) = {} /\ Members(edits) = {} /\ Members(mutations) = {}
      /\ Members(releases) = {}
  BY <1>1 DEF Members
<1>3. Granted = {} /\ Lost = {} /\ Queued = {} /\ Used = {}
  BY <1>1, <1>2, NamesAssumption DEF Granted, Lost, DraftsOf, Queued, Used
<1>4. GrantedOnce(inbox)
  BY <1>1 DEF GrantedOnce
<1>5. \A s \in Surfaces : surface[s].phase = "idle"
  BY DEF Init, Idle
<1>6. \A d \in Drafts : ~Shows(d)
  BY <1>5, DraftParts DEF Shows
<1>7. \A r \in Resources : owned[r] = None
  BY DEF Init
<1>8. QED
  BY <1>1, <1>3, <1>4, <1>5, <1>6, <1>7 DEF Handles, Owners, Backed, Stages

\* A step that only moves drafts out of their stages.
LEMMA HandlesKept ==
  ASSUME TypeOK, Handles, Settles, asks' = asks, leased' = leased, owned' = owned,
         Granted' \subseteq Granted, GrantedOnce(inbox)', Lost \subseteq Lost',
         Queued' \subseteq Queued, Used' \subseteq Used, Used \subseteq Drafts,
         Granted \subseteq Drafts
  PROVE  Handles'
<1>1. Owners'
  BY DEF Handles, Owners, OwnedBy
<1>2. Backed'
  BY SettlesShows DEF Handles, Backed
<1>3. \A s \in Surfaces : surface'[s].phase # "idle" =>
        (SurfaceOf(surface[s].draft) = s /\ Known(surface[s].draft))'
  <2>1. SUFFICES ASSUME NEW s \in Surfaces, surface'[s].phase # "idle"
                 PROVE  (SurfaceOf(surface[s].draft) = s /\ Known(surface[s].draft))'
    OBVIOUS
  <2>2. surface[s].phase # "idle" /\ surface'[s].draft = surface[s].draft
    BY <2>1 DEF Settles, Idle
  <2>3. QED
    BY <2>2 DEF Handles, Stages, Known, SurfaceOf
<1>4. \A d \in Granted' : Known(d)' /\ ~Shows(d)' /\ d \notin Used' /\ d \notin Queued'
  BY SettlesShows DEF Handles, Stages, Known
<1>5. \A d \in Queued' : ~Shows(d)' /\ d \notin Used'
  <2>1. Queued \subseteq Drafts
    BY MembersType DEF Queued, TypeOK
  <2>2. QED
    BY <2>1, SettlesShows DEF Handles, Stages
<1>6. \A d \in Used' : Known(d)' /\ ~Shows(d)' /\ ~Asks(d)'
  BY SettlesShows DEF Handles, Stages, Known
<1>7. QED
  BY <1>1, <1>2, <1>3, <1>4, <1>5, <1>6 DEF Handles, Stages

\* The drafts in the stages are drafts.
LEMMA StagesType ==
  ASSUME TypeOK
  PROVE  Used \subseteq Drafts /\ Granted \subseteq Drafts /\ Queued \subseteq Drafts
<1>1. Used \subseteq Drafts
  BY MembersType DEF Used, TypeOK
<1>2. Queued \subseteq Drafts
  BY MembersType DEF Queued, TypeOK
<1>3. Granted \subseteq Drafts
  <2>1. Members(inbox) \subseteq Messages
    BY MembersType DEF TypeOK
  <2>2. QED
    BY <2>1 DEF Granted, DraftsOf, Messages, SessionNews
<1>4. QED
  BY <1>1, <1>2, <1>3

\* The step grants nothing and takes no news of a loss away.
Quiet == Granted' \subseteq Granted /\ GrantedOnce(inbox)' /\ Lost \subseteq Lost'

\* Such a step leaves the inbox alone, handles another message or posts another one.
LEMMA QuietStep ==
  ASSUME TypeOK, GrantedOnce(inbox),
         \/ inbox' = inbox \/ inbox' = Outdated
         \/ /\ inbox # <<>> /\ inbox' = Tail(inbox)
            /\ Head(inbox).kind # "granted" /\ Head(inbox).kind # "lost"
         \/ \E m \in Messages : /\ m.kind # "granted"
                                /\ inbox' = Append(inbox, m) \/ inbox' = Append(Outdated, m)
         \/ \E q \in Seq(Messages) : /\ \A m \in Members(q) : m.kind # "granted"
                                     /\ inbox' = inbox \o q \/ inbox' = Outdated \o q
  PROVE  Quiet
<1>1. inbox \in Seq(Messages) /\ Outdated \in Seq(Messages)
  BY OutdatedType DEF TypeOK
<1>2. /\ DraftsOf(Outdated, "granted") = Granted /\ DraftsOf(Outdated, "lost") = Lost
      /\ GrantedOnce(Outdated)
  BY <1>1, QuietOutdated DEF Granted, Lost
<1>3. CASE inbox' = inbox \/ inbox' = Outdated
  BY <1>2, <1>3 DEF Quiet, Granted, Lost
<1>4. CASE /\ inbox # <<>> /\ inbox' = Tail(inbox)
           /\ Head(inbox).kind # "granted" /\ Head(inbox).kind # "lost"
  <2>1. GrantedOnce(Tail(inbox))
    BY <1>1, <1>4, GrantTail
  <2>2. /\ DraftsOf(Tail(inbox), "granted") = Granted
        /\ DraftsOf(Tail(inbox), "lost") = Lost
    BY <1>1, <1>4, DraftsTail DEF Granted, Lost
  <2>3. QED
    BY <1>4, <2>1, <2>2 DEF Quiet, Granted, Lost
<1>5. ASSUME NEW m \in Messages, m.kind # "granted",
             inbox' = Append(inbox, m) \/ inbox' = Append(Outdated, m)
      PROVE  Quiet
  <2>1. /\ DraftsOf(Append(inbox, m), "granted") = Granted
        /\ Lost \subseteq DraftsOf(Append(inbox, m), "lost")
        /\ GrantedOnce(Append(inbox, m))
    BY <1>1, <1>5, QuietAppend DEF Granted, Lost
  <2>2. /\ DraftsOf(Append(Outdated, m), "granted") = Granted
        /\ Lost \subseteq DraftsOf(Append(Outdated, m), "lost")
        /\ GrantedOnce(Append(Outdated, m))
    BY <1>1, <1>2, <1>5, QuietAppend
  <2>3. QED
    BY <1>5, <2>1, <2>2 DEF Quiet, Granted, Lost
<1>6. ASSUME NEW q \in Seq(Messages), \A m \in Members(q) : m.kind # "granted",
             inbox' = inbox \o q \/ inbox' = Outdated \o q
      PROVE  Quiet
  <2>1. /\ DraftsOf(inbox \o q, "granted") = Granted
        /\ Lost \subseteq DraftsOf(inbox \o q, "lost") /\ GrantedOnce(inbox \o q)
    BY <1>1, <1>6, QuietConcat DEF Granted, Lost
  <2>2. /\ DraftsOf(Outdated \o q, "granted") = Granted
        /\ Lost \subseteq DraftsOf(Outdated \o q, "lost") /\ GrantedOnce(Outdated \o q)
    BY <1>1, <1>2, <1>6, QuietConcat
  <2>3. QED
    BY <1>6, <2>1, <2>2 DEF Quiet, Granted, Lost
<1>7. QED
  BY <1>3, <1>4, <1>5, <1>6

\* A step of the main thread with a surface or a message that only gives a draft up.
LEMMA SurfaceHandles ==
  ASSUME TypeOK, Handles,
         \/ HandleDenied \/ IgnoreResult \/ IgnoreStale
         \/ \E kind \in SessionNews : HandleNews(kind)
  PROVE  Handles'
<1>1. Settles
  BY DEF HandleDenied, IgnoreResult, IgnoreStale, HandleNews, Settles
<1>2. /\ UNCHANGED <<asks, ui, edits, mutations, releases, held, leased, owned>>
      /\ inbox # <<>> /\ inbox' = Tail(inbox)
      /\ Head(inbox).kind # "granted" /\ Head(inbox).kind # "lost"
  BY DEF HandleDenied, IgnoreResult, IgnoreStale, HandleNews, Receive, Receiving, worker,
         queues, SessionNews
<1>3. Quiet
  BY <1>2, QuietStep DEF Handles, Stages
<1>4. Queued' = Queued /\ Used' = Used
  BY <1>2 DEF Queued, Used
<1>5. QED
  BY <1>1, <1>2, <1>3, <1>4, StagesType, HandlesKept DEF Quiet

\* The news of a loss takes the handle away from who still has it.
LEMMA LostHandles ==
  ASSUME TypeOK, Handles, HandleLost
  PROVE  Handles'
<1>1. /\ inbox \in Seq(Messages) /\ inbox # <<>> /\ inbox' = Tail(inbox)
      /\ Head(inbox).kind = "lost"
  BY DEF HandleLost, Receive, Receiving, TypeOK
<1>2. Granted' = Granted /\ Lost = Lost' \cup Head(inbox).drafts
  BY <1>1, DraftsTail DEF Granted, Lost
<1>3. GrantedOnce(inbox)'
  BY <1>1, GrantTail DEF Handles, Stages
<1>4. Settles /\ UNCHANGED <<asks, ui, edits, mutations, releases, held, leased, owned>>
  BY DEF HandleLost, Settles, worker, queues
<1>5. Queued' = Queued /\ Used' = Used
  BY <1>4 DEF Queued, Used
<1>6. \A d \in Drafts : Shows(d)' => Shows(d) /\ d \notin Head(inbox).drafts
  <2>1. SUFFICES ASSUME NEW d \in Drafts, Shows(d)' PROVE d \notin Head(inbox).drafts
    BY <1>4, SettlesShows
  <2>2. SurfaceOf(d) \in Surfaces /\ Shows(d)
    BY <1>4, <2>1, DraftParts, SettlesShows
  <2>3. surface[SurfaceOf(d)].phase = "shown" /\ surface[SurfaceOf(d)].draft = d
    BY <2>2 DEF Shows
  <2>4. surface'[SurfaceOf(d)] # Idle
    BY <2>1 DEF Shows, Idle
  <2>5. QED
    BY <2>2, <2>3, <2>4 DEF HandleLost
<1>7. Backed'
  BY <1>2, <1>4, <1>6 DEF Handles, Backed
<1>8. Owners'
  BY <1>4 DEF Handles, Owners, OwnedBy
<1>9. Stages'
  <2>1. \A s \in Surfaces : surface'[s].phase # "idle" =>
          (SurfaceOf(surface[s].draft) = s /\ Known(surface[s].draft))'
    <3>1. SUFFICES ASSUME NEW s \in Surfaces, surface'[s].phase # "idle"
                   PROVE  (SurfaceOf(surface[s].draft) = s /\ Known(surface[s].draft))'
      OBVIOUS
    <3>2. surface'[s] = surface[s]
      BY <3>1 DEF HandleLost, Idle
    <3>3. QED
      BY <1>4, <3>1, <3>2 DEF Handles, Stages, Known, SurfaceOf
  <2>2. /\ \A d \in Granted' : Known(d)' /\ ~Shows(d)' /\ d \notin Used' /\ d \notin Queued'
        /\ \A d \in Queued' : ~Shows(d)' /\ d \notin Used'
        /\ \A d \in Used' : Known(d)' /\ ~Shows(d)' /\ ~Asks(d)'
    BY <1>2, <1>4, <1>5, StagesType, SettlesShows DEF Handles, Stages, Known
  <2>3. QED
    BY <1>3, <2>1, <2>2 DEF Stages
<1>10. QED
  BY <1>7, <1>8, <1>9 DEF Handles

\* A request has a draft that no stage knows.
LEMMA RequestHandles ==
  ASSUME TypeOK, Handles, NEW s \in Surfaces, NEW messages \in Seq(Messages),
         DraftsOf(messages, "granted") = Granted, DraftsOf(messages, "lost") = Lost,
         GrantedOnce(messages), MainThread, Request(s, messages)
  PROVE  Handles'
<1> SUFFICES ASSUME NEW d, d = <<s, asks[s] + 1>> PROVE Handles'
  OBVIOUS
<1>1. d \in Drafts /\ asks[s] \in Nat /\ asks' = [asks EXCEPT ![s] = asks[s] + 1]
  BY BoundsAssumption DEF Request, TypeOK, Drafts
<1>2. \A e \in Drafts : Known(e) => Known(e)'
  <2>1. \A e \in Drafts : SurfaceOf(e) \in Surfaces /\ e[2] \in Nat
    BY DraftParts, BoundsAssumption
  <2>2. \A t \in Surfaces : asks[t] \in Nat /\ asks'[t] \in Nat /\ asks[t] <= asks'[t]
    BY <1>1, BoundsAssumption DEF TypeOK
  <2>3. QED
    BY <2>1, <2>2 DEF Known
<1>3. ~Known(d) /\ Known(d)' /\ SurfaceOf(d) = s
  <2>1. d[1] = s /\ d[2] = asks[s] + 1 /\ asks'[s] = asks[s] + 1
    BY <1>1 DEF TypeOK
  <2>2. QED
    BY <1>1, <2>1 DEF Known, SurfaceOf
<1>4. surface' = [surface EXCEPT ![s] = [phase |-> "asking", draft |-> d]]
  BY DEF Request
<1>5. \A e \in Drafts : /\ Shows(e)' => Shows(e) /\ e # d
                        /\ Asks(e)' => Asks(e) \/ e = d
  <2>1. SUFFICES ASSUME NEW e \in Drafts
                 PROVE  (Shows(e)' => Shows(e) /\ e # d) /\ (Asks(e)' => Asks(e) \/ e = d)
    OBVIOUS
  <2>2. SurfaceOf(e) \in Surfaces
    BY DraftParts
  <2>3. CASE SurfaceOf(e) = s
    <3>1. surface'[SurfaceOf(e)] = [phase |-> "asking", draft |-> d]
      BY <1>4, <2>2, <2>3 DEF TypeOK
    <3>2. QED
      BY <3>1 DEF Shows, Asks
  <2>4. CASE SurfaceOf(e) # s
    BY <1>3, <1>4, <2>2, <2>4 DEF Shows, Asks, TypeOK
  <2>5. QED
    BY <2>3, <2>4
<1>6. UNCHANGED <<edits, mutations, releases, held, leased, owned>>
  BY DEF Request, worker, queues
<1>7. Granted' = Granted /\ Lost \subseteq Lost' /\ GrantedOnce(inbox)'
  <2>1. Message("denied", {d}) \in Messages /\ Message("denied", {d}).kind # "granted"
    BY <1>1, MessageType
  <2>2. /\ DraftsOf(Append(messages, Message("denied", {d})), "granted") = Granted
        /\ Lost \subseteq DraftsOf(Append(messages, Message("denied", {d})), "lost")
        /\ GrantedOnce(Append(messages, Message("denied", {d})))
    BY <2>1, QuietAppend
  <2>3. inbox' = messages \/ inbox' = Append(messages, Message("denied", {d}))
    BY DEF Request
  <2>4. QED
    BY <2>2, <2>3 DEF Granted, Lost
<1>8. Used' = Used /\ Queued' \subseteq Queued \cup {d}
  <2>1. ui' = d \/ ui' = ui
    BY DEF Request
  <2>2. QED
    BY <1>6, <2>1 DEF Used, Queued
<1>9. Owners' /\ Backed'
  BY <1>5, <1>6, <1>7 DEF Handles, Owners, OwnedBy, Backed
<1>10. \A t \in Surfaces : surface'[t].phase # "idle" =>
         (SurfaceOf(surface[t].draft) = t /\ Known(surface[t].draft))'
  <2>1. SUFFICES ASSUME NEW t \in Surfaces, surface'[t].phase # "idle"
                 PROVE  (SurfaceOf(surface[t].draft) = t /\ Known(surface[t].draft))'
    OBVIOUS
  <2>2. CASE t = s
    <3>1. surface'[t].draft = d
      BY <1>4, <2>2 DEF TypeOK
    <3>2. QED
      BY <1>3, <2>2, <3>1 DEF Known, SurfaceOf
  <2>3. CASE t # s
    <3>1. surface'[t] = surface[t]
      BY <1>4, <2>3 DEF TypeOK
    <3>2. surface[t].draft \in Drafts /\ SurfaceOf(surface[t].draft) = t /\ Known(surface[t].draft)
      BY <2>1, <3>1, ShownType DEF Handles, Stages
    <3>3. SurfaceOf(surface[t].draft) = t /\ Known(surface[t].draft)'
      <4>1. PICK e \in Drafts : e = surface[t].draft
        BY <3>2
      <4>2. surface'[t].draft = e /\ Known(e)'
        BY <1>2, <3>1, <3>2, <4>1
      <4>3. QED
        BY <3>2, <4>1, <4>2 DEF Known, SurfaceOf
    <3>4. QED
      BY <3>1, <3>3 DEF Known, SurfaceOf
  <2>4. QED
    BY <2>2, <2>3
<1>11. d \notin Granted /\ d \notin Used
  BY <1>3 DEF Handles, Stages
<1>12. /\ \A e \in Granted' : Known(e)' /\ ~Shows(e)' /\ e \notin Used' /\ e \notin Queued'
       /\ \A e \in Queued' : ~Shows(e)' /\ e \notin Used'
       /\ \A e \in Used' : Known(e)' /\ ~Shows(e)' /\ ~Asks(e)'
  BY <1>1, <1>2, <1>5, <1>7, <1>8, <1>11, StagesType DEF Handles, Stages
<1>13. QED
  BY <1>7, <1>9, <1>10, <1>12 DEF Handles, Stages

\* The caller queues its request, or finishes its draft: it is queued or gone.
LEMMA EnqueueHandles ==
  ASSUME TypeOK, Handles, NEW d \in Drafts, TestSession(d) \/ Enqueue(d)
  PROVE  Handles'
<1>1. Settles /\ UNCHANGED <<asks, mutations, releases, held, leased, owned>>
  BY DEF TestSession, Enqueue, Settles, worker, queues
<1>2. Quiet
  <2>1. Message("denied", {d}) \in Messages /\ Message("denied", {d}).kind # "granted"
    BY MessageType
  <2>2. inbox' = inbox \/ inbox' = Append(inbox, Message("denied", {d}))
    BY DEF TestSession, Enqueue, Post
  <2>3. QED
    BY <2>1, <2>2, QuietStep DEF Handles, Stages
<1>3. Used' = Used
  BY <1>1 DEF Used
<1>4. Queued' \subseteq Queued
  <2>1. edits \in Seq(Drafts) /\ Members(Append(edits, d)) = Members(edits) \cup {d}
    BY MembersType DEF TypeOK
  <2>2. /\ ui = d /\ (ui' = d \/ ui' = None)
        /\ edits' = edits \/ edits' = Append(edits, d)
    BY DEF TestSession, Enqueue, queues
  <2>3. Members(edits') \subseteq Members(edits) \cup {d}
    BY <2>1, <2>2 DEF Members
  <2>4. QED
    BY <2>2, <2>3, NamesAssumption DEF Queued
<1>5. QED
  BY <1>1, <1>2, <1>3, <1>4, StagesType, HandlesKept DEF Quiet

\* A handle that its surface gives up is released or used up by a mutation.
LEMMA UseHandles ==
  ASSUME TypeOK, Handles, Settles, Quiet, NEW d \in Drafts, Shows(d), ~Shows(d)', ~Asks(d)',
         Used' \subseteq Used \cup {d},
         UNCHANGED <<asks, ui, edits, leased, owned>>
  PROVE  Handles'
<1>1. Owners' /\ Backed'
  BY SettlesShows DEF Handles, Owners, OwnedBy, Backed, Quiet
<1>2. Queued' = Queued
  BY DEF Queued
<1>3. \A s \in Surfaces : surface'[s].phase # "idle" =>
        (SurfaceOf(surface[s].draft) = s /\ Known(surface[s].draft))'
  <2>1. SUFFICES ASSUME NEW s \in Surfaces, surface'[s].phase # "idle"
                 PROVE  (SurfaceOf(surface[s].draft) = s /\ Known(surface[s].draft))'
    OBVIOUS
  <2>2. surface[s].phase # "idle" /\ surface'[s].draft = surface[s].draft
    BY <2>1 DEF Settles, Idle
  <2>3. QED
    BY <2>2 DEF Handles, Stages, Known, SurfaceOf
<1>4. d \notin Granted /\ d \notin Queued
  BY DEF Handles, Stages
<1>5. Known(d)
  <2>1. SurfaceOf(d) \in Surfaces /\ surface[SurfaceOf(d)].phase = "shown"
        /\ surface[SurfaceOf(d)].draft = d
    BY DraftParts DEF Shows
  <2>2. QED
    BY <2>1 DEF Handles, Stages
<1>6. /\ \A e \in Granted' : Known(e)' /\ ~Shows(e)' /\ e \notin Used' /\ e \notin Queued'
      /\ \A e \in Queued' : ~Shows(e)' /\ e \notin Used'
      /\ \A e \in Used' : Known(e)' /\ ~Shows(e)' /\ ~Asks(e)'
  BY <1>2, <1>4, <1>5, StagesType, SettlesShows DEF Handles, Stages, Quiet, Known
<1>7. QED
  BY <1>1, <1>3, <1>6 DEF Handles, Stages, Quiet

\* A surface that shows a draft shows it.
LEMMA ShownDraft ==
  ASSUME TypeOK, Handles, NEW s \in Surfaces, surface[s].phase = "shown"
  PROVE  /\ surface[s].draft \in Drafts /\ SurfaceOf(surface[s].draft) = s
         /\ Shows(surface[s].draft)
<1>1. surface[s] \in [phase : Phases \ {"idle"}, draft : Drafts]
  BY DEF TypeOK, Idle
<1>2. SurfaceOf(surface[s].draft) = s
  BY <1>1 DEF Handles, Stages
<1>3. QED
  BY <1>1, <1>2 DEF Shows

\* A surface closes.
LEMMA CloseHandles ==
  ASSUME TypeOK, Handles, NEW s \in Surfaces, Close(s)
  PROVE  Handles'
<1>1. Settles /\ UNCHANGED <<asks, ui, edits, mutations, held, leased, owned, inbox>>
  BY DEF Close, Settles, worker, TypeOK
<1>2. Quiet
  BY <1>1, QuietStep DEF Handles, Stages
<1>3. CASE surface[s].phase # "shown"
  <2>1. UNCHANGED releases
    BY <1>3 DEF Close
  <2>2. Used' = Used /\ Queued' = Queued
    BY <1>1, <2>1 DEF Used, Queued
  <2>3. QED
    BY <1>1, <1>2, <2>2, StagesType, HandlesKept DEF Quiet
<1>4. CASE surface[s].phase = "shown"
  <2>1. PICK d \in Drafts : d = surface[s].draft /\ SurfaceOf(d) = s /\ Shows(d)
    BY <1>4, ShownDraft
  <2>2. ~Shows(d)' /\ ~Asks(d)'
    <3>1. surface'[s] = Idle
      BY DEF Close, TypeOK
    <3>2. QED
      BY <2>1, <3>1 DEF Shows, Asks, Idle
  <2>3. releases' = releases \/ releases' = Append(releases, d)
    BY <1>4, <2>1 DEF Close, EndLease
  <2>4. Used' \subseteq Used \cup {d}
    <3>1. Members(Append(releases, d)) = Members(releases) \cup {d}
      BY <2>1, MembersType DEF TypeOK
    <3>2. QED
      BY <1>1, <2>3, <3>1 DEF Used
  <2>5. QED
    BY <1>1, <1>2, <2>1, <2>2, <2>4, UseHandles
<1>5. QED
  BY <1>3, <1>4

\* A surface tests whether it may save.
LEMMA SaveHandles ==
  ASSUME TypeOK, Handles, NEW s \in Surfaces, Save(s)
  PROVE  Handles'
<1>1. /\ Settles /\ inbox' = inbox
      /\ UNCHANGED <<asks, ui, edits, mutations, releases, held, leased, owned>>
  BY DEF Save, Settles, worker, queues
<1>2. Quiet
  BY <1>1, QuietStep DEF Handles, Stages
<1>3. Queued' = Queued /\ Used' = Used
  BY <1>1 DEF Queued, Used
<1>4. QED
  BY <1>1, <1>2, <1>3, StagesType, HandlesKept DEF Quiet

\* A surface gives its handle to a mutation, which is queued or refused.
LEMMA MutationHandles ==
  ASSUME TypeOK, Handles, Promised, NEW s \in Surfaces, NEW d \in Drafts,
         \/ SaveRefused(s) /\ surface[s].draft = d
         \/ EnqueueMutation(d) /\ s = SurfaceOf(d)
  PROVE  Handles'
<1>1. HandOver(s, d) /\ held' = held
  BY DEF SaveRefused, EnqueueMutation, HandOver, worker
<1>2. SurfaceOf(d) = s /\ Shows(d)
  <2>1. CASE SaveRefused(s) /\ surface[s].draft = d
    BY <2>1, ShownDraft DEF SaveRefused
  <2>2. CASE EnqueueMutation(d) /\ s = SurfaceOf(d)
    BY <2>2, NamesAssumption DEF EnqueueMutation, Promised
  <2>3. QED
    BY <2>1, <2>2
<1>3. UNCHANGED <<asks, ui, edits, releases, held, leased, owned>>
  BY <1>1 DEF HandOver, worker
<1>4. /\ surface'[s] = Idle \/ surface'[s] = [phase |-> "saving", draft |-> d]
      /\ \A t \in Surfaces : t # s => surface'[t] = surface[t]
  BY <1>1 DEF HandOver, TypeOK
<1>5. surface[s] = [phase |-> "shown", draft |-> d]
  BY <1>2 DEF Shows
<1>6. Settles
  BY <1>4, <1>5 DEF Settles
<1>7. ~Shows(d)' /\ ~Asks(d)'
  BY <1>2, <1>4 DEF Shows, Asks, Idle
<1>8. Quiet
  <2>1. Message("result", {d}) \in Messages /\ Message("result", {d}).kind # "granted"
    BY MessageType
  <2>2. inbox' = inbox \/ inbox' = Append(inbox, Message("result", {d}))
    BY DEF SaveRefused, EnqueueMutation, Post
  <2>3. QED
    BY <2>1, <2>2, QuietStep DEF Handles, Stages
<1>9. Used' \subseteq Used \cup {d}
  <2>1. Members(Append(mutations, d)) = Members(mutations) \cup {d}
    BY MembersType DEF TypeOK
  <2>2. mutations' = mutations \/ mutations' = Append(mutations, d)
    BY DEF SaveRefused, EnqueueMutation
  <2>3. QED
    BY <1>3, <2>1, <2>2 DEF Used
<1>10. QED
  BY <1>2, <1>3, <1>6, <1>7, <1>8, <1>9, UseHandles

\* A lease arrives: it is shown, or given back, or forgotten with its runtime.
LEMMA GrantedHandles ==
  ASSUME TypeOK, Handles, HandleGranted
  PROVE  Handles'
<1>1. /\ inbox \in Seq(Messages) /\ inbox # <<>> /\ inbox' = Tail(inbox)
      /\ Head(inbox).kind = "granted"
  BY DEF HandleGranted, Receive, Receiving, TypeOK
<1>2. PICK d \in Drafts : d = TheDraft /\ Head(inbox).drafts = {d}
  BY <1>1, HeadType
<1>3. Granted = Granted' \cup {d} /\ d \notin Granted' /\ Lost' = Lost /\ GrantedOnce(inbox)'
  <2>1. GrantedOnce(Tail(inbox)) /\ d \notin DraftsOf(Tail(inbox), "granted")
    BY <1>1, <1>2, GrantTail DEF Handles, Stages
  <2>2. /\ DraftsOf(inbox, "granted") = DraftsOf(Tail(inbox), "granted") \cup {d}
        /\ DraftsOf(inbox, "lost") = DraftsOf(Tail(inbox), "lost")
    BY <1>1, <1>2, DraftsTail
  <2>3. QED
    BY <1>1, <2>1, <2>2 DEF Granted, Lost
<1>4. UNCHANGED <<asks, ui, edits, mutations, held, leased, owned>>
  BY DEF HandleGranted, worker
<1>5. Queued' = Queued
  BY <1>4 DEF Queued
<1>6. d \notin Queued /\ d \notin Used /\ Known(d) /\ ~Shows(d)
  BY <1>3 DEF Handles, Stages
<1>7. Owners'
  BY <1>4 DEF Handles, Owners, OwnedBy
<1> DEFINE s == SurfaceOf(d)
<1>8. s \in Surfaces
  BY DraftParts
<1>9. CASE ~Expected(d)
  <2>1. surface' = surface
    BY <1>2, <1>8, <1>9 DEF HandleGranted, TypeOK
  <2>2. Settles /\ ~Asks(d)' /\ ~Shows(d)'
    BY <1>6, <1>9, <2>1 DEF Settles, Expected, Asks, Shows
  <2>3. Used' \subseteq Used \cup {d}
    <3>1. Members(Append(releases, d)) = Members(releases) \cup {d}
      BY MembersType DEF TypeOK
    <3>2. releases' = releases \/ releases' = Append(releases, d)
      BY <1>2 DEF HandleGranted, EndLease
    <3>3. QED
      BY <1>4, <3>1, <3>2 DEF Used
  <2>4. Backed'
    BY <1>3, <1>4, <2>2, SettlesShows DEF Handles, Backed
  <2>5. /\ \A e \in Granted' : Known(e)' /\ ~Shows(e)' /\ e \notin Used' /\ e \notin Queued'
        /\ \A e \in Queued' : ~Shows(e)' /\ e \notin Used'
        /\ \A e \in Used' : Known(e)' /\ ~Shows(e)' /\ ~Asks(e)'
    BY <1>3, <1>4, <1>5, <1>6, <2>2, <2>3, StagesType, SettlesShows DEF Handles, Stages, Known
  <2>6. \A t \in Surfaces : surface'[t].phase # "idle" =>
          (SurfaceOf(surface[t].draft) = t /\ Known(surface[t].draft))'
    BY <1>4, <2>1 DEF Handles, Stages, Known, SurfaceOf
  <2>7. QED
    BY <1>3, <1>7, <2>4, <2>5, <2>6 DEF Handles, Stages
<1>10. CASE Expected(d)
  <2>1. surface[s] = [phase |-> "asking", draft |-> d]
    BY <1>10 DEF Expected
  <2>2. /\ \A t \in Surfaces : t # s => surface'[t] = surface[t]
        /\ \/ surface'[s] = [phase |-> "shown", draft |-> d] /\ d \in leased
           \/ surface'[s] = Idle
    BY <1>2, <1>8, <1>10, <2>1 DEF HandleGranted, TypeOK
  <2>3. releases' = releases
    BY <1>2, <1>10 DEF HandleGranted
  <2>4. Used' = Used
    BY <1>4, <2>3 DEF Used
  <2>5. \A e \in Drafts : /\ Shows(e)' => Shows(e) \/ (e = d /\ d \in leased)
                          /\ Asks(e)' => Asks(e)
    <3>1. SUFFICES ASSUME NEW e \in Drafts
                   PROVE  /\ Shows(e)' => Shows(e) \/ (e = d /\ d \in leased)
                          /\ Asks(e)' => Asks(e)
      OBVIOUS
    <3>2. SurfaceOf(e) \in Surfaces
      BY DraftParts
    <3>3. CASE SurfaceOf(e) = s
      BY <2>2, <3>3 DEF Shows, Asks, Idle
    <3>4. CASE SurfaceOf(e) # s
      BY <2>2, <3>2, <3>4 DEF Shows, Asks
    <3>5. QED
      BY <3>3, <3>4
  <2>6. Backed'
    BY <1>3, <1>4, <2>5 DEF Handles, Backed
  <2>7. /\ \A e \in Granted' : Known(e)' /\ ~Shows(e)' /\ e \notin Used' /\ e \notin Queued'
        /\ \A e \in Queued' : ~Shows(e)' /\ e \notin Used'
        /\ \A e \in Used' : Known(e)' /\ ~Shows(e)' /\ ~Asks(e)'
    BY <1>3, <1>4, <1>5, <1>6, <2>4, <2>5, StagesType DEF Handles, Stages, Known
  <2>8. \A t \in Surfaces : surface'[t].phase # "idle" =>
          (SurfaceOf(surface[t].draft) = t /\ Known(surface[t].draft))'
    <3>1. SUFFICES ASSUME NEW t \in Surfaces, surface'[t].phase # "idle"
                   PROVE  (SurfaceOf(surface[t].draft) = t /\ Known(surface[t].draft))'
      OBVIOUS
    <3>2. surface[t].phase # "idle" /\ surface'[t].draft = surface[t].draft
      BY <2>1, <2>2, <3>1 DEF Idle
    <3>3. QED
      BY <1>4, <3>2 DEF Handles, Stages, Known, SurfaceOf
  <2>9. QED
    BY <1>3, <1>7, <2>6, <2>7, <2>8 DEF Handles, Stages
<1>11. QED
  BY <1>9, <1>10

\* Conflicts, recovery, start and stop move no draft on.
LEMMA LifecycleHandles ==
  ASSUME TypeOK, Handles,
         \/ EnterConflict \/ Resume \/ Detach \/ Start
         \/ \E d \in Drafts : MarkConflict(d)
  PROVE  Handles'
<1>1. /\ Settles /\ UNCHANGED <<asks, held, leased, owned>>
      /\ inbox' = inbox \/ inbox' = Outdated
      /\ \/ UNCHANGED <<edits, mutations, releases>>
         \/ edits' = <<>> /\ mutations' = <<>> /\ releases' = <<>>
  BY DEF EnterConflict, Resume, Detach, Start, MarkConflict, Settles, worker, queues
<1>2. Quiet
  BY <1>1, QuietStep DEF Handles, Stages
<1>3. Used' \subseteq Used
  BY <1>1 DEF Used, Members
<1>4. Queued' \subseteq Queued
  <2>1. ui' \notin Drafts \/ ui' = ui
    BY NamesAssumption DEF EnterConflict, Resume, Detach, Start, MarkConflict
  <2>2. QED
    BY <1>1, <2>1 DEF Queued, Members
<1>5. QED
  BY <1>1, <1>2, <1>3, <1>4, StagesType, HandlesKept DEF Quiet

\* The steps of the worker that touch no lease at most take a mutation or answer it.
LEMMA WorkerHandles ==
  ASSUME TypeOK, Handles,
         \/ Stopped \/ Top \/ Connect \/ CallFails \/ Await \/ Beat
         \/ TakeMutation \/ NoMutation \/ DenyMutation \/ JournalFails
  PROVE  Handles'
<1>1. Settles /\ UNCHANGED <<asks, ui, edits, releases, leased, owned>>
  BY DEF Stopped, Top, Connect, CallFails, Await, Beat, TakeMutation, NoMutation,
         DenyMutation, JournalFails, Settles, user, queues
<1>2. Quiet
  <2>1. CASE inbox' = inbox
    BY <2>1, QuietStep DEF Handles, Stages
  <2>2. CASE \E kind \in SessionNews : \/ inbox' = Append(inbox, Message(kind, {}))
                                       \/ inbox' = Append(Outdated, Message(kind, {}))
    <3>1. PICK kind \in SessionNews : \/ inbox' = Append(inbox, Message(kind, {}))
                                      \/ inbox' = Append(Outdated, Message(kind, {}))
      BY <2>2
    <3>2. Message(kind, {}) \in Messages /\ Message(kind, {}).kind # "granted"
      BY NewsType DEF Message, SessionNews
    <3>3. QED
      BY <3>1, <3>2, QuietStep DEF Handles, Stages
  <2>3. CASE held \in Drafts /\ inbox' = Append(inbox, Message("result", {held}))
    <3>1. Message("result", {held}) \in Messages /\ Message("result", {held}).kind # "granted"
      BY <2>3, MessageType
    <3>2. QED
      BY <2>3, <3>1, QuietStep DEF Handles, Stages
  <2>4. \/ inbox' = inbox
        \/ inbox' = Append(Outdated, Message("started", {}))
        \/ inbox' = Append(inbox, Message("restored", {}))
        \/ held \in Drafts /\ inbox' = Append(inbox, Message("result", {held}))
    BY DEF Stopped, Top, Connect, CallFails, Await, Beat, TakeMutation, NoMutation,
           DenyMutation, JournalFails, Post, TypeOK
  <2>5. QED
    BY <2>1, <2>2, <2>3, <2>4 DEF SessionNews
<1>3. Used' \subseteq Used
  <2>1. CASE TakeMutation
    <3>1. mutations \in Seq(Drafts) /\ mutations # <<>>
      BY <2>1 DEF TakeMutation, TypeOK
    <3>2. Members(mutations) = {Head(mutations)} \cup Members(Tail(mutations))
      BY <3>1, MembersType
    <3>3. held' = Head(mutations) /\ mutations' = Tail(mutations)
      BY <2>1 DEF TakeMutation
    <3>4. QED
      BY <1>1, <3>2, <3>3 DEF Used
  <2>2. CASE ~TakeMutation
    <3>1. mutations' = mutations /\ (held' = held \/ held' = None)
      BY <2>2 DEF Stopped, Top, Connect, CallFails, Await, Beat, NoMutation, DenyMutation,
                  JournalFails, queues
    <3>2. QED
      BY <1>1, <3>1 DEF Used
  <2>3. QED
    BY <2>1, <2>2
<1>4. Queued' = Queued
  BY <1>1 DEF Queued
<1>5. QED
  BY <1>1, <1>2, <1>3, <1>4, StagesType, HandlesKept DEF Quiet

\* A used draft is released: nobody shows it.
LEMMA ForgetHandles ==
  ASSUME TypeOK, Handles, NEW d \in Used, Forget({d}), Settles, Quiet, Used' \subseteq Used,
         UNCHANGED <<asks, ui, edits>>
  PROVE  Handles'
<1>1. Queued' = Queued
  BY DEF Queued
<1>2. ~Shows(d) /\ d \in Drafts /\ None \notin Drafts
  BY StagesType, NamesAssumption DEF Handles, Stages
<1>3. leased' = leased \ {d}
      /\ \A r \in Resources : owned'[r] = IF owned[r] = d THEN None ELSE owned[r]
  BY DEF Forget, Disown
<1>4. Owners'
  <2>1. ASSUME NEW e \in leased' PROVE OwnedBy(e)' = WantedBy(e)
    <3>1. e \in leased /\ e # d /\ e # None
      BY <1>2, <1>3, <2>1 DEF TypeOK
    <3>2. OwnedBy(e)' = OwnedBy(e)
      BY <1>3, <3>1 DEF OwnedBy
    <3>3. QED
      BY <3>1, <3>2 DEF Handles, Owners
  <2>2. \A r \in Resources : owned'[r] # None => owned'[r] \in leased'
    BY <1>3 DEF Handles, Owners
  <2>3. QED
    BY <2>1, <2>2 DEF Owners, WantedBy
<1>5. Backed'
  BY <1>2, <1>3, SettlesShows DEF Handles, Backed, Quiet
<1>6. \A s \in Surfaces : surface'[s].phase # "idle" =>
        (SurfaceOf(surface[s].draft) = s /\ Known(surface[s].draft))'
  <2>1. SUFFICES ASSUME NEW s \in Surfaces, surface'[s].phase # "idle"
                 PROVE  (SurfaceOf(surface[s].draft) = s /\ Known(surface[s].draft))'
    OBVIOUS
  <2>2. surface[s].phase # "idle" /\ surface'[s].draft = surface[s].draft
    BY <2>1 DEF Settles, Idle
  <2>3. QED
    BY <2>2 DEF Handles, Stages, Known, SurfaceOf
<1>7. /\ \A e \in Granted' : Known(e)' /\ ~Shows(e)' /\ e \notin Used' /\ e \notin Queued'
      /\ \A e \in Queued' : ~Shows(e)' /\ e \notin Used'
      /\ \A e \in Used' : Known(e)' /\ ~Shows(e)' /\ ~Asks(e)'
  BY <1>1, StagesType, SettlesShows DEF Handles, Stages, Quiet, Known
<1>8. QED
  BY <1>4, <1>5, <1>6, <1>7 DEF Handles, Stages, Quiet

\* A release is taken, and done if the lease is still there.
LEMMA ReleaseHandles ==
  ASSUME TypeOK, Handles, Release
  PROVE  Handles'
<1>1. /\ Settles /\ UNCHANGED <<asks, ui, edits, mutations, held, inbox>>
      /\ releases \in Seq(Drafts) /\ releases # <<>> /\ releases' = Tail(releases)
  BY DEF Release, Settles, user, TypeOK
<1>2. Quiet
  BY <1>1, QuietStep DEF Handles, Stages
<1>3. Members(releases) = {Head(releases)} \cup Members(Tail(releases))
  BY <1>1, MembersType
<1>4. Used' \subseteq Used /\ Head(releases) \in Used /\ Queued' = Queued
  BY <1>1, <1>3 DEF Used, Queued
<1>5. Forget({Head(releases)}) \/ UNCHANGED <<leased, owned>>
  BY DEF Release
<1>6. QED
  BY <1>1, <1>2, <1>4, <1>5, ForgetHandles, StagesType, HandlesKept DEF Quiet

\* A mutation uses its lease up.
LEMMA ExecuteHandles ==
  ASSUME TypeOK, Handles, Execute
  PROVE  Handles'
<1>1. held \in Drafts /\ held # None
  BY NamesAssumption DEF Execute, TypeOK
<1>2. /\ Settles /\ UNCHANGED <<asks, ui, edits, mutations, releases>> /\ held' = None
      /\ inbox' = Append(inbox, Message("result", {held}))
  BY DEF Execute, Settles, user, queues, Post
<1>3. Quiet
  <2>1. Message("result", {held}) \in Messages /\ Message("result", {held}).kind # "granted"
    BY <1>1, MessageType
  <2>2. QED
    BY <1>2, <2>1, QuietStep DEF Handles, Stages
<1>4. held \in Used /\ Used' \subseteq Used
  BY <1>1, <1>2 DEF Used
<1>5. QED
  BY <1>2, <1>3, <1>4, ForgetHandles DEF Execute

\* A request is denied.
LEMMA DenyHandles ==
  ASSUME TypeOK, Books, Handles, edits # <<>>, edits' = Tail(edits), Deny(Head(edits)),
         UNCHANGED <<surface, asks, ui, held, mutations, releases>>
  PROVE  Handles'
<1>1. Settles /\ UNCHANGED <<leased, owned>> /\ Used' = Used
  BY DEF Deny, Settles, Used
<1>2. Head(edits) \in Drafts /\ Members(Tail(edits)) \subseteq Members(edits)
  BY MembersType DEF TypeOK
<1>3. Quiet
  <2>1. /\ Message("denied", {Head(edits)}) \in Messages
        /\ Message("denied", {Head(edits)}).kind # "granted"
    BY <1>2, MessageType
  <2>2. QED
    BY <2>1, QuietStep DEF Deny, Post, Handles, Stages
<1>4. Queued' \subseteq Queued
  BY <1>2 DEF Queued
<1>5. QED
  BY <1>1, <1>3, <1>4, StagesType, HandlesKept DEF Quiet

\* A request is granted: it leaves the queue, and its locks were nobody's.
LEMMA GrantHandles ==
  ASSUME TypeOK, Books, Handles, NEW d \in Drafts, edits # <<>>, d = Head(edits),
         edits' = Tail(edits), ~Refusable(d), leased' = leased \cup {d},
         owned' = [r \in Resources |-> IF r \in WantedBy(d) THEN d ELSE owned[r]],
         Post("granted", d), UNCHANGED <<surface, asks, ui, held, mutations, releases>>
  PROVE  Handles'
<1>1. /\ Members(Tail(edits)) = Members(edits) \ {d} /\ d \in Members(edits)
      /\ inbox \in Seq(Messages)
  BY DistinctTail, MembersType DEF Books, TypeOK
<1>2. d \in Queued /\ Queued' = Queued \ {d} /\ Used' = Used
  BY <1>1 DEF Queued, Books, Used
<1>3. Known(d) /\ d \notin leased
  BY <1>2 DEF Books
<1>4. d \notin Granted /\ d \notin Used /\ ~Shows(d)
  BY <1>2 DEF Handles, Stages
<1>5. Granted' = Granted \cup {d} /\ Lost' = Lost /\ GrantedOnce(inbox)'
  <2>1. /\ Message("granted", {d}) \in Messages /\ Message("granted", {d}).kind = "granted"
        /\ Message("granted", {d}).drafts = {d}
    BY MessageType
  <2> DEFINE m == Message("granted", {d})
  <2> HIDE DEF m
  <2>2. /\ DraftsOf(Append(inbox, m), "granted") = DraftsOf(inbox, "granted") \cup {d}
        /\ DraftsOf(Append(inbox, m), "lost") = DraftsOf(inbox, "lost")
    <3>1. m \in Messages /\ m.kind = "granted" /\ m.drafts = {d} /\ m.kind # "lost"
      BY <2>1 DEF m
    <3>2. DraftsOf(Append(inbox, m), "granted") = DraftsOf(inbox, "granted") \cup m.drafts
      BY <1>1, <3>1, DraftsAppend
    <3>3. DraftsOf(Append(inbox, m), "lost") = DraftsOf(inbox, "lost")
      BY <1>1, <3>1, DraftsAppend
    <3>4. QED
      BY <3>1, <3>2, <3>3
  <2>3. GrantedOnce(Append(inbox, Message("granted", {d})))
    BY <1>1, <1>4, GrantAppend DEF Granted, Handles, Stages
  <2>4. QED
    BY <2>2, <2>3 DEF Post, Granted, Lost, m
<1>6. Owners'
  <2>1. \A r \in WantedBy(d) : owned[r] = None
    BY DEF Refusable
  <2>2. \A r \in Resources : owned[r] # d
    BY <1>3, DraftParts DEF Handles, Owners
  <2>3. ASSUME NEW e \in leased' PROVE OwnedBy(e)' = WantedBy(e)
    <3>1. e # None /\ e \in Drafts /\ WantedBy(d) \subseteq Resources
      BY <2>3, DraftParts DEF TypeOK
    <3>2. CASE e = d
      <4>1. OwnedBy(e)' = WantedBy(d)
        BY <2>2, <3>1, <3>2 DEF OwnedBy
      <4>2. QED
        BY <3>2, <4>1
    <3>3. CASE e # d
      <4>1. e \in leased
        BY <2>3, <3>3
      <4>2. OwnedBy(e)' = OwnedBy(e)
        BY <2>1, <3>1, <3>3 DEF OwnedBy
      <4>3. QED
        BY <4>1, <4>2 DEF Handles, Owners
    <3>4. QED
      BY <3>2, <3>3
  <2>4. \A r \in Resources : owned'[r] # None => owned'[r] \in leased'
    BY DEF Handles, Owners
  <2>5. QED
    BY <2>3, <2>4 DEF Owners, WantedBy
<1>7. Backed'
  BY <1>5 DEF Handles, Backed, Shows
<1>8. /\ \A e \in Granted' : Known(e)' /\ ~Shows(e)' /\ e \notin Used' /\ e \notin Queued'
      /\ \A e \in Queued' : ~Shows(e)' /\ e \notin Used'
      /\ \A e \in Used' : Known(e)' /\ ~Shows(e)' /\ ~Asks(e)'
  BY <1>2, <1>3, <1>4, <1>5 DEF Handles, Stages, Known, Shows, Asks
<1>9. \A s \in Surfaces : surface'[s].phase # "idle" =>
        (SurfaceOf(surface[s].draft) = s /\ Known(surface[s].draft))'
  BY DEF Handles, Stages, Known, SurfaceOf
<1>10. QED
  BY <1>5, <1>6, <1>7, <1>8, <1>9 DEF Handles, Stages

\* The worker takes a request.
LEMMA EditHandles ==
  ASSUME TypeOK, Books, Handles, RefuseEdit \/ AcquireEdit
  PROVE  Handles'
<1>1. /\ edits # <<>> /\ edits' = Tail(edits) /\ Head(edits) \in Drafts
      /\ UNCHANGED <<surface, asks, ui, held, mutations, releases>>
  BY MembersType DEF RefuseEdit, AcquireEdit, user, TypeOK
<1>2. CASE Deny(Head(edits))
  BY <1>1, <1>2, DenyHandles
<1>3. CASE /\ ~Refusable(Head(edits)) /\ leased' = leased \cup {Head(edits)}
           /\ owned' = [r \in Resources |-> IF r \in WantedBy(Head(edits)) THEN Head(edits)
                                            ELSE owned[r]]
           /\ Post("granted", Head(edits))
  BY <1>1, <1>3, GrantHandles
<1>4. QED
  BY <1>2, <1>3 DEF RefuseEdit, AcquireEdit

\* The reset answers what is queued: drafts leave their stages.
LEMMA AnswersHandles ==
  ASSUME TypeOK, Handles, ResetAnswers
  PROVE  Handles'
<1>1. Settles /\ UNCHANGED <<asks, ui, held, leased, owned, releases>>
      /\ mutations' = <<>> /\ edits' = <<>>
  BY DEF ResetAnswers, Settles, user
<1>2. Used' \subseteq Used /\ Queued' \subseteq Queued
  BY <1>1 DEF Used, Queued, Members
<1>3. Quiet
  <2> DEFINE q == Results(mutations)
             r == Denials(edits)
  <2>1. q \in Seq(Messages) /\ r \in Seq(Messages)
    BY AnswersType DEF TypeOK
  <2>2. (\A m \in Members(q) : m.kind # "granted") /\ (\A m \in Members(r) : m.kind # "granted")
    <3>1. /\ Len(mutations) \in Nat /\ Len(edits) \in Nat
          /\ Len(q) = Len(mutations) /\ Len(r) = Len(edits)
      BY DEF Results, Denials, TypeOK
    <3>2. /\ \A i \in 1..Len(mutations) : q[i] = Message("result", {mutations[i]})
          /\ \A i \in 1..Len(edits) : r[i] = Message("denied", {edits[i]})
      BY DEF Results, Denials
    <3> HIDE DEF q, r
    <3>3. ASSUME NEW m \in Members(q) PROVE m.kind # "granted"
      <4>1. PICK i \in 1..Len(mutations) : m = q[i]
        BY <3>1, <3>3 DEF Members
      <4>2. m = Message("result", {mutations[i]})
        BY <3>2, <4>1
      <4>3. m.kind = "result"
        BY <4>2 DEF Message
      <4>4. QED
        BY <4>3
    <3>4. ASSUME NEW m \in Members(r) PROVE m.kind # "granted"
      <4>1. PICK i \in 1..Len(edits) : m = r[i]
        BY <3>1, <3>4 DEF Members
      <4>2. m = Message("denied", {edits[i]})
        BY <3>2, <4>1
      <4>3. m.kind = "denied"
        BY <4>2 DEF Message
      <4>4. QED
        BY <4>3
    <3>5. QED
      BY <3>3, <3>4
  <2>3. inbox' = (inbox \o q) \o r \/ inbox' = (Outdated \o q) \o r
    BY DEF ResetAnswers
  <2>4. inbox \in Seq(Messages) /\ Outdated \in Seq(Messages)
    BY OutdatedType DEF TypeOK
  <2> HIDE DEF q, r
  <2>5. (inbox \o q) \o r = inbox \o (q \o r) /\ (Outdated \o q) \o r = Outdated \o (q \o r)
    BY <2>1, <2>4, SMTT(30)
  <2>6. q \o r \in Seq(Messages) /\ Members(q \o r) = Members(q) \cup Members(r)
    BY <2>1, MembersConcat
  <2>7. \A m \in Members(q \o r) : m.kind # "granted"
    BY <2>2, <2>6
  <2>8. QED
    BY <2>3, <2>5, <2>6, <2>7, QuietStep DEF Handles, Stages
<1>4. QED
  BY <1>1, <1>2, <1>3, StagesType, HandlesKept DEF Quiet

\* The reset forgets every lease and announces the loss of each.
LEMMA ClearsHandles ==
  ASSUME TypeOK, Handles, ResetClears
  PROVE  Handles'
<1>1. Settles /\ UNCHANGED <<asks, ui, edits, mutations, releases, held>>
  BY DEF ResetClears, Settles, user, queues
<1>2. Used' = Used /\ Queued' = Queued
  BY <1>1 DEF Used, Queued
<1>3. leased' = {} /\ \A r \in Resources : owned'[r] = None
  BY DEF ResetClears, Forget, Disown, Handles, Owners
<1>4. Owners'
  BY <1>3 DEF Owners
<1>5. Quiet /\ leased \subseteq Lost'
  <2> DEFINE q == IF leased = {} THEN <<>> ELSE <<Message("lost", leased)>>
             r == IF rt.failed THEN <<Message("disconnected", {})>> ELSE <<>>
  <2>1. /\ Message("lost", leased) \in Messages /\ Message("disconnected", {}) \in Messages
        /\ <<>> \in Seq(Messages) /\ Members(<<>>) = {}
    BY NewsType DEF TypeOK, SessionNews, Members
  <2>2. /\ q \in Seq(Messages) /\ \A m \in Members(q) : m.kind # "granted"
        /\ leased \subseteq DraftsOf(q, "lost")
    <3>1. CASE leased = {}
      BY <2>1, <3>1
    <3>2. CASE leased # {}
      <4>1. q \in Seq(Messages) /\ Members(q) = {Message("lost", leased)}
        BY <2>1, <3>2, Single
      <4>2. QED
        BY <4>1 DEF Message, DraftsOf
    <3>3. QED
      BY <3>1, <3>2
  <2>3. r \in Seq(Messages) /\ \A m \in Members(r) : m.kind # "granted"
    <3>1. CASE ~rt.failed
      BY <2>1, <3>1
    <3>2. CASE rt.failed
      <4>1. r \in Seq(Messages) /\ Members(r) = {Message("disconnected", {})}
        BY <2>1, <3>2, Single
      <4>2. QED
        BY <4>1 DEF Message
    <3>3. QED
      BY <3>1, <3>2
  <2>4. inbox' = (inbox \o q) \o r /\ inbox \in Seq(Messages)
    BY DEF ResetClears, TypeOK
  <2> HIDE DEF q, r
  <2>5. (inbox \o q) \o r = inbox \o (q \o r)
    BY <2>2, <2>3, <2>4, SMTT(30)
  <2>6. /\ q \o r \in Seq(Messages) /\ Members(q \o r) = Members(q) \cup Members(r)
        /\ \A m \in Members(q \o r) : m.kind # "granted"
    BY <2>2, <2>3, MembersConcat
  <2>7. Quiet
    BY <2>4, <2>5, <2>6, QuietStep DEF Handles, Stages
  <2>8. Lost' = Lost \cup DraftsOf(q \o r, "lost")
    BY <2>4, <2>5, <2>6, QuietConcat DEF Lost
  <2>9. DraftsOf(q, "lost") \subseteq DraftsOf(q \o r, "lost")
    BY <2>6 DEF DraftsOf
  <2>10. QED
    BY <2>2, <2>7, <2>8, <2>9
<1>6. Backed'
  BY <1>1, <1>5, SettlesShows DEF Handles, Backed, Quiet
<1>7. /\ \A e \in Granted' : Known(e)' /\ ~Shows(e)' /\ e \notin Used' /\ e \notin Queued'
      /\ \A e \in Queued' : ~Shows(e)' /\ e \notin Used'
      /\ \A e \in Used' : Known(e)' /\ ~Shows(e)' /\ ~Asks(e)'
  BY <1>1, <1>2, <1>5, StagesType, SettlesShows DEF Handles, Stages, Quiet, Known
<1>8. \A s \in Surfaces : surface'[s].phase # "idle" =>
        (SurfaceOf(surface[s].draft) = s /\ Known(surface[s].draft))'
  BY <1>1 DEF Handles, Stages, Known, SurfaceOf, ResetClears, user
<1>9. QED
  BY <1>4, <1>5, <1>6, <1>7, <1>8 DEF Handles, Stages, Quiet

\* Every step keeps the stages.
LEMMA HandlesNext ==
  ASSUME TypeOK, Books, Handles, Promised, [Next]_vars
  PROVE  Handles'
<1>1. CASE \E d \in Drafts : TestSession(d) \/ Enqueue(d) \/ EnqueueMutation(d)
  BY <1>1, EnqueueHandles, MutationHandles, DraftParts
<1>2. CASE HandleResult
  <2>1. TheDraft \in Drafts /\ inbox \in Seq(Messages) /\ inbox # <<>>
    BY <1>2, HeadType DEF HandleResult, Receiving, TypeOK
  <2>2. /\ DraftsOf(Tail(inbox), "granted") = Granted /\ DraftsOf(Tail(inbox), "lost") = Lost
        /\ GrantedOnce(Tail(inbox)) /\ Tail(inbox) \in Seq(Messages)
    BY <1>2, <2>1, DraftsTail, GrantTail, HeadType
       DEF HandleResult, Receiving, Granted, Lost, Handles, Stages
  <2>3. QED
    BY <1>2, <2>1, <2>2, DraftParts, RequestHandles DEF HandleResult, Receiving
<1>3. CASE HandleGranted
  BY <1>3, GrantedHandles
<1>4. CASE HandleLost
  BY <1>4, LostHandles
<1>5. CASE \/ HandleDenied \/ IgnoreResult \/ IgnoreStale
           \/ \E kind \in SessionNews : HandleNews(kind)
  BY <1>5, SurfaceHandles
<1>6. CASE EnterConflict \/ Resume \/ Detach \/ Start \/ \E d \in Drafts : MarkConflict(d)
  BY <1>6, LifecycleHandles
<1>7. ASSUME NEW s \in Surfaces, Ask(s) \/ Close(s) \/ Save(s) \/ SaveRefused(s)
      PROVE  Handles'
  <2>1. CASE Ask(s)
    <3>1. inbox \in Seq(Messages) /\ GrantedOnce(inbox)
      BY DEF TypeOK, Handles, Stages
    <3>2. QED
      BY <2>1, <3>1, RequestHandles DEF Ask, Granted, Lost
  <2>2. CASE SaveRefused(s)
    <3>1. surface[s].draft \in Drafts
      BY <2>2, ShownDraft DEF SaveRefused
    <3>2. QED
      BY <2>2, <3>1, MutationHandles
  <2>3. QED
    BY <1>7, <2>1, <2>2, CloseHandles, SaveHandles
<1>8. CASE \/ Stopped \/ Top \/ Connect \/ CallFails \/ Await \/ Beat
           \/ TakeMutation \/ NoMutation \/ DenyMutation \/ JournalFails
  BY <1>8, WorkerHandles
<1>9. CASE Release \/ Execute
  BY <1>9, ReleaseHandles, ExecuteHandles
<1>10. CASE RefuseEdit \/ AcquireEdit
  BY <1>10, EditHandles
<1>11. CASE ResetAnswers \/ ResetClears
  BY <1>11, AnswersHandles, ClearsHandles
<1>12. CASE Server \/ UNCHANGED vars
  <2>1. /\ Settles /\ inbox' = inbox
        /\ UNCHANGED <<asks, ui, edits, mutations, releases, held, leased, owned>>
    BY <1>12 DEF Server, OtherTakes, OtherReleases, Expire, OthersUnchanged, vars, user,
                 worker, queues, Settles
  <2>2. Quiet
    BY <2>1, QuietStep DEF Handles, Stages
  <2>3. Queued' = Queued /\ Used' = Used
    BY <2>1 DEF Queued, Used
  <2>4. QED
    BY <2>1, <2>2, <2>3, StagesType, HandlesKept DEF Quiet
<1>13. QED
  BY <1>1, <1>2, <1>3, <1>4, <1>5, <1>6, <1>7, <1>8, <1>9, <1>10, <1>11, <1>12
     DEF Next, Answer, User, Worker

\* Only the main thread tests, and between the test and the queuing it does nothing else.
LEMMA PromisedNext ==
  ASSUME TypeOK, Handles, Promised, [Next]_vars
  PROVE  Promised'
<1>1. ASSUME UNCHANGED <<surface, ui, tested>> PROVE Promised'
  BY <1>1 DEF Promised, Shows
<1>2. ASSUME tested' = None PROVE Promised'
  BY <1>2 DEF Promised
<1>3. CASE \E d \in Drafts : TestSession(d) \/ Enqueue(d) \/ EnqueueMutation(d)
  BY <1>2, <1>3 DEF TestSession, Enqueue, EnqueueMutation, Promised
<1>4. CASE EnterConflict
  <2>1. tested = None
    BY <1>4, NamesAssumption DEF EnterConflict, Promised, TypeOK
  <2>2. QED
    BY <1>2, <1>4, <2>1 DEF EnterConflict
<1>5. CASE \/ HandleGranted \/ HandleDenied \/ HandleLost \/ HandleResult \/ IgnoreResult
           \/ IgnoreStale \/ \E kind \in SessionNews : HandleNews(kind)
  BY <1>2, <1>5 DEF HandleGranted, HandleDenied, HandleLost, HandleResult, Request,
                    IgnoreResult, IgnoreStale, HandleNews, Receive, Receiving, MainThread
<1>6. CASE User /\ ~(\E s \in Surfaces : Save(s))
  BY <1>2, <1>6 DEF User, Ask, Request, Close, SaveRefused, MarkConflict, Resume, Detach, Start,
                    MainThread
<1>7. ASSUME NEW s \in Surfaces, Save(s) PROVE Promised'
  <2>1. Shows(surface[s].draft) /\ ui = None
    BY <1>7, ShownDraft DEF Save, MainThread
  <2>2. QED
    BY <1>7, <2>1 DEF Save, Promised, Shows
<1>8. CASE Worker
  <2>1. UNCHANGED user
    BY <1>8 DEF Worker, Stopped, Top, Connect, CallFails, Await, Beat, Release, TakeMutation,
                NoMutation, DenyMutation, JournalFails, Execute, RefuseEdit, AcquireEdit,
                ResetAnswers, ResetClears
  <2>2. QED
    BY <1>1, <2>1 DEF user
<1>9. CASE Server \/ UNCHANGED vars
  BY <1>1, <1>9 DEF Server, OtherTakes, OtherReleases, Expire, OthersUnchanged, vars, user
<1>10. QED
  BY <1>3, <1>4, <1>5, <1>6, <1>7, <1>8, <1>9 DEF Next, Answer, User

\* What a surface believes it may edit it may, or the news of the loss is on its way.
LEMMA HandlesSuffice == TypeOK /\ Handles => HandleIsBacked
<1> SUFFICES ASSUME TypeOK, Handles, NEW s \in Surfaces, surface[s].phase = "shown"
             PROVE  LET d == surface[s].draft IN Held(d) \/ Announced("lost", d)
  BY DEF HandleIsBacked, HandleOf
<1>1. PICK d \in Drafts : d = surface[s].draft /\ Shows(d)
  BY ShownDraft
<1>2. d \in leased \/ d \in Lost
  BY <1>1 DEF Handles, Backed
<1>3. CASE d \in leased
  BY <1>1, <1>3 DEF Handles, Owners, Held
<1>4. CASE d \in Lost
  BY <1>1, <1>4 DEF Lost, DraftsOf, Announced
<1>5. QED
  BY <1>2, <1>3, <1>4

\* The invariant is inductive.
LEMMA IInvInit == Init => IInv
<1>1. Init => Promised
  BY DEF Init, Promised
<1>2. QED
  BY <1>1, BooksHold, HandlesInit DEF IInv

\* Every step keeps it.
LEMMA IInvNext == IInv /\ [Next]_vars => IInv'
BY BooksHold, HandlesNext, PromisedNext DEF IInv

\* A handle in a surface stands for locks that the worker has, whatever order grants,
\* losses, closes, saves and resets come in.
THEOREM HandlesCorrect == Spec => []HandleIsBacked
<1>1. IInv => HandleIsBacked
  BY HandlesSuffice DEF IInv
<1>2. QED
  BY <1>1, IInvInit, IInvNext, PTL DEF Spec

-----------------------------------------------------------------------------
(* LeaseHasAnEnd: the lease of a draft is shown, granted or being given    *)
(* up, or the session is about to be reset. A lease that is given up is    *)
(* not refused on the way: while leases exist, the session is the one the  *)
(* main thread has answered (Course), so the client may edit, its drafts   *)
(* are active and its worker executes (Working), unless a reset is due;    *)
(* and no surface is told of the loss of a draft that is leased            *)
(* (LostIsGone).                                                           *)

-----------------------------------------------------------------------------
(* The course of a session: when leases can exist, and which news are about it. *)

News(q, kind) == \E m \in Members(q) : m.kind = kind
StartedOnce(q) ==
  \A i, j \in 1..Len(q) : q[i].kind = "started" /\ q[j].kind = "started" => i = j

\* Leases belong to a session that the main thread has answered; a worker that iterates
\* has one; a runtime without one waits for its next, unless it was told to stop.
SessionCourse ==
  /\ pc \in {"await", "release", "execute", "edit"} => rt.session
  /\ pc \in {"connect", "off"} => ~rt.session
  /\ rt.session /\ pc \notin {"await", "reject", "clear"} => rt.ready
  /\ ~rt.session => leased = {} /\ (~rt.ready \/ rt.stop)
  /\ pc = "await" => leased = {}
  /\ ~attached => rt.stop

\* News that are not stale are about this session: its start once, which the worker
\* awaits, and never its end.
NewsCourse ==
  /\ News(inbox, "started") => rt.session /\ pc # "clear" /\ (~rt.ready \/ rt.stop)
  /\ rt.session => ~News(inbox, "disconnected")
  /\ StartedOnce(inbox)

Course == SessionCourse /\ NewsCourse

(* What a queue says after a message more or less. *)

\* Handling a message brings no news, and the start of a session is handled once.
LEMMA NewsTail ==
  ASSUME NEW q \in Seq(Messages), q # <<>>, StartedOnce(q)
  PROVE  /\ \A kind \in SessionNews : News(Tail(q), kind) => News(q, kind)
         /\ StartedOnce(Tail(q))
         /\ Head(q).kind = "started" => ~News(Tail(q), "started")
<1>1. /\ Len(q) \in Nat \ {0} /\ Head(q) = q[1] /\ Len(Tail(q)) = Len(q) - 1
      /\ \A i \in 1..Len(Tail(q)) : Tail(q)[i] = q[i + 1]
  OBVIOUS
<1>2. \A i \in 1..Len(Tail(q)) : i + 1 \in 1..Len(q) /\ i + 1 # 1
  BY <1>1
<1>3. \A kind \in SessionNews : News(Tail(q), kind) => News(q, kind)
  BY MembersType DEF News
<1>4. StartedOnce(Tail(q))
  <2>1. SUFFICES ASSUME NEW i \in 1..Len(Tail(q)), NEW j \in 1..Len(Tail(q)),
                        Tail(q)[i].kind = "started", Tail(q)[j].kind = "started"
                 PROVE  i = j
    BY DEF StartedOnce
  <2>2. i + 1 \in 1..Len(q) /\ j + 1 \in 1..Len(q) /\ Tail(q)[i] = q[i + 1] /\ Tail(q)[j] = q[j + 1]
    BY <1>1, <1>2
  <2>3. i + 1 = j + 1
    BY <2>1, <2>2 DEF StartedOnce
  <2>4. QED
    BY <1>1, <2>3
<1>5. ASSUME Head(q).kind = "started", News(Tail(q), "started")
      PROVE  FALSE
  <2>1. PICK i \in 1..Len(Tail(q)) : Tail(q)[i].kind = "started"
    BY <1>5 DEF News, Members
  <2>2. i + 1 \in 1..Len(q) /\ 1 \in 1..Len(q) /\ q[i + 1].kind = "started" /\ i + 1 # 1
    BY <1>1, <1>2, <2>1
  <2>3. QED
    BY <1>1, <1>5, <2>2 DEF StartedOnce
<1>6. QED
  BY <1>3, <1>4, <1>5

\* The news of two queues, one after the other, are those of either.
LEMMA NewsConcat ==
  ASSUME NEW q \in Seq(Messages), NEW r \in Seq(Messages)
  PROVE  /\ \A kind \in SessionNews : News(q \o r, kind) => News(q, kind) \/ News(r, kind)
         /\ StartedOnce(q) /\ ~News(r, "started") => StartedOnce(q \o r)
<1>1. \A kind \in SessionNews : News(q \o r, kind) => News(q, kind) \/ News(r, kind)
  BY MembersConcat DEF News
<1>2. ASSUME StartedOnce(q), ~News(r, "started") PROVE StartedOnce(q \o r)
  <2>1. \A i \in 1..Len(q \o r) : (q \o r)[i].kind = "started" =>
          i \in 1..Len(q) /\ (q \o r)[i] = q[i]
    <3>1. SUFFICES ASSUME NEW i \in 1..Len(q \o r), (q \o r)[i].kind = "started",
                          i \notin 1..Len(q)
                   PROVE  FALSE
      BY MembersConcat
    <3>2. i - Len(q) \in 1..Len(r) /\ (q \o r)[i] = r[i - Len(q)]
      BY <3>1, MembersConcat
    <3>3. QED
      BY <1>2, <3>1, <3>2 DEF News, Members
  <2>2. QED
    BY <1>2, <2>1 DEF StartedOnce
<1>3. QED
  BY <1>1, <1>2

\* The news of a queue and of a message that is posted.
LEMMA NewsAppend ==
  ASSUME NEW q \in Seq(Messages), NEW m \in Messages
  PROVE  /\ \A kind \in SessionNews : News(Append(q, m), kind) => News(q, kind) \/ m.kind = kind
         /\ StartedOnce(q) /\ m.kind # "started" => StartedOnce(Append(q, m))
<1>1. Append(q, m) = q \o <<m>>
  OBVIOUS
<1>2. /\ <<m>> \in Seq(Messages) /\ "started" \in SessionNews
      /\ \A kind \in SessionNews : News(<<m>>, kind) => m.kind = kind
  BY Single DEF News, SessionNews
<1>3. QED
  BY <1>1, <1>2, NewsConcat

\* Outdated news are no news.
LEMMA NewsOutdated ==
  ASSUME inbox \in Seq(Messages)
  PROVE  /\ \A kind \in SessionNews : ~News(Outdated, kind)
         /\ StartedOnce(Outdated)
<1>1. /\ Len(Outdated) = Len(inbox)
      /\ \A i \in 1..Len(inbox) :
           Outdated[i] = IF inbox[i].kind \in SessionNews THEN Message("stale", {}) ELSE inbox[i]
  BY DEF Outdated
<1>2. \A i \in 1..Len(inbox) : Outdated[i].kind \notin SessionNews
  BY <1>1 DEF SessionNews, Message
<1>3. QED
  BY <1>1, <1>2 DEF News, Members, StartedOnce, SessionNews

\* The start of a session is the only one that is not outdated.
LEMMA StartedAppend ==
  ASSUME inbox \in Seq(Messages)
  PROVE  /\ Append(Outdated, Message("started", {})) \in Seq(Messages)
         /\ ~News(Append(Outdated, Message("started", {})), "disconnected")
         /\ StartedOnce(Append(Outdated, Message("started", {})))
<1> DEFINE m == Message("started", {})
<1>1. Outdated \in Seq(Messages) /\ m \in Messages /\ m.kind = "started"
  BY OutdatedType, NewsType DEF SessionNews, Message
<1>2. /\ Len(Outdated) \in Nat /\ Len(Append(Outdated, m)) = Len(Outdated) + 1
      /\ \A i \in 1..Len(Outdated) : Append(Outdated, m)[i] = Outdated[i]
  BY <1>1
<1> HIDE DEF m
<1>3. \A i \in 1..Len(Outdated) : Outdated[i].kind # "started"
  BY NewsOutdated DEF News, Members, SessionNews
<1>4. StartedOnce(Append(Outdated, m))
  BY <1>2, <1>3 DEF StartedOnce
<1>5. ~News(Append(Outdated, m), "disconnected")
  BY <1>1, NewsAppend, NewsOutdated DEF SessionNews
<1>6. QED
  BY <1>1, <1>4, <1>5 DEF m

\* The step brings no start and no end of a session.
NewsKept ==
  /\ News(inbox, "started")' => News(inbox, "started")
  /\ News(inbox, "disconnected")' => News(inbox, "disconnected")
  /\ StartedOnce(inbox)'

\* The reset answers what is queued.
LEMMA AnswersKinds ==
  ASSUME TypeOK
  PROVE  /\ \A m \in Members(Results(mutations)) \cup Members(Denials(edits)) :
              m.kind \in {"result", "denied"}
         /\ ~News(Results(mutations), "started") /\ ~News(Denials(edits), "started")
<1> DEFINE q == Results(mutations)
           r == Denials(edits)
<1>1. /\ Len(mutations) \in Nat /\ Len(edits) \in Nat
      /\ Len(q) = Len(mutations) /\ Len(r) = Len(edits)
      /\ \A i \in 1..Len(mutations) : q[i] = Message("result", {mutations[i]})
      /\ \A i \in 1..Len(edits) : r[i] = Message("denied", {edits[i]})
  BY DEF Results, Denials, TypeOK
<1> HIDE DEF q, r
<1>2. ASSUME NEW m \in Members(q) PROVE m.kind = "result"
  <2>1. PICK i \in 1..Len(mutations) : m = Message("result", {mutations[i]})
    BY <1>1, <1>2 DEF Members
  <2>2. QED
    BY <2>1 DEF Message
<1>3. ASSUME NEW m \in Members(r) PROVE m.kind = "denied"
  <2>1. PICK i \in 1..Len(edits) : m = Message("denied", {edits[i]})
    BY <1>1, <1>3 DEF Members
  <2>2. QED
    BY <2>1 DEF Message
<1>4. QED
  BY <1>2, <1>3 DEF News, q, r

\* The inbox is left alone, outdated or its head handled, and messages are added that
\* neither start nor end a session and announce no loss.
InboxMoves ==
  \E base, q \in Seq(Messages) :
    /\ inbox' = base \o q
    /\ \A m \in Members(q) : m.kind \notin {"started", "disconnected", "lost"}
    /\ \/ base = inbox \/ base = Outdated
       \/ inbox # <<>> /\ base = Tail(inbox) /\ (Head(inbox).kind = "granted" => HandleGranted)

\* Every step but a connection and the end of a reset does that to the inbox.
LEMMA InboxSteps ==
  ASSUME TypeOK, [Next]_vars, ~Connect, ~ResetClears
  PROVE  InboxMoves
<1>1. /\ inbox \in Seq(Messages) /\ Outdated \in Seq(Messages)
      /\ inbox # <<>> => Tail(inbox) \in Seq(Messages)
  BY OutdatedType DEF TypeOK
<1>2. CASE inbox' = inbox \/ inbox' = Outdated
  <2>1. <<>> \in Seq(Messages) /\ Members(<<>>) = {} /\ inbox' = inbox' \o <<>>
    BY <1>1, <1>2 DEF Members
  <2>2. QED
    BY <1>1, <1>2, <2>1 DEF InboxMoves
<1>3. CASE /\ inbox # <<>> /\ inbox' = Tail(inbox)
           /\ Head(inbox).kind = "granted" => HandleGranted
  <2>1. <<>> \in Seq(Messages) /\ Members(<<>>) = {} /\ Tail(inbox) = Tail(inbox) \o <<>>
    BY <1>1, <1>3 DEF Members
  <2>2. QED
    BY <1>1, <1>3, <2>1 DEF InboxMoves
<1>4. ASSUME NEW m \in Messages, m.kind \notin {"started", "disconnected", "lost"},
             \/ inbox' = Append(inbox, m)
             \/ /\ inbox # <<>> /\ inbox' = Append(Tail(inbox), m)
                /\ Head(inbox).kind = "granted" => HandleGranted
      PROVE  InboxMoves
  <2>1. <<m>> \in Seq(Messages) /\ \A x \in Members(<<m>>) : x = m
    BY Single
  <2>2. /\ Append(inbox, m) = inbox \o <<m>>
        /\ inbox # <<>> => Append(Tail(inbox), m) = Tail(inbox) \o <<m>>
    BY <1>1
  <2>3. QED
    BY <1>1, <1>4, <2>1, <2>2 DEF InboxMoves
<1>5. ASSUME NEW d \in Drafts, NEW kind \in {"granted", "denied", "result"},
             \/ inbox' = Append(inbox, Message(kind, {d}))
             \/ /\ inbox # <<>> /\ inbox' = Append(Tail(inbox), Message(kind, {d}))
                /\ Head(inbox).kind = "granted" => HandleGranted
      PROVE  InboxMoves
  <2>1. /\ Message(kind, {d}) \in Messages
        /\ Message(kind, {d}).kind \notin {"started", "disconnected", "lost"}
    BY MessageType
  <2>2. QED
    BY <1>4, <1>5, <2>1
<1>6. CASE \/ HandleGranted \/ HandleDenied \/ HandleLost \/ IgnoreResult \/ IgnoreStale
           \/ \E kind \in SessionNews : HandleNews(kind)
  BY <1>3, <1>6 DEF HandleGranted, HandleDenied, HandleLost, IgnoreResult, IgnoreStale,
                    HandleNews, Receive, Receiving, SessionNews
<1>7. ASSUME NEW s \in Surfaces, NEW messages, Request(s, messages),
             \/ messages = inbox
             \/ inbox # <<>> /\ messages = Tail(inbox) /\ Head(inbox).kind # "granted"
      PROVE  InboxMoves
  <2>1. <<s, asks[s] + 1>> \in Drafts
    BY <1>7, BoundsAssumption DEF Request, TypeOK, Drafts
  <2>2. inbox' = messages \/ inbox' = Append(messages, Message("denied", {<<s, asks[s] + 1>>}))
    BY <1>7 DEF Request
  <2>3. QED
    BY <1>2, <1>3, <1>5, <1>7, <2>1, <2>2
<1>8. CASE HandleResult
  <2>1. TheDraft \in Drafts /\ inbox # <<>> /\ Head(inbox).kind # "granted"
    BY <1>8, HeadType DEF HandleResult, Receiving
  <2>2. QED
    BY <1>7, <1>8, <2>1, DraftParts DEF HandleResult
<1>9. CASE \E d \in Drafts : TestSession(d) \/ Enqueue(d) \/ EnqueueMutation(d)
  BY <1>2, <1>5, <1>9 DEF TestSession, Enqueue, EnqueueMutation, Post
<1>10. CASE \/ EnterConflict \/ Resume \/ Detach \/ Start
            \/ \E d \in Drafts : MarkConflict(d)
  BY <1>2, <1>10 DEF EnterConflict, Resume, Detach, Start, MarkConflict
<1>11. ASSUME NEW s \in Surfaces, Ask(s) \/ Close(s) \/ Save(s) \/ SaveRefused(s)
       PROVE  InboxMoves
  <2>1. CASE Ask(s)
    BY <1>7, <2>1 DEF Ask
  <2>2. CASE Close(s) \/ Save(s)
    BY <1>2, <2>2 DEF Close, Save
  <2>3. CASE SaveRefused(s)
    <3>1. surface[s].draft \in Drafts
      BY <2>3 DEF SaveRefused, HandOver, TypeOK, Idle
    <3>2. QED
      BY <1>5, <2>3, <3>1 DEF SaveRefused, Post
  <2>4. QED
    BY <1>11, <2>1, <2>2, <2>3
<1>12. CASE \/ Stopped \/ Top \/ CallFails \/ Await \/ TakeMutation \/ NoMutation \/ Release
  BY <1>2, <1>12 DEF Stopped, Top, CallFails, Await, TakeMutation, NoMutation, Release
<1>13. CASE Beat
  <2>1. /\ Message("restored", {}) \in Messages
        /\ Message("restored", {}).kind \notin {"started", "disconnected", "lost"}
    BY NewsType DEF SessionNews, Message
  <2>2. QED
    BY <1>2, <1>4, <1>13, <2>1 DEF Beat
<1>14. CASE DenyMutation \/ JournalFails \/ Execute
  <2>1. held \in Drafts
    BY <1>14, NamesAssumption DEF DenyMutation, JournalFails, Execute, TypeOK
  <2>2. QED
    BY <1>5, <1>14, <2>1 DEF DenyMutation, JournalFails, Execute, Post
<1>15. CASE RefuseEdit \/ AcquireEdit
  <2>1. Head(edits) \in Drafts
    BY <1>15 DEF RefuseEdit, AcquireEdit, TypeOK
  <2>2. QED
    BY <1>5, <1>15, <2>1 DEF RefuseEdit, AcquireEdit, Deny, Post
<1>16. CASE ResetAnswers
  <2> DEFINE q == Results(mutations)
             r == Denials(edits)
  <2>1. q \in Seq(Messages) /\ r \in Seq(Messages)
    BY AnswersType DEF TypeOK
  <2>2. \E base \in {inbox, Outdated} : inbox' = (base \o q) \o r
    BY <1>16 DEF ResetAnswers
  <2>3. \A m \in Members(q) \cup Members(r) : m.kind \in {"result", "denied"}
    BY AnswersKinds
  <2> HIDE DEF q, r
  <2>4. \A base \in {inbox, Outdated} : (base \o q) \o r = base \o (q \o r)
    BY <1>1, <2>1
  <2>5. q \o r \in Seq(Messages) /\ Members(q \o r) = Members(q) \cup Members(r)
    BY <2>1, MembersConcat
  <2>6. \A m \in Members(q \o r) : m.kind \notin {"started", "disconnected", "lost"}
    BY <2>3, <2>5
  <2>7. QED
    BY <1>1, <2>2, <2>4, <2>5, <2>6 DEF InboxMoves
<1>17. CASE Server \/ UNCHANGED vars
  BY <1>2, <1>17 DEF Server, OtherTakes, OtherReleases, Expire, OthersUnchanged, vars
<1>18. QED
  BY <1>6, <1>8, <1>9, <1>10, <1>11, <1>12, <1>13, <1>14, <1>15, <1>16, <1>17
     DEF Next, Answer, User, Worker

\* Only the worker that connects starts a session, and only a reset ends one.
LEMMA NewsSteps ==
  ASSUME TypeOK, StartedOnce(inbox), [Next]_vars, ~Connect, ~ResetClears
  PROVE  NewsKept
<1>1. PICK base \in Seq(Messages), q \in Seq(Messages) :
        /\ inbox' = base \o q
        /\ \A m \in Members(q) : m.kind \notin {"started", "disconnected", "lost"}
        /\ base = inbox \/ base = Outdated \/ (inbox # <<>> /\ base = Tail(inbox))
  BY InboxSteps DEF InboxMoves
<1>2. /\ \A kind \in SessionNews : News(base, kind) => News(inbox, kind)
      /\ StartedOnce(base)
  <2>1. inbox \in Seq(Messages)
    BY DEF TypeOK
  <2>2. CASE base = inbox \/ base = Outdated
    BY <2>1, <2>2, NewsOutdated
  <2>3. CASE inbox # <<>> /\ base = Tail(inbox)
    <3>1. /\ \A kind \in SessionNews : News(Tail(inbox), kind) => News(inbox, kind)
          /\ StartedOnce(Tail(inbox))
      BY <2>1, <2>3, NewsTail
    <3>2. QED
      BY <2>3, <3>1
  <2>4. QED
    BY <1>1, <2>2, <2>3
<1>3. ~News(q, "started") /\ ~News(q, "disconnected")
  BY <1>1 DEF News
<1>4. /\ \A kind \in {"started", "disconnected"} : News(base \o q, kind) => News(inbox, kind)
      /\ StartedOnce(base \o q)
  BY <1>2, <1>3, NewsConcat DEF SessionNews
<1>5. QED
  BY <1>1, <1>4 DEF NewsKept

-----------------------------------------------------------------------------
(* The runtime's flags. *)

\* Only some steps change whether a runtime has a session, was answered or must stop.
LEMMA FlagsKept ==
  ASSUME TypeOK, [Next]_vars, ~HandleNews("started"), ~Detach, ~Start, ~Connect, ~ResetClears
  PROVE  rt'.session = rt.session /\ rt'.ready = rt.ready /\ rt'.stop = rt.stop
<1>1. \/ rt' = rt
      \/ rt' = [rt EXCEPT !.failed = TRUE]
      \/ rt' = [rt EXCEPT !.recReq = FALSE, !.recReady = FALSE]
      \/ rt' = [rt EXCEPT !.recReady = TRUE]
      \/ rt' = [rt EXCEPT !.healthy = FALSE, !.recReq = TRUE, !.recReady = FALSE]
      \/ rt' = [rt EXCEPT !.healthy = ~rt.recReq]
  <2>1. CASE Answer
    BY <2>1 DEF Answer, TestSession, Enqueue, EnqueueMutation, HandOver, HandleGranted,
                HandleDenied, HandleLost, HandleResult, Request, IgnoreResult, HandleNews,
                IgnoreStale, EnterConflict
  <2>2. CASE User
    BY <2>2 DEF User, Ask, Request, Close, Save, SaveRefused, HandOver, MarkConflict, Resume
  <2>3. CASE Worker
    BY <2>3 DEF Worker, Stopped, Top, CallFails, Fail, Await, Beat, Release, TakeMutation,
                NoMutation, DenyMutation, JournalFails, Execute, RefuseEdit, AcquireEdit,
                ResetAnswers
  <2>4. CASE Server \/ UNCHANGED vars
    BY <2>4 DEF Server, OtherTakes, OtherReleases, Expire, OthersUnchanged, vars
  <2>5. QED
    BY <2>1, <2>2, <2>3, <2>4 DEF Next
<1>2. rt \in Runtimes
  BY DEF TypeOK
<1>3. QED
  BY <1>1, <1>2 DEF Runtimes

\* What the others do to them.
LEMMA FlagsSet ==
  ASSUME TypeOK
  PROVE  /\ HandleNews("started") => /\ rt'.session = rt.session /\ rt'.stop = rt.stop
                                     /\ rt'.ready /\ ~rt'.healthy
         /\ Detach => rt'.session = rt.session /\ rt'.stop /\ rt'.ready
         /\ Start => ~rt'.session /\ ~rt'.ready /\ ~rt'.stop
         /\ Connect => rt'.session /\ rt'.ready = rt.ready /\ rt'.stop = rt.stop
         /\ ResetClears => ~rt'.session /\ ~rt'.ready /\ rt'.stop = rt.stop
<1>1. rt \in Runtimes
  BY DEF TypeOK
<1>2. HandleNews("started") => /\ rt'.session = rt.session /\ rt'.stop = rt.stop
                               /\ rt'.ready /\ ~rt'.healthy
  BY <1>1 DEF HandleNews, Runtimes
<1>3. Detach => rt'.session = rt.session /\ rt'.stop /\ rt'.ready
  BY <1>1 DEF Detach, Runtimes
<1>4. Start => ~rt'.session /\ ~rt'.ready /\ ~rt'.stop
  BY <1>1 DEF Start, FreshRuntime, Runtimes
<1>5. Connect => rt'.session /\ rt'.ready = rt.ready /\ rt'.stop = rt.stop
  BY <1>1 DEF Connect, Runtimes
<1>6. ResetClears => ~rt'.session /\ ~rt'.ready /\ rt'.stop = rt.stop
  BY <1>1 DEF ResetClears, Runtimes
<1>7. QED
  BY <1>2, <1>3, <1>4, <1>5, <1>6

\* The books of the worker grow by a grant only, and a reset empties them.
LEMMA LeasedSteps ==
  ASSUME TypeOK, [Next]_vars
  PROVE  /\ leased' \subseteq leased \/ (AcquireEdit /\ pc = "edit")
         /\ ResetClears => leased' = {}
<1>1. ASSUME Answer \/ User PROVE leased' \subseteq leased
  <2>1. leased' = leased
    BY <1>1 DEF Answer, TestSession, Enqueue, EnqueueMutation, HandOver, HandleGranted,
                HandleDenied, HandleLost, HandleResult, Request, IgnoreResult, HandleNews,
                IgnoreStale, EnterConflict, User, Ask, Close, Save, SaveRefused, HandOver,
                MarkConflict, Resume, Detach, Start, worker
  <2>2. QED
    BY <2>1
<1>2. ASSUME \/ Stopped \/ Top \/ Connect \/ CallFails \/ Await \/ Beat \/ TakeMutation
             \/ NoMutation \/ DenyMutation \/ JournalFails \/ RefuseEdit \/ ResetAnswers
      PROVE  leased' \subseteq leased
  BY <1>2 DEF Stopped, Top, Connect, CallFails, Await, Beat, TakeMutation, NoMutation,
              DenyMutation, JournalFails, RefuseEdit, Deny, ResetAnswers
<1>3. ASSUME Release \/ Execute PROVE leased' \subseteq leased
  <2>1. leased' = leased \/ \E d \in Drafts \cup {None} : leased' = leased \ {d}
    BY <1>3 DEF Release, Execute, Forget, TypeOK
  <2>2. QED
    BY <2>1
<1>4. AcquireEdit => pc = "edit"
  BY DEF AcquireEdit
<1>5. ResetClears => leased' = {}
  BY DEF ResetClears, Forget
<1>6. ASSUME Server \/ UNCHANGED vars PROVE leased' \subseteq leased
  BY <1>6 DEF Server, OtherTakes, OtherReleases, Expire, OthersUnchanged, vars, worker
<1>7. QED
  BY <1>1, <1>2, <1>3, <1>4, <1>5, <1>6 DEF Next, Worker

\* How the worker moves.
LEMMA Moves ==
  ASSUME TypeOK, [Next]_vars
  PROVE  \/ pc' = pc
         \/ Start /\ pc = "off" /\ pc' = "top"
         \/ pc' = "reject" /\ pc \notin {"reject", "clear", "off"}
         \/ Top /\ pc = "top" /\ \/ pc' = "connect" /\ ~rt.session
                                 \/ pc' = "release" /\ rt.session
         \/ Connect /\ pc = "connect" /\ pc' = "await" /\ ~rt.stop
         \/ Await /\ pc = "await" /\ pc' = "release" /\ rt.ready
         \/ pc = "edit" /\ pc' = "top"
         \/ pc = "release" /\ pc' \in {"execute", "edit"}
         \/ pc = "execute" /\ pc' = "edit"
         \/ ResetAnswers /\ pc = "reject" /\ pc' = "clear"
         \/ ResetClears /\ pc = "clear" /\ pc' \in {"top", "reject", "off"}
<1>1. CASE Answer
  BY <1>1 DEF Answer, TestSession, Enqueue, EnqueueMutation, HandOver, HandleGranted,
              HandleDenied, HandleLost, HandleResult, Request, IgnoreResult, HandleNews,
              IgnoreStale, EnterConflict, worker
<1>2. CASE User
  BY <1>2 DEF User, Ask, Request, Close, Save, SaveRefused, HandOver, MarkConflict, Resume,
              Detach, Start, worker
<1>3. CASE Worker
  <2>1. CASE \/ Stopped \/ Top \/ Connect \/ CallFails \/ Await \/ Beat
             \/ TakeMutation \/ NoMutation \/ DenyMutation \/ JournalFails
    BY <2>1 DEF Stopped, Top, Connect, CallFails, Fail, Go, Await, Beat, TakeMutation,
                NoMutation, DenyMutation, JournalFails
  <2>2. CASE Release
    BY <2>2 DEF Release, Fail, Go
  <2>3. CASE Execute \/ RefuseEdit
    BY <2>3 DEF Execute, Fail, Go, RefuseEdit
  <2>4. CASE AcquireEdit
    BY <2>4 DEF AcquireEdit, Fail, Go
  <2>5. CASE ResetAnswers \/ ResetClears
    BY <2>5 DEF ResetAnswers, ResetClears, Go
  <2>6. QED
    BY <1>3, <2>1, <2>2, <2>3, <2>4, <2>5 DEF Worker
<1>4. CASE Server \/ UNCHANGED vars
  BY <1>4 DEF Server, OtherTakes, OtherReleases, Expire, OthersUnchanged, vars, worker
<1>5. QED
  BY <1>1, <1>2, <1>3, <1>4 DEF Next

\* A database without a runtime has told its last one to stop.
LEMMA AttachedSteps ==
  ASSUME [Next]_vars, ~Detach, ~Start
  PROVE  attached' = attached
BY DEF Next, Answer, User, Worker, Server, TestSession, Enqueue, EnqueueMutation,
       HandleGranted, HandleDenied, HandleLost, HandleResult, Request, IgnoreResult,
       HandleNews, IgnoreStale, EnterConflict, Ask, Close, Save, SaveRefused, HandOver,
       MarkConflict, Resume, Stopped, Top, Connect, CallFails, Await, Beat, Release,
       TakeMutation, NoMutation, DenyMutation, JournalFails, Execute, RefuseEdit, AcquireEdit,
       ResetAnswers, ResetClears, OtherTakes, OtherReleases, Expire, OthersUnchanged, vars,
       user

\* No session has begun at first.
LEMMA CourseInit == Init => Course
<1> SUFFICES ASSUME Init PROVE Course
  OBVIOUS
<1>1. /\ pc = "top" /\ leased = {} /\ attached /\ inbox = <<>>
      /\ ~rt.session /\ ~rt.ready
  BY DEF Init, FreshRuntime
<1>2. Members(inbox) = {} /\ StartedOnce(inbox)
  BY <1>1 DEF Members, StartedOnce
<1>3. QED
  BY <1>1, <1>2 DEF Course, SessionCourse, NewsCourse, News

\* Every step follows the course.
LEMMA CourseNext ==
  ASSUME TypeOK, Course, [Next]_vars
  PROVE  Course'
<1>1. CASE HandleNews("started")
  <2>1. inbox \in Seq(Messages) /\ inbox # <<>> /\ Head(inbox).kind = "started"
        /\ inbox' = Tail(inbox)
    BY <1>1 DEF HandleNews, Receive, Receiving, TypeOK
  <2>2. Head(inbox) \in Members(inbox)
    BY <2>1, MembersType
  <2>3. News(inbox, "started")
    BY <2>1, <2>2 DEF News
  <2>4. /\ \A kind \in SessionNews : News(Tail(inbox), kind) => News(inbox, kind)
        /\ StartedOnce(Tail(inbox)) /\ ~News(Tail(inbox), "started")
    BY <2>1, NewsTail DEF Course, NewsCourse
  <2>5. UNCHANGED <<pc, leased, attached>>
    BY <1>1 DEF HandleNews, worker
  <2>6. rt'.session = rt.session /\ rt'.stop = rt.stop /\ rt'.ready
    BY <1>1, FlagsSet
  <2>7. SessionCourse'
    BY <2>3, <2>5, <2>6 DEF Course, SessionCourse, NewsCourse
  <2>8. NewsCourse'
    BY <2>1, <2>4, <2>5, <2>6 DEF Course, NewsCourse, SessionNews
  <2>9. QED
    BY <2>7, <2>8 DEF Course
<1>2. CASE Detach
  <2>1. /\ ~attached' /\ UNCHANGED <<pc, leased>>
        /\ rt'.session = rt.session /\ rt'.stop /\ rt'.ready
    BY <1>2, FlagsSet DEF Detach, worker
  <2>2. NewsKept
    <3>1. ~Connect /\ ~ResetClears
      BY <1>2 DEF Detach, Connect, ResetClears, user
    <3>2. QED
      BY <3>1, NewsSteps DEF Course, NewsCourse
  <2>3. QED
    BY <2>1, <2>2 DEF Course, SessionCourse, NewsCourse, NewsKept
<1>3. CASE Start
  <2>1. /\ attached' /\ pc = "off" /\ pc' = "top" /\ leased' = leased /\ inbox' = Outdated
        /\ ~rt'.session /\ ~rt'.ready /\ ~rt'.stop
    BY <1>3, FlagsSet DEF Start
  <2>2. leased = {}
    BY <2>1 DEF Course, SessionCourse
  <2>3. /\ ~News(Outdated, "started") /\ ~News(Outdated, "disconnected")
        /\ StartedOnce(Outdated)
    BY NewsOutdated DEF TypeOK, SessionNews
  <2>4. QED
    BY <2>1, <2>2, <2>3 DEF Course, SessionCourse, NewsCourse
<1>4. CASE Connect
  <2>1. /\ pc = "connect" /\ pc' = "await" /\ ~rt.stop /\ UNCHANGED <<leased, attached>>
        /\ inbox' = Append(Outdated, Message("started", {}))
        /\ rt'.session /\ rt'.ready = rt.ready /\ rt'.stop = rt.stop
    BY <1>4, FlagsSet DEF Connect, Go, user
  <2>2. leased = {} /\ ~rt.ready
    BY <2>1 DEF Course, SessionCourse
  <2>3. /\ ~News(inbox, "disconnected")'
        /\ StartedOnce(inbox)'
    BY <2>1, StartedAppend DEF TypeOK
  <2>4. QED
    BY <2>1, <2>2, <2>3 DEF Course, SessionCourse, NewsCourse
<1>5. CASE ResetClears
  <2> DEFINE q == IF leased = {} THEN <<>> ELSE <<Message("lost", leased)>>
             r == IF rt.failed THEN <<Message("disconnected", {})>> ELSE <<>>
  <2>1. /\ Message("lost", leased) \in Messages /\ Message("disconnected", {}) \in Messages
        /\ <<>> \in Seq(Messages) /\ Members(<<>>) = {}
    BY NewsType DEF TypeOK, SessionNews, Members
  <2>2. q \in Seq(Messages) /\ ~News(q, "started")
    <3>1. CASE leased = {}
      BY <2>1, <3>1 DEF News
    <3>2. CASE leased # {}
      <4>1. q \in Seq(Messages) /\ Members(q) = {Message("lost", leased)}
        BY <2>1, <3>2, Single
      <4>2. QED
        BY <4>1 DEF Message, News
    <3>3. QED
      BY <3>1, <3>2
  <2>3. r \in Seq(Messages) /\ ~News(r, "started")
    <3>1. CASE ~rt.failed
      BY <2>1, <3>1 DEF News
    <3>2. CASE rt.failed
      <4>1. r \in Seq(Messages) /\ Members(r) = {Message("disconnected", {})}
        BY <2>1, <3>2, Single
      <4>2. QED
        BY <4>1 DEF Message, News
    <3>3. QED
      BY <3>1, <3>2
  <2>4. inbox' = (inbox \o q) \o r /\ inbox \in Seq(Messages)
    BY <1>5 DEF ResetClears, TypeOK
  <2> HIDE DEF q, r
  <2>5. /\ pc = "clear" /\ pc' \in {"top", "reject", "off"} /\ attached' = attached
        /\ leased' = {} /\ ~rt'.session /\ ~rt'.ready /\ rt'.stop = rt.stop
    BY <1>5, FlagsSet, LeasedSteps DEF ResetClears, Go, user
  <2>6. ~News(inbox, "started") /\ StartedOnce(inbox)
    BY <2>5 DEF Course, NewsCourse
  <2>7. /\ inbox \o q \in Seq(Messages) /\ StartedOnce(inbox \o q)
        /\ ~News(inbox \o q, "started")
    BY <2>2, <2>4, <2>6, NewsConcat DEF SessionNews
  <2>8. StartedOnce((inbox \o q) \o r) /\ ~News((inbox \o q) \o r, "started")
    BY <2>3, <2>7, NewsConcat DEF SessionNews
  <2>9. QED
    BY <2>4, <2>5, <2>8 DEF Course, SessionCourse, NewsCourse
<1>6. CASE ~HandleNews("started") /\ ~Detach /\ ~Start /\ ~Connect /\ ~ResetClears
  <2>1. rt'.session = rt.session /\ rt'.ready = rt.ready /\ rt'.stop = rt.stop
    BY <1>6, FlagsKept
  <2>2. attached' = attached
    BY <1>6, AttachedSteps
  <2>3. NewsKept
    BY <1>6, NewsSteps DEF Course, NewsCourse
  <2>4. SessionCourse'
    <3>1. leased' \subseteq leased \/ pc = "edit"
      BY LeasedSteps
    <3>2. /\ pc' \in {"await", "release", "execute", "edit"} => rt.session
          /\ pc' \in {"connect", "off"} => ~rt.session
          /\ rt.session /\ pc' \notin {"await", "reject", "clear"} => rt.ready
          /\ ~rt.session => pc # "edit"
          /\ pc' = "await" => pc = "await"
      BY <1>6, Moves DEF Course, SessionCourse
    <3>3. QED
      BY <2>1, <2>2, <3>1, <3>2 DEF Course, SessionCourse
  <2>5. NewsCourse'
    <3>1. CASE pc' = "clear"
      <4>1. pc = "clear" \/ ResetAnswers
        BY <3>1, Moves
      <4>2. CASE ResetAnswers /\ rt.session
        <5> DEFINE q == Results(mutations)
                   r == Denials(edits)
        <5>1. inbox' = (Outdated \o q) \o r
          BY <4>2 DEF ResetAnswers
        <5>2. ~News(inbox, "started")'
          <6>1. q \in Seq(Messages) /\ r \in Seq(Messages) /\ Outdated \in Seq(Messages)
            BY AnswersType, OutdatedType DEF TypeOK
          <6>2. ~News(q, "started") /\ ~News(r, "started")
            BY AnswersKinds
          <6> HIDE DEF q, r
          <6>3. Outdated \o q \in Seq(Messages) /\ ~News(Outdated \o q, "started")
            BY <6>1, <6>2, NewsConcat, NewsOutdated DEF SessionNews, TypeOK
          <6>4. QED
            BY <5>1, <6>1, <6>2, <6>3, NewsConcat DEF SessionNews
        <5>3. QED
          BY <2>1, <2>3, <5>2 DEF Course, NewsCourse, NewsKept
      <4>3. QED
        BY <2>1, <2>3, <4>1, <4>2 DEF Course, NewsCourse, NewsKept
    <3>2. CASE pc' # "clear"
      BY <2>1, <2>3, <3>2 DEF Course, NewsCourse, NewsKept
    <3>3. QED
      BY <3>1, <3>2
  <2>6. QED
    BY <2>4, <2>5 DEF Course
<1>7. QED
  BY <1>1, <1>2, <1>3, <1>4, <1>5, <1>6

-----------------------------------------------------------------------------
(* What becomes of a lease. *)

\* The client may edit while it has leases, each is active, and the worker executes with
\* a session whose polls have caught up; unless a reset is due.
Working ==
  /\ leased # {} => editable \/ ResetIsDue
  /\ \A d \in leased : registry[d] = "active" \/ ResetIsDue
  /\ pc = "execute" => rt.healthy \/ ResetIsDue

\* A draft whose loss was announced never comes back.
LostIsGone == \A d \in Lost : Known(d) /\ registry[d] = "absent"

\* Somebody will give the lease of d back.
Needed(d) == Shows(d) \/ d \in Granted \/ d \in Used \/ d \in strays \/ ResetIsDue
EndsWell == \A d \in leased : Needed(d)

EndInv == IInv /\ Course /\ Working /\ LostIsGone /\ EndsWell

\* A reset that is due stays due until it has emptied the books.
LEMMA DueStays ==
  ASSUME TypeOK, Course, [Next]_vars, ResetIsDue
  PROVE  ResetIsDue' \/ (leased' = {} /\ pc' # "execute")
<1>1. rt \in Runtimes
  BY DEF TypeOK
<1>2. CASE Start \/ ResetClears
  <2>1. Start => leased = {} /\ leased' = leased /\ pc' = "top"
    BY DEF Start, Course, SessionCourse
  <2>2. ResetClears => pc' \in {"top", "reject", "off"}
    BY DEF ResetClears, Go
  <2>3. QED
    BY <1>2, <2>1, <2>2, LeasedSteps
<1>3. CASE Top
  <2>1. CASE rt.recReq /\ ~rt.session
    BY <1>3, <2>1 DEF Top, Go, Course, SessionCourse
  <2>2. CASE ~(rt.recReq /\ ~rt.session)
    BY <1>3, <2>2 DEF Top, ResetIsDue, user
  <2>3. QED
    BY <2>1, <2>2
<1>4. CASE ~Start /\ ~ResetClears /\ ~Top
  <2>1. \/ rt' = rt
        \/ rt' = [rt EXCEPT !.failed = TRUE]
        \/ rt' = [rt EXCEPT !.recReady = TRUE]
        \/ rt' = [rt EXCEPT !.healthy = FALSE, !.recReq = TRUE, !.recReady = FALSE]
        \/ rt' = [rt EXCEPT !.healthy = ~rt.recReq]
        \/ rt' = [rt EXCEPT !.healthy = FALSE, !.ready = TRUE]
        \/ rt' = [rt EXCEPT !.stop = TRUE, !.ready = TRUE]
        \/ rt' = [rt EXCEPT !.session = TRUE, !.healthy = FALSE]
    <3>1. CASE Answer
      BY <3>1 DEF Answer, TestSession, Enqueue, EnqueueMutation, HandOver, HandleGranted,
                  HandleDenied, HandleLost, HandleResult, Request, IgnoreResult, HandleNews,
                  IgnoreStale, EnterConflict
    <3>2. CASE User
      BY <1>4, <3>2 DEF User, Ask, Request, Close, Save, SaveRefused, HandOver, MarkConflict,
                        Resume, Detach
    <3>3. CASE Worker
      BY <1>4, <3>3 DEF Worker, Stopped, Connect, CallFails, Fail, Await, Beat, Release,
                        TakeMutation, NoMutation, DenyMutation, JournalFails, Execute,
                        RefuseEdit, AcquireEdit, ResetAnswers
    <3>4. CASE Server \/ UNCHANGED vars
      BY <3>4 DEF Server, OtherTakes, OtherReleases, Expire, OthersUnchanged, vars
    <3>5. QED
      BY <3>1, <3>2, <3>3, <3>4 DEF Next
  <2>2. /\ rt.failed => rt'.failed
        /\ rt.recReq => rt'.recReq
        /\ rt.stop => rt'.stop
    BY <1>1, <2>1 DEF Runtimes
  <2>3. ui = Conflict => ui' = Conflict \/ (ui' = None /\ rt'.recReq)
    <3>1. CASE EnterConflict
      BY <1>1, <3>1 DEF EnterConflict, Runtimes
    <3>2. CASE Answer /\ ~EnterConflict
      BY <3>2, NamesAssumption
         DEF Answer, TestSession, Enqueue, EnqueueMutation, HandOver, HandleGranted,
             HandleDenied, HandleLost, HandleResult, Receive, Receiving, MainThread,
             IgnoreResult, HandleNews, IgnoreStale
    <3>3. CASE User
      BY <1>4, <3>3, NamesAssumption
         DEF User, Ask, Close, Save, SaveRefused, HandOver, MarkConflict, Resume, Detach,
             MainThread
    <3>4. CASE Worker
      BY <1>4, <3>4 DEF Worker, Stopped, Connect, CallFails, Await, Beat, Release,
                        TakeMutation, NoMutation, DenyMutation, JournalFails, Execute,
                        RefuseEdit, AcquireEdit, ResetAnswers, user
    <3>5. CASE Server \/ UNCHANGED vars
      BY <3>5 DEF Server, OtherTakes, OtherReleases, Expire, OthersUnchanged, vars, user
    <3>6. QED
      BY <3>1, <3>2, <3>3, <3>4, <3>5 DEF Next
  <2>4. pc \in {"reject", "clear"} => pc' \in {"reject", "clear"}
    BY <1>4, Moves
  <2>5. QED
    BY <2>2, <2>3, <2>4 DEF ResetIsDue
<1>5. QED
  BY <1>2, <1>3, <1>4

\* While a lease exists and no reset is due, the database takes mutations.
LEMMA Undisturbed ==
  ASSUME Course, Working, leased # {}, ~ResetIsDue
  PROVE  Accepting /\ rt.ready
BY DEF Course, SessionCourse, Working, ResetIsDue, Accepting, Usable

\* How drafts that are known move in the registry.
LEMMA RegistrySteps ==
  ASSUME TypeOK, Books, [Next]_vars, NEW d \in Drafts, Known(d)
  PROVE  /\ Known(d)'
         /\ registry[d] = "absent" => registry'[d] = "absent"
         /\ d \in leased /\ d \in leased' => registry'[d] = registry[d] \/ ui' = Conflict
<1>1. asks \in [Surfaces -> Nat] /\ SurfaceOf(d) \in Surfaces /\ d[2] \in Nat
  BY BoundsAssumption, DraftParts DEF TypeOK
<1>2. ASSUME asks' = asks PROVE Known(d)'
  BY <1>2 DEF Known
<1>3. ASSUME UNCHANGED <<asks, registry>>
      PROVE  /\ Known(d)'
             /\ registry[d] = "absent" => registry'[d] = "absent"
             /\ d \in leased /\ d \in leased' => registry'[d] = registry[d] \/ ui' = Conflict
  BY <1>2, <1>3
<1>4. ASSUME NEW s \in Surfaces, NEW messages, Request(s, messages)
      PROVE  /\ Known(d)'
             /\ registry'[d] = registry[d]
  <2> DEFINE new == <<s, asks[s] + 1>>
  <2>1. asks' = [asks EXCEPT ![s] = asks[s] + 1] /\ new \in Drafts
    BY <1>4, BoundsAssumption DEF Request, TypeOK, Drafts
  <2>2. Known(d)'
    <3>1. asks[SurfaceOf(d)] <= asks'[SurfaceOf(d)] /\ asks'[SurfaceOf(d)] \in Nat
      BY <1>1, <2>1
    <3>2. QED
      BY <1>1, <3>1 DEF Known
  <2>3. d # new
    BY <1>1 DEF Known, SurfaceOf
  <2>4. registry' = registry \/ registry' = [registry EXCEPT ![new] = "pending"]
    BY <1>4 DEF Request
  <2>5. QED
    BY <2>1, <2>2, <2>3, <2>4 DEF TypeOK
<1>5. ASSUME NEW drafts, registry' = Finish(drafts), asks' = asks,
             drafts \cap leased \cap leased' = {}
      PROVE  /\ Known(d)'
             /\ registry[d] = "absent" => registry'[d] = "absent"
             /\ d \in leased /\ d \in leased' => registry'[d] = registry[d] \/ ui' = Conflict
  BY <1>2, <1>5 DEF Finish
<1>6. CASE HandleResult
  <2>1. TheDraft \in Drafts
    BY <1>6, HeadType DEF HandleResult, Receiving
  <2>2. QED
    BY <1>4, <1>6, <2>1, DraftParts DEF HandleResult
<1>7. CASE \E e \in Drafts : TestSession(e) \/ Enqueue(e) \/ EnqueueMutation(e)
  <2>1. PICK e \in Drafts : TestSession(e) \/ Enqueue(e) \/ EnqueueMutation(e)
    BY <1>7
  <2>2. CASE TestSession(e)
    <3>1. asks' = asks /\ (registry' = registry \/ registry' = Finish({e}))
      BY <2>2 DEF TestSession
    <3>2. e \notin leased
      BY <2>2 DEF TestSession, Books, Queued
    <3>3. QED
      BY <1>3, <1>5, <3>1, <3>2
  <2>3. CASE Enqueue(e) \/ EnqueueMutation(e)
    BY <1>3, <2>3 DEF Enqueue, EnqueueMutation, HandOver
  <2>4. QED
    BY <2>1, <2>2, <2>3
<1>8. CASE \/ HandleGranted \/ HandleDenied \/ HandleLost \/ IgnoreResult \/ IgnoreStale
           \/ EnterConflict \/ \E kind \in SessionNews : HandleNews(kind)
  BY <1>3, <1>8 DEF HandleGranted, HandleDenied, HandleLost, IgnoreResult, IgnoreStale,
                    EnterConflict, HandleNews
<1>9. ASSUME NEW s \in Surfaces, Ask(s) \/ Close(s) \/ Save(s) \/ SaveRefused(s)
      PROVE  /\ Known(d)'
             /\ registry[d] = "absent" => registry'[d] = "absent"
             /\ d \in leased /\ d \in leased' => registry'[d] = registry[d] \/ ui' = Conflict
  <2>1. CASE Ask(s)
    BY <1>4, <2>1 DEF Ask
  <2>2. CASE Close(s) \/ Save(s) \/ SaveRefused(s)
    BY <1>3, <2>2 DEF Close, Save, SaveRefused, HandOver
  <2>3. QED
    BY <1>9, <2>1, <2>2
<1>10. CASE \E e \in Drafts : MarkConflict(e)
  BY <1>2, <1>10 DEF MarkConflict, Registered, TypeOK
<1>11. CASE Resume \/ Detach \/ Start
  BY <1>3, <1>11 DEF Resume, Detach, Start
<1>12. CASE \/ Stopped \/ Top \/ Connect \/ CallFails \/ Await \/ Beat
            \/ TakeMutation \/ NoMutation \/ DenyMutation \/ JournalFails
  BY <1>3, <1>12 DEF Stopped, Top, Connect, CallFails, Await, Beat, TakeMutation, NoMutation,
                     DenyMutation, JournalFails, user
<1>13. ASSUME NEW drafts, Forget(drafts), asks' = asks
       PROVE  /\ Known(d)'
              /\ registry[d] = "absent" => registry'[d] = "absent"
              /\ d \in leased /\ d \in leased' => registry'[d] = registry[d] \/ ui' = Conflict
  BY <1>5, <1>13 DEF Forget
<1>14. CASE Release
  <2>1. asks' = asks /\ (registry' = registry \/ Forget({Head(releases)}))
    BY <1>14 DEF Release, user
  <2>2. QED
    BY <1>3, <1>13, <2>1
<1>15. CASE Execute \/ ResetClears
  <2>1. asks' = asks /\ \E drafts : Forget(drafts)
    BY <1>15 DEF Execute, ResetClears, user
  <2>2. QED
    BY <1>13, <2>1
<1>16. CASE RefuseEdit \/ AcquireEdit
  <2>1. asks' = asks /\ edits # <<>>
    BY <1>16 DEF RefuseEdit, AcquireEdit, user
  <2>2. Head(edits) \in Drafts /\ Head(edits) \notin leased /\ registry[Head(edits)] # "absent"
    <3>1. Head(edits) \in Members(edits) /\ Head(edits) \in Drafts
      BY <2>1, MembersType DEF TypeOK
    <3>2. QED
      BY <3>1 DEF Books, Queued, Registered
  <2>3. registry' = Finish({Head(edits)}) \/ registry' = [registry EXCEPT ![Head(edits)] = "active"]
    BY <1>16 DEF RefuseEdit, AcquireEdit, Deny
  <2>4. CASE registry' = [registry EXCEPT ![Head(edits)] = "active"]
    BY <1>2, <2>1, <2>2, <2>4 DEF TypeOK
  <2>5. QED
    BY <1>5, <2>1, <2>2, <2>3, <2>4
<1>17. CASE ResetAnswers
  <2>1. asks' = asks /\ registry' = Finish(Members(edits))
    BY <1>17 DEF ResetAnswers, user
  <2>2. Members(edits) \cap leased = {}
    BY DEF Books, Queued
  <2>3. QED
    BY <1>5, <2>1, <2>2
<1>18. CASE Server \/ UNCHANGED vars
  BY <1>3, <1>18 DEF Server, OtherTakes, OtherReleases, Expire, OthersUnchanged, vars, user
<1>19. QED
  BY <1>6, <1>7, <1>8, <1>9, <1>10, <1>11, <1>12, <1>14, <1>15, <1>16, <1>17, <1>18
     DEF Next, Answer, User, Worker

-----------------------------------------------------------------------------
(* Working: the client and its worker. *)

\* Only news of the session, a conflict, a recovery, a detach or a start end the client's
\* right to edit.
LEMMA EditableSteps ==
  ASSUME [Next]_vars, editable, ~editable'
  PROVE  \/ HandleNews("started") \/ HandleNews("disconnected")
         \/ EnterConflict \/ Resume \/ Detach \/ Start
<1>1. ASSUME editable' = editable PROVE FALSE
  BY <1>1
<1>2. CASE \E kind \in SessionNews : HandleNews(kind)
  <2>1. PICK kind \in SessionNews : HandleNews(kind)
    BY <1>2
  <2>2. kind # "restored"
    BY <2>1 DEF HandleNews
  <2>3. QED
    BY <2>1, <2>2 DEF SessionNews
<1>3. CASE Answer /\ ~(\E kind \in SessionNews : HandleNews(kind)) /\ ~EnterConflict
  BY <1>1, <1>3 DEF Answer, TestSession, Enqueue, EnqueueMutation, HandOver, HandleGranted,
                    HandleDenied, HandleLost, HandleResult, Request, IgnoreResult, IgnoreStale
<1>4. CASE User /\ ~Resume /\ ~Detach /\ ~Start
  BY <1>1, <1>4 DEF User, Ask, Request, Close, Save, SaveRefused, HandOver, MarkConflict
<1>5. CASE Worker
  <2>1. editable' = editable
    BY <1>5 DEF Worker, Stopped, Top, Connect, CallFails, Await, Beat, Release, TakeMutation,
                NoMutation, DenyMutation, JournalFails, Execute, RefuseEdit, AcquireEdit,
                ResetAnswers, ResetClears, user
  <2>2. QED
    BY <1>1, <2>1
<1>6. CASE Server \/ UNCHANGED vars
  BY <1>1, <1>6 DEF Server, OtherTakes, OtherReleases, Expire, OthersUnchanged, vars, user
<1>7. QED
  BY <1>2, <1>3, <1>4, <1>5, <1>6 DEF Next

\* The polls of a worker that executes stay caught up, but for a new session or a conflict.
LEMMA HealthySteps ==
  ASSUME TypeOK, [Next]_vars, pc = "execute", pc' = "execute",
         ~HandleNews("started"), ~EnterConflict
  PROVE  rt'.healthy = rt.healthy
<1>1. \/ rt' = rt
      \/ rt' = [rt EXCEPT !.recReady = TRUE]
      \/ rt' = [rt EXCEPT !.stop = TRUE, !.ready = TRUE]
  <2>1. CASE Answer
    BY <2>1 DEF Answer, TestSession, Enqueue, EnqueueMutation, HandOver, HandleGranted,
                HandleDenied, HandleLost, HandleResult, Request, IgnoreResult, HandleNews,
                IgnoreStale
  <2>2. CASE User
    BY <2>2 DEF User, Ask, Request, Close, Save, SaveRefused, HandOver, MarkConflict, Resume,
                Detach, Start
  <2>3. CASE Worker
    BY <2>3 DEF Worker, Stopped, Top, Connect, CallFails, Fail, Go, Await, Beat, Release,
                TakeMutation, NoMutation, DenyMutation, JournalFails, Execute, RefuseEdit,
                AcquireEdit, ResetAnswers, ResetClears
  <2>4. CASE Server \/ UNCHANGED vars
    BY <2>4 DEF Server, OtherTakes, OtherReleases, Expire, OthersUnchanged, vars
  <2>5. QED
    BY <2>1, <2>2, <2>3, <2>4 DEF Next
<1>2. rt \in Runtimes
  BY DEF TypeOK
<1>3. QED
  BY <1>1, <1>2 DEF Runtimes

\* A lease comes into the books by a grant, for a draft at the head of the queue.
LEMMA NewLease ==
  ASSUME TypeOK, [Next]_vars, NEW d \in leased', d \notin leased
  PROVE  /\ AcquireEdit /\ edits # <<>> /\ d = Head(edits) /\ d \in Drafts /\ editable
         /\ editable' = editable
         /\ registry' = [registry EXCEPT ![d] = "active"]
         /\ Post("granted", d)
<1>1. AcquireEdit
  BY LeasedSteps
<1>2. edits # <<>> /\ edits \in Seq(Drafts)
  BY <1>1 DEF AcquireEdit, TypeOK
<1>3. Head(edits) \in Drafts
  BY <1>2
<1>4. leased' # leased
  OBVIOUS
<1>5. /\ leased' = leased \cup {Head(edits)} /\ Post("granted", Head(edits))
      /\ registry' = [registry EXCEPT ![Head(edits)] = "active"]
  BY <1>1, <1>4 DEF AcquireEdit, Deny
<1>6. editable /\ editable' = editable
  BY <1>1 DEF AcquireEdit, Refusable, user
<1>7. QED
  BY <1>1, <1>2, <1>3, <1>5, <1>6

\* The message at the head of the inbox is news.
LEMMA HandledNews ==
  ASSUME TypeOK, NEW kind \in SessionNews, HandleNews(kind)
  PROVE  News(inbox, kind)
<1>1. inbox # <<>> /\ Head(inbox).kind = kind
  BY DEF HandleNews, Receive, Receiving
<1>2. Head(inbox) \in Members(inbox)
  BY <1>1, MembersType DEF TypeOK
<1>3. QED
  BY <1>1, <1>2 DEF News

\* Every step lets the client and its worker work on.
LEMMA WorkingNext ==
  ASSUME TypeOK, Books, Course, Working, [Next]_vars
  PROVE  Working'
<1>1. CASE ResetIsDue
  BY <1>1, DueStays DEF Working
<1>2. CASE ResetIsDue'
  BY <1>2 DEF Working
<1>3. CASE ~ResetIsDue /\ ~ResetIsDue'
  <2>1. ASSUME NEW d \in leased, leased' # {} PROVE editable'
    <3>1. Accepting /\ rt.ready /\ rt.session /\ ~rt.stop /\ editable
      BY <1>3, Undisturbed DEF Accepting, Usable
    <3>2. ~HandleNews("started") /\ ~HandleNews("disconnected")
      BY <3>1, HandledNews DEF Course, NewsCourse, SessionNews
    <3>3. ~EnterConflict /\ ~Resume
      BY <1>3 DEF EnterConflict, Resume, ResetIsDue
    <3>4. ~Detach
      BY <1>3, FlagsSet DEF ResetIsDue
    <3>5. ~Start
      BY <3>1 DEF Start, Course, SessionCourse
    <3>6. QED
      BY <3>1, <3>2, <3>3, <3>4, <3>5, EditableSteps
  <2>2. ASSUME NEW d \in leased', d \notin leased PROVE editable'
    BY <2>2, NewLease
  <2>3. leased' # {} => editable'
    BY <2>1, <2>2
  <2>4. ASSUME NEW d \in leased' PROVE registry'[d] = "active"
    <3>1. CASE d \in leased
      <4>1. d \in Drafts /\ Known(d) /\ registry[d] = "active"
        BY <1>3, <3>1 DEF Working, Books, TypeOK
      <4>2. ui' # Conflict
        BY <1>3 DEF ResetIsDue
      <4>3. QED
        BY <2>4, <3>1, <4>1, <4>2, RegistrySteps
    <3>2. CASE d \notin leased
      <4>1. d \in Drafts /\ registry' = [registry EXCEPT ![d] = "active"]
        BY <2>4, <3>2, NewLease
      <4>2. QED
        BY <4>1 DEF TypeOK
    <3>3. QED
      BY <3>1, <3>2
  <2>5. ASSUME pc' = "execute" PROVE rt'.healthy
    <3>1. pc = "execute" \/ pc = "release"
      BY <2>5, Moves
    <3>2. CASE pc = "release"
      <4>1. TakeMutation
        <5>1. pc' # pc
          BY <2>5, <3>2
        <5>2. ~Answer /\ ~User /\ ~Server /\ vars' # vars
          BY <3>2, <5>1
             DEF Answer, TestSession, Enqueue, EnqueueMutation, HandOver, HandleGranted,
                 HandleDenied, HandleLost, HandleResult, Request, IgnoreResult, HandleNews,
                 IgnoreStale, EnterConflict, User, Ask, Close, Save, SaveRefused, HandOver,
                 MarkConflict, Resume, Detach, Start, Server, OtherTakes, OtherReleases,
                 Expire, OthersUnchanged, vars, worker
        <5>3. QED
          BY <2>5, <3>2, <5>2
             DEF Next, Worker, Stopped, Top, Connect, CallFails, Fail, Go, Await, Beat, Release,
                 NoMutation, DenyMutation, JournalFails, Execute, RefuseEdit, AcquireEdit,
                 ResetAnswers, ResetClears
      <4>2. QED
        BY <4>1 DEF TakeMutation
    <3>3. CASE pc = "execute"
      <4>1. rt.healthy /\ rt.session /\ rt.ready /\ ~rt.stop
        BY <1>3, <3>3 DEF Working, Course, SessionCourse, ResetIsDue
      <4>2. ~HandleNews("started")
        BY <4>1, HandledNews DEF Course, NewsCourse, SessionNews
      <4>3. ~EnterConflict
        BY <1>3 DEF EnterConflict, ResetIsDue
      <4>4. QED
        BY <2>5, <3>3, <4>1, <4>2, <4>3, HealthySteps
    <3>4. QED
      BY <3>1, <3>2, <3>3
  <2>6. QED
    BY <2>3, <2>4, <2>5 DEF Working
<1>4. QED
  BY <1>1, <1>2, <1>3

-----------------------------------------------------------------------------
(* LostIsGone, and what surfaces and queues do with a draft. *)

\* The drafts of two queues of messages, one after the other.
LEMMA DraftsConcat ==
  ASSUME NEW q \in Seq(Messages), NEW r \in Seq(Messages), NEW kind
  PROVE  DraftsOf(q \o r, kind) = DraftsOf(q, kind) \cup DraftsOf(r, kind)
<1>1. Members(q \o r) = Members(q) \cup Members(r)
  BY MembersConcat
<1>2. QED
  BY <1>1 DEF DraftsOf

\* A grant is in the inbox until it is handled, and only a reset announces a loss.
LEMMA DraftsSteps ==
  ASSUME TypeOK, [Next]_vars, ~ResetClears
  PROVE  /\ ~HandleGranted => Granted \subseteq Granted'
         /\ HandleGranted => Granted \subseteq Granted' \cup {TheDraft}
         /\ Lost' \subseteq Lost
<1>1. /\ inbox \in Seq(Messages) /\ Outdated \in Seq(Messages)
      /\ DraftsOf(Outdated, "granted") = Granted /\ DraftsOf(Outdated, "lost") = Lost
  BY OutdatedType, QuietOutdated DEF TypeOK, Granted, Lost
<1>2. CASE Connect
  <2> DEFINE m == Message("started", {})
  <2>1. m \in Messages /\ m.kind = "started" /\ inbox' = Append(Outdated, m) /\ ~HandleGranted
    BY <1>2, NewsType DEF SessionNews, Message, Connect, user, HandleGranted, Receive,
                         Receiving, queues, worker, Go, TypeOK
  <2> HIDE DEF m
  <2>2. /\ DraftsOf(Append(Outdated, m), "granted") = Granted
        /\ DraftsOf(Append(Outdated, m), "lost") = Lost
    BY <1>1, <2>1, DraftsAppend
  <2>3. QED
    BY <2>1, <2>2 DEF Granted, Lost
<1>3. CASE ~Connect
  <2>1. PICK base \in Seq(Messages), q \in Seq(Messages) :
          /\ inbox' = base \o q
          /\ \A m \in Members(q) : m.kind \notin {"started", "disconnected", "lost"}
          /\ \/ base = inbox \/ base = Outdated
             \/ /\ inbox # <<>> /\ base = Tail(inbox)
                /\ Head(inbox).kind = "granted" => HandleGranted
    BY <1>3, InboxSteps DEF InboxMoves
  <2>2. /\ Granted' = DraftsOf(base, "granted") \cup DraftsOf(q, "granted")
        /\ Lost' = DraftsOf(base, "lost") \cup DraftsOf(q, "lost")
    BY <2>1, DraftsConcat DEF Granted, Lost
  <2>3. DraftsOf(q, "lost") = {}
    BY <2>1 DEF DraftsOf
  <2>4. CASE base = inbox \/ base = Outdated
    BY <1>1, <2>2, <2>3, <2>4 DEF Granted, Lost
  <2>5. CASE inbox # <<>> /\ base = Tail(inbox) /\ (Head(inbox).kind = "granted" => HandleGranted)
    <3>1. Lost' \subseteq Lost
      <4>1. DraftsOf(Tail(inbox), "lost") \subseteq DraftsOf(inbox, "lost")
        <5>1. Members(Tail(inbox)) \subseteq Members(inbox)
          BY <1>1, <2>5, MembersType
        <5>2. QED
          BY <5>1 DEF DraftsOf
      <4>2. QED
        BY <2>2, <2>3, <2>5, <4>1 DEF Lost
    <3>2. Head(inbox).kind # "granted" => Granted \subseteq Granted'
      BY <1>1, <2>2, <2>5, DraftsTail DEF Granted
    <3>3. ASSUME HandleGranted PROVE Granted \subseteq Granted' \cup {TheDraft}
      <4>1. Head(inbox).kind = "granted" /\ Head(inbox).drafts = {TheDraft}
        BY <2>5, <3>3, HeadType DEF HandleGranted, Receive, Receiving
      <4>2. DraftsOf(inbox, "granted") = DraftsOf(Tail(inbox), "granted") \cup {TheDraft}
        BY <1>1, <2>5, <4>1, DraftsTail
      <4>3. QED
        BY <2>2, <2>5, <4>2 DEF Granted
    <3>4. QED
      BY <2>5, <3>1, <3>2, <3>3
  <2>6. QED
    BY <2>1, <2>4, <2>5
<1>4. QED
  BY <1>2, <1>3

\* What a reset announces lost is what was leased.
LEMMA LostByReset ==
  ASSUME TypeOK, ResetClears
  PROVE  Lost' \subseteq Lost \cup leased
<1> DEFINE q == IF leased = {} THEN <<>> ELSE <<Message("lost", leased)>>
           r == IF rt.failed THEN <<Message("disconnected", {})>> ELSE <<>>
<1>1. /\ Message("lost", leased) \in Messages /\ Message("disconnected", {}) \in Messages
      /\ <<>> \in Seq(Messages) /\ Members(<<>>) = {}
  BY NewsType DEF TypeOK, SessionNews, Members
<1>2. q \in Seq(Messages) /\ DraftsOf(q, "lost") \subseteq leased
  <2>1. CASE leased = {}
    BY <1>1, <2>1 DEF DraftsOf
  <2>2. CASE leased # {}
    <3>1. q \in Seq(Messages) /\ Members(q) = {Message("lost", leased)}
      BY <1>1, <2>2, Single
    <3>2. QED
      BY <3>1 DEF Message, DraftsOf
  <2>3. QED
    BY <2>1, <2>2
<1>3. r \in Seq(Messages) /\ DraftsOf(r, "lost") = {}
  <2>1. CASE ~rt.failed
    BY <1>1, <2>1 DEF DraftsOf
  <2>2. CASE rt.failed
    <3>1. r \in Seq(Messages) /\ Members(r) = {Message("disconnected", {})}
      BY <1>1, <2>2, Single
    <3>2. QED
      BY <3>1 DEF Message, DraftsOf
  <2>3. QED
    BY <2>1, <2>2
<1>4. inbox' = (inbox \o q) \o r /\ inbox \in Seq(Messages)
  BY DEF ResetClears, TypeOK
<1> HIDE DEF q, r
<1>5. inbox \o q \in Seq(Messages) /\ DraftsOf(inbox \o q, "lost") \subseteq Lost \cup leased
  BY <1>2, <1>4, DraftsConcat DEF Lost
<1>6. DraftsOf((inbox \o q) \o r, "lost")
        = DraftsOf(inbox \o q, "lost") \cup DraftsOf(r, "lost")
  BY <1>3, <1>5, DraftsConcat
<1>7. QED
  BY <1>3, <1>4, <1>5, <1>6 DEF Lost

\* No step brings back a draft whose loss was announced.
LEMMA LostIsGoneNext ==
  ASSUME TypeOK, Books, LostIsGone, [Next]_vars
  PROVE  LostIsGone'
<1> SUFFICES ASSUME NEW d \in Lost' PROVE Known(d)' /\ registry'[d] = "absent"
  BY DEF LostIsGone
<1>1. Lost \subseteq Drafts
  <2>1. Members(inbox) \subseteq Messages
    BY MembersType DEF TypeOK
  <2>2. QED
    BY <2>1 DEF Lost, DraftsOf, Messages, SessionNews
<1>2. CASE d \in Lost
  BY <1>1, <1>2, RegistrySteps DEF LostIsGone
<1>3. CASE d \notin Lost
  <2>1. ResetClears /\ d \in leased /\ d \in Drafts
    BY <1>3, DraftsSteps, LostByReset DEF TypeOK
  <2>2. Known(d)
    BY <2>1 DEF Books
  <2>3. registry'[d] = "absent"
    BY <2>1 DEF ResetClears, Forget, Finish
  <2>4. QED
    BY <2>1, <2>2, <2>3, RegistrySteps
<1>4. QED
  BY <1>2, <1>3

\* A surface stops showing a lease because it closes, saves or hears of its loss.
LEMMA ShowsSteps ==
  ASSUME TypeOK, [Next]_vars, NEW d \in Drafts, Shows(d), ~Shows(d)'
  PROVE  LET s == SurfaceOf(d)
         IN  \/ Close(s) \/ SaveRefused(s) \/ (HandleLost /\ d \in Head(inbox).drafts)
             \/ \E e \in Drafts : EnqueueMutation(e) /\ SurfaceOf(e) = s
<1> DEFINE s == SurfaceOf(d)
<1>1. s \in Surfaces /\ surface[s].phase = "shown" /\ surface[s].draft = d
  BY DraftParts DEF Shows
<1>2. ASSUME surface'[s] = surface[s] PROVE FALSE
  BY <1>2 DEF Shows
<1>3. ASSUME NEW t \in Surfaces, NEW messages, Request(t, messages), surface[t].phase # "shown"
      PROVE  FALSE
  BY <1>1, <1>2, <1>3 DEF Request, TypeOK
<1>4. CASE HandleGranted
  <2>1. TheDraft \in Drafts
    BY <1>4, HeadType DEF HandleGranted, Receive, Receiving
  <2>2. SurfaceOf(TheDraft) = s => ~Expected(TheDraft)
    BY <1>1 DEF Expected
  <2>3. surface'[s] = surface[s]
    BY <1>1, <1>4, <2>1, <2>2 DEF HandleGranted, TypeOK
  <2>4. QED
    BY <1>2, <2>3
<1>5. CASE HandleDenied \/ IgnoreResult
  BY <1>1, <1>2, <1>5 DEF HandleDenied, IgnoreResult, Expected, Saved
<1>6. CASE HandleResult
  <2>1. TheDraft \in Drafts /\ surface[SurfaceOf(TheDraft)].phase = "saving"
    BY <1>6, HeadType DEF HandleResult, Receiving, Saved
  <2>2. QED
    BY <1>3, <1>6, <2>1, DraftParts DEF HandleResult
<1>7. CASE HandleLost
  BY <1>1, <1>2, <1>7 DEF HandleLost
<1>8. CASE \/ IgnoreStale \/ EnterConflict \/ \E kind \in SessionNews : HandleNews(kind)
           \/ \E e \in Drafts : TestSession(e) \/ Enqueue(e)
  BY <1>2, <1>8 DEF IgnoreStale, EnterConflict, HandleNews, TestSession, Enqueue
<1>9. ASSUME NEW t \in Surfaces, Ask(t) \/ Close(t) \/ Save(t) \/ SaveRefused(t)
      PROVE  Close(s) \/ SaveRefused(s)
  <2>1. CASE Ask(t)
    BY <1>3, <2>1 DEF Ask
  <2>2. CASE Save(t) \/ (t # s /\ (Close(t) \/ SaveRefused(t)))
    BY <1>1, <1>2, <2>2 DEF Close, Save, SaveRefused, HandOver, TypeOK
  <2>3. QED
    BY <1>9, <2>1, <2>2
<1>10. CASE \/ Resume \/ Detach \/ Start \/ \E e \in Drafts : MarkConflict(e)
  BY <1>2, <1>10 DEF Resume, Detach, Start, MarkConflict
<1>11. CASE Worker \/ Server \/ UNCHANGED vars
  <2>1. surface' = surface
    BY <1>11 DEF Worker, Stopped, Top, Connect, CallFails, Await, Beat, Release, TakeMutation,
                 NoMutation, DenyMutation, JournalFails, Execute, RefuseEdit, AcquireEdit,
                 ResetAnswers, ResetClears, Server, OtherTakes, OtherReleases, Expire,
                 OthersUnchanged, vars, user
  <2>2. QED
    BY <1>2, <2>1
<1>12. ASSUME NEW e \in Drafts, EnqueueMutation(e)
       PROVE  SurfaceOf(e) = s
  BY <1>1, <1>2, <1>12 DEF EnqueueMutation, HandOver, TypeOK
<1>13. QED
  BY <1>4, <1>5, <1>6, <1>7, <1>8, <1>9, <1>10, <1>11, <1>12 DEF Next, Answer, User

\* A draft that is given up stays so until the worker takes it.
LEMMA UsedSteps ==
  ASSUME TypeOK, [Next]_vars, NEW d \in Used, d \notin Used'
  PROVE  \/ Release /\ d = Head(releases)
         \/ (DenyMutation \/ JournalFails \/ Execute) /\ d = held
         \/ Start \/ ResetAnswers
<1>1. /\ releases \in Seq(Drafts) /\ mutations \in Seq(Drafts) /\ None \notin Drafts
      /\ held = None => {held} \ {None} = {}
  BY NamesAssumption DEF TypeOK
<1>2. ASSUME \/ releases' = releases
             \/ \E e \in Drafts : releases' = Append(releases, e),
             \/ mutations' = mutations
             \/ \E e \in Drafts : mutations' = Append(mutations, e),
             held' = held
      PROVE  FALSE
  <2>1. Members(releases) \subseteq Members(releases)'
    <3>1. ASSUME NEW e \in Drafts, releases' = Append(releases, e)
          PROVE  Members(releases) \subseteq Members(releases')
      <4>1. Members(Append(releases, e)) = Members(releases) \cup {e}
        BY <1>1, MembersType
      <4>2. QED
        BY <3>1, <4>1
    <3>2. QED
      BY <1>2, <3>1 DEF Members
  <2>2. Members(mutations) \subseteq Members(mutations)'
    <3>1. ASSUME NEW e \in Drafts, mutations' = Append(mutations, e)
          PROVE  Members(mutations) \subseteq Members(mutations')
      <4>1. Members(Append(mutations, e)) = Members(mutations) \cup {e}
        BY <1>1, MembersType
      <4>2. QED
        BY <3>1, <4>1
    <3>2. QED
      BY <1>2, <3>1 DEF Members
  <2>3. QED
    BY <1>2, <2>1, <2>2 DEF Used
<1>3. CASE HandleGranted
  <2>1. TheDraft \in Drafts
    BY <1>3, HeadType DEF HandleGranted, Receive, Receiving
  <2>2. QED
    BY <1>2, <1>3, <2>1 DEF HandleGranted, EndLease, worker
<1>4. CASE Answer /\ ~HandleGranted
  BY <1>2, <1>4 DEF Answer, TestSession, Enqueue, EnqueueMutation, HandOver, HandleDenied,
                    HandleLost, HandleResult, Request, IgnoreResult, HandleNews, IgnoreStale,
                    EnterConflict, worker, queues
<1>5. ASSUME NEW s \in Surfaces, Ask(s) \/ Close(s) \/ Save(s) \/ SaveRefused(s)
      PROVE  FALSE
  <2>1. CASE Ask(s)
    BY <1>2, <2>1 DEF Ask, Request, worker, queues
  <2>2. CASE Close(s)
    <3>1. surface[s].draft \in Drafts
      BY <2>2, ShownType DEF Close
    <3>2. QED
      BY <1>2, <2>2, <3>1 DEF Close, EndLease, worker
  <2>3. CASE Save(s) \/ SaveRefused(s)
    BY <1>2, <2>3 DEF Save, SaveRefused, HandOver, worker, queues
  <2>4. QED
    BY <1>5, <2>1, <2>2, <2>3
<1>6. CASE Resume \/ Detach \/ \E e \in Drafts : MarkConflict(e)
  BY <1>2, <1>6 DEF Resume, Detach, MarkConflict, worker, queues
<1>7. CASE \/ Stopped \/ Top \/ Connect \/ CallFails \/ Await \/ Beat \/ NoMutation
           \/ RefuseEdit \/ AcquireEdit \/ ResetClears
  BY <1>2, <1>7 DEF Stopped, Top, Connect, CallFails, Await, Beat, NoMutation, RefuseEdit,
                    AcquireEdit, ResetClears, queues
<1>8. CASE Release
  <2>1. releases # <<>> /\ releases' = Tail(releases) /\ UNCHANGED <<mutations, held>>
    BY <1>8 DEF Release
  <2>2. Members(releases) = {Head(releases)} \cup Members(releases)'
    BY <1>1, <2>1, MembersType
  <2>3. QED
    BY <1>8, <2>1, <2>2 DEF Used
<1>9. CASE TakeMutation
  <2>1. /\ mutations # <<>> /\ mutations' = Tail(mutations) /\ held' = Head(mutations)
        /\ held = None /\ releases' = releases
    BY <1>9 DEF TakeMutation, TypeOK
  <2>2. /\ Members(mutations) = {Head(mutations)} \cup Members(mutations)'
        /\ Head(mutations) \in Drafts
    BY <1>1, <2>1, MembersType
  <2>3. QED
    BY <1>1, <2>1, <2>2 DEF Used
<1>10. CASE DenyMutation \/ JournalFails \/ Execute
  <2>1. UNCHANGED <<releases, mutations>>
    BY <1>10 DEF DenyMutation, JournalFails, Execute, queues
  <2>2. QED
    BY <1>10, <2>1 DEF Used
<1>11. CASE Server \/ UNCHANGED vars
  BY <1>2, <1>11 DEF Server, OtherTakes, OtherReleases, Expire, OthersUnchanged, vars, worker,
                     queues
<1>12. QED
  BY <1>3, <1>4, <1>5, <1>6, <1>7, <1>8, <1>9, <1>10, <1>11 DEF Next, User, Worker

-----------------------------------------------------------------------------
(* EndsWell: each lease has somebody who will give it back. *)

\* A refused mutation leaves its draft behind for good.
LEMMA StraysSteps == [Next]_vars => strays \subseteq strays'
<1> SUFFICES ASSUME [Next]_vars PROVE strays \subseteq strays'
  OBVIOUS
<1>1. CASE strays' = strays
  BY <1>1
<1>2. CASE \E s \in Surfaces : SaveRefused(s)
  BY <1>2 DEF SaveRefused
<1>3. CASE Answer
  BY <1>1, <1>3 DEF Answer, TestSession, Enqueue, EnqueueMutation, HandOver, HandleGranted,
                    HandleDenied, HandleLost, HandleResult, Request, IgnoreResult, HandleNews,
                    IgnoreStale, EnterConflict
<1>4. CASE User
  BY <1>1, <1>2, <1>4 DEF User, Ask, Request, Close, Save, MarkConflict, Resume, Detach, Start
<1>5. CASE Worker
  BY <1>1, <1>5 DEF Worker, Stopped, Top, Connect, CallFails, Await, Beat, Release,
                    TakeMutation, NoMutation, DenyMutation, JournalFails, Execute, RefuseEdit,
                    AcquireEdit, ResetAnswers, ResetClears
<1>6. CASE Server \/ UNCHANGED vars
  BY <1>1, <1>6 DEF Server, OtherTakes, OtherReleases, Expire, OthersUnchanged, vars
<1>7. QED
  BY <1>3, <1>4, <1>5, <1>6 DEF Next

\* A lease that is shown goes on to be given up, or its draft is left behind.
LEMMA ShownGoesOn ==
  ASSUME EndInv, [Next]_vars, ~ResetIsDue, NEW d \in leased, Shows(d)
  PROVE  Shows(d)' \/ d \in Used' \/ d \in strays'
<1>1. TypeOK /\ d \in Drafts /\ d \notin Lost /\ Accepting
  <2>1. registry[d] # "absent"
    BY DEF EndInv, IInv, Books, Registered
  <2>2. QED
    BY <2>1, Undisturbed DEF EndInv, IInv, LostIsGone, TypeOK
<1>2. SurfaceOf(d) \in Surfaces /\ surface[SurfaceOf(d)] = [phase |-> "shown", draft |-> d]
  BY <1>1, DraftParts DEF Shows
<1>3. releases \in Seq(Drafts) /\ mutations \in Seq(Drafts) /\ inbox \in Seq(Messages)
  BY <1>1 DEF TypeOK
<1>4. CASE Close(SurfaceOf(d))
  <2>1. releases' = Append(releases, d)
    BY <1>1, <1>2, <1>4 DEF Close, EndLease, Accepting
  <2>2. QED
    BY <1>1, <1>3, <2>1, MembersType DEF Used
<1>5. ASSUME NEW e \in Drafts, EnqueueMutation(e), SurfaceOf(e) = SurfaceOf(d)
      PROVE  d \in Used'
  <2>1. Shows(e)
    BY <1>5, NamesAssumption DEF EndInv, IInv, Promised, EnqueueMutation
  <2>2. e = d
    BY <1>2, <1>5, <2>1 DEF Shows
  <2>3. mutations' = Append(mutations, d)
    BY <1>5, <2>2 DEF EnqueueMutation
  <2>4. QED
    BY <1>1, <1>3, <2>3, MembersType DEF Used
<1>6. CASE SaveRefused(SurfaceOf(d))
  BY <1>1, <1>2, <1>6 DEF SaveRefused
<1>7. CASE HandleLost /\ d \in Head(inbox).drafts
  <2>1. Head(inbox) \in Members(inbox) /\ Head(inbox).kind = "lost"
    BY <1>3, <1>7, MembersType DEF HandleLost, Receive, Receiving
  <2>2. QED
    BY <1>1, <1>7, <2>1 DEF Lost, DraftsOf
<1>8. QED
  BY <1>1, <1>4, <1>5, <1>6, <1>7, ShowsSteps

\* A lease that is granted goes on to be shown, or is given back.
LEMMA GrantedGoesOn ==
  ASSUME EndInv, [Next]_vars, ~ResetIsDue, ~ResetClears, NEW d \in leased, d \in Granted
  PROVE  d \in Granted' \/ Shows(d)' \/ d \in Used'
<1>1. TypeOK /\ d \in Drafts /\ attached
  BY Undisturbed DEF EndInv, IInv, TypeOK, Accepting
<1>2. CASE ~HandleGranted
  BY <1>1, <1>2, DraftsSteps
<1>3. CASE HandleGranted /\ d # TheDraft
  BY <1>1, <1>3, DraftsSteps
<1>4. CASE HandleGranted /\ d = TheDraft /\ Expected(d)
  <2>1. SurfaceOf(d) \in Surfaces /\ surface[SurfaceOf(d)] = [phase |-> "asking", draft |-> d]
    BY <1>1, <1>4, DraftParts DEF Expected
  <2>2. surface'[SurfaceOf(d)] = [surface[SurfaceOf(d)] EXCEPT !.phase = "shown"]
    BY <1>1, <1>4, <2>1 DEF HandleGranted, TypeOK
  <2>3. QED
    BY <2>1, <2>2 DEF Shows
<1>5. CASE HandleGranted /\ d = TheDraft /\ ~Expected(d)
  <2>1. releases' = Append(releases, d) /\ releases \in Seq(Drafts)
    BY <1>1, <1>5 DEF HandleGranted, EndLease, TypeOK
  <2>2. QED
    BY <1>1, <2>1, MembersType DEF Used
<1>6. QED
  BY <1>2, <1>3, <1>4, <1>5

\* A lease that is given up stays so until it is gone.
LEMMA UsedGoesOn ==
  ASSUME EndInv, [Next]_vars, ~ResetIsDue, NEW d \in leased, d \in Used, d \in leased'
  PROVE  d \in Used' \/ ResetIsDue'
<1>1. /\ TypeOK /\ d \in Drafts /\ Accepting
      /\ registry[d] = "active" /\ Held(d)
  BY Undisturbed DEF EndInv, IInv, Working, Handles, Owners, Held, TypeOK
<1>2. CASE Release /\ d = Head(releases)
  <2>1. leased' = leased \ {d}
    BY <1>1, <1>2 DEF Release, Forget
  <2>2. QED
    BY <2>1
<1>3. CASE Execute /\ d = held
  <2>1. leased' = leased \ {d}
    BY <1>3 DEF Execute, Forget
  <2>2. QED
    BY <2>1
<1>4. CASE DenyMutation /\ d = held
  <2>1. rt.healthy
    BY <1>4 DEF EndInv, Working, DenyMutation
  <2>2. QED
    BY <1>1, <1>4, <2>1 DEF DenyMutation, Executable, Accepting, Usable
<1>5. CASE JournalFails \/ ResetAnswers
  BY <1>5 DEF JournalFails, Fail, Go, ResetAnswers, ResetIsDue
<1>6. CASE Start
  BY <1>1, <1>6 DEF Start, Accepting
<1>7. QED
  BY <1>1, <1>2, <1>3, <1>4, <1>5, <1>6, UsedSteps

\* Every step leaves each lease with somebody who will give it back.
LEMMA EndsWellNext ==
  ASSUME EndInv, [Next]_vars
  PROVE  EndsWell'
<1> SUFFICES ASSUME NEW d \in leased' PROVE Needed(d)'
  BY DEF EndsWell
<1>1. TypeOK /\ Course
  BY DEF EndInv, IInv
<1>2. CASE ResetIsDue
  <2>1. ResetIsDue'
    BY <1>1, <1>2, DueStays
  <2>2. QED
    BY <2>1 DEF Needed
<1>3. CASE ~ResetIsDue /\ d \in leased
  <2>1. ~ResetClears
    BY <1>1, LeasedSteps
  <2>2. CASE Shows(d)
    <3>1. Shows(d)' \/ d \in Used' \/ d \in strays'
      BY <1>3, <2>2, ShownGoesOn
    <3>2. QED
      BY <3>1 DEF Needed
  <2>3. CASE d \in Granted
    <3>1. d \in Granted' \/ Shows(d)' \/ d \in Used'
      BY <1>3, <2>1, <2>3, GrantedGoesOn
    <3>2. QED
      BY <3>1 DEF Needed
  <2>4. CASE d \in Used
    <3>1. d \in Used' \/ ResetIsDue'
      BY <1>3, <2>4, UsedGoesOn
    <3>2. QED
      BY <3>1 DEF Needed
  <2>5. CASE d \in strays
    BY <2>5, StraysSteps DEF Needed
  <2>6. QED
    BY <1>3, <2>2, <2>3, <2>4, <2>5 DEF EndInv, EndsWell, Needed
<1>4. CASE d \notin leased
  <2>1. d \in Drafts /\ Post("granted", d) /\ inbox \in Seq(Messages)
    BY <1>1, <1>4, NewLease DEF TypeOK
  <2> DEFINE m == Message("granted", {d})
  <2>2. m \in Messages /\ m.kind = "granted" /\ m.drafts = {d}
    BY <2>1, MessageType
  <2> HIDE DEF m
  <2>3. DraftsOf(Append(inbox, m), "granted") = DraftsOf(inbox, "granted") \cup m.drafts
    BY <2>1, <2>2, DraftsAppend
  <2>4. d \in Granted'
    BY <2>1, <2>2, <2>3 DEF Post, Granted, m
  <2>5. QED
    BY <2>4 DEF Needed
<1>5. QED
  BY <1>2, <1>3, <1>4

\* At the start there are no leases and no messages.
LEMMA EndInvInit == Init => EndInv
<1> SUFFICES ASSUME Init PROVE EndInv
  OBVIOUS
<1>1. leased = {} /\ inbox = <<>> /\ pc = "top"
  BY DEF Init
<1>2. Lost = {}
  BY <1>1 DEF Lost, DraftsOf, Members
<1>3. Working /\ LostIsGone /\ EndsWell
  BY <1>1, <1>2 DEF Working, LostIsGone, EndsWell
<1>4. QED
  BY <1>3, IInvInit, CourseInit DEF EndInv

\* Every step keeps the invariant.
LEMMA EndInvNext == EndInv /\ [Next]_vars => EndInv'
<1> SUFFICES ASSUME EndInv, [Next]_vars PROVE EndInv'
  OBVIOUS
<1>1. TypeOK /\ Books /\ Course /\ Working /\ LostIsGone
  BY DEF EndInv, IInv
<1>2. IInv' /\ Course'
  BY <1>1, IInvNext, CourseNext DEF EndInv
<1>3. Working' /\ LostIsGone'
  BY <1>1, WorkingNext, LostIsGoneNext
<1>4. EndsWell'
  BY EndsWellNext
<1>5. QED
  BY <1>2, <1>3, <1>4 DEF EndInv

\* No lease is forgotten: while the worker has one, a surface shows it, its grant is on its
\* way, it is being given up, or the session is about to be reset; whatever order grants,
\* closes, saves, conflicts, failures and restarts come in.
THEOREM LeasesCorrect == Spec => []LeaseHasAnEnd
<1>1. EndInv => LeaseHasAnEnd
  <2> SUFFICES ASSUME EndInv, NEW d \in leased
               PROVE  InUse(d) \/ ResetIsDue \/ d \in strays
    BY DEF LeaseHasAnEnd
  <2>1. d \in Drafts
    BY DEF EndInv, IInv, TypeOK
  <2>2. CASE Shows(d)
    <3>1. SurfaceOf(d) \in Surfaces /\ d \in HandleOf(SurfaceOf(d))
      BY <2>1, <2>2, DraftParts DEF Shows, HandleOf
    <3>2. QED
      BY <3>1 DEF InUse
  <2>3. CASE d \in Granted
    BY <2>3 DEF Granted, DraftsOf, Announced, InUse
  <2>4. CASE d \in Used
    BY <2>4 DEF Used, InUse
  <2>5. QED
    BY <2>2, <2>3, <2>4 DEF EndInv, EndsWell, Needed
<1>2. QED
  BY <1>1, EndInvInit, EndInvNext, PTL DEF Spec

===============================================================================
