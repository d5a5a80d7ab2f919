-------------------------- MODULE AiChangesetsProofs --------------------------
(***************************************************************************)
(* ReviewedIsApplied, HistoryIsTrue and UndoIsExact hold of AiChangesets   *)
(* for any changesets, bids and assumptions, and any number of revisions,  *)
(* edits and refusals.                                                     *)
(***************************************************************************)
EXTENDS AiChangesets, SequenceTheorems, TLAPS

-----------------------------------------------------------------------------
(* Stacks. *)

In(stack, c) == \E n \in 1..Len(stack) : stack[n] = c
Distinct(stack) == \A m, n \in 1..Len(stack) : stack[m] = stack[n] => m = n

\* What is pushed on a stack.
LEMMA PushFacts ==
  ASSUME NEW s \in Seq(Changesets), NEW c \in Changesets
  PROVE  /\ Append(s, c) \in Seq(Changesets)
         /\ \A d : In(Append(s, c), d) <=> In(s, d) \/ d = c
         /\ Distinct(s) /\ ~In(s, c) => Distinct(Append(s, c))
<1>1. PICK a : a = Append(s, c)
  OBVIOUS
<1>2. /\ a \in Seq(Changesets) /\ Len(a) = Len(s) + 1 /\ Len(s) \in Nat
      /\ \A n \in 1..Len(s) : a[n] = s[n]
      /\ a[Len(s) + 1] = c
  BY <1>1, AppendProperties, LenProperties
<1>3. \A n \in 1..Len(a) : n = Len(s) + 1 \/ n \in 1..Len(s)
  BY <1>2
<1>4. \A d : In(a, d) <=> In(s, d) \/ d = c
  BY <1>2 DEF In
<1>5. ASSUME Distinct(s), ~In(s, c) PROVE Distinct(a)
  BY <1>2, <1>3, <1>5 DEF In, Distinct
<1>6. QED
  BY <1>1, <1>2, <1>4, <1>5

\* What is left of a stack as its top is taken.
LEMMA PopFacts ==
  ASSUME NEW s \in Seq(Changesets), s # <<>>
  PROVE  /\ Last(s) \in Changesets /\ In(s, Last(s))
         /\ Front(s) \in Seq(Changesets)
         /\ \A d : In(Front(s), d) => In(s, d)
         /\ Distinct(s) => Distinct(Front(s)) /\ ~In(Front(s), Last(s))
<1>1. PICK k \in Nat \ {0} : k = Len(s)
  BY EmptySeq
<1>2. \A n \in 1..k : s[n] \in Changesets
  BY <1>1, ElementOfSeq
<1>3. PICK f : f = SubSeq(s, 1, k - 1)
  OBVIOUS
<1>4. /\ f \in Seq(Changesets) /\ Len(f) = k - 1
      /\ \A n \in 1..(k - 1) : f[n] = s[n]
  <2>1. /\ f \in Seq(Changesets)
        /\ Len(f) = IF 1 <= k - 1 THEN (k - 1) - 1 + 1 ELSE 0
        /\ \A n \in 1..((k - 1) - 1 + 1) : f[n] = s[1 + n - 1]
    BY <1>1, <1>2, <1>3, SubSeqProperties
  <2>2. /\ (k - 1) - 1 + 1 = k - 1 /\ (k = 1 \/ 1 <= k - 1)
        /\ \A n \in 1..(k - 1) : 1 + n - 1 = n
    OBVIOUS
  <2>3. QED
    BY <2>1, <2>2
<1>5. Front(s) = f /\ Last(s) = s[k]
  BY <1>1, <1>3 DEF Front, Last
<1>6. s[k] \in Changesets /\ In(s, s[k])
  BY <1>1, <1>2 DEF In
<1>7. \A n \in 1..(k - 1) : n \in 1..k /\ n # k
  OBVIOUS
<1>8. \A d : In(f, d) => In(s, d)
  BY <1>1, <1>4, <1>7 DEF In
<1>9. ASSUME Distinct(s) PROVE Distinct(f) /\ ~In(f, s[k])
  <2>1. \A m, n \in 1..k : s[m] = s[n] => m = n
    BY <1>1, <1>9 DEF Distinct
  <2>2. \A m, n \in 1..(k - 1) : f[m] = f[n] => m = n
    BY ONLY <1>4, <1>7, <2>1
  <2>3. \A n \in 1..(k - 1) : f[n] # s[k]
    <3>1. k \in 1..k
      OBVIOUS
    <3>2. QED
      BY ONLY <1>4, <1>7, <2>1, <3>1
  <2>4. QED
    BY <1>4, <2>2, <2>3 DEF In, Distinct
<1>10. PICK top : top = s[k]
  OBVIOUS
<1>11. /\ Front(s) = f /\ Last(s) = top
       /\ f \in Seq(Changesets) /\ top \in Changesets /\ In(s, top)
       /\ \A d : In(f, d) => In(s, d)
       /\ Distinct(s) => Distinct(f) /\ ~In(f, top)
  BY <1>4, <1>5, <1>6, <1>8, <1>9, <1>10
<1>12. QED
  BY ONLY <1>11

\* A stack without one of its entries.
LEMMA WithoutFacts ==
  ASSUME NEW s \in Seq(Changesets), NEW c \in Changesets, Distinct(s)
  PROVE  /\ Without(s, c) \in Seq(Changesets)
         /\ \A d : In(Without(s, c), d) => In(s, d) /\ d # c
         /\ Distinct(Without(s, c))
<1>1. PICK k \in Nat : k = Len(s)
  BY LenProperties
<1>2. DOMAIN s = 1..k /\ \A n \in 1..k : s[n] \in Changesets
  BY <1>1, ElementOfSeq
<1>3. c \in ToSet(s) <=> In(s, c)
  BY <1>1, <1>2 DEF ToSet, In
<1>4. CASE ~In(s, c)
  <2>1. Without(s, c) = s
    BY <1>3, <1>4 DEF Without
  <2>2. QED
    BY <1>4, <2>1
<1>5. CASE In(s, c)
  <2>1. PICK i : i = CHOOSE n \in DOMAIN s : s[n] = c
    OBVIOUS
  <2>2. i \in 1..k /\ s[i] = c
    BY <1>1, <1>2, <1>5, <2>1 DEF In
  <2>3. Without(s, c) = SubSeq(s, 1, i - 1) \o SubSeq(s, i + 1, k)
    BY <1>1, <1>3, <1>5, <2>1 DEF Without, RemoveAt
  <2>4. PICK f : f = SubSeq(s, 1, i - 1)
    OBVIOUS
  <2>5. PICK g : g = SubSeq(s, i + 1, k)
    OBVIOUS
  <2>6. /\ f \in Seq(Changesets) /\ Len(f) = i - 1
        /\ \A n \in 1..(i - 1) : f[n] = s[n]
    <3>1. \A n \in 1..(i - 1) : s[n] \in Changesets
      BY <1>2, <2>2
    <3>2. /\ f \in Seq(Changesets)
          /\ Len(f) = IF 1 <= i - 1 THEN (i - 1) - 1 + 1 ELSE 0
          /\ \A n \in 1..((i - 1) - 1 + 1) : f[n] = s[1 + n - 1]
      BY <1>1, <1>2, <2>2, <2>4, <3>1, SubSeqProperties
    <3>3. /\ (i - 1) - 1 + 1 = i - 1 /\ (i = 1 \/ 1 <= i - 1)
          /\ \A n \in 1..(i - 1) : 1 + n - 1 = n
      BY <2>2
    <3>4. QED
      BY <2>2, <3>2, <3>3
  <2>7. /\ g \in Seq(Changesets) /\ Len(g) = k - i
        /\ \A n \in 1..(k - i) : g[n] = s[i + n]
    <3>1. \A n \in (i + 1)..k : s[n] \in Changesets
      BY <1>2, <2>2
    <3>2. /\ g \in Seq(Changesets)
          /\ Len(g) = IF i + 1 <= k THEN k - (i + 1) + 1 ELSE 0
          /\ \A n \in 1..(k - (i + 1) + 1) : g[n] = s[(i + 1) + n - 1]
      BY <1>1, <1>2, <2>2, <2>5, <3>1, SubSeqProperties
    <3>3. /\ k - (i + 1) + 1 = k - i /\ (i = k \/ i + 1 <= k)
          /\ \A n \in 1..(k - i) : (i + 1) + n - 1 = i + n
      BY <2>2
    <3>4. QED
      BY <2>2, <3>2, <3>3
  <2>8. PICK w : w = f \o g
    OBVIOUS
  <2>9. /\ w \in Seq(Changesets) /\ Len(w) = k - 1
        /\ \A n \in 1..(k - 1) : w[n] = IF n < i THEN s[n] ELSE s[n + 1]
    <3>1. /\ w \in Seq(Changesets)
          /\ Len(w) = Len(f) + Len(g)
          /\ \A n \in 1..(Len(f) + Len(g)) : w[n] = IF n <= Len(f) THEN f[n] ELSE g[n - Len(f)]
      BY <2>6, <2>7, <2>8, ConcatProperties
    <3>2. Len(f) + Len(g) = k - 1
      BY <2>2, <2>6, <2>7
    <3>3. ASSUME NEW n \in 1..(k - 1)
          PROVE  w[n] = IF n < i THEN s[n] ELSE s[n + 1]
      <4>1. w[n] = IF n <= i - 1 THEN f[n] ELSE g[n - (i - 1)]
        BY <2>6, <3>1, <3>2
      <4>2. CASE n < i
        <5>1. n \in 1..(i - 1)
          BY <2>2, <4>2
        <5>2. QED
          BY <2>2, <2>6, <4>1, <4>2, <5>1
      <4>3. CASE ~(n < i)
        <5>1. n - (i - 1) \in 1..(k - i) /\ i + (n - (i - 1)) = n + 1 /\ ~(n <= i - 1)
          BY <2>2, <4>3
        <5>2. QED
          BY <2>7, <4>1, <4>3, <5>1
      <4>4. QED
        BY <4>2, <4>3
    <3>4. QED
      BY <3>1, <3>2, <3>3
  <2>10. \A n \in 1..(k - 1) :
           \E m \in 1..k : w[n] = s[m] /\ m # i /\ m = IF n < i THEN n ELSE n + 1
    BY <2>2, <2>9
  <2>11. \A d : In(w, d) => In(s, d) /\ d # c
    BY <1>1, <2>2, <2>9, <2>10 DEF In, Distinct
  <2>12. Distinct(w)
    <3>1. SUFFICES ASSUME NEW m \in 1..(k - 1), NEW n \in 1..(k - 1), w[m] = w[n]
                   PROVE  m = n
      BY <2>9 DEF Distinct
    <3>2. (IF m < i THEN m ELSE m + 1) = (IF n < i THEN n ELSE n + 1)
      BY <1>1, <2>10, <3>1 DEF Distinct
    <3>3. QED
      BY <2>2, <3>2
  <2>13. QED
    BY <2>3, <2>4, <2>5, <2>8, <2>9, <2>11, <2>12
<1>6. QED
  BY <1>4, <1>5

-----------------------------------------------------------------------------
(* The inductive invariant. *)

Digests == Pages \cup 0..MaxEdits \cup Changesets \cup {"absent", "intact", "edited", Closed}
Noted == [value : Nat, settled : BOOLEAN]
Dialogs == [revision : Nat \cup {-1}, notes : [Notes -> Nat]]
Contents == /\ open \in Bids
            /\ page \in [Bids -> Pages]
            /\ edits \in 0..MaxEdits
Proposals == /\ status \in [Changesets -> {"none", "planned", "proposed", "pending_approval",
                                           "applied", "undone", "closed"}]
             /\ bidOf \in [Changesets -> Bids]
             /\ planned \in [Changesets -> 0..MaxEdits \cup Changesets]
             /\ base \in [Changesets -> Digests]
             /\ revision \in [Changesets -> Nat]
             /\ notes \in [Changesets -> [Notes -> Noted]]
Reviews == /\ review \in [Changesets -> Dialogs]
           /\ displayed \in [Changesets -> [Notes -> Nat]]
           /\ agreed \in [Changesets -> [Notes -> Nat]]
Records == /\ undo \in Seq(Changesets)
           /\ redo \in Seq(Changesets)
           /\ result \in [Changesets -> Digests]
           /\ before \in [Changesets -> Pages]
Typed == Contents /\ Proposals /\ Reviews /\ Records

\* A dialog shows the assumptions of the revision it names, and what is settled was
\* agreed on: as a changeset is accepted, both hold of what is applied.
Reviewed(c) ==
  /\ status[c] \in {"none", "planned"} => review[c] = NotShown
  /\ review[c].revision <= revision[c]
  /\ review[c].revision = revision[c] => review[c].notes = Values(c)
  /\ \A n \in Notes : notes[c][n].settled => agreed[c][n] = notes[c][n].value
  /\ status[c] \in {"applied", "undone"} =>
       /\ displayed[c] = Values(c)
       /\ \A n \in Notes \ Minor : notes[c][n].value # 0 => notes[c][n].settled

\* The stacks of the history.
Stacked ==
  /\ Distinct(undo) /\ Distinct(redo)
  /\ \A c \in Changesets : In(undo, c) => status[c] = "applied"
  /\ \A c \in Changesets : In(redo, c) => status[c] = "undone"

\* What an applied changeset is compared with, when it was recorded on an open bid.
Recorded(c) ==
  status[c] = "applied" /\ base[c] # Closed =>
    IF c \in Scales
    THEN result[c] = [before[c] EXCEPT !.scale = c] /\ base[c] = before[c]
    ELSE result[c] = "intact"

ChangesetInv ==
  /\ Typed
  /\ \A c \in Changesets : Reviewed(c) /\ Recorded(c)
  /\ Stacked

\* The pages a page becomes.
LEMMA PageTypes ==
  ASSUME NEW p \in Pages
  PROVE  /\ p.scale \in 0..MaxEdits \cup Changesets
         /\ \A x \in 0..MaxEdits \cup Changesets : [p EXCEPT !.scale = x] \in Pages
         /\ \A x \in 0..MaxEdits : [p EXCEPT !.drawn = x] \in Pages
         /\ \A c \in Changesets, x \in {"absent", "intact", "edited"} :
              /\ [p EXCEPT !.made[c] = x] \in Pages
              /\ [p EXCEPT !.made[c] = x].made[c] = x
<1>1. \A x \in 0..MaxEdits \cup Changesets : [p EXCEPT !.scale = x] \in Pages
  BY DEF Pages
<1>2. \A x \in 0..MaxEdits : [p EXCEPT !.drawn = x] \in Pages
  BY DEF Pages
<1>3. ASSUME NEW c \in Changesets, NEW x \in {"absent", "intact", "edited"}
      PROVE  /\ [p EXCEPT !.made[c] = x] \in Pages
             /\ [p EXCEPT !.made[c] = x].made[c] = x
  BY DEF Pages
<1>4. p.scale \in 0..MaxEdits \cup Changesets
  BY DEF Pages
<1>5. QED
  BY <1>1, <1>2, <1>3, <1>4

\* A changeset writes pages.
LEMMA WrittenTypes ==
  ASSUME Typed, NEW c \in Changesets
  PROVE  /\ page[bidOf[c]] \in Pages /\ bidOf[c] \in Bids
         /\ Applied(c) \in Pages /\ Reverted(c) \in Pages
<1>1. page[bidOf[c]] \in Pages /\ bidOf[c] \in Bids
  BY DEF Typed, Contents, Proposals
<1>2. planned[c] \in 0..MaxEdits \cup Changesets
  BY DEF Typed, Proposals
<1>3. PICK p \in Pages : p = page[bidOf[c]]
  BY <1>1
<1>4. Applied(c) \in Pages
  BY <1>3, PageTypes DEF Applied
<1>5. Reverted(c) \in Pages
  BY <1>2, <1>3, PageTypes DEF Reverted
<1>6. QED
  BY <1>1, <1>4, <1>5

\* Where an action may leave the parts of the page.
LEMMA ContentsStep ==
  ASSUME Typed, [Next]_vars
  PROVE  Contents'
<1>1. ASSUME NEW c \in Changesets, Plan(c) PROVE Contents'
  BY <1>1 DEF Plan, contents, Typed, Contents
<1>2. ASSUME NEW c \in Changesets, Add(c) PROVE Contents'
  BY <1>2 DEF Add, contents, Typed, Contents
<1>3. ASSUME NEW c \in Changesets, RequestApply(c) PROVE Contents'
  BY <1>3 DEF RequestApply, contents, Typed, Contents
<1>4. ASSUME NEW c \in Changesets, Discard(c) PROVE Contents'
  BY <1>4 DEF Discard, contents, Typed, Contents
<1>5. ASSUME NEW c \in Changesets, NEW n \in Notes, Revise(c, n) PROVE Contents'
  BY <1>5 DEF Revise, contents, Typed, Contents
<1>6. ASSUME NEW c \in Changesets, Accept(c) PROVE Contents'
  BY <1>6, WrittenTypes DEF Accept, contents, Typed, Contents
<1>7. ASSUME NEW c \in Changesets, AcceptRefused(c) PROVE Contents'
  BY <1>7 DEF AcceptRefused, Refresh, contents, Typed, Contents
<1>8. ASSUME NEW c \in Changesets, AcceptFails(c) PROVE Contents'
  BY <1>8 DEF AcceptFails, contents, Typed, Contents
<1>9. ASSUME NEW c \in Changesets, CloseReview(c) PROVE Contents'
  BY <1>9 DEF CloseReview, contents, Typed, Contents
<1>10. ASSUME NEW c \in Changesets, NEW n \in Notes, Settle(c, n) PROVE Contents'
  BY <1>10 DEF Settle, Refresh, contents, Typed, Contents
<1>11. ASSUME HistoryUndo PROVE Contents'
  <2>1. PICK c \in Changesets : c = Last(undo)
    BY <1>11, PopFacts DEF HistoryUndo, Typed, Records
  <2>2. page' = [page EXCEPT ![bidOf[c]] = Reverted(c)] /\ open' = open /\ edits' = edits
    BY <1>11, <2>1 DEF HistoryUndo, Revert
  <2>3. QED
    BY <2>2, WrittenTypes DEF Typed, Contents
<1>12. ASSUME HistoryUndoRefused PROVE Contents'
  BY <1>12 DEF HistoryUndoRefused, contents, Typed, Contents
<1>13. ASSUME NEW c \in Changesets, DiscardEntry(c) PROVE Contents'
  BY <1>13 DEF DiscardEntry, contents, Typed, Contents
<1>14. ASSUME NEW c \in Changesets, PipeUndo(c) PROVE Contents'
  BY <1>14, WrittenTypes DEF PipeUndo, Revert, contents, Typed, Contents
<1>15. ASSUME Edit PROVE Contents'
  <2>1. edits' = edits + 1 /\ edits' \in 0..MaxEdits /\ open' = open
    BY <1>15, BoundsAssumption DEF Edit, Typed, Contents
  <2>2. PICK p \in Pages : p = page[open]
    BY DEF Typed, Contents
  <2>3. PICK q \in Pages : page' = [page EXCEPT ![open] = q]
    <3>1. CASE page' = [page EXCEPT ![open].scale = edits + 1]
      BY <2>1, <2>2, <3>1, PageTypes
    <3>2. CASE page' = [page EXCEPT ![open].drawn = edits + 1]
      BY <2>1, <2>2, <3>2, PageTypes
    <3>3. CASE \E c \in Changesets : page' = [page EXCEPT ![open].made[c] = "edited"]
      BY <2>2, <3>3, PageTypes
    <3>4. QED
      BY <1>15, <3>1, <3>2, <3>3 DEF Edit
  <2>4. QED
    BY <2>1, <2>3 DEF Typed, Contents
<1>16. ASSUME NEW b \in Bids, OpenBid(b) PROVE Contents'
  BY <1>16, BoundsAssumption DEF OpenBid, contents, Typed, Contents
<1>17. CASE UNCHANGED vars
  BY <1>17 DEF vars, contents, Typed, Contents
<1>18. QED
  BY <1>1, <1>2, <1>3, <1>4, <1>5, <1>6, <1>7, <1>8, <1>9, <1>10, <1>11, <1>12, <1>13, <1>14, <1>15, <1>16, <1>17 DEF Next, Client, Reviewer, User

\* An assumption that is settled or revised.
LEMMA NoteTypes ==
  ASSUME NEW f \in [Notes -> Noted], NEW n \in Notes
  PROVE  /\ [f EXCEPT ![n].settled = TRUE] \in [Notes -> Noted]
         /\ [f EXCEPT ![n] = [value |-> f[n].value + 1, settled |-> FALSE]] \in [Notes -> Noted]
<1>1. PICK r \in Noted : r = f[n]
  OBVIOUS
<1>2. PICK s : s = [r EXCEPT !.settled = TRUE]
  OBVIOUS
<1>3. s \in Noted
  BY <1>1, <1>2 DEF Noted
<1>4. PICK v : v = [value |-> r.value + 1, settled |-> FALSE]
  OBVIOUS
<1>5. r.value + 1 \in Nat
  BY <1>1 DEF Noted
<1>6. v \in Noted
  BY <1>4, <1>5 DEF Noted
<1>7. [f EXCEPT ![n] = s] \in [Notes -> Noted] /\ [f EXCEPT ![n] = v] \in [Notes -> Noted]
  BY <1>3, <1>6
<1>8. QED
  BY <1>1, <1>2, <1>4, <1>7

\* What the tokens and a dialog show.
LEMMA ReadTypes ==
  ASSUME Typed, NEW c \in Changesets
  PROVE  /\ page[open].scale \in 0..MaxEdits \cup Changesets
         /\ Touched(c) \in Digests
         /\ Made(c, Applied(c)) \in Digests
         /\ notes[c] \in [Notes -> Noted]
         /\ Values(c) \in [Notes -> Nat]
         /\ Snapshot(c) \in Dialogs
         /\ NotShown \in Dialogs
<1>1. page[open] \in Pages
  BY DEF Typed, Contents
<1>2. page[open].scale \in 0..MaxEdits \cup Changesets
  BY <1>1, PageTypes
<1>3. Touched(c) \in Digests
  <2>1. page[bidOf[c]] \in Pages
    BY WrittenTypes
  <2>2. page[bidOf[c]].scale \in 0..MaxEdits \cup Changesets
    BY <2>1, PageTypes
  <2>3. QED
    BY <2>1, <2>2 DEF Touched, Token, Digests
<1>4. Made(c, Applied(c)) \in Digests
  <2>1. PICK p \in Pages : p = Applied(c)
    BY WrittenTypes
  <2>2. p.made[c] \in {"absent", "intact", "edited"}
    BY <2>1 DEF Pages
  <2>3. QED
    BY <2>1, <2>2 DEF Made, Token, Digests
<1>5. notes[c] \in [Notes -> Noted] /\ revision[c] \in Nat
  BY DEF Typed, Proposals
<1>6. Values(c) \in [Notes -> Nat]
  BY <1>5 DEF Values, Noted
<1>7. PICK v \in [Notes -> Nat] : v = Values(c)
  BY <1>6
<1>8. Snapshot(c) \in Dialogs
  BY <1>5, <1>7 DEF Snapshot, Dialogs
<1>9. NotShown \in Dialogs
  BY DEF NotShown, Dialogs
<1>10. QED
  BY <1>2, <1>3, <1>4, <1>5, <1>6, <1>8, <1>9


\* What is proposed.
LEMMA ProposalsStep ==
  ASSUME Typed, [Next]_vars
  PROVE  Proposals'
<1>1. ASSUME NEW c \in Changesets, Plan(c) PROVE Proposals'
  BY <1>1, ReadTypes DEF Plan, proposal, Typed, Contents, Proposals
<1>2. ASSUME NEW c \in Changesets, Add(c) PROVE Proposals'
  <2>1. PICK f : f = notes'[c]
    OBVIOUS
  <2>2. CASE notes' = notes /\ base' = base
    BY <1>2, <2>2 DEF Add, Typed, Proposals
  <2>3. CASE /\ base' = [base EXCEPT ![c] = Touched(c)]
             /\ \E stated \in SUBSET Notes :
                  notes' = [notes EXCEPT ![c] = [n \in Notes |->
                              [value |-> IF n \in stated THEN 1 ELSE 0, settled |-> FALSE]]]
    <3>1. PICK g \in [Notes -> Noted] : notes' = [notes EXCEPT ![c] = g]
      BY <2>3 DEF Noted
    <3>2. PICK t \in Digests : base' = [base EXCEPT ![c] = t]
      BY <2>3, ReadTypes
    <3>3. QED
      BY <1>2, <3>1, <3>2 DEF Add, Typed, Proposals
  <2>4. QED
    BY <1>2, <2>2, <2>3 DEF Add
<1>3. ASSUME NEW c \in Changesets, RequestApply(c) PROVE Proposals'
  BY <1>3 DEF RequestApply, proposal, Typed, Contents, Proposals
<1>4. ASSUME NEW c \in Changesets, Discard(c) PROVE Proposals'
  BY <1>4 DEF Discard, proposal, Typed, Contents, Proposals
<1>5. ASSUME NEW c \in Changesets, NEW n \in Notes, Revise(c, n) PROVE Proposals'
  <2>1. PICK f \in [Notes -> Noted] : f = notes[c]
    BY ReadTypes
  <2>2. PICK g \in [Notes -> Noted] : notes' = [notes EXCEPT ![c] = g]
    <3>1. notes' = [notes EXCEPT ![c] =
                      [f EXCEPT ![n] = [value |-> f[n].value + 1, settled |-> FALSE]]]
      BY <1>5, <2>1 DEF Revise, Revised
    <3>2. QED
      BY <3>1, NoteTypes
  <2>3. QED
    BY <1>5, <2>2 DEF Revise, Typed, Proposals
<1>6. ASSUME NEW c \in Changesets, Accept(c) PROVE Proposals'
  BY <1>6 DEF Accept, proposal, Typed, Contents, Proposals
<1>7. ASSUME NEW c \in Changesets, AcceptRefused(c) PROVE Proposals'
  BY <1>7 DEF AcceptRefused, Refresh, proposal, Typed, Contents, Proposals
<1>8. ASSUME NEW c \in Changesets, AcceptFails(c) PROVE Proposals'
  BY <1>8 DEF AcceptFails, proposal, Typed, Contents, Proposals
<1>9. ASSUME NEW c \in Changesets, CloseReview(c) PROVE Proposals'
  BY <1>9 DEF CloseReview, proposal, Typed, Contents, Proposals
<1>10. ASSUME NEW c \in Changesets, NEW n \in Notes, Settle(c, n) PROVE Proposals'
  <2>1. PICK f \in [Notes -> Noted] : f = notes[c]
    BY ReadTypes
  <2>2. CASE /\ notes' = [notes EXCEPT ![c][n].settled = TRUE]
             /\ revision' = [revision EXCEPT ![c] = @ + 1]
             /\ UNCHANGED <<status, bidOf, planned, base>>
    <3>1. PICK g \in [Notes -> Noted] : notes' = [notes EXCEPT ![c] = g]
      <4>1. notes' = [notes EXCEPT ![c] = [f EXCEPT ![n].settled = TRUE]]
        BY <2>1, <2>2
      <4>2. PICK g \in [Notes -> Noted] : g = [f EXCEPT ![n].settled = TRUE]
        BY ONLY <1>10, <2>1, NoteTypes
      <4>3. QED
        BY <4>1, <4>2
    <3>2. notes \in [Changesets -> [Notes -> Noted]] /\ revision \in [Changesets -> Nat]
      BY DEF Typed, Proposals
    <3>3. notes' \in [Changesets -> [Notes -> Noted]]
      BY ONLY <1>10, <3>1, <3>2
    <3>4. revision' = [revision EXCEPT ![c] = @ + 1] /\ UNCHANGED <<status, bidOf, planned, base>>
      BY ONLY <2>2
    <3>5. revision' \in [Changesets -> Nat]
      BY ONLY <1>10, <3>2, <3>4
    <3>6. QED
      BY <3>3, <3>4, <3>5 DEF Typed, Proposals
  <2>3. CASE UNCHANGED <<status, proposal>>
    BY <2>3 DEF proposal, Typed, Proposals
  <2>4. QED
    BY <1>10, <2>2, <2>3 DEF Settle, Refresh
<1>11. ASSUME HistoryUndo PROVE Proposals'
  <2>1. PICK c \in Changesets : c = Last(undo)
    BY <1>11, PopFacts DEF HistoryUndo, Typed, Records
  <2>2. QED
    BY <1>11, <2>1 DEF HistoryUndo, Revert, proposal, Typed, Proposals
<1>12. ASSUME HistoryUndoRefused PROVE Proposals'
  BY <1>12 DEF HistoryUndoRefused, proposal, Typed, Contents, Proposals
<1>13. ASSUME NEW c \in Changesets, DiscardEntry(c) PROVE Proposals'
  BY <1>13 DEF DiscardEntry, proposal, Typed, Contents, Proposals
<1>14. ASSUME NEW c \in Changesets, PipeUndo(c) PROVE Proposals'
  BY <1>14 DEF PipeUndo, Revert, proposal, Typed, Contents, Proposals
<1>15. ASSUME Edit PROVE Proposals'
  BY <1>15 DEF Edit, proposal, Typed, Contents, Proposals
<1>16. ASSUME NEW b \in Bids, OpenBid(b) PROVE Proposals'
  BY <1>16 DEF OpenBid, proposal, Typed, Contents, Proposals
<1>17. CASE UNCHANGED vars
  BY <1>17 DEF vars, proposal, Typed, Contents, Proposals
<1>18. QED
  BY <1>1, <1>2, <1>3, <1>4, <1>5, <1>6, <1>7, <1>8, <1>9, <1>10, <1>11, <1>12, <1>13, <1>14, <1>15, <1>16, <1>17 DEF Next, Client, Reviewer, User


\* What is reviewed.
LEMMA ReviewsStep ==
  ASSUME Typed, [Next]_vars
  PROVE  Reviews'
<1>1. ASSUME NEW c \in Changesets, Plan(c) PROVE Reviews'
  BY <1>1 DEF Plan, history, Typed, Reviews
<1>2. ASSUME NEW c \in Changesets, Add(c) PROVE Reviews'
  BY <1>2 DEF Add, history, Typed, Reviews
<1>3. ASSUME NEW c \in Changesets, RequestApply(c) PROVE Reviews'
  BY <1>3, ReadTypes DEF RequestApply, history, Typed, Reviews
<1>4. ASSUME NEW c \in Changesets, Discard(c) PROVE Reviews'
  BY <1>4 DEF Discard, history, Typed, Reviews
<1>5. ASSUME NEW c \in Changesets, NEW n \in Notes, Revise(c, n) PROVE Reviews'
  BY <1>5 DEF Revise, history, Typed, Reviews
<1>6. ASSUME NEW c \in Changesets, Accept(c) PROVE Reviews'
  <2>1. PICK v \in [Notes -> Nat] : v = review[c].notes
    BY DEF Typed, Reviews, Dialogs
  <2>2. QED
    BY <1>6, <2>1, ReadTypes DEF Accept, Typed, Reviews
<1>7. ASSUME NEW c \in Changesets, AcceptRefused(c) PROVE Reviews'
  BY <1>7, ReadTypes DEF AcceptRefused, Refresh, history, Typed, Reviews
<1>8. ASSUME NEW c \in Changesets, AcceptFails(c) PROVE Reviews'
  BY <1>8 DEF AcceptFails, history, Typed, Reviews
<1>9. ASSUME NEW c \in Changesets, CloseReview(c) PROVE Reviews'
  BY <1>9, ReadTypes DEF CloseReview, history, Typed, Reviews
<1>10. ASSUME NEW c \in Changesets, NEW n \in Notes, Settle(c, n) PROVE Reviews'
  <2>1. PICK v \in [Notes -> Nat] : v = Values(c)
    BY ReadTypes
  <2>2. PICK r \in Dialogs : r = review[c]
    BY DEF Typed, Reviews
  <2>3. revision[c] + 1 \in Nat /\ r.notes[n] \in Nat
    BY <2>2 DEF Typed, Proposals, Dialogs
  <2>4. CASE /\ review' = [review EXCEPT ![c].revision = revision[c] + 1, ![c].notes = Values(c)]
             /\ agreed' = [agreed EXCEPT ![c][n] = review[c].notes[n]]
             /\ displayed' = displayed
    <3>1. PICK s \in Dialogs : review' = [review EXCEPT ![c] = s]
      <4>1. PICK s : s = [r EXCEPT !.revision = revision[c] + 1, !.notes = v]
        OBVIOUS
      <4>2. s \in Dialogs
        BY <2>2, <2>3, <4>1 DEF Dialogs
      <4>3. review' = [review EXCEPT ![c] = s]
        BY <2>1, <2>2, <2>4, <4>1 DEF Typed, Reviews
      <4>4. QED
        BY <4>2, <4>3
    <3>2. QED
      BY <2>2, <2>3, <2>4, <3>1 DEF Typed, Reviews
  <2>5. CASE Refresh(c)
    BY <2>5, ReadTypes DEF Refresh, history, Typed, Reviews
  <2>6. QED
    BY <1>10, <2>4, <2>5 DEF Settle, history
<1>11. ASSUME HistoryUndo PROVE Reviews'
  BY <1>11 DEF HistoryUndo, Revert, history, Typed, Reviews
<1>12. ASSUME HistoryUndoRefused PROVE Reviews'
  BY <1>12 DEF HistoryUndoRefused, history, Typed, Reviews
<1>13. ASSUME NEW c \in Changesets, DiscardEntry(c) PROVE Reviews'
  BY <1>13 DEF DiscardEntry, history, Typed, Reviews
<1>14. ASSUME NEW c \in Changesets, PipeUndo(c) PROVE Reviews'
  BY <1>14 DEF PipeUndo, Revert, history, Typed, Reviews
<1>15. ASSUME Edit PROVE Reviews'
  BY <1>15 DEF Edit, history, Typed, Reviews
<1>16. ASSUME NEW b \in Bids, OpenBid(b) PROVE Reviews'
  BY <1>16 DEF OpenBid, history, Typed, Reviews
<1>17. CASE UNCHANGED vars
  BY <1>17 DEF vars, history, Typed, Reviews
<1>18. QED
  BY <1>1, <1>2, <1>3, <1>4, <1>5, <1>6, <1>7, <1>8, <1>9, <1>10, <1>11, <1>12, <1>13, <1>14, <1>15, <1>16, <1>17 DEF Next, Client, Reviewer, User


\* What the history keeps.
LEMMA RecordsStep ==
  ASSUME Typed, Stacked, [Next]_vars
  PROVE  Records'
<1>1. ASSUME NEW c \in Changesets, Plan(c) PROVE Records'
  BY <1>1 DEF Plan, history, Typed, Records
<1>2. ASSUME NEW c \in Changesets, Add(c) PROVE Records'
  BY <1>2 DEF Add, history, Typed, Records
<1>3. ASSUME NEW c \in Changesets, RequestApply(c) PROVE Records'
  BY <1>3 DEF RequestApply, history, Typed, Records
<1>4. ASSUME NEW c \in Changesets, Discard(c) PROVE Records'
  BY <1>4 DEF Discard, history, Typed, Records
<1>5. ASSUME NEW c \in Changesets, NEW n \in Notes, Revise(c, n) PROVE Records'
  BY <1>5 DEF Revise, history, Typed, Records
<1>6. ASSUME NEW c \in Changesets, Accept(c) PROVE Records'
  <2>1. Append(undo, c) \in Seq(Changesets) /\ <<>> \in Seq(Changesets)
    BY PushFacts DEF Typed, Records
  <2>2. PICK d \in Digests : d = Made(c, Applied(c))
    BY ReadTypes
  <2>3. PICK p \in Pages : p = page[bidOf[c]]
    BY WrittenTypes
  <2>4. QED
    BY <1>6, <2>1, <2>2, <2>3 DEF Accept, Typed, Records
<1>7. ASSUME NEW c \in Changesets, AcceptRefused(c) PROVE Records'
  BY <1>7 DEF AcceptRefused, Refresh, history, Typed, Records
<1>8. ASSUME NEW c \in Changesets, AcceptFails(c) PROVE Records'
  BY <1>8 DEF AcceptFails, history, Typed, Records
<1>9. ASSUME NEW c \in Changesets, CloseReview(c) PROVE Records'
  BY <1>9 DEF CloseReview, history, Typed, Records
<1>10. ASSUME NEW c \in Changesets, NEW n \in Notes, Settle(c, n) PROVE Records'
  BY <1>10 DEF Settle, Refresh, history, Typed, Records
<1>11. ASSUME HistoryUndo PROVE Records'
  <2>1. Last(undo) \in Changesets /\ Front(undo) \in Seq(Changesets)
    BY <1>11, PopFacts DEF HistoryUndo, Typed, Records
  <2>2. Append(redo, Last(undo)) \in Seq(Changesets)
    BY <2>1, PushFacts DEF Typed, Records
  <2>3. QED
    BY <1>11, <2>1, <2>2 DEF HistoryUndo, Revert, Typed, Records
<1>12. ASSUME HistoryUndoRefused PROVE Records'
  BY <1>12 DEF HistoryUndoRefused, history, Typed, Records
<1>13. ASSUME NEW c \in Changesets, DiscardEntry(c) PROVE Records'
  <2>1. Without(undo, c) \in Seq(Changesets)
    BY WithoutFacts DEF Stacked, Typed, Records
  <2>2. QED
    BY <1>13, <2>1 DEF DiscardEntry, Typed, Records
<1>14. ASSUME NEW c \in Changesets, PipeUndo(c) PROVE Records'
  <2>1. Without(undo, c) \in Seq(Changesets)
    BY WithoutFacts DEF Stacked, Typed, Records
  <2>2. QED
    BY <1>14, <2>1 DEF PipeUndo, Revert, Typed, Records
<1>15. ASSUME Edit PROVE Records'
  BY <1>15 DEF Edit, history, Typed, Records
<1>16. ASSUME NEW b \in Bids, OpenBid(b) PROVE Records'
  BY <1>16 DEF OpenBid, history, Typed, Records
<1>17. CASE UNCHANGED vars
  BY <1>17 DEF vars, history, Typed, Records
<1>18. QED
  BY <1>1, <1>2, <1>3, <1>4, <1>5, <1>6, <1>7, <1>8, <1>9, <1>10, <1>11, <1>12, <1>13, <1>14, <1>15, <1>16, <1>17 DEF Next, Client, Reviewer, User

\* What does not touch the assumptions of a changeset, but may refresh or close its dialog.
LEMMA ReviewedKept ==
  ASSUME Typed, NEW d \in Changesets, Reviewed(d),
         status'[d] \in {"none", "planned"} => status[d] \in {"none", "planned"},
         status'[d] \in {"applied", "undone"} => status[d] \in {"applied", "undone"},
         revision'[d] = revision[d], notes'[d] = notes[d], agreed'[d] = agreed[d],
         displayed'[d] = displayed[d],
         \/ review'[d] = review[d]
         \/ review'[d] = NotShown
         \/ review'[d] = Snapshot(d) /\ status'[d] \notin {"none", "planned"}
  PROVE  Reviewed(d)'
<1>1. Values(d)' = Values(d) /\ revision[d] \in Nat
  BY DEF Values, Typed, Proposals
<1>2. \A n \in Notes : notes'[d][n].settled => agreed'[d][n] = notes'[d][n].value
  BY DEF Reviewed
<1>3. status'[d] \in {"applied", "undone"} =>
        /\ displayed'[d] = Values(d)
        /\ \A n \in Notes \ Minor : notes'[d][n].value # 0 => notes'[d][n].settled
  BY DEF Reviewed
<1>4. PICK v : v = Values(d)
  OBVIOUS
<1>5. /\ status'[d] \in {"none", "planned"} => review'[d] = NotShown
      /\ review'[d].revision <= revision[d]
      /\ review'[d].revision = revision[d] => review'[d].notes = v
  <2>1. CASE review'[d] = review[d]
    BY <1>4, <2>1 DEF Reviewed
  <2>2. CASE review'[d] = NotShown
    BY <1>1, <2>2 DEF NotShown
  <2>3. CASE review'[d] = Snapshot(d) /\ status'[d] \notin {"none", "planned"}
    BY <1>1, <1>4, <2>3 DEF Snapshot
  <2>4. QED
    BY <2>1, <2>2, <2>3
<1>6. QED
  BY <1>1, <1>2, <1>3, <1>4, <1>5 DEF Reviewed

\* A dialog is shown of what was recorded.
LEMMA ShownIsRecorded ==
  ASSUME NEW c \in Changesets, Reviewed(c), Shown(c)
  PROVE  status[c] \notin {"none", "planned"}
BY DEF Reviewed, Shown

\* A changeset that is recorded.
LEMMA AddReviewed ==
  ASSUME Typed, NEW c \in Changesets, NEW d \in Changesets, Reviewed(d), Add(c)
  PROVE  Reviewed(d)'
<1>1. /\ status[c] = "planned"
      /\ status'[c] \in {"closed", "proposed"}
      /\ d # c => status'[d] = status[d] /\ notes'[d] = notes[d]
      /\ UNCHANGED <<revision, review, agreed, displayed>>
  BY DEF Add, history, Typed, Proposals
<1>2. CASE d # c \/ notes' = notes
  BY <1>1, <1>2, ReviewedKept
<1>3. CASE d = c /\ notes' # notes
  <2>1. \A n \in Notes : notes'[c][n].settled = FALSE
    BY <1>3 DEF Add, Typed, Proposals
  <2>2. review'[c] = NotShown /\ revision'[c] \in Nat
    BY <1>1, <1>3 DEF Reviewed, Typed, Proposals
  <2>3. review'[c].revision = -1
    BY <2>2 DEF NotShown
  <2>4. QED
    BY <1>1, <1>3, <2>1, <2>2, <2>3 DEF Reviewed
<1>4. QED
  BY <1>2, <1>3

\* An assumption that the client revises.
LEMMA ReviseReviewed ==
  ASSUME Typed, NEW c \in Changesets, NEW n \in Notes, NEW d \in Changesets, Reviewed(d),
         Revise(c, n)
  PROVE  Reviewed(d)'
<1>1. /\ status[c] \in Live
      /\ revision'[c] = revision[c] + 1 /\ revision[c] \in Nat
      /\ d # c => revision'[d] = revision[d] /\ notes'[d] = notes[d]
      /\ UNCHANGED <<status, review, agreed, displayed>>
  BY DEF Revise, history, Typed, Proposals
<1>2. CASE d # c
  BY <1>1, <1>2, ReviewedKept
<1>3. CASE d = c
  <2>1. ~notes'[c][n].settled /\ \A m \in Notes : m # n => notes'[c][m] = notes[c][m]
    <3>1. notes[c] \in [Notes -> Noted]
      BY ReadTypes
    <3>2. notes'[c] = [notes[c] EXCEPT ![n] = Revised(c, n)]
      BY DEF Revise, Typed, Proposals
    <3>3. QED
      BY <3>1, <3>2 DEF Revised
  <2>2. \A m \in Notes : notes'[c][m].settled => agreed'[c][m] = notes'[c][m].value
    BY <1>1, <1>3, <2>1 DEF Reviewed
  <2>3. review'[c].revision <= revision[c] /\ review[c] \in Dialogs
    BY <1>1, <1>3 DEF Reviewed, Typed, Reviews
  <2>4. review'[c].revision <= revision'[c] /\ review'[c].revision # revision'[c]
    BY <1>1, <2>3 DEF Dialogs
  <2>5. status'[c] \notin {"none", "planned", "applied", "undone"}
    BY <1>1 DEF Live
  <2>6. QED
    BY <1>3, <2>2, <2>4, <2>5 DEF Reviewed
<1>4. QED
  BY <1>2, <1>3

\* An assumption that the user settles has the value that is shown.
LEMMA SettleReviewed ==
  ASSUME Typed, NEW c \in Changesets, NEW n \in Notes, NEW d \in Changesets, Reviewed(d),
         Reviewed(c), Settle(c, n)
  PROVE  Reviewed(d)'
<1>1. status[c] \notin {"none", "planned"}
  BY ShownIsRecorded DEF Settle
<1>2. CASE ~(status[c] \in Live /\ SameRevision(c))
  <2>1. /\ UNCHANGED <<status, revision, notes, agreed, displayed>>
        /\ review' = [review EXCEPT ![c] = Snapshot(c)]
    BY <1>2 DEF Settle, Refresh, proposal, history
  <2>2. QED
    BY <1>1, <2>1, ReviewedKept DEF Typed, Reviews
<1>3. CASE status[c] \in Live /\ SameRevision(c)
  <2>1. /\ notes' = [notes EXCEPT ![c][n].settled = TRUE]
        /\ revision' = [revision EXCEPT ![c] = @ + 1]
        /\ review' = [review EXCEPT ![c].revision = revision[c] + 1, ![c].notes = Values(c)]
        /\ agreed' = [agreed EXCEPT ![c][n] = review[c].notes[n]]
        /\ UNCHANGED <<status, displayed>>
    BY <1>3 DEF Settle, history
  <2>2. CASE d # c
    BY <2>1, <2>2, ReviewedKept DEF Typed, Proposals, Reviews
  <2>3. CASE d = c
    <3>1. PICK f \in [Notes -> Noted] : f = notes[c]
      BY ReadTypes
    <3>2. PICK v : v = Values(c)
      OBVIOUS
    <3>3. review[c].revision = revision[c] /\ review[c].notes = v
      BY <1>3, <2>3, <3>2 DEF Reviewed, SameRevision
    <3>4. \A m \in Notes : v[m] = f[m].value
      BY <3>1, <3>2 DEF Values
    <3>5. /\ notes'[c] \in [Notes -> Noted]
          /\ \A m \in Notes : /\ notes'[c][m].value = f[m].value
                              /\ m # n => notes'[c][m].settled = f[m].settled
      <4>1. notes'[c] = [f EXCEPT ![n].settled = TRUE]
        BY <2>1, <3>1 DEF Typed, Proposals
      <4>2. PICK r \in Noted : r = f[n]
        BY <3>1
      <4>3. PICK s : s = [r EXCEPT !.settled = TRUE]
        OBVIOUS
      <4>4. s \in Noted /\ s.value = r.value
        BY <4>2, <4>3 DEF Noted
      <4>5. notes'[c] = [f EXCEPT ![n] = s]
        BY ONLY <4>1, <4>2, <4>3
      <4>6. QED
        BY ONLY <3>1, <4>2, <4>4, <4>5
    <3>6. agreed'[c][n] = v[n] /\ \A m \in Notes : m # n => agreed'[c][m] = agreed[c][m]
      <4>1. PICK g \in [Notes -> Nat] : g = agreed[c]
        BY DEF Typed, Reviews
      <4>2. agreed'[c] = [g EXCEPT ![n] = v[n]]
        BY <2>1, <3>3, <4>1 DEF Typed, Reviews
      <4>3. QED
        BY <4>1, <4>2
    <3>7. \A m \in Notes : notes'[c][m].settled => agreed'[c][m] = notes'[c][m].value
      <4>1. \A m \in Notes : f[m].settled => agreed[c][m] = f[m].value
        BY <2>3, <3>1 DEF Reviewed
      <4>2. QED
        BY ONLY <3>4, <3>5, <3>6, <4>1
    <3>8. review'[c].revision = revision'[c] /\ review'[c].notes = v
      <4>1. PICK r \in Dialogs : r = review[c]
        BY DEF Typed, Reviews
      <4>2. review'[c] = [r EXCEPT !.revision = revision[c] + 1, !.notes = v]
        BY <2>1, <3>2, <4>1 DEF Typed, Reviews
      <4>3. revision'[c] = revision[c] + 1
        BY <2>1 DEF Typed, Proposals
      <4>4. QED
        BY <4>1, <4>2, <4>3 DEF Dialogs
    <3>9. Values(c)' = v
      <4>1. Values(c)' = [m \in Notes |-> f[m].value]
        BY <3>5 DEF Values
      <4>2. QED
        BY <3>1, <3>2, <4>1 DEF Values
    <3>10. status'[c] \notin {"none", "planned", "applied", "undone"}
      BY <1>3, <2>1 DEF Live
    <3>11. revision'[c] \in Nat
      BY <2>1 DEF Typed, Proposals
    <3>12. QED
      BY <2>3, <3>7, <3>8, <3>9, <3>10, <3>11 DEF Reviewed
  <2>4. QED
    BY <2>2, <2>3
<1>4. QED
  BY <1>2, <1>3

\* What is accepted is what is shown.
LEMMA AcceptReviewed ==
  ASSUME Typed, NEW c \in Changesets, NEW d \in Changesets, Reviewed(d), Accept(c)
  PROVE  Reviewed(d)'
<1>1. /\ d # c => /\ status'[d] = status[d] /\ review'[d] = review[d]
                  /\ displayed'[d] = displayed[d]
      /\ status'[c] = "applied" /\ review'[c] = NotShown
      /\ displayed'[c] = review[c].notes
      /\ UNCHANGED <<revision, notes, agreed>>
  BY DEF Accept, proposal, Typed, Proposals, Reviews
<1>2. CASE d # c
  BY <1>1, <1>2, ReviewedKept
<1>3. CASE d = c
  <2>1. displayed'[c] = Values(c) /\ Values(c)' = Values(c)
    BY <1>1, <1>3 DEF Accept, Approvable, SameRevision, Reviewed, Values
  <2>2. \A n \in Notes \ Minor : notes'[c][n].value # 0 => notes'[c][n].settled
    BY <1>1 DEF Accept, Blocked
  <2>3. review'[c].revision = -1 /\ revision'[c] \in Nat
    BY <1>1 DEF NotShown, Typed, Proposals
  <2>4. \A n \in Notes : notes'[c][n].settled => agreed'[c][n] = notes'[c][n].value
    BY <1>1, <1>3 DEF Reviewed
  <2>5. QED
    BY <1>1, <1>3, <2>1, <2>2, <2>3, <2>4 DEF Reviewed
<1>4. QED
  BY <1>2, <1>3

\* What is shown as accepted and agreed stays true.
LEMMA ReviewedStep ==
  ASSUME Typed, \A c \in Changesets : Reviewed(c), Stacked, [Next]_vars
  PROVE  \A d \in Changesets : Reviewed(d)'
<1> SUFFICES ASSUME NEW d \in Changesets PROVE Reviewed(d)'
  OBVIOUS
<1> DEFINE Same == UNCHANGED <<revision, notes, agreed, displayed>>
<1>1. ASSUME NEW c \in Changesets, Plan(c) PROVE Reviewed(d)'
  <2>1. /\ Same /\ review' = review
        /\ status[c] = "none" /\ status'[c] = "planned"
        /\ d # c => status'[d] = status[d]
    BY <1>1 DEF Plan, history, Typed, Proposals
  <2>2. QED
    BY <2>1, ReviewedKept
<1>2. ASSUME NEW c \in Changesets, Add(c) PROVE Reviewed(d)'
  BY <1>2, AddReviewed
<1>3. ASSUME NEW c \in Changesets, RequestApply(c) PROVE Reviewed(d)'
  <2>1. /\ Same
        /\ status'[c] \in {"pending_approval", "closed"}
        /\ review'[c] \in {review[c], Snapshot(c)}
        /\ d # c => status'[d] = status[d] /\ review'[d] = review[d]
    BY <1>3 DEF RequestApply, proposal, history, Typed, Proposals, Reviews
  <2>2. QED
    BY <2>1, ReviewedKept
<1>4. ASSUME NEW c \in Changesets, Discard(c) PROVE Reviewed(d)'
  <2>1. /\ Same /\ review' = review
        /\ status'[c] = "closed"
        /\ d # c => status'[d] = status[d]
    BY <1>4 DEF Discard, proposal, history, Typed, Proposals
  <2>2. QED
    BY <2>1, ReviewedKept
<1>5. ASSUME NEW c \in Changesets, NEW n \in Notes, Revise(c, n) PROVE Reviewed(d)'
  BY <1>5, ReviseReviewed
<1>6. ASSUME NEW c \in Changesets, Accept(c) PROVE Reviewed(d)'
  BY <1>6, AcceptReviewed
<1>7. ASSUME NEW c \in Changesets, AcceptRefused(c) PROVE Reviewed(d)'
  <2>1. status[c] \notin {"none", "planned"}
    BY <1>7, ShownIsRecorded DEF AcceptRefused
  <2>2. /\ Same
        /\ status'[c] \in {status[c], "closed"}
        /\ review'[c] = Snapshot(c)
        /\ d # c => status'[d] = status[d] /\ review'[d] = review[d]
    BY <1>7 DEF AcceptRefused, Refresh, proposal, history, Typed, Proposals, Reviews
  <2>3. QED
    BY <2>1, <2>2, ReviewedKept
<1>8. ASSUME NEW c \in Changesets, AcceptFails(c) PROVE Reviewed(d)'
  <2>1. /\ Same /\ review' = review
        /\ status'[c] = "closed"
        /\ d # c => status'[d] = status[d]
    BY <1>8 DEF AcceptFails, proposal, history, Typed, Proposals
  <2>2. QED
    BY <2>1, ReviewedKept
<1>9. ASSUME NEW c \in Changesets, CloseReview(c) PROVE Reviewed(d)'
  <2>1. /\ Same
        /\ status'[c] \in {status[c], "closed"}
        /\ review'[c] = NotShown
        /\ d # c => status'[d] = status[d] /\ review'[d] = review[d]
    BY <1>9 DEF CloseReview, proposal, history, Typed, Proposals, Reviews
  <2>2. QED
    BY <2>1, ReviewedKept
<1>10. ASSUME NEW c \in Changesets, NEW n \in Notes, Settle(c, n) PROVE Reviewed(d)'
  BY <1>10, SettleReviewed
<1>11. ASSUME NEW c \in Changesets, Revert(c) PROVE Reviewed(d)'
  <2>1. /\ Same /\ review' = review
        /\ status[c] = "applied" /\ status'[c] = "undone"
        /\ d # c => status'[d] = status[d]
    BY <1>11 DEF Revert, Untouched, proposal, Typed, Proposals
  <2>2. QED
    BY <2>1, ReviewedKept
<1>12. CASE Same /\ UNCHANGED <<status, review>>
  BY <1>12, ReviewedKept
<1>13. CASE Client
  BY <1>1, <1>2, <1>3, <1>4, <1>5, <1>13 DEF Client
<1>14. CASE Reviewer
  BY <1>6, <1>7, <1>8, <1>9, <1>10, <1>14 DEF Reviewer
<1>15. CASE User
  <2>1. ASSUME HistoryUndo PROVE \E c \in Changesets : Revert(c)
    BY <2>1, PopFacts DEF HistoryUndo, Typed, Records
  <2>2. ASSUME NEW c \in Changesets, PipeUndo(c) PROVE Revert(c)
    BY <2>2 DEF PipeUndo
  <2>3. ASSUME \/ HistoryUndoRefused \/ Edit
               \/ \E c \in Changesets : DiscardEntry(c)
               \/ \E b \in Bids : OpenBid(b)
        PROVE  Same /\ UNCHANGED <<status, review>>
    BY <2>3 DEF HistoryUndoRefused, Edit, DiscardEntry, OpenBid, contents, proposal
  <2>4. QED
    BY <1>11, <1>12, <1>15, <2>1, <2>2, <2>3 DEF User
<1>16. CASE UNCHANGED vars
  BY <1>12, <1>16 DEF vars
<1>17. QED
  BY <1>13, <1>14, <1>15, <1>16 DEF Next

\* The stacks as the status of the changesets on them stays.
LEMMA StackedKept ==
  ASSUME Stacked, UNCHANGED undo, redo' = redo \/ redo' = <<>>,
         \A c \in Changesets : status[c] \in {"applied", "undone"} => status'[c] = status[c]
  PROVE  Stacked'
<1>1. Distinct(<<>>) /\ \A c \in Changesets : ~In(<<>>, c)
  BY DEF Distinct, In
<1>2. Distinct(redo)' /\ \A c \in Changesets : In(redo, c)' => In(redo, c)
  BY <1>1 DEF Stacked, Distinct, In
<1>3. Distinct(undo)' /\ \A c \in Changesets : In(undo, c)' => In(undo, c)
  BY DEF Stacked, Distinct, In
<1>4. QED
  BY <1>2, <1>3 DEF Stacked

\* A changeset that is accepted is on top of the history, and nothing is left to redo.
LEMMA AcceptStacked ==
  ASSUME Typed, Stacked, NEW c \in Changesets, Accept(c)
  PROVE  Stacked'
<1>1. /\ undo' = Append(undo, c) /\ redo' = <<>>
      /\ status[c] = "pending_approval" /\ status' = [status EXCEPT ![c] = "applied"]
  BY DEF Accept, Approvable
<1>2. undo \in Seq(Changesets) /\ ~In(undo, c)
  BY <1>1 DEF Stacked, Typed, Records
<1>3. PICK u : u = undo'
  OBVIOUS
<1>4. Distinct(u) /\ \A d : In(u, d) <=> In(undo, d) \/ d = c
  BY <1>1, <1>2, <1>3, PushFacts DEF Stacked
<1>5. Distinct(<<>>) /\ \A d \in Changesets : ~In(<<>>, d)
  BY DEF Distinct, In
<1>6. Distinct(redo)' /\ \A d \in Changesets : ~In(redo, d)'
  BY <1>1, <1>5 DEF Distinct, In
<1>7. Distinct(undo)' /\ \A d \in Changesets : In(undo, d)' => In(undo, d) \/ d = c
  BY <1>3, <1>4 DEF Distinct, In
<1>8. \A d \in Changesets : In(undo, d)' => status'[d] = "applied"
  BY <1>1, <1>7 DEF Stacked, Typed, Proposals
<1>9. QED
  BY <1>6, <1>7, <1>8 DEF Stacked

\* What the user undoes goes from one stack to the other.
LEMMA UndoStacked ==
  ASSUME Typed, Stacked, HistoryUndo
  PROVE  Stacked'
<1>1. PICK c \in Changesets : c = Last(undo)
  BY PopFacts DEF HistoryUndo, Typed, Records
<1>2. /\ undo # <<>> /\ undo' = Front(undo) /\ redo' = Append(redo, c)
      /\ status[c] = "applied" /\ status' = [status EXCEPT ![c] = "undone"]
  BY <1>1 DEF HistoryUndo, Revert, Untouched
<1>3. /\ undo \in Seq(Changesets) /\ redo \in Seq(Changesets)
      /\ Distinct(undo) /\ Distinct(redo) /\ ~In(redo, c)
  BY <1>2 DEF Stacked, Typed, Records
<1>4. PICK u : u = Front(undo)
  OBVIOUS
<1>5. Distinct(u) /\ ~In(u, c) /\ \A d : In(u, d) => In(undo, d)
  BY <1>1, <1>2, <1>3, <1>4, PopFacts
<1>6. PICK r : r = Append(redo, c)
  OBVIOUS
<1>7. Distinct(r) /\ \A d : In(r, d) <=> In(redo, d) \/ d = c
  BY <1>3, <1>6, PushFacts
<1>8. undo' = u /\ redo' = r
  BY <1>2, <1>4, <1>6
<1>9. /\ Distinct(undo)' /\ Distinct(redo)'
      /\ \A d \in Changesets : In(undo, d)' => In(undo, d) /\ d # c
      /\ \A d \in Changesets : In(redo, d)' => In(redo, d) \/ d = c
  BY <1>5, <1>7, <1>8 DEF Distinct, In
<1>10. /\ status'[c] = "undone"
       /\ \A d \in Changesets : d # c => status'[d] = status[d]
  BY <1>2 DEF Typed, Proposals
<1>11. QED
  BY <1>9, <1>10 DEF Stacked

\* An entry that leaves the history, for good or because the client undid it.
LEMMA EntryRemoved ==
  ASSUME Typed, Stacked, NEW c \in Changesets, undo' = Without(undo, c), redo' = redo,
         \/ status' = status
         \/ status[c] = "applied" /\ status' = [status EXCEPT ![c] = "undone"]
  PROVE  Stacked'
<1>1. PICK u : u = Without(undo, c)
  OBVIOUS
<1>2. Distinct(u) /\ \A d : In(u, d) => In(undo, d) /\ d # c
  BY <1>1, WithoutFacts DEF Stacked, Typed, Records
<1>3. Distinct(undo)' /\ \A d \in Changesets : In(undo, d)' => In(undo, d) /\ d # c
  BY <1>1, <1>2 DEF Distinct, In
<1>4. Distinct(redo)' /\ \A d \in Changesets : In(redo, d)' => In(redo, d)
  BY DEF Stacked, Distinct, In
<1>5. /\ \A d \in Changesets : d # c => status'[d] = status[d]
      /\ status[c] = "undone" => status'[c] = "undone"
  BY DEF Typed, Proposals
<1>6. QED
  BY <1>3, <1>4, <1>5 DEF Stacked

\* The stacks as another bid is opened.
LEMMA BidStacked ==
  ASSUME undo' = <<>>, redo' = <<>>
  PROVE  Stacked'
<1>1. Distinct(<<>>) /\ \A c \in Changesets : ~In(<<>>, c)
  BY DEF Distinct, In
<1>2. /\ Distinct(undo)' /\ Distinct(redo)'
      /\ \A c \in Changesets : ~In(undo, c)' /\ ~In(redo, c)'
  BY <1>1 DEF Distinct, In
<1>3. QED
  BY <1>2 DEF Stacked

\* The stacks stay what they are.
LEMMA StackedStep ==
  ASSUME Typed, Stacked, [Next]_vars
  PROVE  Stacked'
<1> DEFINE Settled ==
      \A c \in Changesets : status[c] \in {"applied", "undone"} => status'[c] = status[c]
<1>1. CASE Client
  <2>1. ASSUME NEW c \in Changesets, Plan(c) \/ Add(c) \/ RequestApply(c) \/ Discard(c)
        PROVE  Settled
    BY <2>1 DEF Plan, Add, RequestApply, Discard, Live, Typed, Proposals
  <2>2. ASSUME NEW c \in Changesets, NEW n \in Notes, Revise(c, n) PROVE Settled
    BY <2>2 DEF Revise
  <2>3. Settled
    BY <1>1, <2>1, <2>2 DEF Client
  <2>4. UNCHANGED <<undo, redo>>
    BY <1>1 DEF Client, Plan, Add, RequestApply, Discard, Revise, history
  <2>5. QED
    BY <2>3, <2>4, StackedKept
<1>2. CASE Reviewer
  <2>1. ASSUME NEW c \in Changesets, AcceptRefused(c) \/ AcceptFails(c) \/ CloseReview(c)
        PROVE  Settled /\ UNCHANGED <<undo, redo>>
    <3>1. UNCHANGED <<undo, redo>>
      BY <2>1 DEF AcceptRefused, Refresh, AcceptFails, CloseReview, history
    <3>2. \/ status' = status
          \/ status[c] \in Live /\ status' = [status EXCEPT ![c] = "closed"]
      BY <2>1 DEF AcceptRefused, AcceptFails, CloseReview, Approvable, Live
    <3>3. QED
      BY <3>1, <3>2 DEF Live, Typed, Proposals
  <2>2. ASSUME NEW c \in Changesets, NEW n \in Notes, Settle(c, n)
        PROVE  Settled /\ UNCHANGED <<undo, redo>>
    BY <2>2 DEF Settle, Refresh, history
  <2>3. QED
    BY <1>2, <2>1, <2>2, AcceptStacked, StackedKept DEF Reviewer
<1>3. CASE User
  <2>1. ASSUME HistoryUndoRefused \/ Edit PROVE Stacked'
    BY <2>1, StackedKept DEF HistoryUndoRefused, Edit
  <2>2. ASSUME NEW c \in Changesets, DiscardEntry(c) \/ PipeUndo(c) PROVE Stacked'
    <3>1. /\ undo' = Without(undo, c) /\ redo' = redo
          /\ \/ status' = status
             \/ status[c] = "applied" /\ status' = [status EXCEPT ![c] = "undone"]
      BY <2>2 DEF DiscardEntry, PipeUndo, Revert, Untouched
    <3>2. QED
      BY <3>1, EntryRemoved
  <2>3. ASSUME NEW b \in Bids, OpenBid(b) PROVE Stacked'
    BY <2>3, BidStacked DEF OpenBid
  <2>4. QED
    BY <1>3, <2>1, <2>2, <2>3, UndoStacked DEF User
<1>4. CASE UNCHANGED vars
  BY <1>4, StackedKept DEF vars
<1>5. QED
  BY <1>1, <1>2, <1>3, <1>4 DEF Next

\* What is accepted is recorded as it was applied, to the page it was compared with.
LEMMA AcceptRecorded ==
  ASSUME Typed, NEW c \in Changesets, Accept(c)
  PROVE  Recorded(c)'
<1>1. /\ status'[c] = "applied" /\ base' = base
      /\ result'[c] = Made(c, Applied(c))
      /\ before'[c] = page[bidOf[c]]
      /\ base[c] = Touched(c)
  BY DEF Accept, Fresh, proposal, Typed, Proposals, Records
<1>2. PICK p \in Pages : p = page[bidOf[c]]
  BY WrittenTypes
<1>3. CASE base[c] = Closed
  BY <1>1, <1>3 DEF Recorded
<1>4. CASE base[c] # Closed
  <2>1. open = bidOf[c]
    BY <1>1, <1>4 DEF Touched, Token
  <2>2. CASE c \in Scales
    <3>1. base[c] = p /\ Applied(c) = [p EXCEPT !.scale = c]
      BY <1>1, <1>2, <2>1, <2>2 DEF Touched, Token, Applied
    <3>2. result'[c] = [p EXCEPT !.scale = c]
      BY <1>1, <2>1, <2>2, <3>1 DEF Made, Token
    <3>3. QED
      BY <1>1, <1>2, <2>2, <3>1, <3>2 DEF Recorded
  <2>3. CASE c \notin Scales
    <3>1. Applied(c) = [p EXCEPT !.made[c] = "intact"]
      BY <1>2, <2>3 DEF Applied
    <3>2. Applied(c).made[c] = "intact"
      BY <3>1, PageTypes
    <3>3. result'[c] = "intact"
      BY <1>1, <2>1, <2>3, <3>2 DEF Made, Token
    <3>4. QED
      BY <1>1, <2>3, <3>3 DEF Recorded
  <2>4. QED
    BY <2>2, <2>3
<1>5. QED
  BY <1>3, <1>4

\* What is applied keeps the record of how it was.
LEMMA RecordedStep ==
  ASSUME Typed, \A c \in Changesets : Recorded(c), [Next]_vars
  PROVE  \A d \in Changesets : Recorded(d)'
<1> SUFFICES ASSUME NEW d \in Changesets PROVE Recorded(d)'
  OBVIOUS
<1> DEFINE Kept ==
      /\ status'[d] = "applied" => status[d] = "applied" /\ base'[d] = base[d]
      /\ result'[d] = result[d] /\ before'[d] = before[d]
<1>1. ASSUME Kept PROVE Recorded(d)'
  <2>1. status'[d] = "applied" /\ base'[d] # Closed =>
          IF d \in Scales
          THEN result'[d] = [before'[d] EXCEPT !.scale = d] /\ base'[d] = before'[d]
          ELSE result'[d] = "intact"
    BY <1>1 DEF Recorded
  <2>2. QED
    BY <2>1 DEF Recorded
<1>2. CASE Client
  <2>1. UNCHANGED <<result, before>>
    BY <1>2 DEF Client, Plan, Add, RequestApply, Discard, Revise, history
  <2>2. ASSUME NEW c \in Changesets, Plan(c) \/ RequestApply(c) \/ Discard(c) PROVE Kept
    BY <2>1, <2>2 DEF Plan, RequestApply, Discard, proposal, Live, Typed, Proposals
  <2>3. ASSUME NEW c \in Changesets, Add(c) PROVE Kept
    <3>1. /\ status'[c] # "applied"
          /\ d # c => status'[d] = status[d] /\ base'[d] = base[d]
      BY <2>3 DEF Add, Typed, Proposals
    <3>2. QED
      BY <2>1, <3>1
  <2>4. ASSUME NEW c \in Changesets, NEW n \in Notes, Revise(c, n) PROVE Kept
    BY <2>1, <2>4 DEF Revise
  <2>5. QED
    BY <1>1, <1>2, <2>2, <2>3, <2>4 DEF Client
<1>3. CASE Reviewer
  <2>1. ASSUME NEW c \in Changesets, AcceptRefused(c) \/ AcceptFails(c) \/ CloseReview(c)
        PROVE  Kept
    <3>1. UNCHANGED <<result, before, base>>
      BY <2>1 DEF AcceptRefused, Refresh, AcceptFails, CloseReview, history, proposal
    <3>2. status' = status \/ status' = [status EXCEPT ![c] = "closed"]
      BY <2>1 DEF AcceptRefused, AcceptFails, CloseReview
    <3>3. QED
      BY <3>1, <3>2 DEF Typed, Proposals
  <2>2. ASSUME NEW c \in Changesets, NEW n \in Notes, Settle(c, n) PROVE Kept
    BY <2>2 DEF Settle, Refresh, history, proposal
  <2>3. ASSUME NEW c \in Changesets, Accept(c), d # c PROVE Kept
    BY <2>3 DEF Accept, proposal, Typed, Proposals, Records
  <2>4. QED
    BY <1>1, <1>3, <2>1, <2>2, <2>3, AcceptRecorded DEF Reviewer
<1>4. CASE User
  <2>1. UNCHANGED <<result, before, base>>
    BY <1>4 DEF User, HistoryUndo, HistoryUndoRefused, DiscardEntry, PipeUndo, Revert, Edit,
                OpenBid, proposal
  <2>2. ASSUME NEW c, Revert(c) PROVE Kept
    BY <2>1, <2>2 DEF Revert, Typed, Proposals
  <2>3. ASSUME status' = status PROVE Kept
    BY <2>1, <2>3
  <2>4. status' = status \/ \E c : Revert(c)
    BY <1>4 DEF User, HistoryUndo, HistoryUndoRefused, DiscardEntry, PipeUndo, Edit, OpenBid
  <2>5. QED
    BY <1>1, <2>2, <2>3, <2>4
<1>5. CASE UNCHANGED vars
  BY <1>1, <1>5 DEF vars
<1>6. QED
  BY <1>2, <1>3, <1>4, <1>5 DEF Next

-----------------------------------------------------------------------------
(* The theorems. *)

LEMMA ChangesetInit ==
  ASSUME Init
  PROVE  ChangesetInv
<1>1. Contents
  BY BoundsAssumption DEF Init, Contents, Pages
<1>2. Proposals
  BY BoundsAssumption DEF Init, Proposals, Noted, Digests
<1>3. Reviews
  <2>1. \A c \in Changesets : Values(c) = [n \in Notes |-> 0]
    BY DEF Init, Values
  <2>2. displayed = [c \in Changesets |-> [n \in Notes |-> 0]] /\ agreed = displayed
    BY <2>1 DEF Init
  <2>3. QED
    BY <2>2 DEF Init, Reviews, NotShown, Dialogs
<1>4. Records
  <2>1. <<>> \in Seq(Changesets)
    OBVIOUS
  <2>2. page[open] \in Pages
    BY <1>1 DEF Contents
  <2>3. QED
    BY <2>1, <2>2 DEF Init, Records, Digests
<1>5. ASSUME NEW c \in Changesets PROVE Reviewed(c)
  <2>1. /\ status[c] = "none" /\ review[c] = NotShown /\ revision[c] = 0
        /\ \A n \in Notes : notes[c][n].settled = FALSE
    BY <1>5 DEF Init
  <2>2. review[c].revision = -1
    BY <2>1 DEF NotShown
  <2>3. QED
    BY <2>1, <2>2 DEF Reviewed
<1>6. ASSUME NEW c \in Changesets PROVE Recorded(c)
  BY <1>6 DEF Init, Recorded
<1>7. Stacked
  BY DEF Init, Stacked, Distinct, In
<1>8. QED
  BY <1>1, <1>2, <1>3, <1>4, <1>5, <1>6, <1>7 DEF ChangesetInv, Typed

LEMMA ChangesetStep ==
  ASSUME ChangesetInv, [Next]_vars
  PROVE  ChangesetInv'
<1>1. Typed /\ Stacked /\ \A c \in Changesets : Reviewed(c) /\ Recorded(c)
  BY DEF ChangesetInv
<1>2. Typed'
  BY <1>1, ContentsStep, ProposalsStep, ReviewsStep, RecordsStep DEF Typed
<1>3. Stacked'
  BY <1>1, StackedStep
<1>4. (\A c \in Changesets : Reviewed(c)') /\ (\A c \in Changesets : Recorded(c)')
  BY <1>1, ReviewedStep, RecordedStep
<1>5. QED
  BY <1>2, <1>3, <1>4 DEF ChangesetInv

\* The inductive invariant holds.
THEOREM ChangesetInvCorrect == Spec => []ChangesetInv
<1>1. Init => ChangesetInv
  BY ChangesetInit
<1>2. ChangesetInv /\ [Next]_vars => ChangesetInv'
  BY ChangesetStep
<1>3. QED
  BY <1>1, <1>2, PTL DEF Spec

\* Only what the user reviewed is applied (ai_changeset_store.py, the accept of the
\* review service): ReviewedIsApplied.
THEOREM ReviewCorrect == Spec => []ReviewedIsApplied
<1>1. ChangesetInv => ReviewedIsApplied
  <2>1. SUFFICES ASSUME ChangesetInv, NEW c \in Changesets, status[c] \in {"applied", "undone"}
                 PROVE  /\ displayed[c] = Values(c)
                        /\ \A n \in Notes \ Minor :
                             notes[c][n].value # 0 => agreed[c][n] = notes[c][n].value
    BY DEF ReviewedIsApplied
  <2>2. Reviewed(c)
    BY <2>1 DEF ChangesetInv
  <2>3. QED
    BY <2>1, <2>2 DEF Reviewed
<1>2. QED
  BY <1>1, ChangesetInvCorrect, PTL

\* The stacks of the history are true of the changesets on them (_push_undo,
\* discard_undo_entry, undo): HistoryIsTrue.
THEOREM HistoryCorrect == Spec => []HistoryIsTrue
<1>1. ChangesetInv => HistoryIsTrue
  <2>1. SUFFICES ASSUME ChangesetInv PROVE HistoryIsTrue
    OBVIOUS
  <2>2. Stacked /\ undo \in Seq(Changesets) /\ redo \in Seq(Changesets)
    BY <2>1 DEF ChangesetInv, Typed, Records
  <2>3. DOMAIN undo = 1..Len(undo) /\ DOMAIN redo = 1..Len(redo)
    BY <2>2
  <2>4. IsInjective(undo) /\ IsInjective(redo)
    BY <2>2, <2>3 DEF IsInjective, Stacked, Distinct
  <2>5. /\ \A c \in ToSet(undo) : c \in Changesets /\ In(undo, c)
        /\ \A c \in ToSet(redo) : c \in Changesets /\ In(redo, c)
    BY <2>2, <2>3, ElementOfSeq DEF ToSet, In
  <2>6. QED
    BY <2>2, <2>4, <2>5 DEF HistoryIsTrue, Stacked
<1>2. QED
  BY <1>1, ChangesetInvCorrect, PTL

\* Undoing a changeset takes away what it made and nothing else (undo, the comparison
\* with resulting_tokens, _run_scale_undo): UndoIsExact.
THEOREM UndoExactCorrect == Spec => UndoIsExact
<1> DEFINE Exact ==
      \A c \in Changesets :
        (status[c] = "applied" /\ status'[c] = "undone" /\ RecordedInTime(c)) =>
          IF c \in Scales THEN page'[bidOf[c]] = before[c]
          ELSE page[bidOf[c]].made[c] = "intact"
<1>1. ChangesetInv /\ [Next]_vars => Exact
  <2>1. SUFFICES ASSUME ChangesetInv, [Next]_vars, NEW c \in Changesets,
                        status[c] = "applied", status'[c] = "undone", RecordedInTime(c)
                 PROVE  IF c \in Scales THEN page'[bidOf[c]] = before[c]
                        ELSE page[bidOf[c]].made[c] = "intact"
    OBVIOUS
  <2>2. Typed /\ Recorded(c)
    BY <2>1 DEF ChangesetInv
  <2>3. Revert(c)
    <3>1. ~Client /\ ~UNCHANGED vars
      BY <2>1, <2>2 DEF Client, Plan, Add, RequestApply, Discard, Revise, Live, vars, Typed,
           Proposals
    <3>2. ~Reviewer
      <4>1. ASSUME NEW d \in Changesets, Accept(d) PROVE status'[c] # "undone"
        BY <2>1, <2>2, <4>1 DEF Accept, Typed, Proposals
      <4>2. ASSUME NEW d \in Changesets, AcceptRefused(d) \/ AcceptFails(d) \/ CloseReview(d)
            PROVE  status'[c] # "undone"
        BY <2>1, <2>2, <4>2 DEF AcceptRefused, AcceptFails, CloseReview, Typed, Proposals
      <4>3. ASSUME NEW d \in Changesets, NEW n \in Notes, Settle(d, n)
            PROVE  status'[c] # "undone"
        BY <2>1, <4>3 DEF Settle
      <4>4. QED
        BY <2>1, <4>1, <4>2, <4>3 DEF Reviewer
    <3>3. User
      BY <2>1, <3>1, <3>2 DEF Next
    <3>4. \E d : Revert(d)
      BY <2>1, <3>3 DEF User, HistoryUndo, HistoryUndoRefused, DiscardEntry, PipeUndo, Edit,
           OpenBid
    <3>5. QED
      BY <2>1, <2>2, <3>4 DEF Revert, Typed, Proposals
  <2>4. /\ Made(c, page[bidOf[c]]) = result[c]
        /\ page' = [page EXCEPT ![bidOf[c]] = Reverted(c)]
        /\ bidOf[c] \in Bids /\ page \in [Bids -> Pages] /\ page[bidOf[c]] \in Pages
    BY <2>2, <2>3 DEF Revert, Untouched, Typed, Contents, Proposals
  <2>5. PICK p \in Pages : p = page[bidOf[c]]
    BY <2>4
  <2>6. base[c] # Closed
    BY <2>1 DEF RecordedInTime
  <2>7. CASE c \in Scales
    <3>1. PICK b \in Pages : b = before[c]
      BY <2>2 DEF Typed, Records
    <3>2. result[c] = [b EXCEPT !.scale = c] /\ base[c] = b /\ planned[c] = b.scale
      BY <2>1, <2>2, <2>6, <2>7, <3>1 DEF Recorded, RecordedInTime
    <3>3. result[c] \in Pages
      BY <3>2, PageTypes
    <3>4. open = bidOf[c]
      BY <2>4, <3>3, ClosedAssumption DEF Made, Token
    <3>5. p = [b EXCEPT !.scale = c]
      BY <2>4, <2>5, <2>7, <3>2, <3>4 DEF Made, Token
    <3>6. Reverted(c) = [p EXCEPT !.scale = planned[c]]
      BY <2>5, <2>7 DEF Reverted
    <3>7. Reverted(c) = b
      <4>1. b = [scale |-> b.scale, drawn |-> b.drawn, made |-> b.made]
        BY <3>1 DEF Pages
      <4>2. p = [scale |-> c, drawn |-> b.drawn, made |-> b.made]
        BY ONLY <3>5, <4>1
      <4>3. Reverted(c) = [scale |-> b.scale, drawn |-> b.drawn, made |-> b.made]
        BY ONLY <3>2, <3>6, <4>2
      <4>4. QED
        BY ONLY <4>1, <4>3
    <3>8. QED
      BY <2>4, <2>7, <3>1, <3>7
  <2>8. CASE c \notin Scales
    <3>1. result[c] = "intact"
      BY <2>1, <2>2, <2>6, <2>8 DEF Recorded
    <3>2. open = bidOf[c]
      BY <2>4, <3>1, ClosedAssumption DEF Made, Token
    <3>3. QED
      BY <2>4, <2>8, <3>1, <3>2 DEF Made, Token
  <2>9. QED
    BY <2>7, <2>8
<1>2. QED
  BY <1>1, ChangesetInvCorrect, PTL DEF Spec, UndoIsExact
=============================================================================
