--------------------------- MODULE MutationOutcomes ---------------------------
(***************************************************************************)
(* What the write path promises the caller of a mutation, without threads, *)
(* sessions, journal or recovery: the fate of a mutation is decided once,  *)
(* and its caller may be told for a while that the fate is not known, but  *)
(* is given one final answer, which agrees with the fate and comes no      *)
(* sooner than it.                                                         *)
(***************************************************************************)
CONSTANT Ops   \* the mutations

VARIABLES
  fate,        \* whether each mutation may still be executed or has been
  told         \* what the caller of each mutation was last told

Init ==
  /\ fate = [op \in Ops |-> "open"]
  /\ told = [op \in Ops |-> "nothing"]

\* The server commits or rolls back a mutation, or it will never be executed.
Decide(op) ==
  /\ fate[op] = "open"
  /\ fate'[op] \in {"committed", "aborted"}
  /\ told'[op] = told[op]

\* A caller without a final answer is told the fate of its mutation, or that it is not
\* known. A refusal may decide it: the mutation is dropped before it was executed.
Report(op) ==
  /\ told[op] \in {"nothing", "unresolved"}
  /\ \/ told'[op] = "unresolved" /\ fate'[op] = fate[op]
     \/ told'[op] = "committed" /\ fate[op] = "committed" /\ fate'[op] = "committed"
     \/ told'[op] = "refused" /\ fate[op] # "committed" /\ fate'[op] = "aborted"

\* Nothing is promised of the order of different mutations: one step may report several.
Next ==
  \A op \in Ops : UNCHANGED <<fate[op], told[op]>> \/ Decide(op) \/ Report(op)

Spec == Init /\ [][Next]_<<fate, told>>
===============================================================================
