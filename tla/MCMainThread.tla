---------------------------- MODULE MCMainThread ----------------------------
(***************************************************************************)
(* MainThread on small instances: a behaviour has the steps of one part,   *)
(* the one that is `live`; the other stays as it begins, so that the state *)
(* spaces add up and do not multiply.                                      *)
(***************************************************************************)
EXTENDS MainThread

VARIABLE live

MCInit ==
  /\ MainInit
  /\ \/ live = "layers"
     \/ live = "changesets" /\ sql = FALSE /\ wanted = [l \in Layers |-> TRUE]

MCNext ==
  \/ live = "layers" /\ DWNext /\ UNCHANGED <<live, vars>>
  \/ live = "changesets" /\ Next /\ UNCHANGED <<live, dwVars>>

MCSpec == MCInit /\ [][MCNext]_<<live, vars, dwVars>>

\* Layers, and bids, are interchangeable.
Symmetry == Permutations(Layers) \cup Permutations(Bids)
=============================================================================
