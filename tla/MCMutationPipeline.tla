-------------------------- MODULE MCMutationPipeline --------------------------
(* Two interchangeable mutations, of which TLC explores one order. *)
EXTENDS MutationPipeline, TLC

Symmetry == Permutations(Ops)
===============================================================================
