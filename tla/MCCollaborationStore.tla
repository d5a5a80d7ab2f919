------------------------- MODULE MCCollaborationStore -------------------------
(* Interchangeable sessions and operations; the sort keys of the resources. *)
EXTENDS CollaborationStore, TLC

CONSTANT i1

BidAndItemRanks == Bid :> 0 @@ i1 :> 1

Symmetry == Permutations(Sessions) \cup Permutations(Ops)
===============================================================================
