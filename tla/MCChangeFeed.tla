------------------------------ MODULE MCChangeFeed ------------------------------
(* Interchangeable bids. *)
EXTENDS ChangeFeed, TLC

Symmetry == Permutations(Bids)
=================================================================================
