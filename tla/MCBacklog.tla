----------------------------- MODULE MCBacklog ------------------------------
(* BacklogWithTimeout for TLC: the items are interchangeable. *)
EXTENDS BacklogWithTimeout, TLC

Symmetry == Permutations(Items)
=============================================================================
