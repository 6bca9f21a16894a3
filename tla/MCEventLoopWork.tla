-------------------------- MODULE MCEventLoopWork ---------------------------
(* EventLoopWork for TLC: works and pool threads are interchangeable. *)
EXTENDS EventLoopWork, TLC

Symmetry == Permutations(Works) \cup Permutations(Workers)
=============================================================================
