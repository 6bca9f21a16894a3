------------------------------ MODULE MCBytes -------------------------------
(***************************************************************************)
(* What the library computes from strings of bytes, for model checking:    *)
(* messages cut out of a stream, and paths taken apart.  A program has     *)
(* one of the two: a stream if its path is empty, and otherwise a path,    *)
(* with the connections of its stream used up.                             *)
(***************************************************************************)
EXTENDS MessageOriented, Path

allVars == <<vars, pathVars>>

MCInit == PathInit /\ InitAt(IF m_pathname = <<>> THEN 1 ELSE MaxConnections)

MCNext == \/ m_pathname = <<>> /\ Next /\ UNCHANGED pathVars
          \/ PathStep /\ UNCHANGED vars

MCSpec == MCInit /\ [][MCNext]_allVars
=============================================================================
