---------------------------- MODULE MCNodeAgent ----------------------------
(* Instances of NodeAgent small enough for TLC. *)
EXTENDS NodeAgent

CONSTANT d1

MCDest == {d1}
=============================================================================
