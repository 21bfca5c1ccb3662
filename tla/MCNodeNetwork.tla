--------------------------- MODULE MCNodeNetwork ---------------------------
(* Instances of NodeNetwork small enough for TLC. *)
EXTENDS NodeNetwork

CONSTANTS d1, d2

MCDest == {d1, d2}
MCOneDest == {d1}
=============================================================================
