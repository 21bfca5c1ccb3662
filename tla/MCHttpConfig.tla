--------------------------- MODULE MCHttpConfig ----------------------------
(* Instances of HttpConfig small enough for TLC. *)
EXTENDS HttpConfig, TLC

CONSTANTS p1, p2, a1, a2

MCPort == {p1, p2}
MCAccount == {a1, a2}

MCSymmetry == Permutations(MCPort) \cup Permutations(MCAccount)
=============================================================================
