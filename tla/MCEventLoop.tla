---------------------------- MODULE MCEventLoop ----------------------------
(* Instances of EventLoop small enough for TLC. *)
EXTENDS EventLoop

CONSTANTS c1, c2, c3

MCClient == {c1, c2}

ThreeClients == {c1, c2, c3}
=============================================================================
