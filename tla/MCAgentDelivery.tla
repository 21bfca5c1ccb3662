-------------------------- MODULE MCAgentDelivery --------------------------
(* Instances of AgentDelivery small enough for TLC. *)
EXTENDS AgentDelivery

MCClockMod == 64
=============================================================================
