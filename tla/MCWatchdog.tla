----------------------------- MODULE MCWatchdog -----------------------------
(* Instances of Watchdog small enough for TLC. *)
EXTENDS Watchdog
=============================================================================
