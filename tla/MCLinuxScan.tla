---------------------------- MODULE MCLinuxScan ----------------------------
(* Instances of LinuxScan small enough for TLC. *)
EXTENDS LinuxScan

MCPid == {1, 2}
=============================================================================
