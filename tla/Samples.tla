------------------------------ MODULE Samples ------------------------------
(***************************************************************************)
(* What the two agents send of a process: process_info__packet_new         *)
(* (agent-linux/src/util_process_info.c), and encodeAndSendHash            *)
(* (agent-node/src/collectps_network.js) of what appendCurrentProcess      *)
(* (agent-node/src/collectps_process.js) completes.                        *)
(*                                                                         *)
(* A definition whose name ends in Mutant is the one that follows it with  *)
(* a bug: no part of the specification, but what a property is tried on.   *)
(***************************************************************************)
EXTENDS Packet, SequencesExt, FiniteSets, TLC

CONSTANT IntMod  \* 2^32: the int a number goes through on Linux

(* What a Linux process may lack. *)
Null == Text("")
Optional == {"pw_name", "gr_name", "name", "cmd"}

(* buffer_append_int_as_string: "%d" of an int. *)
IntText(v) == Text(ToString(((v + (IntMod \div 2)) % IntMod) - (IntMod \div 2)))

(* The elements, counted in a first pass. *)
NbElem(info) == 9 + Cardinality({f \in Optional : info[f] # Null})

(* The elements, written in a second pass. *)
Fields(info) ==
    SelectSeq(<<"cdtime", "hostname", "pid", "ppid", "uid", "pw_name", "gid",
                "gr_name", "rss", "sload", "uload", "name", "cmd">>,
              LAMBDA f : f \notin Optional \/ info[f] # Null)

LinuxValue(info, f) ==
    IF f \in Optional \cup {"hostname"} THEN info[f] ELSE IntText(info[f])

LinuxHash(info) ==
    <<HashHeader(NbElem(info))>>
      \o FlattenSeq([i \in 1..Len(Fields(info)) |->
                       <<Text(Fields(info)[i]), LinuxValue(info, Fields(info)[i])>>])

(* parseData adds the fields of a Windows process in the order Powershell  *)
(* writes them, appendCurrentProcess the date and the name of the host.    *)
WindowsKeys == <<"Name", "PID", "VirtualSize", "User", "ThreadCount",
                 "stime", "utime", "cmd", "cdtime", "hostname">>

WindowsHash(p) ==
    LET keys == SelectSeq(WindowsKeys, LAMBDA k : k \in DOMAIN p)
    IN  <<HashHeader(Len(keys))>>
          \o FlattenSeq([i \in 1..Len(keys) |-> <<Text(keys[i]), p[keys[i]]>>])

(* object_buffer_read: the header and the packets it counts. *)
Received(packets) == SubSeq(packets, 1, 1 + 2 * packets[1].count)
=============================================================================
