----------------------------- MODULE NodeAgent -----------------------------
(***************************************************************************)
(* The Windows agent as a whole (agent-node/src/collectps.js): the list a  *)
(* flush of NodeProcess emits is sent by NodeNetwork in the same callback. *)
(*                                                                         *)
(* What NodeNetwork calls a scan is the list of one emit, which may be a   *)
(* part of what a Powershell printed.                                      *)
(***************************************************************************)
EXTENDS NodeProcess

CONSTANTS Dest, msgqueueMaxSize, MaxBatches, MaxSockets

ASSUME AgentAssumption ==
    msgqueueMaxSize \in Nat /\ MaxBatches \in Nat /\ MaxSockets \in Nat \ {0}

VARIABLES msgQueue, client, state, phase, socketEvents, written

netVars == <<msgQueue, client, state, phase, socketEvents, written>>
vars == <<processVars, netVars>>

Net == INSTANCE NodeNetwork WITH
    scans <- Len(emitted), MaxScans <- MaxBatches, events <- socketEvents

AgentInit == Init /\ Net!Init

(* processInfo.on('processInfoAreParsed', ...): what the step emits is     *)
(* sent.                                                                   *)
OnParsed == IF emitted' # emitted THEN Net!Send ELSE UNCHANGED netVars

Collect == ProcessNext /\ OnParsed

Network ==
    /\ UNCHANGED processVars
    /\ \E d \in Dest, k \in Net!Socket :
         Net!Callbacks(d, k) \/ Net!Fail(d, k) \/ Net!PeerCloses(d, k)

(* Nothing more is started or emitted, for the bounds. *)
Done ==
    /\ \/ started = MaxGetInfo
       \/ Len(emitted) = MaxBatches
       \/ \E d \in Net!Down : client[d] = MaxSockets
    /\ UNCHANGED vars

Next == Collect \/ Network \/ Done

Spec == AgentInit /\ [][Next]_vars

-----------------------------------------------------------------------------
(* Properties. *)

(* The type of the variables of both parts. *)
TypeOK == ProcessTypeOK /\ Net!TypeOK

(* Process q was printed before process r. *)
Before(q, r) == q[1] < r[1] \/ (q[1] = r[1] /\ q[2] < r[2])

(* Every process of item x was printed before every one of item y. *)
InOrder(x, y) == \A q \in x.of, r \in y.of : Before(q, r)

(* From the output of Powershell to a server: the processes a server is    *)
(* given come once each and in the order they were printed, over all the   *)
(* lists and all the connections, unless two Powershells printed at a time *)
(* (processInfoAreParsed, sendProcessInfo, flush of cpsNetwork).           *)
EachOnceInOrder ==
    late \/
    \A d \in Dest : \A a, b \in 1..Len(written[d]) :
        LET first == emitted[written[d][a]]
            second == emitted[written[d][b]]
        IN  \A j \in 1..Len(first), k \in 1..Len(second) :
                Before(<<a, j>>, <<b, k>>) => InOrder(first[j], second[k])
=============================================================================
