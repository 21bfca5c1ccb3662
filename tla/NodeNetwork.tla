---------------------------- MODULE NodeNetwork ----------------------------
(***************************************************************************)
(* The sending side of the Windows agent                                   *)
(* (agent-node/src/collectps_network.js): a queue of scans, and for each   *)
(* configured server the socket in use and whether it is believed to be    *)
(* connected.                                                              *)
(*                                                                         *)
(* JavaScript runs one callback at a time, so a callback is a step, and    *)
(* send, which calls flush and connect, is one too.  What makes it hard is *)
(* that a socket is replaced while its callbacks are still to come, and    *)
(* that every callback acts on the socket in use at that time, not on the  *)
(* one the event is about.                                                 *)
(*                                                                         *)
(* A scan is known by its rank, and a socket by its rank among those made  *)
(* for the server.  A definition whose name ends in Mutant is the one that *)
(* follows it with a bug: no part of the specification, but what a         *)
(* property is tried on.                                                   *)
(***************************************************************************)
EXTENDS Integers, Sequences, SequencesExt

CONSTANTS
    Dest,              \* destServers
    msgqueueMaxSize,   \* 5
    MaxScans,          \* bound: how many scans there are
    MaxSockets         \* bound: how many sockets are made for a server

ASSUME NetworkAssumption ==
    /\ msgqueueMaxSize \in Nat /\ MaxScans \in Nat /\ MaxSockets \in Nat \ {0}

VARIABLES
    scans,     \* how many scans were sent
    msgQueue,  \* this.msgQueue: items [id, isSent], isSent a set of servers
    client,    \* clientInfo.client, 0 when it is not defined
    state,     \* clientInfo.state
    phase,     \* the life of each socket
    events,    \* "error" and "close" events not delivered yet
    written    \* history: the scans written to each server, in order

vars == <<scans, msgQueue, client, state, phase, events, written>>

Socket == 1..MaxSockets
Item == [id : 1..MaxScans, isSent : SUBSET Dest]

Init ==
    /\ scans = 0 /\ msgQueue = <<>>
    /\ client = [d \in Dest |-> 0] /\ state = [d \in Dest |-> FALSE]
    /\ phase = [d \in Dest |-> [k \in Socket |-> "none"]]
    /\ events = [d \in Dest |-> {}]
    /\ written = [d \in Dest |-> <<>>]

-----------------------------------------------------------------------------
(* send, flush and connect. *)

(* The first item leaves a queue that is too long. *)
RoomNewestMutant(queue) ==
    IF Len(queue) > msgqueueMaxSize THEN Front(queue) ELSE queue

Room(queue) == IF Len(queue) > msgqueueMaxSize THEN Tail(queue) ELSE queue

(* connectOne: a new socket becomes the one in use, and starts to connect. *)
ConnectOneLocalMutant(d) == client[d]

ConnectOne(d) == client[d] + 1

Down == {d \in Dest : ~state[d]}
Up == Dest \ Down

(* The loop of flush: the items of a queue at the ranks I, in order. *)
Keep(queue, I) ==
    LET Loop[n \in 0..Len(queue)] ==
            IF n = 0 THEN <<>>
            ELSE IF n \in I THEN Append(Loop[n - 1], queue[n]) ELSE Loop[n - 1]
    IN  Loop[Len(queue)]

(* The scans flush writes to d. *)
Write(queue, d) ==
    LET toSend == Keep(queue, {k \in 1..Len(queue) : d \notin queue[k].isSent})
    IN  [k \in 1..Len(toSend) |-> toSend[k].id]

(* p.isSent, once the item went through the loop. *)
MarkFirstMutant(p) == p.isSent \cup IF p.isSent = {} THEN Up ELSE {}

Mark(p) == p.isSent \cup Up

(* newQueue: the items some server still waits for, in order. *)
NewQueue(queue) ==
    LET marked == [k \in 1..Len(queue) |-> [queue[k] EXCEPT !.isSent = Mark(queue[k])]]
    IN  Keep(marked, {k \in 1..Len(queue) : marked[k].isSent # Dest})

(* Is the socket in use of d one that was destroyed. *)
InUseDestroyed(d) == client[d] # 0 /\ phase[d][client[d]] = "destroyed"

(* A scan was parsed: send.  A write on a destroyed socket goes nowhere;   *)
(* depending on the version of the library, the socket may emit an error.  *)
Send ==
    /\ scans < MaxScans
    /\ \A d \in Down : client[d] < MaxSockets
    /\ scans' = scans + 1
    /\ client' = [d \in Dest |-> IF d \in Down THEN ConnectOne(d) ELSE client[d]]
    /\ phase' = [d \in Dest |->
                   IF d \in Down THEN [phase[d] EXCEPT ![client[d] + 1] = "connecting"]
                   ELSE phase[d]]
    /\ LET queue == Append(Room(msgQueue), [id |-> scans + 1, isSent |-> {}])
       IN  /\ msgQueue' = NewQueue(queue)
           /\ written' = [d \in Dest |-> written[d] \o
                            IF d \in Up THEN Write(queue, d) ELSE <<>>]
    /\ LET broken == {d \in Up : InUseDestroyed(d)}
       IN  \E loud \in SUBSET broken :
             events' = [d \in Dest |-> IF d \in loud
                          THEN events[d] \cup {<<client[d], "error">>} ELSE events[d]]
    /\ UNCHANGED state

-----------------------------------------------------------------------------
(* The callbacks of the sockets. *)

(* The callback of connect: socket k is connected, and clientInfo is. *)
OnConnect(d, k) ==
    /\ phase[d][k] = "connecting"
    /\ phase' = [phase EXCEPT ![d][k] = "connected"]
    /\ state' = [state EXCEPT ![d] = TRUE]
    /\ UNCHANGED <<scans, msgQueue, client, events, written>>

Alive(d, k) == phase[d][k] \in {"connecting", "connected"}

(* clientInfo.client.destroy() and state = false: the socket in use is     *)
(* destroyed, if it is not yet, and will emit "close".                     *)
DestroyInUse(d) ==
    /\ state' = [state EXCEPT ![d] = FALSE]
    /\ phase' = [phase EXCEPT ![d][client[d]] = "destroyed"]

OnError(d, k) ==
    /\ <<k, "error">> \in events[d]
    /\ events' = [events EXCEPT ![d] = (@ \ {<<k, "error">>}) \cup
                    IF Alive(d, client[d]) THEN {<<client[d], "close">>} ELSE {}]
    /\ DestroyInUse(d)
    /\ UNCHANGED <<scans, msgQueue, client, written>>

(* A socket that failed emits "error" first. *)
OnCloseNothingMutant(d, k) ==
    /\ <<k, "close">> \in events[d] /\ <<k, "error">> \notin events[d]
    /\ events' = [events EXCEPT ![d] = @ \ {<<k, "close">>}]
    /\ UNCHANGED <<scans, msgQueue, client, state, phase, written>>

OnClose(d, k) ==
    /\ <<k, "close">> \in events[d] /\ <<k, "error">> \notin events[d]
    /\ events' = [events EXCEPT ![d] = (@ \ {<<k, "close">>}) \cup
                    IF Alive(d, client[d]) THEN {<<client[d], "close">>} ELSE {}]
    /\ DestroyInUse(d)
    /\ UNCHANGED <<scans, msgQueue, client, written>>

-----------------------------------------------------------------------------
(* The network. *)

(* The connection fails, before or after it was established. *)
Fail(d, k) ==
    /\ Alive(d, k)
    /\ phase' = [phase EXCEPT ![d][k] = "destroyed"]
    /\ events' = [events EXCEPT ![d] = @ \cup {<<k, "error">>, <<k, "close">>}]
    /\ UNCHANGED <<scans, msgQueue, client, state, written>>

(* The server closes: the socket is ended and destroyed. *)
PeerCloses(d, k) ==
    /\ phase[d][k] = "connected"
    /\ phase' = [phase EXCEPT ![d][k] = "destroyed"]
    /\ events' = [events EXCEPT ![d] = @ \cup {<<k, "close">>}]
    /\ UNCHANGED <<scans, msgQueue, client, state, written>>

(* Every scan was sent, and nothing is left to call back. *)
Done ==
    /\ \/ scans = MaxScans
       \/ \E d \in Down : client[d] = MaxSockets
    /\ UNCHANGED vars

Callbacks(d, k) == OnConnect(d, k) \/ OnError(d, k) \/ OnClose(d, k)

Next ==
    \/ Send \/ Done
    \/ \E d \in Dest, k \in Socket : Callbacks(d, k) \/ Fail(d, k) \/ PeerCloses(d, k)

Spec == Init /\ [][Next]_vars

(* The event loop of node delivers the events of the sockets. *)
FairSpec ==
    Spec /\ WF_vars(\E d \in Dest, k \in Socket : OnError(d, k) \/ OnClose(d, k))

-----------------------------------------------------------------------------
(* Properties. *)

WrittenTo(d) == {written[d][k] : k \in 1..Len(written[d])}

(* The type of every variable; the sockets made for a server are those up  *)
(* to the one in use, and a server that has none is not connected.         *)
TypeOK ==
    /\ scans \in 0..MaxScans
    /\ msgQueue \in Seq(Item)
    /\ client \in [Dest -> 0..MaxSockets] /\ state \in [Dest -> BOOLEAN]
    /\ phase \in [Dest -> [Socket -> {"none", "connecting", "connected", "destroyed"}]]
    /\ \A d \in Dest, k \in Socket : phase[d][k] # "none" <=> k <= client[d]
    /\ \A d \in Dest : state[d] => client[d] # 0
    /\ events \in [Dest -> SUBSET (Socket \X {"error", "close"})]
    /\ written \in [Dest -> Seq(1..MaxScans)]

QueuedIds == {msgQueue[k].id : k \in 1..Len(msgQueue)}

(* The servers scan i of the queue is still to go to. *)
Unsent(i) == Dest \ msgQueue[CHOOSE k \in 1..Len(msgQueue) : msgQueue[k].id = i].isSent

Abstract == INSTANCE Delivery WITH
    made <- scans, pending <- [i \in QueuedIds |-> Unsent(i)], got <- written

(* The network part implements the abstract delivery of scans: an item of  *)
(* the queue is marked sent for just the servers it was written to, and    *)
(* each server is written each scan at most once and in order, over all    *)
(* the sockets it had (send, flush).                                       *)
Delivered == Abstract!Spec

(* A scan that was not written to every server is forgotten for newer ones *)
(* only, when there are msgqueueMaxSize + 1 of them (send).                *)
NewestAreKept ==
    \A i \in 1..scans :
        \/ \E k \in 1..Len(msgQueue) : msgQueue[k].id = i
        \/ \A d \in Dest : i \in WrittenTo(d)
        \/ i + msgqueueMaxSize + 1 <= scans

(* A server whose socket in use is destroyed is marked down in the end, so *)
(* that the next scan makes a new one, as long as no other socket of this  *)
(* server stays connected (the error and close callbacks of connectOne).   *)
NoticesClose ==
    \A d \in Dest, k \in Socket :
        (client[d] = k /\ phase[d][k] = "destroyed")
            ~> (~state[d] \/ \E o \in Socket : phase[d][o] = "connected")

(* "this.destServers[i].state = false; // not connected" (cpsNetwork): a   *)
(* server that is not marked so has a socket in use that is not destroyed, *)
(* or whose events are to come.                                            *)
StateMeansConnected ==
    \A d \in Dest : state[d] /\ events[d] = {} => ~InUseDestroyed(d)
=============================================================================
