--------------------------- MODULE AgentDelivery ---------------------------
(***************************************************************************)
(* The delivery path of the Linux agent: the cache of process samples      *)
(* (agent-linux/src/util_process_info.c), the connections to the           *)
(* configured servers (agent-linux/src/util_network.c) and the timer       *)
(* callback that drives both (agent-linux/src/get_process.c,               *)
(* cpsa_get_process).                                                      *)
(*                                                                         *)
(* The agent is one thread.  Every interval it samples the processes,      *)
(* connects to each server it has no connection to, walks its cache and    *)
(* writes each sample to each server that has not had it, then frees what  *)
(* every server has had and what is too old.  Between two system calls     *)
(* the peers may read or go away, time passes, the clock may be set, and   *)
(* the process may be killed and launched again by its watchdog.           *)
(*                                                                         *)
(* A sample is known by its rank in process_info__list: g_list_append      *)
(* gives it the next id, so list order is the order of the ids.  A server  *)
(* is known by its rank in global_config.server__server.  A packet is      *)
(* PacketLen units long; a unit is what one write() may accept.            *)
(*                                                                         *)
(* A definition whose name ends in Mutant is the one that follows it with  *)
(* a bug: no part of the specification, but what a property is tried on.   *)
(***************************************************************************)
EXTENDS Integers, Sequences

CONSTANTS
    NServers,     \* number of entries of the [server] section
    MaxProcs,     \* processes one scan of /proc can return
    PacketLen,    \* units of one encoded sample
    SendBuf,      \* units the kernel keeps for a connection, not yet read
    Interval,     \* agent.interval
    MaxCache,     \* agent.max_cache_time
    ClockMod,     \* 2^64: cdtime_t is an unsigned integer
    MaxSkew,      \* bound: how far the wall clock may be set back
    MaxCrash,     \* bound: how many times the process may die
    ScanHorizon,  \* bound: no process is seen after this time
    MaxTime       \* bound: where time stops

ASSUME ServersAssumption == NServers \in Nat \ {0}
ASSUME PacketAssumption == PacketLen \in Nat \ {0} /\ SendBuf \in Nat \ {0}
ASSUME TimeAssumption ==
    /\ Interval \in Nat \ {0} /\ MaxCache \in Nat
    /\ ScanHorizon \in Nat /\ MaxTime \in Nat /\ MaxSkew \in Nat
    /\ ClockMod \in Nat /\ ClockMod > MaxTime + MaxSkew + MaxCache
ASSUME BoundAssumption == MaxProcs \in Nat /\ MaxCrash \in Nat

Server == 1..NServers
Closed == -1
Open   == 0

VARIABLES
    now,      \* monotonic time, the one the GLib main loop uses
    skew,     \* how far the wall clock is behind its initial setting
    nextRun,  \* when the timeout source is due
    pc,       \* where the agent is in cpsa_get_process
    list,     \* process_info__list: id -> [tm, born, server]
    nextId,   \* rank of the next sample
    cur,      \* the cursor of process_info__send_all
    srv,      \* the cursor on the servers (connect, and send_one)
    left,     \* write_remaining of cps_send_data
    sockfd,   \* server_info_t.sockfd
    alive,    \* does write() on the connection succeed
    inflight, \* units the kernel holds for the peer
    sent,     \* history: ids written in full to each server, in order
    crashes   \* how many times the process died

timeVars  == <<now, skew, nextRun>>
cacheVars == <<list, nextId>>
netVars   == <<sockfd, alive, inflight>>
walkVars  == <<pc, cur, srv, left>>
vars == <<timeVars, cacheVars, netVars, walkVars, sent, crashes>>

-----------------------------------------------------------------------------

(* cdtime(): the wall clock, CLOCK_REALTIME. *)
cdtime == now + MaxSkew - skew

(* now - pi->info.tm, on unsigned 64-bit integers. *)
Age(i) == (cdtime - list[i].tm) % ClockMod

SentTo(s) == {sent[s][k] : k \in 1..Len(sent[s])}

Init ==
    /\ now = 0 /\ skew = 0 /\ nextRun = Interval
    /\ pc = "sleep" /\ cur = 0 /\ srv = 1 /\ left = PacketLen
    /\ list = [i \in {} |-> {}] /\ nextId = 1
    /\ sockfd = [s \in Server |-> Closed]
    /\ alive = [s \in Server |-> FALSE]
    /\ inflight = [s \in Server |-> 0]
    /\ sent = [s \in Server |-> <<>>]
    /\ crashes = 0

-----------------------------------------------------------------------------
(* The callback of the timeout source: cpsa_get_process. *)

(* process_info__add_process for the k processes of one scan: all have the *)
(* tm read before the loop and every configured server to go to.           *)
AddProcessesSameRankMutant(k) ==
    /\ list' = [i \in DOMAIN list \cup nextId..(nextId + k - 1) |->
                  [tm |-> cdtime, born |-> now, server |-> Server]]
    /\ nextId' = nextId

AddProcesses(k) ==
    /\ list' = [i \in DOMAIN list \cup nextId..(nextId + k - 1) |->
                  IF i \in DOMAIN list
                  THEN list[i]
                  ELSE [tm |-> cdtime, born |-> now, server |-> Server]]
    /\ nextId' = nextId + k

(* The source is due: read_process_info, up to the first connect.  Time    *)
(* stops at MaxTime, but the source goes on being dispatched.              *)
Dispatch ==
    /\ pc = "sleep"
    /\ now >= nextRun \/ now = MaxTime
    /\ \E k \in 0..MaxProcs :
         /\ now > ScanHorizon => k = 0
         /\ AddProcesses(k)
    /\ nextRun' = now + Interval
    /\ pc' = "connect" /\ srv' = 1
    /\ UNCHANGED <<now, skew, cur, left, netVars, sent, crashes>>

(* One turn of the loop of cps_connect_to_all_servers; connect_one may     *)
(* fail to make a socket, to resolve the name or to connect.               *)
ConnectOne ==
    /\ pc = "connect" /\ srv <= NServers
    /\ \/ /\ sockfd[srv] = Closed
          /\ sockfd' = [sockfd EXCEPT ![srv] = Open]
          /\ alive' = [alive EXCEPT ![srv] = TRUE]
          /\ inflight' = [inflight EXCEPT ![srv] = 0]
       \/ UNCHANGED netVars
    /\ srv' = srv + 1
    /\ UNCHANGED <<timeVars, cacheVars, pc, cur, left, sent, crashes>>

(* cur = process_info__list. *)
BeginSend ==
    /\ pc = "connect" /\ srv > NServers
    /\ pc' = "send" /\ cur' = 0 /\ srv' = NServers + 1
    /\ UNCHANGED <<timeVars, cacheVars, left, netVars, sent, crashes>>

(* Is the server under the cursor of send_one one it writes to. *)
ToWriteAgainMutant == sockfd[srv] # Closed

ToWrite == srv \in list[cur].server /\ sockfd[srv] # Closed

(* send_one passes over a server that has the sample or no connection. *)
SkipServer ==
    /\ pc = "send" /\ srv <= NServers /\ ~ToWrite
    /\ srv' = srv + 1
    /\ UNCHANGED <<timeVars, cacheVars, pc, cur, left, netVars, sent, crashes>>

(* write() takes n of the units that remain; it blocks while the kernel    *)
(* has no room.  The last unit takes the server off the sample.            *)
WriteSome ==
    /\ pc = "send" /\ srv <= NServers /\ ToWrite /\ alive[srv]
    /\ \E n \in 1..left :
         /\ inflight[srv] + n <= SendBuf
         /\ inflight' = [inflight EXCEPT ![srv] = @ + n]
         /\ IF n < left
            THEN /\ left' = left - n
                 /\ UNCHANGED <<list, srv, sent>>
            ELSE /\ left' = PacketLen
                 /\ sent' = [sent EXCEPT ![srv] = Append(@, cur)]
                 /\ list' = [list EXCEPT ![cur].server = @ \ {srv}]
                 /\ srv' = srv + 1
    /\ UNCHANGED <<timeVars, nextId, pc, cur, sockfd, alive, crashes>>

(* Where the loop of send_one goes when a server failed. *)
AfterFailureReturnMutant == NServers + 1

AfterFailure == srv + 1

(* write() returns -1: disconnect_one.  The sample keeps the server, and   *)
(* is written again from its first unit on the next connection.            *)
WriteFailsForgetsMutant ==
    /\ pc = "send" /\ srv <= NServers /\ ToWrite /\ ~alive[srv]
    /\ sockfd' = [sockfd EXCEPT ![srv] = Closed]
    /\ list' = [list EXCEPT ![cur].server = @ \ {srv}]
    /\ left' = PacketLen /\ srv' = srv + 1
    /\ UNCHANGED <<timeVars, nextId, pc, cur, alive, inflight, sent, crashes>>

WriteFails ==
    /\ pc = "send" /\ srv <= NServers /\ ToWrite /\ ~alive[srv]
    /\ sockfd' = [sockfd EXCEPT ![srv] = Closed]
    /\ left' = PacketLen
    /\ srv' = AfterFailure
    /\ UNCHANGED <<timeVars, cacheVars, pc, cur, alive, inflight, sent, crashes>>

(* cur = cur->next, or the end of the list. *)
NextItem ==
    /\ pc = "send" /\ srv > NServers
    /\ \/ \E i \in DOMAIN list :
            /\ i > cur
            /\ \A j \in DOMAIN list : j > cur => i <= j
            /\ cur' = i /\ srv' = 1 /\ pc' = pc
       \/ /\ \A j \in DOMAIN list : j <= cur
          /\ pc' = "gc" /\ UNCHANGED <<cur, srv>>
    /\ UNCHANGED <<timeVars, cacheVars, left, netVars, sent, crashes>>

TooOldIfSentMutant(i) == Age(i) > MaxCache /\ list[i].server = {}

TooOldEarlyMutant(i) == Age(i) >= MaxCache

TooOld(i) == Age(i) > MaxCache

(* process_info__garbage_collector. *)
GarbageCollect ==
    /\ pc = "gc"
    /\ list' = [i \in {j \in DOMAIN list : ~TooOld(j) /\ list[j].server # {}}
                  |-> list[i]]
    /\ pc' = "sleep" /\ cur' = 0 /\ srv' = 1
    /\ UNCHANGED <<timeVars, nextId, left, netVars, sent, crashes>>

Agent == \/ Dispatch \/ ConnectOne \/ BeginSend \/ SkipServer
         \/ WriteSome \/ WriteFails \/ NextItem \/ GarbageCollect

-----------------------------------------------------------------------------
(* The environment. *)

(* The peer of server s reads from its end of the connection. *)
PeerReads(s) ==
    /\ sockfd[s] # Closed /\ alive[s] /\ inflight[s] > 0
    /\ inflight' = [inflight EXCEPT ![s] = @ - 1]
    /\ UNCHANGED <<timeVars, cacheVars, sockfd, alive, walkVars, sent, crashes>>

(* The connection is lost, with what the kernel held of it. *)
PeerBreaks(s) ==
    /\ sockfd[s] # Closed /\ alive[s]
    /\ alive' = [alive EXCEPT ![s] = FALSE]
    /\ inflight' = [inflight EXCEPT ![s] = 0]
    /\ UNCHANGED <<timeVars, cacheVars, sockfd, walkVars, sent, crashes>>

Tick ==
    /\ now < MaxTime /\ now' = now + 1
    /\ UNCHANGED <<skew, nextRun, cacheVars, netVars, walkVars, sent, crashes>>

(* The wall clock is set; the monotonic one is not. *)
ClockStep ==
    /\ skew' \in (0..MaxSkew) \ {skew}
    /\ UNCHANGED <<now, nextRun, cacheVars, netVars, walkVars, sent, crashes>>

(* The process dies anywhere and the watchdog launches it again: the cache *)
(* was in memory, the kernel closes the sockets, main adds a new timeout.  *)
Restart ==
    /\ crashes < MaxCrash /\ crashes' = crashes + 1
    /\ list' = [i \in {} |-> {}]
    /\ sockfd' = [s \in Server |-> Closed]
    /\ pc' = "sleep" /\ cur' = 0 /\ srv' = 1 /\ left' = PacketLen
    /\ nextRun' = now + Interval
    /\ UNCHANGED <<now, skew, nextId, alive, inflight, sent>>

Network == \E s \in Server : PeerReads(s) \/ PeerBreaks(s)

Next == Agent \/ Network \/ Tick \/ ClockStep \/ Restart

Spec == Init /\ [][Next]_vars

(* The main loop runs whatever is ready, time passes, and a peer that is   *)
(* connected goes on reading: the server of this repository is an event    *)
(* loop that reads all it is sent.                                         *)
Fairness ==
    /\ WF_vars(Agent) /\ WF_vars(Tick)
    /\ \A s \in Server : WF_vars(PeerReads(s))

FairSpec == Spec /\ Fairness

-----------------------------------------------------------------------------
(* Properties. *)

Sample == [tm : Nat, born : Nat, server : SUBSET Server]

ClockType == now \in 0..MaxTime /\ skew \in 0..MaxSkew /\ nextRun \in Nat

CacheType ==
    /\ nextId \in Nat \ {0}
    /\ \A i \in DOMAIN list : i \in 1..(nextId - 1)
    /\ list \in [DOMAIN list -> Sample]

WalkType ==
    /\ pc \in {"sleep", "connect", "send", "gc"}
    /\ cur \in 0..(nextId - 1)
    /\ srv \in 1..(NServers + 1)
    /\ left \in 1..PacketLen

NetType ==
    /\ sockfd \in [Server -> {Closed, Open}]
    /\ alive \in [Server -> BOOLEAN]
    /\ inflight \in [Server -> 0..SendBuf]

HistoryType ==
    /\ sent \in [Server -> Seq(1..(nextId - 1))]
    /\ crashes \in 0..MaxCrash

(* The type of every variable. *)
TypeOK == ClockType /\ CacheType /\ WalkType /\ NetType /\ HistoryType

(* A server is written each sample in full at most once, and in the order  *)
(* the samples were taken, whatever connections were lost on the way       *)
(* (process_info__send_one retries only what failed, and a server that     *)
(* failed is passed over until the next interval).                         *)
SentOnceInOrder ==
    \A s \in Server : \A a, b \in 1..Len(sent[s]) :
        a < b => sent[s][a] < sent[s][b]

(* A sample in the cache is still to go to exactly the servers it was not  *)
(* written to in full: a partial write never counts (cps_send_data).       *)
PendingIsUnsent ==
    \A i \in DOMAIN list, s \in Server :
        s \in list[i].server <=> i \notin SentTo(s)

(* When the garbage collector is reached, a sample is left unsent only for *)
(* servers the agent has no connection to: a server that fails costs the   *)
(* other servers nothing.                                                  *)
UnsentMeansDisconnected ==
    pc = "gc" => \A i \in DOMAIN list : \A s \in list[i].server :
                    sockfd[s] = Closed

SentToAll(i) == \A s \in Server : i \in SentTo(s)

(* While the process lives it forgets a sample only once every server has  *)
(* been written it, or once it is older than max_cache_time, unless the    *)
(* clock was set since the sample was taken.                               *)
ForgottenOnlyWhenDone ==
    [][\A i \in DOMAIN list \ DOMAIN list' :
         \/ crashes' # crashes
         \/ SentToAll(i)
         \/ now - list[i].born > MaxCache
         \/ cdtime - list[i].tm # now - list[i].born]_vars

(* The cache is bounded by time: however long servers are down, what a     *)
(* collection leaves was taken in the last max_cache_time, or as much      *)
(* longer ago as the clock was set back (process_info__garbage_collector). *)
(* A scan needs an interval, so this bounds the number of samples.         *)
CacheBound ==
    [][pc = "gc" /\ pc' = "sleep" =>
         \A i \in DOMAIN list' : now - list[i].born <= MaxCache + MaxSkew]_vars

(* Every sample leaves the cache in the end, even when a server is down    *)
(* for ever or the clock is set (process_info__garbage_collector).         *)
EverySampleLeaves ==
    \A i \in 1..(MaxProcs * ((ScanHorizon \div Interval) + 1)) :
        i \in DOMAIN list ~> i \notin DOMAIN list

Abstract == INSTANCE Delivery WITH
    Dest <- Server, made <- nextId - 1,
    pending <- [i \in DOMAIN list |-> list[i].server], got <- sent

(* The agent implements the abstract delivery: what a sample is still to   *)
(* go to is what the cache says, at every system call, through every       *)
(* failure, and after every restart (util_process_info.c).                 *)
Delivered == Abstract!Spec

-----------------------------------------------------------------------------
(* The inductive invariant of the safety proof (AgentDelivery_proofs).     *)

(* The sample under the cursor of send_one is in the cache. *)
PendingInCache == pc = "send" /\ srv <= NServers => cur \in DOMAIN list

(* No sample before the cursors is left for a server still connected: a    *)
(* server that failed is passed over for the rest of the walk.             *)
WalkedIsSent ==
    pc \in {"send", "gc"} =>
        \A i \in DOMAIN list : \A s \in list[i].server :
            i < cur \/ (i = cur /\ s < srv) => sockfd[s] = Closed

(* The collector runs when the cursors are past the last sample. *)
WalkIsOver ==
    pc = "gc" => srv = NServers + 1 /\ \A i \in DOMAIN list : i <= cur

(* What is still to go to a server comes after all that went to it. *)
SentBeforePending ==
    \A i \in DOMAIN list : \A s \in list[i].server :
        \A k \in 1..Len(sent[s]) : sent[s][k] < i

IInv ==
    /\ TypeOK /\ PendingInCache /\ WalkedIsSent /\ WalkIsOver
    /\ SentBeforePending /\ SentOnceInOrder /\ PendingIsUnsent
=============================================================================
