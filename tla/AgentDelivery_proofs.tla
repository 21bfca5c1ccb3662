------------------------ MODULE AgentDelivery_proofs ------------------------
(* Proofs about AgentDelivery, for every number of servers, every packet    *)
(* length and every bound.                                                  *)
EXTENDS AgentDelivery, SequenceTheorems, TLAPS

LEMMA TypeInit == Init => TypeOK
BY ServersAssumption, PacketAssumption, TimeAssumption, BoundAssumption
DEF ServersAssumption, PacketAssumption, TimeAssumption, BoundAssumption,
    Init, TypeOK, ClockType, CacheType, WalkType, NetType, HistoryType, Sample

LEMMA ClockNext == ClockType /\ [Next]_vars => ClockType'
<1> USE TimeAssumption DEF TimeAssumption, ClockType
<1> SUFFICES ASSUME ClockType, [Next]_vars PROVE ClockType'
  OBVIOUS
<1>1. CASE Dispatch
  BY <1>1 DEF Dispatch
<1>2. CASE Tick
  BY <1>2 DEF Tick
<1>3. CASE ClockStep
  BY <1>3 DEF ClockStep
<1>4. CASE Restart
  BY <1>4 DEF Restart
<1>5. CASE UNCHANGED timeVars
  BY <1>5 DEF timeVars
<1> QED
  BY <1>1, <1>2, <1>3, <1>4, <1>5
  DEF Next, Agent, Network, vars, ConnectOne, BeginSend, SkipServer, WriteSome,
      WriteFails, NextItem, GarbageCollect, PeerReads, PeerBreaks

LEMMA NetNext == NetType /\ WalkType /\ [Next]_vars => NetType'
<1> USE ServersAssumption, PacketAssumption
    DEF ServersAssumption, PacketAssumption, NetType
<1> SUFFICES ASSUME NetType, WalkType, [Next]_vars PROVE NetType'
  OBVIOUS
<1>0. ASSUME srv <= NServers PROVE srv \in Server
  BY <1>0 DEF WalkType, Server
<1>1. CASE ConnectOne
  <2>1. srv \in Server
    BY <1>0, <1>1 DEF ConnectOne
  <2>2. 0 \in 0..SendBuf
    OBVIOUS
  <2>3. CASE UNCHANGED netVars
    BY <2>3 DEF netVars
  <2>4. CASE /\ sockfd' = [sockfd EXCEPT ![srv] = Open]
             /\ alive' = [alive EXCEPT ![srv] = TRUE]
             /\ inflight' = [inflight EXCEPT ![srv] = 0]
    BY <2>1, <2>2, <2>4
  <2> QED
    BY <1>1, <2>3, <2>4 DEF ConnectOne
<1>2. CASE WriteSome
  <2>1. PICK n \in 1..left :
          /\ inflight[srv] + n <= SendBuf
          /\ inflight' = [inflight EXCEPT ![srv] = inflight[srv] + n]
    BY <1>2 DEF WriteSome
  <2>2. srv \in Server /\ left \in Nat
    BY <1>0, <1>2 DEF WriteSome, WalkType
  <2>3. inflight[srv] \in 0..SendBuf /\ inflight[srv] + n \in 0..SendBuf
    BY <2>1, <2>2
  <2> QED
    BY <1>2, <2>1, <2>2, <2>3 DEF WriteSome
<1>3. CASE WriteFails
  BY <1>0, <1>3 DEF WriteFails, AfterFailure
<1>4. CASE Network
  <2>1. PICK s \in Server : PeerReads(s) \/ PeerBreaks(s)
    BY <1>4 DEF Network
  <2>2. inflight[s] \in 0..SendBuf
    OBVIOUS
  <2>3. CASE PeerReads(s)
    BY <2>2, <2>3 DEF PeerReads
  <2>4. CASE PeerBreaks(s)
    BY <2>4 DEF PeerBreaks
  <2> QED
    BY <2>1, <2>3, <2>4
<1>5. CASE Restart
  BY <1>5 DEF Restart
<1>6. CASE UNCHANGED netVars
  BY <1>6 DEF netVars
<1> QED
  BY <1>1, <1>2, <1>3, <1>4, <1>5, <1>6
  DEF Next, Agent, vars, Dispatch, BeginSend, SkipServer, NextItem,
      GarbageCollect, Tick, ClockStep
LEMMA WalkNext == CacheType /\ WalkType /\ [Next]_vars => WalkType'
<1> USE ServersAssumption, PacketAssumption
    DEF ServersAssumption, PacketAssumption, WalkType
<1> SUFFICES ASSUME CacheType, WalkType, [Next]_vars PROVE WalkType'
  OBVIOUS
<1>0. nextId \in Nat \ {0}
  BY DEF CacheType
<1>1. CASE Dispatch
  <2>1. PICK k \in 0..MaxProcs : nextId' = nextId + k
    BY <1>1 DEF Dispatch, AddProcesses
  <2>2. k \in Nat
    BY BoundAssumption DEF BoundAssumption
  <2>3. pc' = "connect" /\ cur' = cur /\ srv' = 1 /\ left' = left
    BY <1>1 DEF Dispatch
  <2>4. cur' \in 0..(nextId' - 1)
    BY <1>0, <2>1, <2>2, <2>3
  <2>5. srv' \in 1..(NServers + 1)
    BY <2>3
  <2> QED
    BY <2>3, <2>4, <2>5
<1>2. CASE ConnectOne
  BY <1>0, <1>2 DEF ConnectOne, cacheVars
<1>3. CASE BeginSend
  BY <1>0, <1>3 DEF BeginSend, cacheVars
<1>4. CASE SkipServer
  BY <1>0, <1>4 DEF SkipServer, cacheVars
<1>5. CASE WriteSome
  BY <1>0, <1>5 DEF WriteSome
<1>6. CASE WriteFails
  BY <1>0, <1>6 DEF WriteFails, AfterFailure, cacheVars
<1>7. CASE NextItem
  <2>1. \A i \in DOMAIN list : i \in 0..(nextId - 1)
    BY <1>0 DEF CacheType
  <2> QED
    BY <1>0, <1>7, <2>1 DEF NextItem, cacheVars
<1>8. CASE GarbageCollect
  BY <1>0, <1>8 DEF GarbageCollect
<1>9. CASE Restart
  BY <1>0, <1>9 DEF Restart
<1>10. CASE UNCHANGED <<walkVars, nextId>>
  BY <1>10 DEF walkVars
<1> QED
  BY <1>1, <1>2, <1>3, <1>4, <1>5, <1>6, <1>7, <1>8, <1>9, <1>10
  DEF Next, Agent, Network, vars, PeerReads, PeerBreaks, Tick, ClockStep,
      walkVars, cacheVars

LEMMA CacheNext ==
    CacheType /\ ClockType /\ WalkType /\ [Next]_vars => CacheType'
<1> SUFFICES ASSUME CacheType, ClockType, WalkType, [Next]_vars PROVE CacheType'
  OBVIOUS
<1>0. nextId \in Nat \ {0}
  BY DEF CacheType
<1>1. CASE Dispatch
  <2>1. PICK k \in 0..MaxProcs : AddProcesses(k)
    BY <1>1 DEF Dispatch
  <2>2. k \in Nat /\ nextId' = nextId + k /\ nextId' \in Nat \ {0}
    BY <1>0, <2>1, BoundAssumption DEF BoundAssumption, AddProcesses
  <2>3. cdtime \in Nat /\ now \in Nat
    BY TimeAssumption DEF TimeAssumption, ClockType, cdtime
  <2>4. [tm |-> cdtime, born |-> now, server |-> Server] \in Sample
    BY <2>3 DEF Sample
  <2>5. DOMAIN list' = DOMAIN list \cup nextId..(nextId + k - 1)
    BY <2>1 DEF AddProcesses
  <2>6. \A i \in DOMAIN list' : i \in 1..(nextId' - 1)
    BY <1>0, <2>2, <2>5 DEF CacheType
  <2>7. list' \in [DOMAIN list' -> Sample]
    BY <2>1, <2>4 DEF AddProcesses, CacheType
  <2> QED
    BY <2>2, <2>6, <2>7 DEF CacheType
<1>2. CASE WriteSome
  <2>1. CASE UNCHANGED list
    BY <1>2, <2>1 DEF WriteSome, CacheType
  <2>2. CASE list' = [list EXCEPT ![cur].server = @ \ {srv}]
    <3>1. ASSUME cur \in DOMAIN list
          PROVE  [list[cur] EXCEPT !.server = @ \ {srv}] \in Sample
      BY <3>1 DEF CacheType, Sample
    <3>2. list' \in [DOMAIN list -> Sample] /\ DOMAIN list' = DOMAIN list
      BY <2>2, <3>1 DEF CacheType
    <3> QED
      BY <1>2, <3>2 DEF WriteSome, CacheType
  <2> QED
    BY <1>2, <2>1, <2>2 DEF WriteSome
<1>3. CASE GarbageCollect
  BY <1>3 DEF GarbageCollect, CacheType
<1>4. CASE Restart
  BY <1>4 DEF Restart, CacheType
<1>5. CASE UNCHANGED cacheVars
  BY <1>5 DEF cacheVars, CacheType
<1> QED
  BY <1>1, <1>2, <1>3, <1>4, <1>5
  DEF Next, Agent, Network, vars, ConnectOne, BeginSend, SkipServer,
      WriteFails, NextItem, PeerReads, PeerBreaks, Tick, ClockStep
(* Appending the sample under the cursor keeps a history of samples.        *)
LEMMA HistoryNext ==
    /\ HistoryType /\ CacheType /\ WalkType /\ PendingInCache
    /\ [Next]_vars
    => HistoryType'
<1> SUFFICES ASSUME HistoryType, CacheType, WalkType, PendingInCache, [Next]_vars
             PROVE  HistoryType'
  OBVIOUS
<1>0. nextId \in Nat \ {0} /\ sent \in [Server -> Seq(1..(nextId - 1))]
  BY DEF CacheType, HistoryType
<1>1. CASE Dispatch
  <2>1. PICK k \in 0..MaxProcs : nextId' = nextId + k
    BY <1>1 DEF Dispatch, AddProcesses
  <2>2. 1..(nextId - 1) \subseteq 1..(nextId' - 1)
    BY <1>0, <2>1, BoundAssumption DEF BoundAssumption
  <2>3. Seq(1..(nextId - 1)) \subseteq Seq(1..(nextId' - 1))
    BY <2>2, SeqMonotonic
  <2>4. sent \in [Server -> Seq(1..(nextId' - 1))]
    BY <1>0, <2>3
  <2> QED
    BY <1>1, <2>4 DEF Dispatch, HistoryType
<1>2. CASE WriteSome
  <2>1. CASE UNCHANGED sent
    BY <1>2, <2>1 DEF WriteSome, HistoryType
  <2>2. CASE sent' = [sent EXCEPT ![srv] = Append(@, cur)]
    <3>1. srv \in Server /\ cur \in 1..(nextId - 1)
      BY <1>2 DEF WriteSome, WalkType, Server, PendingInCache, CacheType
    <3>2. Append(sent[srv], cur) \in Seq(1..(nextId - 1))
      BY <1>0, <3>1
    <3>3. sent' \in [Server -> Seq(1..(nextId - 1))]
      BY <1>0, <2>2, <3>1, <3>2
    <3> QED
      BY <1>2, <3>3 DEF WriteSome, HistoryType
  <2> QED
    BY <1>2, <2>1, <2>2 DEF WriteSome
<1>3. CASE Restart
  BY <1>3, BoundAssumption DEF Restart, HistoryType, BoundAssumption
<1>4. CASE UNCHANGED <<nextId, sent, crashes>>
  BY <1>4 DEF HistoryType
<1> QED
  BY <1>1, <1>2, <1>3, <1>4
  DEF Next, Agent, Network, vars, ConnectOne, BeginSend, SkipServer,
      WriteFails, NextItem, PeerReads, PeerBreaks, Tick, ClockStep, cacheVars,
      GarbageCollect

-----------------------------------------------------------------------------

(* What a write does: nothing to the cache, or the sample under the cursor  *)
(* loses the server under the cursor and is appended to its history.        *)
LEMMA WriteEffect ==
    ASSUME CacheType, WalkType, PendingInCache, WriteSome
    PROVE  /\ cur \in DOMAIN list /\ srv \in Server /\ srv \in list[cur].server
           /\ sockfd[srv] # Closed
           /\ DOMAIN list' = DOMAIN list
           /\ \A i \in DOMAIN list \ {cur} : list'[i] = list[i]
           /\ UNCHANGED <<pc, cur, sockfd, crashes>>
           /\ \/ UNCHANGED <<list, sent, srv>>
              \/ /\ list'[cur].server = list[cur].server \ {srv}
                 /\ sent' = [sent EXCEPT ![srv] = Append(sent[srv], cur)]
                 /\ srv' = srv + 1
<1>1. cur \in DOMAIN list /\ srv \in Server /\ srv \in list[cur].server
      /\ sockfd[srv] # Closed
  BY DEF WriteSome, ToWrite, PendingInCache, WalkType, Server
<1>2. UNCHANGED <<pc, cur, sockfd, crashes>>
  BY DEF WriteSome
<1>3. CASE UNCHANGED <<list, sent, srv>>
  BY <1>1, <1>2, <1>3
<1>4. CASE /\ list' = [list EXCEPT ![cur].server = @ \ {srv}]
           /\ sent' = [sent EXCEPT ![srv] = Append(@, cur)]
           /\ srv' = srv + 1
  <2>1. list[cur] \in Sample
    BY <1>1 DEF CacheType
  <2>2. [list[cur] EXCEPT !.server = @ \ {srv}].server = list[cur].server \ {srv}
    BY <2>1 DEF Sample
  <2>3. list'[cur] = [list[cur] EXCEPT !.server = @ \ {srv}]
    BY <1>1, <1>4 DEF CacheType
  <2>4. list'[cur].server = list[cur].server \ {srv}
    BY <2>2, <2>3
  <2>5. DOMAIN list' = DOMAIN list /\ \A i \in DOMAIN list \ {cur} : list'[i] = list[i]
    BY <1>4 DEF CacheType
  <2> QED
    BY <1>1, <1>2, <1>4, <2>4, <2>5
<1> QED
  BY <1>3, <1>4 DEF WriteSome

LEMMA CursorNext ==
    TypeOK /\ PendingInCache /\ [Next]_vars => PendingInCache'
<1> SUFFICES ASSUME TypeOK, PendingInCache, [Next]_vars PROVE PendingInCache'
  OBVIOUS
<1> USE ServersAssumption DEF ServersAssumption, PendingInCache, TypeOK, WalkType
<1>1. CASE Dispatch \/ GarbageCollect \/ Restart
  BY <1>1 DEF Dispatch, GarbageCollect, Restart
<1>2. CASE ConnectOne
  BY <1>2 DEF ConnectOne
<1>3. CASE BeginSend
  BY <1>3 DEF BeginSend
<1>4. CASE SkipServer
  BY <1>4 DEF SkipServer, cacheVars
<1>5. CASE WriteSome
  BY <1>5, WriteEffect
<1>6. CASE WriteFails
  BY <1>6 DEF WriteFails, AfterFailure, cacheVars
<1>7. CASE NextItem
  BY <1>7 DEF NextItem, cacheVars
<1>8. CASE UNCHANGED <<list, pc, srv, cur>>
  BY <1>8
<1> QED
  BY <1>1, <1>2, <1>3, <1>4, <1>5, <1>6, <1>7, <1>8
  DEF Next, Agent, Network, vars, PeerReads, PeerBreaks, Tick, ClockStep,
      walkVars, cacheVars

LEMMA OverNext ==
    TypeOK /\ PendingInCache /\ WalkIsOver /\ [Next]_vars => WalkIsOver'
<1> SUFFICES ASSUME TypeOK, PendingInCache, WalkIsOver, [Next]_vars PROVE WalkIsOver'
  OBVIOUS
<1> USE DEF WalkIsOver
<1>1. CASE Dispatch \/ GarbageCollect \/ Restart \/ BeginSend
  BY <1>1 DEF Dispatch, GarbageCollect, Restart, BeginSend
<1>2. CASE ConnectOne \/ SkipServer \/ WriteFails \/ WriteSome
  BY <1>2 DEF ConnectOne, SkipServer, WriteFails, AfterFailure, WriteSome
<1>3. CASE NextItem
  <2>1. srv > NServers => srv = NServers + 1
    BY ServersAssumption DEF ServersAssumption, TypeOK, WalkType
  <2> QED
    BY <1>3, <2>1 DEF NextItem, cacheVars, TypeOK, WalkType
<1>4. CASE UNCHANGED <<list, pc, srv, cur>>
  BY <1>4
<1> QED
  BY <1>1, <1>2, <1>3, <1>4
  DEF Next, Agent, Network, vars, PeerReads, PeerBreaks, Tick, ClockStep,
      walkVars, cacheVars

LEMMA WalkedNext ==
    /\ TypeOK /\ PendingInCache /\ WalkIsOver /\ WalkedIsSent /\ [Next]_vars
    => WalkedIsSent'
<1> SUFFICES ASSUME TypeOK, PendingInCache, WalkIsOver, WalkedIsSent, [Next]_vars
             PROVE  WalkedIsSent'
  OBVIOUS
<1>0. /\ CacheType /\ WalkType /\ NetType
      /\ cur \in Nat /\ srv \in Nat /\ nextId \in Nat /\ NServers \in Nat
      /\ \A i \in DOMAIN list : i \in Nat /\ list[i].server \subseteq Server
      /\ Server \subseteq Nat /\ \A s \in Server : s <= NServers
  BY ServersAssumption
  DEF ServersAssumption, TypeOK, CacheType, WalkType, Sample, Server
<1>1. CASE Dispatch \/ ConnectOne \/ GarbageCollect \/ Restart
  BY <1>1 DEF Dispatch, ConnectOne, GarbageCollect, Restart, WalkedIsSent
<1>2. CASE BeginSend
  <2>1. \A i \in DOMAIN list : i \in 1..(nextId - 1)
    BY <1>0 DEF CacheType
  <2>2. \A i \in DOMAIN list : ~(i < 0) /\ i # 0
    BY <1>0, <2>1
  <2> QED
    BY <1>2, <2>2 DEF BeginSend, WalkedIsSent, cacheVars
<1>3. CASE SkipServer
  <2>1. /\ list' = list /\ sockfd' = sockfd /\ cur' = cur /\ srv' = srv + 1
        /\ pc = "send" /\ pc' = "send"
    BY <1>3 DEF SkipServer, cacheVars, netVars
  <2>2. srv \in list[cur].server => sockfd[srv] = Closed
    BY <1>3 DEF SkipServer, ToWrite
  <2>3. \A s \in Server : s < srv + 1 => s < srv \/ s = srv
    BY <1>0
  <2> SUFFICES ASSUME NEW i \in DOMAIN list, NEW s \in list[i].server,
                      i < cur \/ (i = cur /\ s < srv + 1)
               PROVE  sockfd[s] = Closed
    BY <2>1 DEF WalkedIsSent
  <2>4. i < cur \/ (i = cur /\ s < srv) \/ (i = cur /\ s = srv)
    BY <1>0, <2>3
  <2> QED
    BY <2>1, <2>2, <2>4 DEF WalkedIsSent
<1>4. CASE WriteSome
  <2>1. pc = "send"
    BY <1>4 DEF WriteSome
  <2>2. CASE UNCHANGED <<list, srv>>
    BY <1>0, <1>4, <2>1, <2>2, WriteEffect DEF WalkedIsSent
  <2>3. CASE list'[cur].server = list[cur].server \ {srv} /\ srv' = srv + 1
    <3>1. \A s \in Server : s < srv + 1 => s < srv \/ s = srv
      BY <1>0
    <3> QED
      BY <1>0, <1>4, <2>1, <2>3, <3>1, WriteEffect DEF WalkedIsSent
  <2> QED
    BY <1>0, <1>4, <2>2, <2>3, WriteEffect
<1>5. CASE WriteFails
  <2>1. /\ list' = list /\ cur' = cur /\ srv' = srv + 1
        /\ sockfd' = [sockfd EXCEPT ![srv] = Closed]
        /\ pc = "send" /\ pc' = "send" /\ srv <= NServers
    BY <1>5 DEF WriteFails, AfterFailure, cacheVars
  <2>2. \A s \in Server : s < srv + 1 => s < srv \/ s = srv
    BY <1>0
  <2>3. srv \in Server
    BY <1>0, <2>1 DEF Server, WalkType
  <2>4. sockfd'[srv] = Closed /\ \A s \in Server : sockfd[s] = Closed => sockfd'[s] = Closed
    BY <1>0, <2>1, <2>3 DEF NetType
  <2> QED
    BY <1>0, <2>1, <2>2, <2>4 DEF WalkedIsSent
<1>6. CASE NextItem
  <2>1. list' = list /\ sockfd' = sockfd /\ pc = "send" /\ srv > NServers
    BY <1>6 DEF NextItem, cacheVars, netVars
  <2>2. \A i \in DOMAIN list : \A s \in list[i].server :
          i <= cur => sockfd[s] = Closed
    <3>1. \A s \in Server : s < srv
      BY <1>0, <2>1
    <3>2. \A i \in DOMAIN list : i <= cur => i < cur \/ i = cur
      BY <1>0
    <3> QED
      BY <1>0, <2>1, <3>1, <3>2 DEF WalkedIsSent
  <2>3. CASE /\ cur' \in DOMAIN list /\ srv' = 1
             /\ \A j \in DOMAIN list : j > cur => cur' <= j
    <3>1. PICK c \in DOMAIN list : c = cur' /\ \A j \in DOMAIN list : j > cur => c <= j
      BY <2>3
    <3>2. \A i \in DOMAIN list : i < c => i <= cur
      BY <1>0, <3>1
    <3>3. \A s \in Server : ~(s < 1)
      BY <1>0 DEF Server
    <3> QED
      BY <1>0, <2>1, <2>2, <2>3, <3>1, <3>2, <3>3 DEF WalkedIsSent
  <2>4. CASE UNCHANGED <<cur, srv>>
    BY <1>0, <2>1, <2>2, <2>4 DEF WalkedIsSent
  <2> QED
    BY <1>6, <2>3, <2>4 DEF NextItem
<1>7. CASE UNCHANGED <<list, pc, srv, cur, sockfd>>
  BY <1>7 DEF WalkedIsSent
<1> QED
  BY <1>1, <1>2, <1>3, <1>4, <1>5, <1>6, <1>7
  DEF Next, Agent, Network, vars, PeerReads, PeerBreaks, Tick, ClockStep,
      walkVars, cacheVars, netVars

(* What completing a write does to the history of a server.                 *)
LEMMA AppendHistory ==
    ASSUME HistoryType, CacheType, NEW t \in Server, NEW c \in DOMAIN list,
           sent' = [sent EXCEPT ![t] = Append(sent[t], c)]
    PROVE  /\ \A s \in Server : Len(sent[s]) \in Nat
           /\ \A s \in Server \ {t} : sent'[s] = sent[s]
           /\ Len(sent'[t]) = Len(sent[t]) + 1
           /\ \A k \in 1..Len(sent[t]) : sent'[t][k] = sent[t][k]
           /\ sent'[t][Len(sent[t]) + 1] = c
<1>1. sent \in [Server -> Seq(1..(nextId - 1))] /\ c \in 1..(nextId - 1)
  BY DEF HistoryType, CacheType
<1>2. sent'[t] = Append(sent[t], c) /\ sent[t] \in Seq(1..(nextId - 1))
  BY <1>1
<1>3. \A s \in Server : Len(sent[s]) \in Nat
  BY <1>1
<1>4. \A s \in Server \ {t} : sent'[s] = sent[s]
  BY <1>1
<1> QED
  BY <1>1, <1>2, <1>3, <1>4, AppendProperties

(* The steps that touch the cache or the histories, and the others.         *)
Touches == Dispatch \/ WriteSome \/ GarbageCollect \/ Restart \/ UNCHANGED <<list, sent>>

LEMMA TouchesOrNot == [Next]_vars => Touches
BY DEF Touches, Next, Agent, Network, vars, PeerReads, PeerBreaks, Tick, ClockStep,
      walkVars, cacheVars, ConnectOne, BeginSend, SkipServer, WriteFails, NextItem

(* What a scan adds goes to every server, and has an id no history has.     *)
LEMMA ScanEffect ==
    ASSUME TypeOK, Dispatch
    PROVE  /\ sent' = sent
           /\ \A i \in DOMAIN list : i \in DOMAIN list' /\ list'[i] = list[i]
           /\ \A i \in DOMAIN list' \ DOMAIN list :
                 /\ list'[i].server = Server /\ i \in Nat
                 /\ \A s \in Server : \A k \in 1..Len(sent[s]) : sent[s][k] < i
<1>1. PICK k \in 0..MaxProcs : AddProcesses(k)
  BY DEF Dispatch
<1>2. k \in Nat /\ nextId \in Nat \ {0}
  BY BoundAssumption DEF BoundAssumption, TypeOK, CacheType
<1>3. \A i \in DOMAIN list : i \in DOMAIN list' /\ list'[i] = list[i]
  BY <1>1 DEF AddProcesses
<1>4. ASSUME NEW i \in DOMAIN list' \ DOMAIN list
      PROVE  /\ list'[i].server = Server /\ i \in Nat
             /\ \A s \in Server : \A j \in 1..Len(sent[s]) : sent[s][j] < i
  <2>1. i \in nextId..(nextId + k - 1) /\ list'[i].server = Server
    BY <1>1 DEF AddProcesses
  <2>2. \A s \in Server : \A j \in 1..Len(sent[s]) : sent[s][j] \in 1..(nextId - 1)
    BY ElementOfSeq DEF TypeOK, HistoryType
  <2> QED
    BY <1>2, <2>1, <2>2
<1>5. sent' = sent
  BY DEF Dispatch
<1> QED
  BY <1>3, <1>4, <1>5

(* The collector keeps what it keeps as it is.                              *)
LEMMA CollectEffect ==
    ASSUME GarbageCollect \/ Restart
    PROVE  /\ sent' = sent
           /\ \A i \in DOMAIN list' : i \in DOMAIN list /\ list'[i] = list[i]
BY DEF GarbageCollect, Restart

LEMMA BeforeNext ==
    /\ TypeOK /\ PendingInCache /\ WalkedIsSent /\ SentBeforePending /\ [Next]_vars
    => SentBeforePending'
<1> SUFFICES ASSUME TypeOK, PendingInCache, WalkedIsSent, SentBeforePending, [Next]_vars
             PROVE  SentBeforePending'
  OBVIOUS
<1>1. CASE Dispatch
  BY <1>1, ScanEffect DEF SentBeforePending
<1>2. CASE WriteSome
  <2>0. CacheType /\ WalkType /\ HistoryType /\ pc = "send"
    BY <1>2 DEF TypeOK, WriteSome
  <2>1. CASE UNCHANGED <<list, sent>>
    BY <2>1 DEF SentBeforePending
  <2>2. CASE /\ list'[cur].server = list[cur].server \ {srv}
             /\ sent' = [sent EXCEPT ![srv] = Append(sent[srv], cur)]
    <3>1. /\ cur \in DOMAIN list /\ srv \in Server /\ sockfd[srv] # Closed
          /\ DOMAIN list' = DOMAIN list
          /\ \A i \in DOMAIN list \ {cur} : list'[i] = list[i]
      BY <1>2, <2>0, WriteEffect
    <3> SUFFICES ASSUME NEW i \in DOMAIN list, NEW s \in list'[i].server,
                        NEW k \in 1..Len(sent'[s])
                 PROVE  sent'[s][k] < i
      BY <3>1 DEF SentBeforePending
    <3>2. s \in list[i].server /\ s \in Server /\ i \in Nat /\ cur \in Nat
      BY <2>0, <2>2, <3>1 DEF CacheType, Sample
    <3>3. CASE s # srv
      <4>1. sent'[s] = sent[s]
        BY <2>0, <2>2, <3>1, <3>2, <3>3, AppendHistory
      <4> QED
        BY <3>2, <4>1 DEF SentBeforePending
    <3>4. CASE s = srv
      <4>1. i # cur
        BY <2>2, <3>4
      <4>2. ~(i < cur)
        BY <2>0, <3>1, <3>2, <3>4 DEF WalkedIsSent
      <4>3. cur < i
        BY <3>2, <4>1, <4>2
      <4>4. PICK m \in Nat : m = Len(sent[s])
        BY <2>0, <2>2, <3>1, <3>4, AppendHistory
      <4>5. k \in 1..(m + 1)
        BY <2>0, <2>2, <3>1, <3>4, <4>4, AppendHistory
      <4>6. CASE k = m + 1
        BY <2>0, <2>2, <3>1, <3>4, <4>3, <4>4, <4>6, AppendHistory
      <4>7. CASE k \in 1..m
        <5>1. sent'[s][k] = sent[s][k]
          BY <2>0, <2>2, <3>1, <3>4, <4>4, <4>7, AppendHistory
        <5> QED
          BY <3>2, <4>4, <4>7, <5>1 DEF SentBeforePending
      <4> QED
        BY <4>5, <4>6, <4>7
    <3> QED
      BY <3>3, <3>4
  <2> QED
    BY <1>2, <2>0, <2>1, <2>2, WriteEffect
<1>3. CASE GarbageCollect \/ Restart
  BY <1>3, CollectEffect DEF SentBeforePending
<1>4. CASE UNCHANGED <<list, sent>>
  BY <1>4 DEF SentBeforePending
<1> QED
  BY <1>1, <1>2, <1>3, <1>4, TouchesOrNot DEF Touches

LEMMA OrderNext ==
    TypeOK /\ PendingInCache /\ SentBeforePending /\ SentOnceInOrder /\ [Next]_vars
    => SentOnceInOrder'
<1> SUFFICES ASSUME TypeOK, PendingInCache, SentBeforePending, SentOnceInOrder,
                    [Next]_vars
             PROVE  SentOnceInOrder'
  OBVIOUS
<1>1. CASE UNCHANGED sent
  BY <1>1 DEF SentOnceInOrder
<1>2. CASE WriteSome /\ sent' # sent
  <2>0. CacheType /\ WalkType /\ HistoryType
    BY DEF TypeOK
  <2>1. /\ cur \in DOMAIN list /\ srv \in Server /\ srv \in list[cur].server
        /\ sent' = [sent EXCEPT ![srv] = Append(sent[srv], cur)]
    BY <1>2, <2>0, WriteEffect
  <2>2. PICK m \in Nat : m = Len(sent[srv])
    BY <2>0, <2>1, AppendHistory
  <2>3. /\ \A s \in Server \ {srv} : sent'[s] = sent[s]
        /\ Len(sent'[srv]) = m + 1
        /\ \A k \in 1..m : sent'[srv][k] = sent[srv][k]
        /\ sent'[srv][m + 1] = cur
    <3>1. /\ \A s \in Server \ {srv} : sent'[s] = sent[s]
          /\ Len(sent'[srv]) = Len(sent[srv]) + 1
          /\ \A k \in 1..Len(sent[srv]) : sent'[srv][k] = sent[srv][k]
          /\ sent'[srv][Len(sent[srv]) + 1] = cur
      BY <2>0, <2>1, AppendHistory
    <3> QED
      BY <2>2, <3>1
  <2> SUFFICES ASSUME NEW a \in 1..Len(sent'[srv]), NEW b \in 1..Len(sent'[srv]), a < b
               PROVE  sent'[srv][a] < sent'[srv][b]
    BY <2>3 DEF SentOnceInOrder
  <2>4. a \in 1..m
    BY <2>3
  <2>5. CASE b = m + 1
    BY <2>1, <2>2, <2>3, <2>4, <2>5 DEF SentBeforePending
  <2>6. CASE b \in 1..m
    BY <2>1, <2>2, <2>3, <2>4, <2>6 DEF SentOnceInOrder
  <2> QED
    BY <2>3, <2>5, <2>6
<1> QED
  BY <1>1, <1>2, TouchesOrNot DEF Touches, Dispatch, GarbageCollect, Restart

LEMMA UnsentNext ==
    TypeOK /\ PendingInCache /\ PendingIsUnsent /\ SentBeforePending'
    /\ [Next]_vars => PendingIsUnsent'
<1> SUFFICES ASSUME TypeOK, PendingInCache, PendingIsUnsent, SentBeforePending',
                    [Next]_vars
             PROVE  PendingIsUnsent'
  OBVIOUS
<1>1. CASE Dispatch
  <2>1. \A s \in Server : SentTo(s)' = SentTo(s)
    BY <1>1, ScanEffect DEF SentTo
  <2>2. \A i \in DOMAIN list' \ DOMAIN list : \A s \in Server : i \notin SentTo(s)
    BY <1>1, ScanEffect DEF SentTo
  <2> QED
    BY <1>1, <2>1, <2>2, ScanEffect DEF PendingIsUnsent
<1>2. CASE WriteSome
  <2>0. CacheType /\ WalkType /\ HistoryType
    BY DEF TypeOK
  <2>1. CASE UNCHANGED <<list, sent>>
    BY <2>1 DEF PendingIsUnsent, SentTo
  <2>2. CASE /\ list'[cur].server = list[cur].server \ {srv}
             /\ sent' = [sent EXCEPT ![srv] = Append(sent[srv], cur)]
    <3>1. /\ cur \in DOMAIN list /\ srv \in Server
          /\ DOMAIN list' = DOMAIN list
          /\ \A i \in DOMAIN list \ {cur} : list'[i] = list[i]
      BY <1>2, <2>0, WriteEffect
    <3>2. PICK t \in Server : t = srv
      BY <3>1
    <3>3. PICK m \in Nat : m = Len(sent[t])
      BY <2>0, <2>2, <3>1, <3>2, AppendHistory
    <3>4. /\ \A s \in Server \ {t} : sent'[s] = sent[s]
          /\ Len(sent'[t]) = m + 1
          /\ \A k \in 1..m : sent'[t][k] = sent[t][k]
          /\ sent'[t][m + 1] = cur
      <4>1. sent' = [sent EXCEPT ![t] = Append(sent[t], cur)]
        BY <2>2, <3>2
      <4>2. /\ \A s \in Server \ {t} : sent'[s] = sent[s]
            /\ Len(sent'[t]) = Len(sent[t]) + 1
            /\ \A k \in 1..Len(sent[t]) : sent'[t][k] = sent[t][k]
            /\ sent'[t][Len(sent[t]) + 1] = cur
        BY <2>0, <3>1, <4>1, AppendHistory
      <4> QED
        BY <3>3, <4>2
    <3>5. ASSUME NEW i PROVE i \in SentTo(t)' <=> i \in SentTo(t) \/ i = cur
      <4>1. \A k : k \in 1..(m + 1) <=> k \in 1..m \/ k = m + 1
        OBVIOUS
      <4>2. i \in SentTo(t)' <=> \E k \in 1..(m + 1) : i = sent'[t][k]
        BY <3>4 DEF SentTo
      <4>3. i \in SentTo(t) <=> \E k \in 1..m : i = sent[t][k]
        BY <3>3 DEF SentTo
      <4>4. (\E k \in 1..(m + 1) : i = sent'[t][k])
            <=> (\E k \in 1..m : i = sent'[t][k]) \/ i = sent'[t][m + 1]
        BY <4>1
      <4> QED
        BY <3>4, <4>2, <4>3, <4>4
    <3>6. \A s \in Server \ {t} : SentTo(s)' = SentTo(s)
      BY <3>4 DEF SentTo
    <3>7. list'[cur].server = list[cur].server \ {t}
      BY <2>2, <3>2
    <3> SUFFICES ASSUME NEW i \in DOMAIN list, NEW s \in Server
                 PROVE  s \in list'[i].server <=> i \notin SentTo(s)'
      BY <3>1 DEF PendingIsUnsent
    <3>8. s \in list[i].server <=> i \notin SentTo(s)
      BY DEF PendingIsUnsent
    <3> QED
      BY <3>1, <3>5, <3>6, <3>7, <3>8
  <2> QED
    BY <1>2, <2>0, <2>1, <2>2, WriteEffect
<1>3. CASE GarbageCollect \/ Restart
  BY <1>3, CollectEffect DEF PendingIsUnsent, SentTo
<1>4. CASE UNCHANGED <<list, sent>>
  BY <1>4 DEF PendingIsUnsent, SentTo
<1> QED
  BY <1>1, <1>2, <1>3, <1>4, TouchesOrNot DEF Touches

-----------------------------------------------------------------------------

LEMMA InvInit == Init => IInv
<1> SUFFICES ASSUME Init PROVE IInv
  OBVIOUS
<1>1. /\ pc = "sleep" /\ DOMAIN list = {}
      /\ \A s \in Server : sent[s] = <<>>
  BY DEF Init
<1>2. \A s \in Server : Len(sent[s]) = 0
  BY <1>1
<1> QED
  BY <1>1, <1>2, TypeInit
  DEF IInv, PendingInCache, WalkedIsSent, WalkIsOver, SentBeforePending,
      SentOnceInOrder, PendingIsUnsent

LEMMA InvNext == IInv /\ [Next]_vars => IInv'
<1> SUFFICES ASSUME IInv, [Next]_vars PROVE IInv'
  OBVIOUS
<1>1. TypeOK'
  BY ClockNext, NetNext, WalkNext, CacheNext, HistoryNext DEF IInv, TypeOK
<1>2. PendingInCache' /\ WalkIsOver' /\ WalkedIsSent'
  BY CursorNext, OverNext, WalkedNext DEF IInv
<1>3. SentBeforePending' /\ SentOnceInOrder' /\ PendingIsUnsent'
  BY BeforeNext, OrderNext, UnsentNext DEF IInv
<1> QED
  BY <1>1, <1>2, <1>3 DEF IInv

(* IInv is an invariant of the specification.                               *)
THEOREM Invariance == Spec => []IInv
BY InvInit, InvNext, PTL DEF Spec

(* Every variable keeps its type, whatever the constants.                   *)
THEOREM TypeCorrect == Spec => []TypeOK
BY Invariance, PTL DEF IInv

(* No server is written a sample twice, or out of order, whatever           *)
(* connections break, whatever the clock does, however often the process    *)
(* dies: process_info__send_one and cps_send_data.                          *)
THEOREM SentOnceInOrderAlways == Spec => []SentOnceInOrder
BY Invariance, PTL DEF IInv

(* The servers a cached sample is to go to are those it was not written to. *)
THEOREM PendingIsUnsentAlways == Spec => []PendingIsUnsent
BY Invariance, PTL DEF IInv

(* A server that fails costs the others nothing.                            *)
THEOREM UnsentMeansDisconnectedAlways == Spec => []UnsentMeansDisconnected
<1>1. IInv => UnsentMeansDisconnected
  <2> SUFFICES ASSUME IInv, pc = "gc", NEW i \in DOMAIN list, NEW s \in list[i].server
               PROVE  sockfd[s] = Closed
    BY DEF UnsentMeansDisconnected
  <2>1. srv = NServers + 1 /\ i <= cur /\ i \in Nat /\ cur \in Nat /\ s \in Server
    BY DEF IInv, WalkIsOver, TypeOK, CacheType, WalkType, Sample
  <2>2. i < cur \/ (i = cur /\ s < srv)
    BY <2>1, ServersAssumption DEF ServersAssumption, Server
  <2> QED
    BY <2>2 DEF IInv, WalkedIsSent
<1> QED
  BY <1>1, Invariance, PTL

-----------------------------------------------------------------------------

(* No sample was taken later than now, and its date is as much ahead as the *)
(* clock was then.                                                          *)
StampOK ==
    \A i \in DOMAIN list :
        /\ list[i].born <= now
        /\ list[i].born <= list[i].tm /\ list[i].tm <= list[i].born + MaxSkew

LEMMA SmallMod ==
    ASSUME NEW a \in Nat, NEW m \in Nat \ {0}, a < m PROVE a % m = a
OBVIOUS

LEMMA WrappedMod ==
    ASSUME NEW a \in Int, NEW m \in Nat \ {0}, a < 0, 0 <= a + m
    PROVE  a % m = a + m
OBVIOUS

LEMMA StampNext ==
    ASSUME TypeOK, PendingInCache, StampOK, [Next]_vars PROVE StampOK'
<1>0. /\ now \in Nat /\ MaxSkew \in Nat /\ skew \in 0..MaxSkew
      /\ \A i \in DOMAIN list : list[i].born \in Nat /\ list[i].tm \in Nat
  BY TimeAssumption DEF TimeAssumption, TypeOK, ClockType, CacheType, Sample
<1>1. CASE Dispatch
  <2>1. PICK k \in 0..MaxProcs : AddProcesses(k)
    BY <1>1 DEF Dispatch
  <2>2. now' = now
    BY <1>1 DEF Dispatch
  <2>3. now <= cdtime /\ cdtime <= now + MaxSkew
    BY <1>0 DEF cdtime
  <2> QED
    BY <1>0, <2>1, <2>2, <2>3 DEF AddProcesses, StampOK
<1>2. CASE WriteSome
  <2>1. now' = now /\ CacheType /\ WalkType
    BY <1>2 DEF WriteSome, timeVars, TypeOK
  <2>2. /\ cur \in DOMAIN list /\ DOMAIN list' = DOMAIN list
        /\ \A i \in DOMAIN list \ {cur} : list'[i] = list[i]
    BY <1>2, <2>1, WriteEffect
  <2>3. list'[cur].born = list[cur].born /\ list'[cur].tm = list[cur].tm
    <3>1. CASE UNCHANGED list
      BY <3>1
    <3>2. CASE list' = [list EXCEPT ![cur].server = @ \ {srv}]
      <4>1. list[cur] \in Sample
        BY <2>1, <2>2 DEF CacheType
      <4>2. list'[cur] = [list[cur] EXCEPT !.server = @ \ {srv}]
        BY <2>1, <2>2, <3>2 DEF CacheType
      <4> QED
        BY <4>1, <4>2 DEF Sample
    <3> QED
      BY <1>2, <3>1, <3>2 DEF WriteSome
  <2> QED
    BY <2>1, <2>2, <2>3 DEF StampOK
<1>3. CASE GarbageCollect \/ Restart
  BY <1>3, CollectEffect DEF StampOK, GarbageCollect, Restart, timeVars
<1>4. CASE Tick
  <2>1. list' = list /\ now' = now + 1
    BY <1>4 DEF Tick, cacheVars
  <2> QED
    BY <1>0, <2>1 DEF StampOK
<1>5. CASE UNCHANGED <<list, now>>
  BY <1>5 DEF StampOK
<1> QED
  BY <1>1, <1>2, <1>3, <1>4, <1>5
  DEF Next, Agent, Network, vars, ConnectOne, BeginSend, SkipServer, WriteFails,
      NextItem, PeerReads, PeerBreaks, ClockStep, timeVars, cacheVars

Forgets ==
    \A i \in DOMAIN list \ DOMAIN list' :
        \/ crashes' # crashes
        \/ SentToAll(i)
        \/ now - list[i].born > MaxCache
        \/ cdtime - list[i].tm # now - list[i].born

LEMMA ForgetsStep ==
    ASSUME IInv, StampOK, [Next]_vars PROVE Forgets
<1>0. /\ ClockMod \in Nat \ {0} /\ MaxCache \in Nat /\ now \in Nat
      /\ now < ClockMod /\ \A i \in DOMAIN list : list[i].born \in Nat
  BY TimeAssumption DEF TimeAssumption, IInv, TypeOK, ClockType, CacheType, Sample
<1> SUFFICES ASSUME NEW i \in DOMAIN list, i \notin DOMAIN list', crashes' = crashes,
                    cdtime - list[i].tm = now - list[i].born
             PROVE  \/ SentToAll(i)
                    \/ now - list[i].born > MaxCache
  BY DEF Forgets
<1>1. CASE GarbageCollect
  <2>1. TooOld(i) \/ list[i].server = {}
    BY <1>1 DEF GarbageCollect
  <2>2. CASE TooOld(i)
    <3>1. PICK a \in Nat : a = now - list[i].born /\ a < ClockMod
      BY <1>0 DEF StampOK
    <3>2. Age(i) = a
      BY <1>0, <3>1, SmallMod DEF Age
    <3> QED
      BY <2>2, <3>1, <3>2 DEF TooOld
  <2>3. CASE list[i].server = {}
    BY <2>3 DEF IInv, PendingIsUnsent, SentToAll
  <2> QED
    BY <2>1, <2>2, <2>3
<1>2. CASE Dispatch
  BY <1>2, ScanEffect DEF IInv
<1>3. CASE WriteSome
  BY <1>3, WriteEffect DEF IInv, TypeOK
<1>4. CASE Restart
  <2>1. crashes' = crashes + 1 /\ crashes \in Nat
    BY <1>4, BoundAssumption DEF Restart, IInv, TypeOK, HistoryType, BoundAssumption
  <2> QED
    BY <2>1
<1> QED
  BY <1>1, <1>2, <1>3, <1>4, TouchesOrNot DEF Touches

LEMMA StampInvariant == Spec => []StampOK
<1>1. Init => StampOK
  BY DEF Init, StampOK
<1>2. IInv /\ StampOK /\ [Next]_vars => StampOK'
  BY StampNext DEF IInv
<1> QED
  BY <1>1, <1>2, Invariance, PTL DEF Spec

(* A sample is forgotten only when every server was written it or when it   *)
(* is older than max_cache_time, unless the process dies or the clock was   *)
(* set since the sample was taken: process_info__garbage_collector.         *)
THEOREM ForgottenOnlyWhenDoneAlways == Spec => ForgottenOnlyWhenDone
<1>1. IInv /\ StampOK /\ [Next]_vars => [Forgets]_vars
  BY ForgetsStep
<1> QED
  BY <1>1, StampInvariant, Invariance, PTL
  DEF Spec, ForgottenOnlyWhenDone, Forgets

CollectsOld ==
    pc = "gc" /\ pc' = "sleep" =>
        \A i \in DOMAIN list' : now - list[i].born <= MaxCache + MaxSkew

LEMMA CollectsOldStep ==
    ASSUME IInv, StampOK, [Next]_vars PROVE CollectsOld
<1>0. /\ ClockMod \in Nat \ {0} /\ MaxCache \in Nat /\ MaxSkew \in Nat
      /\ ClockMod > MaxTime + MaxSkew + MaxCache /\ MaxTime \in Nat
      /\ now \in 0..MaxTime /\ skew \in 0..MaxSkew
      /\ \A i \in DOMAIN list : list[i].born \in Nat /\ list[i].tm \in Nat
  BY TimeAssumption DEF TimeAssumption, IInv, TypeOK, ClockType, CacheType, Sample
<1> SUFFICES ASSUME pc = "gc", pc' = "sleep", NEW i \in DOMAIN list'
             PROVE  now - list[i].born <= MaxCache + MaxSkew
  BY DEF CollectsOld
<1>1. GarbageCollect \/ Restart
  BY DEF Next, Agent, Network, vars, walkVars, Dispatch, ConnectOne, BeginSend,
         SkipServer, WriteSome, WriteFails, NextItem, PeerReads, PeerBreaks, Tick,
         ClockStep
<1>2. CASE GarbageCollect
  <2>1. i \in DOMAIN list /\ Age(i) <= MaxCache
    <3>1. i \in DOMAIN list /\ ~(Age(i) > MaxCache)
      BY <1>2 DEF GarbageCollect, TooOld
    <3>2. Age(i) \in Nat
      BY <1>0, <3>1 DEF Age, cdtime
    <3> QED
      BY <1>0, <3>1, <3>2
  <2>2. PICK b \in Nat : b = list[i].born /\ b <= now
    BY <1>0, <2>1 DEF StampOK
  <2>3. PICK t \in Nat : t = list[i].tm /\ b <= t /\ t <= b + MaxSkew
    BY <1>0, <2>1, <2>2 DEF StampOK
  <2>4. PICK a \in Int : a = now + MaxSkew - skew - t
    BY <1>0
  <2>5. Age(i) = a % ClockMod
    <3>1. cdtime - list[i].tm = a
      BY <1>0, <2>3, <2>4 DEF cdtime
    <3> QED
      BY <3>1 DEF Age
  <2>6. CASE a >= 0
    <3>1. a % ClockMod = a
      BY <1>0, <2>2, <2>3, <2>4, <2>6, SmallMod
    <3> QED
      BY <1>0, <2>1, <2>2, <2>3, <2>4, <2>5, <3>1
  <2>7. CASE a < 0
    <3>1. a + ClockMod > MaxCache
      BY <1>0, <2>2, <2>3, <2>4
    <3>2. a % ClockMod = a + ClockMod
      BY <1>0, <2>7, <3>1, WrappedMod
    <3> QED
      BY <1>0, <2>1, <2>5, <3>1, <3>2
  <2> QED
    BY <2>6, <2>7
<1>3. CASE Restart
  BY <1>3 DEF Restart
<1> QED
  BY <1>1, <1>2, <1>3

(* What a collection leaves is not older than max_cache_time and what the   *)
(* clock was set back by, however long servers are down:                    *)
(* process_info__garbage_collector.                                         *)
THEOREM CacheBoundAlways == Spec => CacheBound
<1>1. IInv /\ StampOK /\ [Next]_vars => [CollectsOld]_vars
  BY CollectsOldStep
<1> QED
  BY <1>1, StampInvariant, Invariance, PTL DEF Spec, CacheBound, CollectsOld

-----------------------------------------------------------------------------
(* Refinement of Delivery.                                                  *)

LEMMA NothingFresh ==
    ASSUME HistoryType, UNCHANGED sent, NEW s \in Server
    PROVE  Abstract!Fresh(s) = {}
<1>1. PICK m \in Nat : m = Len(sent[s])
  BY DEF HistoryType
<1>2. (m + 1)..m = {}
  BY <1>1
<1> QED
  BY <1>1, <1>2 DEF Abstract!Fresh

(* A step that writes nothing, and adds samples for every server or forgets *)
(* some, is a step of Delivery.                                             *)
LEMMA QuietStep ==
    ASSUME IInv, IInv', UNCHANGED sent, nextId <= nextId',
           \A i \in DOMAIN list' :
              \/ i \in DOMAIN list /\ list'[i] = list[i]
              \/ i \in nextId..(nextId' - 1) \ DOMAIN list /\ list'[i].server = Server
    PROVE  Abstract!Advance
<1>1. nextId \in Nat /\ nextId' \in Nat /\ HistoryType
  BY DEF IInv, TypeOK, CacheType
<1>2. \A s \in Server : Abstract!Fresh(s) = {}
  BY <1>1, NothingFresh
<1>3. \A s \in Server : Len(sent[s]) <= Len(sent[s])
  BY <1>1 DEF HistoryType
<1>4. ASSUME NEW s \in Server PROVE Abstract!Receives(s)
  <2>1. \A a, b \in 1..Len(sent'[s]) : a < b => sent'[s][a] < sent'[s][b]
    BY DEF IInv, SentOnceInOrder
  <2> QED
    BY <1>2, <1>3, <2>1 DEF Abstract!Receives
<1>5. ASSUME NEW i \in DOMAIN list' PROVE Abstract!Holds(i)
  <2>1. \A d \in Server : i \notin Abstract!Fresh(d)
    BY <1>2
  <2>2. list'[i].server \subseteq Server
    BY DEF IInv, TypeOK, CacheType, Sample
  <2>3. CASE i \in DOMAIN list /\ list'[i] = list[i]
    BY <2>1, <2>2, <2>3 DEF Abstract!Holds, Abstract!Held, Abstract!ToReach
  <2>4. CASE i \in nextId..(nextId' - 1) \ DOMAIN list /\ list'[i].server = Server
    <3>1. i \in Abstract!New
      BY <1>1, <2>4 DEF Abstract!New
    <3> QED
      BY <2>1, <2>4, <3>1 DEF Abstract!Holds, Abstract!Held, Abstract!ToReach
  <2> QED
    BY <2>3, <2>4
<1>6. nextId - 1 <= (nextId - 1)'
  <2>1. PICK a \in Nat, b \in Nat : a = nextId /\ b = nextId'
    BY <1>1
  <2>2. a <= b
    BY <2>1
  <2>3. a - 1 <= b - 1
    BY <2>2
  <2> QED
    BY <2>1, <2>3
<1>7. \A i \in Abstract!Held' : Abstract!Holds(i)
  BY <1>5 DEF Abstract!Held
<1> QED
  BY <1>4, <1>6, <1>7 DEF Abstract!Advance

(* The last unit of a packet is the step that gives a sample to a server.   *)
LEMMA WriteStep ==
    ASSUME IInv, IInv', WriteSome, sent' # sent
    PROVE  Abstract!Advance
<1>0. CacheType /\ WalkType /\ HistoryType /\ PendingInCache /\ nextId \in Nat
  BY DEF IInv, TypeOK, CacheType
<1>1. /\ cur \in DOMAIN list /\ srv \in list[cur].server
      /\ DOMAIN list' = DOMAIN list
      /\ \A i \in DOMAIN list \ {cur} : list'[i] = list[i]
      /\ list'[cur].server = list[cur].server \ {srv}
      /\ sent' = [sent EXCEPT ![srv] = Append(sent[srv], cur)]
      /\ srv \in Server /\ nextId' = nextId
  BY <1>0, WriteEffect DEF WriteSome
<1>2. PICK t \in Server : t = srv
  BY <1>1
<1>3. PICK c \in DOMAIN list : c = cur
  BY <1>1
<1>4. PICK m \in Nat : m = Len(sent[t])
  BY <1>0 DEF HistoryType
<1>5. /\ \A s \in Server \ {t} : sent'[s] = sent[s]
      /\ Len(sent'[t]) = m + 1
      /\ \A k \in 1..m : sent'[t][k] = sent[t][k]
      /\ sent'[t][m + 1] = c
  <2>1. sent' = [sent EXCEPT ![t] = Append(sent[t], c)]
    BY <1>1, <1>2, <1>3
  <2>2. /\ \A s \in Server \ {t} : sent'[s] = sent[s]
        /\ Len(sent'[t]) = Len(sent[t]) + 1
        /\ \A k \in 1..Len(sent[t]) : sent'[t][k] = sent[t][k]
        /\ sent'[t][Len(sent[t]) + 1] = c
    BY <1>0, <2>1, AppendHistory
  <2> QED
    BY <1>4, <2>2
<1>6. Abstract!Fresh(t) = {c}
  <2>1. (m + 1)..(m + 1) = {m + 1}
    OBVIOUS
  <2> QED
    BY <1>4, <1>5, <2>1 DEF Abstract!Fresh
<1>7. \A s \in Server \ {t} : Abstract!Fresh(s) = {}
  <2> SUFFICES ASSUME NEW s \in Server \ {t} PROVE Abstract!Fresh(s) = {}
    OBVIOUS
  <2>1. PICK n \in Nat : n = Len(sent[s])
    BY <1>0 DEF HistoryType
  <2>2. (n + 1)..n = {}
    BY <2>1
  <2> QED
    BY <1>5, <2>1, <2>2 DEF Abstract!Fresh
<1>8. t \in Abstract!ToReach(c)
  BY <1>1, <1>2, <1>3 DEF Abstract!ToReach, Abstract!Held
<1>9. ASSUME NEW s \in Server PROVE Abstract!Receives(s)
  <2>1. \A a, b \in 1..Len(sent'[s]) : a < b => sent'[s][a] < sent'[s][b]
    BY DEF IInv, SentOnceInOrder
  <2>2. PICK n \in Nat : n = Len(sent[s])
    BY <1>0 DEF HistoryType
  <2>3. n <= Len(sent'[s]) /\ \A k \in 1..n : sent'[s][k] = sent[s][k]
    BY <1>4, <1>5, <2>2
  <2>4. \A i \in Abstract!Fresh(s) : i = c /\ s = t
    BY <1>6, <1>7
  <2> QED
    BY <1>8, <2>1, <2>2, <2>3, <2>4 DEF Abstract!Receives, Abstract!Held
<1>10. ASSUME NEW i \in DOMAIN list' PROVE Abstract!Holds(i)
  <2>1. i \in DOMAIN list /\ list[i].server \subseteq Server
    BY <1>0, <1>1 DEF CacheType, Sample
  <2>2. Abstract!ToReach(i) = list[i].server
    BY <2>1 DEF Abstract!ToReach, Abstract!Held
  <2>3. \A d \in Server : i \in Abstract!Fresh(d) <=> i = c /\ d = t
    BY <1>6, <1>7
  <2>4. list'[i].server = {d \in list[i].server : i \notin Abstract!Fresh(d)}
    <3>1. CASE i = c
      BY <1>1, <1>2, <1>3, <2>1, <2>3, <3>1
    <3>2. CASE i # c
      BY <1>1, <1>3, <2>1, <2>3, <3>2
    <3> QED
      BY <3>1, <3>2
  <2> QED
    BY <1>1, <2>1, <2>2, <2>4 DEF Abstract!Holds, Abstract!Held
<1> QED
  BY <1>0, <1>1, <1>9, <1>10 DEF Abstract!Advance, Abstract!Held

LEMMA DeliveryStep ==
    ASSUME IInv, IInv', [Next]_vars
    PROVE  [Abstract!Advance]_(Abstract!vars)
<1>0. nextId \in Nat \ {0} /\ CacheType /\ WalkType /\ PendingInCache
  BY DEF IInv, TypeOK, CacheType
<1>1. CASE Dispatch
  <2>1. PICK k \in 0..MaxProcs : AddProcesses(k)
    BY <1>1 DEF Dispatch
  <2>2. k \in Nat /\ nextId' = nextId + k /\ sent' = sent
    BY <1>1, <2>1, BoundAssumption DEF BoundAssumption, AddProcesses, Dispatch
  <2>3. \A i \in DOMAIN list' :
           \/ i \in DOMAIN list /\ list'[i] = list[i]
           \/ i \in nextId..(nextId' - 1) \ DOMAIN list /\ list'[i].server = Server
    BY <1>0, <2>1, <2>2 DEF AddProcesses
  <2>4. nextId <= nextId'
    BY <1>0, <2>2
  <2> QED
    BY <2>2, <2>3, <2>4, QuietStep
<1>2. CASE GarbageCollect \/ Restart
  <2>1. nextId' = nextId
    BY <1>2 DEF GarbageCollect, Restart
  <2> QED
    BY <1>0, <1>2, <2>1, CollectEffect, QuietStep
<1>3. CASE WriteSome /\ sent' # sent
  BY <1>3, WriteStep
<1>4. CASE UNCHANGED <<list, sent, nextId>>
  BY <1>4 DEF Abstract!vars
<1>5. WriteSome /\ sent' = sent => UNCHANGED <<list, nextId>>
  <2> SUFFICES ASSUME WriteSome, sent' = sent PROVE UNCHANGED <<list, nextId>>
    OBVIOUS
  <2>1. UNCHANGED nextId
    BY DEF WriteSome
  <2>2. CASE sent' = [sent EXCEPT ![srv] = Append(@, cur)]
    <3>1. srv \in Server /\ cur \in DOMAIN list
      BY <1>0, WriteEffect
    <3>2. HistoryType
      BY DEF IInv, TypeOK
    <3>3. /\ Len(sent[srv]) \in Nat /\ Len(sent'[srv]) = Len(sent[srv]) + 1
      BY <1>0, <2>2, <3>1, <3>2, AppendHistory
    <3> QED
      BY <3>3
  <2>3. CASE UNCHANGED list
    BY <2>1, <2>3
  <2> QED
    BY <2>2, <2>3 DEF WriteSome
<1> QED
  BY <1>1, <1>2, <1>3, <1>4, <1>5
  DEF Next, Agent, Network, vars, ConnectOne, BeginSend, SkipServer, WriteFails,
      NextItem, PeerReads, PeerBreaks, Tick, ClockStep, cacheVars

(* The Linux agent implements the abstract delivery of samples, for every   *)
(* number of servers, every packet length and every bound: each call of     *)
(* send_one, write and the collector is a step of Delivery, or none.        *)
THEOREM Refinement == Spec => Delivered
<1>1. Init => Abstract!Init
  BY DEF Init, Abstract!Init, Abstract!Held
<1>2. IInv /\ IInv' /\ [Next]_vars => [Abstract!Advance]_(Abstract!vars)
  BY DeliveryStep
<1> QED
  BY <1>1, <1>2, Invariance, PTL DEF Spec, Delivered, Abstract!Spec
=============================================================================
