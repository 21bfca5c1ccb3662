-------------------------- MODULE ServerInput_proofs --------------------------
(* Proofs about what the server does with its input: the event loop, which  *)
(* accepts clients, times them out and backs off (EventLoop), for every set *)
(* of clients, every timeout and every cool-down; then the reading of one   *)
(* connection (ObjectReader), for every stream, every buffer size and every *)
(* width of its counters.                                                   *)
EXTENDS EventLoop, ObjectReader, TLAPS, WellFoundedInduction, SequenceTheorems

-----------------------------------------------------------------------------
(* The event loop. *)

(* The listener goes on as it is, the connections do what they do: what     *)
(* each step does to a connection.                                          *)
ClientType ==
    /\ link \in [Client -> {"none", "waiting", "open", "closed"}]
    /\ timer \in [Client -> {Off} \cup (-1)..(Timeout + MaxBack)]
    /\ back \in 0..MaxBack /\ idle \in [Client -> (-back)..MaxIdle]
    /\ quiet \in [Client -> 0..MaxQuiet] /\ late \in [Client -> 0..back]

ListenerType ==
    /\ listening \in BOOLEAN /\ cooling \in {Off} \cup (-1)..Cooldown
    /\ after \in (-1)..Cooldown /\ backoff \in 0..(Cooldown + 1)

LEMMA ElapseType ==
    ASSUME NEW n \in Nat, NEW t \in {Off} \cup (-1)..n
    PROVE  Elapse(t) \in {Off} \cup (-1)..n
BY LoopAssumption DEF LoopAssumption, Elapse

LEMMA RemainingType ==
    ASSUME ClientType, NEW c \in Client, idle[c] <= Timeout
    PROVE  TimerAgain(Remaining(c)) \in {Off} \cup 0..(Timeout + MaxBack)
<1>1. PICK b \in 0..MaxBack, i \in Int : b = back /\ i = idle[c] /\ -b <= i /\ i <= Timeout
  BY LoopAssumption DEF LoopAssumption, ClientType, MaxIdle
<1>2. Timeout - i \in 0..(Timeout + MaxBack)
  BY <1>1, LoopAssumption DEF LoopAssumption
<1> QED
  BY <1>1, <1>2 DEF TimerAgain, Remaining

(* The numbers of a connection, whatever became of it. *)
LEMMA ClientNumbers ==
    ASSUME ClientType
    PROVE  /\ Timeout \in Nat \ {0} /\ MaxBack \in Nat /\ Off \notin Int
           /\ back \in Nat /\ back <= MaxBack
           /\ MaxIdle = Timeout + 1 + MaxBack - back /\ MaxQuiet = Timeout + 1 + MaxBack
           /\ \A c \in Client : /\ idle[c] \in Int /\ -back <= idle[c] /\ idle[c] <= MaxIdle
                                /\ quiet[c] \in Nat /\ quiet[c] <= MaxQuiet
                                /\ late[c] \in Nat /\ late[c] <= back
                                /\ timer[c] = Off \/ timer[c] \in Int
BY LoopAssumption DEF LoopAssumption, ClientType, MaxIdle, MaxQuiet

(* The timer of a connection that is gone is off, and its memory is free.   *)
GoneIsOff == \A c \in Client : link[c] # "open" => timer[c] = Off /\ idle[c] = 0

LEMMA ClientTypeNext == ClientType /\ GoneIsOff /\ [LoopNext]_loopVars => ClientType'
<1> SUFFICES ASSUME ClientType, GoneIsOff, [LoopNext]_loopVars PROVE ClientType'
  OBVIOUS
<1>0. /\ Timeout \in Nat \ {0} /\ MaxBack \in Nat /\ Off \notin Int
      /\ back \in Nat /\ back <= MaxBack
      /\ MaxIdle = Timeout + 1 + MaxBack - back /\ MaxQuiet = Timeout + 1 + MaxBack
      /\ \A c \in Client : /\ idle[c] \in Int /\ -back <= idle[c] /\ idle[c] <= MaxIdle
                           /\ quiet[c] \in Nat /\ quiet[c] <= MaxQuiet
                           /\ late[c] \in Nat /\ late[c] <= back
  BY ClientNumbers
<1>10. MaxQuiet' = MaxQuiet /\ (UNCHANGED back => MaxIdle' = MaxIdle)
  BY DEF MaxQuiet, MaxIdle
<1>1. CASE Listen
  <2>1. PICK new \in SUBSET Waiting :
          /\ link' = [c \in Client |-> IF c \in new THEN "open" ELSE link[c]]
          /\ timer' = [c \in Client |-> IF c \in new THEN Timeout ELSE timer[c]]
          /\ idle' = [c \in Client |-> IF c \in new THEN 0 ELSE idle[c]]
          /\ quiet' = [c \in Client |-> IF c \in new THEN 0 ELSE quiet[c]]
          /\ late' = [c \in Client |-> IF c \in new THEN 0 ELSE late[c]]
    BY <1>1 DEF Listen
  <2>2. UNCHANGED back
    BY <1>1 DEF Listen
  <2>3. 0 \in (-back)..MaxIdle /\ 0 \in 0..MaxQuiet /\ 0 \in 0..back
    BY <1>0
  <2> QED
    BY <1>0, <1>10, <2>1, <2>2, <2>3 DEF ClientType
<1>2. CASE Tick
  <2>1. /\ timer' = [c \in Client |-> Elapse(timer[c])] /\ UNCHANGED <<link, back, late>>
        /\ idle' = [c \in Client |-> IF link[c] = "open" /\ idle[c] < MaxIdle
                                     THEN idle[c] + 1 ELSE idle[c]]
        /\ quiet' = [c \in Client |-> IF link[c] = "open" /\ quiet[c] < MaxQuiet
                                      THEN quiet[c] + 1 ELSE quiet[c]]
    BY <1>2 DEF Tick
  <2>2. timer' \in [Client -> {Off} \cup (-1)..(Timeout + MaxBack)]
    BY <1>0, <2>1, ElapseType DEF ClientType
  <2>3. idle' \in [Client -> (-back)..MaxIdle]
    BY <1>0, <2>1
  <2>4. quiet' \in [Client -> 0..MaxQuiet]
    BY <1>0, <2>1
  <2> QED
    BY <1>10, <2>1, <2>2, <2>3, <2>4 DEF ClientType
<1>3. CASE SetAhead
  <2>1. PICK d \in 1..(Timeout + 1 + MaxBack) :
          idle' = [c \in Client |->
                    IF link[c] # "open" THEN idle[c]
                    ELSE IF idle[c] + d < MaxIdle THEN idle[c] + d ELSE MaxIdle]
    BY <1>3 DEF SetAhead
  <2>2. UNCHANGED <<link, timer, back, quiet, late>>
    BY <1>3 DEF SetAhead
  <2>3. idle' \in [Client -> (-back)..MaxIdle]
    BY <1>0, <2>1
  <2> QED
    BY <1>10, <2>2, <2>3 DEF ClientType
<1>4. CASE SetBack
  <2>1. PICK d \in 1..(MaxBack - back) :
          /\ back' = back + d
          /\ idle' = [c \in Client |-> IF link[c] = "open" THEN idle[c] - d ELSE idle[c]]
          /\ late' = [c \in Client |-> IF link[c] = "open" THEN late[c] + d ELSE late[c]]
    BY <1>4 DEF SetBack
  <2>2. UNCHANGED <<link, timer, quiet>>
    BY <1>4 DEF SetBack
  <2>3. back' \in 0..MaxBack /\ MaxIdle' = MaxIdle - d
    BY <1>0, <2>1 DEF MaxIdle
  <2>4. ASSUME NEW c \in Client PROVE idle'[c] \in (-(back'))..(MaxIdle')
    <3>1. CASE link[c] = "open"
      BY <1>0, <2>1, <2>3, <3>1
    <3>2. CASE link[c] # "open"
      <4>1. idle'[c] = 0
        BY <2>1, <3>2 DEF GoneIsOff
      <4> QED
        BY <1>0, <2>1, <2>3, <4>1
    <3> QED
      BY <3>1, <3>2
  <2>5. late' \in [Client -> 0..(back')]
    BY <1>0, <2>1
  <2>6. idle' \in [Client -> (-(back'))..(MaxIdle')]
    BY <2>1, <2>4
  <2> QED
    BY <1>10, <2>2, <2>3, <2>5, <2>6 DEF ClientType
<1>5. ASSUME NEW c \in Client, StopClient(c) PROVE ClientType'
  <2>1. /\ link' = [link EXCEPT ![c] = "closed"] /\ timer' = [timer EXCEPT ![c] = Off]
        /\ idle' = [idle EXCEPT ![c] = 0] /\ quiet' = [quiet EXCEPT ![c] = 0]
        /\ late' = [late EXCEPT ![c] = 0] /\ UNCHANGED back
    BY <1>5 DEF StopClient
  <2>2. 0 \in (-back)..MaxIdle /\ 0 \in 0..MaxQuiet /\ 0 \in 0..back
    BY <1>0
  <2> QED
    BY <1>10, <2>1, <2>2 DEF ClientType
<1>6. CASE \E c \in Client : TimeoutCb(c)
  <2>1. PICK c \in Client : TimeoutCb(c)
    BY <1>6
  <2>2. CASE StopClient(c)
    BY <1>5, <2>2
  <2>3. CASE /\ idle[c] <= Timeout /\ UNCHANGED <<link, clockVars>>
             /\ timer' = [timer EXCEPT ![c] = TimerAgain(Remaining(c))]
    <3>1. TimerAgain(Remaining(c)) \in {Off} \cup (-1)..(Timeout + MaxBack)
      BY <1>0, <2>3, RemainingType
    <3> QED
      BY <1>10, <2>3, <3>1 DEF ClientType, clockVars
  <2> QED
    BY <2>1, <2>2, <2>3 DEF TimeoutCb
<1>7. CASE \E c \in Client : ClientCb(c)
  <2>1. PICK c \in Client : /\ idle' = [idle EXCEPT ![c] = 0] /\ quiet' = [quiet EXCEPT ![c] = 0]
                            /\ UNCHANGED <<link, timer, back, late>>
    BY <1>7 DEF ClientCb
  <2>2. 0 \in (-back)..MaxIdle /\ 0 \in 0..MaxQuiet
    BY <1>0
  <2> QED
    BY <1>10, <2>1, <2>2 DEF ClientType
<1>8. CASE \E c \in Client : Connect(c)
  BY <1>8, <1>10 DEF Connect, ClientType, clockVars
<1>9. CASE \E c \in Client : ClientEnds(c)
  BY <1>5, <1>9 DEF ClientEnds
<1>11. CASE UNCHANGED clientVars
  BY <1>10, <1>11 DEF clientVars, clockVars, ClientType
<1> QED
  BY <1>1, <1>2, <1>3, <1>4, <1>6, <1>7, <1>8, <1>9, <1>11 DEF LoopNext, loopVars, CooldownCb

(* What accepting clients does to the listener. *)
LEMMA ListenEffect ==
    Listen => \/ /\ listening' = FALSE /\ cooling' = after /\ backoff' = 0
                 /\ after' = after
              \/ UNCHANGED listenerVars
<1> SUFFICES ASSUME Listen
             PROVE  \/ /\ listening' = FALSE /\ cooling' = after /\ backoff' = 0
                       /\ after' = after
                    \/ UNCHANGED listenerVars
  OBVIOUS
<1>1. PICK new \in SUBSET Waiting, starved \in BOOLEAN :
        \/ /\ starved
           /\ listening' = FALSE /\ cooling' = after /\ backoff' = 0
           /\ UNCHANGED after
        \/ ~starved /\ UNCHANGED listenerVars
  BY Zenon DEF Listen
<1> QED
  BY <1>1

LEMMA ListenerTypeNext == ListenerType /\ [LoopNext]_loopVars => ListenerType'
<1> SUFFICES ASSUME ListenerType, [LoopNext]_loopVars PROVE ListenerType'
  OBVIOUS
<1>0. Cooldown \in Nat \ {0} /\ Off \notin Int
  BY LoopAssumption DEF LoopAssumption
<1> USE <1>0 DEF ListenerType
<1>1. CASE Listen
  <2>1. CASE /\ listening' = FALSE /\ cooling' = after /\ backoff' = 0
             /\ after' = after
    <3>1. listening' \in BOOLEAN
      BY <2>1
    <3>2. backoff' \in 0..(Cooldown + 1)
      BY <2>1
    <3>3. cooling' \in {Off} \cup (-1)..Cooldown /\ after' \in (-1)..Cooldown
      BY <2>1
    <3> QED
      BY <3>1, <3>2, <3>3
  <2>2. CASE UNCHANGED listenerVars
    BY <2>2 DEF listenerVars
  <2> QED
    BY <1>1, <2>1, <2>2, ListenEffect
<1>2. CASE CooldownCb
  BY <1>2 DEF CooldownCb, Due
<1>3. CASE Tick
  <2>1. cooling' \in {Off} \cup (-1)..Cooldown
    BY <1>3, ElapseType DEF Tick
  <2> QED
    BY <1>3, <2>1 DEF Tick
<1>4. CASE UNCHANGED listenerVars
  BY <1>4 DEF listenerVars
<1> QED
  BY <1>1, <1>2, <1>3, <1>4
  DEF LoopNext, loopVars, Connect, ClientCb, ClientEnds, StopClient, TimeoutCb, SetAhead, SetBack

LEMMA GoneIsOffNext == ClientType /\ GoneIsOff /\ [LoopNext]_loopVars => GoneIsOff'
<1> SUFFICES ASSUME ClientType, GoneIsOff, [LoopNext]_loopVars PROVE GoneIsOff'
  OBVIOUS
<1>1. CASE Listen
  <2>1. PICK new \in SUBSET Waiting :
          /\ link' = [c \in Client |-> IF c \in new THEN "open" ELSE link[c]]
          /\ timer' = [c \in Client |-> IF c \in new THEN Timeout ELSE timer[c]]
          /\ idle' = [c \in Client |-> IF c \in new THEN 0 ELSE idle[c]]
          /\ quiet' = [c \in Client |-> IF c \in new THEN 0 ELSE quiet[c]]
          /\ late' = [c \in Client |-> IF c \in new THEN 0 ELSE late[c]]
    BY <1>1 DEF Listen
  <2> QED
    BY <2>1 DEF GoneIsOff
<1>2. CASE Tick
  BY <1>2 DEF Tick, Elapse, GoneIsOff
<1>3. CASE SetAhead \/ SetBack
  BY <1>3 DEF SetAhead, SetBack, GoneIsOff
<1>4. CASE \E c \in Client : TimeoutCb(c) \/ Connect(c) \/ ClientCb(c) \/ ClientEnds(c)
  BY <1>4 DEF TimeoutCb, Connect, ClientCb, ClientEnds, StopClient, clockVars, ClientType, GoneIsOff
<1>5. CASE UNCHANGED clientVars
  BY <1>5 DEF clientVars, clockVars, GoneIsOff
<1> QED
  BY <1>1, <1>2, <1>3, <1>4, <1>5 DEF LoopNext, loopVars, CooldownCb

LEMMA TypesInvariant == LoopSpec => [](ClientType /\ ListenerType /\ GoneIsOff)
<1>1. LoopInit => ClientType /\ ListenerType /\ GoneIsOff
  BY LoopAssumption
  DEF LoopAssumption, LoopInit, ClientType, MaxIdle, MaxQuiet, ListenerType, GoneIsOff
<1> QED
  BY <1>1, ClientTypeNext, ListenerTypeNext, GoneIsOffNext, PTL DEF LoopSpec

(* Every variable keeps its type, whenever the time of day is set: no timer *)
(* is ever set to a time that is past, or longer than the longest by more   *)
(* than the clock was set back, and none is left of a connection that is    *)
(* gone (timeout_cb, stop_client_watcher).                                  *)
THEOREM LoopTypeCorrect == LoopSpec => []LoopTypeOK
<1>1. ClientType /\ ListenerType /\ GoneIsOff => LoopTypeOK
  BY LoopAssumption DEF LoopAssumption, ClientType, ListenerType, GoneIsOff, LoopTypeOK, Left
<1> QED
  BY <1>1, TypesInvariant, PTL

-----------------------------------------------------------------------------

(* What the time of day says of an activity: it is as old, but for what the *)
(* clock was set back.                                                      *)
NotYounger ==
    \A c \in Client : link[c] = "open" /\ idle[c] < MaxIdle => quiet[c] - idle[c] <= late[c]

TimerBound == NotYounger /\ TimerNotLate

LEMMA TimerNext == ClientType /\ TimerBound /\ GoneIsOff /\ [LoopNext]_loopVars => TimerBound'
<1> SUFFICES ASSUME ClientType, TimerBound, GoneIsOff, [LoopNext]_loopVars PROVE TimerBound'
  OBVIOUS
<1>0. /\ Timeout \in Nat \ {0} /\ MaxBack \in Nat /\ Off \notin Int
      /\ back \in Nat /\ back <= MaxBack
      /\ MaxIdle = Timeout + 1 + MaxBack - back /\ MaxQuiet = Timeout + 1 + MaxBack
      /\ \A c \in Client : /\ idle[c] \in Int /\ -back <= idle[c] /\ idle[c] <= MaxIdle
                           /\ quiet[c] \in Nat /\ quiet[c] <= MaxQuiet
                           /\ late[c] \in Nat /\ late[c] <= back
                           /\ timer[c] = Off \/ timer[c] \in Int
  BY ClientNumbers
<1>10. UNCHANGED back => MaxIdle' = MaxIdle
  BY DEF MaxIdle
<1> USE <1>0 DEF TimerBound, NotYounger, TimerNotLate
<1>1. CASE Listen
  <2>1. PICK new \in SUBSET Waiting :
          /\ link' = [c \in Client |-> IF c \in new THEN "open" ELSE link[c]]
          /\ timer' = [c \in Client |-> IF c \in new THEN Timeout ELSE timer[c]]
          /\ idle' = [c \in Client |-> IF c \in new THEN 0 ELSE idle[c]]
          /\ quiet' = [c \in Client |-> IF c \in new THEN 0 ELSE quiet[c]]
          /\ late' = [c \in Client |-> IF c \in new THEN 0 ELSE late[c]]
    BY <1>1 DEF Listen
  <2>2. MaxIdle' = MaxIdle
    BY <1>1, <1>10 DEF Listen
  <2>3. ASSUME NEW c \in Client, c \in new
        PROVE  idle'[c] = 0 /\ quiet'[c] = 0 /\ late'[c] = 0 /\ timer'[c] = Timeout
    BY <2>1, <2>3
  <2>4. ASSUME NEW c \in Client, c \notin new
        PROVE  /\ idle'[c] = idle[c] /\ quiet'[c] = quiet[c] /\ late'[c] = late[c]
               /\ timer'[c] = timer[c] /\ link'[c] = link[c]
    BY <2>1, <2>4
  <2>5. NotYounger'
    BY <2>2, <2>3, <2>4
  <2>6. TimerNotLate'
    BY <2>3, <2>4
  <2> QED
    BY <2>5, <2>6
<1>2. CASE Tick
  <2>1. /\ timer' = [c \in Client |-> Elapse(timer[c])] /\ UNCHANGED <<link, back, late>>
        /\ idle' = [c \in Client |-> IF link[c] = "open" /\ idle[c] < MaxIdle
                                     THEN idle[c] + 1 ELSE idle[c]]
        /\ quiet' = [c \in Client |-> IF link[c] = "open" /\ quiet[c] < MaxQuiet
                                      THEN quiet[c] + 1 ELSE quiet[c]]
    BY <1>2 DEF Tick
  <2>2. NotYounger'
    <3> SUFFICES ASSUME NEW c \in Client, link[c] = "open", idle'[c] < MaxIdle
                 PROVE  quiet'[c] - idle'[c] <= late[c]
      BY <1>10, <2>1
    <3>1. idle[c] < MaxIdle /\ idle'[c] = idle[c] + 1
      BY <2>1
    <3>2. quiet'[c] \in Nat /\ quiet'[c] <= quiet[c] + 1
      BY <2>1
    <3> QED
      BY <3>1, <3>2
  <2>3. TimerNotLate'
    <3> SUFFICES ASSUME NEW c \in Client, link[c] = "open", timer'[c] # Off, timer'[c] >= 0
                 PROVE  timer'[c] + quiet'[c] <= Timeout + late[c]
      BY <2>1
    <3>1. timer[c] # Off /\ timer[c] >= 0 /\ timer'[c] = timer[c] - 1
      BY <2>1 DEF Elapse
    <3>2. quiet'[c] \in Nat /\ quiet'[c] <= quiet[c] + 1
      BY <2>1
    <3> QED
      BY <3>1, <3>2
  <2> QED
    BY <2>2, <2>3
<1>3. CASE SetAhead
  <2>1. PICK d \in 1..(Timeout + 1 + MaxBack) :
          idle' = [c \in Client |->
                    IF link[c] # "open" THEN idle[c]
                    ELSE IF idle[c] + d < MaxIdle THEN idle[c] + d ELSE MaxIdle]
    BY <1>3 DEF SetAhead
  <2>2. UNCHANGED <<link, timer, back, quiet, late>> /\ MaxIdle' = MaxIdle
    BY <1>3, <1>10 DEF SetAhead
  <2>3. NotYounger'
    <3> SUFFICES ASSUME NEW c \in Client, link[c] = "open", idle'[c] < MaxIdle
                 PROVE  quiet[c] - idle'[c] <= late[c]
      BY <2>2
    <3>1. idle'[c] = idle[c] + d
      BY <2>1
    <3> QED
      BY <3>1
  <2> QED
    BY <2>2, <2>3
<1>4. CASE SetBack
  <2>1. PICK d \in 1..(MaxBack - back) :
          /\ back' = back + d
          /\ idle' = [c \in Client |-> IF link[c] = "open" THEN idle[c] - d ELSE idle[c]]
          /\ late' = [c \in Client |-> IF link[c] = "open" THEN late[c] + d ELSE late[c]]
    BY <1>4 DEF SetBack
  <2>2. UNCHANGED <<link, timer, quiet>>
    BY <1>4 DEF SetBack
  <2>3. MaxIdle' = MaxIdle - d
    BY <2>1 DEF MaxIdle
  <2>4. NotYounger'
    <3> SUFFICES ASSUME NEW c \in Client, link[c] = "open", idle'[c] < MaxIdle - d
                 PROVE  quiet[c] - idle'[c] <= late'[c]
      BY <2>2, <2>3
    <3>1. idle'[c] = idle[c] - d /\ late'[c] = late[c] + d
      BY <2>1
    <3> QED
      BY <3>1
  <2>5. TimerNotLate'
    <3> SUFFICES ASSUME NEW c \in Client, link[c] = "open", timer[c] # Off, timer[c] >= 0
                 PROVE  timer[c] + quiet[c] <= Timeout + late'[c]
      BY <2>2
    <3>1. late'[c] = late[c] + d
      BY <2>1
    <3> QED
      BY <3>1
  <2> QED
    BY <2>4, <2>5
<1>5. ASSUME NEW c \in Client, StopClient(c) PROVE TimerBound'
  <2>1. link'[c] = "closed" /\ MaxIdle' = MaxIdle
    BY <1>5, <1>10 DEF StopClient, ClientType
  <2>2. \A x \in Client \ {c} : /\ link'[x] = link[x] /\ timer'[x] = timer[x]
                              /\ idle'[x] = idle[x] /\ quiet'[x] = quiet[x] /\ late'[x] = late[x]
    BY <1>5 DEF StopClient, ClientType
  <2> QED
    BY <2>1, <2>2
<1>6. CASE \E c \in Client : TimeoutCb(c)
  <2>1. PICK c \in Client : TimeoutCb(c)
    BY <1>6
  <2>2. CASE StopClient(c)
    BY <1>5, <2>2
  <2>3. CASE /\ idle[c] <= Timeout /\ UNCHANGED <<link, clockVars>>
             /\ timer' = [timer EXCEPT ![c] = TimerAgain(Remaining(c))]
    <3>1. TimerAgain(Remaining(c)) \in {Off, Timeout - idle[c]}
      BY DEF TimerAgain, Remaining
    <3>2. UNCHANGED <<link, idle, quiet, late, back>> /\ MaxIdle' = MaxIdle
      BY <1>10, <2>3 DEF clockVars
    <3>3. quiet[c] - idle[c] <= late[c]
      <4>1. link[c] = "open"
        BY <2>1 DEF TimeoutCb
      <4>2. idle[c] < MaxIdle
        BY <2>3
      <4> QED
        BY <4>1, <4>2
    <3>4. \A x \in Client : x # c => timer'[x] = timer[x]
      BY <2>3 DEF ClientType
    <3>5. timer'[c] \in {Off, Timeout - idle[c]}
      BY <2>3, <3>1 DEF ClientType
    <3>6. NotYounger'
      BY <3>2
    <3>7. TimerNotLate'
      BY <3>2, <3>3, <3>4, <3>5
    <3> QED
      BY <3>6, <3>7
  <2> QED
    BY <2>1, <2>2, <2>3 DEF TimeoutCb
<1>7. CASE \E c \in Client : ClientCb(c)
  <2>1. PICK c \in Client : /\ idle' = [idle EXCEPT ![c] = 0] /\ quiet' = [quiet EXCEPT ![c] = 0]
                            /\ UNCHANGED <<link, timer, back, late>>
    BY <1>7 DEF ClientCb
  <2>2. idle'[c] = 0 /\ quiet'[c] = 0 /\ MaxIdle' = MaxIdle
    BY <1>10, <2>1 DEF ClientType
  <2>3. \A x \in Client \ {c} : idle'[x] = idle[x] /\ quiet'[x] = quiet[x]
    BY <2>1 DEF ClientType
  <2>4. NotYounger'
    BY <2>1, <2>2, <2>3
  <2>5. TimerNotLate'
    BY <2>1, <2>2, <2>3
  <2> QED
    BY <2>4, <2>5
<1>8. CASE \E c \in Client : Connect(c)
  <2>1. PICK c \in Client : link' = [link EXCEPT ![c] = "waiting"]
    BY <1>8 DEF Connect
  <2>2. UNCHANGED <<timer, idle, quiet, late, back>> /\ MaxIdle' = MaxIdle
    BY <1>8, <1>10 DEF Connect, clockVars
  <2>3. \A x \in Client : link'[x] = "open" => link[x] = "open"
    BY <2>1 DEF ClientType
  <2> QED
    BY <2>2, <2>3
<1>9. CASE \E c \in Client : ClientEnds(c)
  BY <1>5, <1>9 DEF ClientEnds
<1>11. CASE UNCHANGED clientVars
  BY <1>10, <1>11 DEF clientVars, clockVars
<1> QED
  BY <1>1, <1>2, <1>3, <1>4, <1>6, <1>7, <1>8, <1>9, <1>11 DEF LoopNext, loopVars, CooldownCb

(* The timer of a connection, when it has one, is due no later than the     *)
(* moment the client has been quiet for Timeout and for as long as the time *)
(* of day was set back since it was accepted, whatever the order of reads,  *)
(* of calls back and of settings of the clock (timeout_cb, client_cb).      *)
THEOREM TimerNotLateAlways == LoopSpec => []TimerNotLate
<1>1. LoopInit => TimerBound
  BY DEF LoopInit, TimerBound, NotYounger, TimerNotLate
<1>2. TimerBound => TimerNotLate
  BY DEF TimerBound
<1> QED
  BY <1>1, <1>2, TimerNext, TypesInvariant, PTL DEF LoopSpec

LEMMA DeafNext == ListenerType /\ NeverDeaf /\ [LoopNext]_loopVars => NeverDeaf'
<1> SUFFICES ASSUME ListenerType, NeverDeaf, [LoopNext]_loopVars PROVE NeverDeaf'
  OBVIOUS
<1>0. Off \notin Int /\ Cooldown \in Nat
  BY LoopAssumption DEF LoopAssumption
<1> USE <1>0 DEF NeverDeaf, ListenerType
<1>1. CASE Listen
  BY <1>1, ListenEffect DEF listenerVars
<1>2. CASE CooldownCb
  BY <1>2 DEF CooldownCb
<1>3. CASE Tick
  BY <1>3 DEF Tick, Elapse
<1>4. CASE UNCHANGED listenerVars
  BY <1>4 DEF listenerVars
<1> QED
  BY <1>1, <1>2, <1>3, <1>4
  DEF LoopNext, loopVars, Connect, ClientCb, ClientEnds, StopClient, TimeoutCb, SetAhead, SetBack

(* A listener that was stopped always has a timer that will start it again, *)
(* however often it is stopped (listen_cb, cooldown_cb).                    *)
THEOREM NeverDeafAlways == LoopSpec => []NeverDeaf
<1>1. LoopInit => NeverDeaf
  BY DEF LoopInit, NeverDeaf
<1> QED
  BY <1>1, DeafNext, TypesInvariant, PTL DEF LoopSpec

-----------------------------------------------------------------------------
(* Chains.  A parser goes from a position to a later one, as far as it can, *)
(* and what it returns is a function of the position by recursion.          *)

(* A set of positions that has each one with those after it in it has all.  *)
LEMMA FromTheEnd ==
    ASSUME NEW n \in Nat, NEW S,
           \A p \in 1..n : (\A q \in (p + 1)..n : q \in S) => p \in S
    PROVE  \A p \in 1..n : p \in S
<1> DEFINE Less == {x \in Nat \X Nat : x[1] < x[2]}
           T == {k \in Nat : k < n /\ n - k \notin S}
<1>1. IsWellFoundedOn(Less, Nat)
  BY NatLessThanWellFounded DEF OpToRel
<1>2. SUFFICES ASSUME T # {} PROVE FALSE
  <2>1. \A p \in 1..n : n - p \in Nat /\ n - p < n /\ n - (n - p) = p
    OBVIOUS
  <2> QED
    BY <2>1
<1>3. PICK k \in T : \A y \in T : <<y, k>> \notin Less
  BY <1>1, <1>2, WFMin
<1>4. k \in Nat /\ k < n /\ n - k \in 1..n /\ n - k \notin S
  OBVIOUS
<1>5. ASSUME NEW q \in (n - k + 1)..n PROVE q \in S
  <2>1. n - q \in Nat /\ n - q < k /\ n - q < n /\ n - (n - q) = q
    BY <1>4
  <2>2. <<n - q, k>> \in Less
    BY <1>4, <2>1
  <2> QED
    BY <1>3, <2>1, <2>2
<1> QED
  BY <1>4, <1>5

(* f is what the recursion along a chain defines.  A chain ends at the       *)
(* position that is its own next.                                           *)
Along(f, n, next, step, base) ==
    \A p \in 1..n : f[p] = IF next[p] # p THEN step[p][f[next[p]]] ELSE base[p]

(* Such a function exists. *)
LEMMA ChainFunction ==
    ASSUME NEW n \in Nat, NEW V,
           NEW next \in [1..n -> 1..n], \A p \in 1..n : next[p] >= p,
           NEW step \in [1..n -> [V -> V]], NEW base \in [1..n -> V]
    PROVE  \E f \in [1..n -> V] : Along(f, n, next, step, base)
<1> DEFINE Is(f, p) == f[p] = IF next[p] # p THEN step[p][f[next[p]]] ELSE base[p]
           S == {p \in 1..(n + 1) : \E f \in [p..n -> V] : \A q \in p..n : Is(f, q)}
<1>1. n + 1 \in S
  <2>1. \A q \in (n + 1)..n : FALSE
    OBVIOUS
  <2> DEFINE h == [q \in (n + 1)..n |-> base[q]]
  <2>2. h \in [(n + 1)..n -> V]
    BY <2>1
  <2> HIDE DEF h
  <2>3. \E f \in [(n + 1)..n -> V] : \A q \in (n + 1)..n : Is(f, q)
    BY <2>1, <2>2
  <2>4. n + 1 \in 1..(n + 1)
    OBVIOUS
  <2> QED
    BY <2>3, <2>4
<1>2. ASSUME NEW p \in 1..n, p + 1 \in S PROVE p \in S
  <2>1. PICK f \in [(p + 1)..n -> V] : \A q \in (p + 1)..n : Is(f, q)
    BY <1>2
  <2> DEFINE g == [q \in p..n |-> IF q = p THEN IF next[p] # p THEN step[p][f[next[p]]] ELSE base[p]
                                  ELSE f[q]]
  <2>2. \A q \in p..n : next[q] # q => next[q] \in (p + 1)..n /\ g[next[q]] = f[next[q]]
                                      /\ f[next[q]] \in V
    OBVIOUS
  <2>3. \A q \in p..n : q = p \/ q \in (p + 1)..n
    OBVIOUS
  <2>4. g \in [p..n -> V]
    <3>1. \A q \in p..n : g[q] \in V
      BY <2>2, <2>3
    <3> QED
      BY <3>1
  <2>5. ASSUME NEW q \in p..n PROVE Is(g, q)
    <3>1. CASE q = p
      <4>1. g[p] = IF next[p] # p THEN step[p][f[next[p]]] ELSE base[p]
        OBVIOUS
      <4>2. next[p] # p => g[next[p]] = f[next[p]]
        BY <2>2
      <4> HIDE DEF g
      <4> QED
        BY <3>1, <4>1, <4>2
    <3>2. CASE q \in (p + 1)..n
      <4>1. g[q] = f[q] /\ Is(f, q)
        BY <2>1, <3>2
      <4>2. next[q] # q => g[next[q]] = f[next[q]]
        BY <2>2, <3>2
      <4> HIDE DEF g
      <4> QED
        BY <4>1, <4>2
    <3> QED
      BY <2>3, <3>1, <3>2
  <2> HIDE DEF g
  <2>6. \E h \in [p..n -> V] : \A q \in p..n : Is(h, q)
    BY <2>4, <2>5
  <2>7. p \in 1..(n + 1)
    OBVIOUS
  <2> QED
    BY <2>6, <2>7
<1> HIDE DEF S
<1>3. ASSUME NEW p \in 1..(n + 1), \A q \in (p + 1)..(n + 1) : q \in S PROVE p \in S
  <2>1. CASE p = n + 1
    BY <1>1, <2>1
  <2>2. CASE p \in 1..n
    <3>1. p + 1 \in (p + 1)..(n + 1)
      BY <2>2
    <3> QED
      BY <1>2, <1>3, <2>2, <3>1
  <2> QED
    BY <2>1, <2>2
<1>4. 1 \in S
  <2>1. n + 1 \in Nat /\ 1 \in 1..(n + 1)
    OBVIOUS
  <2> QED
    BY <1>3, <2>1, FromTheEnd
<1> QED
  BY <1>4 DEF S, Along

(* The same when nothing is done on the way. *)
Carried(f, n, next, base) ==
    \A p \in 1..n : f[p] = IF next[p] # p THEN f[next[p]] ELSE base[p]

LEMMA ChainValue ==
    ASSUME NEW n \in Nat, NEW V,
           NEW next \in [1..n -> 1..n], \A p \in 1..n : next[p] >= p,
           NEW base \in [1..n -> V]
    PROVE  \E f \in [1..n -> V] : Carried(f, n, next, base)
<1> DEFINE step == [p \in 1..n |-> [v \in V |-> v]]
<1>1. step \in [1..n -> [V -> V]]
  OBVIOUS
<1>2. \A p \in 1..n, v \in V : step[p][v] = v
  OBVIOUS
<1> HIDE DEF step
<1>3. PICK f \in [1..n -> V] : Along(f, n, next, step, base)
  BY <1>1, ChainFunction
<1>4. \A p \in 1..n : f[p] = IF next[p] # p THEN step[p][f[next[p]]] ELSE base[p]
  BY <1>3 DEF Along
<1>5. \A p \in 1..n : f[next[p]] \in V
  OBVIOUS
<1>6. Carried(f, n, next, base)
  BY <1>2, <1>4, <1>5 DEF Carried
<1> QED
  BY <1>6

(* What it returns has the type of what it returns at the end. *)
LEMMA ChainType ==
    ASSUME NEW n \in Nat, NEW V,
           NEW next \in [1..n -> 1..n], \A p \in 1..n : next[p] >= p,
           NEW g, g = [p \in 1..n |-> g[p]],
           \A p \in 1..n : next[p] = p \/ g[next[p]] \in V => g[p] \in V
    PROVE  g \in [1..n -> V]
<1> DEFINE S == {p \in 1..n : g[p] \in V}
<1>1. ASSUME NEW p \in 1..n, \A q \in (p + 1)..n : q \in S PROVE p \in S
  <2>1. next[p] = p \/ next[p] \in (p + 1)..n
    OBVIOUS
  <2>2. next[p] = p \/ g[next[p]] \in V
    BY <1>1, <2>1
  <2> QED
    BY <2>2
<1> HIDE DEF S
<1>2. \A p \in 1..n : p \in S
  BY <1>1, FromTheEnd
<1>3. \A p \in 1..n : g[p] \in V
  BY <1>2 DEF S
<1> QED
  BY <1>3

(* Where a chain ends. *)
Ends(end, n, next) ==
    \A p \in 1..n : end[p] = IF next[p] # p THEN end[next[p]] ELSE p

(* What does not change along a chain is what it is at its end. *)
Same(g, n, next) == \A p \in 1..n : next[p] # p => g[p] = g[next[p]]

LEMMA ChainEnd ==
    ASSUME NEW n \in Nat \ {0},
           NEW next \in [1..n -> 1..n], \A p \in 1..n : next[p] >= p,
           NEW end \in [1..n -> 1..n], Ends(end, n, next),
           NEW g, Same(g, n, next)
    PROVE  next[end[1]] = end[1] /\ g[1] = g[end[1]]
<1> DEFINE S == {p \in 1..n : next[end[p]] = end[p] /\ g[p] = g[end[p]]}
<1>1. ASSUME NEW p \in 1..n, \A q \in (p + 1)..n : q \in S PROVE p \in S
  <2>1. CASE next[p] # p
    <3>1. next[p] \in (p + 1)..n
      BY <2>1
    <3>2. next[p] \in S
      BY <1>1, <3>1
    <3>3. end[p] = end[next[p]] /\ g[p] = g[next[p]]
      BY <2>1 DEF Ends, Same
    <3> QED
      BY <3>2, <3>3
  <2>2. CASE next[p] = p
    <3>1. end[p] = p
      BY <2>2 DEF Ends
    <3> QED
      BY <2>2, <3>1
  <2> QED
    BY <2>1, <2>2
<1> HIDE DEF S
<1>2. \A p \in 1..n : p \in S
  BY <1>1, FromTheEnd
<1>3. 1 \in 1..n
  OBVIOUS
<1> QED
  BY <1>2, <1>3 DEF S

(* f is what is gathered along a chain; g goes on like it. *)
Cons(x, a) == <<x>> \o a

Gathers(f, n, next, item) ==
    \A p \in 1..n : f[p] = IF next[p] # p THEN Cons(item[p], f[next[p]]) ELSE <<>>

GoesOn(g, n, next, item) ==
    \A p \in 1..n : next[p] # p => g[p] = Cons(item[p], g[next[p]])

ConsConcats(X) ==
    \A x \in X : \A a \in Seq(X) : \A b \in Seq(X) : Cons(x, a) \o b = Cons(x, a \o b)

LEMMA ConsConcat == ASSUME NEW X PROVE ConsConcats(X)
<1> SUFFICES ASSUME NEW x \in X, NEW a \in Seq(X), NEW b \in Seq(X)
             PROVE  Cons(x, a) \o b = Cons(x, a \o b)
  BY Zenon DEF ConsConcats
<1>1. <<x>> \in Seq(X)
  OBVIOUS
<1>2. (<<x>> \o a) \o b = <<x>> \o (a \o b)
  BY <1>1, ConcatAssociative
<1> QED
  BY <1>2, Zenon DEF Cons

AllIn(item, n, next, X) == \A p \in 1..n : next[p] # p => item[p] \in X

Continues(g, f, end) == g[1] = f[1] \o g[end[1]]

(* What is gathered along a chain that goes on is what was gathered before, *)
(* and what is gathered from where it ended.                                *)
LEMMA ChainGrows ==
    ASSUME NEW X, NEW n \in Nat \ {0},
           NEW next \in [1..n -> 1..n], \A p \in 1..n : next[p] >= p,
           NEW end \in [1..n -> 1..n], Ends(end, n, next),
           NEW item, AllIn(item, n, next, X),
           NEW f \in [1..n -> Seq(X)], Gathers(f, n, next, item),
           NEW m \in Nat, n <= m, NEW g \in [1..m -> Seq(X)], GoesOn(g, n, next, item)
    PROVE  Continues(g, f, end)
<1>a. ConsConcats(X)
  BY ConsConcat
<1> DEFINE S == {p \in 1..n : g[p] = f[p] \o g[end[p]]}
<1>0. \A p \in 1..n : g[p] \in Seq(X) /\ f[p] \in Seq(X) /\ end[p] \in 1..n /\ g[end[p]] \in Seq(X)
  <2>1. \A p \in 1..n : p \in 1..m
    OBVIOUS
  <2> QED
    BY <2>1
<1>1. ASSUME NEW p \in 1..n, \A q \in (p + 1)..n : q \in S PROVE p \in S
  <2>1. CASE next[p] # p
    <3>1. next[p] \in (p + 1)..n /\ next[p] \in 1..n
      BY <2>1
    <3>2. g[next[p]] = f[next[p]] \o g[end[next[p]]]
      BY <1>1, <3>1
    <3>4. PICK q \in 1..n : q = next[p]
      OBVIOUS
    <3>5. f[p] = Cons(item[p], f[q]) /\ end[p] = end[q]
      BY <2>1, <3>4 DEF Gathers, Ends
    <3>6. g[q] = f[q] \o g[end[q]] /\ g[p] = Cons(item[p], g[q])
      BY <2>1, <3>2, <3>4 DEF GoesOn
    <3>7. item[p] \in X /\ f[q] \in Seq(X) /\ g[end[q]] \in Seq(X)
      BY <1>0, <2>1, <3>4 DEF AllIn
    <3>8. Cons(item[p], f[q]) \o g[end[q]] = Cons(item[p], f[q] \o g[end[q]])
      BY <1>a, <3>7, Zenon DEF ConsConcats
    <3> QED
      BY <3>5, <3>6, <3>8, Zenon
  <2>2. CASE next[p] = p
    <3>1. f[p] = <<>> /\ end[p] = p
      BY <2>2 DEF Gathers, Ends
    <3>2. <<>> \o g[p] = g[p]
      BY <1>0, ConcatEmptySeq
    <3> QED
      BY <3>1, <3>2
  <2> QED
    BY <2>1, <2>2
<1> HIDE DEF S
<1>2. \A p \in 1..n : p \in S
  BY <1>1, FromTheEnd
<1>3. 1 \in 1..n
  OBVIOUS
<1> QED
  BY <1>2, <1>3 DEF S, Continues

-----------------------------------------------------------------------------
(* The packets that units spell. *)

Unit == 0..(NumberMod - 1)

(* A packet that was spelled. *)
Spelled ==
    {k \in [type : {PacketString, PacketNumeric, PacketList, PacketHash}, data : Seq(Unit),
            number : 0..(SizeMod - 1)] :
       Len(k.data) > 0}

(* Wherever s has a short number, memory has a unit. *)
Known(s) == \A p \in Framing!ShortAt(s) : past[p] \in Unit

(* Where a packet is in full. *)
At(s) == {p \in 1..(Len(s) + 1) : Framing!PacketAt(s, p)}

PacketOf(s, p, memory) ==
    [type |-> s[p], data |-> SubSeq(s, p + Framing!HeaderSize, p + s[p + 1] - 1),
     number |-> Framing!Number(s, p, memory)]

(* The packets from each position, where they end, and whether what follows *)
(* is refused.                                                              *)
PacketsFrom(s, memory) ==
    LET From[p \in 1..(Len(s) + 1)] ==
            IF Framing!PacketAt(s, p)
            THEN << [type |-> s[p],
                     data |-> SubSeq(s, p + Framing!HeaderSize, p + s[p + 1] - 1),
                     number |-> Framing!Number(s, p, memory)] >>
                 \o From[p + s[p + 1]]
            ELSE <<>>
    IN  From

EndFrom(s) ==
    LET From[p \in 1..(Len(s) + 1)] ==
            IF Framing!PacketAt(s, p) THEN From[p + s[p + 1]] ELSE p
    IN  From

RefusedFrom(s) ==
    LET From[p \in 1..(Len(s) + 1)] ==
            IF Framing!PacketAt(s, p)
            THEN From[p + s[p + 1]]
            ELSE p + 1 <= Len(s) /\ ~Framing!Accepted(s[p], s[p + 1])
    IN  From

LEMMA ReaderTypes ==
    /\ BufferMax \in Nat /\ NumberMod \in Nat /\ SizeMod \in Nat
    /\ BufferMax + 2 < NumberMod
    /\ NumberMod \in Nat \ {0} /\ SizeMod \in Nat \ {0} /\ Framing!SizeMod = SizeMod
    /\ \A s \in Streams : s \in Seq(Unit)
    /\ \A u \in Memory : u \in Unit
<1>1. /\ BufferMax \in Nat /\ NumberMod \in Nat /\ BufferMax + 2 < NumberMod
      /\ Streams \subseteq Seq(Unit) /\ Memory \subseteq Unit
  BY ReaderAssumption DEF ReaderAssumption, Unit
<1>2. NumberMod * NumberMod \in Nat \ {0}
  BY <1>1
<1> QED
  BY <1>1, <1>2 DEF SizeMod, Framing!SizeMod

(* Two units make a number of 64 bits. *)
LEMMA NumberOfUnits ==
    ASSUME NEW a \in Unit, NEW b \in Unit
    PROVE  NumberMod * a + b \in 0..(SizeMod - 1)
<1>1. PICK m \in Nat \ {0} : m = NumberMod /\ a \in 0..(m - 1) /\ b \in 0..(m - 1)
  BY ReaderTypes DEF Unit
<1>2. m * a + b \in Nat /\ m * a + b < m * m
  <2>1. a + 1 <= m /\ a + 1 \in Nat
    BY <1>1
  <2>2. m * (a + 1) <= m * m
    BY <1>1, <2>1
  <2>3. m * (a + 1) = m * a + m /\ m * a \in Nat
    BY <1>1
  <2> QED
    BY <1>1, <2>2, <2>3
<1> QED
  BY <1>1, <1>2 DEF SizeMod

LEMMA SmallMod == ASSUME NEW a \in Nat, NEW m \in Nat \ {0}, a < m PROVE a % m = a
OBVIOUS

(* The length of a packet that is accepted counts its header. *)
LEMMA AcceptedLength ==
    ASSUME NEW t \in Unit, NEW n \in Unit, Framing!Accepted(t, n)
    PROVE  /\ t \in {PacketString, PacketNumeric, PacketList, PacketHash}
           /\ n \in 3..(BufferMax + 2) /\ Framing!DataLen(n) = n - 2
<1>1. /\ t \in {PacketString, PacketNumeric, PacketList, PacketHash}
      /\ (n - 2) % NumberMod \in 1..BufferMax /\ Framing!DataLen(n) = (n - 2) % NumberMod
  BY DEF Framing!Accepted, Framing!DataLen, Framing!HeaderSize, Framing!PacketString,
         Framing!PacketNumeric, Framing!PacketList, Framing!PacketHash,
         PacketString, PacketNumeric, PacketList, PacketHash
<1>2. CASE n \in {0, 1}
  <2>1. (n - 2) % NumberMod = n - 2 + NumberMod
    BY <1>2, ReaderTypes
  <2> QED
    BY <1>1, <1>2, <2>1, ReaderTypes
<1>3. CASE n \notin {0, 1}
  <2>1. n - 2 \in Nat /\ n - 2 < NumberMod
    BY <1>3, ReaderTypes DEF Unit
  <2>2. (n - 2) % NumberMod = n - 2
    BY <2>1, ReaderTypes, SmallMod
  <2> QED
    BY <1>1, <2>1, <2>2, ReaderTypes DEF Unit
<1> QED
  BY <1>2, <1>3

LEMMA AtFacts ==
    ASSUME NEW s \in Seq(Unit), NEW p \in At(s)
    PROVE  /\ p \in 1..Len(s) /\ p + 1 \in 1..Len(s) /\ s[p + 1] \in 3..(BufferMax + 2)
           /\ p + s[p + 1] \in (p + 1)..(Len(s) + 1)
           /\ Framing!Accepted(s[p], s[p + 1])
           /\ Known(s) => PacketOf(s, p, past) \in Spelled
<1>0. Len(s) \in Nat /\ \A i \in 1..Len(s) : s[i] \in Unit
  BY ElementOfSeq
<1>1. p \in 1..(Len(s) + 1) /\ p + 1 <= Len(s) /\ p + s[p + 1] - 1 <= Len(s)
      /\ Framing!Accepted(s[p], s[p + 1])
  BY DEF At, Framing!PacketAt
<1>2. p \in 1..Len(s) /\ p + 1 \in 1..Len(s) /\ s[p] \in Unit /\ s[p + 1] \in Unit
  BY <1>0, <1>1
<1>3. s[p + 1] \in 3..(BufferMax + 2)
      /\ s[p] \in {PacketString, PacketNumeric, PacketList, PacketHash}
  BY <1>1, <1>2, AcceptedLength
<1>4. p + s[p + 1] \in (p + 1)..(Len(s) + 1)
  BY <1>0, <1>1, <1>2, <1>3, ReaderTypes
<1>5. PICK l \in Nat : l = s[p + 1] /\ l >= 3
  BY <1>3, ReaderTypes
<1>6. SubSeq(s, p + 2, p + l - 1) \in Seq(Unit) /\ Len(SubSeq(s, p + 2, p + l - 1)) = l - 2
  <2>1. PICK a \in Int, b \in Int : a = p + 2 /\ b = p + l - 1
    BY <1>2, <1>5
  <2>2. \A i \in a..b : s[i] \in Unit
    BY <1>0, <1>1, <1>5, <2>1
  <2>3. SubSeq(s, a, b) \in Seq(Unit) /\ Len(SubSeq(s, a, b)) = IF a <= b THEN b - a + 1 ELSE 0
    BY <2>2, SubSeqProperties
  <2>4. a <= b /\ b - a + 1 = l - 2
    BY <1>2, <1>5, <2>1
  <2> QED
    BY <2>1, <2>3, <2>4
<1>7. PacketOf(s, p, past) = [type |-> s[p], data |-> SubSeq(s, p + 2, p + l - 1),
                              number |-> Framing!Number(s, p, past)]
  BY <1>5 DEF PacketOf, Framing!HeaderSize
<1>9. Known(s) => Framing!Number(s, p, past) \in 0..(SizeMod - 1)
  <2> SUFFICES ASSUME Known(s) PROVE Framing!Number(s, p, past) \in 0..(SizeMod - 1)
    OBVIOUS
  <2>1. CASE s[p] \notin Framing!Numbered
    BY <2>1, ReaderTypes DEF Framing!Number
  <2>2. CASE s[p] \in Framing!Numbered
    <3>1. s[p + 2] \in Unit
      <4>1. p + 2 \in 1..Len(s)
        BY <1>0, <1>1, <1>2, <1>5
      <4> QED
        BY <1>0, <4>1
    <3>2. CASE l = 3
      <4>1. p \in Framing!ShortAt(s)
        <5>1. p \in 1..(Len(s) - 1)
          BY <1>0, <1>2
        <5>2. s[p + 1] = Framing!HeaderSize + 1
          BY <1>5, <3>2 DEF Framing!HeaderSize
        <5> QED
          BY <2>2, <5>1, <5>2 DEF Framing!ShortAt
      <4>2. past[p] \in Unit
        BY <4>1 DEF Known
      <4>3. Framing!Number(s, p, past) = NumberMod * s[p + 2] + past[p]
        BY <1>5, <2>2, <3>2 DEF Framing!Number, Framing!HeaderSize
      <4> QED
        BY <3>1, <4>2, <4>3, NumberOfUnits
    <3>3. CASE l # 3
      <4>1. s[p + 3] \in Unit
        <5>1. p + 3 \in 1..Len(s)
          BY <1>0, <1>1, <1>2, <1>5, <3>3
        <5> QED
          BY <1>0, <5>1
      <4>2. Framing!Number(s, p, past) = NumberMod * s[p + 2] + s[p + 3]
        BY <1>5, <2>2, <3>3 DEF Framing!Number, Framing!HeaderSize
      <4> QED
        BY <3>1, <4>1, <4>2, NumberOfUnits
    <3> QED
      BY <3>2, <3>3
  <2> QED
    BY <2>1, <2>2
<1>8. Known(s) => PacketOf(s, p, past) \in Spelled
  <2> SUFFICES ASSUME Known(s) PROVE PacketOf(s, p, past) \in Spelled
    OBVIOUS
  <2>1. PICK number \in 0..(SizeMod - 1) : number = Framing!Number(s, p, past)
    BY <1>9
  <2>2. PICK data \in Seq(Unit) : data = SubSeq(s, p + 2, p + l - 1) /\ Len(data) > 0
    <3>1. l - 2 > 0
      BY <1>5
    <3> QED
      BY <1>6, <3>1
  <2>3. PacketOf(s, p, past) = [type |-> s[p], data |-> data, number |-> number]
    BY <1>7, <2>1, <2>2
  <2> QED
    BY <1>3, <2>2, <2>3 DEF Spelled
<1> QED
  BY <1>1, <1>2, <1>3, <1>4, <1>5, <1>8

(* Where what follows is; a packet that is not in full is followed by none. *)
After(s) == [p \in 1..(Len(s) + 1) |-> IF Framing!PacketAt(s, p) THEN p + s[p + 1] ELSE p]

LEMMA AfterFacts ==
    ASSUME NEW s \in Seq(Unit)
    PROVE  /\ Len(s) + 1 \in Nat /\ After(s) \in [1..(Len(s) + 1) -> 1..(Len(s) + 1)]
           /\ \A p \in 1..(Len(s) + 1) :
                /\ After(s)[p] >= p
                /\ After(s)[p] # p <=> Framing!PacketAt(s, p)
                /\ Framing!PacketAt(s, p) => After(s)[p] = p + s[p + 1] /\ p \in At(s)
<1>1. Len(s) \in Nat
  OBVIOUS
<1>2. \A p \in 1..(Len(s) + 1) :
         Framing!PacketAt(s, p) => p + s[p + 1] \in (p + 1)..(Len(s) + 1) /\ p \in At(s)
  BY AtFacts DEF At
<1> QED
  BY <1>1, <1>2 DEF After

LEMMA PacketsChain ==
    ASSUME NEW s \in Seq(Unit), Known(s)
    PROVE  /\ PacketsFrom(s, past) \in [1..(Len(s) + 1) -> Seq(Spelled)]
           /\ \A p \in 1..(Len(s) + 1) :
                PacketsFrom(s, past)[p] = IF After(s)[p] # p
                                    THEN <<PacketOf(s, p, past)>> \o PacketsFrom(s, past)[After(s)[p]]
                                    ELSE <<>>
           /\ Framing!Packets(s, past) = PacketsFrom(s, past)[1]
<1> DEFINE n == Len(s) + 1
           V == Seq(Spelled)
           next == After(s)
           step == [p \in 1..n |-> [v \in V |-> IF next[p] # p THEN <<PacketOf(s, p, past)>> \o v ELSE v]]
           base == [p \in 1..n |-> <<>>]
           Is(f) == f = [p \in 1..(Len(s) + 1) |->
                      IF Framing!PacketAt(s, p)
                      THEN << [type |-> s[p],
                               data |-> SubSeq(s, p + Framing!HeaderSize, p + s[p + 1] - 1),
                               number |-> Framing!Number(s, p, past)] >>
                           \o f[p + s[p + 1]]
                      ELSE <<>>]
<1>0. n \in Nat /\ next \in [1..n -> 1..n] /\ \A p \in 1..n : next[p] >= p
  BY AfterFacts
<1>1. step \in [1..n -> [V -> V]]
  <2>1. \A p \in 1..n : next[p] # p => PacketOf(s, p, past) \in Spelled
    BY AtFacts, AfterFacts
  <2>2. \A k \in Spelled : <<k>> \in V
    OBVIOUS
  <2>3. \A a, b \in V : a \o b \in V
    OBVIOUS
  <2>4. \A p \in 1..n : \A v \in V : next[p] # p => <<PacketOf(s, p, past)>> \o v \in V
    BY <2>1, <2>2, <2>3
  <2> QED
    BY <2>4
<1>2. base \in [1..n -> V]
  OBVIOUS
<1>3. PICK f \in [1..n -> V] : Along(f, n, next, step, base)
  <2> HIDE DEF n, V, next, step, base
  <2> QED
    BY <1>0, <1>1, <1>2, ChainFunction
<1>4. ASSUME NEW p \in 1..n
      PROVE  f[p] = IF next[p] # p THEN <<PacketOf(s, p, past)>> \o f[next[p]] ELSE <<>>
  <2>1. f[next[p]] \in V
    BY <1>0
  <2>2. f[p] = IF next[p] # p THEN step[p][f[next[p]]] ELSE base[p]
    BY <1>3 DEF Along
  <2> QED
    BY <2>1, <2>2
<1>5. Is(f)
  <2>1. f = [p \in 1..n |-> f[p]]
    BY <1>3
  <2>2. ASSUME NEW p \in 1..n
        PROVE  f[p] = IF Framing!PacketAt(s, p)
                      THEN << [type |-> s[p],
                               data |-> SubSeq(s, p + Framing!HeaderSize, p + s[p + 1] - 1),
                               number |-> Framing!Number(s, p, past)] >>
                           \o f[p + s[p + 1]]
                      ELSE <<>>
    BY <1>4, AfterFacts DEF PacketOf
  <2> QED
    BY <2>1, <2>2, Zenon
<1>6. PacketsFrom(s, past) = CHOOSE g : Is(g)
  BY DEF PacketsFrom
<1>7. Is(PacketsFrom(s, past))
  BY <1>5, <1>6
<1>8. ASSUME NEW p \in 1..n
      PROVE  PacketsFrom(s, past)[p] = IF next[p] # p THEN <<PacketOf(s, p, past)>> \o PacketsFrom(s, past)[next[p]]
                                 ELSE <<>>
  BY <1>7, AfterFacts DEF PacketOf
<1>9. PacketsFrom(s, past) \in [1..n -> V]
  <2>1. PacketsFrom(s, past) = [p \in 1..n |-> PacketsFrom(s, past)[p]]
    BY <1>7
  <2>2. ASSUME NEW p \in 1..n, next[p] = p \/ PacketsFrom(s, past)[next[p]] \in V
        PROVE  PacketsFrom(s, past)[p] \in V
    <3>1. CASE next[p] # p
      <4>1. PacketsFrom(s, past)[p] = step[p][PacketsFrom(s, past)[next[p]]]
        BY <1>8, <2>2, <3>1
      <4> QED
        BY <1>1, <2>2, <3>1, <4>1
    <3>2. CASE next[p] = p
      <4>1. PacketsFrom(s, past)[p] = <<>>
        BY <1>8, <3>2
      <4> QED
        BY <4>1
    <3> QED
      BY <3>1, <3>2
  <2> HIDE DEF n, V, next
  <2> QED
    BY <1>0, <2>1, <2>2, ChainType
<1>10. Framing!Packets(s, past) = PacketsFrom(s, past)[1]
  BY DEF Framing!Packets, PacketsFrom
<1> QED
  BY <1>8, <1>9, <1>10

LEMMA EndChain ==
    ASSUME NEW s \in Seq(Unit)
    PROVE  /\ EndFrom(s) \in [1..(Len(s) + 1) -> 1..(Len(s) + 1)]
           /\ \A p \in 1..(Len(s) + 1) :
                EndFrom(s)[p] = IF After(s)[p] # p THEN EndFrom(s)[After(s)[p]] ELSE p
<1> DEFINE n == Len(s) + 1
           next == After(s)
           base == [p \in 1..n |-> p]
           Is(f) == f = [p \in 1..(Len(s) + 1) |->
                           IF Framing!PacketAt(s, p) THEN f[p + s[p + 1]] ELSE p]
<1>0. n \in Nat /\ next \in [1..n -> 1..n] /\ \A p \in 1..n : next[p] >= p
  BY AfterFacts
<1>1. base \in [1..n -> 1..n] /\ \A p \in 1..n : base[p] = p
  OBVIOUS
<1>2. PICK f \in [1..n -> 1..n] : Carried(f, n, next, base)
  <2> HIDE DEF n, next, base
  <2> QED
    BY <1>0, <1>1, ChainValue
<1>3. Is(f)
  <2>1. f = [p \in 1..n |-> f[p]]
    BY <1>2
  <2>2. ASSUME NEW p \in 1..n
        PROVE  f[p] = IF Framing!PacketAt(s, p) THEN f[p + s[p + 1]] ELSE p
    BY <1>1, <1>2, AfterFacts DEF Carried
  <2> QED
    BY <2>1, <2>2, Zenon
<1>4. EndFrom(s) = CHOOSE g : Is(g)
  BY DEF EndFrom
<1>5. Is(EndFrom(s))
  BY <1>3, <1>4
<1>6. ASSUME NEW p \in 1..n
      PROVE  EndFrom(s)[p] = IF next[p] # p THEN EndFrom(s)[next[p]] ELSE p
  BY <1>5, AfterFacts
<1>7. EndFrom(s) \in [1..n -> 1..n]
  <2>1. EndFrom(s) = [p \in 1..n |-> EndFrom(s)[p]]
    BY <1>5
  <2>2. ASSUME NEW p \in 1..n, next[p] = p \/ EndFrom(s)[next[p]] \in 1..n
        PROVE  EndFrom(s)[p] \in 1..n
    BY <1>6, <2>2
  <2> HIDE DEF n, next
  <2> QED
    BY <1>0, <2>1, <2>2, ChainType
<1> QED
  BY <1>6, <1>7

LEMMA RefusedChain ==
    ASSUME NEW s \in Seq(Unit)
    PROVE  /\ \A p \in 1..(Len(s) + 1) :
                RefusedFrom(s)[p] =
                  IF After(s)[p] # p THEN RefusedFrom(s)[After(s)[p]]
                  ELSE p + 1 <= Len(s) /\ ~Framing!Accepted(s[p], s[p + 1])
           /\ Framing!Refused(s) = RefusedFrom(s)[1]
<1> DEFINE n == Len(s) + 1
           next == After(s)
           base == [p \in 1..n |-> p + 1 <= Len(s) /\ ~Framing!Accepted(s[p], s[p + 1])]
           Is(f) == f = [p \in 1..(Len(s) + 1) |->
                           IF Framing!PacketAt(s, p) THEN f[p + s[p + 1]]
                           ELSE p + 1 <= Len(s) /\ ~Framing!Accepted(s[p], s[p + 1])]
<1>0. n \in Nat /\ next \in [1..n -> 1..n] /\ \A p \in 1..n : next[p] >= p
  BY AfterFacts
<1>1. base \in [1..n -> BOOLEAN]
      /\ \A p \in 1..n : base[p] = (p + 1 <= Len(s) /\ ~Framing!Accepted(s[p], s[p + 1]))
  OBVIOUS
<1>2. PICK f \in [1..n -> BOOLEAN] : Carried(f, n, next, base)
  <2> HIDE DEF n, next, base
  <2> QED
    BY <1>0, <1>1, ChainValue
<1>3. Is(f)
  <2>1. f = [p \in 1..n |-> f[p]]
    BY <1>2
  <2>2. ASSUME NEW p \in 1..n
        PROVE  f[p] = IF Framing!PacketAt(s, p) THEN f[p + s[p + 1]]
                      ELSE p + 1 <= Len(s) /\ ~Framing!Accepted(s[p], s[p + 1])
    BY <1>1, <1>2, AfterFacts DEF Carried
  <2> QED
    BY <2>1, <2>2, Zenon
<1>4. RefusedFrom(s) = CHOOSE g : Is(g)
  BY DEF RefusedFrom
<1>5. Is(RefusedFrom(s))
  BY <1>3, <1>4
<1>6. ASSUME NEW p \in 1..n
      PROVE  RefusedFrom(s)[p] =
               IF next[p] # p THEN RefusedFrom(s)[next[p]]
               ELSE p + 1 <= Len(s) /\ ~Framing!Accepted(s[p], s[p + 1])
  BY <1>5, AfterFacts
<1>7. Framing!Refused(s) = RefusedFrom(s)[1]
  BY DEF Framing!Refused, RefusedFrom
<1> QED
  BY <1>6, <1>7

(* The packets of some units, seen from where those of less of them end. *)
IsPrefixOf(s, t) == Len(s) <= Len(t) /\ \A i \in 1..Len(s) : t[i] = s[i]

End(s) == EndFrom(s)[1]

LEMMA PacketStays ==
    ASSUME NEW s \in Seq(Unit), NEW t \in Seq(Unit), IsPrefixOf(s, t), NEW p \in At(s)
    PROVE  /\ Framing!PacketAt(t, p) /\ PacketOf(t, p, past) = PacketOf(s, p, past)
           /\ After(t)[p] = After(s)[p] /\ p \in 1..(Len(t) + 1)
<1>0. Len(s) \in Nat /\ Len(t) \in Nat /\ Len(s) <= Len(t)
  BY DEF IsPrefixOf
<1>1. /\ p \in 1..Len(s) /\ p + 1 \in 1..Len(s) /\ s[p + 1] \in 3..(BufferMax + 2)
      /\ p + s[p + 1] \in (p + 1)..(Len(s) + 1) /\ Framing!Accepted(s[p], s[p + 1])
  BY AtFacts
<1>2. t[p] = s[p] /\ t[p + 1] = s[p + 1]
  BY <1>1 DEF IsPrefixOf
<1>3. PICK l \in Nat : l = s[p + 1] /\ l >= 3
  BY <1>1, ReaderTypes
<1>4. p \in 1..(Len(t) + 1) /\ Framing!PacketAt(t, p)
  BY <1>0, <1>1, <1>2, <1>3 DEF Framing!PacketAt
<1>5. After(t)[p] = After(s)[p]
  <2>1. p \in 1..(Len(s) + 1) /\ Framing!PacketAt(s, p)
    BY DEF At
  <2> QED
    BY <1>2, <1>4, <2>1, AfterFacts
<1>6. SubSeq(t, p + 2, p + l - 1) = SubSeq(s, p + 2, p + l - 1)
  <2>1. PICK a \in Int, b \in Int : a = p + 2 /\ b = p + l - 1
    BY <1>1, <1>3
  <2>2. a >= 1 /\ b <= Len(s)
    BY <1>0, <1>1, <1>3, <2>1
  <2>3. \A i \in a..b : i \in 1..Len(s) /\ s[i] \in Unit /\ t[i] = s[i]
    BY <1>0, <2>2 DEF IsPrefixOf
  <2>4. /\ SubSeq(s, a, b) \in Seq(Unit) /\ SubSeq(t, a, b) \in Seq(Unit)
        /\ Len(SubSeq(s, a, b)) = Len(SubSeq(t, a, b))
        /\ Len(SubSeq(s, a, b)) = IF a <= b THEN b - a + 1 ELSE 0
        /\ \A i \in 1..(b - a + 1) : /\ SubSeq(s, a, b)[i] = s[a + i - 1]
                                     /\ SubSeq(t, a, b)[i] = t[a + i - 1]
    BY <2>3, SubSeqProperties
  <2>5. \A i \in 1..(b - a + 1) : a + i - 1 \in a..b
    OBVIOUS
  <2>6. \A i \in 1..Len(SubSeq(s, a, b)) : SubSeq(s, a, b)[i] = SubSeq(t, a, b)[i]
    BY <2>3, <2>4, <2>5
  <2> QED
    BY <2>1, <2>4, <2>6, SeqEqual
<1>7. Framing!Number(t, p, past) = Framing!Number(s, p, past)
  <2>1. t[p + 2] = s[p + 2]
    <3>1. p + 2 \in 1..Len(s)
      BY <1>0, <1>1, <1>3
    <3> QED
      BY <3>1 DEF IsPrefixOf
  <2>2. l # 3 => t[p + 3] = s[p + 3]
    <3>1. l # 3 => p + 3 \in 1..Len(s)
      BY <1>0, <1>1, <1>3
    <3> QED
      BY <3>1 DEF IsPrefixOf
  <2> QED
    BY <1>2, <1>3, <2>1, <2>2 DEF Framing!Number, Framing!HeaderSize
<1> QED
  BY <1>2, <1>3, <1>4, <1>5, <1>6, <1>7 DEF PacketOf, Framing!HeaderSize

LEMMA PacketsGrow ==
    ASSUME NEW s \in Seq(Unit), Known(s), NEW t \in Seq(Unit), Known(t), IsPrefixOf(s, t)
    PROVE  /\ End(s) \in 1..(Len(s) + 1) /\ ~Framing!PacketAt(s, End(s))
           /\ Framing!Packets(t, past) = Framing!Packets(s, past) \o PacketsFrom(t, past)[End(s)]
           /\ End(t) = EndFrom(t)[End(s)]
           /\ Framing!Refused(t) = RefusedFrom(t)[End(s)]
<1> DEFINE n == Len(s) + 1
           m == Len(t) + 1
           next == After(s)
           end == EndFrom(s)
           item == [p \in 1..n |-> PacketOf(s, p, past)]
           f == PacketsFrom(s, past)
           g == PacketsFrom(t, past)
<1>0. n \in Nat \ {0} /\ m \in Nat /\ n <= m
  BY DEF IsPrefixOf
<1>1. next \in [1..n -> 1..n] /\ \A p \in 1..n : next[p] >= p
  BY AfterFacts
<1>2. end \in [1..n -> 1..n] /\ Ends(end, n, next)
  BY EndChain DEF Ends
<1>3. ASSUME NEW p \in 1..n, next[p] # p
      PROVE  /\ p \in At(s) /\ PacketOf(t, p, past) = item[p] /\ item[p] \in Spelled
             /\ p \in 1..m /\ After(t)[p] # p /\ After(t)[p] = next[p]
  <2>1. p \in At(s)
    BY <1>3, AfterFacts
  <2> QED
    BY <1>3, <2>1, AtFacts, PacketStays
<1>4. f \in [1..n -> Seq(Spelled)] /\ Gathers(f, n, next, item)
  BY PacketsChain DEF Gathers, Cons
<1>5. g \in [1..m -> Seq(Spelled)] /\ GoesOn(g, n, next, item)
  <2>1. ASSUME NEW p \in 1..n, next[p] # p
        PROVE  g[p] = Cons(item[p], g[next[p]])
    <3>1. g[p] = Cons(PacketOf(t, p, past), g[After(t)[p]])
      BY <1>3, <2>1, PacketsChain DEF Cons
    <3> HIDE DEF item
    <3> QED
      BY <1>3, <2>1, <3>1
  <2>2. GoesOn(g, n, next, item)
    BY <2>1 DEF GoesOn
  <2> QED
    BY <2>2, PacketsChain
<1>6. Same(EndFrom(t), n, next) /\ Same(RefusedFrom(t), n, next)
  <2>1. ASSUME NEW p \in 1..n, next[p] # p
        PROVE  EndFrom(t)[p] = EndFrom(t)[next[p]] /\ RefusedFrom(t)[p] = RefusedFrom(t)[next[p]]
    <3>1. EndFrom(t)[p] = EndFrom(t)[After(t)[p]] /\ RefusedFrom(t)[p] = RefusedFrom(t)[After(t)[p]]
      BY <1>3, <2>1, EndChain, RefusedChain
    <3> QED
      BY <1>3, <2>1, <3>1
  <2> QED
    BY <2>1 DEF Same
<1>7. AllIn(item, n, next, Spelled)
  BY <1>3 DEF AllIn
<1> HIDE DEF n, m, next, end, item, f, g
<1>8. Continues(g, f, end)
  BY <1>0, <1>1, <1>2, <1>4, <1>5, <1>7, ChainGrows
<1>9. next[end[1]] = end[1] /\ EndFrom(t)[1] = EndFrom(t)[end[1]]
      /\ RefusedFrom(t)[1] = RefusedFrom(t)[end[1]]
  BY <1>0, <1>1, <1>2, <1>6, ChainEnd
<1>10. end[1] \in 1..n
  BY <1>0, <1>2
<1> USE DEF n, next, end, f, g
<1>11. ~Framing!PacketAt(s, end[1])
  BY <1>9, <1>10, AfterFacts
<1> QED
  BY <1>8, <1>9, <1>10, <1>11, PacketsChain, RefusedChain DEF End, Continues

-----------------------------------------------------------------------------
(* The objects that packets make, the same way. *)

InFull(pk, p) == p <= Len(pk) /\ p + Framing!Span(pk[p]) - 1 <= Len(pk)

ObjectOf(pk, p) == SubSeq(pk, p, p + Framing!Span(pk[p]) - 1)

NextObject(pk) ==
    [p \in 1..(Len(pk) + 1) |-> IF InFull(pk, p) THEN p + Framing!Span(pk[p]) ELSE p]

ObjectsFrom(pk) ==
    LET From[p \in 1..(Len(pk) + 1)] ==
            IF p <= Len(pk) /\ p + Framing!Span(pk[p]) - 1 <= Len(pk)
            THEN << SubSeq(pk, p, p + Framing!Span(pk[p]) - 1) >>
                 \o From[p + Framing!Span(pk[p])]
            ELSE <<>>
    IN  From

ObjectEndFrom(pk) ==
    LET From[p \in 1..(Len(pk) + 1)] ==
            IF p <= Len(pk) /\ p + Framing!Span(pk[p]) - 1 <= Len(pk)
            THEN From[p + Framing!Span(pk[p])]
            ELSE p
    IN  From

ObjectEnd(pk) == ObjectEndFrom(pk)[1]

(* The number of packets of an object, and what the counter of those that   *)
(* follow makes of it in 64 bits.                                           *)
LEMMA SpanFacts ==
    ASSUME NEW k \in Spelled
    PROVE  /\ Framing!Span(k) \in 1..(SizeMod + 1)
           /\ k.type \in {PacketString, PacketNumeric, PacketList, PacketHash}
           /\ Following(k) = (Framing!Span(k) - 1) % SizeMod
           /\ Framing!Span(k) = 1 <=> k.type \notin {PacketList, PacketHash} \/ k.number = 0
<1>1. /\ k.type \in {PacketString, PacketNumeric, PacketList, PacketHash}
      /\ k.number \in 0..(SizeMod - 1)
  BY DEF Spelled
<1>2. PICK m \in Nat \ {0} : m = SizeMod /\ m = Framing!SizeMod
  BY ReaderTypes
<1>3. PICK d \in Nat : d = k.number /\ d < m
  BY <1>1, <1>2
<1>4. PICK e \in Nat : e = (2 * d) % m /\ e < m
  BY <1>2, <1>3
<1>5. 0 % m = 0 /\ m % m = 0 /\ d % m = d /\ e % m = e
  BY <1>2, <1>3, <1>4
<1>6. Framing!Span(k) = IF k.type \notin {PacketList, PacketHash} \/ d = 0 THEN 1
                        ELSE IF k.type = PacketList THEN 1 + d
                        ELSE 1 + IF e = 0 THEN m ELSE e
  BY <1>2, <1>3, <1>4 DEF Framing!Span, Framing!Composite, Framing!PacketList,
                          Framing!PacketHash, PacketList, PacketHash
<1>7. Following(k) = IF k.type = PacketList THEN d
                     ELSE IF k.type = PacketHash THEN e ELSE 0
  BY <1>2, <1>3, <1>4 DEF Following, PacketList, PacketHash
<1>8. d = 0 => e = 0
  BY <1>4, <1>5
<1>9. CASE k.type \notin {PacketList, PacketHash} \/ d = 0
  <2>1. Framing!Span(k) = 1 /\ Following(k) = 0
    BY <1>6, <1>7, <1>8, <1>9
  <2> QED
    BY <1>1, <1>2, <1>3, <1>5, <1>9, <2>1
<1>10. CASE k.type = PacketList /\ d # 0
  <2>1. Framing!Span(k) = 1 + d /\ Following(k) = d
    BY <1>6, <1>7, <1>10
  <2>2. 1 + d \in 1..(m + 1) /\ (1 + d) - 1 = d
    BY <1>3
  <2> QED
    BY <1>1, <1>2, <1>3, <1>5, <1>10, <2>1, <2>2
<1>11. CASE k.type = PacketHash /\ k.type # PacketList /\ d # 0
  <2>1. Framing!Span(k) = (1 + IF e = 0 THEN m ELSE e) /\ Following(k) = e
    BY <1>6, <1>7, <1>11
  <2> QED
    BY <1>1, <1>2, <1>3, <1>4, <1>5, <1>11, <2>1
<1> QED
  BY <1>9, <1>10, <1>11

LEMMA InFullFacts ==
    ASSUME NEW pk \in Seq(Spelled), NEW p \in 1..(Len(pk) + 1), InFull(pk, p)
    PROVE  /\ p \in 1..Len(pk) /\ pk[p] \in Spelled
           /\ p + Framing!Span(pk[p]) \in (p + 1)..(Len(pk) + 1)
           /\ ObjectOf(pk, p) \in Seq(Spelled)
<1>1. Len(pk) \in Nat /\ p \in 1..Len(pk) /\ pk[p] \in Spelled
  BY ElementOfSeq DEF InFull
<1>2. PICK n \in Nat : n = Framing!Span(pk[p]) /\ n >= 1
  BY <1>1, SpanFacts, ReaderTypes
<1>3. p + n \in (p + 1)..(Len(pk) + 1)
  BY <1>1, <1>2 DEF InFull
<1>4. SubSeq(pk, p, p + n - 1) \in Seq(Spelled)
  <2>1. PICK b \in Int : b = p + n - 1
    BY <1>1, <1>2
  <2>2. \A i \in p..b : pk[i] \in Spelled
    BY <1>1, <1>3, <2>1, ElementOfSeq
  <2>3. SubSeq(pk, p, b) \in Seq(Spelled)
    BY <2>2, SubSeqProperties
  <2> QED
    BY <2>1, <2>3
<1> QED
  BY <1>1, <1>2, <1>3, <1>4 DEF ObjectOf

LEMMA NextObjectFacts ==
    ASSUME NEW pk \in Seq(Spelled)
    PROVE  /\ Len(pk) + 1 \in Nat \ {0} /\ NextObject(pk) \in [1..(Len(pk) + 1) -> 1..(Len(pk) + 1)]
           /\ \A p \in 1..(Len(pk) + 1) :
                /\ NextObject(pk)[p] >= p
                /\ NextObject(pk)[p] # p <=> InFull(pk, p)
                /\ InFull(pk, p) => NextObject(pk)[p] = p + Framing!Span(pk[p])
<1>1. Len(pk) \in Nat
  OBVIOUS
<1>2. \A p \in 1..(Len(pk) + 1) :
         InFull(pk, p) => p + Framing!Span(pk[p]) \in (p + 1)..(Len(pk) + 1)
  BY InFullFacts
<1> QED
  BY <1>1, <1>2 DEF NextObject

LEMMA ObjectsChain ==
    ASSUME NEW pk \in Seq(Spelled)
    PROVE  /\ ObjectsFrom(pk) \in [1..(Len(pk) + 1) -> Seq(Seq(Spelled))]
           /\ \A p \in 1..(Len(pk) + 1) :
                ObjectsFrom(pk)[p] = IF NextObject(pk)[p] # p
                                     THEN <<ObjectOf(pk, p)>> \o ObjectsFrom(pk)[NextObject(pk)[p]]
                                     ELSE <<>>
<1> DEFINE n == Len(pk) + 1
           V == Seq(Seq(Spelled))
           next == NextObject(pk)
           step == [p \in 1..n |-> [v \in V |-> IF next[p] # p THEN <<ObjectOf(pk, p)>> \o v ELSE v]]
           base == [p \in 1..n |-> <<>>]
           Is(f) == f = [p \in 1..(Len(pk) + 1) |->
                      IF p <= Len(pk) /\ p + Framing!Span(pk[p]) - 1 <= Len(pk)
                      THEN << SubSeq(pk, p, p + Framing!Span(pk[p]) - 1) >>
                           \o f[p + Framing!Span(pk[p])]
                      ELSE <<>>]
<1>0. n \in Nat /\ next \in [1..n -> 1..n] /\ \A p \in 1..n : next[p] >= p
  BY NextObjectFacts
<1>1. step \in [1..n -> [V -> V]]
  <2>1. \A p \in 1..n : next[p] # p => ObjectOf(pk, p) \in Seq(Spelled)
    BY InFullFacts, NextObjectFacts
  <2>2. \A k \in Seq(Spelled) : <<k>> \in V
    OBVIOUS
  <2>3. \A a, b \in V : a \o b \in V
    OBVIOUS
  <2>4. \A p \in 1..n : \A v \in V : next[p] # p => <<ObjectOf(pk, p)>> \o v \in V
    BY <2>1, <2>2, <2>3
  <2> QED
    BY <2>4
<1>2. base \in [1..n -> V]
  OBVIOUS
<1>3. PICK f \in [1..n -> V] : Along(f, n, next, step, base)
  <2> HIDE DEF n, V, next, step, base
  <2> QED
    BY <1>0, <1>1, <1>2, ChainFunction
<1>4. ASSUME NEW p \in 1..n
      PROVE  f[p] = IF next[p] # p THEN <<ObjectOf(pk, p)>> \o f[next[p]] ELSE <<>>
  <2>1. f[next[p]] \in V
    BY <1>0
  <2>2. f[p] = IF next[p] # p THEN step[p][f[next[p]]] ELSE base[p]
    BY <1>3 DEF Along
  <2> QED
    BY <2>1, <2>2
<1>5. Is(f)
  <2>1. f = [p \in 1..n |-> f[p]]
    BY <1>3
  <2>2. ASSUME NEW p \in 1..n
        PROVE  f[p] = IF p <= Len(pk) /\ p + Framing!Span(pk[p]) - 1 <= Len(pk)
                      THEN << SubSeq(pk, p, p + Framing!Span(pk[p]) - 1) >>
                           \o f[p + Framing!Span(pk[p])]
                      ELSE <<>>
    BY <1>4, NextObjectFacts DEF ObjectOf, InFull
  <2> QED
    BY <2>1, <2>2, Zenon
<1>6. ObjectsFrom(pk) = CHOOSE g : Is(g)
  BY DEF ObjectsFrom
<1>7. Is(ObjectsFrom(pk))
  BY <1>5, <1>6
<1>8. ASSUME NEW p \in 1..n
      PROVE  ObjectsFrom(pk)[p] = IF next[p] # p THEN <<ObjectOf(pk, p)>> \o ObjectsFrom(pk)[next[p]]
                                  ELSE <<>>
  BY <1>7, NextObjectFacts DEF ObjectOf, InFull
<1>9. ObjectsFrom(pk) \in [1..n -> V]
  <2>1. ObjectsFrom(pk) = [p \in 1..n |-> ObjectsFrom(pk)[p]]
    BY <1>7
  <2>2. ASSUME NEW p \in 1..n, next[p] = p \/ ObjectsFrom(pk)[next[p]] \in V
        PROVE  ObjectsFrom(pk)[p] \in V
    <3>1. CASE next[p] # p
      <4>1. ObjectsFrom(pk)[p] = step[p][ObjectsFrom(pk)[next[p]]]
        BY <1>8, <2>2, <3>1
      <4> QED
        BY <1>1, <2>2, <3>1, <4>1
    <3>2. CASE next[p] = p
      <4>1. ObjectsFrom(pk)[p] = <<>>
        BY <1>8, <3>2
      <4> QED
        BY <4>1
    <3> QED
      BY <3>1, <3>2
  <2> HIDE DEF n, V, next
  <2> QED
    BY <1>0, <2>1, <2>2, ChainType
<1> QED
  BY <1>8, <1>9

LEMMA ObjectEndChain ==
    ASSUME NEW pk \in Seq(Spelled)
    PROVE  /\ ObjectEndFrom(pk) \in [1..(Len(pk) + 1) -> 1..(Len(pk) + 1)]
           /\ \A p \in 1..(Len(pk) + 1) :
                ObjectEndFrom(pk)[p] =
                  IF NextObject(pk)[p] # p THEN ObjectEndFrom(pk)[NextObject(pk)[p]] ELSE p
<1> DEFINE n == Len(pk) + 1
           next == NextObject(pk)
           base == [p \in 1..n |-> p]
           Is(f) == f = [p \in 1..(Len(pk) + 1) |->
                           IF p <= Len(pk) /\ p + Framing!Span(pk[p]) - 1 <= Len(pk)
                           THEN f[p + Framing!Span(pk[p])] ELSE p]
<1>0. n \in Nat /\ next \in [1..n -> 1..n] /\ \A p \in 1..n : next[p] >= p
  BY NextObjectFacts
<1>1. base \in [1..n -> 1..n] /\ \A p \in 1..n : base[p] = p
  OBVIOUS
<1>2. PICK f \in [1..n -> 1..n] : Carried(f, n, next, base)
  <2> HIDE DEF n, next, base
  <2> QED
    BY <1>0, <1>1, ChainValue
<1>3. Is(f)
  <2>1. f = [p \in 1..n |-> f[p]]
    BY <1>2
  <2>2. ASSUME NEW p \in 1..n
        PROVE  f[p] = IF p <= Len(pk) /\ p + Framing!Span(pk[p]) - 1 <= Len(pk)
                      THEN f[p + Framing!Span(pk[p])] ELSE p
    BY <1>1, <1>2, NextObjectFacts DEF Carried, InFull
  <2> QED
    BY <2>1, <2>2, Zenon
<1>4. ObjectEndFrom(pk) = CHOOSE g : Is(g)
  BY DEF ObjectEndFrom
<1>5. Is(ObjectEndFrom(pk))
  BY <1>3, <1>4
<1>6. ASSUME NEW p \in 1..n
      PROVE  ObjectEndFrom(pk)[p] = IF next[p] # p THEN ObjectEndFrom(pk)[next[p]] ELSE p
  BY <1>5, NextObjectFacts DEF InFull
<1>7. ObjectEndFrom(pk) \in [1..n -> 1..n]
  <2>1. ObjectEndFrom(pk) = [p \in 1..n |-> ObjectEndFrom(pk)[p]]
    BY <1>5
  <2>2. ASSUME NEW p \in 1..n, next[p] = p \/ ObjectEndFrom(pk)[next[p]] \in 1..n
        PROVE  ObjectEndFrom(pk)[p] \in 1..n
    BY <1>6, <2>2
  <2> HIDE DEF n, next
  <2> QED
    BY <1>0, <2>1, <2>2, ChainType
<1> QED
  BY <1>6, <1>7

LEMMA ObjectsOfUnits == \A s : Framing!Objects(s, past) = ObjectsFrom(Framing!Packets(s, past))[1]
BY DEF Framing!Objects, ObjectsFrom

LEMMA ObjectStays ==
    ASSUME NEW s \in Seq(Spelled), NEW t \in Seq(Spelled), IsPrefixOf(s, t),
           NEW p \in 1..(Len(s) + 1), InFull(s, p)
    PROVE  /\ InFull(t, p) /\ ObjectOf(t, p) = ObjectOf(s, p)
           /\ NextObject(t)[p] = NextObject(s)[p] /\ p \in 1..(Len(t) + 1)
<1>0. Len(s) \in Nat /\ Len(t) \in Nat /\ Len(s) <= Len(t)
  BY DEF IsPrefixOf
<1>1. p \in 1..Len(s) /\ s[p] \in Spelled /\ p + Framing!Span(s[p]) \in (p + 1)..(Len(s) + 1)
  BY InFullFacts
<1>2. t[p] = s[p]
  BY <1>1 DEF IsPrefixOf
<1>3. PICK n \in Nat : n = Framing!Span(s[p]) /\ n >= 1
  BY <1>1, SpanFacts, ReaderTypes
<1>4. p \in 1..(Len(t) + 1) /\ InFull(t, p)
  BY <1>0, <1>1, <1>2, <1>3 DEF InFull
<1>5. NextObject(t)[p] = NextObject(s)[p]
  BY <1>2, <1>4, NextObjectFacts
<1>6. SubSeq(t, p, p + n - 1) = SubSeq(s, p, p + n - 1)
  <2>1. PICK b \in Int : b = p + n - 1
    BY <1>1, <1>3
  <2>2. \A i \in p..b : i \in 1..Len(s) /\ s[i] \in Spelled /\ t[i] = s[i]
    <3>1. \A i \in p..b : i \in 1..Len(s)
      BY <1>0, <1>1, <1>3, <2>1
    <3> QED
      BY <3>1, ElementOfSeq DEF IsPrefixOf
  <2>3. /\ SubSeq(s, p, b) \in Seq(Spelled) /\ SubSeq(t, p, b) \in Seq(Spelled)
        /\ Len(SubSeq(s, p, b)) = Len(SubSeq(t, p, b))
        /\ Len(SubSeq(s, p, b)) = IF p <= b THEN b - p + 1 ELSE 0
        /\ \A i \in 1..(b - p + 1) : /\ SubSeq(s, p, b)[i] = s[p + i - 1]
                                     /\ SubSeq(t, p, b)[i] = t[p + i - 1]
    BY <2>2, SubSeqProperties
  <2>4. \A i \in 1..(b - p + 1) : p + i - 1 \in p..b
    OBVIOUS
  <2>5. \A i \in 1..Len(SubSeq(s, p, b)) : SubSeq(s, p, b)[i] = SubSeq(t, p, b)[i]
    BY <2>2, <2>3, <2>4
  <2> QED
    BY <2>1, <2>3, <2>5, SeqEqual
<1> QED
  BY <1>2, <1>3, <1>4, <1>5, <1>6 DEF ObjectOf

LEMMA ObjectsGrow ==
    ASSUME NEW s \in Seq(Spelled), NEW t \in Seq(Spelled), IsPrefixOf(s, t)
    PROVE  /\ ObjectEnd(s) \in 1..(Len(s) + 1) /\ ~InFull(s, ObjectEnd(s))
           /\ ObjectsFrom(t)[1] = ObjectsFrom(s)[1] \o ObjectsFrom(t)[ObjectEnd(s)]
           /\ ObjectEnd(t) = ObjectEndFrom(t)[ObjectEnd(s)]
<1> DEFINE n == Len(s) + 1
           m == Len(t) + 1
           next == NextObject(s)
           end == ObjectEndFrom(s)
           item == [p \in 1..n |-> ObjectOf(s, p)]
           f == ObjectsFrom(s)
           g == ObjectsFrom(t)
<1>0. n \in Nat \ {0} /\ m \in Nat /\ n <= m
  BY DEF IsPrefixOf
<1>1. next \in [1..n -> 1..n] /\ \A p \in 1..n : next[p] >= p
  BY NextObjectFacts
<1>2. end \in [1..n -> 1..n] /\ Ends(end, n, next)
  BY ObjectEndChain DEF Ends
<1>3. ASSUME NEW p \in 1..n, next[p] # p
      PROVE  /\ ObjectOf(t, p) = item[p] /\ item[p] \in Seq(Spelled)
             /\ p \in 1..m /\ NextObject(t)[p] # p /\ NextObject(t)[p] = next[p]
  <2>1. InFull(s, p)
    BY <1>3, NextObjectFacts
  <2> QED
    BY <1>3, <2>1, InFullFacts, ObjectStays
<1>4. f \in [1..n -> Seq(Seq(Spelled))] /\ Gathers(f, n, next, item)
  BY ObjectsChain DEF Gathers, Cons
<1>5. g \in [1..m -> Seq(Seq(Spelled))] /\ GoesOn(g, n, next, item)
  <2>1. ASSUME NEW p \in 1..n, next[p] # p
        PROVE  g[p] = Cons(item[p], g[next[p]])
    <3>1. g[p] = Cons(ObjectOf(t, p), g[NextObject(t)[p]])
      BY <1>3, <2>1, ObjectsChain DEF Cons
    <3> HIDE DEF item
    <3> QED
      BY <1>3, <2>1, <3>1
  <2>2. GoesOn(g, n, next, item)
    BY <2>1 DEF GoesOn
  <2> QED
    BY <2>2, ObjectsChain
<1>6. Same(ObjectEndFrom(t), n, next)
  <2>1. ASSUME NEW p \in 1..n, next[p] # p
        PROVE  ObjectEndFrom(t)[p] = ObjectEndFrom(t)[next[p]]
    <3>1. ObjectEndFrom(t)[p] = ObjectEndFrom(t)[NextObject(t)[p]]
      BY <1>3, <2>1, ObjectEndChain
    <3> QED
      BY <1>3, <2>1, <3>1
  <2> QED
    BY <2>1 DEF Same
<1>7. AllIn(item, n, next, Seq(Spelled))
  BY <1>3 DEF AllIn
<1> HIDE DEF n, m, next, end, item, f, g
<1>8. Continues(g, f, end)
  BY <1>0, <1>1, <1>2, <1>4, <1>5, <1>7, ChainGrows
<1>9. next[end[1]] = end[1] /\ ObjectEndFrom(t)[1] = ObjectEndFrom(t)[end[1]]
  BY <1>0, <1>1, <1>2, <1>6, ChainEnd
<1>10. end[1] \in 1..n
  BY <1>0, <1>2
<1> USE DEF n, next, end, f, g
<1>11. ~InFull(s, end[1])
  BY <1>9, <1>10, NextObjectFacts
<1> QED
  BY <1>8, <1>9, <1>10, <1>11 DEF ObjectEnd, Continues

-----------------------------------------------------------------------------
(* What more units make of the packets, and one more packet of the objects. *)

LEMMA PacketsTypes ==
    ASSUME NEW s \in Seq(Unit), Known(s)
    PROVE  /\ Framing!Packets(s, past) \in Seq(Spelled)
           /\ End(s) \in 1..(Len(s) + 1) /\ ~Framing!PacketAt(s, End(s))
<1>1. 1 \in 1..(Len(s) + 1)
  OBVIOUS
<1>2. Framing!Packets(s, past) \in Seq(Spelled)
  BY <1>1, PacketsChain
<1>3. IsPrefixOf(s, s)
  BY DEF IsPrefixOf
<1> QED
  BY <1>2, <1>3, PacketsGrow

LEMMA NoMorePacket ==
    ASSUME NEW s \in Seq(Unit), Known(s), NEW t \in Seq(Unit), Known(t), IsPrefixOf(s, t),
           ~Framing!PacketAt(t, End(s))
    PROVE  /\ Framing!Packets(t, past) = Framing!Packets(s, past) /\ End(t) = End(s)
           /\ Framing!Refused(t) =
                (End(s) + 1 <= Len(t) /\ ~Framing!Accepted(t[End(s)], t[End(s) + 1]))
<1>1. PICK e \in 1..(Len(s) + 1) : e = End(s)
  BY PacketsGrow
<1>2. e \in 1..(Len(t) + 1)
  BY DEF IsPrefixOf
<1>3. /\ Framing!Packets(t, past) = Framing!Packets(s, past) \o PacketsFrom(t, past)[e]
      /\ End(t) = EndFrom(t)[e] /\ Framing!Refused(t) = RefusedFrom(t)[e]
  BY <1>1, PacketsGrow
<1>4. After(t)[e] = e
  BY <1>1, <1>2, AfterFacts
<1>5. PacketsFrom(t, past)[e] = <<>>
  BY <1>2, <1>4, PacketsChain
<1>6. EndFrom(t)[e] = e
  BY <1>2, <1>4, EndChain
<1>7. RefusedFrom(t)[e] = (e + 1 <= Len(t) /\ ~Framing!Accepted(t[e], t[e + 1]))
  BY <1>2, <1>4, RefusedChain
<1>8. Framing!Packets(s, past) \o <<>> = Framing!Packets(s, past)
  BY PacketsTypes, ConcatEmptySeq
<1> QED
  BY <1>1, <1>3, <1>5, <1>6, <1>7, <1>8

LEMMA OneMorePacket ==
    ASSUME NEW s \in Seq(Unit), Known(s), NEW t \in Seq(Unit), Known(t), IsPrefixOf(s, t),
           Framing!PacketAt(t, End(s)), End(s) + t[End(s) + 1] = Len(t) + 1
    PROVE  /\ PacketOf(t, End(s), past) \in Spelled
           /\ Framing!Packets(t, past) = Append(Framing!Packets(s, past), PacketOf(t, End(s), past))
           /\ End(t) = Len(t) + 1 /\ ~Framing!Refused(t)
<1>1. PICK e \in 1..(Len(s) + 1) : e = End(s)
  BY PacketsGrow
<1>2. PICK m \in Nat : m = Len(t) + 1
  OBVIOUS
<1>3. e \in 1..m /\ m \in 1..m
  BY <1>2 DEF IsPrefixOf
<1>4. /\ Framing!Packets(t, past) = Framing!Packets(s, past) \o PacketsFrom(t, past)[e]
      /\ End(t) = EndFrom(t)[e] /\ Framing!Refused(t) = RefusedFrom(t)[e]
  BY <1>1, PacketsGrow
<1>5. e \in At(t)
  BY <1>1, <1>2, <1>3 DEF At
<1>6. After(t)[e] = m /\ m # e /\ PacketOf(t, e, past) \in Spelled
  BY <1>1, <1>2, <1>3, <1>5, AfterFacts, AtFacts
<1>7. After(t)[m] = m /\ ~(m + 1 <= Len(t))
  BY <1>2, <1>3, AfterFacts DEF Framing!PacketAt
<1>8. PacketsFrom(t, past)[m] = <<>> /\ PacketsFrom(t, past)[e] = <<PacketOf(t, e, past)>> \o PacketsFrom(t, past)[m]
  BY <1>2, <1>3, <1>6, <1>7, PacketsChain
<1>9. EndFrom(t)[m] = m /\ EndFrom(t)[e] = EndFrom(t)[m]
  BY <1>2, <1>3, <1>6, <1>7, EndChain
<1>10. RefusedFrom(t)[e] = FALSE
  <2>1. RefusedFrom(t)[m] = (m + 1 <= Len(t) /\ ~Framing!Accepted(t[m], t[m + 1]))
    BY <1>2, <1>3, <1>7, RefusedChain
  <2>2. RefusedFrom(t)[e] = RefusedFrom(t)[m]
    BY <1>2, <1>3, <1>6, RefusedChain
  <2> QED
    BY <1>7, <2>1, <2>2
<1>11. PICK k \in Spelled : k = PacketOf(t, e, past)
  BY <1>6
<1>12. <<k>> \o <<>> = <<k>>
  OBVIOUS
<1>13. \A q \in Seq(Spelled) : q \o <<k>> = Append(q, k)
  OBVIOUS
<1>14. Framing!Packets(s, past) \in Seq(Spelled)
  BY PacketsTypes
<1>15. Framing!Packets(t, past) = Framing!Packets(s, past) \o <<k>>
  BY <1>4, <1>8, <1>11, <1>12
<1>16. Framing!Packets(t, past) = Append(Framing!Packets(s, past), k)
  BY <1>13, <1>14, <1>15
<1> QED
  BY <1>1, <1>2, <1>4, <1>9, <1>10, <1>11, <1>16

LEMMA ObjectsTypes ==
    ASSUME NEW pk \in Seq(Spelled)
    PROVE  /\ ObjectsFrom(pk)[1] \in Seq(Seq(Spelled))
           /\ ObjectEnd(pk) \in 1..(Len(pk) + 1) /\ ~InFull(pk, ObjectEnd(pk))
<1>1. 1 \in 1..(Len(pk) + 1)
  OBVIOUS
<1>2. ObjectsFrom(pk)[1] \in Seq(Seq(Spelled))
  BY <1>1, ObjectsChain
<1>3. IsPrefixOf(pk, pk)
  BY DEF IsPrefixOf
<1> QED
  BY <1>2, <1>3, ObjectsGrow

LEMMA NoMoreObject ==
    ASSUME NEW s \in Seq(Spelled), NEW t \in Seq(Spelled), IsPrefixOf(s, t),
           ~InFull(t, ObjectEnd(s))
    PROVE  ObjectsFrom(t)[1] = ObjectsFrom(s)[1] /\ ObjectEnd(t) = ObjectEnd(s)
<1>1. PICK e \in 1..(Len(s) + 1) : e = ObjectEnd(s)
  BY ObjectsGrow
<1>2. e \in 1..(Len(t) + 1)
  BY DEF IsPrefixOf
<1>3. /\ ObjectsFrom(t)[1] = ObjectsFrom(s)[1] \o ObjectsFrom(t)[e]
      /\ ObjectEnd(t) = ObjectEndFrom(t)[e]
  BY <1>1, ObjectsGrow
<1>4. NextObject(t)[e] = e
  BY <1>1, <1>2, NextObjectFacts
<1>5. ObjectsFrom(t)[e] = <<>>
  BY <1>2, <1>4, ObjectsChain
<1>6. ObjectEndFrom(t)[e] = e
  BY <1>2, <1>4, ObjectEndChain
<1>7. ObjectsFrom(s)[1] \o <<>> = ObjectsFrom(s)[1]
  BY ObjectsTypes, ConcatEmptySeq
<1> QED
  BY <1>1, <1>3, <1>5, <1>6, <1>7

LEMMA OneMoreObject ==
    ASSUME NEW s \in Seq(Spelled), NEW t \in Seq(Spelled), IsPrefixOf(s, t),
           InFull(t, ObjectEnd(s)),
           ObjectEnd(s) + Framing!Span(t[ObjectEnd(s)]) = Len(t) + 1
    PROVE  /\ ObjectsFrom(t)[1] = Append(ObjectsFrom(s)[1], SubSeq(t, ObjectEnd(s), Len(t)))
           /\ ObjectEnd(t) = Len(t) + 1
<1>1. PICK e \in 1..(Len(s) + 1) : e = ObjectEnd(s)
  BY ObjectsGrow
<1>2. PICK m \in Nat : m = Len(t) + 1
  OBVIOUS
<1>3. e \in 1..m /\ m \in 1..m
  BY <1>2 DEF IsPrefixOf
<1>4. /\ ObjectsFrom(t)[1] = ObjectsFrom(s)[1] \o ObjectsFrom(t)[e]
      /\ ObjectEnd(t) = ObjectEndFrom(t)[e]
  BY <1>1, ObjectsGrow
<1>5. InFull(t, e)
  BY <1>1
<1>6. NextObject(t)[e] = m /\ m # e /\ ObjectOf(t, e) \in Seq(Spelled)
  BY <1>1, <1>2, <1>3, <1>5, NextObjectFacts, InFullFacts
<1>7. NextObject(t)[m] = m
  BY <1>2, <1>3, NextObjectFacts DEF InFull
<1>8. ObjectsFrom(t)[m] = <<>> /\ ObjectsFrom(t)[e] = <<ObjectOf(t, e)>> \o ObjectsFrom(t)[m]
  BY <1>2, <1>3, <1>6, <1>7, ObjectsChain
<1>9. ObjectEndFrom(t)[m] = m /\ ObjectEndFrom(t)[e] = ObjectEndFrom(t)[m]
  <2>1. ObjectEndFrom(t)[m] = m
    BY <1>2, <1>3, <1>7, ObjectEndChain
  <2>2. ObjectEndFrom(t)[e] = ObjectEndFrom(t)[m]
    BY <1>2, <1>3, <1>6, ObjectEndChain
  <2> QED
    BY <2>1, <2>2
<1>11. PICK k \in Seq(Spelled) : k = ObjectOf(t, e)
  BY <1>6
<1>12. <<k>> \o <<>> = <<k>>
  OBVIOUS
<1>13. \A q \in Seq(Seq(Spelled)) : q \o <<k>> = Append(q, k)
  OBVIOUS
<1>14. ObjectsFrom(s)[1] \in Seq(Seq(Spelled))
  BY ObjectsTypes
<1>15. ObjectsFrom(t)[1] = ObjectsFrom(s)[1] \o <<k>>
  BY <1>4, <1>8, <1>11, <1>12
<1>16. ObjectsFrom(t)[1] = Append(ObjectsFrom(s)[1], k)
  BY <1>13, <1>14, <1>15
<1>17. k = SubSeq(t, e, Len(t))
  <2>1. e + Framing!Span(t[e]) - 1 = Len(t)
    <3>1. t[e] \in Spelled
      BY <1>2, <1>3, <1>5, InFullFacts
    <3>2. PICK d \in Int : d = Framing!Span(t[e])
      BY <3>1, SpanFacts
    <3> QED
      BY <1>1, <1>2, <3>2
  <2> QED
    BY <1>11, <2>1 DEF ObjectOf
<1> QED
  BY <1>1, <1>2, <1>4, <1>9, <1>16, <1>17

-----------------------------------------------------------------------------
(* The types, with what the buffer and the object wait for. *)

Types ==
    /\ stream \in Seq(Unit) /\ Known(stream)
    /\ past \in [Framing!ShortAt(stream) -> Memory] /\ reset \in BOOLEAN
    /\ arrived \in 0..Len(stream) /\ taken \in 0..arrived
    /\ eof \in BOOLEAN /\ conn \in {"idle", "reading", "closed"}
    /\ buf \in [state : {"HEADER", "DATA"}, header : Seq(Unit), data : Seq(Unit),
                len : 0..BufferMax]
    /\ obj \in [type : {PacketString, PacketNumeric, PacketList, PacketHash, PacketUndefined},
                list : Seq(Spelled), remaining : 0..(SizeMod - 1)]
    /\ pushed \in Seq(Seq(Spelled))

(* A header that is not there yet, or the data of one that is. *)
Expecting ==
    \/ buf.state = "HEADER" /\ Len(buf.header) < HeaderSize /\ buf.data = <<>>
    \/ /\ buf.state = "DATA" /\ Len(buf.header) = HeaderSize /\ ~Garbage(buf.header)
       /\ buf.len = DataLen(buf.header) /\ Len(buf.data) < buf.len

(* No packet yet, or some of those that the first one announces.  The      *)
(* counter is 0 where 2^64 are still to come.                              *)
Building ==
    \/ obj = NewObject
    \/ /\ obj.type \in {PacketList, PacketHash}
       /\ Len(obj.list) > 0 /\ Len(obj.list) < Framing!Span(obj.list[1])
       /\ obj.remaining = (Framing!Span(obj.list[1]) - Len(obj.list)) % SizeMod

(* The packet under construction starts at e. *)
UnitsPlaced(e) ==
    /\ taken + 1 = e + Len(buf.header) + Len(buf.data)
    /\ \A i \in 1..Len(buf.header) : buf.header[i] = stream[e + i - 1]
    /\ \A i \in 1..Len(buf.data) : buf.data[i] = stream[e + Len(buf.header) + i - 1]

(* It is the last that was read. *)
Behind == \E e \in Nat \ {0} : UnitsPlaced(e)

Shape == Types /\ Expecting /\ Building /\ Behind

LEMMA NewOnes ==
    /\ NewBuffer \in [state : {"HEADER", "DATA"}, header : Seq(Unit), data : Seq(Unit),
                      len : 0..BufferMax]
    /\ NewBuffer.state = "HEADER" /\ NewBuffer.header = <<>> /\ NewBuffer.data = <<>>
    /\ NewObject \in [type : {PacketString, PacketNumeric, PacketList, PacketHash, PacketUndefined},
                      list : Seq(Spelled), remaining : 0..(SizeMod - 1)]
    /\ NewObject.list = <<>> /\ NewObject.type = PacketUndefined
    /\ PacketUndefined \notin {PacketString, PacketNumeric, PacketList, PacketHash}
BY ReaderTypes DEF NewBuffer, NewObject, PacketUndefined, PacketString, PacketNumeric, PacketList,
                   PacketHash

(* The two modules refuse the same headers. *)
LEMMA GarbageIs ==
    ASSUME NEW h \in Seq(Unit), Len(h) = HeaderSize
    PROVE  /\ h[1] \in Unit /\ h[2] \in Unit
           /\ Garbage(h) <=> ~Framing!Accepted(h[1], h[2])
           /\ ~Garbage(h) => DataLen(h) = h[2] - HeaderSize /\ DataLen(h) \in 1..BufferMax
<1>1. h[1] \in Unit /\ h[2] \in Unit
  BY ElementOfSeq DEF HeaderSize
<1>2. DataLen(h) = Framing!DataLen(h[2])
  BY DEF DataLen, Framing!DataLen, HeaderSize, Framing!HeaderSize
<1>3. DataLen(h) \in Nat
  BY <1>1, ReaderTypes DEF DataLen, HeaderSize, Unit
<1>4. Garbage(h) <=> ~Framing!Accepted(h[1], h[2])
  BY <1>2, <1>3, ReaderTypes
     DEF Garbage, Framing!Accepted, Framing!PacketString, Framing!PacketNumeric,
         Framing!PacketList, Framing!PacketHash, PacketString, PacketNumeric, PacketList, PacketHash
<1>5. ~Garbage(h) => DataLen(h) = h[2] - 2 /\ DataLen(h) \in 1..BufferMax
  <2> SUFFICES ASSUME ~Garbage(h) PROVE DataLen(h) = h[2] - 2 /\ DataLen(h) \in 1..BufferMax
    OBVIOUS
  <2>1. DataLen(h) = h[2] - 2 /\ h[2] \in 3..(BufferMax + 2)
    BY <1>1, <1>2, <1>4, AcceptedLength
  <2> QED
    BY <2>1, ReaderTypes
<1> QED
  BY <1>1, <1>4, <1>5 DEF HeaderSize

(* A read() returns one unit at least, and those that are next. *)
LEMMA ReadFacts ==
    ASSUME Types, NEW w \in Nat \ {0}, Available > 0
    PROVE  /\ ReadUnits(w) \in Seq(Unit) /\ Len(ReadUnits(w)) \in 1..w
           /\ taken + Len(ReadUnits(w)) \in 0..arrived
           /\ \A i \in 1..Len(ReadUnits(w)) : ReadUnits(w)[i] = stream[taken + i]
<1>1. /\ stream \in Seq(Unit) /\ arrived \in Nat /\ taken \in Nat /\ arrived <= Len(stream)
      /\ Available = arrived - taken /\ Available \in Nat \ {0}
  BY DEF Types, Available
<1>2. PICK n \in 1..w : n <= Available /\ ReadUnits(w) = SubSeq(stream, taken + 1, taken + n)
  <2> DEFINE n == IF w < Available THEN w ELSE Available
  <2>1. n \in 1..w /\ n <= Available
    BY <1>1
  <2>2. ReadUnits(w) = SubSeq(stream, taken + 1, taken + n)
    BY DEF ReadUnits
  <2> HIDE DEF n
  <2> QED
    BY <2>1, <2>2
<1>3. PICK a \in Int, b \in Int : a = taken + 1 /\ b = taken + n
  BY <1>1
<1>4. \A i \in a..b : stream[i] \in Unit
  <2>1. \A i \in a..b : i \in 1..Len(stream)
    BY <1>1, <1>2, <1>3
  <2> QED
    BY <1>1, <2>1, ElementOfSeq
<1>5. /\ SubSeq(stream, a, b) \in Seq(Unit)
      /\ Len(SubSeq(stream, a, b)) = IF a <= b THEN b - a + 1 ELSE 0
      /\ \A i \in 1..(b - a + 1) : SubSeq(stream, a, b)[i] = stream[a + i - 1]
  BY <1>1, <1>4, SubSeqProperties
<1>6. b - a + 1 = n /\ a <= b /\ \A i \in 1..n : a + i - 1 = taken + i
  BY <1>1, <1>3
<1>7. taken + n \in 0..arrived
  BY <1>1, <1>2
<1> QED
  BY <1>2, <1>3, <1>5, <1>6, <1>7

(* What is joined to what was read before. *)
Joins(new, old) ==
    /\ Len(new) > Len(old) /\ taken' = taken + (Len(new) - Len(old)) /\ taken' \in 0..arrived
    /\ \A i \in 1..Len(old) : new[i] = old[i]
    /\ \A i \in (Len(old) + 1)..Len(new) : new[i] = stream[taken + (i - Len(old))]

LEMMA JoinsRead ==
    ASSUME Types, NEW w \in Nat \ {0}, Available > 0, NEW old \in Seq(Unit),
           taken' = taken + Len(ReadUnits(w))
    PROVE  /\ old \o ReadUnits(w) \in Seq(Unit) /\ Joins(old \o ReadUnits(w), old)
           /\ Len(old \o ReadUnits(w)) <= Len(old) + w
<1>1. PICK got \in Seq(Unit) : got = ReadUnits(w)
  BY ReadFacts
<1>2. /\ Len(got) \in 1..w /\ taken + Len(got) \in 0..arrived
      /\ \A i \in 1..Len(got) : got[i] = stream[taken + i]
  BY <1>1, ReadFacts
<1>3. PICK new \in Seq(Unit) : new = old \o got
  <2>1. old \o got \in Seq(Unit)
    BY ConcatProperties
  <2> QED
    BY <2>1
<1>4. /\ Len(new) = Len(old) + Len(got)
      /\ \A i \in 1..(Len(old) + Len(got)) :
           new[i] = IF i <= Len(old) THEN old[i] ELSE got[i - Len(old)]
  BY <1>3, ConcatProperties
<1>5. Len(old) \in Nat /\ Len(got) \in Nat /\ Len(got) > 0
  BY <1>2
<1>6. \A i \in 1..Len(old) : new[i] = old[i]
  BY <1>4, <1>5
<1>7. ASSUME NEW i \in (Len(old) + 1)..Len(new)
      PROVE  new[i] = stream[taken + (i - Len(old))]
  <2>1. i \in 1..(Len(old) + Len(got)) /\ ~(i <= Len(old)) /\ i - Len(old) \in 1..Len(got)
    BY <1>4, <1>5
  <2> QED
    BY <1>2, <1>4, <2>1
<1>8. taken' = taken + (Len(new) - Len(old)) /\ taken' \in 0..arrived
  BY <1>1, <1>2, <1>4, <1>5
<1>9. Len(new) > Len(old) /\ Len(new) <= Len(old) + w
  BY <1>2, <1>4, <1>5
<1>10. Joins(new, old)
  BY <1>6, <1>7, <1>8, <1>9 DEF Joins
<1> QED
  BY <1>1, <1>3, <1>9, <1>10

(* The two reads, in terms of what they make of the buffer. *)
HeaderRead(header) ==
    /\ buf.state = "HEADER" /\ Len(buf.header) < HeaderSize /\ buf.data = <<>>
    /\ Joins(header, buf.header) /\ Len(header) <= HeaderSize
    /\ \/ /\ Len(header) < HeaderSize
          /\ buf' = [buf EXCEPT !.header = header]
          /\ UNCHANGED <<conn, obj>>
       \/ /\ Len(header) = HeaderSize /\ ~Garbage(header)
          /\ buf' = [state |-> "DATA", header |-> header, data |-> <<>>, len |-> DataLen(header)]
          /\ UNCHANGED <<conn, obj>>
       \/ /\ Len(header) = HeaderSize /\ Garbage(header)
          /\ Close

DataRead(data) ==
    /\ buf.state = "DATA" /\ Len(buf.header) = HeaderSize /\ ~Garbage(buf.header)
    /\ buf.len = DataLen(buf.header) /\ Len(buf.data) < buf.len
    /\ Joins(data, buf.data) /\ Len(data) <= buf.len

ReadPacket(data) ==
    [type |-> buf.header[1], data |-> data,
     number |-> Numeric(buf.header, data, taken' + 1 - HeaderSize - Len(data))]

DataMakes(data) ==
    \/ /\ Len(data) < buf.len
       /\ buf' = [buf EXCEPT !.data = data]
       /\ UNCHANGED <<obj, pushed>>
    \/ /\ Len(data) = buf.len /\ ~Packet(ReadPacket(data)).ready
       /\ buf' = NewBuffer
       /\ obj' = [type |-> Packet(ReadPacket(data)).type, list |-> Packet(ReadPacket(data)).list,
                  remaining |-> Packet(ReadPacket(data)).remaining]
       /\ UNCHANGED pushed
    \/ /\ Len(data) = buf.len /\ Packet(ReadPacket(data)).ready
       /\ buf' = NewBuffer /\ obj' = NewObject
       /\ pushed' = Append(pushed, Packet(ReadPacket(data)).list)

LEMMA HeaderReads ==
    ASSUME Shape, ReadHeader
    PROVE  /\ UNCHANGED <<stream, past, arrived, eof, pushed, reset>>
           /\ \E header \in Seq(Unit) : HeaderRead(header)
<1>1. Types /\ Available > 0 /\ buf.state = "HEADER" /\ buf.header \in Seq(Unit)
      /\ Len(buf.header) < HeaderSize /\ buf.data = <<>>
  BY DEF Shape, Types, Expecting, ReadHeader
<1>2. PICK w \in Nat \ {0} : w = HeaderSize - Len(buf.header)
  <2>1. PICK n \in Nat : n = Len(buf.header)
    BY <1>1
  <2>2. n < HeaderSize
    BY <1>1, <2>1
  <2>3. HeaderSize = 2
    BY DEF HeaderSize
  <2>4. HeaderSize - n \in Nat \ {0}
    BY <2>2, <2>3
  <2> QED
    BY <2>1, <2>4
<1>3. PICK header : header = buf.header \o ReadUnits(w)
  OBVIOUS
<1>4. taken' = taken + Len(ReadUnits(w))
  BY <1>2 DEF ReadHeader
<1>5. /\ header \in Seq(Unit) /\ Joins(header, buf.header)
      /\ Len(header) <= Len(buf.header) + w
  BY <1>1, <1>3, <1>4, JoinsRead
<1>6. Len(header) <= HeaderSize
  BY <1>1, <1>2, <1>5 DEF HeaderSize
<1>7. \/ /\ Len(header) < HeaderSize
         /\ buf' = [buf EXCEPT !.header = header]
         /\ UNCHANGED <<conn, obj>>
      \/ /\ Len(header) = HeaderSize /\ ~Garbage(header)
         /\ buf' = [state |-> "DATA", header |-> header, data |-> <<>>, len |-> DataLen(header)]
         /\ UNCHANGED <<conn, obj>>
      \/ /\ Len(header) = HeaderSize /\ Garbage(header)
         /\ Close
  BY <1>2, <1>3, Zenon DEF ReadHeader
<1>8. HeaderRead(header)
  BY <1>1, <1>5, <1>6, <1>7, Zenon DEF HeaderRead
<1>9. UNCHANGED <<stream, past, arrived, eof, pushed, reset>>
  BY DEF ReadHeader
<1> QED
  BY <1>5, <1>8, <1>9

LEMMA DataReads ==
    ASSUME Shape, ReadData
    PROVE  /\ UNCHANGED <<stream, past, arrived, eof, conn, reset>>
           /\ \E data \in Seq(Unit) : DataRead(data) /\ DataMakes(data)
<1>1. /\ Types /\ Available > 0 /\ buf.state = "DATA" /\ buf.data \in Seq(Unit)
      /\ buf.header \in Seq(Unit) /\ Len(buf.header) = HeaderSize /\ ~Garbage(buf.header)
      /\ buf.len = DataLen(buf.header) /\ Len(buf.data) < buf.len /\ buf.len \in 0..BufferMax
  BY DEF Shape, Types, Expecting, ReadData
<1>2. PICK w \in Nat \ {0} : w = buf.len - Len(buf.data)
  <2>1. Len(buf.data) \in Nat /\ buf.len \in Nat
    BY <1>1, ReaderTypes
  <2> QED
    BY <1>1, <2>1
<1>3. PICK data : data = buf.data \o ReadUnits(w)
  OBVIOUS
<1>4. taken' = taken + Len(ReadUnits(w))
  BY <1>2 DEF ReadData
<1>5. /\ data \in Seq(Unit) /\ Joins(data, buf.data)
      /\ Len(data) <= Len(buf.data) + w
  BY <1>1, <1>3, <1>4, JoinsRead
<1>6. Len(data) <= buf.len
  <2>1. Len(buf.data) \in Nat /\ buf.len \in Nat
    BY <1>1, ReaderTypes
  <2> QED
    BY <1>2, <1>5, <2>1
<1>7. DataMakes(data)
  BY <1>2, <1>3, Zenon DEF ReadData, DataMakes, ReadPacket
<1>8. DataRead(data)
  BY <1>1, <1>5, <1>6 DEF DataRead
<1>9. UNCHANGED <<stream, past, arrived, eof, conn, reset>>
  BY DEF ReadData
<1> QED
  BY <1>5, <1>7, <1>8, <1>9

(* What is joined comes after what was there, from the same place on. *)
LEMMA JoinsPlaced ==
    ASSUME Types, NEW e \in Nat, NEW old \in Seq(Unit), NEW new \in Seq(Unit), Joins(new, old),
           taken + 1 = e + Len(old), \A i \in 1..Len(old) : old[i] = stream[e + i - 1]
    PROVE  /\ taken' + 1 = e + Len(new)
           /\ \A i \in 1..Len(new) : new[i] = stream[e + i - 1]
<1>1. PICK n \in Nat, was \in Nat, t \in Nat : n = Len(new) /\ was = Len(old) /\ t = taken
  BY DEF Types
<1>2. taken' = t + (n - was) /\ t + 1 = e + was /\ n > was
  BY <1>1 DEF Joins
<1>3. ASSUME NEW i \in 1..n PROVE new[i] = stream[e + i - 1]
  <2>1. CASE i \in 1..was
    BY <1>1, <2>1 DEF Joins
  <2>2. CASE i \in (was + 1)..n
    <3>1. t + (i - was) = e + i - 1
      BY <1>1, <1>2, <2>2
    <3> QED
      BY <1>1, <2>2, <3>1 DEF Joins
  <2> QED
    BY <1>1, <2>1, <2>2
<1> QED
  BY <1>1, <1>2, <1>3

(* The packet that is read is one that units spell. *)
LEMMA ReadPacketSpelled ==
    ASSUME Types, Behind, NEW data \in Seq(Unit), DataRead(data), Len(data) = buf.len
    PROVE  ReadPacket(data) \in Spelled
<1>1. buf.header \in Seq(Unit) /\ Len(buf.header) = HeaderSize /\ ~Garbage(buf.header)
      /\ buf.len = DataLen(buf.header)
  BY DEF Types, DataRead
<1>2. DataLen(buf.header) \in 1..BufferMax
  BY <1>1, GarbageIs
<1>3. Len(data) > 0
  BY <1>1, <1>2, ReaderTypes
<1>4. buf.header[1] \in {PacketString, PacketNumeric, PacketList, PacketHash}
  BY <1>1 DEF Garbage
<1>5. Numeric(buf.header, data, taken' + 1 - HeaderSize - Len(data)) \in 0..(SizeMod - 1)
  <2>1. PICK e \in Nat \ {0} : UnitsPlaced(e)
    BY DEF Behind
  <2>2. PICK n \in Nat \ {0} : n = Len(data)
    BY <1>3
  <2>3. Joins(data, buf.data) /\ buf.data \in Seq(Unit) /\ Len(buf.header) = 2 /\ e + 2 \in Nat
    BY <1>1 DEF Types, DataRead, HeaderSize
  <2>4. taken + 1 = e + 2 + Len(buf.data)
        /\ \A i \in 1..Len(buf.data) : buf.data[i] = stream[e + 2 + i - 1]
    BY <2>1, <2>3 DEF UnitsPlaced
  <2>5. taken' + 1 = e + 2 + n
    BY <2>2, <2>3, <2>4, JoinsPlaced
  <2>6. taken' + 1 - HeaderSize - Len(data) = e
    <3>1. taken' \in Int
      BY <2>3 DEF Joins, Types
    <3> QED
      BY <2>2, <2>5, <3>1 DEF HeaderSize
  <2>7. data[1] \in Unit /\ (n # 1 => data[2] \in Unit)
    BY <2>2, ElementOfSeq
  <2>8. CASE buf.header[1] \notin {PacketNumeric, PacketList, PacketHash}
    BY <2>8, ReaderTypes DEF Numeric
  <2>9. CASE buf.header[1] \in {PacketNumeric, PacketList, PacketHash} /\ n = 1
    <3>1. e \in Framing!ShortAt(stream)
      <4>1. buf.header[1] = stream[e + 1 - 1] /\ buf.header[2] = stream[e + 2 - 1]
        BY <2>1, <2>3 DEF UnitsPlaced
      <4>2. e + 1 - 1 = e /\ e + 2 - 1 = e + 1
        BY <2>1
      <4>3. buf.header[2] = 3
        <5>1. DataLen(buf.header) = buf.header[2] - 2 /\ buf.header[2] \in Unit
          BY <1>1, GarbageIs DEF HeaderSize
        <5> QED
          BY <1>1, <2>2, <2>9, <5>1, ReaderTypes DEF Unit
      <4>4. e \in 1..(Len(stream) - 1)
        <5>1. PICK t \in Nat : t = taken' /\ t <= Len(stream)
          BY <2>3 DEF Joins, Types
        <5> QED
          <6>1. PICK l \in Nat : l = Len(stream)
            BY DEF Types
          <6>2. t + 1 = e + 2 + 1 /\ t <= l /\ e >= 1
            <7>1. n = 1 /\ taken' = t
              BY <2>9, <5>1
            <7>2. t + 1 = e + 2 + n
              BY <2>5, <7>1
            <7>3. t + 1 = e + 2 + 1
              BY <7>1, <7>2
            <7>4. t <= l
              BY <5>1, <6>1
            <7>5. e >= 1
              OBVIOUS
            <7> QED
              BY <7>3, <7>4, <7>5
          <6>3. e \in 1..(l - 1)
            BY <6>2
          <6> QED
            BY <6>1, <6>3
      <4>6. stream[e] = buf.header[1] /\ stream[e + 1] = 3
        BY <4>1, <4>2, <4>3
      <4>5. stream[e] \in Framing!Numbered /\ stream[e + 1] = Framing!HeaderSize + 1
        BY <2>9, <4>6
        DEF Framing!Numbered, Framing!HeaderSize, Framing!PacketNumeric, Framing!PacketList,
            Framing!PacketHash, PacketNumeric, PacketList, PacketHash
      <4> QED
        BY <4>4, <4>5 DEF Framing!ShortAt
    <3>2. past[e] \in Unit
      BY <3>1 DEF Types, Known
    <3>3. Numeric(buf.header, data, e) = NumberMod * data[1] + past[e]
      BY <2>2, <2>9 DEF Numeric
    <3> QED
      BY <2>6, <2>7, <3>2, <3>3, NumberOfUnits
  <2>10. CASE buf.header[1] \in {PacketNumeric, PacketList, PacketHash} /\ n # 1
    <3>1. Numeric(buf.header, data, e) = NumberMod * data[1] + data[2]
      BY <2>2, <2>10 DEF Numeric
    <3> QED
      BY <2>6, <2>7, <2>10, <3>1, NumberOfUnits
  <2> QED
    BY <2>8, <2>9, <2>10
<1>6. PICK number \in 0..(SizeMod - 1) :
        number = Numeric(buf.header, data, taken' + 1 - HeaderSize - Len(data))
  BY <1>5
<1>7. ReadPacket(data) = [type |-> buf.header[1], data |-> data, number |-> number]
  BY <1>6 DEF ReadPacket
<1> QED
  BY <1>3, <1>4, <1>7 DEF Spelled

(* One packet less is to come, as the counter has it. *)
LEMMA OneLess ==
    ASSUME NEW m \in Nat \ {0}, NEW d \in 1..m
    PROVE  ((d % m) - 1) % m = d - 1 /\ (d - 1) % m = d - 1
<1>1. CASE d < m
  <2>1. d % m = d
    BY <1>1
  <2> QED
    BY <2>1
<1>2. CASE d = m
  <2>1. d % m = 0
    BY <1>2
  <2>2. (0 - 1) % m = m - 1
    OBVIOUS
  <2>3. (m - 1) % m = m - 1
    OBVIOUS
  <2> QED
    BY <1>2, <2>1, <2>2, <2>3
<1> QED
  BY <1>1, <1>2

(* One more packet of an object, and whether it is the last. *)
LEMMA PacketIs ==
    ASSUME Types, Building, NEW k \in Spelled
    PROVE  /\ Packet(k).list = Append(obj.list, k) /\ Packet(k).list \in Seq(Spelled)
           /\ Len(Packet(k).list) = Len(obj.list) + 1
           /\ Packet(k).list[1] \in Spelled
           /\ Len(Packet(k).list) <= Framing!Span(Packet(k).list[1])
           /\ Packet(k).ready <=> Len(Packet(k).list) = Framing!Span(Packet(k).list[1])
           /\ ~Packet(k).ready =>
                /\ Packet(k).type \in {PacketList, PacketHash}
                /\ Packet(k).remaining \in 0..(SizeMod - 1)
                /\ Len(Packet(k).list) < Framing!Span(Packet(k).list[1])
                /\ Packet(k).remaining =
                     (Framing!Span(Packet(k).list[1]) - Len(Packet(k).list)) % SizeMod
<1>1. /\ Framing!Span(k) \in 1..(SizeMod + 1)
      /\ k.type \in {PacketString, PacketNumeric, PacketList, PacketHash}
      /\ Following(k) = (Framing!Span(k) - 1) % SizeMod
      /\ Framing!Span(k) = 1 <=> k.type \notin {PacketList, PacketHash} \/ k.number = 0
  BY SpanFacts
<1>2. obj.list \in Seq(Spelled) /\ obj.remaining \in 0..(SizeMod - 1)
  BY DEF Types
<1>3. CASE obj = NewObject
  <2>1. obj.type = PacketUndefined /\ obj.list = <<>>
    BY <1>3, NewOnes
  <2>0. PICK b \in BOOLEAN : b = (k.type \notin {PacketList, PacketHash} \/ k.number = 0)
    BY Zenon
  <2>2. Packet(k) = [type |-> k.type, list |-> <<k>>, remaining |-> Following(k), ready |-> b]
    BY <2>0, <2>1, Zenon DEF Packet
  <2>3. <<k>> = Append(<<>>, k) /\ <<k>> \in Seq(Spelled) /\ Len(<<k>>) = 1 /\ <<k>>[1] = k
    OBVIOUS
  <2>4. Packet(k).ready = b
    BY <2>2
  <2>5. Packet(k).type = k.type
    BY <2>2
  <2>6. Packet(k).remaining = (Framing!Span(k) - 1) % SizeMod /\ Packet(k).list = <<k>>
    BY <1>1, <2>2
  <2>7. Packet(k).ready <=> Framing!Span(k) = 1
    BY <1>1, <2>0, <2>4
  <2>8. ~Packet(k).ready => Packet(k).type \in {PacketList, PacketHash}
    BY <1>1, <2>5, <2>7
  <2>9. (Framing!Span(k) - 1) % SizeMod \in 0..(SizeMod - 1)
    BY <1>1, ReaderTypes
  <2> QED
    BY <1>1, <2>1, <2>3, <2>6, <2>7, <2>8, <2>9, ReaderTypes
<1>4. CASE obj # NewObject
  <2>1. /\ obj.type \in {PacketList, PacketHash}
        /\ Len(obj.list) > 0 /\ Len(obj.list) < Framing!Span(obj.list[1])
        /\ obj.remaining = (Framing!Span(obj.list[1]) - Len(obj.list)) % SizeMod
    BY <1>4 DEF Building
  <2>2. obj.type # PacketUndefined
    BY <2>1, NewOnes
  <2>3. /\ Append(obj.list, k) \in Seq(Spelled) /\ Len(Append(obj.list, k)) = Len(obj.list) + 1
        /\ Append(obj.list, k)[1] = obj.list[1] /\ obj.list[1] \in Spelled
    <3>1. 1 \in 1..Len(obj.list)
      BY <1>2, <2>1
    <3> QED
      BY <1>2, <3>1, AppendProperties, ElementOfSeq
  <2>4. PICK m \in Nat \ {0} : m = SizeMod
    BY ReaderTypes
  <2>5. PICK all \in 1..(m + 1), n \in Nat :
          all = Framing!Span(obj.list[1]) /\ n = Len(obj.list) /\ 0 < n /\ n < all
    <3>1. Framing!Span(obj.list[1]) \in 1..(m + 1)
      BY <2>3, <2>4, SpanFacts
    <3>2. Len(obj.list) \in Nat
      BY <1>2
    <3> QED
      BY <2>1, <3>1, <3>2
  <2>6. PICK left \in 0..(m - 1) :
          left = all - (n + 1) /\ left = (all - (n + 1)) % m /\ (obj.remaining - 1) % SizeMod = left
    <3>1. all - n \in 1..m
      BY <2>4, <2>5
    <3>2. (((all - n) % m) - 1) % m = (all - n) - 1 /\ ((all - n) - 1) % m = (all - n) - 1
      BY <3>1, <2>4, OneLess
    <3>3. obj.remaining = (all - n) % m
      BY <2>1, <2>4, <2>5
    <3>4. (all - n) - 1 = all - (n + 1) /\ all - (n + 1) \in 0..(m - 1)
      BY <3>1, <2>5
    <3> QED
      BY <2>4, <3>2, <3>3, <3>4
  <2>0. PICK b \in BOOLEAN : b = (left = 0)
    BY Zenon
  <2>7. Packet(k) = [type |-> obj.type, list |-> Append(obj.list, k), remaining |-> left,
                     ready |-> b]
    BY <2>0, <2>2, <2>6, Zenon DEF Packet
  <2>8. Packet(k).ready <=> left = 0
    <3>1. Packet(k).ready = b
      BY <2>7
    <3> QED
      BY <2>0, <3>1, Zenon
  <2>9. Packet(k).type = obj.type /\ Packet(k).remaining = left
        /\ Packet(k).list = Append(obj.list, k)
    BY <2>7
  <2>10. Len(Packet(k).list) = n + 1 /\ Framing!Span(Packet(k).list[1]) = all
    BY <2>3, <2>5, <2>9
  <2>11. n + 1 <= all /\ (left = 0 <=> n + 1 = all)
    <3>1. left = all - (n + 1)
      BY <2>6
    <3> QED
      BY <2>4, <2>5, <3>1
  <2>12. left # 0 => n + 1 < all
    BY <2>5, <2>11
  <2>13. Packet(k).remaining \in 0..(SizeMod - 1)
         /\ Packet(k).remaining =
              (Framing!Span(Packet(k).list[1]) - Len(Packet(k).list)) % SizeMod
    BY <2>4, <2>6, <2>9, <2>10
  <2>14. Packet(k).list \in Seq(Spelled) /\ Packet(k).list[1] \in Spelled
         /\ Len(Packet(k).list) = Len(obj.list) + 1
    BY <2>3, <2>9
  <2>15. /\ Len(Packet(k).list) <= Framing!Span(Packet(k).list[1])
         /\ Packet(k).ready <=> Len(Packet(k).list) = Framing!Span(Packet(k).list[1])
         /\ ~Packet(k).ready => Len(Packet(k).list) < Framing!Span(Packet(k).list[1])
    BY <2>8, <2>10, <2>11, <2>12
  <2>16. Packet(k).type \in {PacketList, PacketHash} /\ Packet(k).list = Append(obj.list, k)
    BY <2>1, <2>9
  <2> QED
    BY <2>13, <2>14, <2>15, <2>16
<1> QED
  BY <1>3, <1>4

LEMMA ShapeInit == Init => Shape
<1> SUFFICES ASSUME Init PROVE Shape
  OBVIOUS
<1>1. stream \in Seq(Unit)
  BY ReaderTypes DEF Init
<1>2. arrived \in 0..Len(stream) /\ taken \in 0..arrived
  BY <1>1 DEF Init
<1>3. <<>> \in Seq(Seq(Spelled))
  OBVIOUS
<1>7. Known(stream) /\ past \in [Framing!ShortAt(stream) -> Memory] /\ reset \in BOOLEAN
  BY ReaderTypes DEF Init, Known
<1>4. Types
  BY <1>1, <1>2, <1>3, <1>7, NewOnes DEF Init, Types
<1>8. Behind
  <2>1. UnitsPlaced(1)
    BY NewOnes DEF Init, UnitsPlaced
  <2> QED
    BY <2>1 DEF Behind
<1>5. Expecting
  BY NewOnes DEF Init, Expecting, HeaderSize
<1>6. Building
  BY DEF Init, Building
<1> QED
  BY <1>4, <1>5, <1>6, <1>8 DEF Shape

LEMMA MemoryStays ==
    ASSUME Types, UNCHANGED <<stream, past>>
    PROVE  Known(stream)' /\ (past \in [Framing!ShortAt(stream) -> Memory])'
BY DEF Types, Known, Framing!ShortAt, Framing!Numbered, Framing!HeaderSize, Framing!PacketNumeric,
       Framing!PacketList, Framing!PacketHash

LEMMA NewBehind == ASSUME taken' \in Nat, buf' = NewBuffer PROVE Behind'
<1>1. PICK e \in Nat \ {0} : e = taken' + 1
  <2>1. PICK t \in Nat : t = taken'
    OBVIOUS
  <2>2. t + 1 \in Nat \ {0}
    OBVIOUS
  <2> QED
    BY <2>1, <2>2
<1>2. UnitsPlaced(e)'
  BY <1>1, NewOnes DEF UnitsPlaced
<1> QED
  BY <1>1, <1>2 DEF Behind

LEMMA CloseShape ==
    ASSUME Shape, Close, UNCHANGED <<stream, past, arrived, eof, pushed>>,
           taken' \in 0..arrived, reset' \in BOOLEAN
    PROVE  Shape'
<1>1. Types'
  BY NewOnes, MemoryStays DEF Shape, Types, Close
<1>2. Expecting'
  BY NewOnes DEF Close, Expecting, HeaderSize
<1>3. Building'
  BY DEF Close, Building
<1>4. Behind'
  BY NewBehind DEF Shape, Types, Close
<1> QED
  BY <1>1, <1>2, <1>3, <1>4 DEF Shape

LEMMA HeaderShape == ASSUME Shape, ReadHeader PROVE Shape'
<1>1. PICK header \in Seq(Unit) : HeaderRead(header)
  BY HeaderReads
<1>2. UNCHANGED <<stream, past, arrived, eof, pushed, reset>> /\ taken' \in 0..arrived
      /\ reset \in BOOLEAN
  BY <1>1, HeaderReads DEF HeaderRead, Joins, Shape, Types
<1>6. Types /\ Known(stream)' /\ (past \in [Framing!ShortAt(stream) -> Memory])'
  BY <1>2, MemoryStays DEF Shape, Types
<1>7. ASSUME buf'.header = header, buf'.data = <<>> PROVE Behind'
  <2>1. PICK e \in Nat \ {0} : UnitsPlaced(e)
    BY DEF Shape, Behind
  <2>2. /\ buf.header \in Seq(Unit) /\ Joins(header, buf.header) /\ Len(buf.data) = 0
    BY <1>1 DEF HeaderRead, Shape, Types
  <2>3. PICK n \in Nat : n = Len(buf.header) /\ taken + 1 = e + n + 0
    BY <2>1, <2>2 DEF UnitsPlaced
  <2>4. taken + 1 = e + Len(buf.header)
        /\ \A i \in 1..Len(buf.header) : buf.header[i] = stream[e + i - 1]
    BY <2>1, <2>3 DEF UnitsPlaced
  <2>5. taken' + 1 = e + Len(header) /\ \A i \in 1..Len(header) : header[i] = stream[e + i - 1]
    BY <1>6, <2>2, <2>4, JoinsPlaced
  <2>6. UnitsPlaced(e)'
    BY <1>2, <1>7, <2>1, <2>5 DEF UnitsPlaced
  <2> QED
    BY <2>6 DEF Behind
<1>3. CASE /\ Len(header) < HeaderSize
           /\ buf' = [buf EXCEPT !.header = header]
           /\ UNCHANGED <<conn, obj>>
  <2>1. /\ buf'.state = "HEADER" /\ buf'.header = header /\ buf'.data = <<>>
        /\ buf' \in [state : {"HEADER", "DATA"}, header : Seq(Unit), data : Seq(Unit),
                     len : 0..BufferMax]
    BY <1>1, <1>3 DEF Shape, Types, HeaderRead
  <2>2. Types'
    BY <1>2, <1>3, <1>6, <2>1 DEF Shape, Types
  <2>3. Expecting'
    BY <1>3, <2>1 DEF Expecting
  <2>4. Building'
    BY <1>3 DEF Shape, Building
  <2>6. Behind'
    BY <1>7, <2>1
  <2> QED
    BY <2>2, <2>3, <2>4, <2>6 DEF Shape
<1>4. CASE /\ Len(header) = HeaderSize /\ ~Garbage(header)
           /\ buf' = [state |-> "DATA", header |-> header, data |-> <<>>, len |-> DataLen(header)]
           /\ UNCHANGED <<conn, obj>>
  <2>0. DataLen(header) \in 1..BufferMax
    BY <1>4, GarbageIs
  <2>1. /\ buf'.state = "DATA" /\ buf'.header = header /\ buf'.data = <<>>
        /\ buf'.len = DataLen(header) /\ Len(<<>>) = 0
    BY <1>4
  <2>5. buf' \in [state : {"HEADER", "DATA"}, header : Seq(Unit), data : Seq(Unit),
                  len : 0..BufferMax]
    <3>1. DataLen(header) \in 0..BufferMax /\ <<>> \in Seq(Unit)
      BY <2>0, ReaderTypes
    <3> QED
      BY <1>4, <3>1
  <2>2. Types'
    BY <1>2, <1>4, <1>6, <2>5 DEF Shape, Types
  <2>3. Expecting'
    BY <1>4, <2>0, <2>1, ReaderTypes DEF Expecting
  <2>4. Building'
    BY <1>4 DEF Shape, Building
  <2>6. Behind'
    BY <1>7, <2>1
  <2> QED
    BY <2>2, <2>3, <2>4, <2>6 DEF Shape
<1>5. CASE Close
  BY <1>2, <1>5, CloseShape
<1> QED
  BY <1>1, <1>3, <1>4, <1>5 DEF HeaderRead

LEMMA DataShape == ASSUME Shape, ReadData PROVE Shape'
<1>1. PICK data \in Seq(Unit) : DataRead(data) /\ DataMakes(data)
  BY DataReads
<1>2. UNCHANGED <<stream, past, arrived, eof, conn, reset>> /\ taken' \in 0..arrived
  BY <1>1, DataReads DEF DataRead, Joins
<1>8. /\ Types /\ Known(stream)' /\ (past \in [Framing!ShortAt(stream) -> Memory])'
      /\ taken' \in Nat
  BY <1>2, MemoryStays DEF Shape, Types
<1> DEFINE k == ReadPacket(data)
<1>3. Len(data) = buf.len => k \in Spelled
  BY <1>1, ReadPacketSpelled DEF Shape
<1>4. Len(data) = buf.len =>
        /\ Packet(k).list \in Seq(Spelled)
        /\ Len(Packet(k).list) = Len(obj.list) + 1
        /\ ~Packet(k).ready =>
             /\ Packet(k).type \in {PacketList, PacketHash}
             /\ Packet(k).remaining \in 0..(SizeMod - 1)
             /\ Len(Packet(k).list) < Framing!Span(Packet(k).list[1])
             /\ Packet(k).remaining =
                  (Framing!Span(Packet(k).list[1]) - Len(Packet(k).list)) % SizeMod
  BY <1>3, PacketIs DEF Shape
<1>9. ASSUME buf'.header = buf.header, buf'.data = data PROVE Behind'
  <2>1. PICK e \in Nat \ {0} : UnitsPlaced(e)
    BY DEF Shape, Behind
  <2>2. buf.data \in Seq(Unit) /\ Joins(data, buf.data)
    BY <1>1 DEF DataRead, Shape, Types
  <2>3. PICK p \in Nat : p = e + Len(buf.header)
    BY <2>1 DEF Shape, Types
  <2>4. taken + 1 = p + Len(buf.data)
        /\ \A i \in 1..Len(buf.data) : buf.data[i] = stream[p + i - 1]
    BY <2>1, <2>3 DEF UnitsPlaced
  <2>5. taken' + 1 = p + Len(data) /\ \A i \in 1..Len(data) : data[i] = stream[p + i - 1]
    BY <1>8, <2>2, <2>4, JoinsPlaced
  <2>6. UnitsPlaced(e)'
    BY <1>2, <1>9, <2>1, <2>3, <2>5 DEF UnitsPlaced
  <2> QED
    BY <2>6 DEF Behind
<1>5. CASE /\ Len(data) < buf.len
           /\ buf' = [buf EXCEPT !.data = data]
           /\ UNCHANGED <<obj, pushed>>
  <2>1. /\ buf'.state = buf.state /\ buf'.header = buf.header /\ buf'.data = data /\ buf'.len = buf.len
        /\ buf' \in [state : {"HEADER", "DATA"}, header : Seq(Unit), data : Seq(Unit),
                     len : 0..BufferMax]
    BY <1>5 DEF Shape, Types
  <2>2. Types'
    BY <1>2, <1>5, <1>8, <2>1 DEF Shape, Types
  <2>3. Expecting'
    BY <1>1, <1>5, <2>1 DEF Expecting, DataRead
  <2>4. Building'
    BY <1>5 DEF Shape, Building
  <2>5. Behind'
    BY <1>9, <2>1
  <2> QED
    BY <2>2, <2>3, <2>4, <2>5 DEF Shape
<1>6. CASE /\ Len(data) = buf.len /\ ~Packet(k).ready
           /\ buf' = NewBuffer
           /\ obj' = [type |-> Packet(k).type, list |-> Packet(k).list,
                      remaining |-> Packet(k).remaining]
           /\ UNCHANGED pushed
  <2> HIDE DEF k
  <2>1. obj' \in [type : {PacketString, PacketNumeric, PacketList, PacketHash, PacketUndefined},
                  list : Seq(Spelled), remaining : 0..(SizeMod - 1)]
    <3>1. Packet(k).remaining \in 0..(SizeMod - 1)
      BY <1>4, <1>6, ReaderTypes
    <3>2. Packet(k).type \in {PacketList, PacketHash} /\ Packet(k).list \in Seq(Spelled)
      BY <1>4, <1>6
    <3> QED
      BY <1>6, <3>1, <3>2
  <2>2. Types'
    BY <1>2, <1>6, <1>8, <2>1, NewOnes DEF Shape, Types
  <2>3. Expecting'
    BY <1>6, NewOnes DEF Expecting, HeaderSize
  <2>4. Building'
    <3>1. obj'.type = Packet(k).type /\ obj'.list = Packet(k).list
          /\ obj'.remaining = Packet(k).remaining
      BY <1>6
    <3>2. Len(Packet(k).list) > 0
      <4>1. Len(obj.list) \in Nat
        BY DEF Shape, Types
      <4> QED
        BY <1>4, <1>6, <4>1, ReaderTypes
    <3> QED
      BY <1>4, <1>6, <3>1, <3>2 DEF Building
  <2>5. Behind'
    BY <1>6, <1>8, NewBehind
  <2> QED
    BY <2>2, <2>3, <2>4, <2>5 DEF Shape
<1>7. CASE /\ Len(data) = buf.len /\ Packet(k).ready
           /\ buf' = NewBuffer /\ obj' = NewObject
           /\ pushed' = Append(pushed, Packet(k).list)
  <2> HIDE DEF k
  <2>1. pushed' \in Seq(Seq(Spelled))
    BY <1>4, <1>7, AppendProperties DEF Shape, Types
  <2>2. Types'
    BY <1>2, <1>7, <1>8, <2>1, NewOnes DEF Shape, Types
  <2>3. Expecting'
    BY <1>7, NewOnes DEF Expecting, HeaderSize
  <2>4. Building'
    BY <1>7 DEF Building
  <2>5. Behind'
    BY <1>7, <1>8, NewBehind
  <2> QED
    BY <2>2, <2>3, <2>4, <2>5 DEF Shape
<1> QED
  BY <1>1, <1>5, <1>6, <1>7 DEF DataMakes

LEMMA OtherShape ==
    ASSUME Shape, UNCHANGED <<stream, past, taken, buf, obj, pushed>>,
           arrived' \in 0..Len(stream), taken \in 0..(arrived'), eof' \in BOOLEAN,
           conn' \in {"idle", "reading", "closed"}, reset' \in BOOLEAN
    PROVE  Shape'
<1>1. Types'
  BY MemoryStays DEF Shape, Types
<1>2. Expecting' /\ Building'
  BY DEF Shape, Expecting, Building
<1>3. Behind'
  BY DEF Shape, Behind, UnitsPlaced
<1> QED
  BY <1>1, <1>2, <1>3 DEF Shape

LEMMA ShapeNext == Shape /\ [Next]_vars => Shape'
<1> SUFFICES ASSUME Shape, [Next]_vars PROVE Shape'
  OBVIOUS
<1>0. /\ arrived \in 0..Len(stream) /\ taken \in 0..arrived /\ eof \in BOOLEAN
      /\ conn \in {"idle", "reading", "closed"} /\ stream \in Seq(Unit) /\ reset \in BOOLEAN
  BY DEF Shape, Types
<1>1. CASE ReadEvent
  BY <1>0, <1>1, OtherShape DEF ReadEvent
<1>2. CASE ReadHeader
  BY <1>2, HeaderShape
<1>3. CASE ReadData
  BY <1>3, DataShape
<1>4. CASE ReadAgain
  BY <1>0, <1>4, OtherShape DEF ReadAgain
<1>5. CASE ReadEof
  BY <1>0, <1>5, CloseShape DEF ReadEof
<1>6. CASE Arrive
  <2>1. arrived' \in 0..Len(stream) /\ taken \in 0..(arrived')
    BY <1>0, <1>6 DEF Arrive
  <2> QED
    BY <1>0, <1>6, <2>1, OtherShape DEF Arrive
<1>7. CASE PeerCloses
  BY <1>0, <1>7, OtherShape DEF PeerCloses
<1>8. CASE Reset
  BY <1>0, <1>8, CloseShape DEF Reset
<1>9. CASE UNCHANGED vars
  BY <1>0, <1>9, OtherShape DEF vars
<1> QED
  BY <1>1, <1>2, <1>3, <1>4, <1>5, <1>6, <1>7, <1>8, <1>9 DEF Next, Reader, Done

(* Between two reads the buffer waits for the rest of a header or of the    *)
(* data of an accepted one, and the object for as many packets as its first *)
(* one announces, however the bytes were cut.  That number is whatever the  *)
(* 64 bits it is read from hold, those past the end of the data included,   *)
(* and the counter of what is to come is right modulo 2^64                  *)
(* (packet_buffer_read, object_buffer_read).                                *)
THEOREM ShapeAlways == Spec => []Shape
BY ShapeInit, ShapeNext, PTL DEF Spec

(* Whatever the client sends, every variable of the connection has its      *)
(* type: a packet that is accepted has data that fits the buffer, a number  *)
(* is one of 64 bits (packet_buffer_read, object_buffer_read).              *)
THEOREM TypeCorrect == Spec => []TypeOK
<1>1. Shape => TypeOK
  <2> SUFFICES ASSUME Shape PROVE TypeOK
    OBVIOUS
  <2>1. \A x \in Seq(Unit) : x \in Seq(Nat)
    BY ReaderTypes DEF Unit
  <2>2. \A k \in Spelled : k \in Packets
    BY <2>1 DEF Spelled, Packets
  <2>3. \A l \in Seq(Spelled) : l \in Seq(Packets)
    BY <2>2
  <2>4. \A l \in Seq(Seq(Spelled)) : l \in Seq(Seq(Packets))
    BY <2>3
  <2>5. buf \in [state : {"HEADER", "DATA"}, header : Seq(Nat), data : Seq(Nat), len : 0..BufferMax]
    BY <2>1 DEF Shape, Types
  <2>6. obj \in [type : {PacketString, PacketNumeric, PacketList, PacketHash, PacketUndefined},
                 list : Seq(Packets), remaining : 0..(SizeMod - 1)]
    BY <2>3 DEF Shape, Types
  <2> QED
    BY <2>4, <2>5, <2>6 DEF Shape, Types, TypeOK
<1> QED
  BY <1>1, ShapeAlways, PTL

-----------------------------------------------------------------------------
(* The units that were read. *)

LEMMA FromZero ==
    ASSUME NEW n \in Nat, NEW S, 0 \in S, \A k \in 0..n : k # 0 /\ k - 1 \in S => k \in S
    PROVE  \A k \in 0..n : k \in S
<1> DEFINE T == {p \in 1..(n + 1) : n + 1 - p \in S}
<1>1. ASSUME NEW p \in 1..(n + 1), \A q \in (p + 1)..(n + 1) : q \in T PROVE p \in T
  <2>1. CASE p = n + 1
    BY <2>1
  <2>2. CASE p # n + 1
    <3>1. p + 1 \in (p + 1)..(n + 1)
      BY <2>2
    <3>2. n + 1 - (p + 1) \in S
      BY <1>1, <3>1
    <3>3. n + 1 - p \in 0..n /\ n + 1 - p # 0 /\ n + 1 - (p + 1) = (n + 1 - p) - 1
      BY <2>2
    <3> QED
      BY <3>2, <3>3
  <2> QED
    BY <2>1, <2>2
<1> HIDE DEF T
<1>2. n + 1 \in Nat
  OBVIOUS
<1>3. \A p \in 1..(n + 1) : p \in T
  BY <1>1, <1>2, FromTheEnd
<1>4. ASSUME NEW k \in 0..n PROVE k \in S
  <2>1. n + 1 - k \in 1..(n + 1) /\ n + 1 - (n + 1 - k) = k
    OBVIOUS
  <2> QED
    BY <1>3, <2>1 DEF T
<1> QED
  BY <1>4

(* f is what the recursion of the sums defines. *)
Sums(f, n, w) == \A i \in 0..n : f[i] = IF i = 0 THEN 0 ELSE f[i - 1] + w[i]

LEMMA SumsExist ==
    ASSUME NEW n \in Nat, NEW w \in [1..n -> Nat]
    PROVE  \E f \in [0..n -> Nat] : Sums(f, n, w)
<1> DEFINE m == n + 1
           next == [p \in 1..m |-> IF p = m THEN p ELSE p + 1]
           step == [p \in 1..m |-> [v \in Nat |-> IF p = m THEN v ELSE v + w[m - p]]]
           base == [p \in 1..m |-> 0]
<1>1. m \in Nat /\ next \in [1..m -> 1..m] /\ \A p \in 1..m : next[p] >= p
  OBVIOUS
<1>2. step \in [1..m -> [Nat -> Nat]]
  <2>1. \A p \in 1..m : p # m => m - p \in 1..n
    OBVIOUS
  <2>2. \A p \in 1..m, v \in Nat : p # m => v + w[m - p] \in Nat
    BY <2>1
  <2> QED
    BY <2>2
<1>3. base \in [1..m -> Nat]
  OBVIOUS
<1>4. PICK h \in [1..m -> Nat] : Along(h, m, next, step, base)
  <2> HIDE DEF m, next, step, base
  <2> QED
    BY <1>1, <1>2, <1>3, ChainFunction
<1>5. \A p \in 1..m : h[p] = IF next[p] # p THEN step[p][h[next[p]]] ELSE base[p]
  BY <1>4 DEF Along
<1> DEFINE total == [i \in 0..n |-> h[m - i]]
<1>6. \A i \in 0..n : m - i \in 1..m
  OBVIOUS
<1>7. total \in [0..n -> Nat]
  BY <1>6
<1>8. ASSUME NEW i \in 0..n PROVE total[i] = IF i = 0 THEN 0 ELSE total[i - 1] + w[i]
  <2>1. CASE i = 0
    <3>1. m \in 1..m /\ next[m] = m /\ base[m] = 0
      BY <1>1
    <3>2. h[m] = 0
      BY <1>5, <3>1
    <3> QED
      BY <2>1, <3>2
  <2>2. CASE i # 0
    <3>1. PICK p \in 1..n : p = m - i /\ m - p = i /\ m - (i - 1) = p + 1
      BY <2>2
    <3>2. next[p] = p + 1 /\ next[p] # p /\ p \in 1..m
      OBVIOUS
    <3>3. h[p + 1] \in Nat
      OBVIOUS
    <3>4. h[p] = step[p][h[p + 1]]
      BY <1>5, <3>2
    <3>5. h[p] = h[p + 1] + w[i]
      BY <3>1, <3>2, <3>3, <3>4
    <3>6. total[i] = h[p] /\ total[i - 1] = h[p + 1]
      BY <2>2, <3>1
    <3> QED
      BY <2>2, <3>5, <3>6
  <2> QED
    BY <2>1, <2>2
<1> HIDE DEF total
<1> QED
  BY <1>7, <1>8 DEF Sums

(* One more summand. *)
LEMMA SumsAppend ==
    ASSUME NEW n \in Nat, NEW w, NEW x, NEW f, NEW g,
           \A i \in 1..n : w[i] = x[i], Sums(f, n, w), Sums(g, n + 1, x)
    PROVE  g[n + 1] = f[n] + x[n + 1]
<1> DEFINE S == {i \in 0..n : g[i] = f[i]}
<1>1. 0 \in S
  BY DEF Sums
<1>2. ASSUME NEW k \in 0..n, k # 0, k - 1 \in S PROVE k \in S
  <2>1. k \in 1..n /\ k \in 0..(n + 1)
    BY <1>2
  <2>2. g[k] = g[k - 1] + x[k] /\ f[k] = f[k - 1] + w[k]
    BY <1>2, <2>1 DEF Sums
  <2> QED
    BY <1>2, <2>1, <2>2
<1> HIDE DEF S
<1>3. \A k \in 0..n : k \in S
  BY <1>1, <1>2, FromZero
<1>4. g[n] = f[n]
  BY <1>3 DEF S
<1>5. n + 1 \in 0..(n + 1) /\ n + 1 # 0 /\ (n + 1) - 1 = n
  OBVIOUS
<1>6. g[n + 1] = g[(n + 1) - 1] + x[n + 1]
  BY <1>5 DEF Sums
<1> QED
  BY <1>4, <1>5, <1>6

LEMMA SumsOfNone == ASSUME NEW f, NEW w, Sums(f, 0, w) PROVE f[0] = 0
<1>1. 0 \in 0..0
  OBVIOUS
<1> QED
  BY <1>1 DEF Sums

UnitSums(o) ==
    LET Upto[n \in 0..Len(o)] == IF n = 0 THEN 0 ELSE Upto[n - 1] + UnitsOf(o[n])
    IN  Upto

ObjectSums(p) ==
    LET Upto[n \in 0..Len(p)] == IF n = 0 THEN 0 ELSE Upto[n - 1] + UnitsOfObject(p[n])
    IN  Upto

PushedUnits(p) == ObjectSums(p)[Len(p)]

UnitWeights(o) == [n \in 1..Len(o) |-> UnitsOf(o[n])]
ObjectWeights(p) == [n \in 1..Len(p) |-> UnitsOfObject(p[n])]

LEMMA UnitSumsAre ==
    ASSUME NEW o \in Seq(Spelled)
    PROVE  /\ UnitSums(o) \in [0..Len(o) -> Nat] /\ Sums(UnitSums(o), Len(o), UnitWeights(o))
           /\ UnitsOfObject(o) = UnitSums(o)[Len(o)] /\ UnitsOfObject(o) \in Nat
<1> DEFINE n == Len(o)
           w == UnitWeights(o)
           Is(f) == f = [i \in 0..Len(o) |-> IF i = 0 THEN 0 ELSE f[i - 1] + UnitsOf(o[i])]
<1>0. n \in Nat
  OBVIOUS
<1>1. w \in [1..n -> Nat] /\ \A i \in 1..n : w[i] = UnitsOf(o[i])
  <2>1. \A i \in 1..n : o[i] \in Spelled
    BY ElementOfSeq
  <2>2. \A k \in Spelled : UnitsOf(k) \in Nat
    <3>1. \A k \in Spelled : k.data \in Seq(Unit)
      BY DEF Spelled
    <3> QED
      BY <3>1 DEF UnitsOf, HeaderSize
  <2> QED
    BY <2>1, <2>2 DEF UnitWeights
<1>11. w \in [1..n -> Nat]
  BY <1>1
<1>2. PICK f \in [0..n -> Nat] : Sums(f, n, w)
  <2> HIDE DEF n, w
  <2> QED
    BY <1>0, <1>11, SumsExist
<1>3. Is(f)
  <2>1. f = [i \in 0..n |-> f[i]]
    BY <1>2
  <2>2. ASSUME NEW i \in 0..n PROVE f[i] = IF i = 0 THEN 0 ELSE f[i - 1] + UnitsOf(o[i])
    <3>1. i = 0 \/ i \in 1..n
      OBVIOUS
    <3>2. f[i] = IF i = 0 THEN 0 ELSE f[i - 1] + w[i]
      BY <1>2 DEF Sums
    <3> HIDE DEF w
    <3> QED
      BY <1>1, <3>1, <3>2
  <2> QED
    BY <2>1, <2>2, Zenon
<1>4. UnitSums(o) = CHOOSE g : Is(g)
  BY DEF UnitSums
<1>5. Is(UnitSums(o))
  BY <1>3, <1>4
<1>6. ASSUME NEW i \in 0..n
      PROVE  UnitSums(o)[i] = IF i = 0 THEN 0 ELSE UnitSums(o)[i - 1] + w[i]
  <2>1. i = 0 \/ i \in 1..n
    OBVIOUS
  <2>2. UnitSums(o)[i] = IF i = 0 THEN 0 ELSE UnitSums(o)[i - 1] + UnitsOf(o[i])
    BY <1>5
  <2> HIDE DEF w
  <2> QED
    BY <1>1, <2>1, <2>2
<1>7. Sums(UnitSums(o), n, w)
  <2> HIDE DEF w, n
  <2> QED
    BY <1>6 DEF Sums
<1>8. \A i \in 0..n : UnitSums(o)[i] \in Nat
  <2> DEFINE S == {i \in 0..n : UnitSums(o)[i] \in Nat}
  <2>1. 0 \in S
    BY <1>6
  <2>2. ASSUME NEW i \in 0..n, i # 0, i - 1 \in S PROVE i \in S
    <3>1. UnitSums(o)[i] = UnitSums(o)[i - 1] + w[i] /\ i \in 1..n
      BY <1>6, <2>2
    <3>2. w[i] \in Nat /\ UnitSums(o)[i - 1] \in Nat
      BY <1>1, <2>2, <3>1
    <3> QED
      BY <3>1, <3>2
  <2> HIDE DEF S, n
  <2>3. \A i \in 0..n : i \in S
    BY <1>0, <2>1, <2>2, FromZero
  <2> QED
    BY <2>3 DEF S
<1>9. UnitSums(o) \in [0..n -> Nat]
  <2>1. UnitSums(o) = [i \in 0..n |-> UnitSums(o)[i]]
    BY <1>5
  <2> QED
    BY <1>8, <2>1
<1>10. UnitsOfObject(o) = UnitSums(o)[Len(o)]
  BY DEF UnitsOfObject, UnitSums
<1> QED
  BY <1>0, <1>7, <1>8, <1>9, <1>10
LEMMA ObjectSumsAre ==
    ASSUME NEW p \in Seq(Seq(Spelled))
    PROVE  /\ ObjectSums(p) \in [0..Len(p) -> Nat] /\ Sums(ObjectSums(p), Len(p), ObjectWeights(p))
           /\ PushedUnits(p) \in Nat
<1> DEFINE n == Len(p)
           w == ObjectWeights(p)
           Is(f) == f = [i \in 0..Len(p) |-> IF i = 0 THEN 0 ELSE f[i - 1] + UnitsOfObject(p[i])]
<1>0. n \in Nat
  OBVIOUS
<1>1. w \in [1..n -> Nat] /\ \A i \in 1..n : w[i] = UnitsOfObject(p[i])
  <2>1. \A i \in 1..n : p[i] \in Seq(Spelled)
    BY ElementOfSeq
  <2>2. \A o \in Seq(Spelled) : UnitsOfObject(o) \in Nat
    BY UnitSumsAre
  <2> QED
    BY <2>1, <2>2 DEF ObjectWeights
<1>11. w \in [1..n -> Nat]
  BY <1>1
<1>2. PICK f \in [0..n -> Nat] : Sums(f, n, w)
  <2> HIDE DEF n, w
  <2> QED
    BY <1>0, <1>11, SumsExist
<1>3. Is(f)
  <2>1. f = [i \in 0..n |-> f[i]]
    BY <1>2
  <2>2. ASSUME NEW i \in 0..n PROVE f[i] = IF i = 0 THEN 0 ELSE f[i - 1] + UnitsOfObject(p[i])
    <3>1. i = 0 \/ i \in 1..n
      OBVIOUS
    <3>2. f[i] = IF i = 0 THEN 0 ELSE f[i - 1] + w[i]
      BY <1>2 DEF Sums
    <3> HIDE DEF w
    <3> QED
      BY <1>1, <3>1, <3>2
  <2> QED
    BY <2>1, <2>2, Zenon
<1>4. ObjectSums(p) = CHOOSE g : Is(g)
  BY DEF ObjectSums
<1>5. Is(ObjectSums(p))
  BY <1>3, <1>4
<1>6. ASSUME NEW i \in 0..n
      PROVE  ObjectSums(p)[i] = IF i = 0 THEN 0 ELSE ObjectSums(p)[i - 1] + w[i]
  <2>1. i = 0 \/ i \in 1..n
    OBVIOUS
  <2>2. ObjectSums(p)[i] = IF i = 0 THEN 0 ELSE ObjectSums(p)[i - 1] + UnitsOfObject(p[i])
    BY <1>5
  <2> HIDE DEF w
  <2> QED
    BY <1>1, <2>1, <2>2
<1>7. Sums(ObjectSums(p), n, w)
  <2> HIDE DEF w, n
  <2> QED
    BY <1>6 DEF Sums
<1>8. \A i \in 0..n : ObjectSums(p)[i] \in Nat
  <2> DEFINE S == {i \in 0..n : ObjectSums(p)[i] \in Nat}
  <2>1. 0 \in S
    BY <1>6
  <2>2. ASSUME NEW i \in 0..n, i # 0, i - 1 \in S PROVE i \in S
    <3>1. ObjectSums(p)[i] = ObjectSums(p)[i - 1] + w[i] /\ i \in 1..n
      BY <1>6, <2>2
    <3>2. w[i] \in Nat /\ ObjectSums(p)[i - 1] \in Nat
      BY <1>1, <2>2, <3>1
    <3> QED
      BY <3>1, <3>2
  <2> HIDE DEF S, n
  <2>3. \A i \in 0..n : i \in S
    BY <1>0, <2>1, <2>2, FromZero
  <2> QED
    BY <2>3 DEF S
<1>9. ObjectSums(p) \in [0..n -> Nat]
  <2>1. ObjectSums(p) = [i \in 0..n |-> ObjectSums(p)[i]]
    BY <1>5
  <2> QED
    BY <1>8, <2>1
<1>10. PushedUnits(p) = ObjectSums(p)[Len(p)]
  BY DEF PushedUnits
<1> QED
  BY <1>0, <1>7, <1>8, <1>9, <1>10
LEMMA UnitsOfNone == UnitsOfObject(<<>>) = 0 /\ PushedUnits(<<>>) = 0
<1>1. <<>> \in Seq(Spelled) /\ <<>> \in Seq(Seq(Spelled)) /\ Len(<<>>) = 0
  OBVIOUS
<1>2. Sums(UnitSums(<<>>), 0, UnitWeights(<<>>)) /\ UnitsOfObject(<<>>) = UnitSums(<<>>)[0]
  BY <1>1, UnitSumsAre
<1>3. Sums(ObjectSums(<<>>), 0, ObjectWeights(<<>>)) /\ PushedUnits(<<>>) = ObjectSums(<<>>)[0]
  BY <1>1, ObjectSumsAre DEF PushedUnits
<1> QED
  BY <1>2, <1>3, SumsOfNone

LEMMA UnitsOfAppend ==
    ASSUME NEW o \in Seq(Spelled), NEW k \in Spelled
    PROVE  UnitsOfObject(Append(o, k)) = UnitsOfObject(o) + UnitsOf(k)
<1>1. PICK q \in Seq(Spelled) : q = Append(o, k)
  BY AppendProperties
<1>2. PICK n \in Nat : n = Len(o) /\ Len(q) = n + 1
  BY <1>1, AppendProperties
<1>3. q[n + 1] = k /\ \A i \in 1..n : q[i] = o[i]
  BY <1>1, <1>2, AppendProperties
<1>4. /\ Sums(UnitSums(o), n, UnitWeights(o)) /\ Sums(UnitSums(q), n + 1, UnitWeights(q))
      /\ UnitsOfObject(o) = UnitSums(o)[n] /\ UnitsOfObject(q) = UnitSums(q)[n + 1]
  BY <1>2, UnitSumsAre
<1>5. UnitWeights(q)[n + 1] = UnitsOf(k) /\ \A i \in 1..n : UnitWeights(o)[i] = UnitWeights(q)[i]
  BY <1>2, <1>3 DEF UnitWeights
<1>6. UnitSums(q)[n + 1] = UnitSums(o)[n] + UnitWeights(q)[n + 1]
  BY <1>4, <1>5, SumsAppend
<1> QED
  BY <1>1, <1>4, <1>5, <1>6

LEMMA PushedUnitsAppend ==
    ASSUME NEW p \in Seq(Seq(Spelled)), NEW o \in Seq(Spelled)
    PROVE  PushedUnits(Append(p, o)) = PushedUnits(p) + UnitsOfObject(o)
<1>1. PICK q \in Seq(Seq(Spelled)) : q = Append(p, o)
  BY AppendProperties
<1>2. PICK n \in Nat : n = Len(p) /\ Len(q) = n + 1
  BY <1>1, AppendProperties
<1>3. q[n + 1] = o /\ \A i \in 1..n : q[i] = p[i]
  BY <1>1, <1>2, AppendProperties
<1>4. /\ Sums(ObjectSums(p), n, ObjectWeights(p)) /\ Sums(ObjectSums(q), n + 1, ObjectWeights(q))
      /\ PushedUnits(p) = ObjectSums(p)[n] /\ PushedUnits(q) = ObjectSums(q)[n + 1]
  BY <1>2, ObjectSumsAre DEF PushedUnits
<1>5. /\ ObjectWeights(q)[n + 1] = UnitsOfObject(o)
      /\ \A i \in 1..n : ObjectWeights(p)[i] = ObjectWeights(q)[i]
  BY <1>2, <1>3 DEF ObjectWeights
<1>6. ObjectSums(q)[n + 1] = ObjectSums(p)[n] + ObjectWeights(q)[n + 1]
  BY <1>4, <1>5, SumsAppend
<1> QED
  BY <1>1, <1>4, <1>5, <1>6

Counted ==
    conn # "closed" =>
      taken = PushedUnits(pushed) + UnitsOfObject(obj.list) + Len(buf.header) + Len(buf.data)

LEMMA CountedInit == Init => Counted
BY NewOnes, UnitsOfNone DEF Init, Counted

LEMMA HeaderCounted == ASSUME Shape, Counted, ReadHeader PROVE Counted'
<1>1. PICK header \in Seq(Unit) : HeaderRead(header)
  BY HeaderReads
<1>2. UNCHANGED pushed /\ taken' = taken + (Len(header) - Len(buf.header)) /\ buf.data = <<>>
  BY <1>1, HeaderReads DEF HeaderRead, Joins
<1>3. /\ Len(header) \in Nat /\ Len(buf.header) \in Nat /\ UnitsOfObject(obj.list) \in Nat
      /\ PushedUnits(pushed) \in Nat /\ taken \in Nat
  BY UnitSumsAre, ObjectSumsAre DEF Shape, Types
<1>4. CASE ~Close
  <2>1. buf'.header = header /\ buf'.data = <<>> /\ UNCHANGED <<conn, obj>>
    BY <1>1, <1>4 DEF HeaderRead, Shape, Types
  <2>2. conn # "closed" =>
          taken = PushedUnits(pushed) + UnitsOfObject(obj.list) + Len(buf.header) + 0
    BY <1>2 DEF Counted
  <2>3. conn # "closed" =>
          taken' = PushedUnits(pushed) + UnitsOfObject(obj.list) + Len(header) + 0
    BY <1>2, <1>3, <2>2
  <2> QED
    BY <1>2, <2>1, <2>3 DEF Counted
<1>5. CASE Close
  BY <1>5 DEF Close, Counted
<1> QED
  BY <1>4, <1>5

LEMMA DataCounted == ASSUME Shape, Counted, ReadData PROVE Counted'
<1>1. PICK data \in Seq(Unit) : DataRead(data) /\ DataMakes(data)
  BY DataReads
<1>2. /\ conn' = conn /\ taken' = taken + (Len(data) - Len(buf.data))
      /\ Len(buf.header) = HeaderSize
  BY <1>1, DataReads DEF DataRead, Joins
<1>3. conn = "reading"
  BY DEF ReadData
<1>4. PICK a \in Nat, b \in Nat, c \in Nat, d \in Nat :
        a = PushedUnits(pushed) /\ b = UnitsOfObject(obj.list) /\ c = Len(buf.data) /\ d = Len(data)
  BY UnitSumsAre, ObjectSumsAre DEF Shape, Types
<1>5. taken' = a + b + 2 + d
  <2>1. taken = a + b + 2 + c
    BY <1>2, <1>3, <1>4 DEF Counted, HeaderSize
  <2>2. taken' = taken + (d - c)
    BY <1>2, <1>4
  <2>3. a + b + 2 + c + (d - c) = a + b + 2 + d
    OBVIOUS
  <2> QED
    BY <2>1, <2>2, <2>3
<1> DEFINE k == ReadPacket(data)
<1>6. CASE /\ Len(data) < buf.len
           /\ buf' = [buf EXCEPT !.data = data]
           /\ UNCHANGED <<obj, pushed>>
  <2>1. buf'.header = buf.header /\ buf'.data = data
    BY <1>6 DEF Shape, Types
  <2> QED
    BY <1>2, <1>4, <1>5, <1>6, <2>1 DEF Counted, HeaderSize
<1>7. ASSUME Len(data) = buf.len
      PROVE  /\ k \in Spelled /\ Packet(k).list = Append(obj.list, k)
             /\ Packet(k).list \in Seq(Spelled) /\ UnitsOfObject(Packet(k).list) = b + 2 + d
  <2>1. k \in Spelled /\ obj.list \in Seq(Spelled)
    BY <1>1, <1>7, ReadPacketSpelled DEF Shape, Types
  <2>2. UnitsOf(k) = 2 + d
    BY <1>4 DEF UnitsOf, HeaderSize, ReadPacket
  <2> HIDE DEF k
  <2>3. Packet(k).list = Append(obj.list, k) /\ Packet(k).list \in Seq(Spelled)
    BY <2>1, PacketIs DEF Shape
  <2>4. UnitsOfObject(Append(obj.list, k)) = b + (2 + d)
    BY <1>4, <2>1, <2>2, UnitsOfAppend
  <2>5. b + (2 + d) = b + 2 + d
    OBVIOUS
  <2> QED
    BY <2>1, <2>3, <2>4, <2>5
<1>8. CASE /\ Len(data) = buf.len /\ ~Packet(k).ready
           /\ buf' = NewBuffer
           /\ obj' = [type |-> Packet(k).type, list |-> Packet(k).list,
                      remaining |-> Packet(k).remaining]
           /\ UNCHANGED pushed
  <2> HIDE DEF k
  <2>1. obj'.list = Packet(k).list /\ Len(buf'.header) = 0 /\ Len(buf'.data) = 0
    BY <1>8, NewOnes
  <2>3. a + (b + 2 + d) + 0 + 0 = a + b + 2 + d
    OBVIOUS
  <2>2. taken' = a + UnitsOfObject(Packet(k).list) + 0 + 0
    BY <1>5, <1>7, <1>8, <2>3
  <2> QED
    BY <1>4, <1>8, <2>1, <2>2 DEF Counted
<1>9. CASE /\ Len(data) = buf.len /\ Packet(k).ready
           /\ buf' = NewBuffer /\ obj' = NewObject
           /\ pushed' = Append(pushed, Packet(k).list)
  <2> HIDE DEF k
  <2>1. UnitsOfObject(obj'.list) = 0 /\ Len(buf'.header) = 0 /\ Len(buf'.data) = 0
    BY <1>9, NewOnes, UnitsOfNone
  <2>2. pushed \in Seq(Seq(Spelled))
    BY DEF Shape, Types
  <2>3. PushedUnits(pushed') = a + (b + 2 + d)
    BY <1>4, <1>7, <1>9, <2>2, PushedUnitsAppend
  <2>4. taken' = PushedUnits(pushed') + 0 + 0 + 0
    BY <1>4, <1>5, <2>3
  <2> QED
    BY <2>1, <2>4 DEF Counted
<1> QED
  BY <1>1, <1>6, <1>8, <1>9 DEF DataMakes

LEMMA CountedNext == Shape /\ Counted /\ [Next]_vars => Counted'
<1> SUFFICES ASSUME Shape, Counted, [Next]_vars PROVE Counted'
  OBVIOUS
<1>1. CASE ReadHeader
  BY <1>1, HeaderCounted
<1>2. CASE ReadData
  BY <1>2, DataCounted
<1>3. CASE ReadEvent
  BY <1>3 DEF ReadEvent, Counted
<1>4. CASE ReadAgain \/ Arrive \/ PeerCloses \/ UNCHANGED vars
  BY <1>4 DEF ReadAgain, Arrive, PeerCloses, vars, Counted
<1>5. CASE ReadEof \/ Reset
  BY <1>5 DEF ReadEof, Reset, Close, Counted
<1> QED
  BY <1>1, <1>2, <1>3, <1>4, <1>5 DEF Next, Reader, Done

(* Every unit that was read is in an object that was handed over, in the    *)
(* object under construction or in its packet, however the units were cut   *)
(* into reads (packet_buffer_read, object_buffer_read, client_cb).          *)
THEOREM NoByteLostAlways == Spec => []NoByteLost
<1>1. Counted => NoByteLost
  BY DEF Counted, NoByteLost, PushedUnits, ObjectSums
<1>2. Spec => []Counted
  BY CountedInit, CountedNext, ShapeAlways, PTL DEF Spec
<1> QED
  BY <1>1, <1>2, PTL

-----------------------------------------------------------------------------
(* Where the reader is in the units.                                        *)

ReceivedUpto(n) == SubSeq(stream, 1, n)

(* The object under construction starts where those in full end. *)
ObjectPlaced(list, pk) ==
    /\ ObjectEnd(pk) + Len(list) = Len(pk) + 1
    /\ \A i \in 1..Len(list) : list[i] = pk[ObjectEnd(pk) + i - 1]

LEMMA ReceivedFacts ==
    ASSUME NEW u \in Seq(Unit), NEW n \in Nat, n <= Len(u)
    PROVE  /\ SubSeq(u, 1, n) \in Seq(Unit) /\ Len(SubSeq(u, 1, n)) = n
           /\ \A i \in 1..n : SubSeq(u, 1, n)[i] = u[i]
<1>1. \A i \in 1..n : i \in 1..Len(u) /\ u[i] \in Unit
  <2>1. \A i \in 1..n : i \in 1..Len(u)
    OBVIOUS
  <2> QED
    BY <2>1, ElementOfSeq
<1>2. PICK a \in Int : a = 1
  OBVIOUS
<1>3. /\ SubSeq(u, a, n) \in Seq(Unit)
      /\ Len(SubSeq(u, a, n)) = IF a <= n THEN n - a + 1 ELSE 0
      /\ \A i \in 1..(n - a + 1) : SubSeq(u, a, n)[i] = u[a + i - 1]
  BY <1>1, <1>2, SubSeqProperties
<1>4. (IF a <= n THEN n - a + 1 ELSE 0) = n /\ n - a + 1 = n /\ \A i \in 1..n : a + i - 1 = i
  BY <1>2
<1> QED
  BY <1>2, <1>3, <1>4

LEMMA ReceivedGrows ==
    ASSUME NEW u \in Seq(Unit), NEW n \in Nat, NEW m \in Nat, n <= m, m <= Len(u)
    PROVE  IsPrefixOf(SubSeq(u, 1, n), SubSeq(u, 1, m))
<1>1. n <= Len(u)
  OBVIOUS
<1>2. /\ Len(SubSeq(u, 1, n)) = n /\ \A i \in 1..n : SubSeq(u, 1, n)[i] = u[i]
      /\ Len(SubSeq(u, 1, m)) = m /\ \A i \in 1..m : SubSeq(u, 1, m)[i] = u[i]
  BY <1>1, ReceivedFacts
<1>3. \A i \in 1..n : i \in 1..m
  OBVIOUS
<1> QED
  BY <1>2, <1>3 DEF IsPrefixOf

LEMMA ReceivedKnown ==
    ASSUME NEW u \in Seq(Unit), Known(u), NEW n \in Nat, n <= Len(u)
    PROVE  Known(SubSeq(u, 1, n))
<1>1. PICK s \in Seq(Unit) : s = SubSeq(u, 1, n) /\ Len(s) = n /\ \A i \in 1..n : s[i] = u[i]
  BY ReceivedFacts
<1>2. ASSUME NEW p \in Framing!ShortAt(s) PROVE p \in Framing!ShortAt(u)
  <2>1. p \in 1..(n - 1) /\ s[p] \in Framing!Numbered /\ s[p + 1] = Framing!HeaderSize + 1
    BY <1>1, <1>2 DEF Framing!ShortAt
  <2>2. p \in 1..(Len(u) - 1) /\ p \in 1..n /\ p + 1 \in 1..n
    BY <2>1
  <2>3. u[p] = s[p] /\ u[p + 1] = s[p + 1]
    BY <1>1, <2>2
  <2> QED
    BY <2>1, <2>2, <2>3 DEF Framing!ShortAt
<1> QED
  BY <1>1, <1>2 DEF Known

(* The units before and after a read. *)
LEMMA Reads ==
    ASSUME Types, taken' \in 0..arrived, taken' > taken
    PROVE  /\ ReceivedUpto(taken) \in Seq(Unit) /\ ReceivedUpto(taken') \in Seq(Unit)
           /\ Known(ReceivedUpto(taken)) /\ Known(ReceivedUpto(taken'))
           /\ Len(ReceivedUpto(taken)) = taken /\ Len(ReceivedUpto(taken')) = taken'
           /\ taken' \in Nat /\ taken \in Nat
           /\ \A i \in 1..(taken') : ReceivedUpto(taken')[i] = stream[i]
           /\ IsPrefixOf(ReceivedUpto(taken), ReceivedUpto(taken'))
<1>1. PICK n \in Nat, m \in Nat : n = taken /\ m = taken' /\ n <= m /\ m <= Len(stream)
  <2>1. taken \in Nat /\ taken' \in Nat /\ Len(stream) \in Nat /\ arrived \in Nat
        /\ arrived <= Len(stream) /\ taken' <= arrived
    BY DEF Types
  <2> QED
    BY <2>1
<1>2. stream \in Seq(Unit) /\ Known(stream) /\ n <= Len(stream)
  BY <1>1 DEF Types
<1>3. IsPrefixOf(SubSeq(stream, 1, n), SubSeq(stream, 1, m))
  BY <1>1, <1>2, ReceivedGrows
<1>5. Known(SubSeq(stream, 1, n)) /\ Known(SubSeq(stream, 1, m))
  BY <1>1, <1>2, ReceivedKnown
<1>4. /\ SubSeq(stream, 1, n) \in Seq(Unit) /\ Len(SubSeq(stream, 1, n)) = n
      /\ SubSeq(stream, 1, m) \in Seq(Unit) /\ Len(SubSeq(stream, 1, m)) = m
      /\ \A i \in 1..m : SubSeq(stream, 1, m)[i] = stream[i]
  BY <1>1, <1>2, ReceivedFacts
<1> QED
  BY <1>1, <1>3, <1>4, <1>5 DEF ReceivedUpto

LEMMA HeaderMoves ==
    ASSUME Types, UnitsPlaced(End(ReceivedUpto(taken))), NEW header \in Seq(Unit), HeaderRead(header)
    PROVE  /\ Framing!Packets(ReceivedUpto(taken'), past) = Framing!Packets(ReceivedUpto(taken), past)
           /\ End(ReceivedUpto(taken')) = End(ReceivedUpto(taken))
           /\ Framing!Refused(ReceivedUpto(taken')) =
                (Len(header) = HeaderSize /\ Garbage(header))
           /\ taken' + 1 = End(ReceivedUpto(taken)) + Len(header)
           /\ \A i \in 1..Len(header) : header[i] = stream[End(ReceivedUpto(taken)) + i - 1]
<1>1. /\ taken' \in 0..arrived /\ taken' > taken /\ taken' = taken + (Len(header) - Len(buf.header))
      /\ buf.header \in Seq(Unit) /\ Len(buf.data) = 0 /\ Len(header) <= 2
      /\ \A i \in 1..Len(buf.header) : header[i] = buf.header[i]
      /\ \A i \in (Len(buf.header) + 1)..Len(header) : header[i] = stream[taken + (i - Len(buf.header))]
  BY DEF HeaderRead, Joins, HeaderSize, Types
<1>2. PICK s \in Seq(Unit), t \in Seq(Unit) :
        s = ReceivedUpto(taken) /\ t = ReceivedUpto(taken') /\ Known(s) /\ Known(t)
  BY <1>1, Reads
<1>3. /\ Len(s) = taken /\ Len(t) = taken' /\ taken \in Nat /\ taken' \in Nat
      /\ IsPrefixOf(s, t) /\ \A i \in 1..(taken') : t[i] = stream[i]
  BY <1>1, <1>2, Reads
<1>4. PICK e \in Nat \ {0} : e = End(s)
  BY <1>2, PacketsTypes
<1>5. PICK n \in Nat, old \in Nat : n = Len(header) /\ old = Len(buf.header)
  BY <1>1
<1>6. /\ taken + 1 = e + old /\ \A i \in 1..old : buf.header[i] = stream[e + i - 1]
  <2>2. UnitsPlaced(e)
    BY <1>2, <1>4
  <2>1. taken + 1 = e + old + 0
    BY <1>1, <1>5, <2>2 DEF UnitsPlaced
  <2>3. taken + 1 = e + old
    BY <1>3, <2>1
  <2> QED
    BY <1>5, <2>2, <2>3 DEF UnitsPlaced
<1>7. taken' + 1 = e + n
  <2>1. taken \in Nat /\ taken' \in Nat /\ e \in Nat /\ n \in Nat /\ old \in Nat
    BY <1>3, <1>4, <1>5
  <2>2. taken' = taken + (n - old) /\ taken + 1 = e + old
    BY <1>1, <1>5, <1>6
  <2> QED
    BY <2>1, <2>2
<1>16. PICK m \in Nat : m = taken' /\ m + 1 = e + n /\ Len(t) = m /\ n <= 2
  BY <1>1, <1>3, <1>5, <1>7
<1>8. ASSUME NEW i \in 1..n PROVE header[i] = stream[e + i - 1] /\ header[i] = t[e + i - 1]
  <2>1. header[i] = stream[e + i - 1]
    <3>1. CASE i \in 1..old
      BY <1>1, <1>5, <1>6, <3>1
    <3>2. CASE i \in (old + 1)..n
      <4>1. taken + (i - old) = e + i - 1
        BY <1>3, <1>6
      <4> QED
        BY <1>1, <1>5, <3>2, <4>1
    <3> QED
      BY <3>1, <3>2
  <2>2. e + i - 1 \in 1..(taken')
    <3>1. e + i - 1 \in 1..m
      BY <1>4, <1>5, <1>16
    <3> QED
      BY <1>16, <3>1
  <2> QED
    BY <1>3, <2>1, <2>2
<1>9. e + 1 <= Len(t) <=> n = 2
  <2>1. e \in Nat /\ n \in Nat /\ m \in Nat /\ m + 1 = e + n /\ n <= 2
    BY <1>4, <1>5, <1>16
  <2>2. e + 1 <= m <=> n = 2
    BY <2>1
  <2> QED
    BY <1>16, <2>2
<1>10. n = 2 => t[e] = header[1] /\ t[e + 1] = header[2]
  <2> SUFFICES ASSUME n = 2 PROVE t[e] = header[1] /\ t[e + 1] = header[2]
    OBVIOUS
  <2>1. header[1] = t[e + 1 - 1] /\ header[2] = t[e + 2 - 1]
    BY <1>8
  <2>2. e + 1 - 1 = e /\ e + 2 - 1 = e + 1
    OBVIOUS
  <2> QED
    BY <2>1, <2>2
<1>11. n = 2 => (Garbage(header) <=> ~Framing!Accepted(t[e], t[e + 1]))
  BY <1>5, <1>10, GarbageIs DEF HeaderSize
<1>12. ~Framing!PacketAt(t, e)
  <2> SUFFICES ASSUME Framing!PacketAt(t, e) PROVE FALSE
    OBVIOUS
  <2>1. n = 2 /\ Framing!Accepted(t[e], t[e + 1]) /\ e + t[e + 1] - 1 <= Len(t)
    BY <1>9 DEF Framing!PacketAt
  <2>2. header[1] \in Unit /\ header[2] \in Unit
    BY <1>5, <2>1, GarbageIs DEF HeaderSize
  <2>3. PICK l \in Int : l = t[e + 1] /\ l >= 3
    <3>1. t[e + 1] \in 3..(BufferMax + 2)
      BY <1>10, <2>1, <2>2, AcceptedLength
    <3> QED
      BY <3>1, ReaderTypes
  <2> QED
    BY <1>4, <1>5, <1>16, <2>1, <2>3
<1>13. /\ Framing!Packets(t, past) = Framing!Packets(s, past) /\ End(t) = e
       /\ Framing!Refused(t) = (e + 1 <= Len(t) /\ ~Framing!Accepted(t[e], t[e + 1]))
  BY <1>2, <1>3, <1>4, <1>12, NoMorePacket
<1>14. Framing!Refused(t) = (n = 2 /\ Garbage(header))
  BY <1>9, <1>11, <1>13
<1>15. \A i \in 1..Len(header) : header[i] = stream[e + i - 1]
  BY <1>5, <1>8
<1> QED
  BY <1>2, <1>4, <1>5, <1>7, <1>13, <1>14, <1>15 DEF HeaderSize

LEMMA DataMoves ==
    ASSUME Types, UnitsPlaced(End(ReceivedUpto(taken))), NEW data \in Seq(Unit), DataRead(data)
    PROVE  /\ ~Framing!Refused(ReceivedUpto(taken'))
           /\ Len(data) < buf.len =>
                /\ Framing!Packets(ReceivedUpto(taken'), past) = Framing!Packets(ReceivedUpto(taken), past)
                /\ End(ReceivedUpto(taken')) = End(ReceivedUpto(taken))
           /\ Len(data) = buf.len =>
                /\ Framing!Packets(ReceivedUpto(taken'), past) =
                     Append(Framing!Packets(ReceivedUpto(taken), past), ReadPacket(data))
                /\ End(ReceivedUpto(taken')) = taken' + 1
           /\ taken' + 1 = End(ReceivedUpto(taken)) + HeaderSize + Len(data)
           /\ \A i \in 1..Len(data) :
                data[i] = stream[End(ReceivedUpto(taken)) + HeaderSize + i - 1]
<1>1. /\ taken' \in 0..arrived /\ taken' > taken /\ taken' = taken + (Len(data) - Len(buf.data))
      /\ buf.header \in Seq(Unit) /\ buf.data \in Seq(Unit) /\ Len(buf.header) = 2
      /\ ~Garbage(buf.header) /\ buf.len = DataLen(buf.header) /\ Len(data) <= buf.len
      /\ \A i \in 1..Len(buf.data) : data[i] = buf.data[i]
      /\ \A i \in (Len(buf.data) + 1)..Len(data) : data[i] = stream[taken + (i - Len(buf.data))]
  <2>1. buf.header \in Seq(Unit) /\ buf.data \in Seq(Unit)
    BY DEF Types
  <2>2. taken' \in 0..arrived /\ taken' > taken
    <3>1. PICK n \in Nat, old \in Nat : n = Len(data) /\ old = Len(buf.data)
      BY <2>1
    <3>2. n > old /\ taken' = taken + (n - old) /\ taken' \in 0..arrived
      BY <3>1 DEF DataRead, Joins
    <3>3. taken \in Nat /\ taken' \in Int
      BY <3>2 DEF Types
    <3> QED
      BY <3>2, <3>3
  <2>3. Len(buf.header) = 2 /\ ~Garbage(buf.header) /\ buf.len = DataLen(buf.header)
        /\ Len(data) <= buf.len
    BY DEF DataRead, HeaderSize
  <2> QED
    BY <2>1, <2>2, <2>3 DEF DataRead, Joins
<1>2. PICK s \in Seq(Unit), t \in Seq(Unit) :
        s = ReceivedUpto(taken) /\ t = ReceivedUpto(taken') /\ Known(s) /\ Known(t)
  BY <1>1, Reads
<1>3. /\ Len(s) = taken /\ Len(t) = taken' /\ taken \in Nat /\ taken' \in Nat
      /\ IsPrefixOf(s, t) /\ \A i \in 1..(taken') : t[i] = stream[i]
  BY <1>1, <1>2, Reads
<1>4. PICK e \in Nat \ {0} : e = End(s)
  BY <1>2, PacketsTypes
<1>5. PICK n \in Nat, old \in Nat : n = Len(data) /\ old = Len(buf.data)
  BY <1>1
<1>6. /\ taken + 1 = e + 2 + old /\ \A i \in 1..old : buf.data[i] = stream[e + 2 + i - 1]
      /\ \A i \in 1..2 : buf.header[i] = stream[e + i - 1]
  BY <1>1, <1>2, <1>4, <1>5 DEF UnitsPlaced
<1>17. PICK was \in Nat, m \in Nat :
         was = taken /\ m = taken' /\ m = was + (n - old) /\ was + 1 = e + 2 + old
  BY <1>1, <1>3, <1>5, <1>6
<1>20. e \in Nat /\ e >= 1 /\ n \in Nat /\ old \in Nat /\ was \in Nat /\ m \in Nat
  BY <1>4, <1>5, <1>17
<1>21. m = was + (n - old) /\ was + 1 = e + 2 + old
  BY <1>17
<1>18. m + 1 = e + 2 + n
  BY <1>20, <1>21
<1>7. taken' + 1 = e + 2 + n
  BY <1>17, <1>18
<1>8. m = taken' /\ m + 1 = e + 2 + n /\ Len(t) = m
  BY <1>3, <1>17, <1>18
<1>9. ASSUME NEW i \in 1..n
      PROVE  data[i] = stream[e + 2 + i - 1] /\ data[i] = t[e + 2 + i - 1] /\ data[i] \in Unit
  <2>1. data[i] = stream[e + 2 + i - 1]
    <3>1. CASE i \in 1..old
      BY <1>1, <1>5, <1>6, <3>1
    <3>2. CASE i \in (old + 1)..n
      <4>1. was + (i - old) = e + 2 + i - 1
        BY <1>20, <1>21, <3>2
      <4> QED
        BY <1>1, <1>5, <1>17, <3>2, <4>1
    <3> QED
      BY <1>5, <3>1, <3>2
  <2>2. e + 2 + i - 1 \in 1..m
    BY <1>4, <1>5, <1>8
  <2>3. data[i] \in Unit
    BY <1>5, ElementOfSeq
  <2> QED
    BY <1>3, <1>8, <2>1, <2>2, <2>3
<1>10. t[e] = buf.header[1] /\ t[e + 1] = buf.header[2]
  <2>1. buf.header[1] = stream[e + 1 - 1] /\ buf.header[2] = stream[e + 2 - 1]
    BY <1>6
  <2>2. e + 1 - 1 = e /\ e + 2 - 1 = e + 1 /\ e \in 1..m /\ e + 1 \in 1..m
    BY <1>4, <1>5, <1>8
  <2> QED
    BY <1>3, <1>8, <2>1, <2>2
<1>11. /\ Framing!Accepted(t[e], t[e + 1]) /\ buf.header[2] \in Unit
       /\ buf.len = buf.header[2] - 2 /\ buf.len \in 1..BufferMax
  BY <1>1, <1>10, GarbageIs DEF HeaderSize
<1>12. PICK len \in Nat : len = buf.len /\ t[e + 1] = len + 2 /\ n <= len
  <2>1. PICK h \in Int : h = buf.header[2]
    BY <1>11, ReaderTypes DEF Unit
  <2>2. buf.len \in Nat /\ buf.len = h - 2
    BY <1>11, <2>1, ReaderTypes
  <2>3. t[e + 1] = buf.len + 2
    BY <1>10, <2>1, <2>2
  <2> QED
    BY <1>1, <1>5, <2>2, <2>3
<1>13. e + 1 <= Len(t)
  <2>1. e + 1 <= m
    BY <1>18, <1>20
  <2> QED
    BY <1>8, <2>1
<1>19. n <= len /\ len \in Nat
  BY <1>12
<1>14. Framing!PacketAt(t, e) <=> n = len
  <2>1. e + (len + 2) - 1 <= m <=> n = len
    BY <1>18, <1>19, <1>20
  <2> QED
    BY <1>8, <1>11, <1>12, <1>13, <2>1 DEF Framing!PacketAt
<1>15. CASE n # len
  <2>1. /\ Framing!Packets(t, past) = Framing!Packets(s, past) /\ End(t) = e
        /\ Framing!Refused(t) = (e + 1 <= Len(t) /\ ~Framing!Accepted(t[e], t[e + 1]))
    BY <1>2, <1>3, <1>4, <1>14, <1>15, NoMorePacket
  <2>2. ~Framing!Refused(t)
    BY <1>11, <2>1
  <2> QED
    BY <1>2, <1>4, <1>5, <1>7, <1>9, <1>12, <1>15, <2>1, <2>2 DEF HeaderSize
<1>16. CASE n = len
  <2>1. e + t[e + 1] = Len(t) + 1
    <3>1. e + (len + 2) = m + 1
      BY <1>16, <1>18, <1>19, <1>20
    <3> QED
      BY <1>8, <1>12, <3>1
  <2>2. /\ Framing!Packets(t, past) = Append(Framing!Packets(s, past), PacketOf(t, e, past))
        /\ End(t) = Len(t) + 1 /\ ~Framing!Refused(t)
    BY <1>2, <1>3, <1>4, <1>14, <1>16, <2>1, OneMorePacket
  <2>3. SubSeq(t, e + 2, e + t[e + 1] - 1) = data
    <3>1. PICK a \in Int, b \in Int : a = e + 2 /\ b = e + t[e + 1] - 1
      BY <1>4, <1>12
    <3>2. b - a + 1 = n /\ a >= 1 /\ b = m
      <4>1. b = e + (len + 2) - 1
        BY <1>12, <3>1
      <4> QED
        BY <1>16, <1>18, <1>19, <1>20, <3>1, <4>1
    <3>3. \A i \in a..b : t[i] \in Unit
      <4>1. \A i \in a..b : i \in 1..Len(t)
        BY <1>8, <3>1, <3>2
      <4> QED
        BY <1>2, <4>1, ElementOfSeq
    <3>4. /\ SubSeq(t, a, b) \in Seq(Unit)
          /\ Len(SubSeq(t, a, b)) = IF a <= b THEN b - a + 1 ELSE 0
          /\ \A i \in 1..(b - a + 1) : SubSeq(t, a, b)[i] = t[a + i - 1]
      BY <1>2, <3>1, <3>3, SubSeqProperties
    <3>5. Len(SubSeq(t, a, b)) = n
      BY <1>5, <3>1, <3>2, <3>4
    <3>6. \A i \in 1..n : SubSeq(t, a, b)[i] = data[i]
      <4> SUFFICES ASSUME NEW i \in 1..n PROVE SubSeq(t, a, b)[i] = data[i]
        OBVIOUS
      <4>1. data[i] = t[a + i - 1]
        BY <1>9, <3>1
      <4> QED
        BY <3>2, <3>4, <4>1
    <3>7. SubSeq(t, a, b) = data
      BY <1>5, <3>4, <3>5, <3>6, SeqEqual
    <3> QED
      BY <3>1, <3>7
  <2>8. taken' + 1 - HeaderSize - Len(data) = e
    <3>1. m + 1 - 2 - n = e
      BY <1>18, <1>20
    <3> QED
      BY <1>5, <1>17, <3>1 DEF HeaderSize
  <2>9. Framing!Number(t, e, past) = Numeric(buf.header, data, e)
    <3>1. n >= 1 /\ (n = 1 <=> t[e + 1] = 3)
      <4>1. n \in 1..BufferMax
        BY <1>11, <1>12, <1>16
      <4>2. n \in Nat /\ n >= 1
        BY <4>1, ReaderTypes
      <4>3. t[e + 1] = n + 2
        BY <1>12, <1>16
      <4> QED
        BY <4>2, <4>3
    <3>2. t[e + 2] = data[1]
      <4>1. data[1] = t[e + 2 + 1 - 1] /\ e + 2 + 1 - 1 = e + 2
        BY <1>9, <1>20, <3>1
      <4> QED
        BY <4>1
    <3>3. n # 1 => t[e + 3] = data[2]
      <4>1. n # 1 => data[2] = t[e + 2 + 2 - 1]
        BY <1>9, <1>20, <3>1
      <4>2. e + 2 + 2 - 1 = e + 3
        BY <1>20
      <4> QED
        BY <4>1, <4>2
    <3> QED
      BY <1>5, <1>10, <3>1, <3>2, <3>3
      DEF Framing!Number, Numeric, Framing!HeaderSize, Framing!Numbered, Framing!PacketNumeric,
          Framing!PacketList, Framing!PacketHash, PacketNumeric, PacketList, PacketHash
  <2>4. PacketOf(t, e, past) = ReadPacket(data)
    BY <1>10, <2>3, <2>8, <2>9 DEF PacketOf, ReadPacket, Framing!HeaderSize
  <2>5. End(t) = taken' + 1
    BY <1>3, <2>2
  <2>6. Len(data) = buf.len
    BY <1>5, <1>12, <1>16
  <2>7. /\ taken' + 1 = End(s) + HeaderSize + Len(data)
        /\ \A i \in 1..Len(data) : data[i] = stream[End(s) + HeaderSize + i - 1]
    BY <1>4, <1>5, <1>7, <1>9 DEF HeaderSize
  <2> QED
    BY <1>2, <2>2, <2>4, <2>5, <2>6, <2>7
<1> QED
  BY <1>15, <1>16

LEMMA ObjectMoves ==
    ASSUME Types, Building, NEW pk \in Seq(Spelled), NEW k \in Spelled, ObjectPlaced(obj.list, pk)
    PROVE  /\ Append(pk, k) \in Seq(Spelled)
           /\ ~Packet(k).ready =>
                /\ ObjectsFrom(Append(pk, k))[1] = ObjectsFrom(pk)[1]
                /\ ObjectPlaced(Packet(k).list, Append(pk, k))
           /\ Packet(k).ready =>
                /\ ObjectsFrom(Append(pk, k))[1] = Append(ObjectsFrom(pk)[1], Packet(k).list)
                /\ ObjectPlaced(<<>>, Append(pk, k))
<1>1. PICK q \in Seq(Spelled) : q = Append(pk, k)
  BY AppendProperties
<1>2. PICK n \in Nat : n = Len(pk) /\ Len(q) = n + 1
  BY <1>1, AppendProperties
<1>3. q[n + 1] = k /\ \A i \in 1..n : q[i] = pk[i]
  BY <1>1, <1>2, AppendProperties
<1>4. PICK l \in Seq(Spelled) : l = Packet(k).list /\ l = Append(obj.list, k)
  BY PacketIs
<1>16. PICK list \in Seq(Spelled) : list = obj.list
  BY DEF Types
<1>5. PICK j \in Nat : j = Len(obj.list) /\ Len(l) = j + 1
  <2>1. Len(Append(list, k)) = Len(list) + 1 /\ Len(list) \in Nat
    BY <1>16, AppendProperties
  <2> QED
    BY <1>4, <1>16, <2>1
<1>6. l[j + 1] = k /\ \A i \in 1..j : l[i] = obj.list[i]
  <2>1. Append(list, k)[Len(list) + 1] = k /\ \A i \in 1..Len(list) : Append(list, k)[i] = list[i]
    BY <1>16, AppendProperties
  <2> QED
    BY <1>4, <1>5, <1>16, <2>1
<1>7. PICK o \in Nat \ {0} : o = ObjectEnd(pk)
  BY ObjectsTypes
<1>8. o + j = n + 1 /\ \A i \in 1..j : obj.list[i] = pk[o + i - 1]
  BY <1>2, <1>5, <1>7 DEF ObjectPlaced
<1>9. \A i \in 1..(j + 1) : l[i] = q[o + i - 1]
  <2> SUFFICES ASSUME NEW i \in 1..(j + 1) PROVE l[i] = q[o + i - 1]
    OBVIOUS
  <2>1. CASE i \in 1..j
    <3>1. o + i - 1 \in 1..n
      BY <1>2, <1>5, <1>7, <1>8, <2>1
    <3> QED
      BY <1>3, <1>6, <1>8, <2>1, <3>1
  <2>2. CASE i = j + 1
    <3>1. o + i - 1 = n + 1
      BY <1>2, <1>5, <1>7, <1>8, <2>2
    <3> QED
      BY <1>3, <1>6, <2>2, <3>1
  <2>3. i \in 1..j \/ i = j + 1
    OBVIOUS
  <2> QED
    BY <2>1, <2>2, <2>3
<1>10. l[1] = q[o]
  <2>1. 1 \in 1..(j + 1) /\ o + 1 - 1 = o
    BY <1>5, <1>7
  <2> QED
    BY <1>9, <2>1
<1>11. PICK d \in Nat : d = Framing!Span(l[1]) /\ j + 1 <= d /\ (Packet(k).ready <=> j + 1 = d)
  <2>1. l[1] \in Spelled
    BY <1>4, PacketIs
  <2>2. Framing!Span(l[1]) \in Nat
    BY <2>1, SpanFacts, ReaderTypes
  <2> QED
    BY <1>4, <1>5, <2>2, PacketIs
<1>12. IsPrefixOf(pk, q)
  BY <1>2, <1>3 DEF IsPrefixOf
<1>13. InFull(q, o) <=> j + 1 = d
  <2>1. o <= n + 1 /\ (o + d - 1 <= n + 1 <=> j + 1 = d)
    BY <1>2, <1>5, <1>7, <1>8, <1>11
  <2> QED
    BY <1>2, <1>10, <1>11, <2>1 DEF InFull
<1>14. CASE j + 1 # d
  <2>1. ObjectsFrom(q)[1] = ObjectsFrom(pk)[1] /\ ObjectEnd(q) = o
    BY <1>7, <1>12, <1>13, <1>14, NoMoreObject
  <2>2. o + (j + 1) = (n + 1) + 1
    <3>1. o \in Nat /\ j \in Nat /\ n \in Nat
      BY <1>2, <1>5, <1>7
    <3> QED
      BY <1>8, <3>1
  <2>3. ObjectPlaced(l, q)
    BY <1>2, <1>5, <1>9, <2>1, <2>2 DEF ObjectPlaced
  <2> QED
    BY <1>1, <1>4, <1>11, <1>14, <2>1, <2>3
<1>15. CASE j + 1 = d
  <2>1. o + Framing!Span(q[o]) = Len(q) + 1
    <3>1. o \in Nat /\ j \in Nat /\ n \in Nat
      BY <1>2, <1>5, <1>7
    <3>2. o + (j + 1) = (n + 1) + 1
      BY <1>8, <3>1
    <3>3. Framing!Span(q[o]) = j + 1
      BY <1>10, <1>11, <1>15
    <3> QED
      BY <1>2, <3>2, <3>3
  <2>2. /\ ObjectsFrom(q)[1] = Append(ObjectsFrom(pk)[1], SubSeq(q, o, Len(q)))
        /\ ObjectEnd(q) = Len(q) + 1
    BY <1>7, <1>12, <1>13, <1>15, <2>1, OneMoreObject
  <2>3. SubSeq(q, o, Len(q)) = l
    <3>1. PICK a \in Int, b \in Int :
            a = o /\ b = Len(q) /\ b = n + 1 /\ b - a + 1 = j + 1 /\ a <= b /\ a >= 1
      BY <1>2, <1>5, <1>7, <1>8
    <3>2. \A i \in a..b : q[i] \in Spelled
      <4>1. \A i \in a..b : i \in 1..Len(q)
        BY <3>1
      <4> QED
        BY <1>1, <4>1, ElementOfSeq
    <3>6. a \in Int /\ b \in Int
      BY <3>1
    <3>3. /\ SubSeq(q, a, b) \in Seq(Spelled)
          /\ Len(SubSeq(q, a, b)) = IF a <= b THEN b - a + 1 ELSE 0
          /\ \A i \in 1..(b - a + 1) : SubSeq(q, a, b)[i] = q[a + i - 1]
      BY <3>2, <3>6, SubSeqProperties
    <3>4. Len(SubSeq(q, a, b)) = j + 1 /\ \A i \in 1..(j + 1) : SubSeq(q, a, b)[i] = l[i]
      BY <1>9, <3>1, <3>3
    <3>5. SubSeq(q, a, b) = l
      BY <1>4, <1>5, <3>3, <3>4, SeqEqual
    <3> QED
      BY <3>1, <3>5
  <2>4. ObjectPlaced(<<>>, q)
    <3>1. Len(<<>>) = 0 /\ \A i \in 1..0 : FALSE
      OBVIOUS
    <3> QED
      BY <1>2, <2>2, <3>1 DEF ObjectPlaced
  <2> QED
    BY <1>1, <1>4, <1>11, <1>15, <2>2, <2>3, <2>4
<1> QED
  BY <1>14, <1>15

(* However the units were cut, what was handed over is what they spell, and *)
(* what is kept is the rest of them.                                        *)
Placed ==
    conn # "closed" =>
      /\ UnitsPlaced(End(ReceivedUpto(taken)))
      /\ ObjectPlaced(obj.list, Framing!Packets(ReceivedUpto(taken), past))
      /\ pushed = ObjectsFrom(Framing!Packets(ReceivedUpto(taken), past))[1]

LEMMA PlacedAfter ==
    ASSUME UNCHANGED <<stream, past>>,
           NEW e, NEW pk, e = End(ReceivedUpto(taken')), pk = Framing!Packets(ReceivedUpto(taken'), past),
           conn' # "closed" =>
             /\ taken' + 1 = e + Len(buf'.header) + Len(buf'.data)
             /\ \A i \in 1..Len(buf'.header) : buf'.header[i] = stream[e + i - 1]
             /\ \A i \in 1..Len(buf'.data) : buf'.data[i] = stream[e + Len(buf'.header) + i - 1]
             /\ ObjectPlaced(obj'.list, pk)
             /\ pushed' = ObjectsFrom(pk)[1]
    PROVE  Placed'
<1>1. ReceivedUpto(taken)' = ReceivedUpto(taken')
  BY DEF ReceivedUpto
<1>2. End(ReceivedUpto(taken))' = e
  BY <1>1
<1>3. Framing!Packets(ReceivedUpto(taken), past)' = pk
  BY <1>1
<1>4. conn' # "closed" => UnitsPlaced(End(ReceivedUpto(taken)))'
  BY <1>2 DEF UnitsPlaced
<1>5. conn' # "closed" => ObjectPlaced(obj.list, Framing!Packets(ReceivedUpto(taken), past))'
  BY <1>3
<1>6. conn' # "closed" => (pushed = ObjectsFrom(Framing!Packets(ReceivedUpto(taken), past))[1])'
  BY <1>3
<1> QED
  BY <1>4, <1>5, <1>6 DEF Placed

LEMMA NoUnits ==
    ASSUME NEW s \in Seq(Unit), Len(s) = 0
    PROVE  Framing!Packets(s, past) = <<>> /\ End(s) = 1
<1>1. 1 \in 1..(Len(s) + 1) /\ ~Framing!PacketAt(s, 1)
  BY DEF Framing!PacketAt
<1>3. Known(s)
  BY DEF Known, Framing!ShortAt
<1>2. After(s)[1] = 1
  BY <1>1, AfterFacts
<1> QED
  BY <1>1, <1>2, <1>3, PacketsChain, EndChain DEF End

LEMMA NoPackets ==
    ASSUME NEW pk \in Seq(Spelled), Len(pk) = 0
    PROVE  ObjectsFrom(pk)[1] = <<>> /\ ObjectEnd(pk) = 1
<1>1. 1 \in 1..(Len(pk) + 1) /\ ~InFull(pk, 1)
  BY DEF InFull
<1>2. NextObject(pk)[1] = 1
  BY <1>1, NextObjectFacts
<1> QED
  BY <1>1, <1>2, ObjectsChain, ObjectEndChain DEF ObjectEnd

LEMMA EmptyUnits ==
    ASSUME NEW u \in Seq(Unit)
    PROVE  /\ SubSeq(u, 1, 0) = <<>> /\ <<>> \in Seq(Unit) /\ Framing!Packets(<<>>, past) = <<>>
           /\ End(<<>>) = 1 /\ ObjectsFrom(<<>>)[1] = <<>> /\ ObjectEnd(<<>>) = 1
<1>1. <<>> \in Seq(Unit) /\ <<>> \in Seq(Spelled) /\ Len(<<>>) = 0
  OBVIOUS
<1>2. SubSeq(u, 1, 0) = <<>>
  BY SubSeqEmpty
<1> QED
  BY <1>1, <1>2, NoUnits, NoPackets

LEMMA PlacedInit == Init => Placed
<1> SUFFICES ASSUME Init PROVE Placed
  OBVIOUS
<1>1. /\ stream \in Seq(Unit) /\ taken = 0 /\ buf.header = <<>> /\ buf.data = <<>>
      /\ obj.list = <<>> /\ pushed = <<>>
  BY ReaderTypes, NewOnes DEF Init
<1>2. /\ ReceivedUpto(taken) = <<>> /\ Framing!Packets(ReceivedUpto(taken), past) = <<>>
      /\ End(ReceivedUpto(taken)) = 1 /\ ObjectsFrom(<<>>)[1] = <<>> /\ ObjectEnd(<<>>) = 1
  BY <1>1, EmptyUnits DEF ReceivedUpto
<1>3. UnitsPlaced(1)
  BY <1>1 DEF UnitsPlaced
<1>4. ObjectPlaced(<<>>, <<>>)
  BY <1>2 DEF ObjectPlaced
<1> QED
  BY <1>1, <1>2, <1>3, <1>4 DEF Placed

(* What the abstract connection does of a read. *)
LEMMA ObjectsAre ==
    \A n : Framing!Objects(ReceivedUpto(n), past) = ObjectsFrom(Framing!Packets(ReceivedUpto(n), past))[1]
BY ObjectsOfUnits

LEMMA ReceiveIs ==
    ASSUME conn = "reading", taken' \in (taken + 1)..Len(stream), UNCHANGED <<stream, past>>,
           pushed' = ObjectsFrom(Framing!Packets(ReceivedUpto(taken'), past))[1],
           (conn' # "closed") = ~Framing!Refused(ReceivedUpto(taken'))
    PROVE  Framing!Receive
<1>1. pushed' = Framing!Objects(SubSeq(stream, 1, taken'), past)
  BY ObjectsAre DEF ReceivedUpto
<1>2. (conn' # "closed") = ~Framing!Refused(SubSeq(stream, 1, taken'))
  BY Zenon DEF ReceivedUpto
<1> QED
  BY <1>1, <1>2, Zenon DEF Framing!Receive

LEMMA JoinsMore ==
    ASSUME Types, taken' \in 0..arrived, taken' > taken
    PROVE  taken' \in (taken + 1)..Len(stream)
BY DEF Types

LEMMA HeaderPlaced ==
    ASSUME Shape, Placed, ReadHeader
    PROVE  Placed' /\ Framing!Receive
<1>1. PICK header \in Seq(Unit) : HeaderRead(header)
  BY HeaderReads
<1>2. UNCHANGED <<stream, past, pushed>> /\ conn = "reading" /\ Types
  BY HeaderReads DEF ReadHeader, Shape
<1>3. PICK e \in Nat, pk \in Seq(Spelled) :
        /\ e = End(ReceivedUpto(taken)) /\ pk = Framing!Packets(ReceivedUpto(taken), past)
  <2>1. ReceivedUpto(taken) \in Seq(Unit) /\ Known(ReceivedUpto(taken))
    <3>1. taken' \in 0..arrived /\ taken' > taken
      BY <1>1, <1>2 DEF HeaderRead, Joins, Types
    <3> QED
      BY <1>2, <3>1, Reads
  <2> QED
    BY <2>1, PacketsTypes
<1>4. UnitsPlaced(e) /\ ObjectPlaced(obj.list, pk) /\ pushed = ObjectsFrom(pk)[1]
  BY <1>2, <1>3 DEF Placed
<1>5. /\ Framing!Packets(ReceivedUpto(taken'), past) = pk /\ End(ReceivedUpto(taken')) = e
      /\ Framing!Refused(ReceivedUpto(taken')) = (Len(header) = HeaderSize /\ Garbage(header))
      /\ taken' + 1 = e + Len(header)
      /\ \A i \in 1..Len(header) : header[i] = stream[e + i - 1]
  BY <1>1, <1>2, <1>3, <1>4, HeaderMoves
<1>6. taken' \in 0..arrived /\ taken' > taken
  BY <1>1, <1>2 DEF HeaderRead, Joins, Types
<1>7. CASE ~(Len(header) = HeaderSize /\ Garbage(header))
  <2>1. buf'.header = header /\ buf'.data = <<>> /\ UNCHANGED <<conn, obj>>
    BY <1>1, <1>2, <1>7 DEF HeaderRead, Types
  <2>2. taken' + 1 = e + Len(header) + 0 /\ Len(<<>>) = 0
    BY <1>3, <1>5
  <2>3. Placed'
    BY <1>2, <1>4, <1>5, <2>1, <2>2, PlacedAfter
  <2>4. conn' # "closed"
    BY <1>2, <2>1
  <2>5. (conn' # "closed") = ~Framing!Refused(ReceivedUpto(taken'))
    BY <1>5, <1>7, <2>4, Zenon
  <2> QED
    BY <1>2, <1>4, <1>5, <1>6, <2>3, <2>5, JoinsMore, ReceiveIs
<1>8. CASE Len(header) = HeaderSize /\ Garbage(header)
  <2>1. conn' = "closed"
    BY <1>1, <1>8 DEF HeaderRead, Close
  <2>2. Placed'
    BY <2>1 DEF Placed
  <2>3. (conn' # "closed") = ~Framing!Refused(ReceivedUpto(taken'))
    BY <1>5, <1>8, <2>1, Zenon
  <2> QED
    BY <1>2, <1>4, <1>5, <1>6, <2>2, <2>3, JoinsMore, ReceiveIs
<1> QED
  BY <1>7, <1>8

LEMMA DataPlaced ==
    ASSUME Shape, Placed, ReadData
    PROVE  Placed' /\ Framing!Receive
<1>1. PICK data \in Seq(Unit) : DataRead(data) /\ DataMakes(data)
  BY DataReads
<1>2. UNCHANGED <<stream, past, conn>> /\ conn = "reading" /\ Types /\ Building /\ Behind
  BY DataReads DEF ReadData, Shape
<1>6. taken' \in 0..arrived /\ taken' > taken
  BY <1>1, <1>2 DEF DataRead, Joins, Types
<1>3. PICK e \in Nat, pk \in Seq(Spelled) :
        /\ e = End(ReceivedUpto(taken)) /\ pk = Framing!Packets(ReceivedUpto(taken), past)
  <2>1. ReceivedUpto(taken) \in Seq(Unit) /\ Known(ReceivedUpto(taken))
    BY <1>2, <1>6, Reads
  <2> QED
    BY <2>1, PacketsTypes
<1>4. UnitsPlaced(e) /\ ObjectPlaced(obj.list, pk) /\ pushed = ObjectsFrom(pk)[1]
  BY <1>2, <1>3 DEF Placed
<1>5. /\ ~Framing!Refused(ReceivedUpto(taken'))
      /\ Len(data) < buf.len =>
           Framing!Packets(ReceivedUpto(taken'), past) = pk /\ End(ReceivedUpto(taken')) = e
      /\ Len(data) = buf.len =>
           /\ Framing!Packets(ReceivedUpto(taken'), past) = Append(pk, ReadPacket(data))
           /\ End(ReceivedUpto(taken')) = taken' + 1
      /\ taken' + 1 = e + HeaderSize + Len(data)
      /\ \A i \in 1..Len(data) : data[i] = stream[e + HeaderSize + i - 1]
  BY <1>1, <1>2, <1>3, <1>4, DataMoves
<1>7. (conn' # "closed") = ~Framing!Refused(ReceivedUpto(taken'))
  <2>1. conn' # "closed"
    BY <1>2
  <2> QED
    BY <1>5, <2>1, Zenon
<1>8. taken' \in (taken + 1)..Len(stream) /\ taken' \in Nat
  <2>1. taken' \in (taken + 1)..Len(stream)
    BY <1>2, <1>6, JoinsMore
  <2> QED
    BY <1>2, <1>6, <2>1, Reads
<1> DEFINE k == ReadPacket(data)
<1>9. Len(data) = buf.len =>
        /\ ~Packet(k).ready =>
             /\ ObjectsFrom(Append(pk, k))[1] = pushed
             /\ ObjectPlaced(Packet(k).list, Append(pk, k))
        /\ Packet(k).ready =>
             /\ ObjectsFrom(Append(pk, k))[1] = Append(pushed, Packet(k).list)
             /\ ObjectPlaced(<<>>, Append(pk, k))
  <2>1. Len(data) = buf.len => k \in Spelled
    BY <1>1, <1>2, ReadPacketSpelled
  <2> HIDE DEF k
  <2> QED
    BY <1>2, <1>3, <1>4, <2>1, ObjectMoves
<1>10. CASE /\ Len(data) < buf.len
            /\ buf' = [buf EXCEPT !.data = data]
            /\ UNCHANGED <<obj, pushed>>
  <2>1. buf'.header = buf.header /\ buf'.data = data
    BY <1>2, <1>10 DEF Types
  <2>2. /\ taken' + 1 = e + Len(buf'.header) + Len(buf'.data)
        /\ \A i \in 1..Len(buf'.header) : buf'.header[i] = stream[e + i - 1]
        /\ \A i \in 1..Len(buf'.data) : buf'.data[i] = stream[e + Len(buf'.header) + i - 1]
    BY <1>1, <1>4, <1>5, <2>1 DEF DataRead, UnitsPlaced
  <2>3. Framing!Packets(ReceivedUpto(taken'), past) = pk /\ End(ReceivedUpto(taken')) = e
    BY <1>5, <1>10
  <2>4. ObjectPlaced(obj'.list, pk) /\ pushed' = ObjectsFrom(pk)[1]
    BY <1>4, <1>10
  <2>5. Placed'
    BY <1>2, <2>2, <2>3, <2>4, PlacedAfter
  <2> QED
    BY <1>2, <1>7, <1>8, <2>3, <2>4, <2>5, ReceiveIs
<1>11. ASSUME buf' = NewBuffer, Len(data) = buf.len
       PROVE  /\ taken' + 1 = End(ReceivedUpto(taken')) + Len(buf'.header) + Len(buf'.data)
              /\ Len(buf'.header) = 0 /\ Len(buf'.data) = 0 /\ \A i \in 1..0 : FALSE
  <2>1. Len(buf'.header) = 0 /\ Len(buf'.data) = 0
    BY <1>11, NewOnes
  <2>2. End(ReceivedUpto(taken')) = taken' + 1
    BY <1>5, <1>11
  <2> QED
    BY <1>8, <2>1, <2>2
<1>12. CASE /\ Len(data) = buf.len /\ ~Packet(k).ready
            /\ buf' = NewBuffer
            /\ obj' = [type |-> Packet(k).type, list |-> Packet(k).list,
                       remaining |-> Packet(k).remaining]
            /\ UNCHANGED pushed
  <2> HIDE DEF k
  <2>1. PICK q : q = Append(pk, k)
    OBVIOUS
  <2>2. q = Framing!Packets(ReceivedUpto(taken'), past)
    BY <1>5, <1>12, <2>1 DEF k
  <2>3. ObjectPlaced(obj'.list, q) /\ pushed' = ObjectsFrom(q)[1]
    BY <1>9, <1>12, <2>1
  <2>4. Placed'
    BY <1>2, <1>11, <1>12, <2>2, <2>3, PlacedAfter
  <2> QED
    BY <1>2, <1>7, <1>8, <2>2, <2>3, <2>4, ReceiveIs
<1>13. CASE /\ Len(data) = buf.len /\ Packet(k).ready
            /\ buf' = NewBuffer /\ obj' = NewObject
            /\ pushed' = Append(pushed, Packet(k).list)
  <2> HIDE DEF k
  <2>1. PICK q : q = Append(pk, k)
    OBVIOUS
  <2>2. q = Framing!Packets(ReceivedUpto(taken'), past)
    BY <1>5, <1>13, <2>1 DEF k
  <2>3. ObjectPlaced(obj'.list, q) /\ pushed' = ObjectsFrom(q)[1]
    BY <1>9, <1>13, <2>1, NewOnes
  <2>4. Placed'
    BY <1>2, <1>11, <1>13, <2>2, <2>3, PlacedAfter
  <2> QED
    BY <1>2, <1>7, <1>8, <2>2, <2>3, <2>4, ReceiveIs
<1> QED
  BY <1>1, <1>10, <1>12, <1>13 DEF DataMakes

(* A step that receives nothing. *)
LEMMA StillPlaced ==
    ASSUME Placed, UNCHANGED <<stream, past, taken, buf, obj, pushed>>,
           (conn' # "closed") = (conn # "closed")
    PROVE  Placed' /\ UNCHANGED Framing!vars
<1>1. UNCHANGED Framing!vars
  BY Zenon DEF Framing!vars
<1>2. conn' # "closed" <=> conn # "closed"
  BY Zenon
<1> DEFINE e == End(ReceivedUpto(taken'))
           pk == Framing!Packets(ReceivedUpto(taken'), past)
<1>3. e = End(ReceivedUpto(taken)) /\ pk = Framing!Packets(ReceivedUpto(taken), past)
  OBVIOUS
<1> HIDE DEF e, pk
<1>4. conn' # "closed" => UnitsPlaced(e) /\ ObjectPlaced(obj.list, pk) /\ pushed = ObjectsFrom(pk)[1]
  BY <1>2, <1>3 DEF Placed
<1>5. conn' # "closed" =>
             /\ taken' + 1 = e + Len(buf'.header) + Len(buf'.data)
             /\ \A i \in 1..Len(buf'.header) : buf'.header[i] = stream[e + i - 1]
             /\ \A i \in 1..Len(buf'.data) : buf'.data[i] = stream[e + Len(buf'.header) + i - 1]
             /\ ObjectPlaced(obj'.list, pk)
             /\ pushed' = ObjectsFrom(pk)[1]
  BY <1>4 DEF UnitsPlaced
<1>6. Placed'
  BY <1>5, PlacedAfter DEF e, pk
<1> QED
  BY <1>1, <1>6

LEMMA ClosesPlaced ==
    ASSUME conn = "reading", Close, UNCHANGED <<stream, past, taken, pushed>>
    PROVE  Placed' /\ Framing!Close
<1>1. conn' = "closed" /\ conn # "closed"
  BY DEF Close
<1>2. (conn' # "closed") = FALSE
  BY <1>1, Zenon
<1> QED
  BY <1>1, <1>2 DEF Placed, Framing!Close

LEMMA StepRefines ==
    Shape /\ Placed /\ [Next]_vars => Placed' /\ [Framing!Next]_(Framing!vars)
<1> SUFFICES ASSUME Shape, Placed, [Next]_vars PROVE Placed' /\ [Framing!Next]_(Framing!vars)
  OBVIOUS
<1>1. CASE ReadHeader
  BY <1>1, HeaderPlaced DEF Framing!Next
<1>2. CASE ReadData
  BY <1>2, DataPlaced DEF Framing!Next
<1>3. CASE ReadEof \/ Reset
  <2>1. conn = "reading" /\ Close /\ UNCHANGED <<stream, past, taken, pushed>>
    BY <1>3 DEF ReadEof, Reset
  <2> QED
    BY <2>1, ClosesPlaced DEF Framing!Next
<1>4. CASE ReadEvent \/ ReadAgain \/ Arrive \/ PeerCloses \/ UNCHANGED vars
  <2>1. /\ UNCHANGED <<stream, past, taken, buf, obj, pushed>>
        /\ conn' # "closed" <=> conn # "closed"
    BY <1>4 DEF ReadEvent, ReadAgain, Arrive, PeerCloses, vars
  <2>2. (conn' # "closed") = (conn # "closed")
    BY <2>1, Zenon
  <2> QED
    BY <2>1, <2>2, StillPlaced
<1> QED
  BY <1>1, <1>2, <1>3, <1>4 DEF Next, Reader, Done

(* However the units are cut into reads, the objects handed to the workers  *)
(* are those that the units read so far spell, and the connection does not  *)
(* outlive a packet that is refused: the reader implements the framing, for *)
(* every stream, one with numbers shorter than 64 bits or counts that wrap  *)
(* included (packet_buffer_read, object_buffer_read, client_cb).            *)
THEOREM Refinement == Spec => ChunksDoNotMatter
<1>1. Init => Framing!Init
  <2> SUFFICES ASSUME Init PROVE Framing!Init
    OBVIOUS
  <2>1. conn # "closed"
    BY DEF Init
  <2>2. (conn # "closed") = TRUE
    BY <2>1, Zenon
  <2> QED
    BY <2>2 DEF Init, Framing!Init
<1>2. Spec => []Placed
  BY PlacedInit, StepRefines, ShapeAlways, PTL DEF Spec
<1> QED
  BY <1>1, <1>2, StepRefines, ShapeAlways, PTL DEF Spec, ChunksDoNotMatter, Framing!Spec

-----------------------------------------------------------------------------
(* What is left in the socket by a connection that closes.                  *)

(* After a packet that is refused there is none. *)
LEMMA NothingAfterRefused ==
    ASSUME NEW s \in Seq(Unit), Known(s), NEW t \in Seq(Unit), Known(t), IsPrefixOf(s, t),
           Framing!Refused(s)
    PROVE  Framing!Packets(t, past) = Framing!Packets(s, past)
<1>1. PICK e \in Nat \ {0} : e = End(s) /\ ~Framing!PacketAt(s, e)
  BY PacketsTypes
<1>2. IsPrefixOf(s, s)
  BY DEF IsPrefixOf
<1>3. e + 1 <= Len(s) /\ ~Framing!Accepted(s[e], s[e + 1])
  BY <1>1, <1>2, NoMorePacket
<1>4. e \in 1..Len(s) /\ e + 1 \in 1..Len(s)
  BY <1>3
<1>5. t[e] = s[e] /\ t[e + 1] = s[e + 1]
  BY <1>4 DEF IsPrefixOf
<1>6. ~Framing!PacketAt(t, e)
  BY <1>3, <1>5 DEF Framing!PacketAt
<1> QED
  BY <1>1, <1>6, NoMorePacket

(* Closed by a packet that is refused, or at the end of what came. *)
Finished ==
    conn = "closed" /\ ~reset =>
      /\ pushed = Framing!Objects(ReceivedUpto(taken), past)
      /\ Framing!Refused(ReceivedUpto(taken)) \/ (eof /\ taken = arrived)

LEMMA FinishedReceive ==
    ASSUME Framing!Receive PROVE Finished'
<1>1. /\ UNCHANGED <<stream, past>>
      /\ pushed' = Framing!Objects(SubSeq(stream, 1, taken'), past)
      /\ (conn' # "closed") = ~Framing!Refused(SubSeq(stream, 1, taken'))
  BY Zenon DEF Framing!Receive
<1>2. ReceivedUpto(taken)' = SubSeq(stream, 1, taken')
  BY <1>1 DEF ReceivedUpto
<1>3. (Framing!Objects(ReceivedUpto(taken), past))' = Framing!Objects(SubSeq(stream, 1, taken'), past)
  BY <1>1, <1>2
<1>4. (Framing!Refused(ReceivedUpto(taken)))' = Framing!Refused(SubSeq(stream, 1, taken'))
  BY <1>2
<1>5. conn' = "closed" => Framing!Refused(SubSeq(stream, 1, taken'))
  BY <1>1
<1> QED
  BY <1>1, <1>3, <1>4, <1>5 DEF Finished

LEMMA FinishedNext ==
    Shape /\ Placed /\ Finished /\ [Next]_vars => Finished'
<1> SUFFICES ASSUME Shape, Placed, Finished, [Next]_vars PROVE Finished'
  OBVIOUS
<1>1. CASE ReadHeader
  BY <1>1, HeaderPlaced, FinishedReceive
<1>2. CASE ReadData
  BY <1>2, DataPlaced, FinishedReceive
<1>3. CASE ReadEof
  <2>1. /\ UNCHANGED <<stream, past, arrived, eof, taken, pushed>> /\ eof /\ conn = "reading"
        /\ arrived - taken = 0
    BY <1>3 DEF ReadEof, Available
  <2>2. taken = arrived
    BY <2>1 DEF Shape, Types
  <2>3. pushed = Framing!Objects(ReceivedUpto(taken), past)
    BY <2>1, ObjectsAre DEF Placed
  <2>4. ReceivedUpto(taken)' = ReceivedUpto(taken)
    BY <2>1 DEF ReceivedUpto
  <2> QED
    BY <2>1, <2>2, <2>3, <2>4 DEF Finished
<1>4. CASE Reset
  BY <1>4 DEF Reset, Finished
<1>5. CASE ReadEvent \/ ReadAgain
  BY <1>5 DEF ReadEvent, ReadAgain, Finished
<1>6. CASE Arrive \/ PeerCloses \/ UNCHANGED vars
  <2>1. /\ UNCHANGED <<stream, past, taken, conn, pushed, reset>>
        /\ eof => UNCHANGED arrived /\ eof'
    BY <1>6 DEF Arrive, PeerCloses, vars
  <2>2. ReceivedUpto(taken)' = ReceivedUpto(taken)
    BY <2>1 DEF ReceivedUpto
  <2> QED
    BY <2>1, <2>2 DEF Finished
<1> QED
  BY <1>1, <1>2, <1>3, <1>4, <1>5, <1>6 DEF Next, Reader, Done

(* A connection that closes without a reset leaves no complete object       *)
(* behind, in the socket or in the object under construction: the end of    *)
(* the stream is seen only when all that came before was read, and nothing  *)
(* after a packet that is refused is one (client_cb, packet_buffer_read).   *)
THEOREM CompleteHandedOverAlways == Spec => []CompleteHandedOver
<1>1. Shape /\ Finished => CompleteHandedOver
  <2> SUFFICES ASSUME Shape, Finished, conn = "closed", ~reset
               PROVE  pushed = Framing!Objects(SubSeq(stream, 1, arrived), past)
    BY DEF CompleteHandedOver
  <2>1. /\ stream \in Seq(Unit) /\ Known(stream) /\ arrived \in Nat /\ taken \in Nat
        /\ taken <= arrived /\ arrived <= Len(stream) /\ taken <= Len(stream)
    BY DEF Shape, Types
  <2>2. PICK s \in Seq(Unit), t \in Seq(Unit) :
          /\ s = SubSeq(stream, 1, taken) /\ t = SubSeq(stream, 1, arrived)
          /\ Known(s) /\ Known(t) /\ IsPrefixOf(s, t)
    BY <2>1, ReceivedFacts, ReceivedKnown, ReceivedGrows
  <2>3. pushed = Framing!Objects(s, past) /\ (Framing!Refused(s) \/ taken = arrived)
    BY <2>2 DEF Finished, ReceivedUpto
  <2>4. Framing!Packets(t, past) = Framing!Packets(s, past)
    <3>1. CASE Framing!Refused(s)
      BY <2>2, <3>1, NothingAfterRefused
    <3>2. CASE taken = arrived
      BY <2>2, <3>2
    <3> QED
      BY <2>3, <3>1, <3>2
  <2> QED
    BY <2>2, <2>3, <2>4, ObjectsOfUnits
<1>2. Init => Finished
  BY DEF Init, Finished
<1>3. Spec => []Placed
  BY PlacedInit, StepRefines, ShapeAlways, PTL DEF Spec
<1> QED
  BY <1>1, <1>2, <1>3, FinishedNext, ShapeAlways, PTL DEF Spec
=============================================================================
