--------------------------- MODULE LinuxScan_proofs ---------------------------
(* Proofs about LinuxScan, for every set of process numbers, every interval *)
(* and every bound.                                                         *)
EXTENDS LinuxScan, TLAPS

LEMMA PeriodType == Period \in Nat
BY ScanAssumption DEF ScanAssumption, Period

LEMMA CurrentType == names # {} => Current \in names
BY DEF Current

LEMMA ModType == ASSUME NEW a \in Int, NEW m \in Nat \ {0} PROVE a % m \in Nat
OBVIOUS

LEMMA DivType == ASSUME NEW a \in Nat, NEW b \in Nat \ {0} PROVE a \div b \in Nat
BY Z3

LEMMA SmallMod == ASSUME NEW a \in Nat, NEW m \in Nat \ {0}, a < m PROVE a % m = a
OBVIOUS

LEMMA SmallDiv ==
    ASSUME NEW a \in Nat, NEW b \in Nat \ {0}, a \div b = 0 PROVE a < b
BY Z3

(* What a quotient and a remainder are. *)
LEMMA DivParts ==
    ASSUME NEW a \in Nat, NEW b \in Nat \ {0}
    PROVE  /\ a \div b \in Nat /\ a % b \in Nat /\ a % b < b
           /\ a = b * (a \div b) + (a % b)
<1>1. a \div b \in Nat
  BY Z3
<1>2. a % b \in 0..(b - 1)
  OBVIOUS
<1>3. a = b * (a \div b) + (a % b)
  BY Z3
<1> QED
  BY <1>1, <1>2, <1>3

(* A quotient is known from a remainder that is small enough. *)
LEMMA DivIs ==
    ASSUME NEW m \in Nat \ {0}, NEW q \in Nat, NEW r \in Nat, r < m
    PROVE  (m * q + r) \div m = q
<1> DEFINE a == m * q + r
<1>1. a \in Nat
  OBVIOUS
<1>2. PICK p \in Nat : p = a \div m
  BY <1>1, DivParts
<1>3. PICK s \in Nat : s = a % m
  BY <1>1, DivParts
<1>4. s < m /\ m * q + r = m * p + s
  BY <1>1, <1>2, <1>3, DivParts
<1>5. m * (q - p) = s - r
  BY <1>4
<1>6. ~(q > p)
  <2> SUFFICES ASSUME q > p PROVE FALSE
    OBVIOUS
  <2>1. PICK k \in Nat : q = p + 1 + k
    <3> WITNESS q - p - 1 \in Nat
    <3> QED OBVIOUS
  <2>2. m * q = m * p + m + m * k
    BY <2>1
  <2>3. m * k >= 0 /\ m * k \in Nat
    OBVIOUS
  <2>4. m * p \in Nat
    OBVIOUS
  <2> QED
    BY <1>4, <2>2, <2>3, <2>4
<1>7. ~(p > q)
  <2> SUFFICES ASSUME p > q PROVE FALSE
    OBVIOUS
  <2>1. PICK k \in Nat : p = q + 1 + k
    <3> WITNESS p - q - 1 \in Nat
    <3> QED OBVIOUS
  <2>2. m * p = m * q + m + m * k
    BY <2>1
  <2>3. m * k >= 0 /\ m * k \in Nat
    OBVIOUS
  <2>4. m * q \in Nat
    OBVIOUS
  <2> QED
    BY <1>4, <2>2, <2>3, <2>4
<1> QED
  BY <1>2, <1>6, <1>7

(* Two divisions are one by the product. *)
LEMMA DivDiv ==
    ASSUME NEW a \in Nat, NEW b \in Nat \ {0}, NEW c \in Nat \ {0}
    PROVE  (a \div b) \div c = a \div (b * c)
<1>1. PICK q \in Nat : q = a \div b
  BY DivParts
<1>2. PICK r \in Nat : r = a % b
  BY DivParts
<1>3. a = b * q + r /\ r < b
  BY <1>1, <1>2, DivParts
<1>4. PICK t \in Nat : t = q \div c
  BY DivParts
<1>5. PICK u \in Nat : u = q % c
  BY DivParts
<1>6. q = c * t + u /\ u < c
  BY <1>4, <1>5, DivParts
<1>7. b * c \in Nat \ {0} /\ b * u + r \in Nat
  BY Z3
<1>8. b * u + r < b * c
  <2>0. c - u - 1 \in Nat
    BY <1>6
  <2>1. PICK k \in Nat : c = u + 1 + k
    <3> WITNESS c - u - 1 \in Nat
    <3> QED BY <2>0
  <2>2. b * c = b * u + b + b * k /\ b * k \in Nat /\ b * u \in Nat
    BY <2>1
  <2> QED
    BY <1>3, <2>2
<1>9. a = (b * c) * t + (b * u + r)
  <2>1. b * q = b * (c * t) + b * u
    BY <1>6
  <2>2. b * (c * t) = (b * c) * t
    BY Z3
  <2>3. b * q \in Nat /\ b * u \in Nat /\ (b * c) * t \in Nat
    BY Z3
  <2> QED
    BY <1>3, <2>1, <2>2, <2>3
<1> DEFINE m == b * c
           s == b * u + r
<1>10. a = m * t + s /\ m \in Nat \ {0} /\ s \in Nat /\ s < m
  BY <1>7, <1>8, <1>9
<1> HIDE DEF m, s
<1>11. a \div m = t
  BY <1>10, DivIs
<1> QED
  BY <1>1, <1>4, <1>11 DEF m

LEMMA LoadType ==
    ASSUME TypeOK, NEW p \in DOMAIN tree, Seconds(p) # 0
    PROVE  Load(p) \in Nat
<1>1. ClockMod \in Nat \ {0} /\ Sec \in Nat \ {0} /\ hz \in Nat \ {0}
  BY ScanAssumption DEF ScanAssumption
<1>2. tm \in Nat /\ tree[p].tm \in Nat /\ stat.time \in Nat /\ tree[p].time \in Nat
  BY DEF TypeOK, ScanType, KeptType
<1>3. Seconds(p) \in Nat
  BY <1>1, <1>2, ModType, DivType DEF Seconds
<1>4. (100 * (stat.time - tree[p].time)) % ClockMod \in Nat
  BY <1>1, <1>2, ModType
<1> QED
  BY <1>1, <1>3, <1>4, DivType DEF Load

-----------------------------------------------------------------------------
(* Types. *)

LEMMA TimeNext == TimeType /\ [Next]_vars => TimeType'
<1> USE ScanAssumption, PeriodType DEF ScanAssumption, TimeType, NextRun
<1> SUFFICES ASSUME TimeType, [Next]_vars PROVE TimeType'
  OBVIOUS
<1>1. CASE Scandir \/ ScandirFails \/ Relaunch
  BY <1>1 DEF Scandir, ScandirFails, Relaunch, timeVars
<1>2. CASE Tick
  BY <1>2 DEF Tick, agentVars
<1>3. CASE ClockStep
  BY <1>3 DEF ClockStep, agentVars
<1>4. CASE UNCHANGED <<timeVars, nextRun, failures>>
  BY <1>4 DEF timeVars
<1> QED
  BY <1>1, <1>2, <1>3, <1>4
  DEF Next, Agent, System, vars, agentVars, ReadClock, GetStat, GetStatFails, GetStatus,
      GetStatusFails, AddProcess, DivideByZero, GarbageCollect, Exec, Exit, Run, Done

LEMMA ProcNext == ScanType /\ ProcType /\ [Next]_vars => ProcType'
<1> USE ScanAssumption DEF ScanAssumption, ProcType
<1> SUFFICES ASSUME ScanType, ProcType, [Next]_vars PROVE ProcType'
  OBVIOUS
<1>1. CASE \E p \in Pid : Exec(p)
  BY <1>1 DEF Exec
<1>2. CASE \E p \in Pid : Exit(p)
  BY <1>2 DEF Exit
<1>3. CASE \E p \in Pid : Run(p)
  <2>1. PICK p \in Pid : Run(p)
    BY <1>3
  <2>2. used[proc[p]] \in Nat /\ used[proc[p]] + Work \in Nat
    BY <2>1 DEF Run, Process
  <2> QED
    BY <2>1, <2>2 DEF Run
<1>4. CASE GetStatus
  <2>1. UNCHANGED <<born, used>>
    BY <1>4 DEF GetStatus
  <2>2. proc' = proc \/ proc' = [proc EXCEPT ![Current] = 0]
    BY <1>4 DEF GetStatus
  <2> QED
    BY <2>1, <2>2
<1>5. CASE UNCHANGED procVars
  BY <1>5 DEF procVars
<1> QED
  BY <1>1, <1>2, <1>3, <1>4, <1>5
  DEF Next, Agent, System, vars, Scandir, ScandirFails, ReadClock, GetStat, GetStatFails,
      GetStatusFails, AddProcess, DivideByZero, GarbageCollect, Relaunch, Tick, ClockStep,
      Done

LEMMA KeptNext == TypeOK /\ [Next]_vars => KeptType'
<1> SUFFICES ASSUME TypeOK, [Next]_vars PROVE KeptType'
  OBVIOUS
<1> USE DEF KeptType
<1>1. CASE AddProcess
  <2>1. Current \in Pid
    BY <1>1, CurrentType DEF AddProcess, TypeOK, ScanType
  <2>2. /\ [time |-> stat.time, tm |-> tm] \in [time : Nat, tm : Nat]
        /\ [id |-> stat.id, time |-> stat.time, at |-> at.now, scan |-> scans,
            sets |-> at.sets] \in Seen
    BY DEF TypeOK, ScanType, Seen
  <2>3. DOMAIN tree' = DOMAIN tree \cup {Current}
        /\ tree' \in [DOMAIN tree' -> [time : Nat, tm : Nat]]
    BY <1>1, <2>2 DEF AddProcess, TypeOK
  <2>4. seen' \in [Pid -> Seen]
    BY <1>1, <2>1, <2>2 DEF AddProcess, TypeOK
  <2> QED
    BY <1>1, <2>1, <2>3, <2>4 DEF AddProcess, TypeOK
<1>2. CASE GarbageCollect
  BY <1>2 DEF GarbageCollect, TypeOK
<1>3. CASE Relaunch
  <2>1. Never \in Seen
    BY ScanAssumption DEF ScanAssumption, Never, Seen
  <2> QED
    BY <1>3, <2>1 DEF Relaunch, TypeOK
<1>4. CASE ReadClock
  BY <1>4 DEF ReadClock, TypeOK
<1>5. CASE UNCHANGED keptVars
  BY <1>5 DEF keptVars, TypeOK
<1> QED
  BY <1>1, <1>2, <1>3, <1>4, <1>5
  DEF Next, Agent, System, vars, agentVars, Scandir, ScandirFails, GetStat, GetStatFails,
      GetStatus, GetStatusFails, DivideByZero, Exec, Exit, Run, Tick, ClockStep, Done

LEMMA ScanNext == TypeOK /\ [Next]_vars => ScanType'
<1> SUFFICES ASSUME TypeOK, [Next]_vars PROVE ScanType'
  OBVIOUS
<1> USE DEF ScanType, TypeOK
<1>0. MaxSets \in Nat /\ MaxBorn \in Nat
  BY ScanAssumption DEF ScanAssumption
<1>1. CASE Scandir
  BY <1>1 DEF Scandir, ProcType
<1>2. CASE ReadClock
  <2>1. cdtime \in Nat
    BY ScanAssumption DEF ScanAssumption, cdtime, TimeType
  <2> QED
    BY <1>2, <2>1 DEF ReadClock, TimeType
<1>3. CASE GetStat
  <2>1. proc[Current] \in 0..MaxBorn /\ proc[Current] # 0
    BY <1>3, CurrentType DEF GetStat, StatRead, ProcType
  <2>2. used[proc[Current]] \in Nat
    BY <1>0, <2>1 DEF ProcType, Process
  <2> QED
    BY <1>3, <2>1, <2>2 DEF GetStat
<1>4. CASE GetStatus
  <2>1. proc[Current] \in 0..MaxBorn
    BY <1>4, CurrentType DEF GetStatus, ProcType
  <2> QED
    BY <1>4, <2>1 DEF GetStatus
<1>5. CASE GetStatFails \/ GetStatusFails
  BY <1>5 DEF GetStatFails, GetStatusFails, NextName
<1>6. CASE AddProcess
  <2>1. Current \in Pid
    BY <1>6, CurrentType DEF AddProcess
  <2>2. ComputeLoad(Current) \in Nat
    BY <1>6, LoadType DEF AddProcess, ComputeLoad
  <2>3. proc[Current] \in 0..MaxBorn /\ seen[Current] \in Seen
    BY <2>1 DEF ProcType, KeptType
  <2> QED
    BY <1>6, <2>1, <2>2, <2>3 DEF AddProcess, Cmdline, NextName
<1>7. CASE DivideByZero
  BY <1>7 DEF DivideByZero
<1>8. CASE GarbageCollect \/ Relaunch
  BY <1>0, <1>8 DEF GarbageCollect, Relaunch, FreeBuffers
<1>9. CASE UNCHANGED scanVars
  BY <1>9 DEF scanVars
<1> QED
  BY <1>1, <1>2, <1>3, <1>4, <1>5, <1>6, <1>7, <1>8, <1>9
  DEF Next, Agent, System, vars, agentVars, ScandirFails, Exec, Exit, Run, Tick, ClockStep,
      Done

LEMMA TypeInit == Init => TypeOK
<1> SUFFICES ASSUME Init PROVE TypeOK
  OBVIOUS
<1> USE ScanAssumption, PeriodType DEF ScanAssumption, Init
<1>1. TimeType
  BY DEF TimeType
<1>2. ScanType
  BY DEF ScanType
<1>3. KeptType
  BY DEF KeptType, Never, Seen
<1>4. ProcType
  BY DEF ProcType
<1> QED
  BY <1>1, <1>2, <1>3, <1>4 DEF TypeOK

(* Every variable keeps its type; the loop has a number while it reads one; *)
(* no load is negative, whatever the clock did.                             *)
THEOREM TypeCorrect == Spec => []TypeOK
<1>1. TypeOK /\ [Next]_vars => TypeOK'
  BY TimeNext, ProcNext, KeptNext, ScanNext DEF TypeOK
<1> QED
  BY <1>1, TypeInit, PTL DEF Spec

-----------------------------------------------------------------------------
(* The processes, and what a scan says of them.                             *)

(* A process has one number. *)
OneNumber == \A p, q \in Pid : proc[p] = proc[q] /\ proc[p] # 0 => p = q

(* Those that were started are those up to born. *)
Born == listed <= born /\ \A p \in Pid : proc[p] <= born

(* What *stat is about still has the number the loop is at, or has ended;   *)
(* who has the number otherwise was started after the list was made.        *)
StatIsCurrent ==
    pc \in {"status", "add"} =>
        /\ stat.id # 0 /\ stat.id <= born
        /\ \A p \in Pid : proc[p] = stat.id => p = Current
        /\ proc[Current] \in {0, stat.id} \/ proc[Current] > listed

(* So is *status, unless the process has ended. *)
StatusIsCurrent == pc = "add" => status = stat.id \/ ~Alive(stat.id)

(* A sample is of a process that was started. *)
SamplesBorn == \A s \in samples : s.id <= born

(* A process of the list is still to be read, or was. *)
ToReadOrRead ==
    pc \in {"clock", "stat", "status", "add"} =>
        \A p \in Pid : proc[p] \in (1..listed) \ Spaced =>
            p \in names \/ \E s \in samples : s.id = proc[p]

ScanInv ==
    /\ TypeOK /\ OneNumber /\ Born /\ StatIsCurrent /\ StatusIsCurrent
    /\ SamplesBorn /\ ToReadOrRead /\ FieldsAreItsOwn

(* The steps that leave the scan alone, and the other ones. *)
Quiet == UNCHANGED <<scanVars, proc, born>>

LEMMA QuietOrNot ==
    [Next]_vars =>
        \/ Scandir \/ ReadClock \/ GetStat \/ GetStatFails \/ GetStatus
        \/ GetStatusFails \/ AddProcess \/ DivideByZero \/ GarbageCollect \/ Relaunch
        \/ (\E p \in Pid : Exec(p) \/ Exit(p)) \/ Quiet
BY DEF Next, Agent, System, vars, Quiet, ScandirFails, Run, Tick, ClockStep, Done,
      agentVars, procVars

(* What a step of the system does to who has which number. *)
LEMMA ProcStep ==
    ASSUME TypeOK, OneNumber, Born, [Next]_vars
    PROVE  /\ born' \in Nat /\ born <= born'
           /\ \A p \in Pid : proc'[p] \in {0, proc[p]} \/ (proc'[p] = born' /\ born < born')
           /\ OneNumber'
           /\ \A p \in Pid : proc'[p] <= born'
<1>0. /\ proc \in [Pid -> 0..MaxBorn] /\ born \in Nat /\ MaxBorn \in Nat
      /\ names \subseteq Pid /\ \A p \in Pid : proc[p] <= born /\ proc[p] \in Nat
  BY ScanAssumption DEF ScanAssumption, TypeOK, ProcType, ScanType, Born
<1>1. ASSUME NEW p \in Pid, Exec(p) PROVE born' = born + 1 /\ proc' = [proc EXCEPT ![p] = born + 1]
  BY <1>1 DEF Exec
<1>2. CASE \E p \in Pid : Exec(p)
  BY <1>0, <1>1, <1>2 DEF OneNumber
<1>3. CASE \E p \in Pid : Exit(p)
  BY <1>0, <1>3 DEF Exit, OneNumber
<1>4. CASE GetStatus
  <2>1. Current \in Pid
    BY <1>0, <1>4, CurrentType DEF GetStatus, TypeOK, ScanType
  <2>2. born' = born /\ (proc' = proc \/ proc' = [proc EXCEPT ![Current] = 0])
    BY <1>4 DEF GetStatus
  <2> QED
    BY <1>0, <2>1, <2>2 DEF OneNumber
<1>5. CASE UNCHANGED <<proc, born>>
  BY <1>0, <1>5 DEF OneNumber
<1> QED
  BY <1>2, <1>3, <1>4, <1>5, QuietOrNot
  DEF Quiet, Scandir, ReadClock, GetStat, GetStatFails, GetStatusFails, AddProcess,
      DivideByZero, GarbageCollect, Relaunch, procVars

(* Who is dead stays so. *)
LEMMA DeadStays ==
    ASSUME TypeOK, OneNumber, Born, [Next]_vars,
           NEW i \in Nat \ {0}, i <= born, ~Alive(i)
    PROVE  ~Alive(i)'
<1>1. born \in Nat
  BY DEF TypeOK, ProcType
<1> QED
  BY <1>1, ProcStep DEF Alive

LEMMA BornNext == TypeOK /\ OneNumber /\ Born /\ [Next]_vars => Born'
<1> SUFFICES ASSUME TypeOK, OneNumber, Born, [Next]_vars PROVE Born'
  OBVIOUS
<1>1. listed' \in {0, listed, born}
  BY QuietOrNot
  DEF Quiet, scanVars, Scandir, ReadClock, GetStat, GetStatFails, GetStatus, GetStatusFails,
      AddProcess, DivideByZero, GarbageCollect, Relaunch, FreeBuffers, Exec, Exit, agentVars
<1>2. listed \in Nat /\ born \in Nat /\ listed <= born
  BY DEF TypeOK, ScanType, ProcType, Born
<1> QED
  BY <1>1, <1>2, ProcStep DEF Born

LEMMA StatNext ==
    TypeOK /\ OneNumber /\ Born /\ StatIsCurrent /\ [Next]_vars => StatIsCurrent'
<1> SUFFICES ASSUME TypeOK, OneNumber, Born, StatIsCurrent, [Next]_vars
             PROVE  StatIsCurrent'
  OBVIOUS
<1>0. /\ born \in Nat /\ listed \in Nat /\ listed <= born /\ stat.id \in Nat
      /\ \A p \in Pid : proc[p] \in Nat /\ proc[p] <= born
  BY DEF TypeOK, ProcType, ScanType, Born
<1>1. CASE GetStat
  <2>1. /\ Current \in Pid /\ Current' = Current /\ stat'.id = proc[Current]
        /\ proc[Current] # 0 /\ UNCHANGED <<proc, born, listed>>
    BY <1>1, CurrentType DEF GetStat, StatRead, TypeOK, ScanType, Current, procVars
  <2> QED
    BY <1>0, <2>1 DEF OneNumber, StatIsCurrent
<1>2. CASE pc' \in {"status", "add"} /\ pc \in {"status", "add"} /\ UNCHANGED <<names, stat, listed>>
  <2>1. Current' = Current /\ Current \in Pid
    BY <1>2, CurrentType DEF Current, TypeOK, ScanType
  <2>2. \A p \in Pid : proc'[p] = stat.id => p = Current
    BY <1>0, <1>2, ProcStep DEF StatIsCurrent
  <2>3. proc'[Current] \in {0, stat.id} \/ proc'[Current] > listed
    BY <1>0, <1>2, <2>1, ProcStep DEF StatIsCurrent
  <2>4. stat.id <= born'
    BY <1>0, <1>2, ProcStep DEF StatIsCurrent
  <2> QED
    BY <1>2, <2>1, <2>2, <2>3, <2>4 DEF StatIsCurrent
<1>3. CASE pc' \notin {"status", "add"}
  BY <1>3 DEF StatIsCurrent
<1> QED
  BY <1>1, <1>2, <1>3, QuietOrNot
  DEF Quiet, scanVars, Scandir, ReadClock, GetStatFails, GetStatus, GetStatusFails, NextName,
      AddProcess, DivideByZero, GarbageCollect, Relaunch, FreeBuffers, Exec, Exit, agentVars

LEMMA StatusNext ==
    /\ TypeOK /\ OneNumber /\ Born /\ StatIsCurrent /\ StatusIsCurrent /\ [Next]_vars
    => StatusIsCurrent'
<1> SUFFICES ASSUME TypeOK, OneNumber, Born, StatIsCurrent, StatusIsCurrent, [Next]_vars
             PROVE  StatusIsCurrent'
  OBVIOUS
<1>0. proc \in [Pid -> 0..MaxBorn] /\ stat.id \in Nat /\ MaxBorn \in Nat
  BY ScanAssumption DEF ScanAssumption, TypeOK, ProcType, ScanType
<1>1. CASE GetStatus
  <2>1. /\ stat' = stat /\ pc = "status" /\ proc[Current] # 0
        /\ \/ status' = proc[Current] /\ UNCHANGED proc
           \/ proc' = [proc EXCEPT ![Current] = 0]
    BY <1>1 DEF GetStatus
  <2>2. CASE status' = proc[Current] /\ UNCHANGED proc
    BY <2>1, <2>2 DEF StatIsCurrent, StatusIsCurrent, Alive
  <2>3. CASE proc' = [proc EXCEPT ![Current] = 0]
    BY <1>0, <2>1, <2>3 DEF StatIsCurrent, StatusIsCurrent, Alive
  <2> QED
    BY <2>1, <2>2, <2>3
<1>2. CASE pc = "add" /\ pc' = "add" /\ UNCHANGED <<stat, status>>
  <2>1. stat.id # 0 /\ stat.id <= born
    BY <1>2 DEF StatIsCurrent
  <2>2. ~Alive(stat.id) => ~Alive(stat.id)'
    BY <1>2, <2>1, ProcStep, <1>0 DEF Alive, TypeOK, ProcType
  <2> QED
    BY <1>2, <2>2 DEF StatusIsCurrent, Alive
<1>3. CASE pc' # "add"
  BY <1>3 DEF StatusIsCurrent
<1> QED
  BY <1>1, <1>2, <1>3, QuietOrNot
  DEF Quiet, scanVars, Scandir, ReadClock, GetStat, GetStatFails, GetStatusFails, NextName,
      AddProcess, DivideByZero, GarbageCollect, Relaunch, Exec, Exit, agentVars

(* What AddProcess adds. *)
LEMMA AddEffect ==
    ASSUME TypeOK, AddProcess
    PROVE  \E new :
             /\ samples' = samples \cup {new}
             /\ new.id = stat.id /\ new.status = status /\ new.cmdline = proc[Current]
             /\ Current \in names /\ Current \in Pid /\ names' = names \ {Current}
             /\ pc = "add" /\ pc' = "stat" /\ UNCHANGED <<proc, born, listed>>
<1>1. Current \in names /\ Current \in Pid
  BY CurrentType DEF AddProcess, TypeOK, ScanType
<1>2. /\ names' = names \ {Current} /\ pc = "add" /\ pc' = "stat"
      /\ UNCHANGED <<proc, born, listed>>
  BY DEF AddProcess, NextName, procVars
<1> DEFINE new == [pid |-> Current, id |-> stat.id, time |-> stat.time, status |-> status,
                   cmdline |-> proc[Current], load |-> ComputeLoad(Current),
                   before |-> seen[Current]]
<1>3. samples' = samples \cup {new}
  BY DEF AddProcess, Cmdline
<1>4. new.id = stat.id /\ new.status = status /\ new.cmdline = proc[Current]
  OBVIOUS
<1> HIDE DEF new
<1> QED
  BY <1>1, <1>2, <1>3, <1>4

LEMMA SamplesNext ==
    /\ TypeOK /\ OneNumber /\ Born /\ StatIsCurrent /\ SamplesBorn /\ [Next]_vars
    => SamplesBorn'
<1> SUFFICES ASSUME TypeOK, OneNumber, Born, StatIsCurrent, SamplesBorn, [Next]_vars
             PROVE  SamplesBorn'
  OBVIOUS
<1>0. born \in Nat /\ born' \in Nat /\ born <= born' /\ \A s \in samples : s.id \in Nat
  BY ProcStep DEF TypeOK, ProcType, ScanType
<1>1. CASE AddProcess
  BY <1>0, <1>1, AddEffect DEF StatIsCurrent, SamplesBorn
<1>2. CASE samples' \in {samples, {}}
  BY <1>0, <1>2 DEF SamplesBorn
<1> QED
  BY <1>1, <1>2, QuietOrNot
  DEF Quiet, scanVars, Scandir, ReadClock, GetStat, GetStatFails, GetStatus, GetStatusFails,
      DivideByZero, GarbageCollect, Relaunch, FreeBuffers, Exec, Exit, agentVars

LEMMA FieldsNext ==
    /\ TypeOK /\ OneNumber /\ Born /\ StatIsCurrent /\ StatusIsCurrent /\ SamplesBorn
    /\ FieldsAreItsOwn /\ [Next]_vars
    => FieldsAreItsOwn'
<1> SUFFICES ASSUME TypeOK, OneNumber, Born, StatIsCurrent, StatusIsCurrent, SamplesBorn,
                    FieldsAreItsOwn, [Next]_vars
             PROVE  FieldsAreItsOwn'
  OBVIOUS
<1>0. \A s \in samples : s.id \in Nat \ {0} /\ s.id <= born
  BY DEF TypeOK, ScanType, FieldsAreItsOwn, SamplesBorn
<1>1. CASE AddProcess
  <2>1. PICK new :
          /\ samples' = samples \cup {new}
          /\ new.id = stat.id /\ new.status = status /\ new.cmdline = proc[Current]
          /\ pc = "add" /\ proc' = proc
    BY <1>1, AddEffect
  <2>2. stat.id # 0 /\ \A p \in Pid : proc[p] = stat.id => p = Current
    BY <2>1 DEF StatIsCurrent
  <2>3. ~Alive(stat.id) \/ proc[Current] = stat.id
    BY <2>2 DEF Alive
  <2> QED
    BY <2>1, <2>2, <2>3 DEF FieldsAreItsOwn, StatusIsCurrent, Alive
<1>2. CASE samples' = samples
  <2>1. \A s \in samples : ~Alive(s.id) => ~Alive(s.id)'
    BY <1>0, ProcStep DEF Alive, TypeOK, ProcType
  <2> QED
    BY <1>2, <2>1 DEF FieldsAreItsOwn, Alive
<1>3. CASE samples' = {}
  BY <1>3 DEF FieldsAreItsOwn
<1> QED
  BY <1>1, <1>2, <1>3, QuietOrNot
  DEF Quiet, scanVars, Scandir, ReadClock, GetStat, GetStatFails, GetStatus, GetStatusFails,
      DivideByZero, GarbageCollect, Relaunch, FreeBuffers, Exec, Exit, agentVars

LEMMA ReadNext ==
    TypeOK /\ OneNumber /\ Born /\ StatIsCurrent /\ ToReadOrRead /\ [Next]_vars
    => ToReadOrRead'
<1> SUFFICES ASSUME TypeOK, OneNumber, Born, StatIsCurrent, ToReadOrRead, [Next]_vars
             PROVE  ToReadOrRead'
  OBVIOUS
<1>0. /\ born \in Nat /\ listed \in Nat /\ listed <= born /\ names \subseteq Pid
      /\ \A p \in Pid : proc[p] \in Nat
  BY DEF TypeOK, ProcType, ScanType, Born
<1>1. CASE Scandir
  BY <1>1, <1>0 DEF Scandir, procVars, ToReadOrRead
<1>2. CASE AddProcess
  <2>1. PICK new :
          /\ samples' = samples \cup {new} /\ new.id = stat.id
          /\ names' = names \ {Current} /\ pc = "add" /\ UNCHANGED <<proc, listed>>
    BY <1>2, AddEffect
  <2>2. proc[Current] \in (1..listed) \ Spaced => proc[Current] = stat.id
    BY <2>1, <1>0 DEF StatIsCurrent
  <2> QED
    BY <2>1, <2>2 DEF ToReadOrRead
<1>3. CASE GetStatFails \/ GetStatusFails
  <2>1. /\ names' = names \ {Current} /\ pc \in {"stat", "status"}
        /\ UNCHANGED <<proc, listed, samples>>
    BY <1>3 DEF GetStatFails, GetStatusFails, NextName, procVars
  <2>2. proc[Current] \notin (1..listed) \ Spaced
    BY <1>0, <1>3 DEF GetStatFails, GetStatusFails, StatRead
  <2> QED
    BY <2>1, <2>2 DEF ToReadOrRead
<1>4. CASE UNCHANGED <<names, listed, samples>> /\ pc \in {"clock", "stat", "status", "add"}
  <2>1. \A p \in Pid : proc'[p] \in 1..listed => proc'[p] = proc[p]
    BY <1>0, ProcStep
  <2> QED
    BY <1>4, <2>1 DEF ToReadOrRead
<1>5. CASE ReadClock
  BY <1>5 DEF ReadClock, ToReadOrRead, procVars
<1>6. CASE pc' \notin {"clock", "stat", "status", "add"}
  BY <1>6 DEF ToReadOrRead
<1>7. CASE UNCHANGED <<pc, names, listed, samples>>
  BY <1>4, <1>6, <1>7
<1> QED
  BY <1>1, <1>2, <1>3, <1>4, <1>5, <1>6, <1>7, QuietOrNot
  DEF Quiet, scanVars, GetStat, GetStatus, DivideByZero, GarbageCollect, Relaunch, Exec, Exit,
      agentVars

LEMMA ScanInvariant == Spec => []ScanInv
<1>1. Init => ScanInv
  <2> SUFFICES ASSUME Init PROVE ScanInv
    OBVIOUS
  <2>1. pc = "sleep" /\ samples = {} /\ listed = 0 /\ born = 0 /\ \A p \in Pid : proc[p] = 0
    BY DEF Init
  <2> QED
    BY <2>1, TypeInit
    DEF ScanInv, OneNumber, Born, StatIsCurrent, StatusIsCurrent, SamplesBorn, ToReadOrRead,
        FieldsAreItsOwn
<1>2. ScanInv /\ [Next]_vars => ScanInv'
  <2> SUFFICES ASSUME ScanInv, [Next]_vars PROVE ScanInv'
    OBVIOUS
  <2>1. TypeOK' /\ OneNumber' /\ Born'
    BY TimeNext, ProcNext, KeptNext, ScanNext, ProcStep, BornNext DEF ScanInv, TypeOK
  <2>2. StatIsCurrent' /\ StatusIsCurrent' /\ SamplesBorn'
    BY StatNext, StatusNext, SamplesNext DEF ScanInv
  <2>3. ToReadOrRead' /\ FieldsAreItsOwn'
    BY ReadNext, FieldsNext DEF ScanInv
  <2> QED
    BY <2>1, <2>2, <2>3 DEF ScanInv
<1> QED
  BY <1>1, <1>2, PTL DEF Spec

(* The fields of a sample are of one process, unless it ended while it was  *)
(* read, though *stat and *status are shared by all (read_process_info).    *)
THEOREM FieldsAreItsOwnAlways == Spec => []FieldsAreItsOwn
BY ScanInvariant, PTL DEF ScanInv

(* No process that lasts through a scan is missed by it, whichever others   *)
(* come and go, but those with a space in their name (read_process_info).   *)
THEOREM ScanCompleteAlways == Spec => []ScanComplete
<1>1. ScanInv => ScanComplete
  BY DEF ScanInv, ToReadOrRead, ScanComplete
<1> QED
  BY <1>1, ScanInvariant, PTL

-----------------------------------------------------------------------------
(* The clock.                                                               *)

Reading == pc \in {"stat", "status", "add", "dead"}

(* What is kept has the date of a clock that was not set since, if it was   *)
(* not.                                                                     *)
KeptDate(p) ==
    /\ seen[p].at <= now /\ seen[p].sets <= sets
    /\ seen[p].sets = sets => tree[p].tm = seen[p].at + MaxSkew - skew

(* So has this scan, and the difference of two dates is the time between.   *)
ScanDate ==
    /\ at.now <= now /\ at.sets <= sets
    /\ at.sets = sets => tm = at.now + MaxSkew - skew
    /\ at.now + Period <= nextRun + MaxLate
    /\ \A p \in DOMAIN tree :
         /\ seen[p].at <= at.now
         /\ seen[p].sets = at.sets => tm - tree[p].tm = at.now - seen[p].at

(* A number that is still to be read was last read an interval ago, or less *)
(* than that by what the timer was early and by what it took to list /proc. *)
ReadLately(p) ==
    /\ pc = "sleep" => seen[p].at + Period <= nextRun + MaxLate
    /\ pc = "clock" => seen[p].at + Period <= now + MaxLate + MaxEarly
    /\ Reading /\ p \in names => seen[p].at + Period <= at.now + MaxLate + MaxEarly

ClockInv ==
    /\ \A p \in DOMAIN tree : KeptDate(p) /\ ReadLately(p)
    /\ Reading => ScanDate
    /\ pc = "clock" => now + Period <= nextRun + MaxLate
    /\ DiesOnlyOfTheClock

(* What the steps below need of the types. *)
LEMMA ClockTypes ==
    TypeOK =>
        /\ now \in Nat /\ now <= MaxTime /\ skew \in Nat /\ sets \in Nat /\ nextRun \in Nat
        /\ MaxSkew \in Nat /\ MaxLate \in Nat /\ MaxEarly \in Nat /\ Period \in Nat /\ MaxTime \in Nat
        /\ tm \in Nat /\ at.now \in Nat /\ at.sets \in Nat
        /\ \A p \in DOMAIN tree :
             p \in Pid /\ seen[p].at \in Nat /\ seen[p].sets \in Nat /\ tree[p].tm \in Nat
BY ScanAssumption, PeriodType
DEF ScanAssumption, TypeOK, TimeType, ScanType, KeptType, Seen

(* A division by zero means less than a second between two dates. *)
LEMMA ZeroSeconds ==
    ASSUME TypeOK, NEW p \in DOMAIN tree, Seconds(p) = 0,
           NEW d \in Nat, tm - tree[p].tm = d, d <= MaxTime
    PROVE  d < Sec
<1>1. ClockMod \in Nat \ {0} /\ d < ClockMod /\ Sec \in Nat \ {0}
  BY ScanAssumption DEF ScanAssumption
<1>2. (tm - tree[p].tm) % ClockMod = d
  BY <1>1, SmallMod
<1>3. d \div Sec = 0
  BY <1>2 DEF Seconds
<1> QED
  BY <1>1, <1>3, SmallDiv

LEMMA DateStep ==
    ASSUME TypeOK, TypeOK', ClockInv, [Next]_vars
    PROVE  ClockInv'
<1> USE DEF ClockInv
<1>0. /\ now \in Nat /\ now <= MaxTime /\ skew \in Nat /\ sets \in Nat /\ nextRun \in Nat
      /\ MaxSkew \in Nat /\ MaxLate \in Nat /\ MaxEarly \in Nat /\ Period \in Nat /\ MaxTime \in Nat
      /\ tm \in Nat /\ at.now \in Nat /\ at.sets \in Nat
      /\ \A p \in DOMAIN tree :
           p \in Pid /\ seen[p].at \in Nat /\ seen[p].sets \in Nat /\ tree[p].tm \in Nat
  BY ClockTypes
<1> USE <1>0
<1>1. CASE Scandir
  <2>1. /\ pc = "sleep" /\ pc' = "clock" /\ now + MaxEarly >= nextRun /\ nextRun' = now + Period
        /\ UNCHANGED <<now, skew, sets, tree, seen>>
    BY <1>1 DEF Scandir, Due, NextRun, timeVars, keptVars
  <2> QED
    BY <2>1 DEF KeptDate, ReadLately, Reading, DiesOnlyOfTheClock
<1>2. CASE ScandirFails
  <2>1. /\ pc = "sleep" /\ pc' = "sleep" /\ now + MaxEarly >= nextRun /\ nextRun' = now + Period
        /\ UNCHANGED <<now, skew, sets, tree, seen>>
    BY <1>2 DEF ScandirFails, Due, NextRun, timeVars, keptVars, scanVars
  <2> QED
    BY <2>1 DEF KeptDate, ReadLately, Reading, DiesOnlyOfTheClock
<1>3. CASE ReadClock
  <2>1. /\ pc = "clock" /\ pc' = "stat" /\ tm' = now + MaxSkew - skew
        /\ at' = [now |-> now, sets |-> sets]
        /\ UNCHANGED <<now, skew, sets, nextRun, tree, seen>>
    BY <1>3 DEF ReadClock, cdtime, timeVars
  <2>2. at'.now = now /\ at'.sets = sets
    BY <2>1
  <2>3. ScanDate'
    BY <2>1, <2>2 DEF KeptDate, ScanDate
  <2> QED
    BY <2>1, <2>2, <2>3 DEF KeptDate, ReadLately, Reading, DiesOnlyOfTheClock
<1>4. CASE GetStat \/ GetStatFails \/ GetStatus \/ GetStatusFails
  <2>1. /\ Reading /\ pc' \in {"stat", "status", "add"} /\ names' \subseteq names
        /\ UNCHANGED <<now, skew, sets, nextRun, tree, seen, tm, at>>
    BY <1>4 DEF GetStat, GetStatFails, GetStatus, GetStatusFails, NextName, Reading, timeVars,
                keptVars
  <2> QED
    BY <2>1 DEF KeptDate, ScanDate, ReadLately, Reading, DiesOnlyOfTheClock
<1>5. CASE AddProcess
  <2>1. PICK c \in Pid : c = Current /\ c \in names
    BY <1>5, CurrentType DEF AddProcess, TypeOK, ScanType
  <2>2. /\ Reading /\ pc' = "stat" /\ names' = names \ {c}
        /\ DOMAIN tree' = DOMAIN tree \cup {c}
        /\ tree'[c].tm = tm /\ seen'[c].at = at.now /\ seen'[c].sets = at.sets
        /\ \A p \in DOMAIN tree \ {c} : tree'[p] = tree[p] /\ seen'[p] = seen[p]
        /\ UNCHANGED <<now, skew, sets, nextRun, tm, at>>
    BY <1>5, <2>1 DEF AddProcess, NextName, Reading, timeVars, TypeOK, KeptType
  <2>3. \A p \in DOMAIN tree' : KeptDate(p)' /\ ReadLately(p)'
    BY <2>1, <2>2 DEF KeptDate, ScanDate, ReadLately, Reading
  <2>4. ScanDate'
    BY <2>1, <2>2 DEF ScanDate
  <2> QED
    BY <2>2, <2>3, <2>4 DEF DiesOnlyOfTheClock
<1>6. CASE DivideByZero
  <2>1. /\ Reading /\ pc' = "dead" /\ Current \in DOMAIN tree /\ Seconds(Current) = 0
        /\ names # {}
        /\ UNCHANGED <<now, skew, sets, nextRun, names, tree, seen, tm, at>>
    BY <1>6 DEF DivideByZero, Reading, timeVars, keptVars, TypeOK, ScanType
  <2>2. PICK c \in DOMAIN tree : c = Current /\ c \in names
    BY <2>1, CurrentType
  <2>3. Current' = c
    BY <2>1, <2>2 DEF Current
  <2>4. ASSUME seen[c].sets = at.sets PROVE Period < Sec + MaxLate + MaxEarly
    <3>1. PICK d \in Nat : d = at.now - seen[c].at
      BY <2>1, <2>2 DEF ScanDate
    <3>2. tm - tree[c].tm = d /\ d <= MaxTime /\ Period <= d + MaxLate + MaxEarly
      BY <2>1, <2>2, <2>4, <3>1 DEF ScanDate, ReadLately
    <3>3. d < Sec
      BY <2>1, <2>2, <3>1, <3>2, ZeroSeconds
    <3> QED
      BY <3>1, <3>2, <3>3, ScanAssumption DEF ScanAssumption
  <2>5. DiesOnlyOfTheClock'
    BY <2>1, <2>3, <2>4 DEF DiesOnlyOfTheClock, Period
  <2> QED
    BY <2>1, <2>5 DEF KeptDate, ScanDate, ReadLately, Reading
<1>7. CASE GarbageCollect
  <2>1. /\ Reading /\ pc' = "sleep" /\ DOMAIN tree' \subseteq DOMAIN tree
        /\ \A p \in DOMAIN tree' : tree'[p] = tree[p]
        /\ UNCHANGED <<now, skew, sets, nextRun, seen>>
    BY <1>7 DEF GarbageCollect, Reading, timeVars
  <2> QED
    BY <2>1 DEF KeptDate, ScanDate, ReadLately, Reading, DiesOnlyOfTheClock
<1>8. CASE Relaunch
  <2>1. pc' = "sleep" /\ DOMAIN tree' = {}
    BY <1>8 DEF Relaunch
  <2> QED
    BY <2>1 DEF Reading, DiesOnlyOfTheClock
<1>9. CASE Tick
  <2>1. /\ now' = now + 1 /\ UNCHANGED <<skew, sets, nextRun, pc, names, tree, seen, tm, at>>
        /\ pc = "clock" => now < nextRun - Period + MaxLate
    BY <1>9 DEF Tick, agentVars, scanVars, keptVars
  <2>2. Current' = Current
    BY <2>1 DEF Current
  <2> QED
    BY <2>1, <2>2 DEF KeptDate, ScanDate, ReadLately, Reading, DiesOnlyOfTheClock
<1>10. CASE ClockStep
  <2>1. sets' = sets + 1 /\ UNCHANGED <<now, nextRun, pc, names, tree, seen, tm, at>>
    BY <1>10 DEF ClockStep, agentVars, scanVars, keptVars
  <2>2. Current' = Current
    BY <2>1 DEF Current
  <2> QED
    BY <2>1, <2>2 DEF KeptDate, ScanDate, ReadLately, Reading, DiesOnlyOfTheClock
<1>11. CASE UNCHANGED <<now, skew, sets, nextRun, pc, names, tree, seen, tm, at>>
  <2>1. Current' = Current
    BY <1>11 DEF Current
  <2> QED
    BY <1>11, <2>1 DEF KeptDate, ScanDate, ReadLately, Reading, DiesOnlyOfTheClock
<1> QED
  BY <1>1, <1>2, <1>3, <1>4, <1>5, <1>6, <1>7, <1>8, <1>9, <1>10, <1>11
  DEF Next, Agent, System, vars, agentVars, scanVars, keptVars, timeVars, Exec, Exit, Run, Done

LEMMA InitClock == Init => ClockInv
BY DEF Init, ClockInv, Reading, DiesOnlyOfTheClock

(* The agent dies of a division by zero only when the clock was set, or     *)
(* when the interval is not a second longer than what it may take to list   *)
(* /proc (prev_process_info__compute_load).                                 *)
THEOREM DiesOnlyOfTheClockAlways == Spec => []DiesOnlyOfTheClock
<1>1. TypeOK /\ TypeOK' /\ ClockInv /\ [Next]_vars => ClockInv'
  BY DateStep
<1>2. ClockInv => DiesOnlyOfTheClock
  BY DEF ClockInv
<1> QED
  BY InitClock, <1>1, <1>2, TypeCorrect, PTL DEF Spec

-----------------------------------------------------------------------------
(* The load.                                                                *)

(* The times of a process only grow, and what was seen of it is not more.   *)
TimesGrow ==
    /\ \A i \in Process : used[i] <= MaxWork
    /\ \A p \in Pid : seen[p].id # 0 => seen[p].time <= used[seen[p].id]
    /\ pc \in {"status", "add"} =>
         /\ stat.id # 0 /\ stat.time <= used[stat.id]
         /\ stat.id = seen[Current].id => seen[Current].time <= stat.time

(* What is kept of a number is its last sample, with the date of its scan.  *)
KeptIsSeen ==
    /\ \A p \in DOMAIN tree : seen[p].id # 0 /\ tree[p].time = seen[p].time
    /\ \A p \in Pid : seen[p].scan <= scans
    /\ Reading =>
         /\ \A p \in names : seen[p].scan < scans
         /\ \A p \in DOMAIN tree : seen[p].scan = scans => tree[p].tm = tm

(* The number was in the scan before, or in this one. *)
Recent(p) == seen[p].scan = scans \/ (Reading /\ seen[p].scan = scans - 1)

RecentIsKept == \A p \in Pid : seen[p].id # 0 /\ Recent(p) => p \in DOMAIN tree

(* Another one is kept only when the clock was set back.                    *)
KeptIsRecent ==
    \A p \in DOMAIN tree :
        /\ Reading => seen[p].sets <= at.sets
        /\ Reading /\ seen[p].scan < scans => seen[p].at + Period <= at.now + MaxLate + MaxEarly
        /\ Recent(p) \/ seen[p].sets < IF Reading THEN at.sets ELSE sets

SamplesOfScan == pc \in {"sleep", "clock"} => samples = {}

LoadInv ==
    /\ TimesGrow /\ KeptIsSeen /\ RecentIsKept /\ KeptIsRecent /\ SamplesOfScan
    /\ LoadIsItsOwn

(* What the steps below need of the types. *)
LEMMA LoadTypes ==
    TypeOK =>
        /\ names \subseteq Pid /\ DOMAIN tree \subseteq Pid /\ scans \in Nat
        /\ tm \in Nat /\ at.sets \in Nat /\ sets \in Nat /\ stat.time \in Nat
        /\ stat.id \in 0..MaxBorn
        /\ \A p \in Pid : /\ seen[p].id \in 0..MaxBorn /\ seen[p].time \in Nat
                          /\ seen[p].scan \in Nat /\ seen[p].sets \in Nat
                          /\ proc[p] \in 0..MaxBorn
        /\ \A i \in Process : used[i] \in Nat
        /\ Work \in Nat /\ MaxWork \in Nat /\ MaxBorn \in Nat
BY ScanAssumption
DEF ScanAssumption, TypeOK, TimeType, ScanType, KeptType, ProcType, Seen

LEMMA TimesNext ==
    ASSUME TypeOK, TypeOK', TimesGrow, [Next]_vars
    PROVE  TimesGrow'
<1>0. /\ names \subseteq Pid /\ stat.time \in Nat /\ stat.id \in 0..MaxBorn
      /\ \A p \in Pid : /\ seen[p].id \in 0..MaxBorn /\ seen[p].time \in Nat
                        /\ proc[p] \in 0..MaxBorn
      /\ \A i \in Process : used[i] \in Nat
      /\ Work \in Nat /\ MaxWork \in Nat /\ MaxBorn \in Nat
  BY LoadTypes
<1>1. CASE \E p \in Pid : Run(p)
  <2>1. PICK p \in Pid : Run(p)
    BY <1>1
  <2>2. /\ proc[p] \in Process /\ used[proc[p]] + Work <= MaxWork
        /\ used' = [used EXCEPT ![proc[p]] = @ + Work] /\ used \in [Process -> Nat]
        /\ UNCHANGED <<pc, stat, names, seen>>
    BY <1>0, <2>1 DEF Run, Process, agentVars, scanVars, keptVars, TypeOK, ProcType
  <2>3. \A i \in Process : used[i] <= used'[i] /\ used'[i] <= MaxWork
    BY <1>0, <2>2 DEF TimesGrow
  <2>4. ASSUME NEW q \in Pid, seen[q].id # 0 PROVE seen[q].time <= used'[seen[q].id]
    <3>1. seen[q].id \in Process
      BY <1>0, <2>4 DEF Process
    <3>2. used'[seen[q].id] \in Nat
      BY <3>1 DEF TypeOK, ProcType
    <3> QED
      BY <1>0, <2>3, <2>4, <3>1, <3>2 DEF TimesGrow
  <2>5. Current' = Current
    BY <2>2 DEF Current
  <2>6. ASSUME pc \in {"status", "add"} PROVE stat.time <= used'[stat.id]
    <3>1. stat.id \in Process
      BY <1>0, <2>6 DEF Process, TimesGrow
    <3>2. used'[stat.id] \in Nat
      BY <3>1 DEF TypeOK, ProcType
    <3> QED
      BY <1>0, <2>3, <2>6, <3>1, <3>2 DEF TimesGrow
  <2> QED
    BY <2>2, <2>3, <2>4, <2>5, <2>6 DEF TimesGrow
<1>2. CASE GetStat
  <2>1. /\ Current \in Pid /\ proc[Current] # 0 /\ pc' = "status"
        /\ stat'.id = proc[Current] /\ stat'.time = used[proc[Current]]
        /\ UNCHANGED <<names, seen, used>>
    BY <1>0, <1>2, CurrentType DEF GetStat, StatRead, keptVars, procVars
  <2>2. proc[Current] \in Process
    BY <1>0, <2>1 DEF Process
  <2>3. Current' = Current
    BY <2>1 DEF Current
  <2>4. stat'.id # 0 /\ stat'.time <= used'[stat'.id]
    BY <1>0, <2>1, <2>2
  <2>5. stat'.id = seen'[Current'].id => seen'[Current'].time <= stat'.time
    BY <2>1, <2>3 DEF TimesGrow
  <2> QED
    BY <2>1, <2>4, <2>5 DEF TimesGrow
<1>3. CASE AddProcess
  <2>1. PICK c \in Pid : c = Current
    BY <1>0, <1>3, CurrentType DEF AddProcess, TypeOK, ScanType
  <2>2. /\ pc = "add" /\ pc' = "stat" /\ used' = used
        /\ seen'[c].id = stat.id /\ seen'[c].time = stat.time
        /\ \A p \in Pid \ {c} : seen'[p] = seen[p]
    BY <1>3, <2>1 DEF AddProcess, NextName, procVars, TypeOK, KeptType
  <2> QED
    BY <2>1, <2>2 DEF TimesGrow
<1>4. CASE Relaunch
  <2>1. pc' = "sleep" /\ used' = used /\ \A p \in Pid : seen'[p].id = 0
    BY <1>4 DEF Relaunch, procVars, Never
  <2> QED
    BY <2>1 DEF TimesGrow
<1>5. CASE UNCHANGED <<seen, used>> /\ pc' \notin {"status", "add"}
  BY <1>5 DEF TimesGrow
<1>6. CASE /\ UNCHANGED <<seen, used, stat, names>>
           /\ pc' = pc \/ (pc = "status" /\ pc' = "add")
  <2>1. Current' = Current
    BY <1>6 DEF Current
  <2> QED
    BY <1>6, <2>1 DEF TimesGrow
<1> QED
  BY <1>1, <1>2, <1>3, <1>4, <1>5, <1>6
  DEF Next, Agent, System, vars, agentVars, scanVars, keptVars, procVars, Scandir, ScandirFails,
      ReadClock, GetStatFails, GetStatus, GetStatusFails, NextName, DivideByZero,
      GarbageCollect, Exec, Exit, Tick, ClockStep, Done

LEMMA SeenNext ==
    ASSUME TypeOK, TypeOK', TimesGrow, KeptIsSeen, RecentIsKept, [Next]_vars
    PROVE  KeptIsSeen' /\ RecentIsKept'
<1>0. /\ names \subseteq Pid /\ DOMAIN tree \subseteq Pid /\ scans \in Nat
      /\ tm \in Nat /\ \A p \in Pid : seen[p].scan \in Nat
  BY LoadTypes
<1> USE DEF KeptIsSeen, RecentIsKept, Recent, Reading
<1>1. CASE ReadClock
  <2>1. /\ pc = "clock" /\ pc' = "stat" /\ scans' = scans + 1 /\ UNCHANGED <<names, tree, seen>>
    BY <1>1 DEF ReadClock
  <2> QED
    BY <1>0, <2>1
<1>2. CASE AddProcess
  <2>1. PICK c \in Pid : c = Current /\ c \in names
    BY <1>0, <1>2, CurrentType DEF AddProcess, TypeOK, ScanType
  <2>2. /\ pc = "add" /\ pc' = "stat" /\ names' = names \ {c}
        /\ DOMAIN tree' = DOMAIN tree \cup {c} /\ UNCHANGED <<scans, tm>>
    BY <1>2, <2>1 DEF AddProcess, NextName, TypeOK, KeptType
  <2>3. tree'[c].tm = tm /\ tree'[c].time = stat.time
    BY <1>2, <2>1 DEF AddProcess
  <2>4. /\ seen'[c].id # 0 /\ seen'[c].time = stat.time /\ seen'[c].scan = scans
        /\ \A p \in Pid \ {c} : seen'[p] = seen[p]
    BY <1>2, <2>1 DEF AddProcess, TypeOK, KeptType, TimesGrow
  <2>5. \A p \in DOMAIN tree \ {c} : tree'[p] = tree[p]
    BY <1>2, <2>1 DEF AddProcess
  <2> HIDE DEF Recent
  <2>6. \A p \in DOMAIN tree' : seen'[p].id # 0 /\ tree'[p].time = seen'[p].time
    BY <1>0, <2>1, <2>2, <2>3, <2>4, <2>5
  <2>7. \A p \in Pid : seen'[p].scan <= scans'
    BY <1>0, <2>2, <2>4
  <2>8. /\ \A p \in names' : seen'[p].scan < scans'
        /\ \A p \in DOMAIN tree' : seen'[p].scan = scans' => tree'[p].tm = tm'
    BY <1>0, <2>1, <2>2, <2>3, <2>4, <2>5
  <2>9. ASSUME NEW p \in Pid, seen'[p].id # 0, Recent(p)' PROVE p \in DOMAIN tree'
    <3>1. CASE p # c
      BY <2>2, <2>4, <2>9, <3>1 DEF Recent
    <3> QED
      BY <2>2, <3>1
  <2> QED
    BY <2>2, <2>6, <2>7, <2>8, <2>9
<1>3. CASE GarbageCollect
  <2>1. /\ pc = "stat" /\ pc' = "sleep" /\ UNCHANGED <<scans, seen>>
        /\ DOMAIN tree' = {q \in DOMAIN tree : ~(tree[q].tm < tm)}
        /\ \A p \in DOMAIN tree' : tree'[p] = tree[p]
    BY <1>3 DEF GarbageCollect, Unused
  <2>2. ASSUME NEW p \in Pid, seen[p].id # 0, seen[p].scan = scans PROVE p \in DOMAIN tree'
    BY <1>0, <2>1, <2>2
  <2> QED
    BY <1>0, <2>1, <2>2
<1>4. CASE Relaunch
  <2>1. /\ pc' = "sleep" /\ DOMAIN tree' = {} /\ scans' = scans
        /\ \A p \in Pid : seen'[p].id = 0 /\ seen'[p].scan = 0
    BY <1>4 DEF Relaunch, Never
  <2> QED
    BY <1>0, <2>1
<1>5. CASE UNCHANGED <<tree, seen, scans>> /\ ~Reading /\ ~Reading'
  BY <1>5
<1>6. CASE UNCHANGED <<tree, seen, scans, tm>> /\ names' \subseteq names /\ Reading /\ Reading'
  BY <1>6
<1> QED
  BY <1>1, <1>2, <1>3, <1>4, <1>5, <1>6
  DEF Next, Agent, System, vars, agentVars, scanVars, keptVars, procVars, Scandir, ScandirFails,
      GetStat, GetStatFails, GetStatus, GetStatusFails, NextName, DivideByZero,
      Exec, Exit, Run, Tick, ClockStep, Done

LEMMA RecentNext ==
    ASSUME TypeOK, TypeOK', ClockInv, KeptIsSeen, KeptIsRecent, Period > MaxLate + MaxEarly, [Next]_vars
    PROVE  KeptIsRecent'
<1>0. /\ DOMAIN tree \subseteq Pid /\ scans \in Nat /\ now \in Nat /\ Period \in Nat
      /\ MaxLate \in Nat /\ MaxEarly \in Nat /\ tm \in Nat /\ at.now \in Nat /\ at.sets \in Nat /\ sets \in Nat
      /\ \A p \in Pid : seen[p].scan \in Nat /\ seen[p].sets \in Nat
      /\ \A p \in DOMAIN tree : seen[p].at \in Nat /\ tree[p].tm \in Nat
  BY LoadTypes, ClockTypes
<1> USE DEF KeptIsRecent, Recent, Reading
<1>1. CASE ReadClock
  <2>1. /\ pc = "clock" /\ pc' = "stat" /\ scans' = scans + 1
        /\ at'.now = now /\ at'.sets = sets /\ UNCHANGED <<sets, tree, seen>>
    BY <1>1 DEF ReadClock, timeVars
  <2>2. ASSUME NEW p \in DOMAIN tree
        PROVE  /\ seen[p].sets <= sets /\ seen[p].at + Period <= now + MaxLate + MaxEarly
               /\ seen[p].scan = scans \/ seen[p].sets < sets
    BY <2>1, <2>2 DEF ClockInv, KeptDate, ReadLately
  <2>3. ASSUME NEW p \in DOMAIN tree PROVE Recent(p)' \/ seen[p].sets < sets
    BY <1>0, <2>1, <2>2
  <2> QED
    BY <1>0, <2>1, <2>2, <2>3
<1>2. CASE AddProcess
  <2>1. PICK c \in Pid : c = Current /\ c \in names
    BY <1>2, CurrentType DEF AddProcess, TypeOK, ScanType
  <2>2. /\ pc = "add" /\ pc' = "stat" /\ DOMAIN tree' = DOMAIN tree \cup {c}
        /\ seen'[c].scan = scans /\ seen'[c].sets = at.sets
        /\ \A p \in Pid \ {c} : seen'[p] = seen[p]
        /\ UNCHANGED <<scans, at, sets>>
    BY <1>2, <2>1 DEF AddProcess, NextName, timeVars, TypeOK, KeptType
  <2>3. ASSUME NEW p \in DOMAIN tree', p # c
        PROVE  /\ seen'[p].sets <= at.sets
               /\ seen'[p].scan < scans => seen'[p].at + Period <= at.now + MaxLate + MaxEarly
               /\ Recent(p)' \/ seen'[p].sets < at.sets
    BY <1>0, <2>2, <2>3
  <2> QED
    BY <1>0, <2>2, <2>3
<1>3. CASE GarbageCollect
  <2>1. /\ pc = "stat" /\ pc' = "sleep" /\ UNCHANGED <<sets, scans, seen>>
        /\ DOMAIN tree' = {q \in DOMAIN tree : ~(tree[q].tm < tm)}
    BY <1>3 DEF GarbageCollect, Unused, timeVars
  <2>2. ASSUME NEW p \in DOMAIN tree, ~(tree[p].tm < tm), seen[p].scan # scans
        PROVE  seen[p].sets < sets
    <3>1. p \in Pid /\ seen[p].scan < scans
      BY <1>0, <2>2 DEF KeptIsSeen
    <3>2. seen[p].at + Period <= at.now + MaxLate + MaxEarly /\ seen[p].sets <= at.sets
      BY <2>1, <3>1
    <3>3. seen[p].sets = at.sets => tm - tree[p].tm = at.now - seen[p].at
      BY <2>1 DEF ClockInv, ScanDate
    <3>4. seen[p].sets # at.sets
      BY <1>0, <2>2, <3>2, <3>3
    <3>5. at.sets <= sets
      BY <2>1 DEF ClockInv, ScanDate
    <3> QED
      BY <1>0, <3>1, <3>2, <3>4, <3>5
  <2> QED
    BY <2>1, <2>2
<1>4. CASE Relaunch
  BY <1>4 DEF Relaunch
<1>5. CASE ClockStep
  <2>1. sets' = sets + 1 /\ UNCHANGED <<pc, scans, at, tree, seen>>
    BY <1>5 DEF ClockStep, agentVars, scanVars, keptVars
  <2> QED
    BY <1>0, <2>1
<1>6. CASE UNCHANGED <<tree, seen, scans, sets>> /\ ~Reading /\ ~Reading'
  BY <1>6
<1>7. CASE UNCHANGED <<tree, seen, scans, sets, at>> /\ Reading /\ Reading'
  BY <1>7
<1> QED
  BY <1>1, <1>2, <1>3, <1>4, <1>5, <1>6, <1>7
  DEF Next, Agent, System, vars, agentVars, scanVars, keptVars, procVars, timeVars, Scandir,
      ScandirFails, GetStat, GetStatFails, GetStatus, GetStatusFails, NextName, DivideByZero,
      Exec, Exit, Run, Tick, Done

LEMMA OfScanNext == SamplesOfScan /\ [Next]_vars => SamplesOfScan'
BY QuietOrNot
DEF SamplesOfScan, Quiet, scanVars, Scandir, ReadClock, GetStat, GetStatFails, GetStatus,
    GetStatusFails, AddProcess, NextName, DivideByZero, GarbageCollect, FreeBuffers, Relaunch,
    Exec, Exit, agentVars

(* The load that is computed is the one that is due. *)
LEMMA LoadIsDue ==
    ASSUME TypeOK, ClockInv, TimesGrow, KeptIsSeen, RecentIsKept, KeptIsRecent,
           pc = "add", NEW c \in Pid, c = Current, c \in names,
           c \in DOMAIN tree => Seconds(c) # 0,
           seen[c].sets = at.sets,
           ~(seen[c].id # stat.id /\ seen[c].scan = scans - 1),
           NEW s, s.before = seen[c], s.time = stat.time
    PROVE  ComputeLoad(c) = DueLoad(s)
<1>0. /\ scans \in Nat /\ seen[c].scan \in Nat /\ stat.time \in Nat /\ seen[c].time \in Nat
      /\ tm \in Nat /\ at.now \in Nat /\ stat.id \in 0..MaxBorn /\ MaxBorn \in Nat
      /\ hz \in Nat \ {0} /\ Sec \in Nat \ {0} /\ MaxWork \in Nat
      /\ \A i \in Process : used[i] \in Nat
  BY LoadTypes, ScanAssumption DEF TypeOK, ScanType, ScanAssumption
<1>1. seen[c].scan < scans
  BY DEF KeptIsSeen, Reading
<1>2. CASE c \notin DOMAIN tree
  <2>1. seen[c].id = 0 \/ seen[c].scan # scans - 1
    BY <1>2 DEF RecentIsKept, Recent, Reading
  <2>2. seen[c].id = 0 \/ seen[c].scan < scans - 1
    BY <1>0, <1>1, <2>1
  <2>3. s.before.id = 0 \/ s.before.scan < scans - 1
    BY <2>2
  <2> QED
    BY <1>2, <2>3 DEF ComputeLoad, DueLoad
<1>3. CASE c \in DOMAIN tree
  <2>1. seen[c].id # 0 /\ tree[c].time = seen[c].time
    BY <1>3 DEF KeptIsSeen
  <2>2. Recent(c)
    BY <1>0, <1>3, LoadTypes DEF KeptIsRecent, Reading
  <2>3. seen[c].scan = scans - 1
    BY <1>0, <1>1, <2>2 DEF Recent
  <2>4. seen[c].id = stat.id
    BY <2>3
  <2>5. seen[c].time <= stat.time /\ stat.time <= used[stat.id] /\ stat.id \in Process
    BY <1>0, <2>4 DEF TimesGrow, Process
  <2>6. used[stat.id] \in Nat /\ used[stat.id] <= MaxWork
    BY <1>0, <2>5 DEF TimesGrow
  <2>7. PICK w \in Nat : w = stat.time - seen[c].time /\ w <= MaxWork
    BY <1>0, <2>5, <2>6
  <2>8. (100 * w) % ClockMod = 100 * w /\ 100 * w \in Nat
    <3>1. 100 * w \in Nat /\ ClockMod \in Nat \ {0} /\ 100 * w < ClockMod
      BY <1>0, <2>7, ScanAssumption DEF ScanAssumption
    <3> QED
      BY <3>1, SmallMod
  <2>9. PICK d \in Nat : d = at.now - seen[c].at
    BY <1>0, <1>3, ClockTypes DEF ClockInv, ScanDate, Reading
  <2>10. tm - tree[c].tm = d /\ d < ClockMod /\ ClockMod \in Nat \ {0}
    <3>1. tm - tree[c].tm = d
      BY <1>3, <2>9 DEF ClockInv, ScanDate, Reading
    <3>2. at.now <= now /\ now <= MaxTime /\ now \in Nat /\ MaxTime \in Nat
          /\ seen[c].at \in Nat
      BY <1>3, ClockTypes DEF ClockInv, ScanDate, Reading
    <3>3. d <= MaxTime
      BY <1>0, <2>9, <3>2
    <3> QED
      BY <3>1, <3>2, <3>3, ScanAssumption DEF ScanAssumption
  <2>11. Seconds(c) = d \div Sec
    BY <2>10, SmallMod DEF Seconds
  <2>12. PICK n \in Nat \ {0} : n = d \div Sec
    BY <1>0, <1>3, <2>9, <2>11, DivType
  <2>13. Load(c) = ((100 * w) \div n) \div hz
    BY <2>1, <2>7, <2>8, <2>11, <2>12 DEF Load
  <2>14. ((100 * w) \div n) \div hz = (100 * w) \div (n * hz)
    BY <1>0, <2>8, <2>12, DivDiv
  <2>15. ~(s.before.id = 0 \/ s.before.scan < scans - 1)
    BY <1>0, <2>1, <2>3
  <2>16. DueLoad(s) = (100 * w) \div (n * hz)
    BY <2>7, <2>9, <2>12, <2>15 DEF DueLoad
  <2> QED
    BY <1>3, <2>13, <2>14, <2>16 DEF ComputeLoad
<1> QED
  BY <1>2, <1>3

LEMMA OwnLoadNext ==
    ASSUME TypeOK, TypeOK', ClockInv, LoadInv, Period > MaxLate + MaxEarly, [Next]_vars
    PROVE  LoadIsItsOwn'
<1>0. Period \in Nat /\ MaxLate \in Nat /\ MaxEarly \in Nat /\ Period' = Period
  BY ClockTypes DEF Period
<1>1. ASSUME NEW s \in samples
      PROVE  \/ s.before.sets # at.sets
             \/ s.before.id # s.id /\ s.before.scan = scans - 1
             \/ s.load = DueLoad(s)
  BY <1>0 DEF LoadInv, LoadIsItsOwn
<1>2. CASE samples' = samples /\ at' = at /\ scans' = scans
  <2>1. ASSUME NEW s \in samples PROVE DueLoad(s)' = DueLoad(s)
    BY <1>2 DEF DueLoad
  <2> QED
    BY <1>1, <1>2, <2>1 DEF LoadIsItsOwn
<1>3. CASE samples' = {}
  BY <1>3 DEF LoadIsItsOwn
<1>4. CASE AddProcess
  <2>1. PICK c \in Pid : c = Current /\ c \in names
    BY <1>4, CurrentType DEF AddProcess, TypeOK, ScanType
  <2> DEFINE new == [pid |-> c, id |-> stat.id, time |-> stat.time, status |-> status,
                     cmdline |-> Cmdline, load |-> ComputeLoad(c), before |-> seen[c]]
  <2>2. /\ samples' = samples \cup {new} /\ pc = "add" /\ UNCHANGED <<at, scans>>
        /\ c \in DOMAIN tree => Seconds(c) # 0
    BY <1>4, <2>1 DEF AddProcess
  <2>3. /\ new.before = seen[c] /\ new.time = stat.time /\ new.id = stat.id
        /\ new.load = ComputeLoad(c)
    OBVIOUS
  <2> HIDE DEF new
  <2>4. \/ new.before.sets # at.sets
        \/ new.before.id # new.id /\ new.before.scan = scans - 1
        \/ new.load = DueLoad(new)
    BY <2>1, <2>2, <2>3, LoadIsDue DEF LoadInv
  <2> QED
    BY <1>1, <2>2, <2>4 DEF LoadIsItsOwn, DueLoad
<1>5. CASE ReadClock
  <2>1. samples' = {}
    BY <1>5 DEF ReadClock, LoadInv, SamplesOfScan
  <2> QED
    BY <1>3, <2>1
<1> QED
  BY <1>2, <1>3, <1>4, <1>5
  DEF Next, Agent, System, vars, agentVars, scanVars, keptVars, procVars, timeVars, Scandir,
      ScandirFails, GetStat, GetStatFails, GetStatus, GetStatusFails, DivideByZero,
      GarbageCollect, FreeBuffers, Relaunch, Exec, Exit, Run, Tick, ClockStep, Done

(* The load of a process is its own, as long as the clock was not set and   *)
(* the interval is longer than what the timer may be early and listing      *)
(* /proc may take                                                           *)
(* (prev_process_info__compute_load, prev_process_info__garbage_collector). *)
THEOREM LoadIsItsOwnAlways == Spec => []LoadIsItsOwn
<1>1. CASE Period > MaxLate + MaxEarly
  <2>1. Init => ClockInv /\ LoadInv
    <3> SUFFICES ASSUME Init PROVE ClockInv /\ LoadInv
      OBVIOUS
    <3>1. ClockInv
      BY InitClock
    <3>2. \A i \in Process : used[i] <= MaxWork
      BY ScanAssumption DEF Init, ScanAssumption
    <3>3. \A p \in Pid : seen[p].id = 0 /\ seen[p].scan = 0
      BY DEF Init, Never
    <3> QED
      BY <3>1, <3>2, <3>3
      DEF Init, LoadInv, TimesGrow, KeptIsSeen, RecentIsKept, KeptIsRecent, SamplesOfScan,
          LoadIsItsOwn, Reading
  <2>2. TypeOK /\ TypeOK' /\ ClockInv /\ LoadInv /\ [Next]_vars => ClockInv' /\ LoadInv'
    <3> SUFFICES ASSUME TypeOK, TypeOK', ClockInv, LoadInv, [Next]_vars
                 PROVE  ClockInv' /\ LoadInv'
      OBVIOUS
    <3>1. TimesGrow /\ KeptIsSeen /\ RecentIsKept /\ KeptIsRecent /\ SamplesOfScan
      BY DEF LoadInv
    <3>2. ClockInv'
      BY DateStep
    <3>3. TimesGrow'
      BY <3>1, TimesNext
    <3>4. KeptIsSeen' /\ RecentIsKept'
      BY <3>1, SeenNext
    <3>5. KeptIsRecent'
      BY <1>1, <3>1, RecentNext
    <3>6. SamplesOfScan'
      BY <3>1, OfScanNext
    <3>7. LoadIsItsOwn'
      BY <1>1, OwnLoadNext
    <3> QED
      BY <3>2, <3>3, <3>4, <3>5, <3>6, <3>7 DEF LoadInv
  <2>3. LoadInv => LoadIsItsOwn
    BY DEF LoadInv
  <2> QED
    BY <2>1, <2>2, <2>3, TypeCorrect, PTL DEF Spec
<1>2. CASE ~(Period > MaxLate + MaxEarly)
  <2>1. LoadIsItsOwn
    BY <1>2, PeriodType, ScanAssumption DEF LoadIsItsOwn, ScanAssumption
  <2> QED
    BY <2>1, PTL
<1> QED
  BY <1>1, <1>2
=============================================================================
