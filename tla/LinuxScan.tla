----------------------------- MODULE LinuxScan -----------------------------
(***************************************************************************)
(* One scan of /proc by the Linux agent (read_process_info,                *)
(* agent-linux/src/get_process.c) and the load of a process between two    *)
(* scans (agent-linux/src/util_prev_process_info.c).                       *)
(*                                                                         *)
(* The scan lists the process numbers, reads the clock once, and for each  *)
(* number opens three files one after the other.  Processes start, end and *)
(* give their number to others between any two of these steps.  The        *)
(* buffers of a process are those of the one before it, and what is kept   *)
(* from one scan to the next is kept by number, with the wall clock.       *)
(*                                                                         *)
(* A process is known by its rank among all that were started, a number is *)
(* what the system calls it by.  Time is counted in parts of a second.     *)
(* The two times of a process go the same way, so one stands for both.     *)
(*                                                                         *)
(* A definition whose name ends in Mutant is the one that follows it with  *)
(* a bug: no part of the specification, but what a property is tried on.   *)
(***************************************************************************)
EXTENDS Integers

CONSTANTS
    Pid,          \* the process numbers
    Sec,          \* parts of a second
    Interval,     \* agent.interval, in seconds
    MaxLate,      \* parts that listing /proc may take
    MaxEarly,     \* parts a source that counts in seconds may be early
    hz,           \* sysconf(_SC_CLK_TCK)
    ClockMod,     \* 2^64: cdtime_t and unsigned long
    Spaced,       \* the processes with a space in their name
    Work,         \* ticks a process uses at a time
    MaxBorn,      \* bound: how many processes are started
    MaxWork,      \* bound: how many ticks a process uses
    MaxSkew,      \* bound: how far the clock may be set back
    MaxSets,      \* bound: how many times it is set
    MaxFailures,  \* bound: how many times /proc cannot be listed
    MaxTime       \* bound: where time stops

ASSUME PidAssumption == Pid \subseteq Nat \ {0}
ASSUME ScanAssumption ==
    /\ Sec \in Nat \ {0} /\ Interval \in Nat /\ MaxLate \in Nat /\ MaxEarly \in Nat
    /\ hz \in Nat \ {0} /\ Work \in Nat
    /\ MaxBorn \in Nat /\ MaxWork \in Nat /\ MaxSkew \in Nat
    /\ MaxSets \in Nat /\ MaxFailures \in Nat /\ MaxTime \in Nat
    /\ ClockMod \in Nat /\ ClockMod > MaxTime + MaxSkew /\ ClockMod > 100 * MaxWork

VARIABLES
    now,      \* monotonic time
    skew,     \* how far the wall clock is behind its initial setting
    sets,     \* how many times it was set
    nextRun,  \* when the timeout source is due
    failures, \* how many times scandir failed
    pc,       \* what the agent does next
    names,    \* the numbers of namelist still to read
    tm,       \* tm
    at,       \* history: when tm was read, and after how many settings
    stat,     \* *stat: whose it is, and its times
    status,   \* *status: whose it is, 0 when it was not read in this scan
    tree,     \* prev_process_info: number -> [time, tm]
    samples,  \* history: what this scan handed to process_info__add_process
    scans,    \* history: how many scans there were
    listed,   \* history: how many processes had been started by scandir
    seen,     \* history: the last sample of each number
    proc,     \* the process that has each number, or 0
    born,     \* how many processes were started
    used      \* ticks each process used

timeVars == <<now, skew, sets>>
scanVars == <<pc, names, tm, at, stat, status, samples, listed>>
keptVars == <<tree, scans, seen>>
procVars == <<proc, born, used>>
vars == <<timeVars, nextRun, failures, scanVars, keptVars, procVars>>

Process == 1..MaxBorn
Never == [id |-> 0, time |-> 0, at |-> 0, scan |-> 0, sets |-> 0]

Period == Interval * Sec

(* cdtime(). *)
cdtime == now + MaxSkew - skew

Init ==
    /\ now = 0 /\ skew = 0 /\ sets = 0 /\ nextRun = Period /\ failures = 0
    /\ pc = "sleep" /\ names = {} /\ tm = 0 /\ at = [now |-> 0, sets |-> 0]
    /\ stat = [id |-> 0, time |-> 0] /\ status = 0
    /\ samples = {} /\ listed = 0 /\ scans = 0
    /\ tree = [p \in {} |-> 0] /\ seen = [p \in Pid |-> Never]
    /\ proc = [p \in Pid |-> 0] /\ born = 0
    /\ used = [i \in Process |-> 0]

-----------------------------------------------------------------------------
(* The scan. *)

(* When the source is due again, once it is dispatched.  GLib brings the   *)
(* sources that count in seconds together in each second, and may call one *)
(* earlier for that, or any time later.                                    *)
NextRun == now + Period

Due == now + MaxEarly >= nextRun

(* The source is due: scandir. *)
Scandir ==
    /\ pc = "sleep" /\ Due
    /\ nextRun' = NextRun
    /\ pc' = "clock" /\ names' = {p \in Pid : proc[p] # 0} /\ listed' = born
    /\ UNCHANGED <<timeVars, failures, tm, at, stat, status, samples, keptVars, procVars>>

(* scandir fails: tm is 0, so nothing is collected either. *)
ScandirFails ==
    /\ pc = "sleep" /\ Due /\ failures < MaxFailures
    /\ nextRun' = NextRun /\ failures' = failures + 1
    /\ UNCHANGED <<timeVars, scanVars, keptVars, procVars>>

(* tm = cdtime(). *)
ReadClock ==
    /\ pc = "clock" /\ pc' = "stat"
    /\ tm' = cdtime /\ at' = [now |-> now, sets |-> sets] /\ scans' = scans + 1
    /\ UNCHANGED <<timeVars, nextRun, failures, names, stat, status, samples, listed,
                   tree, seen, procVars>>

(* The number the loop is at: the numbers come in the order of their texts *)
(* (alphasort), last one first, which is an order like another.            *)
Current == CHOOSE p \in names : TRUE

(* getStat returns 0 when the process is gone, and when its name has a     *)
(* space, which is not what %s reads.                                      *)
StatRead == proc[Current] # 0 /\ proc[Current] \notin Spaced

(* continue. *)
NextNameStopsMutant == names' = {} /\ pc' = "stat"

NextName == names' = names \ {Current} /\ pc' = "stat"

GetStat ==
    /\ pc = "stat" /\ names # {} /\ StatRead
    /\ stat' = [id |-> proc[Current], time |-> used[proc[Current]]]
    /\ pc' = "status"
    /\ UNCHANGED <<timeVars, nextRun, failures, names, tm, at, status, samples, listed,
                   keptVars, procVars>>

GetStatFailsGoesOnMutant ==
    /\ pc = "stat" /\ names # {} /\ ~StatRead
    /\ pc' = "status"
    /\ UNCHANGED <<timeVars, nextRun, failures, names, tm, at, stat, status, samples, listed,
                   keptVars, procVars>>

GetStatFails ==
    /\ pc = "stat" /\ names # {} /\ ~StatRead
    /\ NextName
    /\ UNCHANGED <<timeVars, nextRun, failures, tm, at, stat, status, samples, listed,
                   keptVars, procVars>>

(* getStatus returns 1 as soon as the file could be opened.  When the      *)
(* process ends before it is read, what *status held stays.                *)
GetStatus ==
    /\ pc = "status" /\ proc[Current] # 0
    /\ \/ status' = proc[Current] /\ UNCHANGED proc
       \/ proc' = [proc EXCEPT ![Current] = 0] /\ UNCHANGED status
    /\ pc' = "add"
    /\ UNCHANGED <<timeVars, nextRun, failures, names, tm, at, stat, samples, listed,
                   keptVars, born, used>>

GetStatusFails ==
    /\ pc = "status" /\ proc[Current] = 0
    /\ NextName
    /\ UNCHANGED <<timeVars, nextRun, failures, tm, at, stat, status, samples, listed,
                   keptVars, procVars>>

-----------------------------------------------------------------------------
(* prev_process_info__compute_load. *)

(* CDTIME_T_TO_TIME_T(tm - info->tm), unsigned. *)
SecondsHalvedMutant(p) == ((tm - tree[p].tm) % ClockMod) \div (2 * Sec)

Seconds(p) == ((tm - tree[p].tm) % ClockMod) \div Sec

(* The times are unsigned too. *)
LoadSignedMutant(p) == (100 * (stat.time - tree[p].time)) \div (Seconds(p) * hz)

Load(p) == (((100 * (stat.time - tree[p].time)) % ClockMod) \div Seconds(p)) \div hz

(* There is no previous sample: the load is 0, and the result -1, which is *)
(* not looked at.                                                          *)
ComputeLoad(p) == IF p \in DOMAIN tree THEN Load(p) ELSE 0

(* getCmdline: of the process that has the number now, none when it ended. *)
Cmdline == proc[Current]

(* The command line is read, the load is computed, and the sample goes to  *)
(* the cache.                                                              *)
AddProcess ==
    LET p == Current
    IN  /\ pc = "add"
        /\ p \in DOMAIN tree => Seconds(p) # 0
        /\ samples' = samples \cup
             {[pid |-> p, id |-> stat.id, time |-> stat.time, status |-> status,
               cmdline |-> Cmdline, load |-> ComputeLoad(p), before |-> seen[p]]}
        /\ tree' = [q \in DOMAIN tree \cup {p} |->
                      IF q = p THEN [time |-> stat.time, tm |-> tm] ELSE tree[q]]
        /\ seen' = [seen EXCEPT ![p] =
             [id |-> stat.id, time |-> stat.time, at |-> at.now, scan |-> scans,
              sets |-> at.sets]]
        /\ NextName
        /\ UNCHANGED <<timeVars, nextRun, failures, tm, at, stat, status, listed, scans,
                       procVars>>

(* The number of seconds is 0: the division kills the agent. *)
DivideByZero ==
    /\ pc = "add" /\ Current \in DOMAIN tree /\ Seconds(Current) = 0
    /\ pc' = "dead"
    /\ UNCHANGED <<timeVars, nextRun, failures, names, tm, at, stat, status, samples, listed,
                   keptVars, procVars>>

(* prev_process_info__check_unused. *)
UnusedNeverMutant(p) == FALSE

Unused(p) == tree[p].tm < tm

(* What the end of read_process_info frees. *)
FreeBuffers ==
    /\ tm' = 0 /\ at' = [now |-> 0, sets |-> 0]
    /\ stat' = [id |-> 0, time |-> 0] /\ status' = 0
    /\ samples' = {} /\ listed' = 0

(* prev_process_info__garbage_collector. *)
GarbageCollect ==
    /\ pc = "stat" /\ names = {}
    /\ tree' = [p \in {q \in DOMAIN tree : ~Unused(q)} |-> tree[p]]
    /\ pc' = "sleep" /\ FreeBuffers
    /\ UNCHANGED <<timeVars, nextRun, failures, names, scans, seen, procVars>>

(* The watchdog launches the agent again. *)
Relaunch ==
    /\ pc = "dead" /\ pc' = "sleep"
    /\ nextRun' = now + Period
    /\ tree' = [p \in {} |-> 0] /\ seen' = [p \in Pid |-> Never]
    /\ names' = {} /\ FreeBuffers
    /\ UNCHANGED <<timeVars, failures, scans, procVars>>

Agent == \/ Scandir \/ ScandirFails \/ ReadClock
         \/ GetStat \/ GetStatFails \/ GetStatus \/ GetStatusFails
         \/ AddProcess \/ DivideByZero \/ GarbageCollect \/ Relaunch

-----------------------------------------------------------------------------
(* The system. *)

agentVars == <<nextRun, failures, scanVars, keptVars>>

(* A process starts with a number nobody has. *)
Exec(p) ==
    /\ proc[p] = 0 /\ born < MaxBorn
    /\ born' = born + 1 /\ proc' = [proc EXCEPT ![p] = born + 1]
    /\ UNCHANGED <<timeVars, agentVars, used>>

Exit(p) ==
    /\ proc[p] # 0 /\ proc' = [proc EXCEPT ![p] = 0]
    /\ UNCHANGED <<timeVars, agentVars, born, used>>

Run(p) ==
    /\ proc[p] # 0 /\ used[proc[p]] + Work <= MaxWork
    /\ used' = [used EXCEPT ![proc[p]] = @ + Work]
    /\ UNCHANGED <<timeVars, agentVars, proc, born>>

(* Time passes; the list of /proc does not take longer than MaxLate. *)
Tick ==
    /\ now < MaxTime
    /\ pc = "clock" => now < nextRun - Period + MaxLate
    /\ now' = now + 1
    /\ UNCHANGED <<skew, sets, agentVars, procVars>>

ClockStep ==
    /\ sets < MaxSets /\ sets' = sets + 1
    /\ skew' \in (0..MaxSkew) \ {skew}
    /\ UNCHANGED <<now, agentVars, procVars>>

(* Time has stopped before the next scan. *)
Done ==
    /\ pc = "sleep" /\ now = MaxTime /\ ~Due
    /\ UNCHANGED vars

System == \/ \E p \in Pid : Exec(p) \/ Exit(p) \/ Run(p)
          \/ Tick \/ ClockStep \/ Done

Next == Agent \/ System

Spec == Init /\ [][Next]_vars

-----------------------------------------------------------------------------
(* Properties. *)

Alive(i) == \E p \in Pid : proc[p] = i

Seen == [id : 0..MaxBorn, time : Nat, at : Nat, scan : Nat, sets : 0..MaxSets]

TimeType ==
    /\ now \in 0..MaxTime /\ skew \in 0..MaxSkew /\ sets \in 0..MaxSets
    /\ nextRun \in Nat /\ failures \in 0..MaxFailures

ScanType ==
    /\ pc \in {"sleep", "clock", "stat", "status", "add", "dead"}
    /\ names \subseteq Pid /\ tm \in Nat /\ at \in [now : Nat, sets : 0..MaxSets]
    /\ pc \in {"status", "add", "dead"} => names # {}
    /\ stat \in [id : 0..MaxBorn, time : Nat] /\ status \in 0..MaxBorn
    /\ samples \subseteq [pid : Pid, id : 0..MaxBorn, time : Nat, status : 0..MaxBorn,
                          cmdline : 0..MaxBorn, load : Nat, before : Seen]
    /\ listed \in 0..MaxBorn

KeptType ==
    /\ DOMAIN tree \subseteq Pid /\ tree \in [DOMAIN tree -> [time : Nat, tm : Nat]]
    /\ scans \in Nat /\ seen \in [Pid -> Seen]

ProcType ==
    /\ proc \in [Pid -> 0..MaxBorn] /\ born \in 0..MaxBorn
    /\ used \in [Process -> Nat]

(* The type of every variable; the loop has a number while it reads one. *)
TypeOK == TimeType /\ ScanType /\ KeptType /\ ProcType

(* A process that was there when /proc was listed and is still there at    *)
(* the end of the loop is in the scan, whichever others came and went,     *)
(* unless its name has a space (the continues of read_process_info).       *)
ScanComplete ==
    pc = "stat" /\ names = {} =>
        \A p \in Pid :
            proc[p] \in (1..listed) \ Spaced => \E s \in samples : s.id = proc[p]

(* What a sample says is of one process, though the buffers are shared by  *)
(* all: a field of another can only be there when the process ended while  *)
(* it was read (the reuse of *stat and *status).                           *)
FieldsAreItsOwn ==
    \A s \in samples :
        /\ s.id # 0
        /\ (s.status = s.id /\ s.cmdline = s.id) \/ ~Alive(s.id)

(* The load that is due: none when the number was not in the scan before,  *)
(* and what its process used per second since then when it was.            *)
DueLoad(s) ==
    IF s.before.id = 0 \/ s.before.scan < scans - 1 THEN 0
    ELSE (100 * (s.time - s.before.time)) \div (((at.now - s.before.at) \div Sec) * hz)

(* The load of a process is its own: not of one that had its number        *)
(* earlier, unless that one was in the scan before, which the agent cannot *)
(* tell, as long as the clock was not set since, and the interval is       *)
(* longer than what the timer may be early and listing /proc may take      *)
(* (prev_process_info__compute_load and its collector).                    *)
LoadIsItsOwn ==
    \/ Period <= MaxLate + MaxEarly
    \/ \A s \in samples :
         \/ s.before.sets # at.sets
         \/ s.before.id # s.id /\ s.before.scan = scans - 1
         \/ s.load = DueLoad(s)

(* The division by the time between two scans kills the agent only when    *)
(* the clock was set, or the interval is not a second longer than what the *)
(* timer may be early and listing /proc may take                           *)
(* (prev_process_info__compute_load).                                      *)
DiesOnlyOfTheClock ==
    pc = "dead" =>
        \/ seen[Current].sets # at.sets
        \/ Period < Sec + MaxLate + MaxEarly
=============================================================================
