---------------------------- MODULE NodeProcess ----------------------------
(***************************************************************************)
(* The collecting side of the Windows agent                                *)
(* (agent-node/src/collectps_process.js): a timer starts a Powershell that *)
(* prints the processes, and what it prints is parsed as it comes.         *)
(*                                                                         *)
(* The end of a Powershell is told by four events, in more than one order, *)
(* and each of them flushes what was read and sends what was parsed, while *)
(* output may still be to come.  The process being parsed is a global of   *)
(* the module, and outlives the Powershell that printed it.                *)
(*                                                                         *)
(* A Powershell is known by its rank, which is also the date of its        *)
(* getInfo, and a process by its rank in the output.  What is printed of a *)
(* process is a separator, read in two halves, and its fields, read at     *)
(* once: a flush amid the fields costs no more than one of them.           *)
(*                                                                         *)
(* A definition whose name ends in Mutant is the one that follows it with  *)
(* a bug: no part of the specification, but what a property is tried on.   *)
(***************************************************************************)
EXTENDS Integers, Sequences

CONSTANTS
    MaxGetInfo,   \* bound: how many times a Powershell is started
    Printed       \* bound: how many processes one prints

ASSUME PrintedAssumption == MaxGetInfo \in Nat /\ Printed \in Nat

VARIABLES
    started,         \* how many times a Powershell was started
    powershell,      \* this.powershell, 0 when it is undefined
    events,          \* the events each Powershell is still to emit
    read,            \* how many parts of its output were read
    prevLine,        \* has it left the first half of a separator
    currentProcess,  \* the processes whose fields are in currentProcess
    processInfoQueue,\* this.processInfoQueue
    emitted,         \* history: the lists of processInfoAreParsed
    torn,            \* history: was a separator lost
    late             \* history: did one start while another had output to come

childVars == <<started, powershell, events, read, prevLine, late>>
parseVars == <<currentProcess, processInfoQueue, emitted, torn>>
processVars == <<childVars, parseVars>>

Scan == 1..MaxGetInfo
Event == {"exit", "end", "stdout close", "close"}
Process == Scan \X (1..Printed)
ProcessInfo == [of : SUBSET Process, cdtime : Scan]

Init ==
    /\ started = 0 /\ powershell = 0
    /\ events = [n \in Scan |-> {}] /\ read = [n \in Scan |-> 0]
    /\ prevLine = [n \in Scan |-> FALSE]
    /\ currentProcess = {} /\ processInfoQueue = <<>> /\ emitted = <<>>
    /\ torn = FALSE /\ late = FALSE

-----------------------------------------------------------------------------
(* parseData and sendProcessInfo. *)

(* The parts of the output: the halves of a separator, and the fields. *)
HalfSeparator(n) == read[n] < 3 * Printed /\ read[n] % 3 = 0
RestOfSeparator(n) == read[n] % 3 = 1
Fields(n) == read[n] % 3 = 2

(* appendCurrentProcess: the queue with the process that ends here. *)
Appended(n) == Append(processInfoQueue, [of |-> currentProcess, cdtime |-> n])

(* currentProcess, once it was appended. *)
EmptyKeepsMutant == currentProcess

Empty == {}

ReadHalf(n) ==
    /\ HalfSeparator(n) /\ prevLine' = [prevLine EXCEPT ![n] = TRUE]
    /\ UNCHANGED parseVars

(* When the first half was flushed, the second one is no separator. *)
ReadRest(n) ==
    /\ RestOfSeparator(n) /\ prevLine' = [prevLine EXCEPT ![n] = FALSE]
    /\ IF prevLine[n]
       THEN currentProcess' = Empty /\ processInfoQueue' = Appended(n)
       ELSE UNCHANGED <<currentProcess, processInfoQueue>>
    /\ UNCHANGED <<emitted, torn>>

ReadFields(n) ==
    /\ Fields(n)
    /\ currentProcess' = currentProcess \cup {<<n, (read[n] + 1) \div 3>>}
    /\ UNCHANGED <<prevLine, processInfoQueue, emitted, torn>>

(* The data event of stdout: parseData(prevLine + data, 0, now). *)
Data(n) ==
    /\ "end" \in events[n]
    /\ read' = [read EXCEPT ![n] = @ + 1]
    /\ ReadHalf(n) \/ ReadRest(n) \/ ReadFields(n)
    /\ UNCHANGED <<started, powershell, events, late>>

(* sendProcessInfo, when the queue is such: what is emitted, and stays. *)
SendEmptiesFirstMutant(queue) ==
    emitted' = IF queue = <<>> THEN emitted ELSE Append(emitted, <<>>)

Send(queue) ==
    emitted' = IF queue = <<>> THEN emitted ELSE Append(emitted, queue)

SentKeepsMutant(queue) == queue

Sent(queue) == <<>>

(* parseData(prevLine, 1, now) and sendProcessInfo.  Half a separator is   *)
(* one when it was cut after its first character, and is nothing when it   *)
(* was cut after its second.  currentProcess has no length, so it stays.   *)
FlushAndSend(n) ==
    /\ prevLine' = [prevLine EXCEPT ![n] = FALSE]
    /\ \/ /\ prevLine[n]
          /\ currentProcess' = Empty
          /\ Send(Appended(n)) /\ processInfoQueue' = Sent(Appended(n))
          /\ UNCHANGED torn
       \/ /\ Send(processInfoQueue) /\ processInfoQueue' = Sent(processInfoQueue)
          /\ torn' = (torn \/ prevLine[n])
          /\ UNCHANGED currentProcess

-----------------------------------------------------------------------------
(* getInfo and the events of a Powershell. *)

StartedNow(n, toCome) ==
    /\ powershell = 0 /\ started < MaxGetInfo
    /\ n = started + 1 /\ started' = n
    /\ events' = [events EXCEPT ![n] = toCome]
    /\ late' = (late \/ \E m \in 1..started : "end" \in events[m])

(* The timer: nothing is done while this.powershell is there. *)
GetInfo(n) ==
    /\ StartedNow(n, Event) /\ powershell' = n
    /\ UNCHANGED <<read, prevLine, parseVars>>

(* spawn fails: the error event follows at once, and then those of the     *)
(* streams.                                                                *)
GetInfoFails(n) ==
    /\ StartedNow(n, {"stdout close", "close"}) /\ powershell' = 0
    /\ FlushAndSend(n)
    /\ UNCHANGED read

Emits(n, e) == e \in events[n] /\ events' = [events EXCEPT ![n] = @ \ {e}]

(* The end of the output; it may come early, when Powershell is killed. *)
StdoutEnd(n) ==
    /\ Emits(n, "end") /\ FlushAndSend(n)
    /\ UNCHANGED <<started, powershell, read, late>>

StdoutClose(n) ==
    /\ Emits(n, "stdout close") /\ "end" \notin events[n] /\ FlushAndSend(n)
    /\ UNCHANGED <<started, powershell, read, late>>

(* me.powershell = undefined, whichever it is. *)
UndefinedNeverMutant == powershell

Undefined == 0

(* The end of the process: its output may still be in the pipe. *)
Exit(n) ==
    /\ Emits(n, "exit") /\ FlushAndSend(n)
    /\ powershell' = Undefined
    /\ UNCHANGED <<started, read, late>>

(* The end of the process and of its streams. *)
Close(n) ==
    /\ Emits(n, "close") /\ events[n] = {"close"} /\ FlushAndSend(n)
    /\ powershell' = Undefined
    /\ UNCHANGED <<started, read, late>>

ProcessNext ==
    \E n \in Scan : \/ GetInfo(n) \/ GetInfoFails(n)
                    \/ Data(n) \/ StdoutEnd(n) \/ StdoutClose(n)
                    \/ Exit(n) \/ Close(n)

-----------------------------------------------------------------------------
(* Properties. *)

Batches == {emitted[k] : k \in 1..Len(emitted)}

(* What was parsed, and may be sent. *)
Items == UNION {{b[k] : k \in 1..Len(b)} : b \in Batches \cup {processInfoQueue}}

(* The type of every variable; the Powershell that is waited for is the    *)
(* last one started, and is still to end.                                  *)
ProcessTypeOK ==
    /\ started \in 0..MaxGetInfo
    /\ powershell \in {0, started} /\ (powershell # 0 => "exit" \in events[powershell])
    /\ events \in [Scan -> SUBSET Event] /\ read \in [Scan -> 0..(3 * Printed)]
    /\ prevLine \in [Scan -> BOOLEAN]
    /\ \A n \in Scan : prevLine[n] => read[n] % 3 = 1
    /\ currentProcess \subseteq Process
    /\ processInfoQueue \in Seq(ProcessInfo) /\ emitted \in Seq(Seq(ProcessInfo))
    /\ torn \in BOOLEAN /\ late \in BOOLEAN

(* Process p is the last one whose fields were read from Powershell n. *)
IsLast(n, p) == 3 * p <= read[n] /\ read[n] <= 3 * p + 2

(* An item is one process, with the date of the scan that printed it; the  *)
(* last one a scan printed has the date of the next scan that printed      *)
(* anything.  Not so when a separator was lost, or when two Powershells    *)
(* printed at a time (parseData, whose flush keeps currentProcess).        *)
ItemsAreProcesses ==
    torn \/ late \/
    \A item \in Items : \A q \in item.of :
        /\ item.of = {q}
        /\ \/ item.cdtime = q[1]
           \/ /\ IsLast(q[1], q[2])
              /\ \A n \in Scan : n > q[1] /\ n < item.cdtime => read[n] <= 1

(* When every Powershell has ended, all that was read of them was sent,    *)
(* but for the process read last, whichever way they ended and whatever    *)
(* was lost or mixed (sendProcessInfo, the four events of getInfo).        *)
NothingHeldBack ==
    (\A n \in Scan : events[n] = {}) =>
        /\ processInfoQueue = <<>>
        /\ \A q \in Process :
             3 * q[2] <= read[q[1]] =>
                 \/ q \in currentProcess
                 \/ \E b \in Batches : \E k \in 1..Len(b) : q \in b[k].of
=============================================================================
