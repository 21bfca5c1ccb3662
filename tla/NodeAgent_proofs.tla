-------------------------- MODULE NodeAgent_proofs --------------------------
(* Proofs about NodeAgent: the parser of the Windows agent, for any number  *)
(* of Powershells and of processes, whatever the network does.              *)
EXTENDS NodeAgent, SequenceTheorems, TLAPS

ParseType ==
    /\ started \in 0..MaxGetInfo
    /\ events \in [Scan -> SUBSET Event] /\ read \in [Scan -> 0..(3 * Printed)]
    /\ prevLine \in [Scan -> BOOLEAN] /\ currentProcess \subseteq Process
    /\ processInfoQueue \in Seq(ProcessInfo) /\ emitted \in Seq(Seq(ProcessInfo))
    /\ torn \in BOOLEAN /\ late \in BOOLEAN

(* A Powershell that was not started is not heard of, and half a separator *)
(* is left of one that has output to come; when none was late, the last    *)
(* one only has.                                                           *)
Children ==
    /\ \A m \in Scan : m > started => events[m] = {} /\ read[m] = 0 /\ ~prevLine[m]
    /\ \A m \in Scan : prevLine[m] => "end" \in events[m] /\ read[m] % 3 = 1
    /\ ~late => \A m \in Scan : "end" \in events[m] => m = started

(* The Powershell that is waited for. *)
Waited ==
    /\ powershell \in {0, started}
    /\ powershell # 0 => "exit" \in events[powershell]

(* What was parsed and not sent is sent by the end of some output.         *)
QueueHeld == processInfoQueue = <<>> \/ \E n \in Scan : "end" \in events[n]

(* A process that was read is in one of the places it may be in. *)
Kept(q) == q \in currentProcess \/ \E item \in Items : q \in item.of

NothingLost == \A n \in Scan, p \in 1..Printed : 3 * p <= read[n] => Kept(<<n, p>>)

(* currentProcess is the process that was read last, and was emptied when  *)
(* the fields of the next one are to come.                                 *)
Single ==
    /\ \A q \in currentProcess :
         /\ currentProcess = {q} /\ IsLast(q[1], q[2])
         /\ \A m \in Scan : m > q[1] => read[m] <= 1
    /\ \A m \in Scan :
         "end" \in events[m] /\ (read[m] % 3 = 2 \/ (read[m] % 3 = 1 /\ ~prevLine[m]))
            => currentProcess = {}

(* What ItemsAreProcesses says of an item. *)
IsProcess(item) ==
    \A q \in item.of :
        /\ item.of = {q}
        /\ \/ item.cdtime = q[1]
           \/ /\ IsLast(q[1], q[2])
              /\ \A n \in Scan : n > q[1] /\ n < item.cdtime => read[n] <= 1

(* An item has a date there was, and no process printed after it. *)
Dated(item) == item.cdtime <= started /\ \A q \in item.of : q[1] <= item.cdtime

ItemsGood ==
    \A item \in ProcessInfo : item \in Items => Dated(item) /\ IsProcess(item)

Parsed == torn \/ late \/ (Single /\ ItemsGood)

Inv == ParseType /\ Children /\ Waited /\ QueueHeld /\ NothingLost /\ Parsed

-----------------------------------------------------------------------------
(* What is in the sequences. *)

SeqItems(s) == {s[k] : k \in 1..Len(s)}

EmittedItems == UNION {SeqItems(emitted[b]) : b \in 1..Len(emitted)}

LEMMA Bounds == MaxGetInfo \in Nat /\ Printed \in Nat
  BY PrintedAssumption DEF PrintedAssumption

LEMMA ItemsAre == Items = EmittedItems \cup SeqItems(processInfoQueue)
  BY DEF Items, Batches, EmittedItems, SeqItems

LEMMA ItemsAreNext == Items' = EmittedItems' \cup SeqItems(processInfoQueue')
  BY DEF Items, Batches, EmittedItems, SeqItems

LEMMA AppendItems ==
    ASSUME NEW S, NEW s \in Seq(S), NEW x \in S
    PROVE  SeqItems(Append(s, x)) = SeqItems(s) \cup {x}
<1>1. Len(Append(s, x)) = Len(s) + 1 /\ Len(s) \in Nat
  BY AppendProperties, LenProperties
<1>2. \A k \in 1..Len(s) : Append(s, x)[k] = s[k]
  BY AppendProperties
<1>3. Append(s, x)[Len(s) + 1] = x
  BY AppendProperties
<1>4. 1..(Len(s) + 1) = (1..Len(s)) \cup {Len(s) + 1}
  BY <1>1
<1> QED
  BY <1>1, <1>2, <1>3, <1>4 DEF SeqItems

LEMMA SendItems ==
    ASSUME ParseType, NEW queue \in Seq(ProcessInfo), Send(queue)
    PROVE  /\ emitted' \in Seq(Seq(ProcessInfo))
           /\ EmittedItems' = EmittedItems \cup SeqItems(queue)
<1>1. CASE queue = <<>>
  <2>1. emitted' = emitted /\ SeqItems(queue) = {}
    BY <1>1 DEF Send, SeqItems
  <2> QED
    BY <2>1 DEF EmittedItems, ParseType
<1>2. CASE queue # <<>>
  <2>1. emitted' = Append(emitted, queue) /\ emitted \in Seq(Seq(ProcessInfo))
    BY <1>2 DEF Send, ParseType
  <2>2. /\ emitted' \in Seq(Seq(ProcessInfo)) /\ Len(emitted') = Len(emitted) + 1
        /\ Len(emitted) \in Nat /\ emitted'[Len(emitted) + 1] = queue
        /\ \A k \in 1..Len(emitted) : emitted'[k] = emitted[k]
    BY <2>1, AppendProperties, LenProperties
  <2>3. 1..Len(emitted') = (1..Len(emitted)) \cup {Len(emitted) + 1}
    BY <2>2
  <2> QED
    BY <2>2, <2>3 DEF EmittedItems
<1> QED
  BY <1>1, <1>2

(* The item that ends here. *)
Ended(n) == [of |-> currentProcess, cdtime |-> n]

LEMMA AppendedItems ==
    ASSUME ParseType, NEW n \in Scan
    PROVE  /\ Appended(n) \in Seq(ProcessInfo) /\ Ended(n) \in ProcessInfo
           /\ SeqItems(Appended(n)) = SeqItems(processInfoQueue) \cup {Ended(n)}
<1>1. Ended(n) \in ProcessInfo /\ processInfoQueue \in Seq(ProcessInfo)
  BY DEF Ended, ProcessInfo, ParseType
<1>2. Appended(n) = Append(processInfoQueue, Ended(n))
  BY DEF Appended, Ended
<1> QED
  BY <1>1, <1>2, AppendItems, AppendProperties

(* A flush keeps all items, and may end one; it is only of what has left   *)
(* half a separator that it ends one, or loses the separator.              *)
LEMMA FlushEffect ==
    ASSUME ParseType, NEW n \in Scan, FlushAndSend(n)
    PROVE  /\ prevLine' = [prevLine EXCEPT ![n] = FALSE]
           /\ processInfoQueue' = <<>> /\ emitted' \in Seq(Seq(ProcessInfo))
           /\ \/ /\ prevLine[n] /\ currentProcess' = {} /\ torn' = torn
                 /\ Items' = Items \cup {Ended(n)}
              \/ /\ currentProcess' = currentProcess /\ torn' = (torn \/ prevLine[n])
                 /\ Items' = Items
<1>0. processInfoQueue' = <<>> => SeqItems(processInfoQueue') = {}
  BY DEF SeqItems
<1>1. CASE /\ prevLine[n]
           /\ currentProcess' = Empty
           /\ Send(Appended(n)) /\ processInfoQueue' = Sent(Appended(n))
           /\ UNCHANGED torn
  <2>1. processInfoQueue' = <<>>
    BY <1>1 DEF Sent
  <2>2. /\ emitted' \in Seq(Seq(ProcessInfo))
        /\ EmittedItems' = EmittedItems \cup SeqItems(Appended(n))
    BY <1>1, AppendedItems, SendItems
  <2>3. Items' = Items \cup {Ended(n)}
    BY <1>0, <2>1, <2>2, AppendedItems, ItemsAre, ItemsAreNext
  <2> QED
    BY <1>1, <2>1, <2>2, <2>3 DEF FlushAndSend, Empty
<1>2. CASE /\ Send(processInfoQueue) /\ processInfoQueue' = Sent(processInfoQueue)
           /\ torn' = (torn \/ prevLine[n])
           /\ UNCHANGED currentProcess
  <2>1. processInfoQueue' = <<>>
    BY <1>2 DEF Sent
  <2>2. /\ emitted' \in Seq(Seq(ProcessInfo))
        /\ EmittedItems' = EmittedItems \cup SeqItems(processInfoQueue)
    BY <1>2, SendItems DEF ParseType
  <2>3. Items' = Items
    BY <1>0, <2>1, <2>2, ItemsAre, ItemsAreNext
  <2> QED
    BY <1>2, <2>1, <2>2, <2>3 DEF FlushAndSend
<1> QED
  BY <1>1, <1>2 DEF FlushAndSend

-----------------------------------------------------------------------------
(* A Powershell starts. *)

(* What the start of n leaves of the others. *)
LEMMA StartEffect ==
    ASSUME Inv, NEW n \in Scan, NEW toCome \in SUBSET Event, StartedNow(n, toCome)
    PROVE  /\ n = started + 1 /\ started' = n /\ started \in Nat /\ powershell = 0
           /\ events' = [events EXCEPT ![n] = toCome] /\ events'[n] = toCome
           /\ events' \in [Scan -> SUBSET Event]
           /\ events[n] = {} /\ read[n] = 0 /\ ~prevLine[n] /\ late' \in BOOLEAN
           /\ ~late' => ~late /\ \A m \in Scan : "end" \notin events[m]
<1>1. /\ n = started + 1 /\ started' = n /\ powershell = 0
      /\ events' = [events EXCEPT ![n] = toCome]
      /\ late' = (late \/ \E m \in 1..started : "end" \in events[m])
  BY DEF StartedNow
<1>2. started \in Nat /\ n > started
  BY <1>1, Bounds DEF Inv, ParseType
<1>3. \A m \in Scan : m > started => events[m] = {} /\ read[m] = 0 /\ ~prevLine[m]
  BY DEF Inv, Children
<1>4. ASSUME ~late' PROVE ~late /\ \A m \in Scan : "end" \notin events[m]
  <2>1. \A m \in 1..started : "end" \notin events[m]
    BY <1>1, <1>4
  <2>2. \A m \in Scan : m \in 1..started \/ m > started
    BY <1>2, Bounds DEF Scan
  <2> QED
    BY <1>1, <1>3, <1>4, <2>1, <2>2
<1> QED
  BY <1>1, <1>2, <1>3, <1>4 DEF Inv, ParseType

LEMMA StartKeeps ==
    ASSUME Inv, NEW n \in Scan, GetInfo(n) \/ GetInfoFails(n)
    PROVE  Inv'
<1>1. PICK toCome \in SUBSET Event :
        /\ StartedNow(n, toCome)
        /\ \/ toCome = Event /\ powershell' = n
           \/ "end" \notin toCome /\ powershell' = 0 /\ processInfoQueue' = <<>>
  <2>1. CASE GetInfo(n)
    BY <2>1 DEF GetInfo
  <2>2. CASE GetInfoFails(n)
    <3>1. StartedNow(n, {"stdout close", "close"}) /\ powershell' = 0 /\ FlushAndSend(n)
      BY <2>2 DEF GetInfoFails
    <3>2. processInfoQueue' = <<>>
      BY <3>1, FlushEffect DEF Inv
    <3>3. /\ {"stdout close", "close"} \in SUBSET Event
          /\ "end" \notin {"stdout close", "close"}
      BY DEF Event
    <3> QED
      BY <3>1, <3>2, <3>3
  <2> QED
    BY <2>1, <2>2
<1>2. /\ n = started + 1 /\ started' = n /\ started \in Nat
      /\ events' = [events EXCEPT ![n] = toCome] /\ events'[n] = toCome
      /\ events' \in [Scan -> SUBSET Event]
      /\ events[n] = {} /\ read[n] = 0 /\ ~prevLine[n] /\ late' \in BOOLEAN
      /\ ~late' => ~late /\ \A m \in Scan : "end" \notin events[m]
  BY <1>1, StartEffect
<1>3. /\ read' = read /\ prevLine' = prevLine /\ currentProcess' = currentProcess
      /\ torn' = torn /\ Items' = Items /\ emitted' \in Seq(Seq(ProcessInfo))
      /\ processInfoQueue' = processInfoQueue \/ processInfoQueue' = <<>>
  <2>1. CASE GetInfo(n)
    BY <2>1, ItemsAre, ItemsAreNext DEF GetInfo, parseVars, Inv, ParseType, EmittedItems
  <2>2. CASE GetInfoFails(n)
    <3>1. FlushAndSend(n) /\ read' = read
      BY <2>2 DEF GetInfoFails
    <3>2. prevLine' = [prevLine EXCEPT ![n] = FALSE] /\ prevLine[n] = FALSE
      BY <1>2, <3>1, FlushEffect DEF Inv, ParseType
    <3> QED
      BY <1>2, <3>1, <3>2, FlushEffect DEF Inv, ParseType
  <2> QED
    BY <2>1, <2>2
<1>4. ParseType'
  <2>1. processInfoQueue' \in Seq(ProcessInfo)
    BY <1>3, EmptySeq DEF Inv, ParseType
  <2>2. started' \in 0..MaxGetInfo
    BY <1>2, Bounds DEF Scan
  <2> QED
    BY <1>2, <1>3, <2>1, <2>2 DEF Inv, ParseType
<1>5. Children'
  <2>1. \A m \in Scan : m > started' => m > started /\ m # n
    BY <1>2, Bounds DEF Scan
  <2>2. \A m \in Scan : m # n => events'[m] = events[m]
    BY <1>2 DEF Inv, ParseType
  <2> QED
    BY <1>2, <1>3, <2>1, <2>2 DEF Inv, Children
<1>6. Waited'
  BY <1>1, <1>2 DEF Waited, Event, Scan
<1>7. QueueHeld'
  <2>1. CASE toCome = Event
    BY <1>2, <2>1 DEF QueueHeld, Event
  <2>2. CASE processInfoQueue' = <<>>
    BY <2>2 DEF QueueHeld
  <2> QED
    BY <1>1, <2>1, <2>2
<1>8. NothingLost'
  BY <1>3 DEF Inv, NothingLost, Kept
<1>9. Parsed'
  <2> SUFFICES ASSUME ~torn', ~late' PROVE Single' /\ ItemsGood'
    BY DEF Parsed
  <2>1. Single /\ ItemsGood
    BY <1>2, <1>3 DEF Inv, Parsed
  <2>2. Single'
    <3>1. \A m \in Scan : "end" \in events'[m] => m = n /\ read[m] = 0
      BY <1>2 DEF Inv, ParseType
    <3> QED
      BY <1>3, <2>1, <3>1 DEF Single, IsLast
  <2>3. ItemsGood'
    <3>1. \A item \in ProcessInfo : item.cdtime \in Nat
      BY Bounds DEF ProcessInfo, Scan
    <3> QED
      BY <1>2, <1>3, <2>1, <3>1 DEF ItemsGood, IsProcess, IsLast, Dated
  <2> QED
    BY <2>2, <2>3
<1> QED
  BY <1>4, <1>5, <1>6, <1>7, <1>8, <1>9 DEF Inv

-----------------------------------------------------------------------------
(* The events of a Powershell. *)

(* The event e of Powershell n, with the flush it does. *)
Ends(n, e) ==
    /\ e \in events[n] /\ events' = [events EXCEPT ![n] = @ \ {e}]
    /\ FlushAndSend(n)
    /\ UNCHANGED <<started, read, late>>
    /\ powershell' = IF e \in {"exit", "close"} THEN 0 ELSE powershell

LEMMA EndsIs ==
    ASSUME NEW n \in Scan,
           StdoutEnd(n) \/ StdoutClose(n) \/ Exit(n) \/ Close(n)
    PROVE  \E e \in Event : Ends(n, e)
<1>1. CASE StdoutEnd(n)
  <2>1. Ends(n, "end")
    BY <1>1 DEF StdoutEnd, Emits, Ends
  <2> QED
    BY <2>1 DEF Event
<1>2. CASE StdoutClose(n)
  <2>1. Ends(n, "stdout close")
    BY <1>2 DEF StdoutClose, Emits, Ends
  <2> QED
    BY <2>1 DEF Event
<1>3. CASE Exit(n)
  <2>1. Ends(n, "exit")
    BY <1>3 DEF Exit, Emits, Ends, Undefined
  <2> QED
    BY <2>1 DEF Event
<1>4. CASE Close(n)
  <2>1. Ends(n, "close")
    BY <1>4 DEF Close, Emits, Ends, Undefined
  <2> QED
    BY <2>1 DEF Event
<1> QED
  BY <1>1, <1>2, <1>3, <1>4

LEMMA ReadIsStarted ==
    ASSUME ParseType, Children, NEW q \in Process, IsLast(q[1], q[2])
    PROVE  q[1] <= started
<1>1. q[1] \in Scan /\ q[1] \in Nat /\ q[2] \in 1..Printed /\ started \in Nat
  BY Bounds DEF Process, Scan, ParseType
<1>2. read[q[1]] # 0
  BY <1>1 DEF IsLast
<1> QED
  BY <1>1, <1>2 DEF Children

(* The item that ends in a step is good, when the Powershell that ends it  *)
(* is the only one with output to come.                                    *)
LEMMA EndedIsProcess ==
    ASSUME Inv, ~torn, ~late, NEW n \in Scan, "end" \in events[n]
    PROVE  n = started /\ IsProcess(Ended(n)) /\ Dated(Ended(n))
<1>1. n = started /\ Single /\ currentProcess \subseteq Process
  BY DEF Inv, Children, Parsed, ParseType
<1>2. Ended(n).of = currentProcess /\ Ended(n).cdtime = n
  BY DEF Ended
<1>3. \A q \in currentProcess : q[1] <= started
  BY <1>1, ReadIsStarted DEF Single, Inv
<1>4. started \in Nat
  BY Bounds DEF Inv, ParseType
<1> QED
  BY <1>1, <1>2, <1>3, <1>4 DEF Single, IsProcess, Dated

LEMMA EndsKeeps ==
    ASSUME Inv, NEW n \in Scan, NEW e \in Event, Ends(n, e)
    PROVE  Inv'
<1>1. /\ e \in events[n] /\ events' = [events EXCEPT ![n] = @ \ {e}]
      /\ started' = started /\ read' = read /\ late' = late
      /\ powershell' = IF e \in {"exit", "close"} THEN 0 ELSE powershell
  BY DEF Ends
<1>2. /\ events' \in [Scan -> SUBSET Event] /\ events'[n] = events[n] \ {e}
      /\ \A m \in Scan : events'[m] \subseteq events[m]
      /\ \A m \in Scan : m # n \/ e # "end" => ("end" \in events'[m] <=> "end" \in events[m])
  BY <1>1 DEF Inv, ParseType
<1>3. /\ prevLine' = [prevLine EXCEPT ![n] = FALSE] /\ prevLine'[n] = FALSE
      /\ processInfoQueue' = <<>> /\ emitted' \in Seq(Seq(ProcessInfo))
      /\ prevLine' \in [Scan -> BOOLEAN]
      /\ \A m \in Scan : m # n => prevLine'[m] = prevLine[m]
  BY FlushEffect DEF Inv, ParseType, Ends
<1>4. \/ /\ prevLine[n] /\ currentProcess' = {} /\ torn' = torn
         /\ Items' = Items \cup {Ended(n)}
      \/ /\ currentProcess' = currentProcess /\ torn' = (torn \/ prevLine[n])
         /\ Items' = Items
  BY FlushEffect DEF Inv, Ends
<1>5. ParseType'
  BY <1>1, <1>2, <1>3, <1>4, EmptySeq DEF Inv, ParseType
<1>6. Children'
  <2>1. \A m \in Scan : prevLine'[m] => m # n /\ prevLine[m]
    BY <1>3
  <2>2. \A m \in Scan : m > started' => events'[m] = {} /\ read'[m] = 0 /\ ~prevLine'[m]
    BY <1>1, <1>2, <2>1 DEF Inv, Children
  <2>3. \A m \in Scan : prevLine'[m] => "end" \in events'[m] /\ read'[m] % 3 = 1
    BY <1>1, <1>2, <2>1 DEF Inv, Children
  <2>4. ~late' => \A m \in Scan : "end" \in events'[m] => m = started'
    BY <1>1, <1>2 DEF Inv, Children
  <2> QED
    BY <2>2, <2>3, <2>4 DEF Children
<1>7. Waited'
  <2>1. powershell # 0 => powershell \in Scan
    BY DEF Inv, Waited, ParseType, Scan
  <2> QED
    BY <1>1, <2>1 DEF Inv, Waited, ParseType
<1>8. QueueHeld'
  BY <1>3 DEF QueueHeld
<1>9. NothingLost'
  <2>1. ASSUME NEW q, Kept(q) PROVE Kept(q)'
    <3>1. CASE /\ currentProcess' = {} /\ Items' = Items \cup {Ended(n)}
      <4>1. Ended(n) \in Items' /\ Ended(n).of = currentProcess
        BY <3>1 DEF Ended
      <4> QED
        BY <2>1, <3>1, <4>1 DEF Kept
    <3>2. CASE currentProcess' = currentProcess /\ Items' = Items
      BY <2>1, <3>2 DEF Kept
    <3> QED
      BY <1>4, <3>1, <3>2
  <2> QED
    BY <1>1, <2>1 DEF Inv, NothingLost
<1>10. Parsed'
  <2> SUFFICES ASSUME ~torn', ~late' PROVE Single' /\ ItemsGood'
    BY DEF Parsed
  <2>1. ~torn /\ ~late /\ Single /\ ItemsGood
    BY <1>1, <1>4 DEF Inv, ParseType, Parsed
  <2>2. Single'
    <3>1. ASSUME NEW m \in Scan, "end" \in events'[m],
                 read'[m] % 3 = 2 \/ (read'[m] % 3 = 1 /\ ~prevLine'[m])
          PROVE  currentProcess' = {}
      <4>1. "end" \in events[m]
        BY <1>2, <3>1
      <4>2. CASE prevLine[m]
        <5>1. m = n
          BY <1>1, <1>3, <3>1, <4>2 DEF Inv, Children
        <5> QED
          BY <1>4, <4>2, <5>1
      <4>3. CASE ~prevLine[m]
        <5>1. currentProcess = {}
          BY <1>1, <2>1, <3>1, <4>1, <4>3 DEF Single
        <5> QED
          BY <1>4, <5>1
      <4> QED
        BY <4>2, <4>3
    <3>2. \A q \in currentProcess' :
            /\ currentProcess' = {q} /\ IsLast(q[1], q[2])'
            /\ \A m \in Scan : m > q[1] => read'[m] <= 1
      BY <1>1, <1>4, <2>1 DEF Single, IsLast
    <3> QED
      BY <3>1, <3>2 DEF Single
  <2>3. ItemsGood'
    <3>1. ASSUME NEW item \in ProcessInfo, item \in Items'
          PROVE  Dated(item) /\ IsProcess(item)
      <4>1. CASE item \in Items
        BY <2>1, <4>1 DEF ItemsGood
      <4>2. CASE item = Ended(n) /\ prevLine[n]
        <5>1. IsProcess(Ended(n)) /\ Dated(Ended(n))
          BY <2>1, <4>2, EndedIsProcess DEF Inv, Children
        <5> QED
          BY <4>2, <5>1
      <4> QED
        BY <1>4, <3>1, <4>1, <4>2
    <3> QED
      BY <1>1, <3>1 DEF ItemsGood, IsProcess, IsLast, Dated
  <2> QED
    BY <2>2, <2>3
<1> QED
  BY <1>5, <1>6, <1>7, <1>8, <1>9, <1>10 DEF Inv

-----------------------------------------------------------------------------
(* The output of a Powershell. *)

(* What a part of the output of n leaves as it was, whichever it is. *)
LEMMA DataEffect ==
    ASSUME Inv, NEW n \in Scan, Data(n)
    PROVE  /\ "end" \in events[n] /\ read[n] \in Nat /\ read[n] < 3 * Printed
           /\ read' = [read EXCEPT ![n] = @ + 1] /\ read'[n] = read[n] + 1
           /\ read' \in [Scan -> 0..(3 * Printed)]
           /\ UNCHANGED <<started, powershell, events, late, emitted, torn>>
<1>1. /\ "end" \in events[n] /\ read' = [read EXCEPT ![n] = @ + 1]
      /\ UNCHANGED <<started, powershell, events, late, emitted, torn>>
  BY DEF Data, ReadHalf, ReadRest, ReadFields, parseVars
<1>2. read[n] \in 0..(3 * Printed) /\ read \in [Scan -> 0..(3 * Printed)]
  BY DEF Inv, ParseType
<1>3. read[n] < 3 * Printed
  BY <1>2, Bounds DEF Data, ReadHalf, ReadRest, ReadFields, HalfSeparator,
                      RestOfSeparator, Fields
<1> QED
  BY <1>1, <1>2, <1>3, Bounds

LEMMA Thirds ==
    ASSUME NEW r \in Nat, NEW p \in Nat, 3 * p <= r + 1, r % 3 # 2
    PROVE  3 * p <= r
  OBVIOUS

(* What is kept of the processes, when nothing of them is read.            *)
LEMMA NotFields ==
    ASSUME Inv, NEW n \in Scan, Data(n), read[n] % 3 # 2,
           \A q : Kept(q) => Kept(q)'
    PROVE  NothingLost'
<1>1. ASSUME NEW m \in Scan, NEW p \in 1..Printed, 3 * p <= read'[m]
      PROVE  3 * p <= read[m]
  <2>1. read[m] \in Nat /\ read[n] \in Nat /\ (m = n \/ read'[m] = read[m])
    BY DataEffect, Bounds DEF Inv, ParseType
  <2>2. CASE m = n
    <3>1. 3 * p <= read[n] + 1 /\ p \in Nat
      BY <1>1, <2>2, DataEffect, Bounds
    <3> QED
      BY <2>1, <2>2, <3>1, Thirds
  <2> QED
    BY <1>1, <2>1, <2>2
<1> QED
  BY <1>1 DEF Inv, NothingLost

(* The items that were parsed are good when only n = started reads on.     *)
LEMMA OtherRead ==
    ASSUME Inv, ItemsGood, NEW n \in Scan, Data(n), n = started,
           NEW item \in ProcessInfo, item \in Items
    PROVE  Dated(item)' /\ IsProcess(item)'
<1>1. /\ \A m \in Scan : m # n => read'[m] = read[m]
      /\ \A m \in Scan : m \in Nat
      /\ started' = started
  BY DataEffect, Bounds DEF Inv, ParseType, Scan
<1>2. Dated(item) /\ IsProcess(item) /\ item.cdtime \in Nat /\ item.of \subseteq Process
  BY <1>1 DEF ItemsGood, ProcessInfo
<1>3. ASSUME NEW q \in item.of
      PROVE  /\ item.of = {q}
             /\ \/ item.cdtime = q[1]
                \/ /\ IsLast(q[1], q[2])'
                   /\ \A m \in Scan : m > q[1] /\ m < item.cdtime => read'[m] <= 1
  <2>1. q[1] \in Scan /\ q[1] \in Nat /\ q[1] <= item.cdtime /\ item.cdtime <= n
    BY <1>1, <1>2, <1>3 DEF Process, Dated
  <2>2. /\ item.of = {q}
        /\ \/ item.cdtime = q[1]
           \/ /\ IsLast(q[1], q[2])
              /\ \A m \in Scan : m > q[1] /\ m < item.cdtime => read[m] <= 1
    BY <1>2, <1>3 DEF IsProcess
  <2>3. \A m \in Scan : m < item.cdtime => read'[m] = read[m]
    BY <1>1, <1>2, <2>1
  <2>4. CASE item.cdtime = q[1]
    BY <2>2, <2>4
  <2>5. CASE item.cdtime # q[1]
    <3>1. read'[q[1]] = read[q[1]]
      BY <1>2, <2>1, <2>3, <2>5
    <3> QED
      BY <2>2, <2>3, <2>5, <3>1 DEF IsLast
  <2> QED
    BY <2>4, <2>5
<1> QED
  BY <1>1, <1>2, <1>3 DEF IsProcess, Dated

LEMMA ReadHalfKeeps ==
    ASSUME Inv, NEW n \in Scan, Data(n), ReadHalf(n)
    PROVE  Inv'
<1>1. /\ "end" \in events[n] /\ read[n] \in Nat
      /\ read'[n] = read[n] + 1 /\ read' = [read EXCEPT ![n] = @ + 1]
      /\ read' \in [Scan -> 0..(3 * Printed)] /\ read[n] % 3 = 0
      /\ UNCHANGED <<started, powershell, events, late, emitted, torn>>
      /\ UNCHANGED <<currentProcess, processInfoQueue>>
      /\ prevLine' = [prevLine EXCEPT ![n] = TRUE]
  BY DataEffect DEF ReadHalf, HalfSeparator, parseVars
<1>2. /\ read'[n] % 3 = 1 /\ prevLine'[n] = TRUE /\ prevLine' \in [Scan -> BOOLEAN]
      /\ \A m \in Scan : m # n => read'[m] = read[m] /\ prevLine'[m] = prevLine[m]
  <2>1. read'[n] % 3 = 1
    BY <1>1
  <2>2. read \in [Scan -> 0..(3 * Printed)] /\ prevLine \in [Scan -> BOOLEAN]
    BY DEF Inv, ParseType
  <2>3. \A m \in Scan : m # n => read'[m] = read[m]
    BY <1>1, <2>2
  <2>4. /\ prevLine'[n] = TRUE /\ prevLine' \in [Scan -> BOOLEAN]
        /\ \A m \in Scan : m # n => prevLine'[m] = prevLine[m]
    BY <1>1, <2>2
  <2> QED
    BY <2>1, <2>3, <2>4
<1>3. Items' = Items
  BY <1>1 DEF Items, Batches
<1>4. ParseType' /\ Waited' /\ QueueHeld'
  BY <1>1, <1>2 DEF Inv, ParseType, Waited, QueueHeld
<1>5. Children'
  BY <1>1, <1>2 DEF Inv, Children
<1>6. NothingLost'
  <2>1. \A q : Kept(q) => Kept(q)'
    BY <1>1, <1>3 DEF Kept
  <2> QED
    BY <1>1, <2>1, NotFields
<1>7. Parsed'
  <2> SUFFICES ASSUME ~torn, ~late PROVE Single' /\ ItemsGood'
    BY <1>1 DEF Parsed
  <2>1. Single /\ ItemsGood /\ n = started
    BY <1>1 DEF Inv, Parsed, Children
  <2>2. \A m \in Scan : read[m] <= 1 => read'[m] <= 1
    BY <1>1, <1>2
  <2>3. ASSUME NEW q \in Process, IsLast(q[1], q[2]) PROVE IsLast(q[1], q[2])'
    <3>1. q[1] \in Scan /\ q[2] \in Nat
      BY Bounds DEF Process
    <3>2. CASE q[1] # n
      BY <1>2, <2>3, <3>1, <3>2 DEF IsLast
    <3>3. CASE q[1] = n
      <4>1. 3 * q[2] <= read[n] /\ read[n] <= 3 * q[2] + 2
        BY <2>3, <3>3 DEF IsLast
      <4>2. read[n] = 3 * q[2]
        BY <1>1, <3>1, <4>1
      <4> QED
        BY <1>1, <3>1, <3>3, <4>2 DEF IsLast
    <3> QED
      BY <3>2, <3>3
  <2>4. Single'
    <3>1. \A q \in currentProcess : q \in Process
      BY DEF Inv, ParseType
    <3> QED
      BY <1>1, <1>2, <2>1, <2>2, <2>3, <3>1 DEF Single
  <2>5. ItemsGood'
    BY <1>3, <2>1, OtherRead DEF ItemsGood
  <2> QED
    BY <2>4, <2>5
<1> QED
  BY <1>4, <1>5, <1>6, <1>7 DEF Inv


(* The rest of a separator ends an item, unless its first half was flushed. *)
LEMMA ReadRestKeeps ==
    ASSUME Inv, NEW n \in Scan, Data(n), ReadRest(n)
    PROVE  Inv'
<1>1. /\ "end" \in events[n] /\ read[n] \in Nat
      /\ read'[n] = read[n] + 1 /\ read' = [read EXCEPT ![n] = @ + 1]
      /\ read' \in [Scan -> 0..(3 * Printed)] /\ read[n] % 3 = 1
      /\ UNCHANGED <<started, powershell, events, late, emitted, torn>>
      /\ prevLine' = [prevLine EXCEPT ![n] = FALSE]
  BY DataEffect DEF ReadRest, RestOfSeparator
<1>2. /\ prevLine'[n] = FALSE /\ prevLine' \in [Scan -> BOOLEAN]
      /\ \A m \in Scan : m # n => read'[m] = read[m] /\ prevLine'[m] = prevLine[m]
  <2>1. read \in [Scan -> 0..(3 * Printed)] /\ prevLine \in [Scan -> BOOLEAN]
    BY DEF Inv, ParseType
  <2>2. \A m \in Scan : m # n => read'[m] = read[m]
    BY <1>1, <2>1
  <2>3. /\ prevLine'[n] = FALSE /\ prevLine' \in [Scan -> BOOLEAN]
        /\ \A m \in Scan : m # n => prevLine'[m] = prevLine[m]
    BY <1>1, <2>1
  <2> QED
    BY <2>2, <2>3
<1>3. \/ /\ prevLine[n] /\ currentProcess' = {} /\ processInfoQueue' \in Seq(ProcessInfo)
         /\ Items' = Items \cup {Ended(n)}
      \/ /\ ~prevLine[n] /\ currentProcess' = currentProcess
         /\ processInfoQueue' = processInfoQueue /\ Items' = Items
  <2>1. EmittedItems' = EmittedItems
    BY <1>1 DEF EmittedItems
  <2>2. CASE prevLine[n]
    <3>1. currentProcess' = {} /\ processInfoQueue' = Appended(n)
      BY <2>2 DEF ReadRest, Empty
    <3> QED
      BY <2>1, <2>2, <3>1, AppendedItems, ItemsAre, ItemsAreNext DEF Inv
  <2>3. CASE ~prevLine[n]
    <3>1. UNCHANGED <<currentProcess, processInfoQueue>>
      BY <2>3 DEF ReadRest
    <3> QED
      BY <2>1, <2>3, <3>1, ItemsAre, ItemsAreNext
  <2> QED
    BY <2>2, <2>3
<1>4. ParseType' /\ Waited' /\ QueueHeld'
  BY <1>1, <1>2, <1>3 DEF Inv, ParseType, Waited, QueueHeld
<1>5. Children'
  BY <1>1, <1>2 DEF Inv, Children
<1>6. NothingLost'
  <2>1. ASSUME NEW q, Kept(q) PROVE Kept(q)'
    <3>1. CASE /\ currentProcess' = {} /\ Items' = Items \cup {Ended(n)}
      <4>1. Ended(n) \in Items' /\ Ended(n).of = currentProcess
        BY <3>1 DEF Ended
      <4> QED
        BY <2>1, <3>1, <4>1 DEF Kept
    <3>2. CASE currentProcess' = currentProcess /\ Items' = Items
      BY <2>1, <3>2 DEF Kept
    <3> QED
      BY <1>3, <3>1, <3>2
  <2> QED
    BY <1>1, <2>1, NotFields
<1>7. Parsed'
  <2> SUFFICES ASSUME ~torn, ~late PROVE Single' /\ ItemsGood'
    BY <1>1 DEF Parsed
  <2>1. Single /\ ItemsGood /\ n = started
    BY <1>1 DEF Inv, Parsed, Children
  <2>2. currentProcess' = {}
    BY <1>1, <1>3, <2>1 DEF Single
  <2>3. Single'
    BY <2>2 DEF Single
  <2>4. ASSUME NEW item \in ProcessInfo, item \in Items'
        PROVE  Dated(item)' /\ IsProcess(item)'
    <3>1. CASE item \in Items
      BY <2>1, <3>1, OtherRead
    <3>2. CASE item = Ended(n) /\ prevLine[n]
      <4>1. IsProcess(Ended(n)) /\ Dated(Ended(n)) /\ Ended(n).cdtime = n
        BY <1>1, EndedIsProcess DEF Ended
      <4>2. item.cdtime \in Nat /\ item.of \subseteq Process
        BY Bounds DEF ProcessInfo, Scan
      <4>3. Dated(item)'
        BY <1>1, <3>2, <4>1 DEF Dated
      <4>4. ASSUME NEW q \in item.of
            PROVE  /\ item.of = {q}
                   /\ \/ item.cdtime = q[1]
                      \/ /\ IsLast(q[1], q[2])'
                         /\ \A m \in Scan : m > q[1] /\ m < item.cdtime => read'[m] <= 1
        <5>1. q[1] \in Scan
          BY <4>2, <4>4 DEF Process
        <5> QED
          BY <1>2, <3>2, <4>1, <4>2, <4>4, <5>1 DEF IsProcess, IsLast
      <4> QED
        BY <4>3, <4>4 DEF IsProcess
    <3> QED
      BY <1>3, <2>4, <3>1, <3>2
  <2> QED
    BY <2>3, <2>4 DEF ItemsGood
<1> QED
  BY <1>4, <1>5, <1>6, <1>7 DEF Inv

LEMMA FieldsOf ==
    ASSUME NEW r \in Nat, r % 3 = 2, NEW p \in Nat
    PROVE  /\ 3 * ((r + 1) \div 3) = r + 1
           /\ 3 * p <= r + 1 => 3 * p <= r \/ p = (r + 1) \div 3
           /\ (r + 1) % 3 = 0
<1>1. PICK k \in Nat : r = 3 * k + 2
  <2>1. r = 3 * (r \div 3) + 2 /\ r \div 3 \in Nat
    OBVIOUS
  <2> QED
    BY <2>1
<1> QED
  BY <1>1

(* The fields of the process to come go to currentProcess, which is empty. *)
LEMMA ReadFieldsKeeps ==
    ASSUME Inv, NEW n \in Scan, Data(n), ReadFields(n)
    PROVE  Inv'
<1>0. PICK p : p = (read[n] + 1) \div 3
  OBVIOUS
<1>1. /\ "end" \in events[n] /\ read[n] \in Nat
      /\ read'[n] = read[n] + 1 /\ read' = [read EXCEPT ![n] = @ + 1]
      /\ read' \in [Scan -> 0..(3 * Printed)] /\ read[n] % 3 = 2
      /\ UNCHANGED <<started, powershell, events, late, emitted, torn>>
      /\ UNCHANGED <<prevLine, processInfoQueue>>
      /\ currentProcess' = currentProcess \cup {<<n, p>>}
  BY <1>0, DataEffect DEF ReadFields, Fields
<1>2. 3 * p = read'[n] /\ p \in 1..Printed /\ read'[n] % 3 = 0 /\ <<n, p>> \in Process
  <2>1. 3 * p = read[n] + 1 /\ (read[n] + 1) % 3 = 0
    BY <1>0, <1>1, FieldsOf
  <2>2. p \in Int /\ read'[n] <= 3 * Printed
    BY <1>0, <1>1, Bounds
  <2>3. p \in 1..Printed
    BY <1>1, <2>1, <2>2, Bounds
  <2> QED
    BY <1>1, <2>1, <2>3 DEF Process
<1>3. \A m \in Scan : m # n => read'[m] = read[m]
  BY <1>1 DEF Inv, ParseType
<1>4. Items' = Items
  BY <1>1 DEF Items, Batches
<1>5. ParseType' /\ Waited' /\ QueueHeld'
  BY <1>1, <1>2 DEF Inv, ParseType, Waited, QueueHeld
<1>6. ~prevLine[n]
  BY <1>1 DEF Inv, Children
<1>7. Children'
  BY <1>1, <1>3, <1>6 DEF Inv, Children
<1>8. NothingLost'
  <2>1. \A q : Kept(q) => Kept(q)'
    BY <1>1, <1>4 DEF Kept
  <2>2. ASSUME NEW m \in Scan, NEW o \in 1..Printed, 3 * o <= read'[m]
        PROVE  Kept(<<m, o>>)'
    <3>1. CASE 3 * o <= read[m]
      BY <2>1, <3>1 DEF Inv, NothingLost
    <3>2. CASE ~(3 * o <= read[m])
      <4>1. m = n
        BY <1>3, <2>2, <3>2
      <4>2. o = p
        BY <1>0, <1>1, <2>2, <3>2, <4>1, FieldsOf, Bounds
      <4> QED
        BY <1>1, <4>1, <4>2 DEF Kept
    <3> QED
      BY <3>1, <3>2
  <2> QED
    BY <2>2 DEF NothingLost
<1>9. Parsed'
  <2> SUFFICES ASSUME ~torn, ~late PROVE Single' /\ ItemsGood'
    BY <1>1 DEF Parsed
  <2>1. Single /\ ItemsGood /\ n = started
    BY <1>1 DEF Inv, Parsed, Children
  <2>2. currentProcess' = {<<n, p>>}
    BY <1>1, <2>1 DEF Single
  <2>3. IsLast(n, p)'
    BY <1>1, <1>2 DEF IsLast
  <2>4. \A m \in Scan : m > n => read'[m] <= 1
    BY <1>1, <1>3, <2>1 DEF Inv, Children
  <2>5. \A m \in Scan : "end" \in events'[m] => read'[m] % 3 = 0
    BY <1>1, <1>2, <2>1 DEF Inv, Children
  <2>6. Single'
    BY <2>2, <2>3, <2>4, <2>5 DEF Single
  <2>7. ItemsGood'
    BY <1>4, <2>1, OtherRead DEF ItemsGood
  <2> QED
    BY <2>6, <2>7
<1> QED
  BY <1>5, <1>7, <1>8, <1>9 DEF Inv

-----------------------------------------------------------------------------

LEMMA InitInv == AgentInit => Inv
<1> SUFFICES ASSUME Init PROVE Inv
  BY DEF AgentInit
<1>0. 0 \in 0..MaxGetInfo /\ 0 \in 0..(3 * Printed)
  BY Bounds
<1>1. ParseType
  <2>1. /\ started = 0 /\ events = [n \in Scan |-> {}] /\ read = [n \in Scan |-> 0]
        /\ prevLine = [n \in Scan |-> FALSE] /\ currentProcess = {}
        /\ torn = FALSE /\ late = FALSE
    BY DEF Init
  <2>2. processInfoQueue \in Seq(ProcessInfo) /\ emitted \in Seq(Seq(ProcessInfo))
    BY EmptySeq DEF Init
  <2> QED
    BY <1>0, <2>1, <2>2 DEF ParseType
<1>6. Waited /\ QueueHeld
  BY DEF Init, Waited, QueueHeld
<1>2. Children
  BY DEF Init, Children
<1>3. Items = {}
  BY DEF Init, Items, Batches
<1>4. NothingLost
  BY Bounds DEF Init, NothingLost
<1>5. Parsed
  BY <1>3 DEF Init, Parsed, Single, ItemsGood
<1> QED
  BY <1>1, <1>6, <1>2, <1>4, <1>5 DEF Inv

LEMMA NextInv == Inv /\ [Next]_vars => Inv'
<1> SUFFICES ASSUME Inv, [Next]_vars PROVE Inv'
  OBVIOUS
<1>1. CASE ProcessNext
  <2>1. PICK n \in Scan : \/ GetInfo(n) \/ GetInfoFails(n)
                          \/ Data(n) \/ StdoutEnd(n) \/ StdoutClose(n)
                          \/ Exit(n) \/ Close(n)
    BY <1>1 DEF ProcessNext
  <2>2. CASE GetInfo(n) \/ GetInfoFails(n)
    BY <2>2, StartKeeps
  <2>3. CASE Data(n)
    BY <2>3, ReadHalfKeeps, ReadRestKeeps, ReadFieldsKeeps DEF Data
  <2>4. CASE StdoutEnd(n) \/ StdoutClose(n) \/ Exit(n) \/ Close(n)
    BY <2>4, EndsIs, EndsKeeps
  <2> QED
    BY <2>1, <2>2, <2>3, <2>4
<1>2. CASE UNCHANGED processVars
  <2>1. UNCHANGED <<started, powershell, events, read, prevLine, late,
                    currentProcess, processInfoQueue, emitted, torn>>
    BY <1>2 DEF processVars, childVars, parseVars
  <2>2. ParseType' /\ Children' /\ Waited' /\ QueueHeld'
    BY <2>1 DEF Inv, ParseType, Children, Waited, QueueHeld
  <2>3. NothingLost' /\ Parsed'
    BY <2>1 DEF Inv, NothingLost, Kept, Parsed, Single, ItemsGood, IsProcess, Dated, IsLast,
                Items, Batches
  <2> QED
    BY <2>2, <2>3 DEF Inv
<1> QED
  BY <1>1, <1>2 DEF Next, Collect, Network, Done, vars

(* What is known of the parser at all times: where what was read is, which *)
(* Powershell may print, and what is being parsed.                         *)
THEOREM Invariance == Spec => []Inv
  BY InitInv, NextInv, PTL DEF Spec

(* The type of the variables of the parser, and that the Powershell it     *)
(* waits for is the last one started, and is still to end (getInfo).       *)
THEOREM ProcessTypeCorrect == Spec => []ProcessTypeOK
<1>1. Inv => ProcessTypeOK
  BY DEF Inv, ParseType, Waited, Children, ProcessTypeOK
<1> QED
  BY <1>1, Invariance, PTL

(* However many Powershells run at a time and however they end, once all   *)
(* have ended all that was read was sent, but for the process read last    *)
(* (sendProcessInfo, getInfo).                                             *)
THEOREM NothingHeldBackAlways == Spec => []NothingHeldBack
<1>1. Inv => NothingHeldBack
  <2> SUFFICES ASSUME Inv, \A n \in Scan : events[n] = {}
               PROVE  /\ processInfoQueue = <<>>
                      /\ \A q \in Process :
                           3 * q[2] <= read[q[1]] =>
                             \/ q \in currentProcess
                             \/ \E b \in Batches : \E k \in 1..Len(b) : q \in b[k].of
    BY DEF NothingHeldBack
  <2>1. processInfoQueue = <<>>
    BY DEF Inv, QueueHeld
  <2>2. ASSUME NEW q \in Process, 3 * q[2] <= read[q[1]]
        PROVE  \/ q \in currentProcess
               \/ \E b \in Batches : \E k \in 1..Len(b) : q \in b[k].of
    <3>1. q[1] \in Scan /\ q[2] \in 1..Printed /\ q = <<q[1], q[2]>>
      BY DEF Process
    <3>2. Kept(q)
      BY <2>2, <3>1 DEF Inv, NothingLost
    <3>3. Items = EmittedItems
      BY <2>1, ItemsAre DEF SeqItems
    <3> QED
      BY <3>2, <3>3 DEF Kept, EmittedItems, SeqItems, Batches
  <2> QED
    BY <2>1, <2>2
<1> QED
  BY <1>1, Invariance, PTL

(* An item that is sent is one process with the date of its scan, or the   *)
(* last one of its scan with that of the next scan that printed anything,  *)
(* unless a separator was lost or two Powershells printed at a time        *)
(* (parseData).                                                            *)
THEOREM ItemsAreProcessesAlways == Spec => []ItemsAreProcesses
<1>1. Inv => ItemsAreProcesses
  <2>1. ASSUME Inv PROVE Items \subseteq ProcessInfo
    <3>1. /\ \A k \in 1..Len(processInfoQueue) : processInfoQueue[k] \in ProcessInfo
          /\ \A b \in 1..Len(emitted) : emitted[b] \in Seq(ProcessInfo)
      BY <2>1, ElementOfSeq DEF Inv, ParseType
    <3>2. \A b \in 1..Len(emitted) : \A k \in 1..Len(emitted[b]) :
            emitted[b][k] \in ProcessInfo
      BY <3>1, ElementOfSeq
    <3> QED
      BY <3>1, <3>2, ItemsAre DEF EmittedItems, SeqItems
  <2> QED
    BY <2>1 DEF Inv, Parsed, ItemsGood, IsProcess, ItemsAreProcesses
<1> QED
  BY <1>1, Invariance, PTL

-----------------------------------------------------------------------------
(* The order of what is parsed. *)

(* The lists that were emitted, and the one that is to be. *)
Lists == Append(emitted, processInfoQueue)

(* The items of some lists are in the order the processes were printed in. *)
Sorted(lists) ==
    \A a, b \in 1..Len(lists) : \A j \in 1..Len(lists[a]), k \in 1..Len(lists[b]) :
        Before(<<a, j>>, <<b, k>>) => InOrder(lists[a][j], lists[b][k])

(* They are of processes of S only. *)
AllOf(lists, S) ==
    \A a \in 1..Len(lists) : \A j \in 1..Len(lists[a]) : lists[a][j].of \subseteq S

(* They were printed before those of S. *)
AllBefore(lists, S) ==
    \A a \in 1..Len(lists) : \A j \in 1..Len(lists[a]) :
        \A q \in lists[a][j].of, r \in S : Before(q, r)

WasRead == {q \in Process : 3 * q[2] <= read[q[1]]}

OrderInv ==
    /\ AllOf(Lists, WasRead) /\ currentProcess \subseteq WasRead
    /\ late \/ (Sorted(Lists) /\ AllBefore(Lists, currentProcess))

LEMMA AppendRanks ==
    ASSUME NEW S, NEW s \in Seq(S), NEW x \in S
    PROVE  /\ Append(s, x) \in Seq(S) /\ Len(Append(s, x)) = Len(s) + 1 /\ Len(s) \in Nat
           /\ \A k \in 1..Len(Append(s, x)) :
                IF k = Len(s) + 1 THEN Append(s, x)[k] = x
                ELSE k \in 1..Len(s) /\ Append(s, x)[k] = s[k]
<1>1. /\ Append(s, x) \in Seq(S) /\ Len(Append(s, x)) = Len(s) + 1 /\ Len(s) \in Nat
      /\ Append(s, x)[Len(s) + 1] = x /\ \A k \in 1..Len(s) : Append(s, x)[k] = s[k]
  BY AppendProperties, LenProperties
<1>2. \A k \in 1..(Len(s) + 1) : k # Len(s) + 1 => k \in 1..Len(s)
  BY <1>1
<1> QED
  BY <1>1, <1>2

(* An item goes to the end of the last list. *)
LEMMA ItemGoesLast ==
    ASSUME NEW E \in Seq(Seq(ProcessInfo)), NEW Q \in Seq(ProcessInfo),
           NEW x \in ProcessInfo
    PROVE  /\ \A S : AllOf(Append(E, Q), S) /\ x.of \subseteq S
                       => AllOf(Append(E, Append(Q, x)), S)
           /\ Sorted(Append(E, Q)) /\ AllBefore(Append(E, Q), x.of)
                => Sorted(Append(E, Append(Q, x)))
<1> DEFINE old == Append(E, Q)
           new == Append(E, Append(Q, x))
           last == Len(E) + 1
<1>1. /\ Append(Q, x) \in Seq(ProcessInfo) /\ Len(Append(Q, x)) = Len(Q) + 1 /\ Len(Q) \in Nat
      /\ \A k \in 1..Len(Append(Q, x)) :
           IF k = Len(Q) + 1 THEN Append(Q, x)[k] = x
           ELSE k \in 1..Len(Q) /\ Append(Q, x)[k] = Q[k]
  BY AppendRanks
<1>2. /\ Len(old) = last /\ Len(new) = last /\ last \in Nat
      /\ \A a \in 1..last : IF a = last THEN old[a] = Q ELSE old[a] = E[a]
      /\ \A a \in 1..last : IF a = last THEN new[a] = Append(Q, x) ELSE new[a] = E[a]
  BY <1>1, AppendRanks
<1> HIDE DEF old, new, last
<1>3. ASSUME NEW a \in 1..last, NEW j \in 1..Len(new[a])
      PROVE  \/ a = last /\ j = Len(Q) + 1 /\ new[a][j] = x
             \/ j \in 1..Len(old[a]) /\ new[a][j] = old[a][j]
  BY <1>1, <1>2
<1>4. ASSUME NEW S, AllOf(old, S), x.of \subseteq S PROVE AllOf(new, S)
  BY <1>2, <1>3, <1>4 DEF AllOf
<1>5. ASSUME Sorted(old), AllBefore(old, x.of) PROVE Sorted(new)
  <2>1. ASSUME NEW a \in 1..last, NEW b \in 1..last,
               NEW j \in 1..Len(new[a]), NEW k \in 1..Len(new[b]),
               Before(<<a, j>>, <<b, k>>)
        PROVE  InOrder(new[a][j], new[b][k])
    <3>1. CASE k \in 1..Len(old[b]) /\ new[b][k] = old[b][k]
      <4>1. ~(a = last /\ j = Len(Q) + 1 /\ a = b)
        <5>1. a = last /\ j = Len(Q) + 1 /\ a = b => k \in 1..Len(Q)
          BY <1>2, <3>1
        <5> QED
          BY <1>1, <1>2, <2>1, <5>1 DEF Before
      <4>2. a \in Nat /\ b \in Nat /\ a <= last /\ b <= last
        BY <1>2
      <4>3. ~(a = last /\ j = Len(Q) + 1 /\ new[a][j] = x)
        BY <1>2, <2>1, <4>1, <4>2 DEF Before
      <4>4. j \in 1..Len(old[a]) /\ new[a][j] = old[a][j]
        BY <1>3, <4>3
      <4> QED
        BY <1>2, <1>5, <2>1, <3>1, <4>4 DEF Sorted
    <3>2. CASE b = last /\ k = Len(Q) + 1 /\ new[b][k] = x
      <4>1. CASE j \in 1..Len(old[a]) /\ new[a][j] = old[a][j]
        BY <1>2, <1>5, <3>2, <4>1 DEF AllBefore, InOrder
      <4>2. CASE a = last /\ j = Len(Q) + 1
        BY <1>1, <1>2, <2>1, <3>2, <4>2 DEF Before
      <4> QED
        BY <1>3, <4>1, <4>2
    <3> QED
      BY <1>3, <3>1, <3>2
  <2> QED
    BY <1>2, <2>1 DEF Sorted
<1> QED
  BY <1>4, <1>5 DEF old, new

(* The lists are the same with an empty one after them. *)
LEMMA EmptyListLast ==
    ASSUME NEW L \in Seq(Seq(ProcessInfo))
    PROVE  /\ \A S : AllOf(L, S) => AllOf(Append(L, <<>>), S)
           /\ \A S : AllBefore(L, S) => AllBefore(Append(L, <<>>), S)
           /\ Sorted(L) => Sorted(Append(L, <<>>))
<1> DEFINE new == Append(L, <<>>)
<1>1. /\ Len(new) = Len(L) + 1 /\ Len(L) \in Nat
      /\ \A a \in 1..Len(new) : IF a = Len(L) + 1 THEN new[a] = <<>>
                                ELSE a \in 1..Len(L) /\ new[a] = L[a]
  BY EmptySeq, AppendRanks
<1> HIDE DEF new
<1>2. ASSUME NEW a \in 1..Len(new), NEW j \in 1..Len(new[a])
      PROVE  a \in 1..Len(L) /\ j \in 1..Len(L[a]) /\ new[a] = L[a]
  BY <1>1
<1>3. ASSUME NEW S, AllOf(L, S) PROVE AllOf(new, S)
  BY <1>2, <1>3 DEF AllOf
<1>4. ASSUME NEW S, AllBefore(L, S) PROVE AllBefore(new, S)
  BY <1>2, <1>4 DEF AllBefore
<1>5. ASSUME Sorted(L) PROVE Sorted(new)
  BY <1>2, <1>5 DEF Sorted
<1> QED
  BY <1>3, <1>4, <1>5 DEF new

LEMMA ListsType ==
    ASSUME ParseType
    PROVE  /\ Lists \in Seq(Seq(ProcessInfo)) /\ emitted \in Seq(Seq(ProcessInfo))
           /\ processInfoQueue \in Seq(ProcessInfo)
           /\ \A n \in Scan : /\ Appended(n) = Append(processInfoQueue, Ended(n))
                              /\ Appended(n) \in Seq(ProcessInfo)
                              /\ Append(emitted, Appended(n)) \in Seq(Seq(ProcessInfo))
                              /\ Ended(n) \in ProcessInfo /\ Ended(n).of = currentProcess
<1>1. emitted \in Seq(Seq(ProcessInfo)) /\ processInfoQueue \in Seq(ProcessInfo)
  BY DEF ParseType
<1>2. Lists \in Seq(Seq(ProcessInfo))
  BY <1>1, AppendRanks DEF Lists
<1>3. \A n \in Scan : /\ Appended(n) = Append(processInfoQueue, Ended(n))
                      /\ Appended(n) \in Seq(ProcessInfo) /\ Ended(n) \in ProcessInfo
  BY AppendedItems DEF Appended, Ended
<1>4. \A n \in Scan : Append(emitted, Appended(n)) \in Seq(Seq(ProcessInfo))
  BY <1>1, <1>3, AppendRanks
<1> QED
  BY <1>1, <1>2, <1>3, <1>4 DEF Ended

(* What a step does to the lists: it may close the last one, with or       *)
(* without the item that ends here.                                        *)
Closed(lists) == {lists, Append(lists, <<>>)}

LEMMA FlushLists ==
    ASSUME ParseType, NEW n \in Scan, FlushAndSend(n)
    PROVE  \/ currentProcess' = currentProcess /\ Lists' \in Closed(Lists)
           \/ currentProcess' = {} /\ Lists' \in Closed(Append(emitted, Appended(n)))
<1>1. Lists = Append(emitted, processInfoQueue)
      /\ Lists' = Append(emitted', processInfoQueue')
  BY DEF Lists
<1>2. CASE /\ currentProcess' = Empty
           /\ Send(Appended(n)) /\ processInfoQueue' = Sent(Appended(n))
  <2>1. Appended(n) # <<>>
    BY ListsType, AppendRanks, EmptySeq
  <2>2. emitted' = Append(emitted, Appended(n)) /\ processInfoQueue' = <<>>
    BY <1>2, <2>1 DEF Send, Sent
  <2> QED
    BY <1>1, <1>2, <2>2 DEF Closed, Empty
<1>3. CASE /\ Send(processInfoQueue) /\ processInfoQueue' = Sent(processInfoQueue)
           /\ UNCHANGED currentProcess
  <2>1. processInfoQueue' = <<>>
    BY <1>3 DEF Sent
  <2>2. CASE processInfoQueue = <<>>
    BY <1>1, <1>3, <2>1, <2>2 DEF Send, Closed
  <2>3. CASE processInfoQueue # <<>>
    BY <1>1, <1>3, <2>1, <2>3 DEF Send, Closed
  <2> QED
    BY <2>2, <2>3
<1> QED
  BY <1>2, <1>3 DEF FlushAndSend

(* What was read stays read. *)
LEMMA ReadGrows ==
    ASSUME Inv, ProcessNext
    PROVE  /\ WasRead \subseteq WasRead' /\ (~late' => ~late)
<1>1. PICK n \in Scan : read' = read \/ read' = [read EXCEPT ![n] = @ + 1]
  BY DEF ProcessNext, GetInfo, GetInfoFails, Data, StdoutEnd, StdoutClose, Exit, Close
<1>2. \A m \in Scan : read[m] \in Nat
  BY Bounds DEF Inv, ParseType
<1>3. \A m \in Scan : read'[m] \in Nat /\ read[m] <= read'[m]
  BY <1>1, <1>2 DEF Inv, ParseType
<1>4. \A q \in Process : q[1] \in Scan /\ q[2] \in Nat
  BY Bounds DEF Process
<1>5. WasRead \subseteq WasRead'
  BY <1>2, <1>3, <1>4 DEF WasRead
<1>6. ~late' => ~late
  BY DEF ProcessNext, GetInfo, GetInfoFails, Data, StdoutEnd, StdoutClose, Exit, Close,
         StartedNow
<1> QED
  BY <1>5, <1>6

LEMMA NoneBefore ==
    ASSUME NEW lists
    PROVE  AllBefore(lists, {})
BY DEF AllBefore

LEMMA AllOfMore ==
    ASSUME NEW lists, NEW S, NEW T, S \subseteq T, AllOf(lists, S)
    PROVE  AllOf(lists, T)
BY DEF AllOf

(* A step that reads no fields. *)
LEMMA ListsKeepOrder ==
    ASSUME Inv, OrderInv, WasRead \subseteq WasRead', ~late' => ~late,
           \/ currentProcess' = currentProcess /\ Lists' \in Closed(Lists)
           \/ \E n \in Scan : /\ currentProcess' = {}
                              /\ Lists' \in Closed(Append(emitted, Appended(n)))
    PROVE  OrderInv'
<1> DEFINE Good(lists, S) ==
             AllOf(lists, WasRead) /\ (~late => Sorted(lists) /\ AllBefore(lists, S))
<1>1. ASSUME NEW lists \in Seq(Seq(ProcessInfo)), NEW S, Good(lists, S),
             Lists' \in Closed(lists)
      PROVE  Good(Lists', S)
  BY <1>1, EmptyListLast DEF Closed
<1>2. ParseType
  BY DEF Inv
<1>3. Good(Lists, currentProcess)
  BY DEF OrderInv
<1>4. CASE currentProcess' = currentProcess /\ Lists' \in Closed(Lists)
  <2>1. Good(Lists', currentProcess')
    BY <1>1, <1>2, <1>3, <1>4, ListsType
  <2>2. AllOf(Lists', WasRead')
    BY <2>1, AllOfMore
  <2> QED
    BY <1>4, <2>1, <2>2 DEF OrderInv
<1>5. CASE \E n \in Scan : /\ currentProcess' = {}
                           /\ Lists' \in Closed(Append(emitted, Appended(n)))
  <2>1. PICK n \in Scan : /\ currentProcess' = {}
                          /\ Lists' \in Closed(Append(emitted, Appended(n)))
    BY <1>5
  <2>2. Good(Append(emitted, Appended(n)), {})
    <3>1. Ended(n).of \subseteq WasRead
      BY <1>2, ListsType DEF OrderInv
    <3>2. /\ Appended(n) = Append(processInfoQueue, Ended(n)) /\ Ended(n) \in ProcessInfo
          /\ Ended(n).of = currentProcess
          /\ emitted \in Seq(Seq(ProcessInfo)) /\ processInfoQueue \in Seq(ProcessInfo)
      BY <1>2, ListsType
    <3> QED
      BY <1>3, <3>1, <3>2, ItemGoesLast, NoneBefore DEF Lists
  <2>3. Good(Lists', {})
    BY <1>1, <1>2, <2>1, <2>2, ListsType
  <2>4. AllOf(Lists', WasRead')
    BY <2>3, AllOfMore
  <2> QED
    BY <2>1, <2>3, <2>4 DEF OrderInv
<1> QED
  BY <1>4, <1>5

(* The process whose fields are read was printed after those read before.  *)
LEMMA FieldsKeepOrder ==
    ASSUME Inv, OrderInv, NEW n \in Scan, Data(n), ReadFields(n)
    PROVE  OrderInv'
<1>0. PICK p : p = (read[n] + 1) \div 3
  OBVIOUS
<1>1. /\ "end" \in events[n] /\ read[n] \in Nat
      /\ read'[n] = read[n] + 1 /\ read' = [read EXCEPT ![n] = @ + 1]
      /\ read[n] % 3 = 2 /\ read[n] < 3 * Printed
      /\ UNCHANGED <<late, Lists>>
      /\ currentProcess' = currentProcess \cup {<<n, p>>}
  BY <1>0, DataEffect DEF ReadFields, Fields, Lists
<1>2. 3 * p = read'[n] /\ p \in 1..Printed /\ <<n, p>> \in Process
  <2>1. 3 * p = read[n] + 1
    BY <1>0, <1>1, FieldsOf
  <2>2. p \in Int
    BY <1>0, <1>1
  <2>3. p \in 1..Printed
    BY <1>1, <2>1, <2>2, Bounds
  <2> QED
    BY <1>1, <2>1, <2>3 DEF Process
<1>3. WasRead \subseteq WasRead' /\ <<n, p>> \in WasRead'
  <2>1. ProcessNext
    BY DEF ProcessNext
  <2> QED
    BY <1>2, <2>1, ReadGrows DEF WasRead
<1>4. ~late => \A q \in WasRead : Before(q, <<n, p>>)
  <2> SUFFICES ASSUME ~late, NEW q \in WasRead PROVE Before(q, <<n, p>>)
    OBVIOUS
  <2>1. n = started /\ started \in Nat
    BY <1>1, Bounds DEF Inv, Children, ParseType
  <2>2. /\ q[1] \in Scan /\ q[1] \in Nat /\ q[2] \in Nat \ {0}
        /\ read[q[1]] \in Nat /\ 3 * q[2] <= read[q[1]]
    BY Bounds DEF WasRead, Process, Scan, Inv, ParseType
  <2>3. q[1] <= started
    BY <2>1, <2>2 DEF Inv, Children
  <2>4. q[1] = n => q[2] < p
    BY <1>1, <1>2, <2>2
  <2> QED
    BY <2>1, <2>2, <2>3, <2>4 DEF Before
<1>5. AllOf(Lists', WasRead') /\ currentProcess' \subseteq WasRead'
  BY <1>1, <1>3, AllOfMore DEF OrderInv
<1>6. ASSUME ~late PROVE Sorted(Lists') /\ AllBefore(Lists', currentProcess')
  <2>1. AllOf(Lists, WasRead) /\ Sorted(Lists) /\ AllBefore(Lists, currentProcess)
    BY <1>6 DEF OrderInv
  <2>2. AllBefore(Lists, currentProcess')
    BY <1>1, <1>4, <1>6, <2>1 DEF AllOf, AllBefore
  <2> QED
    BY <1>1, <2>1, <2>2
<1> QED
  BY <1>1, <1>5, <1>6 DEF OrderInv

LEMMA OrderNext == Inv /\ OrderInv /\ [Next]_vars => OrderInv'
<1> SUFFICES ASSUME Inv, OrderInv, [Next]_vars PROVE OrderInv'
  OBVIOUS
<1>1. CASE ProcessNext
  <2>1. PICK n \in Scan : \/ GetInfo(n) \/ GetInfoFails(n)
                          \/ Data(n) \/ StdoutEnd(n) \/ StdoutClose(n)
                          \/ Exit(n) \/ Close(n)
    BY <1>1 DEF ProcessNext
  <2>2. WasRead \subseteq WasRead' /\ (~late' => ~late) /\ ParseType
    BY <1>1, ReadGrows DEF Inv
  <2>3. CASE FlushAndSend(n)
    BY <2>2, <2>3, FlushLists, ListsKeepOrder
  <2>4. CASE currentProcess' = currentProcess /\ Lists' = Lists
    BY <2>2, <2>4, ListsKeepOrder DEF Closed
  <2>5. CASE Data(n) /\ ReadRest(n) /\ prevLine[n]
    <3>1. currentProcess' = {} /\ Lists' = Append(emitted, Appended(n))
      BY <2>5 DEF ReadRest, Empty, Lists
    <3> QED
      BY <2>2, <3>1, ListsKeepOrder DEF Closed
  <2>6. CASE Data(n) /\ ReadFields(n)
    BY <2>6, FieldsKeepOrder
  <2>7. \/ FlushAndSend(n)
        \/ UNCHANGED <<currentProcess, processInfoQueue, emitted>>
        \/ Data(n) /\ ReadRest(n) /\ prevLine[n]
        \/ Data(n) /\ ReadFields(n)
    BY <2>1 DEF GetInfo, GetInfoFails, Data, StdoutEnd, StdoutClose, Exit, Close,
                ReadHalf, ReadRest, parseVars
  <2> QED
    BY <2>3, <2>4, <2>5, <2>6, <2>7 DEF Lists
<1>2. CASE UNCHANGED processVars
  <2>1. UNCHANGED <<read, late, currentProcess, processInfoQueue, emitted>>
    BY <1>2 DEF processVars, childVars, parseVars
  <2>2. Lists' = Lists /\ WasRead' = WasRead
    BY <2>1 DEF Lists, WasRead
  <2> QED
    BY <2>1, <2>2 DEF OrderInv
<1> QED
  BY <1>1, <1>2 DEF Next, Collect, Network, Done, vars

LEMMA InitOrder == AgentInit => OrderInv
<1> SUFFICES ASSUME Init PROVE OrderInv
  BY DEF AgentInit
<1>1. /\ emitted = <<>> /\ processInfoQueue = <<>> /\ currentProcess = {}
      /\ \A k \in 1..Len(Lists) : Len(Lists[k]) = 0
  BY EmptySeq, AppendRanks DEF Init, Lists
<1> QED
  BY <1>1 DEF OrderInv, AllOf, AllBefore, Sorted

-----------------------------------------------------------------------------
(* The network part: what NodeNetwork_proofs shows of it holds here, where *)
(* the scans it is given are the lists that were emitted.                  *)

P == INSTANCE NodeNetwork_proofs WITH
    scans <- Len(emitted), MaxScans <- MaxBatches, events <- socketEvents

NetInv == P!SocketType /\ P!QueueInv

LEMMA Assumed == P!NetworkAssumption
  BY AgentAssumption DEF P!NetworkAssumption

LEMMA NetIsP ==
    /\ Net!Init <=> P!Init
    /\ Net!Send <=> P!Send
    /\ Net!TypeOK <=> P!TypeOK
    /\ \A d \in Dest, k \in Net!Socket :
         (Net!Callbacks(d, k) \/ Net!Fail(d, k) \/ Net!PeerCloses(d, k))
            => /\ k \in P!Socket
               /\ P!Callbacks(d, k) \/ P!Fail(d, k) \/ P!PeerCloses(d, k)
<1>1. Net!Init <=> P!Init
  BY DEF Net!Init, P!Init, Net!Socket, P!Socket
<1>2. Net!Send <=> P!Send
  BY DEF Net!Send, P!Send, Net!Down, P!Down, Net!Up, P!Up, Net!Room, P!Room,
         Net!ConnectOne, P!ConnectOne, Net!InUseDestroyed, P!InUseDestroyed,
         Net!NewQueue, P!NewQueue, Net!Write, P!Write, Net!Keep, P!Keep, Net!Mark, P!Mark
<1>3. Net!TypeOK <=> P!TypeOK
  BY DEF Net!TypeOK, P!TypeOK, Net!Socket, P!Socket, Net!Item, P!Item
<1>4. ASSUME NEW d \in Dest, NEW k \in Net!Socket,
             Net!Callbacks(d, k) \/ Net!Fail(d, k) \/ Net!PeerCloses(d, k)
      PROVE  /\ k \in P!Socket
             /\ P!Callbacks(d, k) \/ P!Fail(d, k) \/ P!PeerCloses(d, k)
  BY <1>4 DEF Net!Callbacks, P!Callbacks, Net!Fail, P!Fail, Net!PeerCloses, P!PeerCloses,
              Net!OnConnect, P!OnConnect, Net!OnError, P!OnError, Net!OnClose, P!OnClose,
              Net!Alive, P!Alive, Net!DestroyInUse, P!DestroyInUse, Net!Socket, P!Socket
<1> QED
  BY <1>1, <1>2, <1>3, <1>4

LEMMA NetNext == NetInv /\ [Next]_vars => NetInv'
<1> SUFFICES ASSUME NetInv, [Next]_vars PROVE NetInv'
  OBVIOUS
<1>1. CASE P!Send
  BY <1>1, Assumed, P!SendSocketType, P!SendQueueInv DEF NetInv
<1>2. ASSUME NEW d \in Dest, NEW k \in P!Socket,
             P!Callbacks(d, k) \/ P!Fail(d, k) \/ P!PeerCloses(d, k)
      PROVE  NetInv'
  <2>1. P!Next
    BY <1>2 DEF P!Next
  <2> QED
    BY <1>2, <2>1, Assumed, P!CallbackSocketType, P!QueueInvNext DEF NetInv
<1>3. CASE emitted' = emitted /\ UNCHANGED netVars
  <2>1. UNCHANGED P!vars
    BY <1>3 DEF netVars, P!vars
  <2> QED
    BY <2>1, Assumed, P!SocketTypeNext, P!QueueInvNext DEF NetInv
<1> QED
  BY <1>1, <1>2, <1>3, NetIsP
     DEF Next, Collect, OnParsed, Network, Done, vars, processVars, parseVars

LEMMA InitNet == AgentInit => NetInv
  BY NetIsP, Assumed, P!InitInv DEF AgentInit, NetInv

(* The parser, what it emits and the network part, at all times. *)
THEOREM WholeInvariance == Spec => [](Inv /\ OrderInv /\ NetInv)
<1>1. Inv /\ OrderInv /\ NetInv /\ [Next]_vars => (Inv /\ OrderInv /\ NetInv)'
  BY NextInv, OrderNext, NetNext
<1> QED
  BY <1>1, InitInv, InitOrder, InitNet, PTL DEF Spec

(* The type of the variables of both parts of the agent. *)
THEOREM TypeCorrect == Spec => []TypeOK
<1>1. NetInv => Net!TypeOK
  BY NetIsP DEF NetInv, P!SocketType, P!QueueInv, P!QueueType, P!TypeOK
<1> QED
  BY <1>1, WholeInvariance, ProcessTypeCorrect, PTL DEF TypeOK

(* The processes a server is given come once each and in the order they    *)
(* were printed, over all the lists and all the connections, unless two    *)
(* Powershells printed at a time (sendProcessInfo, flush of cpsNetwork).   *)
THEOREM EachOnceInOrderAlways == Spec => []EachOnceInOrder
<1>1. Inv /\ OrderInv /\ NetInv => EachOnceInOrder
  <2> SUFFICES ASSUME Inv, OrderInv, NetInv, ~late,
                      NEW d \in Dest, NEW a \in 1..Len(written[d]), NEW b \in 1..Len(written[d]),
                      NEW j \in 1..Len(emitted[written[d][a]]),
                      NEW k \in 1..Len(emitted[written[d][b]]),
                      Before(<<a, j>>, <<b, k>>)
               PROVE  InOrder(emitted[written[d][a]][j], emitted[written[d][b]][k])
    BY DEF EachOnceInOrder
  <2> DEFINE m == written[d][a]
             n == written[d][b]
  <2>1. m \in 1..Len(emitted) /\ n \in 1..Len(emitted)
    <3>1. written[d] \in Seq(1..MaxBatches)
      BY DEF NetInv, P!QueueInv, P!QueueType
    <3>2. m \in 1..MaxBatches /\ n \in 1..MaxBatches
      BY <3>1, ElementOfSeq
    <3>3. m <= Len(emitted) /\ n <= Len(emitted)
      BY DEF NetInv, P!QueueInv, P!Produced
    <3> QED
      BY <3>2, <3>3, AgentAssumption DEF AgentAssumption
  <2>2. a < b => m < n
    BY DEF NetInv, P!QueueInv, P!WrittenInOrder
  <2>3. Before(<<m, j>>, <<n, k>>)
    BY <2>2 DEF Before
  <2>4. Sorted(Lists)
    BY DEF OrderInv
  <2>5. /\ Len(Lists) = Len(emitted) + 1 /\ Len(emitted) \in Nat
        /\ Lists[m] = emitted[m] /\ Lists[n] = emitted[n]
    BY <2>1, AppendProperties, LenProperties DEF Lists, Inv, ParseType
  <2>6. m \in 1..Len(Lists) /\ n \in 1..Len(Lists)
    BY <2>1, <2>5
  <2> QED
    BY <2>3, <2>4, <2>5, <2>6 DEF Sorted
<1> QED
  BY <1>1, WholeInvariance, PTL
=============================================================================
