--------------------------- MODULE ObjectFraming ---------------------------
(***************************************************************************)
(* What the server promises of a connection, whatever TCP does to the      *)
(* bytes: the objects handed to the workers are the ones the received      *)
(* bytes spell, by the format that server/src/util_buffer.h describes.     *)
(* There is no chunk, no read() and no buffer here: only how much was      *)
(* received, and what has been handed over.                                *)
(*                                                                         *)
(* A unit is 32 bits of a field: a packet is its type, its length with the *)
(* header included, and its data.  A number is 64 bits, two units of data, *)
(* whatever the length: when the data is shorter, the low unit is what     *)
(* memory holds after it (util_buffer.c:122, :333).                        *)
(***************************************************************************)
EXTENDS Integers, Sequences

CONSTANTS
    Streams,    \* the byte streams a client may send
    BufferMax,  \* listener.buffer_max_size
    NumberMod,  \* 2^32: packet lengths are unsigned 32-bit integers
    Memory      \* what may be in memory after data that is short

SizeMod == NumberMod * NumberMod  \* numbers are unsigned 64-bit integers

HeaderSize == 2

PacketString == 0
PacketNumeric == 1
PacketList == 2
PacketHash == 3
Composite == {PacketList, PacketHash}
Numbered == {PacketNumeric, PacketList, PacketHash}

(* The length of the data that a header announces. *)
DataLen(length) == (length - HeaderSize) % NumberMod

(* A header the server accepts: a known type, and data it has room for. *)
Accepted(type, length) ==
    /\ type \in {PacketString, PacketNumeric, PacketList, PacketHash}
    /\ DataLen(length) \in 1..BufferMax

(* Is there a packet in full at p. *)
PacketAt(s, p) ==
    /\ p + 1 <= Len(s)
    /\ Accepted(s[p], s[p + 1])
    /\ p + s[p + 1] - 1 <= Len(s)

(* Where s may have a number shorter than 64 bits. *)
ShortAt(s) ==
    {p \in 1..(Len(s) - 1) : s[p] \in Numbered /\ s[p + 1] = HeaderSize + 1}

(* The number of the packet at p.  Of a text none is read. *)
Number(s, p, past) ==
    IF s[p] \notin Numbered THEN 0
    ELSE NumberMod * s[p + 2]
         + IF s[p + 1] = HeaderSize + 1 THEN past[p] ELSE s[p + 3]

(* The packets spelled in full by s, up to the first that is refused. *)
Packets(s, past) ==
    LET From[p \in 1..(Len(s) + 1)] ==
            IF PacketAt(s, p)
            THEN << [type |-> s[p],
                     data |-> SubSeq(s, p + HeaderSize, p + s[p + 1] - 1),
                     number |-> Number(s, p, past)] >>
                 \o From[p + s[p + 1]]
            ELSE <<>>
    IN  From[1]

(* Does s hold, after these packets, the header of one that is refused. *)
Refused(s) ==
    LET From[p \in 1..(Len(s) + 1)] ==
            IF PacketAt(s, p)
            THEN From[p + s[p + 1]]
            ELSE p + 1 <= Len(s) /\ ~Accepted(s[p], s[p + 1])
    IN  From[1]

(* How many packets the object that starts with packet k is made of.  A    *)
(* hash has two for each key, in 64 bits; no packets more is as many as     *)
(* the counter can tell.                                                    *)
Span(k) ==
    CASE k.type \notin Composite \/ k.number = 0 -> 1
      [] k.type = PacketList -> 1 + k.number
      [] OTHER -> 1 + IF (2 * k.number) % SizeMod = 0 THEN SizeMod
                      ELSE (2 * k.number) % SizeMod

(* The objects spelled in full by s, each the sequence of its packets. *)
Objects(s, past) ==
    LET pkts == Packets(s, past)
        From[p \in 1..(Len(pkts) + 1)] ==
            IF p <= Len(pkts) /\ p + Span(pkts[p]) - 1 <= Len(pkts)
            THEN << SubSeq(pkts, p, p + Span(pkts[p]) - 1) >>
                 \o From[p + Span(pkts[p])]
            ELSE <<>>
    IN  From[1]

VARIABLES
    stream,  \* the bytes of this connection
    past,    \* of each short number, what memory holds after it
    taken,   \* how many of them were received
    pushed,  \* the objects handed to the workers
    open     \* is the connection open

vars == <<stream, past, taken, pushed, open>>

Init ==
    /\ stream \in Streams /\ past \in [ShortAt(stream) -> Memory]
    /\ taken = 0 /\ pushed = <<>> /\ open = TRUE

(* Some more bytes: every object they complete is handed over, and the     *)
(* connection does not outlive a packet that is refused.                   *)
Receive ==
    /\ open /\ taken' \in (taken + 1)..Len(stream)
    /\ LET received == SubSeq(stream, 1, taken')
       IN  /\ pushed' = Objects(received, past)
           /\ open' = ~Refused(received)
    /\ UNCHANGED <<stream, past>>

Close == open /\ open' = FALSE /\ UNCHANGED <<stream, past, taken, pushed>>

Next == Receive \/ Close

Spec == Init /\ [][Next]_vars
=============================================================================
