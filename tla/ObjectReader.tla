---------------------------- MODULE ObjectReader ----------------------------
(***************************************************************************)
(* The reading side of one connection of the server: client_cb's EV_READ   *)
(* branch (server/src/util_ev.c) over object_buffer_read and               *)
(* packet_buffer_read (server/src/util_buffer.c).                          *)
(*                                                                         *)
(* The socket is non blocking and the bytes arrive in pieces of any size,  *)
(* between any two calls of read(); the client may close, or the           *)
(* connection be reset, anywhere.  Every read() is a step, with all the    *)
(* code that runs before the next one.  Units and constants are those of   *)
(* ObjectFraming, which this module implements.                            *)
(*                                                                         *)
(* A definition whose name ends in Mutant is the one that follows it with  *)
(* a bug: no part of the specification, but what a property is tried on.   *)
(***************************************************************************)
EXTENDS Integers, Sequences

CONSTANTS
    Streams, BufferMax, NumberMod, Memory

(* listener.buffer_max_size is an int of the configuration. *)
ASSUME ReaderAssumption ==
    /\ BufferMax \in Nat /\ NumberMod \in Nat
    /\ BufferMax + 2 < NumberMod
    /\ Streams \subseteq Seq(0..(NumberMod - 1))
    /\ Memory \subseteq 0..(NumberMod - 1)

SizeMod == NumberMod * NumberMod  \* uint64_t, size_t

HeaderSize == 2

PacketString == 0
PacketNumeric == 1
PacketList == 2
PacketHash == 3
PacketUndefined == 4

VARIABLES
    stream,   \* what the client sends on this connection
    past,     \* what memory holds after the data of each short number
    arrived,  \* how much of it is in, or went through, the socket
    eof,      \* the client has closed its side
    taken,    \* how much of it read() has returned
    conn,     \* "idle" in the event loop, "reading" in client_cb, "closed"
    buf,      \* packet_buffer_t under construction (obj->buf)
    obj,      \* object_buffer_t under construction (w->source)
    pushed,   \* the objects given to g_thread_pool_push, in order
    reset     \* history: the connection was reset

vars == <<stream, past, arrived, eof, taken, conn, buf, obj, pushed, reset>>

Framing == INSTANCE ObjectFraming WITH open <- conn # "closed"

(* packet_buffer_new: expecting a header, nothing read. *)
NewBuffer == [state |-> "HEADER", header |-> <<>>, data |-> <<>>, len |-> 0]

(* object_buffer_new. *)
NewObject == [type |-> PacketUndefined, list |-> <<>>, remaining |-> 0]

Init ==
    /\ stream \in Streams /\ past \in [Framing!ShortAt(stream) -> Memory]
    /\ arrived = 0 /\ eof = FALSE /\ taken = 0
    /\ conn = "idle"
    /\ buf = NewBuffer /\ obj = NewObject
    /\ pushed = <<>> /\ reset = FALSE

Available == arrived - taken

(* What read() returns when n units are wanted and some are there. *)
ReadUnits(wanted) ==
    LET n == IF wanted < Available THEN wanted ELSE Available
    IN  SubSeq(stream, taken + 1, taken + n)

-----------------------------------------------------------------------------

(* libev finds the descriptor readable: client_cb. *)
ReadEvent ==
    /\ conn = "idle" /\ (Available > 0 \/ eof)
    /\ conn' = "reading"
    /\ UNCHANGED <<stream, past, arrived, eof, taken, buf, obj, pushed, reset>>

(* stop_client_watcher; the object under construction is freed with it. *)
Close ==
    /\ conn' = "closed"
    /\ buf' = NewBuffer /\ obj' = NewObject

(* The length field less the header, in 32 bits. *)
DataLen(header) == (header[2] - HeaderSize) % NumberMod

(* packet_buffer_alloc_buffer refuses: rc -3, -4, and -5 for no data, as   *)
(* g_slice_alloc(0) is NULL.                                               *)
GarbageUnlessTypeMutant(header) ==
    header[1] \notin {PacketString, PacketNumeric, PacketList, PacketHash}

Garbage(header) ==
    \/ DataLen(header) > BufferMax
    \/ header[1] \notin {PacketString, PacketNumeric, PacketList, PacketHash}
    \/ DataLen(header) = 0

(* packet_buffer_read on PACKET_STATE__HEADER, up to the read() of the     *)
(* data; what is refused closes the connection (client_cb, -2 >= n).       *)
ReadHeader ==
    /\ conn = "reading" /\ Available > 0 /\ buf.state = "HEADER"
    /\ LET got    == ReadUnits(HeaderSize - Len(buf.header))
           header == buf.header \o got
       IN  /\ taken' = taken + Len(got)
           /\ \/ /\ Len(header) < HeaderSize
                 /\ buf' = [buf EXCEPT !.header = header]
                 /\ UNCHANGED <<conn, obj>>
              \/ /\ Len(header) = HeaderSize /\ ~Garbage(header)
                 /\ buf' = [state |-> "DATA", header |-> header,
                            data |-> <<>>, len |-> DataLen(header)]
                 /\ UNCHANGED <<conn, obj>>
              \/ /\ Len(header) = HeaderSize /\ Garbage(header)
                 /\ Close
    /\ UNCHANGED <<stream, past, arrived, eof, pushed, reset>>

(* The 64 bits at the start of the data of the packet that starts at place, *)
(* whatever its length (buf->numeric, parse_part_number).                   *)
Numeric(header, data, place) ==
    IF header[1] \notin {PacketNumeric, PacketList, PacketHash} THEN 0
    ELSE NumberMod * data[1] + IF Len(data) = 1 THEN past[place] ELSE data[2]

(* How many packets the first packet of an object says will follow. *)
FollowingKeysMutant(k) ==
    IF k.type \in {PacketList, PacketHash} THEN k.number ELSE 0

Following(k) ==
    CASE k.type = PacketList -> k.number
      [] k.type = PacketHash -> (2 * k.number) % SizeMod
      [] OTHER -> 0

(* object_buffer_read: packet k is ready.  The first packet says how many  *)
(* follow; each of the others counts one down.                             *)
Packet(k) ==
    IF obj.type = PacketUndefined
    THEN [type |-> k.type,
          list |-> <<k>>,
          remaining |-> Following(k),
          ready |-> k.type \notin {PacketList, PacketHash} \/ k.number = 0]
    ELSE LET left == (obj.remaining - 1) % SizeMod
         IN  [type |-> obj.type,
              list |-> Append(obj.list, k),
              remaining |-> left,
              ready |-> left = 0]

(* packet_buffer_read on the data, then object_buffer_read; client_cb      *)
(* pushes an object that is ready and goes on with a new one.              *)
ReadData ==
    /\ conn = "reading" /\ Available > 0 /\ buf.state = "DATA"
    /\ LET got  == ReadUnits(buf.len - Len(buf.data))
           data == buf.data \o got
           place == taken + Len(got) + 1 - HeaderSize - Len(data)
           next == Packet([type |-> buf.header[1], data |-> data,
                           number |-> Numeric(buf.header, data, place)])
       IN  /\ taken' = taken + Len(got)
           /\ \/ /\ Len(data) < buf.len
                 /\ buf' = [buf EXCEPT !.data = data]
                 /\ UNCHANGED <<obj, pushed>>
              \/ /\ Len(data) = buf.len /\ ~next.ready
                 /\ buf' = NewBuffer
                 /\ obj' = [type |-> next.type, list |-> next.list,
                            remaining |-> next.remaining]
                 /\ UNCHANGED pushed
              \/ /\ Len(data) = buf.len /\ next.ready
                 /\ buf' = NewBuffer /\ obj' = NewObject
                 /\ pushed' = Append(pushed, next.list)
    /\ UNCHANGED <<stream, past, arrived, eof, conn, reset>>

(* read() returns -1 with EAGAIN: client_cb returns to the event loop and  *)
(* keeps what it has.                                                      *)
ReadAgainForgetsMutant ==
    /\ conn = "reading" /\ Available = 0 /\ ~eof
    /\ conn' = "idle" /\ buf' = NewBuffer
    /\ UNCHANGED <<stream, past, arrived, eof, taken, obj, pushed, reset>>

ReadAgain ==
    /\ conn = "reading" /\ Available = 0 /\ ~eof
    /\ conn' = "idle"
    /\ UNCHANGED <<stream, past, arrived, eof, taken, buf, obj, pushed, reset>>

(* read() returns 0: the end of the stream.                                *)
ReadEofFirstMutant ==
    /\ conn = "reading" /\ eof
    /\ Close
    /\ UNCHANGED <<stream, past, arrived, eof, taken, pushed, reset>>

ReadEofIgnoredMutant ==
    /\ conn = "reading" /\ Available = 0 /\ eof
    /\ conn' = "idle"
    /\ UNCHANGED <<stream, past, arrived, eof, taken, buf, obj, pushed, reset>>

ReadEof ==
    /\ conn = "reading" /\ Available = 0 /\ eof
    /\ Close
    /\ UNCHANGED <<stream, past, arrived, eof, taken, pushed, reset>>

Reader == ReadEvent \/ ReadHeader \/ ReadData \/ ReadAgain \/ ReadEof

-----------------------------------------------------------------------------
(* The network. *)

Arrive ==
    /\ ~eof /\ arrived < Len(stream)
    /\ arrived' \in (arrived + 1)..Len(stream)
    /\ UNCHANGED <<stream, past, eof, taken, conn, buf, obj, pushed, reset>>

PeerCloses ==
    /\ ~eof /\ eof' = TRUE
    /\ UNCHANGED <<stream, past, arrived, taken, conn, buf, obj, pushed, reset>>

(* read() returns -1 with another errno: what is in the socket is lost. *)
Reset ==
    /\ conn = "reading" /\ Close /\ reset' = TRUE
    /\ UNCHANGED <<stream, past, arrived, eof, taken, pushed>>

Done == conn = "closed" /\ UNCHANGED vars

Next == Reader \/ Arrive \/ PeerCloses \/ Reset \/ Done

Spec == Init /\ [][Next]_vars

(* The event loop calls back as long as the descriptor is readable, and    *)
(* client_cb reads to the end.                                             *)
FairSpec == Spec /\ WF_vars(Reader)

-----------------------------------------------------------------------------
(* Properties. *)

Packets == [type : {PacketString, PacketNumeric, PacketList, PacketHash},
            data : Seq(Nat), number : 0..(SizeMod - 1)]

(* The type of every variable. *)
TypeOK ==
    /\ past \in [Framing!ShortAt(stream) -> Memory]
    /\ taken \in 0..arrived /\ arrived \in 0..Len(stream)
    /\ eof \in BOOLEAN /\ reset \in BOOLEAN
    /\ conn \in {"idle", "reading", "closed"}
    /\ buf \in [state : {"HEADER", "DATA"}, header : Seq(Nat),
                data : Seq(Nat), len : 0..BufferMax]
    /\ obj \in [type : {PacketString, PacketNumeric, PacketList, PacketHash, PacketUndefined},
                list : Seq(Packets), remaining : 0..(SizeMod - 1)]
    /\ pushed \in Seq(Seq(Packets))

(* However the bytes were cut into reads, what was handed to the workers   *)
(* is what the bytes read so far spell, object by object: no object is     *)
(* split, joined, repeated or held back, whatever the counts that the      *)
(* bytes or the memory after them spell (packet_buffer_read,               *)
(* object_buffer_read, client_cb).                                         *)
ChunksDoNotMatter == Framing!Spec

UnitsOf(k) == HeaderSize + Len(k.data)

UnitsOfObject(o) ==
    LET Upto[n \in 0..Len(o)] == IF n = 0 THEN 0 ELSE Upto[n - 1] + UnitsOf(o[n])
    IN  Upto[Len(o)]

(* The bytes read are all accounted for: in the objects handed over, in    *)
(* the packets of the object under construction, in the packet under       *)
(* construction.                                                           *)
NoByteLost ==
    LET Upto[n \in 0..Len(pushed)] ==
            IF n = 0 THEN 0 ELSE Upto[n - 1] + UnitsOfObject(pushed[n])
    IN  conn # "closed" =>
          taken = Upto[Len(pushed)] + UnitsOfObject(obj.list)
                  + Len(buf.header) + Len(buf.data)

(* A connection that was closed, but not reset, left nothing complete in   *)
(* the socket: all that came before the end, or before a packet that is    *)
(* refused, was handed over (client_cb reads to the end of what is there,  *)
(* and stops only at case 0 and case -2 of the read).                      *)
CompleteHandedOver ==
    conn = "closed" /\ ~reset =>
      pushed = Framing!Objects(SubSeq(stream, 1, arrived), past)

(* When the client has closed, its connection is closed in the end         *)
(* (client_cb, case 0 of the read).                                        *)
ClosedAfterEof == eof ~> conn = "closed"
=============================================================================
