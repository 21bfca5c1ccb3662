------------------------------- MODULE Packet -------------------------------
(***************************************************************************)
(* The packets an object is made of, once they are read: the type of each  *)
(* and what it holds.  A text is a string and the number of its characters *)
(* JSON has to escape; a number is its digits; the header of a list or of  *)
(* a hash is the number of its elements.                                   *)
(***************************************************************************)
EXTENDS Integers, Sequences

PacketString == "STRING"
PacketNumeric == "NUMERIC"
PacketList == "LIST"
PacketHash == "HASH"

(* Any packet. *)
Packets == [type : {PacketString, PacketNumeric, PacketList, PacketHash},
            text : STRING, escapes : Nat, count : Nat]

EscapedText(t, n) == [type |-> PacketString, text |-> t, escapes |-> n, count |-> 0]

Text(t) == EscapedText(t, 0)

Number(digits) == [type |-> PacketNumeric, text |-> digits, escapes |-> 0, count |-> 0]

ListHeader(n) == [type |-> PacketList, text |-> "", escapes |-> 0, count |-> n]

HashHeader(n) == [type |-> PacketHash, text |-> "", escapes |-> 0, count |-> n]
=============================================================================
