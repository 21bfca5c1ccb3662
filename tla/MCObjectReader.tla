--------------------------- MODULE MCObjectReader ---------------------------
(* Streams of up to four packets for ObjectReader.                         *)
EXTENDS ObjectReader, FiniteSets

MCBufferMax == 2
MCNumberMod == 16
MCMemory == {0, 1}

(* Two strings, a number, the empty and the small composites, a list and a *)
(* hash shorter than their number, hashes whose count wraps when it is     *)
(* doubled (to 2 and to 0), and headers the server refuses: no data, data  *)
(* too long, a type it does not know.                                      *)
Pool == { <<PacketString, 3, 7>>, <<PacketString, 4, 8, 9>>, <<PacketNumeric, 4, 0, 5>>,
          <<PacketList, 4, 0, 0>>, <<PacketList, 4, 0, 2>>, <<PacketList, 3, 0>>,
          <<PacketHash, 3, 0>>, <<PacketHash, 4, 8, 1>>, <<PacketHash, 4, 8, 0>>,
          <<PacketString, 2>>, <<PacketString, 5>>, <<9, 3>> }

Some == { <<PacketString, 3, 7>>, <<PacketList, 4, 0, 2>>, <<PacketHash, 3, 0>>,
          <<PacketHash, 4, 8, 1>>, <<PacketString, 2>> }

MCStreams ==
    {a \o b \o c : a \in Pool, b \in Pool, c \in Some}
    \cup {<<PacketHash, 4, 0, 1>> \o a \o b \o c : a \in Some, b \in Some, c \in Some}
=============================================================================
