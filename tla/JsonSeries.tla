----------------------------- MODULE JsonSeries -----------------------------
(***************************************************************************)
(* object_buffer_to_json (server/src/util_buffer.c): from an object to the *)
(* series that is posted to InfluxDB.  An object is the list of its        *)
(* packets; in a hash the keys are at the even places, each before its     *)
(* value.                                                                  *)
(*                                                                         *)
(* The C code makes a first pass that finds four fields and adds up the    *)
(* room it needs, then writes the name, the keys and the values, each      *)
(* followed by a comma, and steps back over the last one.  Here what it    *)
(* writes is a sequence of items and commas; an item that was stepped back *)
(* into has lost characters (cut).  The text that is the same in every     *)
(* series is its length.                                                   *)
(*                                                                         *)
(* A definition whose name ends in Mutant is the one that follows it with  *)
(* a bug: no part of the specification, but what a property is tried on.   *)
(***************************************************************************)
EXTENDS Packet, FiniteSetsExt, SequencesExt

(* What a text is made of is known only by evaluating it. *)
ASSUME CommaAssumption == Len(",") = 1

(* Where the value is of the last key with one of these names, 0           *)
(* without one.                                                            *)
Field(list, names) ==
    LET keys  == {i \in 2..Len(list) : i % 2 = 0 /\ list[i].type = PacketString}
        found == {i \in keys : list[i].text \in names}
    IN  IF found = {} THEN 0 ELSE Max(found) + 1

Hostname(list) == Field(list, {"hostname"})
Cdtime(list) == Field(list, {"cdtime"})
Pid(list) == Field(list, {"PID", "pid"})
Name(list) == Field(list, {"Name"})

(* Values that are copied without quotes. *)
Bare == {"VirtualSize", "ThreadCount", "stime", "utime"}

Item(k, quoted) ==
    [text |-> k.text, escapes |-> k.escapes, quoted |-> quoted, cut |-> 0]

Comma == Item(Text(","), FALSE)

(* The position goes back by one character. *)
Back(out) ==
    CASE out = <<>> -> out
      [] out # <<>> /\ Last(out).cut + 1 = Len(Last(out).text) -> Front(out)
      [] OTHER -> [out EXCEPT ![Len(out)].cut = @ + 1]

(* packet_buffer_to_json with a comma, after which the position is one     *)
(* before the end of what it says it wrote: its final zero, or the last    *)
(* digit of a number.                                                      *)
Put(out, k, quoted) ==
    CASE k.type = PacketString -> out \o <<Item(k, quoted), Comma>>
      [] k.type = PacketNumeric -> Back(Append(out, Item(k, FALSE)))
      [] OTHER -> Back(out)

(* The keys, without the one of the date, which is the column "time". *)
Columns(list) ==
    LET out[i \in 1..Len(list)] ==
          IF i = 1 THEN <<Item(Text("time"), TRUE), Comma>>
          ELSE IF i % 2 = 0 /\ i # Cdtime(list) - 1 THEN Put(out[i - 1], list[i], TRUE)
          ELSE out[i - 1]
    IN  Back(out[Len(list)])

(* The date, then the other values. *)
Points(list) ==
    LET out[i \in 1..Len(list)] ==
          IF i = 1 THEN Put(<<>>, list[Cdtime(list)], FALSE)
          ELSE IF i % 2 = 1 /\ i # Cdtime(list)
               THEN Put(out[i - 1], list[i], list[i - 1].text \notin Bare)
          ELSE out[i - 1]
    IN  Back(out[Len(list)])

(* <hostname>/<pid>/<Name>, the slashes and every other special character  *)
(* replaced.                                                               *)
SeriesName(list) ==
    <<list[Hostname(list)].text, list[Pid(list)].text, list[Name(list)].text>>

(* How long "[{"name":", ","columns":["time",", "],"points":[[" and "]]}]" *)
(* are together.                                                           *)
FixedSize == 45

(* PACKET_BUFFER_COMPUTE_SIZE: every character may be escaped; a text has  *)
(* a final zero.                                                           *)
RoomUnescapedMutant(k) ==
    CASE k.type = PacketString -> (Len(k.text) + 1) + 2
      [] k.type = PacketNumeric -> 21
      [] OTHER -> 0

Room(k) ==
    CASE k.type = PacketString -> 2 * (Len(k.text) + 1) + 2
      [] k.type = PacketNumeric -> 21
      [] OTHER -> 0

(* strlen_escape_json. *)
Escaped(k) == Len(k.text) + k.escapes + 2

(* The sum of f from a place to another. *)
Total(f, first, last) ==
    LET sum[i \in 0..last] == IF i < first THEN 0 ELSE sum[i - 1] + f[i]
    IN  sum[last]

(* maxlen: what is allocated. *)
Allocated(list) ==
    FixedSize + 1 + Total([i \in 1..Len(list) |-> Room(list[i])], 2, Len(list))
      + Escaped(list[Pid(list)]) + Escaped(list[Name(list)])
      + Escaped(list[Hostname(list)]) + 3

Width(item) ==
    Len(item.text) + item.escapes - item.cut + (IF item.quoted THEN 2 ELSE 0)

(* What is written, with the two separators of the name and the final      *)
(* zero; the column "time" and its comma are part of the fixed text.       *)
Written(list) ==
    LET keys == Columns(list) values == Points(list)
        text(f) == Len(list[f].text) + list[f].escapes
    IN  FixedSize + 1 + text(Hostname(list)) + text(Pid(list)) + text(Name(list)) + 4
          + Total([i \in 1..Len(keys) |-> Width(keys[i])], 3, Len(keys))
          + Total([i \in 1..Len(values) |-> Width(values[i])], 1, Len(values))

IsHash(list) == list[1].type = PacketHash /\ Len(list) > 1

(* The four fields without which there is no series. *)
Complete(list) == 0 \notin {Hostname(list), Cdtime(list), Pid(list), Name(list)}

NoJson == [name |-> <<>>, columns |-> <<>>, points |-> <<>>]

object_buffer_to_json(list) ==
    IF IsHash(list) /\ Complete(list) /\ Written(list) <= Allocated(list)
    THEN [name |-> SeriesName(list), columns |-> Columns(list), points |-> Points(list)]
    ELSE NoJson
=============================================================================
