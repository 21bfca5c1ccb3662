------------------------------ MODULE Delivery -----------------------------
(***************************************************************************)
(* What both agents promise about what they collect, whatever happens to   *)
(* the connections on the way: each destination receives what was          *)
(* produced once, in order, with gaps only where something was forgotten,  *)
(* and what is held is held for just the destinations it has not reached.  *)
(*                                                                         *)
(* AgentDelivery (an item is a sample) and NodeNetwork (an item is a scan) *)
(* implement it.  The Linux agent writes one item to one destination at a  *)
(* time; one call of send in the Windows agent produces an item, forgets   *)
(* an old one and writes a whole queue to several destinations.  So the    *)
(* one action says how far a step may go, and not how it is cut.           *)
(***************************************************************************)
EXTENDS Integers, Sequences

CONSTANT Dest

VARIABLES
    made,     \* how many items were produced
    pending,  \* item held -> the destinations it is still to reach
    got       \* the items each destination received, in order

vars == <<made, pending, got>>

Held == DOMAIN pending

Init ==
    /\ made = 0 /\ Held = {}
    /\ \A d \in Dest : got[d] = <<>>

New == (made + 1)..made'

(* Where an item is to go before the step. *)
ToReach(i) == IF i \in Held THEN pending[i] ELSE Dest

(* The items the step gives to d. *)
Fresh(d) == {got'[d][k] : k \in (Len(got[d]) + 1)..Len(got'[d])}

(* What d received goes on, in order, with items that were to reach it.    *)
Receives(d) ==
    /\ Len(got[d]) <= Len(got'[d])
    /\ \A k \in 1..Len(got[d]) : got'[d][k] = got[d][k]
    /\ \A a, b \in 1..Len(got'[d]) : a < b => got'[d][a] < got'[d][b]
    /\ \A i \in Fresh(d) : i \in Held \cup New /\ d \in ToReach(i)

(* What is held after the step was held, or is new, and is still to reach  *)
(* the destinations the step did not give it to.                           *)
Holds(i) ==
    /\ i \in Held \cup New
    /\ pending'[i] = {d \in ToReach(i) : i \notin Fresh(d)}

Advance ==
    /\ made <= made'
    /\ \A d \in Dest : Receives(d)
    /\ \A i \in Held' : Holds(i)

Spec == Init /\ [][Advance]_vars
=============================================================================
