----------------------------- MODULE EventLoop -----------------------------
(***************************************************************************)
(* The event loop of the server (server/src/util_ev.c): the listener that  *)
(* accepts clients and backs off when descriptors run out, and the timer   *)
(* that closes a connection nothing was read from for a while.             *)
(*                                                                         *)
(* libev calls one callback at a time, so a callback is a step.  Time is   *)
(* counted in the least step of the loop's clocks.  There are two of them: *)
(* timers are on the monotonic clock, ev_now() is the time of day, which    *)
(* may be set at any moment.  Every date is kept relative to now, on its   *)
(* own clock: a timer is the time left before it is due, and an activity   *)
(* the time gone since.  libev calls a timer back once its date is past,   *)
(* which is when the time left is negative.                                *)
(*                                                                         *)
(* A definition whose name ends in Mutant is the one that follows it with  *)
(* a bug: no part of the specification, but what a property is tried on.   *)
(***************************************************************************)
EXTENDS Integers, FiniteSets

CONSTANTS
    Client,   \* the clients that may connect
    MaxFds,   \* descriptors left for connections
    Timeout,  \* ECHO_CONNECTION_TIMEOUT
    Cooldown, \* COOLDOWN_DURATION
    MaxBack,  \* bound: by how much the time of day is set back, in all
    Off       \* a timer that is not active

ASSUME LoopAssumption ==
    /\ MaxFds \in Nat \ {0} /\ Timeout \in Nat \ {0} /\ Cooldown \in Nat \ {0}
    /\ MaxBack \in Nat
    /\ Off \notin Int

VARIABLES
    link,      \* "none", "waiting" in the backlog, "open" or "closed"
    idle,      \* ev_now() less last_activity: time of day
    timer,     \* time left of client_timer, or Off: monotonic
    back,      \* by how much the time of day was set back so far
    quiet,     \* history: how long ago last_activity really was
    late,      \* history: of back, the part since the client was accepted
    listening, \* is the listener watcher started
    cooling,   \* time left of the cooldown timer, or Off
    after,     \* what ev_timer_start gives the cooldown timer next
    backoff    \* history: time since the listener was last stopped

clockVars    == <<idle, back, quiet, late>>
clientVars   == <<link, timer, clockVars>>
listenerVars == <<listening, cooling, after, backoff>>
loopVars == <<clientVars, listenerVars>>

LoopInit ==
    /\ link = [c \in Client |-> "none"]
    /\ timer = [c \in Client |-> Off]
    /\ idle = [c \in Client |-> 0] /\ quiet = [c \in Client |-> 0]
    /\ back = 0 /\ late = [c \in Client |-> 0]
    /\ listening = TRUE /\ cooling = Off /\ after = Cooldown
    /\ backoff = Cooldown

Waiting == {c \in Client : link[c] = "waiting"}
OpenConns == {c \in Client : link[c] = "open"}

-----------------------------------------------------------------------------
(* Timers of libev, as this code uses them. *)

(* One step of time for a timer; past its date, how late it is is no       *)
(* matter.                                                                 *)
Elapse(t) == IF t = Off THEN Off ELSE IF t < 0 THEN t ELSE t - 1

Due(t) == t # Off /\ t < 0

(* ev_timer_again with a repeat of r: a repeat of 0 stops the timer. *)
TimerAgain(r) == IF r = 0 THEN Off ELSE r

-----------------------------------------------------------------------------
(* The two clocks. *)

(* Beyond these, how much makes no difference: an activity is too old for  *)
(* any set back to come, a client was quiet for too long.                  *)
MaxIdle == Timeout + 1 + MaxBack - back
MaxQuiet == Timeout + 1 + MaxBack

Tick ==
    /\ timer' = [c \in Client |-> Elapse(timer[c])]
    /\ idle' = [c \in Client |-> IF link[c] = "open" /\ idle[c] < MaxIdle
                                 THEN idle[c] + 1 ELSE idle[c]]
    /\ quiet' = [c \in Client |-> IF link[c] = "open" /\ quiet[c] < MaxQuiet
                                  THEN quiet[c] + 1 ELSE quiet[c]]
    /\ cooling' = Elapse(cooling)
    /\ backoff' = IF ~listening /\ backoff <= Cooldown THEN backoff + 1 ELSE backoff
    /\ UNCHANGED <<link, back, late, listening, after>>

(* The time of day is set: every activity looks that much older, and no    *)
(* timer is moved.                                                         *)
SetAhead ==
    /\ \E d \in 1..(Timeout + 1 + MaxBack) :
         idle' = [c \in Client |->
                    IF link[c] # "open" THEN idle[c]
                    ELSE IF idle[c] + d < MaxIdle THEN idle[c] + d ELSE MaxIdle]
    /\ UNCHANGED <<link, timer, back, quiet, late, listenerVars>>

SetBack ==
    /\ \E d \in 1..(MaxBack - back) :
         /\ back' = back + d
         /\ idle' = [c \in Client |-> IF link[c] = "open" THEN idle[c] - d ELSE idle[c]]
         /\ late' = [c \in Client |-> IF link[c] = "open" THEN late[c] + d ELSE late[c]]
    /\ UNCHANGED <<link, timer, quiet, listenerVars>>

-----------------------------------------------------------------------------

Connect(c) ==
    /\ link[c] \in {"none", "closed"}
    /\ link' = [link EXCEPT ![c] = "waiting"]
    /\ UNCHANGED <<timer, clockVars, listenerVars>>

(* listen_cb accepts clients until accept() fails: for want of anybody to  *)
(* accept, because one of them went away, or for want of resources of the  *)
(* process or of the system.  accept() asks for a descriptor before it     *)
(* looks at the backlog, so the last descriptor starves it.  Only then is  *)
(* the listener stopped and the cooldown timer started.                    *)
(* make_client_watcher arms the timer of each client; its last activity is *)
(* now.                                                                    *)
Listen ==
    /\ listening /\ Waiting # {}
    /\ \E new \in SUBSET Waiting, starved \in BOOLEAN :
         /\ Cardinality(OpenConns \cup new) <= MaxFds
         /\ Cardinality(OpenConns \cup new) = MaxFds => starved
         /\ link' = [c \in Client |-> IF c \in new THEN "open" ELSE link[c]]
         /\ timer' = [c \in Client |-> IF c \in new THEN Timeout ELSE timer[c]]
         /\ idle' = [c \in Client |-> IF c \in new THEN 0 ELSE idle[c]]
         /\ quiet' = [c \in Client |-> IF c \in new THEN 0 ELSE quiet[c]]
         /\ late' = [c \in Client |-> IF c \in new THEN 0 ELSE late[c]]
         /\ \/ /\ starved
               /\ listening' = FALSE /\ cooling' = after /\ backoff' = 0
               /\ UNCHANGED after
            \/ ~starved /\ UNCHANGED listenerVars
    /\ UNCHANGED back

(* cooldown_cb.  The timer does not repeat: libev stopped it before the    *)
(* call, and stopping leaves in it the time that was left, which is what   *)
(* ev_timer_start starts from the next time.                               *)
CooldownCbDeafMutant ==
    /\ Due(cooling)
    /\ after' = cooling /\ cooling' = Off
    /\ UNCHANGED <<listening, clientVars, backoff>>

CooldownCb ==
    /\ Due(cooling)
    /\ after' = cooling /\ cooling' = Off
    /\ listening' = TRUE
    /\ UNCHANGED <<clientVars, backoff>>

(* client_cb reads something.  (When that is no more than a header,        *)
(* object_buffer_read returns the -1 of the data that is not there yet,    *)
(* and last_activity stays as it was: for this module, no step.)           *)
ClientCb(c) ==
    /\ link[c] = "open"
    /\ idle' = [idle EXCEPT ![c] = 0] /\ quiet' = [quiet EXCEPT ![c] = 0]
    /\ UNCHANGED <<link, timer, back, late, listenerVars>>

(* stop_client_watcher: the timer is stopped, and freed with the rest.     *)
StopClient(c) ==
    /\ link' = [link EXCEPT ![c] = "closed"]
    /\ timer' = [timer EXCEPT ![c] = Off]
    /\ idle' = [idle EXCEPT ![c] = 0] /\ quiet' = [quiet EXCEPT ![c] = 0]
    /\ late' = [late EXCEPT ![c] = 0]
    /\ UNCHANGED <<back, listenerVars>>

(* client_cb reads the end of the stream or fails. *)
ClientEnds(c) == link[c] = "open" /\ StopClient(c)

(* What is left of the timeout of a connection by the time of day: timeout *)
(* less now.                                                               *)
RemainingFullMutant(c) == Timeout

RemainingNegativeMutant(c) == idle[c] - Timeout

Remaining(c) == Timeout - idle[c]

(* timeout_cb: a real timeout, or the timer is set to what is left. *)
TimeoutCb(c) ==
    /\ link[c] = "open" /\ Due(timer[c])
    /\ \/ idle[c] > Timeout /\ StopClient(c)
       \/ /\ idle[c] <= Timeout
          /\ timer' = [timer EXCEPT ![c] = TimerAgain(Remaining(c))]
          /\ UNCHANGED <<link, clockVars, listenerVars>>

LoopNext ==
    \/ Listen \/ CooldownCb \/ Tick \/ SetAhead \/ SetBack
    \/ \E c \in Client : Connect(c) \/ ClientCb(c) \/ ClientEnds(c) \/ TimeoutCb(c)

LoopSpec == LoopInit /\ [][LoopNext]_loopVars

(* Time passes, and libev calls back what is due. *)
LoopFairSpec ==
    /\ LoopSpec /\ WF_loopVars(Tick) /\ WF_loopVars(CooldownCb) /\ WF_loopVars(Listen)
    /\ \A c \in Client : WF_loopVars(TimeoutCb(c))

-----------------------------------------------------------------------------
(* Properties. *)

Left == {Off} \cup (-1)..(Timeout + MaxBack) \cup (-1)..Cooldown

(* The type of every variable; a timer, which is in the memory of its      *)
(* connection, is off once that is gone (stop_client_watcher).             *)
LoopTypeOK ==
    /\ link \in [Client -> {"none", "waiting", "open", "closed"}]
    /\ timer \in [Client -> Left]
    /\ back \in 0..MaxBack /\ idle \in [Client -> (-back)..MaxIdle]
    /\ quiet \in [Client -> 0..MaxQuiet] /\ late \in [Client -> 0..back]
    /\ \A c \in Client : link[c] # "open" => timer[c] = Off
    /\ listening \in BOOLEAN /\ cooling \in Left /\ after \in Left \ {Off}
    /\ backoff \in 0..(Cooldown + 1)

(* The timer of a connection, when it has one, is due no later than the    *)
(* moment the client has been quiet for Timeout, and for as long again as  *)
(* the time of day was set back since it was accepted: activity delays it  *)
(* no more than that (timeout_cb sets it to what is left by the time of    *)
(* day, client_cb only moves last_activity).                               *)
TimerNotLate ==
    \A c \in Client : link[c] = "open" /\ timer[c] # Off /\ timer[c] >= 0 =>
        timer[c] + quiet[c] <= Timeout + late[c]

(* A listener that was stopped has a timer that will start it again        *)
(* (listen_cb, cooldown_cb).                                               *)
NeverDeaf == ~listening => cooling # Off

(* A listener that backs off listens again in the end: the only start of   *)
(* its watcher is in cooldown_cb.                                          *)
ListensAgain == ~listening ~> listening

(* "backing off for a bit" (listen_cb): when the listener is started       *)
(* again, the cool-down duration has gone.                                 *)
BackoffLasts == listening => backoff >= Cooldown
=============================================================================
