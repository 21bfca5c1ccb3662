------------------------------ MODULE Watchdog ------------------------------
(***************************************************************************)
(* The parent process of the daemon (server/src/main.c; the Linux agent    *)
(* has the same): it launches the daemon as its child, waits for it to     *)
(* end, and launches it again, unless that happened too often, in which    *)
(* case it sleeps first.  A signal stops both.                             *)
(*                                                                         *)
(* The child may end at any time, fork() may fail, time passes between any *)
(* two calls, and the clock that time() reads may be set.                  *)
(*                                                                         *)
(* A definition whose name ends in Mutant is the one that follows it with  *)
(* a bug: no part of the specification, but what a property is tried on.   *)
(***************************************************************************)
EXTENDS Integers, Sequences

CONSTANTS
    Burst,     \* 5: quick restarts before the watchdog sleeps
    Window,    \* 60: a child that lasted longer makes the count start again
    Pause,     \* 20 * 60
    MaxSkew,   \* bound: how far the clock may be set back
    MaxSteps,  \* bound: how many times it is set
    Horizon,   \* bound: no child ends after this time
    MaxTime    \* bound: where time stops, once nobody sleeps

ASSUME BurstAssumption == Burst \in Nat
ASSUME PauseAssumption ==
    /\ Window \in Nat /\ Pause \in Nat /\ Pause > Window
    /\ Horizon \in Nat /\ MaxTime \in Nat
    /\ MaxSkew \in Nat /\ MaxSteps \in Nat

VARIABLES
    now,       \* real time
    skew,      \* how far the clock is behind its initial setting
    steps,     \* how many times it was set
    pc,        \* "launch", "wait" in waitpid, "sleep", or "stopped"
    wake,      \* when sleep() returns
    lastTm,    \* last_tm
    count,     \* count
    child,     \* "none", "running" or "ended"
    handlers,  \* does daemonize set the handlers
    launches   \* history: when each launch was, and after how many steps

vars == <<now, skew, steps, pc, wake, lastTm, count, child, handlers, launches>>

(* time(NULL): the wall clock. *)
time == now + MaxSkew - skew

(* daemonize returns at once, before it sets the handlers, when the parent *)
(* is process 1.                                                           *)
Init ==
    /\ now = 0 /\ skew = 0 /\ steps = 0
    /\ pc = "launch" /\ wake = 0 /\ lastTm = time /\ count = 0
    /\ child = "none" /\ handlers \in BOOLEAN
    /\ launches = <<>>

-----------------------------------------------------------------------------
(* run_watchdog. *)

(* last_tm is read, and exec_ourselves_as_child forks.  When it fails, pid *)
(* is -1 and waitpid has nobody to wait for.                               *)
Launch ==
    /\ pc = "launch" /\ pc' = "wait"
    /\ lastTm' = time
    /\ child' \in IF now <= Horizon THEN {"running", "ended"} ELSE {"running"}
    /\ launches' = Append(launches, [at |-> now, steps |-> steps])
    /\ UNCHANGED <<now, skew, steps, wake, count, handlers>>

(* The count once the child has ended: it starts again after a child that  *)
(* lasted.                                                                 *)
NextCountNeverMutant == 0

NextCount == IF time - lastTm > Window THEN 0 ELSE count + 1

TooManyMutant(n) == n > Burst + 1

TooMany(n) == n > Burst

(* Does waitpid return. *)
Waited == child = "ended"

(* waitpid returns. *)
WaitReturns ==
    /\ pc = "wait" /\ Waited
    /\ count' = NextCount
    /\ \/ /\ TooMany(NextCount)
          /\ pc' = "sleep" /\ wake' = now + Pause
       \/ /\ ~TooMany(NextCount)
          /\ pc' = "launch" /\ UNCHANGED wake
    /\ UNCHANGED <<now, skew, steps, lastTm, child, handlers, launches>>

(* sleep returns, and the count starts again. *)
WakeOnlyMutant ==
    /\ pc = "sleep" /\ now >= wake
    /\ count' = 0
    /\ UNCHANGED <<now, skew, steps, pc, wake, lastTm, child, handlers, launches>>

Wake ==
    /\ pc = "sleep" /\ now >= wake
    /\ pc' = "launch" /\ count' = 0
    /\ UNCHANGED <<now, skew, steps, wake, lastTm, child, handlers, launches>>

(* SIGTERM, SIGINT, SIGQUIT or SIGHUP.  The handler signals the process    *)
(* group, where the child is, and exits; without a handler the watchdog    *)
(* alone dies of the signal.                                               *)
StopAloneMutant ==
    /\ pc # "stopped" /\ pc' = "stopped"
    /\ UNCHANGED <<now, skew, steps, wake, lastTm, count, child, handlers, launches>>

Stop ==
    /\ pc # "stopped" /\ pc' = "stopped"
    /\ child' = IF handlers /\ child = "running" THEN "ended" ELSE child
    /\ UNCHANGED <<now, skew, steps, wake, lastTm, count, handlers, launches>>

-----------------------------------------------------------------------------
(* The environment. *)

ChildEnds ==
    /\ child = "running" /\ now <= Horizon /\ child' = "ended"
    /\ UNCHANGED <<now, skew, steps, pc, wake, lastTm, count, handlers, launches>>

Tick ==
    /\ now < MaxTime \/ (pc = "sleep" /\ now < wake)
    /\ now' = now + 1
    /\ UNCHANGED <<skew, steps, pc, wake, lastTm, count, child, handlers, launches>>

ClockStep ==
    /\ steps < MaxSteps /\ steps' = steps + 1
    /\ skew' \in (0..MaxSkew) \ {skew}
    /\ UNCHANGED <<now, pc, wake, lastTm, count, child, handlers, launches>>

Watchdog == Launch \/ WaitReturns \/ Wake

(* The watchdog waits in waitpid, or is gone, and time has stopped. *)
Done ==
    /\ pc = "stopped" \/ (pc = "wait" /\ child = "running")
    /\ now >= MaxTime /\ UNCHANGED vars

Next == Watchdog \/ Stop \/ ChildEnds \/ Tick \/ ClockStep \/ Done

Spec == Init /\ [][Next]_vars

(* The watchdog runs when it can, and sleep comes to its end. *)
FairSpec == Spec /\ WF_vars(Watchdog) /\ WF_vars(Tick)

-----------------------------------------------------------------------------
(* Properties. *)

(* The type of every variable. *)
TypeOK ==
    /\ now \in Nat /\ skew \in 0..MaxSkew /\ steps \in 0..MaxSteps
    /\ pc \in {"launch", "wait", "sleep", "stopped"}
    /\ wake \in Nat /\ lastTm \in Nat /\ count \in 0..(Burst + 1)
    /\ child \in {"none", "running", "ended"} /\ handlers \in BOOLEAN
    /\ launches \in Seq([at : Nat, steps : 0..MaxSteps])

(* A daemon that keeps dying is not launched in a loop: the first and the  *)
(* last of Burst + 2 launches are more than Window apart, as long as       *)
(* nobody sets the clock between them (run_watchdog).                      *)
LaunchRate ==
    \A k \in 1..(Len(launches) - Burst - 1) :
        LET last == launches[k + Burst + 1]
        IN  last.steps = launches[k].steps => last.at - launches[k].at > Window

(* The watchdog never launches a second child beside the first. *)
OneChild == [][Len(launches') > Len(launches) => child # "running"]_vars

(* A watchdog that has its handlers takes the child with it when stopped   *)
(* (signal_handler_for_watchdog_stop).                                     *)
NoOrphan == pc = "stopped" /\ handlers => child # "running"

(* Unless it is stopped, the watchdog launches a child that ended again,   *)
(* however often it ended and whatever the clock says.                     *)
Relaunched ==
    \A n \in 1..(Horizon + Burst) :
        Len(launches) = n /\ child = "ended" ~> Len(launches) > n \/ pc = "stopped"

-----------------------------------------------------------------------------
(* The inductive invariant of the safety proof (Watchdog_proofs).          *)

(* Time and steps of launch b; of the launch to come, those of now.        *)
At(b) == IF b <= Len(launches) THEN launches[b].at ELSE now
Steps(b) == IF b <= Len(launches) THEN launches[b].steps ELSE steps

(* The launches are in order of time. *)
LaunchesInOrder ==
    \A a, b \in 1..(Len(launches) + 1) :
        a <= b => At(a) <= At(b) /\ Steps(a) <= Steps(b)

(* last_tm is when the child was launched, unless the clock was set since. *)
LastLaunch ==
    pc = "wait" =>
        /\ Len(launches) > 0
        /\ Steps(Len(launches)) = steps => lastTm = At(Len(launches)) + MaxSkew - skew

(* The burst under way started at launch b, count launches ago, and not    *)
(* before Window had gone since the one before.                            *)
BurstFrom(b) ==
    /\ count <= Burst /\ b >= 1
    /\ b > 1 /\ Steps(b) = Steps(b - 1) => At(b) - At(b - 1) > Window

BurstInv ==
    /\ pc = "wait" => BurstFrom(Len(launches) - count)
    /\ pc = "launch" => BurstFrom(Len(launches) + 1 - count)
    /\ pc = "sleep" /\ Len(launches) > 0 => wake - At(Len(launches)) > Window

IInv == TypeOK /\ LaunchesInOrder /\ LastLaunch /\ BurstInv /\ LaunchRate
=============================================================================
