-------------------------- MODULE Watchdog_proofs --------------------------
(***************************************************************************)
(* Proofs about Watchdog, for every value of its constants.  The heart of  *)
(* it is BurstInv: the launches of a burst are counted from one that came  *)
(* more than Window after the launch before it.  As the count of a burst   *)
(* never exceeds Burst, any Burst + 2 launches in a row straddle such a    *)
(* gap, which is LaunchRate.                                               *)
(***************************************************************************)
EXTENDS Watchdog, SequenceTheorems, TLAPS

(* What a step that launches nothing leaves as it was.                     *)
LEMMA SameLaunches ==
    ASSUME NEW n \in Nat, n = Len(launches), launches' = launches
    PROVE  /\ Len(launches') = n
           /\ \A b \in 1..n : At(b)' = At(b) /\ Steps(b)' = Steps(b)
           /\ At(n + 1)' = now' /\ Steps(n + 1)' = steps'
BY DEF At, Steps

(* The launch adds to the history what it was before as the one to come.   *)
LEMMA LaunchAdds ==
    ASSUME NEW n \in Nat, n = Len(launches), TypeOK, Launch
    PROVE  /\ Len(launches') = n + 1
           /\ \A b \in 1..(n + 1) : At(b)' = At(b) /\ Steps(b)' = Steps(b)
           /\ At(n + 2)' = now /\ Steps(n + 2)' = steps
<1>1. /\ launches \in Seq([at : Nat, steps : 0..MaxSteps])
      /\ [at |-> now, steps |-> steps] \in [at : Nat, steps : 0..MaxSteps]
  BY DEF TypeOK
<1>2. /\ launches' = Append(launches, [at |-> now, steps |-> steps])
      /\ now' = now /\ steps' = steps
  BY DEF Launch
<1>3. /\ Len(launches') = n + 1
      /\ \A b \in 1..n : launches'[b] = launches[b]
      /\ launches'[n + 1] = [at |-> now, steps |-> steps]
  BY <1>1, <1>2, AppendProperties
<1> QED
  BY <1>2, <1>3 DEF At, Steps

LEMMA AtTypes ==
    ASSUME TypeOK
    PROVE  /\ Len(launches) \in Nat
           /\ \A b \in 1..(Len(launches) + 1) : At(b) \in Nat /\ Steps(b) \in Nat
<1>1. \A b \in 1..Len(launches) : launches[b] \in [at : Nat, steps : 0..MaxSteps]
  BY ElementOfSeq DEF TypeOK
<1>2. now \in Nat /\ steps \in Nat /\ MaxSteps \in Nat
  BY PauseAssumption DEF TypeOK, PauseAssumption
<1>3. Len(launches) \in Nat
  BY DEF TypeOK
<1> QED
  BY <1>1, <1>2, <1>3 DEF At, Steps

-----------------------------------------------------------------------------

(* The history holds nothing but real launches, in order.                  *)
LEMMA OrderNext ==
    ASSUME TypeOK, LaunchesInOrder, [Next]_vars PROVE LaunchesInOrder'
<1>0. now \in Nat /\ steps \in Nat
  BY DEF TypeOK
<1>1. CASE Launch
  <2>1. PICK n \in Nat : n = Len(launches)
    BY AtTypes
  <2>2. now = At(n + 1) /\ steps = Steps(n + 1)
    BY <2>1 DEF At, Steps
  <2>3. Len(launches') = n + 1
    BY <1>1, <2>1, LaunchAdds
  <2>4. /\ \A b \in 1..(n + 1) : At(b)' = At(b) /\ Steps(b)' = Steps(b)
        /\ At(n + 2)' = At(n + 1) /\ Steps(n + 2)' = Steps(n + 1)
    BY <1>1, <2>1, <2>2, LaunchAdds
  <2>5. \A a, b \in 1..(n + 1) : a <= b => At(a) <= At(b) /\ Steps(a) <= Steps(b)
    BY <2>1 DEF LaunchesInOrder
  <2>6. \A b \in 1..(n + 1) : At(b) \in Nat /\ Steps(b) \in Nat
    BY <2>1, AtTypes
  <2> QED
    BY <2>1, <2>3, <2>4, <2>5, <2>6 DEF LaunchesInOrder
<1>2. CASE /\ launches' = launches
           /\ now' \in {now, now + 1} /\ steps' \in {steps, steps + 1}
  <2>1. PICK n \in Nat : n = Len(launches)
    BY AtTypes
  <2>2. /\ Len(launches') = n
        /\ \A b \in 1..n : At(b)' = At(b) /\ Steps(b)' = Steps(b)
        /\ At(n + 1)' = now' /\ Steps(n + 1)' = steps'
    BY <1>2, <2>1, SameLaunches
  <2>3. At(n + 1) = now /\ Steps(n + 1) = steps
    BY <2>1 DEF At, Steps
  <2>4. \A a, b \in 1..(n + 1) : a <= b => At(a) <= At(b) /\ Steps(a) <= Steps(b)
    BY <2>1 DEF LaunchesInOrder
  <2>5. \A b \in 1..(n + 1) : At(b) \in Nat /\ Steps(b) \in Nat
    BY <2>1, AtTypes
  <2>6. ASSUME NEW a \in 1..(n + 1), NEW b \in 1..(n + 1), a <= b
        PROVE  At(a)' <= At(b)' /\ Steps(a)' <= Steps(b)'
    <3>1. CASE b <= n
      BY <2>2, <2>4, <2>6, <3>1
    <3>2. CASE a <= n /\ b = n + 1
      <4>1. /\ At(b)' = now' /\ Steps(b)' = steps'
            /\ At(a)' = At(a) /\ Steps(a)' = Steps(a)
        BY <2>2, <3>2
      <4>2. At(a) <= now /\ Steps(a) <= steps
        BY <2>3, <2>4, <3>2
      <4> QED
        BY <1>0, <1>2, <2>5, <4>1, <4>2
    <3>3. CASE a = n + 1 /\ b = n + 1
      BY <1>0, <1>2, <2>2, <3>3
    <3> QED
      BY <2>6, <3>1, <3>2, <3>3
  <2> QED
    BY <2>2, <2>6 DEF LaunchesInOrder
<1> QED
  BY <1>1, <1>2 DEF Next, Watchdog, vars, WaitReturns, Wake, Stop, ChildEnds,
                    Tick, ClockStep, Done

LEMMA TypeNext == ASSUME TypeOK, BurstInv, [Next]_vars PROVE TypeOK'
<1> USE BurstAssumption, PauseAssumption DEF BurstAssumption, PauseAssumption
<1>0. time \in Nat
  BY DEF TypeOK, time
<1>1. CASE Launch
  <2>1. [at |-> now, steps |-> steps] \in [at : Nat, steps : 0..MaxSteps]
    BY DEF TypeOK
  <2>2. launches' \in Seq([at : Nat, steps : 0..MaxSteps])
    BY <1>1, <2>1, AppendProperties DEF Launch, TypeOK
  <2> QED
    BY <1>0, <1>1, <2>2 DEF Launch, TypeOK
<1>2. CASE WaitReturns
  <2>1. count <= Burst /\ count \in Nat
    BY <1>2 DEF WaitReturns, BurstInv, BurstFrom, TypeOK
  <2>2. NextCount \in 0..(Burst + 1)
    BY <2>1 DEF NextCount
  <2> QED
    BY <1>2, <2>2 DEF WaitReturns, TypeOK
<1>3. CASE Wake
  BY <1>3 DEF Wake, TypeOK
<1>4. CASE Stop
  BY <1>4 DEF Stop, TypeOK
<1>5. CASE ChildEnds
  BY <1>5 DEF ChildEnds, TypeOK
<1>6. CASE Tick
  BY <1>6 DEF Tick, TypeOK
<1>7. CASE ClockStep
  BY <1>7 DEF ClockStep, TypeOK
<1>8. CASE UNCHANGED vars
  BY <1>8 DEF vars, TypeOK
<1> QED
  BY <1>1, <1>2, <1>3, <1>4, <1>5, <1>6, <1>7, <1>8 DEF Next, Watchdog, Done

LEMMA LastLaunchNext ==
    ASSUME TypeOK, LaunchesInOrder, LastLaunch, [Next]_vars PROVE LastLaunch'
<1>0. /\ now \in Nat /\ skew \in Nat /\ steps \in Nat /\ MaxSkew \in Nat
      /\ Len(launches) \in Nat
  BY PauseAssumption, AtTypes DEF PauseAssumption, TypeOK
<1>1. CASE Launch
  <2>1. PICK n \in Nat : n = Len(launches)
    BY <1>0
  <2>2. Len(launches') = n + 1 /\ At(n + 1)' = now
    BY <1>1, <2>1, LaunchAdds DEF At
  <2>3. lastTm' = now + MaxSkew - skew /\ skew' = skew
    BY <1>1 DEF Launch, time
  <2> QED
    BY <1>0, <2>2, <2>3 DEF LastLaunch
<1>2. CASE ClockStep
  <2>1. launches' = launches /\ steps' = steps + 1 /\ pc' = pc
    BY <1>2 DEF ClockStep
  <2>2. CASE pc = "wait"
    <3>1. Len(launches) > 0
      BY <2>2 DEF LastLaunch
    <3>2. Steps(Len(launches)) <= Steps(Len(launches) + 1)
      BY <1>0, <3>1 DEF LaunchesInOrder
    <3>3. Steps(Len(launches) + 1) = steps /\ Steps(Len(launches)) \in Nat
      BY <1>0, <3>1, AtTypes DEF Steps
    <3>4. Steps(Len(launches))' = Steps(Len(launches))
      BY <1>0, <2>1, <3>1 DEF Steps
    <3> QED
      BY <1>0, <2>1, <3>1, <3>2, <3>3, <3>4 DEF LastLaunch
  <2> QED
    BY <2>1, <2>2 DEF LastLaunch
<1>3. CASE pc' = "wait" => UNCHANGED <<pc, launches, steps, skew, lastTm>>
  BY <1>0, <1>3 DEF LastLaunch, At, Steps
<1> QED
  BY <1>1, <1>2, <1>3 DEF Next, Watchdog, vars, WaitReturns, Wake, Stop, ChildEnds,
                          Tick, Done

-----------------------------------------------------------------------------

(* A burst goes on as it began when the launch it began with is in the     *)
(* history already.                                                        *)
LEMMA BurstKept ==
    ASSUME TypeOK, NEW b \in 1..Len(launches), BurstFrom(b),
           launches' = launches, count' \in Nat, count' <= Burst
    PROVE  BurstFrom(b)'
<1>1. Len(launches) \in Nat
  BY AtTypes
<1>2. b > 1 => b - 1 \in 1..Len(launches)
  BY <1>1
<1>3. At(b)' = At(b) /\ Steps(b)' = Steps(b)
  BY SameLaunches
<1>4. b > 1 => At(b - 1)' = At(b - 1) /\ Steps(b - 1)' = Steps(b - 1)
  BY <1>2, SameLaunches
<1> QED
  BY <1>3, <1>4 DEF BurstFrom

LEMMA BurstNext ==
    ASSUME TypeOK, LaunchesInOrder, LastLaunch, BurstInv, [Next]_vars PROVE BurstInv'
<1>0. PICK n \in Nat : n = Len(launches)
  BY AtTypes
<1>1. /\ now \in Nat /\ steps \in Nat /\ skew \in Nat /\ MaxSkew \in Nat
      /\ count \in Nat /\ wake \in Nat /\ lastTm \in Nat /\ Burst \in Nat
      /\ Window \in Nat /\ Pause \in Nat /\ Pause > Window
  BY BurstAssumption, PauseAssumption DEF BurstAssumption, PauseAssumption, TypeOK
<1>2. \A b \in 1..(n + 1) : At(b) \in Nat /\ Steps(b) \in Nat
  BY <1>0, AtTypes
<1>3. At(n + 1) = now /\ Steps(n + 1) = steps
  BY <1>0 DEF At, Steps
<1>4. n > 0 => At(n) <= now /\ Steps(n) <= steps
  BY <1>0, <1>3 DEF LaunchesInOrder
<1>5. CASE Launch
  <2>1. BurstFrom(n + 1 - count)
    BY <1>0, <1>5 DEF Launch, BurstInv
  <2>2. PICK b \in 1..(n + 1) : b = n + 1 - count
    BY <1>1, <2>1 DEF BurstFrom
  <2>3. Len(launches') = n + 1 /\ count' = count /\ pc' = "wait"
    BY <1>0, <1>5, LaunchAdds DEF Launch
  <2>4. \A a \in 1..(n + 1) : At(a)' = At(a) /\ Steps(a)' = Steps(a)
    BY <1>0, <1>5, LaunchAdds
  <2>5. BurstFrom(b)'
    <3>1. b > 1 => b - 1 \in 1..(n + 1)
      OBVIOUS
    <3>2. BurstFrom(b)
      BY <2>1, <2>2
    <3> QED
      BY <2>3, <2>4, <3>1, <3>2 DEF BurstFrom
  <2>6. Len(launches') - count' = b
    BY <1>1, <2>2, <2>3
  <2> QED
    BY <2>3, <2>5, <2>6 DEF BurstInv
<1>6. CASE WaitReturns
  <2>1. launches' = launches /\ count' = NextCount /\ pc = "wait" /\ now' = now
        /\ steps' = steps
    BY <1>6 DEF WaitReturns
  <2>2. BurstFrom(n - count) /\ n > 0
    BY <1>0, <2>1 DEF BurstInv, LastLaunch
  <2>3. Len(launches') = n /\ At(n)' = At(n) /\ Steps(n)' = Steps(n)
        /\ At(n + 1)' = now /\ Steps(n + 1)' = steps
    BY <1>0, <2>1, <2>2, SameLaunches
  <2>4. CASE pc' = "sleep"
    <3>1. wake' = now + Pause
      BY <1>6, <2>4 DEF WaitReturns
    <3> QED
      BY <1>1, <1>2, <1>4, <2>2, <2>3, <2>4, <3>1 DEF BurstInv
  <2>5. CASE pc' = "launch"
    <3>1. count' <= Burst
      BY <1>1, <1>6, <2>1, <2>5 DEF WaitReturns, TooMany, NextCount
    <3>2. CASE time - lastTm > Window
      <4>1. count' = 0
        BY <2>1, <3>2 DEF NextCount
      <4>2. Steps(n) = steps => now - At(n) > Window
        BY <1>0, <1>1, <1>2, <2>1, <2>2, <3>2 DEF LastLaunch, time
      <4>3. BurstFrom(n + 1)'
        BY <1>1, <2>3, <4>1, <4>2 DEF BurstFrom
      <4> QED
        BY <2>3, <2>5, <4>1, <4>3 DEF BurstInv
    <3>3. CASE ~(time - lastTm > Window)
      <4>1. count' = count + 1
        BY <2>1, <3>3 DEF NextCount
      <4>2. PICK b \in 1..Len(launches) : b = n - count
        BY <1>0, <1>1, <2>2 DEF BurstFrom
      <4>3. BurstFrom(b)'
        BY <1>1, <2>1, <2>2, <3>1, <4>1, <4>2, BurstKept
      <4>4. n + 1 - count' = b
        BY <1>1, <4>1, <4>2
      <4> QED
        BY <2>3, <2>5, <4>3, <4>4 DEF BurstInv
    <3> QED
      BY <3>2, <3>3
  <2> QED
    BY <1>6, <2>4, <2>5 DEF WaitReturns
<1>7. CASE Wake
  <2>1. /\ launches' = launches /\ count' = 0 /\ pc' = "launch" /\ now >= wake
        /\ now' = now /\ steps' = steps /\ pc = "sleep"
    BY <1>7 DEF Wake
  <2>2. /\ Len(launches') = n /\ At(n + 1)' = now /\ Steps(n + 1)' = steps
        /\ n > 0 => At(n)' = At(n) /\ Steps(n)' = Steps(n)
    BY <1>0, <2>1, SameLaunches
  <2>3. n > 0 => now - At(n) > Window
    BY <1>0, <1>1, <1>2, <2>1 DEF BurstInv
  <2>4. BurstFrom(n + 1)'
    BY <1>1, <2>1, <2>2, <2>3 DEF BurstFrom
  <2> QED
    BY <2>1, <2>2, <2>4 DEF BurstInv
<1>8. CASE /\ UNCHANGED <<launches, count, pc, wake>>
           /\ \/ now' \in {now, now + 1} /\ steps' = steps
              \/ now' = now /\ steps' = steps + 1
  <2>1. /\ Len(launches') = n /\ At(n + 1)' = now' /\ Steps(n + 1)' = steps'
        /\ n > 0 => At(n)' = At(n) /\ Steps(n)' = Steps(n)
    BY <1>0, <1>8, SameLaunches
  <2>2. CASE pc = "wait"
    <3>1. BurstFrom(n - count) /\ n - count >= 1
      BY <1>0, <2>2 DEF BurstInv, BurstFrom
    <3>2. PICK b \in 1..Len(launches) : b = n - count
      BY <1>0, <1>1, <3>1
    <3>3. BurstFrom(b)'
      BY <1>1, <1>8, <3>1, <3>2, BurstKept DEF BurstFrom
    <3>4. n - count' = b
      BY <1>8, <3>2
    <3> QED
      BY <1>8, <2>1, <2>2, <3>3, <3>4 DEF BurstInv
  <2>3. CASE pc = "launch" /\ count > 0
    <3>1. BurstFrom(n + 1 - count) /\ n + 1 - count >= 1 /\ count <= Burst
      BY <1>0, <2>3 DEF BurstInv, BurstFrom
    <3>2. PICK b \in 1..Len(launches) : b = n + 1 - count
      BY <1>0, <1>1, <2>3, <3>1
    <3>3. BurstFrom(b)'
      BY <1>1, <1>8, <3>1, <3>2, BurstKept
    <3>4. n + 1 - count' = b
      BY <1>8, <3>2
    <3> QED
      BY <1>8, <2>1, <2>3, <3>3, <3>4 DEF BurstInv
  <2>4. CASE pc = "launch" /\ count = 0
    <3>1. n > 0 /\ Steps(n) = steps => now - At(n) > Window
      BY <1>0, <1>3, <2>4 DEF BurstInv, BurstFrom
    <3>2. n > 0 /\ Steps(n) = steps' => now' - At(n) > Window
      BY <1>1, <1>2, <1>4, <1>8, <3>1
    <3>3. BurstFrom(n + 1)'
      BY <1>1, <1>8, <2>1, <2>4, <3>2 DEF BurstFrom
    <3> QED
      BY <1>8, <2>1, <2>4, <3>3 DEF BurstInv
  <2>5. CASE pc \in {"sleep", "stopped"}
    BY <1>0, <1>8, <2>1, <2>5 DEF BurstInv
  <2> QED
    BY <1>1, <2>2, <2>3, <2>4, <2>5 DEF TypeOK
<1>9. CASE Stop
  BY <1>9 DEF Stop, BurstInv
<1> QED
  BY <1>5, <1>6, <1>7, <1>8, <1>9
  DEF Next, Watchdog, vars, ChildEnds, Tick, ClockStep, Done

-----------------------------------------------------------------------------

LEMMA LaunchRateNext ==
    ASSUME TypeOK, LaunchesInOrder, BurstInv, LaunchRate, [Next]_vars
    PROVE  LaunchRate'
<1>1. CASE Launch
  <2>0. PICK n \in Nat : n = Len(launches)
    BY AtTypes
  <2>1. Burst \in Nat /\ count \in Nat /\ Window \in Nat
    BY BurstAssumption, PauseAssumption DEF BurstAssumption, PauseAssumption, TypeOK
  <2>2. /\ Len(launches') = n + 1
        /\ \A b \in 1..(n + 1) : launches'[b].at = At(b) /\ launches'[b].steps = Steps(b)
    BY <1>1, <2>0, LaunchAdds DEF At, Steps
  <2>3. \A b \in 1..(n + 1) : At(b) \in Nat /\ Steps(b) \in Nat
    BY <2>0, AtTypes
  <2>4. \A a, b \in 1..(n + 1) : a <= b => At(a) <= At(b) /\ Steps(a) <= Steps(b)
    BY <2>0 DEF LaunchesInOrder
  <2>5. PICK b \in 1..(n + 1) : b = n + 1 - count /\ BurstFrom(b) /\ count <= Burst
    <3>1. BurstFrom(n + 1 - count)
      BY <1>1, <2>0 DEF Launch, BurstInv
    <3> QED
      BY <2>1, <3>1 DEF BurstFrom
  <2> SUFFICES ASSUME NEW k \in 1..(n - Burst), Steps(k + Burst + 1) = Steps(k)
               PROVE  At(k + Burst + 1) - At(k) > Window
    <3>1. \A k \in 1..(n - Burst) : k \in 1..(n + 1) /\ k + Burst + 1 \in 1..(n + 1)
      BY <2>1
    <3>2. Len(launches') - Burst - 1 = n - Burst
      BY <2>1, <2>2
    <3> QED
      BY <2>2, <3>1, <3>2 DEF LaunchRate
  <2>6. CASE k + Burst + 1 <= n
    <3>1. k \in 1..(Len(launches) - Burst - 1) /\ k \in 1..n /\ k + Burst + 1 \in 1..n
      BY <2>0, <2>1, <2>6
    <3>2. /\ At(k) = launches[k].at /\ Steps(k) = launches[k].steps
          /\ At(k + Burst + 1) = launches[k + Burst + 1].at
          /\ Steps(k + Burst + 1) = launches[k + Burst + 1].steps
      BY <2>0, <3>1 DEF At, Steps
    <3> QED
      BY <3>1, <3>2 DEF LaunchRate
  <2>7. CASE k + Burst + 1 = n + 1
    <3>1. /\ k \in 1..(n + 1) /\ b - 1 \in 1..(n + 1) /\ n + 1 \in 1..(n + 1)
          /\ k <= b - 1 /\ b - 1 <= b /\ b <= n + 1 /\ b > 1
      BY <2>1, <2>5, <2>7
    <3>2. /\ At(k) <= At(b - 1) /\ At(b) <= At(n + 1)
          /\ Steps(k) <= Steps(b - 1) /\ Steps(b - 1) <= Steps(b)
          /\ Steps(b) <= Steps(n + 1)
      BY <2>4, <3>1
    <3>3. Steps(n + 1) = Steps(k)
      BY <2>7
    <3>4. Steps(b) = Steps(b - 1)
      BY <2>3, <3>1, <3>2, <3>3
    <3>5. At(b) - At(b - 1) > Window
      BY <2>5, <3>1, <3>4 DEF BurstFrom
    <3>6. At(n + 1) - At(k) > Window
      BY <2>1, <2>3, <3>1, <3>2, <3>5
    <3> QED
      BY <2>7, <3>6
  <2> QED
    BY <2>1, <2>6, <2>7
<1>2. CASE UNCHANGED launches
  BY <1>2 DEF LaunchRate
<1> QED
  BY <1>1, <1>2 DEF Next, Watchdog, vars, WaitReturns, Wake, Stop, ChildEnds,
                    Tick, ClockStep, Done

LEMMA InitInv == Init => IInv
<1> SUFFICES ASSUME Init PROVE IInv
  OBVIOUS
<1> USE BurstAssumption, PauseAssumption DEF BurstAssumption, PauseAssumption
<1>1. TypeOK
  BY DEF Init, TypeOK, time
<1>2. Len(launches) = 0 /\ now = 0 /\ steps = 0 /\ pc = "launch" /\ count = 0
  BY DEF Init
<1>3. LaunchesInOrder
  BY <1>2 DEF LaunchesInOrder, At, Steps
<1>4. LastLaunch /\ BurstInv /\ LaunchRate
  BY <1>2 DEF LastLaunch, BurstInv, BurstFrom, LaunchRate
<1> QED
  BY <1>1, <1>3, <1>4 DEF IInv

(* IInv is an invariant of the watchdog.                                   *)
THEOREM Invariance == Spec => []IInv
<1>1. Init => IInv
  BY InitInv
<1>2. IInv /\ [Next]_vars => IInv'
  BY TypeNext, OrderNext, LastLaunchNext, BurstNext, LaunchRateNext DEF IInv
<1> QED
  BY <1>1, <1>2, PTL DEF Spec

(* The type of every variable of the watchdog; the count of a burst never  *)
(* exceeds Burst + 1 (run_watchdog).                                       *)
THEOREM TypeCorrect == Spec => []TypeOK
<1>1. IInv => TypeOK
  BY DEF IInv
<1> QED
  BY <1>1, Invariance, PTL

(* However its daemon dies, the watchdog never launches it more than       *)
(* Burst + 1 times within Window, unless the clock is set (run_watchdog).  *)
THEOREM LaunchRateAlways == Spec => []LaunchRate
<1>1. IInv => LaunchRate
  BY DEF IInv
<1> QED
  BY <1>1, Invariance, PTL

(* A watchdog that has its handlers takes the child with it when stopped   *)
(* (signal_handler_for_watchdog_stop).                                     *)
THEOREM NoOrphanAlways == Spec => []NoOrphan
<1>1. Init => NoOrphan
  BY DEF Init, NoOrphan
<1>2. NoOrphan /\ [Next]_vars => NoOrphan'
  BY DEF NoOrphan, Next, Watchdog, vars, Launch, WaitReturns, Wake, Stop, ChildEnds,
         Tick, ClockStep, Done
<1> QED
  BY <1>1, <1>2, PTL DEF Spec

-----------------------------------------------------------------------------

(* A watchdog about to launch has no child running.                        *)
Alone == pc \in {"launch", "sleep"} => child # "running"

(* The watchdog never launches a second child beside the first: it comes   *)
(* to fork only from waitpid (run_watchdog).                               *)
THEOREM OneChildAlways == Spec => OneChild
<1>1. Init => Alone
  BY DEF Init, Alone
<1>2. Alone /\ [Next]_vars => Alone'
  BY DEF Alone, Next, Watchdog, vars, Launch, WaitReturns, Waited, Wake, Stop,
         ChildEnds, Tick, ClockStep, Done
<1>3. IInv /\ Alone /\ [Next]_vars
      => [Len(launches') > Len(launches) => child # "running"]_vars
  <2> SUFFICES ASSUME IInv, Alone, Next, Len(launches') > Len(launches)
               PROVE  child # "running"
    BY DEF vars
  <2>1. CASE Launch
    BY <2>1 DEF Alone, Launch
  <2>2. CASE UNCHANGED launches
    <3>1. Len(launches') = Len(launches) /\ Len(launches) \in Nat
      BY <2>2, AtTypes DEF IInv
    <3> QED
      BY <3>1
  <2> QED
    BY <2>1, <2>2 DEF Next, Watchdog, vars, WaitReturns, Wake, Stop, ChildEnds,
                      Tick, ClockStep, Done
<1> QED
  BY <1>1, <1>2, <1>3, Invariance, PTL DEF Spec, OneChild
=============================================================================
