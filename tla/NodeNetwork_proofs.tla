------------------------- MODULE NodeNetwork_proofs -------------------------
(***************************************************************************)
(* Proofs about NodeNetwork, for every set of servers, every length of the *)
(* queue and every number of scans and sockets.                            *)
(*                                                                         *)
(* The queue is filtered by a loop, so the proofs start with what a loop   *)
(* computes: LeastNumber turns the well-foundedness of the natural numbers *)
(* into a principle of induction over sets, which the provers can use.     *)
(***************************************************************************)
EXTENDS NodeNetwork, TLAPS, WellFoundedInduction, SequenceTheorems

-----------------------------------------------------------------------------
(* Induction and recursion. *)

(* A set of natural numbers that is not empty has a least element. *)
LEMMA LeastNumber ==
    ASSUME NEW T \in SUBSET Nat, T # {}
    PROVE  \E x \in T : \A y \in T : x <= y
<1> DEFINE Less == {p \in Nat \X Nat : p[1] < p[2]}
<1>1. IsWellFoundedOn(Less, Nat)
  BY NatLessThanWellFounded DEF OpToRel
<1>2. PICK x \in T : \A y \in T : <<y, x>> \notin Less
  BY <1>1, WFMin
<1>3. SUFFICES ASSUME NEW y \in T PROVE x <= y
  BY <1>2
<1>4. <<y, x>> \notin Less
  BY <1>2
<1>5. <<y, x>> \in Less <=> y < x
  OBVIOUS
<1> QED
  BY <1>4, <1>5

(* A set with 0, and with n + 1 when it has n, has every number. *)
LEMMA Induction ==
    ASSUME NEW S, 0 \in S, \A n \in Nat : n \in S => n + 1 \in S
    PROVE  Nat \subseteq S
<1>1. SUFFICES ASSUME Nat \ S # {} PROVE FALSE
  OBVIOUS
<1>2. PICK x \in Nat \ S : \A y \in Nat \ S : x <= y
  BY <1>1, LeastNumber
<1>3. x # 0 /\ x - 1 \in Nat /\ ~(x <= x - 1)
  BY <1>2
<1>4. x - 1 \in S
  BY <1>2, <1>3
<1> QED
  BY <1>2, <1>3, <1>4

(* A loop of N steps, each a function of what the one before computed. *)
LEMMA Recursion ==
    ASSUME NEW V, NEW v \in V, NEW N \in Nat, NEW step \in [1..N -> [V -> V]]
    PROVE  \E f \in [0..N -> V] : f[0] = v /\ \A n \in 1..N : f[n] = step[n][f[n - 1]]
<1> DEFINE Upto(m, f) == /\ f \in [0..m -> V] /\ f[0] = v
                         /\ \A n \in 1..m : f[n] = step[n][f[n - 1]]
           Reached == {m \in Nat : m <= N => \E f : Upto(m, f)}
<1>1. 0 \in Reached
  <2>1. Upto(0, [n \in 0..0 |-> v])
    OBVIOUS
  <2> QED
    BY <2>1
<1>2. ASSUME NEW m \in Nat, m \in Reached PROVE m + 1 \in Reached
  <2>1. SUFFICES ASSUME m + 1 <= N PROVE \E f : Upto(m + 1, f)
    OBVIOUS
  <2>2. PICK f : Upto(m, f)
    BY <1>2, <2>1
  <2> DEFINE g == [n \in 0..(m + 1) |-> IF n = m + 1 THEN step[m + 1][f[m]] ELSE f[n]]
  <2>3. f[m] \in V /\ m + 1 \in 1..N
    BY <2>1, <2>2
  <2>4. g \in [0..(m + 1) -> V] /\ g[0] = v
    BY <2>2, <2>3
  <2>5. ASSUME NEW n \in 1..(m + 1) PROVE g[n] = step[n][g[n - 1]]
    <3>1. CASE n = m + 1
      BY <3>1
    <3>2. CASE n # m + 1
      BY <3>2, <2>2
    <3> QED
      BY <3>1, <3>2
  <2>6. Upto(m + 1, g)
    BY <2>4, <2>5
  <2> QED
    BY <2>6
<1> HIDE DEF Reached
<1>3. N \in Reached
  BY <1>1, <1>2, Induction
<1> QED
  BY <1>3 DEF Reached

-----------------------------------------------------------------------------
(* What the loop of flush computes. *)

(* The loop of Keep, item by item. *)
LEMMA KeepLoop ==
    ASSUME NEW S, NEW q \in Seq(S), NEW I \in SUBSET (1..Len(q))
    PROVE  \E f \in [0..Len(q) -> Seq(S)] :
             /\ Keep(q, I) = f[Len(q)] /\ f[0] = <<>>
             /\ \A n \in 1..Len(q) :
                  f[n] = IF n \in I THEN Append(f[n - 1], q[n]) ELSE f[n - 1]
<1> DEFINE V == Seq(S)
           N == Len(q)
           step == [n \in 1..N |->
                      [s \in V |-> IF n \in I THEN Append(s, q[n]) ELSE s]]
           IsLoop(f) == f = [n \in 0..Len(q) |->
                       IF n = 0 THEN <<>>
                       ELSE IF n \in I THEN Append(f[n - 1], q[n]) ELSE f[n - 1]]
           loop == CHOOSE f : IsLoop(f)
<1>0. N \in Nat
  OBVIOUS
<1>1. step \in [1..N -> [V -> V]]
  OBVIOUS
<1>2. PICK f \in [0..N -> V] :
        f[0] = <<>> /\ \A n \in 1..N : f[n] = step[n][f[n - 1]]
  <2>1. <<>> \in V
    OBVIOUS
  <2> HIDE DEF step, V, N
  <2> QED
    BY <1>0, <1>1, <2>1, Recursion, SMTT(20)
<1>3. ASSUME NEW n \in 1..N
      PROVE  f[n] = IF n \in I THEN Append(f[n - 1], q[n]) ELSE f[n - 1]
  <2>1. f[n - 1] \in V
    BY <1>2
  <2> QED
    BY <1>2, <2>1
<1>4. IsLoop(f)
  <2>1. \A n \in 0..N : n # 0 => n \in 1..N
    OBVIOUS
  <2>2. f = [n \in 0..N |-> f[n]]
    BY <1>2
  <2>3. ASSUME NEW n \in 0..N
        PROVE  f[n] = IF n = 0 THEN <<>>
                      ELSE IF n \in I THEN Append(f[n - 1], q[n]) ELSE f[n - 1]
    BY <1>2, <1>3, <2>1
  <2> QED
    BY <2>2, <2>3, Zenon
<1>5. IsLoop(loop)
  BY <1>4
<1>6. Keep(q, I) = loop[Len(q)]
  BY DEF Keep
<1> HIDE DEF loop
<1>7. ASSUME NEW n \in 0..N
      PROVE  loop[n] = IF n = 0 THEN <<>>
                       ELSE IF n \in I THEN Append(loop[n - 1], q[n]) ELSE loop[n - 1]
  BY <1>5
<1>8. loop[N] = f[N]
  <2> DEFINE Same == {m \in Nat : m <= N => loop[m] = f[m]}
  <2>1. 0 \in Same
    BY <1>0, <1>2, <1>7
  <2>2. ASSUME NEW m \in Nat, m \in Same PROVE m + 1 \in Same
    <3>1. SUFFICES ASSUME m + 1 <= N PROVE loop[m + 1] = f[m + 1]
      OBVIOUS
    <3>2. loop[m] = f[m] /\ m + 1 \in 1..N /\ m + 1 \in 0..N /\ (m + 1) - 1 = m
      BY <2>2, <3>1
    <3>3. loop[m + 1] = IF m + 1 \in I THEN Append(loop[m], q[m + 1]) ELSE loop[m]
      BY <1>7, <3>2
    <3> QED
      BY <1>3, <3>2, <3>3
  <2> HIDE DEF Same
  <2>3. N \in Same
    BY <1>0, <2>1, <2>2, Induction
  <2> QED
    BY <1>0, <2>3 DEF Same
<1> QED
  BY <1>2, <1>3, <1>6, <1>8

(* The items kept are those at the ranks I, all of them, in order. *)
LEMMA KeepRanks ==
    ASSUME NEW S, NEW q \in Seq(S), NEW I \in SUBSET (1..Len(q))
    PROVE  /\ Keep(q, I) \in Seq(S)
           /\ \E r \in [1..Len(Keep(q, I)) -> I] :
                /\ \A a, b \in 1..Len(Keep(q, I)) : a < b => r[a] < r[b]
                /\ \A i \in I : \E a \in 1..Len(Keep(q, I)) : r[a] = i
                /\ \A a \in 1..Len(Keep(q, I)) : Keep(q, I)[a] = q[r[a]]
<1>1. PICK f \in [0..Len(q) -> Seq(S)] :
        /\ Keep(q, I) = f[Len(q)] /\ f[0] = <<>>
        /\ \A n \in 1..Len(q) :
             f[n] = IF n \in I THEN Append(f[n - 1], q[n]) ELSE f[n - 1]
  BY KeepLoop
<1>0. Len(q) \in Nat
  OBVIOUS
<1> DEFINE Ranks(n, r) ==
             /\ r \in [1..Len(f[n]) -> I]
             /\ \A a \in 1..Len(f[n]) : r[a] <= n
             /\ \A a, b \in 1..Len(f[n]) : a < b => r[a] < r[b]
             /\ \A i \in I : i <= n => \E a \in 1..Len(f[n]) : r[a] = i
             /\ \A a \in 1..Len(f[n]) : f[n][a] = q[r[a]]
           HasRanks(n) == n <= Len(q) => \E r : Ranks(n, r)
           Ranked == {n \in Nat : HasRanks(n)}
<1>2. 0 \in Ranked
  <2>1. f[0] = <<>> /\ Len(f[0]) = 0
    BY <1>1
  <2>2. Ranks(0, [a \in 1..0 |-> a])
    BY <2>1
  <2>3. HasRanks(0)
    BY <2>2
  <2> QED
    BY <2>3 DEF Ranked
<1>3. ASSUME NEW n \in Nat, n \in Ranked PROVE n + 1 \in Ranked
  <2>0. HasRanks(n)
    BY <1>3
  <2>1. SUFFICES ASSUME n + 1 <= Len(q) PROVE \E r : Ranks(n + 1, r)
    <3> HIDE DEF Ranks
    <3> QED
      OBVIOUS
  <2>2. PICK r : Ranks(n, r)
    <3>1. n <= Len(q)
      BY <1>0, <2>1
    <3> HIDE DEF Ranks
    <3> QED
      BY <2>0, <3>1
  <2>3. n + 1 \in 1..Len(q) /\ (n + 1) - 1 = n /\ n \in 0..Len(q)
    BY <1>0, <2>1
  <2>4. f[n] \in Seq(S) /\ Len(f[n]) \in Nat
    BY <1>1, <2>3
  <2>4a. \A a \in 1..Len(f[n]) : r[a] \in Int /\ r[a] <= n
    <3>1. \A i \in I : i \in Int
      OBVIOUS
    <3>2. ASSUME NEW a \in 1..Len(f[n]) PROVE r[a] \in I /\ r[a] <= n
      BY <2>2
    <3> QED
      BY <3>1, <3>2
  <2>5. CASE n + 1 \notin I
    <3>1. f[n + 1] = f[n]
      BY <1>1, <2>3, <2>5
    <3>2. \A i \in I : i <= n + 1 => i <= n
      BY <2>5
    <3>3. \A a \in 1..Len(f[n]) : r[a] <= n + 1
      BY <2>4a
    <3>4. Ranks(n + 1, r)
      BY <2>2, <3>1, <3>2, <3>3
    <3> QED
      BY <3>4
  <2>6. CASE n + 1 \in I
    <3> DEFINE L == Len(f[n])
               s == [a \in 1..(L + 1) |-> IF a = L + 1 THEN n + 1 ELSE r[a]]
    <3>1. f[n + 1] = Append(f[n], q[n + 1])
      BY <1>1, <2>3, <2>6
    <3>2. /\ Len(f[n + 1]) = L + 1 /\ f[n + 1][L + 1] = q[n + 1]
          /\ \A a \in 1..L : f[n + 1][a] = f[n][a]
      BY <2>3, <2>4, <3>1
    <3>3. s \in [1..(L + 1) -> I]
      BY <2>2, <2>4, <2>6
    <3>4. \A a \in 1..(L + 1) : s[a] <= n + 1
      BY <2>4, <2>4a
    <3>5. \A a, b \in 1..(L + 1) : a < b => s[a] < s[b]
      <4>1. SUFFICES ASSUME NEW a \in 1..(L + 1), NEW b \in 1..(L + 1), a < b
                     PROVE  s[a] < s[b]
        OBVIOUS
      <4>2. a \in 1..L /\ s[a] = r[a]
        BY <2>4, <4>1
      <4>3. CASE b = L + 1
        BY <2>4, <2>4a, <4>2, <4>3
      <4>4. CASE b # L + 1
        BY <2>2, <2>4, <4>1, <4>2, <4>4
      <4> QED
        BY <4>3, <4>4
    <3>6. \A i \in I : i <= n + 1 => \E a \in 1..(L + 1) : s[a] = i
      <4>1. SUFFICES ASSUME NEW i \in I, i <= n + 1 PROVE \E a \in 1..(L + 1) : s[a] = i
        OBVIOUS
      <4>2. CASE i = n + 1
        BY <2>4, <4>2
      <4>3. CASE i # n + 1
        <5>1. PICK a \in 1..L : r[a] = i
          BY <2>2, <4>1, <4>3
        <5>2. a \in 1..(L + 1) /\ a # L + 1
          BY <2>4
        <5>3. s[a] = i
          BY <5>1, <5>2
        <5> QED
          BY <5>2, <5>3
      <4> QED
        BY <4>2, <4>3
    <3>7. \A a \in 1..(L + 1) : f[n + 1][a] = q[s[a]]
      BY <2>2, <2>4, <3>2
    <3>8. Ranks(n + 1, s)
      BY <3>2, <3>3, <3>4, <3>5, <3>6, <3>7
    <3> QED
      BY <3>8
  <2> QED
    BY <2>5, <2>6
<1> HIDE DEF Ranked
<1>4. Len(q) \in Ranked
  BY <1>0, <1>2, <1>3, Induction
<1>5. PICK r : Ranks(Len(q), r)
  <2> HIDE DEF Ranks
  <2>1. HasRanks(Len(q))
    BY <1>4 DEF Ranked
  <2> QED
    BY <1>0, <2>1
<1>6. Keep(q, I) \in Seq(S)
  BY <1>0, <1>1
<1> QED
  BY <1>0, <1>1, <1>5, <1>6

(* What goes into the next queue: the items some server still waits for,   *)
(* all of them, in order, and with the servers that are up marked.         *)
LEMMA NewQueueRanks ==
    ASSUME NEW q \in Seq(Item)
    PROVE  /\ NewQueue(q) \in Seq(Item)
           /\ \E r \in [1..Len(NewQueue(q)) -> 1..Len(q)] :
                /\ \A a, b \in 1..Len(NewQueue(q)) : a < b => r[a] < r[b]
                /\ \A a \in 1..Len(NewQueue(q)) :
                     /\ NewQueue(q)[a].id = q[r[a]].id
                     /\ NewQueue(q)[a].isSent = q[r[a]].isSent \cup Up
                     /\ NewQueue(q)[a].isSent # Dest
                /\ \A i \in 1..Len(q) :
                     q[i].isSent \cup Up # Dest => \E a \in 1..Len(NewQueue(q)) : r[a] = i
<1> DEFINE marked == [k \in 1..Len(q) |-> [q[k] EXCEPT !.isSent = Mark(q[k])]]
           I == {k \in 1..Len(q) : marked[k].isSent # Dest}
<1>1. ASSUME NEW k \in 1..Len(q)
      PROVE  /\ [q[k] EXCEPT !.isSent = Mark(q[k])] \in Item
             /\ [q[k] EXCEPT !.isSent = Mark(q[k])].id = q[k].id
             /\ [q[k] EXCEPT !.isSent = Mark(q[k])].isSent = q[k].isSent \cup Up
  <2>0. q[k] \in Item
    OBVIOUS
  <2>1. q[k] \in [id : 1..MaxScans, isSent : SUBSET Dest]
    BY <2>0 DEF Item
  <2>2. Mark(q[k]) \in SUBSET Dest
    BY <2>1 DEF Mark, Up
  <2> QED
    BY <2>1, <2>2 DEF Mark, Item
<1>2. marked \in Seq(Item) /\ Len(marked) = Len(q)
  BY <1>1
<1>3. \A k \in 1..Len(q) : marked[k].id = q[k].id /\ marked[k].isSent = q[k].isSent \cup Up
  BY <1>1
<1>4. NewQueue(q) = Keep(marked, I)
  BY DEF NewQueue
<1>5. I \in SUBSET (1..Len(marked))
  BY <1>2
<1> HIDE DEF marked
<1>6. PICK r \in [1..Len(Keep(marked, I)) -> I] :
        /\ \A a, b \in 1..Len(Keep(marked, I)) : a < b => r[a] < r[b]
        /\ \A i \in I : \E a \in 1..Len(Keep(marked, I)) : r[a] = i
        /\ \A a \in 1..Len(Keep(marked, I)) : Keep(marked, I)[a] = marked[r[a]]
  <2>1. marked \in Seq(Item)
    BY <1>2
  <2> HIDE DEF I
  <2> QED
    BY <2>1, <1>5, KeepRanks
<1>7. Keep(marked, I) \in Seq(Item)
  <2> HIDE DEF I
  <2> QED
    BY <1>2, <1>5, KeepRanks
<1>8. r \in [1..Len(NewQueue(q)) -> 1..Len(q)]
  BY <1>4, <1>6
<1>9. \A a \in 1..Len(NewQueue(q)) : r[a] \in I /\ NewQueue(q)[a] = marked[r[a]]
  BY <1>4, <1>6
<1>10. \A a \in 1..Len(NewQueue(q)) :
         /\ NewQueue(q)[a].id = q[r[a]].id
         /\ NewQueue(q)[a].isSent = q[r[a]].isSent \cup Up
         /\ NewQueue(q)[a].isSent # Dest
  BY <1>3, <1>9
<1>11. \A i \in 1..Len(q) :
         q[i].isSent \cup Up # Dest => \E a \in 1..Len(NewQueue(q)) : r[a] = i
  BY <1>3, <1>4, <1>6
<1> QED
  BY <1>4, <1>6, <1>7, <1>8, <1>10, <1>11

(* What flush writes to a server: the items it did not get, in order. *)
LEMMA WriteRanks ==
    ASSUME NEW q \in Seq(Item), NEW d \in Dest
    PROVE  /\ Write(q, d) \in Seq(1..MaxScans)
           /\ \E r \in [1..Len(Write(q, d)) -> 1..Len(q)] :
                /\ \A a, b \in 1..Len(Write(q, d)) : a < b => r[a] < r[b]
                /\ \A a \in 1..Len(Write(q, d)) :
                     Write(q, d)[a] = q[r[a]].id /\ d \notin q[r[a]].isSent
                /\ \A i \in 1..Len(q) :
                     d \notin q[i].isSent => \E a \in 1..Len(Write(q, d)) : r[a] = i
<1> DEFINE I == {k \in 1..Len(q) : d \notin q[k].isSent}
           toSend == Keep(q, I)
<1>1. I \in SUBSET (1..Len(q))
  OBVIOUS
<1>2. Write(q, d) = [k \in 1..Len(toSend) |-> toSend[k].id]
  BY DEF Write
<1>3. PICK r \in [1..Len(toSend) -> I] :
        /\ \A a, b \in 1..Len(toSend) : a < b => r[a] < r[b]
        /\ \A i \in I : \E a \in 1..Len(toSend) : r[a] = i
        /\ \A a \in 1..Len(toSend) : toSend[a] = q[r[a]]
  <2> HIDE DEF I
  <2> QED
    BY <1>1, KeepRanks
<1>4. toSend \in Seq(Item)
  <2> HIDE DEF I
  <2> QED
    BY <1>1, KeepRanks
<1> HIDE DEF toSend
<1>5. ASSUME NEW k \in 1..Len(toSend) PROVE toSend[k].id \in 1..MaxScans
  <2>1. toSend[k] \in Item
    BY <1>4
  <2> QED
    BY <2>1 DEF Item
<1>6. Write(q, d) \in Seq(1..MaxScans) /\ Len(Write(q, d)) = Len(toSend)
  BY <1>2, <1>4, <1>5
<1>7. \A a \in 1..Len(Write(q, d)) :
        Write(q, d)[a] = q[r[a]].id /\ d \notin q[r[a]].isSent
  <2>1. SUFFICES ASSUME NEW a \in 1..Len(toSend)
                 PROVE  Write(q, d)[a] = q[r[a]].id /\ d \notin q[r[a]].isSent
    BY <1>6
  <2>2. r[a] \in I /\ toSend[a] = q[r[a]]
    BY <1>3
  <2> QED
    BY <1>2, <2>2
<1>8. r \in [1..Len(Write(q, d)) -> 1..Len(q)]
  BY <1>3, <1>6
<1>9. \A i \in 1..Len(q) :
        d \notin q[i].isSent => \E a \in 1..Len(Write(q, d)) : r[a] = i
  BY <1>3, <1>6
<1>10. \A a, b \in 1..Len(Write(q, d)) : a < b => r[a] < r[b]
  BY <1>3, <1>6
<1> QED
  BY <1>6, <1>7, <1>8, <1>9, <1>10

-----------------------------------------------------------------------------
(* The queue flush works on: the one before without its first item when it *)
(* was too long, and the new scan.                                         *)

New == [id |-> scans + 1, isSent |-> {}]
Queue == Append(Room(msgQueue), New)

LEMMA QueueOfSend ==
    ASSUME msgQueue \in Seq(Item), scans \in 0..MaxScans, scans < MaxScans
    PROVE  /\ Queue \in Seq(Item)
           /\ \E s \in {0, 1} :
                /\ s = 1 <=> Len(msgQueue) > msgqueueMaxSize
                /\ s <= Len(msgQueue) /\ Len(Queue) = Len(msgQueue) - s + 1
                /\ Queue[Len(Queue)] = New
                /\ \A k \in 1..(Len(Queue) - 1) : Queue[k] = msgQueue[k + s]
<1>1. New \in Item /\ msgQueue \in Seq(Item) /\ msgqueueMaxSize \in Nat
  BY NetworkAssumption DEF NetworkAssumption, New, Item
<1>2. CASE Len(msgQueue) > msgqueueMaxSize
  <2>1. Queue = Append(Tail(msgQueue), New)
    BY <1>2 DEF Queue, Room
  <2>2. msgQueue # <<>> /\ Len(msgQueue) \in Nat /\ Len(msgQueue) >= 1
    BY <1>1, <1>2
  <2>3. /\ Tail(msgQueue) \in Seq(Item) /\ Len(Tail(msgQueue)) = Len(msgQueue) - 1
        /\ \A k \in 1..(Len(msgQueue) - 1) : Tail(msgQueue)[k] = msgQueue[k + 1]
    BY <1>1, <2>2
  <2>4. /\ Queue \in Seq(Item) /\ Len(Queue) = Len(msgQueue)
        /\ Queue[Len(Queue)] = New
        /\ \A k \in 1..(Len(msgQueue) - 1) : Queue[k] = msgQueue[k + 1]
    BY <1>1, <2>1, <2>2, <2>3
  <2> QED
    BY <1>2, <2>2, <2>4
<1>3. CASE ~(Len(msgQueue) > msgqueueMaxSize)
  <2>1. Queue = Append(msgQueue, New)
    BY <1>3 DEF Queue, Room
  <2>2. /\ Queue \in Seq(Item) /\ Len(Queue) = Len(msgQueue) + 1
        /\ Queue[Len(Queue)] = New
        /\ \A k \in 1..Len(msgQueue) : Queue[k] = msgQueue[k]
    BY <1>1, <2>1
  <2> QED
    BY <1>1, <1>3, <2>2
<1> QED
  BY <1>2, <1>3

-----------------------------------------------------------------------------
(* The type of the variables. *)

(* An event is of a socket that was made. *)
EventsOfMade == \A d \in Dest : \A e \in events[d] : e[1] <= client[d]

(* The parts of TypeOK that are not about the queue. *)
SocketType ==
    /\ client \in [Dest -> 0..MaxSockets] /\ state \in [Dest -> BOOLEAN]
    /\ phase \in [Dest -> [Socket -> {"none", "connecting", "connected", "destroyed"}]]
    /\ \A d \in Dest, k \in Socket : phase[d][k] # "none" <=> k <= client[d]
    /\ \A d \in Dest : state[d] => client[d] # 0
    /\ events \in [Dest -> SUBSET (Socket \X {"error", "close"})]
    /\ EventsOfMade

LEMMA SendSocketType == SocketType /\ Send => SocketType'
<1> SUFFICES ASSUME SocketType, Send PROVE SocketType'
  OBVIOUS
<1>0. MaxSockets \in Nat \ {0}
  BY NetworkAssumption DEF NetworkAssumption
<1>1. /\ client' = [d \in Dest |-> IF d \in Down THEN client[d] + 1 ELSE client[d]]
      /\ phase' = [d \in Dest |->
                   IF d \in Down THEN [phase[d] EXCEPT ![client[d] + 1] = "connecting"]
                   ELSE phase[d]]
      /\ state' = state
      /\ \A d \in Down : client[d] < MaxSockets
  BY DEF Send, ConnectOne
<1>2. PICK loud \in SUBSET {d \in Up : InUseDestroyed(d)} :
         events' = [d \in Dest |-> IF d \in loud
                      THEN events[d] \cup {<<client[d], "error">>} ELSE events[d]]
  BY DEF Send
<1>3. \A d \in Down : client[d] + 1 \in Socket
  BY <1>0, <1>1 DEF SocketType, Socket, Down
<1>4. \A d \in loud : client[d] \in Socket /\ d \in Dest
  BY <1>0 DEF SocketType, Socket, Up, InUseDestroyed
<1>5. client' \in [Dest -> 0..MaxSockets]
  BY <1>0, <1>1 DEF SocketType, Down
<1>6. phase' \in [Dest -> [Socket -> {"none", "connecting", "connected", "destroyed"}]]
  BY <1>1, <1>3 DEF SocketType
<1>7. ASSUME NEW d \in Dest, NEW k \in Socket
      PROVE  phase'[d][k] # "none" <=> k <= client'[d]
  BY <1>0, <1>1, <1>3 DEF SocketType, Socket, Down
<1>8. events' \in [Dest -> SUBSET (Socket \X {"error", "close"})]
  BY <1>2, <1>4 DEF SocketType
<1>9. EventsOfMade'
  <2>1. SUFFICES ASSUME NEW d \in Dest, NEW e \in events'[d] PROVE e[1] <= client'[d]
    BY DEF EventsOfMade
  <2>2. client'[d] >= client[d] /\ client[d] \in Nat /\ client'[d] \in Nat
    BY <1>0, <1>1 DEF SocketType
  <2>3. CASE e \in events[d]
    <3>1. e[1] \in Socket /\ e[1] <= client[d]
      BY <2>3 DEF SocketType, EventsOfMade
    <3> QED
      BY <2>2, <3>1 DEF Socket
  <2>4. CASE e = <<client[d], "error">>
    BY <2>2, <2>4
  <2> QED
    BY <1>2, <2>1, <2>3, <2>4
<1>10. \A d \in Dest : state'[d] => client'[d] # 0
  BY <1>0, <1>1 DEF SocketType, Down
<1> QED
  BY <1>1, <1>5, <1>6, <1>7, <1>8, <1>9, <1>10 DEF SocketType

(* A socket and its event, of those the callbacks are about. *)
LEMMA SocketOfEvent ==
    ASSUME SocketType, NEW d \in Dest, NEW e \in events[d]
    PROVE  e[1] \in Socket /\ e[1] <= client[d] /\ client[d] \in Socket
<1>1. e \in Socket \X {"error", "close"} /\ e[1] <= client[d] /\ client[d] \in 0..MaxSockets
  BY DEF SocketType, EventsOfMade
<1> QED
  BY <1>1, NetworkAssumption DEF NetworkAssumption, Socket

(* A socket that was made changes its phase, for one that a socket that    *)
(* was made can have; the events that come are of sockets that were made.  *)
LEMMA MadeSocketType ==
    ASSUME SocketType, NEW d \in Dest, NEW k \in Socket, k <= client[d],
           NEW p \in {"connecting", "connected", "destroyed"},
           phase' = [phase EXCEPT ![d][k] = p], client' = client,
           NEW b \in BOOLEAN, state' = state \/ state' = [state EXCEPT ![d] = b],
           NEW new \in SUBSET {<<k, "error">>, <<k, "close">>}, NEW old,
           events' = events \/ events' = [events EXCEPT ![d] = (@ \ old) \cup new]
    PROVE  SocketType'
<1>0. MaxSockets \in Nat \ {0} /\ client[d] \in Nat /\ k \in Nat \ {0}
  BY NetworkAssumption DEF NetworkAssumption, SocketType, Socket
<1>1. phase' \in [Dest -> [Socket -> {"none", "connecting", "connected", "destroyed"}]]
  BY DEF SocketType
<1>2. ASSUME NEW e \in Dest, NEW o \in Socket
      PROVE  phase'[e][o] # "none" <=> o <= client'[e]
  BY DEF SocketType
<1>3. state' \in [Dest -> BOOLEAN]
  BY DEF SocketType
<1>4. \A e \in Dest : state'[e] => client'[e] # 0
  <2>1. state \in [Dest -> BOOLEAN] /\ \A e \in Dest : state[e] => client[e] # 0
    BY DEF SocketType
  <2>2. client[d] # 0
    BY <1>0
  <2>3. \A e \in Dest \ {d} : state'[e] = state[e]
    BY <2>1
  <2> QED
    BY <2>1, <2>2, <2>3
<1>5. events' \in [Dest -> SUBSET (Socket \X {"error", "close"})]
  BY DEF SocketType
<1>6. EventsOfMade'
  <2>1. SUFFICES ASSUME NEW e \in Dest, NEW v \in events'[e] PROVE v[1] <= client[e]
    BY DEF EventsOfMade
  <2>2. CASE v \in events[e]
    BY <2>2 DEF SocketType, EventsOfMade
  <2>3. CASE e = d /\ v \in new
    BY <2>3
  <2> QED
    BY <2>1, <2>2, <2>3 DEF SocketType
<1> QED
  BY <1>1, <1>2, <1>3, <1>4, <1>5, <1>6 DEF SocketType

LEMMA CallbackSocketType ==
    ASSUME SocketType, NEW d \in Dest, NEW k \in Socket,
           Callbacks(d, k) \/ Fail(d, k) \/ PeerCloses(d, k)
    PROVE  SocketType'
<1>1. ASSUME OnError(d, k) PROVE SocketType'
  <2>1. client[d] \in Socket
    BY <1>1, SocketOfEvent DEF OnError
  <2> DEFINE new == IF Alive(d, client[d]) THEN {<<client[d], "close">>} ELSE {}
  <2>2. /\ phase' = [phase EXCEPT ![d][client[d]] = "destroyed"] /\ client' = client
        /\ state' = [state EXCEPT ![d] = FALSE]
        /\ events' = [events EXCEPT ![d] = (@ \ {<<k, "error">>}) \cup new]
    BY <1>1 DEF OnError, DestroyInUse
  <2>3. new \in SUBSET {<<client[d], "error">>, <<client[d], "close">>}
    OBVIOUS
  <2>4. client[d] <= client[d]
    BY <2>1 DEF Socket
  <2> HIDE DEF new
  <2> QED
    BY <2>1, <2>2, <2>3, <2>4, MadeSocketType
<1>2. ASSUME OnClose(d, k) PROVE SocketType'
  <2>1. client[d] \in Socket
    BY <1>2, SocketOfEvent DEF OnClose
  <2> DEFINE new == IF Alive(d, client[d]) THEN {<<client[d], "close">>} ELSE {}
  <2>2. /\ phase' = [phase EXCEPT ![d][client[d]] = "destroyed"] /\ client' = client
        /\ state' = [state EXCEPT ![d] = FALSE]
        /\ events' = [events EXCEPT ![d] = (@ \ {<<k, "close">>}) \cup new]
    BY <1>2 DEF OnClose, DestroyInUse
  <2>3. new \in SUBSET {<<client[d], "error">>, <<client[d], "close">>}
    OBVIOUS
  <2>4. client[d] <= client[d]
    BY <2>1 DEF Socket
  <2> HIDE DEF new
  <2> QED
    BY <2>1, <2>2, <2>3, <2>4, MadeSocketType
<1>3. ASSUME OnConnect(d, k) PROVE SocketType'
  <2>1. k <= client[d]
    BY <1>3 DEF OnConnect, SocketType
  <2>2. /\ phase' = [phase EXCEPT ![d][k] = "connected"] /\ client' = client
        /\ state' = [state EXCEPT ![d] = TRUE] /\ events' = events
    BY <1>3 DEF OnConnect
  <2> QED
    BY <2>1, <2>2, MadeSocketType
<1>4. ASSUME Fail(d, k) \/ PeerCloses(d, k) PROVE SocketType'
  <2>1. k <= client[d]
    BY <1>4 DEF Fail, PeerCloses, Alive, SocketType
  <2>2. PICK new \in SUBSET {<<k, "error">>, <<k, "close">>} :
          /\ phase' = [phase EXCEPT ![d][k] = "destroyed"]
          /\ client' = client /\ state' = state
          /\ events' = [events EXCEPT ![d] = @ \cup new]
    BY <1>4 DEF Fail, PeerCloses
  <2>3. events' = [events EXCEPT ![d] = (@ \ {}) \cup new]
    BY <2>2
  <2> QED
    BY <2>1, <2>2, <2>3, MadeSocketType
<1> QED
  BY <1>1, <1>2, <1>3, <1>4 DEF Callbacks

-----------------------------------------------------------------------------
(* The inductive invariant: what is in the queue, what was written, and    *)
(* how the two go together.                                                *)

Got(d, i) == \E a \in 1..Len(written[d]) : written[d][a] = i

(* The same after the step. *)
WillHave(d, i) == \E a \in 1..Len(written'[d]) : written'[d][a] = i

(* A queue is in the order of the scans. *)
Ordered(q) == \A a, b \in 1..Len(q) : a < b => q[a].id < q[b].id

(* An item is marked for the servers it was written to, and for them only. *)
Marked(q) ==
    \A d \in Dest, k \in 1..Len(q) : (d \in q[k].isSent) <=> Got(d, q[k].id)

(* What a server did not get yet is newer than what it got. *)
Ahead(q) ==
    \A d \in Dest, k \in 1..Len(q) :
        d \notin q[k].isSent => \A a \in 1..Len(written[d]) : written[d][a] < q[k].id

QueueType ==
    /\ scans \in 0..MaxScans
    /\ msgQueue \in Seq(Item)
    /\ written \in [Dest -> Seq(1..MaxScans)]

WrittenInOrder ==
    \A d \in Dest : \A a, b \in 1..Len(written[d]) : a < b => written[d][a] < written[d][b]

Produced ==
    /\ \A k \in 1..Len(msgQueue) : msgQueue[k].id <= scans
    /\ \A d \in Dest : \A a \in 1..Len(written[d]) : written[d][a] <= scans

QueueInv ==
    /\ QueueType /\ Produced /\ WrittenInOrder
    /\ Ordered(msgQueue) /\ Marked(msgQueue) /\ Ahead(msgQueue)

(* The queue flush works on is as the invariant says. *)
LEMMA QueueOfSendInv ==
    ASSUME QueueInv, scans < MaxScans
    PROVE  /\ Queue \in Seq(Item) /\ Len(Queue) \in Nat \ {0}
           /\ \A k \in 1..Len(Queue) : Queue[k].id <= scans + 1
           /\ Ordered(Queue) /\ Marked(Queue) /\ Ahead(Queue)
<1>0. scans \in Nat /\ \A d \in Dest : \A a \in 1..Len(written[d]) : written[d][a] \in Nat
  BY NetworkAssumption DEF NetworkAssumption, QueueInv, QueueType
<1>1. Queue \in Seq(Item)
  BY QueueOfSend DEF QueueInv, QueueType
<1>2. PICK s \in {0, 1} :
        /\ s <= Len(msgQueue) /\ Len(Queue) = Len(msgQueue) - s + 1
        /\ Queue[Len(Queue)] = New
        /\ \A k \in 1..(Len(Queue) - 1) : Queue[k] = msgQueue[k + s]
  BY QueueOfSend DEF QueueInv, QueueType
<1>3. Len(msgQueue) \in Nat /\ Len(Queue) \in Nat \ {0}
  BY <1>2 DEF QueueInv, QueueType
<1>4. ASSUME NEW k \in 1..Len(Queue)
      PROVE  \/ k = Len(Queue) /\ Queue[k] = New
             \/ /\ k < Len(Queue) /\ k + s \in 1..Len(msgQueue)
                /\ Queue[k] = msgQueue[k + s]
  BY <1>2, <1>3
<1>5. \A k \in 1..Len(msgQueue) : msgQueue[k].id \in Nat /\ msgQueue[k].id <= scans
  <2> SUFFICES ASSUME NEW k \in 1..Len(msgQueue)
               PROVE  msgQueue[k].id \in Nat /\ msgQueue[k].id <= scans
    OBVIOUS
  <2>1. msgQueue[k] \in Item
    BY DEF QueueInv, QueueType
  <2> QED
    BY <2>1 DEF QueueInv, Produced, Item
<1>6. New.id = scans + 1 /\ New.isSent = {}
  BY DEF New
<1>7. \A k \in 1..Len(Queue) : Queue[k].id <= scans + 1
  BY <1>0, <1>4, <1>5, <1>6
<1>8. Ordered(Queue)
  <2>1. SUFFICES ASSUME NEW a \in 1..Len(Queue), NEW b \in 1..Len(Queue), a < b
                 PROVE  Queue[a].id < Queue[b].id
    BY DEF Ordered
  <2>2. /\ a + s \in 1..Len(msgQueue) /\ Queue[a] = msgQueue[a + s]
    BY <1>3, <1>4, <2>1
  <2>3. CASE b = Len(Queue) /\ Queue[b] = New
    BY <1>0, <1>5, <1>6, <2>2, <2>3
  <2>4. CASE b + s \in 1..Len(msgQueue) /\ Queue[b] = msgQueue[b + s]
    <3>1. a + s < b + s
      BY <2>1
    <3> QED
      BY <2>2, <2>4, <3>1 DEF QueueInv, Ordered
  <2> QED
    BY <1>4, <2>3, <2>4
<1>9. Marked(Queue)
  <2>1. SUFFICES ASSUME NEW d \in Dest, NEW k \in 1..Len(Queue)
                 PROVE  (d \in Queue[k].isSent) <=> Got(d, Queue[k].id)
    BY DEF Marked
  <2>2. CASE Queue[k] = New
    <3>1. ~Got(d, scans + 1)
      BY <1>0 DEF Got, QueueInv, Produced
    <3> QED
      BY <1>6, <2>2, <3>1
  <2>3. CASE k + s \in 1..Len(msgQueue) /\ Queue[k] = msgQueue[k + s]
    BY <2>3 DEF QueueInv, Marked
  <2> QED
    BY <1>4, <2>2, <2>3
<1>10. Ahead(Queue)
  <2>1. SUFFICES ASSUME NEW d \in Dest, NEW k \in 1..Len(Queue), d \notin Queue[k].isSent,
                        NEW a \in 1..Len(written[d])
                 PROVE  written[d][a] < Queue[k].id
    BY DEF Ahead
  <2>2. CASE Queue[k] = New
    BY <1>0, <1>6, <2>2 DEF QueueInv, Produced
  <2>3. CASE k + s \in 1..Len(msgQueue) /\ Queue[k] = msgQueue[k + s]
    BY <2>1, <2>3 DEF QueueInv, Ahead
  <2> QED
    BY <1>4, <2>2, <2>3
<1> QED
  BY <1>1, <1>3, <1>7, <1>8, <1>9, <1>10

(* What a server has got once flush went through the queue. *)
LEMMA WrittenOfSend ==
    ASSUME QueueInv, Send, NEW d \in Dest
    PROVE  /\ written'[d] \in Seq(1..MaxScans)
           /\ Len(written[d]) <= Len(written'[d])
           /\ \A a \in 1..Len(written[d]) : written'[d][a] = written[d][a]
           /\ \A a \in (Len(written[d]) + 1)..Len(written'[d]) :
                d \in Up /\ \E k \in 1..Len(Queue) :
                    d \notin Queue[k].isSent /\ written'[d][a] = Queue[k].id
           /\ \A k \in 1..Len(Queue) :
                d \in Up /\ d \notin Queue[k].isSent =>
                    \E a \in (Len(written[d]) + 1)..Len(written'[d]) :
                        written'[d][a] = Queue[k].id
           /\ \A a, b \in 1..Len(written'[d]) : a < b => written'[d][a] < written'[d][b]
<1>0. /\ scans < MaxScans
      /\ written'[d] = written[d] \o IF d \in Up THEN Write(Queue, d) ELSE <<>>
  BY DEF Send, Queue, New
<1>1. /\ Queue \in Seq(Item) /\ Ordered(Queue) /\ Ahead(Queue)
      /\ Len(Queue) \in Nat \ {0}
  BY <1>0, QueueOfSendInv
<1>2. /\ written[d] \in Seq(1..MaxScans) /\ Len(written[d]) \in Nat
      /\ \A a \in 1..Len(written[d]) : written[d][a] \in Nat
  <2>1. written[d] \in Seq(1..MaxScans)
    BY DEF QueueInv, QueueType
  <2>2. \A a \in 1..Len(written[d]) : written[d][a] \in 1..MaxScans
    BY <2>1, ElementOfSeq
  <2> QED
    BY <2>1, <2>2
<1>3. \A k \in 1..Len(Queue) : Queue[k].id \in Nat
  <2> SUFFICES ASSUME NEW k \in 1..Len(Queue) PROVE Queue[k].id \in Nat
    OBVIOUS
  <2>1. Queue[k] \in Item
    BY <1>1
  <2> QED
    BY <2>1 DEF Item
<1>4. CASE d \notin Up
  <2>1. written'[d] = written[d]
    BY <1>0, <1>2, <1>4
  <2> QED
    BY <1>2, <1>4, <2>1 DEF QueueInv, WrittenInOrder
<1>5. CASE d \in Up
  <2> DEFINE W == Write(Queue, d)
             L == Len(written[d])
  <2>1. W \in Seq(1..MaxScans)
    BY <1>1, WriteRanks
  <2>2. PICK r \in [1..Len(W) -> 1..Len(Queue)] :
          /\ \A a, b \in 1..Len(W) : a < b => r[a] < r[b]
          /\ \A a \in 1..Len(W) : W[a] = Queue[r[a]].id /\ d \notin Queue[r[a]].isSent
          /\ \A i \in 1..Len(Queue) :
               d \notin Queue[i].isSent => \E a \in 1..Len(W) : r[a] = i
    BY <1>1, WriteRanks
  <2>3. written'[d] = written[d] \o W
    BY <1>0, <1>5
  <2> HIDE DEF W
  <2>4. /\ Len(W) \in Nat /\ written'[d] \in Seq(1..MaxScans)
        /\ Len(written'[d]) = L + Len(W)
        /\ \A a \in 1..L : written'[d][a] = written[d][a]
        /\ \A a \in 1..Len(W) : written'[d][L + a] = W[a]
    BY <1>2, <2>1, <2>3
  <2>5. \A a \in 1..Len(W) : r[a] \in 1..Len(Queue)
    BY <2>2
  <2>6. ASSUME NEW a \in (L + 1)..Len(written'[d])
        PROVE  \E k \in 1..Len(Queue) :
                  d \notin Queue[k].isSent /\ written'[d][a] = Queue[k].id
    <3>1. a - L \in 1..Len(W) /\ L + (a - L) = a
      BY <1>2, <2>4
    <3>2. written'[d][a] = Queue[r[a - L]].id /\ d \notin Queue[r[a - L]].isSent
      BY <2>2, <2>4, <3>1
    <3> QED
      BY <2>5, <3>1, <3>2
  <2>7. ASSUME NEW k \in 1..Len(Queue), d \notin Queue[k].isSent
        PROVE  \E a \in (L + 1)..Len(written'[d]) : written'[d][a] = Queue[k].id
    <3>1. PICK a \in 1..Len(W) : r[a] = k
      BY <2>2, <2>7
    <3>2. L + a \in (L + 1)..Len(written'[d]) /\ written'[d][L + a] = Queue[k].id
      BY <1>2, <2>2, <2>4, <3>1
    <3> QED
      BY <3>2
  <2>8. ASSUME NEW a \in 1..Len(written'[d]), NEW b \in 1..Len(written'[d]), a < b
        PROVE  written'[d][a] < written'[d][b]
    <3>1. CASE b <= L
      <4>1. a \in 1..L /\ b \in 1..L
        BY <1>2, <2>4, <2>8, <3>1
      <4> QED
        BY <2>4, <2>8, <4>1 DEF QueueInv, WrittenInOrder
    <3>2. CASE a <= L /\ b > L
      <4>1. a \in 1..L /\ b \in (L + 1)..Len(written'[d])
        BY <1>2, <2>4, <3>2
      <4>2. PICK k \in 1..Len(Queue) :
               d \notin Queue[k].isSent /\ written'[d][b] = Queue[k].id
        BY <2>6, <4>1
      <4>3. written[d][a] < Queue[k].id
        BY <1>1, <4>1, <4>2 DEF Ahead
      <4> QED
        BY <2>4, <4>1, <4>2, <4>3
    <3>3. CASE a > L
      <4>1. /\ a - L \in 1..Len(W) /\ b - L \in 1..Len(W) /\ a - L < b - L
            /\ L + (a - L) = a /\ L + (b - L) = b
        BY <1>2, <2>4, <2>8, <3>3
      <4>2. r[a - L] \in 1..Len(Queue) /\ r[b - L] \in 1..Len(Queue) /\ r[a - L] < r[b - L]
        BY <2>2, <2>5, <4>1
      <4>3. Queue[r[a - L]].id < Queue[r[b - L]].id
        BY <1>1, <4>2 DEF Ordered
      <4>4. written'[d][a] = Queue[r[a - L]].id /\ written'[d][b] = Queue[r[b - L]].id
        BY <2>2, <2>4, <4>1
      <4> QED
        BY <4>3, <4>4
    <3> QED
      BY <1>2, <2>4, <3>1, <3>2, <3>3
  <2> QED
    BY <1>2, <1>5, <2>4, <2>6, <2>7, <2>8
<1> QED
  BY <1>4, <1>5

(* An item of the next queue is one of the queue flush went through, with  *)
(* the servers that are up marked; one that is left out was sent to all.   *)
LEMMA QueueAfterSend ==
    ASSUME QueueInv, Send
    PROVE  /\ msgQueue' \in Seq(Item)
           /\ \E r \in [1..Len(msgQueue') -> 1..Len(Queue)] :
                /\ \A a, b \in 1..Len(msgQueue') : a < b => r[a] < r[b]
                /\ \A a \in 1..Len(msgQueue') :
                     /\ msgQueue'[a].id = Queue[r[a]].id
                     /\ msgQueue'[a].isSent = Queue[r[a]].isSent \cup Up
                /\ \A k \in 1..Len(Queue) :
                     Queue[k].isSent \cup Up # Dest => \E a \in 1..Len(msgQueue') : r[a] = k
<1>1. msgQueue' = NewQueue(Queue) /\ scans < MaxScans
  BY DEF Send, Queue, New
<1>2. Queue \in Seq(Item)
  BY <1>1, QueueOfSendInv
<1>3. PICK r \in [1..Len(NewQueue(Queue)) -> 1..Len(Queue)] :
        /\ \A a, b \in 1..Len(NewQueue(Queue)) : a < b => r[a] < r[b]
        /\ \A a \in 1..Len(NewQueue(Queue)) :
             /\ NewQueue(Queue)[a].id = Queue[r[a]].id
             /\ NewQueue(Queue)[a].isSent = Queue[r[a]].isSent \cup Up
             /\ NewQueue(Queue)[a].isSent # Dest
        /\ \A i \in 1..Len(Queue) :
             Queue[i].isSent \cup Up # Dest => \E a \in 1..Len(NewQueue(Queue)) : r[a] = i
  BY <1>2, NewQueueRanks
<1>4. NewQueue(Queue) \in Seq(Item)
  BY <1>2, NewQueueRanks
<1> QED
  BY <1>1, <1>3, <1>4

(* What a server got by a call of send: what it had, and the items of the  *)
(* queue it was not marked for, if it is up.                               *)
LEMMA GotBySend ==
    ASSUME QueueInv, Send, NEW d \in Dest, NEW k \in 1..Len(Queue)
    PROVE  WillHave(d, Queue[k].id) <=> d \in Queue[k].isSent \cup Up
<1>1. scans < MaxScans
  BY DEF Send
<1>2. Marked(Queue) /\ Ordered(Queue) /\ Queue \in Seq(Item)
  BY <1>1, QueueOfSendInv
<1>3. /\ written'[d] \in Seq(1..MaxScans)
      /\ Len(written[d]) \in Nat /\ Len(written[d]) <= Len(written'[d])
      /\ \A a \in 1..Len(written[d]) : written'[d][a] = written[d][a]
      /\ \A a \in (Len(written[d]) + 1)..Len(written'[d]) :
           d \in Up /\ \E i \in 1..Len(Queue) :
               d \notin Queue[i].isSent /\ written'[d][a] = Queue[i].id
      /\ d \in Up /\ d \notin Queue[k].isSent =>
           \E a \in (Len(written[d]) + 1)..Len(written'[d]) : written'[d][a] = Queue[k].id
  <2>1. written[d] \in Seq(1..MaxScans)
    BY DEF QueueInv, QueueType
  <2>2. Len(written[d]) \in Nat
    BY <2>1
  <2> QED
    BY <2>2, WrittenOfSend
<1>4. Len(written'[d]) \in Nat
  BY <1>3
<1>5. ASSUME WillHave(d, Queue[k].id) PROVE d \in Queue[k].isSent \cup Up
  <2>1. PICK a \in 1..Len(written'[d]) : written'[d][a] = Queue[k].id
    BY <1>5 DEF WillHave
  <2>2. CASE a \in 1..Len(written[d])
    <3>1. Got(d, Queue[k].id)
      BY <1>3, <2>1, <2>2 DEF Got
    <3> QED
      BY <1>2, <3>1 DEF Marked
  <2>3. CASE a \in (Len(written[d]) + 1)..Len(written'[d])
    BY <1>3, <2>3
  <2> QED
    BY <1>3, <1>4, <2>2, <2>3
<1>6. ASSUME d \in Queue[k].isSent PROVE WillHave(d, Queue[k].id)
  <2>1. Got(d, Queue[k].id)
    BY <1>2, <1>6 DEF Marked
  <2>2. PICK a \in 1..Len(written[d]) : written[d][a] = Queue[k].id
    BY <2>1 DEF Got
  <2>3. a \in 1..Len(written'[d]) /\ written'[d][a] = Queue[k].id
    BY <1>3, <1>4, <2>2
  <2> QED
    BY <2>3 DEF WillHave
<1>7. ASSUME d \in Up, d \notin Queue[k].isSent PROVE WillHave(d, Queue[k].id)
  <2>1. PICK a \in (Len(written[d]) + 1)..Len(written'[d]) : written'[d][a] = Queue[k].id
    BY <1>3, <1>7
  <2>2. a \in 1..Len(written'[d])
    BY <1>3, <1>4
  <2> QED
    BY <2>1, <2>2 DEF WillHave
<1> QED
  BY <1>5, <1>6, <1>7

LEMMA SendQueueInv == QueueInv /\ Send => QueueInv'
<1> SUFFICES ASSUME QueueInv, Send PROVE QueueInv'
  OBVIOUS
<1>0. /\ scans < MaxScans /\ scans' = scans + 1 /\ scans \in Nat /\ MaxScans \in Nat
      /\ DOMAIN written' = Dest
  BY NetworkAssumption DEF NetworkAssumption, Send, QueueInv, QueueType
<1>1. /\ Queue \in Seq(Item) /\ Len(Queue) \in Nat \ {0}
      /\ \A k \in 1..Len(Queue) : Queue[k].id <= scans'
      /\ Ordered(Queue) /\ Ahead(Queue)
  BY <1>0, QueueOfSendInv
<1>2. PICK r \in [1..Len(msgQueue') -> 1..Len(Queue)] :
        /\ \A a, b \in 1..Len(msgQueue') : a < b => r[a] < r[b]
        /\ \A a \in 1..Len(msgQueue') :
             /\ msgQueue'[a].id = Queue[r[a]].id
             /\ msgQueue'[a].isSent = Queue[r[a]].isSent \cup Up
  BY QueueAfterSend
<1>3. \A a \in 1..Len(msgQueue') : r[a] \in 1..Len(Queue)
  BY <1>2
<1>4. QueueType'
  <2>1. msgQueue' \in Seq(Item)
    BY QueueAfterSend
  <2>2. \A d \in Dest : written'[d] \in Seq(1..MaxScans)
    BY WrittenOfSend
  <2>3. written' \in [Dest -> Seq(1..MaxScans)]
    <3>1. written' = [d \in Dest |-> written[d] \o IF d \in Up THEN Write(Queue, d) ELSE <<>>]
      BY DEF Send, Queue, New
    <3> QED
      BY <2>2, <3>1
  <2>4. scans' \in 0..MaxScans
    BY <1>0
  <2> QED
    BY <2>1, <2>3, <2>4 DEF QueueType, Item
<1>5. WrittenInOrder'
  BY WrittenOfSend DEF WrittenInOrder
<1>6. Produced'
  <2>1. \A k \in 1..Len(msgQueue') : msgQueue'[k].id <= scans'
    BY <1>1, <1>2, <1>3
  <2>2. ASSUME NEW d \in Dest, NEW a \in 1..Len(written'[d])
        PROVE  written'[d][a] <= scans'
    <3>1. written'[d] \in Seq(1..MaxScans) /\ written[d] \in Seq(1..MaxScans)
      BY WrittenOfSend DEF QueueInv, QueueType
    <3>2. CASE a \in 1..Len(written[d])
      <4>1. written'[d][a] = written[d][a] /\ written[d][a] <= scans
        BY <3>2, WrittenOfSend DEF QueueInv, Produced
      <4>2. written'[d][a] \in 1..MaxScans
        BY <3>1, ElementOfSeq
      <4> QED
        BY <1>0, <4>1, <4>2
    <3>3. CASE a \in (Len(written[d]) + 1)..Len(written'[d])
      <4>1. PICK k \in 1..Len(Queue) : written'[d][a] = Queue[k].id
        BY <3>3, WrittenOfSend
      <4> QED
        BY <1>1, <4>1
    <3> QED
      BY <3>1, <3>2, <3>3
  <2> QED
    BY <2>1, <2>2 DEF Produced
<1>7. Ordered(msgQueue')
  <2>1. SUFFICES ASSUME NEW a \in 1..Len(msgQueue'), NEW b \in 1..Len(msgQueue'), a < b
                 PROVE  msgQueue'[a].id < msgQueue'[b].id
    BY DEF Ordered
  <2>2. r[a] < r[b]
    BY <1>2, <2>1
  <2>3. Queue[r[a]].id < Queue[r[b]].id
    BY <1>1, <1>3, <2>2 DEF Ordered
  <2> QED
    BY <1>2, <2>3
<1>8. Marked(msgQueue)'
  <2>1. SUFFICES ASSUME NEW d \in Dest, NEW k \in 1..Len(msgQueue')
                 PROVE  (d \in msgQueue'[k].isSent) <=> WillHave(d, msgQueue'[k].id)
    BY DEF Marked, Got, WillHave
  <2>2. WillHave(d, Queue[r[k]].id) <=> d \in Queue[r[k]].isSent \cup Up
    BY <1>3, GotBySend
  <2>3. /\ msgQueue'[k].id = Queue[r[k]].id
        /\ msgQueue'[k].isSent = Queue[r[k]].isSent \cup Up
    BY <1>2
  <2> QED
    BY <2>2, <2>3
<1>9. Ahead(msgQueue)'
  <2>1. SUFFICES ASSUME NEW d \in Dest, NEW k \in 1..Len(msgQueue'),
                        d \notin msgQueue'[k].isSent, NEW a \in 1..Len(written'[d])
                 PROVE  written'[d][a] < msgQueue'[k].id
    BY DEF Ahead
  <2>2. d \notin Up /\ d \notin Queue[r[k]].isSent /\ msgQueue'[k].id = Queue[r[k]].id
    BY <1>2, <2>1
  <2>3. written[d] \in Seq(1..MaxScans) /\ written'[d] \in Seq(1..MaxScans)
    BY WrittenOfSend DEF QueueInv, QueueType
  <2>4. a \in 1..Len(written[d])
    BY <2>2, <2>3, WrittenOfSend
  <2>5. written'[d][a] = written[d][a]
    BY <2>4, WrittenOfSend
  <2> QED
    BY <1>1, <1>3, <2>2, <2>4, <2>5 DEF Ahead
<1> QED
  BY <1>4, <1>5, <1>6, <1>7, <1>8, <1>9 DEF QueueInv, Ordered

(* Nothing but send changes the queue or writes. *)
LEMMA QueueInvNext == QueueInv /\ [Next]_vars => QueueInv'
<1> SUFFICES ASSUME QueueInv, [Next]_vars PROVE QueueInv'
  OBVIOUS
<1>1. CASE Send
  BY <1>1, SendQueueInv
<1>2. CASE UNCHANGED <<scans, msgQueue, written>>
  BY <1>2 DEF QueueInv, QueueType, Produced, WrittenInOrder, Ordered, Marked, Ahead, Got
<1> QED
  BY <1>1, <1>2 DEF Next, vars, Done, Callbacks, OnConnect, OnError, OnClose, Fail, PeerCloses

LEMMA SocketTypeNext == SocketType /\ [Next]_vars => SocketType'
<1> SUFFICES ASSUME SocketType, [Next]_vars PROVE SocketType'
  OBVIOUS
<1>1. CASE Send
  BY <1>1, SendSocketType
<1>2. ASSUME NEW d \in Dest, NEW k \in Socket, Callbacks(d, k) \/ Fail(d, k) \/ PeerCloses(d, k)
      PROVE  SocketType'
  BY <1>2, CallbackSocketType
<1>3. CASE UNCHANGED vars
  BY <1>3 DEF vars, SocketType, EventsOfMade
<1> QED
  BY <1>1, <1>2, <1>3 DEF Next, Done

LEMMA InitInv == Init => SocketType /\ QueueInv
<1> SUFFICES ASSUME Init PROVE SocketType /\ QueueInv
  OBVIOUS
<1>1. SocketType
  BY NetworkAssumption DEF NetworkAssumption, Init, SocketType, EventsOfMade, Socket
<1>2. /\ scans = 0 /\ msgQueue = <<>> /\ Len(msgQueue) = 0
      /\ written = [d \in Dest |-> <<>>] /\ \A d \in Dest : Len(written[d]) = 0
  BY DEF Init
<1>3. QueueInv
  BY <1>2, NetworkAssumption
  DEF NetworkAssumption, QueueInv, QueueType, Produced, WrittenInOrder, Ordered, Marked, Ahead, Got
<1> QED
  BY <1>1, <1>3

(* The inductive invariant holds: where the sockets are, and what the      *)
(* queue and the servers have of each scan (cpsNetwork).                   *)
THEOREM Invariance == Spec => [](SocketType /\ QueueInv)
<1>1. SocketType /\ QueueInv /\ [Next]_vars => (SocketType /\ QueueInv)'
  BY QueueInvNext, SocketTypeNext
<1> QED
  BY <1>1, InitInv, PTL DEF Spec

(* The variables keep their types, and the sockets of a server are those   *)
(* up to the one in use (connectOne, send, flush).                         *)
THEOREM TypeCorrect == Spec => []TypeOK
<1>1. SocketType /\ QueueInv => TypeOK
  BY DEF SocketType, QueueInv, QueueType, TypeOK
<1> QED
  BY <1>1, Invariance, PTL

-----------------------------------------------------------------------------
(* Which scans are forgotten. *)

(* From the first item of an ordered queue on, every item adds one. *)
LEMMA OrderedSpreads ==
    ASSUME NEW q \in Seq(Item), Ordered(q), Len(q) > 0
    PROVE  q[1].id + Len(q) - 1 <= q[Len(q)].id
<1> DEFINE Spread(n) == n + 1 <= Len(q) => q[1].id + n <= q[n + 1].id
           S == {n \in Nat : Spread(n)}
<1>0. Len(q) \in Nat
  OBVIOUS
<1>1. ASSUME NEW k \in 1..Len(q) PROVE q[k].id \in Nat
  <2>1. q[k] \in Item
    OBVIOUS
  <2> QED
    BY <2>1 DEF Item
<1>2. 0 \in S
  BY <1>0, <1>1
<1>3. ASSUME NEW n \in Nat, n \in S PROVE n + 1 \in S
  <2>1. SUFFICES ASSUME (n + 1) + 1 <= Len(q)
                 PROVE  q[1].id + (n + 1) <= q[(n + 1) + 1].id
    OBVIOUS
  <2>2. 1 \in 1..Len(q) /\ n + 1 \in 1..Len(q) /\ (n + 1) + 1 \in 1..Len(q)
    BY <1>0, <2>1
  <2>3. q[1].id + n <= q[n + 1].id
    BY <1>0, <1>3, <2>1
  <2>4. q[n + 1].id < q[(n + 1) + 1].id
    BY <2>2 DEF Ordered
  <2>5. q[1].id \in Nat /\ q[n + 1].id \in Nat /\ q[(n + 1) + 1].id \in Nat
    BY <1>1, <2>2
  <2> QED
    BY <2>3, <2>4, <2>5
<1> HIDE DEF S
<1>4. Len(q) - 1 \in S
  BY <1>0, <1>2, <1>3, Induction
<1>5. Spread(Len(q) - 1) /\ (Len(q) - 1) + 1 = Len(q)
  BY <1>0, <1>4 DEF S
<1>6. q[1].id \in Nat
  BY <1>0, <1>1
<1> QED
  BY <1>0, <1>5, <1>6

(* NewestAreKept of one scan. *)
KeptOrDone(i) ==
    \/ \E k \in 1..Len(msgQueue) : msgQueue[k].id = i
    \/ \A d \in Dest : Got(d, i)
    \/ i + msgqueueMaxSize + 1 <= scans

(* An item flush went through is still queued, or every server has it. *)
LEMMA FlushedKeptOrDone ==
    ASSUME QueueInv, Send, NEW k \in 1..Len(Queue)
    PROVE  \/ \E a \in 1..Len(msgQueue') : msgQueue'[a].id = Queue[k].id
           \/ \A d \in Dest : WillHave(d, Queue[k].id)
<1>1. CASE Queue[k].isSent \cup Up = Dest
  <2>1. ASSUME NEW d \in Dest PROVE WillHave(d, Queue[k].id)
    BY <1>1, GotBySend
  <2> QED
    BY <2>1
<1>2. CASE Queue[k].isSent \cup Up # Dest
  <2>1. PICK r \in [1..Len(msgQueue') -> 1..Len(Queue)] :
          /\ \A a \in 1..Len(msgQueue') : msgQueue'[a].id = Queue[r[a]].id
          /\ \A i \in 1..Len(Queue) :
               Queue[i].isSent \cup Up # Dest => \E a \in 1..Len(msgQueue') : r[a] = i
    BY QueueAfterSend
  <2>2. PICK a \in 1..Len(msgQueue') : r[a] = k
    BY <1>2, <2>1
  <2> QED
    BY <2>1, <2>2
<1> QED
  BY <1>1, <1>2

LEMMA SendKeeps ==
    ASSUME QueueInv, Send, NEW i \in 1..(scans + 1), i <= scans => KeptOrDone(i)
    PROVE  \/ \E a \in 1..Len(msgQueue') : msgQueue'[a].id = i
           \/ \A d \in Dest : WillHave(d, i)
           \/ i + msgqueueMaxSize + 1 <= scans'
<1>0. /\ scans < MaxScans /\ scans' = scans + 1 /\ scans \in Nat
      /\ msgqueueMaxSize \in Nat
  BY NetworkAssumption DEF NetworkAssumption, Send, QueueInv, QueueType
<1>1. PICK s \in {0, 1} :
        /\ s = 1 <=> Len(msgQueue) > msgqueueMaxSize
        /\ s <= Len(msgQueue) /\ Len(Queue) = Len(msgQueue) - s + 1
        /\ Queue[Len(Queue)] = New
        /\ \A k \in 1..(Len(Queue) - 1) : Queue[k] = msgQueue[k + s]
  BY <1>0, QueueOfSend DEF QueueInv, QueueType
<1>2. Len(msgQueue) \in Nat /\ Len(Queue) \in Nat \ {0} /\ msgQueue \in Seq(Item)
  BY <1>1 DEF QueueInv, QueueType
<1>3. CASE i = scans + 1
  <2>1. Queue[Len(Queue)].id = i /\ Len(Queue) \in 1..Len(Queue)
    BY <1>1, <1>2, <1>3 DEF New
  <2> QED
    BY <2>1, FlushedKeptOrDone
<1>4. ASSUME NEW k \in 1..Len(msgQueue), msgQueue[k].id = i
      PROVE  \/ \E a \in 1..Len(msgQueue') : msgQueue'[a].id = i
             \/ \A d \in Dest : WillHave(d, i)
             \/ i + msgqueueMaxSize + 1 <= scans'
  <2>1. CASE k - s >= 1
    <3>1. k - s \in 1..(Len(Queue) - 1) /\ (k - s) + s = k
      BY <1>1, <1>2, <2>1
    <3>2. Queue[k - s].id = i /\ k - s \in 1..Len(Queue)
      BY <1>1, <1>2, <1>4, <3>1
    <3> QED
      BY <3>2, FlushedKeptOrDone
  <2>2. CASE ~(k - s >= 1)
    <3>1. k = 1 /\ Len(msgQueue) > msgqueueMaxSize /\ Len(msgQueue) > 0
      BY <1>0, <1>1, <1>2, <2>2
    <3>2. i + Len(msgQueue) - 1 <= msgQueue[Len(msgQueue)].id
      BY <1>2, <1>4, <3>1, OrderedSpreads DEF QueueInv
    <3>3. msgQueue[Len(msgQueue)].id <= scans
      BY <1>2, <3>1 DEF QueueInv, Produced
    <3>4. msgQueue[Len(msgQueue)].id \in Nat
      <4>1. msgQueue[Len(msgQueue)] \in Item
        BY <1>2, <3>1
      <4> QED
        BY <4>1 DEF Item
    <3> QED
      BY <1>0, <1>2, <3>1, <3>2, <3>3, <3>4
  <2> QED
    BY <1>1, <1>2, <2>1, <2>2
<1>5. ASSUME \A d \in Dest : Got(d, i)
      PROVE  \A d \in Dest : WillHave(d, i)
  <2> SUFFICES ASSUME NEW d \in Dest PROVE WillHave(d, i)
    OBVIOUS
  <2>1. PICK a \in 1..Len(written[d]) : written[d][a] = i
    BY <1>5 DEF Got
  <2>2. written[d] \in Seq(1..MaxScans) /\ written'[d] \in Seq(1..MaxScans)
    BY WrittenOfSend DEF QueueInv, QueueType
  <2>3. Len(written[d]) <= Len(written'[d]) /\ written'[d][a] = i
    BY <2>1, WrittenOfSend
  <2>4. a \in 1..Len(written'[d])
    BY <2>2, <2>3
  <2> QED
    BY <2>3, <2>4 DEF WillHave
<1>6. CASE i + msgqueueMaxSize + 1 <= scans
  BY <1>0, <1>6
<1>7. CASE i <= scans
  BY <1>4, <1>5, <1>6, <1>7 DEF KeptOrDone
<1> QED
  BY <1>0, <1>3, <1>7

LEMMA NewestIsKeptOrDone ==
    ASSUME QueueInv
    PROVE  NewestAreKept <=> \A i \in 1..scans : KeptOrDone(i)
BY DEF NewestAreKept, KeptOrDone, WrittenTo, Got

(* A scan that was not written to every server is forgotten for newer ones *)
(* only, when there are msgqueueMaxSize + 1 of them (send, flush).         *)
THEOREM NewestAreKeptAlways == Spec => []NewestAreKept
<1>1. Init => NewestAreKept
  BY DEF Init, NewestAreKept
<1>2. QueueInv /\ QueueInv' /\ NewestAreKept /\ [Next]_vars => NewestAreKept'
  <2> SUFFICES ASSUME QueueInv, NewestAreKept, [Next]_vars PROVE NewestAreKept'
    OBVIOUS
  <2>1. CASE Send
    <3>1. scans' = scans + 1 /\ scans \in Nat
      BY <2>1 DEF Send, QueueInv, QueueType
    <3>2. ASSUME NEW i \in 1..scans'
          PROVE  \/ \E a \in 1..Len(msgQueue') : msgQueue'[a].id = i
                 \/ \A d \in Dest : WillHave(d, i)
                 \/ i + msgqueueMaxSize + 1 <= scans'
      <4>1. i \in 1..(scans + 1) /\ (i <= scans => i \in 1..scans)
        BY <3>1
      <4>2. i <= scans => KeptOrDone(i)
        BY <4>1, NewestIsKeptOrDone
      <4> QED
        BY <2>1, <4>1, <4>2, SendKeeps
    <3> QED
      BY <3>2 DEF NewestAreKept, WrittenTo, WillHave
  <2>2. CASE UNCHANGED <<scans, msgQueue, written>>
    BY <2>2 DEF NewestAreKept, WrittenTo
  <2> QED
    BY <2>1, <2>2
    DEF Next, vars, Done, Callbacks, OnConnect, OnError, OnClose, Fail, PeerCloses
<1> QED
  BY <1>1, <1>2, Invariance, PTL DEF Spec

-----------------------------------------------------------------------------
(* The network part implements Delivery. *)

(* The ids of an ordered queue are distinct: a rank is the one of its id. *)
LEMMA RankOfId ==
    ASSUME NEW q \in Seq(Item), Ordered(q), NEW k \in 1..Len(q)
    PROVE  (CHOOSE n \in 1..Len(q) : q[n].id = q[k].id) = k
<1> DEFINE c == CHOOSE n \in 1..Len(q) : q[n].id = q[k].id
<1>1. c \in 1..Len(q) /\ q[c].id = q[k].id
  OBVIOUS
<1>2. \A n \in 1..Len(q) : q[n].id \in Nat
  <2> SUFFICES ASSUME NEW n \in 1..Len(q) PROVE q[n].id \in Nat
    OBVIOUS
  <2>1. q[n] \in Item
    OBVIOUS
  <2> QED
    BY <2>1 DEF Item
<1> HIDE DEF c
<1>3. ~(c < k) /\ ~(k < c) /\ k \in Int /\ c \in Int
  BY <1>1, <1>2 DEF Ordered
<1>4. c = k
  BY <1>3
<1> QED
  BY <1>4 DEF c

(* What Delivery holds, and where it is to go. *)
LEMMA HeldOf ==
    ASSUME QueueInv
    PROVE  /\ Abstract!Held = QueuedIds
           /\ \A k \in 1..Len(msgQueue) :
                /\ msgQueue[k].id \in QueuedIds
                /\ Abstract!ToReach(msgQueue[k].id) = Dest \ msgQueue[k].isSent
           /\ \A i : i \notin QueuedIds => Abstract!ToReach(i) = Dest
           /\ scans + 1 \notin QueuedIds
<1>1. Abstract!Held = QueuedIds
  BY DEF Abstract!Held
<1>2. ASSUME NEW k \in 1..Len(msgQueue)
      PROVE  /\ msgQueue[k].id \in QueuedIds
             /\ Abstract!ToReach(msgQueue[k].id) = Dest \ msgQueue[k].isSent
  <2>1. msgQueue[k].id \in QueuedIds
    BY DEF QueuedIds
  <2>2. Unsent(msgQueue[k].id) = Dest \ msgQueue[k].isSent
    BY RankOfId DEF QueueInv, QueueType, Unsent
  <2> QED
    BY <1>1, <2>1, <2>2 DEF Abstract!ToReach
<1>3. scans + 1 \notin QueuedIds
  BY DEF QueueInv, QueueType, Produced, QueuedIds
<1> QED
  BY <1>1, <1>2, <1>3 DEF Abstract!ToReach

(* What a call of send writes to d, of the items flush went through. *)
LEMMA FreshOfSend ==
    ASSUME QueueInv, Send, NEW d \in Dest
    PROVE  /\ \A i \in Abstract!Fresh(d) :
                d \in Up /\ \E k \in 1..Len(Queue) : d \notin Queue[k].isSent /\ i = Queue[k].id
           /\ \A k \in 1..Len(Queue) :
                Queue[k].id \in Abstract!Fresh(d) <=> d \in Up /\ d \notin Queue[k].isSent
<1>1. scans < MaxScans
  BY DEF Send
<1>2. Ordered(Queue) /\ Queue \in Seq(Item) /\ Len(Queue) \in Nat
  BY <1>1, QueueOfSendInv
<1>3. \A k \in 1..Len(Queue) : Queue[k].id \in Nat
  <2> SUFFICES ASSUME NEW k \in 1..Len(Queue) PROVE Queue[k].id \in Nat
    OBVIOUS
  <2>1. Queue[k] \in Item
    BY <1>2
  <2> QED
    BY <2>1 DEF Item
<1>4. ASSUME NEW i \in Abstract!Fresh(d)
      PROVE  d \in Up /\ \E k \in 1..Len(Queue) : d \notin Queue[k].isSent /\ i = Queue[k].id
  <2>1. PICK a \in (Len(written[d]) + 1)..Len(written'[d]) : written'[d][a] = i
    BY DEF Abstract!Fresh
  <2> QED
    BY <2>1, WrittenOfSend
<1>5. ASSUME NEW k \in 1..Len(Queue), Queue[k].id \in Abstract!Fresh(d)
      PROVE  d \in Up /\ d \notin Queue[k].isSent
  <2>1. d \in Up
    BY <1>4, <1>5
  <2>2. PICK n \in 1..Len(Queue) : d \notin Queue[n].isSent /\ Queue[k].id = Queue[n].id
    BY <1>4, <1>5
  <2>3. ~(n < k) /\ ~(k < n) /\ n \in Int /\ k \in Int
    BY <1>2, <1>3, <2>2 DEF Ordered
  <2> QED
    BY <2>1, <2>2, <2>3
<1>6. ASSUME NEW k \in 1..Len(Queue), d \in Up, d \notin Queue[k].isSent
      PROVE  Queue[k].id \in Abstract!Fresh(d)
  <2>1. PICK a \in (Len(written[d]) + 1)..Len(written'[d]) : written'[d][a] = Queue[k].id
    BY <1>6, WrittenOfSend
  <2> QED
    BY <2>1 DEF Abstract!Fresh
<1> QED
  BY <1>4, <1>5, <1>6

(* An item flush goes through is one that was held, or the new scan; where *)
(* it is to go are the servers it is not marked for.                       *)
LEMMA QueueToReach ==
    ASSUME QueueInv, Send, NEW k \in 1..Len(Queue)
    PROVE  /\ Queue[k].id \in Abstract!Held \cup Abstract!New
           /\ Abstract!ToReach(Queue[k].id) = Dest \ Queue[k].isSent
<1>0. scans < MaxScans /\ scans' = scans + 1 /\ scans \in Nat
  BY NetworkAssumption DEF NetworkAssumption, Send, QueueInv, QueueType
<1>1. PICK s \in {0, 1} :
        /\ s <= Len(msgQueue) /\ Len(Queue) = Len(msgQueue) - s + 1
        /\ Queue[Len(Queue)] = New
        /\ \A n \in 1..(Len(Queue) - 1) : Queue[n] = msgQueue[n + s]
  BY <1>0, QueueOfSend DEF QueueInv, QueueType
<1>2. Len(msgQueue) \in Nat /\ Len(Queue) \in Nat \ {0}
  BY <1>1 DEF QueueInv, QueueType
<1>3. CASE k = Len(Queue)
  <2>1. Queue[k].id = scans + 1 /\ Queue[k].isSent = {}
    BY <1>1, <1>3 DEF New
  <2>2. scans + 1 \in Abstract!New
    BY <1>0 DEF Abstract!New
  <2>3. Abstract!ToReach(scans + 1) = Dest
    BY HeldOf
  <2> QED
    BY <2>1, <2>2, <2>3
<1>4. CASE k # Len(Queue)
  <2>1. k + s \in 1..Len(msgQueue) /\ Queue[k] = msgQueue[k + s]
    BY <1>1, <1>2, <1>4
  <2>2. msgQueue[k + s].id \in Abstract!Held
    BY <2>1, HeldOf
  <2>3. Abstract!ToReach(msgQueue[k + s].id) = Dest \ msgQueue[k + s].isSent
    BY <2>1, HeldOf
  <2> QED
    BY <2>1, <2>2, <2>3
<1> QED
  BY <1>3, <1>4

LEMMA SendAdvances ==
    ASSUME QueueInv, QueueInv', Send
    PROVE  Abstract!Advance
<1>0. scans < MaxScans /\ scans' = scans + 1 /\ scans \in Nat
  BY NetworkAssumption DEF NetworkAssumption, Send, QueueInv, QueueType
<1>1. ASSUME NEW d \in Dest PROVE Abstract!Receives(d)
  <2>1. /\ Len(written[d]) <= Len(written'[d])
        /\ \A a \in 1..Len(written[d]) : written'[d][a] = written[d][a]
        /\ \A a, b \in 1..Len(written'[d]) : a < b => written'[d][a] < written'[d][b]
    BY WrittenOfSend
  <2>2. ASSUME NEW i \in Abstract!Fresh(d)
        PROVE  i \in Abstract!Held \cup Abstract!New /\ d \in Abstract!ToReach(i)
    <3>1. PICK k \in 1..Len(Queue) : d \notin Queue[k].isSent /\ i = Queue[k].id
      BY FreshOfSend
    <3> QED
      BY <3>1, QueueToReach
  <2> QED
    BY <2>1, <2>2 DEF Abstract!Receives
<1>2. ASSUME NEW i \in QueuedIds' PROVE Abstract!Holds(i)
  <2>1. PICK a \in 1..Len(msgQueue') : msgQueue'[a].id = i
    BY DEF QueuedIds
  <2>2. PICK k \in 1..Len(Queue) :
          msgQueue'[a].id = Queue[k].id /\ msgQueue'[a].isSent = Queue[k].isSent \cup Up
    BY QueueAfterSend
  <2>3. Unsent(i)' = Dest \ msgQueue'[a].isSent
    <3>1. msgQueue' \in Seq(Item) /\ Ordered(msgQueue')
      BY DEF QueueInv, QueueType, Ordered, Item
    <3>2. (CHOOSE n \in 1..Len(msgQueue') : msgQueue'[n].id = msgQueue'[a].id) = a
      BY <3>1, RankOfId
    <3> QED
      BY <2>1, <3>2 DEF Unsent
  <2>4. /\ i \in Abstract!Held \cup Abstract!New
        /\ Abstract!ToReach(i) = Dest \ Queue[k].isSent
    BY <2>1, <2>2, QueueToReach
  <2>5. \A d \in Dest : i \in Abstract!Fresh(d) <=> d \in Up /\ d \notin Queue[k].isSent
    BY <2>1, <2>2, FreshOfSend
  <2>6. Unsent(i)' = {d \in Abstract!ToReach(i) : i \notin Abstract!Fresh(d)}
    BY <2>2, <2>3, <2>4, <2>5
  <2> QED
    BY <2>4, <2>6 DEF Abstract!Holds
<1>3. Abstract!Held' = QueuedIds'
  BY DEF Abstract!Held
<1> QED
  BY <1>0, <1>1, <1>2, <1>3 DEF Abstract!Advance

(* Each scan is written to each server at most once and in order, an item  *)
(* of the queue is marked for just the servers it was written to, and the  *)
(* gaps are scans that left the queue (send, flush, connectOne).           *)
THEOREM Refinement == Spec => Delivered
<1>1. Init => Abstract!Init
  <2> SUFFICES ASSUME Init PROVE Abstract!Init
    OBVIOUS
  <2>1. QueuedIds = {}
    BY DEF Init, QueuedIds
  <2> QED
    BY <2>1 DEF Init, Abstract!Init, Abstract!Held
<1>2. QueueInv /\ QueueInv' /\ [Next]_vars => [Abstract!Advance]_(Abstract!vars)
  <2> SUFFICES ASSUME QueueInv, QueueInv', [Next]_vars
               PROVE  [Abstract!Advance]_(Abstract!vars)
    OBVIOUS
  <2>1. CASE Send
    BY <2>1, SendAdvances
  <2>2. CASE UNCHANGED <<scans, msgQueue, written>>
    BY <2>2 DEF Abstract!vars, QueuedIds, Unsent
  <2> QED
    BY <2>1, <2>2
    DEF Next, vars, Done, Callbacks, OnConnect, OnError, OnClose, Fail, PeerCloses
<1> QED
  BY <1>1, <1>2, Invariance, PTL DEF Spec, Delivered, Abstract!Spec
=============================================================================
