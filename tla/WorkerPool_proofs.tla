-------------------------- MODULE WorkerPool_proofs --------------------------
(* Proofs about WorkerPool, for every number of threads and of objects, and *)
(* whatever the objects are: first the life of an object in the pool, then  *)
(* the series that is posted of it, for every length of a sample and every  *)
(* order of its fields.                                                     *)
EXTENDS WorkerPool, FiniteSetTheorems, SequenceTheorems, WellFoundedInduction, TLAPS

Stage == {"idle", "init", "build", "post", "answer", "free"}

ObjectType ==
    /\ received \in Seq(Objects) /\ Len(received) <= NObjects
    /\ queue \in Seq(Object)
    /\ posts \in [Object -> Nat] /\ DOMAIN body = Object /\ freed \in [Object -> Nat]
    /\ dropped \subseteq Object

ThreadType ==
    /\ pc \in [Worker -> Stage]
    /\ job \in [Worker -> 0..NObjects]
    /\ \A w \in Worker : job[w] = 0 <=> pc[w] = "idle"
    /\ url \in {"none", "building", "built"} /\ builder \subseteq Worker
    /\ hung \subseteq Worker

(* The loop has what came last, and nothing while it reads. *)
LoopInv ==
    /\ loop \in {"read", "push", "renew"}
    /\ source = IF loop = "read" THEN 0 ELSE Len(received)
    /\ loop # "read" => Len(received) >= 1

Types == ObjectType /\ ThreadType /\ LoopInv

(* How many objects were given to the pool. *)
Given == IF loop = "push" THEN Len(received) - 1 ELSE Len(received)

(* The queue holds an object once, and what it holds no thread has. *)
QueueApart ==
    /\ \A j \in 1..Len(queue) : queue[j] <= Given
    /\ \A j, k \in 1..Len(queue) : queue[j] = queue[k] => j = k
    /\ \A j \in 1..Len(queue), w \in Worker : queue[j] # job[w]

(* Two threads have not the same object. *)
JobsApart ==
    /\ \A w \in Worker : job[w] <= Given
    /\ \A v, w \in Worker : job[v] = job[w] /\ job[v] # 0 => v = w

Queued(o) == \E k \in 1..Len(queue) : queue[k] = o
Held(o) == \E w \in Worker : job[w] = o

(* An object was freed once it is neither in the queue nor with a thread. *)
FreedIsGone ==
    \A o \in Object :
        /\ o <= Given /\ ~Queued(o) /\ ~Held(o) => freed[o] = 1
        /\ o > Given \/ Queued(o) \/ Held(o) => freed[o] = 0

(* Its thread waits for the answer, or has given it up. *)
Through(o) == \E w \in Worker : job[w] = o /\ pc[w] \in {"answer", "free"}

(* It was posted once its thread waits for the answer, unless it was       *)
(* dropped then.                                                           *)
PostedIsPast ==
    /\ \A o \in Object :
          posts[o] = IF o \notin dropped /\ (freed[o] = 1 \/ Through(o)) THEN 1 ELSE 0
    /\ \A o \in dropped : freed[o] = 1 \/ Through(o)

(* The URL is built by the one thread that found it missing. *)
UrlInv ==
    /\ url = "none" => builder = {}
    /\ \A v, w \in builder : v = w
    /\ \A w \in Worker : pc[w] \in {"post", "answer", "free"} => url = "built"
    /\ \A o \in Object : posts[o] > 0 => url = "built"

PoolInv == Types /\ QueueApart /\ JobsApart /\ FreedIsGone /\ PostedIsPast /\ UrlInv

-----------------------------------------------------------------------------

(* What Receive changes. *)
LEMMA ReceiveEffect ==
    ASSUME Types, Receive
    PROVE  \E n \in Nat :
             /\ n = Len(received) /\ n < NObjects /\ n + 1 \in 0..NObjects
             /\ received' \in Seq(Objects) /\ Len(received') = n + 1
             /\ loop = "read" /\ loop' = "push" /\ source' = n + 1
             /\ Given' = n /\ Given = n
             /\ UNCHANGED <<queue, pc, job, url, builder, posts, body, freed, dropped, hung>>
<1>1. PICK list \in Objects : received' = Append(received, list)
  BY DEF Receive
<1>2. PICK n \in Nat : n = Len(received) /\ n < NObjects
  BY DEF Receive, Types, ObjectType
<1>3. received' \in Seq(Objects) /\ Len(received') = n + 1
  BY <1>1, <1>2 DEF Types, ObjectType
<1>4. n + 1 \in 0..NObjects
  BY <1>2, PoolAssumption DEF PoolAssumption
<1>5. /\ loop = "read" /\ loop' = "push" /\ source' = n + 1
      /\ UNCHANGED <<queue, pc, job, url, builder, posts, body, freed, dropped, hung>>
  BY <1>2 DEF Receive, historyVars
<1>6. Given' = n /\ Given = n
  BY <1>2, <1>3, <1>5 DEF Given
<1> QED
  BY <1>2, <1>3, <1>4, <1>5, <1>6

(* What Push does to the queue. *)
LEMMA PushEffect ==
    ASSUME Types, Push
    PROVE  \E n \in Nat, m \in Nat :
             /\ n + 1 = Len(received) /\ n = Given /\ n + 1 = Given' /\ m = Len(queue)
             /\ loop' = "renew"
             /\ queue' \in Seq(Object) /\ Len(queue') = m + 1
             /\ \A k \in 1..m : queue'[k] = queue[k]
             /\ queue'[m + 1] = n + 1
             /\ UNCHANGED <<received, source, pc, job, url, builder, posts, body, freed,
                            dropped, hung>>
<1>1. PICK l \in Nat : l = Len(received) /\ l >= 1 /\ l <= NObjects
  BY DEF Push, Types, ObjectType, LoopInv
<1>2. PICK n \in Nat : l = n + 1 /\ l - 1 = n
  BY <1>1
<1>3. PICK m \in Nat : m = Len(queue)
  BY DEF Types, ObjectType
<1>4. source = n + 1
  BY <1>1, <1>2 DEF Push, Types, LoopInv
<1>5. n + 1 \in Object /\ queue \in Seq(Object) /\ queue' = Append(queue, n + 1)
  BY <1>1, <1>2, <1>4, PoolAssumption DEF PoolAssumption, Push, Types, ObjectType, Object
<1>6. /\ queue' \in Seq(Object) /\ Len(queue') = m + 1
      /\ \A k \in 1..m : queue'[k] = queue[k]
      /\ queue'[m + 1] = n + 1
  BY <1>3, <1>5, AppendProperties
<1>7. n = Given /\ n + 1 = Given'
  BY <1>1, <1>2 DEF Push, Given
<1> QED
  BY <1>1, <1>2, <1>3, <1>6, <1>7 DEF Push, historyVars

(* What Renew leaves alone. *)
LEMMA RenewEffect ==
    ASSUME Renew
    PROVE  /\ loop = "renew" /\ loop' = "read" /\ source' = 0 /\ Given' = Given
           /\ UNCHANGED <<received, queue, pc, job, url, builder, posts, body, freed,
                          dropped, hung>>
  BY DEF Renew, Given, historyVars

(* The threads leave the loop alone. *)
LEMMA LoopStays ==
    ASSUME \/ \E w \in Worker : Run(w) \/ Drop(w) \/ Hang(w)
           \/ UNCHANGED vars
    PROVE  UNCHANGED <<received, loop, source>> /\ Given' = Given
<1>1. UNCHANGED loopVars
  BY DEF Run, Take, EnterInit, LeaveInit, Post, Free, Drop, Hang, vars
<1> QED
  BY <1>1 DEF loopVars, Given

(* What Take does to the queue. *)
LEMMA TakeEffect ==
    ASSUME Types, NEW w \in Worker, Take(w)
    PROVE  \E m \in Nat :
             /\ m + 1 = Len(queue) /\ queue' \in Seq(Object) /\ Len(queue') = m
             /\ \A k \in 1..m : queue'[k] = queue[k + 1]
             /\ queue[1] \in Object
             /\ job' = [job EXCEPT ![w] = queue[1]]
             /\ pc[w] = "idle" /\ pc' = [pc EXCEPT ![w] = "init"]
             /\ UNCHANGED <<received, url, builder, posts, body, freed, dropped, hung>>
             /\ Given' = Given
<1>1. queue \in Seq(Object) /\ queue # <<>> /\ queue' = Tail(queue)
  BY DEF Types, ObjectType, Take
<1>2. PICK m \in Nat : m + 1 = Len(queue)
  BY <1>1, EmptySeq, LenProperties
<1>3. /\ queue' \in Seq(Object) /\ Len(queue') = m
      /\ \A k \in 1..m : queue'[k] = queue[k + 1]
  BY <1>1, <1>2, HeadTailProperties
<1>4. Head(queue) = queue[1] /\ queue[1] \in Object
  BY <1>1, <1>2, HeadTailProperties
<1>5. UNCHANGED <<received, loop>> /\ Given' = Given
  BY DEF Take, loopVars, Given
<1> QED
  BY <1>2, <1>3, <1>4, <1>5 DEF Take, historyVars

LEMMA ObjectIsRank == NObjects \in Nat /\ \A o \in Object : o \in 0..NObjects /\ o # 0
  BY PoolAssumption DEF PoolAssumption, Object

(* A thread that has an object has one that was pushed. *)
LEMMA HeldIsObject ==
    ASSUME Types, NEW w \in Worker, pc[w] # "idle" PROVE job[w] \in Object
  BY PoolAssumption DEF PoolAssumption, Types, ThreadType, Object

LEMMA CountUp ==
    ASSUME NEW f \in [Object -> Nat], NEW o PROVE [f EXCEPT ![o] = @ + 1] \in [Object -> Nat]
<1>1. \A x \in Object : [f EXCEPT ![o] = @ + 1][x] = IF x = o THEN f[x] + 1 ELSE f[x]
  OBVIOUS
<1>2. \A x \in Object : [f EXCEPT ![o] = @ + 1][x] \in Nat
  BY <1>1
<1> QED
  BY <1>2

LEMMA LoopInvNext == Types /\ [Next]_vars => LoopInv'
<1> SUFFICES ASSUME Types, [Next]_vars PROVE LoopInv'
  OBVIOUS
<1>1. CASE Receive
  BY <1>1, ReceiveEffect DEF LoopInv
<1>2. CASE Push
  BY <1>2, PushEffect DEF Types, LoopInv, Push
<1>3. CASE Renew
  BY <1>3, RenewEffect DEF Types, LoopInv
<1>4. CASE UNCHANGED <<received, loop, source>>
  BY <1>4 DEF Types, LoopInv
<1> QED
  BY <1>1, <1>2, <1>3, <1>4, LoopStays DEF Next, HandOver, Done

LEMMA TypesNext == Types /\ [Next]_vars => Types'
<1> SUFFICES ASSUME Types, [Next]_vars PROVE Types'
  OBVIOUS
<1>0. LoopInv'
  BY LoopInvNext
<1>1. CASE Receive
  <2>1. PICK n \in Nat : /\ n + 1 \in 0..NObjects
                         /\ received' \in Seq(Objects) /\ Len(received') = n + 1
                         /\ UNCHANGED <<queue, pc, job, url, builder, posts, body, freed,
                                        dropped, hung>>
    BY <1>1, ReceiveEffect
  <2>2. ObjectType'
    BY <2>1, ObjectIsRank DEF Types, ObjectType
  <2>3. ThreadType'
    BY <2>1 DEF Types, ThreadType
  <2> QED
    BY <1>0, <2>2, <2>3 DEF Types
<1>2. CASE Push
  <2>1. ObjectType'
    BY <1>2, PushEffect DEF Types, ObjectType
  <2>2. ThreadType'
    BY <1>2, PushEffect DEF Types, ThreadType
  <2> QED
    BY <1>0, <2>1, <2>2 DEF Types
<1>3. CASE Renew
  BY <1>0, <1>3, RenewEffect DEF Types, ObjectType, ThreadType
<1>4. ASSUME NEW w \in Worker, Take(w) PROVE Types'
  <2>1. queue[1] \in Object
    BY <1>4, TakeEffect
  <2>2. queue[1] \in 0..NObjects /\ queue[1] # 0
    BY <2>1, ObjectIsRank
  <2>3. ObjectType'
    BY <1>4, TakeEffect DEF Types, ObjectType
  <2>4. ThreadType'
    BY <1>4, <2>2, TakeEffect DEF Types, ThreadType, Stage
  <2> QED
    BY <1>0, <2>3, <2>4 DEF Types
<1>5. ASSUME NEW w \in Worker, EnterInit(w) \/ LeaveInit(w) \/ Hang(w) PROVE Types'
  BY <1>0, <1>5 DEF EnterInit, LeaveInit, Hang, loopVars, historyVars,
                   Types, ObjectType, ThreadType, Stage
<1>6. ASSUME NEW w \in Worker, Post(w) PROVE Types'
  <2>1. posts' \in [Object -> Nat]
    BY <1>6, CountUp DEF Post, Types, ObjectType
  <2>2. DOMAIN body' = Object
    BY <1>6 DEF Post, Types, ObjectType
  <2>3. ThreadType'
    BY <1>6 DEF Post, Types, ThreadType, Stage
  <2> QED
    BY <1>0, <1>6, <2>1, <2>2, <2>3 DEF Post, loopVars, Types, ObjectType
<1>7. ASSUME NEW w \in Worker, Free(w) PROVE Types'
  <2>1. freed' \in [Object -> Nat]
    BY <1>7, CountUp DEF Free, Types, ObjectType
  <2>2. ThreadType'
    BY <1>7, ObjectIsRank DEF Free, Types, ThreadType, Stage
  <2> QED
    BY <1>0, <1>7, <2>1, <2>2 DEF Free, loopVars, Types, ObjectType
<1>8. ASSUME NEW w \in Worker, Drop(w) PROVE Types'
  <2>1. job[w] \in Object
    BY <1>8, HeldIsObject DEF Drop
  <2>2. ObjectType'
    BY <1>8, <2>1 DEF Drop, loopVars, Types, ObjectType
  <2>3. ThreadType'
    BY <1>8 DEF Drop, Types, ThreadType, Stage
  <2> QED
    BY <1>0, <2>2, <2>3 DEF Types
<1>9. CASE UNCHANGED vars
  BY <1>0, <1>9 DEF vars, loopVars, historyVars, Types, ObjectType, ThreadType
<1> QED
  BY <1>1, <1>2, <1>3, <1>4, <1>5, <1>6, <1>7, <1>8, <1>9 DEF Next, HandOver, Run, Done

LEMMA QueueIsRanks ==
    ASSUME Types
    PROVE  /\ Len(queue) \in Nat /\ Given \in Nat
           /\ \A k \in 1..Len(queue) : queue[k] \in Nat /\ queue[k] # 0
           /\ \A w \in Worker : job[w] \in Nat
<1>1. \A k \in 1..Len(queue) : queue[k] \in Object
  BY ElementOfSeq DEF Types, ObjectType
<1>2. \A w \in Worker : job[w] \in 0..NObjects
  BY DEF Types, ThreadType
<1>3. Len(queue) \in Nat /\ Len(received) \in Nat
  BY DEF Types, ObjectType
<1>4. Given \in Nat
  BY <1>3 DEF Types, LoopInv, Given
<1> QED
  BY <1>1, <1>2, <1>3, <1>4, ObjectIsRank

LEMMA ApartNext ==
    Types /\ QueueApart /\ JobsApart /\ [Next]_vars => QueueApart' /\ JobsApart'
<1> SUFFICES ASSUME Types, QueueApart, JobsApart, [Next]_vars
             PROVE  QueueApart' /\ JobsApart'
  OBVIOUS
<1>0. /\ Len(queue) \in Nat /\ Given \in Nat
      /\ \A k \in 1..Len(queue) : queue[k] \in Nat /\ queue[k] # 0
      /\ \A w \in Worker : job[w] \in Nat
  BY QueueIsRanks
<1>1. CASE Push
  <2>1. PICK n \in Nat, m \in Nat :
          /\ n = Given /\ m = Len(queue)
          /\ Given' = n + 1 /\ Len(queue') = m + 1
          /\ \A k \in 1..m : queue'[k] = queue[k]
          /\ queue'[m + 1] = n + 1 /\ job' = job
    BY <1>1, PushEffect
  <2>2. \A k \in 1..m : queue'[k] \in Nat /\ queue'[k] <= n
    BY <1>0, <2>1 DEF QueueApart
  <2>3. \A w \in Worker : job[w] \in Nat /\ job[w] <= n
    BY <1>0, <2>1 DEF JobsApart
  <2>4. \A k \in 1..(m + 1) : k \in 1..m \/ k = m + 1
    OBVIOUS
  <2>5. \A j \in 1..(m + 1) : queue'[j] <= n + 1
    BY <2>1, <2>2, <2>4
  <2>6. \A j, k \in 1..(m + 1) : queue'[j] = queue'[k] => j = k
    <3>1. \A j, k \in 1..m : queue'[j] = queue'[k] => j = k
      BY <2>1 DEF QueueApart
    <3>2. \A j \in 1..m : queue'[j] # n + 1
      BY <2>2
    <3> QED
      BY <2>1, <2>4, <3>1, <3>2
  <2>7. \A j \in 1..(m + 1), w \in Worker : queue'[j] # job'[w]
    BY <2>1, <2>3, <2>4 DEF QueueApart
  <2>8. QueueApart'
    BY <2>1, <2>5, <2>6, <2>7 DEF QueueApart
  <2>9. JobsApart'
    BY <2>1, <2>3 DEF JobsApart
  <2> QED
    BY <2>8, <2>9
<1>2. ASSUME NEW w \in Worker, Take(w) PROVE QueueApart' /\ JobsApart'
  <2>1. PICK m \in Nat :
          /\ m + 1 = Len(queue) /\ Len(queue') = m
          /\ \A k \in 1..m : queue'[k] = queue[k + 1]
          /\ job' = [job EXCEPT ![w] = queue[1]] /\ Given' = Given
    BY <1>2, TakeEffect
  <2>2. \A k \in 1..m : k + 1 \in 1..(m + 1) /\ k + 1 # 1
    OBVIOUS
  <2>3. 1 \in 1..(m + 1)
    OBVIOUS
  <2>4. \A v \in Worker : job'[v] = IF v = w THEN queue[1] ELSE job[v]
    BY <2>1 DEF Types, ThreadType
  <2>5. \A j \in 1..m : queue'[j] <= Given
    BY <2>1, <2>2 DEF QueueApart
  <2>6. \A j, k \in 1..m : queue'[j] = queue'[k] => j = k
    <3> SUFFICES ASSUME NEW j \in 1..m, NEW k \in 1..m, queue[j + 1] = queue[k + 1]
                 PROVE  j = k
      BY <2>1
    <3>1. j + 1 = k + 1
      BY <2>1, <2>2 DEF QueueApart
    <3> QED
      BY <3>1
  <2>7. \A j \in 1..m, v \in Worker : queue'[j] # job'[v]
    <3> SUFFICES ASSUME NEW j \in 1..m, NEW v \in Worker PROVE queue[j + 1] # job'[v]
      BY <2>1
    <3>1. queue[j + 1] # queue[1] /\ queue[j + 1] # job[v]
      BY <2>1, <2>2, <2>3 DEF QueueApart
    <3> QED
      BY <2>4, <3>1
  <2>8. QueueApart'
    BY <2>1, <2>5, <2>6, <2>7 DEF QueueApart
  <2>9. \A v \in Worker : job'[v] <= Given
    BY <2>1, <2>3, <2>4 DEF QueueApart, JobsApart
  <2>10. \A u, v \in Worker : job'[u] = job'[v] /\ job'[u] # 0 => u = v
    <3>1. \A v \in Worker : job[v] # queue[1]
      BY <2>1, <2>3 DEF QueueApart
    <3> QED
      BY <2>4, <3>1 DEF JobsApart
  <2> QED
    BY <2>1, <2>8, <2>9, <2>10 DEF JobsApart
<1>3. ASSUME NEW w \in Worker, Free(w) PROVE QueueApart' /\ JobsApart'
  <2>1. \A v \in Worker : job'[v] = IF v = w THEN 0 ELSE job[v]
    BY <1>3 DEF Free, Types, ThreadType
  <2>2. queue' = queue /\ Given' = Given
    BY <1>3, LoopStays DEF Free, Run
  <2>3. QueueApart'
    BY <1>0, <2>1, <2>2 DEF QueueApart
  <2>4. \A v \in Worker : job'[v] <= Given'
    BY <1>0, <2>1, <2>2 DEF JobsApart
  <2> QED
    BY <2>1, <2>3, <2>4 DEF JobsApart
<1>4. CASE UNCHANGED <<queue, job>> /\ Given' = Given
  BY <1>4 DEF QueueApart, JobsApart
<1>5. CASE Receive
  BY <1>4, <1>5, ReceiveEffect
<1>6. CASE Renew
  BY <1>4, <1>6, RenewEffect
<1>7. ASSUME NEW w \in Worker, EnterInit(w) \/ LeaveInit(w) \/ Post(w) \/ Drop(w) \/ Hang(w)
      PROVE  UNCHANGED <<queue, job>> /\ Given' = Given
  BY <1>7, LoopStays DEF EnterInit, LeaveInit, Post, Drop, Hang, Run
<1>8. CASE UNCHANGED vars
  BY <1>4, <1>8, LoopStays DEF vars
<1> QED
  BY <1>1, <1>2, <1>3, <1>4, <1>5, <1>6, <1>7, <1>8 DEF Next, HandOver, Run, Done


(* Where each thread and the queue are after a step, for the three          *)
(* invariants about the life of an object.                                  *)
LEMMA GoneNext ==
    Types /\ QueueApart /\ JobsApart /\ FreedIsGone /\ [Next]_vars => FreedIsGone'
<1> SUFFICES ASSUME Types, QueueApart, JobsApart, FreedIsGone, [Next]_vars
             PROVE  FreedIsGone'
  OBVIOUS
<1>0. /\ Len(queue) \in Nat /\ Given \in Nat
      /\ \A k \in 1..Len(queue) : queue[k] \in Nat /\ queue[k] # 0
      /\ \A w \in Worker : job[w] \in Nat
  BY QueueIsRanks
<1>1. CASE Push
  <2>1. PICK n \in Nat, m \in Nat :
          /\ n = Given /\ m = Len(queue)
          /\ Given' = n + 1 /\ Len(queue') = m + 1
          /\ \A k \in 1..m : queue'[k] = queue[k]
          /\ queue'[m + 1] = n + 1 /\ job' = job /\ freed' = freed
    BY <1>1, PushEffect
  <2>2. \A k \in 1..(m + 1) : k \in 1..m \/ k = m + 1
    OBVIOUS
  <2>3. 1..m \subseteq 1..(m + 1) /\ m + 1 \in 1..(m + 1)
    OBVIOUS
  <2>4. \A o \in Object : Queued(o)' <=> (Queued(o) \/ o = n + 1)
    BY <2>1, <2>2, <2>3 DEF Queued
  <2>5. \A o \in Object : Held(o)' <=> Held(o)
    BY <2>1 DEF Held
  <2>6. \A o \in Object : o \in Nat
    BY ObjectIsRank
  <2> QED
    BY <2>1, <2>4, <2>5, <2>6 DEF FreedIsGone
<1>2. ASSUME NEW w \in Worker, Take(w) PROVE FreedIsGone'
  <2>1. PICK m \in Nat :
          /\ m + 1 = Len(queue) /\ Len(queue') = m
          /\ \A k \in 1..m : queue'[k] = queue[k + 1]
          /\ job' = [job EXCEPT ![w] = queue[1]] /\ Given' = Given
          /\ pc[w] = "idle" /\ freed' = freed
    BY <1>2, TakeEffect
  <2>2. \A k \in 1..m : k + 1 \in 1..(m + 1)
    OBVIOUS
  <2>3. 1 \in 1..(m + 1) /\ \A k \in 1..(m + 1) : k = 1 \/ k - 1 \in 1..m
    OBVIOUS
  <2>4. job[w] = 0 /\ \A v \in Worker : job'[v] = IF v = w THEN queue[1] ELSE job[v]
    BY <2>1 DEF Types, ThreadType
  <2>5. \A o \in Object : Queued(o) <=> (Queued(o)' \/ o = queue[1])
    <3> SUFFICES ASSUME NEW o \in Object
                 PROVE  Queued(o) <=> (Queued(o)' \/ o = queue[1])
      OBVIOUS
    <3>1. ASSUME NEW k \in 1..(m + 1), queue[k] = o
          PROVE  o = queue[1] \/ \E i \in 1..m : queue'[i] = o
      <4>1. CASE k = 1
        BY <3>1, <4>1
      <4>2. CASE k - 1 \in 1..m
        <5>1. queue'[k - 1] = queue[(k - 1) + 1] /\ (k - 1) + 1 = k
          BY <2>1, <4>2
        <5> QED
          BY <3>1, <4>2, <5>1
      <4> QED
        BY <2>3, <4>1, <4>2
    <3>2. ASSUME NEW k \in 1..m, queue'[k] = o
          PROVE  \E i \in 1..(m + 1) : queue[i] = o
      BY <2>1, <2>2, <3>2
    <3> QED
      BY <2>1, <2>3, <3>1, <3>2 DEF Queued
  <2>6. \A o \in Object : Held(o)' <=> (Held(o) \/ o = queue[1])
    BY <2>4, ObjectIsRank DEF Held
  <2>7. \A o \in Object : (Queued(o) \/ Held(o)) <=> (Queued(o) \/ Held(o))'
    BY <2>5, <2>6
  <2> QED
    BY <2>1, <2>7 DEF FreedIsGone
<1>3. ASSUME NEW w \in Worker, Free(w) PROVE FreedIsGone'
  <2>1. /\ queue' = queue /\ Given' = Given
        /\ pc[w] # "idle" /\ freed' = [freed EXCEPT ![job[w]] = @ + 1]
        /\ \A v \in Worker : job'[v] = IF v = w THEN 0 ELSE job[v]
    BY <1>3, LoopStays DEF Free, Run, Types, ThreadType
  <2>2. job[w] \in Object
    BY <2>1, HeldIsObject
  <2>3. PICK a \in Object : a = job[w]
    BY <2>2
  <2>4. a <= Given /\ Held(a) /\ ~Queued(a) /\ ~Held(a)'
    <3>1. a <= Given /\ Held(a)
      BY <2>3 DEF JobsApart, Held
    <3>2. ~Queued(a)
      BY <2>3 DEF QueueApart, Queued
    <3>3. ~Held(a)'
      BY <2>1, <2>3, ObjectIsRank DEF JobsApart, Held
    <3> QED
      BY <3>1, <3>2, <3>3
  <2>5. \A o \in Object : Queued(o)' <=> Queued(o)
    BY <2>1 DEF Queued
  <2>6. \A o \in Object : o # a => (Held(o)' <=> Held(o))
    BY <2>1, <2>3, ObjectIsRank DEF Held
  <2>7. freed[a] = 0
    BY <2>4 DEF FreedIsGone
  <2>8. \A o \in Object : freed'[o] = IF o = a THEN 1 ELSE freed[o]
    BY <2>1, <2>3, <2>7 DEF Types, ObjectType
  <2>9. ASSUME NEW o \in Object
        PROVE  /\ o <= Given' /\ ~Queued(o)' /\ ~Held(o)' => freed'[o] = 1
               /\ o > Given' \/ Queued(o)' \/ Held(o)' => freed'[o] = 0
    <3>1. CASE o = a
      <4>1. ~(a > Given)
        BY <1>0, <2>4, ObjectIsRank
      <4> QED
        BY <2>1, <2>4, <2>5, <2>8, <3>1, <4>1
    <3>2. CASE o # a
      BY <2>1, <2>5, <2>6, <2>8, <3>2 DEF FreedIsGone
    <3> QED
      BY <3>1, <3>2
  <2> QED
    BY <2>9 DEF FreedIsGone
<1>4. CASE UNCHANGED <<queue, job, freed>> /\ Given' = Given
  BY <1>4 DEF FreedIsGone, Queued, Held
<1>5. CASE Receive
  BY <1>4, <1>5, ReceiveEffect
<1>6. CASE Renew
  BY <1>4, <1>6, RenewEffect
<1>7. ASSUME NEW w \in Worker, EnterInit(w) \/ LeaveInit(w) \/ Post(w) \/ Drop(w) \/ Hang(w)
      PROVE  UNCHANGED <<queue, job, freed>> /\ Given' = Given
  BY <1>7, LoopStays DEF EnterInit, LeaveInit, Post, Drop, Hang, Run, historyVars
<1>8. CASE UNCHANGED vars
  BY <1>4, <1>8, LoopStays DEF vars, historyVars
<1> QED
  BY <1>1, <1>2, <1>3, <1>4, <1>5, <1>6, <1>7, <1>8 DEF Next, HandOver, Run, Done

LEMMA PostedNext ==
    Types /\ JobsApart /\ FreedIsGone /\ PostedIsPast /\ [Next]_vars => PostedIsPast'
<1> SUFFICES ASSUME Types, JobsApart, FreedIsGone, PostedIsPast, [Next]_vars
             PROVE  PostedIsPast'
  OBVIOUS
<1>0. dropped \subseteq Object
  BY DEF Types, ObjectType
<1>1. ASSUME UNCHANGED <<posts, freed, dropped>>, \A o \in Object : Through(o)' <=> Through(o)
      PROVE  PostedIsPast'
  BY <1>0, <1>1 DEF PostedIsPast
<1>2. CASE UNCHANGED <<posts, freed, dropped, job, pc>>
  BY <1>1, <1>2 DEF Through
<1>3. CASE Receive \/ Push \/ Renew
  BY <1>2, <1>3, ReceiveEffect, PushEffect, RenewEffect
<1>4. ASSUME NEW w \in Worker, Take(w) \/ EnterInit(w) \/ LeaveInit(w) PROVE PostedIsPast'
  <2>1. /\ pc[w] \notin {"answer", "free"} /\ pc'[w] \notin {"answer", "free"}
        /\ \A v \in Worker : v # w => job'[v] = job[v] /\ pc'[v] = pc[v]
    BY <1>4 DEF Take, EnterInit, LeaveInit, Types, ThreadType
  <2>2. UNCHANGED <<posts, freed, dropped>>
    BY <1>4 DEF Take, EnterInit, LeaveInit, historyVars
  <2> QED
    BY <1>1, <2>1, <2>2 DEF Through
<1>5. ASSUME NEW w \in Worker, pc[w] = "post"
      PROVE  job[w] \in Object /\ freed[job[w]] = 0 /\ ~Through(job[w]) /\ job[w] \notin dropped
  <2>1. PICK a \in Object : a = job[w]
    BY <1>5, HeldIsObject
  <2>2. freed[a] = 0
    BY <2>1 DEF FreedIsGone, Held
  <2>3. ~Through(a)
    BY <1>5, <2>1, ObjectIsRank DEF Through, JobsApart
  <2>4. a \notin dropped
    BY <2>2, <2>3 DEF PostedIsPast
  <2> QED
    BY <2>1, <2>2, <2>3, <2>4
<1>6. ASSUME NEW w \in Worker, Post(w) PROVE PostedIsPast'
  <2>1. /\ pc[w] = "post" /\ freed' = freed /\ dropped' = dropped /\ job' = job
        /\ posts' = [posts EXCEPT ![job[w]] = @ + 1]
        /\ \A v \in Worker : pc'[v] = IF v = w THEN "answer" ELSE pc[v]
    BY <1>6 DEF Post, Types, ThreadType
  <2>2. PICK a \in Object : a = job[w] /\ freed[a] = 0 /\ ~Through(a) /\ a \notin dropped
    BY <1>5, <2>1
  <2>3. \A o \in Object : Through(o)' <=> (Through(o) \/ o = a)
    BY <2>1, <2>2 DEF Through
  <2>4. \A o \in Object : posts'[o] = IF o = a THEN 1 ELSE posts[o]
    <3>1. posts \in [Object -> Nat] /\ posts[a] = 0
      BY <2>2 DEF PostedIsPast, Types, ObjectType
    <3>2. posts' = [posts EXCEPT ![a] = @ + 1]
      BY <2>1, <2>2
    <3> QED
      BY <3>1, <3>2
  <2>5. \A o \in Object :
          posts'[o] = IF o \notin dropped' /\ (freed'[o] = 1 \/ Through(o)') THEN 1 ELSE 0
    BY <2>1, <2>2, <2>3, <2>4 DEF PostedIsPast
  <2>6. \A o \in dropped' : freed'[o] = 1 \/ Through(o)'
    BY <1>0, <2>1, <2>3 DEF PostedIsPast
  <2> QED
    BY <2>5, <2>6 DEF PostedIsPast
<1>7. ASSUME NEW w \in Worker, Drop(w) PROVE PostedIsPast'
  <2>1. /\ pc[w] = "post" /\ freed' = freed /\ posts' = posts /\ job' = job
        /\ dropped' = dropped \cup {job[w]}
        /\ \A v \in Worker : pc'[v] = IF v = w THEN "free" ELSE pc[v]
    BY <1>7 DEF Drop, Types, ThreadType
  <2>2. PICK a \in Object : a = job[w] /\ freed[a] = 0 /\ ~Through(a) /\ a \notin dropped
    BY <1>5, <2>1
  <2>3. \A o \in Object : Through(o)' <=> (Through(o) \/ o = a)
    BY <2>1, <2>2 DEF Through
  <2>4. posts[a] = 0
    BY <2>2 DEF PostedIsPast
  <2>5. \A o \in Object :
          posts'[o] = IF o \notin dropped' /\ (freed'[o] = 1 \/ Through(o)') THEN 1 ELSE 0
    BY <2>1, <2>2, <2>3, <2>4 DEF PostedIsPast
  <2>6. \A o \in dropped' : freed'[o] = 1 \/ Through(o)'
    BY <1>0, <2>1, <2>2, <2>3 DEF PostedIsPast
  <2> QED
    BY <2>5, <2>6 DEF PostedIsPast
<1>8. ASSUME NEW w \in Worker, Free(w) PROVE PostedIsPast'
  <2>1. /\ pc[w] \in {"answer", "free"} /\ posts' = posts /\ dropped' = dropped
        /\ freed' = [freed EXCEPT ![job[w]] = @ + 1]
        /\ \A v \in Worker : job'[v] = IF v = w THEN 0 ELSE job[v]
        /\ \A v \in Worker : pc'[v] = IF v = w THEN "idle" ELSE pc[v]
    BY <1>8 DEF Free, Types, ThreadType
  <2>2. PICK a \in Object : a = job[w]
    BY <2>1, HeldIsObject
  <2>3. freed[a] = 0 /\ Through(a)
    BY <2>1, <2>2 DEF FreedIsGone, Held, Through
  <2>4. \A o \in Object : o # a => (Through(o)' <=> Through(o))
    BY <2>1, <2>2 DEF Through
  <2>5. \A o \in Object : freed'[o] = IF o = a THEN 1 ELSE freed[o]
    BY <2>1, <2>2, <2>3 DEF Types, ObjectType
  <2>6. \A o \in Object :
          posts'[o] = IF o \notin dropped' /\ (freed'[o] = 1 \/ Through(o)') THEN 1 ELSE 0
    BY <2>1, <2>3, <2>4, <2>5 DEF PostedIsPast
  <2>7. \A o \in dropped' : freed'[o] = 1 \/ Through(o)'
    BY <1>0, <2>1, <2>4, <2>5 DEF PostedIsPast
  <2> QED
    BY <2>6, <2>7 DEF PostedIsPast
<1>9. CASE Done \/ UNCHANGED vars \/ \E w \in Worker : Hang(w)
  BY <1>2, <1>9 DEF Done, vars, Hang, historyVars
<1> QED
  BY <1>3, <1>4, <1>6, <1>7, <1>8, <1>9 DEF Next, HandOver, Run

LEMMA UrlNext == Types /\ UrlInv /\ [Next]_vars => UrlInv'
<1> SUFFICES ASSUME Types, UrlInv, [Next]_vars PROVE UrlInv'
  OBVIOUS
<1>1. CASE UNCHANGED <<url, builder, pc, posts>>
  BY <1>1 DEF UrlInv
<1>2. ASSUME NEW w \in Worker, Take(w) \/ Free(w) PROVE UrlInv'
  BY <1>2 DEF Take, Free, historyVars, UrlInv, Types, ThreadType
<1>3. ASSUME NEW w \in Worker, EnterInit(w) PROVE UrlInv'
  BY <1>3 DEF EnterInit, historyVars, UrlInv, Types, ThreadType
<1>4. ASSUME NEW w \in Worker, LeaveInit(w) PROVE UrlInv'
  BY <1>4 DEF LeaveInit, historyVars, UrlInv, Types, ThreadType
<1>5. ASSUME NEW w \in Worker, Post(w) \/ Drop(w) PROVE UrlInv'
  BY <1>5 DEF Post, Drop, UrlInv, Types, ThreadType
<1>6. CASE Receive \/ Push \/ Renew
  BY <1>1, <1>6, ReceiveEffect, PushEffect, RenewEffect
<1>7. CASE Done \/ UNCHANGED vars \/ \E w \in Worker : Hang(w)
  BY <1>1, <1>7 DEF Done, vars, Hang, historyVars
<1> QED
  BY <1>2, <1>3, <1>4, <1>5, <1>6, <1>7 DEF Next, HandOver, Run

LEMMA PoolInvInit == Init => PoolInv
<1> SUFFICES ASSUME Init PROVE PoolInv
  OBVIOUS
<1>1. Len(received) = 0 /\ Len(queue) = 0 /\ \A w \in Worker : job[w] = 0
  BY DEF Init
<1>2. Types
  BY <1>1, ObjectIsRank DEF Init, Types, ObjectType, ThreadType, LoopInv, Stage
<1>6. Given = 0
  BY <1>1 DEF Init, Given
<1>3. QueueApart /\ JobsApart
  BY <1>1, <1>6 DEF QueueApart, JobsApart
<1>4. FreedIsGone
  <2>1. \A o \in Object : ~(o <= 0) /\ freed[o] = 0
    BY DEF Init, Object
  <2> QED
    BY <1>1, <1>6, <2>1 DEF FreedIsGone
<1>5. PostedIsPast /\ UrlInv
  BY DEF Init, PostedIsPast, Through, UrlInv
<1> QED
  BY <1>2, <1>3, <1>4, <1>5 DEF PoolInv

(* PoolInv is inductive. *)
THEOREM Invariance == Spec => []PoolInv
<1>1. PoolInv /\ [Next]_vars => PoolInv'
  BY TypesNext, ApartNext, GoneNext, PostedNext, UrlNext DEF PoolInv
<1> QED
  BY PoolInvInit, <1>1, PTL DEF Spec

(* Every variable keeps its type, and a thread has an object when it runs. *)
THEOREM TypeCorrect == Spec => []TypeOK
<1>1. PoolInv => TypeOK
  BY ObjectIsRank DEF PoolInv, Types, ObjectType, ThreadType, LoopInv, Stage, TypeOK
<1> QED
  BY Invariance, <1>1, PTL

(* The places an object is in: at most one in the queue, at most one thread. *)
LEMMA AtMostOne ==
    ASSUME NEW S, \A x, y \in S : x = y
    PROVE  Cardinality(S) = IF S = {} THEN 0 ELSE 1
<1>1. CASE S = {}
  BY <1>1, FS_EmptySet
<1>2. ASSUME NEW x \in S PROVE Cardinality(S) = 1
  <2>1. S = {x}
    BY <1>2
  <2> QED
    BY <2>1, FS_Singleton
<1> QED
  BY <1>1, <1>2

(* However the loop and the threads interleave, an object that was received *)
(* is with the loop until it is pushed, then in the queue, with one thread  *)
(* or freed once, and in one of these places only; when the loop reads      *)
(* again, it has none that it pushed (client_cb, worker_parser).            *)
THEOREM OneOwnerAlways == Spec => []OneOwner
<1>1. ASSUME PoolInv PROVE OneOwner
  <2> SUFFICES ASSUME NEW o \in 1..Len(received)
               PROVE  (IF source = o /\ loop # "renew" THEN 1 ELSE 0)
                        + Cardinality({k \in 1..Len(queue) : queue[k] = o})
                        + Cardinality({w \in Worker : job[w] = o}) + freed[o] = 1
    BY DEF OneOwner
  <2> DEFINE Q == {k \in 1..Len(queue) : queue[k] = o}
             W == {w \in Worker : job[w] = o}
             Mine == IF source = o /\ loop # "renew" THEN 1 ELSE 0
  <2>1. o \in Object /\ o <= Len(received) /\ o # 0
    BY <1>1, ObjectIsRank DEF PoolInv, Types, ObjectType, Object
  <2>2. Cardinality(Q) = IF Q = {} THEN 0 ELSE 1
    <3>1. \A j, k \in Q : j = k
      BY <1>1 DEF PoolInv, QueueApart
    <3> HIDE DEF Q
    <3> QED
      BY <3>1, AtMostOne
  <2>3. Cardinality(W) = IF W = {} THEN 0 ELSE 1
    <3>1. \A v, w \in W : v = w
      BY <1>1, <2>1 DEF PoolInv, JobsApart
    <3> HIDE DEF W
    <3> QED
      BY <3>1, AtMostOne
  <2>4. Q = {} <=> ~Queued(o)
    BY DEF Queued
  <2>5. W = {} <=> ~Held(o)
    BY DEF Held
  <2>6. ~(Queued(o) /\ Held(o))
    BY <1>1 DEF PoolInv, QueueApart, Queued, Held
  <2>9. PICK l \in Nat : l = Len(received) /\ o \in 1..l
    BY <1>1 DEF PoolInv, Types, ObjectType
  <2> HIDE DEF Q, W
  <2>10. ASSUME loop = "push" /\ o = l
         PROVE  Mine + Cardinality(Q) + Cardinality(W) + freed[o] = 1
    <3>1. Given = l - 1 /\ source = o
      BY <1>1, <2>9, <2>10 DEF Given, PoolInv, Types, LoopInv
    <3>2. ~Queued(o) /\ ~Held(o)
      BY <1>1, <2>9, <2>10, <3>1, QueueIsRanks
      DEF PoolInv, QueueApart, JobsApart, Queued, Held
    <3>3. o > Given
      BY <2>9, <2>10, <3>1
    <3>4. freed[o] = 0
      BY <1>1, <2>1, <3>3 DEF PoolInv, FreedIsGone
    <3> QED
      BY <2>2, <2>3, <2>4, <2>5, <2>10, <3>1, <3>2, <3>4
  <2>11. ASSUME ~(loop = "push" /\ o = l)
         PROVE  Mine + Cardinality(Q) + Cardinality(W) + freed[o] = 1
    <3>1. ~(source = o /\ loop # "renew")
      BY <1>1, <2>1, <2>9, <2>11 DEF PoolInv, Types, LoopInv
    <3>2. o <= Given
      BY <2>9, <2>11 DEF Given
    <3>3. freed[o] = IF Queued(o) \/ Held(o) THEN 0 ELSE 1
      BY <1>1, <2>1, <3>2 DEF PoolInv, FreedIsGone
    <3> QED
      BY <2>2, <2>3, <2>4, <2>5, <2>6, <3>1, <3>3
  <2>8. Mine + Cardinality(Q) + Cardinality(W) + freed[o] = 1
    BY <2>10, <2>11
  <2> QED
    BY <2>8 DEF Q, W
<1> QED
  BY Invariance, <1>1, PTL

(* Whatever the threads do, an object is posted once before it is freed,    *)
(* but when libcurl has no handle for it, and never again, to a URL that is *)
(* complete and that one thread has built (worker_parser).                  *)
THEOREM PostedOnceThenFreedAlways == Spec => []PostedOnceThenFreed
<1>1. ASSUME PoolInv PROVE PostedOnceThenFreed
  <2>1. \A o \in Object : freed[o] \in {0, 1}
    <3>1. Given \in Nat /\ \A o \in Object : o <= Given \/ o > Given
      BY <1>1, QueueIsRanks, ObjectIsRank DEF PoolInv
    <3> QED
      BY <1>1, <3>1 DEF PoolInv, FreedIsGone
  <2>2. \A o \in Object :
          LET sent == posts[o] + (IF o \in dropped THEN 1 ELSE 0)
          IN  sent <= 1 /\ freed[o] <= sent
    BY <1>1, <2>1 DEF PoolInv, PostedIsPast
  <2> QED
    BY <1>1, <2>2 DEF PoolInv, UrlInv, PostedOnceThenFreed
<1> QED
  BY Invariance, <1>1, PTL


(* A set of natural numbers that is not empty has a least element. *)
LEMMA LeastNumber ==
    ASSUME NEW T \in SUBSET Nat, T # {}
    PROVE  \E x \in T : \A y \in T : x <= y
<1> DEFINE Less == {p \in Nat \X Nat : p[1] < p[2]}
<1>1. IsWellFoundedOn(Less, Nat)
  BY NatLessThanWellFounded DEF OpToRel
<1>2. PICK x \in T : \A y \in T : <<y, x>> \notin Less
  BY <1>1, WFMin
<1>3. SUFFICES ASSUME NEW y \in T PROVE x <= y
  BY <1>2
<1>4. <<y, x>> \notin Less
  BY <1>2
<1>5. <<y, x>> \in Less <=> y < x
  OBVIOUS
<1> QED
  BY <1>4, <1>5

(* A set with 0, and with n + 1 when it has n, has every number. *)
LEMMA Induction ==
    ASSUME NEW S, 0 \in S, \A n \in Nat : n \in S => n + 1 \in S
    PROVE  Nat \subseteq S
<1>1. SUFFICES ASSUME Nat \ S # {} PROVE FALSE
  OBVIOUS
<1>2. PICK x \in Nat \ S : \A y \in Nat \ S : x <= y
  BY <1>1, LeastNumber
<1>3. x # 0 /\ x - 1 \in Nat /\ ~(x <= x - 1)
  BY <1>2
<1>4. x - 1 \in S
  BY <1>2, <1>3
<1> QED
  BY <1>2, <1>3, <1>4

(* A loop of N steps, each a function of what the one before computed. *)
LEMMA Recursion ==
    ASSUME NEW V, NEW v \in V, NEW N \in Nat, NEW step \in [1..N -> [V -> V]]
    PROVE  \E f \in [0..N -> V] : f[0] = v /\ \A n \in 1..N : f[n] = step[n][f[n - 1]]
<1> DEFINE Upto(m, f) == /\ f \in [0..m -> V] /\ f[0] = v
                         /\ \A n \in 1..m : f[n] = step[n][f[n - 1]]
           Reached == {m \in Nat : m <= N => \E f : Upto(m, f)}
<1>1. 0 \in Reached
  <2>1. Upto(0, [n \in 0..0 |-> v])
    OBVIOUS
  <2> QED
    BY <2>1
<1>2. ASSUME NEW m \in Nat, m \in Reached PROVE m + 1 \in Reached
  <2>1. SUFFICES ASSUME m + 1 <= N PROVE \E f : Upto(m + 1, f)
    OBVIOUS
  <2>2. PICK f : Upto(m, f)
    BY <1>2, <2>1
  <2> DEFINE g == [n \in 0..(m + 1) |-> IF n = m + 1 THEN step[m + 1][f[m]] ELSE f[n]]
  <2>3. f[m] \in V /\ m + 1 \in 1..N
    BY <2>1, <2>2
  <2>4. g \in [0..(m + 1) -> V] /\ g[0] = v
    BY <2>2, <2>3
  <2>5. ASSUME NEW n \in 1..(m + 1) PROVE g[n] = step[n][g[n - 1]]
    <3>1. CASE n = m + 1
      BY <3>1
    <3>2. CASE n # m + 1
      BY <3>2, <2>2
    <3> QED
      BY <3>1, <3>2
  <2>6. Upto(m + 1, g)
    BY <2>4, <2>5
  <2> QED
    BY <2>6
<1> HIDE DEF Reached
<1>3. N \in Reached
  BY <1>1, <1>2, Induction
<1> QED
  BY <1>3 DEF Reached

(* Two loops that start alike and do alike. *)
LEMMA SameLoop ==
    ASSUME NEW L \in Nat, L >= 1, NEW f, NEW g, f[1] = g[1],
           \A i \in 2..L : f[i - 1] = g[i - 1] => f[i] = g[i]
    PROVE  \A i \in 1..L : f[i] = g[i]
<1> DEFINE S == {m \in Nat : m + 1 <= L => f[m + 1] = g[m + 1]}
<1>1. 0 \in S
  OBVIOUS
<1>2. ASSUME NEW m \in Nat, m \in S PROVE m + 1 \in S
  <2>1. SUFFICES ASSUME m + 2 <= L PROVE f[(m + 1) + 1] = g[(m + 1) + 1]
    OBVIOUS
  <2>2. PICK i \in 2..L : i = m + 2 /\ (m + 1) + 1 = i /\ m + 1 = i - 1
    BY <2>1
  <2>3. f[m + 1] = g[m + 1]
    BY <1>2, <2>1
  <2> QED
    BY <2>2, <2>3
<1> HIDE DEF S
<1>3. Nat \subseteq S
  BY <1>1, <1>2, Induction
<1>4. ASSUME NEW i \in 1..L PROVE f[i] = g[i]
  <2>1. PICK m \in Nat : m = i - 1 /\ m + 1 = i /\ m + 1 <= L
    OBVIOUS
  <2>2. m \in S
    BY <1>3
  <2> QED
    BY <2>1, <2>2 DEF S
<1> QED
  BY <1>4

(* The greatest of some places. *)
LEMMA GreatestPlace ==
    ASSUME NEW L \in Nat, NEW S \in SUBSET (1..L), S # {}
    PROVE  Max(S) \in S /\ \A x \in S : x <= Max(S)
<1> DEFINE T == {n \in Nat : \E x \in S : n = L - x}
<1>1. T # {} /\ T \in SUBSET Nat
  <2>1. PICK x \in S : x \in 1..L
    OBVIOUS
  <2>2. L - x \in Nat
    BY <2>1
  <2> QED
    BY <2>2
<1>2. PICK n \in T : \A y \in T : n <= y
  <2> HIDE DEF T
  <2> QED
    BY <1>1, LeastNumber
<1>3. PICK x \in S : n = L - x /\ x \in 1..L
  BY <1>2
<1>4. ASSUME NEW y \in S PROVE x >= y
  <2>1. y \in 1..L /\ L - y \in T
    OBVIOUS
  <2>2. n <= L - y
    BY <1>2, <2>1
  <2> QED
    BY <1>3, <2>1, <2>2
<1>5. Max(S) \in S /\ \A y \in S : Max(S) >= y
  BY <1>3, <1>4 DEF Max
<1> QED
  BY <1>5

(* The greatest place there is only one of. *)
LEMMA MaxIs ==
    ASSUME NEW L \in Nat, NEW S \in SUBSET (1..L), NEW x \in S, \A y \in S : y <= x
    PROVE  Max(S) = x
<1>1. Max(S) \in S /\ \A y \in S : y <= Max(S)
  BY GreatestPlace
<1>2. Max(S) \in 1..L /\ x \in 1..L
  BY <1>1
<1>3. Max(S) <= x /\ x <= Max(S)
  BY <1>1
<1> HIDE DEF Max
<1> QED
  BY <1>2, <1>3

(* The pair of the last key with one of these names: where its value is. *)
PairOf(list, names) == (Field(list, names) - 1) \div 2

NbPairs(list) == (Len(list) - 1) \div 2

(* A hash whose keys and values are texts. *)
Texts(list) ==
    /\ list \in Seq(Packets) /\ Len(list) = 2 * NbPairs(list) + 1 /\ NbPairs(list) \in Nat
    /\ \A i \in 2..Len(list) : list[i].type = PacketString
    /\ \A i \in 1..Len(list) :
          Len(list[i].text) \in Nat /\ list[i].escapes \in 0..Len(list[i].text)

(* An object that is one, and has the four fields. *)
TextHash(list) ==
    /\ list \in Objects /\ IsHash(list) /\ Complete(list)
    /\ \A i \in 2..Len(list) : list[i].type = PacketString

LEMMA SampleIsTextHash == ASSUME NEW list \in Sample PROVE TextHash(list) /\ Plain(list)
<1>1. list \in Objects /\ IsHash(list) /\ Complete(list) /\ Plain(list)
  BY DEF Sample
<1>2. \A i \in 2..Len(list) : list[i].type = PacketString
  BY <1>1 DEF Plain
<1> QED
  BY <1>1, <1>2 DEF TextHash

LEMMA TextHashTexts ==
    ASSUME NEW list, TextHash(list) PROVE Texts(list) /\ NbPairs(list) \in Nat \ {0}
<1>1. list \in Objects /\ IsHash(list)
  BY DEF TextHash
<1>2. /\ list \in Seq(Packets) /\ Len(list) \in Nat /\ Len(list) > 1
      /\ Len(list) % 2 = 1
      /\ \A i \in 1..Len(list) :
              Len(list[i].text) \in Nat /\ list[i].escapes \in 0..Len(list[i].text)
  BY <1>1, ObjectAssumption DEF ObjectAssumption, IsHash
<1>5. \A i \in 2..Len(list) : list[i].type = PacketString
  BY DEF TextHash
<1>6. PICK l \in Nat : l = Len(list) /\ l % 2 = 1 /\ l > 1
  BY <1>2
<1>7. PICK n \in Nat : n = (l - 1) \div 2 /\ l = 2 * n + 1 /\ n # 0
  BY <1>6
<1>8. NbPairs(list) = n
  BY <1>6, <1>7 DEF NbPairs
<1> QED
  BY <1>2, <1>5, <1>6, <1>7, <1>8 DEF Texts

(* What SelectLastInSeq finds with the names of the keys. *)
LastPair(pairs, names) ==
    LET found == {j \in 1..Len(pairs) : pairs[j][1] \in names}
    IN  IF found # {} THEN Max(found) ELSE 0

(* Field finds the same pair. *)
LEMMA FieldIsLast ==
    ASSUME NEW list, Texts(list), NEW names, Field(list, names) # 0
    PROVE  \E p \in 1..NbPairs(list) :
             /\ Field(list, names) = 2 * p + 1
             /\ list[2 * p].text \in names
             /\ LastPair(Pairs(list), names) = p
<1> DEFINE n == NbPairs(list)
           keys  == {i \in 2..Len(list) : i % 2 = 0 /\ list[i].type = PacketString}
           found == {i \in keys : list[i].text \in names}
           pairs == {j \in 1..Len(Pairs(list)) : Pairs(list)[j][1] \in names}
<1>1. PICK l \in Nat : l = Len(list) /\ n \in Nat /\ l = 2 * n + 1
  BY DEF Texts
<1>2. Field(list, names) = IF found = {} THEN 0 ELSE Max(found) + 1
  BY DEF Field
<1>3. found # {} /\ Field(list, names) = Max(found) + 1
  BY <1>2
<1>4. found \in SUBSET (1..l)
  BY <1>1
<1>5. Max(found) \in found /\ \A x \in found : x <= Max(found)
  <2> HIDE DEF found
  <2> QED
    BY <1>1, <1>3, <1>4, GreatestPlace
<1>6. PICK m \in 2..l : m = Max(found) /\ m % 2 = 0 /\ list[m].text \in names
  BY <1>1, <1>5
<1>7. PICK p \in 1..n : m = 2 * p
  <2>1. m \in 2..(2 * n + 1) /\ m % 2 = 0 /\ n \in Nat
    BY <1>1, <1>6
  <2> HIDE DEF n
  <2>2. m \div 2 \in 1..n /\ m = 2 * (m \div 2)
    BY <2>1
  <2> QED
    BY <2>2
<1>8. /\ Len(Pairs(list)) = n
      /\ \A j \in 1..n : Pairs(list)[j] = <<list[2 * j].text, list[2 * j + 1].text>>
  BY <1>1 DEF Pairs, NbPairs
<1>9. \A j \in 1..n : Pairs(list)[j][1] = list[2 * j].text
  BY <1>8
<1>10. p \in pairs /\ pairs \in SUBSET (1..n)
  BY <1>6, <1>7, <1>8, <1>9
<1>11. ASSUME NEW j \in pairs PROVE j <= p
  <2>1. j \in 1..n /\ list[2 * j].text \in names
    BY <1>8, <1>9
  <2>2. 2 * j \in 2..l /\ (2 * j) % 2 = 0
    BY <1>1, <2>1
  <2>3. list[2 * j].type = PacketString
    BY <1>1, <2>2 DEF Texts
  <2>4. 2 * j \in found
    BY <1>1, <2>1, <2>2, <2>3
  <2>5. 2 * j <= m
    BY <1>5, <1>6, <2>4
  <2> QED
    BY <1>7, <2>1, <2>5
<1>12. Max(pairs) = p
  <2> HIDE DEF pairs
  <2> QED
    BY <1>1, <1>10, <1>11, MaxIs
<1>13. LastPair(Pairs(list), names) = p
  BY <1>10, <1>12 DEF LastPair
<1>14. Field(list, names) = 2 * p + 1
  BY <1>3, <1>6, <1>7
<1>15. list[2 * p].text \in names
  BY <1>6, <1>7
<1> QED
  BY <1>13, <1>14, <1>15

-----------------------------------------------------------------------------
(* What object_buffer_to_json writes. *)

TimeItem == Item(Text("time"), TRUE)

Items == {Comma, TimeItem} \cup {Item(k, q) : k \in Packets, q \in BOOLEAN}

(* The first n of some rows, each of them followed by a comma. *)
Rows(x, n) == [k \in 1..(2 * n) |-> IF k % 2 = 0 THEN Comma ELSE x[(k - 1) \div 2]]

(* The same without the last comma. *)
Between(x, n) == [k \in 1..(2 * n - 1) |-> IF k % 2 = 0 THEN Comma ELSE x[(k - 1) \div 2]]

LEMMA CommaItem ==
    /\ Comma \in Items /\ Comma.text = "," /\ Comma.cut = 0 /\ Comma.escapes = 0
    /\ Comma.quoted = FALSE
<1>1. Comma = [text |-> ",", escapes |-> 0, quoted |-> FALSE, cut |-> 0]
  BY DEF Comma, Item, Text, EscapedText
<1>2. Comma.text = "," /\ Comma.cut = 0 /\ Comma.escapes = 0
  BY <1>1
<1>3. Comma.quoted = FALSE
  BY <1>1, Zenon
<1>4. Comma \in Items
  BY DEF Items
<1> QED
  BY <1>2, <1>3, <1>4

LEMMA RowsTyped ==
    ASSUME NEW n \in Nat, NEW x, \A m \in 0..(n - 1) : x[m] \in Items
    PROVE  Rows(x, n) \in Seq(Items) /\ Len(Rows(x, n)) = 2 * n
<1>1. ASSUME NEW k \in 1..(2 * n), k % 2 # 0 PROVE (k - 1) \div 2 \in 0..(n - 1)
  BY <1>1
<1>2. ASSUME NEW k \in 1..(2 * n) PROVE Rows(x, n)[k] \in Items
  BY <1>1, CommaItem DEF Rows
<1> QED
  BY <1>2 DEF Rows

(* One more row. *)
LEMMA AddRow ==
    ASSUME NEW n \in Nat, NEW x, \A m \in 0..n : x[m] \in Items
    PROVE  Rows(x, n) \o <<x[n], Comma>> = Rows(x, n + 1)
<1> DEFINE s == Rows(x, n)
           t == <<x[n], Comma>>
           r == Rows(x, n + 1)
<1>1. s \in Seq(Items) /\ Len(s) = 2 * n
  BY RowsTyped
<1>2. t \in Seq(Items) /\ Len(t) = 2 /\ t[1] = x[n] /\ t[2] = Comma
  <2>1. n \in 0..n
    OBVIOUS
  <2>2. x[n] \in Items
    BY <2>1
  <2>3. Comma \in Items
    BY CommaItem
  <2> QED
    BY <2>2, <2>3
<1>3. r \in Seq(Items) /\ Len(r) = 2 * n + 2
  BY RowsTyped
<1>4. /\ s \o t \in Seq(Items) /\ Len(s \o t) = 2 * n + 2
      /\ \A k \in 1..(2 * n + 2) : (s \o t)[k] = IF k <= 2 * n THEN s[k] ELSE t[k - 2 * n]
  <2> HIDE DEF s, t
  <2>1. s \in Seq(Items) /\ t \in Seq(Items)
    BY <1>1, <1>2
  <2>2. /\ s \o t \in Seq(Items) /\ Len(s \o t) = Len(s) + Len(t)
        /\ \A k \in 1..(Len(s) + Len(t)) :
              (s \o t)[k] = IF k <= Len(s) THEN s[k] ELSE t[k - Len(s)]
    BY <2>1, ConcatProperties
  <2>3. Len(s) = 2 * n /\ Len(t) = 2 /\ Len(s) + Len(t) = 2 * n + 2
    BY <1>1, <1>2
  <2> QED
    BY <2>2, <2>3
<1>5. ASSUME NEW k \in 1..(2 * n + 2) PROVE (s \o t)[k] = r[k]
  <2>1. CASE k <= 2 * n
    <3>1. (s \o t)[k] = s[k]
      BY <1>4, <2>1
    <3>2. s[k] = r[k]
      BY <2>1 DEF Rows
    <3> QED
      BY <3>1, <3>2
  <2>2. CASE k = 2 * n + 1
    <3> HIDE DEF s, t
    <3>1. ~(k <= 2 * n) /\ k - 2 * n = 1
      BY <2>2
    <3>2. (s \o t)[k] = t[1]
      BY <1>4, <3>1
    <3>3. k % 2 # 0 /\ (k - 1) \div 2 = n
      BY <2>2
    <3>4. r[k] = x[n]
      BY <3>3 DEF Rows
    <3> QED
      BY <1>2, <3>2, <3>4
  <2>3. CASE k = 2 * n + 2
    <3> HIDE DEF s, t
    <3>1. ~(k <= 2 * n) /\ k - 2 * n = 2
      BY <2>3
    <3>2. (s \o t)[k] = t[2]
      BY <1>4, <3>1
    <3>3. k % 2 = 0
      BY <2>3
    <3>4. r[k] = Comma
      BY <3>3 DEF Rows
    <3> QED
      BY <1>2, <3>2, <3>4
  <2>4. k <= 2 * n \/ k = 2 * n + 1 \/ k = 2 * n + 2
    OBVIOUS
  <2> HIDE DEF s, t, r
  <2> QED
    BY <2>1, <2>2, <2>3, <2>4
<1> HIDE DEF s, t, r
<1>6. s \o t = r
  BY <1>3, <1>4, <1>5, SeqEqual
<1> QED
  BY <1>6 DEF s, t, r

(* The last comma is taken back. *)
LEMMA BackOverComma ==
    ASSUME NEW n \in Nat \ {0}, NEW x, \A m \in 0..(n - 1) : x[m] \in Items
    PROVE  Back(Rows(x, n)) = Between(x, n)
<1> DEFINE s == Rows(x, n)
<1>1. s \in Seq(Items) /\ Len(s) = 2 * n /\ s # <<>>
  <2>1. s \in Seq(Items) /\ Len(s) = 2 * n
    BY RowsTyped
  <2> QED
    BY <2>1
<1>2. Last(s) = Comma
  <2>1. 2 * n \in 1..(2 * n) /\ (2 * n) % 2 = 0
    OBVIOUS
  <2> QED
    BY <1>1, <2>1 DEF Last, Rows
<1>3. Last(s).cut + 1 = Len(Last(s).text)
  <2>1. Last(s).cut = 0 /\ Len(Last(s).text) = 1
    BY <1>2, CommaItem, CommaAssumption DEF CommaAssumption
  <2> QED
    BY <2>1
<1>4. Back(s) = Front(s)
  BY <1>1, <1>3 DEF Back
<1>5. Front(s) = [k \in 1..(2 * n - 1) |-> s[k]]
  BY <1>1 DEF Front
<1>6. Between(x, n) = [k \in 1..(2 * n - 1) |-> s[k]]
  BY DEF Between, Rows
<1> QED
  BY <1>4, <1>5, <1>6

(* How many rows there are after h pairs, when the date, the value of the  *)
(* pair d, comes first; and the pair of a row.                             *)
CountRows(d, h) == IF h < d THEN h + 1 ELSE h
RowPair(d, m) == IF m = 0 THEN d ELSE IF m < d THEN m ELSE m + 1

LEMMA RowStep ==
    ASSUME NEW n \in Nat, NEW d \in 1..n
    PROVE  /\ CountRows(d, 0) = 1 /\ CountRows(d, n) = n
           /\ \A h \in 0..n : CountRows(d, h) \in 1..n
           /\ \A h \in 1..n :
                /\ h = d => CountRows(d, h) = CountRows(d, h - 1)
                /\ h # d => /\ CountRows(d, h) = CountRows(d, h - 1) + 1
                            /\ CountRows(d, h - 1) \in 1..(n - 1)
                            /\ RowPair(d, CountRows(d, h - 1)) = h
           /\ \A m \in 0..(n - 1) : RowPair(d, m) \in 1..n
  BY DEF CountRows, RowPair

DatePair(list) == (Cdtime(list) - 1) \div 2

ColumnRows(list) ==
    [m \in 0..(NbPairs(list) - 1) |->
       IF m = 0 THEN TimeItem ELSE Item(list[2 * RowPair(DatePair(list), m)], TRUE)]

PointRows(list) ==
    [m \in 0..(NbPairs(list) - 1) |->
       IF m = 0 THEN Item(list[Cdtime(list)], FALSE)
       ELSE Item(list[2 * RowPair(DatePair(list), m) + 1],
                 list[2 * RowPair(DatePair(list), m)].text \notin Bare)]

(* A hash of texts with a date. *)
Dated(list) ==
    /\ Texts(list) /\ DatePair(list) \in 1..NbPairs(list)
    /\ Cdtime(list) = 2 * DatePair(list) + 1

LEMMA RowsAreItems ==
    ASSUME NEW list, Dated(list)
    PROVE  \A m \in 0..(NbPairs(list) - 1) :
              ColumnRows(list)[m] \in Items /\ PointRows(list)[m] \in Items
<1> DEFINE n == NbPairs(list)
           d == DatePair(list)
<1>1. n \in Nat /\ d \in 1..n /\ Cdtime(list) = 2 * d + 1 /\ Len(list) = 2 * n + 1
  BY DEF Dated, Texts
<1>2. list \in Seq(Packets)
  BY DEF Dated, Texts
<1>3. ASSUME NEW i \in 1..(2 * n + 1) PROVE list[i] \in Packets
  BY <1>1, <1>2, ElementOfSeq
<1>4. SUFFICES ASSUME NEW m \in 0..(n - 1)
               PROVE  ColumnRows(list)[m] \in Items /\ PointRows(list)[m] \in Items
  OBVIOUS
<1>5. PICK p \in 1..n : p = RowPair(d, m)
  BY <1>1, RowStep
<1>6. list[2 * p] \in Packets /\ list[2 * p + 1] \in Packets /\ list[2 * d + 1] \in Packets
  <2>1. 2 * p \in 1..(2 * n + 1) /\ 2 * p + 1 \in 1..(2 * n + 1) /\ 2 * d + 1 \in 1..(2 * n + 1)
    BY <1>1
  <2> QED
    BY <1>3, <2>1
<1>7. ColumnRows(list)[m] = IF m = 0 THEN TimeItem ELSE Item(list[2 * p], TRUE)
  BY <1>5 DEF ColumnRows
<1>8. PointRows(list)[m] = IF m = 0 THEN Item(list[2 * d + 1], FALSE)
                           ELSE Item(list[2 * p + 1], list[2 * p].text \notin Bare)
  BY <1>1, <1>5 DEF PointRows
<1>9. \A k \in Packets : \A q \in BOOLEAN : Item(k, q) \in Items
  BY DEF Items
<1>10. (list[2 * p].text \notin Bare) \in BOOLEAN
  OBVIOUS
<1>11. ColumnRows(list)[m] \in Items
  <2>1. TimeItem \in Items
    BY DEF Items
  <2>2. Item(list[2 * p], TRUE) \in Items
    BY <1>6, <1>9
  <2> QED
    BY <1>7, <2>1, <2>2
<1>12. PointRows(list)[m] \in Items
  BY <1>6, <1>8, <1>9, <1>10
<1> QED
  BY <1>11, <1>12

(* The places of keys and values. *)
LEMMA Places ==
    ASSUME NEW n \in Nat, NEW i \in 2..(2 * n + 1)
    PROVE  \/ \E h \in 1..n : /\ i = 2 * h /\ i % 2 = 0
                              /\ i \div 2 = h /\ (i - 1) \div 2 = h - 1
                              /\ (i - 2) \div 2 = h - 1
           \/ \E h \in 1..n : /\ i = 2 * h + 1 /\ i % 2 = 1
                              /\ i \div 2 = h /\ (i - 1) \div 2 = h
                              /\ (i - 2) \div 2 = h - 1
<1>1. CASE i % 2 = 0
  <2>1. PICK h \in 1..n : i = 2 * h
    <3>1. i \div 2 \in 1..n /\ i = 2 * (i \div 2)
      BY <1>1
    <3> QED
      BY <3>1
  <2>2. (2 * h) \div 2 = h /\ (2 * h - 1) \div 2 = h - 1 /\ (2 * h - 2) \div 2 = h - 1
    OBVIOUS
  <2> QED
    BY <1>1, <2>1, <2>2
<1>2. CASE i % 2 # 0
  <2>1. PICK h \in 1..n : i = 2 * h + 1
    <3>1. i \div 2 \in 1..n /\ i = 2 * (i \div 2) + 1
      BY <1>2
    <3> QED
      BY <3>1
  <2>2. /\ (2 * h + 1) \div 2 = h /\ (2 * h + 1 - 1) \div 2 = h
        /\ (2 * h + 1 - 2) \div 2 = h - 1 /\ (2 * h + 1) % 2 = 1
    OBVIOUS
  <2> QED
    BY <2>1, <2>2
<1> QED
  BY <1>1, <1>2

LEMMA PutText ==
    ASSUME NEW out, NEW k, NEW quoted, k.type = PacketString
    PROVE  Put(out, k, quoted) = out \o <<Item(k, quoted), Comma>>
  BY DEF Put, PacketString, PacketNumeric

(* The keys are written in rows. *)
LEMMA ColumnsAreRows ==
    ASSUME NEW list, Dated(list)
    PROVE  Columns(list) = Between(ColumnRows(list), NbPairs(list))
<1> DEFINE n == NbPairs(list)
           d == DatePair(list)
           x == ColumnRows(list)
           L == Len(list)
           wrote == [i \in 1..L |-> Rows(x, CountRows(d, i \div 2))]
           Step(f, i) == IF i % 2 = 0 /\ i # Cdtime(list) - 1 THEN Put(f[i - 1], list[i], TRUE)
                         ELSE f[i - 1]
           IsLoop(f) == f = [i \in 1..Len(list) |->
                       IF i = 1 THEN <<Item(Text("time"), TRUE), Comma>>
                       ELSE IF i % 2 = 0 /\ i # Cdtime(list) - 1
                            THEN Put(f[i - 1], list[i], TRUE)
                       ELSE f[i - 1]]
           walk == CHOOSE f : IsLoop(f)
<1>1. n \in Nat /\ d \in 1..n /\ L \in Nat /\ L = 2 * n + 1 /\ Cdtime(list) = 2 * d + 1
  BY DEF Dated, Texts
<1>2. \A m \in 0..(n - 1) : x[m] \in Items
  BY RowsAreItems
<1>3. wrote[1] = <<Item(Text("time"), TRUE), Comma>>
  <2>1. 1 \in 1..L /\ 1 \div 2 = 0
    BY <1>1
  <2>2. wrote[1] = Rows(x, 1)
    BY <1>1, <2>1, RowStep
  <2>3. 0 \in 0..(n - 1)
    BY <1>1
  <2>4. x[0] = TimeItem
    BY <2>3 DEF ColumnRows
  <2>5. Rows(x, 0) \o <<x[0], Comma>> = Rows(x, 0 + 1)
    <3>1. \A m \in 0..0 : x[m] \in Items
      BY <1>2, <2>3
    <3> HIDE DEF x
    <3> QED
      BY <3>1, AddRow
  <2>6. Rows(x, 0) = <<>>
    BY DEF Rows
  <2>7. <<x[0], Comma>> \in Seq(Items)
    <3> HIDE DEF x, n
    <3>1. x[0] \in Items /\ Comma \in Items
      BY <1>2, <2>3, CommaItem
    <3> QED
      BY <3>1
  <2>8. Rows(x, 1) = <<x[0], Comma>>
    <3> HIDE DEF x
    <3> QED
      BY <2>5, <2>6, <2>7, ConcatEmptySeq
  <2> QED
    BY <2>2, <2>4, <2>8 DEF TimeItem
<1>4. ASSUME NEW i \in 2..L PROVE wrote[i] = Step(wrote, i)
  <2>1. i \in 1..L /\ i - 1 \in 1..L /\ i \in 2..(2 * n + 1)
    BY <1>1
  <2>2. /\ wrote[i] = Rows(x, CountRows(d, i \div 2))
        /\ wrote[i - 1] = Rows(x, CountRows(d, (i - 1) \div 2))
    BY <2>1
  <2>3. CASE \E h \in 1..n : i = 2 * h /\ i % 2 = 0 /\ i \div 2 = h /\ (i - 1) \div 2 = h - 1
    <3>1. PICK h \in 1..n : i = 2 * h /\ i % 2 = 0 /\ i \div 2 = h /\ (i - 1) \div 2 = h - 1
      BY <2>3
    <3>2. PICK c \in 1..n : c = CountRows(d, h - 1)
      <4>1. h - 1 \in 0..n
        BY <1>1
      <4> QED
        BY <1>1, <4>1, RowStep
    <3>3. CASE h = d
      <4>1. ~(i # Cdtime(list) - 1)
        BY <1>1, <3>1, <3>3
      <4>2. CountRows(d, h) = c
        BY <1>1, <3>2, <3>3, RowStep
      <4> QED
        BY <2>2, <3>1, <3>2, <4>1, <4>2
    <3>4. CASE h # d
      <4>1. i # Cdtime(list) - 1
        BY <1>1, <3>1, <3>4
      <4>2. CountRows(d, h) = c + 1 /\ c \in 1..(n - 1) /\ RowPair(d, c) = h
        BY <1>1, <3>2, <3>4, RowStep
      <4>3. x[c] = Item(list[i], TRUE)
        <5>1. c \in 0..(n - 1) /\ c # 0
          BY <1>1, <4>2
        <5>2. x[c] = Item(list[2 * RowPair(d, c)], TRUE)
          BY <5>1 DEF ColumnRows
        <5> QED
          BY <3>1, <4>2, <5>2
      <4>4. list[i].type = PacketString
        BY <2>1 DEF Dated, Texts
      <4>5. wrote[i - 1] = Rows(x, c) /\ wrote[i] = Rows(x, c + 1)
        BY <2>2, <3>1, <3>2, <4>2
      <4>6. Rows(x, c) \o <<x[c], Comma>> = Rows(x, c + 1)
        <5>1. c \in Nat /\ \A m \in 0..c : x[m] \in Items
          <6> HIDE DEF x, n
          <6>1. c \in Nat /\ \A m \in 0..c : m \in 0..(n - 1)
            BY <1>1, <4>2
          <6> QED
            BY <1>2, <6>1
        <5> HIDE DEF x
        <5> QED
          BY <5>1, AddRow
      <4>7. Put(wrote[i - 1], list[i], TRUE) = wrote[i - 1] \o <<Item(list[i], TRUE), Comma>>
        BY <4>4, PutText
      <4> HIDE DEF wrote, x
      <4>8. Put(wrote[i - 1], list[i], TRUE) = wrote[i]
        BY <4>3, <4>5, <4>6, <4>7
      <4> QED
        BY <3>1, <4>1, <4>8
    <3> QED
      BY <3>3, <3>4
  <2>4. CASE \E h \in 1..n : i % 2 = 1 /\ i \div 2 = h /\ (i - 1) \div 2 = h
    <3>1. PICK h \in 1..n : i % 2 = 1 /\ i \div 2 = h /\ (i - 1) \div 2 = h
      BY <2>4
    <3>2. i % 2 # 0
      BY <3>1
    <3>3. wrote[i] = wrote[i - 1]
      BY <2>2, <3>1
    <3> HIDE DEF wrote, x
    <3> QED
      BY <3>2, <3>3
  <2> QED
    BY <1>1, <2>1, <2>3, <2>4, Places
<1> HIDE DEF x
<1>5. IsLoop(wrote)
  <2>1. wrote = [i \in 1..L |-> wrote[i]]
    OBVIOUS
  <2>2. \A i \in 1..L : i # 1 => i \in 2..L
    BY <1>1
  <2>3. ASSUME NEW i \in 1..L
        PROVE  wrote[i] = IF i = 1 THEN <<Item(Text("time"), TRUE), Comma>> ELSE Step(wrote, i)
    <3> HIDE DEF wrote, Step
    <3> QED
      BY <1>3, <1>4, <2>2
  <2> HIDE DEF wrote
  <2> QED
    BY <2>1, <2>3, Zenon
<1>6. IsLoop(walk)
  <2> HIDE DEF wrote
  <2> QED
    BY <1>5
<1>7. Columns(list) = Back(walk[Len(list)])
  BY DEF Columns
<1> HIDE DEF walk
<1>8. ASSUME NEW i \in 1..L
      PROVE  walk[i] = IF i = 1 THEN <<Item(Text("time"), TRUE), Comma>> ELSE Step(walk, i)
  BY <1>6
<1> HIDE DEF wrote
<1>9. \A i \in 1..L : walk[i] = wrote[i]
  <2>1. walk[1] = wrote[1]
    <3>1. 1 \in 1..L
      BY <1>1
    <3> QED
      BY <1>3, <1>8, <3>1
  <2>2. ASSUME NEW i \in 2..L, walk[i - 1] = wrote[i - 1] PROVE walk[i] = wrote[i]
    <3>1. i \in 1..L /\ i # 1
      BY <1>1
    <3>2. walk[i] = Step(walk, i) /\ wrote[i] = Step(wrote, i)
      BY <1>4, <1>8, <3>1
    <3> QED
      BY <2>2, <3>2
  <2>3. L \in Nat /\ L >= 1
    BY <1>1
  <2>4. \A i \in 2..L : walk[i - 1] = wrote[i - 1] => walk[i] = wrote[i]
    BY <2>2
  <2> HIDE DEF L
  <2> QED
    BY <2>1, <2>3, <2>4, SameLoop
<1>10. walk[L] = Rows(x, n)
  <2>1. L \in 1..L /\ L \div 2 = n /\ CountRows(d, n) = n
    <3>1. (2 * n + 1) \div 2 = n /\ 2 * n + 1 \in 1..(2 * n + 1)
      BY <1>1
    <3> QED
      BY <1>1, <3>1, RowStep
  <2> QED
    BY <1>9, <2>1 DEF wrote
<1>11. Back(Rows(x, n)) = Between(x, n)
  <2>1. n \in Nat \ {0}
    BY <1>1
  <2> QED
    BY <1>2, <2>1, BackOverComma
<1> QED
  BY <1>7, <1>10, <1>11 DEF x

(* The values are written in rows. *)
LEMMA PointsAreRows ==
    ASSUME NEW list, Dated(list)
    PROVE  Points(list) = Between(PointRows(list), NbPairs(list))
<1> DEFINE n == NbPairs(list)
           d == DatePair(list)
           x == PointRows(list)
           L == Len(list)
           wrote == [i \in 1..L |-> Rows(x, CountRows(d, (i - 1) \div 2))]
           Step(f, i) == IF i % 2 = 1 /\ i # Cdtime(list)
                         THEN Put(f[i - 1], list[i], list[i - 1].text \notin Bare)
                         ELSE f[i - 1]
           IsLoop(f) == f = [i \in 1..Len(list) |->
                       IF i = 1 THEN Put(<<>>, list[Cdtime(list)], FALSE)
                       ELSE IF i % 2 = 1 /\ i # Cdtime(list)
                            THEN Put(f[i - 1], list[i], list[i - 1].text \notin Bare)
                       ELSE f[i - 1]]
           walk == CHOOSE f : IsLoop(f)
<1>1. n \in Nat /\ d \in 1..n /\ L \in Nat /\ L = 2 * n + 1 /\ Cdtime(list) = 2 * d + 1
  BY DEF Dated, Texts
<1>2. \A m \in 0..(n - 1) : x[m] \in Items
  BY RowsAreItems
<1>3. wrote[1] = Put(<<>>, list[Cdtime(list)], FALSE)
  <2>1. 1 \in 1..L /\ (1 - 1) \div 2 = 0
    BY <1>1
  <2>2. wrote[1] = Rows(x, 1)
    BY <1>1, <2>1, RowStep
  <2>3. 0 \in 0..(n - 1)
    BY <1>1
  <2>4. x[0] = Item(list[Cdtime(list)], FALSE)
    BY <2>3 DEF PointRows
  <2>5. Rows(x, 0) \o <<x[0], Comma>> = Rows(x, 0 + 1)
    <3>1. \A m \in 0..0 : x[m] \in Items
      BY <1>2, <2>3
    <3> HIDE DEF x
    <3> QED
      BY <3>1, AddRow
  <2>6. Rows(x, 0) = <<>>
    BY DEF Rows
  <2>7. <<x[0], Comma>> \in Seq(Items)
    <3> HIDE DEF x, n
    <3>1. x[0] \in Items /\ Comma \in Items
      BY <1>2, <2>3, CommaItem
    <3> QED
      BY <3>1
  <2>8. Rows(x, 1) = <<x[0], Comma>>
    <3> HIDE DEF x
    <3> QED
      BY <2>5, <2>6, <2>7, ConcatEmptySeq
  <2>9. list[Cdtime(list)].type = PacketString
    <3>1. Cdtime(list) \in 2..Len(list)
      BY <1>1
    <3> QED
      BY <3>1 DEF Dated, Texts
  <2>10. Put(<<>>, list[Cdtime(list)], FALSE) = <<>> \o <<x[0], Comma>>
    <3> HIDE DEF x
    <3> QED
      BY <2>4, <2>9, PutText
  <2>11. <<>> \o <<x[0], Comma>> = <<x[0], Comma>>
    <3> HIDE DEF x
    <3> QED
      BY <2>7, ConcatEmptySeq
  <2> HIDE DEF x, wrote
  <2> QED
    BY <2>2, <2>8, <2>10, <2>11
<1>4. ASSUME NEW i \in 2..L PROVE wrote[i] = Step(wrote, i)
  <2>1. i \in 1..L /\ i - 1 \in 1..L /\ i \in 2..(2 * n + 1)
    BY <1>1
  <2>2. /\ wrote[i] = Rows(x, CountRows(d, (i - 1) \div 2))
        /\ wrote[i - 1] = Rows(x, CountRows(d, (i - 2) \div 2))
    BY <2>1
  <2>3. CASE \E h \in 1..n : /\ i = 2 * h + 1 /\ i % 2 = 1
                             /\ (i - 1) \div 2 = h /\ (i - 2) \div 2 = h - 1
    <3>1. PICK h \in 1..n : /\ i = 2 * h + 1 /\ i % 2 = 1
                            /\ (i - 1) \div 2 = h /\ (i - 2) \div 2 = h - 1
      BY <2>3
    <3>2. PICK c \in 1..n : c = CountRows(d, h - 1)
      <4>1. h - 1 \in 0..n
        BY <1>1
      <4> QED
        BY <1>1, <4>1, RowStep
    <3>3. CASE h = d
      <4>1. ~(i # Cdtime(list))
        BY <1>1, <3>1, <3>3
      <4>2. CountRows(d, h) = c
        BY <1>1, <3>2, <3>3, RowStep
      <4> QED
        BY <2>2, <3>1, <3>2, <4>1, <4>2
    <3>4. CASE h # d
      <4>1. i # Cdtime(list)
        BY <1>1, <3>1, <3>4
      <4>2. CountRows(d, h) = c + 1 /\ c \in 1..(n - 1) /\ RowPair(d, c) = h
        BY <1>1, <3>2, <3>4, RowStep
      <4>3. x[c] = Item(list[i], list[i - 1].text \notin Bare)
        <5>1. c \in 0..(n - 1) /\ c # 0
          BY <1>1, <4>2
        <5>2. x[c] = Item(list[2 * RowPair(d, c) + 1], list[2 * RowPair(d, c)].text \notin Bare)
          BY <5>1 DEF PointRows
        <5>3. i = 2 * RowPair(d, c) + 1 /\ i - 1 = 2 * RowPair(d, c)
          BY <3>1, <4>2
        <5> QED
          BY <5>2, <5>3
      <4>4. list[i].type = PacketString
        BY <2>1 DEF Dated, Texts
      <4>5. wrote[i - 1] = Rows(x, c) /\ wrote[i] = Rows(x, c + 1)
        BY <2>2, <3>1, <3>2, <4>2
      <4>6. Rows(x, c) \o <<x[c], Comma>> = Rows(x, c + 1)
        <5>1. c \in Nat /\ \A m \in 0..c : x[m] \in Items
          <6> HIDE DEF x, n
          <6>1. c \in Nat /\ \A m \in 0..c : m \in 0..(n - 1)
            BY <1>1, <4>2
          <6> QED
            BY <1>2, <6>1
        <5> HIDE DEF x
        <5> QED
          BY <5>1, AddRow
      <4>7. Put(wrote[i - 1], list[i], list[i - 1].text \notin Bare)
              = wrote[i - 1] \o <<Item(list[i], list[i - 1].text \notin Bare), Comma>>
        BY <4>4, PutText
      <4> HIDE DEF wrote, x
      <4>8. Put(wrote[i - 1], list[i], list[i - 1].text \notin Bare) = wrote[i]
        BY <4>3, <4>5, <4>6, <4>7
      <4> QED
        BY <3>1, <4>1, <4>8
    <3> QED
      BY <3>3, <3>4
  <2>4. CASE \E h \in 1..n : i % 2 = 0 /\ (i - 1) \div 2 = h - 1 /\ (i - 2) \div 2 = h - 1
    <3>1. PICK h \in 1..n : i % 2 = 0 /\ (i - 1) \div 2 = h - 1 /\ (i - 2) \div 2 = h - 1
      BY <2>4
    <3>2. i % 2 # 1
      BY <3>1
    <3>3. wrote[i] = wrote[i - 1]
      BY <2>2, <3>1
    <3> HIDE DEF wrote, x
    <3> QED
      BY <3>2, <3>3
  <2> QED
    BY <1>1, <2>1, <2>3, <2>4, Places
<1> HIDE DEF x
<1>5. IsLoop(wrote)
  <2>1. wrote = [i \in 1..L |-> wrote[i]]
    OBVIOUS
  <2>2. \A i \in 1..L : i # 1 => i \in 2..L
    BY <1>1
  <2>3. ASSUME NEW i \in 1..L
        PROVE  wrote[i] = IF i = 1 THEN Put(<<>>, list[Cdtime(list)], FALSE) ELSE Step(wrote, i)
    <3> HIDE DEF wrote, Step
    <3> QED
      BY <1>3, <1>4, <2>2
  <2> HIDE DEF wrote
  <2> QED
    BY <2>1, <2>3, Zenon
<1>6. IsLoop(walk)
  <2> HIDE DEF wrote
  <2> QED
    BY <1>5
<1>7. Points(list) = Back(walk[Len(list)])
  BY DEF Points
<1> HIDE DEF walk
<1>8. ASSUME NEW i \in 1..L
      PROVE  walk[i] = IF i = 1 THEN Put(<<>>, list[Cdtime(list)], FALSE) ELSE Step(walk, i)
  BY <1>6
<1> HIDE DEF wrote
<1>9. \A i \in 1..L : walk[i] = wrote[i]
  <2>1. walk[1] = wrote[1]
    <3>1. 1 \in 1..L
      BY <1>1
    <3> QED
      BY <1>3, <1>8, <3>1
  <2>2. ASSUME NEW i \in 2..L, walk[i - 1] = wrote[i - 1] PROVE walk[i] = wrote[i]
    <3>1. i \in 1..L /\ i # 1
      BY <1>1
    <3>2. walk[i] = Step(walk, i) /\ wrote[i] = Step(wrote, i)
      BY <1>4, <1>8, <3>1
    <3> QED
      BY <2>2, <3>2
  <2>3. L \in Nat /\ L >= 1
    BY <1>1
  <2>4. \A i \in 2..L : walk[i - 1] = wrote[i - 1] => walk[i] = wrote[i]
    BY <2>2
  <2> HIDE DEF L
  <2> QED
    BY <2>1, <2>3, <2>4, SameLoop
<1>10. walk[L] = Rows(x, n)
  <2>1. L \in 1..L /\ (L - 1) \div 2 = n /\ CountRows(d, n) = n
    <3>1. (2 * n + 1 - 1) \div 2 = n /\ 2 * n + 1 \in 1..(2 * n + 1)
      BY <1>1
    <3> QED
      BY <1>1, <3>1, RowStep
  <2> QED
    BY <1>9, <2>1 DEF wrote
<1>11. Back(Rows(x, n)) = Between(x, n)
  <2>1. n \in Nat \ {0}
    BY <1>1
  <2> QED
    BY <1>2, <2>1, BackOverComma
<1> QED
  BY <1>7, <1>10, <1>11 DEF x

LEMMA ItemFields ==
    ASSUME NEW k, NEW q \in BOOLEAN
    PROVE  /\ Item(k, q).text = k.text /\ Item(k, q).escapes = k.escapes
           /\ Item(k, q).cut = 0 /\ Item(k, q).quoted = q
<1>1. Item(k, q) = [text |-> k.text, escapes |-> k.escapes, quoted |-> q, cut |-> 0]
  BY DEF Item
<1>2. Item(k, q).text = k.text /\ Item(k, q).escapes = k.escapes /\ Item(k, q).cut = 0
  BY <1>1
<1>3. Item(k, q).quoted = q
  BY DEF Item
<1> QED
  BY <1>2, <1>3

(* A text with quotes is no comma, nor is one that is neither empty nor a  *)
(* comma.                                                                  *)
InFull(item) == item # Comma /\ item.cut = 0 /\ (item.quoted \/ item.text # "")

LEMMA NoComma ==
    ASSUME NEW k, NEW q \in BOOLEAN, ~q => k.text \notin {"", Comma.text}
    PROVE  InFull(Item(k, q))
<1>1. /\ Item(k, q).text = k.text /\ Item(k, q).cut = 0
  BY ItemFields
<1>2. Item(k, q).quoted = q /\ Comma.quoted = FALSE
  BY ItemFields, CommaItem
<1>3. CASE q
  <2>1. Item(k, q).quoted
    BY <1>2, <1>3, Zenon
  <2>2. Item(k, q) # Comma
    BY <1>2, <2>1, Zenon
  <2> QED
    BY <1>1, <2>1, <2>2, Zenon DEF InFull
<1>4. CASE ~q
  <2>1. k.text # "" /\ k.text # Comma.text
    BY <1>4
  <2> QED
    BY <1>1, <2>1, Zenon DEF InFull
<1> QED
  BY <1>3, <1>4

(* The rows, with a comma between them. *)
LEMMA BetweenRows ==
    ASSUME NEW n \in Nat \ {0}, NEW x
    PROVE  /\ Len(Between(x, n)) = 2 * n - 1
           /\ \A i \in 1..(2 * n - 1) : i % 2 = 0 => Between(x, n)[i] = Comma
           /\ \A m \in 0..(n - 1) : Between(x, n)[2 * m + 1] = x[m]
<1>1. /\ Len(Between(x, n)) = 2 * n - 1
      /\ \A i \in 1..(2 * n - 1) : i % 2 = 0 => Between(x, n)[i] = Comma
  BY DEF Between
<1>2. ASSUME NEW m \in 0..(n - 1) PROVE Between(x, n)[2 * m + 1] = x[m]
  <2>1. 2 * m + 1 \in 1..(2 * n - 1) /\ (2 * m + 1) % 2 # 0 /\ (2 * m + 1 - 1) \div 2 = m
    OBVIOUS
  <2> QED
    BY <2>1 DEF Between
<1> QED
  BY <1>1, <1>2

LEMMA BetweenSeparated ==
    ASSUME NEW n \in Nat \ {0}, NEW x, \A m \in 0..(n - 1) : InFull(x[m])
    PROVE  Separated(Between(x, n))
<1> DEFINE s == Between(x, n)
<1>1. /\ Len(s) = 2 * n - 1 /\ (2 * n - 1) % 2 = 1
      /\ \A i \in 1..(2 * n - 1) : i % 2 = 0 => s[i] = Comma
  BY DEF Between
<1>2. ASSUME NEW i \in 1..(2 * n - 1), i % 2 # 0 PROVE InFull(s[i])
  <2>1. (i - 1) \div 2 \in 0..(n - 1)
    BY <1>2
  <2>2. s[i] = x[(i - 1) \div 2]
    BY <1>2 DEF Between
  <2> QED
    BY <2>1, <2>2
<1> HIDE DEF s
<1>3. Separated(s)
  BY <1>1, <1>2 DEF Separated, InFull
<1> QED
  BY <1>3 DEF s

(* What comes first, then the others. *)
LEMMA OthersAfter ==
    ASSUME NEW n \in Nat, NEW d \in 1..n, NEW S, NEW s \in Seq(S), Len(s) = n, NEW e \in S
    PROVE  /\ <<e>> \o RemoveAt(s, d) \in Seq(S) /\ Len(<<e>> \o RemoveAt(s, d)) = n
           /\ (<<e>> \o RemoveAt(s, d))[1] = e
           /\ \A m \in 1..(n - 1) : (<<e>> \o RemoveAt(s, d))[m + 1] = s[RowPair(d, m)]
<1> DEFINE a == SubSeq(s, 1, d - 1)
           b == SubSeq(s, d + 1, n)
           t == a \o b
           u == <<e>>
<1>1. \A i \in 1..n : s[i] \in S
  BY ElementOfSeq
<1>2. /\ a \in Seq(S) /\ Len(a) = d - 1
      /\ \A i \in 1..(d - 1) : a[i] = s[i]
  <2>1. 1 \in Int /\ d - 1 \in Int /\ \A i \in 1..(d - 1) : s[i] \in S
    BY <1>1
  <2>2. /\ a \in Seq(S) /\ Len(a) = IF 1 <= d - 1 THEN d - 1 - 1 + 1 ELSE 0
        /\ \A i \in 1..(d - 1 - 1 + 1) : a[i] = s[1 + i - 1]
    BY <2>1, SubSeqProperties
  <2>3. \A i \in 1..(d - 1) : i \in 1..(d - 1 - 1 + 1) /\ 1 + i - 1 = i
    OBVIOUS
  <2>4. d - 1 = IF 1 <= d - 1 THEN d - 1 - 1 + 1 ELSE 0
    OBVIOUS
  <2> HIDE DEF a
  <2> QED
    BY <2>2, <2>3, <2>4
<1>3. /\ b \in Seq(S) /\ Len(b) = n - d
      /\ \A i \in 1..(n - d) : b[i] = s[d + i]
  <2>1. d + 1 \in Int /\ n \in Int /\ \A i \in (d + 1)..n : s[i] \in S
    BY <1>1
  <2>2. /\ b \in Seq(S) /\ Len(b) = IF d + 1 <= n THEN n - (d + 1) + 1 ELSE 0
        /\ \A i \in 1..(n - (d + 1) + 1) : b[i] = s[d + 1 + i - 1]
    BY <2>1, SubSeqProperties
  <2>3. \A i \in 1..(n - d) : i \in 1..(n - (d + 1) + 1) /\ d + 1 + i - 1 = d + i
    OBVIOUS
  <2>4. n - d = IF d + 1 <= n THEN n - (d + 1) + 1 ELSE 0
    OBVIOUS
  <2> HIDE DEF b
  <2> QED
    BY <2>2, <2>3, <2>4
<1>4. RemoveAt(s, d) = t
  BY DEF RemoveAt
<1> HIDE DEF a, b
<1>5. /\ t \in Seq(S) /\ Len(t) = n - 1
      /\ \A m \in 1..(n - 1) : t[m] = s[RowPair(d, m)]
  <2>1. /\ t \in Seq(S) /\ Len(t) = Len(a) + Len(b)
        /\ \A i \in 1..(Len(a) + Len(b)) : t[i] = IF i <= Len(a) THEN a[i] ELSE b[i - Len(a)]
    BY <1>2, <1>3, ConcatProperties
  <2>2. Len(a) + Len(b) = n - 1
    BY <1>2, <1>3
  <2> HIDE DEF t
  <2>3. ASSUME NEW m \in 1..(n - 1) PROVE t[m] = s[RowPair(d, m)]
    <3>1. t[m] = IF m <= d - 1 THEN a[m] ELSE b[m - (d - 1)]
      BY <1>2, <2>1, <2>2
    <3>2. CASE m < d
      <4>1. m \in 1..(d - 1) /\ RowPair(d, m) = m
        BY <3>2 DEF RowPair
      <4> QED
        BY <1>2, <3>1, <4>1
    <3>3. CASE ~(m < d)
      <4>1. /\ m - (d - 1) \in 1..(n - d) /\ RowPair(d, m) = m + 1 /\ ~(m <= d - 1)
            /\ d + (m - (d - 1)) = m + 1
        BY <3>3 DEF RowPair
      <4> QED
        BY <1>3, <3>1, <4>1
    <3> QED
      BY <3>2, <3>3
  <2> QED
    BY <2>1, <2>2, <2>3
<1> HIDE DEF t
<1>6. u \in Seq(S) /\ Len(u) = 1 /\ u[1] = e
  OBVIOUS
<1> HIDE DEF u
<1>7. /\ u \o t \in Seq(S) /\ Len(u \o t) = n
      /\ \A i \in 1..n : (u \o t)[i] = IF i <= 1 THEN u[i] ELSE t[i - 1]
  <2>1. /\ u \o t \in Seq(S) /\ Len(u \o t) = Len(u) + Len(t)
        /\ \A i \in 1..(Len(u) + Len(t)) :
              (u \o t)[i] = IF i <= Len(u) THEN u[i] ELSE t[i - Len(u)]
    BY <1>5, <1>6, ConcatProperties
  <2>2. Len(u) + Len(t) = n /\ Len(u) = 1
    BY <1>5, <1>6
  <2> QED
    BY <2>1, <2>2
<1>8. (u \o t)[1] = e
  BY <1>6, <1>7
<1>9. ASSUME NEW m \in 1..(n - 1) PROVE (u \o t)[m + 1] = s[RowPair(d, m)]
  <2>1. m + 1 \in 1..n /\ ~(m + 1 <= 1) /\ m + 1 - 1 = m
    OBVIOUS
  <2>2. (u \o t)[m + 1] = t[m]
    BY <1>7, <2>1
  <2> QED
    BY <1>5, <2>2
<1> QED
  BY <1>4, <1>7, <1>8, <1>9 DEF u

(* The sums of f from a place on, as the recursion of Total defines them. *)
Adds(g, f, first, n) ==
    /\ g \in [0..n -> Int] /\ g[0] = 0
    /\ \A i \in 1..n : g[i] = IF i < first THEN 0 ELSE g[i - 1] + f[i]

LEMMA TotalAdds ==
    ASSUME NEW n \in Nat, NEW first \in Nat \ {0},
           NEW f, \A i \in 1..n : i >= first => f[i] \in Int
    PROVE  \E g : Adds(g, f, first, n) /\ Total(f, first, n) = g[n]
<1> DEFINE step == [i \in 1..n |-> [v \in Int |-> IF i < first THEN 0 ELSE v + f[i]]]
           IsSum(s) == s = [i \in 0..n |-> IF i < first THEN 0 ELSE s[i - 1] + f[i]]
           sum == CHOOSE s : IsSum(s)
<1>1. step \in [1..n -> [Int -> Int]]
  OBVIOUS
<1>2. PICK g \in [0..n -> Int] : g[0] = 0 /\ \A i \in 1..n : g[i] = step[i][g[i - 1]]
  <2> DEFINE V == Int
  <2>1. 0 \in V /\ step \in [1..n -> [V -> V]]
    BY <1>1
  <2> HIDE DEF step, V
  <2>2. \E g \in [0..n -> V] : g[0] = 0 /\ \A i \in 1..n : g[i] = step[i][g[i - 1]]
    BY <2>1, Recursion, SMTT(20)
  <2> QED
    BY <2>2 DEF V
<1>3. ASSUME NEW i \in 1..n PROVE g[i] = IF i < first THEN 0 ELSE g[i - 1] + f[i]
  <2>1. g[i - 1] \in Int
    BY <1>2
  <2> QED
    BY <1>2, <2>1
<1>4. IsSum(g)
  <2>1. g = [i \in 0..n |-> g[i]]
    BY <1>2
  <2>2. ASSUME NEW i \in 0..n PROVE g[i] = IF i < first THEN 0 ELSE g[i - 1] + f[i]
    <3>1. i = 0 \/ i \in 1..n
      OBVIOUS
    <3> QED
      BY <1>2, <1>3, <3>1
  <2> QED
    BY <2>1, <2>2, Zenon
<1>5. IsSum(sum)
  BY <1>4
<1>6. Total(f, first, n) = sum[n]
  BY DEF Total
<1> HIDE DEF sum
<1>7. ASSUME NEW i \in 0..n PROVE sum[i] = IF i < first THEN 0 ELSE sum[i - 1] + f[i]
  BY <1>5
<1>8. sum[n] = g[n]
  <2> DEFINE T == {m \in Nat : m <= n => sum[m] = g[m]}
  <2>1. 0 \in T
    <3>1. 0 \in 0..n
      OBVIOUS
    <3> QED
      BY <1>2, <1>7, <3>1
  <2>2. ASSUME NEW m \in Nat, m \in T PROVE m + 1 \in T
    <3>1. SUFFICES ASSUME m + 1 <= n PROVE sum[m + 1] = g[m + 1]
      OBVIOUS
    <3>2. m + 1 \in 1..n /\ m + 1 \in 0..n /\ m + 1 - 1 = m
      BY <3>1
    <3>3. sum[m] = g[m]
      BY <2>2, <3>1
    <3> QED
      BY <1>3, <1>7, <3>2, <3>3
  <2> HIDE DEF T
  <2>3. n \in T
    BY <2>1, <2>2, Induction
  <2> QED
    BY <2>3 DEF T
<1>9. Adds(g, f, first, n)
  BY <1>2, <1>3 DEF Adds
<1> QED
  BY <1>6, <1>8, <1>9

(* Every row and its comma are no longer than the room of its packets. *)
RowRooms(n, d, r, cw, pw) ==
    /\ \A i \in 2..(2 * n + 1) : r[i] \in Nat
    /\ \A m \in 1..(n - 1) :
          /\ cw[2 * m] = 1 /\ pw[2 * m] = 1
          /\ cw[2 * m + 1] \in Int /\ pw[2 * m + 1] \in Int
          /\ cw[2 * m + 1] + 2 <= r[2 * RowPair(d, m)]
          /\ pw[2 * m + 1] + 2 <= r[2 * RowPair(d, m) + 1]
    /\ pw[1] \in Int /\ pw[1] + 2 <= r[2 * d + 1]

(* Then they fit together. *)
LEMMA RowsFit ==
    ASSUME NEW n \in Nat \ {0}, NEW d \in 1..n, NEW r, NEW cw, NEW pw, NEW gr, NEW gc, NEW gp,
           Adds(gr, r, 2, 2 * n + 1), Adds(gc, cw, 3, 2 * n - 1), Adds(gp, pw, 1, 2 * n - 1),
           RowRooms(n, d, r, cw, pw)
    PROVE  gc[2 * n - 1] + gp[2 * n - 1] + 2 <= gr[2 * n + 1]
<1> DEFINE room(m) == IF m < d THEN gr[2 * m + 1] + r[2 * d + 1] ELSE gr[2 * m + 3]
           T == {m \in Nat : m < n => gc[2 * m + 1] + gp[2 * m + 1] + 2 <= room(m)}
<1>1. /\ \A i \in 0..(2 * n + 1) : gr[i] \in Int
      /\ \A i \in 0..(2 * n - 1) : gc[i] \in Int /\ gp[i] \in Int
  BY DEF Adds
<1>2. (\A i \in 2..(2 * n + 1) : r[i] \in Nat) /\ pw[1] \in Int /\ pw[1] + 2 <= r[2 * d + 1]
  BY DEF RowRooms
<1>3. \A i \in 2..(2 * n + 1) : gr[i] = gr[i - 1] + r[i]
  BY DEF Adds
<1>4. ASSUME NEW h \in 1..n
      PROVE  gr[2 * h + 1] = gr[2 * h - 1] + r[2 * h] + r[2 * h + 1]
  <2>1. 2 * h \in 2..(2 * n + 1) /\ 2 * h + 1 \in 2..(2 * n + 1) /\ 2 * h + 1 - 1 = 2 * h
    OBVIOUS
  <2>2. gr[2 * h] = gr[2 * h - 1] + r[2 * h]
    BY <1>3, <2>1
  <2>3. gr[2 * h + 1] = gr[2 * h] + r[2 * h + 1]
    BY <1>3, <2>1
  <2> QED
    BY <2>2, <2>3
<1>5. 0 \in T
  <2>1. gc[1] = 0
    <3>1. 1 \in 1..(2 * n - 1) /\ 1 < 3
      OBVIOUS
    <3> QED
      BY <3>1 DEF Adds
  <2>2. gp[1] = pw[1]
    <3>1. 1 \in 1..(2 * n - 1) /\ ~(1 < 1) /\ 1 - 1 = 0
      OBVIOUS
    <3>2. gp[1] = gp[0] + pw[1] /\ gp[0] = 0
      BY <3>1 DEF Adds
    <3> QED
      BY <1>2, <3>2
  <2>3. gr[1] = 0
    <3>1. 1 \in 1..(2 * n + 1) /\ 1 < 2
      OBVIOUS
    <3> QED
      BY <3>1 DEF Adds
  <2>4. r[2 * d + 1] \in Nat
    <3>1. 2 * d + 1 \in 2..(2 * n + 1)
      OBVIOUS
    <3> QED
      BY <3>1 DEF RowRooms
  <2>5. 2 * 0 + 1 = 1 /\ 0 < d
    OBVIOUS
  <2>6. room(0) = r[2 * d + 1]
    BY <2>3, <2>4, <2>5
  <2> QED
    BY <1>2, <2>1, <2>2, <2>4, <2>5, <2>6
<1>6. ASSUME NEW m \in Nat, m \in T PROVE m + 1 \in T
  <2>1. SUFFICES ASSUME m + 1 < n
                 PROVE  gc[2 * (m + 1) + 1] + gp[2 * (m + 1) + 1] + 2 <= room(m + 1)
    OBVIOUS
  <2>2. gc[2 * m + 1] + gp[2 * m + 1] + 2 <= room(m)
    BY <1>6, <2>1
  <2>3. PICK p \in 1..n : p = RowPair(d, m + 1)
    <3>1. m + 1 \in 0..(n - 1)
      BY <2>1
    <3> QED
      BY <3>1, RowStep
  <2>4. /\ cw[2 * (m + 1)] = 1 /\ pw[2 * (m + 1)] = 1
        /\ cw[2 * (m + 1) + 1] \in Int /\ pw[2 * (m + 1) + 1] \in Int
        /\ cw[2 * (m + 1) + 1] + 2 <= r[2 * p]
        /\ pw[2 * (m + 1) + 1] + 2 <= r[2 * p + 1]
    <3>1. m + 1 \in 1..(n - 1)
      BY <2>1
    <3> QED
      BY <2>3, <3>1 DEF RowRooms
  <2>5. r[2 * p] \in Nat /\ r[2 * p + 1] \in Nat
    <3>1. 2 * p \in 2..(2 * n + 1) /\ 2 * p + 1 \in 2..(2 * n + 1)
      OBVIOUS
    <3> QED
      BY <3>1 DEF RowRooms
  <2>6. /\ gc[2 * m + 1] \in Int /\ gp[2 * m + 1] \in Int
        /\ gc[2 * m + 2] \in Int /\ gp[2 * m + 2] \in Int
        /\ gc[2 * m + 3] \in Int /\ gp[2 * m + 3] \in Int
    <3>1. /\ 2 * m + 1 \in 0..(2 * n - 1) /\ 2 * m + 2 \in 0..(2 * n - 1)
          /\ 2 * m + 3 \in 0..(2 * n - 1)
      BY <2>1
    <3> QED
      BY <1>2, <1>1, <3>1
  <2>7. gc[2 * m + 2] <= gc[2 * m + 1] + 1
    <3>1. 2 * m + 2 \in 1..(2 * n - 1) /\ 2 * m + 2 - 1 = 2 * m + 1 /\ 2 * (m + 1) = 2 * m + 2
      BY <2>1
    <3>2. gc[2 * m + 2] = IF 2 * m + 2 < 3 THEN 0 ELSE gc[2 * m + 1] + cw[2 * m + 2]
      BY <3>1 DEF Adds
    <3>3. CASE m = 0
      <4>1. gc[1] = 0
        <5>1. 1 \in 1..(2 * n - 1) /\ 1 < 3
          OBVIOUS
        <5> QED
          BY <5>1 DEF Adds
      <4>2. 2 * m + 2 < 3 /\ 2 * m + 1 = 1
        BY <3>3
      <4> QED
        BY <3>2, <4>1, <4>2
    <3>4. CASE m # 0
      <4>1. ~(2 * m + 2 < 3)
        BY <3>4
      <4>2. gc[2 * m + 2] = gc[2 * m + 1] + cw[2 * m + 2] /\ cw[2 * m + 2] = 1
        BY <2>4, <3>1, <3>2, <4>1
      <4> QED
        BY <2>6, <4>2
    <3> QED
      BY <3>3, <3>4
  <2>8. gp[2 * m + 2] = gp[2 * m + 1] + 1
    <3>1. 2 * m + 2 \in 1..(2 * n - 1) /\ 2 * m + 2 - 1 = 2 * m + 1 /\ 2 * (m + 1) = 2 * m + 2
          /\ ~(2 * m + 2 < 1)
      BY <2>1
    <3>2. gp[2 * m + 2] = gp[2 * m + 1] + pw[2 * m + 2]
      BY <3>1 DEF Adds
    <3> QED
      BY <2>4, <3>1, <3>2
  <2>9. /\ gc[2 * m + 3] = gc[2 * m + 2] + cw[2 * m + 3]
        /\ gp[2 * m + 3] = gp[2 * m + 2] + pw[2 * m + 3]
    <3>1. /\ 2 * m + 3 \in 1..(2 * n - 1) /\ 2 * m + 3 - 1 = 2 * m + 2
          /\ ~(2 * m + 3 < 1) /\ ~(2 * m + 3 < 3)
      BY <2>1
    <3>2. gc[2 * m + 3] = gc[2 * m + 2] + cw[2 * m + 3]
      BY <3>1 DEF Adds
    <3>3. gp[2 * m + 3] = gp[2 * m + 2] + pw[2 * m + 3]
      BY <3>1 DEF Adds
    <3> QED
      BY <3>2, <3>3
  <2>10. 2 * (m + 1) + 1 = 2 * m + 3
    OBVIOUS
  <2>11. room(m) \in Int /\ room(m + 1) \in Int
    <3>1. /\ 2 * m + 1 \in 0..(2 * n + 1) /\ 2 * m + 3 \in 0..(2 * n + 1)
          /\ 2 * (m + 1) + 1 \in 0..(2 * n + 1) /\ 2 * (m + 1) + 3 \in 0..(2 * n + 1)
          /\ 2 * d + 1 \in 2..(2 * n + 1)
      BY <2>1
    <3>2. /\ gr[2 * m + 1] \in Int /\ gr[2 * m + 3] \in Int /\ r[2 * d + 1] \in Nat
          /\ gr[2 * (m + 1) + 1] \in Int /\ gr[2 * (m + 1) + 3] \in Int
      BY <1>2, <1>1, <3>1
    <3> QED
      BY <3>2
  <2>12. gc[2 * m + 3] + gp[2 * m + 3] + 2 <= room(m) + r[2 * p] + r[2 * p + 1]
    <3>1. PICK a \in Int : a = room(m)
      BY <2>11
    <3>2. PICK c \in Int, q \in Int : c = cw[2 * m + 3] /\ q = pw[2 * m + 3]
      BY <2>4, <2>10
    <3>3. c + 2 <= r[2 * p] /\ q + 2 <= r[2 * p + 1]
      BY <2>4, <2>10, <3>2
    <3> HIDE DEF room
    <3> QED
      BY <2>2, <2>5, <2>6, <2>7, <2>8, <2>9, <3>1, <3>2, <3>3
  <2>13. room(m) + r[2 * p] + r[2 * p + 1] <= room(m + 1)
    <3>1. CASE m + 1 < d
      <4>1. p = m + 1 /\ m + 1 \in 1..n /\ 2 * (m + 1) - 1 = 2 * m + 1 /\ m < d
        BY <2>1, <2>3, <3>1 DEF RowPair
      <4>2. gr[2 * (m + 1) + 1] = gr[2 * m + 1] + r[2 * p] + r[2 * p + 1]
        BY <1>4, <4>1
      <4>3. room(m) = gr[2 * m + 1] + r[2 * d + 1]
        BY <4>1
      <4>4. room(m + 1) = gr[2 * (m + 1) + 1] + r[2 * d + 1]
        BY <3>1
      <4>5. gr[2 * m + 1] \in Int /\ r[2 * d + 1] \in Nat
        <5>1. 2 * m + 1 \in 0..(2 * n + 1) /\ 2 * d + 1 \in 2..(2 * n + 1)
          BY <2>1
        <5> QED
          BY <1>2, <1>1, <5>1
      <4> HIDE DEF room
      <4> QED
        BY <2>5, <4>2, <4>3, <4>4, <4>5
    <3>2. CASE m + 1 = d
      <4>1. /\ p = m + 2 /\ m + 1 \in 1..n /\ m + 2 \in 1..n /\ m < d /\ ~(m + 1 < d)
            /\ 2 * (m + 1) - 1 = 2 * m + 1 /\ 2 * (m + 2) - 1 = 2 * (m + 1) + 1
            /\ 2 * (m + 1) + 3 = 2 * (m + 2) + 1
        BY <2>1, <2>3, <3>2 DEF RowPair
      <4>2. gr[2 * (m + 1) + 1] = gr[2 * m + 1] + r[2 * (m + 1)] + r[2 * (m + 1) + 1]
        BY <1>4, <4>1
      <4>3. gr[2 * (m + 2) + 1] = gr[2 * (m + 1) + 1] + r[2 * (m + 2)] + r[2 * (m + 2) + 1]
        BY <1>4, <4>1
      <4>4. room(m) = gr[2 * m + 1] + r[2 * (m + 1) + 1]
        BY <3>2, <4>1
      <4>5. room(m + 1) = gr[2 * (m + 2) + 1]
        BY <4>1
      <4>6. gr[2 * m + 1] \in Int /\ r[2 * (m + 1)] \in Nat /\ r[2 * (m + 1) + 1] \in Nat
        <5>1. /\ 2 * m + 1 \in 0..(2 * n + 1) /\ 2 * (m + 1) \in 2..(2 * n + 1)
              /\ 2 * (m + 1) + 1 \in 2..(2 * n + 1)
          BY <2>1
        <5> QED
          BY <1>2, <1>1, <5>1
      <4>7. r[2 * (m + 2)] = r[2 * p] /\ r[2 * (m + 2) + 1] = r[2 * p + 1]
        BY <4>1
      <4> HIDE DEF room
      <4> QED
        BY <2>5, <4>2, <4>3, <4>4, <4>5, <4>6, <4>7
    <3>3. CASE m + 1 > d
      <4>1. /\ p = m + 2 /\ m + 2 \in 1..n /\ ~(m < d) /\ ~(m + 1 < d)
            /\ 2 * (m + 2) - 1 = 2 * m + 3 /\ 2 * (m + 1) + 3 = 2 * (m + 2) + 1
        BY <2>1, <2>3, <3>3 DEF RowPair
      <4>2. gr[2 * (m + 2) + 1] = gr[2 * m + 3] + r[2 * (m + 2)] + r[2 * (m + 2) + 1]
        BY <1>4, <4>1
      <4>3. room(m) = gr[2 * m + 3] /\ room(m + 1) = gr[2 * (m + 2) + 1]
        BY <4>1
      <4>4. gr[2 * m + 3] \in Int
        <5>1. 2 * m + 3 \in 0..(2 * n + 1)
          BY <2>1
        <5> QED
          BY <1>2, <1>1, <5>1
      <4>5. r[2 * (m + 2)] = r[2 * p] /\ r[2 * (m + 2) + 1] = r[2 * p + 1]
        BY <4>1
      <4> HIDE DEF room
      <4> QED
        BY <2>5, <4>2, <4>3, <4>4, <4>5
    <3> QED
      BY <3>1, <3>2, <3>3
  <2> HIDE DEF room
  <2> QED
    BY <2>5, <2>6, <2>10, <2>11, <2>12, <2>13
<1> HIDE DEF T
<1>7. n - 1 \in T
  <2>1. n - 1 \in Nat
    OBVIOUS
  <2> QED
    BY <1>5, <1>6, <2>1, Induction
<1>8. gc[2 * n - 1] + gp[2 * n - 1] + 2 <= room(n - 1)
  <2>1. 2 * (n - 1) + 1 = 2 * n - 1 /\ n - 1 < n
    OBVIOUS
  <2> HIDE DEF room
  <2> QED
    BY <1>7, <2>1 DEF T
<1>9. room(n - 1) <= gr[2 * n + 1] /\ room(n - 1) \in Int
  <2>1. /\ gr[2 * n - 1] \in Int /\ gr[2 * n + 1] \in Int
        /\ r[2 * n] \in Nat /\ r[2 * n + 1] \in Nat
    <3>1. /\ 2 * n - 1 \in 0..(2 * n + 1) /\ 2 * n + 1 \in 0..(2 * n + 1)
          /\ 2 * n \in 2..(2 * n + 1) /\ 2 * n + 1 \in 2..(2 * n + 1)
      OBVIOUS
    <3> QED
      BY <1>2, <1>1, <3>1
  <2>2. gr[2 * n + 1] = gr[2 * n - 1] + r[2 * n] + r[2 * n + 1]
    BY <1>4
  <2>3. CASE n - 1 < d
    <3>1. d = n /\ 2 * (n - 1) + 1 = 2 * n - 1
      BY <2>3
    <3>2. room(n - 1) = gr[2 * n - 1] + r[2 * n + 1]
      BY <2>3, <3>1
    <3> HIDE DEF room
    <3> QED
      BY <2>1, <2>2, <3>2
  <2>4. CASE ~(n - 1 < d)
    <3>1. 2 * (n - 1) + 3 = 2 * n + 1
      OBVIOUS
    <3>2. room(n - 1) = gr[2 * n + 1]
      BY <2>4, <3>1
    <3> HIDE DEF room
    <3> QED
      BY <2>1, <3>2
  <2> QED
    BY <2>3, <2>4
<1>10. gc[2 * n - 1] \in Int /\ gp[2 * n - 1] \in Int /\ gr[2 * n + 1] \in Int
  <2>1. 2 * n - 1 \in 0..(2 * n - 1) /\ 2 * n + 1 \in 0..(2 * n + 1)
    OBVIOUS
  <2> QED
    BY <1>1, <2>1
<1> HIDE DEF room
<1> QED
  BY <1>8, <1>9, <1>10

(* An item is no longer than the room of its packet. *)
LEMMA ItemWidth ==
    ASSUME NEW k, k.type = PacketString, Len(k.text) \in Nat, k.escapes \in 0..Len(k.text),
           NEW q \in BOOLEAN
    PROVE  Width(Item(k, q)) \in Int /\ Room(k) \in Nat /\ Width(Item(k, q)) + 2 <= Room(k)
<1>1. PICK l \in Nat : l = Len(k.text)
  OBVIOUS
<1>2. PICK e \in 0..l : e = k.escapes
  BY <1>1
<1>3. Room(k) = 2 * (l + 1) + 2
  BY <1>1 DEF Room, PacketString, PacketNumeric
<1>4. Width(Item(k, q)) = l + e - 0 + (IF q THEN 2 ELSE 0)
  <2>1. /\ Item(k, q).text = k.text /\ Item(k, q).escapes = k.escapes /\ Item(k, q).cut = 0
        /\ Item(k, q).quoted = q
    BY ItemFields
  <2> QED
    BY <1>1, <1>2, <2>1 DEF Width
<1> QED
  BY <1>3, <1>4

LEMMA CommaWidth == Width(Comma) = 1
<1>1. Comma.text = "," /\ Comma.cut = 0 /\ Comma.escapes = 0 /\ Comma.quoted = FALSE
  BY CommaItem
<1>2. Len(Comma.text) = 1
  BY <1>1, CommaAssumption DEF CommaAssumption
<1>3. Width(Comma) = 1 + 0 - 0 + 0
  BY <1>1, <1>2 DEF Width
<1> QED
  BY <1>3

(* What the rows are. *)
LEMMA RowsAre ==
    ASSUME NEW list, Dated(list)
    PROVE  /\ NbPairs(list) \in Nat \ {0} /\ DatePair(list) \in 1..NbPairs(list)
           /\ Len(list) = 2 * NbPairs(list) + 1
           /\ \A i \in 2..(2 * NbPairs(list) + 1) :
                /\ list[i].type = PacketString /\ Len(list[i].text) \in Nat
                /\ list[i].escapes \in 0..Len(list[i].text)
           /\ ColumnRows(list)[0] = TimeItem
           /\ PointRows(list)[0] = Item(list[2 * DatePair(list) + 1], FALSE)
           /\ \A m \in 1..(NbPairs(list) - 1) : \A p \in 1..NbPairs(list) :
                p = RowPair(DatePair(list), m) =>
                  /\ ColumnRows(list)[m] = Item(list[2 * p], TRUE)
                  /\ PointRows(list)[m] = Item(list[2 * p + 1], list[2 * p].text \notin Bare)
<1> DEFINE n == NbPairs(list)
           d == DatePair(list)
<1>1. n \in Nat \ {0} /\ d \in 1..n /\ Cdtime(list) = 2 * d + 1 /\ Len(list) = 2 * n + 1
  BY DEF Dated, Texts
<1>2. ASSUME NEW i \in 2..(2 * n + 1)
      PROVE  /\ list[i].type = PacketString /\ Len(list[i].text) \in Nat
             /\ list[i].escapes \in 0..Len(list[i].text)
  <2>1. i \in 2..Len(list) /\ i \in 1..Len(list)
    BY <1>1
  <2> QED
    BY <2>1 DEF Dated, Texts
<1>3. ColumnRows(list)[0] = TimeItem /\ PointRows(list)[0] = Item(list[2 * d + 1], FALSE)
  <2>1. 0 \in 0..(n - 1)
    BY <1>1
  <2> QED
    BY <1>1, <2>1 DEF ColumnRows, PointRows
<1>4. ASSUME NEW m \in 1..(n - 1), NEW p \in 1..n, p = RowPair(d, m)
      PROVE  /\ ColumnRows(list)[m] = Item(list[2 * p], TRUE)
             /\ PointRows(list)[m] = Item(list[2 * p + 1], list[2 * p].text \notin Bare)
  <2>1. m \in 0..(n - 1) /\ m # 0
    BY <1>1
  <2> QED
    BY <1>4, <2>1 DEF ColumnRows, PointRows
<1> QED
  BY <1>1, <1>2, <1>3, <1>4

(* The text and the room of each. *)
LEMMA RowsHold ==
    ASSUME NEW list, Dated(list)
    PROVE  /\ ColumnRows(list)[0].text = "time"
           /\ PointRows(list)[0].text = list[2 * DatePair(list) + 1].text
           /\ Width(PointRows(list)[0]) \in Int
           /\ Width(PointRows(list)[0]) + 2 <= Room(list[2 * DatePair(list) + 1])
           /\ \A m \in 1..(NbPairs(list) - 1) : \A p \in 1..NbPairs(list) :
                p = RowPair(DatePair(list), m) =>
                  /\ ColumnRows(list)[m].text = list[2 * p].text
                  /\ PointRows(list)[m].text = list[2 * p + 1].text
                  /\ Width(ColumnRows(list)[m]) \in Int /\ Width(PointRows(list)[m]) \in Int
                  /\ Width(ColumnRows(list)[m]) + 2 <= Room(list[2 * p])
                  /\ Width(PointRows(list)[m]) + 2 <= Room(list[2 * p + 1])
<1> DEFINE n == NbPairs(list)
           d == DatePair(list)
<1>1. n \in Nat \ {0} /\ d \in 1..n
  BY RowsAre
<1>2. \A i \in 2..(2 * n + 1) : /\ list[i].type = PacketString /\ Len(list[i].text) \in Nat
                                /\ list[i].escapes \in 0..Len(list[i].text)
  BY RowsAre
<1>3. ASSUME NEW p \in 1..n
      PROVE  2 * p \in 2..(2 * n + 1) /\ 2 * p + 1 \in 2..(2 * n + 1)
  BY <1>1
<1>4. ColumnRows(list)[0].text = "time"
  <2>1. Item(Text("time"), TRUE).text = Text("time").text
    BY ItemFields
  <2>2. Text("time").text = "time"
    BY DEF Text, EscapedText
  <2>3. ColumnRows(list)[0] = Item(Text("time"), TRUE)
    BY RowsAre DEF TimeItem
  <2> QED
    BY <2>1, <2>2, <2>3
<1>5. /\ PointRows(list)[0].text = list[2 * d + 1].text
      /\ Width(PointRows(list)[0]) \in Int
      /\ Width(PointRows(list)[0]) + 2 <= Room(list[2 * d + 1])
  <2>1. /\ list[2 * d + 1].type = PacketString /\ Len(list[2 * d + 1].text) \in Nat
        /\ list[2 * d + 1].escapes \in 0..Len(list[2 * d + 1].text)
    BY <1>1, <1>2, <1>3
  <2>2. PointRows(list)[0] = Item(list[2 * d + 1], FALSE)
    BY RowsAre
  <2> QED
    BY <2>1, <2>2, ItemFields, ItemWidth
<1>6. ASSUME NEW m \in 1..(n - 1), NEW p \in 1..n, p = RowPair(d, m)
      PROVE  /\ ColumnRows(list)[m].text = list[2 * p].text
             /\ PointRows(list)[m].text = list[2 * p + 1].text
             /\ Width(ColumnRows(list)[m]) \in Int /\ Width(PointRows(list)[m]) \in Int
             /\ Width(ColumnRows(list)[m]) + 2 <= Room(list[2 * p])
             /\ Width(PointRows(list)[m]) + 2 <= Room(list[2 * p + 1])
  <2>1. PICK q \in BOOLEAN : q = (list[2 * p].text \notin Bare)
    OBVIOUS
  <2>2. /\ ColumnRows(list)[m] = Item(list[2 * p], TRUE)
        /\ PointRows(list)[m] = Item(list[2 * p + 1], q)
    BY <1>6, <2>1, RowsAre
  <2>3. 2 * p \in 2..(2 * n + 1) /\ 2 * p + 1 \in 2..(2 * n + 1)
    BY <1>3
  <2>4. /\ Width(Item(list[2 * p], TRUE)) \in Int
        /\ Width(Item(list[2 * p], TRUE)) + 2 <= Room(list[2 * p])
    BY <1>2, <2>3, ItemWidth
  <2>5. /\ Width(Item(list[2 * p + 1], q)) \in Int
        /\ Width(Item(list[2 * p + 1], q)) + 2 <= Room(list[2 * p + 1])
    BY <1>2, <2>3, ItemWidth
  <2>6. Item(list[2 * p], TRUE).text = list[2 * p].text
    BY ItemFields
  <2>7. Item(list[2 * p + 1], q).text = list[2 * p + 1].text
    BY ItemFields
  <2> QED
    BY <2>2, <2>4, <2>5, <2>6, <2>7
<1> QED
  BY <1>4, <1>5, <1>6

(* Without quotes, only texts that are neither empty nor a comma. *)
LEMMA PlainInFull ==
    ASSUME NEW list, Dated(list), Plain(list), list[2 * DatePair(list)].text = "cdtime"
    PROVE  \A m \in 0..(NbPairs(list) - 1) :
              InFull(ColumnRows(list)[m]) /\ InFull(PointRows(list)[m])
<1> DEFINE n == NbPairs(list)
           d == DatePair(list)
<1>1. n \in Nat \ {0} /\ d \in 1..n /\ Len(list) = 2 * n + 1
  BY RowsAre
<1>2. ASSUME NEW p \in 1..n, list[2 * p].text \in Bare \cup {"cdtime"}
      PROVE  list[2 * p + 1].text \notin {"", Comma.text}
  <2>1. PICK i \in 2..Len(list) : i = 2 * p + 1 /\ i % 2 = 1 /\ i - 1 = 2 * p
    <3>1. 2 * p + 1 \in 2..(2 * n + 1) /\ 2 * p + 1 - 1 = 2 * p /\ (2 * p + 1) % 2 = 1
      BY <1>1
    <3> QED
      BY <1>1, <3>1
  <2>2. list[i - 1].text \in Bare \cup {"cdtime"}
    BY <1>2, <2>1
  <2>3. list[i].text \notin {"", Comma.text}
    BY <2>1, <2>2 DEF Plain
  <2> QED
    BY <2>1, <2>3
<1>3. InFull(ColumnRows(list)[0])
  <2>1. InFull(Item(Text("time"), TRUE))
    BY NoComma
  <2> QED
    BY <2>1, RowsAre DEF TimeItem
<1>4. InFull(PointRows(list)[0])
  <2>1. list[2 * d].text \in Bare \cup {"cdtime"}
    OBVIOUS
  <2>2. list[2 * d + 1].text \notin {"", Comma.text}
    BY <1>1, <1>2, <2>1
  <2>3. InFull(Item(list[2 * d + 1], FALSE))
    BY <2>2, NoComma
  <2> QED
    BY <2>3, RowsAre
<1>5. ASSUME NEW m \in 1..(n - 1)
      PROVE  InFull(ColumnRows(list)[m]) /\ InFull(PointRows(list)[m])
  <2>1. PICK p \in 1..n : p = RowPair(d, m)
    <3>1. m \in 0..(n - 1)
      BY <1>1
    <3> QED
      BY <1>1, <3>1, RowStep
  <2>2. PICK q \in BOOLEAN : q = (list[2 * p].text \notin Bare)
    OBVIOUS
  <2>3. ~q => list[2 * p + 1].text \notin {"", Comma.text}
    BY <1>2, <2>2
  <2>4. InFull(Item(list[2 * p + 1], q)) /\ InFull(Item(list[2 * p], TRUE))
    BY <2>3, NoComma
  <2>5. /\ ColumnRows(list)[m] = Item(list[2 * p], TRUE)
        /\ PointRows(list)[m] = Item(list[2 * p + 1], q)
    BY <2>1, <2>2, RowsAre
  <2> QED
    BY <2>4, <2>5
<1> QED
  <2>1. \A m \in 0..(n - 1) : m = 0 \/ m \in 1..(n - 1)
    BY <1>1
  <2> QED
    BY <1>3, <1>4, <1>5, <2>1

(* The value that a field is, and the place of it. *)
LEMMA FieldValue ==
    ASSUME NEW list, Texts(list), NEW names, Field(list, names) # 0
    PROVE  /\ Field(list, names) \in 2..Len(list)
           /\ LastOf(Pairs(list), names) = list[Field(list, names)].text
<1>1. PICK p \in 1..NbPairs(list) :
         /\ Field(list, names) = 2 * p + 1
         /\ LastPair(Pairs(list), names) = p
  BY FieldIsLast
<1>2. NbPairs(list) \in Nat /\ Len(list) = 2 * NbPairs(list) + 1
  BY DEF Texts
<1>3. Pairs(list)[p] = <<list[2 * p].text, list[2 * p + 1].text>>
  BY DEF Pairs, NbPairs
<1>4. LastOf(Pairs(list), names) = Pairs(list)[p][2]
  BY <1>1 DEF LastOf, LastPair, SelectLastInSeq
<1>5. LastOf(Pairs(list), names) = list[2 * p + 1].text
  BY <1>3, <1>4
<1>6. 2 * p + 1 \in 2..Len(list)
  BY <1>2
<1> QED
  BY <1>1, <1>5, <1>6

(* It has a date, which comes after its key. *)
LEMMA TextHashDated ==
    ASSUME NEW list, TextHash(list)
    PROVE  /\ Dated(list) /\ NbPairs(list) \in Nat \ {0}
           /\ list[2 * DatePair(list)].text = "cdtime"
           /\ SelectLastInSeq(Pairs(list), LAMBDA q : q[1] = "cdtime") = DatePair(list)
<1>1. Texts(list) /\ NbPairs(list) \in Nat \ {0}
  BY TextHashTexts
<1>2. Field(list, {"cdtime"}) # 0
  BY DEF TextHash, Complete, Cdtime
<1>3. PICK p \in 1..NbPairs(list) :
         /\ Field(list, {"cdtime"}) = 2 * p + 1
         /\ list[2 * p].text \in {"cdtime"}
         /\ LastPair(Pairs(list), {"cdtime"}) = p
  BY <1>1, <1>2, FieldIsLast
<1>4. DatePair(list) = p
  <2>1. (2 * p + 1 - 1) \div 2 = p
    OBVIOUS
  <2> QED
    BY <1>3, <2>1 DEF DatePair, Cdtime
<1>5. SelectLastInSeq(Pairs(list), LAMBDA q : q[1] = "cdtime") = p
  <2>1. {j \in 1..Len(Pairs(list)) : Pairs(list)[j][1] \in {"cdtime"}}
          = {j \in 1..Len(Pairs(list)) : Pairs(list)[j][1] = "cdtime"}
    OBVIOUS
  <2> QED
    BY <1>3, <2>1 DEF LastPair, SelectLastInSeq
<1> QED
  BY <1>1, <1>3, <1>4, <1>5 DEF Dated, Cdtime

(* What is written fits in what was allocated. *)
LEMMA TextHashFits == ASSUME NEW list, TextHash(list) PROVE Written(list) <= Allocated(list)
<1> DEFINE n == NbPairs(list)
           d == DatePair(list)
           c == Columns(list)
           p == Points(list)
           r == [i \in 1..Len(list) |-> Room(list[i])]
           cw == [i \in 1..Len(c) |-> Width(c[i])]
           pw == [i \in 1..Len(p) |-> Width(p[i])]
<1>1. /\ n \in Nat \ {0} /\ d \in 1..n /\ Len(list) = 2 * n + 1
      /\ Dated(list)
  BY TextHashDated DEF Dated, Texts
<1>2. /\ Len(c) = 2 * n - 1
      /\ \A i \in 1..(2 * n - 1) : i % 2 = 0 => c[i] = Comma
      /\ \A m \in 0..(n - 1) : c[2 * m + 1] = ColumnRows(list)[m]
  BY <1>1, ColumnsAreRows, BetweenRows
<1>3. /\ Len(p) = 2 * n - 1
      /\ \A i \in 1..(2 * n - 1) : i % 2 = 0 => p[i] = Comma
      /\ \A m \in 0..(n - 1) : p[2 * m + 1] = PointRows(list)[m]
  BY <1>1, PointsAreRows, BetweenRows
<1> HIDE DEF c, p
<1>4. ASSUME NEW i \in 2..(2 * n + 1) PROVE r[i] \in Nat /\ r[i] = Room(list[i])
  <2>1. i \in 2..Len(list) /\ i \in 1..Len(list)
    BY <1>1
  <2>2. /\ list[i].type = PacketString /\ Len(list[i].text) \in Nat
        /\ list[i].escapes \in 0..Len(list[i].text)
    BY <1>1, <2>1 DEF Dated, Texts
  <2>3. Room(list[i]) \in Nat
    BY <2>2, ItemWidth
  <2> QED
    BY <2>1, <2>3
<1>5. ASSUME NEW m \in 1..(n - 1)
      PROVE  /\ cw[2 * m] = 1 /\ pw[2 * m] = 1
             /\ cw[2 * m + 1] \in Int /\ pw[2 * m + 1] \in Int
             /\ cw[2 * m + 1] + 2 <= r[2 * RowPair(d, m)]
             /\ pw[2 * m + 1] + 2 <= r[2 * RowPair(d, m) + 1]
  <2>1. /\ 2 * m \in 1..(2 * n - 1) /\ (2 * m) % 2 = 0 /\ 2 * m + 1 \in 1..(2 * n - 1)
        /\ m \in 0..(n - 1)
    BY <1>1
  <2>2. c[2 * m] = Comma /\ p[2 * m] = Comma
    BY <1>2, <1>3, <2>1
  <2>3. cw[2 * m] = 1 /\ pw[2 * m] = 1
    BY <1>2, <1>3, <2>1, <2>2, CommaWidth
  <2>4. cw[2 * m + 1] = Width(ColumnRows(list)[m]) /\ pw[2 * m + 1] = Width(PointRows(list)[m])
    BY <1>2, <1>3, <2>1
  <2>5. PICK h \in 1..n : h = RowPair(d, m)
    BY <1>1, <2>1, RowStep
  <2>6. /\ Width(ColumnRows(list)[m]) \in Int /\ Width(PointRows(list)[m]) \in Int
        /\ Width(ColumnRows(list)[m]) + 2 <= Room(list[2 * h])
        /\ Width(PointRows(list)[m]) + 2 <= Room(list[2 * h + 1])
    BY <1>1, <2>5, RowsHold
  <2>7. r[2 * h] = Room(list[2 * h]) /\ r[2 * h + 1] = Room(list[2 * h + 1])
    <3>1. 2 * h \in 2..(2 * n + 1) /\ 2 * h + 1 \in 2..(2 * n + 1)
      BY <1>1
    <3> QED
      BY <1>4, <3>1
  <2> HIDE DEF cw, pw, r
  <2> QED
    BY <2>3, <2>4, <2>5, <2>6, <2>7
<1>6. pw[1] \in Int /\ pw[1] + 2 <= r[2 * d + 1]
  <2>1. /\ 0 \in 0..(n - 1) /\ 2 * 0 + 1 = 1 /\ 1 \in 1..(2 * n - 1)
        /\ 2 * d + 1 \in 2..(2 * n + 1)
    BY <1>1
  <2>2. pw[1] = Width(PointRows(list)[0])
    BY <1>3, <2>1
  <2>3. r[2 * d + 1] = Room(list[2 * d + 1])
    BY <1>4, <2>1
  <2>4. /\ Width(PointRows(list)[0]) \in Int
        /\ Width(PointRows(list)[0]) + 2 <= Room(list[2 * d + 1])
    BY <1>1, RowsHold
  <2> HIDE DEF pw, r
  <2> QED
    BY <2>2, <2>3, <2>4
<1> HIDE DEF cw, pw, r
<1>7. PICK gr : Adds(gr, r, 2, 2 * n + 1) /\ Total(r, 2, 2 * n + 1) = gr[2 * n + 1]
  <2>1. 2 * n + 1 \in Nat /\ 2 \in Nat \ {0} /\ \A i \in 1..(2 * n + 1) : i >= 2 => r[i] \in Int
    BY <1>1, <1>4
  <2> QED
    BY <2>1, TotalAdds
<1>8. ASSUME NEW i \in 1..(2 * n - 1)
      PROVE  (i >= 3 => cw[i] \in Int) /\ pw[i] \in Int
  <2>1. \/ i = 1
        \/ \E m \in 1..(n - 1) : i = 2 * m \/ i = 2 * m + 1
    <3>1. CASE i # 1
      <4>1. i \in 2..(2 * (n - 1) + 1) /\ n - 1 \in Nat
        BY <1>1, <3>1
      <4> QED
        BY <4>1, Places
    <3> QED
      BY <3>1
  <2>2. CASE i = 1
    BY <1>6, <2>2
  <2>3. CASE \E m \in 1..(n - 1) : i = 2 * m \/ i = 2 * m + 1
    BY <1>5, <2>3
  <2> QED
    BY <2>1, <2>2, <2>3
<1>9. PICK gc : Adds(gc, cw, 3, 2 * n - 1) /\ Total(cw, 3, 2 * n - 1) = gc[2 * n - 1]
  <2>1. /\ 2 * n - 1 \in Nat /\ 3 \in Nat \ {0}
        /\ \A i \in 1..(2 * n - 1) : i >= 3 => cw[i] \in Int
    BY <1>1, <1>8
  <2> QED
    BY <2>1, TotalAdds
<1>10. PICK gp : Adds(gp, pw, 1, 2 * n - 1) /\ Total(pw, 1, 2 * n - 1) = gp[2 * n - 1]
  <2>1. /\ 2 * n - 1 \in Nat /\ 1 \in Nat \ {0}
        /\ \A i \in 1..(2 * n - 1) : i >= 1 => pw[i] \in Int
    BY <1>1, <1>8
  <2> QED
    BY <2>1, TotalAdds
<1>11. gc[2 * n - 1] + gp[2 * n - 1] + 2 <= gr[2 * n + 1]
  <2> HIDE DEF n, d
  <2>1. RowRooms(n, d, r, cw, pw)
    BY <1>4, <1>5, <1>6 DEF RowRooms
  <2> QED
    BY <1>1, <1>7, <1>9, <1>10, <2>1, RowsFit
<1>12. gc[2 * n - 1] \in Int /\ gp[2 * n - 1] \in Int /\ gr[2 * n + 1] \in Int
  <2>1. 2 * n - 1 \in 0..(2 * n - 1) /\ 2 * n + 1 \in 0..(2 * n + 1)
    BY <1>1
  <2> QED
    BY <1>7, <1>9, <1>10, <2>1 DEF Adds
<1>13. /\ Hostname(list) \in 1..Len(list) /\ Pid(list) \in 1..Len(list)
       /\ Name(list) \in 1..Len(list)
  <2>1. Hostname(list) # 0 /\ Pid(list) # 0 /\ Name(list) # 0
    BY DEF TextHash, Complete
  <2>2. \A names : Field(list, names) # 0 => Field(list, names) \in 1..Len(list)
    BY <1>1, FieldValue DEF Dated
  <2> QED
    BY <2>1, <2>2 DEF Hostname, Pid, Name
<1>14. ASSUME NEW i \in 1..Len(list)
       PROVE  Len(list[i].text) \in Nat /\ list[i].escapes \in Nat
  BY <1>1 DEF Dated, Texts
<1>15. PICK h \in Nat, he \in Nat :
          h = Len(list[Hostname(list)].text) /\ he = list[Hostname(list)].escapes
  BY <1>13, <1>14
<1>16. PICK i \in Nat, ie \in Nat :
          i = Len(list[Pid(list)].text) /\ ie = list[Pid(list)].escapes
  BY <1>13, <1>14
<1>17. PICK m \in Nat, me \in Nat :
          m = Len(list[Name(list)].text) /\ me = list[Name(list)].escapes
  BY <1>13, <1>14
<1>18. Allocated(list) = 45 + 1 + gr[2 * n + 1] + (i + ie + 2) + (m + me + 2) + (h + he + 2) + 3
  <2>1. Total([j \in 1..Len(list) |-> Room(list[j])], 2, Len(list)) = gr[2 * n + 1]
    BY <1>1, <1>7 DEF r
  <2> QED
    BY <1>15, <1>16, <1>17, <2>1 DEF Allocated, FixedSize, Escaped
<1>19. Written(list) = 45 + 1 + (h + he) + (i + ie) + (m + me) + 4
                         + gc[2 * n - 1] + gp[2 * n - 1]
  <2>1. Total([j \in 1..Len(c) |-> Width(c[j])], 3, Len(c)) = gc[2 * n - 1]
    BY <1>2, <1>9 DEF cw
  <2>2. Total([j \in 1..Len(p) |-> Width(p[j])], 1, Len(p)) = gp[2 * n - 1]
    BY <1>3, <1>10 DEF pw
  <2> QED
    BY <1>15, <1>16, <1>17, <2>1, <2>2 DEF Written, FixedSize, c, p
<1> QED
  BY <1>11, <1>12, <1>18, <1>19

(* The rows of the series of a sample. *)
LEMMA SampleRows ==
    ASSUME NEW list \in Sample
    PROVE  LET c == Columns(list) p == Points(list)
           IN  /\ Separated(c) /\ Separated(p) /\ Len(c) = Len(p)
               /\ [i \in 1..((Len(c) + 1) \div 2) |-> <<c[2 * i - 1].text, p[2 * i - 1].text>>]
                    = Expected[list].rows
<1> DEFINE n == NbPairs(list)
           d == DatePair(list)
           c == Columns(list)
           p == Points(list)
           all == Pairs(list)
           first == <<"time", list[2 * d + 1].text>>
           S == {first} \cup {all[j] : j \in 1..n}
           rows == [i \in 1..n |-> <<c[2 * i - 1].text, p[2 * i - 1].text>>]
           wanted == <<first>> \o RemoveAt(all, d)
<1>1. /\ n \in Nat \ {0} /\ d \in 1..n /\ Dated(list) /\ Plain(list)
      /\ list[2 * d].text = "cdtime"
  BY SampleIsTextHash, TextHashDated DEF Dated
<1>2. \A m \in 0..(n - 1) : InFull(ColumnRows(list)[m]) /\ InFull(PointRows(list)[m])
  BY <1>1, PlainInFull
<1>3. /\ Len(c) = 2 * n - 1 /\ Separated(c)
      /\ \A m \in 0..(n - 1) : c[2 * m + 1] = ColumnRows(list)[m]
  BY <1>1, <1>2, ColumnsAreRows, BetweenRows, BetweenSeparated
<1>4. /\ Len(p) = 2 * n - 1 /\ Separated(p)
      /\ \A m \in 0..(n - 1) : p[2 * m + 1] = PointRows(list)[m]
  BY <1>1, <1>2, PointsAreRows, BetweenRows, BetweenSeparated
<1> HIDE DEF c, p
<1>5. /\ all \in Seq(S) /\ Len(all) = n
      /\ \A j \in 1..n : all[j] = <<list[2 * j].text, list[2 * j + 1].text>>
  <2>1. all = [j \in 1..n |-> <<list[2 * j].text, list[2 * j + 1].text>>]
    BY DEF Pairs, NbPairs
  <2>2. \A j \in 1..n : all[j] \in S
    OBVIOUS
  <2> HIDE DEF all, S
  <2>3. Len(all) = n /\ \A j \in 1..n : all[j] = <<list[2 * j].text, list[2 * j + 1].text>>
    BY <1>1, <2>1
  <2>4. all = [j \in 1..n |-> all[j]]
    BY <2>1
  <2>5. all \in [1..n -> S]
    BY <2>2, <2>4
  <2>6. all \in Seq(S)
    BY <1>1, <2>5
  <2> QED
    BY <2>3, <2>6
<1>6. /\ wanted \in Seq(S) /\ Len(wanted) = n /\ wanted[1] = first
      /\ \A m \in 1..(n - 1) : wanted[m + 1] = all[RowPair(d, m)]
  <2>1. first \in S
    OBVIOUS
  <2> HIDE DEF first, all, S
  <2> QED
    BY <1>1, <1>5, <2>1, OthersAfter
<1>7. Expected[list].rows = wanted
  <2>1. SelectLastInSeq(all, LAMBDA q : q[1] = "cdtime") = d
    BY SampleIsTextHash, TextHashDated
  <2>2. all[d][2] = list[2 * d + 1].text
    BY <1>1, <1>5
  <2>3. Expected[list].rows
          = LET date == SelectLastInSeq(all, LAMBDA q : q[1] = "cdtime")
            IN  <<<<"time", all[date][2]>>>> \o RemoveAt(all, date)
    BY DEF Expected
  <2> QED
    BY <2>1, <2>2, <2>3
<1> HIDE DEF wanted
<1>8. ASSUME NEW i \in 1..n PROVE rows[i] = wanted[i]
  <2>1. PICK m \in 0..(n - 1) : i = m + 1 /\ 2 * i - 1 = 2 * m + 1
    <3>1. i - 1 \in 0..(n - 1) /\ i = (i - 1) + 1 /\ 2 * i - 1 = 2 * (i - 1) + 1
      BY <1>1
    <3> QED
      BY <3>1
  <2>2. rows[i] = <<ColumnRows(list)[m].text, PointRows(list)[m].text>>
    BY <1>3, <1>4, <2>1
  <2>3. CASE m = 0
    <3>1. /\ ColumnRows(list)[0].text = "time"
          /\ PointRows(list)[0].text = list[2 * d + 1].text
      BY <1>1, RowsHold
    <3>2. rows[i] = first /\ i = 1
      BY <2>1, <2>2, <2>3, <3>1
    <3> QED
      BY <1>6, <3>2
  <2>4. CASE m # 0
    <3>1. m \in 1..(n - 1)
      BY <1>1, <2>4
    <3>2. PICK h \in 1..n : h = RowPair(d, m)
      BY <1>1, RowStep
    <3>3. /\ ColumnRows(list)[m].text = list[2 * h].text
          /\ PointRows(list)[m].text = list[2 * h + 1].text
      BY <1>1, <3>1, <3>2, RowsHold
    <3>4. wanted[i] = all[h]
      BY <1>6, <2>1, <3>1, <3>2
    <3> HIDE DEF rows, all
    <3> QED
      BY <1>5, <2>2, <3>3, <3>4
  <2> QED
    BY <2>3, <2>4
<1>9. rows = wanted
  <2>1. wanted = [i \in 1..n |-> wanted[i]]
    <3> HIDE DEF S
    <3> QED
      BY <1>6, LenProperties
  <2>2. rows = [i \in 1..n |-> rows[i]]
    OBVIOUS
  <2> HIDE DEF rows
  <2> QED
    BY <1>8, <2>1, <2>2, Zenon
<1>10. (Len(c) + 1) \div 2 = n
  <2>1. (2 * n - 1 + 1) \div 2 = n
    BY <1>1
  <2> QED
    BY <1>3, <2>1
<1> QED
  BY <1>3, <1>4, <1>7, <1>9, <1>10 DEF c, p

(* The name of the series of a sample. *)
LEMMA SampleName == ASSUME NEW list \in Sample PROVE SeriesName(list) = Expected[list].name
<1> DEFINE all == Pairs(list)
<1>1. Texts(list)
  BY SampleIsTextHash, TextHashTexts
<1>2. Hostname(list) # 0 /\ Pid(list) # 0 /\ Name(list) # 0
  BY DEF Sample, Complete
<1>3. /\ LastOf(all, {"hostname"}) = list[Hostname(list)].text
      /\ LastOf(all, {"PID", "pid"}) = list[Pid(list)].text
      /\ LastOf(all, {"Name"}) = list[Name(list)].text
  BY <1>1, <1>2, FieldValue DEF Hostname, Pid, Name
<1>4. Expected[list].name
        = <<LastOf(all, {"hostname"}), LastOf(all, {"PID", "pid"}), LastOf(all, {"Name"})>>
  BY DEF Expected
<1> QED
  BY <1>3, <1>4 DEF SeriesName

(* A sample is turned into its series. *)
LEMMA SampleSeries ==
    ASSUME NEW list \in Sample
    PROVE  /\ object_buffer_to_json(list).name = SeriesName(list)
           /\ object_buffer_to_json(list).columns = Columns(list)
           /\ object_buffer_to_json(list).points = Points(list)
<1>1. IsHash(list) /\ Complete(list) /\ Written(list) <= Allocated(list)
  BY SampleIsTextHash, TextHashFits DEF TextHash
<1>2. object_buffer_to_json(list)
        = [name |-> SeriesName(list), columns |-> Columns(list), points |-> Points(list)]
  BY <1>1 DEF object_buffer_to_json
<1> QED
  BY <1>2

-----------------------------------------------------------------------------
(* What was posted. *)

(* What was posted of an object is what object_buffer_to_json makes of it. *)
BodyIsJson ==
    \A o \in Object :
        posts[o] > 0 => o <= Len(received) /\ body[o] = Json[received[o]]

LEMMA BodyNext == PoolInv /\ BodyIsJson /\ [Next]_vars => BodyIsJson'
<1> SUFFICES ASSUME PoolInv, BodyIsJson, [Next]_vars PROVE BodyIsJson'
  OBVIOUS
<1>1. Types /\ received \in Seq(Objects) /\ posts \in [Object -> Nat] /\ DOMAIN body = Object
  BY DEF PoolInv, Types, ObjectType
<1>2. CASE Receive
  <2>1. PICK list \in Objects : received' = Append(received, list)
    BY <1>2 DEF Receive
  <2>2. PICK n \in Nat : n = Len(received)
    BY <1>1
  <2>3. Len(received') = n + 1 /\ \A k \in 1..n : received'[k] = received[k]
    BY <1>1, <2>1, <2>2, AppendProperties
  <2>4. UNCHANGED <<posts, body>>
    BY <1>2 DEF Receive, historyVars
  <2>5. ASSUME NEW o \in Object, posts[o] > 0
        PROVE  o <= Len(received') /\ body[o] = Json[received'[o]]
    <3>1. o <= n /\ body[o] = Json[received[o]]
      BY <2>2, <2>5 DEF BodyIsJson
    <3>2. o \in 1..n
      BY <3>1, ObjectIsRank
    <3> QED
      BY <2>3, <3>1, <3>2
  <2> QED
    BY <2>4, <2>5 DEF BodyIsJson
<1>3. ASSUME NEW w \in Worker, Post(w) PROVE BodyIsJson'
  <2>1. pc[w] = "post" /\ pc[w] # "idle"
    BY <1>3 DEF Post
  <2>2. PICK j \in Object : j = job[w]
    BY <1>1, <2>1, HeldIsObject
  <2>3. j <= Len(received)
    <3>1. j <= Given
      BY <2>2 DEF PoolInv, JobsApart
    <3> QED
      BY <1>1, <3>1, ObjectIsRank DEF Given
  <2>4. /\ posts' = [posts EXCEPT ![j] = @ + 1]
        /\ body' = [body EXCEPT ![j] = Json[received[j]]]
        /\ received' = received
    BY <1>3, <2>2 DEF Post, loopVars
  <2>5. ASSUME NEW o \in Object, posts'[o] > 0
        PROVE  o <= Len(received) /\ body'[o] = Json[received[o]]
    <3>1. CASE o = j
      BY <1>1, <2>3, <2>4, <3>1
    <3>2. CASE o # j
      <4>1. posts'[o] = posts[o] /\ body'[o] = body[o]
        BY <1>1, <2>4, <3>2
      <4> QED
        BY <2>5, <4>1 DEF BodyIsJson
    <3> QED
      BY <3>1, <3>2
  <2> QED
    BY <2>4, <2>5 DEF BodyIsJson
<1>4. CASE UNCHANGED <<received, posts, body>>
  BY <1>4 DEF BodyIsJson
<1>5. ASSUME NEW w \in Worker,
             Take(w) \/ EnterInit(w) \/ LeaveInit(w) \/ Free(w) \/ Drop(w) \/ Hang(w)
      PROVE  UNCHANGED <<received, posts, body>>
  BY <1>5 DEF Take, EnterInit, LeaveInit, Free, Drop, Hang, loopVars, historyVars
<1>6. CASE Done \/ UNCHANGED vars
  BY <1>4, <1>6 DEF Done, vars, loopVars, historyVars
<1>7. CASE Push \/ Renew
  BY <1>4, <1>7, PushEffect, RenewEffect, <1>1
<1> QED
  BY <1>2, <1>3, <1>4, <1>5, <1>6, <1>7 DEF Next, HandOver, Run

LEMMA BodyMeans ==
    ASSUME PoolInv, BodyIsJson PROVE SeriesIsTheSample
<1>1. SUFFICES ASSUME NEW o \in 1..Len(received), posts[o] > 0, received[o] \in Sample
               PROVE  LET c == body[o].columns p == body[o].points
                      IN  /\ body[o].name = Expected[received[o]].name
                          /\ Separated(c) /\ Separated(p) /\ Len(c) = Len(p)
                          /\ [i \in 1..((Len(c) + 1) \div 2) |->
                                <<c[2 * i - 1].text, p[2 * i - 1].text>>]
                               = Expected[received[o]].rows
  BY DEF SeriesIsTheSample
<1>2. received \in Seq(Objects) /\ Len(received) <= NObjects /\ Len(received) \in Nat
  BY DEF PoolInv, Types, ObjectType
<1>3. o \in Object
  BY <1>2, PoolAssumption DEF Object, PoolAssumption
<1>4. PICK list \in Sample : list = received[o]
  BY <1>1
<1>5. list \in Objects
  BY DEF Sample
<1>6. body[o] = object_buffer_to_json(list)
  BY <1>1, <1>3, <1>4, <1>5 DEF BodyIsJson, Json
<1>7. /\ body[o].name = SeriesName(list)
      /\ body[o].columns = Columns(list) /\ body[o].points = Points(list)
  BY <1>6, SampleSeries
<1> QED
  BY <1>4, <1>7, SampleName, SampleRows

(* The room that is added up for a hash of texts suffices for what is      *)
(* written of it, however many fields it has, whatever they are and however *)
(* many characters are escaped (object_buffer_to_json, which gives an       *)
(* object up when a text does not fit in the room left, and asserts at the  *)
(* end that everything did).                                                *)
THEOREM RoomSuffices ==
    \A list \in Objects :
        /\ IsHash(list) /\ Complete(list)
        /\ \A i \in 2..Len(list) : list[i].type = PacketString
        => Written(list) <= Allocated(list)
  BY TextHashFits DEF TextHash

(* A sample whose values are texts, those without quotes neither empty nor *)
(* a comma, is posted as the series it says, whatever it has of fields and *)
(* in whatever order, a key twice too: nothing of it is lost, moved to     *)
(* another column or cut, and the room added up for it suffices            *)
(* (object_buffer_to_json, which worker_parser calls).                     *)
THEOREM SeriesIsTheSampleAlways == Spec => []SeriesIsTheSample
<1>1. Init => BodyIsJson
  BY DEF Init, BodyIsJson
<1>2. PoolInv /\ BodyIsJson => SeriesIsTheSample
  BY BodyMeans
<1> QED
  BY <1>1, <1>2, BodyNext, Invariance, PTL DEF Spec
=============================================================================
