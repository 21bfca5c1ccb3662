----------------------------- MODULE WorkerPool -----------------------------
(***************************************************************************)
(* The thread pool of the server: the event loop pushes each object it has *)
(* received and begins another in its place (client_cb), and worker_parser *)
(* (server/src/workers.c) turns it into JSON, posts it to InfluxDB and     *)
(* frees it.  The pool of GLib is a FIFO queue and threads that take from  *)
(* it; the loop and the threads run at the same time, and the threads      *)
(* share the URL that the first of them builds (g_once_init_enter).        *)
(*                                                                         *)
(* An object is known by its rank of reception; what is posted of it is    *)
(* its series, as JsonSeries has it.                                       *)
(*                                                                         *)
(* A definition whose name ends in Mutant is the one that follows it with  *)
(* a bug: no part of the specification, but what a property is tried on.   *)
(***************************************************************************)
EXTENDS JsonSeries, FiniteSets

CONSTANTS
    NObjects,  \* bound: how many objects are received
    Objects,   \* what a received object may be
    Worker,    \* workers.nb_max threads
    MaxHung,   \* bound: how many requests InfluxDB never answers
    MaxDropped \* bound: how many times libcurl has no handle to give

ASSUME PoolAssumption ==
    /\ NObjects \in Nat
    /\ IsFiniteSet(Worker) /\ MaxHung \in Nat /\ MaxHung < Cardinality(Worker)
    /\ MaxDropped \in Nat

(* A hash is pushed once it has a value for every key                      *)
(* (object_buffer_read); no more characters are escaped than there are.    *)
ASSUME ObjectAssumption ==
    \A list \in Objects :
        /\ list \in Seq(Packets) /\ list # <<>>
        /\ list[1].type = PacketHash => Len(list) % 2 = 1
        /\ \A i \in 1..Len(list) :
              Len(list[i].text) \in Nat /\ list[i].escapes \in 0..Len(list[i].text)

VARIABLES
    received, \* the objects that came whole, by rank
    loop,     \* what client_cb does next: "read", "push" or "renew"
    source,   \* w->source: the rank of its object, 0 while it is not whole
    queue,    \* the queue of the pool
    pc,       \* where each thread is in worker_parser
    job,      \* the object of each thread, 0 when it has none
    url,      \* "none", "building" or "built": influxdb_full_url__series
    builder,  \* the threads that ran the initialization
    posts,    \* history: how many times each object was posted
    body,     \* history: what was posted of it
    freed,    \* history: how many times each object was freed
    dropped,  \* history: the objects libcurl had no handle for
    hung      \* threads whose request is never answered

loopVars == <<received, loop, source>>
historyVars == <<posts, body, freed, dropped>>
vars == <<loopVars, queue, pc, job, url, builder, historyVars, hung>>

Object == 1..NObjects

(* object_buffer_to_json keeps nothing from one object to the next. *)
Json == [list \in Objects |-> object_buffer_to_json(list)]

Init ==
    /\ received = <<>> /\ loop = "read" /\ source = 0 /\ queue = <<>>
    /\ pc = [w \in Worker |-> "idle"] /\ job = [w \in Worker |-> 0]
    /\ url = "none" /\ builder = {}
    /\ posts = [o \in Object |-> 0] /\ body = [o \in Object |-> NoJson]
    /\ freed = [o \in Object |-> 0]
    /\ dropped = {} /\ hung = {}

(* The object being read is whole: source->ready. *)
Receive ==
    /\ loop = "read" /\ Len(received) < NObjects
    /\ \E list \in Objects : received' = Append(received, list)
    /\ source' = Len(received) + 1
    /\ loop' = "push"
    /\ UNCHANGED <<queue, pc, job, url, builder, historyVars, hung>>

(* g_thread_pool_push(workers_thread_pool, w->source). *)
Push ==
    /\ loop = "push"
    /\ queue' = Append(queue, source)
    /\ loop' = "renew"
    /\ UNCHANGED <<received, source, pc, job, url, builder, historyVars, hung>>

(* w->source = object_buffer_new(): the loop lets go of what it pushed,    *)
(* which a thread may have freed by now, and reads into another object.    *)
RenewForgottenMutant ==
    /\ loop = "renew"
    /\ source' = source
    /\ loop' = "read"
    /\ UNCHANGED <<received, queue, pc, job, url, builder, historyVars, hung>>

Renew ==
    /\ loop = "renew"
    /\ source' = 0
    /\ loop' = "read"
    /\ UNCHANGED <<received, queue, pc, job, url, builder, historyVars, hung>>

(* The pool calls worker_parser on the object at the head. *)
Take(w) ==
    /\ pc[w] = "idle" /\ queue # <<>>
    /\ job' = [job EXCEPT ![w] = Head(queue)]
    /\ queue' = Tail(queue)
    /\ pc' = [pc EXCEPT ![w] = "init"]
    /\ UNCHANGED <<loopVars, url, builder, historyVars, hung>>

(* g_once_init_enter: the first thread builds the URL, those that come     *)
(* meanwhile wait for it, the others go on.                                *)
EnterInitUnlockedMutant(w) ==
    /\ pc[w] = "init"
    /\ IF url = "none"
       THEN /\ url' = "building" /\ builder' = builder \cup {w}
            /\ pc' = [pc EXCEPT ![w] = "build"]
       ELSE /\ pc' = [pc EXCEPT ![w] = "post"]
            /\ UNCHANGED <<url, builder>>
    /\ UNCHANGED <<loopVars, queue, job, historyVars, hung>>

EnterInit(w) ==
    /\ pc[w] = "init"
    /\ \/ /\ url = "none"
          /\ url' = "building" /\ builder' = builder \cup {w}
          /\ pc' = [pc EXCEPT ![w] = "build"]
       \/ /\ url = "built"
          /\ pc' = [pc EXCEPT ![w] = "post"]
          /\ UNCHANGED <<url, builder>>
    /\ UNCHANGED <<loopVars, queue, job, historyVars, hung>>

(* The URL is there; g_once_init_leave. *)
LeaveInitNeverMutant(w) ==
    /\ pc[w] = "build"
    /\ pc' = [pc EXCEPT ![w] = "post"]
    /\ UNCHANGED <<loopVars, queue, job, url, builder, historyVars, hung>>

LeaveInit(w) ==
    /\ pc[w] = "build"
    /\ url' = "built"
    /\ pc' = [pc EXCEPT ![w] = "post"]
    /\ UNCHANGED <<loopVars, queue, job, builder, historyVars, hung>>

(* worker_influxdb_curl_send up to curl_easy_perform.  What                *)
(* object_buffer_to_json returned is not looked at: without a JSON form,   *)
(* the request is sent all the same.                                       *)
Post(w) ==
    /\ pc[w] = "post"
    /\ posts' = [posts EXCEPT ![job[w]] = @ + 1]
    /\ body' = [body EXCEPT ![job[w]] = Json[received[job[w]]]]
    /\ pc' = [pc EXCEPT ![w] = "answer"]
    /\ UNCHANGED <<loopVars, queue, job, url, builder, freed, dropped, hung>>

(* curl_easy_init returned NULL: worker_influxdb_curl_send logs it and     *)
(* returns.                                                                *)
Drop(w) ==
    /\ pc[w] = "post" /\ Cardinality(dropped) < MaxDropped
    /\ dropped' = dropped \cup {job[w]}
    /\ pc' = [pc EXCEPT ![w] = "free"]
    /\ UNCHANGED <<loopVars, queue, job, url, builder, posts, body, freed, hung>>

(* curl_easy_perform returns, or fails, which is logged and forgotten:     *)
(* either way the object is freed and the thread takes another.            *)
FreeKeepsMutant(w) ==
    /\ pc[w] \in {"answer", "free"} /\ w \notin hung
    /\ freed' = [freed EXCEPT ![job[w]] = @ + 1]
    /\ pc' = [pc EXCEPT ![w] = "idle"]
    /\ UNCHANGED <<loopVars, queue, job, url, builder, posts, body, dropped, hung>>

Free(w) ==
    /\ pc[w] \in {"answer", "free"} /\ w \notin hung
    /\ freed' = [freed EXCEPT ![job[w]] = @ + 1]
    /\ job' = [job EXCEPT ![w] = 0]
    /\ pc' = [pc EXCEPT ![w] = "idle"]
    /\ UNCHANGED <<loopVars, queue, url, builder, posts, body, dropped, hung>>

(* The request is never answered: no timeout is set on it. *)
Hang(w) ==
    /\ pc[w] = "answer" /\ w \notin hung /\ Cardinality(hung) < MaxHung
    /\ hung' = hung \cup {w}
    /\ UNCHANGED <<loopVars, queue, pc, job, url, builder, historyVars>>

Run(w) == Take(w) \/ EnterInit(w) \/ LeaveInit(w) \/ Post(w) \/ Free(w)

Done == Len(received) = NObjects /\ queue = <<>> /\ UNCHANGED vars

HandOver == Push \/ Renew

Next == Receive \/ HandOver \/ (\E w \in Worker : Run(w) \/ Drop(w) \/ Hang(w)) \/ Done

Spec == Init /\ [][Next]_vars

(* The loop and the threads are scheduled, and a request that does not     *)
(* hang is answered or fails.                                              *)
FairSpec == Spec /\ WF_vars(HandOver) /\ \A w \in Worker : WF_vars(Run(w))

-----------------------------------------------------------------------------
(* Properties. *)

(* The type of every variable; a thread has an object when it runs.        *)
TypeOK ==
    /\ received \in Seq(Objects) /\ Len(received) <= NObjects
    /\ loop \in {"read", "push", "renew"} /\ source \in 0..NObjects
    /\ queue \in Seq(Object)
    /\ pc \in [Worker -> {"idle", "init", "build", "post", "answer", "free"}]
    /\ job \in [Worker -> 0..NObjects]
    /\ \A w \in Worker : job[w] = 0 <=> pc[w] = "idle"
    /\ url \in {"none", "building", "built"}
    /\ builder \subseteq Worker
    /\ posts \in [Object -> Nat] /\ DOMAIN body = Object /\ freed \in [Object -> Nat]
    /\ dropped \subseteq Object /\ hung \subseteq Worker

(* An object has one owner.  The loop has it until it pushes it, and when  *)
(* it reads again, into what it has then, that is none of those it gave    *)
(* away; from the push on the object is in the queue once, with one        *)
(* thread, or freed once (client_cb gives it away and renews w->source,    *)
(* worker_parser frees it).                                                *)
OneOwner ==
    \A o \in 1..Len(received) :
        (IF source = o /\ loop # "renew" THEN 1 ELSE 0)
          + Cardinality({k \in 1..Len(queue) : queue[k] = o})
          + Cardinality({w \in Worker : job[w] = o}) + freed[o] = 1

(* An object is posted once before it is freed, or not at all when libcurl *)
(* has no handle for it, never again, and never before the URL it is       *)
(* posted to is complete, which one thread builds, however many come first *)
(* together.                                                               *)
PostedOnceThenFreed ==
    /\ \A o \in Object :
          LET sent == posts[o] + (IF o \in dropped THEN 1 ELSE 0)
          IN  sent <= 1 /\ freed[o] <= sent
    /\ (\E o \in Object : posts[o] > 0) => url = "built"
    /\ \A v, w \in builder : v = w

(* Requests that are never answered hold the threads that wait for them,   *)
(* and nothing else: every other object is posted and freed.               *)
OthersGoOn ==
    \A o \in Object :
        o <= Len(received) ~> freed[o] = 1 \/ \E w \in hung : job[w] = o

(* Texts only, and none of those without quotes is empty or a comma. *)
Plain(list) ==
    \A i \in 2..Len(list) :
        /\ list[i].type = PacketString
        /\ i % 2 = 1 /\ list[i - 1].text \in Bare \cup {"cdtime"}
             => list[i].text \notin {"", Comma.text}

Sample == {list \in Objects : IsHash(list) /\ Plain(list) /\ Complete(list)}

(* The keys and the values of a hash, in order. *)
Pairs(list) ==
    [i \in 1..((Len(list) - 1) \div 2) |-> <<list[2 * i].text, list[2 * i + 1].text>>]

(* What was sent last under one of these keys. *)
LastOf(pairs, names) == pairs[SelectLastInSeq(pairs, LAMBDA q : q[1] \in names)][2]

(* What a series should say of each sample. *)
Expected ==
    [list \in Sample |->
       LET all == Pairs(list)
           date == SelectLastInSeq(all, LAMBDA q : q[1] = "cdtime")
       IN  [name |-> <<LastOf(all, {"hostname"}), LastOf(all, {"PID", "pid"}), LastOf(all, {"Name"})>>,
            rows |-> <<<<"time", all[date][2]>>>> \o RemoveAt(all, date)]]

(* Items with one comma between them, each of them in full. *)
Separated(out) ==
    /\ Len(out) % 2 = 1
    /\ \A i \in 1..Len(out) :
          IF i % 2 = 0 THEN out[i] = Comma
          ELSE out[i] # Comma /\ out[i].cut = 0 /\ (out[i].quoted \/ out[i].text # "")

(* A hash of texts that has the four fields has a series, which fits in    *)
(* the room added up for it: its name is what was sent last as hostname,   *)
(* pid and Name, then come the date and, under each other key, its value,  *)
(* in the order they were sent (object_buffer_to_json, which walks the     *)
(* list three times).                                                      *)
SeriesIsTheSample ==
    \A o \in 1..Len(received) :
        LET c == body[o].columns p == body[o].points
        IN  posts[o] > 0 /\ received[o] \in Sample =>
              /\ body[o].name = Expected[received[o]].name
              /\ Separated(c) /\ Separated(p) /\ Len(c) = Len(p)
              /\ [i \in 1..((Len(c) + 1) \div 2) |-> <<c[2 * i - 1].text, p[2 * i - 1].text>>]
                   = Expected[received[o]].rows

=============================================================================
