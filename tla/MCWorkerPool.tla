---------------------------- MODULE MCWorkerPool ----------------------------
(* Instances of WorkerPool small enough for TLC. *)
EXTENDS WorkerPool, Samples

CONSTANTS w1, w2

MCWorker == {w1, w2}

(* A Linux process: with all it may have, and a kernel thread of a user    *)
(* without a name.                                                         *)
Daemon == [cdtime |-> 100, hostname |-> Text("h"), pid |-> 7, ppid |-> 1, uid |-> 0,
           pw_name |-> Text("root"), gid |-> 0, gr_name |-> Text("root"), rss |-> 20,
           sload |-> 1, uload |-> 2, name |-> Text("sh"), cmd |-> Text("s h")]
Kernel == [Daemon EXCEPT !.pw_name = Null, !.gr_name = Null, !.cmd = Null]

LinuxSamples == {Received(LinuxHash(info)) : info \in {Daemon, Kernel}}

(* A text that JSON makes twice as long. *)
Quotes == "\"\"\"\"\"\"\"\"\"\"\"\"\"\"\"\"\"\"\"\"\"\"\"\"\"\"\"\"\"\"\"\"\\\\\\\\\\\\\\\\\\\\\\\\\\\\\\\\\\\\\\\\\\\\\\\\\\\\\\\\\\\\\\\\"

(* A Windows process: its user and its command have backslashes and        *)
(* quotes.                                                                 *)
Service == [Name |-> Text("a.exe"), PID |-> Text("4"), VirtualSize |-> Text("65536"),
            User |-> EscapedText("u\\d", 1), ThreadCount |-> Text("3"), stime |-> Text("5"),
            utime |-> Text("6"), cmd |-> EscapedText(Quotes, Len(Quotes)),
            cdtime |-> Text("100000"), hostname |-> Text("h")]
Idle == [Service EXCEPT !.cmd = Text(""), !.User = EscapedText("\\", 1)]

(* What is queued before the first process was parsed. *)
NoProcess == [f \in {"cdtime", "hostname"} |-> Service[f]]

WindowsSamples == {Received(WindowsHash(p)) : p \in {Service, Idle, NoProcess}}

(* Other clients: a hash with a number, which no agent sends, a hash with a  *)
(* key twice and a value that is the name of a key.                        *)
Others ==
    { <<HashHeader(5), Text("hostname"), Text("h"), Text("pid"), Text("1"), Text("Name"), Text("n"),
        Text("cdtime"), Text("9"), Text("rss"), Number("4096")>>,
      <<HashHeader(7), Text("hostname"), Text("pid"), Text("pid"), Text("1"),
        Text("cdtime"), Text("9"), Text("Name"), Text("cdtime"), Text("cdtime"), Text("10"),
        Text("key"), Text("Name"), Text("PID"), Text("pid")>> }

MCObjects == WindowsSamples \cup Others

(* "receive agents process metrics and store them": a sample of an agent   *)
(* is posted with its series (worker_influxdb_curl_send, which does not    *)
(* look at what object_buffer_to_json returned).                           *)
AgentMetricsAreStored ==
    \A o \in 1..Len(received) :
        posts[o] > 0 /\ received[o] \in LinuxSamples => body[o] # NoJson
=============================================================================
