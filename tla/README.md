# Formal models of collectps

collectps watches the processes of machines and stores what they use. This directory holds TLA+
models of it, the TLC configurations that check them on small instances, and theorems about
them that TLAPS proves for every size. `PROJECT.json` lists the runs, what each module
translates line by line, the hazards of the code and the findings.

Paths below are relative to the sources of the repository (`src/` in `PROJECT.json`).

## 1. Inventory

Three programs talk over TCP:

    agent-linux (C, GLib)  --\                                 (HTTP)
                              >-- packets --> server (C, libev) ------> InfluxDB
    agent-node  (Node.js)  --/

| Component | Source | State it keeps | Operations |
|---|---|---|---|
| Linux agent: cache and delivery | `agent-linux/src/util_process_info.c`, `util_network.c`, `get_process.c`, `main.c` | the list of samples, each with the servers it is still to go to; a descriptor for each server | every interval: scan, connect, walk samples and servers and write, collect garbage |
| Linux agent: reading /proc | `get_process.c` | the numbers still to read, and the buffers `*stat` and `*status` all processes of a scan share | list /proc, read the clock, read three files of each process, free |
| Linux agent: load of a process | `util_prev_process_info.c` | a tree from process number to its last times | compute a load from two scans, forget processes that are gone |
| Linux agent: encoding | `util_process_info.c` (`packet_new`) | none | a sample to a hash of packets |
| Server: framing | `server/src/util_buffer.c`, `util_buffer.h`, `util_ev.c` (`client_cb`) | for each connection, a packet and an object under construction | read some bytes, complete a packet, complete an object, end |
| Server: event loop | `util_ev.c` | listener, cool-down timer, a timer for each connection | accept, back off, time out, close |
| Server: workers | `workers.c`, `util_thread_pool.c` | a queue, threads, one shared URL | take an object, build the URL once, post, free |
| Server: JSON series | `util_buffer.c` (`object_buffer_to_json`) | none | an object to the body of a request |
| Daemon and watchdog | `main.c` of the server and of the Linux agent (the same code) | the child, the time of its last launch, a counter | launch, wait, throttle, stop |
| Windows agent: network | `agent-node/src/collectps_network.js` | a queue of scans, a socket and a state for each server | send, flush, connect, callbacks of sockets |
| Windows agent: processes | `collectps_process.js` | the process being parsed (a global), the queue of parsed ones | start Powershell, parse pieces of its output, flush, emit |
| Windows agent: configuration | `httpconfig.js` | the settings in memory, the file and its backups, the writes under way | HTTP handlers, rename and rewrite of the file, the next start |
| Configuration, log, time, wiring | `util_config.c`, `util_log.c`, `util_time.c`, `http_daemon.c`, `collectps.js`, `service.js` | options | read once |

How they interact. The Linux agent is one thread: its timer callback does everything, with
blocking writes. The server has an event loop that reads, and a pool of threads that post; an
object changes hands once, through the queue of the pool. The Windows agent is one thread with
callbacks: those of Powershell's output fill a queue that an event hands to the network part;
those of the sockets change the state the network part reads. A watchdog process launches the
C daemons again when they die.

What is hard in it, and what makes each part correct:

* *Delivery (Linux).* A server fails in the middle of a packet, of a sample, of a walk; others
  must not suffer. Every server gets each sample at most once, in order; a sample waits for
  exactly the servers that have not had it; it is forgotten when all have had it or it is too
  old; the cache is bounded and empties. Time is a wall clock, in unsigned arithmetic.
* *Framing.* TCP cuts the stream anywhere, in the middle of a header too, and state survives
  from one callback to the next. The objects must be those the bytes spell; what is refused
  ends the connection; a connection that ends leaves nothing behind, and nothing complete unread.
  Numbers are read as 64 bits from data that may be shorter, and counts are doubled.
* *Event loop.* Timers on the monotonic clock that are re-armed by the time of day, a listener
  that stops and must start again, memory that holds its own timer.
* *Workers.* One owner of an object at a time, from the event loop on; one builder of the URL, no
  use before it is built; a request that hangs; a series that says what the sample said.
* *Watchdog.* It must throttle a daemon that keeps dying, and must always launch it again; it
  must not leave an orphan; it counts with a wall clock.
* *Network (Windows).* Sockets are replaced while their callbacks are still to come, and all
  callbacks act on the socket in use; the queue is cut and filled at both ends.
* *Processes (Windows).* The state of the parser outlives a scan; four events end one, in more
  than one order, and the next may start before the output of the last one ended. What is
  printed must be sent, once, in order, with the date of its own scan.
* *Reading /proc and load (Linux).* Processes start, end and take over numbers between any two
  reads; buffers go from one process to the next. A sample must be of one process, no process may
  be missed, a load must be of the process it is given to, and its division must not kill the agent.
* *Configuration (Windows).* The answer is sent before the file is renamed and written; requests
  overlap, the agent is stopped, a rename or a write fails. The next start must find what was answered for,
  and what was there before must not be lost.

## 2. Modules

| Module | Models | Checked by | Proved in |
|---|---|---|---|
| `Delivery` | abstract: each destination gets what was produced once, in order | as the property `Delivered` of the next one and of `NodeNetwork` | |
| `AgentDelivery` | Linux agent, cache and delivery | `MCAgentDelivery` | `AgentDelivery_proofs` |
| `LinuxScan` | Linux agent, a scan of /proc and the load of a process | `MCLinuxScan` | `LinuxScan_proofs` |
| `ObjectFraming` | abstract: which objects the bytes of a connection spell | as the property `ChunksDoNotMatter` of `ObjectReader` | |
| `ObjectReader` | `client_cb` reading, over `object_buffer_read` and `packet_buffer_read` | `MCObjectReader` | `ServerInput_proofs` |
| `EventLoop` | listener, cool-down, idle timers | `MCEventLoop` | `ServerInput_proofs` |
| `Packet` | the packets of an object once they are read | through `JsonSeries`, `Samples` | |
| `JsonSeries` | `object_buffer_to_json` | through `WorkerPool` | |
| `Samples` | what each agent sends of a process | through `MCWorkerPool` | |
| `WorkerPool` | the pool and `worker_parser`, over `JsonSeries` | `MCWorkerPool` | `WorkerPool_proofs` |
| `Watchdog` | `run_watchdog` and the signal handlers | `MCWatchdog` | `Watchdog_proofs` |
| `NodeNetwork` | `send`, `flush`, `connectOne` and the callbacks | `MCNodeNetwork` | `NodeNetwork_proofs` |
| `NodeProcess` | `getInfo`, `parseData`, the events of Powershell | through `NodeAgent` | `NodeAgent_proofs` |
| `NodeAgent` | the Windows agent: `NodeProcess` over `NodeNetwork` | `MCNodeAgent` | `NodeAgent_proofs` |
| `HttpConfig` | the requests that change the settings, and their file | `MCHttpConfig` | `HttpConfig_proofs` |

How they fit together. `NodeAgent` composes `NodeProcess` and `NodeNetwork`: a step of the parser that
emits a list is one step with the `Send` of that list, as in `collectps.js`. `WorkerPool` is over
`JsonSeries`, and `MCWorkerPool` gives it what `Samples` says the agents send, so that the two
ends of the wire meet. `AgentDelivery` and `NodeNetwork` both implement `Delivery`;
`ObjectReader` implements `ObjectFraming`. `EventLoop` and `ObjectReader` are two sides of
`util_ev.c`: `ServerInput_proofs` extends both, which is why the specification of `EventLoop` is
called `LoopSpec` and its types `LoopTypeOK`. `NodeAgent_proofs` instantiates `NodeNetwork_proofs`,
so that what is proved of the network part holds in the whole agent.

Conventions. One action is the code between two points where something else can run: a system
call that may block or fail (`AgentDelivery`, `ObjectReader`), a callback of an event loop
(`EventLoop`, `NodeNetwork`, `NodeProcess`, `HttpConfig`), a file that is opened (`LinuxScan`), a
lock or a request (`WorkerPool`). Variables have the names of
the code where it has one; history variables (`sent`, `posts`, `freed`, `body`, `launches`,
`dropped`, `written`, `backoff`, `quiet`, `late`, `reset`, `seen`, `emitted`, `acked`, `before`,
`mishaps`, `torn`) record what was done
and are read by properties and bounds only. The environment
(peers, network, time, the clock) is a section of its own in each module, and its actions are
marked external in the map. Bounds are constants that say so.

A definition whose name ends in `Mutant` is the definition after it with a bug someone could
have written: a dropped test, a missing reset, an off-by-one. It is no part of the
specification. `PROJECT.json` says which property fails when the mutant takes its place, which
shows that the property depends on that code.

### AgentDelivery

`cpsa_get_process` is cut at its system calls. `Dispatch` is the timer and `read_process_info`
(some number of new samples); `ConnectOne` one turn of `cps_connect_to_all_servers`;
`NextItem`, `SkipServer`, `WriteSome`, `WriteFails` are the two nested walks of
`process_info__send_all` and `send_one` with `cps_send_data` inside; `GarbageCollect` the
collector. `write()` takes any part of what is left, blocks when the kernel has no room, and
fails once the peer is gone (SIGPIPE is ignored in `main`). A `connect` may fail at once. A
packet is `PacketLen` units. `Restart` is a death anywhere with a new launch: the cache is lost.
The wall clock (`cdtime`) is the monotonic one less `skew`; the age of a sample is taken
modulo `ClockMod`, as the code does in 64 bits.

It implements `Delivery` by the mapping that takes what a sample is still to go to from the cache
(`list[i].server`) and what each server got from `sent`. One step of `Delivery` may produce items,
give any number of them to any destinations and forget any: it fixes not how the work is cut but
what may come of it. A destination gets an item only if it is still to reach it, and what is held
is held for just the destinations it has not reached.

### LinuxScan

`read_process_info` is cut where it opens a file: `Scandir`, `ReadClock`, then for each number
`GetStat`, `GetStatus`, `AddProcess`, or the `continue` when one of the first two fails, and
`GarbageCollect` at the end. Processes start, end, run and take over free numbers at any moment. A
process is known by its rank among all that were started, so a property can tell it from another
with the same number. `stat` and `status` are the shared buffers: whose they are. `getStatus`
returns 1 once the file is open, so a process that ends before it is read leaves in `*status`
what it held. A name with a space (`Spaced`) makes `fscanf` stop early. `tree` is
`prev_process_info`. The timer of the main loop is one that counts in seconds
(`g_timeout_add_seconds`): GLib may call it back up to a quarter of a second early, to bring such
timers together, or any time later (`Due`, `MaxEarly`). The load is computed in unsigned arithmetic (`ClockMod`), and a number of
seconds of 0 kills the agent (`DivideByZero`), which the watchdog launches again. What is read of
a file is the process it is of, and one counter.

### ObjectFraming and ObjectReader

A unit is 32 bits of a field: one for the type, one for the length, and the data, so a header
can be cut in its middle. A number is 64 bits, two units of data. The code reads them whatever the
length of the data is (`util_buffer.c:122`, `:333`); when the data is one unit, the rest of the
number is what memory holds after it: `past` has that for each place of the stream where it may
happen (`ShortAt`), any value of `Memory`. `ObjectReader` has one action per `read()`: `ReadHeader`,
`ReadData`, `ReadAgain` (EAGAIN, back to the loop), `ReadEof`, `Reset`. `ObjectFraming` has no
buffers: it says what a prefix of the stream spells, by recursion over the stream. `ObjectReader`
implements it by the mapping that keeps `stream`, `past`, `taken` and `pushed`, and has the connection
open until it is closed. The length less the header is taken in 32 bits (`NumberMod`), the counters
of elements in 64 (`SizeMod`), which the doubled count of a hash may exceed: it wraps, and a count
that wraps to 0 makes the object wait for as many packets as the counter can tell (`Span`).
`ReaderAssumption` has only that the size of the buffer, an `int` of the configuration, and a header
are less than 2^32. A packet without data is refused: `g_slice_alloc(0)` returns NULL.

### EventLoop

libev calls one callback at a time, so each is an action: `Listen` (`listen_cb`, which accepts
all that wait, and backs off on EMFILE), `CooldownCb`, `ClientCb`, `TimeoutCb`, and
`ClientEnds` for the ways a connection ends in `client_cb`. Dates are relative to now, which keeps
the state space finite without a bound on time. There are two clocks: `ev_now()` is the time of day,
of which `last_activity` is made and what is left of a timeout (`Remaining`), and the timers of libev
are on the monotonic clock. So `idle` is by the time of day and `timer` is not. `SetAhead` and `SetBack` set the time of
day: it may be set ahead at any moment by anything, and back by `MaxBack` in all. `quiet` is how
long the client really was quiet, `late` by how much the time of day was set back since the
client was accepted. The cool-down timer is a one-shot timer of libev: `after` is
what `ev_timer_start` takes, which `ev_timer_stop` sets to the time that was left.

### Packet, JsonSeries, Samples and WorkerPool

`WorkerPool` has the event loop's end of the pool and its threads. The loop receives an object into
`w->source` (`Receive`: it is whole), pushes it (`Push`) and begins another in its place (`Renew`),
while a thread may already have the first one, or have freed it. A thread does `Take` (GLib's
queue), `EnterInit` and `LeaveInit` (around `g_once_init_enter`), `Post` (`worker_influxdb_curl_send`
up to the request) or `Drop` (libcurl had no handle, and nothing is posted), and `Free`. A request
may never be answered (`Hang`): no timeout is set on it. What is posted is `Json`, the
conversion of `JsonSeries`, which follows `object_buffer_to_json`: a pass that finds four
fields and adds up room, then the keys, then the values, each followed by a comma the next step
writes over. An item that is written over has lost characters (`cut`). `Total` is the recursive
function that adds up the room and what is written in it. `Samples` has what the
agents send, so that the two ends of the wire meet in `MCWorkerPool`. `ObjectAssumption` says what
an object is when it is pushed: a hash has a value for each key, as `object_buffer_read`
waits for an even number of packets after its header (`ObjectReader`), and no more characters of a text are escaped than it has.
`CommaAssumption` is only that a comma is one character: TLC evaluates it, TLAPS does not look into
a string.

### Watchdog

`Launch`, `WaitReturns`, `Wake` are the three places `run_watchdog` waits between; `Stop` is a
signal at any of them. `handlers` is FALSE when `daemonize` returned before it set the handlers
(its parent was process 1). A failed `fork` is a child that ended at once: `waitpid` returns an
error. `launches` records each launch with the true time, and how often the clock had been set.

### NodeNetwork

`Send` is `send` with `flush` and `connect` inside, which no callback can interrupt. Each
server has sockets numbered as they are made; `client` is the one in use. `OnConnect`,
`OnError`, `OnClose` are the callbacks, which can come for a socket that is not in use any more
and then act on the one that is. `Keep` is the loop of `flush` that makes a queue of what it does
not throw away. Events of a socket that was destroyed stay to be delivered;
`error` comes before `close`. A scan is its rank.

It implements `Delivery` by the mapping that takes what a scan is still to go to from its
`isSent`.

### NodeProcess and NodeAgent

A Powershell prints, of each process, a separator and its fields; the separator is read in two
halves, so that any flush can fall between them. `Data` is the `data` event, with the three things
`parseData` can do of it; `StdoutEnd`, `StdoutClose`, `Exit` and `Close` are the four events that
end a Powershell, each of which flushes and sends. `exit` may come while output is still in the
pipe, and makes room for the next `GetInfo`. `GetInfoFails` is a `spawn` that fails.
`currentProcess` is the global, as the set of processes whose fields are in it: it should never
hold two. `torn` says that a flush lost half a separator, `late` that a Powershell was started
while another had output to come.

### HttpConfig

A POST changes the settings in memory at once (`PostPort`, `PostAccount`), and leaves an operation
in `ops` (`Answer`): `Rename`, `Open`, `Write`, in the order their callbacks ask for, interleaved with those
of other requests. Settings without a HostnameCase (`cased`), which is what `default.json` has, make `cfg.get`
throw before that: memory has changed, and nothing is written (`ConfigWrite`). So once the file is
lost, or has never been there, no request makes one. A file is a number, a name leads to a file: the rename of one request can take
away the file another is writing. The rename fails when there is no file, and may be refused when
there is one (`RenameRefused`), which the code does not look at: the file is then emptied where it
is. `Over` is what two writes in one file leave: the second one, or
a mixture. `Exit` drops what is under way, `Start` reads the file. A backup is named after the
second, so that two in one second are one. The file is written without `Network.servers` and
`Interval` (`rest`), which is part of `Output`. Of the last request that was answered for, `acked` is
for what, `before` what was in the file then, and `mishaps` what became of it: another request
overlapped it, its rename was refused, or it was cut by the end of the agent or by a failure.

## 3. Runs

| Run | Question | Bounds |
|---|---|---|
| `agent` | the delivery path under failures, restarts, a clock that is set; does it implement `Delivery` | 2 servers, 2 scans of at most 1 process, packets of 2 units, 1 death, clock back by 1 |
| `scan` | whose are the fields and the load of a sample, is a process missed, does the division kill | 2 numbers, 3 processes, 3 scans, the clock set once, 1 failure, a timer that may be early |
| `reader` | does the cutting of the stream matter, is what is complete handed over before the end | all streams of 3 packets, two out of 12 and one out of 5, and a hash header with 3 more out of 5; every cut; 2 values of the memory past a short number |
| `loop` | timers over two clocks, back-off | 2 clients, 2 descriptors, timeout 3, cool-down 2, the time of day set ahead by anything and back by 2 in all |
| `loop_backoff` | *violation:* does the back-off last | 3 clients, 1 descriptor |
| `pool` | owners, the shared URL, hanging requests, what is posted | the event loop, 2 threads, 3 objects of 5 kinds, 1 request that hangs, 1 without a handle |
| `pool_name` | *violation:* is a Linux sample stored | 2 threads, 2 objects |
| `watchdog` | rate of launches, relaunch, orphans | bursts of 2, window 1, pause 2, deaths up to time 4, the clock set once |
| `node` | the queue, what is written, what is noticed; does it implement `Delivery` | 2 servers, 4 scans, 3 sockets for each server, a queue of 1 |
| `node_state` | *violation:* is a server marked connected connected | 1 server, 2 sockets |
| `process` | from the output of Powershell to a server: is all sent, once, in order | 2 Powershells of 2 processes, 1 server, 2 sockets, 4 lists |
| `http` | what is in the file and its backups | 3 requests, 1 end of the agent, 2 failures, 2 seconds; ports and accounts are symmetric |

Why the bounds are enough. `agent`: two servers are needed for one to fail while the other goes on, two
units for a partial write, two scans for a queue of samples behind a failure, the first of which
expires, one death for the loss of the cache. More of each repeats these cases, and what
matters of it is proved for all sizes. `reader`: three packets after a hash header are a whole
hash and the start of the next object, which is the longest thing the state remembers; the packets
hold each type, an empty composite, composites that are shorter than their number, hashes whose
count wraps to 2 and to 0 when it is doubled, and each of the reasons to refuse. A unit has 16
values (`NumberMod`), so that a number has 256 and its double wraps as that of 64 bits does.
`loop`: what differs from one client to the next is its own timer, and two share the listener, of
which the last descriptor is one they both want; with times 3 and 2, activity falls before,
at and after each date, and the time of day is set back twice by 1 or once by 2. `pool`: two threads
meet in the initialization, and with one that hangs
the other goes on; with three objects the loop has one, or one waits, while both threads have
theirs. The kinds of objects are a Windows process with texts that double in length
when escaped, one with empty texts, the sample without a process the Windows agent queues
first, a hash with a key twice and values that are names of keys, and a hash with a
number; nothing is kept from the conversion of one to the next. The Linux agent's objects are those of
`pool_name`. `watchdog`: a burst of two is the shortest with a launch in its middle; four time units
hold a burst, a pause and another burst. `node`: with a queue of 1 (and the one more the code
allows) the third scan that waits is cut; three sockets let one be replaced while connecting
and again after. `scan`: with two numbers one process can be listed, end and be replaced while the
other is read; three scans give a load, a load after a scan that missed the number, and one after
a number was taken over; one of the processes has a space in its name. A unit of time is there a
second, which is much for a timer to be early or a listing to take, and the interval is three: the
least that `DiesOnlyOfTheClock` is about. The run has 7.9 million states.
`process`: two processes make a separator between them, and one that is left for the next scan;
two Powershells overlap in every way the events allow; it also passes with three Powershells of one
process and three sockets, where an item may wait a scan. `http`: two requests overlap, and the
third puts right what they left; a refused rename and a failed write may fall on one request; the
end of the agent comes at any step.

What some properties leave out. The code does not keep these promises in every case, and the
conditions under which it does are part of the properties, so that they are as strong as the code
allows: `ScanComplete` excepts names with a space; `FieldsAreItsOwn` a process that ended while it
was read; `LoadIsItsOwn` a number that was taken over between two scans in a row (the agent cannot
tell), a clock that was set, and an interval no longer than a timer may be early and a listing may
take; `DiesOnlyOfTheClock` the clock that was set, and an interval
no longer than a second, what the timer may be early and what the listing takes. GLib's quarter of a second is enough for an
agent with an interval of one second to die of the division. `CompleteHandedOver` excepts a
connection that was reset. `TimerNotLate` allows a timer to be as late as the time of day was set
back; `PostedOnceThenFreed` an object that is freed and not posted when libcurl had no handle.
`ItemsAreProcesses` excepts a separator that was lost
(`torn`) and two Powershells at a time (`late`), `EachOnceInOrder` the second of these;
`NothingHeldBack` nothing but the last process read, which `currentProcess` keeps.
`FileIsSettings` excepts only requests that overlap, until the next that does not: the end of the
agent, a refused rename and a failed write are in it, with what they may leave. `BackedUp` excepts
requests that overlap, a refused rename, after which the only copy is emptied, and a second backup
of the same second; the end of the agent and a failed write are in it. `SeriesIsTheSample` is of
hashes of texts with the four fields (`Sample`), and excepts
those where a value that is copied without quotes is empty or a comma, of which the series would
have commas only (`Plain`). `ForgottenOnlyWhenDone` and `LaunchRate` except a clock that was set in between.

### Fairness

* `agent`: the main loop runs what is due and time passes. A peer that is connected goes on
  reading: the peer is the server, an event loop that reads all that comes. Without it a
  blocking `write()` stops the agent for ever, for all servers (a hazard of its own). Nothing is
  assumed of connections: they may fail for ever.
* `reader`: libev calls back while a descriptor is readable. Nothing is assumed of the client.
* `loop`: libev calls back what is due, and time passes. Clients may do nothing; the time of day may
  be set for ever.
* `pool`: the event loop goes on from the push of an object to the next one, threads are scheduled,
  and a request that does not hang returns.
* `watchdog`: the watchdog runs and `sleep` ends. The child may run for ever.
* `node`: the loop of Node.js delivers the `error` and `close` events that were emitted.
* `scan`, `process`, `http`: safety only. Whether Powershell ever ends is not in this code
  (and when it does not, nothing is collected any more); what must come of it when all have ended
  is `NothingHeldBack`, a safety property.

## 4. What is proved

TLAPS proves, for all values of the constants that meet the ASSUMEs of the module, for any number of
servers, processes, requests and failures:

* `AgentDelivery_proofs`: `TypeCorrect`, `SentOnceInOrderAlways`, `PendingIsUnsentAlways`,
  `UnsentMeansDisconnectedAlways`, `ForgottenOnlyWhenDoneAlways`, `CacheBoundAlways`, and
  `Refinement`, that the agent implements `Delivery`.
  None of the properties is inductive. `SentOnceInOrder` needs that what is
  still to go to a server comes after all that went (`SentBeforePending`), and this is kept by a
  write only because the walk is in order and nothing before the cursors is left for a server
  that is still connected (`WalkedIsSent`): a failed server is passed over for the rest of the
  walk, as its descriptor is closed. `UnsentMeansDisconnected` is `WalkedIsSent` at the end of
  the walk, where the cursors are past everything (`WalkIsOver`). `PendingInCache` says that the
  cursor is on a sample. `IInv` is the conjunction; one lemma per action shows that it is kept.
  `ForgottenOnlyWhenDone` then follows from `PendingIsUnsent` at the collector, and from
  `TimeAssumption`, by which the age of a sample does not wrap unless the clock was set.
  `CacheBound` needs that the date of a sample is at most `MaxSkew` ahead of the time it was taken
  (`StampOK`): an age that wraps is large, so the collector takes the sample.
  `Refinement` shows from `IInv` that a scan produces, that the end of a packet gives one sample to
  one server it was still to reach, after all that server got (`SentBeforePending` again), that
  the collector and a death forget, and that all other steps are stutters of `Delivery`.
* `LinuxScan_proofs`: `TypeCorrect`, `ScanCompleteAlways`, `FieldsAreItsOwnAlways`,
  `DiesOnlyOfTheClockAlways`, `LoadIsItsOwnAlways`. The invariant (`ScanInv`) is about who has the
  number the loop is at: it is still the process `*stat` is about, or that one has ended, and who has
  the number was started after the list was made (`StatIsCurrent`); so `*status` is of the same
  process unless it ended (`StatusIsCurrent`), and a process of the list is still to be read or was
  read (`ToReadOrRead`). For the division, `ClockInv` relates three clocks: what is kept has the
  date of the wall clock when it was read if it was not set since (`KeptDate`, `ScanDate`), and a
  number that is still to be read was last read an interval ago less what the timer was early and a listing takes
  (`ReadLately`). For the load, `LoadInv` says of which scan each node of the tree is: the times of
  a process only grow (`TimesGrow`), a node is the last sample of its number (`KeptIsSeen`), every
  number of the scan before has one (`RecentIsKept`), and another number has one only if the clock
  was set since (`KeptIsRecent`): the collector compares dates, and would keep a number that was not
  in the last scan if the timer could be early and the listing take as long as the interval. That is why the property
  excepts `Period <= MaxLate + MaxEarly`, a case the proof brought to light. The
  arithmetic is that neither difference of the load wraps when the time of a process has not gone
  back, and that dividing by `Sec` and then by the hertz is dividing once.
* `ServerInput_proofs`, of `EventLoop`: `LoopTypeCorrect`, `TimerNotLateAlways`, `NeverDeafAlways`. A
  timer is set to what is left by the time of day, so `TimerNotLate` needs that an activity looks younger
  than it is by no more than the time of day was set back since the client was accepted
  (`NotYounger`), wherever the clock was set ahead and back; only an open connection has a timer.
  `NeverDeaf`, that a listener that was stopped has a timer to start it again, is the safety part of
  `ListensAgain`, and is inductive with the types; it has no run of its own.
* `ServerInput_proofs`, of `ObjectReader`: `TypeCorrect`, `NoByteLostAlways`, `CompleteHandedOverAlways`, and
  `Refinement`, that the reading side implements `ObjectFraming`, for streams of any units. Four
  invariants, each on top of those before. `Shape`:
  the buffer waits for a header that is not complete, or for the data of one that was accepted
  (`Expecting`), which is the last that was read (`Behind`); the object is new, or a list or a hash
  that waits for as many packets as its first one says, modulo 2^64 (`Building`), where that number is one
  of memory when it is short. `Counted`: the units
  read are those of `pushed`, of `obj` and of `buf`. `Placed`: `buf` starts where the packets in full of what was received
  end, `obj` where the objects in full of those packets end, and `pushed` is all before. `Finished`: a
  connection that closed and was not reset had read all that arrived, or what is refused, and
  nothing after that is spelled. A read then
  adds to what was received, and the lemmas `PacketsGrow`, `NoMorePacket`, `OneMorePacket` (and the same of objects)
  say what that does to what it spells; `HeaderMoves`, `DataMoves` and `ObjectMoves` that the reader does the same.
  `ObjectFraming` and the counts are recursive. Their recursion goes from a position to a later one, so
  that it has one function as its solution (`ChainFunction`), solutions over a longer stream extend
  those over a shorter one (`ChainGrows`), and all this is by induction from the end of the stream
  (`FromTheEnd`), that is by the least number that fails.
* `WorkerPool_proofs`: `TypeCorrect`, `OneOwnerAlways`, `PostedOnceThenFreedAlways`,
  `SeriesIsTheSampleAlways`, `RoomSuffices`. `PoolInv` says that the loop has what came last, and
  nothing while it reads (`LoopInv`), so that what was given to the pool is all but that (`Given`);
  that the queue holds an object once, of those that were given,
  and none a thread has (`QueueApart`), that two threads have not the same one (`JobsApart`), that
  an object that was given was freed exactly when it is in neither place (`FreedIsGone`), and posted, or
  dropped, exactly when its thread is past that (`PostedIsPast`), and that one thread builds the URL, before
  anything is posted (`UrlInv`).
  `SeriesIsTheSample` adds that what was posted of an object is what `object_buffer_to_json` makes
  of it (`BodyIsJson`), and is then about that function, for every hash of texts. The three walks
  over the object look for, skip and write by place; the property is by pair. So the proof has the
  pair of the last key of each name (`FieldIsLast`), the pair each row comes from when the date is
  taken out of its place and put first (`RowPair`), and what each walk wrote after each packet in
  closed form: the rows of the pairs so far, each with its comma (`ColumnsAreRows`,
  `PointsAreRows`; a loop that starts alike and does alike is the same, `SameLoop`). The last
  comma is all that is stepped back over (`BackOverComma`).
  `RoomSuffices` is that the object is not given up half-way: the room of the first pass, in the
  order of the object, against what is written, in the order of the rows, first the keys, then the
  values. `RowsFit` shows by induction over the rows that what the rows so far take is within the
  room of their pairs, the room of the date counting from the first row on. It needs no more than
  texts and the four fields. `Total` has the sums as its steps (`TotalAdds`), since a recursive
  function over `0..n` exists (`Recursion`).
* `Watchdog_proofs`: `TypeCorrect`, `LaunchRateAlways`, `NoOrphanAlways`, `OneChildAlways`. The
  rate is the interesting one: any `Burst + 2` launches in a row span more than `Window`. The
  invariant (`BurstInv`) is that the burst under way is counted from a launch that came more than
  `Window` after the one before, or has no more than `Burst` launches before it; that the counter
  is how many launches ago that was; and that a pause outlasts the window. It needs that the pause
  is longer than the window (20 minutes and 60 seconds in the code), an assumption of the module,
  and that the clock was not set between the launches, which is part of the property.
* `NodeNetwork_proofs`: `TypeCorrect`, `NewestAreKeptAlways`, and `Refinement`, that the network part
  implements `Delivery`. The sockets (`SocketType`): those of a server were made up to the one in
  use, a server that is marked connected has one, and an event is of a socket that was made. The
  queue (`QueueInv`): it is in the order of the scans (`Ordered`); an item is marked for just the
  servers it was written to (`Marked`), without which a `send` would write it twice or not at all; and what a server
  did not get is newer than all that it got (`Ahead`), without which it would be written out of
  order. These hold together only: `Ahead` after `flush` needs that `flush` writes to a server that is up all that is
  queued, in the order of the queue. `NewestAreKept` adds that the numbers of a queue of
  `msgqueueMaxSize + 1` items are as far apart as their places (`OrderedSpreads`), so that the scan that is cut is old. What `Keep` keeps, and
  in which order, is proved of its recursive function (`KeepLoop`) by induction, as the least number
  that fails (`Induction`).
* `NodeAgent_proofs`: `NothingHeldBackAlways`, `ItemsAreProcessesAlways`, `ProcessTypeCorrect` of the
  parser, and of the whole agent `TypeCorrect` and `EachOnceInOrderAlways`. That nothing is
  held back needs that what waits in the queue waits for the end of some output (`QueueHeld`), and
  that a process that was read is in `currentProcess`, in the queue or in a list
  (`NothingLost`). That an item is a process needs that `currentProcess` holds the last process
  read and is empty when the fields of another are to come (`Single`), which is kept only while one
  Powershell prints at a time: `Children` says that it is the last one started, unless one was late.
  For the whole agent the invariant (`WholeInvariance`) adds the order of the parser's lists, the last of which is
  the queue still to be emitted (`OrderInv`: sorted, and before what `currentProcess` holds), and
  the invariant of `NodeNetwork` (`NetInv`). A server gets lists in the order of their ranks, and the
  items of a list are in the order they were printed in: each process goes to each server once and in order.
* `HttpConfig_proofs`: `TypeCorrect`, `FileIsSettingsAlways`, `BackedUpAlways`. The invariant
  (`FileInv`) is about the last request that was answered for, when no other overlapped it. While it is under way it is alone,
  has the settings that were answered for, finds the file as it was until it has renamed it, then none
  or, when that was refused, still the same one, and one that is empty once it has opened it (`Alone`).
  When nothing is under way the file has what it had, nothing, or what was answered for, and that last
  one if nothing cut the request (`Settled`), whatever requests without a HostnameCase do to memory. `FilesFit`
  counts the files: those that were made and those that may still be made are no more than the
  requests and the first file.

Only model-checked: liveness (`EverySampleLeaves`, `ClosedAfterEof`, `ListensAgain`, `OthersGoOn`,
`Relaunched`, `NoticesClose`), as TLAPS does not reason about fairness and ENABLED. Every invariant and every
action property of the runs that pass is proved.

The library's induction theorems have an operator as a parameter, which no backend instantiates.
Where a proof above needs induction, it takes the least number that fails, which exists since `<` is
well founded on the naturals (`WFMin`, `NatLessThanWellFounded`).

## 5. Findings

Each has a run with the counterexample (`PROJECT.json`, `findings`):

1. `loop_backoff`. From the second time on, the cool-down timer is due at once.
2. `pool_name`. The server needs the key `Name`, the Linux agent sends `name`: no sample of a
   Linux agent is stored. Each is posted as an empty request, though the log says that what has
   no series is ignored.
3. `node_state`. A socket replaced while connecting leaves its server marked connected with no
   socket: scans are marked sent and go nowhere.

What the code does that the properties leave out or that has no run of its own:

* The age of a sample is an unsigned difference: when the clock is set back after a sample was
  taken, it wraps, and the sample is removed as too old (`ForgottenOnlyWhenDone`).
* An idle timer that is called back at the very instant its timeout ends is re-armed with 0, which
  stops it (`util_ev.c:250`): the connection has no timer any more.
* A number in a hash is written over in the series and loses digits and its comma (`JsonSeries`;
  neither agent sends one).
* A separator of Powershell that is flushed in its middle makes one item of two processes, and two
  Powershells at a time mix theirs (`torn` and `late` in `NodeProcess`); the test of
  `currentProcess.length` is on an object, so the last process of a scan waits for the next scan
  and has its date.
* The answer "Will take effect on next start" (`httpconfig.js:149`) is sent before anything is written
  and whatever comes of it: when the agent ends between, the next start has the old settings, or the
  default ones. These are the other values `FileIsSettings` lets the file have.
* With the `default.json` that is shipped there is no HostnameCase, and `httpconfig.js:27` throws
  (`collectps.js:26` asks `has` first): each change is made in memory, answered with an error, and never written.
* The file is written without `Network.servers` and `Interval` (`httpconfig.js:26`), so the next start
  has the defaults for them.
* The error of the rename is not looked at (`httpconfig.js:53`): a file that cannot be renamed is
  emptied, and its settings are lost when the write fails or the agent ends.
* What is left of a timeout is a difference of the time of day, and the timer is on the monotonic
  clock (`util_ev.c:243-251`): a clock set back keeps idle connections for as much longer, one set
  ahead closes busy ones whose timer is due.
* The number of a packet is read as 64 bits from data that may have one byte (`util_buffer.c:122`,
  `:333`): the count of such a list or hash is partly what memory holds, and the objects after it are
  framed by that.
* A process with a space in its name is in no scan (`get_process.c:184`).
* A clock that is set back by an interval, or an interval of a second (the timer may be early), can make the load divide by
  zero (`util_prev_process_info.c:87`).
* The series name has `_` where the comment says `/`; the queue of the Windows agent holds one scan
  more than `msgqueueMaxSize`; the Windows agent sends its date in milliseconds and the Linux
  agent in seconds; the first thing the Windows agent queues has no process; a client that closes
  between two packets of a list has its object dropped without the warning that another drop gets;
  a process of more than 2 GiB is sent with a number that wrapped; the local `h` of
  `worker_influxdb_curl_send` is not set when the URL is empty.
* `%s` is given an `int` in `server/src/util_config.c:151` and `:201`; the pid file is not
  truncated when it is written (`main.c:127`); `daemonize` changes directory before a relative path
  of the configuration is used (`main.c:124`); the terminator of a command line is one past the
  buffer at multiples of 8192 (`get_process.c:320`); the lines of a status file are taken by rank.

## 6. What is not modelled, and why

* Options, log, the web page, the service wrapper, the requests that only read the settings:
  parsing and wiring without state of their own. Options are constants of the modules.
  `http_daemon.c` is an empty shell.
* The writing side of a server connection (`client_sink`, `half_closed`): nothing is ever put in
  a sink.
* Several listeners of the server: one is modelled, as each has a timer of its own and they share
  nothing but descriptors.
* The characters of texts: a text is a string with the number of its characters that JSON
  escapes. The characters replaced in a series name, and texts with a zero inside, are left out.
  A file of /proc is read as a whole; which line is which field is left out.
* Failures of allocation, but for the one that refuses a packet without data and the one that
  leaves a request without its handle of libcurl.
* A write of the configuration that stops half-way: a failed write leaves the file empty.
* `daemonize` before the handlers are set, and the pid file; the end of the server, which drops
  the queue of the pool; proxy options of the request.
* A Powershell that never ends, and the `error` event of its output, which does what `close` does.

## 7. Plan

What would add most, in this order:

1. `Daemonize`: the pid file and its lock, two instances, the death of a watchdog whose child lives.
2. A `Server` that composes `ObjectReader` and `WorkerPool`: what is posted is what was sent,
   from the first byte to the request.
3. Loads of both times of a process.
