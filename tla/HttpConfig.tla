---------------------------- MODULE HttpConfig -----------------------------
(***************************************************************************)
(* The configuration of the Windows agent over HTTP                        *)
(* (agent-node/src/httpconfig.js): the settings in memory, and the file    *)
(* they are read from when the agent starts.                               *)
(*                                                                         *)
(* A POST changes the settings in memory, asks for the file to be renamed, *)
(* for its successor to be opened when that is done, and for it to be      *)
(* written when that is done, and answers without waiting.  The requests   *)
(* to the file system are served by the threads of libuv in any order; the *)
(* agent may be stopped, or die, before they are.                          *)
(*                                                                         *)
(* A file is a number; a name leads to a file.  Settings are a port, an    *)
(* account, whether there is a HostnameCase, which default.json does not   *)
(* have, and the rest, which is what the file is not written with.         *)
(*                                                                         *)
(* A definition whose name ends in Mutant is the one that follows it with  *)
(* a bug: no part of the specification, but what a property is tried on.   *)
(***************************************************************************)
EXTENDS Integers

CONSTANTS
    Port,      \* the ports one may ask for
    Account,   \* the logins with their passwords
    Default,   \* what default.json has for each setting
    NotANumber,\* what parseInt makes of a port that is none
    Empty,     \* what is in a file that was opened and not written
    Mixed,     \* what is in a file two requests wrote one over the other
    Mine,      \* the rest of the settings of a user who wrote the file
    MaxPosts,  \* bound: how many requests change the settings
    MaxExits,  \* bound: how many times the agent ends
    MaxFails,  \* bound: how many requests to the file system fail
    MaxSecond  \* bound: where time stops

Settings == [port : Port \cup {Default, NotANumber}, account : Account \cup {Default},
             cased : BOOLEAN, rest : {Default, Mine}]

ASSUME HttpAssumption ==
    /\ Default \notin Port \cup Account /\ NotANumber \notin Port \cup {Default}
    /\ Mine # Default /\ Empty # Mixed /\ {Empty, Mixed} \cap Settings = {}
    /\ MaxPosts \in Nat /\ MaxExits \in Nat /\ MaxFails \in Nat /\ MaxSecond \in Nat

VARIABLES
    running,   \* is the agent running
    cfg,       \* httpcfg.cfg
    account,   \* httpcfg.cpsHTTPUser and cpsHTTPPassword
    listening, \* the port of the HTTP server
    second,    \* the date, of which the name of a backup is made
    ops,       \* the writes under way: [of, step, second, out, file]
    main,      \* the file named {hostname}.json, 0 when there is none
    backup,    \* the file named {hostname}.json-{date}
    data,      \* what is in each file
    made,      \* how many files there are
    posts,     \* how many requests changed the settings
    exits,     \* how many times the agent ended
    fails,     \* how many requests to the file system failed
    acked,     \* history: what was last answered for, Empty before
    before,    \* history: what was in the file when it was asked for
    mishaps    \* history: what became of it: "overlap", "refused", "cut"

memory == <<running, cfg, account, listening>>
files == <<main, backup, data, made>>
counts == <<posts, exits, fails>>
history == <<acked, before, mishaps>>
vars == <<memory, second, ops, files, counts, history>>

Second == 0..MaxSecond
File == 1..(MaxPosts + 1)

Defaults == [port |-> Default, account |-> Default, cased |-> FALSE, rest |-> Default]

(* HttpConfig.listenPort || 28230, which is also what default.json has. *)
ListenPortAsIsMutant(c) == c.port

ListenPort(c) == IF c.port = NotANumber THEN Default ELSE c.port

(* outputObj: what cw_config_write makes of the settings.                  *)
Output(c) == [c EXCEPT !.rest = Default]

(* The settings the library makes of what is in the file: those of         *)
(* default.json, when there is no file or nothing in it, else the file's.  *)
Load(d) == IF d = Empty THEN Defaults ELSE d

(* What the library finds under the name of the file. *)
Held == IF main = 0 THEN Empty ELSE data[main]

(* There is no file yet, or the user wrote one. *)
Init ==
    /\ \/ main = 0 /\ made = 0 /\ data = [f \in File |-> Empty]
          /\ cfg = Defaults
       \/ \E p \in Port : \E a \in Account : \E cased \in BOOLEAN :
            /\ main = 1 /\ made = 1
            /\ cfg = [port |-> p, account |-> a, cased |-> cased, rest |-> Mine]
            /\ data = [f \in File |-> IF f = 1 THEN cfg ELSE Empty]
    /\ running = TRUE /\ account = cfg.account /\ listening = ListenPort(cfg)
    /\ second = 0 /\ ops = {} /\ backup = [t \in Second |-> 0]
    /\ posts = 0 /\ exits = 0 /\ fails = 0
    /\ acked = Empty /\ before = Held /\ mishaps = {}

-----------------------------------------------------------------------------
(* The requests over HTTP. *)

(* fs.rename is asked for, what is to be written is known, and the request *)
(* is answered, for the settings c.                                        *)
Answer(c, out) ==
    /\ ops' = ops \cup {[of |-> posts + 1, step |-> "rename", second |-> second,
                         out |-> out, file |-> 0]}
    /\ acked' = Output(c) /\ before' = Held
    /\ mishaps' = IF ops = {} THEN {} ELSE {"overlap"}

(* cw_config_update changes the settings to c, then cw_config_write makes  *)
(* the object to write.  Without a HostnameCase cfg.get throws: nothing is *)
(* written, and the request is answered with an error.                     *)
ConfigWriteFirstMutant(c) ==
    /\ running /\ posts < MaxPosts /\ posts' = posts + 1
    /\ cfg' = c
    /\ IF c.cased THEN Answer(c, Output(cfg)) ELSE UNCHANGED <<ops, history>>
    /\ UNCHANGED <<running, listening, second, files, exits, fails>>

ConfigWrite(c) ==
    /\ running /\ posts < MaxPosts /\ posts' = posts + 1
    /\ cfg' = c
    /\ IF c.cased THEN Answer(c, Output(c)) ELSE UNCHANGED <<ops, history>>
    /\ UNCHANGED <<running, listening, second, files, exits, fails>>

(* POST /httpconfig/port: parseInt of a port that is not empty. *)
PostPort(p) ==
    /\ ConfigWrite([cfg EXCEPT !.port = p])
    /\ UNCHANGED account

(* POST /httpconfig/account, with a login and a password. *)
PostAccount(a) ==
    /\ ConfigWrite([cfg EXCEPT !.account = a])
    /\ account' = a

(* POST /process/stop, or the death of the agent: what it asked the file   *)
(* system for and what was to follow is not done.                          *)
Exit ==
    /\ running /\ exits < MaxExits /\ exits' = exits + 1
    /\ running' = FALSE /\ ops' = {}
    /\ mishaps' = mishaps \cup (IF ops = {} THEN {} ELSE {"cut"})
    /\ UNCHANGED <<cfg, account, listening, second, files, posts, fails, acked, before>>

(* The agent starts: the library reads the file, and gives up when it      *)
(* cannot be parsed.                                                       *)
Start ==
    /\ ~running
    /\ Held # Mixed
    /\ cfg' = Load(Held)
    /\ account' = cfg'.account
    /\ listening' = ListenPort(cfg')
    /\ running' = TRUE
    /\ UNCHANGED <<second, ops, files, counts, history>>

-----------------------------------------------------------------------------
(* The steps of a write. *)

Step(op, step, file) ==
    ops' = (ops \ {op}) \cup {[op EXCEPT !.step = step, !.file = file]}

(* fs.rename over the backup of that second; without a file it fails. *)
RenameNotMutant(op) ==
    /\ op.step = "rename"
    /\ Step(op, "open", 0)
    /\ UNCHANGED <<memory, second, files, counts, history>>

Rename(op) ==
    /\ op.step = "rename"
    /\ IF main = 0 THEN UNCHANGED <<main, backup>>
       ELSE main' = 0 /\ backup' = [backup EXCEPT ![op.second] = main]
    /\ Step(op, "open", 0)
    /\ UNCHANGED <<memory, second, data, made, counts, history>>

(* The file is there and cannot be renamed, as when another program has it *)
(* open: err is not looked at.                                             *)
RenameRefused(op) ==
    /\ op.step = "rename" /\ main # 0 /\ fails < MaxFails /\ fails' = fails + 1
    /\ Step(op, "open", 0)
    /\ mishaps' = mishaps \cup {"refused"}
    /\ UNCHANGED <<memory, second, files, posts, exits, acked, before>>

(* fs.writeFile opens the file, which makes it or empties it. *)
Open(op) ==
    /\ op.step = "open"
    /\ IF main = 0
       THEN /\ made' = made + 1 /\ main' = made + 1 /\ UNCHANGED data
       ELSE /\ data' = [data EXCEPT ![main] = Empty] /\ UNCHANGED <<made, main>>
    /\ Step(op, "write", main')
    /\ UNCHANGED <<memory, second, backup, counts, history>>

(* What is in a file once out is written from its start on: what is        *)
(* longer stays.                                                           *)
Over(old, out) == IF old \in {Empty, out} THEN {out} ELSE {out, Mixed}

(* fs.writeFile writes, where the file is now. *)
Write(op) ==
    /\ op.step = "write"
    /\ \E d \in Over(data[op.file], op.out) : data' = [data EXCEPT ![op.file] = d]
    /\ ops' = ops \ {op}
    /\ UNCHANGED <<memory, second, main, backup, made, counts, history>>

(* The file cannot be opened or written: failed is set, which nobody reads *)
(* any more.                                                               *)
WriteFails(op) ==
    /\ op.step \in {"open", "write"} /\ fails < MaxFails /\ fails' = fails + 1
    /\ ops' = ops \ {op} /\ mishaps' = mishaps \cup {"cut"}
    /\ UNCHANGED <<memory, second, files, posts, exits, acked, before>>

-----------------------------------------------------------------------------

Tick ==
    /\ second < MaxSecond /\ second' = second + 1
    /\ UNCHANGED <<memory, ops, files, counts, history>>

(* Nothing is under way and there are no more requests, or the file keeps  *)
(* the agent from starting.                                                *)
Done ==
    /\ ops = {}
    /\ IF running THEN posts = MaxPosts ELSE Held = Mixed
    /\ UNCHANGED vars

Next ==
    \/ \E p \in Port \cup {NotANumber} : PostPort(p)
    \/ \E a \in Account : PostAccount(a)
    \/ \E op \in ops : Rename(op) \/ RenameRefused(op) \/ Open(op) \/ Write(op) \/ WriteFails(op)
    \/ Exit \/ Start \/ Tick \/ Done

Spec == Init /\ [][Next]_vars

-----------------------------------------------------------------------------
(* Properties. *)

Content == Settings \cup {Empty, Mixed}

(* The type of every variable. *)
TypeOK ==
    /\ running \in BOOLEAN /\ cfg \in Settings /\ account \in Account \cup {Default}
    /\ listening \in Port \cup {Default} /\ second \in Second
    /\ ops \subseteq [of : 1..MaxPosts, step : {"rename", "open", "write"},
                      second : Second, out : Settings, file : 0..made]
    /\ made \in 0..(MaxPosts + 1) /\ main \in 0..made /\ backup \in [Second -> 0..made]
    /\ data \in [File -> Content]
    /\ posts \in 0..MaxPosts /\ exits \in 0..MaxExits /\ fails \in 0..MaxFails
    /\ acked \in Settings \cup {Empty} /\ before \in Content
    /\ mishaps \subseteq {"overlap", "refused", "cut"}

(* Whatever becomes of a request that no other overlaps, its rename        *)
(* refused, the agent ended between any two steps of it, the file not      *)
(* opened or not written, the file has what it had, nothing, or what was   *)
(* answered for, and never a mixture that keeps the agent from starting;   *)
(* and once it was written, what was answered for.  So it does again after *)
(* requests that overlapped (cw_config_write).                             *)
FileIsSettings ==
    "overlap" \notin mishaps =>
        /\ Held \in {before, Empty, acked}
        /\ ops = {} /\ "cut" \notin mishaps /\ acked # Empty => Held = acked

(* The settings that are whole in the file or in one of its backups. *)
OnDisk ==
    {data[f] : f \in ({main} \cup {backup[t] : t \in Second}) \ {0}} \cap Settings

(* Settings that were in the file stay on disk, in a backup, whenever the  *)
(* agent ends and the writing fails, unless two requests overlap, the      *)
(* rename is refused, after which cw_config_write empties the only copy,   *)
(* or a backup of the same second takes its name.                          *)
BackedUp ==
    [][\A c \in OnDisk \ OnDisk' :
         \/ mishaps \cap {"overlap", "refused"} # {}
         \/ \E op \in ops : op.step = "rename" /\ backup[op.second] # 0]_vars
=============================================================================
