-------------------------- MODULE HttpConfig_proofs --------------------------
(* Proofs about HttpConfig, for any ports and accounts and any number of    *)
(* requests, ends of the agent and failures.                                *)
EXTENDS HttpConfig, FiniteSetTheorems, TLAPS

MemoryType ==
    /\ running \in BOOLEAN /\ cfg \in Settings /\ account \in Account \cup {Default}
    /\ listening \in Port \cup {Default} /\ second \in Second
    /\ acked \in Settings \cup {Empty} /\ before \in Content
    /\ mishaps \subseteq {"overlap", "refused", "cut"}

CountType ==
    /\ posts \in 0..MaxPosts /\ exits \in 0..MaxExits /\ fails \in 0..MaxFails

FileType ==
    /\ made \in Nat /\ main \in 0..made /\ backup \in [Second -> 0..made]
    /\ data \in [File -> Content]

OpType ==
    ops \subseteq [of : 1..MaxPosts, step : {"rename", "open", "write"},
                   second : Second, out : Settings, file : 0..made]

(* The writes that may still make a file, and the room there is for them.  *)
ToOpen == {op \in ops : op.step # "write"}

FilesFit ==
    /\ IsFiniteSet(ops) /\ made + Cardinality(ToOpen) <= posts + 1
    /\ \A op \in ops : op.of <= posts
    /\ \A op \in ops : op.step = "write" => op.file \in 1..made

Types == MemoryType /\ CountType /\ FileType /\ OpType /\ FilesFit

(* A write that no other overlaps is the only one, writes what was answered *)
(* for, and finds the file as it was until it has renamed it; then, unless  *)
(* that was refused, no file, and an empty one once it has opened it.       *)
Alone(op) ==
    /\ ops = {op} /\ op.out = acked /\ acked # Empty /\ "cut" \notin mishaps
    /\ op.step = "rename" => Held = before /\ "refused" \notin mishaps
    /\ op.step = "open" => main = 0 \/ ("refused" \in mishaps /\ Held = before)
    /\ op.step = "write" => main # 0 /\ op.file = main /\ data[main] = Empty

(* What is found when nothing is under way. *)
Settled ==
    /\ Held \in {before, Empty, acked}
    /\ "cut" \notin mishaps /\ acked # Empty => Held = acked

FileInv ==
    "overlap" \notin mishaps =>
        \/ ops = {} /\ Settled
        \/ \E op \in ops : Alone(op)

(* A file that was not made yet is empty.                                  *)
Unmade == \A f \in File : f > made => data[f] = Empty

Inv == Types /\ FileInv /\ Unmade

-----------------------------------------------------------------------------

LEMMA Numbers ==
    /\ MaxPosts \in Nat /\ MaxExits \in Nat /\ MaxFails \in Nat /\ MaxSecond \in Nat
    /\ Empty # Mixed /\ Empty \notin Settings /\ Mixed \notin Settings
    /\ NotANumber # Default
  BY HttpAssumption DEF HttpAssumption

LEMMA OutputType == ASSUME NEW c \in Settings PROVE Output(c) \in Settings
  BY DEF Output, Settings

LEMMA ToOpenFinite ==
    ASSUME FilesFit
    PROVE  IsFiniteSet(ToOpen) /\ Cardinality(ToOpen) \in Nat
  BY FS_Subset, FS_CardinalityType DEF FilesFit, ToOpen

LEMMA ToOpenRoom ==
    ASSUME Inv
    PROVE  /\ made \in Nat /\ posts \in Nat /\ made <= MaxPosts + 1
           /\ \A op \in ToOpen : made + 1 \in File
<1>1. made \in Nat /\ posts \in 0..MaxPosts /\ made + Cardinality(ToOpen) <= posts + 1
  BY DEF Inv, Types, FileType, CountType, FilesFit
<1>2. IsFiniteSet(ToOpen) /\ Cardinality(ToOpen) \in Nat
  BY ToOpenFinite DEF Inv, Types
<1>3. made <= MaxPosts + 1 /\ posts \in Nat
  BY <1>1, <1>2, Numbers
<1>4. ASSUME NEW op \in ToOpen PROVE made + 1 \in File
  <2>1. Cardinality(ToOpen) # 0
    BY <1>2, <1>4, FS_EmptySet
  <2>2. made + 1 <= MaxPosts + 1
    BY <1>1, <1>2, <2>1, Numbers
  <2> QED
    BY <1>1, <2>2, Numbers DEF File
<1> QED
  BY <1>1, <1>3, <1>4

LEMMA HeldType == ASSUME Inv PROVE Held \in Content
<1>1. main # 0 => main \in File
  BY ToOpenRoom, Numbers DEF Inv, Types, FileType, File
<1> QED
  BY <1>1 DEF Inv, Types, FileType, Held, Content

(* Nothing changes the files, nor what is known of them. *)
LEMMA SameFileInv ==
    ASSUME Inv, UNCHANGED <<ops, main, data, acked, before, mishaps>>
    PROVE  FileInv'
  BY DEF Inv, FileInv, Alone, Settled, Held

LEMMA CardinalityGrows ==
    ASSUME NEW S, IsFiniteSet(S), NEW x
    PROVE  Cardinality(S \cup {x}) \in Nat /\ Cardinality(S \cup {x}) <= Cardinality(S) + 1
<1>1. IsFiniteSet(S \cup {x}) /\ Cardinality(S) \in Nat
  BY FS_AddElement, FS_CardinalityType
<1>2. Cardinality(S \cup {x}) = IF x \in S THEN Cardinality(S) ELSE Cardinality(S) + 1
  BY FS_AddElement
<1> QED
  BY <1>1, <1>2

(* A request that changes the settings to c and is answered. *)
LEMMA AnswerKeeps ==
    ASSUME Inv, NEW c \in Settings, ConfigWrite(c), c.cased
    PROVE  CountType' /\ FileType' /\ OpType' /\ FilesFit' /\ FileInv' /\ Unmade'
<1>0. PICK op : op = [of |-> posts + 1, step |-> "rename", second |-> second,
                      out |-> Output(c), file |-> 0]
  OBVIOUS
<1>1. /\ posts < MaxPosts /\ posts' = posts + 1 /\ ops' = ops \cup {op}
      /\ acked' = Output(c) /\ before' = Held
      /\ mishaps' = IF ops = {} THEN {} ELSE {"overlap"}
      /\ UNCHANGED <<second, main, backup, data, made, exits, fails>>
  BY <1>0 DEF ConfigWrite, Answer, files
<1>2. posts \in Nat /\ made \in Nat /\ posts' \in 1..MaxPosts
  BY <1>1, Numbers DEF Inv, Types, CountType, FileType
<1>3. CountType' /\ FileType' /\ Unmade'
  BY <1>1, <1>2, Numbers DEF Inv, Types, CountType, FileType, Unmade
<1>4. op \in [of : 1..MaxPosts, step : {"rename", "open", "write"},
              second : Second, out : Settings, file : 0..made]
  BY <1>0, <1>1, <1>2, OutputType DEF Inv, Types, MemoryType
<1>5. op.of = posts + 1 /\ op.step = "rename" /\ op.out = Output(c)
  BY <1>0
<1>6. OpType'
  BY <1>1, <1>4 DEF Inv, Types, OpType
<1>7. FilesFit'
  <2>1. ToOpen' = ToOpen \cup {op}
    BY <1>1, <1>5 DEF ToOpen
  <2>2. IsFiniteSet(ops) /\ IsFiniteSet(ToOpen) /\ Cardinality(ToOpen) \in Nat
    BY ToOpenFinite DEF Inv, Types, FilesFit
  <2>3. Cardinality(ToOpen') <= Cardinality(ToOpen) + 1 /\ Cardinality(ToOpen') \in Nat
    BY <2>1, <2>2, CardinalityGrows
  <2>4. IsFiniteSet(ops')
    BY <1>1, <2>2, FS_AddElement
  <2>5. made' + Cardinality(ToOpen') <= posts' + 1
    BY <1>1, <1>2, <2>2, <2>3 DEF Inv, Types, FilesFit
  <2>6. \A o \in ops' : o.of <= posts'
    <3>1. \A o \in ops : o.of \in Nat /\ o.of <= posts
      BY Numbers DEF Inv, Types, OpType, FilesFit
    <3> QED
      BY <1>1, <1>2, <1>5, <3>1
  <2>7. \A o \in ops' : o.step = "write" => o.file \in 1..made'
    BY <1>1, <1>5 DEF Inv, Types, FilesFit
  <2> QED
    BY <2>4, <2>5, <2>6, <2>7 DEF FilesFit
<1>8. FileInv'
  <2>1. CASE ops = {}
    <3>1. ops' = {op} /\ op.out = acked' /\ acked' # Empty /\ mishaps' = {}
      BY <1>1, <1>5, <2>1, OutputType, Numbers
    <3>2. Held' = before'
      BY <1>1 DEF Held
    <3>3. Alone(op)'
      BY <1>5, <3>1, <3>2 DEF Alone
    <3> QED
      BY <3>1, <3>3 DEF FileInv
  <2>2. CASE ops # {}
    BY <1>1, <2>2 DEF FileInv
  <2> QED
    BY <2>1, <2>2
<1> QED
  BY <1>3, <1>6, <1>7, <1>8

LEMMA ConfigWriteKeeps ==
    ASSUME Inv, NEW c \in Settings, ConfigWrite(c)
    PROVE  CountType' /\ FileType' /\ OpType' /\ FilesFit' /\ FileInv' /\ Unmade'
<1>1. CASE ~c.cased
  <2>1. /\ posts < MaxPosts /\ posts' = posts + 1
        /\ UNCHANGED <<ops, acked, before, mishaps, second, main, backup, data, made,
                       exits, fails>>
    BY <1>1 DEF ConfigWrite, files, history
  <2>2. CountType' /\ FileType' /\ OpType' /\ Unmade'
    BY <2>1, Numbers DEF Inv, Types, CountType, FileType, OpType, Unmade
  <2>3. FilesFit'
    <3>1. made \in Nat /\ posts \in Nat /\ Cardinality(ToOpen) \in Nat
      BY ToOpenRoom, ToOpenFinite DEF Inv, Types
    <3>2. \A o \in ops : o.of \in Nat
      BY Numbers DEF Inv, Types, OpType
    <3>3. ToOpen' = ToOpen
      BY <2>1 DEF ToOpen
    <3> QED
      BY <2>1, <3>1, <3>2, <3>3 DEF Inv, Types, FilesFit
  <2> QED
    BY <2>1, <2>2, <2>3, SameFileInv
<1> QED
  BY <1>1, AnswerKeeps

LEMMA PostKeeps ==
    ASSUME Inv, \/ \E p \in Port \cup {NotANumber} : PostPort(p)
                \/ \E a \in Account : PostAccount(a)
    PROVE  Inv'
<1>1. PICK c \in Settings :
        ConfigWrite(c) /\ (account' = account \/ account' \in Account)
  <2>1. ASSUME NEW p \in Port \cup {NotANumber}, PostPort(p)
        PROVE \E c \in Settings :
              ConfigWrite(c) /\ (account' = account \/ account' \in Account)
    <3>1. [cfg EXCEPT !.port = p] \in Settings
      BY DEF Inv, Types, MemoryType, Settings
    <3> QED
      BY <2>1, <3>1 DEF PostPort
  <2>2. ASSUME NEW a \in Account, PostAccount(a)
        PROVE \E c \in Settings :
              ConfigWrite(c) /\ (account' = account \/ account' \in Account)
    <3>1. [cfg EXCEPT !.account = a] \in Settings
      BY DEF Inv, Types, MemoryType, Settings
    <3> QED
      BY <2>2, <3>1 DEF PostAccount
  <2> QED
    BY <2>1, <2>2
<1>2. MemoryType'
  <2>1. /\ cfg' = c /\ UNCHANGED <<running, listening, second>>
        /\ \/ UNCHANGED <<acked, before, mishaps>>
           \/ acked' = Output(c) /\ before' = Held /\ mishaps' \subseteq {"overlap"}
    BY <1>1 DEF ConfigWrite, Answer, history
  <2> QED
    BY <1>1, <2>1, OutputType, HeldType DEF Inv, Types, MemoryType
<1> QED
  BY <1>1, <1>2, ConfigWriteKeeps DEF Inv, Types

-----------------------------------------------------------------------------
(* The steps of a write. *)

LEMMA Stepped ==
    ASSUME NEW F, NEW op \in [of : 1..MaxPosts, step : {"rename", "open", "write"},
                              second : Second, out : Settings, file : F],
           NEW s, NEW f
    PROVE  [op EXCEPT !.step = s, !.file = f] =
             [of |-> op.of, step |-> s, second |-> op.second, out |-> op.out, file |-> f]
<1> DEFINE r == [op EXCEPT !.step = s, !.file = f]
           q == [of |-> op.of, step |-> s, second |-> op.second, out |-> op.out,
                 file |-> f]
<1>1. DOMAIN op = {"of", "step", "second", "out", "file"}
  OBVIOUS
<1>2. r = [x \in DOMAIN op |-> r[x]] /\ DOMAIN r = DOMAIN op
  OBVIOUS
<1>3. q = [x \in DOMAIN q |-> q[x]] /\ DOMAIN q = DOMAIN op
  BY <1>1
<1>4. \A x \in DOMAIN op : r[x] = q[x]
  <2>1. r["step"] = s /\ r["file"] = f
    BY <1>1
  <2>2. r["of"] = op.of /\ r["second"] = op.second /\ r["out"] = op.out
    BY <1>1
  <2>3. /\ q["of"] = op.of /\ q["second"] = op.second /\ q["out"] = op.out
        /\ q["step"] = s /\ q["file"] = f
    OBVIOUS
  <2> QED
    BY <1>1, <2>1, <2>2, <2>3
<1> QED
  BY <1>2, <1>3, <1>4

(* An operation op is replaced by op2, which still has its file to open.   *)
LEMMA RenameKeeps ==
    ASSUME Inv, NEW op \in ops, Rename(op) \/ RenameRefused(op)
    PROVE  Inv'
<1>a. PICK op2 : op2 = [of |-> op.of, step |-> "open", second |-> op.second,
                        out |-> op.out, file |-> 0]
  OBVIOUS
<1>b. op \in [of : 1..MaxPosts, step : {"rename", "open", "write"},
              second : Second, out : Settings, file : 0..made]
  BY DEF Inv, Types, OpType
<1>0. op2 = [op EXCEPT !.step = "open", !.file = 0]
  BY <1>a, <1>b, Stepped
<1>1. /\ op.step = "rename" /\ ops' = (ops \ {op}) \cup {op2}
      /\ UNCHANGED <<running, cfg, account, listening, second, data, made, posts,
                     exits, acked, before>>
      /\ \/ main' = 0 /\ (backup' = backup \/ backup' = [backup EXCEPT ![op.second] = main])
            /\ fails' = fails /\ mishaps' = mishaps
         \/ main' = main /\ backup' = backup /\ fails < MaxFails /\ fails' = fails + 1
            /\ mishaps' = mishaps \cup {"refused"}
  BY <1>0 DEF Rename, RenameRefused, Step, memory, files, counts, history
<1>3. made \in Nat
  BY ToOpenRoom
<1>4. /\ op2.of = op.of /\ op2.step = "open" /\ op2.out = op.out
      /\ op2 \in [of : 1..MaxPosts, step : {"rename", "open", "write"},
                  second : Second, out : Settings, file : 0..made]
  BY <1>a, <1>b, <1>3
<1>5. MemoryType' /\ CountType' /\ Unmade'
  <2>1. mishaps' \subseteq {"overlap", "refused", "cut"}
    BY <1>1 DEF Inv, Types, MemoryType
  <2>2. MemoryType' /\ Unmade'
    BY <1>1, <2>1 DEF Inv, Types, MemoryType, Unmade
  <2>3. CountType'
    BY <1>1, Numbers DEF Inv, Types, CountType
  <2> QED
    BY <2>2, <2>3
<1>6. FileType'
  BY <1>1, <1>3 DEF Inv, Types, FileType
<1>7. OpType'
  BY <1>1, <1>4 DEF Inv, Types, OpType
<1>8. FilesFit'
  <2>1. ToOpen' = (ToOpen \ {op}) \cup {op2} /\ op \in ToOpen
    BY <1>1, <1>4 DEF ToOpen
  <2>2. IsFiniteSet(ops) /\ IsFiniteSet(ToOpen) /\ Cardinality(ToOpen) \in Nat
    BY ToOpenFinite DEF Inv, Types, FilesFit
  <2>3. IsFiniteSet(ToOpen \ {op}) /\ Cardinality(ToOpen \ {op}) = Cardinality(ToOpen) - 1
    BY <2>1, <2>2, FS_RemoveElement
  <2>4. Cardinality(ToOpen') <= Cardinality(ToOpen) /\ Cardinality(ToOpen') \in Nat
    <3>1. /\ Cardinality((ToOpen \ {op}) \cup {op2}) \in Nat
          /\ Cardinality((ToOpen \ {op}) \cup {op2}) <= Cardinality(ToOpen \ {op}) + 1
      BY <2>3, CardinalityGrows
    <3> QED
      BY <2>1, <2>2, <2>3, <3>1
  <2>5. IsFiniteSet(ops')
    BY <1>1, <2>2, FS_AddElement, FS_RemoveElement
  <2>6. made' + Cardinality(ToOpen') <= posts' + 1
    BY <1>1, <1>3, <2>2, <2>4, ToOpenRoom DEF Inv, Types, FilesFit
  <2> QED
    BY <1>1, <1>4, <2>5, <2>6 DEF Inv, Types, FilesFit
<1>9. FileInv'
  <2>1. ASSUME "overlap" \notin mishaps PROVE Alone(op2)'
    <3>1. Alone(op)
      BY <2>1 DEF Inv, FileInv, Alone
    <3>2. ops' = {op2} /\ op2.out = acked' /\ acked' # Empty /\ "cut" \notin mishaps'
      BY <1>1, <1>4, <3>1 DEF Alone
    <3>3. main' = 0 \/ ("refused" \in mishaps' /\ Held' = before')
      <4>1. CASE main' = main /\ mishaps' = mishaps \cup {"refused"}
        <5>1. Held' = Held /\ before' = before
          BY <1>1, <4>1 DEF Held
        <5>2. Held = before
          BY <1>1, <3>1 DEF Alone
        <5> QED
          BY <4>1, <5>1, <5>2
      <4>2. main' = 0 \/ (main' = main /\ mishaps' = mishaps \cup {"refused"})
        BY <1>1
      <4> QED
        BY <4>1, <4>2
    <3> QED
      BY <1>4, <3>2, <3>3 DEF Alone
  <2> QED
    BY <1>1, <2>1 DEF FileInv
<1> QED
  BY <1>5, <1>6, <1>7, <1>8, <1>9 DEF Inv, Types

LEMMA OpenKeeps ==
    ASSUME Inv, NEW op \in ops, Open(op)
    PROVE  Inv'
<1>a. PICK op2 : op2 = [of |-> op.of, step |-> "write", second |-> op.second,
                        out |-> op.out, file |-> main']
  OBVIOUS
<1>b. op \in [of : 1..MaxPosts, step : {"rename", "open", "write"},
              second : Second, out : Settings, file : 0..made]
  BY DEF Inv, Types, OpType
<1>0. op2 = [op EXCEPT !.step = "write", !.file = main']
  BY <1>a, <1>b, Stepped
<1>1. /\ op.step = "open" /\ ops' = (ops \ {op}) \cup {op2}
      /\ UNCHANGED <<running, cfg, account, listening, second, backup, posts,
                     exits, fails, acked, before, mishaps>>
      /\ \/ main = 0 /\ made' = made + 1 /\ main' = made + 1 /\ data' = data
         \/ /\ main # 0 /\ data' = [data EXCEPT ![main] = Empty]
            /\ made' = made /\ main' = main
  BY <1>0 DEF Open, Step, memory, counts, history
<1>2. op \in ToOpen
  BY <1>1 DEF ToOpen
<1>3. made \in Nat /\ made + 1 \in File /\ main \in 0..made /\ posts \in Nat
  BY <1>2, ToOpenRoom DEF Inv, Types, FileType
<1>4. made' \in made..(made + 1) /\ main' \in 1..made' /\ main' \in File
  BY <1>1, <1>3, ToOpenRoom, Numbers DEF File
<1>5. /\ op2.of = op.of /\ op2.step = "write" /\ op2.out = op.out /\ op2.file = main'
      /\ op2 \in [of : 1..MaxPosts, step : {"rename", "open", "write"},
                  second : Second, out : Settings, file : 0..made']
  BY <1>a, <1>b, <1>4
<1>6. MemoryType' /\ CountType'
  BY <1>1 DEF Inv, Types, MemoryType, CountType
<1>7. FileType'
  <2>1. backup' \in [Second -> 0..made']
    BY <1>1, <1>3, <1>4 DEF Inv, Types, FileType
  <2>2. data' \in [File -> Content]
    BY <1>1 DEF Inv, Types, FileType, Content
  <2> QED
    BY <1>3, <1>4, <2>1, <2>2 DEF FileType
<1>8. OpType'
  <2>1. \A o \in ops : o \in [of : 1..MaxPosts, step : {"rename", "open", "write"},
                              second : Second, out : Settings, file : 0..made']
    BY <1>3, <1>4 DEF Inv, Types, OpType
  <2> QED
    BY <1>1, <1>5, <2>1 DEF OpType
<1>9. FilesFit'
  <2>1. ToOpen' = ToOpen \ {op}
    BY <1>1, <1>5 DEF ToOpen
  <2>2. IsFiniteSet(ops) /\ IsFiniteSet(ToOpen) /\ Cardinality(ToOpen) \in Nat
    BY ToOpenFinite DEF Inv, Types, FilesFit
  <2>3. Cardinality(ToOpen') = Cardinality(ToOpen) - 1
    BY <1>2, <2>1, <2>2, FS_RemoveElement
  <2>4. IsFiniteSet(ops')
    BY <1>1, <2>2, FS_AddElement, FS_RemoveElement
  <2>5. made' + Cardinality(ToOpen') <= posts' + 1
    BY <1>1, <1>3, <1>4, <2>2, <2>3 DEF Inv, Types, FilesFit
  <2>6. \A o \in ops' : o.of <= posts'
    BY <1>1, <1>5 DEF Inv, Types, FilesFit
  <2>7. \A o \in ops' : o.step = "write" => o.file \in 1..made'
    BY <1>1, <1>3, <1>4, <1>5 DEF Inv, Types, FilesFit
  <2> QED
    BY <2>4, <2>5, <2>6, <2>7 DEF FilesFit
<1>10. FileInv'
  <2>1. ASSUME "overlap" \notin mishaps PROVE Alone(op2)'
    <3>1. Alone(op)
      BY <2>1 DEF Inv, FileInv, Alone
    <3>2. data[made + 1] = Empty
      BY <1>3 DEF Inv, Unmade
    <3>3. main' # 0 /\ data'[main'] = Empty
      <4>1. CASE main = 0
        BY <1>1, <1>3, <3>2, <4>1
      <4>2. CASE main # 0
        BY <1>1, <1>4, <4>2 DEF Inv, Types, FileType
      <4> QED
        BY <4>1, <4>2
    <3>4. ops' = {op2} /\ op2.out = acked' /\ acked' # Empty /\ "cut" \notin mishaps'
      BY <1>1, <1>5, <3>1 DEF Alone
    <3> QED
      BY <1>5, <3>3, <3>4 DEF Alone
  <2> QED
    BY <1>1, <2>1 DEF FileInv
<1>11. Unmade'
  <2>1. ASSUME NEW f \in File, f > made' PROVE data'[f] = Empty
    <3>1. f \in Nat /\ f > made /\ f # main
      BY <1>3, <1>4, <2>1, Numbers DEF File
    <3>2. data[f] = Empty
      BY <2>1, <3>1 DEF Inv, Unmade
    <3> QED
      BY <1>1, <2>1, <3>1, <3>2 DEF Inv, Types, FileType
  <2> QED
    BY <2>1 DEF Unmade
<1> QED
  BY <1>6, <1>7, <1>8, <1>9, <1>10, <1>11 DEF Inv, Types

LEMMA WriteEffect ==
    ASSUME Inv, NEW op \in ops, Write(op)
    PROVE  /\ op.step = "write" /\ op.file \in 1..made /\ op.file \in File
           /\ op.out \in Settings /\ ops' = ops \ {op}
           /\ \E d \in Content : /\ data' = [data EXCEPT ![op.file] = d]
                                 /\ data[op.file] = Empty => d = op.out
<1>1. op.step = "write" /\ ops' = ops \ {op} /\ op.out \in Settings
  BY DEF Write, Inv, Types, OpType
<1>2. op.file \in 1..made /\ op.file \in File
  BY <1>1, ToOpenRoom, Numbers DEF Inv, Types, FilesFit, File
<1>3. PICK d \in Over(data[op.file], op.out) : data' = [data EXCEPT ![op.file] = d]
  BY DEF Write
<1>4. d \in Content /\ (data[op.file] = Empty => d = op.out)
  BY <1>1, <1>3 DEF Over, Content
<1> QED
  BY <1>1, <1>2, <1>3, <1>4

LEMMA WriteKeeps ==
    ASSUME Inv, NEW op \in ops, Write(op)
    PROVE  Inv'
<1>1. /\ op.step = "write" /\ op.file \in 1..made /\ op.file \in File
      /\ ops' = ops \ {op}
  BY WriteEffect
<1>2. PICK d \in Content : /\ data' = [data EXCEPT ![op.file] = d]
                           /\ data[op.file] = Empty => d = op.out
  BY WriteEffect
<1>3. UNCHANGED <<running, cfg, account, listening, second, main, backup, made,
                  posts, exits, fails, acked, before, mishaps>>
  BY DEF Write, memory, counts, history
<1>4. MemoryType' /\ CountType'
  BY <1>3 DEF Inv, Types, MemoryType, CountType
<1>5. FileType' /\ OpType'
  BY <1>1, <1>2, <1>3 DEF Inv, Types, FileType, OpType
<1>6. FilesFit'
  <2>1. ToOpen' = ToOpen
    BY <1>1 DEF ToOpen
  <2>2. IsFiniteSet(ops')
    BY <1>1, FS_Subset DEF Inv, Types, FilesFit
  <2> QED
    BY <1>1, <1>3, <2>1, <2>2 DEF Inv, Types, FilesFit
<1>7. FileInv'
  <2>1. ASSUME "overlap" \notin mishaps
        PROVE  ops' = {} /\ main # 0 /\ data'[main] = acked
    <3>1. Alone(op)
      BY <2>1 DEF Inv, FileInv, Alone
    <3>2. main # 0 /\ op.file = main /\ data[main] = Empty /\ op.out = acked
      BY <1>1, <3>1 DEF Alone
    <3> QED
      BY <1>1, <1>2, <3>1, <3>2 DEF Alone, Inv, Types, FileType
  <2> QED
    BY <1>3, <2>1 DEF FileInv, Settled, Held
<1>8. Unmade'
  <2>1. ASSUME NEW f \in File, f > made PROVE data'[f] = Empty
    <3>1. f # op.file
      BY <1>1, <2>1, ToOpenRoom
    <3> QED
      BY <1>2, <2>1, <3>1 DEF Inv, Types, FileType, Unmade
  <2> QED
    BY <1>3, <2>1 DEF Unmade
<1> QED
  BY <1>4, <1>5, <1>6, <1>7, <1>8 DEF Inv, Types

LEMMA WriteFailsKeeps ==
    ASSUME Inv, NEW op \in ops, WriteFails(op)
    PROVE  Inv'
<1>1. /\ ops' = ops \ {op} /\ mishaps' = mishaps \cup {"cut"}
      /\ fails < MaxFails /\ fails' = fails + 1
      /\ UNCHANGED <<running, cfg, account, listening, second, main, backup, data, made,
                     posts, exits, acked, before>>
  BY DEF WriteFails, memory, files
<1>2. MemoryType' /\ FileType' /\ OpType' /\ Unmade'
  BY <1>1 DEF Inv, Types, MemoryType, FileType, OpType, Unmade
<1>5. FileInv'
  <2>1. ASSUME "overlap" \notin mishaps PROVE ops' = {} /\ Held \in {before, Empty}
    <3>1. Alone(op) /\ op.step \in {"open", "write"}
      BY <2>1 DEF Inv, FileInv, Alone, WriteFails
    <3> QED
      BY <1>1, <3>1 DEF Alone, Held
  <2> QED
    BY <1>1, <2>1 DEF FileInv, Settled, Held
<1>3. CountType'
  BY <1>1, Numbers DEF Inv, Types, CountType
<1>4. FilesFit'
  <2>1. ToOpen' \subseteq ToOpen /\ ops' \subseteq ops
    BY <1>1 DEF ToOpen
  <2>2. IsFiniteSet(ops') /\ IsFiniteSet(ToOpen) /\ Cardinality(ToOpen) \in Nat
    BY <2>1, ToOpenFinite, FS_Subset DEF Inv, Types, FilesFit
  <2>3. Cardinality(ToOpen') <= Cardinality(ToOpen) /\ Cardinality(ToOpen') \in Nat
    BY <2>1, <2>2, FS_Subset, FS_CardinalityType
  <2>4. made' + Cardinality(ToOpen') <= posts' + 1
    BY <1>1, <2>2, <2>3, ToOpenRoom DEF Inv, Types, FilesFit
  <2> QED
    BY <1>1, <2>1, <2>2, <2>4 DEF Inv, Types, FilesFit
<1> QED
  BY <1>2, <1>3, <1>4, <1>5 DEF Inv, Types

-----------------------------------------------------------------------------
(* The end of the agent, its start, and time. *)

LEMMA ExitKeeps ==
    ASSUME Inv, Exit
    PROVE  Inv'
<1>1. /\ running' = FALSE /\ ops' = {}
      /\ mishaps' = mishaps \cup (IF ops = {} THEN {} ELSE {"cut"})
      /\ exits < MaxExits /\ exits' = exits + 1
      /\ UNCHANGED <<cfg, account, listening, second, main, backup, data, made,
                     posts, fails, acked, before>>
  BY DEF Exit, files
<1>2. MemoryType' /\ FileType' /\ OpType' /\ Unmade'
  BY <1>1 DEF Inv, Types, MemoryType, FileType, OpType, Unmade
<1>3. CountType'
  BY <1>1, Numbers DEF Inv, Types, CountType
<1>4. FilesFit'
  <2>1. ToOpen' = {}
    BY <1>1 DEF ToOpen
  <2>2. made \in Nat /\ posts \in Nat /\ made <= posts + 1
    BY ToOpenRoom, ToOpenFinite DEF Inv, Types, FilesFit
  <2> QED
    BY <1>1, <2>1, <2>2, FS_EmptySet DEF FilesFit
<1>5. FileInv'
  <2>1. CASE ops = {}
    BY <1>1, <2>1, SameFileInv
  <2>2. ASSUME ops # {}, "overlap" \notin mishaps PROVE Held \in {before, Empty}
    <3>1. PICK op \in ops : Alone(op)
      BY <2>2 DEF Inv, FileInv
    <3>2. op.step \in {"rename", "open", "write"}
      BY DEF Inv, Types, OpType
    <3> QED
      BY <3>1, <3>2 DEF Alone, Held
  <2> QED
    BY <1>1, <2>1, <2>2 DEF FileInv, Settled, Held
<1> QED
  BY <1>2, <1>3, <1>4, <1>5 DEF Inv, Types

LEMMA StartKeeps ==
    ASSUME Inv, Start
    PROVE  Inv'
<1>1. PICK d : /\ d = Held
               /\ d # Mixed /\ cfg' = Load(d) /\ account' = Load(d).account
               /\ listening' = ListenPort(Load(d))
  BY DEF Start
<1>2. /\ running' = TRUE
      /\ UNCHANGED <<second, ops, main, backup, data, made, posts, exits, fails,
                     acked, before, mishaps>>
  BY DEF Start, files, counts, history
<1>3. d \in Content
  BY <1>1, HeldType
<1>4. Load(d) \in Settings
  BY <1>1, <1>3 DEF Load, Content, Defaults, Settings
<1>5. MemoryType'
  BY <1>1, <1>2, <1>4 DEF Inv, Types, MemoryType, ListenPort, Settings
<1>6. CountType' /\ FileType' /\ OpType' /\ Unmade'
  BY <1>2 DEF Inv, Types, CountType, FileType, OpType, Unmade
<1>7. FilesFit'
  BY <1>2 DEF Inv, Types, FilesFit, ToOpen
<1>8. FileInv'
  BY <1>2, SameFileInv
<1> QED
  BY <1>5, <1>6, <1>7, <1>8 DEF Inv, Types

LEMMA TickKeeps ==
    ASSUME Inv, Tick \/ UNCHANGED vars
    PROVE  Inv'
<1>1. /\ second' \in Second
      /\ UNCHANGED <<running, cfg, account, listening, ops, main, backup, data, made,
                     posts, exits, fails, acked, before, mishaps>>
  BY Numbers DEF Inv, Types, MemoryType, Second, Tick, vars, memory, files, counts, history
<1>2. MemoryType' /\ CountType' /\ FileType' /\ OpType' /\ Unmade'
  BY <1>1 DEF Inv, Types, MemoryType, CountType, FileType, OpType, Unmade
<1>3. FilesFit'
  BY <1>1 DEF Inv, Types, FilesFit, ToOpen
<1>4. FileInv'
  BY <1>1, SameFileInv
<1> QED
  BY <1>2, <1>3, <1>4 DEF Inv, Types

-----------------------------------------------------------------------------

LEMMA InitInv == Init => Inv
<1> SUFFICES ASSUME Init PROVE Inv
  OBVIOUS
<1>1. /\ running = TRUE /\ account = cfg.account /\ listening = ListenPort(cfg)
      /\ second = 0 /\ ops = {} /\ backup = [t \in Second |-> 0]
      /\ posts = 0 /\ exits = 0 /\ fails = 0 /\ acked = Empty
      /\ before = Held /\ mishaps = {}
  BY DEF Init
<1>2. /\ cfg \in Settings /\ made \in {0, 1} /\ main = made
      /\ data \in [File -> Content] /\ \A f \in File : f > made => data[f] = Empty
  <2>1. CASE main = 0 /\ made = 0 /\ data = [f \in File |-> Empty] /\ cfg = Defaults
    BY <2>1 DEF Content, Defaults, Settings
  <2>2. ASSUME NEW p \in Port, NEW a \in Account, NEW cased \in BOOLEAN, main = 1, made = 1,
               cfg = [port |-> p, account |-> a, cased |-> cased, rest |-> Mine],
               data = [f \in File |-> IF f = 1 THEN cfg ELSE Empty]
        PROVE  /\ cfg \in Settings /\ made \in {0, 1} /\ main = made
               /\ data \in [File -> Content]
               /\ \A f \in File : f > made => data[f] = Empty
    <3>1. cfg \in Settings
      BY <2>2 DEF Settings
    <3>2. \A f \in File : f > 1 => f # 1
      BY Numbers DEF File
    <3> QED
      BY <2>2, <3>1, <3>2 DEF Content
  <2> QED
    BY <2>1, <2>2 DEF Init
<1>8. Held \in Content
  <2>1. main # 0 => main \in File
    BY <1>2, Numbers DEF File
  <2> QED
    BY <1>2, <2>1 DEF Held, Content
<1>3. MemoryType
  BY <1>1, <1>2, <1>8, Numbers DEF MemoryType, ListenPort, Settings, Second
<1>4. CountType
  BY <1>1, Numbers DEF CountType
<1>5. FileType /\ OpType /\ Unmade
  BY <1>1, <1>2 DEF FileType, OpType, Unmade
<1>6. FilesFit
  <2>1. ToOpen = {}
    BY <1>1 DEF ToOpen
  <2> QED
    BY <1>1, <1>2, <2>1, FS_EmptySet DEF FilesFit
<1>7. FileInv
  BY <1>1 DEF FileInv, Settled
<1> QED
  BY <1>3, <1>4, <1>5, <1>6, <1>7 DEF Inv, Types

LEMMA NextInv == Inv /\ [Next]_vars => Inv'
<1> SUFFICES ASSUME Inv, [Next]_vars PROVE Inv'
  OBVIOUS
<1>1. CASE \/ \E p \in Port \cup {NotANumber} : PostPort(p)
           \/ \E a \in Account : PostAccount(a)
  BY <1>1, PostKeeps
<1>2. CASE \E op \in ops : \/ Rename(op) \/ RenameRefused(op)
                         \/ Open(op) \/ Write(op) \/ WriteFails(op)
  BY <1>2, RenameKeeps, OpenKeeps, WriteKeeps, WriteFailsKeeps
<1>3. CASE Exit
  BY <1>3, ExitKeeps
<1>4. CASE Start
  BY <1>4, StartKeeps
<1>5. CASE Tick \/ Done \/ UNCHANGED vars
  BY <1>5, TickKeeps DEF Done
<1> QED
  BY <1>1, <1>2, <1>3, <1>4, <1>5 DEF Next

LEMMA Invariance == Spec => []Inv
  BY InitInv, NextInv, PTL DEF Spec

(* The type of every variable of the configuration over HTTP; in           *)
(* particular no request makes more than one file (cw_config_write).       *)
THEOREM TypeCorrect == Spec => []TypeOK
<1>1. Inv => TypeOK
  <2> SUFFICES ASSUME Inv PROVE TypeOK
    OBVIOUS
  <2>1. made \in 0..(MaxPosts + 1)
    BY ToOpenRoom, Numbers
  <2> QED
    BY <2>1 DEF Inv, Types, MemoryType, CountType, FileType, OpType, TypeOK
<1> QED
  BY <1>1, Invariance, PTL

(* A request that no other overlaps never leaves in the file but what it    *)
(* had, nothing, or what was answered for, whenever the agent ends and      *)
(* whatever fails, and what was answered for once it was written; whatever  *)
(* happened to the requests before (cw_config_write).                       *)
THEOREM FileIsSettingsAlways == Spec => []FileIsSettings
<1>1. ASSUME Inv, "overlap" \notin mishaps, NEW op \in ops
      PROVE  ops # {} /\ Held \in {before, Empty}
  <2>1. Alone(op)
    BY <1>1 DEF Inv, FileInv, Alone
  <2>2. op.step \in {"rename", "open", "write"}
    BY <1>1 DEF Inv, Types, OpType
  <2> QED
    BY <1>1, <2>1, <2>2 DEF Alone, Held
<1>2. Inv => FileIsSettings
  BY <1>1 DEF Inv, FileInv, Settled, FileIsSettings
<1> QED
  BY <1>2, Invariance, PTL

-----------------------------------------------------------------------------
(* What is on disk stays there. *)

LEMMA SameFiles ==
    ASSUME UNCHANGED <<main, backup, data>>
    PROVE  OnDisk' = OnDisk
  BY DEF OnDisk

(* Settings c are on disk where a name leads to a file that has them. *)
LEMMA OnDiskIs ==
    ASSUME NEW c
    PROVE  c \in OnDisk <=>
             /\ c \in Settings
             /\ \/ main # 0 /\ data[main] = c
                \/ \E t \in Second : backup[t] # 0 /\ data[backup[t]] = c
  BY DEF OnDisk

LEMMA OnDiskIsNext ==
    ASSUME NEW c
    PROVE  c \in OnDisk' <=>
             /\ c \in Settings
             /\ \/ main' # 0 /\ data'[main'] = c
                \/ \E t \in Second : backup'[t] # 0 /\ data'[backup'[t]] = c
  BY DEF OnDisk

LEMMA OpIsAlone ==
    ASSUME Inv, "overlap" \notin mishaps, NEW op \in ops
    PROVE  Alone(op)
  BY DEF Inv, FileInv, Alone

LEMMA RenameBacksUp ==
    ASSUME Inv, NEW op \in ops, Rename(op), backup[op.second] = 0,
           NEW c \in OnDisk
    PROVE  c \in OnDisk'
<1>1. op.second \in Second /\ backup \in [Second -> 0..made] /\ data' = data
  BY DEF Inv, Types, OpType, FileType, Rename
<1>2. CASE main = 0
  BY <1>2, SameFiles DEF Rename
<1>3. CASE main # 0
  <2>1. backup' = [backup EXCEPT ![op.second] = main] /\ backup'[op.second] = main
    BY <1>1, <1>3 DEF Rename
  <2>2. CASE data[main] = c
    BY <1>1, <1>3, <2>1, <2>2, OnDiskIs, OnDiskIsNext
  <2>3. CASE \E t \in Second : backup[t] # 0 /\ data[backup[t]] = c
    <3>1. PICK t \in Second : backup[t] # 0 /\ data[backup[t]] = c
      BY <2>3
    <3>2. t # op.second /\ backup'[t] = backup[t]
      BY <1>1, <2>1, <3>1
    <3> QED
      BY <1>1, <3>1, <3>2, OnDiskIs, OnDiskIsNext
  <2> QED
    BY <2>2, <2>3, OnDiskIs
<1> QED
  BY <1>2, <1>3

LEMMA OpenBacksUp ==
    ASSUME Inv, mishaps \cap {"overlap", "refused"} = {}, NEW op \in ops, Open(op),
           NEW c \in OnDisk
    PROVE  c \in OnDisk'
<1>1. main = 0
  BY OpIsAlone DEF Alone, Open
<1>2. data' = data /\ backup' = backup
  BY <1>1 DEF Open
<1> QED
  BY <1>1, <1>2, OnDiskIs, OnDiskIsNext

LEMMA WriteBacksUp ==
    ASSUME Inv, mishaps \cap {"overlap", "refused"} = {}, NEW op \in ops, Write(op),
           NEW c \in OnDisk
    PROVE  c \in OnDisk'
<1>1. op.step = "write" /\ main' = main /\ backup' = backup
  BY DEF Write
<1>2. op.file = main /\ data[main] = Empty
  BY <1>1, OpIsAlone DEF Alone
<1>3. PICK d : data' = [data EXCEPT ![main] = d]
  BY <1>2, WriteEffect
<1>4. c \in Settings /\ c # Empty
  BY OnDiskIs, Numbers
<1>5. PICK t \in Second : backup[t] # 0 /\ data[backup[t]] = c
  BY <1>2, <1>4, OnDiskIs
<1>6. backup[t] # main
  BY <1>2, <1>4, <1>5
<1>7. backup[t] \in File
  BY <1>5, ToOpenRoom, Numbers DEF Inv, Types, FileType, File
<1>8. data'[backup[t]] = c
  BY <1>3, <1>5, <1>6, <1>7 DEF Inv, Types, FileType
<1> QED
  BY <1>1, <1>4, <1>5, <1>8, OnDiskIsNext

(* Settings that were in the file stay on disk, whenever the agent ends and *)
(* the writing fails, unless two requests overlap, the rename is refused or *)
(* a backup of the same second takes the name of another (the rename of     *)
(* cw_config_write).                                                        *)
THEOREM BackedUpAlways == Spec => BackedUp
<1> DEFINE Kept == \A c \in OnDisk \ OnDisk' :
                      \/ mishaps \cap {"overlap", "refused"} # {}
                      \/ \E op \in ops : op.step = "rename" /\ backup[op.second] # 0
<1>1. Inv /\ [Next]_vars => [Kept]_vars
  <2> SUFFICES ASSUME Inv, Next, NEW c \in OnDisk, c \notin OnDisk',
                      mishaps \cap {"overlap", "refused"} = {}
               PROVE  \E op \in ops : op.step = "rename" /\ backup[op.second] # 0
    OBVIOUS
  <2>1. CASE \/ \E p \in Port \cup {NotANumber} : PostPort(p)
             \/ \E a \in Account : PostAccount(a)
             \/ Exit \/ Start \/ Tick \/ Done
    <3>1. UNCHANGED <<main, backup, data>>
      BY <2>1 DEF PostPort, PostAccount, ConfigWrite, Exit, Start, Tick, Done, vars, files
    <3> QED
      BY <3>1, SameFiles
  <2>2. CASE \E op \in ops : \/ Rename(op) \/ RenameRefused(op)
                           \/ Open(op) \/ Write(op) \/ WriteFails(op)
    <3>1. PICK op \in ops : \/ Rename(op) \/ RenameRefused(op)
                           \/ Open(op) \/ Write(op) \/ WriteFails(op)
      BY <2>2
    <3>2. Rename(op)
      <4>1. ~WriteFails(op) /\ ~RenameRefused(op)
        BY SameFiles DEF WriteFails, RenameRefused, files
      <4> QED
        BY <3>1, <4>1, OpenBacksUp, WriteBacksUp
    <3>3. op.step = "rename"
      BY <3>2 DEF Rename
    <3> QED
      BY <3>2, <3>3, RenameBacksUp
  <2> QED
    BY <2>1, <2>2 DEF Next
<1> QED
  BY <1>1, Invariance, PTL DEF Spec, BackedUp
=============================================================================
