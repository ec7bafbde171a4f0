------------------------- MODULE TraceReplayProofs -------------------------
(***************************************************************************)
(* Proofs about TraceReplay: the types, what the options -n and -s of      *)
(* treplay promise, and what a full replay computes, for every trace the   *)
(* users' calls can leave.                                                 *)
(***************************************************************************)
EXTENDS TraceReplay, SequenceTheorems, WellFoundedInduction, TLAPS

(***************************************************************************)
(* The file trees.                                                         *)
(***************************************************************************)
Units   == Contents \cup {Hole, Garbled, NoContent}
Objects == [kind : Kinds, data : Seq(Units)]

(* Every name is that of an object, or of none.                              *)
Trees ==
  {fs \in [name : [Paths -> Nat], node : Seq(Objects)] :
     \A p \in Paths : fs.name[p] \in 0 .. Len(fs.node)}

(* No object is lost, so the numbers that are held stay valid.               *)
Grown(fs, gs) == gs \in Trees /\ Len(fs.node) <= Len(gs.node)

(* What a tree is made of.                                                   *)
LEMMA TreeParts ==
  ASSUME NEW fs \in Trees
  PROVE  /\ fs.name \in [Paths -> Nat] /\ fs.node \in Seq(Objects)
         /\ Len(fs.node) \in Nat
         /\ \A p \in Paths : fs.name[p] \in 0 .. Len(fs.node)
         /\ fs = [name |-> fs.name, node |-> fs.node]
<1>1. /\ fs \in [name : [Paths -> Nat], node : Seq(Objects)]
      /\ \A p \in Paths : fs.name[p] \in 0 .. Len(fs.node)
  BY DEF Trees
<1>2. Len(fs.node) \in Nat
  BY <1>1
<1> QED BY <1>1, <1>2

(* And how to show that something is one.                                    *)
LEMMA TreeOf ==
  ASSUME NEW name \in [Paths -> Nat], NEW node \in Seq(Objects),
         \A p \in Paths : name[p] \in 0 .. Len(node)
  PROVE  [name |-> name, node |-> node] \in Trees
BY DEF Trees

LEMMA StartTreeType == StartTree \in Trees
<1> DEFINE name == [p \in Paths |-> IF \E i \in DOMAIN Already : Already[i] = p
                             THEN CHOOSE i \in DOMAIN Already : Already[i] = p
                             ELSE 0]
           node == [i \in DOMAIN Already |-> [kind |-> "file", data |-> <<>>]]
<1>1. Already \in Seq(Paths) /\ Len(Already) \in Nat /\ DOMAIN Already = 1 .. Len(Already)
  BY TreeAssumption
<1>2. [kind |-> "file", data |-> <<>>] \in Objects
  BY DEF Objects, Kinds
<1>3. node \in Seq(Objects) /\ Len(node) = Len(Already)
  <2>1. node \in [1 .. Len(Already) -> Objects]
    BY <1>1, <1>2
  <2> QED BY <2>1, <1>1, IsASeq
<1>4. \A p \in Paths : name[p] \in 0 .. Len(Already)
  <2> TAKE p \in Paths
  <2>1. CASE \E i \in DOMAIN Already : Already[i] = p
    <3>1. (CHOOSE i \in DOMAIN Already : Already[i] = p) \in DOMAIN Already
      BY <2>1
    <3> QED BY <3>1, <2>1, <1>1
  <2>2. CASE ~ \E i \in DOMAIN Already : Already[i] = p
    BY <2>2, <1>1
  <2> QED BY <2>1, <2>2
<1>5. name \in [Paths -> Nat]
  BY <1>4, <1>1
<1> HIDE DEF name, node
<1>6. [name |-> name, node |-> node] \in Trees
  BY <1>3, <1>4, <1>5, TreeOf
<1> QED BY <1>6 DEF StartTree, name, node

LEMMA AddType ==
  ASSUME NEW fs \in Trees, NEW p \in Paths, NEW kind \in Kinds
  PROVE  Grown(fs, Add(fs, p, kind))
<1> DEFINE name == [fs.name EXCEPT ![p] = Len(fs.node) + 1]
           node == Append(fs.node, [kind |-> kind, data |-> <<>>])
<1>1. /\ fs.name \in [Paths -> Nat] /\ fs.node \in Seq(Objects) /\ Len(fs.node) \in Nat
      /\ \A q \in Paths : fs.name[q] \in 0 .. Len(fs.node)
  BY TreeParts
<1>2. [kind |-> kind, data |-> <<>>] \in Objects
  BY DEF Objects
<1>3. node \in Seq(Objects) /\ Len(node) = Len(fs.node) + 1
  BY <1>1, <1>2, AppendProperties
<1>4. name \in [Paths -> Nat]
  BY <1>1
<1>5. \A q \in Paths : name[q] \in 0 .. Len(node)
  <2> TAKE q \in Paths
  <2>1. fs.name[q] \in 0 .. Len(fs.node)
    BY <1>1
  <2>2. name[q] = IF q = p THEN Len(fs.node) + 1 ELSE fs.name[q]
    BY <1>1
  <2> HIDE DEF name, node
  <2> QED BY <1>1, <1>3, <2>1, <2>2
<1> HIDE DEF name, node
<1>6. [name |-> name, node |-> node] \in Trees
  BY <1>3, <1>4, <1>5, TreeOf
<1>7. Add(fs, p, kind) = [name |-> name, node |-> node]
  BY DEF Add, name, node
<1> QED BY <1>1, <1>3, <1>6, <1>7 DEF Grown

(* Unlink and rmdir, link and rename change names only.                      *)
LEMMA NamesType ==
  ASSUME NEW fs \in Trees, NEW p \in Paths, NEW q \in Paths
  PROVE  Grown(fs, Remove(fs, p)) /\ Grown(fs, Link(fs, p, q)) /\ Grown(fs, Rename(fs, p, q))
<1>1. /\ fs.name \in [Paths -> Nat] /\ fs.node \in Seq(Objects) /\ Len(fs.node) \in Nat
      /\ \A r \in Paths : fs.name[r] \in 0 .. Len(fs.node)
      /\ fs = [name |-> fs.name, node |-> fs.node]
  BY TreeParts
<1>2. ASSUME NEW name \in [Paths -> Nat], \A r \in Paths : name[r] \in 0 .. Len(fs.node)
      PROVE  Grown(fs, [fs EXCEPT !.name = name])
  <2>1. [fs EXCEPT !.name = name] = [name |-> name, node |-> fs.node]
    BY <1>1
  <2>2. [name |-> name, node |-> fs.node] \in Trees
    BY <1>1, <1>2, TreeOf
  <2> QED BY <1>1, <2>1, <2>2 DEF Grown
<1>3. Grown(fs, Remove(fs, p))
  <2> DEFINE name == [fs.name EXCEPT ![p] = 0]
  <2>1. Remove(fs, p) = [fs EXCEPT !.name = name]
    BY <1>1 DEF Remove
  <2>2. name \in [Paths -> Nat] /\ \A r \in Paths : name[r] \in 0 .. Len(fs.node)
    BY <1>1
  <2> HIDE DEF name
  <2> QED BY <1>2, <2>1, <2>2
<1>4. Grown(fs, Link(fs, p, q))
  <2> DEFINE name == [fs.name EXCEPT ![q] = fs.name[p]]
  <2>1. Link(fs, p, q) = [fs EXCEPT !.name = name]
    BY <1>1 DEF Link
  <2>2. name \in [Paths -> Nat] /\ \A r \in Paths : name[r] \in 0 .. Len(fs.node)
    BY <1>1
  <2> HIDE DEF name
  <2> QED BY <1>2, <2>1, <2>2
<1>5. Grown(fs, Rename(fs, p, q))
  <2>1. CASE fs.name[p] = fs.name[q]
    BY <1>1, <2>1 DEF Rename, Grown
  <2>2. CASE fs.name[p] # fs.name[q]
    <3> DEFINE moved == [fs.name EXCEPT ![q] = fs.name[p], ![p] = 0]
    <3>1. Rename(fs, p, q) = [fs EXCEPT !.name = moved]
      BY <1>1, <2>2 DEF Rename
    <3>2. moved \in [Paths -> Nat] /\ \A r \in Paths : moved[r] \in 0 .. Len(fs.node)
      BY <1>1
    <3> HIDE DEF moved
    <3> QED BY <1>2, <3>1, <3>2
  <2> QED BY <2>1, <2>2
<1> QED BY <1>3, <1>4, <1>5

(* Giving object i other contents.                                           *)
LEMMA DataType ==
  ASSUME NEW fs \in Trees, NEW i \in 0 .. Len(fs.node), NEW data,
         i # 0 => data \in Seq(Units)
  PROVE  Grown(fs, [fs EXCEPT !.node[i].data = data])
<1>1. /\ fs.name \in [Paths -> Nat] /\ fs.node \in Seq(Objects) /\ Len(fs.node) \in Nat
      /\ \A p \in Paths : fs.name[p] \in 0 .. Len(fs.node)
      /\ fs = [name |-> fs.name, node |-> fs.node]
  BY TreeParts
<1> DEFINE node == [fs.node EXCEPT ![i].data = data]
<1>2. node \in Seq(Objects) /\ Len(node) = Len(fs.node)
  <2>1. fs.node \in [1 .. Len(fs.node) -> Objects]
    BY <1>1
  <2>2. \A j \in 1 .. Len(fs.node) : node[j] \in Objects
    <3> TAKE j \in 1 .. Len(fs.node)
    <3>1. fs.node[j] \in Objects
      BY <2>1
    <3>2. CASE j = i
      <4>1. data \in Seq(Units)
        BY <3>2
      <4>2. node[j] = [fs.node[j] EXCEPT !.data = data]
        BY <2>1, <3>2
      <4> QED BY <3>1, <4>1, <4>2 DEF Objects
    <3>3. CASE j # i
      BY <2>1, <3>1, <3>3
    <3> QED BY <3>2, <3>3
  <2>3. node \in [1 .. Len(fs.node) -> Objects]
    BY <2>1, <2>2
  <2> QED BY <1>1, <2>3, IsASeq
<1>3. [fs EXCEPT !.node[i].data = data] = [name |-> fs.name, node |-> node]
  <2>1. [fs EXCEPT !.node[i].data = data] = [fs EXCEPT !.node = node]
    OBVIOUS
  <2> HIDE DEF node
  <2> QED BY <1>1, <2>1
<1> HIDE DEF node
<1>4. [name |-> fs.name, node |-> node] \in Trees
  BY <1>1, <1>2, TreeOf
<1> QED BY <1>1, <1>2, <1>3, <1>4 DEF Grown

LEMMA OpenedType ==
  ASSUME NEW fs \in Trees, NEW p \in Paths, NEW fl
  PROVE  Grown(fs, Opened(fs, p, fl))
<1>1. CASE ~Exists(fs, p)
  <2>0. "file" \in Kinds
    BY DEF Kinds
  <2>1. Grown(fs, Add(fs, p, "file"))
    BY <2>0, AddType
  <2> QED BY <1>1, <2>1 DEF Opened
<1>2. CASE Exists(fs, p) /\ fl.trunc
  <2>1. fs.name[p] \in 0 .. Len(fs.node) /\ <<>> \in Seq(Units)
    BY TreeParts
  <2> DEFINE i == fs.name[p]
  <2>2. i \in 0 .. Len(fs.node)
    BY <2>1
  <2> HIDE DEF i
  <2>3. Grown(fs, [fs EXCEPT !.node[i].data = <<>>])
    BY <2>1, <2>2, DataType
  <2>4. Opened(fs, p, fl) = [fs EXCEPT !.node[i].data = <<>>]
    BY <1>2 DEF Opened, i
  <2> QED BY <2>3, <2>4
<1>3. CASE Exists(fs, p) /\ ~fl.trunc
  <2>1. Opened(fs, p, fl) = fs
    BY <1>3 DEF Opened
  <2>2. Len(fs.node) \in Nat
    BY TreeParts
  <2> QED BY <2>1, <2>2 DEF Grown
<1> QED BY <1>1, <1>2, <1>3

LEMMA WrittenType ==
  ASSUME NEW fs \in Trees, NEW i \in 0 .. Len(fs.node), NEW pos \in Nat, NEW c \in Units
  PROVE  Grown(fs, Written(fs, i, pos, c))
<1> DEFINE old == fs.node[i].data
           len == IF Len(old) > pos THEN Len(old) ELSE pos + 1
           data == [n \in 1 .. len |-> IF n = pos + 1 THEN c
                             ELSE IF n <= Len(old) THEN old[n] ELSE Hole]
<1>1. ASSUME i # 0 PROVE data \in Seq(Units)
  <2>1. fs.node \in Seq(Objects) /\ Len(fs.node) \in Nat
    BY TreeParts
  <2>2. fs.node[i] \in Objects
    BY <1>1, <2>1
  <2>3. old \in Seq(Units)
    BY <2>2 DEF Objects
  <2>4. Len(old) \in Nat /\ len \in Nat
    BY <2>3
  <2>5. data \in [1 .. len -> Units]
    BY <2>3, <2>4 DEF Units
  <2> QED BY <2>4, <2>5, IsASeq
<1> HIDE DEF data
<1>2. Grown(fs, [fs EXCEPT !.node[i].data = data])
  BY <1>1, DataType
<1>3. Written(fs, i, pos, c) = [fs EXCEPT !.node[i].data = data]
  BY DEF Written, data
<1> QED BY <1>2, <1>3

(***************************************************************************)
(* The inductive invariant.                                                *)
(***************************************************************************)
Texts == Contents \cup {NoContent, Garbled}

(* What a call of trfs can leave in the trace; link and rename have two      *)
(* paths.                                                                    *)
RecordOps == Ops \cup {"create", "release"}

TwoPaths == {"link", "rename"}

Records ==
  {r \in [op : RecordOps, err : -2 .. 1, p1 : Paths, p2 : Paths \cup {NoContent},
          creat : BOOLEAN, trunc : BOOLEAN, len : -2 .. 1, content : Texts] :
     r.op \in TwoPaths => r.p2 \in Paths}

Slots == [ino : Nat, pos : Nat]

(* The users hold numbers of objects that exist, so does treplay.            *)
UsersOK ==
  /\ menu \in Menus
  /\ ltree \in Trees
  /\ files \in [Handles -> Slots]
  /\ \A h \in Handles : files[h].ino \in 0 .. Len(ltree.node)

DescriptorsOK ==
  /\ rtree \in Trees
  /\ fdtab \in [1 .. MaxFds -> Slots]
  /\ \A n \in 1 .. MaxFds : fdtab[n].ino \in 0 .. Len(rtree.node)
  /\ fd \in 0 .. MaxFds

(* A record that has been got is in the trace, and its paths were read back  *)
(* as some paths; what it does not have is left from an earlier one.         *)
PlaceOK ==
  /\ trace \in Seq(Records)
  /\ k \in 1 .. (Len(trace) + 1)
  /\ pc = "got" => k <= Len(trace) /\ path1 \in Paths
  /\ (pc = "got" /\ trace[k].op \in TwoPaths) => path2 \in Paths
  /\ content \in Texts
  /\ deviated \subseteq 1 .. (k - 1)

TypeInv == UsersOK /\ DescriptorsOK /\ PlaceOK

(* Until treplay has read its options nothing has been replayed, with -n     *)
(* nothing ever is.                                                          *)
Printing == argv.opts = {"n"} /\ argv.argc = 3

PrintInv ==
  (pc \in {"record", "start"} \/ Printing) => (replay = FALSE /\ rtree = StartTree)

(* With -s there is no deviation as long as treplay runs.                    *)
StrictInv ==
  /\ pc \in {"record", "start", "trace"} => deviated = {}
  /\ abort => \A i \in deviated : i = k - 1 /\ pc = "aborted"

ReplayInv == TypeInv /\ PrintInv /\ StrictInv

(***************************************************************************)
(* The users' calls.                                                       *)
(***************************************************************************)
(* A call the users of this behaviour can make.                              *)
LEMMA CallType ==
  ASSUME UsersOK, NEW u \in menu.calls
  PROVE  u.p \in Paths /\ u.q \in Paths /\ u.h \in Handles /\ u.c \in Contents
         /\ u.creat \in BOOLEAN /\ u.trunc \in BOOLEAN
<1>1. menu.calls \in SUBSET Call
  BY RecordAssumption DEF UsersOK
<1> QED BY <1>1 DEF Call

(* The records are records.                                                  *)
LEMMA RecType ==
  ASSUME NEW op \in RecordOps, NEW err \in -2 .. 1, NEW p \in Paths,
         NEW q \in Paths \cup {NoContent}, op \in TwoPaths => q \in Paths
  PROVE  Rec(op, err, p, q) \in Records
BY DEF Rec, Records, Texts

LEMMA OneType ==
  ASSUME NEW op \in RecordOps \ TwoPaths, NEW err \in -2 .. 1, NEW p \in Paths
  PROVE  One(op, err, p) \in Records
BY RecType DEF One

LEMMA OpenRecType ==
  ASSUME NEW err \in -2 .. 1, UsersOK, NEW u \in menu.calls
  PROVE  OpenRec(err, u) \in Records
<1> DEFINE x == Rec("open", err, u.p, NoContent)
           y == [x EXCEPT !.creat = u.creat]
           z == [y EXCEPT !.trunc = u.trunc]
<1>1. u.p \in Paths /\ u.creat \in BOOLEAN /\ u.trunc \in BOOLEAN
  BY CallType
<1>2. "open" \in RecordOps \ TwoPaths
  BY DEF RecordOps, Ops, TwoPaths
<1>3. x \in Records
  BY <1>1, <1>2, RecType
<1>4. OpenRec(err, u) = z
  BY DEF OpenRec
<1> HIDE DEF x
<1>5. y \in Records
  BY <1>1, <1>3 DEF Records
<1> HIDE DEF y
<1>6. z \in Records
  BY <1>1, <1>5 DEF Records
<1> HIDE DEF z
<1> QED BY <1>4, <1>6

LEMMA WriteRecType ==
  ASSUME NEW err \in -2 .. 1, NEW p \in Paths, NEW c \in Contents \cup {Garbled}
  PROVE  WriteRec(err, p, c) \in Records
<1> DEFINE text == IF err > 0 THEN c ELSE NoContent
           x == Rec("write", err, p, NoContent)
           y == [x EXCEPT !.len = err]
           z == [y EXCEPT !.content = text]
<1>1. text \in Texts
  BY DEF Texts
<1>2. "write" \in RecordOps \ TwoPaths
  BY DEF RecordOps, Ops, TwoPaths
<1>3. x \in Records
  BY <1>2, RecType
<1>4. WriteRec(err, p, c) = z
  BY DEF WriteRec
<1> HIDE DEF text, x
<1>5. y \in Records
  BY <1>3 DEF Records
<1> HIDE DEF y
<1>6. z \in Records
  BY <1>1, <1>5 DEF Records
<1> HIDE DEF z
<1> QED BY <1>4, <1>6

LEMMA ClobberedType ==
  ASSUME NEW p \in Paths, NEW q \in Paths
  PROVE  Clobbered(p, q) \in Paths
BY ReplayAssumption DEF Clobbered

(* Whatever treplay will find, it has not started when a call is made, and a *)
(* longer trace has the places of a shorter one.                             *)
LEMMA CallingType ==
  ASSUME TypeInv, NEW recs \in Seq(Records), Calling(recs)
  PROVE  DescriptorsOK' /\ PlaceOK' /\ menu' = menu
<1>1. DescriptorsOK'
  BY DEF TypeInv, DescriptorsOK, Calling, rvars
<1>2. trace' \in Seq(Records) /\ Len(trace') >= Len(trace)
  <2>1. trace \in Seq(Records)
    BY DEF TypeInv, PlaceOK
  <2>2. trace' = trace \o recs
    BY DEF Calling
  <2>3. Len(trace') = Len(trace) + Len(recs) /\ Len(recs) \in Nat /\ Len(trace) \in Nat
    BY <2>1, <2>2, ConcatProperties
  <2> QED BY <2>1, <2>2, <2>3
<1>3. PlaceOK'
  <2>1. k' = k /\ pc' = "record" /\ content' = content /\ deviated' = deviated
    BY DEF Calling, rvars
  <2>2. Len(trace) \in Nat /\ Len(trace') \in Nat
    BY <1>2 DEF TypeInv, PlaceOK
  <2>3. k' \in 1 .. (Len(trace') + 1)
    BY <1>2, <2>1, <2>2 DEF TypeInv, PlaceOK
  <2> QED BY <1>2, <2>1, <2>3 DEF TypeInv, PlaceOK
<1>4. menu' = menu
  BY DEF Calling
<1> QED BY <1>1, <1>3, <1>4

(* The files that are open stay numbers of objects when the tree grows.      *)
LEMMA FilesGrow ==
  ASSUME UsersOK, menu' = menu, Grown(ltree, ltree'), files' \in [Handles -> Slots],
         \A h \in Handles : files'[h].ino = files[h].ino \/ files'[h].ino \in 0 .. Len(ltree'.node)
  PROVE  UsersOK'
<1>1. Len(ltree.node) \in Nat /\ Len(ltree'.node) \in Nat
  BY TreeParts DEF UsersOK, Grown
<1>2. \A h \in Handles : files'[h].ino \in 0 .. Len(ltree'.node)
  <2> TAKE h \in Handles
  <2>1. files[h].ino \in 0 .. Len(ltree.node)
    BY DEF UsersOK
  <2>2. Len(ltree.node) <= Len(ltree'.node)
    BY DEF Grown
  <2> QED BY <1>1, <2>1, <2>2
<1> QED BY <1>2 DEF UsersOK, Grown

(* A tree that stays as it is.                                               *)
LEMMA GrownSame ==
  ASSUME NEW fs \in Trees
  PROVE  Grown(fs, fs)
<1>1. Len(fs.node) \in Nat
  BY TreeParts
<1> QED BY <1>1 DEF Grown

(* A handle is set to an open file or to Closed.                             *)
LEMMA SetSlot ==
  ASSUME NEW S, NEW tab \in [S -> Slots], NEW h \in S, NEW slot \in Slots
  PROVE  /\ [tab EXCEPT ![h] = slot] \in [S -> Slots]
         /\ [tab EXCEPT ![h] = slot][h] = slot
         /\ \A g \in S : g # h => [tab EXCEPT ![h] = slot][g] = tab[g]
OBVIOUS

(* Or its position changes.                                                  *)
LEMMA SetPos ==
  ASSUME NEW S, NEW tab \in [S -> Slots], NEW h \in S, NEW pos \in Nat
  PROVE  /\ [tab EXCEPT ![h].pos = pos] \in [S -> Slots]
         /\ \A g \in S : [tab EXCEPT ![h].pos = pos][g].ino = tab[g].ino
<1> DEFINE new == [tab EXCEPT ![h].pos = pos]
<1>1. \A g \in S : new[g] \in Slots /\ new[g].ino = tab[g].ino
  <2> TAKE g \in S
  <2>1. tab[g] \in Slots
    OBVIOUS
  <2>2. CASE g = h
    <3>1. new[g] = [tab[g] EXCEPT !.pos = pos]
      BY <2>2
    <3> QED BY <2>1, <3>1 DEF Slots
  <2>3. CASE g # h
    BY <2>1, <2>3
  <2> QED BY <2>2, <2>3
<1>2. new \in [S -> Slots]
  BY <1>1
<1> HIDE DEF new
<1> QED BY <1>1, <1>2 DEF new

LEMMA ClosedType == Closed \in Slots /\ Closed.ino = 0
  BY DEF Closed, Slots

(* The slots of the files are typed, and the tree has their objects.         *)
LEMMA UserSlot ==
  ASSUME UsersOK, NEW h \in Handles
  PROVE  /\ files[h] \in Slots /\ files[h].ino \in 0 .. Len(ltree.node)
         /\ files[h].pos \in Nat
BY DEF UsersOK, Slots

(* open(2) leaves create records and open records.                           *)
LEMMA UserOpenType ==
  ASSUME TypeInv, NEW u \in menu.calls, UserOpen(u)
  PROVE  TypeInv'
<1> DEFINE there == Exists(ltree, u.p)
           new == IF there THEN <<>> ELSE <<One("create", 0, u.p)>>
<1> USE DEF Fail
<1>1. /\ UsersOK /\ u.p \in Paths /\ u.h \in Handles /\ ltree \in Trees
      /\ files \in [Handles -> Slots] /\ menu \in Menus
  BY CallType DEF TypeInv, UsersOK
<1>2. "create" \in RecordOps \ TwoPaths /\ "file" \in Kinds
  BY DEF RecordOps, Kinds, TwoPaths
<1>3. /\ OpenRec(0, u) \in Records /\ OpenRec(Fail, u) \in Records
      /\ One("create", 0, u.p) \in Records /\ One("create", Fail, u.p) \in Records
  BY <1>1, <1>2, OpenRecType, OneType
<1>4. new \in Seq(Records)
  BY <1>3
<1>5. /\ Append(new, OpenRec(0, u)) \in Seq(Records)
      /\ Append(new, OpenRec(Fail, u)) \in Seq(Records)
      /\ <<One("create", Fail, u.p)>> \in Seq(Records)
  <2> HIDE DEF new
  <2> QED BY <1>3, <1>4, AppendProperties
<1> HIDE DEF new, there
<1>6. CASE /\ ltree' = Opened(ltree, u.p, u)
           /\ files' = [files EXCEPT ![u.h] = [ino |-> ltree'.name[u.p], pos |-> 0]]
           /\ Calling(Append(new, OpenRec(0, u)))
  <2>1. Grown(ltree, ltree')
    BY <1>1, <1>6, OpenedType
  <2> DEFINE slot == [ino |-> ltree'.name[u.p], pos |-> 0]
  <2>2. ltree'.name[u.p] \in 0 .. Len(ltree'.node) /\ ltree'.name[u.p] \in Nat
    <3>1. ltree' \in Trees
      BY <2>1 DEF Grown
    <3> QED BY <1>1, <3>1, TreeParts
  <2>3. slot \in Slots /\ slot.ino \in 0 .. Len(ltree'.node)
    BY <2>2 DEF Slots
  <2> HIDE DEF slot
  <2>4. files' = [files EXCEPT ![u.h] = slot]
    BY <1>6 DEF slot
  <2>5. /\ files' \in [Handles -> Slots]
        /\ \A h \in Handles : files'[h].ino = files[h].ino \/ files'[h].ino \in 0 .. Len(ltree'.node)
    BY <1>1, <2>3, <2>4, SetSlot
  <2>6. DescriptorsOK' /\ PlaceOK' /\ menu' = menu
    BY <1>5, <1>6, CallingType
  <2>7. UsersOK'
    BY <1>1, <2>1, <2>5, <2>6, FilesGrow
  <2> QED BY <2>6, <2>7 DEF TypeInv
<1>7. CASE /\ Calling(<<One("create", Fail, u.p)>>)
           /\ UNCHANGED <<ltree, files>>
  <2>1. DescriptorsOK' /\ PlaceOK' /\ menu' = menu
    BY <1>5, <1>7, CallingType
  <2> QED BY <1>1, <1>7, <2>1 DEF TypeInv, UsersOK
<1> DEFINE given == new \o <<OpenRec(0, u), One("release", 0, u.p)>>
<1>10. given \in Seq(Records)
  <2>1. "release" \in RecordOps \ TwoPaths
    BY DEF RecordOps, Ops, TwoPaths
  <2>2. One("release", 0, u.p) \in Records
    BY <1>1, <2>1, OneType
  <2>3. <<OpenRec(0, u), One("release", 0, u.p)>> \in Seq(Records)
    BY <1>3, <2>2
  <2> QED BY <1>4, <2>3
<1> HIDE DEF given
<1>8. CASE /\ ltree' = IF there THEN ltree ELSE Add(ltree, u.p, "file")
           /\ Calling(new) \/ Calling(Append(new, OpenRec(Fail, u))) \/ Calling(given)
           /\ UNCHANGED files
  <2>1. Grown(ltree, ltree')
    BY <1>1, <1>2, <1>8, AddType, GrownSame
  <2>2. DescriptorsOK' /\ PlaceOK' /\ menu' = menu
    BY <1>4, <1>5, <1>8, <1>10, CallingType
  <2>3. UsersOK'
    BY <1>1, <1>8, <2>1, <2>2, FilesGrow
  <2> QED BY <2>2, <2>3 DEF TypeInv
<1> QED BY <1>6, <1>7, <1>8 DEF UserOpen, new, there, given

(* read(2) and close(2) leave one record and the tree alone.                 *)
LEMMA UserReadCloseType ==
  ASSUME TypeInv, NEW u \in menu.calls, UserRead(u) \/ UserClose(u)
  PROVE  TypeInv'
<1> USE DEF Fail
<1>1. /\ UsersOK /\ u.p \in Paths /\ u.h \in Handles /\ ltree \in Trees
      /\ files \in [Handles -> Slots] /\ menu \in Menus
  BY CallType DEF TypeInv, UsersOK
<1>2. "read" \in RecordOps \ TwoPaths /\ "release" \in RecordOps \ TwoPaths
  BY DEF RecordOps, Ops, TwoPaths
<1>3. \A err \in -2 .. 1 : /\ <<One("read", err, u.p)>> \in Seq(Records)
                           /\ <<One("release", err, u.p)>> \in Seq(Records)
  BY <1>1, <1>2, OneType
<1>9. /\ <<One("read", Fail, u.p)>> \in Seq(Records)
      /\ <<One("release", 0, u.p)>> \in Seq(Records)
  <2>1. -2 \in -2 .. 1 /\ 0 \in -2 .. 1
    OBVIOUS
  <2> QED BY <1>3, <2>1
<1>4. ASSUME NEW n \in {0, 1}, files' = [files EXCEPT ![u.h].pos = @ + n],
             Calling(<<One("read", n, u.p)>>), UNCHANGED ltree
      PROVE  TypeInv'
  <2>0. n \in -2 .. 1
    OBVIOUS
  <2>6. <<One("read", n, u.p)>> \in Seq(Records)
    BY <1>3, <2>0
  <2>1. DescriptorsOK' /\ PlaceOK' /\ menu' = menu
    BY <1>4, <2>6, CallingType
  <2> DEFINE pos == files[u.h].pos + n
  <2>2. pos \in Nat
    BY <1>1, UserSlot
  <2>3. files' = [files EXCEPT ![u.h].pos = pos]
    BY <1>4
  <2> HIDE DEF pos
  <2>4. files' \in [Handles -> Slots] /\ \A h \in Handles : files'[h].ino = files[h].ino
    BY <1>1, <2>2, <2>3, SetPos
  <2>5. UsersOK'
    BY <1>1, <1>4, <2>1, <2>4, FilesGrow, GrownSame
  <2> QED BY <2>1, <2>5 DEF TypeInv
<1>5. CASE UserRead(u)
  <2>1. CASE Calling(<<One("read", Fail, u.p)>>) /\ UNCHANGED files
    <3>1. DescriptorsOK' /\ PlaceOK' /\ menu' = menu
      BY <1>9, <2>1, CallingType
    <3>2. ltree' = ltree
      BY <1>5 DEF UserRead
    <3> QED BY <1>1, <2>1, <3>1, <3>2 DEF TypeInv, UsersOK
  <2>2. CASE ~(Calling(<<One("read", Fail, u.p)>>) /\ UNCHANGED files)
    <3> DEFINE n == IF files[u.h].pos < Len(ltree.node[files[u.h].ino].data) THEN 1 ELSE 0
    <3>1. /\ files' = [files EXCEPT ![u.h].pos = @ + n]
          /\ Calling(<<One("read", n, u.p)>>) /\ UNCHANGED ltree
      BY <1>5, <2>2 DEF UserRead
    <3>2. n \in {0, 1}
      OBVIOUS
    <3> HIDE DEF n
    <3> QED BY <1>4, <3>1, <3>2
  <2> QED BY <2>1, <2>2
<1>6. CASE UserClose(u)
  <2>1. /\ files' = [files EXCEPT ![u.h] = Closed]
        /\ Calling(<<One("release", 0, u.p)>>) /\ UNCHANGED ltree
    BY <1>6 DEF UserClose
  <2>2. DescriptorsOK' /\ PlaceOK' /\ menu' = menu
    BY <1>9, <2>1, CallingType
  <2>3. Len(ltree.node) \in Nat
    BY <1>1, TreeParts
  <2>4. /\ files' \in [Handles -> Slots]
        /\ \A h \in Handles : files'[h].ino = files[h].ino \/ files'[h].ino \in 0 .. Len(ltree'.node)
    BY <1>1, <2>1, <2>3, ClosedType, SetSlot
  <2>5. UsersOK'
    BY <1>1, <2>1, <2>2, <2>4, FilesGrow, GrownSame
  <2> QED BY <2>2, <2>5 DEF TypeInv
<1> QED BY <1>5, <1>6

(* Data is put in the object of an open file.                                *)
LEMMA PutDataType ==
  ASSUME UsersOK, NEW u \in menu.calls, PutData(u), menu' = menu
  PROVE  UsersOK'
<1>1. /\ u.h \in Handles /\ u.c \in Units /\ ltree \in Trees /\ files \in [Handles -> Slots]
  BY CallType DEF UsersOK, Units
<1>2. files[u.h].ino \in 0 .. Len(ltree.node) /\ files[u.h].pos \in Nat
  BY <1>1, UserSlot
<1>3. Grown(ltree, ltree')
  BY <1>1, <1>2, WrittenType DEF PutData
<1> DEFINE pos == files[u.h].pos + 1
<1>4. pos \in Nat /\ files' = [files EXCEPT ![u.h].pos = pos]
  BY <1>2 DEF PutData
<1> HIDE DEF pos
<1>5. files' \in [Handles -> Slots] /\ \A h \in Handles : files'[h].ino = files[h].ino
  BY <1>1, <1>4, SetPos
<1> QED BY <1>3, <1>5, FilesGrow

(* write(2) leaves a record, writev(2) and the like none.                    *)
LEMMA UserWriteType ==
  ASSUME TypeInv, NEW u \in menu.calls, UserWrite(u) \/ UserUntraced(u)
  PROVE  TypeInv'
<1> USE DEF Fail
<1>1. /\ UsersOK /\ u.p \in Paths /\ u.h \in Handles /\ u.c \in Contents
      /\ ltree \in Trees /\ files \in [Handles -> Slots] /\ menu \in Menus
  BY CallType DEF TypeInv, UsersOK
<1>2. \A err \in -2 .. 1 : /\ <<WriteRec(err, u.p, u.c)>> \in Seq(Records)
                           /\ <<WriteRec(err, u.p, Garbled)>> \in Seq(Records)
  BY <1>1, WriteRecType
<1>3. <<>> \in Seq(Records)
  OBVIOUS
<1>4. ASSUME NEW recs \in Seq(Records), Calling(recs),
             \/ PutData(u)
             \/ UNCHANGED <<ltree, files>>
             \/ files' = [files EXCEPT ![u.h].pos = 0] /\ UNCHANGED ltree
             \/ Grown(ltree, ltree') /\ UNCHANGED files
      PROVE  TypeInv'
  <2>1. DescriptorsOK' /\ PlaceOK' /\ menu' = menu
    BY <1>4, CallingType
  <2>2. CASE PutData(u)
    BY <1>1, <2>1, <2>2, PutDataType DEF TypeInv
  <2>3. CASE UNCHANGED <<ltree, files>>
    BY <1>1, <2>1, <2>3 DEF TypeInv, UsersOK
  <2>4. CASE files' = [files EXCEPT ![u.h].pos = 0] /\ UNCHANGED ltree
    <3> DEFINE pos == 0
    <3>0. pos \in Nat /\ files' = [files EXCEPT ![u.h].pos = pos]
      BY <2>4
    <3> HIDE DEF pos
    <3>1. files' \in [Handles -> Slots] /\ \A h \in Handles : files'[h].ino = files[h].ino
      BY <1>1, <3>0, SetPos
    <3>2. UsersOK'
      BY <1>1, <2>1, <2>4, <3>1, FilesGrow, GrownSame
    <3> QED BY <2>1, <3>2 DEF TypeInv
  <2>5. CASE Grown(ltree, ltree') /\ UNCHANGED files
    <3>1. UsersOK'
      BY <1>1, <2>1, <2>5, FilesGrow
    <3> QED BY <2>1, <3>1 DEF TypeInv
  <2> QED BY <1>4, <2>2, <2>3, <2>4, <2>5
<1>5. CASE UserWrite(u)
  <2>1. \E recs : Calling(recs) /\ (PutData(u) \/ UNCHANGED <<ltree, files>>)
                    /\ \E err \in -2 .. 1 : recs \in {<<WriteRec(err, u.p, u.c)>>,
                                                    <<WriteRec(err, u.p, Garbled)>>}
    <3>1. CASE PutData(u) /\ Calling(<<WriteRec(1, u.p, u.c)>>)
      <4>1. 1 \in -2 .. 1
        OBVIOUS
      <4> QED BY <3>1, <4>1
    <3>2. CASE PutData(u) /\ Calling(<<WriteRec(1, u.p, Garbled)>>)
      <4>1. 1 \in -2 .. 1
        OBVIOUS
      <4> QED BY <3>2, <4>1
    <3>3. CASE /\ \E err \in {0} \cup (IF Failing THEN {Fail} ELSE {}) :
                    Calling(<<WriteRec(err, u.p, u.c)>>)
               /\ UNCHANGED <<ltree, files>>
      <4>1. PICK err \in {0} \cup (IF Failing THEN {Fail} ELSE {}) :
              Calling(<<WriteRec(err, u.p, u.c)>>)
        BY <3>3
      <4>2. err \in -2 .. 1
        OBVIOUS
      <4> QED BY <3>3, <4>1, <4>2
    <3> QED BY <1>5, <3>1, <3>2, <3>3 DEF UserWrite
  <2> QED BY <1>2, <1>4, <2>1
<1>6. CASE UserUntraced(u)
  <2> DEFINE i == files[u.h].ino
  <2>1. i \in 0 .. Len(ltree.node)
    BY <1>1, UserSlot
  <2> HIDE DEF i
  <2>2. Grown(ltree, [ltree EXCEPT !.node[i].data = <<>>])
    <3>1. <<>> \in Seq(Units)
      OBVIOUS
    <3> QED BY <1>1, <2>1, <3>1, DataType
  <2>3. Grown(ltree, Written(ltree, i, 0, u.c))
    BY <1>1, <2>1, WrittenType DEF Units
  <2>4. <<WriteRec(1, u.p, u.c)>> \in Seq(Records)
    <3>1. 1 \in -2 .. 1
      OBVIOUS
    <3> QED BY <1>2, <3>1
  <2> DEFINE cut == [ltree EXCEPT !.node[i].data = <<>>]
             put == Written(ltree, i, 0, u.c)
             rec == WriteRec(1, u.p, u.c)
  <2>5. \/ PutData(u) /\ Calling(<<>>)
        \/ files' = [files EXCEPT ![u.h].pos = 0] /\ UNCHANGED ltree /\ Calling(<<>>)
        \/ ltree' = cut /\ UNCHANGED files /\ Calling(<<>>)
        \/ ltree' = put /\ UNCHANGED files /\ Calling(<<rec>>)
    BY <1>6 DEF UserUntraced, i
  <2>6. Grown(ltree, cut) /\ Grown(ltree, put) /\ <<rec>> \in Seq(Records)
    BY <2>2, <2>3, <2>4
  <2> HIDE DEF cut, put, rec
  <2> QED BY <1>3, <1>4, <2>5, <2>6
<1> QED BY <1>5, <1>6

(* The calls on names leave one record and a tree in which nothing is lost.  *)
LEMMA OnNameType ==
  ASSUME TypeInv, NEW u \in menu.calls, NEW op, NEW can, NEW tree, NEW rec \in Records,
         OnName(u, op, can, tree, rec), Grown(ltree, tree)
  PROVE  TypeInv'
<1>1. ltree' = tree /\ Calling(<<rec>>) /\ UNCHANGED files
  BY DEF OnName
<1>2. <<rec>> \in Seq(Records)
  OBVIOUS
<1>3. DescriptorsOK' /\ PlaceOK' /\ menu' = menu
  BY <1>1, <1>2, CallingType
<1>4. UsersOK /\ files \in [Handles -> Slots]
  BY DEF TypeInv, UsersOK
<1>5. UsersOK'
  BY <1>1, <1>3, <1>4, FilesGrow
<1> QED BY <1>3, <1>5 DEF TypeInv

(* So do the calls that leave none because trfs_interpose has failed.        *)
LEMMA UnrecordedType ==
  ASSUME TypeInv, NEW u \in menu.calls, NEW op, NEW can, NEW tree,
         Unrecorded(u, op, can, tree), Grown(ltree, tree)
  PROVE  TypeInv'
<1>1. ltree' = tree /\ Calling(<<>>) /\ UNCHANGED files /\ <<>> \in Seq(Records)
  BY DEF Unrecorded
<1>2. DescriptorsOK' /\ PlaceOK' /\ menu' = menu
  BY <1>1, CallingType
<1>3. UsersOK /\ files \in [Handles -> Slots]
  BY DEF TypeInv, UsersOK
<1>4. UsersOK'
  BY <1>1, <1>2, <1>3, FilesGrow
<1> QED BY <1>2, <1>4 DEF TypeInv

LEMMA UserNamesType ==
  ASSUME TypeInv, NEW u \in menu.calls, UserNames(u) \/ UserTwoNames(u)
  PROVE  TypeInv'
<1> USE DEF Fail
<1>1. UsersOK /\ u.p \in Paths /\ u.q \in Paths /\ ltree \in Trees
  BY CallType DEF TypeInv, UsersOK
<1>2. /\ {"create", "mknod", "mkdir", "unlink", "rmdir"} \subseteq RecordOps \ TwoPaths
      /\ {"link", "rename", "symlink"} \subseteq RecordOps
  BY DEF RecordOps, Ops, TwoPaths
<1>3. /\ Grown(ltree, ltree) /\ Grown(ltree, Add(ltree, u.p, "file"))
      /\ Grown(ltree, Add(ltree, u.p, "node")) /\ Grown(ltree, Add(ltree, u.p, "dir"))
      /\ Grown(ltree, Add(ltree, u.p, "symlink"))
  <2>1. "file" \in Kinds /\ "node" \in Kinds /\ "dir" \in Kinds /\ "symlink" \in Kinds
    BY DEF Kinds
  <2> QED BY <1>1, <2>1, AddType, GrownSame
<1>4. /\ Grown(ltree, Remove(ltree, u.p)) /\ Grown(ltree, Link(ltree, u.p, u.q))
      /\ Grown(ltree, Rename(ltree, u.p, u.q))
  BY <1>1, NamesType
<1>5. /\ One("create", 0, u.p) \in Records /\ One("create", Fail, u.p) \in Records
      /\ One("mknod", 0, u.p) \in Records /\ One("mkdir", 0, u.p) \in Records
      /\ One("unlink", 0, u.p) \in Records /\ One("rmdir", 0, u.p) \in Records
  BY <1>1, <1>2, OneType
<1>6. /\ Rec("link", 0, Clobbered(u.p, u.q), u.q) \in Records
      /\ Rec("rename", 0, Clobbered(u.p, u.q), u.q) \in Records
      /\ Rec("symlink", 0, u.p, u.q) \in Records
  BY <1>1, <1>2, ClobberedType, RecType
<1>7. CASE UserNames(u)
  <2>1. CASE OnName(u, "creat", CanAdd(ltree, u.p), Add(ltree, u.p, "file"), One("create", 0, u.p))
    BY <1>3, <1>5, <2>1, OnNameType
  <2>2. CASE OnName(u, "creat", Failing /\ CanAdd(ltree, u.p), ltree, One("create", Fail, u.p))
    BY <1>3, <1>5, <2>2, OnNameType
  <2>3. CASE OnName(u, "mknod", CanAdd(ltree, u.p), Add(ltree, u.p, "node"), One("mknod", 0, u.p))
    BY <1>3, <1>5, <2>3, OnNameType
  <2>4. CASE OnName(u, "mkdir", CanAdd(ltree, u.p), Add(ltree, u.p, "dir"), One("mkdir", 0, u.p))
    BY <1>3, <1>5, <2>4, OnNameType
  <2>5. CASE OnName(u, "unlink", CanUnlink(ltree, u.p), Remove(ltree, u.p), One("unlink", 0, u.p))
    BY <1>4, <1>5, <2>5, OnNameType
  <2>6. CASE OnName(u, "rmdir", CanRmdir(ltree, u.p), Remove(ltree, u.p), One("rmdir", 0, u.p))
    BY <1>4, <1>5, <2>6, OnNameType
  <2>7. CASE Unrecorded(u, "mknod", CanAdd(ltree, u.p), Add(ltree, u.p, "node"))
    BY <1>3, <2>7, UnrecordedType
  <2> QED BY <1>7, <2>1, <2>2, <2>3, <2>4, <2>5, <2>6, <2>7 DEF UserNames
<1>8. CASE UserTwoNames(u)
  <2>1. CASE OnName(u, "link", CanLink(ltree, u.p, u.q), Link(ltree, u.p, u.q),
                    Rec("link", 0, Clobbered(u.p, u.q), u.q))
    BY <1>4, <1>6, <2>1, OnNameType
  <2>2. CASE OnName(u, "rename", CanRename(ltree, u.p, u.q), Rename(ltree, u.p, u.q),
                    Rec("rename", 0, Clobbered(u.p, u.q), u.q))
    BY <1>4, <1>6, <2>2, OnNameType
  <2>3. CASE OnName(u, "symlink", CanAdd(ltree, u.p), Add(ltree, u.p, "symlink"),
                    Rec("symlink", 0, u.p, u.q))
    BY <1>3, <1>6, <2>3, OnNameType
  <2>4. CASE Unrecorded(u, "link", CanLink(ltree, u.p, u.q), Link(ltree, u.p, u.q))
    BY <1>4, <2>4, UnrecordedType
  <2>5. CASE Unrecorded(u, "symlink", CanAdd(ltree, u.p), Add(ltree, u.p, "symlink"))
    BY <1>3, <2>5, UnrecordedType
  <2> QED BY <1>8, <2>1, <2>2, <2>3, <2>4, <2>5 DEF UserTwoNames
<1> QED BY <1>7, <1>8

(***************************************************************************)
(* treplay.                                                                *)
(***************************************************************************)
(* Of the free descriptors one is the lowest.                                *)
LEMMA FreeType ==
  ASSUME HasFree
  PROVE  Free \in 1 .. MaxFds
<1> DEFINE T == {n \in 1 .. MaxFds : fdtab[n] = Closed}
           Less == OpToRel(<, Nat)
<1>1. T \subseteq Nat /\ T # {}
  BY ReplayAssumption DEF HasFree
<1>2. \A m, n \in Nat : m < n => <<m, n>> \in Less
  BY DEF OpToRel
<1>3. IsWellFoundedOn(Less, Nat)
  BY NatLessThanWellFounded
<1> HIDE DEF T, Less
<1>4. PICK n \in T : \A m \in T : ~ (<<m, n>> \in Less)
  BY <1>1, <1>3, WFMin
<1>5. n \in 1 .. MaxFds /\ fdtab[n] = Closed /\ n \in Nat
  BY <1>1, <1>4 DEF T
<1>6. \A m \in 1 .. (n - 1) : fdtab[m] # Closed
  <2> SUFFICES ASSUME NEW m \in 1 .. (n - 1), fdtab[m] = Closed PROVE FALSE
    OBVIOUS
  <2>1. m \in Nat /\ m < n /\ m \in 1 .. MaxFds
    BY <1>5, ReplayAssumption
  <2>2. m \in T
    BY <2>1 DEF T
  <2> QED BY <1>2, <1>4, <1>5, <2>1, <2>2
<1> QED BY <1>5, <1>6 DEF Free

(* A file that exists is put there.                                          *)
LEMMA NewFdType ==
  ASSUME DescriptorsOK, HasFree, NEW fs, Grown(rtree, fs), NEW p \in Paths
  PROVE  /\ NewFd(fs, p) \in [1 .. MaxFds -> Slots]
         /\ \A n \in 1 .. MaxFds : NewFd(fs, p)[n].ino \in 0 .. Len(fs.node)
<1> DEFINE slot == [ino |-> fs.name[p], pos |-> 0]
<1>1. Free \in 1 .. MaxFds /\ fdtab \in [1 .. MaxFds -> Slots]
  BY FreeType DEF DescriptorsOK
<1>2. /\ fs.name[p] \in 0 .. Len(fs.node) /\ fs.name[p] \in Nat
      /\ Len(fs.node) \in Nat /\ Len(rtree.node) \in Nat /\ Len(rtree.node) <= Len(fs.node)
  BY TreeParts DEF Grown, DescriptorsOK
<1>3. slot \in Slots /\ slot.ino \in 0 .. Len(fs.node)
  BY <1>2 DEF Slots
<1>4. NewFd(fs, p) = [fdtab EXCEPT ![Free] = slot]
  BY DEF NewFd
<1> HIDE DEF slot
<1>5. NewFd(fs, p) \in [1 .. MaxFds -> Slots]
  BY <1>1, <1>3, <1>4, SetSlot
<1>6. \A n \in 1 .. MaxFds : NewFd(fs, p)[n].ino \in 0 .. Len(fs.node)
  <2> TAKE n \in 1 .. MaxFds
  <2>1. fdtab[n].ino \in 0 .. Len(rtree.node)
    BY DEF DescriptorsOK
  <2>2. fdtab[n].ino \in 0 .. Len(fs.node)
    BY <1>2, <2>1
  <2>3. NewFd(fs, p)[n] = slot \/ NewFd(fs, p)[n] = fdtab[n]
    BY <1>1, <1>3, <1>4, SetSlot
  <2> QED BY <1>3, <2>2, <2>3
<1> QED BY <1>5, <1>6

(* Descriptors stay valid when the tree grows.                               *)
LEMMA DescriptorsGrow ==
  ASSUME DescriptorsOK, Grown(rtree, rtree'), UNCHANGED <<fdtab, fd>>
  PROVE  DescriptorsOK'
<1>1. Len(rtree.node) \in Nat /\ Len(rtree'.node) \in Nat /\ Len(rtree.node) <= Len(rtree'.node)
  BY TreeParts DEF DescriptorsOK, Grown
<1>2. \A n \in 1 .. MaxFds : fdtab'[n].ino \in 0 .. Len(rtree'.node)
  <2> TAKE n \in 1 .. MaxFds
  <2>1. fdtab[n].ino \in 0 .. Len(rtree.node)
    BY DEF DescriptorsOK
  <2> QED BY <1>1, <2>1
<1> QED BY <1>2 DEF DescriptorsOK, Grown

(* After a record has been replayed treplay is at the next one.              *)
LEMMA DoneType ==
  ASSUME PlaceOK, pc = "got", NEW errval, NEW res, Done(errval, res)
  PROVE  PlaceOK'
<1>1. /\ trace \in Seq(Records) /\ Len(trace) \in Nat /\ k \in 1 .. Len(trace)
      /\ deviated \subseteq 1 .. (k - 1)
  BY DEF PlaceOK
<1>2. k' = k + 1 /\ deviated' \subseteq deviated \cup {k} /\ trace' = trace
  BY DEF Done
<1>3. k' \in 1 .. (Len(trace') + 1) /\ deviated' \subseteq 1 .. (k' - 1)
  BY <1>1, <1>2
<1>4. pc' # "got" /\ content' = content
  BY DEF Done
<1> QED BY <1>1, <1>2, <1>3, <1>4 DEF PlaceOK

(* The record that is replayed has a path and perhaps a content.             *)
LEMMA GotType ==
  ASSUME TypeInv, pc = "got"
  PROVE  path1 \in Paths /\ DescriptorsOK /\ PlaceOK /\ rtree \in Trees
BY DEF TypeInv, PlaceOK, DescriptorsOK

(* open: the lowest free descriptor becomes fd.                              *)
LEMMA ReplayOpenType ==
  ASSUME TypeInv, ReplayOpen
  PROVE  DescriptorsOK' /\ PlaceOK'
<1>1. path1 \in Paths /\ DescriptorsOK /\ PlaceOK /\ rtree \in Trees /\ pc = "got"
  BY GotType DEF ReplayOpen, Replaying
<1>2. CASE HasFree /\ CanOpen(rtree, path1, trace[k])
  <2>1. /\ rtree' = Opened(rtree, path1, trace[k]) /\ fdtab' = NewFd(rtree', path1)
        /\ fd' = Free /\ Done(0, FALSE)
    BY <1>2 DEF ReplayOpen
  <2>2. Grown(rtree, rtree')
    BY <1>1, <2>1, OpenedType
  <2>3. /\ fdtab' \in [1 .. MaxFds -> Slots]
        /\ \A n \in 1 .. MaxFds : fdtab'[n].ino \in 0 .. Len(rtree'.node)
    BY <1>1, <1>2, <2>1, <2>2, NewFdType
  <2>4. fd' \in 0 .. MaxFds
    <3>1. Free \in 1 .. MaxFds
      BY <1>2, FreeType
    <3> QED BY <2>1, <3>1, ReplayAssumption
  <2>5. DescriptorsOK'
    BY <2>2, <2>3, <2>4 DEF DescriptorsOK, Grown
  <2> QED BY <1>1, <2>1, <2>5, DoneType
<1>3. CASE ~(HasFree /\ CanOpen(rtree, path1, trace[k]))
  <2>1. UNCHANGED <<rtree, fdtab, fd>> /\ Done(-1, FALSE)
    BY <1>3 DEF ReplayOpen
  <2>2. PlaceOK'
    BY <1>1, <2>1, DoneType
  <2> QED BY <1>1, <2>1, <2>2 DEF DescriptorsOK
<1> QED BY <1>2, <1>3

(* read and symlink touch nothing.                                           *)
LEMMA ReplayReadType ==
  ASSUME TypeInv, ReplayRead \/ ReplaySymlink
  PROVE  DescriptorsOK' /\ PlaceOK'
<1>1. DescriptorsOK /\ PlaceOK /\ pc = "got"
  BY GotType DEF ReplayRead, ReplaySymlink, Replaying
<1>2. UNCHANGED <<rtree, fdtab, fd>>
  BY DEF ReplayRead, ReplaySymlink
<1>3. \E errval : Compare(errval)
  BY DEF ReplayRead, ReplaySymlink
<1>4. PlaceOK'
  BY <1>1, <1>3, DoneType DEF Compare
<1> QED BY <1>1, <1>2, <1>4 DEF DescriptorsOK

(* write puts the content in the object of fd, or treplay crashes.           *)
LEMMA ReplayWriteType ==
  ASSUME TypeInv, ReplayWrite
  PROVE  DescriptorsOK' /\ PlaceOK'
<1>1. DescriptorsOK /\ PlaceOK /\ rtree \in Trees /\ pc = "got"
  BY GotType DEF ReplayWrite, Replaying
<1>2. CASE content = NoContent
  <2>1. /\ pc' = "crash"
        /\ UNCHANGED <<trace, rtree, fdtab, fd, k, content, deviated>>
    BY <1>2 DEF ReplayWrite
  <2> QED BY <1>1, <2>1 DEF DescriptorsOK, PlaceOK
<1>3. CASE content # NoContent /\ ~HasFd
  <2>1. Compare(-1) /\ UNCHANGED <<rtree, fdtab, fd>>
    BY <1>3 DEF ReplayWrite
  <2>2. PlaceOK'
    BY <1>1, <2>1, DoneType DEF Compare
  <2> QED BY <1>1, <2>1, <2>2 DEF DescriptorsOK
<1>4. CASE content # NoContent /\ HasFd
  <2>1. /\ rtree' = Written(rtree, fdtab[fd].ino, fdtab[fd].pos, content)
        /\ fdtab' = [fdtab EXCEPT ![fd].pos = @ + 1]
        /\ Compare(IF content = Garbled THEN 2 ELSE 1)
        /\ fd' = fd
    BY <1>4 DEF ReplayWrite
  <2>2. fd \in 1 .. MaxFds
    BY <1>1, <1>4, ReplayAssumption DEF HasFd, DescriptorsOK
  <2>3. /\ fdtab \in [1 .. MaxFds -> Slots] /\ fdtab[fd].ino \in 0 .. Len(rtree.node)
        /\ fdtab[fd].pos \in Nat
    BY <1>1, <2>2 DEF DescriptorsOK, Slots
  <2>4. content \in Units
    BY <1>1 DEF PlaceOK, Texts, Units
  <2>5. Grown(rtree, rtree')
    BY <1>1, <2>1, <2>3, <2>4, WrittenType
  <2> DEFINE pos == fdtab[fd].pos + 1
  <2>6. pos \in Nat /\ fdtab' = [fdtab EXCEPT ![fd].pos = pos]
    BY <2>1, <2>3
  <2> HIDE DEF pos
  <2>7. /\ fdtab' \in [1 .. MaxFds -> Slots]
        /\ \A n \in 1 .. MaxFds : fdtab'[n].ino = fdtab[n].ino
    <3> DEFINE S == 1 .. MaxFds
    <3>1. fd \in S /\ fdtab \in [S -> Slots]
      BY <2>2, <2>3
    <3> HIDE DEF S
    <3>2. fdtab' \in [S -> Slots] /\ \A n \in S : fdtab'[n].ino = fdtab[n].ino
      BY <2>6, <3>1, SetPos
    <3> QED BY <3>2 DEF S
  <2>8. Len(rtree.node) \in Nat /\ Len(rtree'.node) \in Nat /\ Len(rtree.node) <= Len(rtree'.node)
    BY <1>1, <2>5, TreeParts DEF Grown
  <2>9. \A n \in 1 .. MaxFds : fdtab'[n].ino \in 0 .. Len(rtree'.node)
    <3> TAKE n \in 1 .. MaxFds
    <3>1. fdtab[n].ino \in 0 .. Len(rtree.node)
      BY <1>1 DEF DescriptorsOK
    <3> QED BY <2>7, <2>8, <3>1
  <2>10. DescriptorsOK'
    BY <1>1, <2>1, <2>5, <2>7, <2>9 DEF DescriptorsOK, Grown
  <2> QED BY <1>1, <2>1, <2>10, DoneType DEF Compare
<1> QED BY <1>2, <1>3, <1>4

(* close frees the descriptor and keeps its number.                          *)
LEMMA ReplayReleaseType ==
  ASSUME TypeInv, ReplayRelease
  PROVE  DescriptorsOK' /\ PlaceOK'
<1>1. DescriptorsOK /\ PlaceOK /\ rtree \in Trees /\ pc = "got"
  BY GotType DEF ReplayRelease, Replaying
<1>2. UNCHANGED <<rtree, fd>>
  BY DEF ReplayRelease
<1>3. CASE HasFd
  <2>1. fdtab' = [fdtab EXCEPT ![fd] = Closed] /\ Compare(0)
    BY <1>3 DEF ReplayRelease
  <2>2. fd \in 1 .. MaxFds
    BY <1>1, <1>3, ReplayAssumption DEF HasFd, DescriptorsOK
  <2>3. /\ fdtab' \in [1 .. MaxFds -> Slots]
        /\ \A n \in 1 .. MaxFds : fdtab'[n] = Closed \/ fdtab'[n] = fdtab[n]
    BY <1>1, <2>1, <2>2, ClosedType, SetSlot DEF DescriptorsOK
  <2>4. Len(rtree.node) \in Nat
    BY <1>1, TreeParts
  <2>5. DescriptorsOK'
    BY <1>1, <1>2, <2>3, <2>4, ClosedType DEF DescriptorsOK
  <2> QED BY <1>1, <2>1, <2>5, DoneType DEF Compare
<1>4. CASE ~HasFd
  <2>1. UNCHANGED fdtab /\ Compare(-1)
    BY <1>4 DEF ReplayRelease
  <2>2. PlaceOK'
    BY <1>1, <2>1, DoneType DEF Compare
  <2> QED BY <1>1, <1>2, <2>1, <2>2 DEF DescriptorsOK
<1> QED BY <1>3, <1>4

(* create opens without creating, and forgets the descriptor.                *)
LEMMA ReplayCreateType ==
  ASSUME TypeInv, ReplayCreate
  PROVE  DescriptorsOK' /\ PlaceOK'
<1>1. path1 \in Paths /\ DescriptorsOK /\ PlaceOK /\ rtree \in Trees /\ pc = "got"
  BY GotType DEF ReplayCreate, Replaying
<1>2. UNCHANGED <<rtree, fd>>
  BY DEF ReplayCreate
<1>3. CASE HasFree /\ Is(rtree, path1, "file")
  <2>1. fdtab' = NewFd(rtree, path1) /\ Compare(Descriptor(Free))
    BY <1>3 DEF ReplayCreate
  <2>2. Grown(rtree, rtree)
    BY <1>1, GrownSame
  <2>3. /\ fdtab' \in [1 .. MaxFds -> Slots]
        /\ \A n \in 1 .. MaxFds : fdtab'[n].ino \in 0 .. Len(rtree.node)
    BY <1>1, <1>3, <2>1, <2>2, NewFdType
  <2>4. DescriptorsOK'
    BY <1>1, <1>2, <2>3 DEF DescriptorsOK
  <2> QED BY <1>1, <2>1, <2>4, DoneType DEF Compare
<1>4. CASE ~(HasFree /\ Is(rtree, path1, "file"))
  <2>1. UNCHANGED fdtab /\ Compare(-1)
    BY <1>4 DEF ReplayCreate
  <2>2. PlaceOK'
    BY <1>1, <2>1, DoneType DEF Compare
  <2> QED BY <1>1, <1>2, <2>1, <2>2 DEF DescriptorsOK
<1> QED BY <1>3, <1>4

(* A call on names leaves the tree or a grown one.                           *)
LEMMA OnNamesType ==
  ASSUME TypeInv, NEW op, NEW can, NEW tree, Grown(rtree, tree), OnNames(op, can, tree)
  PROVE  DescriptorsOK' /\ PlaceOK'
<1>1. DescriptorsOK /\ PlaceOK /\ rtree \in Trees /\ pc = "got"
  BY GotType DEF OnNames, Replaying
<1>2. UNCHANGED <<fdtab, fd>> /\ (rtree' = tree \/ rtree' = rtree) /\ \E errval : Compare(errval)
  BY DEF OnNames
<1>3. PlaceOK'
  BY <1>1, <1>2, DoneType DEF Compare
<1>4. Grown(rtree, rtree')
  BY <1>1, <1>2, GrownSame
<1>5. DescriptorsOK'
  BY <1>1, <1>2, <1>4, DescriptorsGrow
<1> QED BY <1>3, <1>5

(* The cases of replay_record on names.                                      *)
LEMMA ReplayNamesType ==
  ASSUME TypeInv,
         \/ ReplayLink \/ ReplayUnlink \/ ReplayMkdir \/ ReplayRmdir \/ ReplayMknod
         \/ ReplayRename
  PROVE  DescriptorsOK' /\ PlaceOK'
<1>1. pc = "got"
  BY DEF ReplayLink, ReplayUnlink, ReplayMkdir, ReplayRmdir, ReplayMknod, ReplayRename,
         OnNames, Replaying
<1>2. path1 \in Paths /\ rtree \in Trees
  BY <1>1, GotType
<1>3. /\ Grown(rtree, Add(rtree, path1, "dir")) /\ Grown(rtree, Add(rtree, path1, "node"))
      /\ Grown(rtree, Remove(rtree, path1))
  <2>1. "dir" \in Kinds /\ "node" \in Kinds
    BY DEF Kinds
  <2> QED BY <1>2, <2>1, AddType, NamesType
<1>4. ASSUME trace[k].op \in TwoPaths
      PROVE  /\ Grown(rtree, Link(rtree, path1, path2))
             /\ Grown(rtree, Rename(rtree, path1, path2))
  <2>1. path2 \in Paths
    BY <1>1, <1>4 DEF TypeInv, PlaceOK
  <2> QED BY <1>2, <2>1, NamesType
<1>5. CASE ReplayLink
  <2>1. trace[k].op \in TwoPaths
    BY <1>5 DEF ReplayLink, OnNames, Replaying, TwoPaths
  <2> QED BY <1>4, <1>5, <2>1, OnNamesType DEF ReplayLink
<1>6. CASE ReplayUnlink
  BY <1>3, <1>6, OnNamesType DEF ReplayUnlink
<1>7. CASE ReplayMkdir
  BY <1>3, <1>7, OnNamesType DEF ReplayMkdir
<1>8. CASE ReplayRmdir
  BY <1>3, <1>8, OnNamesType DEF ReplayRmdir
<1>9. CASE ReplayMknod
  BY <1>3, <1>9, OnNamesType DEF ReplayMknod
<1>10. CASE ReplayRename
  <2>1. trace[k].op \in TwoPaths
    BY <1>10 DEF ReplayRename, OnNames, Replaying, TwoPaths
  <2> QED BY <1>4, <1>10, <2>1, OnNamesType DEF ReplayRename
<1> QED BY <1>5, <1>6, <1>7, <1>8, <1>9, <1>10

(* Reading the next record.                                                  *)
LEMMA ReadRecordType ==
  ASSUME TypeInv, ReadRecord
  PROVE  PlaceOK'
<1> DEFINE r == trace[k]
<1>1. /\ trace \in Seq(Records) /\ Len(trace) \in Nat /\ k \in 1 .. (Len(trace) + 1)
      /\ k <= Len(trace) /\ content \in Texts /\ deviated \subseteq 1 .. (k - 1)
  BY DEF TypeInv, PlaceOK, ReadRecord
<1>2. UNCHANGED <<trace, k, deviated>>
  BY DEF ReadRecord
<1>3. r \in Records
  BY <1>1
<1>4. /\ r.p1 \in Paths /\ r.content \in Texts
      /\ r.op \in TwoPaths => r.p2 \in Paths /\ r.p2 # NoContent
  BY <1>3, ReplayAssumption DEF Records
<1> HIDE DEF r
<1>5. CASE pc' = "crash" /\ UNCHANGED <<path1, path2, content>>
  BY <1>1, <1>2, <1>5 DEF PlaceOK
<1>6. CASE /\ path1' \in ReadBack(r.p1, Junk)
           /\ path2' \in IF r.p2 = NoContent THEN {path2} ELSE ReadBack(r.p2, Junk)
           /\ content' \in ReadBack(NextContent(r), Garbled)
           /\ pc' = "got"
  <2>1. path1' \in Paths
    BY <1>4, <1>6, ReplayAssumption DEF ReadBack
  <2>2. trace[k].op \in TwoPaths => path2' \in Paths
    BY <1>4, <1>6, ReplayAssumption DEF ReadBack, r
  <2>3. content' \in Texts
    <3>1. NextContent(r) \in Texts
      BY <1>1, <1>4 DEF NextContent
    <3> QED BY <1>6, <3>1 DEF ReadBack, Texts
  <2> QED BY <1>1, <1>2, <1>6, <2>1, <2>2, <2>3 DEF PlaceOK
<1> QED BY <1>5, <1>6 DEF ReadRecord, r

(* The steps of main that are not about one record.                          *)
LEMMA MainType ==
  ASSUME TypeInv, main_options \/ OpenTrace \/ EndOfTrace \/ print_record
  PROVE  PlaceOK'
<1>1. /\ trace \in Seq(Records) /\ Len(trace) \in Nat /\ k \in 1 .. (Len(trace) + 1)
      /\ content \in Texts /\ deviated \subseteq 1 .. (k - 1)
      /\ pc = "got" => k <= Len(trace)
  BY DEF TypeInv, PlaceOK
<1>2. UNCHANGED <<trace, content, deviated>> /\ pc' # "got"
  <2>1. CASE main_options
    BY <2>1 DEF main_options
  <2>2. CASE OpenTrace
    BY <2>2 DEF OpenTrace
  <2>3. CASE EndOfTrace
    BY <2>3 DEF EndOfTrace
  <2>4. CASE print_record
    BY <2>4 DEF print_record
  <2> QED BY <2>1, <2>2, <2>3, <2>4
<1>3. k' = k \/ (pc = "got" /\ k' = k + 1)
  BY DEF main_options, OpenTrace, EndOfTrace, print_record
<1>4. k' \in 1 .. (Len(trace') + 1) /\ deviated' \subseteq 1 .. (k' - 1)
  BY <1>1, <1>2, <1>3
<1> QED BY <1>1, <1>2, <1>4 DEF PlaceOK

(* Every step of treplay keeps the types.                                    *)
LEMMA TreplayType ==
  ASSUME TypeInv, TreplayNext, UNCHANGED uvars
  PROVE  TypeInv'
<1>1. UsersOK'
  BY DEF TypeInv, UsersOK, uvars
<1>2. CASE main_options \/ OpenTrace \/ ReadRecord \/ EndOfTrace \/ print_record
  <2>1. PlaceOK'
    BY <1>2, ReadRecordType, MainType
  <2>2. UNCHANGED <<rtree, fdtab, fd>>
    BY <1>2 DEF main_options, OpenTrace, ReadRecord, EndOfTrace, print_record
  <2>3. DescriptorsOK'
    BY <2>2 DEF TypeInv, DescriptorsOK
  <2> QED BY <1>1, <2>1, <2>3 DEF TypeInv
<1>3. CASE replay_record
  <2>1. DescriptorsOK' /\ PlaceOK'
    BY <1>3, ReplayOpenType, ReplayReadType, ReplayWriteType, ReplayReleaseType,
       ReplayCreateType, ReplayNamesType DEF replay_record
  <2> QED BY <1>1, <2>1 DEF TypeInv
<1> QED BY <1>2, <1>3 DEF TreplayNext

(* Every call of the users does.                                             *)
LEMMA UserCallType ==
  ASSUME TypeInv, UserCall
  PROVE  TypeInv'
<1>1. PICK u \in menu.calls :
        \/ UserOpen(u) \/ UserRead(u) \/ UserWrite(u) \/ UserUntraced(u) \/ UserClose(u)
        \/ UserNames(u) \/ UserTwoNames(u)
  BY DEF UserCall
<1> QED BY <1>1, UserOpenType, UserReadCloseType, UserWriteType, UserNamesType

LEMMA StartType ==
  ASSUME TypeInv, StartTreplay
  PROVE  TypeInv'
<1>1. UNCHANGED <<menu, ltree, files, rtree, fdtab, fd, trace, k, content, deviated>>
      /\ pc' # "got"
  BY DEF StartTreplay, uvars
<1>2. UsersOK' /\ DescriptorsOK'
  BY <1>1 DEF TypeInv, UsersOK, DescriptorsOK
<1>3. PlaceOK'
  BY <1>1 DEF TypeInv, PlaceOK
<1> QED BY <1>2, <1>3 DEF TypeInv

LEMMA InitType ==
  ASSUME Init
  PROVE  TypeInv
<1>1. StartTree \in Trees /\ Len(StartTree.node) \in Nat
  BY StartTreeType, TreeParts
<1>2. UsersOK
  <2>1. menu \in Menus /\ ltree = StartTree /\ files = [h \in Handles |-> Closed]
    BY DEF Init
  <2>2. files \in [Handles -> Slots] /\ \A h \in Handles : files[h].ino = 0
    BY <2>1, ClosedType
  <2> QED BY <1>1, <2>1, <2>2 DEF UsersOK
<1>3. DescriptorsOK
  <2>1. rtree = StartTree /\ fdtab = [n \in 1 .. MaxFds |-> Closed] /\ fd = 0
    BY DEF Init, TreplayInit
  <2>2. fdtab \in [1 .. MaxFds -> Slots] /\ \A n \in 1 .. MaxFds : fdtab[n].ino = 0
    BY <2>1, ClosedType
  <2>3. fd \in 0 .. MaxFds
    BY <2>1, ReplayAssumption
  <2> QED BY <1>1, <2>1, <2>2, <2>3 DEF DescriptorsOK
<1>4. PlaceOK
  <2>1. trace = <<>> /\ k = 1 /\ pc = "record" /\ content = NoContent /\ deviated = {}
    BY DEF Init, TreplayInit
  <2>2. trace \in Seq(Records) /\ Len(trace) = 0
    BY <2>1
  <2> QED BY <2>1, <2>2 DEF PlaceOK, Texts
<1> QED BY <1>2, <1>3, <1>4 DEF TypeInv

(***************************************************************************)
(* The options.                                                            *)
(***************************************************************************)
(* A step that is not treplay's leaves treplay's directory and mode alone.   *)
LEMMA UsersLeave ==
  ASSUME UserCall
  PROVE  pc = "record" /\ UNCHANGED rvars
<1>1. PICK u \in menu.calls :
        \/ UserOpen(u) \/ UserRead(u) \/ UserWrite(u) \/ UserUntraced(u) \/ UserClose(u)
        \/ UserNames(u) \/ UserTwoNames(u)
  BY DEF UserCall
<1>2. \E recs : Calling(recs)
  <2>1. CASE UserOpen(u)
    BY <2>1 DEF UserOpen
  <2>2. CASE UserRead(u) \/ UserWrite(u) \/ UserClose(u)
    BY <2>2 DEF UserRead, UserWrite, UserClose
  <2>4. CASE UserUntraced(u)
    BY <2>4 DEF UserUntraced
  <2>3. CASE UserNames(u) \/ UserTwoNames(u)
    BY <2>3 DEF UserNames, UserTwoNames, OnName, Unrecorded
  <2> QED BY <1>1, <2>1, <2>2, <2>3, <2>4
<1> QED BY <1>2 DEF Calling

(* A record is replayed only in a mode that replays, and then compared.      *)
LEMMA ReplayedOrCrashed ==
  ASSUME replay_record
  PROVE  /\ pc = "got" /\ replay /\ UNCHANGED <<argv, replay, abort>>
         /\ \/ \E errval, res : Done(errval, res) /\ (res => errval = trace[k].err)
            \/ pc' = "crash" /\ UNCHANGED <<k, deviated>>
<1> USE DEF Replaying
<1>1. CASE ReplayOpen
  <2>1. \E errval : Done(errval, FALSE)
    BY <1>1 DEF ReplayOpen
  <2> QED BY <1>1, <2>1 DEF ReplayOpen, Done
<1>2. ASSUME NEW errval, Compare(errval), pc = "got", replay
      PROVE  /\ pc = "got" /\ replay /\ UNCHANGED <<argv, replay, abort>>
             /\ \E e, res : Done(e, res) /\ (res => e = trace[k].err)
  <2>1. Done(errval, trace[k].err = errval)
    BY <1>2 DEF Compare
  <2>2. UNCHANGED <<argv, replay, abort>>
    BY <2>1 DEF Done
  <2> QED BY <1>2, <2>1, <2>2
<1>3. CASE ReplayWrite /\ content = NoContent
  BY <1>3 DEF ReplayWrite
<1>4. CASE ReplayWrite /\ content # NoContent
  <2>1. pc = "got" /\ replay /\ \E errval : Compare(errval)
    BY <1>4 DEF ReplayWrite
  <2> QED BY <1>2, <2>1
<1>5. CASE ReplayRead \/ ReplaySymlink \/ ReplayRelease \/ ReplayCreate
  <2>1. pc = "got" /\ replay /\ \E errval : Compare(errval)
    BY <1>5 DEF ReplayRead, ReplaySymlink, ReplayRelease, ReplayCreate
  <2> QED BY <1>2, <2>1
<1>6. CASE \/ ReplayLink \/ ReplayUnlink \/ ReplayMkdir \/ ReplayRmdir \/ ReplayMknod
           \/ ReplayRename
  <2>1. pc = "got" /\ replay /\ \E errval : Compare(errval)
    BY <1>6 DEF ReplayLink, ReplayUnlink, ReplayMkdir, ReplayRmdir, ReplayMknod,
                ReplayRename, OnNames
  <2> QED BY <1>2, <2>1
<1> QED BY <1>1, <1>3, <1>4, <1>5, <1>6 DEF replay_record

(* -n: only main_options chooses the mode, and for -n it does not replay.    *)
LEMMA PrintStep ==
  ASSUME PrintInv, Next
  PROVE  PrintInv'
<1>1. CASE UserCall
  <2>1. pc' = pc /\ argv' = argv /\ replay' = replay /\ rtree' = rtree
    BY <1>1, UsersLeave DEF rvars
  <2> QED BY <2>1 DEF PrintInv, Printing
<1>2. CASE StartTreplay
  BY <1>2 DEF StartTreplay, PrintInv
<1>3. CASE main_options
  <2>1. pc = "start" /\ pc' \notin {"record", "start"} /\ argv' = argv /\ rtree' = rtree
    BY <1>3 DEF main_options
  <2>2. replay = FALSE /\ rtree = StartTree
    BY <2>1 DEF PrintInv
  <2>3. ASSUME Printing PROVE replay' = FALSE
    <3>1. CASE UNCHANGED <<replay, abort>>
      BY <2>2, <3>1
    <3>2. CASE ~UNCHANGED <<replay, abort>>
      <4>1. PICK nVal \in BOOLEAN, sVal \in BOOLEAN :
              /\ "n" \in argv.opts => nVal
              /\ replay' = (argv.argc = 3 => ~nVal /\ sVal)
        BY <1>3, <3>2 DEF main_options
      <4>2. nVal = TRUE /\ argv.argc = 3
        BY <2>3, <4>1 DEF Printing
      <4> QED BY <4>1, <4>2
    <3> QED BY <3>1, <3>2
  <2> QED BY <2>1, <2>2, <2>3 DEF PrintInv, Printing
<1>4. CASE OpenTrace \/ ReadRecord \/ EndOfTrace \/ print_record
  <2>1. UNCHANGED <<argv, replay, rtree>> /\ pc' \notin {"record", "start"}
    BY <1>4 DEF OpenTrace, ReadRecord, EndOfTrace, print_record
  <2> QED BY <2>1 DEF PrintInv, Printing
<1>5. CASE replay_record
  <2>1. replay /\ argv' = argv /\ pc' \notin {"record", "start"}
    BY <1>5, ReplayedOrCrashed DEF Done
  <2> QED BY <2>1 DEF PrintInv, Printing
<1> QED BY <1>1, <1>2, <1>3, <1>4, <1>5 DEF Next, TreplayNext

(* -s: while treplay runs nothing has deviated, and a record that deviates   *)
(* ends it.                                                                  *)
LEMMA StrictStep ==
  ASSUME TypeInv, StrictInv, Next
  PROVE  StrictInv'
<1>1. CASE UserCall
  <2>1. UNCHANGED <<pc, k, abort, deviated>>
    BY <1>1, UsersLeave DEF rvars
  <2> QED BY <2>1 DEF StrictInv
<1>2. CASE StartTreplay \/ main_options
  <2>1. pc \in {"record", "start"} /\ deviated' = deviated
    BY <1>2 DEF StartTreplay, main_options
  <2>2. deviated' = {}
    BY <2>1 DEF StrictInv
  <2> QED BY <2>2 DEF StrictInv
<1>3. CASE OpenTrace \/ ReadRecord \/ EndOfTrace \/ print_record
  <2>1. /\ UNCHANGED <<abort, deviated>> /\ pc # "aborted"
        /\ pc' \notin {"record", "start", "trace"}
    BY <1>3 DEF OpenTrace, ReadRecord, EndOfTrace, print_record
  <2> QED BY <2>1 DEF StrictInv
<1>4. CASE replay_record
  <2>1. /\ pc = "got" /\ abort' = abort
        /\ \/ \E errval, res : Done(errval, res) /\ (res => errval = trace[k].err)
           \/ pc' = "crash" /\ UNCHANGED <<k, deviated>>
    BY <1>4, ReplayedOrCrashed
  <2>2. ASSUME abort PROVE deviated = {}
    BY <2>1, <2>2 DEF StrictInv
  <2>3. CASE pc' = "crash" /\ UNCHANGED <<k, deviated>>
    BY <2>1, <2>2, <2>3 DEF StrictInv
  <2>4. CASE \E errval, res : Done(errval, res) /\ (res => errval = trace[k].err)
    <3>1. PICK errval, res : Done(errval, res) /\ (res => errval = trace[k].err)
      BY <2>4
    <3>2. k \in Nat /\ k' = k + 1 /\ pc' \notin {"record", "start", "trace"}
      BY <3>1 DEF Done, TypeInv, PlaceOK
    <3>3. ASSUME abort, NEW i \in deviated' PROVE i = k' - 1 /\ pc' = "aborted"
      <4>1. errval # trace[k].err /\ deviated' = {k}
        BY <2>2, <3>1, <3>3 DEF Done
      <4>2. ~res
        BY <3>1, <4>1
      <4>3. pc' = "aborted"
        BY <3>1, <3>3, <4>2 DEF Done
      <4> QED BY <3>2, <3>3, <4>1, <4>3
    <3> QED BY <2>1, <3>2, <3>3 DEF StrictInv
  <2> QED BY <2>1, <2>3, <2>4
<1> QED BY <1>1, <1>2, <1>3, <1>4 DEF Next, TreplayNext

(***************************************************************************)
(* The theorems.                                                           *)
(***************************************************************************)
(* In every behaviour, whatever the users did and whatever treplay made of   *)
(* it, the invariant holds.                                                  *)
THEOREM ReplayInvariant == Spec => []ReplayInv
<1>1. Init => ReplayInv
  <2> SUFFICES ASSUME Init PROVE ReplayInv
    OBVIOUS
  <2>1. TypeInv
    BY InitType
  <2>2. rtree = StartTree /\ replay = FALSE /\ abort = FALSE /\ deviated = {}
    BY DEF Init, TreplayInit
  <2> QED BY <2>1, <2>2 DEF ReplayInv, PrintInv, StrictInv
<1>2. ReplayInv /\ [Next]_vars => ReplayInv'
  <2> SUFFICES ASSUME ReplayInv, [Next]_vars PROVE ReplayInv'
    OBVIOUS
  <2>1. TypeInv /\ PrintInv /\ StrictInv
    BY DEF ReplayInv
  <2>2. CASE Next
    <3>1. TypeInv'
      BY <2>1, <2>2, UserCallType, StartType, TreplayType DEF Next
    <3>2. PrintInv' /\ StrictInv'
      BY <2>1, <2>2, PrintStep, StrictStep
    <3> QED BY <3>1, <3>2 DEF ReplayInv
  <2>3. CASE UNCHANGED vars
    <3>1. UsersOK' /\ DescriptorsOK' /\ PlaceOK'
      BY <2>1, <2>3 DEF vars, rvars, uvars, TypeInv, UsersOK, DescriptorsOK, PlaceOK
    <3>2. PrintInv' /\ StrictInv'
      BY <2>1, <2>3 DEF vars, rvars, PrintInv, StrictInv, Printing
    <3> QED BY <3>1, <3>2 DEF ReplayInv, TypeInv
  <2> QED BY <2>2, <2>3
<1> QED BY <1>1, <1>2, PTL DEF Spec

(* What treplay and the users hold are records, descriptors and open files   *)
(* of objects that exist, and treplay is never past the end of the trace.    *)
THEOREM TypeCorrect == Spec => []TypeOK
<1>1. ReplayInv => TypeOK
  <2> SUFFICES ASSUME ReplayInv PROVE TypeOK
    OBVIOUS
  <2>1. UsersOK /\ DescriptorsOK /\ PlaceOK
    BY DEF ReplayInv, TypeInv
  <2>2. \A i \in DOMAIN trace : trace[i].err \in -2 .. 1 /\ trace[i].p1 \in Paths
    <3> TAKE i \in DOMAIN trace
    <3>1. trace[i] \in Records
      BY <2>1 DEF PlaceOK
    <3> QED BY <3>1 DEF Records
  <2> QED BY <2>1, <2>2 DEF TypeOK, UsersOK, DescriptorsOK, PlaceOK
<1> QED BY <1>1, ReplayInvariant, PTL

(* treplay -n leaves the replay directory as it found it, for every trace    *)
(* and for every value the uninitialised nVal and sVal can have.             *)
THEOREM PrintLeavesTree == Spec => []PrintOnly
<1>1. ReplayInv => PrintOnly
  BY DEF ReplayInv, PrintInv, Printing, PrintOnly
<1> QED BY <1>1, ReplayInvariant, PTL

(* treplay -s has ended when a record has deviated, and that record is the   *)
(* last one it has replayed.                                                 *)
THEOREM StrictEnds == Spec => []StrictStops
<1>1. ReplayInv => StrictStops
  BY DEF ReplayInv, StrictInv, StrictStops
<1> QED BY <1>1, ReplayInvariant, PTL

(***************************************************************************)
(* What a replay computes.  A trace whose records are faithful stands for  *)
(* a behaviour of an abstract machine that has one file tree and at most   *)
(* one open file: one step per record.  The users' calls extend that       *)
(* behaviour with the records they leave, treplay follows it.  That there  *)
(* is one, a history H of its states, is part of the invariant.            *)
(***************************************************************************)
Start == [tree |-> StartTree, slot |-> Closed]

(* create does nothing, the open after it makes the file; a read does not    *)
(* move the position.                                                        *)
StepFile(s, r, t) ==
  \/ /\ r.op = "create" /\ CanAdd(s.tree, r.p1)
     /\ t = s
  \/ /\ r.op = "open" /\ r.err = 0
     /\ s.slot = Closed /\ CanOpen(s.tree, r.p1, r)
     /\ t.tree = Opened(s.tree, r.p1, r)
     /\ t.slot = [ino |-> t.tree.name[r.p1], pos |-> 0]
  \/ /\ r.op = "read"
     /\ t = s
  \/ /\ r.op = "write" /\ r.err = 1 /\ r.len = 1 /\ r.content \in Contents
     /\ s.slot # Closed
     /\ t.tree = Written(s.tree, s.slot.ino, s.slot.pos, r.content)
     /\ t.slot = [s.slot EXCEPT !.pos = @ + 1]
  \/ /\ r.op = "release" /\ r.err = 0
     /\ s.slot # Closed
     /\ t.tree = s.tree /\ t.slot = Closed

(* A call on a name, with the tree it leaves.                                *)
NameStep(r, fs, gs) ==
  \/ r.op = "unlink" /\ CanUnlink(fs, r.p1) /\ gs = Remove(fs, r.p1)
  \/ r.op = "rmdir" /\ CanRmdir(fs, r.p1) /\ gs = Remove(fs, r.p1)
  \/ r.op = "mkdir" /\ CanAdd(fs, r.p1) /\ gs = Add(fs, r.p1, "dir")
  \/ r.op = "mknod" /\ CanAdd(fs, r.p1) /\ gs = Add(fs, r.p1, "node")

StepName(s, r, t) == r.err = 0 /\ t.slot = s.slot /\ NameStep(r, s.tree, t.tree)

StepRecord(s, r, t) == StepFile(s, r, t) \/ StepName(s, r, t)

Chain(tr, H) ==
  /\ H[1] = Start
  /\ \A i \in 1 .. Len(tr) : StepRecord(H[i], tr[i], H[i + 1])

(* The records since the last open.                                          *)
Current(tr) ==
  {j \in 1 .. Len(tr) : \A m \in j .. Len(tr) : tr[m].op # "open"}

(* A create that waits for its open.                                         *)
Last(tr) == tr[Len(tr)]
Pending(tr) == tr # <<>> /\ Last(tr).op = "create"

(* What Faithful asks of a record r when it is the last one, the open that   *)
(* follows a create excepted, and of r for the sake of a create before it.   *)
FaithfulNext(tr, r) ==
  /\ r.op \notin {"link", "rename", "symlink"}
  /\ r.p1 \notin Misfit /\ r.content \notin Misfit
  /\ r.op \in {"open", "create"} => r.err = 0
  /\ (r.op = "open" /\ \E j \in 1 .. Len(tr) : tr[j].op = "open") =>
       \E j \in Current(tr) : tr[j].op = "release"
  /\ r.op = "write" =>
       /\ r.err > 0
       /\ \A j \in Current(tr) : tr[j].op = "read" => tr[j].err <= 0
  /\ Pending(tr) => r.op = "open" /\ r.p1 = Last(tr).p1 /\ r.creat

(* The same of the records of a trace, the last one may be a create.         *)
SessionOf(tr, i) ==
  {j \in 1 .. (i - 1) : \A m \in j .. (i - 1) : tr[m].op # "open"}

FaithfulSoFar(tr) ==
  \A i \in 1 .. Len(tr) :
    /\ tr[i].op \notin {"link", "rename", "symlink"}
    /\ tr[i].p1 \notin Misfit /\ tr[i].content \notin Misfit
    /\ tr[i].op \in {"open", "create"} => tr[i].err = 0
    /\ (tr[i].op = "create" /\ i < Len(tr)) =>
         tr[i + 1].op = "open" /\ tr[i + 1].p1 = tr[i].p1 /\ tr[i + 1].creat
    /\ (tr[i].op = "open" /\ \E j \in 1 .. (i - 1) : tr[j].op = "open") =>
         \E j \in SessionOf(tr, i) : tr[j].op = "release"
    /\ tr[i].op = "write" =>
         /\ tr[i].err > 0
         /\ \A j \in SessionOf(tr, i) : tr[j].op = "read" => tr[j].err <= 0

(* The users' tree is that of the machine, a file that a create has made     *)
(* excepted.                                                                 *)
TreeMatches(tr, tree, s) ==
  IF Pending(tr)
  THEN CanAdd(s.tree, Last(tr).p1) /\ tree = Add(s.tree, Last(tr).p1, "file")
  ELSE tree = s.tree

(* The users have at most one file open, at the machine's position unless    *)
(* something was read since the open.                                        *)
OneOpen(tr, fs, slot) ==
  \E h \in Handles :
    /\ fs[h] # Closed /\ fs[h].ino = slot.ino
    /\ (\A j \in Current(tr) : tr[j].op = "read" => tr[j].err <= 0) => fs[h].pos = slot.pos
    /\ \A g \in Handles : g # h => fs[g] = Closed

FilesMatch(tr, fs, s) ==
  /\ s.slot = Closed => \A h \in Handles : fs[h] = Closed
  /\ s.slot # Closed =>
       /\ s.slot.ino # 0
       /\ OneOpen(tr, fs, s.slot)
       /\ \E j \in 1 .. Len(tr) : tr[j].op = "open"
       /\ \A j \in Current(tr) : tr[j].op # "release"

Matches(tr, tree, fs, s) ==
  /\ s.tree \in Trees /\ s.slot \in Slots
  /\ TreeMatches(tr, tree, s) /\ FilesMatch(tr, fs, s)

(* The trace records a behaviour of the machine that ends where the users    *)
(* are.                                                                      *)
Recorded(tr, tree, fs) ==
  FaithfulSoFar(tr) =>
    \E H : Chain(tr, H) /\ Matches(tr, tree, fs, H[Len(tr) + 1])

RecordInv == ~hidden => Recorded(trace, ltree, files)

(* treplay is in state s of the machine; nothing is open but fd.             *)
AtState(s) ==
  /\ rtree = s.tree
  /\ \A n \in 1 .. MaxFds : fdtab[n] = IF n = fd THEN s.slot ELSE Closed
  /\ fd = 0 => s.slot = Closed

FreshInv ==
  pc \in {"record", "start", "trace"} => k = 1 /\ deviated = {} /\ AtState(Start)

FollowInv ==
  (replay /\ Replayable) => \A H : Chain(trace, H) => AtState(H[k])

(* What has been got of a faithful record is what was recorded.              *)
GotInv ==
  (pc = "got" /\ Replayable) =>
    /\ path1 = trace[k].p1
    /\ trace[k].op = "write" => content = trace[k].content

ExitInv ==
  (pc = "exit" /\ replay /\ argv.file) => k = Len(trace) + 1

(* GotInv and the others speak of a trace without hidden calls.              *)
FaithInv ==
  /\ RecordInv /\ FreshInv /\ FollowInv /\ GotInv /\ ExitInv
  /\ ReturnsSame

(***************************************************************************)
(* Traces that get one more record.                                        *)
(***************************************************************************)
LEMMA AppendAt ==
  ASSUME NEW tr \in Seq(Records), NEW r \in Records
  PROVE  /\ Append(tr, r) \in Seq(Records) /\ Len(tr) \in Nat
         /\ Len(Append(tr, r)) = Len(tr) + 1 /\ Append(tr, r)[Len(tr) + 1] = r
         /\ \A i \in 1 .. Len(tr) : Append(tr, r)[i] = tr[i]
BY AppendProperties

(* What is after an earlier record stays.                                    *)
LEMMA SessionAppend ==
  ASSUME NEW tr \in Seq(Records), NEW r \in Records
  PROVE  /\ \A i \in 1 .. (Len(tr) + 1) : SessionOf(Append(tr, r), i) = SessionOf(tr, i)
         /\ SessionOf(tr, Len(tr) + 1) = Current(tr)
<1> DEFINE new == Append(tr, r)
<1>1. Len(tr) \in Nat /\ \A i \in 1 .. Len(tr) : new[i] = tr[i]
  BY AppendAt
<1> HIDE DEF new
<1>2. ASSUME NEW i \in 1 .. (Len(tr) + 1) PROVE SessionOf(new, i) = SessionOf(tr, i)
  <2>1. \A m \in 1 .. (i - 1) : new[m] = tr[m]
    BY <1>1
  <2>2. \A j \in 1 .. (i - 1) : \A m \in j .. (i - 1) : m \in 1 .. (i - 1)
    BY <1>1
  <2> QED BY <2>1, <2>2 DEF SessionOf
<1>3. SessionOf(tr, Len(tr) + 1) = Current(tr)
  <2>1. (Len(tr) + 1) - 1 = Len(tr)
    BY <1>1
  <2> QED BY <2>1 DEF SessionOf, Current
<1> QED BY <1>2, <1>3 DEF new

(* An open begins a session, any other record belongs to the current one.    *)
LEMMA CurrentAppend ==
  ASSUME NEW tr \in Seq(Records), NEW r \in Records
  PROVE  /\ r.op = "open" => Current(Append(tr, r)) = {}
         /\ r.op # "open" => Current(Append(tr, r)) = Current(tr) \cup {Len(tr) + 1}
<1> DEFINE new == Append(tr, r)
           len == Len(tr)
<1>1. /\ len \in Nat /\ Len(new) = len + 1 /\ new[len + 1] = r
      /\ \A i \in 1 .. len : new[i] = tr[i]
  BY AppendAt
<1> HIDE DEF new, len
<1>2. Current(tr) = {j \in 1 .. len : \A m \in j .. len : tr[m].op # "open"}
  BY DEF Current, len
<1>3. Current(new) = {j \in 1 .. (len + 1) : \A m \in j .. (len + 1) : new[m].op # "open"}
  BY <1>1 DEF Current
<1>4. ASSUME r.op = "open" PROVE Current(new) = {}
  <2> SUFFICES ASSUME NEW j \in Current(new) PROVE FALSE
    OBVIOUS
  <2>1. j \in 1 .. (len + 1) /\ \A m \in j .. (len + 1) : new[m].op # "open"
    BY <1>3
  <2>2. len + 1 \in j .. (len + 1)
    BY <1>1, <2>1
  <2> QED BY <1>1, <1>4, <2>1, <2>2
<1>5. ASSUME r.op # "open" PROVE Current(new) = Current(tr) \cup {len + 1}
  <2>1. ASSUME NEW j \in Current(new), j # len + 1 PROVE j \in Current(tr)
    <3>1. j \in 1 .. (len + 1) /\ \A m \in j .. (len + 1) : new[m].op # "open"
      BY <1>3
    <3>2. j \in 1 .. len /\ \A m \in j .. len : m \in j .. (len + 1) /\ m \in 1 .. len
      BY <1>1, <2>1, <3>1
    <3> QED BY <1>1, <1>2, <3>1, <3>2
  <2>2. ASSUME NEW j \in Current(tr) PROVE j \in Current(new)
    <3>1. j \in 1 .. len /\ \A m \in j .. len : tr[m].op # "open"
      BY <1>2
    <3>2. ASSUME NEW m \in j .. (len + 1) PROVE new[m].op # "open"
      <4>1. CASE m = len + 1
        BY <1>1, <1>5, <4>1
      <4>2. CASE m # len + 1
        <5>1. m \in j .. len /\ m \in 1 .. len
          BY <1>1, <3>1, <4>2
        <5> QED BY <1>1, <3>1, <5>1
      <4> QED BY <4>1, <4>2
    <3>3. j \in 1 .. (len + 1)
      BY <1>1, <3>1
    <3> QED BY <1>3, <3>2, <3>3
  <2>3. len + 1 \in Current(new)
    <3>1. len + 1 \in 1 .. (len + 1) /\ \A m \in (len + 1) .. (len + 1) : m = len + 1
      BY <1>1
    <3> QED BY <1>1, <1>3, <1>5, <3>1
  <2> QED BY <2>1, <2>2, <2>3
<1> QED BY <1>4, <1>5 DEF new, len

(* A faithful trace was faithful before its last record, which continues it. *)
LEMMA FaithfulPrefix ==
  ASSUME NEW tr \in Seq(Records), NEW r \in Records, FaithfulSoFar(Append(tr, r))
  PROVE  FaithfulSoFar(tr) /\ FaithfulNext(tr, r)
<1> DEFINE new == Append(tr, r)
           len == Len(tr)
<1>1. /\ len \in Nat /\ Len(new) = len + 1 /\ new[len + 1] = r
      /\ \A i \in 1 .. len : new[i] = tr[i]
  BY AppendAt
<1>2. /\ \A i \in 1 .. (len + 1) : SessionOf(new, i) = SessionOf(tr, i)
      /\ SessionOf(tr, len + 1) = Current(tr)
  BY SessionAppend
<1>3. FaithfulSoFar(new)
  OBVIOUS
<1> HIDE DEF new
<1>4. \A i \in 1 .. (len + 1) :
        /\ new[i].op \notin {"link", "rename", "symlink"}
        /\ new[i].p1 \notin Misfit /\ new[i].content \notin Misfit
        /\ new[i].op \in {"open", "create"} => new[i].err = 0
        /\ (new[i].op = "create" /\ i < len + 1) =>
             new[i + 1].op = "open" /\ new[i + 1].p1 = new[i].p1 /\ new[i + 1].creat
        /\ (new[i].op = "open" /\ \E j \in 1 .. (i - 1) : new[j].op = "open") =>
             \E j \in SessionOf(tr, i) : new[j].op = "release"
        /\ new[i].op = "write" =>
             /\ new[i].err > 0
             /\ \A j \in SessionOf(tr, i) : new[j].op = "read" => new[j].err <= 0
  BY <1>1, <1>2, <1>3 DEF FaithfulSoFar
<1>5. \A i \in 1 .. (len + 1) : \A j \in SessionOf(tr, i) : new[j] = tr[j]
  <2> TAKE i \in 1 .. (len + 1)
  <2> TAKE j \in SessionOf(tr, i)
  <2>1. j \in 1 .. (i - 1)
    BY DEF SessionOf
  <2>2. j \in 1 .. len
    BY <1>1, <2>1
  <2> QED BY <1>1, <2>2
<1>6. FaithfulSoFar(tr)
  <2> SUFFICES ASSUME NEW i \in 1 .. len
      PROVE  /\ tr[i].op \notin {"link", "rename", "symlink"}
             /\ tr[i].p1 \notin Misfit /\ tr[i].content \notin Misfit
             /\ tr[i].op \in {"open", "create"} => tr[i].err = 0
             /\ (tr[i].op = "create" /\ i < len) =>
                  tr[i + 1].op = "open" /\ tr[i + 1].p1 = tr[i].p1 /\ tr[i + 1].creat
             /\ (tr[i].op = "open" /\ \E j \in 1 .. (i - 1) : tr[j].op = "open") =>
                  \E j \in SessionOf(tr, i) : tr[j].op = "release"
             /\ tr[i].op = "write" =>
                  /\ tr[i].err > 0
                  /\ \A j \in SessionOf(tr, i) : tr[j].op = "read" => tr[j].err <= 0
    BY DEF FaithfulSoFar
  <2>1. i \in 1 .. (len + 1) /\ new[i] = tr[i] /\ i < len + 1
    BY <1>1
  <2>2. \A j \in 1 .. (i - 1) : new[j] = tr[j]
    BY <1>1
  <2>3. i < len => new[i + 1] = tr[i + 1]
    BY <1>1
  <2>4. \A j \in SessionOf(tr, i) : new[j] = tr[j]
    BY <1>5, <2>1
  <2>5. /\ tr[i].op \notin {"link", "rename", "symlink"}
        /\ tr[i].p1 \notin Misfit /\ tr[i].content \notin Misfit
        /\ tr[i].op \in {"open", "create"} => tr[i].err = 0
    BY <1>4, <2>1
  <2>6. (tr[i].op = "create" /\ i < len) =>
          tr[i + 1].op = "open" /\ tr[i + 1].p1 = tr[i].p1 /\ tr[i + 1].creat
    BY <1>4, <2>1, <2>3
  <2>7. (tr[i].op = "open" /\ \E j \in 1 .. (i - 1) : tr[j].op = "open") =>
          \E j \in SessionOf(tr, i) : tr[j].op = "release"
    BY <1>4, <2>1, <2>2, <2>4
  <2>8. tr[i].op = "write" =>
          /\ tr[i].err > 0
          /\ \A j \in SessionOf(tr, i) : tr[j].op = "read" => tr[j].err <= 0
    BY <1>4, <2>1, <2>4
  <2> QED BY <2>5, <2>6, <2>7, <2>8
<1>7. FaithfulNext(tr, r)
  <2>1. len + 1 \in 1 .. (len + 1) /\ (len + 1) - 1 = len
    BY <1>1
  <2>2. /\ \A j \in Current(tr) : new[j] = tr[j]
        /\ \A j \in 1 .. len : new[j] = tr[j]
    BY <1>1, <1>2, <1>5, <2>1
  <2>3. /\ r.op \notin {"link", "rename", "symlink"}
        /\ r.p1 \notin Misfit /\ r.content \notin Misfit
        /\ r.op \in {"open", "create"} => r.err = 0
    BY <1>1, <1>4, <2>1
  <2>4. (r.op = "open" /\ \E j \in 1 .. Len(tr) : tr[j].op = "open") =>
          \E j \in Current(tr) : tr[j].op = "release"
    BY <1>1, <1>2, <1>4, <2>1, <2>2
  <2>5. r.op = "write" =>
          /\ r.err > 0
          /\ \A j \in Current(tr) : tr[j].op = "read" => tr[j].err <= 0
    BY <1>1, <1>2, <1>4, <2>1, <2>2
  <2>6. Pending(tr) => r.op = "open" /\ r.p1 = Last(tr).p1 /\ r.creat
    <3> SUFFICES ASSUME Pending(tr) PROVE r.op = "open" /\ r.p1 = Last(tr).p1 /\ r.creat
      OBVIOUS
    <3>1. len \in 1 .. len /\ len \in 1 .. (len + 1) /\ len < len + 1
      <4>1. len # 0
        BY EmptySeq DEF Pending
      <4> QED BY <1>1, <4>1
    <3>2. new[len] = tr[len] /\ tr[len].op = "create" /\ Last(tr) = tr[len]
      BY <1>1, <3>1 DEF Pending, Last
    <3> QED BY <1>1, <1>4, <3>1, <3>2
  <2> QED BY <2>3, <2>4, <2>5, <2>6 DEF FaithfulNext
<1> QED BY <1>6, <1>7

(* The machine makes one more step.                                          *)
LEMMA HistoryExtends ==
  ASSUME NEW tr \in Seq(Records), NEW r \in Records, NEW H, Chain(tr, H),
         NEW t, StepRecord(H[Len(tr) + 1], r, t)
  PROVE  \E G : Chain(Append(tr, r), G) /\ G[Len(Append(tr, r)) + 1] = t
<1> DEFINE new == Append(tr, r)
           len == Len(tr)
           G == [i \in 1 .. (len + 2) |-> IF i = len + 2 THEN t ELSE H[i]]
<1>1. /\ len \in Nat /\ Len(new) = len + 1 /\ new[len + 1] = r
      /\ \A i \in 1 .. len : new[i] = tr[i]
  BY AppendAt
<1> HIDE DEF new
<1>2. G[len + 2] = t /\ \A i \in 1 .. (len + 1) : G[i] = H[i]
  BY <1>1
<1> HIDE DEF G
<1>3. H[1] = Start /\ \A i \in 1 .. len : StepRecord(H[i], tr[i], H[i + 1])
  BY DEF Chain
<1>4. G[1] = Start
  BY <1>1, <1>2, <1>3
<1>5. ASSUME NEW i \in 1 .. (len + 1) PROVE StepRecord(G[i], new[i], G[i + 1])
  <2>1. CASE i = len + 1
    <3>1. G[i] = H[len + 1] /\ new[i] = r /\ G[i + 1] = t
      <4>1. i + 1 = len + 2
        BY <1>1, <2>1
      <4> QED BY <1>1, <1>2, <2>1, <4>1
    <3> QED BY <3>1
  <2>2. CASE i # len + 1
    <3>1. i \in 1 .. len /\ i + 1 \in 1 .. (len + 1)
      BY <1>1, <2>2
    <3> QED BY <1>1, <1>2, <1>3, <3>1
  <2> QED BY <2>1, <2>2
<1>6. Chain(new, G) /\ G[Len(new) + 1] = t
  <2>1. Len(new) + 1 = len + 2
    BY <1>1
  <2> QED BY <1>1, <1>2, <1>4, <1>5, <2>1 DEF Chain
<1> QED BY <1>6 DEF new

(* So what has to be shown of a record is about one step.                    *)
LEMMA RecordedExtends ==
  ASSUME NEW tr \in Seq(Records), NEW r \in Records, NEW tree, NEW fs, NEW tree2, NEW fs2,
         Recorded(tr, tree, fs),
         \A s : (FaithfulNext(tr, r) /\ Matches(tr, tree, fs, s)) =>
           \E t : StepRecord(s, r, t) /\ Matches(Append(tr, r), tree2, fs2, t)
  PROVE  Recorded(Append(tr, r), tree2, fs2)
<1> SUFFICES ASSUME FaithfulSoFar(Append(tr, r))
    PROVE  \E H : /\ Chain(Append(tr, r), H)
                  /\ Matches(Append(tr, r), tree2, fs2, H[Len(Append(tr, r)) + 1])
  BY DEF Recorded
<1>1. FaithfulSoFar(tr) /\ FaithfulNext(tr, r)
  BY FaithfulPrefix
<1>2. PICK H : Chain(tr, H) /\ Matches(tr, tree, fs, H[Len(tr) + 1])
  BY <1>1 DEF Recorded
<1>3. PICK t : StepRecord(H[Len(tr) + 1], r, t) /\ Matches(Append(tr, r), tree2, fs2, t)
  BY <1>1, <1>2
<1>4. PICK G : Chain(Append(tr, r), G) /\ G[Len(Append(tr, r)) + 1] = t
  BY <1>2, <1>3, HistoryExtends
<1> QED BY <1>3, <1>4

(***************************************************************************)
(* The users' calls extend the behaviour of the machine.                   *)
(***************************************************************************)
(* What is in the records.                                                   *)
LEMMA RecFields ==
  ASSUME NEW op, NEW err, NEW p, NEW q
  PROVE  /\ Rec(op, err, p, q).op = op /\ Rec(op, err, p, q).err = err
         /\ Rec(op, err, p, q).p1 = p
         /\ One(op, err, p).op = op /\ One(op, err, p).err = err /\ One(op, err, p).p1 = p
BY DEF Rec, One

LEMMA OpenRecFields ==
  ASSUME NEW err, NEW u
  PROVE  /\ OpenRec(err, u).op = "open" /\ OpenRec(err, u).err = err
         /\ OpenRec(err, u).p1 = u.p /\ OpenRec(err, u).creat = u.creat
         /\ OpenRec(err, u).trunc = u.trunc
BY DEF OpenRec, Rec

LEMMA WriteRecFields ==
  ASSUME NEW err, NEW p, NEW c
  PROVE  /\ WriteRec(err, p, c).op = "write" /\ WriteRec(err, p, c).err = err
         /\ WriteRec(err, p, c).len = err
         /\ err > 0 => WriteRec(err, p, c).content = c
BY DEF WriteRec, Rec

(* A file that has just been made is there, and empty.                       *)
LEMMA OpenedFresh ==
  ASSUME NEW fs \in Trees, NEW p \in Paths, NEW fl
  PROVE  /\ Is(Add(fs, p, "file"), p, "file")
         /\ Opened(Add(fs, p, "file"), p, fl) = Add(fs, p, "file")
<1> DEFINE gs == Add(fs, p, "file")
           i == Len(fs.node) + 1
           made == [kind |-> "file", data |-> <<>>]
<1>1. /\ fs.name \in [Paths -> Nat] /\ fs.node \in Seq(Objects) /\ Len(fs.node) \in Nat
  BY TreeParts
<1>2. made \in Objects
  BY DEF Objects, Kinds
<1>3. gs.name = [fs.name EXCEPT ![p] = i] /\ gs.node = Append(fs.node, made)
      /\ gs = [name |-> gs.name, node |-> gs.node]
  BY DEF Add
<1> HIDE DEF gs, made
<1>4. gs.name[p] = i /\ gs.node[i] = made /\ i # 0 /\ i \in DOMAIN gs.node
      /\ gs.node \in Seq(Objects)
  BY <1>1, <1>2, <1>3, AppendProperties
<1>5. Is(gs, p, "file")
  BY <1>4 DEF Is, Exists, Object, made
<1>6. Opened(gs, p, fl) = gs
  <2>1. CASE ~fl.trunc
    BY <1>4, <2>1 DEF Opened, Exists
  <2>2. CASE fl.trunc
    <3>1. Opened(gs, p, fl) = [gs EXCEPT !.node[i].data = <<>>]
      BY <1>4, <2>2 DEF Opened, Exists
    <3> DEFINE node == [gs.node EXCEPT ![i].data = <<>>]
    <3>2. node = gs.node
      <4>1. [gs.node[i] EXCEPT !.data = <<>>] = gs.node[i]
        BY <1>4 DEF made
      <4>2. node = [gs.node EXCEPT ![i] = [gs.node[i] EXCEPT !.data = <<>>]]
        OBVIOUS
      <4>3. [gs.node EXCEPT ![i] = gs.node[i]] = gs.node
        BY <1>4
      <4> HIDE DEF node
      <4> QED BY <4>1, <4>2, <4>3
    <3>3. [gs EXCEPT !.node[i].data = <<>>] = [gs EXCEPT !.node = node]
      OBVIOUS
    <3> HIDE DEF node
    <3>4. [gs EXCEPT !.node = gs.node] = gs
      BY <1>3
    <3> QED BY <3>1, <3>2, <3>3, <3>4
  <2> QED BY <2>1, <2>2
<1> QED BY <1>5, <1>6 DEF gs

(* Any record but an open or a release leaves the files as they were.        *)
LEMMA KeepsFiles ==
  ASSUME NEW tr \in Seq(Records), NEW r \in Records, r.op \notin {"open", "release"},
         NEW fs, NEW s, NEW t, t.slot = s.slot, FilesMatch(tr, fs, s)
  PROVE  FilesMatch(Append(tr, r), fs, t)
<1> DEFINE new == Append(tr, r)
           len == Len(tr)
<1>1. /\ len \in Nat /\ Len(new) = len + 1 /\ new[len + 1] = r
      /\ \A i \in 1 .. len : new[i] = tr[i]
  BY AppendAt
<1>2. Current(new) = Current(tr) \cup {len + 1} /\ Current(tr) \subseteq 1 .. len
  BY CurrentAppend DEF Current
<1> HIDE DEF new
<1>3. ASSUME s.slot # Closed PROVE OneOpen(new, fs, s.slot)
  <2>1. PICK h \in Handles :
          /\ fs[h] # Closed /\ fs[h].ino = s.slot.ino
          /\ (\A j \in Current(tr) : tr[j].op = "read" => tr[j].err <= 0) =>
               fs[h].pos = s.slot.pos
          /\ \A g \in Handles : g # h => fs[g] = Closed
    BY <1>3 DEF FilesMatch, OneOpen
  <2>2. ASSUME \A j \in Current(new) : new[j].op = "read" => new[j].err <= 0
        PROVE  fs[h].pos = s.slot.pos
    <3>1. \A j \in Current(tr) : new[j] = tr[j]
      BY <1>1, <1>2
    <3>2. \A j \in Current(tr) : tr[j].op = "read" => tr[j].err <= 0
      BY <1>2, <2>2, <3>1
    <3> QED BY <2>1, <3>2
  <2> QED BY <2>1, <2>2 DEF OneOpen
<1>4. ASSUME s.slot # Closed
      PROVE  /\ \E j \in 1 .. Len(new) : new[j].op = "open"
             /\ \A j \in Current(new) : new[j].op # "release"
  <2>1. PICK j \in 1 .. len : tr[j].op = "open"
    BY <1>4 DEF FilesMatch
  <2>2. j \in 1 .. Len(new) /\ new[j].op = "open"
    BY <1>1, <2>1
  <2>3. \A i \in Current(tr) : new[i] = tr[i] /\ tr[i].op # "release"
    BY <1>1, <1>2, <1>4 DEF FilesMatch
  <2>4. \A i \in Current(new) : new[i].op # "release"
    BY <1>1, <1>2, <2>3
  <2> QED BY <2>2, <2>4
<1>5. FilesMatch(new, fs, t)
  BY <1>3, <1>4 DEF FilesMatch
<1> QED BY <1>5 DEF new

(* The trace ends with r.                                                    *)
LEMMA PendingAppend ==
  ASSUME NEW tr \in Seq(Records), NEW r \in Records
  PROVE  /\ Pending(Append(tr, r)) <=> r.op = "create"
         /\ Last(Append(tr, r)) = r
<1>1. /\ Append(tr, r) # <<>> /\ Len(tr) \in Nat
      /\ Len(Append(tr, r)) = Len(tr) + 1 /\ Append(tr, r)[Len(tr) + 1] = r
  <2>1. /\ Len(tr) \in Nat
        /\ Len(Append(tr, r)) = Len(tr) + 1 /\ Append(tr, r)[Len(tr) + 1] = r
    BY AppendAt
  <2>2. Len(<<>>) = 0
    OBVIOUS
  <2> QED BY <2>1, <2>2
<1> QED BY <1>1 DEF Pending, Last

LEMMA CreateMatches ==
  ASSUME NEW tr \in Seq(Records), NEW r \in Records, r.op = "create",
         NEW tree, NEW fs, NEW s, Matches(tr, tree, fs, s), FaithfulNext(tr, r),
         CanAdd(tree, r.p1)
  PROVE  StepRecord(s, r, s) /\ Matches(Append(tr, r), Add(tree, r.p1, "file"), fs, s)
<1>1. ~Pending(tr)
  BY DEF FaithfulNext
<1>2. tree = s.tree
  BY <1>1 DEF Matches, TreeMatches
<1>3. StepRecord(s, r, s)
  BY <1>2 DEF StepRecord, StepFile
<1>4. TreeMatches(Append(tr, r), Add(tree, r.p1, "file"), s)
  BY <1>2, PendingAppend DEF TreeMatches
<1>5. FilesMatch(Append(tr, r), fs, s)
  BY KeepsFiles DEF Matches
<1> QED BY <1>3, <1>4, <1>5 DEF Matches

LEMMA OpenMatches ==
  ASSUME NEW tr \in Seq(Records), NEW r \in Records, r.op = "open",
         NEW tree \in Trees, NEW fs \in [Handles -> Slots], NEW s,
         Matches(tr, tree, fs, s), FaithfulNext(tr, r),
         CanOpen(tree, r.p1, r), NEW h \in Handles, NEW tree2, NEW fs2,
         tree2 = Opened(tree, r.p1, r),
         fs2 = [fs EXCEPT ![h] = [ino |-> tree2.name[r.p1], pos |-> 0]]
  PROVE  \E t : StepRecord(s, r, t) /\ Matches(Append(tr, r), tree2, fs2, t)
<1> DEFINE new == Append(tr, r)
           p == r.p1
           slot == [ino |-> tree2.name[p], pos |-> 0]
           t == [tree |-> tree2, slot |-> slot]
<1>1. p \in Paths /\ r.err = 0 /\ s.tree \in Trees
  BY DEF Records, FaithfulNext, Matches
<1>2. s.slot = Closed
  BY DEF FaithfulNext, Matches, FilesMatch
<1>3. CanOpen(s.tree, p, r) /\ tree2 = Opened(s.tree, p, r)
  <2>1. CASE Pending(tr)
    <3>1. r.p1 = Last(tr).p1 /\ r.creat
      BY <2>1 DEF FaithfulNext
    <3>2. CanAdd(s.tree, p) /\ tree = Add(s.tree, p, "file")
      BY <2>1, <3>1 DEF Matches, TreeMatches
    <3>3. tree2 = tree
      BY <1>1, <3>2, OpenedFresh
    <3>4. Opened(s.tree, p, r) = Add(s.tree, p, "file")
      BY <3>2 DEF Opened, CanAdd
    <3> QED BY <3>1, <3>2, <3>3, <3>4 DEF CanOpen
  <2>2. CASE ~Pending(tr)
    BY <2>2 DEF Matches, TreeMatches
  <2> QED BY <2>1, <2>2
<1>4. tree2 \in Trees
  BY <1>1, OpenedType DEF Grown
<1>5. tree2.name[p] \in Nat \ {0}
  <2>1. tree2.name[p] \in Nat
    BY <1>1, <1>4, TreeParts
  <2>2. CASE ~Exists(tree, p)
    <3>1. tree2 = Add(tree, p, "file")
      BY <2>2 DEF Opened
    <3> QED BY <1>1, <2>1, <3>1, OpenedFresh DEF Is, Exists
  <2>3. CASE Exists(tree, p)
    <3>1. tree2.name = tree.name
      BY <2>3 DEF Opened
    <3> QED BY <2>1, <2>3, <3>1 DEF Exists
  <2> QED BY <2>2, <2>3
<1>6. slot \in Slots /\ slot.ino # 0 /\ slot # Closed
  BY <1>5 DEF Slots, Closed
<1>7. t.tree = tree2 /\ t.slot = slot
  OBVIOUS
<1> HIDE DEF t
<1>8. StepRecord(s, r, t)
  BY <1>1, <1>2, <1>3, <1>7 DEF StepRecord, StepFile
<1> HIDE DEF slot
<1>9. FilesMatch(new, fs2, t)
  <2>1. fs2 = [fs EXCEPT ![h] = slot]
    BY DEF slot
  <2>2. fs2[h] = slot /\ \A g \in Handles : g # h => fs2[g] = Closed
    BY <1>2, <2>1 DEF Matches, FilesMatch
  <2>3. OneOpen(new, fs2, slot)
    BY <1>6, <2>2 DEF OneOpen
  <2>4. Current(new) = {}
    BY CurrentAppend
  <2>5. \E j \in 1 .. Len(new) : new[j].op = "open"
    <3>1. /\ Len(tr) \in Nat /\ Len(new) = Len(tr) + 1 /\ new[Len(tr) + 1] = r
      BY AppendAt
    <3>2. Len(tr) + 1 \in 1 .. Len(new)
      BY <3>1
    <3> HIDE DEF new
    <3> QED BY <3>1, <3>2
  <2> HIDE DEF new
  <2> QED BY <1>6, <1>7, <2>3, <2>4, <2>5 DEF FilesMatch
<1>10. TreeMatches(new, tree2, t)
  BY <1>7, PendingAppend DEF TreeMatches
<1>11. Matches(new, tree2, fs2, t)
  BY <1>4, <1>6, <1>7, <1>9, <1>10 DEF Matches
<1> QED BY <1>8, <1>11

(* The position of an open file moves.                                       *)
LEMMA MovedPos ==
  ASSUME NEW fs \in [Handles -> Slots], NEW h \in Handles, NEW n \in Nat
  PROVE  LET moved == [fs EXCEPT ![h].pos = @ + n]
         IN  /\ moved \in [Handles -> Slots]
             /\ moved[h].ino = fs[h].ino /\ moved[h].pos = fs[h].pos + n
             /\ \A g \in Handles : g # h => moved[g] = fs[g]
<1> DEFINE pos == fs[h].pos + n
           moved == [fs EXCEPT ![h].pos = pos]
<1>1. fs[h].pos \in Nat
  BY DEF Slots
<1>2. pos \in Nat
  BY <1>1
<1>3. [fs EXCEPT ![h].pos = @ + n] = moved
  OBVIOUS
<1> HIDE DEF pos
<1>4. moved \in [Handles -> Slots] /\ moved[h].ino = fs[h].ino
  BY <1>2, SetPos
<1>5. moved[h] = [fs[h] EXCEPT !.pos = pos] /\ \A g \in Handles : g # h => moved[g] = fs[g]
  OBVIOUS
<1>6. moved[h].pos = pos
  BY <1>5 DEF Slots
<1> HIDE DEF moved
<1> QED BY <1>3, <1>4, <1>5, <1>6 DEF pos

(* The file that is open is the machine's.                                   *)
LEMMA OpenFile ==
  ASSUME NEW tr, NEW fs, NEW s, FilesMatch(tr, fs, s), NEW h \in Handles, fs[h] # Closed
  PROVE  /\ s.slot # Closed /\ s.slot.ino # 0 /\ fs[h].ino = s.slot.ino
         /\ (\A j \in Current(tr) : tr[j].op = "read" => tr[j].err <= 0) =>
              fs[h].pos = s.slot.pos
         /\ \A g \in Handles : g # h => fs[g] = Closed
<1>1. s.slot # Closed /\ s.slot.ino # 0 /\ OneOpen(tr, fs, s.slot)
  BY DEF FilesMatch
<1>2. PICK i \in Handles :
        /\ fs[i] # Closed /\ fs[i].ino = s.slot.ino
        /\ (\A j \in Current(tr) : tr[j].op = "read" => tr[j].err <= 0) =>
             fs[i].pos = s.slot.pos
        /\ \A g \in Handles : g # i => fs[g] = Closed
  BY <1>1 DEF OneOpen
<1>3. i = h
  BY <1>2
<1> QED BY <1>1, <1>2, <1>3

(* Only an open may come while a create waits.                               *)
LEMMA NotWaiting ==
  ASSUME NEW tr, NEW r, r.op # "open", FaithfulNext(tr, r),
         NEW tree, NEW fs, NEW s, Matches(tr, tree, fs, s)
  PROVE  ~Pending(tr) /\ tree = s.tree /\ s.tree \in Trees /\ s.slot \in Slots
<1>1. ~Pending(tr)
  BY DEF FaithfulNext
<1> QED BY <1>1 DEF Matches, TreeMatches

LEMMA WriteMatches ==
  ASSUME NEW tr \in Seq(Records), NEW r \in Records, r.op = "write", r.err = 1, r.len = 1,
         r.content \in Contents,
         NEW tree \in Trees, NEW fs \in [Handles -> Slots], NEW s,
         Matches(tr, tree, fs, s), FaithfulNext(tr, r),
         NEW h \in Handles, fs[h] # Closed, fs[h].ino \in 0 .. Len(tree.node),
         NEW tree2, tree2 = Written(tree, fs[h].ino, fs[h].pos, r.content),
         NEW fs2, fs2 = [fs EXCEPT ![h].pos = @ + 1]
  PROVE  \E t : StepRecord(s, r, t) /\ Matches(Append(tr, r), tree2, fs2, t)
<1> DEFINE new == Append(tr, r)
           pos == s.slot.pos + 1
           slot == [s.slot EXCEPT !.pos = pos]
           t == [tree |-> tree2, slot |-> slot]
<1>1. tree = s.tree /\ s.slot \in Slots
  BY NotWaiting
<1>2. /\ s.slot # Closed /\ s.slot.ino # 0 /\ fs[h].ino = s.slot.ino
      /\ fs[h].pos = s.slot.pos /\ \A g \in Handles : g # h => fs[g] = Closed
  <2>1. \A j \in Current(tr) : tr[j].op = "read" => tr[j].err <= 0
    BY DEF FaithfulNext
  <2> QED BY <2>1, OpenFile DEF Matches
<1>3. tree2 \in Trees
  <2>1. r.content \in Units /\ fs[h].pos \in Nat
    BY DEF Units, Slots
  <2> QED BY <2>1, WrittenType DEF Grown
<1>4. s.slot.pos \in Nat /\ pos \in Nat
  BY <1>1 DEF Slots
<1>5. [s.slot EXCEPT !.pos = @ + 1] = slot
  OBVIOUS
<1>6. t.tree = tree2 /\ t.slot = slot
  OBVIOUS
<1> HIDE DEF t
<1>7. /\ fs2[h].ino = fs[h].ino /\ fs2[h].pos = fs[h].pos + 1
      /\ \A g \in Handles : g # h => fs2[g] = fs[g]
  <2>1. 1 \in Nat
    OBVIOUS
  <2> QED BY <2>1, MovedPos
<1>8. fs2[h].pos = pos
  BY <1>2, <1>7
<1> HIDE DEF pos
<1>9. slot \in Slots /\ slot.ino = s.slot.ino /\ slot.pos = pos
  BY <1>1, <1>4 DEF Slots
<1> HIDE DEF slot
<1>10. slot.ino # 0 /\ slot # Closed /\ fs2[h] # Closed /\ fs2[h].ino = slot.ino
  BY <1>2, <1>7, <1>9, ClosedType
<1>11. StepRecord(s, r, t)
  BY <1>1, <1>2, <1>5, <1>6 DEF StepRecord, StepFile
<1>12. FilesMatch(new, fs2, t)
  <2>1. FilesMatch(new, fs, s)
    BY KeepsFiles DEF Matches
  <2> HIDE DEF new
  <2>2. OneOpen(new, fs2, slot)
    BY <1>2, <1>7, <1>8, <1>9, <1>10 DEF OneOpen
  <2> QED BY <1>2, <1>6, <1>10, <2>1, <2>2 DEF FilesMatch
<1>13. TreeMatches(new, tree2, t)
  BY <1>6, PendingAppend DEF TreeMatches
<1>14. Matches(new, tree2, fs2, t)
  BY <1>3, <1>6, <1>9, <1>12, <1>13 DEF Matches
<1> QED BY <1>11, <1>14

(* The user's position moves, the machine's does not: no write may follow.   *)
LEMMA ReadMatches ==
  ASSUME NEW tr \in Seq(Records), NEW r \in Records, r.op = "read",
         NEW tree, NEW fs \in [Handles -> Slots], NEW s,
         Matches(tr, tree, fs, s), FaithfulNext(tr, r),
         NEW h \in Handles, fs[h] # Closed,
         NEW n \in Nat, n = 0 \/ n = r.err,
         NEW fs2, fs2 = [fs EXCEPT ![h].pos = @ + n]
  PROVE  StepRecord(s, r, s) /\ Matches(Append(tr, r), tree, fs2, s)
<1> DEFINE new == Append(tr, r)
<1>1. tree = s.tree
  BY NotWaiting
<1>2. /\ s.slot # Closed /\ s.slot.ino # 0 /\ fs[h].ino = s.slot.ino
      /\ (\A j \in Current(tr) : tr[j].op = "read" => tr[j].err <= 0) =>
           fs[h].pos = s.slot.pos
      /\ \A g \in Handles : g # h => fs[g] = Closed
  BY OpenFile DEF Matches
<1>3. /\ fs2[h].ino = fs[h].ino /\ fs2[h].pos = fs[h].pos + n
      /\ \A g \in Handles : g # h => fs2[g] = fs[g]
  BY MovedPos
<1>4. FilesMatch(new, fs, s)
  BY KeepsFiles DEF Matches
<1>5. ASSUME \A j \in Current(new) : new[j].op = "read" => new[j].err <= 0
      PROVE  fs2[h].pos = s.slot.pos
  <2>1. /\ Current(new) = Current(tr) \cup {Len(tr) + 1} /\ Current(tr) \subseteq 1 .. Len(tr)
        /\ new[Len(tr) + 1] = r /\ \A i \in 1 .. Len(tr) : new[i] = tr[i]
    BY CurrentAppend, AppendAt DEF Current
  <2> HIDE DEF new
  <2>2. r.err <= 0 /\ \A j \in Current(tr) : tr[j].op = "read" => tr[j].err <= 0
    BY <1>5, <2>1
  <2>3. n = 0 /\ fs[h].pos \in Nat
    BY <2>2 DEF Records, Slots
  <2> QED BY <1>2, <1>3, <2>2, <2>3
<1> HIDE DEF new
<1>6. fs2[h] # Closed
  BY <1>2, <1>3, ClosedType
<1>7. OneOpen(new, fs2, s.slot)
  BY <1>2, <1>3, <1>5, <1>6 DEF OneOpen
<1>8. FilesMatch(new, fs2, s)
  BY <1>2, <1>4, <1>7 DEF FilesMatch
<1>9. TreeMatches(new, tree, s)
  BY <1>1, PendingAppend DEF TreeMatches, new
<1>10. StepRecord(s, r, s)
  BY DEF StepRecord, StepFile
<1> QED BY <1>8, <1>9, <1>10 DEF Matches, new

LEMMA ReleaseMatches ==
  ASSUME NEW tr \in Seq(Records), NEW r \in Records, r.op = "release", r.err = 0,
         NEW tree, NEW fs \in [Handles -> Slots], NEW s,
         Matches(tr, tree, fs, s), FaithfulNext(tr, r),
         NEW h \in Handles, fs[h] # Closed,
         NEW fs2, fs2 = [fs EXCEPT ![h] = Closed]
  PROVE  \E t : StepRecord(s, r, t) /\ Matches(Append(tr, r), tree, fs2, t)
<1> DEFINE t == [tree |-> s.tree, slot |-> Closed]
<1>1. tree = s.tree /\ s.tree \in Trees
  BY NotWaiting
<1>2. s.slot # Closed /\ \A g \in Handles : g # h => fs[g] = Closed
  BY OpenFile DEF Matches
<1>3. \A g \in Handles : fs2[g] = Closed
  BY <1>2
<1>4. t.tree = s.tree /\ t.slot = Closed
  OBVIOUS
<1> HIDE DEF t
<1>5. StepRecord(s, r, t)
  BY <1>2, <1>4 DEF StepRecord, StepFile
<1>6. FilesMatch(Append(tr, r), fs2, t)
  BY <1>3, <1>4 DEF FilesMatch
<1>7. TreeMatches(Append(tr, r), tree, t)
  BY <1>1, <1>4, PendingAppend DEF TreeMatches
<1>8. Matches(Append(tr, r), tree, fs2, t)
  BY <1>1, <1>4, <1>6, <1>7, ClosedType DEF Matches
<1> QED BY <1>5, <1>8

LEMMA NameMatches ==
  ASSUME NEW tr \in Seq(Records), NEW r \in Records, r.err = 0,
         NEW tree, NEW fs, NEW s, Matches(tr, tree, fs, s), FaithfulNext(tr, r),
         NEW tree2, NameStep(r, tree, tree2)
  PROVE  \E t : StepRecord(s, r, t) /\ Matches(Append(tr, r), tree2, fs, t)
<1> DEFINE t == [tree |-> tree2, slot |-> s.slot]
<1>1. r.op \notin {"open", "release", "create"} /\ r.p1 \in Paths
  BY DEF NameStep, Records
<1>2. tree = s.tree /\ s.tree \in Trees /\ s.slot \in Slots
  BY <1>1, NotWaiting
<1>3. tree2 \in Trees
  <2>1. "dir" \in Kinds /\ "node" \in Kinds
    BY DEF Kinds
  <2>2. /\ Grown(tree, Add(tree, r.p1, "dir")) /\ Grown(tree, Add(tree, r.p1, "node"))
        /\ Grown(tree, Remove(tree, r.p1))
    BY <1>1, <1>2, <2>1, AddType, NamesType
  <2> QED BY <2>2 DEF NameStep, Grown
<1>4. t.tree = tree2 /\ t.slot = s.slot
  OBVIOUS
<1> HIDE DEF t
<1>5. StepRecord(s, r, t)
  BY <1>2, <1>4 DEF StepRecord, StepName
<1>6. FilesMatch(Append(tr, r), fs, t)
  BY <1>1, <1>4, KeepsFiles DEF Matches
<1>7. TreeMatches(Append(tr, r), tree2, t)
  BY <1>1, <1>4, PendingAppend DEF TreeMatches
<1>8. Matches(Append(tr, r), tree2, fs, t)
  BY <1>2, <1>3, <1>4, <1>6, <1>7 DEF Matches
<1> QED BY <1>5, <1>8

(* A call leaves nothing, one record or two.                                 *)
LEMMA CallRecords ==
  ASSUME TypeInv, NEW recs, Calling(recs)
  PROVE  /\ trace \in Seq(Records) /\ pc = "record"
         /\ recs = <<>> => trace' = trace
         /\ \A r \in Records : recs = <<r>> => trace' = Append(trace, r)
         /\ \A r1, r2 \in Records :
              recs = <<r1, r2>> => trace' = Append(Append(trace, r1), r2)
<1>1. trace \in Seq(Records) /\ trace' = trace \o recs /\ pc = "record"
  BY DEF TypeInv, PlaceOK, Calling
<1>2. trace \o <<>> = trace
  BY <1>1
<1>3. ASSUME NEW r \in Records PROVE trace \o <<r>> = Append(trace, r)
  BY <1>1
<1>4. ASSUME NEW r1 \in Records, NEW r2 \in Records
      PROVE  trace \o <<r1, r2>> = Append(Append(trace, r1), r2)
  BY <1>1
<1> QED BY <1>1, <1>2, <1>3, <1>4

LEMMA ConcatTwo ==
  ASSUME NEW R, NEW tr \in Seq(R), NEW new \in Seq(R), NEW r1 \in R, NEW r2 \in R
  PROVE  tr \o (new \o <<r1, r2>>) = Append(Append(tr \o new, r1), r2)
OBVIOUS

LEMMA TwoRecords ==
  ASSUME NEW r1 \in Records, NEW r2 \in Records
  PROVE  Append(<<r1>>, r2) = <<r1, r2>>
<1>1. <<r1>> \in Seq(Records) /\ <<r1, r2>> \in Seq(Records)
  OBVIOUS
<1>2. /\ Len(<<r1>>) = 1 /\ <<r1>>[1] = r1
      /\ Len(<<r1, r2>>) = 2 /\ <<r1, r2>>[1] = r1 /\ <<r1, r2>>[2] = r2
  OBVIOUS
<1> DEFINE one == <<r1>>
           two == <<r1, r2>>
<1>3. one \in Seq(Records) /\ two \in Seq(Records) /\ Len(one) = 1 /\ one[1] = r1
      /\ Len(two) = 2 /\ two[1] = r1 /\ two[2] = r2
  BY <1>1, <1>2
<1> HIDE DEF one, two
<1>4. /\ Append(one, r2) \in Seq(Records) /\ Len(Append(one, r2)) = 2
      /\ Append(one, r2)[1] = r1 /\ Append(one, r2)[2] = r2
  <2>1. /\ Append(one, r2) \in Seq(Records)
        /\ Len(Append(one, r2)) = Len(one) + 1 /\ Append(one, r2)[Len(one) + 1] = r2
        /\ \A i \in 1 .. Len(one) : Append(one, r2)[i] = one[i]
    BY <1>3, AppendAt
  <2>2. Len(one) + 1 = 2 /\ 1 \in 1 .. Len(one)
    BY <1>3
  <2> QED BY <1>3, <2>1, <2>2
<1>5. Append(one, r2) = two
  BY <1>3, <1>4, SeqEqual
<1> QED BY <1>5 DEF one, two

(* What has to be shown of a call that leaves one record.                    *)
LEMMA OneRecord ==
  ASSUME TypeInv, RecordInv, NEW r \in Records, trace' = Append(trace, r), hidden' = hidden,
         \A s : (FaithfulNext(trace, r) /\ Matches(trace, ltree, files, s)) =>
           \E t : StepRecord(s, r, t) /\ Matches(Append(trace, r), ltree', files', t)
  PROVE  RecordInv'
<1> SUFFICES ASSUME ~hidden PROVE Recorded(trace', ltree', files')
  BY DEF RecordInv
<1>1. trace \in Seq(Records) /\ Recorded(trace, ltree, files)
  BY DEF TypeInv, PlaceOK, RecordInv
<1>2. Recorded(Append(trace, r), ltree', files')
  BY <1>1, RecordedExtends
<1> QED BY <1>2

(* A record that is not faithful ends the story.                             *)
LEMMA UnfaithfulRecord ==
  ASSUME TypeInv, RecordInv, NEW r \in Records, trace' = Append(trace, r), hidden' = hidden,
         ~FaithfulNext(trace, r)
  PROVE  RecordInv'
BY OneRecord

LEMMA UserOpenRecorded ==
  ASSUME TypeInv, RecordInv, NEW u \in menu.calls, UserOpen(u)
  PROVE  RecordInv'
<1> DEFINE there == Exists(ltree, u.p)
           made == One("create", 0, u.p)
           failed == One("create", Fail, u.p)
           r == OpenRec(0, u)
           bad == OpenRec(Fail, u)
           new == IF there THEN <<>> ELSE <<made>>
           rel == One("release", 0, u.p)
           tree1 == Add(ltree, u.p, "file")
           tree2 == Opened(ltree, u.p, u)
           files2 == [files EXCEPT ![u.h] = [ino |-> tree2.name[u.p], pos |-> 0]]
           mid == IF there THEN trace ELSE Append(trace, made)
<1>1. /\ UsersOK /\ u.p \in Paths /\ u.h \in Handles /\ ltree \in Trees
      /\ files \in [Handles -> Slots] /\ trace \in Seq(Records)
      /\ CanOpen(ltree, u.p, u) /\ files[u.h] = Closed
  BY CallType DEF TypeInv, UsersOK, PlaceOK, UserOpen
<1>2. /\ made \in Records /\ failed \in Records /\ r \in Records /\ bad \in Records
      /\ rel \in Records
  <2>1. /\ "create" \in RecordOps \ TwoPaths /\ "release" \in RecordOps \ TwoPaths
        /\ 0 \in -2 .. 1 /\ Fail \in -2 .. 1
    BY DEF RecordOps, Ops, TwoPaths, Fail
  <2> QED BY <1>1, <2>1, OneType, OpenRecType
<1>3. /\ made.op = "create" /\ made.p1 = u.p
      /\ failed.op = "create" /\ failed.err = Fail
      /\ r.op = "open" /\ r.p1 = u.p /\ r.creat = u.creat /\ r.trunc = u.trunc
      /\ bad.op = "open" /\ bad.err = Fail
      /\ rel.op = "release" /\ rel.err = 0
  BY RecFields, OpenRecFields
<1> HIDE DEF made, failed, r, bad, rel
<1>4. CanOpen(ltree, u.p, r) /\ \A fs : Opened(fs, u.p, u) = Opened(fs, u.p, r)
  BY <1>1, <1>3 DEF CanOpen, Opened
<1>5. Fail # 0
  BY DEF Fail
<1>6. ASSUME ~there
      PROVE  /\ CanAdd(ltree, u.p) /\ Append(trace, made) \in Seq(Records)
             /\ ~hidden => Recorded(Append(trace, made), tree1, files)
  <2>1. CanAdd(ltree, u.p)
    BY <1>1, <1>6 DEF CanOpen, Is
  <2>2. Append(trace, made) \in Seq(Records)
    BY <1>1, <1>2, AppendAt
  <2>3. ASSUME ~hidden PROVE Recorded(Append(trace, made), tree1, files)
    <3>1. Recorded(trace, ltree, files)
      BY <2>3 DEF RecordInv
    <3>2. ASSUME NEW s, FaithfulNext(trace, made), Matches(trace, ltree, files, s)
          PROVE  StepRecord(s, made, s) /\ Matches(Append(trace, made), tree1, files, s)
      BY <1>1, <1>2, <1>3, <2>1, <3>2, CreateMatches
    <3> HIDE DEF tree1
    <3> QED BY <1>1, <1>2, <3>1, <3>2, RecordedExtends
  <2> QED BY <2>1, <2>2, <2>3
<1>11. mid \in Seq(Records) /\ new \in Seq(Records) /\ trace \o new = mid
  <2>1. CASE there
    BY <1>1, <2>1
  <2>2. CASE ~there
    <3>1. new = <<made>> /\ mid = Append(trace, made)
      BY <2>2
    <3>2. trace \o <<made>> = Append(trace, made) /\ <<made>> \in Seq(Records)
      BY <1>1, <1>2
    <3> QED BY <1>6, <2>2, <3>1, <3>2
  <2> QED BY <2>1, <2>2
(* The trace with the record of an open that has succeeded, and the file.    *)
<1>12. ASSUME ~hidden PROVE Recorded(Append(mid, r), tree2, files2)
  <2>1. CASE there
    <3>1. mid = trace /\ Recorded(trace, ltree, files)
      BY <1>12, <2>1 DEF RecordInv
    <3>2. ASSUME NEW s, FaithfulNext(trace, r), Matches(trace, ltree, files, s)
          PROVE  \E t : StepRecord(s, r, t) /\ Matches(Append(trace, r), tree2, files2, t)
      BY <1>1, <1>2, <1>3, <1>4, <3>2, OpenMatches
    <3> HIDE DEF tree2, files2
    <3> QED BY <1>1, <1>2, <3>1, <3>2, RecordedExtends
  <2>2. CASE ~there
    <3>1. Is(tree1, u.p, "file") /\ Opened(tree1, u.p, r) = tree1
      BY <1>1, OpenedFresh
    <3>2. tree2 = tree1 /\ tree1 \in Trees
      <4>1. tree2 = tree1
        BY <2>2 DEF Opened
      <4> QED BY <1>1, <4>1, OpenedType DEF Grown
    <3>3. CanOpen(tree1, u.p, r) /\ tree2 = Opened(tree1, u.p, r)
      BY <3>1, <3>2 DEF CanOpen
    <3>4. Recorded(mid, tree1, files)
      BY <1>6, <1>12, <2>2
    <3> HIDE DEF mid, tree1, tree2
    <3>5. ASSUME NEW s, FaithfulNext(mid, r), Matches(mid, tree1, files, s)
          PROVE  \E t : StepRecord(s, r, t) /\ Matches(Append(mid, r), tree2, files2, t)
      BY <1>1, <1>2, <1>3, <1>11, <3>2, <3>3, <3>5, OpenMatches
    <3> HIDE DEF files2
    <3> QED BY <1>2, <1>11, <3>4, <3>5, RecordedExtends
  <2> QED BY <2>1, <2>2
<1>7. CASE /\ ltree' = Opened(ltree, u.p, u)
           /\ files' = [files EXCEPT ![u.h] = [ino |-> ltree'.name[u.p], pos |-> 0]]
           /\ Calling(Append(new, r)) /\ UNCHANGED hidden
  <2>1. ltree' = tree2 /\ files' = files2
    BY <1>7
  <2>2. trace' = Append(mid, r)
    <3>1. CASE there
      <4>1. Append(new, r) = <<r>> /\ mid = trace
        BY <3>1
      <4> QED BY <1>2, <1>7, <4>1, CallRecords
    <3>2. CASE ~there
      <4>1. new = <<made>> /\ mid = Append(trace, made)
        BY <3>2
      <4>2. Append(new, r) = <<made, r>>
        BY <1>2, <4>1, TwoRecords
      <4> QED BY <1>2, <1>7, <4>1, <4>2, CallRecords
    <3> QED BY <3>1, <3>2
  <2> HIDE DEF mid, tree2, files2
  <2> QED BY <1>7, <1>12, <2>1, <2>2 DEF RecordInv
(* The file that is given up is one that is opened and closed.               *)
<1>13. CASE /\ ltree' = IF there THEN ltree ELSE Add(ltree, u.p, "file")
            /\ Calling(new \o <<r, rel>>) /\ hidden' = (hidden \/ (there /\ u.trunc))
            /\ UNCHANGED files
  <2> SUFFICES ASSUME ~hidden, ~(there /\ u.trunc) PROVE Recorded(trace', ltree', files')
    BY <1>13 DEF RecordInv
  <2>1. ltree' = tree2
    BY <1>13 DEF Opened
  <2>2. trace' = Append(Append(mid, r), rel)
    <3> HIDE DEF new, mid
    <3>1. trace' = trace \o (new \o <<r, rel>>)
      BY <1>13 DEF Calling
    <3>2. trace \o (new \o <<r, rel>>) = Append(Append(trace \o new, r), rel)
      BY <1>1, <1>2, <1>11, ConcatTwo
    <3> QED BY <1>11, <3>1, <3>2
  <2>3. files2 \in [Handles -> Slots] /\ files2[u.h] # Closed
    <3>1. tree2 \in Trees
      BY <1>1, OpenedType DEF Grown
    <3>2. tree2.name[u.p] \in Nat
      BY <1>1, <3>1, TreeParts
    <3>3. tree2.name[u.p] # 0
      <4>1. CASE there
        BY <2>1, <4>1, <1>13 DEF Exists
      <4>2. CASE ~there
        <5>1. Is(tree1, u.p, "file") /\ tree2 = tree1
          BY <1>1, <4>2, OpenedFresh DEF Opened
        <5> QED BY <5>1 DEF Is, Exists
      <4> QED BY <4>1, <4>2
    <3> DEFINE slot == [ino |-> tree2.name[u.p], pos |-> 0]
    <3>4. slot \in Slots /\ slot # Closed
      BY <3>2, <3>3, ClosedType DEF Slots
    <3> HIDE DEF slot
    <3>5. files2 = [files EXCEPT ![u.h] = slot]
      BY DEF slot
    <3> QED BY <1>1, <3>4, <3>5
  <2>4. files' = [files2 EXCEPT ![u.h] = Closed]
    BY <1>1, <1>13
  <2>5. Append(mid, r) \in Seq(Records)
    <3> HIDE DEF mid
    <3> QED BY <1>2, <1>11, AppendAt
  <2> DEFINE opened == Append(mid, r)
  <2>6. Recorded(opened, tree2, files2)
    BY <1>12
  <2>7. opened \in Seq(Records)
    BY <2>5
  <2> HIDE DEF opened, tree2, files2
  <2>8. ASSUME NEW s, FaithfulNext(opened, rel), Matches(opened, tree2, files2, s)
        PROVE  \E t : StepRecord(s, rel, t) /\ Matches(Append(opened, rel), tree2, files', t)
    BY <1>1, <1>2, <1>3, <2>3, <2>4, <2>7, <2>8, ReleaseMatches
  <2>9. Recorded(Append(opened, rel), tree2, files')
    BY <1>2, <2>6, <2>7, <2>8, RecordedExtends
  <2> QED BY <2>1, <2>2, <2>9 DEF opened
<1>8. CASE Calling(<<failed>>) /\ UNCHANGED <<ltree, files, hidden>>
  <2>1. trace' = Append(trace, failed)
    BY <1>2, <1>8, CallRecords
  <2>2. ~FaithfulNext(trace, failed)
    BY <1>3, <1>5 DEF FaithfulNext
  <2> QED BY <1>2, <1>8, <2>1, <2>2, UnfaithfulRecord
<1>9. CASE /\ ltree' = IF there THEN ltree ELSE Add(ltree, u.p, "file")
           /\ Calling(new)
           /\ UNCHANGED <<files, hidden>>
  <2>1. CASE there
    <3>1. new = <<>> /\ ltree' = ltree
      BY <1>9, <2>1
    <3>2. trace' = trace
      BY <1>9, <3>1, CallRecords
    <3> QED BY <1>9, <3>1, <3>2 DEF RecordInv
  <2>2. CASE ~there
    <3>1. new = <<made>> /\ ltree' = tree1
      BY <1>9, <2>2
    <3>2. trace' = Append(trace, made)
      BY <1>2, <1>9, <3>1, CallRecords
    <3>3. ~hidden => Recorded(Append(trace, made), tree1, files)
      BY <1>6, <2>2
    <3> QED BY <1>9, <3>1, <3>2, <3>3 DEF RecordInv
  <2> QED BY <2>1, <2>2
<1>10. CASE /\ ltree' = IF there THEN ltree ELSE Add(ltree, u.p, "file")
            /\ Calling(Append(new, bad))
            /\ UNCHANGED <<files, hidden>>
  <2>1. CASE there
    <3>1. Append(new, bad) = <<bad>>
      BY <2>1
    <3>2. trace' = Append(trace, bad)
      BY <1>2, <1>10, <3>1, CallRecords
    <3>3. ~FaithfulNext(trace, bad)
      BY <1>3, <1>5 DEF FaithfulNext
    <3> QED BY <1>2, <1>10, <3>2, <3>3, UnfaithfulRecord
  <2>2. CASE ~there
    <3>1. Append(new, bad) = <<made, bad>>
      <4>1. new = <<made>>
        BY <2>2
      <4> QED BY <1>2, <4>1, TwoRecords
    <3>2. mid = Append(trace, made) /\ trace' = Append(mid, bad)
      BY <1>2, <1>10, <2>2, <3>1, CallRecords
    <3>3. mid \in Seq(Records) /\ (~hidden => Recorded(mid, tree1, files))
      BY <1>6, <2>2, <3>2
    <3>4. ~FaithfulNext(mid, bad)
      BY <1>3, <1>5 DEF FaithfulNext
    <3> HIDE DEF mid, tree1
    <3>5. ~hidden => Recorded(Append(mid, bad), ltree', files')
      BY <1>2, <3>3, <3>4, RecordedExtends
    <3> QED BY <1>10, <3>2, <3>5 DEF RecordInv
  <2> QED BY <2>1, <2>2
<1> QED BY <1>7, <1>8, <1>9, <1>10, <1>13
      DEF UserOpen, new, there, made, failed, r, bad, rel

LEMMA UserReadRecorded ==
  ASSUME TypeInv, RecordInv, NEW u \in menu.calls, UserRead(u)
  PROVE  RecordInv'
<1>1. /\ UsersOK /\ u.p \in Paths /\ u.h \in Handles /\ files \in [Handles -> Slots]
      /\ trace \in Seq(Records) /\ files[u.h] # Closed /\ UNCHANGED <<ltree, hidden>>
  BY CallType DEF TypeInv, UsersOK, PlaceOK, UserRead, IsOpen
<1>2. "read" \in RecordOps \ TwoPaths /\ 0 \in -2 .. 1 /\ 1 \in -2 .. 1 /\ Fail \in -2 .. 1
  BY DEF RecordOps, Ops, TwoPaths, Fail
<1>3. ASSUME NEW n \in Nat, NEW err \in -2 .. 1, n = 0 \/ n = err,
             files' = [files EXCEPT ![u.h].pos = @ + n], Calling(<<One("read", err, u.p)>>)
      PROVE  RecordInv'
  <2> DEFINE r == One("read", err, u.p)
  <2>1. r \in Records /\ r.op = "read" /\ r.err = err
    <3>1. r \in Records
      BY <1>1, <1>2, OneType
    <3> QED BY <3>1, RecFields
  <2>2. trace' = Append(trace, r)
    BY <1>3, <2>1, CallRecords
  <2> HIDE DEF r
  <2>3. ASSUME NEW s, FaithfulNext(trace, r), Matches(trace, ltree, files, s)
        PROVE  StepRecord(s, r, s) /\ Matches(Append(trace, r), ltree', files', s)
    BY <1>1, <1>3, <2>1, <2>3, ReadMatches
  <2> QED BY <1>1, <2>1, <2>2, <2>3, OneRecord
<1>4. CASE Calling(<<One("read", Fail, u.p)>>) /\ UNCHANGED files
  <2>1. files[u.h].pos \in Nat
    BY <1>1 DEF Slots
  <2>2. files' = [files EXCEPT ![u.h].pos = @ + 0]
    <3>1. [files[u.h] EXCEPT !.pos = files[u.h].pos + 0] = files[u.h]
      BY <1>1, <2>1 DEF Slots
    <3>2. [files EXCEPT ![u.h].pos = @ + 0]
            = [files EXCEPT ![u.h] = [files[u.h] EXCEPT !.pos = files[u.h].pos + 0]]
      OBVIOUS
    <3>3. [files EXCEPT ![u.h] = files[u.h]] = files
      BY <1>1
    <3> QED BY <1>4, <3>1, <3>2, <3>3
  <2> QED BY <1>2, <1>3, <1>4, <2>2
<1>5. CASE ~(Calling(<<One("read", Fail, u.p)>>) /\ UNCHANGED files)
  <2> DEFINE n == IF files[u.h].pos < Len(ltree.node[files[u.h].ino].data) THEN 1 ELSE 0
  <2>1. /\ files' = [files EXCEPT ![u.h].pos = @ + n]
        /\ Calling(<<One("read", n, u.p)>>)
    BY <1>5 DEF UserRead
  <2>2. n \in Nat /\ n \in -2 .. 1
    OBVIOUS
  <2> HIDE DEF n
  <2> QED BY <1>3, <2>1, <2>2
<1> QED BY <1>4, <1>5

LEMMA UserCloseRecorded ==
  ASSUME TypeInv, RecordInv, NEW u \in menu.calls, UserClose(u)
  PROVE  RecordInv'
<1> DEFINE r == One("release", 0, u.p)
<1>1. /\ u.p \in Paths /\ u.h \in Handles /\ files \in [Handles -> Slots]
      /\ trace \in Seq(Records) /\ files[u.h] # Closed /\ UNCHANGED <<ltree, hidden>>
      /\ files' = [files EXCEPT ![u.h] = Closed] /\ Calling(<<r>>)
  BY CallType DEF TypeInv, UsersOK, PlaceOK, UserClose, IsOpen
<1>2. r \in Records /\ r.op = "release" /\ r.err = 0
  <2>1. "release" \in RecordOps \ TwoPaths /\ 0 \in -2 .. 1
    BY DEF RecordOps, TwoPaths
  <2>2. r \in Records
    BY <1>1, <2>1, OneType
  <2> QED BY <2>2, RecFields
<1>3. trace' = Append(trace, r)
  BY <1>1, <1>2, CallRecords
<1> HIDE DEF r
<1>4. ASSUME NEW s, FaithfulNext(trace, r), Matches(trace, ltree, files, s)
      PROVE  \E t : StepRecord(s, r, t) /\ Matches(Append(trace, r), ltree', files', t)
  BY <1>1, <1>2, <1>4, ReleaseMatches
<1> QED BY <1>1, <1>2, <1>3, <1>4, OneRecord

LEMMA UserWriteRecorded ==
  ASSUME TypeInv, RecordInv, NEW u \in menu.calls, UserWrite(u)
  PROVE  RecordInv'
<1>1. /\ UsersOK /\ u.p \in Paths /\ u.h \in Handles /\ u.c \in Contents /\ ltree \in Trees
      /\ files \in [Handles -> Slots] /\ trace \in Seq(Records) /\ files[u.h] # Closed
      /\ files[u.h].ino \in 0 .. Len(ltree.node)
  BY CallType DEF TypeInv, UsersOK, PlaceOK, UserWrite, IsOpen
<1>2. CASE PutData(u) /\ Calling(<<WriteRec(1, u.p, u.c)>>) /\ UNCHANGED hidden
  <2> DEFINE r == WriteRec(1, u.p, u.c)
  <2>1. r \in Records
    <3>1. 1 \in -2 .. 1
      OBVIOUS
    <3> QED BY <1>1, <3>1, WriteRecType
  <2>2. r.op = "write" /\ r.err = 1 /\ r.len = 1 /\ r.content = u.c
    <3>1. 1 > 0
      OBVIOUS
    <3> QED BY <3>1, WriteRecFields
  <2>3. trace' = Append(trace, r)
    BY <1>2, <2>1, CallRecords
  <2> HIDE DEF r
  <2>4. /\ ltree' = Written(ltree, files[u.h].ino, files[u.h].pos, r.content)
        /\ files' = [files EXCEPT ![u.h].pos = @ + 1]
    BY <1>2, <2>2 DEF PutData
  <2>5. ASSUME NEW s, FaithfulNext(trace, r), Matches(trace, ltree, files, s)
        PROVE  \E t : StepRecord(s, r, t) /\ Matches(Append(trace, r), ltree', files', t)
    BY <1>1, <2>1, <2>2, <2>4, <2>5, WriteMatches
  <2> QED BY <1>2, <2>1, <2>3, <2>5, OneRecord
<1>3. CASE hidden' = TRUE
  BY <1>3 DEF RecordInv
<1>4. CASE /\ \E err \in {0} \cup (IF Failing THEN {Fail} ELSE {}) :
                Calling(<<WriteRec(err, u.p, u.c)>>)
           /\ UNCHANGED <<ltree, files, hidden>>
  <2>1. PICK err \in {0} \cup (IF Failing THEN {Fail} ELSE {}) :
          Calling(<<WriteRec(err, u.p, u.c)>>)
    BY <1>4
  <2>2. err \in -2 .. 1 /\ ~(err > 0)
    BY DEF Fail
  <2> DEFINE r == WriteRec(err, u.p, u.c)
  <2>3. r \in Records /\ r.op = "write" /\ r.err = err
    BY <1>1, <2>2, WriteRecType, WriteRecFields
  <2>4. trace' = Append(trace, r)
    BY <2>1, <2>3, CallRecords
  <2> HIDE DEF r
  <2>5. ~FaithfulNext(trace, r)
    BY <2>2, <2>3 DEF FaithfulNext
  <2> QED BY <1>4, <2>3, <2>4, <2>5, UnfaithfulRecord
<1> QED BY <1>2, <1>3, <1>4 DEF UserWrite

(* The calls on names: create makes a file the open will find, mknod, mkdir, *)
(* unlink and rmdir are steps, link, rename and symlink are not faithful.    *)
LEMMA OnNameRecorded ==
  ASSUME TypeInv, RecordInv, NEW u \in menu.calls, NEW op, NEW can, NEW tree,
         NEW r \in Records, OnName(u, op, can, tree, r),
         \/ r.op = "create" /\ r.err = 0 /\ CanAdd(ltree, r.p1) /\ tree = Add(ltree, r.p1, "file")
         \/ r.err = 0 /\ NameStep(r, ltree, tree)
         \/ ~FaithfulNext(trace, r)
  PROVE  RecordInv'
<1>1. /\ trace \in Seq(Records) /\ UNCHANGED <<files, hidden>> /\ ltree' = tree
      /\ Calling(<<r>>)
  BY DEF TypeInv, PlaceOK, OnName
<1>2. trace' = Append(trace, r)
  BY <1>1, CallRecords
<1>3. CASE r.op = "create" /\ CanAdd(ltree, r.p1) /\ tree = Add(ltree, r.p1, "file")
  <2>1. ASSUME NEW s, FaithfulNext(trace, r), Matches(trace, ltree, files, s)
        PROVE  StepRecord(s, r, s) /\ Matches(Append(trace, r), ltree', files', s)
    BY <1>1, <1>3, <2>1, CreateMatches
  <2> QED BY <1>1, <1>2, <2>1, OneRecord
<1>4. CASE r.err = 0 /\ NameStep(r, ltree, tree)
  <2>1. ASSUME NEW s, FaithfulNext(trace, r), Matches(trace, ltree, files, s)
        PROVE  \E t : StepRecord(s, r, t) /\ Matches(Append(trace, r), ltree', files', t)
    BY <1>1, <1>4, <2>1, NameMatches
  <2> QED BY <1>1, <1>2, <2>1, OneRecord
<1>5. CASE ~FaithfulNext(trace, r)
  BY <1>1, <1>2, <1>5, UnfaithfulRecord
<1> QED BY <1>3, <1>4, <1>5

LEMMA UserNamesRecorded ==
  ASSUME TypeInv, RecordInv, NEW u \in menu.calls, UserNames(u)
  PROVE  RecordInv'
<1>1. u.p \in Paths
  BY CallType DEF TypeInv
<1>2. ASSUME NEW op \in {"create", "mknod", "mkdir", "unlink", "rmdir"}, NEW err \in {0, Fail}
      PROVE  /\ One(op, err, u.p) \in Records /\ One(op, err, u.p).op = op
             /\ One(op, err, u.p).err = err /\ One(op, err, u.p).p1 = u.p
  <2>1. op \in RecordOps \ TwoPaths /\ err \in -2 .. 1
    BY DEF RecordOps, Ops, TwoPaths, Fail
  <2>2. One(op, err, u.p) \in Records
    BY <1>1, <2>1, OneType
  <2> QED BY <2>2, RecFields
<1>3. CASE OnName(u, "creat", CanAdd(ltree, u.p), Add(ltree, u.p, "file"), One("create", 0, u.p))
  <2> DEFINE r == One("create", 0, u.p)
  <2>1. r \in Records /\ r.op = "create" /\ r.err = 0 /\ r.p1 = u.p
    BY <1>2
  <2> HIDE DEF r
  <2>2. OnName(u, "creat", CanAdd(ltree, u.p), Add(ltree, u.p, "file"), r)
    BY <1>3 DEF r
  <2>3. CanAdd(ltree, u.p)
    BY <2>2 DEF OnName
  <2> QED BY <2>1, <2>2, <2>3, OnNameRecorded
<1>4. CASE OnName(u, "creat", Failing /\ CanAdd(ltree, u.p), ltree, One("create", Fail, u.p))
  <2> DEFINE r == One("create", Fail, u.p)
  <2>1. r \in Records /\ r.op = "create" /\ r.err = Fail
    BY <1>2
  <2> HIDE DEF r
  <2>2. ~FaithfulNext(trace, r)
    BY <2>1 DEF FaithfulNext, Fail
  <2>3. OnName(u, "creat", Failing /\ CanAdd(ltree, u.p), ltree, r)
    BY <1>4 DEF r
  <2> QED BY <2>1, <2>2, <2>3, OnNameRecorded
<1>5. ASSUME NEW op \in {"mknod", "mkdir", "unlink", "rmdir"}, NEW can, NEW tree,
             OnName(u, op, can, tree, One(op, 0, u.p)),
             \/ op = "unlink" /\ CanUnlink(ltree, u.p) /\ tree = Remove(ltree, u.p)
             \/ op = "rmdir" /\ CanRmdir(ltree, u.p) /\ tree = Remove(ltree, u.p)
             \/ op = "mkdir" /\ CanAdd(ltree, u.p) /\ tree = Add(ltree, u.p, "dir")
             \/ op = "mknod" /\ CanAdd(ltree, u.p) /\ tree = Add(ltree, u.p, "node")
      PROVE  RecordInv'
  <2> DEFINE r == One(op, 0, u.p)
  <2>1. r \in Records /\ r.op = op /\ r.err = 0 /\ r.p1 = u.p
    BY <1>2
  <2> HIDE DEF r
  <2>2. OnName(u, op, can, tree, r)
    BY <1>5 DEF r
  <2>3. NameStep(r, ltree, tree)
    BY <1>5, <2>1 DEF NameStep
  <2> QED BY <2>1, <2>2, <2>3, OnNameRecorded
<1>6. CASE OnName(u, "mknod", CanAdd(ltree, u.p), Add(ltree, u.p, "node"), One("mknod", 0, u.p))
  <2>1. CanAdd(ltree, u.p)
    BY <1>6 DEF OnName
  <2> QED BY <1>5, <1>6, <2>1
<1>7. CASE OnName(u, "mkdir", CanAdd(ltree, u.p), Add(ltree, u.p, "dir"), One("mkdir", 0, u.p))
  <2>1. CanAdd(ltree, u.p)
    BY <1>7 DEF OnName
  <2> QED BY <1>5, <1>7, <2>1
<1>8. CASE OnName(u, "unlink", CanUnlink(ltree, u.p), Remove(ltree, u.p), One("unlink", 0, u.p))
  <2>1. CanUnlink(ltree, u.p)
    BY <1>8 DEF OnName
  <2> QED BY <1>5, <1>8, <2>1
<1>9. CASE OnName(u, "rmdir", CanRmdir(ltree, u.p), Remove(ltree, u.p), One("rmdir", 0, u.p))
  <2>1. CanRmdir(ltree, u.p)
    BY <1>9 DEF OnName
  <2> QED BY <1>5, <1>9, <2>1
<1>10. CASE Unrecorded(u, "mknod", CanAdd(ltree, u.p), Add(ltree, u.p, "node"))
  BY <1>10 DEF Unrecorded, RecordInv
<1> QED BY <1>3, <1>4, <1>6, <1>7, <1>8, <1>9, <1>10 DEF UserNames

LEMMA UserTwoNamesRecorded ==
  ASSUME TypeInv, RecordInv, NEW u \in menu.calls, UserTwoNames(u)
  PROVE  RecordInv'
<1>1. u.p \in Paths /\ u.q \in Paths /\ Clobbered(u.p, u.q) \in Paths
  BY CallType, ClobberedType DEF TypeInv
<1>2. ASSUME NEW op \in {"link", "rename", "symlink"}, NEW p \in Paths, NEW can, NEW tree,
             OnName(u, op, can, tree, Rec(op, 0, p, u.q))
      PROVE  RecordInv'
  <2> DEFINE r == Rec(op, 0, p, u.q)
  <2>1. r \in Records
    <3>1. op \in RecordOps /\ 0 \in -2 .. 1
      BY DEF RecordOps, Ops
    <3> QED BY <1>1, <3>1, RecType
  <2>2. r.op = op
    BY RecFields
  <2> HIDE DEF r
  <2>3. ~FaithfulNext(trace, r)
    BY <2>2 DEF FaithfulNext
  <2>4. OnName(u, op, can, tree, r)
    BY <1>2 DEF r
  <2> QED BY <2>1, <2>3, <2>4, OnNameRecorded
<1>3. CASE OnName(u, "link", CanLink(ltree, u.p, u.q), Link(ltree, u.p, u.q),
                  Rec("link", 0, Clobbered(u.p, u.q), u.q))
  BY <1>1, <1>2, <1>3
<1>4. CASE OnName(u, "rename", CanRename(ltree, u.p, u.q), Rename(ltree, u.p, u.q),
                  Rec("rename", 0, Clobbered(u.p, u.q), u.q))
  BY <1>1, <1>2, <1>4
<1>5. CASE OnName(u, "symlink", CanAdd(ltree, u.p), Add(ltree, u.p, "symlink"),
                  Rec("symlink", 0, u.p, u.q))
  BY <1>1, <1>2, <1>5
<1>6. CASE \/ Unrecorded(u, "link", CanLink(ltree, u.p, u.q), Link(ltree, u.p, u.q))
           \/ Unrecorded(u, "symlink", CanAdd(ltree, u.p), Add(ltree, u.p, "symlink"))
  BY <1>6 DEF Unrecorded, RecordInv
<1> QED BY <1>3, <1>4, <1>5, <1>6 DEF UserTwoNames

LEMMA UserCallRecorded ==
  ASSUME TypeInv, RecordInv, UserCall
  PROVE  RecordInv'
<1>1. PICK u \in menu.calls :
        \/ UserOpen(u) \/ UserRead(u) \/ UserWrite(u) \/ UserUntraced(u) \/ UserClose(u)
        \/ UserNames(u) \/ UserTwoNames(u)
  BY DEF UserCall
<1>2. CASE UserUntraced(u)
  BY <1>2 DEF UserUntraced, RecordInv
<1> QED BY <1>1, <1>2, UserOpenRecorded, UserReadRecorded, UserWriteRecorded,
       UserCloseRecorded, UserNamesRecorded, UserTwoNamesRecorded

(***************************************************************************)
(* treplay follows the machine.                                            *)
(***************************************************************************)
LEMMA ReplayableFaithful ==
  ASSUME trace \in Seq(Records), Replayable
  PROVE  FaithfulSoFar(trace) /\ ~Pending(trace) /\ ~hidden
<1>1. Len(trace) \in Nat /\ DOMAIN trace = 1 .. Len(trace)
  OBVIOUS
<1>2. ~hidden /\ \A i \in 1 .. Len(trace) : Faithful(i)
  BY <1>1 DEF Replayable
<1>3. FaithfulSoFar(trace)
  BY <1>2 DEF Faithful, FaithfulSoFar, IsOp, Session, SessionOf
<1>4. ~Pending(trace)
  <2> SUFFICES ASSUME trace # <<>>, trace[Len(trace)].op = "create" PROVE FALSE
    BY DEF Pending, Last
  <2>1. Len(trace) \in 1 .. Len(trace)
    BY <1>1, EmptySeq
  <2>2. Len(trace) < Len(trace)
    BY <1>2, <2>1 DEF Faithful, IsOp
  <2> QED BY <1>1, <2>2
<1> QED BY <1>2, <1>3, <1>4

(* treplay changes neither the trace nor the history of what it hides.       *)
LEMMA ReplayableKept ==
  ASSUME UNCHANGED <<trace, hidden>>
  PROVE  Replayable' = Replayable
BY DEF Replayable, Faithful, Session, IsOp

(* One record further, in the machine's next state, with the result that was *)
(* recorded unless the record is one of a create or of a read.               *)
Follows(t) ==
  /\ AtState(t)' /\ k' = k + 1
  /\ \/ deviated' = deviated
     \/ deviated' \subseteq deviated \cup {k} /\ trace[k].op \in {"create", "read"}

(* The descriptor of the one open file.                                      *)
LEMMA FdOpen ==
  ASSUME TypeInv, NEW s, AtState(s), s.slot # Closed
  PROVE  fd \in 1 .. MaxFds /\ fdtab[fd] = s.slot /\ HasFd
<1>1. fd \in 0 .. MaxFds /\ fd # 0
  BY DEF TypeInv, DescriptorsOK, AtState
<1>2. fd \in 1 .. MaxFds
  BY <1>1, ReplayAssumption
<1> QED BY <1>1, <1>2 DEF AtState, HasFd

LEMMA FollowsOpen ==
  ASSUME TypeInv, ReplayOpen, path1 = trace[k].p1, NEW s, NEW t, AtState(s),
         StepRecord(s, trace[k], t)
  PROVE  Follows(t)
<1>1. trace[k].op = "open"
  BY DEF ReplayOpen, Replaying
<1>2. /\ trace[k].err = 0 /\ s.slot = Closed /\ CanOpen(rtree, path1, trace[k])
      /\ t.tree = Opened(rtree, path1, trace[k])
      /\ t.slot = [ino |-> t.tree.name[path1], pos |-> 0]
  BY <1>1 DEF StepRecord, StepFile, StepName, NameStep, AtState
<1>3. \A n \in 1 .. MaxFds : fdtab[n] = Closed
  BY <1>2 DEF AtState
<1>4. HasFree /\ Free \in 1 .. MaxFds
  <2>1. 1 \in 1 .. MaxFds
    BY ReplayAssumption
  <2> QED BY <1>3, <2>1, FreeType DEF HasFree
<1>5. /\ rtree' = Opened(rtree, path1, trace[k]) /\ fdtab' = NewFd(rtree', path1)
      /\ fd' = Free /\ Done(0, FALSE)
  BY <1>2, <1>4 DEF ReplayOpen
<1>6. fdtab' = [fdtab EXCEPT ![Free] = t.slot]
  BY <1>2, <1>5 DEF NewFd
<1>7. \A n \in 1 .. MaxFds : fdtab'[n] = IF n = fd' THEN t.slot ELSE Closed
  <2>1. fdtab \in [1 .. MaxFds -> Slots]
    BY DEF TypeInv, DescriptorsOK
  <2> QED BY <1>3, <1>4, <1>5, <1>6, <2>1
<1>8. fd' # 0
  BY <1>4, <1>5
<1>9. AtState(t)'
  BY <1>2, <1>5, <1>7, <1>8 DEF AtState
<1> QED BY <1>2, <1>5, <1>9 DEF Follows, Done

(* create finds no file, and read reads nothing.                             *)
LEMMA FollowsCreate ==
  ASSUME TypeInv, ReplayCreate \/ ReplayRead, path1 = trace[k].p1, NEW s, NEW t, AtState(s),
         StepRecord(s, trace[k], t)
  PROVE  Follows(t)
<1>1. CASE ReplayCreate
  <2>1. trace[k].op = "create"
    BY <1>1 DEF ReplayCreate, Replaying
  <2>2. CanAdd(rtree, path1) /\ t = s
    BY <2>1 DEF StepRecord, StepFile, StepName, NameStep, AtState
  <2>3. ~Is(rtree, path1, "file")
    BY <2>2 DEF CanAdd, Is
  <2>4. UNCHANGED <<rtree, fdtab, fd>> /\ Compare(-1)
    BY <1>1, <2>3 DEF ReplayCreate
  <2>5. AtState(t)'
    BY <2>2, <2>4 DEF AtState
  <2> QED BY <2>1, <2>4, <2>5 DEF Follows, Compare, Done
<1>2. CASE ReplayRead
  <2>1. trace[k].op = "read"
    BY <1>2 DEF ReplayRead, Replaying
  <2>2. t = s
    BY <2>1 DEF StepRecord, StepFile, StepName, NameStep
  <2>3. UNCHANGED <<rtree, fdtab, fd>> /\ \E errval : Compare(errval)
    BY <1>2 DEF ReplayRead
  <2>4. AtState(t)'
    BY <2>2, <2>3 DEF AtState
  <2> QED BY <2>1, <2>3, <2>4 DEF Follows, Compare, Done
<1> QED BY <1>1, <1>2

LEMMA FollowsWrite ==
  ASSUME TypeInv, ReplayWrite, content = trace[k].content, NEW s, NEW t, AtState(s),
         StepRecord(s, trace[k], t)
  PROVE  Follows(t)
<1>1. trace[k].op = "write"
  BY DEF ReplayWrite, Replaying
<1>2. /\ trace[k].err = 1 /\ content \in Contents /\ s.slot # Closed
      /\ t.tree = Written(rtree, s.slot.ino, s.slot.pos, content)
      /\ t.slot = [s.slot EXCEPT !.pos = @ + 1]
  BY <1>1 DEF StepRecord, StepFile, StepName, NameStep, AtState
<1>3. fd \in 1 .. MaxFds /\ fdtab[fd] = s.slot /\ HasFd
  BY <1>2, FdOpen
<1>4. content # NoContent /\ content # Garbled
  BY <1>2, ReplayAssumption
<1>5. /\ rtree' = Written(rtree, fdtab[fd].ino, fdtab[fd].pos, content)
      /\ fdtab' = [fdtab EXCEPT ![fd].pos = @ + 1]
      /\ Compare(IF content = Garbled THEN 2 ELSE 1)
      /\ fd' = fd
  BY <1>3, <1>4 DEF ReplayWrite
<1>6. rtree' = t.tree /\ Compare(1)
  BY <1>2, <1>3, <1>4, <1>5
<1>7. \A n \in 1 .. MaxFds : fdtab'[n] = IF n = fd' THEN t.slot ELSE Closed
  <2>1. fdtab \in [1 .. MaxFds -> Slots]
    BY DEF TypeInv, DescriptorsOK
  <2>2. fdtab' = [fdtab EXCEPT ![fd] = [fdtab[fd] EXCEPT !.pos = @ + 1]]
    BY <1>5
  <2>3. fdtab' = [fdtab EXCEPT ![fd] = t.slot]
    BY <1>2, <1>3, <2>2
  <2> QED BY <1>3, <1>5, <2>1, <2>3 DEF AtState
<1>8. AtState(t)'
  BY <1>3, <1>5, <1>6, <1>7 DEF AtState
<1> QED BY <1>2, <1>6, <1>8 DEF Follows, Compare, Done

LEMMA FollowsRelease ==
  ASSUME TypeInv, ReplayRelease, NEW s, NEW t, AtState(s), StepRecord(s, trace[k], t)
  PROVE  Follows(t)
<1>1. trace[k].op = "release"
  BY DEF ReplayRelease, Replaying
<1>2. trace[k].err = 0 /\ s.slot # Closed /\ t.tree = s.tree /\ t.slot = Closed
  BY <1>1 DEF StepRecord, StepFile, StepName, NameStep
<1>3. fd \in 1 .. MaxFds /\ HasFd
  BY <1>2, FdOpen
<1>4. /\ fdtab' = [fdtab EXCEPT ![fd] = Closed] /\ Compare(0) /\ UNCHANGED <<rtree, fd>>
  BY <1>3 DEF ReplayRelease
<1>5. \A n \in 1 .. MaxFds : fdtab'[n] = Closed
  <2>1. fdtab \in [1 .. MaxFds -> Slots]
    BY DEF TypeInv, DescriptorsOK
  <2> QED BY <1>3, <1>4, <2>1 DEF AtState
<1>6. AtState(t)'
  BY <1>2, <1>4, <1>5 DEF AtState
<1> QED BY <1>2, <1>4, <1>6 DEF Follows, Compare, Done

(* A name the users could use can be used again.                             *)
LEMMA FollowsName ==
  ASSUME ReplayUnlink \/ ReplayRmdir \/ ReplayMkdir \/ ReplayMknod,
         path1 = trace[k].p1, NEW s, NEW t, AtState(s), StepRecord(s, trace[k], t)
  PROVE  Follows(t)
<1>1. trace[k].op \in {"unlink", "rmdir", "mkdir", "mknod"}
  BY DEF ReplayUnlink, ReplayRmdir, ReplayMkdir, ReplayMknod, OnNames, Replaying
<1>2. trace[k].err = 0 /\ t.slot = s.slot /\ NameStep(trace[k], rtree, t.tree)
  BY <1>1 DEF StepRecord, StepFile, StepName, AtState
<1>3. rtree' = t.tree /\ Compare(0) /\ UNCHANGED <<fdtab, fd>>
  BY <1>2 DEF ReplayUnlink, ReplayRmdir, ReplayMkdir, ReplayMknod, OnNames, Replaying, NameStep
<1>4. AtState(t)'
  BY <1>2, <1>3 DEF AtState
<1> QED BY <1>2, <1>3, <1>4 DEF Follows, Compare, Done

LEMMA FollowsStep ==
  ASSUME TypeInv, GotInv, Replayable, replay_record, NEW s, NEW t, AtState(s),
         StepRecord(s, trace[k], t)
  PROVE  Follows(t)
<1>1. pc = "got"
  BY ReplayedOrCrashed
<1>2. path1 = trace[k].p1 /\ (trace[k].op = "write" => content = trace[k].content)
  BY <1>1 DEF GotInv
<1>3. CASE ReplayWrite
  <2>1. trace[k].op = "write"
    BY <1>3 DEF ReplayWrite, Replaying
  <2> QED BY <1>2, <1>3, <2>1, FollowsWrite
<1>4. CASE ReplayLink \/ ReplayRename \/ ReplaySymlink
  <2>1. trace[k].op \in {"link", "rename", "symlink"}
    BY <1>4 DEF ReplayLink, ReplayRename, ReplaySymlink, OnNames, Replaying
  <2> QED BY <2>1 DEF StepRecord, StepFile, StepName, NameStep
<1> QED BY <1>2, <1>3, <1>4, FollowsOpen, FollowsCreate, FollowsRelease, FollowsName
       DEF replay_record

(* A trace that can be replayed has a history.                               *)
LEMMA HistoryExists ==
  ASSUME TypeInv, RecordInv, Replayable
  PROVE  \E H : Chain(trace, H) /\ ltree = H[Len(trace) + 1].tree
<1>1. FaithfulSoFar(trace) /\ ~Pending(trace) /\ ~hidden
  BY ReplayableFaithful DEF TypeInv, PlaceOK
<1>2. PICK H : Chain(trace, H) /\ Matches(trace, ltree, files, H[Len(trace) + 1])
  BY <1>1 DEF RecordInv, Recorded
<1>3. ltree = H[Len(trace) + 1].tree
  BY <1>1, <1>2 DEF Matches, TreeMatches
<1> QED BY <1>2, <1>3

(* The record treplay is at.                                                 *)
LEMMA RecordAt ==
  ASSUME TypeInv, k <= Len(trace), NEW H, Chain(trace, H)
  PROVE  k \in Nat /\ k \in 1 .. Len(trace) /\ StepRecord(H[k], trace[k], H[k + 1])
<1>1. k \in 1 .. Len(trace) /\ k \in Nat
  BY DEF TypeInv, PlaceOK
<1> QED BY <1>1 DEF Chain

(* treplay only reads the trace.                                             *)
LEMMA TreplayTrace ==
  ASSUME TreplayNext
  PROVE  trace' = trace
BY DEF TreplayNext, main_options, OpenTrace, ReadRecord, EndOfTrace, print_record,
       replay_record, ReplayOpen, ReplayRead, ReplayWrite, ReplayRelease, ReplayCreate,
       ReplayLink, ReplayUnlink, ReplaySymlink, ReplayMkdir, ReplayRmdir, ReplayMknod,
       ReplayRename, OnNames, Compare, Done

LEMMA RecordInvStep ==
  ASSUME TypeInv, RecordInv, Next
  PROVE  RecordInv'
<1>1. CASE UserCall
  BY <1>1, UserCallRecorded
<1>2. CASE StartTreplay
  BY <1>2 DEF StartTreplay, uvars, RecordInv
<1>3. CASE TreplayNext /\ UNCHANGED uvars
  <2>1. trace' = trace
    BY <1>3, TreplayTrace
  <2> QED BY <1>3, <2>1 DEF RecordInv, uvars
<1> QED BY <1>1, <1>2, <1>3 DEF Next

(* Nothing has been replayed until the trace file is opened.                 *)
LEMMA FreshInvStep ==
  ASSUME FreshInv, Next
  PROVE  FreshInv'
<1>1. CASE UserCall
  <2>1. UNCHANGED <<pc, k, deviated, rtree, fdtab, fd>>
    BY <1>1, UsersLeave DEF rvars
  <2> QED BY <2>1 DEF FreshInv, AtState
<1>2. CASE StartTreplay \/ main_options
  <2>1. pc \in {"record", "start"} /\ UNCHANGED <<k, deviated, rtree, fdtab, fd>>
    BY <1>2 DEF StartTreplay, main_options
  <2> QED BY <2>1 DEF FreshInv, AtState
<1>3. CASE OpenTrace \/ ReadRecord \/ EndOfTrace \/ print_record
  <2>1. pc' \notin {"record", "start", "trace"}
    BY <1>3 DEF OpenTrace, ReadRecord, EndOfTrace, print_record
  <2> QED BY <2>1 DEF FreshInv
<1>4. CASE replay_record
  <2>1. pc' \notin {"record", "start", "trace"}
    BY <1>4, ReplayedOrCrashed DEF Done
  <2> QED BY <2>1 DEF FreshInv
<1> QED BY <1>1, <1>2, <1>3, <1>4 DEF Next, TreplayNext

(* Before treplay has chosen to replay, and when it does.                    *)
LEMMA NoReplayYet ==
  ASSUME PrintInv, UserCall \/ StartTreplay
  PROVE  replay' = FALSE /\ pc' \in {"record", "start"}
<1>1. pc = "record" /\ replay = FALSE
  BY UsersLeave DEF StartTreplay, PrintInv
<1> QED BY <1>1, UsersLeave DEF StartTreplay, rvars

(* Each step of a replay takes the machine to its next state.                *)
LEMMA FollowInvStep ==
  ASSUME TypeInv, PrintInv, FreshInv, FollowInv, GotInv, Next
  PROVE  FollowInv'
<1>1. CASE UserCall \/ StartTreplay
  BY <1>1, NoReplayYet DEF FollowInv
<1>2. CASE main_options /\ UNCHANGED uvars
  <2>1. k = 1 /\ AtState(Start) /\ UNCHANGED <<trace, k, rtree, fdtab, fd>>
    BY <1>2 DEF FreshInv, main_options
  <2>2. k' = 1 /\ AtState(Start)'
    BY <2>1 DEF AtState
  <2>3. ASSUME NEW H, Chain(trace', H) PROVE AtState(H[k])'
    <3>1. H[k'] = Start
      BY <2>2, <2>3 DEF Chain
    <3> QED BY <2>2, <3>1 DEF AtState
  <2> QED BY <2>3 DEF FollowInv
<1>3. CASE (OpenTrace \/ ReadRecord \/ EndOfTrace) /\ UNCHANGED uvars
  <2>1. UNCHANGED <<trace, hidden, replay, k, rtree, fdtab, fd>>
    BY <1>3 DEF OpenTrace, ReadRecord, EndOfTrace, uvars
  <2>2. Replayable' = Replayable
    BY <2>1, ReplayableKept
  <2> QED BY <2>1, <2>2 DEF FollowInv, AtState
<1>4. CASE print_record
  BY <1>4 DEF print_record, FollowInv
<1>5. CASE replay_record /\ UNCHANGED uvars
  <2>1. /\ pc = "got" /\ replay /\ replay' = replay /\ trace' = trace /\ hidden' = hidden
    BY <1>5, ReplayedOrCrashed, TreplayTrace DEF uvars, TreplayNext
  <2>2. Replayable' = Replayable
    BY <2>1, ReplayableKept
  <2>3. ASSUME Replayable, NEW H, Chain(trace', H) PROVE AtState(H[k])'
    <3>1. AtState(H[k]) /\ Chain(trace, H) /\ k <= Len(trace)
      BY <2>1, <2>3 DEF FollowInv, TypeInv, PlaceOK
    <3>2. k \in Nat /\ StepRecord(H[k], trace[k], H[k + 1])
      BY <3>1, RecordAt
    <3>3. PICK s, t : s = H[k] /\ t = H[k + 1]
      OBVIOUS
    <3>4. Follows(t)
      BY <1>5, <2>3, <3>1, <3>2, <3>3, FollowsStep
    <3>5. AtState(t)' /\ k' = k + 1
      BY <3>4 DEF Follows
    <3>6. t = H[k']
      BY <3>3, <3>5
    <3> QED BY <3>5, <3>6 DEF AtState
  <2> QED BY <2>2, <2>3 DEF FollowInv
<1> QED BY <1>1, <1>2, <1>3, <1>4, <1>5 DEF Next, TreplayNext

(* Only reading a record gets one.                                           *)
LEMMA GotInvStep ==
  ASSUME TypeInv, RecordInv, GotInv, Next
  PROVE  GotInv'
<1>1. CASE ~(ReadRecord /\ UNCHANGED uvars)
  <2>1. pc' # "got"
    <3>1. CASE UserCall
      BY <3>1, UsersLeave DEF rvars
    <3>2. CASE StartTreplay \/ main_options \/ OpenTrace \/ EndOfTrace \/ print_record
      BY <3>2 DEF StartTreplay, main_options, OpenTrace, EndOfTrace, print_record
    <3>3. CASE replay_record
      BY <3>3, ReplayedOrCrashed DEF Done
    <3> QED BY <1>1, <3>1, <3>2, <3>3 DEF Next, TreplayNext
  <2> QED BY <2>1 DEF GotInv
<1>2. CASE ReadRecord /\ UNCHANGED uvars
  <2> SUFFICES ASSUME pc' = "got", Replayable'
      PROVE  path1' = trace[k].p1 /\ (trace[k].op = "write" => content' = trace[k].content)
    BY <1>2 DEF GotInv, ReadRecord
  <2>1. Replayable /\ k <= Len(trace)
    <3>1. UNCHANGED <<trace, hidden>> /\ k <= Len(trace)
      BY <1>2 DEF ReadRecord, uvars
    <3> QED BY <3>1, ReplayableKept
  <2>2. PICK H : Chain(trace, H)
    BY <2>1, HistoryExists
  <2>3. k \in 1 .. Len(trace) /\ StepRecord(H[k], trace[k], H[k + 1])
    BY <2>1, <2>2, RecordAt
  <2>4. trace[k].p1 \notin Misfit /\ trace[k].content \notin Misfit
    <3>1. FaithfulSoFar(trace)
      BY <2>1, ReplayableFaithful DEF TypeInv, PlaceOK
    <3> QED BY <2>3, <3>1 DEF FaithfulSoFar
  <2>5. /\ path1' \in ReadBack(trace[k].p1, Junk)
        /\ content' \in ReadBack(NextContent(trace[k]), Garbled)
    BY <1>2 DEF ReadRecord
  <2>6. path1' = trace[k].p1
    BY <2>4, <2>5 DEF ReadBack
  <2>7. ASSUME trace[k].op = "write" PROVE content' = trace[k].content
    <3>1. trace[k].len = 1
      BY <2>3, <2>7 DEF StepRecord, StepFile, StepName, NameStep
    <3>2. NextContent(trace[k]) = trace[k].content
      BY <3>1 DEF NextContent
    <3> QED BY <2>4, <2>5, <3>2 DEF ReadBack
  <2> QED BY <2>6, <2>7
<1> QED BY <1>1, <1>2

(* A replay that ends has come to the end of the trace.                      *)
LEMMA ExitInvStep ==
  ASSUME TypeInv, PrintInv, FreshInv, ExitInv, Next
  PROVE  ExitInv'
<1>1. CASE UserCall \/ StartTreplay
  BY <1>1, NoReplayYet DEF ExitInv
<1>2. CASE main_options
  <2>1. pc = "start" /\ (pc' = "exit" => replay' = replay)
    BY <1>2 DEF main_options
  <2> QED BY <2>1 DEF PrintInv, ExitInv
<1>3. CASE OpenTrace
  <2> SUFFICES ASSUME pc' = "exit", argv'.file PROVE k' = Len(trace') + 1
    BY DEF ExitInv
  <2>1. trace = <<>> /\ UNCHANGED <<trace, k>>
    BY <1>3 DEF OpenTrace
  <2>2. k = 1
    BY <1>3 DEF OpenTrace, FreshInv
  <2> QED BY <2>1, <2>2
<1>4. CASE EndOfTrace
  <2>1. k > Len(trace) /\ UNCHANGED <<trace, k>>
    BY <1>4 DEF EndOfTrace
  <2>2. k \in 1 .. (Len(trace) + 1) /\ Len(trace) \in Nat
    BY DEF TypeInv, PlaceOK
  <2>3. k' = Len(trace') + 1
    BY <2>1, <2>2
  <2> QED BY <2>3 DEF ExitInv
<1>5. CASE ReadRecord \/ print_record
  BY <1>5 DEF ReadRecord, print_record, ExitInv
<1>6. CASE replay_record
  <2>1. pc' # "exit"
    BY <1>6, ReplayedOrCrashed DEF Done
  <2> QED BY <2>1 DEF ExitInv
<1> QED BY <1>1, <1>2, <1>3, <1>4, <1>5, <1>6 DEF Next, TreplayNext

LEMMA ReturnsStep ==
  ASSUME TypeInv, PrintInv, RecordInv, FreshInv, FollowInv, GotInv, ReturnsSame, Next
  PROVE  ReturnsSame'
<1>1. CASE UserCall \/ StartTreplay
  BY <1>1, NoReplayYet DEF ReturnsSame
<1>2. CASE main_options
  <2>1. deviated' = {}
    BY <1>2 DEF main_options, FreshInv
  <2> QED BY <2>1 DEF ReturnsSame
<1>3. CASE (OpenTrace \/ ReadRecord \/ EndOfTrace \/ print_record) /\ UNCHANGED uvars
  <2>1. UNCHANGED <<trace, hidden, replay, deviated>>
    BY <1>3 DEF OpenTrace, ReadRecord, EndOfTrace, print_record, uvars
  <2>2. Replayable' = Replayable
    BY <2>1, ReplayableKept
  <2> QED BY <2>1, <2>2 DEF ReturnsSame, IsOp
<1>4. CASE replay_record /\ UNCHANGED uvars
  <2> SUFFICES ASSUME Replayable', NEW i \in deviated'
      PROVE  trace'[i].op \in {"create", "read"}
    BY DEF ReturnsSame, IsOp
  <2>1. /\ pc = "got" /\ replay /\ trace' = trace /\ hidden' = hidden
    BY <1>4, ReplayedOrCrashed, TreplayTrace DEF uvars, TreplayNext
  <2>2. Replayable
    BY <2>1, ReplayableKept
  <2>3. PICK H : Chain(trace, H)
    BY <2>2, HistoryExists
  <2>4. AtState(H[k]) /\ StepRecord(H[k], trace[k], H[k + 1])
    <3>1. k <= Len(trace)
      BY <2>1 DEF TypeInv, PlaceOK
    <3> QED BY <2>1, <2>2, <2>3, <3>1, RecordAt DEF FollowInv
  <2>5. PICK s, t : s = H[k] /\ t = H[k + 1]
    OBVIOUS
  <2>6. Follows(t)
    BY <1>4, <2>2, <2>4, <2>5, FollowsStep
  <2>7. i \in deviated \/ (i = k /\ trace[k].op \in {"create", "read"})
    BY <2>6 DEF Follows
  <2>8. \A j \in deviated : trace[j].op \in {"create", "read"}
    BY <2>1, <2>2 DEF ReturnsSame, IsOp
  <2> QED BY <2>1, <2>7, <2>8
<1> QED BY <1>1, <1>2, <1>3, <1>4 DEF Next, TreplayNext

LEMMA FaithInit ==
  ASSUME Init
  PROVE  FaithInv
<1>1. /\ trace = <<>> /\ pc = "record" /\ ltree = StartTree /\ hidden = FALSE
      /\ files = [h \in Handles |-> Closed] /\ rtree = StartTree
      /\ fdtab = [n \in 1 .. MaxFds |-> Closed] /\ fd = 0 /\ replay = FALSE /\ k = 1
      /\ deviated = {}
  BY DEF Init, TreplayInit
<1>2. Start.tree = StartTree /\ Start.slot = Closed
  BY DEF Start
<1>3. Recorded(<<>>, ltree, files)
  <2> DEFINE H == <<Start>>
  <2>1. H[1] = Start /\ Len(<<>>) = 0
    OBVIOUS
  <2> HIDE DEF H
  <2>2. Chain(<<>>, H)
    BY <2>1 DEF Chain
  <2>3. TreeMatches(<<>>, ltree, Start)
    BY <1>1, <1>2 DEF TreeMatches, Pending
  <2>4. FilesMatch(<<>>, files, Start)
    BY <1>1, <1>2 DEF FilesMatch
  <2>5. Matches(<<>>, ltree, files, Start)
    BY <1>2, <2>3, <2>4, StartTreeType, ClosedType DEF Matches
  <2>6. H[Len(<<>>) + 1] = Start
    BY <2>1
  <2> QED BY <2>2, <2>5, <2>6 DEF Recorded
<1>4. RecordInv
  BY <1>1, <1>3 DEF RecordInv
<1>5. FreshInv
  BY <1>1, <1>2 DEF FreshInv, AtState
<1> QED BY <1>1, <1>4, <1>5 DEF FaithInv, FollowInv, GotInv, ExitInv, ReturnsSame

LEMMA FaithStep ==
  ASSUME ReplayInv, FaithInv, [Next]_vars
  PROVE  FaithInv'
<1>1. TypeInv /\ PrintInv
  BY DEF ReplayInv
<1>2. RecordInv /\ FreshInv /\ FollowInv /\ GotInv /\ ExitInv /\ ReturnsSame
  BY DEF FaithInv
<1>3. CASE Next
  <2>1. RecordInv' /\ FreshInv'
    BY <1>1, <1>2, <1>3, RecordInvStep, FreshInvStep
  <2>2. FollowInv' /\ GotInv' /\ ExitInv' /\ ReturnsSame'
    BY <1>1, <1>2, <1>3, FollowInvStep, GotInvStep, ExitInvStep, ReturnsStep
  <2> QED BY <2>1, <2>2 DEF FaithInv
<1>4. CASE UNCHANGED vars
  <2>1. /\ UNCHANGED <<trace, rtree, fdtab, fd, pc, argv, replay, k, path1, content>>
        /\ UNCHANGED <<deviated, ltree, files, hidden>>
    BY <1>4 DEF vars, rvars, uvars
  <2>2. Replayable' = Replayable
    BY <2>1, ReplayableKept
  <2>3. RecordInv' /\ FreshInv' /\ FollowInv'
    BY <1>2, <2>1, <2>2 DEF RecordInv, FreshInv, FollowInv, AtState
  <2>4. GotInv' /\ ExitInv' /\ ReturnsSame'
    BY <1>2, <2>1, <2>2 DEF GotInv, ExitInv, ReturnsSame, IsOp
  <2> QED BY <2>3, <2>4 DEF FaithInv
<1> QED BY <1>3, <1>4

(* The users' calls leave the records of a behaviour of the machine, and a   *)
(* replay follows it.                                                        *)
THEOREM FaithInvariant == Spec => []FaithInv
<1>1. Init => FaithInv
  BY FaithInit
<1>2. ReplayInv /\ FaithInv /\ [Next]_vars => FaithInv'
  BY FaithStep
<1> QED BY <1>1, <1>2, ReplayInvariant, PTL DEF Spec

(* A replay that has come to the end of a trace that was recorded with one   *)
(* file open at a time has made the tree the users have, whatever they did   *)
(* and however large the descriptor table is.                                *)
THEOREM ReplayReproduces == Spec => []Reproduced
<1>1. ReplayInv /\ FaithInv => Reproduced
  <2> SUFFICES ASSUME ReplayInv, FaithInv, pc = "exit", replay, argv.file, Replayable
      PROVE  SameTree(rtree, ltree)
    BY DEF Reproduced
  <2>1. PICK H : Chain(trace, H) /\ ltree = H[Len(trace) + 1].tree
    BY HistoryExists DEF ReplayInv, FaithInv
  <2>2. k = Len(trace) + 1 /\ AtState(H[k])
    BY <2>1 DEF FaithInv, ExitInv, FollowInv
  <2>3. rtree = ltree
    BY <2>1, <2>2 DEF AtState
  <2> QED BY <2>3 DEF SameTree
<1> QED BY <1>1, ReplayInvariant, FaithInvariant, PTL

(* And its calls have returned what the users' calls had returned.           *)
THEOREM ReplayReturnsSame == Spec => []ReturnsSame
<1>1. FaithInv => ReturnsSame
  BY DEF FaithInv
<1> QED BY <1>1, FaithInvariant, PTL
=============================================================================
