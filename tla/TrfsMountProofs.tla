-------------------------- MODULE TrfsMountProofs ---------------------------
(***************************************************************************)
(* Theorems about TrfsInterpose inside TrfsMount, for any tree of names,   *)
(* any number of threads and inodes, and all failures.  The invariants say *)
(* for each label what a call has got, what state its dentry and inode are *)
(* in, and how the phase of the superblock limits who can be inside.       *)
(*                                                                         *)
(* Every action has a lemma that it keeps MountInv; the frame lemmas       *)
(* before them say when a part of MountInv is not disturbed.               *)
(***************************************************************************)
EXTENDS TrfsMount, FiniteSetTheorems, TLAPS

Ops == {"none", "lookup", "create", "unlink", "forward", "nfs", "mount"}
Labels == {"idle", "data", "walk", "interpose", "find", "alloc", "set", "splice", "fail",
           "out", "neg", "oops", "super", "tfile"}
Thread == [pc : Labels, op : Ops, n : Names, l : Lowers \cup {NoLower},
           ino : Slots \cup {NoSlot}, pins : SUBSET Names]
Inode == [st : {"free", "new", "live", "freeing"}, lower : Lowers \cup {NoLower}, count : Int]
Dentry == [st : {"none", "looking", "neg", "pos", "unhashed"}, ino : Slots \cup {NoSlot},
           data : BOOLEAN, path : BOOLEAN]

(* The counters may be any integers here; that they stay natural numbers     *)
(* follows from what they count.                                             *)
TypeInv ==
  /\ link \in [Names -> Lowers \cup {NoLower}] /\ removed \in SUBSET Names
  /\ lcount \in [Lowers -> Int] /\ nfsgot \in [Lowers -> Nat] /\ overput \in [Lowers -> Nat]
  /\ lpins \in [Names -> Int]
  /\ inode \in [Slots -> Inode] /\ dentry \in [Names -> Dentry] /\ anon \in SUBSET Slots
  /\ th \in [Threads -> Thread]
  /\ sb \in {"none", "mounting", "mounted", "shutdown"}
  /\ s_active \in Nat /\ s_fs_info \in BOOLEAN

(* The calls that the lock of the parent directory serialises.               *)
Locked == {"lookup", "create", "unlink"}

(* The labels of trfs_iget, where the lower inode is known.                  *)
Iget == {"find", "alloc", "set", "splice"}

(* Where each operation can be, and what it has got.                         *)
ThreadOK(t) ==
  /\ th[t].pc = "idle" => th[t] = Idle
  /\ th[t].op = "none" => th[t].pc = "idle"
  /\ th[t].op \in Locked => th[t].n # Root
  /\ th[t].op = "lookup" =>
       th[t].pc \in Iget \cup {"data", "walk", "interpose", "fail", "out", "neg"}
  /\ th[t].op = "create" => th[t].pc \in Iget \cup {"interpose", "fail", "out", "neg"}
  /\ th[t].op \in {"unlink", "forward"} => th[t].pc = "out"
  /\ th[t].op = "nfs" => th[t].pc \in Iget \cup {"fail", "oops"} /\ th[t].pins = {}
  /\ th[t].op = "mount" => /\ th[t].pc \in Iget \cup {"super", "tfile", "fail", "oops"}
                           /\ th[t].pins \subseteq {Root}
                           /\ th[t].pc = "super" => th[t].pins = {}
                           /\ th[t].pc \in Iget \cup {"tfile"} => th[t].pins = {Root}
                           /\ th[t].n = Root
  /\ th[t].pc \in Iget => th[t].l \in Lowers
  /\ th[t].pc = "neg" => th[t].pins = {}
  /\ th[t].pc \in {"set", "splice"} => th[t].ino # NoSlot
  /\ th[t].ino # NoSlot => th[t].pc \in {"set", "splice", "oops"}

(* The dentry a call works on, and that its lower inode stays the one found. *)
DentryOf(t) ==
  LET d == dentry[th[t].n] IN
  /\ th[t].op = "lookup" /\ th[t].pc \notin {"out", "neg"} =>
       /\ d.st = "looking" /\ d.ino = NoSlot
       /\ d.data <=> th[t].pc # "data"
       /\ th[t].pc \in {"data", "walk"} => ~d.path
       /\ th[t].pc \in Iget \cup {"interpose"} => d.path
  /\ th[t].op = "create" /\ th[t].pc # "out" => d.st = "neg"
  /\ th[t].pc = "neg" => d.st = "neg"
  /\ th[t].pc = "interpose" => link[th[t].n] # NoLower
  /\ th[t].op # "nfs" /\ th[t].pc \in Iget => link[th[t].n] = th[t].l

Apart(t, u) ==
  th[t].op \in Locked /\ th[u].op \in Locked => ParentOf[th[t].n] # ParentOf[th[u].n]

CallInv ==
  /\ \A t \in Threads : ThreadOK(t) /\ DentryOf(t)
  /\ \A t, u \in Threads : t # u => Apart(t, u)

(* The states of a dentry.                                                   *)
DentryOK(n) ==
  /\ dentry[n].st = "none" => dentry[n] = NoDentry
  /\ dentry[n].st \in {"neg", "pos"} => dentry[n].data /\ dentry[n].path
  /\ dentry[n].st = "unhashed" <=> n \in removed
  /\ dentry[n].ino # NoSlot <=> dentry[n].st \in {"pos", "unhashed"}
  /\ dentry[n].st \in {"pos", "unhashed"} => link[n] # NoLower
  /\ dentry[n].st = "looking" =>
       \E t \in Threads : th[t].op = "lookup" /\ th[t].pc \notin {"out", "neg"} /\ th[t].n = n

(* Only the root is there without a lookup.                                  *)
DentryInv ==
  /\ \A n \in Names : DentryOK(n)
  /\ dentry[Root].st \in {"none", "pos"}
  /\ link[Root] # NoLower

(* The states of an inode.                                                   *)
InodeOK(i) ==
  /\ inode[i].st = "free" => inode[i] = NoInode
  /\ inode[i].st = "new" => inode[i].lower = NoLower /\ inode[i].count = 1
  /\ inode[i].st \in {"live", "freeing"} => inode[i].lower \in Lowers
  /\ inode[i].st = "live" => inode[i].count > 0
  /\ inode[i].st \in {"free", "freeing"} => inode[i].count = 0

DentriesOf(i) == {n \in Names : dentry[n].ino = i}
ThreadsOf(i)  == {t \in Threads : th[t].ino = i}

Holders(i) == Cardinality(DentriesOf(i)) + Cardinality(ThreadsOf(i)) + Count(i \in anon)

Counted(i) ==
  \/ inode[i].count = Holders(i)
  \/ Fault("stale") /\ inode[i].st = "new" /\ inode[i].count = 1 /\ Holders(i) = 0

(* Only an inode that lives is referred to, except by the thread that is     *)
(* making it.                                                                *)
HoldsLive(t) ==
  th[t].ino # NoSlot =>
    IF th[t].pc = "set" THEN inode[th[t].ino].st = "new"
    ELSE inode[th[t].ino].st = "live" /\ inode[th[t].ino].lower = th[t].l

InodeInv ==
  /\ \A i \in Slots : InodeOK(i) /\ Counted(i)
  /\ \A n \in Names : dentry[n].ino # NoSlot => inode[dentry[n].ino].st = "live"
  /\ \A i \in anon : inode[i].st = "live"
  /\ \A t \in Threads : HoldsLive(t)

(* Two inodes for one lower inode: both threads were in trfs_iget at once.   *)
TwinInv ==
  /\ OneInode
  /\ \A t \in Threads : th[t].pc = "set" =>
       /\ \A u \in Threads : u # t /\ th[u].pc = "set" /\ th[u].l = th[t].l
            => th[t].l \in twins
       /\ \A i \in Slots : inode[i].st = "live" /\ inode[i].lower = th[t].l
            => th[t].l \in twins

(* What Coherent says of one name.                                           *)
Stands(n) ==
  /\ dentry[n].st = "pos" =>
       /\ dentry[n].data /\ dentry[n].path
       /\ inode[dentry[n].ino].st = "live"
       /\ inode[dentry[n].ino].lower = link[n]

(* The mount that is going on.                                               *)
Mounting(t) ==
  th[t].op = "mount" =>
    /\ sb = "mounting"
    /\ th[t].pc \in {"super", "tfile"} => s_active = 0
    /\ th[t].pc = "super" => ~s_fs_info
    /\ th[t].pc \in Iget => s_active = 1
    /\ th[t].pc \in Iget \cup {"tfile"} => s_fs_info /\ mount_path = "live"

(* The phases of the superblock.                                             *)
SbInv ==
  /\ sb \in {"none", "shutdown"} => \A t \in Threads : th[t].pc = "idle"
  /\ sb = "mounting" =>
       \A t, u \in Threads : /\ th[t].op \in {"none", "mount"}
                             /\ th[t].op = "mount" /\ u # t => th[u].op = "none"
  /\ sb = "mounted" => mount_path = "live" /\ dentry[Root].st = "pos"
  /\ sb \in {"mounted", "shutdown"} => s_fs_info /\ s_active = 1
  /\ sb = "shutdown" => mount_path = "freed"
  /\ sb = "none" => /\ s_active = 0 /\ ~s_fs_info
                    /\ \A i \in Slots : inode[i].st \in {"free", "new"}
                    /\ mounts > 0 => mount_path = "freed"
  /\ sb \in {"none", "mounting"} => /\ \A n \in Names : dentry[n] = NoDentry
                                    /\ anon = {}
  /\ \A t \in Threads : Mounting(t)

MountInv ==
  /\ TypeInv /\ CallInv /\ DentryInv /\ InodeInv /\ TwinInv /\ SbInv
  /\ (\A n \in Names : Stands(n)) /\ LowerPathsBalanced /\ LowerInodesBalanced

-----------------------------------------------------------------------------
(* What the assumptions say of the constants.                                *)
LEMMA Constants ==
  /\ Root \in Names /\ NoLower \notin Lowers /\ NoSlot \notin Slots
  /\ ParentOf \in [Names \ {Root} -> Names]
  /\ IsFiniteSet(Names) /\ IsFiniteSet(Slots) /\ IsFiniteSet(Threads)
BY InterposeAssumption

LEMMA RecordTypes ==
  /\ Idle \in Thread /\ NoInode \in Inode /\ NoDentry \in Dentry
  /\ Idle.pc = "idle" /\ Idle.op = "none" /\ Idle.n = Root /\ Idle.l = NoLower
  /\ Idle.ino = NoSlot /\ Idle.pins = {}
  /\ NoDentry.st = "none" /\ NoDentry.ino = NoSlot /\ ~NoDentry.data /\ ~NoDentry.path
  /\ NoInode.st = "free" /\ NoInode.lower = NoLower /\ NoInode.count = 0
BY Constants DEF Idle, Thread, NoInode, Inode, NoDentry, Dentry, Labels, Ops

(* Two subsets of a finite set that differ in one element at most.           *)
LEMMA CountChange ==
  ASSUME NEW S, IsFiniteSet(S), NEW A \in SUBSET S, NEW B \in SUBSET S, NEW x \in S,
         \A y \in S \ {x} : y \in A <=> y \in B
  PROVE  /\ Cardinality(A) \in Nat /\ Cardinality(B) \in Nat
         /\ Cardinality(B) = Cardinality(A) - Count(x \in A) + Count(x \in B)
<1>1. IsFiniteSet(A) /\ IsFiniteSet(B) /\ Cardinality(A) \in Nat /\ Cardinality(B) \in Nat
  BY FS_Subset, FS_CardinalityType
<1>2. A \ {x} = B \ {x}
  OBVIOUS
<1>3. /\ Cardinality(A \ {x}) = IF x \in A THEN Cardinality(A) - 1 ELSE Cardinality(A)
      /\ Cardinality(B \ {x}) = IF x \in B THEN Cardinality(B) - 1 ELSE Cardinality(B)
  BY <1>1, FS_RemoveElement
<1> QED BY <1>1, <1>2, <1>3 DEF Count

(* All the threads but t stay where they are.                                *)
Others(t) == \A u \in Threads \ {t} : th'[u] = th[u]

(* What the assignments to one thread do.                                    *)
LEMMA GotoEffect ==
  ASSUME th \in [Threads -> Thread], NEW t \in Threads, NEW label \in Labels, Goto(t, label)
  PROVE  /\ th' \in [Threads -> Thread] /\ Others(t)
         /\ th'[t].pc = label /\ th'[t].op = th[t].op /\ th'[t].n = th[t].n
         /\ th'[t].l = th[t].l /\ th'[t].ino = th[t].ino /\ th'[t].pins = th[t].pins
BY DEF Goto, Thread, Others

LEMMA FindEffect ==
  ASSUME th \in [Threads -> Thread], NEW t \in Threads, NEW label \in Labels,
         NEW l \in Lowers, th' = [th EXCEPT ![t].l = l, ![t].pc = label]
  PROVE  /\ th' \in [Threads -> Thread] /\ Others(t)
         /\ th'[t].pc = label /\ th'[t].op = th[t].op /\ th'[t].n = th[t].n
         /\ th'[t].l = l /\ th'[t].ino = th[t].ino /\ th'[t].pins = th[t].pins
<1>1. th' \in [Threads -> Thread]
  BY DEF Thread
<1>2. th'[t].pc = label /\ th'[t].op = th[t].op /\ th'[t].n = th[t].n
  BY DEF Thread
<1>3. th'[t].l = l /\ th'[t].ino = th[t].ino /\ th'[t].pins = th[t].pins
  BY DEF Thread
<1>4. Others(t)
  BY DEF Thread, Others
<1> QED BY <1>1, <1>2, <1>3, <1>4

LEMMA HoldEffect ==
  ASSUME th \in [Threads -> Thread], NEW t \in Threads, NEW label \in Labels,
         NEW i \in Slots \cup {NoSlot}, th' = [th EXCEPT ![t].ino = i, ![t].pc = label]
  PROVE  /\ th' \in [Threads -> Thread] /\ Others(t)
         /\ th'[t].pc = label /\ th'[t].op = th[t].op /\ th'[t].n = th[t].n
         /\ th'[t].l = th[t].l /\ th'[t].ino = i /\ th'[t].pins = th[t].pins
<1>1. th' \in [Threads -> Thread]
  BY DEF Thread
<1>2. th'[t].pc = label /\ th'[t].op = th[t].op /\ th'[t].n = th[t].n
  BY DEF Thread
<1>3. th'[t].l = th[t].l /\ th'[t].ino = i /\ th'[t].pins = th[t].pins
  BY DEF Thread
<1>4. Others(t)
  BY DEF Thread, Others
<1> QED BY <1>1, <1>2, <1>3, <1>4

GotoWith(t, label, pins) == th' = [th EXCEPT ![t].pc = label, ![t].pins = pins]

LEMMA PinsEffect ==
  ASSUME th \in [Threads -> Thread], NEW t \in Threads, NEW label \in Labels,
         NEW pins \in SUBSET Names, GotoWith(t, label, pins)
  PROVE  /\ th' \in [Threads -> Thread] /\ Others(t)
         /\ th'[t].pc = label /\ th'[t].op = th[t].op /\ th'[t].n = th[t].n
         /\ th'[t].l = th[t].l /\ th'[t].ino = th[t].ino /\ th'[t].pins = pins
<1>1. th' \in [Threads -> Thread]
  BY DEF Thread, GotoWith
<1>2. th'[t].pc = label /\ th'[t].op = th[t].op /\ th'[t].n = th[t].n
  BY DEF Thread, GotoWith
<1>3. th'[t].l = th[t].l /\ th'[t].ino = th[t].ino /\ th'[t].pins = pins
  BY DEF Thread, GotoWith
<1>4. Others(t)
  BY DEF Thread, GotoWith, Others
<1> QED BY <1>1, <1>2, <1>3, <1>4

LEMMA StartEffect ==
  ASSUME th \in [Threads -> Thread], NEW t \in Threads, NEW op \in Ops, NEW n \in Names,
         NEW label \in Labels, NEW pins \in SUBSET Names, Start(t, op, n, label, pins)
  PROVE  /\ th' \in [Threads -> Thread] /\ Others(t)
         /\ th'[t].pc = label /\ th'[t].op = op /\ th'[t].n = n
         /\ th'[t].l = NoLower /\ th'[t].ino = NoSlot /\ th'[t].pins = pins
<1>1. th' = [th EXCEPT ![t] = [Idle EXCEPT !.pc = label, !.op = op, !.n = n, !.pins = pins]]
  BY DEF Start
<1>2. /\ [Idle EXCEPT !.pc = label, !.op = op, !.n = n, !.pins = pins] \in Thread
      /\ \A r : r = [Idle EXCEPT !.pc = label, !.op = op, !.n = n, !.pins = pins] =>
           /\ r.pc = label /\ r.op = op /\ r.n = n /\ r.l = NoLower /\ r.ino = NoSlot
           /\ r.pins = pins
  BY Constants DEF Idle, Thread
<1> QED BY <1>1, <1>2 DEF Others

LEMMA BeginEffect ==
  ASSUME th \in [Threads -> Thread], NEW t \in Threads, NEW op \in Ops, NEW n \in Names,
         NEW label \in Labels, NEW pins \in SUBSET Names, Begin(t, op, n, label, pins)
  PROVE  /\ th' \in [Threads -> Thread] /\ Others(t) /\ th[t].pc = "idle"
         /\ th'[t].pc = label /\ th'[t].op = op /\ th'[t].n = n
         /\ th'[t].l = NoLower /\ th'[t].ino = NoSlot /\ th'[t].pins = pins
<1>1. Start(t, op, n, label, pins) /\ th[t].pc = "idle"
  BY DEF Begin
<1> QED BY <1>1, StartEffect

LEMMA ReturnEffect ==
  ASSUME th \in [Threads -> Thread], NEW t \in Threads, th' = [th EXCEPT ![t] = Idle]
  PROVE  /\ th' \in [Threads -> Thread] /\ Others(t) /\ th'[t] = Idle
         /\ th'[t].pc = "idle" /\ th'[t].op = "none" /\ th'[t].n = Root
         /\ th'[t].l = NoLower /\ th'[t].ino = NoSlot /\ th'[t].pins = {}
BY RecordTypes DEF Others

(* Getting and putting lower paths.                                          *)
LEMMA PinEffect ==
  ASSUME lpins \in [Names -> Int], NEW ns
  PROVE  /\ Get(ns) \in [Names -> Int] /\ Put(ns) \in [Names -> Int]
         /\ \A n \in Names : /\ Get(ns)[n] = lpins[n] + Count(n \in ns)
                             /\ Put(ns)[n] = lpins[n] - Count(n \in ns)
BY DEF Get, Put, Count

LEMMA IputEffect ==
  ASSUME inode \in [Slots -> Inode], NEW i \in Slots, inode' = Iput(i)
  PROVE  /\ inode' \in [Slots -> Inode]
         /\ \A j \in Slots \ {i} : inode'[j] = inode[j]
         /\ inode'[i].count = inode[i].count - 1 /\ inode'[i].lower = inode[i].lower
         /\ inode'[i].st = IF inode[i].count = 1 THEN "freeing" ELSE inode[i].st
<1> DEFINE state == IF inode[i].count = 1 THEN "freeing" ELSE inode[i].st
<1>1. inode' = [inode EXCEPT ![i].count = @ - 1, ![i].st = state]
  BY DEF Iput
<1>2. state \in {"free", "new", "live", "freeing"}
  BY DEF Inode
<1> HIDE DEF state
<1> DEFINE less == [inode EXCEPT ![i].count = @ - 1]
<1>3. inode' = [less EXCEPT ![i].st = state]
  BY <1>1
<1>4. /\ less \in [Slots -> Inode]
      /\ \A j \in Slots \ {i} : less[j] = inode[j]
      /\ less[i].count = inode[i].count - 1 /\ less[i].lower = inode[i].lower
  BY DEF Inode
<1> HIDE DEF less
<1>5. /\ inode' \in [Slots -> Inode]
      /\ \A j \in Slots \ {i} : inode'[j] = less[j]
      /\ inode'[i].count = less[i].count /\ inode'[i].lower = less[i].lower
      /\ inode'[i].st = state
  BY <1>2, <1>3, <1>4 DEF Inode
<1> QED BY <1>4, <1>5 DEF state

LEMMA IgrabEffect ==
  ASSUME inode \in [Slots -> Inode], NEW i \in Slots, inode' = Igrab(i)
  PROVE  /\ inode' \in [Slots -> Inode]
         /\ \A j \in Slots \ {i} : inode'[j] = inode[j]
         /\ inode'[i].count = inode[i].count + 1 /\ inode'[i].lower = inode[i].lower
         /\ inode'[i].st = inode[i].st
BY DEF Igrab, Inode

-----------------------------------------------------------------------------
(* Frames.  A call of a thread that does not move keeps its dentry.          *)
LEMMA CallKept ==
  ASSUME th \in [Threads -> Thread], NEW u \in Threads, th'[u] = th[u], ThreadOK(u), DentryOf(u),
         th[u].op \in {"lookup", "create"} => dentry'[th[u].n] = dentry[th[u].n],
         th[u].op \in {"lookup", "create", "mount"} => link'[th[u].n] = link[th[u].n]
  PROVE  ThreadOK(u)' /\ DentryOf(u)'
<1>1. ThreadOK(u)'
  BY DEF ThreadOK
<1>2. DentryOf(u)'
  <2>1. CASE th[u].op \in {"lookup", "create"}
    BY <2>1 DEF DentryOf
  <2>2. CASE th[u].op = "mount"
    BY <2>2 DEF DentryOf, ThreadOK, Iget
  <2>3. CASE th[u].op \notin {"lookup", "create", "mount"}
    <3>1. /\ th[u].pc \notin {"interpose", "neg"}
          /\ (th[u].op # "nfs" => th[u].pc \notin Iget)
      <4>1. CASE th[u].op = "none"
        BY <4>1, RecordTypes DEF ThreadOK, Iget
      <4>2. CASE th[u].op # "none"
        BY <2>3, <4>2 DEF ThreadOK, Iget, Thread, Ops
      <4> QED BY <4>1, <4>2
    <3> QED BY <2>3, <3>1 DEF DentryOf
  <2> QED BY <2>1, <2>2, <2>3
<1> QED BY <1>1, <1>2

(* A step of thread t.                                                       *)
LEMMA CallStep ==
  ASSUME th \in [Threads -> Thread], CallInv, NEW t \in Threads, Others(t), ThreadOK(t)', DentryOf(t)',
         th'[t].op \in Locked =>
           \/ th[t].op \in Locked /\ th'[t].n = th[t].n
           \/ DirFree(ParentOf[th'[t].n]),
         \A u \in Threads \ {t} :
           /\ th[u].op \in {"lookup", "create"} => dentry'[th[u].n] = dentry[th[u].n]
           /\ th[u].op \in {"lookup", "create", "mount"} => link'[th[u].n] = link[th[u].n]
  PROVE  CallInv'
<1>1. ASSUME NEW u \in Threads PROVE ThreadOK(u)' /\ DentryOf(u)'
  <2>1. CASE u = t
    BY <2>1
  <2>2. CASE u # t
    <3>1. th'[u] = th[u] /\ ThreadOK(u) /\ DentryOf(u)
      BY <2>2 DEF Others, CallInv
    <3> QED BY <2>2, <3>1, CallKept
  <2> QED BY <2>1, <2>2
<1>2. ASSUME NEW u \in Threads, u # t PROVE Apart(t, u)' /\ Apart(u, t)'
  <2>1. th'[u] = th[u] /\ Apart(t, u) /\ Apart(u, t)
    BY <1>2 DEF Others, CallInv
  <2>2. CASE th[t].op \in Locked /\ th'[t].n = th[t].n
    BY <2>1, <2>2 DEF Apart
  <2>3. CASE th'[t].op \in Locked /\ DirFree(ParentOf[th'[t].n])
    BY <2>1, <2>3 DEF Apart, DirFree, Locked
  <2>4. CASE th'[t].op \notin Locked
    BY <2>1, <2>4 DEF Apart
  <2> QED BY <2>2, <2>3, <2>4
<1>3. ASSUME NEW u \in Threads, NEW v \in Threads, u # t, v # t, u # v PROVE Apart(u, v)'
  BY <1>3 DEF Others, CallInv, Apart
<1> QED BY <1>1, <1>2, <1>3 DEF CallInv

(* A step of the caches: no thread moves, and none works on what changes.    *)
LEMMA CallStill ==
  ASSUME th \in [Threads -> Thread], CallInv, th' = th,
         \A u \in Threads : th[u].pc # "idle" =>
           /\ dentry'[th[u].n] = dentry[th[u].n] /\ link'[th[u].n] = link[th[u].n]
  PROVE  CallInv'
<1>1. ASSUME NEW u \in Threads PROVE ThreadOK(u)' /\ DentryOf(u)'
  <2>1. ThreadOK(u) /\ DentryOf(u) /\ th'[u] = th[u]
    BY DEF CallInv
  <2>2. CASE th[u].pc # "idle"
    BY <2>1, <2>2, CallKept
  <2>3. CASE th[u].pc = "idle"
    <3>1. th[u].op = "none"
      BY <2>1, <2>3, RecordTypes DEF ThreadOK
    <3> QED BY <2>1, <3>1, CallKept
  <2> QED BY <2>2, <2>3
<1>2. ASSUME NEW u \in Threads, NEW v \in Threads, u # v PROVE Apart(u, v)'
  BY <1>2 DEF CallInv, Apart
<1> QED BY <1>1, <1>2 DEF CallInv

(* A name whose dentry stays, while thread t moves.                          *)
LEMMA DentryKept ==
  ASSUME NEW t \in Threads, Others(t), NEW n \in Names, DentryOK(n), dentry'[n] = dentry[n],
         n \in removed' <=> n \in removed,
         dentry[n].st \in {"pos", "unhashed"} => link'[n] # NoLower,
         th[t].op = "lookup" /\ th[t].pc \notin {"out", "neg"} /\ th[t].n = n =>
           th'[t].op = "lookup" /\ th'[t].pc \notin {"out", "neg"} /\ th'[t].n = n
  PROVE  DentryOK(n)'
<1>1. ASSUME dentry[n].st = "looking"
      PROVE  \E u \in Threads : th'[u].op = "lookup" /\ th'[u].pc \notin {"out", "neg"} /\ th'[u].n = n
  <2>1. PICK u \in Threads : th[u].op = "lookup" /\ th[u].pc \notin {"out", "neg"} /\ th[u].n = n
    BY <1>1 DEF DentryOK
  <2>2. th'[u].op = "lookup" /\ th'[u].pc \notin {"out", "neg"} /\ th'[u].n = n
    BY <2>1 DEF Others
  <2> QED BY <2>2
<1> QED BY <1>1 DEF DentryOK

LEMMA DentryStep ==
  ASSUME DentryInv, NEW t \in Threads, Others(t), dentry' = dentry, removed' = removed,
         \A n \in Names : dentry[n].st \in {"pos", "unhashed"} => link'[n] # NoLower,
         link'[Root] # NoLower,
         th[t].op = "lookup" /\ th[t].pc \notin {"out", "neg"} =>
           th'[t].op = "lookup" /\ th'[t].pc \notin {"out", "neg"} /\ th'[t].n = th[t].n
  PROVE  DentryInv'
<1>1. ASSUME NEW n \in Names PROVE DentryOK(n)'
  <2>1. DentryOK(n)
    BY DEF DentryInv
  <2> QED BY <2>1, DentryKept
<1> QED BY <1>1 DEF DentryInv

(* A step that only changes the dentry of name d.                            *)
LEMMA DentryChange ==
  ASSUME DentryInv, NEW t \in Threads, Others(t), NEW d \in Names,
         \A n \in Names \ {d} : /\ dentry'[n] = dentry[n] /\ link'[n] = link[n]
                                /\ n \in removed' <=> n \in removed,
         DentryOK(d)', d = Root => dentry'[d].st \in {"none", "pos"}, link'[Root] # NoLower,
         th[t].op = "lookup" /\ th[t].pc \notin {"out", "neg"} /\ th[t].n # d =>
           th'[t].op = "lookup" /\ th'[t].pc \notin {"out", "neg"} /\ th'[t].n = th[t].n
  PROVE  DentryInv'
<1>1. ASSUME NEW n \in Names \ {d} PROVE DentryOK(n)'
  <2>1. DentryOK(n)
    BY DEF DentryInv
  <2>2. dentry[n].st \in {"pos", "unhashed"} => link'[n] # NoLower
    BY <2>1 DEF DentryOK
  <2> QED BY <2>1, <2>2, DentryKept
<1>2. dentry'[Root].st \in {"none", "pos"}
  BY Constants DEF DentryInv
<1> QED BY <1>1, <1>2 DEF DentryInv

(* A name that goes on standing for its lower dentry.                        *)
LEMMA StandsKept ==
  ASSUME NEW n \in Names, Stands(n), dentry'[n] = dentry[n], link'[n] = link[n],
         dentry[n].st = "pos" =>
           /\ inode'[dentry[n].ino].st = "live"
           /\ inode'[dentry[n].ino].lower = inode[dentry[n].ino].lower
  PROVE  Stands(n)'
BY DEF Stands

(* The counters of the references on lower dentries.                         *)
LEMMA PathsStep ==
  ASSUME TypeInv, LowerPathsBalanced, NEW t \in Threads, Others(t),
         \A n \in Names :
           lpins'[n] = lpins[n] - Count(dentry[n].path) + Count(dentry'[n].path)
                         - Count(n \in th[t].pins) + Count(n \in th'[t].pins)
  PROVE  LowerPathsBalanced'
<1> SUFFICES ASSUME NEW n \in Names
             PROVE  lpins'[n] = Count(dentry'[n].path)
                                  + Cardinality({u \in Threads : n \in th'[u].pins})
  BY DEF LowerPathsBalanced
<1> DEFINE A == {u \in Threads : n \in th[u].pins}
           B == {u \in Threads : n \in th'[u].pins}
<1>1. A \in SUBSET Threads /\ B \in SUBSET Threads
  OBVIOUS
<1>2. \A u \in Threads \ {t} : u \in A <=> u \in B
  BY DEF Others
<1>3. (t \in A <=> n \in th[t].pins) /\ (t \in B <=> n \in th'[t].pins)
  OBVIOUS
<1>4. lpins[n] = Count(dentry[n].path) + Cardinality(A)
  BY DEF LowerPathsBalanced
<1> HIDE DEF A, B
<1>5. /\ Cardinality(A) \in Nat /\ Cardinality(B) \in Nat
      /\ Cardinality(B) = Cardinality(A) - Count(t \in A) + Count(t \in B)
  BY <1>1, <1>2, Constants, CountChange
<1>6. lpins'[n] = lpins[n] - Count(dentry[n].path) + Count(dentry'[n].path)
                    - Count(n \in th[t].pins) + Count(n \in th'[t].pins)
  OBVIOUS
<1>7. /\ Count(t \in A) = Count(n \in th[t].pins) /\ Count(t \in B) = Count(n \in th'[t].pins)
      /\ Count(dentry[n].path) \in Int /\ Count(dentry'[n].path) \in Int
      /\ Count(n \in th[t].pins) \in Int /\ Count(n \in th'[t].pins) \in Int
  BY <1>3 DEF Count
<1>8. lpins'[n] = Count(dentry'[n].path) + Cardinality(B)
  BY <1>4, <1>5, <1>6, <1>7
<1> QED BY <1>8 DEF B

LEMMA PathsStill ==
  ASSUME TypeInv, LowerPathsBalanced, th' = th,
         \A n \in Names :
           lpins'[n] = lpins[n] - Count(dentry[n].path) + Count(dentry'[n].path)
  PROVE  LowerPathsBalanced'
<1> SUFFICES ASSUME NEW n \in Names
             PROVE  lpins'[n] = Count(dentry'[n].path)
                                  + Cardinality({u \in Threads : n \in th[u].pins})
  BY DEF LowerPathsBalanced
<1> DEFINE A == {u \in Threads : n \in th[u].pins}
<1>1. lpins[n] = Count(dentry[n].path) + Cardinality(A)
  BY DEF LowerPathsBalanced
<1>2. A \in SUBSET Threads
  OBVIOUS
<1> HIDE DEF A
<1>3. Cardinality(A) \in Nat
  BY <1>2, Constants, FS_Subset, FS_CardinalityType
<1>4. /\ lpins'[n] = lpins[n] - Count(dentry[n].path) + Count(dentry'[n].path)
      /\ Count(dentry[n].path) \in Int /\ Count(dentry'[n].path) \in Int
  BY DEF Count
<1>5. lpins'[n] = Count(dentry'[n].path) + Cardinality(A)
  BY <1>1, <1>3, <1>4
<1> QED BY <1>5 DEF A

(* The references on a lower inode.                                          *)
NamesOf(l) == {n \in Names : link[n] = l}
SlotsOf(l) == {i \in Slots : inode[i].lower = l}

LEMMA LowerCounts ==
  ASSUME NEW l
  PROVE  Cardinality(NamesOf(l)) \in Nat /\ Cardinality(SlotsOf(l)) \in Nat
BY Constants, FS_Subset, FS_CardinalityType DEF NamesOf, SlotsOf

(* A step that gives or takes no inode: only the lower dentry d changes.     *)
LEMMA LowersByName ==
  ASSUME TypeInv, TypeInv', LowerInodesBalanced, NEW d \in Names,
         \A n \in Names \ {d} : link'[n] = link[n],
         \A i \in Slots : inode'[i].lower = inode[i].lower,
         \A l \in Lowers :
           lcount'[l] = lcount[l] - Count(link[d] = l) + Count(link'[d] = l)
                          + nfsgot'[l] - nfsgot[l] - overput'[l] + overput[l]
  PROVE  LowerInodesBalanced'
<1>1. ASSUME NEW l \in Lowers
      PROVE  lcount'[l] = Cardinality(NamesOf(l)') + Cardinality(SlotsOf(l)')
                            + nfsgot'[l] - overput'[l]
  <2>1. SlotsOf(l)' = SlotsOf(l)
    BY DEF SlotsOf
  <2>2. NamesOf(l) \in SUBSET Names /\ NamesOf(l)' \in SUBSET Names
        /\ (d \in NamesOf(l) <=> link[d] = l) /\ (d \in NamesOf(l)' <=> link'[d] = l)
        /\ \A n \in Names \ {d} : n \in NamesOf(l) <=> n \in NamesOf(l)'
    BY DEF NamesOf
  <2>3. Cardinality(NamesOf(l)')
          = Cardinality(NamesOf(l)) - Count(d \in NamesOf(l)) + Count(d \in NamesOf(l)')
    BY <2>2, Constants, CountChange
  <2>4. /\ Count(d \in NamesOf(l)) = Count(link[d] = l)
        /\ Count(d \in NamesOf(l)') = Count(link'[d] = l)
        /\ Count(link[d] = l) \in Int /\ Count(link'[d] = l) \in Int
    BY <2>2 DEF Count
  <2>5. lcount[l] = Cardinality(NamesOf(l)) + Cardinality(SlotsOf(l)) + nfsgot[l] - overput[l]
    BY DEF LowerInodesBalanced, NamesOf, SlotsOf
  <2>6. /\ nfsgot[l] \in Int /\ nfsgot'[l] \in Int /\ overput[l] \in Int
        /\ overput'[l] \in Int /\ lcount[l] \in Int
    BY DEF TypeInv
  <2>7. lcount'[l] = lcount[l] - Count(link[d] = l) + Count(link'[d] = l)
                       + nfsgot'[l] - nfsgot[l] - overput'[l] + overput[l]
    OBVIOUS
  <2> QED BY <2>1, <2>3, <2>4, <2>5, <2>6, <2>7, LowerCounts
<1> QED BY <1>1 DEF LowerInodesBalanced, NamesOf, SlotsOf

(* A step that gives or takes the lower inode of inode s.                    *)
LEMMA LowersBySlot ==
  ASSUME TypeInv, TypeInv', LowerInodesBalanced, NEW s \in Slots, link' = link,
         \A i \in Slots \ {s} : inode'[i].lower = inode[i].lower,
         nfsgot' = nfsgot, overput' = overput,
         \A l \in Lowers :
           lcount'[l] = lcount[l] - Count(inode[s].lower = l) + Count(inode'[s].lower = l)
  PROVE  LowerInodesBalanced'
<1>1. ASSUME NEW l \in Lowers
      PROVE  lcount'[l] = Cardinality(NamesOf(l)') + Cardinality(SlotsOf(l)')
                            + nfsgot'[l] - overput'[l]
  <2>1. NamesOf(l)' = NamesOf(l)
    BY DEF NamesOf
  <2>2. SlotsOf(l) \in SUBSET Slots /\ SlotsOf(l)' \in SUBSET Slots
        /\ (s \in SlotsOf(l) <=> inode[s].lower = l)
        /\ (s \in SlotsOf(l)' <=> inode'[s].lower = l)
        /\ \A i \in Slots \ {s} : i \in SlotsOf(l) <=> i \in SlotsOf(l)'
    BY DEF SlotsOf
  <2>3. Cardinality(SlotsOf(l)')
          = Cardinality(SlotsOf(l)) - Count(s \in SlotsOf(l)) + Count(s \in SlotsOf(l)')
    BY <2>2, Constants, CountChange
  <2>4. /\ Count(s \in SlotsOf(l)) = Count(inode[s].lower = l)
        /\ Count(s \in SlotsOf(l)') = Count(inode'[s].lower = l)
        /\ Count(inode[s].lower = l) \in Int /\ Count(inode'[s].lower = l) \in Int
    BY <2>2 DEF Count
  <2>5. lcount[l] = Cardinality(NamesOf(l)) + Cardinality(SlotsOf(l)) + nfsgot[l] - overput[l]
    BY DEF LowerInodesBalanced, NamesOf, SlotsOf
  <2>6. nfsgot[l] \in Int /\ overput[l] \in Int /\ lcount[l] \in Int
    BY DEF TypeInv
  <2>7. lcount'[l] = lcount[l] - Count(inode[s].lower = l) + Count(inode'[s].lower = l)
    OBVIOUS
  <2> QED BY <2>1, <2>3, <2>4, <2>5, <2>6, <2>7, LowerCounts
<1> QED BY <1>1 DEF LowerInodesBalanced, NamesOf, SlotsOf

-----------------------------------------------------------------------------
(* The references on an inode are counted; without any, nobody refers to it. *)
LEMMA HoldersType ==
  ASSUME NEW i
  PROVE  /\ Cardinality(DentriesOf(i)) \in Nat /\ Cardinality(ThreadsOf(i)) \in Nat
         /\ Holders(i) \in Nat
         /\ Holders(i) = 0 =>
              /\ \A n \in Names : dentry[n].ino # i
              /\ \A t \in Threads : th[t].ino # i
              /\ i \notin anon
<1>1. /\ IsFiniteSet(DentriesOf(i)) /\ Cardinality(DentriesOf(i)) \in Nat
      /\ IsFiniteSet(ThreadsOf(i)) /\ Cardinality(ThreadsOf(i)) \in Nat
  BY Constants, FS_Subset, FS_CardinalityType DEF DentriesOf, ThreadsOf
<1>2. /\ Cardinality(DentriesOf(i)) = 0 => DentriesOf(i) = {}
      /\ Cardinality(ThreadsOf(i)) = 0 => ThreadsOf(i) = {}
  BY <1>1, FS_EmptySet
<1>3. Holders(i) \in Nat
  BY <1>1 DEF Holders, Count
<1>4. ASSUME Holders(i) = 0
      PROVE  Cardinality(DentriesOf(i)) = 0 /\ Cardinality(ThreadsOf(i)) = 0 /\ i \notin anon
  BY <1>1, <1>4 DEF Holders, Count
<1>5. ASSUME Holders(i) = 0
      PROVE  /\ \A n \in Names : dentry[n].ino # i
             /\ \A t \in Threads : th[t].ino # i
             /\ i \notin anon
  BY <1>2, <1>4, <1>5 DEF DentriesOf, ThreadsOf
<1> QED BY <1>1, <1>3, <1>5

(* The same after a step.                                                    *)
LEMMA NoHolder ==
  ASSUME NEW i
  PROVE  Holders(i)' = 0 =>
           /\ \A n \in Names : dentry'[n].ino # i
           /\ \A t \in Threads : th'[t].ino # i
           /\ i \notin anon'
<1>1. /\ IsFiniteSet(DentriesOf(i)') /\ Cardinality(DentriesOf(i)') \in Nat
      /\ IsFiniteSet(ThreadsOf(i)') /\ Cardinality(ThreadsOf(i)') \in Nat
  BY Constants, FS_Subset, FS_CardinalityType DEF DentriesOf, ThreadsOf
<1>2. /\ Cardinality(DentriesOf(i)') = 0 => DentriesOf(i)' = {}
      /\ Cardinality(ThreadsOf(i)') = 0 => ThreadsOf(i)' = {}
  BY <1>1, FS_EmptySet
<1>3. ASSUME Holders(i)' = 0
      PROVE  Cardinality(DentriesOf(i)') = 0 /\ Cardinality(ThreadsOf(i)') = 0 /\ i \notin anon'
  BY <1>1, <1>3 DEF Holders, Count
<1> QED BY <1>2, <1>3 DEF DentriesOf, ThreadsOf

LEMMA DentriesChange ==
  ASSUME NEW i, NEW d \in Names, \A n \in Names \ {d} : dentry'[n].ino = dentry[n].ino
  PROVE  /\ Cardinality(DentriesOf(i)') \in Nat
         /\ Cardinality(DentriesOf(i)')
              = Cardinality(DentriesOf(i)) - Count(dentry[d].ino = i) + Count(dentry'[d].ino = i)
<1>1. DentriesOf(i) \in SUBSET Names /\ DentriesOf(i)' \in SUBSET Names
      /\ (d \in DentriesOf(i) <=> dentry[d].ino = i)
      /\ (d \in DentriesOf(i)' <=> dentry'[d].ino = i)
      /\ \A n \in Names \ {d} : n \in DentriesOf(i) <=> n \in DentriesOf(i)'
  BY DEF DentriesOf
<1>2. /\ Cardinality(DentriesOf(i)) \in Nat /\ Cardinality(DentriesOf(i)') \in Nat
      /\ Cardinality(DentriesOf(i)')
           = Cardinality(DentriesOf(i)) - Count(d \in DentriesOf(i)) + Count(d \in DentriesOf(i)')
  BY <1>1, Constants, CountChange
<1> QED BY <1>1, <1>2 DEF Count

LEMMA ThreadsChange ==
  ASSUME NEW i, NEW t \in Threads, Others(t)
  PROVE  /\ Cardinality(ThreadsOf(i)') \in Nat
         /\ Cardinality(ThreadsOf(i)')
              = Cardinality(ThreadsOf(i)) - Count(th[t].ino = i) + Count(th'[t].ino = i)
<1>1. ThreadsOf(i) \in SUBSET Threads /\ ThreadsOf(i)' \in SUBSET Threads
      /\ (t \in ThreadsOf(i) <=> th[t].ino = i)
      /\ (t \in ThreadsOf(i)' <=> th'[t].ino = i)
      /\ \A u \in Threads \ {t} : u \in ThreadsOf(i) <=> u \in ThreadsOf(i)'
  BY DEF ThreadsOf, Others
<1>2. /\ Cardinality(ThreadsOf(i)) \in Nat /\ Cardinality(ThreadsOf(i)') \in Nat
      /\ Cardinality(ThreadsOf(i)')
           = Cardinality(ThreadsOf(i)) - Count(t \in ThreadsOf(i)) + Count(t \in ThreadsOf(i)')
  BY <1>1, Constants, CountChange
<1> QED BY <1>1, <1>2 DEF Count

(* What a step of thread t does to the references on inode i, when it        *)
(* changes no dentry but d's.                                                *)
LEMMA HoldersChange ==
  ASSUME NEW i, NEW t \in Threads, Others(t), NEW d \in Names,
         \A n \in Names \ {d} : dentry'[n].ino = dentry[n].ino
  PROVE  /\ Holders(i) \in Nat /\ Holders(i)' \in Nat
         /\ Holders(i)' = Holders(i) - Count(dentry[d].ino = i) + Count(dentry'[d].ino = i)
                            - Count(th[t].ino = i) + Count(th'[t].ino = i)
                            - Count(i \in anon) + Count(i \in anon')
<1>1. /\ Cardinality(DentriesOf(i)) \in Nat /\ Cardinality(DentriesOf(i)') \in Nat
      /\ Cardinality(DentriesOf(i)')
           = Cardinality(DentriesOf(i)) - Count(dentry[d].ino = i) + Count(dentry'[d].ino = i)
  BY DentriesChange, HoldersType
<1>2. /\ Cardinality(ThreadsOf(i)) \in Nat /\ Cardinality(ThreadsOf(i)') \in Nat
      /\ Cardinality(ThreadsOf(i)')
           = Cardinality(ThreadsOf(i)) - Count(th[t].ino = i) + Count(th'[t].ino = i)
  BY ThreadsChange, HoldersType
<1>3. /\ Holders(i) = Cardinality(DentriesOf(i)) + Cardinality(ThreadsOf(i)) + Count(i \in anon)
      /\ Holders(i)' = Cardinality(DentriesOf(i)') + Cardinality(ThreadsOf(i)')
                         + Count(i \in anon')
  BY DEF Holders
<1>4. /\ Count(dentry[d].ino = i) \in Int /\ Count(dentry'[d].ino = i) \in Int
      /\ Count(th[t].ino = i) \in Int /\ Count(th'[t].ino = i) \in Int
      /\ Count(i \in anon) \in Nat /\ Count(i \in anon') \in Nat
  BY DEF Count
<1> QED BY <1>1, <1>2, <1>3, <1>4

(* The same for a step of the caches.                                        *)
LEMMA HoldersDrop ==
  ASSUME NEW i, th' = th, NEW d \in Names,
         \A n \in Names \ {d} : dentry'[n].ino = dentry[n].ino
  PROVE  /\ Holders(i) \in Nat /\ Holders(i)' \in Nat
         /\ Holders(i)' = Holders(i) - Count(dentry[d].ino = i) + Count(dentry'[d].ino = i)
                            - Count(i \in anon) + Count(i \in anon')
<1>1. /\ Cardinality(DentriesOf(i)) \in Nat /\ Cardinality(DentriesOf(i)') \in Nat
      /\ Cardinality(DentriesOf(i)')
           = Cardinality(DentriesOf(i)) - Count(dentry[d].ino = i) + Count(dentry'[d].ino = i)
  BY DentriesChange, HoldersType
<1>2. Cardinality(ThreadsOf(i)) \in Nat /\ ThreadsOf(i)' = ThreadsOf(i)
  BY HoldersType DEF ThreadsOf
<1>3. /\ Holders(i) = Cardinality(DentriesOf(i)) + Cardinality(ThreadsOf(i)) + Count(i \in anon)
      /\ Holders(i)' = Cardinality(DentriesOf(i)') + Cardinality(ThreadsOf(i)')
                         + Count(i \in anon')
  BY DEF Holders
<1>4. /\ Count(dentry[d].ino = i) \in Int /\ Count(dentry'[d].ino = i) \in Int
      /\ Count(i \in anon) \in Nat /\ Count(i \in anon') \in Nat
  BY DEF Count
<1> QED BY <1>1, <1>2, <1>3, <1>4

(* The only thread that refers to an inode with one reference.               *)
LEMMA SoleHolder ==
  ASSUME NEW i, NEW t \in Threads, th[t].ino = i, Holders(i) = 1
  PROVE  /\ \A u \in Threads \ {t} : th[u].ino # i
         /\ \A n \in Names : dentry[n].ino # i
         /\ i \notin anon
<1>1. /\ IsFiniteSet(DentriesOf(i)) /\ Cardinality(DentriesOf(i)) \in Nat
      /\ IsFiniteSet(ThreadsOf(i)) /\ Cardinality(ThreadsOf(i)) \in Nat
  BY Constants, FS_Subset, FS_CardinalityType DEF DentriesOf, ThreadsOf
<1>2. t \in ThreadsOf(i)
  BY DEF ThreadsOf
<1>3. /\ IsFiniteSet(ThreadsOf(i) \ {t})
      /\ Cardinality(ThreadsOf(i) \ {t}) = Cardinality(ThreadsOf(i)) - 1
      /\ Cardinality(ThreadsOf(i) \ {t}) \in Nat
  BY <1>1, <1>2, FS_RemoveElement, FS_CardinalityType
<1>4. /\ Cardinality(ThreadsOf(i) \ {t}) = 0 /\ Cardinality(DentriesOf(i)) = 0
      /\ i \notin anon
  BY <1>1, <1>3 DEF Holders, Count
<1>5. ThreadsOf(i) \ {t} = {} /\ DentriesOf(i) = {}
  BY <1>1, <1>3, <1>4, FS_EmptySet
<1> QED BY <1>4, <1>5 DEF ThreadsOf, DentriesOf

(* A step of thread t that changes no inode, but may pass its reference on.  *)
LEMMA InodesMoved ==
  ASSUME InodeInv, NEW t \in Threads, Others(t), inode' = inode,
         \A i \in Slots : Holders(i)' = Holders(i),
         \A n \in Names : dentry'[n].ino # NoSlot => inode[dentry'[n].ino].st = "live",
         \A i \in anon' : inode[i].st = "live", HoldsLive(t)'
  PROVE  InodeInv'
<1>1. ASSUME NEW i \in Slots PROVE InodeOK(i)' /\ Counted(i)'
  BY DEF InodeInv, InodeOK, Counted
<1>2. ASSUME NEW u \in Threads PROVE HoldsLive(u)'
  <2>1. CASE u = t
    BY <2>1
  <2>2. CASE u # t
    BY <2>2 DEF Others, HoldsLive, InodeInv
  <2> QED BY <2>1, <2>2
<1> QED BY <1>1, <1>2 DEF InodeInv

(* A step of thread t that moves no reference.                               *)
LEMMA InodesKept ==
  ASSUME InodeInv, NEW t \in Threads, Others(t), inode' = inode, anon' = anon,
         \A n \in Names : dentry'[n].ino = dentry[n].ino,
         th'[t].ino = th[t].ino, HoldsLive(t)'
  PROVE  InodeInv'
<1>1. ASSUME NEW i \in Slots PROVE Holders(i)' = Holders(i)
  <2>1. DentriesOf(i)' = DentriesOf(i) /\ ThreadsOf(i)' = ThreadsOf(i)
    BY DEF DentriesOf, ThreadsOf, Others
  <2> QED BY <2>1 DEF Holders
<1>2. /\ \A n \in Names : dentry'[n].ino # NoSlot => inode[dentry'[n].ino].st = "live"
      /\ \A i \in anon' : inode[i].st = "live"
  BY DEF InodeInv
<1> QED BY <1>1, <1>2, InodesMoved

(* A step of a thread that has and gets no inode.                            *)
LEMMA InodesAside ==
  ASSUME InodeInv, NEW t \in Threads, Others(t), inode' = inode, anon' = anon,
         \A n \in Names : dentry'[n].ino = dentry[n].ino,
         th'[t].ino = NoSlot, th[t].ino = NoSlot
  PROVE  InodeInv'
<1>1. HoldsLive(t)'
  BY DEF HoldsLive
<1> QED BY <1>1, InodesKept

(* A reference on inode s is put, and s is evicted if it was the last.       *)
LEMMA InodePut ==
  ASSUME TypeInv, InodeInv, NEW s \in Slots, inode[s].st = "live", inode' = Iput(s),
         \A i \in Slots \ {s} : Holders(i)' = Holders(i),
         Holders(s)' = Holders(s) - 1,
         \A n \in Names : dentry'[n].ino \in {dentry[n].ino, NoSlot},
         anon' \subseteq anon,
         \A u \in Threads : th'[u] = th[u] \/ th'[u].ino = NoSlot
  PROVE  InodeInv'
<1>1. /\ \A j \in Slots \ {s} : inode'[j] = inode[j]
      /\ inode'[s].count = inode[s].count - 1 /\ inode'[s].lower = inode[s].lower
      /\ inode'[s].st = IF inode[s].count = 1 THEN "freeing" ELSE inode[s].st
  BY IputEffect DEF TypeInv
<1>2. /\ inode[s].count = Holders(s) /\ Holders(s) \in Nat /\ inode[s].count > 0
      /\ inode[s].lower \in Lowers
  BY HoldersType DEF InodeInv, Counted, InodeOK
<1>3. /\ inode'[s].count = Holders(s)' /\ Holders(s)' \in Nat
      /\ Holders(s)' = 0 => inode'[s].st = "freeing"
      /\ Holders(s)' # 0 => inode'[s].st = "live"
  BY <1>1, <1>2
<1>4. ASSUME NEW i \in Slots PROVE InodeOK(i)' /\ Counted(i)'
  <2>1. CASE i = s
    BY <1>1, <1>2, <1>3, <2>1 DEF InodeOK, Counted
  <2>2. CASE i # s
    <3>1. inode'[i] = inode[i] /\ InodeOK(i) /\ Counted(i) /\ Holders(i)' = Holders(i)
      BY <1>1, <2>2 DEF InodeInv
    <3> QED BY <3>1 DEF InodeOK, Counted
  <2> QED BY <2>1, <2>2
<1>5. Holders(s)' = 0 =>
        /\ \A n \in Names : dentry'[n].ino # s
        /\ \A t \in Threads : th'[t].ino # s
        /\ s \notin anon'
  BY NoHolder
<1>6. ASSUME NEW n \in Names, dentry'[n].ino # NoSlot
      PROVE  inode'[dentry'[n].ino].st = "live"
  <2>1. dentry'[n].ino = dentry[n].ino /\ dentry[n].ino \in Slots
    BY <1>6 DEF TypeInv, Dentry
  <2>2. inode[dentry[n].ino].st = "live"
    BY <1>6, <2>1 DEF InodeInv
  <2> QED BY <1>1, <1>3, <1>5, <2>1, <2>2
<1>7. ASSUME NEW i \in anon' PROVE inode'[i].st = "live"
  <2>1. i \in Slots /\ inode[i].st = "live"
    BY DEF InodeInv, TypeInv
  <2> QED BY <1>1, <1>3, <1>5, <2>1
<1>8. ASSUME NEW u \in Threads, th'[u].ino # NoSlot PROVE HoldsLive(u)'
  <2>1. th'[u] = th[u] /\ th[u].ino \in Slots /\ HoldsLive(u)
    BY <1>8 DEF TypeInv, Thread, InodeInv
  <2>2. inode'[th[u].ino].st = inode[th[u].ino].st
        /\ inode'[th[u].ino].lower = inode[th[u].ino].lower
    BY <1>1, <1>3, <1>5, <2>1
  <2> QED BY <2>1, <2>2 DEF HoldsLive
<1> QED BY <1>4, <1>6, <1>7, <1>8 DEF InodeInv, HoldsLive

(* No thread gets to trfs_inode_set, and no inode comes to life.             *)
LEMMA TwinKept ==
  ASSUME TwinInv, twins \subseteq twins',
         \A i \in Slots : inode'[i].st = "live" =>
           inode[i].st = "live" /\ inode'[i].lower = inode[i].lower,
         \A u \in Threads : th'[u].pc = "set" => th[u].pc = "set" /\ th'[u].l = th[u].l
  PROVE  TwinInv'
<1>1. OneInode'
  BY DEF TwinInv, OneInode
<1>2. ASSUME NEW t \in Threads, th'[t].pc = "set"
      PROVE  /\ \A u \in Threads : u # t /\ th'[u].pc = "set" /\ th'[u].l = th'[t].l
                  => th'[t].l \in twins'
             /\ \A i \in Slots : inode'[i].st = "live" /\ inode'[i].lower = th'[t].l
                  => th'[t].l \in twins'
  BY <1>2 DEF TwinInv
<1> QED BY <1>1, <1>2 DEF TwinInv

(* A step inside a mounted file system.                                      *)
LEMMA SbMounted ==
  ASSUME SbInv, sb = "mounted", UNCHANGED mvars, NEW t \in Threads, Others(t),
         th'[t].op # "mount", dentry'[Root].st = "pos"
  PROVE  SbInv'
<1>1. ASSUME NEW u \in Threads PROVE th'[u].op # "mount"
  <2>1. CASE u = t
    BY <2>1
  <2>2. CASE u # t
    BY <2>2 DEF SbInv, Mounting, Others
  <2> QED BY <2>1, <2>2
<1> QED BY <1>1 DEF SbInv, Mounting, mvars

(* A step of trfs_iget, inside a mounted file system or for a mount.         *)
LEMMA SbIget ==
  ASSUME TypeInv, SbInv, UNCHANGED mvars, NEW t \in Threads, Others(t), th[t].pc \in Iget,
         th'[t].op = th[t].op, th'[t].pc \in Iget \cup {"fail"},
         dentry' = dentry, anon' = anon
  PROVE  SbInv'
<1>1. sb \in {"mounting", "mounted"}
  BY DEF SbInv, Iget, TypeInv
<1>2. \A u \in Threads : th'[u].op = th[u].op
  BY DEF Others
<1>3. ASSUME NEW u \in Threads PROVE Mounting(u)'
  <2>1. Mounting(u) /\ Mounting(t)
    BY DEF SbInv
  <2>2. CASE u = t
    BY <2>1, <2>2 DEF Mounting, Iget, mvars
  <2>3. CASE u # t
    BY <2>1, <2>3 DEF Mounting, Others, mvars
  <2> QED BY <2>2, <2>3
<1> QED BY <1>1, <1>2, <1>3 DEF SbInv, mvars

(* A thread outside trfs has got nothing.                                    *)
LEMMA OutsideHasNothing ==
  ASSUME CallInv, NEW t \in Threads, th[t].pc = "idle"
  PROVE  /\ th[t].op = "none" /\ th[t].n = Root /\ th[t].l = NoLower /\ th[t].ino = NoSlot
         /\ th[t].pins = {}
BY RecordTypes DEF CallInv, ThreadOK

(* Two calls that the lock of a directory serialises work on two names.      *)
LEMMA ApartNames ==
  ASSUME CallInv, NEW t \in Threads, NEW u \in Threads, t # u,
         th[t].op \in Locked, th[u].op \in Locked
  PROVE  th[t].n # th[u].n
BY DEF CallInv, Apart

(* What every call that enters trfs keeps, from outside or from the VFS that *)
(* has a negative dentry.                                                    *)
LEMMA EnterKeeps ==
  ASSUME MountInv, sb = "mounted", UNCHANGED mvars, NEW t \in Threads, Others(t),
         th' \in [Threads -> Thread], th[t].pc \in {"idle", "neg"},
         th'[t].pc # "set", th'[t].op # "mount", th'[t].ino = NoSlot,
         lpins' = Get(th'[t].pins), UNCHANGED <<inode, anon, twins>>,
         \A m \in Names : dentry'[m].ino = dentry[m].ino /\ dentry'[m].path = dentry[m].path,
         dentry'[Root].st = "pos"
  PROVE  /\ InodeInv' /\ TwinInv' /\ SbInv' /\ LowerPathsBalanced'
         /\ lpins' \in [Names -> Int] /\ (th[t].pc = "idle" => th[t].op = "none")
<1>1. TypeInv /\ CallInv /\ InodeInv /\ TwinInv /\ SbInv /\ LowerPathsBalanced
  BY DEF MountInv
<1> DEFINE pins == th'[t].pins
<1>3. /\ th[t].ino = NoSlot /\ th[t].pins = {}
      /\ th[t].pc = "idle" => th[t].op = "none"
  <2>1. CASE th[t].pc = "idle"
    BY <1>1, <2>1, OutsideHasNothing
  <2>2. CASE th[t].pc = "neg"
    BY <1>1, <2>2 DEF CallInv, ThreadOK
  <2> QED BY <2>1, <2>2
<1>4. lpins' \in [Names -> Int] /\ \A m \in Names : lpins'[m] = lpins[m] + Count(m \in pins)
  BY <1>1, PinEffect DEF TypeInv
<1>5. InodeInv'
  BY <1>1, <1>3, InodesAside
<1>6. TwinInv'
  <2>1. \A u \in Threads : th'[u].pc = "set" => th[u].pc = "set" /\ th'[u].l = th[u].l
    BY DEF Others
  <2> QED BY <1>1, <2>1, TwinKept
<1>7. SbInv'
  BY <1>1, SbMounted
<1>8. LowerPathsBalanced'
  <2>1. ASSUME NEW m \in Names
        PROVE  lpins'[m] = lpins[m] - Count(dentry[m].path) + Count(dentry'[m].path)
                             - Count(m \in th[t].pins) + Count(m \in th'[t].pins)
    <3>1. Count(m \in th[t].pins) = 0 /\ Count(dentry'[m].path) = Count(dentry[m].path)
          /\ Count(dentry[m].path) \in Int /\ lpins[m] \in Int /\ Count(m \in pins) \in Int
      BY <1>1, <1>3 DEF Count, TypeInv
    <3> QED BY <1>4, <3>1
  <2> QED BY <1>1, <2>1, PathsStep
<1> QED BY <1>3, <1>4, <1>5, <1>6, <1>7, <1>8

-----------------------------------------------------------------------------
(* trfs_lookup begins.                                                       *)
LEMMA LookupKeeps ==
  ASSUME MountInv, sb = "mounted", UNCHANGED mvars, NEW t \in Threads, NEW n \in Names,
         trfs_lookup(t, n)
  PROVE  MountInv'
<1>1. /\ TypeInv /\ CallInv /\ DentryInv /\ LowerInodesBalanced /\ SbInv
      /\ \A m \in Names : Stands(m)
  BY DEF MountInv
<1>2. /\ n # Root /\ dentry[n].st = "none" /\ dentry[ParentOf[n]].st = "pos"
      /\ DirFree(ParentOf[n]) /\ Begin(t, "lookup", n, "data", {ParentOf[n]})
      /\ lpins' = Get({ParentOf[n]}) /\ dentry' = [dentry EXCEPT ![n].st = "looking"]
      /\ UNCHANGED <<link, removed, lcount, inode, anon, overput, nfsgot, twins>>
  BY DEF trfs_lookup, lower, hist
<1>3. ParentOf[n] \in Names /\ {ParentOf[n]} \in SUBSET Names
  BY <1>2, Constants
<1>4. dentry[n].ino = NoSlot /\ ~dentry[n].data /\ ~dentry[n].path /\ n \notin removed
  BY <1>1, <1>2, RecordTypes DEF DentryInv, DentryOK
<1>5. /\ dentry' \in [Names -> Dentry] /\ \A m \in Names \ {n} : dentry'[m] = dentry[m]
      /\ dentry'[n].st = "looking" /\ dentry'[n].ino = NoSlot
      /\ dentry'[n].data = dentry[n].data /\ dentry'[n].path = dentry[n].path
  BY <1>1, <1>2, <1>4 DEF TypeInv, Dentry
<1>6. dentry'[Root].st = "pos"
  BY <1>1, <1>2, <1>5, Constants DEF SbInv
<1>7. \A m \in Names : dentry'[m].ino = dentry[m].ino /\ dentry'[m].path = dentry[m].path
  BY <1>4, <1>5
<1>8. /\ th' \in [Threads -> Thread] /\ Others(t) /\ th[t].pc = "idle"
      /\ th'[t].pc = "data" /\ th'[t].op = "lookup" /\ th'[t].n = n
      /\ th'[t].l = NoLower /\ th'[t].ino = NoSlot /\ th'[t].pins = {ParentOf[n]}
  <2>1. "lookup" \in Ops /\ "data" \in Labels
    BY DEF Ops, Labels
  <2> QED BY <1>1, <1>2, <1>3, <2>1, BeginEffect DEF TypeInv
<1>14. /\ InodeInv' /\ TwinInv' /\ SbInv' /\ LowerPathsBalanced'
       /\ lpins' \in [Names -> Int] /\ th[t].op = "none"
  BY <1>2, <1>6, <1>7, <1>8, EnterKeeps
<1>9. TypeInv'
  BY <1>1, <1>2, <1>5, <1>8, <1>14 DEF TypeInv, mvars
<1>10. CallInv'
  <2>1. ThreadOK(t)'
    BY <1>2, <1>8, <1>14 DEF ThreadOK, Iget, Locked
  <2>2. DentryOf(t)'
    BY <1>4, <1>5, <1>8, <1>14 DEF DentryOf, Iget
  <2>3. ASSUME NEW u \in Threads \ {t}, th[u].op \in {"lookup", "create"}
        PROVE  dentry'[th[u].n] = dentry[th[u].n]
    <3>1. th[u].n # n /\ th[u].n \in Names
      BY <1>1, <1>2, <2>3 DEF DirFree, TypeInv, Thread
    <3> QED BY <1>5, <3>1
  <2> QED BY <1>1, <1>2, <1>8, <1>14, <2>1, <2>2, <2>3, CallStep DEF TypeInv
<1>11. DentryInv'
  <2>1. DentryOK(n)'
    BY <1>2, <1>4, <1>5, <1>8, <1>14 DEF DentryOK
  <2>2. link'[Root] # NoLower
    BY <1>1, <1>2 DEF DentryInv
  <2> QED BY <1>1, <1>2, <1>5, <1>8, <1>14, <2>1, <2>2, DentryChange
<1>12. ASSUME NEW m \in Names PROVE Stands(m)'
  <2>1. CASE m = n
    BY <1>5, <2>1 DEF Stands
  <2>2. CASE m # n
    <3>2. Stands(m)
      BY <1>1
    <3>3. dentry[m].st = "pos" => inode'[dentry[m].ino].st = "live"
      BY <1>2, <3>2 DEF Stands
    <3> QED BY <1>2, <1>5, <2>2, <3>2, <3>3, StandsKept
  <2> QED BY <2>1, <2>2
<1>13. LowerInodesBalanced'
  BY <1>1, <1>2 DEF LowerInodesBalanced
<1> QED BY <1>8, <1>14, <1>9, <1>10, <1>11, <1>12, <1>13 DEF MountInv

(* A name is made below: create, mkdir, mknod, symlink and link.             *)
LEMMA MadeKeeps ==
  ASSUME MountInv, sb = "mounted", UNCHANGED mvars, NEW t \in Threads, NEW n \in Names,
         NEW pins \in SUBSET Names, NEW l \in Lowers,
         LookedUp(t, n), Start(t, "create", n, "interpose", pins),
         link[n] = NoLower, link' = [link EXCEPT ![n] = l],
         lcount' = [lcount EXCEPT ![l] = @ + 1], lpins' = Get(pins),
         UNCHANGED <<removed, inode, dentry, anon, overput, nfsgot, twins>>
  PROVE  MountInv'
<1>1. /\ TypeInv /\ CallInv /\ DentryInv /\ LowerInodesBalanced /\ SbInv
      /\ \A m \in Names : Stands(m)
  BY DEF MountInv
<1>2. /\ th[t].pc = "neg" /\ th[t].op = "lookup" /\ th[t].n = n
      /\ dentry[n].st = "neg" /\ n # Root
  BY <1>1 DEF LookedUp, CallInv, DentryOf, DentryInv
<1>3. /\ th' \in [Threads -> Thread] /\ Others(t)
      /\ th'[t].pc = "interpose" /\ th'[t].op = "create" /\ th'[t].n = n
      /\ th'[t].l = NoLower /\ th'[t].ino = NoSlot /\ th'[t].pins = pins
  <2>1. "create" \in Ops /\ "interpose" \in Labels
    BY DEF Ops, Labels
  <2> QED BY <1>1, <2>1, StartEffect DEF TypeInv
<1>4. dentry'[Root].st = "pos"
  BY <1>1 DEF SbInv
<1>5. /\ InodeInv' /\ TwinInv' /\ SbInv' /\ LowerPathsBalanced'
      /\ lpins' \in [Names -> Int]
  BY <1>2, <1>3, <1>4, EnterKeeps
<1>6. /\ link' \in [Names -> Lowers \cup {NoLower}] /\ link'[n] = l
      /\ \A m \in Names \ {n} : link'[m] = link[m]
  BY <1>1 DEF TypeInv
<1>7. lcount' \in [Lowers -> Int]
      /\ \A k \in Lowers : lcount'[k] = IF k = l THEN lcount[k] + 1 ELSE lcount[k]
  BY <1>1 DEF TypeInv
<1>8. l # NoLower
  BY Constants
<1>9. TypeInv'
  BY <1>1, <1>3, <1>5, <1>6, <1>7 DEF TypeInv, mvars
<1>10. CallInv'
  <2>1. ThreadOK(t)'
    BY <1>2, <1>3 DEF ThreadOK, Iget, Locked
  <2>2. DentryOf(t)'
    BY <1>2, <1>3, <1>6, <1>8 DEF DentryOf, Iget
  <2>3. ASSUME NEW u \in Threads \ {t}, th[u].op \in {"lookup", "create", "mount"}
        PROVE  link'[th[u].n] = link[th[u].n]
    <3>1. th[u].n \in Names /\ th[u].op # "mount"
      BY <1>1 DEF TypeInv, Thread, SbInv, Mounting
    <3>2. th[u].n # n
      BY <1>1, <1>2, <2>3, <3>1, ApartNames DEF Locked
    <3> QED BY <1>6, <3>1, <3>2
  <2> QED BY <1>1, <1>2, <1>3, <2>1, <2>2, <2>3, CallStep DEF TypeInv, Locked
<1>11. DentryInv'
  <2>1. DentryOK(n)
    BY <1>1 DEF DentryInv
  <2>2. DentryOK(n)'
    BY <1>2, <2>1 DEF DentryOK
  <2>3. link'[Root] # NoLower
    BY <1>1, <1>2, <1>6, Constants DEF DentryInv
  <2> QED BY <1>1, <1>2, <1>3, <1>5, <1>6, <2>2, <2>3, DentryChange
<1>12. ASSUME NEW m \in Names PROVE Stands(m)'
  <2>1. CASE m = n
    BY <1>2, <2>1 DEF Stands
  <2>2. CASE m # n
    <3>2. Stands(m)
      BY <1>1
    <3>3. dentry[m].st = "pos" => inode'[dentry[m].ino].st = "live"
      BY <3>2 DEF Stands
    <3> QED BY <1>6, <2>2, <3>2, <3>3, StandsKept
  <2> QED BY <2>1, <2>2
<1>13. LowerInodesBalanced'
  <2>1. ASSUME NEW k \in Lowers
        PROVE  lcount'[k] = lcount[k] - Count(link[n] = k) + Count(link'[n] = k)
                              + nfsgot'[k] - nfsgot[k] - overput'[k] + overput[k]
    <3>1. /\ Count(link[n] = k) = 0 /\ Count(link'[n] = k) = IF k = l THEN 1 ELSE 0
          /\ lcount[k] \in Int /\ nfsgot[k] \in Int /\ overput[k] \in Int
      BY <1>1, <1>6, Constants DEF Count, TypeInv
    <3> QED BY <1>7, <3>1
  <2> QED BY <1>1, <1>6, <1>9, <2>1, LowersByName
<1> QED BY <1>5, <1>9, <1>10, <1>11, <1>12, <1>13 DEF MountInv

(* The lower file system refuses to make a name.                             *)
LEMMA RefusedKeeps ==
  ASSUME MountInv, sb = "mounted", UNCHANGED mvars, NEW t \in Threads, NEW n \in Names,
         NEW pins \in SUBSET Names,
         LookedUp(t, n), Start(t, "create", n, "out", pins),
         lpins' = Get(pins),
         UNCHANGED <<link, lcount, removed, inode, dentry, anon, overput, nfsgot, twins>>
  PROVE  MountInv'
<1>1. /\ TypeInv /\ CallInv /\ DentryInv /\ LowerInodesBalanced /\ SbInv
      /\ \A m \in Names : Stands(m)
  BY DEF MountInv
<1>2. /\ th[t].pc = "neg" /\ th[t].op = "lookup" /\ th[t].n = n
      /\ dentry[n].st = "neg" /\ n # Root
  BY <1>1 DEF LookedUp, CallInv, DentryOf, DentryInv
<1>3. /\ th' \in [Threads -> Thread] /\ Others(t)
      /\ th'[t].pc = "out" /\ th'[t].op = "create" /\ th'[t].n = n
      /\ th'[t].l = NoLower /\ th'[t].ino = NoSlot /\ th'[t].pins = pins
  <2>1. "create" \in Ops /\ "out" \in Labels
    BY DEF Ops, Labels
  <2> QED BY <1>1, <2>1, StartEffect DEF TypeInv
<1>4. dentry'[Root].st = "pos"
  BY <1>1 DEF SbInv
<1>5. /\ InodeInv' /\ TwinInv' /\ SbInv' /\ LowerPathsBalanced'
      /\ lpins' \in [Names -> Int]
  BY <1>2, <1>3, <1>4, EnterKeeps
<1>9. TypeInv'
  BY <1>1, <1>3, <1>5 DEF TypeInv, mvars
<1>10. CallInv'
  <2>1. ThreadOK(t)'
    BY <1>2, <1>3 DEF ThreadOK, Iget, Locked
  <2>2. DentryOf(t)'
    BY <1>3 DEF DentryOf, Iget
  <2> QED BY <1>1, <1>2, <1>3, <2>1, <2>2, CallStep DEF TypeInv, Locked
<1>11. DentryInv'
  <2>1. \A m \in Names : dentry[m].st \in {"pos", "unhashed"} => link[m] # NoLower
    BY <1>1 DEF DentryInv, DentryOK
  <2> QED BY <1>1, <1>2, <1>3, <1>5, <2>1, DentryStep DEF DentryInv
<1>12. ASSUME NEW m \in Names PROVE Stands(m)'
  <2>2. Stands(m)
    BY <1>1
  <2>3. dentry[m].st = "pos" => inode'[dentry[m].ino].st = "live"
    BY <2>2 DEF Stands
  <2> QED BY <2>2, <2>3, StandsKept
<1>13. LowerInodesBalanced'
  BY <1>1 DEF LowerInodesBalanced
<1> QED BY <1>5, <1>9, <1>10, <1>11, <1>12, <1>13 DEF MountInv

LEMMA CreateKeeps ==
  ASSUME MountInv, sb = "mounted", UNCHANGED mvars, NEW t \in Threads, NEW n \in Names,
         trfs_create(t, n)
  PROVE  MountInv'
<1>1. /\ LookedUp(t, n) /\ lpins' = Get({n})
      /\ UNCHANGED <<removed, inode, dentry, anon, overput, nfsgot, twins>>
  BY DEF trfs_create, hist
<1>2. {n} \in SUBSET Names
  OBVIOUS
<1>3. ASSUME NEW l \in Lowers, link[n] = NoLower, lcount[l] = 0,
             Start(t, "create", n, "interpose", {n}),
             link' = [link EXCEPT ![n] = l], lcount' = [lcount EXCEPT ![l] = 1]
      PROVE  MountInv'
  <2>1. lcount' = [lcount EXCEPT ![l] = @ + 1]
    BY <1>3
  <2> QED BY <1>1, <1>2, <1>3, <2>1, MadeKeeps
<1>4. ASSUME Start(t, "create", n, "out", {n}), UNCHANGED <<link, lcount>>
      PROVE  MountInv'
  BY <1>1, <1>2, <1>4, RefusedKeeps
<1> QED BY <1>3, <1>4 DEF trfs_create

LEMMA LinkKeeps ==
  ASSUME MountInv, sb = "mounted", UNCHANGED mvars, NEW t \in Threads, NEW o \in Names,
         NEW n \in Names, trfs_link(t, o, n)
  PROVE  MountInv'
<1>1. /\ dentry[o].st = "pos" /\ LookedUp(t, n)
      /\ lpins' = Get({o, n})
      /\ UNCHANGED <<removed, inode, dentry, anon, overput, nfsgot, twins>>
  BY DEF trfs_link, hist
<1>2. {o, n} \in SUBSET Names
  OBVIOUS
<1>3. link[o] \in Lowers
  BY <1>1 DEF MountInv, DentryInv, DentryOK, TypeInv
<1>4. ASSUME link[n] = NoLower, Start(t, "create", n, "interpose", {o, n}),
             link' = [link EXCEPT ![n] = link[o]],
             lcount' = [lcount EXCEPT ![link[o]] = @ + 1]
      PROVE  MountInv'
  BY <1>1, <1>2, <1>3, <1>4, MadeKeeps
<1>5. ASSUME Start(t, "create", n, "out", {o, n}), UNCHANGED <<link, lcount>>
      PROVE  MountInv'
  BY <1>1, <1>2, <1>5, RefusedKeeps
<1> QED BY <1>4, <1>5 DEF trfs_link

(* A call that touches no dentry: the handlers that only forward, and NFS.   *)
LEMMA PassiveKeeps ==
  ASSUME MountInv, sb = "mounted", UNCHANGED mvars, NEW t \in Threads, Others(t),
         th' \in [Threads -> Thread], th[t].pc = "idle", th'[t].ino = NoSlot,
         \/ th'[t].op = "forward" /\ th'[t].pc = "out"
         \/ th'[t].op = "nfs" /\ th'[t].pc = "oops" /\ th'[t].pins = {}
         \/ th'[t].op = "nfs" /\ th'[t].pc = "find" /\ th'[t].pins = {} /\ th'[t].l \in Lowers,
         lpins' = Get(th'[t].pins),
         TypeInv', LowerInodesBalanced',
         UNCHANGED <<link, removed, inode, dentry, anon, twins>>
  PROVE  MountInv'
<1>1. /\ TypeInv /\ CallInv /\ DentryInv /\ SbInv /\ \A m \in Names : Stands(m)
  BY DEF MountInv
<1>2. /\ InodeInv' /\ TwinInv' /\ SbInv' /\ LowerPathsBalanced' /\ th[t].op = "none"
  <2>1. dentry'[Root].st = "pos"
    BY <1>1 DEF SbInv
  <2> QED BY <2>1, EnterKeeps
<1>10. CallInv'
  <2>1. ThreadOK(t)'
    BY DEF ThreadOK, Iget, Locked
  <2>2. DentryOf(t)'
    BY DEF DentryOf, Iget
  <2>3. th'[t].op \notin Locked
    BY DEF Locked
  <2> QED BY <1>1, <2>1, <2>2, <2>3, CallStep DEF TypeInv
<1>11. DentryInv'
  <2>1. \A m \in Names : dentry[m].st \in {"pos", "unhashed"} => link[m] # NoLower
    BY <1>1 DEF DentryInv, DentryOK
  <2> QED BY <1>1, <1>2, <2>1, DentryStep DEF DentryInv
<1>12. ASSUME NEW m \in Names PROVE Stands(m)'
  <2>2. Stands(m)
    BY <1>1
  <2>3. dentry[m].st = "pos" => inode'[dentry[m].ino].st = "live"
    BY <2>2 DEF Stands
  <2> QED BY <2>2, <2>3, StandsKept
<1> QED BY <1>2, <1>10, <1>11, <1>12 DEF MountInv

LEMMA ForwardKeeps ==
  ASSUME MountInv, sb = "mounted", UNCHANGED mvars, NEW t \in Threads, NEW n \in Names,
         Forward(t, n)
  PROVE  MountInv'
<1>1. TypeInv /\ CallInv /\ LowerInodesBalanced
  BY DEF MountInv
<1>2. /\ Begin(t, "forward", n, "out", {n}) /\ lpins' = Get({n})
      /\ UNCHANGED <<link, removed, lcount, inode, dentry, anon, overput, nfsgot, twins>>
  BY DEF Forward, lower, hist
<1>3. /\ th' \in [Threads -> Thread] /\ Others(t) /\ th[t].pc = "idle"
      /\ th'[t].pc = "out" /\ th'[t].op = "forward" /\ th'[t].n = n
      /\ th'[t].l = NoLower /\ th'[t].ino = NoSlot /\ th'[t].pins = {n}
  <2>1. "forward" \in Ops /\ "out" \in Labels /\ {n} \in SUBSET Names
    BY DEF Ops, Labels
  <2> QED BY <1>1, <1>2, <2>1, BeginEffect DEF TypeInv
<1>4. TypeInv'
  <2>1. lpins' \in [Names -> Int]
    BY <1>1, <1>2, PinEffect DEF TypeInv
  <2> QED BY <1>1, <1>2, <1>3, <2>1 DEF TypeInv, mvars
<1>5. LowerInodesBalanced'
  BY <1>1, <1>2 DEF LowerInodesBalanced
<1> QED BY <1>2, <1>3, <1>4, <1>5, PassiveKeeps

LEMMA GetNothing ==
  ASSUME lpins \in [Names -> Int]
  PROVE  Get({}) = lpins
BY DEF Get

(* NFS asks with a handle whose inode is not in memory, or uses an anonymous *)
(* dentry.                                                                   *)
LEMMA OopsKeeps ==
  ASSUME MountInv, sb = "mounted", UNCHANGED mvars, NEW t \in Threads,
         Begin(t, "nfs", Root, "oops", {}),
         UNCHANGED <<link, removed, lcount, lpins, inode, dentry, anon, overput, nfsgot, twins>>
  PROVE  MountInv'
<1>1. TypeInv /\ CallInv /\ LowerInodesBalanced
  BY DEF MountInv
<1>3. /\ th' \in [Threads -> Thread] /\ Others(t) /\ th[t].pc = "idle"
      /\ th'[t].pc = "oops" /\ th'[t].op = "nfs" /\ th'[t].n = Root
      /\ th'[t].l = NoLower /\ th'[t].ino = NoSlot /\ th'[t].pins = {}
  <2>1. "nfs" \in Ops /\ "oops" \in Labels /\ {} \in SUBSET Names /\ Root \in Names
    BY Constants DEF Ops, Labels
  <2> QED BY <1>1, <2>1, BeginEffect DEF TypeInv
<1>4. TypeInv'
  BY <1>1, <1>3 DEF TypeInv, mvars
<1>5. LowerInodesBalanced'
  BY <1>1 DEF LowerInodesBalanced
<1>6. lpins' = Get(th'[t].pins)
  BY <1>1, <1>3, GetNothing DEF TypeInv
<1> QED BY <1>3, <1>4, <1>5, <1>6, PassiveKeeps

LEMMA NfsKeeps ==
  ASSUME MountInv, sb = "mounted", UNCHANGED mvars, NEW t \in Threads, NEW l \in Lowers,
         trfs_nfs_get_inode(t, l)
  PROVE  MountInv'
<1>1. TypeInv /\ CallInv /\ LowerInodesBalanced
  BY DEF MountInv
<1>2. UNCHANGED <<link, removed, lpins, inode, dentry, anon, overput, twins>>
  BY DEF trfs_nfs_get_inode
<1>3. CASE Begin(t, "nfs", Root, "oops", {}) /\ UNCHANGED <<lcount, nfsgot>>
  BY <1>2, <1>3, OopsKeeps
<1>4. ASSUME th[t].pc = "idle",
             th' = [th EXCEPT ![t] = [Idle EXCEPT !.pc = "find", !.op = "nfs", !.l = l]],
             lcount' = [lcount EXCEPT ![l] = @ + 1], nfsgot' = [nfsgot EXCEPT ![l] = @ + 1]
      PROVE  MountInv'
  <2>1. /\ th' \in [Threads -> Thread] /\ Others(t)
        /\ th'[t].pc = "find" /\ th'[t].op = "nfs" /\ th'[t].l = l
        /\ th'[t].ino = NoSlot /\ th'[t].pins = {}
    <3>1. /\ [Idle EXCEPT !.pc = "find", !.op = "nfs", !.l = l] \in Thread
          /\ \A r : r = [Idle EXCEPT !.pc = "find", !.op = "nfs", !.l = l] =>
               r.pc = "find" /\ r.op = "nfs" /\ r.l = l /\ r.ino = NoSlot /\ r.pins = {}
      BY Constants DEF Idle, Thread, Labels, Ops
    <3> QED BY <1>1, <1>4, <3>1 DEF Others, TypeInv
  <2>2. /\ lcount' \in [Lowers -> Int] /\ nfsgot' \in [Lowers -> Nat]
        /\ \A k \in Lowers : /\ lcount'[k] = IF k = l THEN lcount[k] + 1 ELSE lcount[k]
                             /\ nfsgot'[k] = IF k = l THEN nfsgot[k] + 1 ELSE nfsgot[k]
    BY <1>1, <1>4 DEF TypeInv
  <2>3. TypeInv'
    BY <1>1, <1>2, <2>1, <2>2 DEF TypeInv, mvars
  <2>4. LowerInodesBalanced'
    <3>1. ASSUME NEW k \in Lowers
          PROVE  lcount'[k] = lcount[k] - Count(link[Root] = k) + Count(link'[Root] = k)
                                + nfsgot'[k] - nfsgot[k] - overput'[k] + overput[k]
      <4>1. /\ Count(link'[Root] = k) = Count(link[Root] = k) /\ Count(link[Root] = k) \in Int
            /\ lcount[k] \in Int /\ nfsgot[k] \in Int /\ overput[k] \in Int
            /\ overput'[k] = overput[k]
        BY <1>1, <1>2 DEF Count, TypeInv
      <4> QED BY <2>2, <4>1
    <3> QED BY <1>1, <1>2, <2>3, <3>1, LowersByName, Constants
  <2>5. lpins' = Get(th'[t].pins)
    BY <1>1, <1>2, <2>1, GetNothing DEF TypeInv
  <2> QED BY <1>2, <1>4, <2>1, <2>3, <2>4, <2>5, PassiveKeeps
<1> QED BY <1>3, <1>4 DEF trfs_nfs_get_inode

(* unlink and rmdir.                                                         *)
LEMMA UnlinkKeeps ==
  ASSUME MountInv, sb = "mounted", UNCHANGED mvars, NEW t \in Threads, NEW n \in Names,
         trfs_unlink(t, n)
  PROVE  MountInv'
<1>1. /\ TypeInv /\ CallInv /\ DentryInv /\ LowerInodesBalanced /\ SbInv
      /\ \A m \in Names : Stands(m)
  BY DEF MountInv
<1>2. /\ n # Root /\ dentry[n].st = "pos" /\ DirFree(ParentOf[n])
      /\ Begin(t, "unlink", n, "out", {n}) /\ lpins' = Get({n})
      /\ UNCHANGED <<link, lcount, inode, anon, overput, nfsgot, twins>>
      /\ \/ /\ removed' = removed \cup {n}
            /\ dentry' = [dentry EXCEPT ![n].st = "unhashed"]
         \/ UNCHANGED <<removed, dentry>>
  BY DEF trfs_unlink, hist
<1>3. /\ th' \in [Threads -> Thread] /\ Others(t) /\ th[t].pc = "idle"
      /\ th'[t].pc = "out" /\ th'[t].op = "unlink" /\ th'[t].n = n
      /\ th'[t].l = NoLower /\ th'[t].ino = NoSlot /\ th'[t].pins = {n}
  <2>1. "unlink" \in Ops /\ "out" \in Labels /\ {n} \in SUBSET Names
    BY DEF Ops, Labels
  <2> QED BY <1>1, <1>2, <2>1, BeginEffect DEF TypeInv
<1>4. /\ dentry' \in [Names -> Dentry] /\ \A m \in Names \ {n} : dentry'[m] = dentry[m]
      /\ dentry'[n].ino = dentry[n].ino /\ dentry'[n].path = dentry[n].path
      /\ removed' \in SUBSET Names /\ \A m \in Names \ {n} : m \in removed' <=> m \in removed
      /\ \/ dentry'[n].st = "unhashed" /\ n \in removed'
         \/ dentry'[n] = dentry[n] /\ (n \in removed' <=> n \in removed)
  <2>1. CASE removed' = removed \cup {n} /\ dentry' = [dentry EXCEPT ![n].st = "unhashed"]
    BY <1>1, <2>1 DEF TypeInv, Dentry
  <2>2. CASE UNCHANGED <<removed, dentry>>
    BY <1>1, <2>2 DEF TypeInv
  <2> QED BY <1>2, <2>1, <2>2
<1>5. \A m \in Names : dentry'[m].ino = dentry[m].ino /\ dentry'[m].path = dentry[m].path
  BY <1>4
<1>6. dentry'[Root].st = "pos"
  BY <1>1, <1>2, <1>4, Constants DEF SbInv
<1>7. /\ InodeInv' /\ TwinInv' /\ SbInv' /\ LowerPathsBalanced'
      /\ lpins' \in [Names -> Int] /\ th[t].op = "none"
  BY <1>2, <1>3, <1>5, <1>6, EnterKeeps
<1>9. TypeInv'
  BY <1>1, <1>2, <1>3, <1>4, <1>7 DEF TypeInv, mvars
<1>10. CallInv'
  <2>1. ThreadOK(t)'
    BY <1>2, <1>3 DEF ThreadOK, Iget, Locked
  <2>2. DentryOf(t)'
    BY <1>3 DEF DentryOf, Iget
  <2>3. ASSUME NEW u \in Threads \ {t}, th[u].op \in {"lookup", "create"}
        PROVE  dentry'[th[u].n] = dentry[th[u].n]
    <3>1. th[u].n # n /\ th[u].n \in Names
      BY <1>1, <1>2, <2>3 DEF DirFree, TypeInv, Thread
    <3> QED BY <1>4, <3>1
  <2> QED BY <1>1, <1>2, <1>3, <2>1, <2>2, <2>3, CallStep DEF TypeInv
<1>11. DentryInv'
  <2>1. DentryOK(n)'
    <3>1. DentryOK(n)
      BY <1>1 DEF DentryInv
    <3> QED BY <1>2, <1>4, <3>1 DEF DentryOK
  <2>2. link'[Root] # NoLower
    BY <1>1, <1>2 DEF DentryInv
  <2> QED BY <1>1, <1>2, <1>3, <1>4, <1>7, <2>1, <2>2, DentryChange
<1>12. ASSUME NEW m \in Names PROVE Stands(m)'
  <2>2. Stands(m)
    BY <1>1
  <2>3. dentry[m].st = "pos" => inode'[dentry[m].ino].st = "live"
    BY <1>2, <2>2 DEF Stands
  <2>4. CASE dentry'[m] = dentry[m]
    BY <1>2, <2>2, <2>3, <2>4, StandsKept
  <2>5. CASE dentry'[m].st = "unhashed"
    BY <2>5 DEF Stands
  <2> QED BY <1>4, <2>4, <2>5
<1>13. LowerInodesBalanced'
  BY <1>1, <1>2 DEF LowerInodesBalanced
<1> QED BY <1>7, <1>9, <1>10, <1>11, <1>12, <1>13 DEF MountInv

(* Every call that enters trfs.                                              *)
LEMMA EnterStep ==
  ASSUME MountInv, sb = "mounted", UNCHANGED mvars, NEW t \in Threads, Enter(t)
  PROVE  MountInv'
<1>1. ASSUME NEW n \in Names,
             trfs_d_revalidate(t, n) \/ trfs_getattr(t, n) \/ trfs_readlink(t, n) \/ Xattr(t, n)
      PROVE  MountInv'
  BY <1>1, ForwardKeeps DEF trfs_d_revalidate, trfs_getattr, trfs_readlink, Xattr
<1>2. ASSUME trfs_statfs(t) PROVE MountInv'
  BY <1>2, ForwardKeeps, Constants DEF trfs_statfs
<1>3. ASSUME UseAnon(t) PROVE MountInv'
  BY <1>3, OopsKeeps DEF UseAnon, lower, hist
<1> QED BY <1>1, <1>2, <1>3, LookupKeeps, CreateKeeps, UnlinkKeeps, LinkKeeps, NfsKeeps DEF Enter

-----------------------------------------------------------------------------
(* A call that is not a mount is inside a mounted file system.               *)
LEMMA Inside ==
  ASSUME TypeInv, CallInv, SbInv, NEW t \in Threads, th[t].pc # "idle"
  PROVE  /\ th[t].op # "none" /\ th[t].op \in Ops
         /\ sb = IF th[t].op = "mount" THEN "mounting" ELSE "mounted"
         /\ th[t].pc \in {"data", "walk"} => th[t].op = "lookup"
         /\ th[t].pc = "interpose" => th[t].op \in {"lookup", "create"}
         /\ th[t].pc = "out" => th[t].op \in Locked \cup {"forward"}
         /\ th[t].pc = "neg" => th[t].op \in {"lookup", "create"}
<1>1. th[t].op # "none" /\ ThreadOK(t)
  BY DEF CallInv, ThreadOK
<1>2. th[t].op \in Ops
  BY DEF TypeInv, Thread
<1>3. /\ th[t].pc \in {"data", "walk"} => th[t].op = "lookup"
      /\ th[t].pc = "interpose" => th[t].op \in {"lookup", "create"}
      /\ th[t].pc = "out" => th[t].op \in Locked \cup {"forward"}
      /\ th[t].pc = "neg" => th[t].op \in {"lookup", "create"}
  BY <1>1, <1>2 DEF ThreadOK, Ops, Iget, Locked
<1>4. sb = IF th[t].op = "mount" THEN "mounting" ELSE "mounted"
  BY <1>1, <1>2 DEF SbInv, Mounting, TypeInv, Ops
<1> QED BY <1>1, <1>2, <1>3, <1>4

(* A step of a call that is not a mount and has no inode.                    *)
LEMMA WorkKeeps ==
  ASSUME MountInv, UNCHANGED mvars, NEW t \in Threads, Others(t),
         th[t].pc # "idle", th[t].op # "mount", th[t].ino = NoSlot,
         th'[t].ino = NoSlot, th'[t].pc # "set", th'[t].op # "mount",
         UNCHANGED <<inode, anon, twins>>,
         \A m \in Names : dentry'[m].ino = dentry[m].ino,
         dentry'[Root] = dentry[Root]
  PROVE  InodeInv' /\ TwinInv' /\ SbInv'
<1>1. TypeInv /\ CallInv /\ InodeInv /\ TwinInv /\ SbInv
  BY DEF MountInv
<1>2. sb = "mounted"
  BY <1>1, Inside
<1>3. InodeInv'
  BY <1>1, InodesAside
<1>4. TwinInv'
  <2>1. \A u \in Threads : th'[u].pc = "set" => th[u].pc = "set" /\ th'[u].l = th[u].l
    BY DEF Others
  <2> QED BY <1>1, <2>1, TwinKept
<1>5. SbInv'
  <2>1. dentry'[Root].st = "pos"
    BY <1>1, <1>2 DEF SbInv
  <2> QED BY <1>1, <1>2, <2>1, SbMounted
<1> QED BY <1>3, <1>4, <1>5

(* Such a step of a lookup or a create, which may change its own dentry.     *)
LEMMA WorkStep ==
  ASSUME MountInv, UNCHANGED mvars, NEW t \in Threads, NEW n \in Names, th[t].n = n,
         th[t].op \in {"lookup", "create"}, th[t].ino = NoSlot,
         Others(t), th' \in [Threads -> Thread], th'[t].op = th[t].op, th'[t].n = n,
         th'[t].ino = NoSlot, th'[t].pins = th[t].pins, th'[t].pc # "set",
         ThreadOK(t)', DentryOf(t)',
         dentry' \in [Names -> Dentry], \A m \in Names \ {n} : dentry'[m] = dentry[m],
         dentry'[n].ino = dentry[n].ino, DentryOK(n)', Stands(n)',
         UNCHANGED <<link, removed, lcount, inode, anon, overput, nfsgot, twins>>,
         lpins' \in [Names -> Int],
         \A m \in Names :
           lpins'[m] = lpins[m] - Count(dentry[m].path) + Count(dentry'[m].path)
  PROVE  MountInv'
<1>1. /\ TypeInv /\ CallInv /\ DentryInv /\ LowerInodesBalanced /\ SbInv
      /\ LowerPathsBalanced /\ \A m \in Names : Stands(m)
  BY DEF MountInv
<1>2. th[t].pc # "idle" /\ n # Root
  BY <1>1, RecordTypes DEF CallInv, ThreadOK, Locked
<1>3. InodeInv' /\ TwinInv' /\ SbInv'
  <2>1. /\ th'[t].op # "mount" /\ dentry'[Root] = dentry[Root] /\ th[t].op # "mount"
        /\ \A m \in Names : dentry'[m].ino = dentry[m].ino
    BY <1>2, Constants
  <2> QED BY <1>2, <2>1, WorkKeeps
<1>4. LowerPathsBalanced'
  <2>1. ASSUME NEW m \in Names
        PROVE  lpins'[m] = lpins[m] - Count(dentry[m].path) + Count(dentry'[m].path)
                             - Count(m \in th[t].pins) + Count(m \in th'[t].pins)
    <3>1. /\ Count(m \in th'[t].pins) = Count(m \in th[t].pins)
          /\ Count(m \in th[t].pins) \in Int /\ lpins[m] \in Int
          /\ Count(dentry[m].path) \in Int /\ Count(dentry'[m].path) \in Int
      BY <1>1 DEF Count, TypeInv
    <3>2. lpins'[m] = lpins[m] - Count(dentry[m].path) + Count(dentry'[m].path)
      OBVIOUS
    <3> QED BY <3>1, <3>2
  <2> QED BY <1>1, <2>1, PathsStep
<1>5. TypeInv'
  BY <1>1 DEF TypeInv, mvars
<1>6. CallInv'
  <2>1. ASSUME NEW u \in Threads \ {t}, th[u].op \in {"lookup", "create"}
        PROVE  dentry'[th[u].n] = dentry[th[u].n]
    <3>1. th[u].n # n /\ th[u].n \in Names
      BY <1>1, <2>1, ApartNames DEF Locked, TypeInv, Thread
    <3> QED BY <3>1
  <2>2. th[t].op \in Locked /\ th'[t].n = th[t].n
    BY DEF Locked
  <2> QED BY <1>1, <2>1, <2>2, CallStep DEF TypeInv
<1>7. DentryInv'
  <2>1. link'[Root] # NoLower
    BY <1>1 DEF DentryInv
  <2> QED BY <1>1, <1>2, <2>1, DentryChange
<1>8. ASSUME NEW m \in Names PROVE Stands(m)'
  <2>1. CASE m = n
    BY <2>1
  <2>2. CASE m # n
    <3>2. Stands(m)
      BY <1>1
    <3>3. dentry[m].st = "pos" => inode'[dentry[m].ino].st = "live"
      BY <3>2 DEF Stands
    <3> QED BY <2>2, <3>2, <3>3, StandsKept
  <2> QED BY <2>1, <2>2
<1>9. LowerInodesBalanced'
  BY <1>1 DEF LowerInodesBalanced
<1> QED BY <1>3, <1>4, <1>5, <1>6, <1>7, <1>8, <1>9 DEF MountInv

(* The steps of a lookup up to interposition.                                *)
LEMMA DataKeeps ==
  ASSUME MountInv, UNCHANGED mvars, NEW t \in Threads, new_dentry_private_data(t)
  PROVE  MountInv'
<1>1. /\ TypeInv /\ CallInv /\ DentryInv /\ LowerInodesBalanced /\ SbInv
      /\ LowerPathsBalanced /\ \A m \in Names : Stands(m)
  BY DEF MountInv
<1>0. PICK n \in Names : n = th[t].n
  BY <1>1 DEF TypeInv, Thread
<1>2. /\ th[t].pc = "data"
      /\ UNCHANGED <<link, removed, lcount, lpins, inode, anon, overput, nfsgot, twins>>
      /\ \/ dentry' = [dentry EXCEPT ![n].data = TRUE] /\ Goto(t, "walk")
         \/ dentry' = [dentry EXCEPT ![n] = NoDentry] /\ Goto(t, "out")
  BY <1>0 DEF new_dentry_private_data, lower, hist
<1>3. /\ th[t].op = "lookup" /\ sb = "mounted" /\ n # Root
      /\ th[t].ino = NoSlot /\ ThreadOK(t) /\ DentryOf(t)
  <2>1. th[t].op = "lookup" /\ sb = "mounted"
    BY <1>1, <1>2, Inside
  <2>2. ThreadOK(t) /\ DentryOf(t)
    BY <1>1 DEF CallInv
  <2> QED BY <1>0, <1>1, <1>2, <2>1, <2>2 DEF ThreadOK, Locked
<1>4. dentry[n].st = "looking" /\ dentry[n].ino = NoSlot /\ ~dentry[n].path
  BY <1>0, <1>2, <1>3 DEF DentryOf
<1>5. /\ th' \in [Threads -> Thread] /\ Others(t)
      /\ th'[t].op = "lookup" /\ th'[t].n = n /\ th'[t].ino = NoSlot
      /\ th'[t].pins = th[t].pins
      /\ dentry' \in [Names -> Dentry] /\ \A m \in Names \ {n} : dentry'[m] = dentry[m]
      /\ dentry'[n].ino = NoSlot /\ ~dentry'[n].path
      /\ \/ th'[t].pc = "walk" /\ dentry'[n].data /\ dentry'[n].st = "looking"
         \/ th'[t].pc = "out" /\ dentry'[n] = NoDentry
  <2>1. CASE dentry' = [dentry EXCEPT ![n].data = TRUE] /\ Goto(t, "walk")
    <3>1. /\ th' \in [Threads -> Thread] /\ Others(t)
          /\ th'[t].pc = "walk" /\ th'[t].op = th[t].op /\ th'[t].n = th[t].n
          /\ th'[t].ino = th[t].ino /\ th'[t].pins = th[t].pins
      <4>1. "walk" \in Labels
        BY DEF Labels
      <4> QED BY <1>1, <2>1, <4>1, GotoEffect DEF TypeInv
    <3>2. /\ dentry' \in [Names -> Dentry] /\ \A m \in Names \ {n} : dentry'[m] = dentry[m]
          /\ dentry'[n].ino = dentry[n].ino /\ dentry'[n].path = dentry[n].path
          /\ dentry'[n].data /\ dentry'[n].st = dentry[n].st
      BY <1>1, <1>3, <2>1 DEF TypeInv, Dentry
    <3> QED BY <1>0, <1>3, <1>4, <3>1, <3>2
  <2>2. CASE dentry' = [dentry EXCEPT ![n] = NoDentry] /\ Goto(t, "out")
    <3>1. /\ th' \in [Threads -> Thread] /\ Others(t)
          /\ th'[t].pc = "out" /\ th'[t].op = th[t].op /\ th'[t].n = th[t].n
          /\ th'[t].ino = th[t].ino /\ th'[t].pins = th[t].pins
      <4>1. "out" \in Labels
        BY DEF Labels
      <4> QED BY <1>1, <2>2, <4>1, GotoEffect DEF TypeInv
    <3>2. /\ dentry' \in [Names -> Dentry] /\ \A m \in Names \ {n} : dentry'[m] = dentry[m]
          /\ dentry'[n] = NoDentry
      BY <1>1, <1>3, <2>2, RecordTypes DEF TypeInv
    <3> QED BY <1>0, <1>3, <3>1, <3>2, RecordTypes
  <2> QED BY <1>2, <2>1, <2>2
<1>6. ThreadOK(t)' /\ DentryOf(t)'
  BY <1>0, <1>3, <1>5 DEF ThreadOK, DentryOf, Iget, Locked
<1>7. DentryOK(n)' /\ Stands(n)'
  <2>1. DentryOK(n)
    BY <1>1 DEF DentryInv
  <2>2. DentryOK(n)'
    BY <1>2, <1>4, <1>5, <2>1, RecordTypes DEF DentryOK
  <2> QED BY <1>5, <2>2, RecordTypes DEF Stands
<1>8. /\ lpins' \in [Names -> Int]
      /\ \A m \in Names :
           lpins'[m] = lpins[m] - Count(dentry[m].path) + Count(dentry'[m].path)
  BY <1>1, <1>2, <1>4, <1>5 DEF Count, TypeInv
<1>9. th'[t].pc # "set" /\ th[t].op \in {"lookup", "create"}
  BY <1>3, <1>5
<1> QED BY <1>0, <1>2, <1>3, <1>4, <1>5, <1>6, <1>7, <1>8, <1>9, WorkStep

LEMMA WalkKeeps ==
  ASSUME MountInv, UNCHANGED mvars, NEW t \in Threads, LookupLower(t)
  PROVE  MountInv'
<1>1. /\ TypeInv /\ CallInv /\ DentryInv /\ SbInv /\ \A m \in Names : Stands(m)
  BY DEF MountInv
<1>0. PICK n \in Names : n = th[t].n
  BY <1>1 DEF TypeInv, Thread
<1>2. /\ th[t].pc = "walk"
      /\ UNCHANGED <<link, removed, lcount, inode, anon, overput, nfsgot, twins>>
      /\ \/ /\ lpins' = Get({n})
            /\ dentry' = [dentry EXCEPT ![n].path = TRUE,
                            ![n].st = IF link[n] = NoLower THEN "neg" ELSE @]
            /\ Goto(t, IF link[n] = NoLower THEN "out" ELSE "interpose")
         \/ Goto(t, "fail") /\ UNCHANGED <<lpins, dentry>>
  BY <1>0 DEF LookupLower, lower, hist
<1>3. /\ th[t].op = "lookup" /\ sb = "mounted" /\ n # Root
      /\ th[t].ino = NoSlot /\ ThreadOK(t) /\ DentryOf(t)
  <2>1. th[t].op = "lookup" /\ sb = "mounted"
    BY <1>1, <1>2, Inside
  <2>2. ThreadOK(t) /\ DentryOf(t)
    BY <1>1 DEF CallInv
  <2> QED BY <1>0, <1>1, <1>2, <2>1, <2>2 DEF ThreadOK, Locked
<1>4. dentry[n].st = "looking" /\ dentry[n].ino = NoSlot /\ ~dentry[n].path /\ dentry[n].data
  BY <1>0, <1>2, <1>3 DEF DentryOf
<1>5. DentryOK(n)
  BY <1>1 DEF DentryInv
<1>6. CASE Goto(t, "fail") /\ UNCHANGED <<lpins, dentry>>
  <2>1. /\ th' \in [Threads -> Thread] /\ Others(t)
        /\ th'[t].pc = "fail" /\ th'[t].op = th[t].op /\ th'[t].n = n
        /\ th'[t].ino = th[t].ino /\ th'[t].pins = th[t].pins
    <3>1. "fail" \in Labels
      BY DEF Labels
    <3> QED BY <1>0, <1>1, <1>6, <3>1, GotoEffect DEF TypeInv
  <2>2. ThreadOK(t)' /\ DentryOf(t)'
    BY <1>2, <1>3, <1>4, <1>6, <2>1 DEF ThreadOK, DentryOf, Iget, Locked
  <2>3. DentryOK(n)' /\ Stands(n)'
    BY <1>2, <1>3, <1>4, <1>5, <1>6, <2>1 DEF DentryOK, Stands
  <2>4. /\ lpins' \in [Names -> Int] /\ dentry' \in [Names -> Dentry]
        /\ \A m \in Names :
             lpins'[m] = lpins[m] - Count(dentry[m].path) + Count(dentry'[m].path)
    BY <1>1, <1>6 DEF Count, TypeInv
  <2>5. th'[t].pc # "set" /\ th[t].op \in {"lookup", "create"} /\ dentry' = dentry
    BY <1>3, <1>6, <2>1
  <2> QED BY <1>0, <1>2, <1>3, <2>1, <2>2, <2>3, <2>4, <2>5, WorkStep
<1>7. ASSUME lpins' = Get({n}),
             dentry' = [dentry EXCEPT ![n].path = TRUE,
                          ![n].st = IF link[n] = NoLower THEN "neg" ELSE @],
             Goto(t, IF link[n] = NoLower THEN "out" ELSE "interpose")
      PROVE  MountInv'
  <2>1. /\ th' \in [Threads -> Thread] /\ Others(t)
        /\ th'[t].pc = IF link[n] = NoLower THEN "out" ELSE "interpose"
        /\ th'[t].op = th[t].op /\ th'[t].n = n
        /\ th'[t].ino = th[t].ino /\ th'[t].pins = th[t].pins
    <3>1. "out" \in Labels /\ "interpose" \in Labels
      BY DEF Labels
    <3> QED BY <1>0, <1>1, <1>7, <3>1, GotoEffect DEF TypeInv
  <2>2. /\ dentry' \in [Names -> Dentry] /\ \A m \in Names \ {n} : dentry'[m] = dentry[m]
        /\ dentry'[n].ino = NoSlot /\ dentry'[n].path /\ dentry'[n].data
        /\ dentry'[n].st = IF link[n] = NoLower THEN "neg" ELSE "looking"
    <3>1. CASE link[n] = NoLower
      BY <1>1, <1>4, <1>7, <3>1 DEF TypeInv, Dentry
    <3>2. CASE link[n] # NoLower
      BY <1>1, <1>4, <1>7, <3>2 DEF TypeInv, Dentry
    <3> QED BY <3>1, <3>2
  <2>3. ThreadOK(t)' /\ DentryOf(t)'
    <3>1. ThreadOK(t)'
      BY <1>3, <2>1 DEF ThreadOK, Iget, Locked
    <3>2. DentryOf(t)'
      BY <1>2, <1>3, <2>1, <2>2 DEF DentryOf, Iget
    <3> QED BY <3>1, <3>2
  <2>4. DentryOK(n)' /\ Stands(n)'
    <3>1. DentryOK(n)'
      BY <1>2, <1>3, <1>4, <1>5, <2>1, <2>2 DEF DentryOK
    <3> QED BY <1>2, <2>2, <3>1 DEF Stands
  <2>5. /\ lpins' \in [Names -> Int]
        /\ \A m \in Names :
             lpins'[m] = lpins[m] - Count(dentry[m].path) + Count(dentry'[m].path)
    <3>1. /\ lpins' \in [Names -> Int]
          /\ \A m \in Names : lpins'[m] = lpins[m] + Count(m \in {n})
      BY <1>1, <1>7, PinEffect DEF TypeInv
    <3> QED BY <1>1, <1>4, <2>2, <3>1 DEF Count, TypeInv
  <2>6. th'[t].pc # "set" /\ th[t].op \in {"lookup", "create"}
    BY <1>3, <2>1
  <2> QED BY <1>0, <1>2, <1>3, <1>4, <2>1, <2>2, <2>3, <2>4, <2>5, <2>6, WorkStep
<1> QED BY <1>2, <1>6, <1>7

(* __trfs_interpose begins, and fails.                                       *)
LEMMA InterposeKeeps ==
  ASSUME MountInv, UNCHANGED mvars, NEW t \in Threads, Interpose(t)
  PROVE  MountInv'
<1>1. /\ TypeInv /\ CallInv /\ DentryInv /\ SbInv /\ \A m \in Names : Stands(m)
  BY DEF MountInv
<1>0. PICK n \in Names : n = th[t].n
  BY <1>1 DEF TypeInv, Thread
<1>2. /\ th[t].pc = "interpose"
      /\ th' = [th EXCEPT ![t].l = link[n],
                          ![t].pc = IF link[n] \in Foreign THEN "fail" ELSE "find"]
      /\ UNCHANGED <<link, removed, lcount, lpins, inode, dentry, anon, overput, nfsgot, twins>>
  BY <1>0 DEF Interpose, lower, hist
<1>3. /\ th[t].op \in {"lookup", "create"} /\ th[t].ino = NoSlot /\ ThreadOK(t) /\ DentryOf(t)
  <2>1. th[t].op \in {"lookup", "create"}
    BY <1>1, <1>2, Inside
  <2>2. ThreadOK(t) /\ DentryOf(t)
    BY <1>1 DEF CallInv
  <2> QED BY <1>2, <2>1, <2>2 DEF ThreadOK
<1>4. link[n] \in Lowers
  BY <1>0, <1>1, <1>2, <1>3 DEF DentryOf, TypeInv
<1>5. /\ th' \in [Threads -> Thread] /\ Others(t)
      /\ th'[t].pc \in {"fail", "find"} /\ th'[t].l = link[n] /\ th'[t].op = th[t].op
      /\ th'[t].n = n /\ th'[t].ino = NoSlot /\ th'[t].pins = th[t].pins
  <2>1. PICK label \in {"fail", "find"} :
          th' = [th EXCEPT ![t].l = link[n], ![t].pc = label]
    BY <1>2
  <2>2. label \in Labels
    BY DEF Labels
  <2>3. /\ th' \in [Threads -> Thread] /\ Others(t)
        /\ th'[t].pc = label /\ th'[t].op = th[t].op /\ th'[t].n = th[t].n
        /\ th'[t].l = link[n] /\ th'[t].ino = th[t].ino /\ th'[t].pins = th[t].pins
    BY <1>1, <1>4, <2>1, <2>2, FindEffect DEF TypeInv
  <2> QED BY <1>0, <1>3, <2>3
<1>6. ThreadOK(t)'
  BY <1>0, <1>2, <1>3, <1>4, <1>5 DEF ThreadOK, Iget, Locked
<1>7. DentryOf(t)'
  <2>1. CASE th[t].op = "lookup"
    BY <1>0, <1>2, <1>3, <1>4, <1>5, <2>1 DEF DentryOf, Iget
  <2>2. CASE th[t].op = "create"
    BY <1>0, <1>2, <1>3, <1>4, <1>5, <2>2 DEF DentryOf, Iget
  <2> QED BY <1>3, <2>1, <2>2
<1>8. DentryOK(n)' /\ Stands(n)'
  <2>1. DentryOK(n) /\ Stands(n)
    BY <1>1 DEF DentryInv
  <2>0. /\ dentry[n].st \in {"pos", "unhashed"} => link'[n] # NoLower
        /\ th'[t].pc \notin {"out", "neg"}
    BY <1>2, <1>5, <2>1 DEF DentryOK
  <2>2. DentryOK(n)'
    BY <1>0, <1>2, <1>5, <2>0, <2>1, DentryKept
  <2>4. dentry[n].st = "pos" => inode'[dentry[n].ino].st = "live"
    BY <1>2, <2>1 DEF Stands
  <2>5. Stands(n)'
    BY <1>2, <2>1, <2>4, StandsKept
  <2> QED BY <2>2, <2>5
<1>9. /\ lpins' \in [Names -> Int] /\ dentry' \in [Names -> Dentry]
      /\ \A m \in Names :
           lpins'[m] = lpins[m] - Count(dentry[m].path) + Count(dentry'[m].path)
  BY <1>1, <1>2 DEF Count, TypeInv
<1>10. th'[t].pc # "set"
  BY <1>5
<1> QED BY <1>0, <1>2, <1>3, <1>5, <1>6, <1>7, <1>8, <1>9, <1>10, WorkStep

LEMMA FailedKeeps ==
  ASSUME MountInv, UNCHANGED mvars, NEW t \in Threads, FailedInterpose(t)
  PROVE  MountInv'
<1>1. /\ TypeInv /\ CallInv /\ DentryInv /\ SbInv /\ \A m \in Names : Stands(m)
  BY DEF MountInv
<1>0. PICK n \in Names : n = th[t].n
  BY <1>1 DEF TypeInv, Thread
<1>2. /\ th[t].pc = "fail" /\ th[t].op \in {"lookup", "create"} /\ Goto(t, "out")
      /\ UNCHANGED <<link, removed, lcount, anon, overput, nfsgot, twins>>
      /\ th[t].op = "lookup" => Killed(n)
      /\ th[t].op = "create" => UNCHANGED <<dentry, inode, lpins>>
  BY <1>0 DEF FailedInterpose, lower, hist
<1>3. th[t].ino = NoSlot /\ ThreadOK(t) /\ DentryOf(t) /\ DentryOK(n) /\ Stands(n)
  <2>1. ThreadOK(t) /\ DentryOf(t) /\ DentryOK(n) /\ Stands(n)
    BY <1>1 DEF CallInv, DentryInv
  <2> QED BY <1>2, <2>1 DEF ThreadOK
<1>5. /\ th' \in [Threads -> Thread] /\ Others(t)
      /\ th'[t].pc = "out" /\ th'[t].op = th[t].op
      /\ th'[t].n = n /\ th'[t].ino = NoSlot /\ th'[t].pins = th[t].pins
  <2>1. "out" \in Labels
    BY DEF Labels
  <2> QED BY <1>0, <1>1, <1>2, <1>3, <2>1, GotoEffect DEF TypeInv
<1>6. ThreadOK(t)'
  BY <1>0, <1>2, <1>3, <1>5 DEF ThreadOK, Iget, Locked
<1>7. CASE th[t].op = "lookup"
  <2>1. dentry[n].st = "looking" /\ dentry[n].ino = NoSlot
    BY <1>0, <1>2, <1>3, <1>7 DEF DentryOf
  <2>2. /\ dentry' = [dentry EXCEPT ![n] = NoDentry] /\ inode' = inode
        /\ lpins' = IF dentry[n].path THEN Put({n}) ELSE lpins
    BY <1>2, <1>7, <2>1 DEF Killed
  <2>3. /\ dentry' \in [Names -> Dentry] /\ \A m \in Names \ {n} : dentry'[m] = dentry[m]
        /\ dentry'[n] = NoDentry /\ dentry'[n].ino = dentry[n].ino
    BY <1>1, <2>1, <2>2, RecordTypes DEF TypeInv
  <2>4. DentryOf(t)'
    BY <1>5, <1>7 DEF DentryOf, Iget
  <2>5. DentryOK(n)' /\ Stands(n)'
    BY <1>2, <1>3, <2>1, <2>3, RecordTypes DEF DentryOK, Stands
  <2>6. /\ lpins' \in [Names -> Int]
        /\ \A m \in Names :
             lpins'[m] = lpins[m] - Count(dentry[m].path) + Count(dentry'[m].path)
    <3>1. /\ Put({n}) \in [Names -> Int]
          /\ \A m \in Names : Put({n})[m] = lpins[m] - Count(m \in {n})
      BY <1>1, PinEffect DEF TypeInv
    <3>2. CASE dentry[n].path
      <4>1. lpins' = Put({n})
        BY <2>2, <3>2
      <4>2. \A m \in Names : Count(m \in {n}) = Count(dentry[m].path) - Count(dentry'[m].path)
        <5>1. ~dentry'[n].path
          BY <2>3, RecordTypes
        <5> QED BY <2>3, <3>2, <5>1 DEF Count
      <4>3. \A m \in Names : /\ Count(dentry[m].path) \in Int /\ Count(dentry'[m].path) \in Int
                             /\ lpins[m] \in Int
        BY <1>1 DEF Count, TypeInv
      <4>4. ASSUME NEW m \in Names
            PROVE  lpins'[m] = lpins[m] - Count(dentry[m].path) + Count(dentry'[m].path)
        <5>1. lpins'[m] = lpins[m] - Count(m \in {n})
          BY <3>1, <4>1
        <5>2. Count(m \in {n}) = Count(dentry[m].path) - Count(dentry'[m].path)
          BY <4>2
        <5> QED BY <4>3, <5>1, <5>2
      <4> QED BY <3>1, <4>1, <4>4
    <3>3. CASE ~dentry[n].path
      BY <1>1, <2>2, <2>3, <3>3, RecordTypes DEF Count, TypeInv
    <3> QED BY <3>2, <3>3
  <2>7. th'[t].pc # "set"
    BY <1>5
  <2> QED BY <1>0, <1>2, <1>3, <1>5, <1>6, <2>2, <2>3, <2>4, <2>5, <2>6, <2>7, WorkStep
<1>8. CASE th[t].op = "create"
  <2>1. dentry[n].st = "neg" /\ UNCHANGED <<dentry, inode, lpins>>
    BY <1>0, <1>2, <1>3, <1>8 DEF DentryOf
  <2>2. DentryOf(t)'
    BY <1>5, <1>8, <2>1 DEF DentryOf, Iget
  <2>3. DentryOK(n)' /\ Stands(n)'
    BY <1>2, <1>3, <2>1 DEF DentryOK, Stands
  <2>4. /\ lpins' \in [Names -> Int] /\ dentry' \in [Names -> Dentry]
        /\ \A m \in Names :
             lpins'[m] = lpins[m] - Count(dentry[m].path) + Count(dentry'[m].path)
    BY <1>1, <2>1 DEF Count, TypeInv
  <2>5. th'[t].pc # "set"
    BY <1>5
  <2> QED BY <1>0, <1>2, <1>3, <1>5, <1>6, <2>1, <2>2, <2>3, <2>4, <2>5, WorkStep
<1> QED BY <1>2, <1>7, <1>8

(* A call returns.                                                           *)
LEMMA OutKeeps ==
  ASSUME MountInv, UNCHANGED mvars, NEW t \in Threads, Out(t)
  PROVE  MountInv'
<1>1. /\ TypeInv /\ CallInv /\ DentryInv /\ SbInv /\ LowerPathsBalanced /\ LowerInodesBalanced
      /\ \A m \in Names : Stands(m)
  BY DEF MountInv
<1>2. /\ th[t].pc = "out" /\ lpins' = Put(th[t].pins) /\ Returned(t)
      /\ UNCHANGED <<link, removed, lcount, inode, dentry, anon, overput, nfsgot, twins>>
  BY DEF Out, lower, hist
<1>3. /\ th[t].op \in Locked \cup {"forward"} /\ th[t].ino = NoSlot
      /\ ThreadOK(t) /\ DentryOf(t)
  <2>1. th[t].op \in Locked \cup {"forward"}
    BY <1>1, <1>2, Inside
  <2>2. ThreadOK(t) /\ DentryOf(t)
    BY <1>1 DEF CallInv
  <2> QED BY <1>2, <2>1, <2>2 DEF ThreadOK
<1>4. /\ th' \in [Threads -> Thread] /\ Others(t)
      /\ th'[t].ino = NoSlot /\ th'[t].pins = {} /\ ThreadOK(t)' /\ DentryOf(t)'
      /\ th'[t].op \in Locked => th[t].op \in Locked /\ th'[t].n = th[t].n
      /\ th'[t].pc # "set" /\ th'[t].op # "mount"
  <2>1. CASE th[t].op \in {"lookup", "create"} /\ dentry[th[t].n].st = "neg"
    <3>1. GotoWith(t, "neg", {})
      BY <1>1, <1>2, <2>1 DEF Returned, GotoWith, TypeInv, Thread
    <3>2. "neg" \in Labels /\ {} \in SUBSET Names /\ th \in [Threads -> Thread]
      BY <1>1 DEF Labels, TypeInv
    <3>3. /\ th' \in [Threads -> Thread] /\ Others(t)
          /\ th'[t].pc = "neg" /\ th'[t].op = th[t].op /\ th'[t].n = th[t].n
          /\ th'[t].ino = th[t].ino /\ th'[t].pins = {}
      BY <3>1, <3>2, PinsEffect
    <3>4. ThreadOK(t)'
      BY <1>3, <2>1, <3>3 DEF ThreadOK, Iget, Locked
    <3>5. DentryOf(t)'
      BY <1>2, <2>1, <3>3 DEF DentryOf, Iget
    <3> QED BY <1>3, <2>1, <3>3, <3>4, <3>5 DEF Locked
  <2>2. CASE ~(th[t].op \in {"lookup", "create"} /\ dentry[th[t].n].st = "neg")
    <3>1. th' = [th EXCEPT ![t] = Idle] /\ th \in [Threads -> Thread]
      BY <1>1, <1>2, <2>2 DEF Returned, TypeInv
    <3>2. /\ th' \in [Threads -> Thread] /\ Others(t) /\ th'[t] = Idle
          /\ th'[t].pc = "idle" /\ th'[t].op = "none" /\ th'[t].n = Root
          /\ th'[t].ino = NoSlot /\ th'[t].pins = {}
      BY <3>1, ReturnEffect
    <3> QED BY <3>2, RecordTypes DEF ThreadOK, DentryOf, Iget, Locked
  <2> QED BY <2>1, <2>2
<1>5. InodeInv' /\ TwinInv' /\ SbInv'
  <2>1. th[t].pc # "idle" /\ th[t].op # "mount"
    BY <1>2, <1>3 DEF Locked
  <2>2. dentry'[Root] = dentry[Root] /\ \A m \in Names : dentry'[m].ino = dentry[m].ino
    BY <1>2
  <2> QED BY <1>2, <1>3, <1>4, <2>1, <2>2, WorkKeeps
<1>6. lpins' \in [Names -> Int] /\ \A m \in Names : lpins'[m] = lpins[m] - Count(m \in th[t].pins)
  BY <1>1, <1>2, PinEffect DEF TypeInv
<1>7. LowerPathsBalanced'
  <2>1. ASSUME NEW m \in Names
        PROVE  lpins'[m] = lpins[m] - Count(dentry[m].path) + Count(dentry'[m].path)
                             - Count(m \in th[t].pins) + Count(m \in th'[t].pins)
    <3>1. /\ Count(m \in th'[t].pins) = 0 /\ dentry'[m].path = dentry[m].path
          /\ Count(m \in th[t].pins) \in Int /\ Count(dentry[m].path) \in Int
          /\ Count(dentry'[m].path) = Count(dentry[m].path) /\ lpins[m] \in Int
      BY <1>1, <1>2, <1>4 DEF Count, TypeInv
    <3> QED BY <1>6, <3>1
  <2> QED BY <1>1, <1>4, <2>1, PathsStep
<1>8. TypeInv'
  BY <1>1, <1>2, <1>4, <1>6 DEF TypeInv, mvars
<1>9. CallInv'
  BY <1>1, <1>2, <1>4, CallStep DEF TypeInv
<1>10. DentryInv'
  <2>1. \A m \in Names : dentry[m].st \in {"pos", "unhashed"} => link[m] # NoLower
    BY <1>1 DEF DentryInv, DentryOK
  <2> QED BY <1>1, <1>2, <1>4, <2>1, DentryStep DEF DentryInv
<1>11. ASSUME NEW m \in Names PROVE Stands(m)'
  <2>2. Stands(m)
    BY <1>1
  <2>3. dentry[m].st = "pos" => inode'[dentry[m].ino].st = "live"
    BY <1>2, <2>2 DEF Stands
  <2> QED BY <1>2, <2>2, <2>3, StandsKept
<1>12. LowerInodesBalanced'
  BY <1>1, <1>2 DEF LowerInodesBalanced
<1> QED BY <1>5, <1>7, <1>8, <1>9, <1>10, <1>11, <1>12 DEF MountInv

(* The VFS puts a negative dentry.                                           *)
LEMMA DputKeeps ==
  ASSUME MountInv, UNCHANGED mvars, NEW t \in Threads, Dput(t)
  PROVE  MountInv'
<1>1. /\ TypeInv /\ CallInv /\ DentryInv /\ SbInv /\ LowerPathsBalanced /\ LowerInodesBalanced
      /\ \A m \in Names : Stands(m)
  BY DEF MountInv
<1>0. PICK n \in Names : n = th[t].n
  BY <1>1 DEF TypeInv, Thread
<1>2. /\ th[t].pc = "neg" /\ Killed(n) /\ th' = [th EXCEPT ![t] = Idle]
      /\ UNCHANGED <<link, removed, lcount, anon, overput, nfsgot, twins>>
  BY <1>0 DEF Dput, lower, hist
<1>3. /\ th[t].op \in {"lookup", "create"} /\ th[t].ino = NoSlot /\ th[t].pins = {}
      /\ n # Root /\ dentry[n].st = "neg"
  <2>1. th[t].op \in {"lookup", "create"}
    BY <1>1, <1>2, Inside
  <2>2. ThreadOK(t) /\ DentryOf(t)
    BY <1>1 DEF CallInv
  <2> QED BY <1>0, <1>2, <2>1, <2>2 DEF ThreadOK, DentryOf, Locked
<1>4. dentry[n].ino = NoSlot /\ dentry[n].path /\ n \notin removed
  BY <1>1, <1>3 DEF DentryInv, DentryOK
<1>5. /\ dentry' = [dentry EXCEPT ![n] = NoDentry] /\ inode' = inode /\ lpins' = Put({n})
  BY <1>2, <1>4 DEF Killed
<1>6. /\ dentry' \in [Names -> Dentry] /\ \A m \in Names \ {n} : dentry'[m] = dentry[m]
      /\ dentry'[n] = NoDentry /\ dentry'[n].ino = NoSlot /\ ~dentry'[n].path
      /\ dentry'[n].st = "none"
  BY <1>1, <1>5, RecordTypes DEF TypeInv
<1>7. /\ th' \in [Threads -> Thread] /\ Others(t) /\ th'[t] = Idle
      /\ th'[t].pc = "idle" /\ th'[t].op = "none" /\ th'[t].n = Root
      /\ th'[t].ino = NoSlot /\ th'[t].pins = {}
  BY <1>1, <1>2, ReturnEffect DEF TypeInv
<1>8. InodeInv' /\ TwinInv' /\ SbInv'
  <2>1. /\ th'[t].pc # "set" /\ th'[t].op # "mount" /\ th[t].pc # "idle" /\ th[t].op # "mount"
        /\ dentry'[Root] = dentry[Root] /\ \A m \in Names : dentry'[m].ino = dentry[m].ino
    BY <1>2, <1>3, <1>4, <1>6, <1>7, Constants
  <2> QED BY <1>2, <1>3, <1>5, <1>7, <2>1, WorkKeeps
<1>9. lpins' \in [Names -> Int] /\ \A m \in Names : lpins'[m] = lpins[m] - Count(m \in {n})
  BY <1>1, <1>5, PinEffect DEF TypeInv
<1>10. LowerPathsBalanced'
  <2>1. ASSUME NEW m \in Names
        PROVE  lpins'[m] = lpins[m] - Count(dentry[m].path) + Count(dentry'[m].path)
                             - Count(m \in th[t].pins) + Count(m \in th'[t].pins)
    <3>1. Count(m \in {n}) = Count(dentry[m].path) - Count(dentry'[m].path)
      BY <1>4, <1>6 DEF Count
    <3>2. /\ Count(m \in th[t].pins) = 0 /\ Count(m \in th'[t].pins) = 0 /\ lpins[m] \in Int
          /\ Count(dentry[m].path) \in Int /\ Count(dentry'[m].path) \in Int
      BY <1>1, <1>3, <1>7 DEF Count, TypeInv
    <3> QED BY <1>9, <3>1, <3>2
  <2> QED BY <1>1, <1>7, <2>1, PathsStep
<1>11. TypeInv'
  BY <1>1, <1>2, <1>5, <1>6, <1>7, <1>9 DEF TypeInv, mvars
<1>12. CallInv'
  <2>1. ThreadOK(t)' /\ DentryOf(t)' /\ th'[t].op \notin Locked
    BY <1>7, RecordTypes DEF ThreadOK, DentryOf, Iget, Locked
  <2>2. ASSUME NEW u \in Threads \ {t}, th[u].op \in {"lookup", "create"}
        PROVE  dentry'[th[u].n] = dentry[th[u].n]
    <3>1. th[u].n # n /\ th[u].n \in Names
      BY <1>0, <1>1, <1>3, <2>2, ApartNames DEF Locked, TypeInv, Thread
    <3> QED BY <1>6, <3>1
  <2> QED BY <1>1, <1>2, <1>7, <2>1, <2>2, CallStep DEF TypeInv
<1>13. DentryInv'
  <2>1. DentryOK(n)' /\ link'[Root] # NoLower
    BY <1>1, <1>2, <1>4, <1>6 DEF DentryOK, DentryInv
  <2> QED BY <1>1, <1>2, <1>3, <1>6, <1>7, <2>1, DentryChange
<1>14. ASSUME NEW m \in Names PROVE Stands(m)'
  <2>1. CASE m = n
    BY <1>6, <2>1 DEF Stands
  <2>2. CASE m # n
    <3>1. Stands(m) /\ dentry'[m] = dentry[m]
      BY <1>1, <1>6, <2>2
    <3> QED BY <1>2, <1>5, <3>1, StandsKept DEF Stands
  <2> QED BY <2>1, <2>2
<1>15. LowerInodesBalanced'
  BY <1>1, <1>2, <1>5 DEF LowerInodesBalanced
<1> QED BY <1>8, <1>10, <1>11, <1>12, <1>13, <1>14, <1>15 DEF MountInv

-----------------------------------------------------------------------------
(* A step of trfs_iget disturbs no dentry.                                   *)
LEMMA IgetFrame ==
  ASSUME MountInv, UNCHANGED mvars, NEW t \in Threads, th[t].pc \in Iget, Others(t),
         th' \in [Threads -> Thread], th'[t].op = th[t].op, th'[t].n = th[t].n,
         th'[t].l = th[t].l, th'[t].pins = th[t].pins, th'[t].pc \in Iget \cup {"fail"},
         th'[t].pc \in {"set", "splice"} <=> th'[t].ino # NoSlot,
         UNCHANGED <<link, removed, lpins, dentry, anon>>,
         \A i \in Slots : inode[i].st = "live" =>
           inode'[i].st = "live" /\ inode'[i].lower = inode[i].lower
  PROVE  /\ CallInv' /\ DentryInv' /\ SbInv' /\ LowerPathsBalanced'
         /\ \A m \in Names : Stands(m)'
<1>1. /\ TypeInv /\ CallInv /\ DentryInv /\ SbInv /\ LowerPathsBalanced
      /\ \A m \in Names : Stands(m)
  BY DEF MountInv
<1>2. ThreadOK(t) /\ DentryOf(t) /\ th[t].op # "none" /\ th[t].op \in Ops
  <2>1. th[t].pc # "idle"
    BY DEF Iget
  <2> QED BY <1>1, <2>1, Inside DEF CallInv
<1>3. CallInv'
  <2>1. ThreadOK(t)'
    <3>1. th'[t].pc # "idle"
      BY DEF Iget
    <3>2. th[t].l \in Lowers
      BY <1>2 DEF ThreadOK
    <3>3. th[t].op = "mount" => th[t].pins = {Root} /\ th[t].n = Root
      BY <1>2 DEF ThreadOK
    <3>4. th[t].op \notin {"unlink", "forward"}
      BY <1>2 DEF ThreadOK, Iget
    <3>5. /\ th[t].op \in Locked => th[t].n # Root
          /\ th[t].op = "nfs" => th[t].pins = {}
      BY <1>2 DEF ThreadOK
    <3> QED BY <1>2, <3>1, <3>2, <3>3, <3>4, <3>5 DEF ThreadOK, Iget
  <2>2. DentryOf(t)'
    <3>1. CASE th[t].op = "lookup"
      BY <1>2, <3>1 DEF DentryOf, Iget
    <3>2. CASE th[t].op # "lookup"
      BY <1>2, <3>2 DEF DentryOf, Iget
    <3> QED BY <3>1, <3>2
  <2> QED BY <1>1, <2>1, <2>2, CallStep DEF TypeInv
<1>4. DentryInv'
  <2>1. /\ \A n \in Names : dentry[n].st \in {"pos", "unhashed"} => link'[n] # NoLower
        /\ link'[Root] # NoLower
    BY <1>1 DEF DentryInv, DentryOK
  <2>2. th'[t].pc \notin {"out", "neg"}
    BY DEF Iget
  <2> QED BY <1>1, <2>1, <2>2, DentryStep
<1>5. SbInv'
  BY <1>1, SbIget
<1>6. LowerPathsBalanced'
  <2>1. ASSUME NEW m \in Names
        PROVE  lpins'[m] = lpins[m] - Count(dentry[m].path) + Count(dentry'[m].path)
                             - Count(m \in th[t].pins) + Count(m \in th'[t].pins)
    <3>1. /\ Count(m \in th'[t].pins) = Count(m \in th[t].pins)
          /\ Count(dentry'[m].path) = Count(dentry[m].path)
          /\ Count(m \in th[t].pins) \in Int /\ Count(dentry[m].path) \in Int
          /\ lpins[m] \in Int /\ lpins'[m] = lpins[m]
      BY <1>1 DEF Count, TypeInv
    <3> QED BY <3>1
  <2> QED BY <1>1, <2>1, PathsStep
<1>7. ASSUME NEW m \in Names PROVE Stands(m)'
  <2>2. Stands(m) /\ DentryOK(m)
    BY <1>1 DEF DentryInv
  <2>3. dentry[m].st = "pos" =>
          /\ inode'[dentry[m].ino].st = "live"
          /\ inode'[dentry[m].ino].lower = inode[dentry[m].ino].lower
    <3>1. dentry[m].st = "pos" => dentry[m].ino \in Slots
      BY <1>1, <2>2 DEF DentryOK, TypeInv, Dentry
    <3> QED BY <2>2, <3>1 DEF Stands
  <2> QED BY <2>2, <2>3, StandsKept
<1> QED BY <1>3, <1>4, <1>5, <1>6, <1>7

(* The references when thread t gets inode i, or lets it go.                 *)
LEMMA HoldersOfThread ==
  ASSUME NEW t \in Threads, Others(t), UNCHANGED <<dentry, anon>>, NEW i
  PROVE  /\ Holders(i) \in Nat /\ Holders(i)' \in Nat
         /\ Holders(i)' = Holders(i) - Count(th[t].ino = i) + Count(th'[t].ino = i)
<1>1. /\ Cardinality(ThreadsOf(i)) \in Nat /\ Cardinality(ThreadsOf(i)') \in Nat
      /\ Cardinality(ThreadsOf(i)')
           = Cardinality(ThreadsOf(i)) - Count(th[t].ino = i) + Count(th'[t].ino = i)
  BY ThreadsChange, HoldersType
<1>2. DentriesOf(i)' = DentriesOf(i) /\ Cardinality(DentriesOf(i)) \in Nat
  BY HoldersType DEF DentriesOf
<1>3. /\ Holders(i) = Cardinality(DentriesOf(i)) + Cardinality(ThreadsOf(i)) + Count(i \in anon)
      /\ Holders(i)' = Cardinality(DentriesOf(i)) + Cardinality(ThreadsOf(i)')
                         + Count(i \in anon)
  BY <1>2 DEF Holders
<1>4. Count(th[t].ino = i) \in Int /\ Count(th'[t].ino = i) \in Int /\ Count(i \in anon) \in Nat
  BY DEF Count
<1> QED BY <1>1, <1>2, <1>3, <1>4

(* An inode that lives is found.                                             *)
LEMMA FoundKeeps ==
  ASSUME MountInv, UNCHANGED mvars, NEW t \in Threads, th[t].pc \in {"find", "alloc"}, Found(t),
         UNCHANGED <<link, removed, lcount, lpins, dentry, anon, overput, nfsgot, twins>>
  PROVE  MountInv'
<1>1. TypeInv /\ CallInv /\ InodeInv /\ TwinInv /\ LowerInodesBalanced
  BY DEF MountInv
<1>2. PICK i \in Slots : /\ inode[i].lower = th[t].l /\ inode[i].st = "live"
                         /\ inode' = Igrab(i)
                         /\ th' = [th EXCEPT ![t].ino = i, ![t].pc = "splice"]
  BY DEF Found, Match
<1>3. /\ th' \in [Threads -> Thread] /\ Others(t)
      /\ th'[t].pc = "splice" /\ th'[t].op = th[t].op /\ th'[t].n = th[t].n
      /\ th'[t].l = th[t].l /\ th'[t].ino = i /\ th'[t].pins = th[t].pins
  <2>1. "splice" \in Labels /\ i \in Slots \cup {NoSlot}
    BY DEF Labels
  <2> QED BY <1>1, <1>2, <2>1, HoldEffect DEF TypeInv
<1>4. /\ inode' \in [Slots -> Inode]
      /\ \A j \in Slots \ {i} : inode'[j] = inode[j]
      /\ inode'[i].count = inode[i].count + 1 /\ inode'[i].lower = inode[i].lower
      /\ inode'[i].st = inode[i].st
  BY <1>1, <1>2, IgrabEffect DEF TypeInv
<1>5. i # NoSlot /\ th[t].ino = NoSlot
  <2>1. ThreadOK(t)
    BY <1>1 DEF CallInv
  <2> QED BY <2>1, Constants DEF ThreadOK
<1>6. \A j \in Slots : inode'[j].st = inode[j].st /\ inode'[j].lower = inode[j].lower
  BY <1>4
<1>7. /\ CallInv' /\ DentryInv' /\ SbInv' /\ LowerPathsBalanced' /\ \A m \in Names : Stands(m)'
  <2>1. th[t].pc \in Iget /\ th'[t].pc \in Iget \cup {"fail"}
    BY <1>3 DEF Iget
  <2>2. th'[t].pc \in {"set", "splice"} <=> th'[t].ino # NoSlot
    BY <1>3, <1>5
  <2> QED BY <1>3, <1>6, <2>1, <2>2, IgetFrame
<1>8. InodeInv'
  <2>1. ASSUME NEW j \in Slots PROVE InodeOK(j)' /\ Counted(j)'
    <3>1. /\ InodeOK(j) /\ Counted(j) /\ Holders(j) \in Nat
          /\ Holders(j)' = Holders(j) - Count(th[t].ino = j) + Count(th'[t].ino = j)
      BY <1>1, <1>3, HoldersOfThread DEF InodeInv
    <3>2. CASE j = i
      <4>1. inode[i].count = Holders(i) /\ inode[i].count > 0 /\ inode[i].lower \in Lowers
        BY <1>2, <3>1, <3>2 DEF Counted, InodeOK
      <4>2. Holders(i)' = Holders(i) + 1
        BY <1>3, <1>5, <3>1, <3>2 DEF Count
      <4> QED BY <1>2, <1>4, <3>1, <3>2, <4>1, <4>2 DEF InodeOK, Counted
    <3>3. CASE j # i
      <4>1. Holders(j)' = Holders(j)
        BY <1>3, <1>5, <3>1, <3>3, Constants DEF Count
      <4> QED BY <1>4, <3>1, <3>3, <4>1 DEF InodeOK, Counted
    <3> QED BY <3>2, <3>3
  <2>2. ASSUME NEW n \in Names, dentry[n].ino # NoSlot PROVE inode'[dentry[n].ino].st = "live"
    BY <1>1, <1>6, <2>2 DEF InodeInv, TypeInv, Dentry
  <2>3. ASSUME NEW j \in anon PROVE inode'[j].st = "live"
    BY <1>1, <1>6 DEF InodeInv, TypeInv
  <2>4. ASSUME NEW u \in Threads PROVE HoldsLive(u)'
    <3>1. CASE u = t
      BY <1>2, <1>3, <1>4, <3>1 DEF HoldsLive
    <3>2. CASE u # t
      <4>1. th'[u] = th[u] /\ HoldsLive(u) /\ th[u].ino \in Slots \cup {NoSlot}
        BY <1>1, <1>3, <3>2 DEF Others, InodeInv, TypeInv, Thread
      <4> QED BY <1>6, <4>1 DEF HoldsLive
    <3> QED BY <3>1, <3>2
  <2> QED BY <2>1, <2>2, <2>3, <2>4 DEF InodeInv
<1>9. TwinInv'
  <2>1. \A u \in Threads : th'[u].pc = "set" => th[u].pc = "set" /\ th'[u].l = th[u].l
    BY <1>3 DEF Others
  <2> QED BY <1>1, <1>6, <2>1, TwinKept
<1>10. TypeInv'
  BY <1>1, <1>3, <1>4 DEF TypeInv, mvars
<1>11. LowerInodesBalanced'
  <2>1. \A l \in Lowers : SlotsOf(l)' = SlotsOf(l)
    BY <1>6 DEF SlotsOf
  <2> QED BY <1>1, <2>1 DEF LowerInodesBalanced, SlotsOf
<1> QED BY <1>7, <1>8, <1>9, <1>10, <1>11 DEF MountInv

(* None is found.                                                            *)
LEMMA NotFoundKeeps ==
  ASSUME MountInv, UNCHANGED mvars, NEW t \in Threads, th[t].pc = "find", Goto(t, "alloc"),
         UNCHANGED <<link, removed, lcount, lpins, inode, dentry, anon, overput, nfsgot, twins>>
  PROVE  MountInv'
<1>1. TypeInv /\ CallInv /\ InodeInv /\ TwinInv /\ LowerInodesBalanced
  BY DEF MountInv
<1>2. /\ th' \in [Threads -> Thread] /\ Others(t)
      /\ th'[t].pc = "alloc" /\ th'[t].op = th[t].op /\ th'[t].n = th[t].n
      /\ th'[t].l = th[t].l /\ th'[t].ino = th[t].ino /\ th'[t].pins = th[t].pins
  <2>1. "alloc" \in Labels
    BY DEF Labels
  <2> QED BY <1>1, <2>1, GotoEffect DEF TypeInv
<1>3. th[t].ino = NoSlot
  BY <1>1 DEF CallInv, ThreadOK
<1>4. /\ CallInv' /\ DentryInv' /\ SbInv' /\ LowerPathsBalanced' /\ \A m \in Names : Stands(m)'
  <2>1. th[t].pc \in Iget /\ th'[t].pc \in Iget \cup {"fail"}
    BY <1>2 DEF Iget
  <2>2. th'[t].pc \in {"set", "splice"} <=> th'[t].ino # NoSlot
    BY <1>2, <1>3
  <2> QED BY <1>2, <2>1, <2>2, IgetFrame
<1>5. InodeInv'
  BY <1>1, <1>2, <1>3, InodesAside
<1>6. TwinInv'
  <2>1. \A u \in Threads : th'[u].pc = "set" => th[u].pc = "set" /\ th'[u].l = th[u].l
    BY <1>2 DEF Others
  <2> QED BY <1>1, <2>1, TwinKept
<1>7. TypeInv'
  BY <1>1, <1>2 DEF TypeInv, mvars
<1>8. LowerInodesBalanced'
  BY <1>1 DEF LowerInodesBalanced
<1> QED BY <1>4, <1>5, <1>6, <1>7, <1>8 DEF MountInv

LEMMA FindKeeps ==
  ASSUME MountInv, UNCHANGED mvars, NEW t \in Threads, IgetFind(t)
  PROVE  MountInv'
<1>1. /\ th[t].pc = "find"
      /\ UNCHANGED <<link, removed, lcount, lpins, dentry, anon, overput, nfsgot, twins>>
      /\ Found(t) \/ (Goto(t, "alloc") /\ UNCHANGED inode)
  BY DEF IgetFind, lower, hist
<1>2. CASE Found(t)
  BY <1>1, <1>2, FoundKeeps
<1>3. CASE Goto(t, "alloc") /\ UNCHANGED inode
  BY <1>1, <1>3, NotFoundKeeps
<1> QED BY <1>1, <1>2, <1>3

(* An inode as iget5_locked makes it.                                        *)
LEMMA NewInode ==
  /\ [NoInode EXCEPT !.st = "new", !.count = 1] \in Inode
  /\ [NoInode EXCEPT !.st = "new", !.count = 1].st = "new"
  /\ [NoInode EXCEPT !.st = "new", !.count = 1].lower = NoLower
  /\ [NoInode EXCEPT !.st = "new", !.count = 1].count = 1
<1>1. NoInode \in Inode /\ NoInode.lower = NoLower
  BY RecordTypes
<1> DEFINE fresh == [NoInode EXCEPT !.st = "new"]
<1>2. fresh \in Inode /\ fresh.st = "new" /\ fresh.lower = NoLower
  BY <1>1 DEF Inode
<1>3. [NoInode EXCEPT !.st = "new", !.count = 1] = [fresh EXCEPT !.count = 1]
  OBVIOUS
<1> HIDE DEF fresh
<1>4. \A r : r = [fresh EXCEPT !.count = 1] =>
        r \in Inode /\ r.st = "new" /\ r.lower = NoLower /\ r.count = 1
  BY <1>2 DEF Inode
<1> QED BY <1>3, <1>4

(* A new inode is made and hashed; its lower inode is not set yet.           *)
LEMMA NewKeeps ==
  ASSUME MountInv, UNCHANGED mvars, NEW t \in Threads, th[t].pc = "alloc",
         Match(th[t].l) \cup Dying(th[t].l) = {}, NEW i \in Slots, inode[i].st = "free",
         inode' = [inode EXCEPT ![i] = [NoInode EXCEPT !.st = "new", !.count = 1]],
         th' = [th EXCEPT ![t].ino = i, ![t].pc = "set"],
         twins' = IF \E u \in Threads : th[u].pc = "set" /\ th[u].l = th[t].l
                  THEN twins \cup {th[t].l} ELSE twins,
         UNCHANGED <<link, removed, lcount, lpins, dentry, anon, overput, nfsgot>>
  PROVE  MountInv'
<1>1. TypeInv /\ CallInv /\ InodeInv /\ TwinInv /\ LowerInodesBalanced
  BY DEF MountInv
<1>2. /\ th' \in [Threads -> Thread] /\ Others(t)
      /\ th'[t].pc = "set" /\ th'[t].op = th[t].op /\ th'[t].n = th[t].n
      /\ th'[t].l = th[t].l /\ th'[t].ino = i /\ th'[t].pins = th[t].pins
  <2>1. "set" \in Labels /\ i \in Slots \cup {NoSlot}
    BY DEF Labels
  <2> QED BY <1>1, <2>1, HoldEffect DEF TypeInv
<1>3. /\ inode' \in [Slots -> Inode]
      /\ \A j \in Slots \ {i} : inode'[j] = inode[j]
      /\ inode'[i].count = 1 /\ inode'[i].lower = NoLower /\ inode'[i].st = "new"
  BY <1>1, NewInode DEF TypeInv
<1>4. i # NoSlot /\ th[t].ino = NoSlot /\ th[t].l \in Lowers
  <2>1. ThreadOK(t)
    BY <1>1 DEF CallInv
  <2> QED BY <2>1, Constants DEF ThreadOK, Iget
<1>5. inode[i].count = 0 /\ Holders(i) = 0 /\ inode[i].lower = NoLower
  <2>1. InodeOK(i) /\ Counted(i)
    BY <1>1 DEF InodeInv
  <2> QED BY <2>1, RecordTypes DEF InodeOK, Counted
<1>6. /\ \A n \in Names : dentry[n].ino # i
      /\ \A u \in Threads : th[u].ino # i
      /\ i \notin anon
  BY <1>5, HoldersType
<1>7. /\ CallInv' /\ DentryInv' /\ SbInv' /\ LowerPathsBalanced' /\ \A m \in Names : Stands(m)'
  <2>1. th[t].pc \in Iget /\ th'[t].pc \in Iget \cup {"fail"}
    BY <1>2 DEF Iget
  <2>2. th'[t].pc \in {"set", "splice"} <=> th'[t].ino # NoSlot
    BY <1>2, <1>4
  <2>3. \A j \in Slots : inode[j].st = "live" =>
          inode'[j].st = "live" /\ inode'[j].lower = inode[j].lower
    BY <1>3
  <2> QED BY <1>2, <2>1, <2>2, <2>3, IgetFrame
<1>8. InodeInv'
  <2>1. ASSUME NEW j \in Slots PROVE InodeOK(j)' /\ Counted(j)'
    <3>1. /\ InodeOK(j) /\ Counted(j) /\ Holders(j) \in Nat
          /\ Holders(j)' = Holders(j) - Count(th[t].ino = j) + Count(th'[t].ino = j)
      BY <1>1, <1>2, HoldersOfThread DEF InodeInv
    <3>2. CASE j = i
      <4>1. Holders(i)' = 1
        BY <1>2, <1>4, <1>5, <3>1, <3>2 DEF Count
      <4> QED BY <1>3, <3>2, <4>1 DEF InodeOK, Counted
    <3>3. CASE j # i
      <4>1. Holders(j)' = Holders(j)
        BY <1>2, <1>4, <3>1, <3>3, Constants DEF Count
      <4> QED BY <1>3, <3>1, <3>3, <4>1 DEF InodeOK, Counted
    <3> QED BY <3>2, <3>3
  <2>2. ASSUME NEW n \in Names, dentry[n].ino # NoSlot PROVE inode'[dentry[n].ino].st = "live"
    BY <1>1, <1>3, <1>6, <2>2 DEF InodeInv, TypeInv, Dentry
  <2>3. ASSUME NEW j \in anon PROVE inode'[j].st = "live"
    BY <1>1, <1>3, <1>6 DEF InodeInv, TypeInv
  <2>4. ASSUME NEW u \in Threads PROVE HoldsLive(u)'
    <3>1. CASE u = t
      BY <1>2, <1>3, <3>1 DEF HoldsLive
    <3>2. CASE u # t
      <4>1. th'[u] = th[u] /\ HoldsLive(u) /\ th[u].ino \in Slots \cup {NoSlot}
        BY <1>1, <1>2, <3>2 DEF Others, InodeInv, TypeInv, Thread
      <4> QED BY <1>3, <1>6, <4>1 DEF HoldsLive
    <3> QED BY <3>1, <3>2
  <2> QED BY <2>1, <2>2, <2>3, <2>4 DEF InodeInv
<1>9. TwinInv'
  <2>1. twins \subseteq twins'
    OBVIOUS
  <2>2. \A j \in Slots : inode'[j].st = "live" => j # i /\ inode'[j] = inode[j]
    BY <1>3
  <2>3. OneInode'
    BY <1>1, <2>1, <2>2 DEF TwinInv, OneInode
  <2>4. \A j \in Slots : inode'[j].st = "live" => inode'[j].lower # th[t].l
    BY <2>2 DEF Match
  <2>5. ASSUME NEW u \in Threads, u # t, th'[u].pc = "set"
        PROVE  /\ th'[u] = th[u]
               /\ th[u].l = th[t].l => th[t].l \in twins'
               /\ \A v \in Threads : v # u /\ th'[v].pc = "set" /\ th'[v].l = th[u].l
                    => th[u].l \in twins'
               /\ \A j \in Slots : inode'[j].st = "live" /\ inode'[j].lower = th[u].l
                    => th[u].l \in twins'
    <3>1. th'[u] = th[u]
      BY <1>2, <2>5 DEF Others
    <3>2. th[u].l = th[t].l => th[t].l \in twins'
      BY <2>5, <3>1
    <3>3. ASSUME NEW v \in Threads, v # u, th'[v].pc = "set", th'[v].l = th[u].l
          PROVE  th[u].l \in twins'
      <4>1. CASE v = t
        BY <1>2, <3>2, <3>3, <4>1
      <4>2. CASE v # t
        <5>1. th'[v] = th[v]
          BY <1>2, <4>2 DEF Others
        <5> QED BY <1>1, <2>1, <2>5, <3>1, <3>3, <5>1 DEF TwinInv
      <4> QED BY <4>1, <4>2
    <3>4. ASSUME NEW j \in Slots, inode'[j].st = "live", inode'[j].lower = th[u].l
          PROVE  th[u].l \in twins'
      BY <1>1, <2>1, <2>2, <2>5, <3>1, <3>4 DEF TwinInv
    <3> QED BY <3>1, <3>2, <3>3, <3>4
  <2> QED BY <1>2, <2>3, <2>4, <2>5 DEF TwinInv
<1>10. TypeInv'
  BY <1>1, <1>2, <1>3 DEF TypeInv, mvars
<1>11. LowerInodesBalanced'
  <2>1. \A j \in Slots : inode'[j].lower = inode[j].lower
    BY <1>3, <1>5
  <2>2. \A l \in Lowers : SlotsOf(l)' = SlotsOf(l)
    BY <2>1 DEF SlotsOf
  <2> QED BY <1>1, <2>2 DEF LowerInodesBalanced, SlotsOf
<1> QED BY <1>7, <1>8, <1>9, <1>10, <1>11 DEF MountInv

(* iget5_locked returns NULL, and trfs_iget puts the lower inode.            *)
LEMMA NoMemKeeps ==
  ASSUME MountInv, UNCHANGED mvars, NEW t \in Threads, th[t].pc = "alloc",
         lcount' = [lcount EXCEPT ![th[t].l] = @ - 1],
         overput' = [overput EXCEPT ![th[t].l] = @ + 1], Goto(t, "fail"),
         UNCHANGED <<link, removed, lpins, inode, dentry, anon, nfsgot, twins>>
  PROVE  MountInv'
<1>1. TypeInv /\ CallInv /\ InodeInv /\ TwinInv /\ LowerInodesBalanced
  BY DEF MountInv
<1>2. /\ th' \in [Threads -> Thread] /\ Others(t)
      /\ th'[t].pc = "fail" /\ th'[t].op = th[t].op /\ th'[t].n = th[t].n
      /\ th'[t].l = th[t].l /\ th'[t].ino = th[t].ino /\ th'[t].pins = th[t].pins
  <2>1. "fail" \in Labels
    BY DEF Labels
  <2> QED BY <1>1, <2>1, GotoEffect DEF TypeInv
<1>3. th[t].ino = NoSlot
  BY <1>1 DEF CallInv, ThreadOK
<1>0. PICK l \in Lowers : l = th[t].l
  BY <1>1 DEF CallInv, ThreadOK, Iget
<1>4. /\ CallInv' /\ DentryInv' /\ SbInv' /\ LowerPathsBalanced' /\ \A m \in Names : Stands(m)'
  <2>1. th[t].pc \in Iget /\ th'[t].pc \in Iget \cup {"fail"}
    BY <1>2 DEF Iget
  <2>2. th'[t].pc \in {"set", "splice"} <=> th'[t].ino # NoSlot
    BY <1>2, <1>3
  <2> QED BY <1>2, <2>1, <2>2, IgetFrame
<1>5. InodeInv'
  BY <1>1, <1>2, <1>3, InodesAside
<1>6. TwinInv'
  <2>1. \A u \in Threads : th'[u].pc = "set" => th[u].pc = "set" /\ th'[u].l = th[u].l
    BY <1>2 DEF Others
  <2> QED BY <1>1, <2>1, TwinKept
<1>7. /\ lcount' \in [Lowers -> Int] /\ overput' \in [Lowers -> Nat]
      /\ \A k \in Lowers : /\ lcount'[k] = IF k = l THEN lcount[k] - 1 ELSE lcount[k]
                           /\ overput'[k] = IF k = l THEN overput[k] + 1 ELSE overput[k]
  BY <1>0, <1>1 DEF TypeInv
<1>8. TypeInv'
  BY <1>1, <1>2, <1>7 DEF TypeInv, mvars
<1>9. LowerInodesBalanced'
  <2>1. ASSUME NEW k \in Lowers
        PROVE  lcount'[k] = lcount[k] - Count(link[Root] = k) + Count(link'[Root] = k)
                              + nfsgot'[k] - nfsgot[k] - overput'[k] + overput[k]
    <3>1. /\ Count(link'[Root] = k) = Count(link[Root] = k) /\ Count(link[Root] = k) \in Int
          /\ lcount[k] \in Int /\ nfsgot[k] \in Int /\ overput[k] \in Int
          /\ nfsgot'[k] = nfsgot[k]
      BY <1>1 DEF Count, TypeInv
    <3> QED BY <1>7, <3>1
  <2> QED BY <1>1, <1>8, <2>1, LowersByName, Constants
<1> QED BY <1>4, <1>5, <1>6, <1>8, <1>9 DEF MountInv

LEMMA AllocKeeps ==
  ASSUME MountInv, UNCHANGED mvars, NEW t \in Threads, IgetAlloc(t)
  PROVE  MountInv'
<1>1. th[t].pc = "alloc" /\ UNCHANGED <<link, removed, lpins, dentry, anon, nfsgot>>
  BY DEF IgetAlloc
<1>2. ASSUME Found(t), UNCHANGED <<lcount, overput, twins>> PROVE MountInv'
  BY <1>1, <1>2, FoundKeeps
<1>3. ASSUME Match(th[t].l) \cup Dying(th[t].l) = {}, \E i \in Slots : inode[i].st = "free",
             LET i == CHOOSE i \in Slots : inode[i].st = "free" IN
               /\ inode' = [inode EXCEPT ![i] = [NoInode EXCEPT !.st = "new", !.count = 1]]
               /\ th' = [th EXCEPT ![t].ino = i, ![t].pc = "set"],
             twins' = IF \E u \in Threads : th[u].pc = "set" /\ th[u].l = th[t].l
                      THEN twins \cup {th[t].l} ELSE twins,
             UNCHANGED <<lcount, overput>>
      PROVE  MountInv'
  <2>1. PICK i \in Slots :
          /\ inode[i].st = "free"
          /\ inode' = [inode EXCEPT ![i] = [NoInode EXCEPT !.st = "new", !.count = 1]]
          /\ th' = [th EXCEPT ![t].ino = i, ![t].pc = "set"]
    <3>1. PICK i : i = CHOOSE j \in Slots : inode[j].st = "free"
      OBVIOUS
    <3>2. i \in Slots /\ inode[i].st = "free"
      BY <1>3, <3>1
    <3> QED BY <1>3, <3>1, <3>2
  <2> QED BY <1>1, <1>3, <2>1, NewKeeps
<1>4. ASSUME lcount' = [lcount EXCEPT ![th[t].l] = @ - 1],
             overput' = [overput EXCEPT ![th[t].l] = @ + 1],
             Goto(t, "fail"), UNCHANGED <<inode, twins>>
      PROVE  MountInv'
  BY <1>1, <1>4, NoMemKeeps
<1> QED BY <1>2, <1>3, <1>4 DEF IgetAlloc

(* igrab succeeds: the inode comes to life for the lower inode.              *)
LEMMA AliveKeeps ==
  ASSUME MountInv, UNCHANGED mvars, NEW t \in Threads, th[t].pc = "set",
         inode' = [inode EXCEPT ![th[t].ino].lower = th[t].l, ![th[t].ino].st = "live"],
         lcount' = [lcount EXCEPT ![th[t].l] = @ + 1], Goto(t, "splice"),
         UNCHANGED <<link, removed, lpins, dentry, anon, overput, nfsgot, twins>>
  PROVE  MountInv'
<1>1. TypeInv /\ CallInv /\ InodeInv /\ TwinInv /\ LowerInodesBalanced
  BY DEF MountInv
<1>2. /\ th' \in [Threads -> Thread] /\ Others(t)
      /\ th'[t].pc = "splice" /\ th'[t].op = th[t].op /\ th'[t].n = th[t].n
      /\ th'[t].l = th[t].l /\ th'[t].ino = th[t].ino /\ th'[t].pins = th[t].pins
  <2>1. "splice" \in Labels
    BY DEF Labels
  <2> QED BY <1>1, <2>1, GotoEffect DEF TypeInv
<1>3. PICK i \in Slots : i = th[t].ino
  <2>1. ThreadOK(t) /\ th[t].ino \in Slots \cup {NoSlot}
    BY <1>1 DEF CallInv, TypeInv, Thread
  <2> QED BY <2>1 DEF ThreadOK
<1>4. PICK l \in Lowers : l = th[t].l
  BY <1>1 DEF CallInv, ThreadOK, Iget
<1>5. i # NoSlot /\ l # NoLower
  BY Constants
<1>6. inode[i].st = "new" /\ inode[i].lower = NoLower /\ inode[i].count = 1
  BY <1>1, <1>3, <1>5 DEF InodeInv, InodeOK, HoldsLive
<1>7. Holders(i) = 1
  <2>1. Counted(i)
    BY <1>1 DEF InodeInv
  <2> QED BY <1>3, <1>6, <2>1, HoldersType DEF Counted
<1>8. /\ \A u \in Threads \ {t} : th[u].ino # i
      /\ \A n \in Names : dentry[n].ino # i
      /\ i \notin anon
  BY <1>3, <1>7, SoleHolder
<1>9. /\ inode' \in [Slots -> Inode]
      /\ \A j \in Slots \ {i} : inode'[j] = inode[j]
      /\ inode'[i].count = 1 /\ inode'[i].lower = l /\ inode'[i].st = "live"
  <2>1. inode \in [Slots -> Inode] /\ inode[i] \in Inode
    BY <1>1 DEF TypeInv
  <2>2. PICK r : r = [inode[i] EXCEPT !.lower = l, !.st = "live"]
    OBVIOUS
  <2>3. r \in Inode /\ r.count = 1 /\ r.lower = l /\ r.st = "live"
    BY <1>6, <2>1, <2>2 DEF Inode
  <2>4. inode' = [inode EXCEPT ![i] = r]
    BY <1>3, <1>4, <2>1, <2>2 DEF Inode
  <2> QED BY <2>1, <2>3, <2>4
<1>10. /\ CallInv' /\ DentryInv' /\ SbInv' /\ LowerPathsBalanced' /\ \A m \in Names : Stands(m)'
  <2>1. th[t].pc \in Iget /\ th'[t].pc \in Iget \cup {"fail"}
    BY <1>2 DEF Iget
  <2>2. th'[t].pc \in {"set", "splice"} <=> th'[t].ino # NoSlot
    BY <1>2, <1>3, <1>5
  <2>3. \A j \in Slots : inode[j].st = "live" =>
          inode'[j].st = "live" /\ inode'[j].lower = inode[j].lower
    BY <1>6, <1>9
  <2> QED BY <1>2, <2>1, <2>2, <2>3, IgetFrame
<1>11. InodeInv'
  <2>1. ASSUME NEW j \in Slots PROVE InodeOK(j)' /\ Counted(j)'
    <3>1. /\ InodeOK(j) /\ Counted(j) /\ Holders(j) \in Nat
          /\ Holders(j)' = Holders(j) - Count(th[t].ino = j) + Count(th'[t].ino = j)
      BY <1>1, <1>2, HoldersOfThread DEF InodeInv
    <3>2. Holders(j)' = Holders(j)
      BY <1>2, <3>1 DEF Count
    <3>3. CASE j = i
      BY <1>5, <1>7, <1>9, <3>2, <3>3 DEF InodeOK, Counted
    <3>4. CASE j # i
      BY <1>9, <3>1, <3>2, <3>4 DEF InodeOK, Counted
    <3> QED BY <3>3, <3>4
  <2>2. ASSUME NEW n \in Names, dentry[n].ino # NoSlot PROVE inode'[dentry[n].ino].st = "live"
    BY <1>1, <1>8, <1>9, <2>2 DEF InodeInv, TypeInv, Dentry
  <2>3. ASSUME NEW j \in anon PROVE inode'[j].st = "live"
    BY <1>1, <1>8, <1>9 DEF InodeInv, TypeInv
  <2>4. ASSUME NEW u \in Threads PROVE HoldsLive(u)'
    <3>1. CASE u = t
      BY <1>2, <1>3, <1>4, <1>9, <3>1 DEF HoldsLive
    <3>2. CASE u # t
      <4>1. th'[u] = th[u] /\ HoldsLive(u) /\ th[u].ino \in Slots \cup {NoSlot}
        BY <1>1, <1>2, <3>2 DEF Others, InodeInv, TypeInv, Thread
      <4>2. th[u].ino # NoSlot => inode'[th[u].ino] = inode[th[u].ino]
        BY <1>8, <1>9, <3>2, <4>1
      <4> QED BY <4>1, <4>2 DEF HoldsLive
    <3> QED BY <3>1, <3>2
  <2> QED BY <2>1, <2>2, <2>3, <2>4 DEF InodeInv
<1>12. TwinInv'
  <2>1. ASSUME NEW j \in Slots, j # i, inode'[j].st = "live", inode'[j].lower = l
        PROVE  l \in twins
    BY <1>1, <1>4, <1>9, <2>1 DEF TwinInv
  <2>2. OneInode'
    <3>1. ASSUME NEW j \in Slots, NEW k \in Slots, j # k, inode'[j].st = "live",
                 inode'[k].st = "live", inode'[j].lower = inode'[k].lower
          PROVE  inode'[j].lower \in twins
      <4>1. CASE j = i \/ k = i
        BY <1>9, <2>1, <3>1, <4>1
      <4>2. CASE j # i /\ k # i
        BY <1>1, <1>9, <3>1, <4>2 DEF TwinInv, OneInode
      <4> QED BY <4>1, <4>2
    <3> QED BY <3>1 DEF OneInode
  <2>3. ASSUME NEW u \in Threads, th'[u].pc = "set"
        PROVE  /\ \A v \in Threads : v # u /\ th'[v].pc = "set" /\ th'[v].l = th'[u].l
                    => th'[u].l \in twins
               /\ \A j \in Slots : inode'[j].st = "live" /\ inode'[j].lower = th'[u].l
                    => th'[u].l \in twins
    <3>1. u # t /\ th'[u] = th[u]
      BY <1>2, <2>3 DEF Others
    <3>2. ASSUME NEW v \in Threads, v # u, th'[v].pc = "set", th'[v].l = th[u].l
          PROVE  th[u].l \in twins
      <4>1. v # t /\ th'[v] = th[v]
        BY <1>2, <3>2 DEF Others
      <4> QED BY <1>1, <2>3, <3>1, <3>2, <4>1 DEF TwinInv
    <3>3. ASSUME NEW j \in Slots, inode'[j].st = "live", inode'[j].lower = th[u].l
          PROVE  th[u].l \in twins
      <4>1. CASE j = i
        BY <1>1, <1>4, <1>9, <2>3, <3>1, <3>3, <4>1 DEF TwinInv
      <4>2. CASE j # i
        BY <1>1, <1>9, <2>3, <3>1, <3>3, <4>2 DEF TwinInv
      <4> QED BY <4>1, <4>2
    <3> QED BY <3>1, <3>2, <3>3
  <2> QED BY <2>2, <2>3 DEF TwinInv
<1>13. TypeInv'
  <2>1. lcount' \in [Lowers -> Int]
    BY <1>1, <1>4 DEF TypeInv
  <2> QED BY <1>1, <1>2, <1>9, <2>1 DEF TypeInv, mvars
<1>14. LowerInodesBalanced'
  <2>1. ASSUME NEW k \in Lowers
        PROVE  lcount'[k] = lcount[k] - Count(inode[i].lower = k) + Count(inode'[i].lower = k)
    BY <1>1, <1>4, <1>5, <1>6, <1>9, Constants DEF Count, TypeInv
  <2>2. \A j \in Slots \ {i} : inode'[j].lower = inode[j].lower
    BY <1>9
  <2> QED BY <1>1, <1>13, <2>1, <2>2, LowersBySlot
<1> QED BY <1>10, <1>11, <1>12, <1>13, <1>14 DEF MountInv

(* igrab fails: the inode is left new, with a reference nobody has.          *)
LEMMA StaleKeeps ==
  ASSUME MountInv, UNCHANGED mvars, NEW t \in Threads, th[t].pc = "set", Fault("stale"),
         th' = [th EXCEPT ![t].pc = "fail", ![t].ino = NoSlot],
         UNCHANGED <<link, removed, lcount, lpins, inode, dentry, anon, overput, nfsgot, twins>>
  PROVE  MountInv'
<1>1. TypeInv /\ CallInv /\ InodeInv /\ TwinInv /\ LowerInodesBalanced
  BY DEF MountInv
<1>2. /\ th' \in [Threads -> Thread] /\ Others(t)
      /\ th'[t].pc = "fail" /\ th'[t].op = th[t].op /\ th'[t].n = th[t].n
      /\ th'[t].l = th[t].l /\ th'[t].ino = NoSlot /\ th'[t].pins = th[t].pins
  <2>1. "fail" \in Labels /\ NoSlot \in Slots \cup {NoSlot}
    BY DEF Labels
  <2>2. th' = [th EXCEPT ![t].ino = NoSlot, ![t].pc = "fail"]
    BY <1>1 DEF TypeInv, Thread
  <2> QED BY <1>1, <2>1, <2>2, HoldEffect DEF TypeInv
<1>3. PICK i \in Slots : i = th[t].ino
  <2>1. ThreadOK(t) /\ th[t].ino \in Slots \cup {NoSlot}
    BY <1>1 DEF CallInv, TypeInv, Thread
  <2> QED BY <2>1 DEF ThreadOK
<1>5. i # NoSlot
  BY Constants
<1>6. inode[i].st = "new" /\ inode[i].lower = NoLower /\ inode[i].count = 1
  BY <1>1, <1>3, <1>5 DEF InodeInv, InodeOK, HoldsLive
<1>7. Holders(i) = 1
  <2>1. Counted(i)
    BY <1>1 DEF InodeInv
  <2> QED BY <1>3, <1>6, <2>1, HoldersType DEF Counted
<1>8. /\ CallInv' /\ DentryInv' /\ SbInv' /\ LowerPathsBalanced' /\ \A m \in Names : Stands(m)'
  <2>1. th[t].pc \in Iget /\ th'[t].pc \in Iget \cup {"fail"}
    BY <1>2 DEF Iget
  <2>2. th'[t].pc \in {"set", "splice"} <=> th'[t].ino # NoSlot
    BY <1>2
  <2> QED BY <1>2, <2>1, <2>2, IgetFrame
<1>9. InodeInv'
  <2>1. ASSUME NEW j \in Slots PROVE InodeOK(j)' /\ Counted(j)'
    <3>1. /\ InodeOK(j) /\ Counted(j) /\ Holders(j) \in Nat
          /\ Holders(j)' = Holders(j) - Count(th[t].ino = j) + Count(th'[t].ino = j)
      BY <1>1, <1>2, HoldersOfThread DEF InodeInv
    <3>2. CASE j = i
      <4>1. Holders(i)' = 0
        BY <1>2, <1>3, <1>5, <1>7, <3>1, <3>2 DEF Count
      <4> QED BY <1>6, <3>1, <3>2, <4>1 DEF InodeOK, Counted
    <3>3. CASE j # i
      <4>1. Holders(j)' = Holders(j)
        BY <1>2, <1>3, <3>1, <3>3, Constants DEF Count
      <4> QED BY <3>1, <4>1 DEF InodeOK, Counted
    <3> QED BY <3>2, <3>3
  <2>2. \A u \in Threads : HoldsLive(u)'
    BY <1>1, <1>2 DEF Others, InodeInv, HoldsLive
  <2> QED BY <1>1, <2>1, <2>2 DEF InodeInv
<1>10. TwinInv'
  <2>1. \A u \in Threads : th'[u].pc = "set" => th[u].pc = "set" /\ th'[u].l = th[u].l
    BY <1>2 DEF Others
  <2> QED BY <1>1, <2>1, TwinKept
<1>11. TypeInv'
  BY <1>1, <1>2 DEF TypeInv, mvars
<1>12. LowerInodesBalanced'
  BY <1>1 DEF LowerInodesBalanced
<1> QED BY <1>8, <1>9, <1>10, <1>11, <1>12 DEF MountInv

LEMMA InitKeeps ==
  ASSUME MountInv, UNCHANGED mvars, NEW t \in Threads, IgetInit(t)
  PROVE  MountInv'
<1>1. /\ th[t].pc = "set"
      /\ UNCHANGED <<link, removed, lpins, dentry, anon, overput, nfsgot, twins>>
  BY DEF IgetInit, hist
<1>2. ASSUME inode' = [inode EXCEPT ![th[t].ino].lower = th[t].l, ![th[t].ino].st = "live"],
             lcount' = [lcount EXCEPT ![th[t].l] = @ + 1], Goto(t, "splice")
      PROVE  MountInv'
  BY <1>1, <1>2, AliveKeeps
<1>3. ASSUME Fault("stale"), th' = [th EXCEPT ![t].pc = "fail", ![t].ino = NoSlot],
             UNCHANGED <<inode, lcount>>
      PROVE  MountInv'
  BY <1>1, <1>3, StaleKeeps
<1> QED BY <1>2, <1>3 DEF IgetInit

-----------------------------------------------------------------------------
(* d_splice_alias gives the inode to the dentry.                             *)
LEMMA SpliceEffect ==
  ASSUME dentry \in [Names -> Dentry], NEW n \in Names, NEW i \in Slots,
         dentry' = [dentry EXCEPT ![n].st = "pos", ![n].ino = i]
  PROVE  /\ dentry' \in [Names -> Dentry]
         /\ \A m \in Names \ {n} : dentry'[m] = dentry[m]
         /\ dentry'[n].st = "pos" /\ dentry'[n].ino = i
         /\ dentry'[n].data = dentry[n].data /\ dentry'[n].path = dentry[n].path
<1> DEFINE shown == [dentry EXCEPT ![n].st = "pos"]
<1>1. dentry' = [shown EXCEPT ![n].ino = i]
  OBVIOUS
<1>2. /\ shown \in [Names -> Dentry]
      /\ \A m \in Names \ {n} : shown[m] = dentry[m]
      /\ shown[n].st = "pos"
      /\ shown[n].data = dentry[n].data /\ shown[n].path = dentry[n].path
  BY DEF Dentry
<1> HIDE DEF shown
<1>3. dentry' \in [Names -> Dentry]
  <2>1. \A d \in Dentry : [d EXCEPT !.ino = i] \in Dentry
    BY DEF Dentry
  <2>2. PICK d \in Dentry : d = [shown[n] EXCEPT !.ino = i]
    BY <1>2, <2>1
  <2>3. dentry' = [shown EXCEPT ![n] = d]
    BY <1>1, <2>2
  <2> QED BY <1>2, <2>3
<1>4. /\ \A m \in Names \ {n} : dentry'[m] = shown[m]
      /\ dentry'[n].st = shown[n].st /\ dentry'[n].ino = i
  BY <1>1, <1>2 DEF Dentry
<1>5. dentry'[n].data = shown[n].data
  BY <1>1, <1>2 DEF Dentry
<1>6. dentry'[n].path = shown[n].path
  BY <1>1, <1>2 DEF Dentry
<1> QED BY <1>2, <1>3, <1>4, <1>5, <1>6

LEMMA SpliceKeeps ==
  ASSUME MountInv, UNCHANGED mvars, NEW t \in Threads, Splice(t)
  PROVE  MountInv'
<1>1. /\ TypeInv /\ CallInv /\ DentryInv /\ InodeInv /\ TwinInv /\ SbInv
      /\ LowerPathsBalanced /\ LowerInodesBalanced /\ \A m \in Names : Stands(m)
  BY DEF MountInv
<1>2. /\ th[t].pc = "splice" /\ th[t].op \in {"lookup", "create"}
      /\ dentry' = [dentry EXCEPT ![th[t].n].st = "pos", ![th[t].n].ino = th[t].ino]
      /\ th' = [th EXCEPT ![t].ino = NoSlot, ![t].pc = "out"]
      /\ UNCHANGED <<link, removed, lcount, lpins, inode, anon, overput, nfsgot, twins>>
  BY DEF Splice, lower, hist
<1>3. ThreadOK(t) /\ DentryOf(t) /\ HoldsLive(t) /\ th[t] \in Thread
  BY <1>1 DEF CallInv, InodeInv, TypeInv
<1>4. PICK n \in Names : n = th[t].n
  BY <1>3 DEF Thread
<1>5. PICK i \in Slots : i = th[t].ino
  BY <1>2, <1>3 DEF ThreadOK, Thread
<1>6. i # NoSlot /\ n # Root
  BY <1>2, <1>3, <1>4, Constants DEF ThreadOK, Locked
<1>7. inode[i].st = "live" /\ inode[i].lower = link[n] /\ link[n] \in Lowers
  BY <1>2, <1>3, <1>4, <1>5, <1>6 DEF HoldsLive, DentryOf, ThreadOK, Iget
<1>8. /\ dentry[n].st \in {"looking", "neg"} /\ dentry[n].ino = NoSlot
      /\ dentry[n].data /\ dentry[n].path /\ n \notin removed
  <2>1. DentryOK(n)
    BY <1>1 DEF DentryInv
  <2>2. CASE th[t].op = "lookup"
    BY <1>2, <1>3, <1>4, <2>1, <2>2 DEF DentryOf, DentryOK, Iget
  <2>3. CASE th[t].op = "create"
    BY <1>2, <1>3, <1>4, <2>1, <2>3 DEF DentryOf, DentryOK
  <2> QED BY <1>2, <2>2, <2>3
<1>9. /\ dentry' \in [Names -> Dentry]
      /\ \A m \in Names \ {n} : dentry'[m] = dentry[m]
      /\ dentry'[n].st = "pos" /\ dentry'[n].ino = i
      /\ dentry'[n].data = dentry[n].data /\ dentry'[n].path = dentry[n].path
  <2>1. dentry' = [dentry EXCEPT ![n].st = "pos", ![n].ino = i] /\ dentry \in [Names -> Dentry]
    BY <1>1, <1>2, <1>4, <1>5 DEF TypeInv
  <2> QED BY <2>1, SpliceEffect
<1>10. /\ th' \in [Threads -> Thread] /\ Others(t)
       /\ th'[t].pc = "out" /\ th'[t].op = th[t].op /\ th'[t].n = n
       /\ th'[t].l = th[t].l /\ th'[t].ino = NoSlot /\ th'[t].pins = th[t].pins
  <2>1. "out" \in Labels /\ NoSlot \in Slots \cup {NoSlot}
    BY DEF Labels
  <2>2. th' = [th EXCEPT ![t].ino = NoSlot, ![t].pc = "out"] /\ th \in [Threads -> Thread]
    BY <1>1, <1>2 DEF TypeInv
  <2>3. /\ th' \in [Threads -> Thread] /\ Others(t)
        /\ th'[t].pc = "out" /\ th'[t].op = th[t].op /\ th'[t].n = th[t].n
        /\ th'[t].l = th[t].l /\ th'[t].ino = NoSlot /\ th'[t].pins = th[t].pins
    BY <2>1, <2>2, HoldEffect
  <2> QED BY <1>4, <2>3
<1>11. CallInv'
  <2>1. ThreadOK(t)'
    BY <1>2, <1>6, <1>10 DEF ThreadOK, Iget
  <2>2. DentryOf(t)'
    BY <1>2, <1>9, <1>10 DEF DentryOf, Iget
  <2>3. \A u \in Threads \ {t} : th[u].op \in {"lookup", "create"} =>
          dentry'[th[u].n] = dentry[th[u].n]
    <3>1. ASSUME NEW u \in Threads \ {t}, th[u].op \in {"lookup", "create"}
          PROVE  dentry'[th[u].n] = dentry[th[u].n]
      <4>1. th[u].n # n
        BY <1>1, <1>2, <1>4, <3>1, ApartNames DEF Locked
      <4>2. th[u].n \in Names
        BY <1>1 DEF TypeInv, Thread
      <4> QED BY <1>9, <4>1, <4>2
    <3> QED BY <3>1
  <2> QED BY <1>1, <1>2, <1>4, <1>10, <2>1, <2>2, <2>3, CallStep DEF TypeInv, Locked
<1>12. DentryInv'
  <2>1. DentryOK(n)'
    BY <1>2, <1>6, <1>7, <1>8, <1>9, Constants DEF DentryOK
  <2>2. link'[Root] # NoLower
    BY <1>1, <1>2 DEF DentryInv
  <2>3. n # Root => dentry'[Root] = dentry[Root]
    BY <1>9, Constants
  <2> QED BY <1>1, <1>2, <1>4, <1>6, <1>9, <1>10, <2>1, <2>2, DentryChange
<1>13. InodeInv'
  <2>1. ASSUME NEW j \in Slots PROVE Holders(j)' = Holders(j)
    <3>1. /\ Holders(j) \in Nat
          /\ Holders(j)' = Holders(j) - Count(dentry[n].ino = j) + Count(dentry'[n].ino = j)
                             - Count(th[t].ino = j) + Count(th'[t].ino = j)
                             - Count(j \in anon) + Count(j \in anon')
      BY <1>9, <1>10, HoldersChange
    <3>2. j # NoSlot /\ anon' = anon
      BY <1>2, Constants
    <3> QED BY <1>5, <1>8, <1>9, <1>10, <3>1, <3>2 DEF Count
  <2>2. ASSUME NEW m \in Names, dentry'[m].ino # NoSlot PROVE inode[dentry'[m].ino].st = "live"
    BY <1>1, <1>7, <1>9, <2>2 DEF InodeInv
  <2>3. HoldsLive(t)'
    BY <1>10 DEF HoldsLive
  <2>4. \A j \in anon' : inode[j].st = "live"
    BY <1>1, <1>2 DEF InodeInv
  <2> QED BY <1>1, <1>2, <1>10, <2>1, <2>2, <2>3, <2>4, InodesMoved
<1>14. TwinInv'
  <2>1. \A u \in Threads : th'[u].pc = "set" => th[u].pc = "set" /\ th'[u].l = th[u].l
    BY <1>10 DEF Others
  <2> QED BY <1>1, <1>2, <2>1, TwinKept
<1>15. SbInv'
  <2>1. sb = "mounted"
    BY <1>1, <1>2, Inside
  <2>2. dentry'[Root].st = "pos"
    BY <1>1, <1>6, <1>9, <2>1, Constants DEF SbInv
  <2> QED BY <1>1, <1>2, <1>10, <2>1, <2>2, SbMounted
<1>16. ASSUME NEW m \in Names PROVE Stands(m)'
  <2>1. CASE m = n
    BY <1>2, <1>7, <1>8, <1>9, <2>1 DEF Stands
  <2>2. CASE m # n
    <3>1. Stands(m) /\ dentry'[m] = dentry[m]
      BY <1>1, <1>9, <2>2
    <3>3. dentry[m].st = "pos" => inode[dentry[m].ino].st = "live"
      BY <3>1 DEF Stands
    <3> QED BY <1>2, <3>1, <3>3, StandsKept
  <2> QED BY <2>1, <2>2
<1>17. LowerPathsBalanced'
  <2>1. ASSUME NEW m \in Names
        PROVE  lpins'[m] = lpins[m] - Count(dentry[m].path) + Count(dentry'[m].path)
                             - Count(m \in th[t].pins) + Count(m \in th'[t].pins)
    <3>1. /\ Count(m \in th'[t].pins) = Count(m \in th[t].pins)
          /\ Count(dentry'[m].path) = Count(dentry[m].path)
          /\ Count(m \in th[t].pins) \in Int /\ Count(dentry[m].path) \in Int
          /\ lpins[m] \in Int /\ lpins'[m] = lpins[m]
      BY <1>1, <1>2, <1>9, <1>10 DEF Count, TypeInv
    <3> QED BY <3>1
  <2> QED BY <1>1, <1>10, <2>1, PathsStep
<1>18. TypeInv'
  BY <1>1, <1>2, <1>9, <1>10 DEF TypeInv, mvars
<1>19. LowerInodesBalanced'
  BY <1>1, <1>2 DEF LowerInodesBalanced
<1> QED BY <1>11, <1>12, <1>13, <1>14, <1>15, <1>16, <1>17, <1>18, <1>19 DEF MountInv

(* A call of NFS returns.                                                    *)
LEMMA NfsReturns ==
  ASSUME MountInv, UNCHANGED mvars, NEW t \in Threads,
         th[t].op = "nfs", th[t].pc \in {"splice", "fail"}, th' = [th EXCEPT ![t] = Idle],
         UNCHANGED <<link, removed, lcount, lpins, dentry, overput, nfsgot, twins>>,
         InodeInv', inode' \in [Slots -> Inode], anon' \in SUBSET Slots,
         \A i \in Slots : /\ inode'[i].lower = inode[i].lower
                          /\ inode'[i].st = "live" => inode[i].st = "live"
  PROVE  MountInv'
<1>1. /\ TypeInv /\ CallInv /\ DentryInv /\ InodeInv /\ TwinInv /\ SbInv
      /\ LowerPathsBalanced /\ LowerInodesBalanced /\ \A m \in Names : Stands(m)
  BY DEF MountInv
<1>2. /\ th' \in [Threads -> Thread] /\ Others(t) /\ th'[t] = Idle
      /\ th'[t].pc = "idle" /\ th'[t].op = "none" /\ th'[t].n = Root
      /\ th'[t].l = NoLower /\ th'[t].ino = NoSlot /\ th'[t].pins = {}
  BY <1>1, ReturnEffect DEF TypeInv
<1>3. sb = "mounted" /\ th[t].pins = {}
  <2>1. ThreadOK(t)
    BY <1>1 DEF CallInv
  <2> QED BY <1>1, <2>1, Inside DEF ThreadOK
<1>4. CallInv'
  <2>1. ThreadOK(t)' /\ DentryOf(t)'
    BY <1>2 DEF ThreadOK, DentryOf, Locked, Iget
  <2> QED BY <1>1, <1>2, <2>1, CallStep DEF TypeInv, Locked
<1>5. DentryInv'
  <2>1. /\ \A n \in Names : dentry[n].st \in {"pos", "unhashed"} => link'[n] # NoLower
        /\ link'[Root] # NoLower
    BY <1>1 DEF DentryInv, DentryOK
  <2> QED BY <1>1, <1>2, <2>1, DentryStep
<1>6. TwinInv'
  <2>1. \A u \in Threads : th'[u].pc = "set" => th[u].pc = "set" /\ th'[u].l = th[u].l
    BY <1>2 DEF Others
  <2> QED BY <1>1, <2>1, TwinKept
<1>7. SbInv'
  <2>1. dentry'[Root].st = "pos"
    BY <1>1, <1>3 DEF SbInv
  <2> QED BY <1>1, <1>2, <1>3, <2>1, SbMounted
<1>8. ASSUME NEW m \in Names PROVE Stands(m)'
  <2>1. Stands(m) /\ DentryOK(m)
    BY <1>1 DEF DentryInv
  <2>3. dentry[m].st = "pos" =>
          /\ inode'[dentry[m].ino].st = "live"
          /\ inode'[dentry[m].ino].lower = inode[dentry[m].ino].lower
    <3>1. dentry[m].st = "pos" => dentry[m].ino \in Slots /\ dentry[m].ino # NoSlot
      BY <1>1, <2>1 DEF DentryOK, TypeInv, Dentry
    <3>2. dentry'[m].ino # NoSlot => inode'[dentry'[m].ino].st = "live"
      BY DEF InodeInv
    <3> QED BY <3>1, <3>2
  <2> QED BY <2>1, <2>3, StandsKept
<1>9. LowerPathsBalanced'
  <2>1. ASSUME NEW m \in Names
        PROVE  lpins'[m] = lpins[m] - Count(dentry[m].path) + Count(dentry'[m].path)
                             - Count(m \in th[t].pins) + Count(m \in th'[t].pins)
    <3>1. /\ Count(m \in th'[t].pins) = 0 /\ Count(m \in th[t].pins) = 0
          /\ Count(dentry'[m].path) = Count(dentry[m].path) /\ Count(dentry[m].path) \in Int
          /\ lpins[m] \in Int /\ lpins'[m] = lpins[m]
      BY <1>1, <1>2, <1>3 DEF Count, TypeInv
    <3> QED BY <3>1
  <2> QED BY <1>1, <1>2, <2>1, PathsStep
<1>10. TypeInv'
  BY <1>1, <1>2 DEF TypeInv, mvars
<1>11. LowerInodesBalanced'
  <2>1. \A l \in Lowers : SlotsOf(l)' = SlotsOf(l)
    BY DEF SlotsOf
  <2> QED BY <1>1, <2>1 DEF LowerInodesBalanced, SlotsOf
<1> QED BY <1>4, <1>5, <1>6, <1>7, <1>8, <1>9, <1>10, <1>11 DEF MountInv

LEMMA HandleKeeps ==
  ASSUME MountInv, UNCHANGED mvars, NEW t \in Threads, trfs_fh_to_dentry(t)
  PROVE  MountInv'
<1>1. TypeInv /\ CallInv /\ InodeInv
  BY DEF MountInv
<1>2. /\ th[t].op = "nfs" /\ th[t].pc \in {"splice", "fail"} /\ th' = [th EXCEPT ![t] = Idle]
      /\ UNCHANGED <<link, removed, lcount, lpins, dentry, overput, nfsgot, twins>>
  BY DEF trfs_fh_to_dentry, lower, hist
<1>3. Others(t) /\ th'[t].ino = NoSlot
  BY <1>1, <1>2, ReturnEffect DEF TypeInv
<1>4. ThreadOK(t) /\ HoldsLive(t) /\ th[t] \in Thread
  BY <1>1 DEF CallInv, InodeInv, TypeInv
<1>5. HoldsLive(t)'
  BY <1>3 DEF HoldsLive
<1>6. CASE th[t].pc = "fail"
  <2>1. inode' = inode /\ anon' = anon
    BY <1>6 DEF trfs_fh_to_dentry
  <2>2. th[t].ino = NoSlot
    BY <1>4, <1>6 DEF ThreadOK
  <2>3. InodeInv'
    BY <1>1, <1>2, <1>3, <2>1, <2>2, InodesAside
  <2> QED BY <1>1, <1>2, <2>1, <2>3, NfsReturns DEF TypeInv
<1>7. CASE th[t].pc = "splice"
  <2>1. PICK i \in Slots : i = th[t].ino
    BY <1>4, <1>7 DEF ThreadOK, Thread
  <2>2. i # NoSlot /\ inode[i].st = "live"
    BY <1>4, <1>7, <2>1, Constants DEF HoldsLive
  <2>3. CASE inode' = Iput(i) /\ anon' = anon
    <3>1. ASSUME NEW j \in Slots
          PROVE  /\ Holders(j) \in Nat
                 /\ Holders(j)' = Holders(j) - Count(i = j)
      <4>1. /\ Holders(j) \in Nat
            /\ Holders(j)' = Holders(j) - Count(th[t].ino = j) + Count(th'[t].ino = j)
        BY <1>2, <1>3, <2>3, HoldersOfThread
      <4> QED BY <1>3, <2>1, <4>1, Constants DEF Count
    <3>2. /\ \A j \in Slots \ {i} : Holders(j)' = Holders(j)
          /\ Holders(i)' = Holders(i) - 1
      BY <3>1 DEF Count
    <3>3. \A u \in Threads : th'[u] = th[u] \/ th'[u].ino = NoSlot
      BY <1>3 DEF Others
    <3>4. InodeInv'
      BY <1>1, <1>2, <2>2, <2>3, <3>2, <3>3, InodePut
    <3>5. /\ inode' \in [Slots -> Inode]
          /\ \A j \in Slots \ {i} : inode'[j] = inode[j]
          /\ inode'[i].lower = inode[i].lower
      BY <1>1, <2>3, IputEffect DEF TypeInv
    <3> QED BY <1>1, <1>2, <2>2, <2>3, <3>4, <3>5, NfsReturns DEF TypeInv
  <2>4. CASE i \notin anon /\ anon' = anon \cup {i} /\ inode' = inode
    <3>1. ASSUME NEW j \in Slots PROVE Holders(j)' = Holders(j)
      <4>1. /\ Holders(j) \in Nat
            /\ Holders(j)' = Holders(j) - Count(dentry[Root].ino = j) + Count(dentry'[Root].ino = j)
                               - Count(th[t].ino = j) + Count(th'[t].ino = j)
                               - Count(j \in anon) + Count(j \in anon')
        BY <1>2, <1>3, HoldersChange, Constants
      <4>2. /\ Count(dentry'[Root].ino = j) = Count(dentry[Root].ino = j)
            /\ Count(dentry[Root].ino = j) \in Int
            /\ Count(th'[t].ino = j) = 0
            /\ Count(j \in anon') = Count(j \in anon) + Count(th[t].ino = j)
            /\ Count(j \in anon) \in Int /\ Count(th[t].ino = j) \in Int
        BY <1>2, <1>3, <2>1, <2>4, Constants DEF Count
      <4> QED BY <4>1, <4>2
    <3>2. \A n \in Names : dentry'[n].ino # NoSlot => inode[dentry'[n].ino].st = "live"
      BY <1>1, <1>2 DEF InodeInv
    <3>3. \A j \in anon' : inode[j].st = "live"
      BY <1>1, <2>2, <2>4 DEF InodeInv
    <3>4. InodeInv'
      BY <1>1, <1>3, <1>5, <2>4, <3>1, <3>2, <3>3, InodesMoved
    <3> QED BY <1>1, <1>2, <2>4, <3>4, NfsReturns DEF TypeInv
  <2> QED BY <1>7, <2>1, <2>3, <2>4 DEF trfs_fh_to_dentry
<1> QED BY <1>2, <1>6, <1>7

(* Every step of a thread inside trfs.                                       *)
LEMMA StepKeeps ==
  ASSUME MountInv, UNCHANGED mvars, NEW t \in Threads, Step(t)
  PROVE  MountInv'
BY DataKeeps, WalkKeeps, InterposeKeeps, FindKeeps, AllocKeeps, InitKeeps, SpliceKeeps,
   FailedKeeps, OutKeeps, DputKeeps, HandleKeeps DEF Step

-----------------------------------------------------------------------------
(* A step of the module or of the superblock alone.                          *)
LEMMA SuperAlone ==
  ASSUME MountInv, UNCHANGED ivars, TypeInv', SbInv'
  PROVE  MountInv'
<1>1. UNCHANGED <<link, removed, lcount, lpins, inode, dentry, anon, th, overput, nfsgot, twins>>
  BY DEF ivars
<1>2. CallInv'
  BY <1>1 DEF MountInv, CallInv, ThreadOK, DentryOf, Apart
<1>3. DentryInv'
  BY <1>1 DEF MountInv, DentryInv, DentryOK
<1>4. InodeInv'
  BY <1>1 DEF MountInv, InodeInv, InodeOK, Counted, Holders, DentriesOf, ThreadsOf, HoldsLive
<1>5. TwinInv'
  BY <1>1 DEF MountInv, TwinInv, OneInode
<1>6. \A n \in Names : Stands(n)'
  BY <1>1 DEF MountInv, Stands
<1>7. LowerPathsBalanced' /\ LowerInodesBalanced'
  BY <1>1 DEF MountInv, LowerPathsBalanced, LowerInodesBalanced
<1> QED BY <1>2, <1>3, <1>4, <1>5, <1>6, <1>7 DEF MountInv

(* The module is loaded and unloaded.                                        *)
LEMMA ModuleKeeps ==
  ASSUME MountInv, init_trfs_fs \/ exit_trfs_fs
  PROVE  MountInv'
<1>1. UNCHANGED ivars /\ UNCHANGED <<sb, args, mount_path, s_fs_info, s_active, mounts>>
  BY DEF init_trfs_fs, exit_trfs_fs
<1>2. TypeInv'
  BY <1>1 DEF MountInv, TypeInv, ivars
<1>3. SbInv'
  BY <1>1 DEF MountInv, SbInv, Mounting, ivars
<1> QED BY <1>1, <1>2, <1>3, SuperAlone

(* Unmounting begins: the strings are freed.                                 *)
LEMMA ShutdownKeeps ==
  ASSUME MountInv, trfs_shutdown_super
  PROVE  MountInv'
<1>1. /\ sb = "mounted" /\ sb' = "shutdown" /\ mount_path' = "freed"
      /\ UNCHANGED ivars /\ UNCHANGED <<args, s_fs_info, s_active, mounts>>
      /\ \A t \in Threads : th[t].pc = "idle"
  BY DEF trfs_shutdown_super
<1>2. TypeInv /\ CallInv /\ SbInv
  BY DEF MountInv
<1>3. TypeInv'
  BY <1>1, <1>2 DEF TypeInv, ivars
<1>4. \A t \in Threads : th[t].op = "none"
  BY <1>1, <1>2, OutsideHasNothing
<1>5. SbInv'
  BY <1>1, <1>2, <1>4 DEF SbInv, Mounting, ivars
<1> QED BY <1>1, <1>3, <1>5, SuperAlone

(* And ends: the reference on the lower superblock is put.                   *)
LEMMA PutSuperKeeps ==
  ASSUME MountInv, trfs_put_super
  PROVE  MountInv'
<1>1. /\ sb = "shutdown" /\ sb' = "none" /\ s_active' = s_active - 1 /\ s_fs_info' = FALSE
      /\ UNCHANGED ivars /\ UNCHANGED <<args, mount_path, mounts>>
      /\ anon = {} /\ \A n \in Names : dentry[n].st = "none"
      /\ \A i \in Slots : inode[i].st \in {"free", "new"}
  BY DEF trfs_put_super
<1>2. TypeInv /\ CallInv /\ DentryInv /\ SbInv
  BY DEF MountInv
<1>3. /\ s_active' = 0 /\ mount_path = "freed"
      /\ \A t \in Threads : th[t].pc = "idle" /\ th[t].op = "none"
  BY <1>1, <1>2, OutsideHasNothing DEF SbInv
<1>4. \A n \in Names : dentry[n] = NoDentry
  BY <1>1, <1>2 DEF DentryInv, DentryOK
<1>5. TypeInv'
  <2>1. s_active' \in Nat /\ sb' \in {"none", "mounting", "mounted", "shutdown"}
    BY <1>1, <1>3
  <2>2. s_fs_info' \in BOOLEAN
    BY <1>1, Zenon
  <2> QED BY <1>1, <1>2, <2>1, <2>2 DEF TypeInv, ivars
<1>6. SbInv'
  BY <1>1, <1>3, <1>4 DEF SbInv, Mounting, ivars
<1> QED BY <1>1, <1>5, <1>6, SuperAlone

(* A step of the thread that mounts, which changes no dentry and moves no    *)
(* inode.                                                                    *)
LEMMA MountStep ==
  ASSUME MountInv, NEW t \in Threads, Others(t), th[t].op \in {"none", "mount"},
         th' \in [Threads -> Thread], th'[t].op = "mount", th'[t].ino = th[t].ino,
         th'[t].pc # "set", ThreadOK(t)', DentryOf(t)', HoldsLive(t)',
         UNCHANGED <<link, removed, lcount, inode, dentry, anon, overput, nfsgot, twins>>,
         TypeInv', SbInv',
         \A m \in Names :
           lpins'[m] = lpins[m] - Count(m \in th[t].pins) + Count(m \in th'[t].pins)
  PROVE  MountInv'
<1>1. /\ TypeInv /\ CallInv /\ DentryInv /\ InodeInv /\ TwinInv
      /\ LowerPathsBalanced /\ LowerInodesBalanced /\ \A m \in Names : Stands(m)
  BY DEF MountInv
<1>2. CallInv'
  BY <1>1, CallStep DEF TypeInv, Locked
<1>3. DentryInv'
  <2>1. /\ \A n \in Names : dentry[n].st \in {"pos", "unhashed"} => link'[n] # NoLower
        /\ link'[Root] # NoLower
    BY <1>1 DEF DentryInv, DentryOK
  <2> QED BY <1>1, <2>1, DentryStep
<1>4. InodeInv'
  BY <1>1, InodesKept
<1>5. TwinInv'
  <2>1. \A u \in Threads : th'[u].pc = "set" => th[u].pc = "set" /\ th'[u].l = th[u].l
    BY DEF Others
  <2> QED BY <1>1, <2>1, TwinKept
<1>6. ASSUME NEW m \in Names PROVE Stands(m)'
  <2>2. Stands(m)
    BY <1>1
  <2> QED BY <2>2, StandsKept DEF Stands
<1>7. LowerPathsBalanced'
  <2>1. ASSUME NEW m \in Names
        PROVE  lpins'[m] = lpins[m] - Count(dentry[m].path) + Count(dentry'[m].path)
                             - Count(m \in th[t].pins) + Count(m \in th'[t].pins)
    <3>1. /\ Count(dentry'[m].path) = Count(dentry[m].path) /\ Count(dentry[m].path) \in Int
          /\ Count(m \in th[t].pins) \in Int /\ Count(m \in th'[t].pins) \in Int
          /\ lpins[m] \in Int
      BY <1>1 DEF Count, TypeInv
    <3> QED BY <3>1
  <2> QED BY <1>1, <2>1, PathsStep
<1>8. LowerInodesBalanced'
  BY <1>1 DEF LowerInodesBalanced
<1> QED BY <1>2, <1>3, <1>4, <1>5, <1>6, <1>7, <1>8 DEF MountInv

(* mount(2) begins.                                                          *)
LEMMA MountKeeps ==
  ASSUME MountInv, NEW t \in Threads, NEW a \in MountArgs, trfs_mount(t, a)
  PROVE  MountInv'
<1>1. TypeInv /\ CallInv /\ SbInv
  BY DEF MountInv
<1>2. /\ sb = "none" /\ th[t].pc = "idle" /\ sb' = "mounting"
      /\ UNCHANGED <<link, removed, lcount, lpins, inode, dentry, anon, overput, nfsgot, twins,
                     s_fs_info, s_active>>
  BY DEF trfs_mount, hist
<1>3. PICK label \in {"super", "oops"} :
        th' = [th EXCEPT ![t] = [Idle EXCEPT !.pc = label, !.op = "mount"]]
  BY DEF trfs_mount
<1>4. /\ th' \in [Threads -> Thread] /\ Others(t)
      /\ th'[t].pc = label /\ th'[t].op = "mount" /\ th'[t].n = Root
      /\ th'[t].l = NoLower /\ th'[t].ino = NoSlot /\ th'[t].pins = {}
  <2> DEFINE begun == [Idle EXCEPT !.pc = label]
  <2>1. /\ begun \in Thread /\ begun.pc = label /\ begun.n = Root /\ begun.l = NoLower
        /\ begun.ino = NoSlot /\ begun.pins = {}
    BY RecordTypes DEF Thread, Labels
  <2>2. th' = [th EXCEPT ![t] = [begun EXCEPT !.op = "mount"]]
    BY <1>3
  <2> HIDE DEF begun
  <2>3. \A r : r = [begun EXCEPT !.op = "mount"] =>
          /\ r \in Thread /\ r.pc = label /\ r.op = "mount" /\ r.n = Root /\ r.l = NoLower
          /\ r.ino = NoSlot /\ r.pins = {}
    BY <2>1 DEF Thread, Ops
  <2> QED BY <1>1, <2>2, <2>3 DEF TypeInv, Others
<1>5. \A u \in Threads : /\ th[u].op = "none" /\ th[u].ino = NoSlot /\ th[u].pins = {}
                         /\ th[u].pc = "idle"
  BY <1>1, <1>2, OutsideHasNothing DEF SbInv
<1>6. ThreadOK(t)' /\ DentryOf(t)' /\ HoldsLive(t)'
  <2>1. ThreadOK(t)'
    BY <1>3, <1>4 DEF ThreadOK, Iget, Locked
  <2>2. DentryOf(t)' /\ HoldsLive(t)'
    BY <1>3, <1>4 DEF DentryOf, HoldsLive, Iget
  <2> QED BY <2>1, <2>2
<1>7. TypeInv'
  BY <1>1, <1>2, <1>4 DEF TypeInv
<1>8. SbInv'
  <2>1. \A u \in Threads : u # t => th'[u].op = "none"
    BY <1>4, <1>5 DEF Others
  <2>2. s_active = 0 /\ ~s_fs_info /\ anon = {} /\ \A n \in Names : dentry[n] = NoDentry
    BY <1>1, <1>2 DEF SbInv
  <2>3. \A u \in Threads : Mounting(u)'
    BY <1>2, <1>3, <1>4, <2>1, <2>2 DEF Mounting, Iget
  <2> QED BY <1>2, <1>4, <2>1, <2>2, <2>3 DEF SbInv
<1>9. \A m \in Names :
        lpins'[m] = lpins[m] - Count(m \in th[t].pins) + Count(m \in th'[t].pins)
  BY <1>1, <1>2, <1>4, <1>5 DEF TypeInv, Count
<1> QED BY <1>2, <1>3, <1>4, <1>5, <1>6, <1>7, <1>8, <1>9, MountStep

(* The superblock while the mount goes on.                                   *)
LEMMA SbMounting ==
  ASSUME SbInv, NEW t \in Threads, th[t].op = "mount", Others(t), th'[t].op = "mount",
         UNCHANGED <<sb, dentry, anon>>, Mounting(t)'
  PROVE  SbInv' /\ sb = "mounting"
<1>1. sb = "mounting"
  BY DEF SbInv, Mounting
<1>2. \A u \in Threads : u # t => th[u].op = "none" /\ th'[u].op = "none"
  BY <1>1 DEF SbInv, Others
<1>3. \A u \in Threads : Mounting(u)'
  BY <1>2 DEF Mounting
<1>4. anon' = {} /\ \A n \in Names : dentry'[n] = NoDentry
  BY <1>1 DEF SbInv
<1> QED BY <1>1, <1>2, <1>3, <1>4 DEF SbInv

(* What is known of a mount at each label.                                   *)
LEMMA AtMount ==
  ASSUME MountInv, NEW t \in Threads, NEW label, At(t, label)
  PROVE  /\ th[t].op = "mount" /\ th[t].pc = label /\ sb = "mounting" /\ th[t].n = Root
         /\ ThreadOK(t) /\ DentryOf(t) /\ HoldsLive(t) /\ Mounting(t)
         /\ th[t].pins \in SUBSET {Root}
BY DEF MountInv, CallInv, InodeInv, SbInv, At, Mounting, ThreadOK

LEMMA PathKeeps ==
  ASSUME MountInv, NEW t \in Threads, ReadSuperPath(t)
  PROVE  MountInv'
<1>1. TypeInv /\ SbInv
  BY DEF MountInv
<1>2. /\ th[t].op = "mount" /\ th[t].pc = "super" /\ th[t].n = Root
      /\ ThreadOK(t) /\ Mounting(t)
  BY AtMount DEF ReadSuperPath
<1>3. /\ UNCHANGED <<link, removed, lcount, inode, dentry, anon, overput, nfsgot, twins>>
      /\ UNCHANGED <<sb, mount_path, s_active>>
  BY DEF ReadSuperPath, hist
<1>4. /\ th[t].pins = {} /\ th[t].ino = NoSlot /\ sb = "mounting" /\ s_active = 0 /\ ~s_fs_info
  BY <1>2 DEF ThreadOK, Mounting
<1>5. ASSUME Goto(t, "fail"), UNCHANGED <<lpins, s_fs_info>> PROVE MountInv'
  <2>1. /\ th' \in [Threads -> Thread] /\ Others(t)
        /\ th'[t].pc = "fail" /\ th'[t].op = "mount" /\ th'[t].n = Root
        /\ th'[t].ino = NoSlot /\ th'[t].pins = {}
    <3>1. "fail" \in Labels
      BY DEF Labels
    <3> QED BY <1>1, <1>2, <1>4, <1>5, <3>1, GotoEffect DEF TypeInv
  <2>2. ThreadOK(t)' /\ DentryOf(t)' /\ HoldsLive(t)' /\ Mounting(t)'
    BY <1>3, <1>4, <2>1 DEF ThreadOK, DentryOf, HoldsLive, Mounting, Iget, Locked
  <2>3. SbInv'
    BY <1>1, <1>2, <1>3, <2>1, <2>2, SbMounting
  <2>4. TypeInv'
    BY <1>1, <1>3, <1>5, <2>1 DEF TypeInv
  <2>5. \A m \in Names :
          lpins'[m] = lpins[m] - Count(m \in th[t].pins) + Count(m \in th'[t].pins)
    BY <1>1, <1>4, <1>5, <2>1 DEF TypeInv, Count
  <2> QED BY <1>2, <1>3, <1>4, <2>1, <2>2, <2>3, <2>4, <2>5, MountStep
<1>6. ASSUME NEW label \in {"tfile", "fail"}, mount_path = "live", lpins' = Get({Root}),
             th' = [th EXCEPT ![t].pc = label, ![t].pins = {Root}],
             label = "tfile" => s_fs_info' = TRUE, s_fs_info' \in BOOLEAN
      PROVE  MountInv'
  <2>1. /\ th' \in [Threads -> Thread] /\ Others(t)
        /\ th'[t].pc = label /\ th'[t].op = "mount" /\ th'[t].n = Root
        /\ th'[t].ino = NoSlot /\ th'[t].pins = {Root}
    <3>1. label \in Labels /\ {Root} \in SUBSET Names /\ th \in [Threads -> Thread]
      BY <1>1, Constants DEF Labels, TypeInv
    <3>2. PICK pins \in SUBSET Names : pins = {Root}
      BY <3>1
    <3>3. GotoWith(t, label, pins)
      BY <1>6, <3>2 DEF GotoWith
    <3>4. /\ th' \in [Threads -> Thread] /\ Others(t)
          /\ th'[t].pc = label /\ th'[t].op = th[t].op /\ th'[t].n = th[t].n
          /\ th'[t].l = th[t].l /\ th'[t].ino = th[t].ino /\ th'[t].pins = pins
      BY <3>1, <3>3, PinsEffect
    <3> QED BY <1>2, <1>4, <3>2, <3>4
  <2>2. ThreadOK(t)' /\ DentryOf(t)' /\ HoldsLive(t)'
    BY <1>6, <2>1 DEF ThreadOK, DentryOf, HoldsLive, Iget, Locked
  <2>3. Mounting(t)'
    BY <1>3, <1>4, <1>6, <2>1 DEF Mounting, Iget
  <2>4. SbInv'
    BY <1>1, <1>2, <1>3, <2>1, <2>3, SbMounting
  <2>5. /\ lpins' \in [Names -> Int]
        /\ \A m \in Names : lpins'[m] = lpins[m] + Count(m \in {Root})
    BY <1>1, <1>6, PinEffect DEF TypeInv
  <2>6. TypeInv'
    BY <1>1, <1>3, <1>6, <2>1, <2>5 DEF TypeInv
  <2>7. \A m \in Names :
          lpins'[m] = lpins[m] - Count(m \in th[t].pins) + Count(m \in th'[t].pins)
    BY <1>1, <1>4, <2>1, <2>5 DEF TypeInv, Count
  <2> QED BY <1>2, <1>3, <1>4, <2>1, <2>2, <2>4, <2>6, <2>7, MountStep
<1>7. /\ s_fs_info \in BOOLEAN
      /\ s_fs_info' = TRUE => s_fs_info' \in BOOLEAN
      /\ s_fs_info' = s_fs_info => s_fs_info' \in BOOLEAN
  BY <1>1, Zenon DEF TypeInv
<1>8. CASE Goto(t, "fail") /\ UNCHANGED <<lpins, s_fs_info>>
  BY <1>5, <1>8
<1>9. CASE /\ mount_path = "live" /\ lpins' = Get({Root})
           /\ th' = [th EXCEPT ![t].pc = "tfile", ![t].pins = {Root}]
           /\ s_fs_info' = TRUE
  BY <1>6, <1>7, <1>9
<1>10. CASE /\ mount_path = "live" /\ lpins' = Get({Root})
            /\ th' = [th EXCEPT ![t].pc = "fail", ![t].pins = {Root}]
            /\ UNCHANGED s_fs_info
  BY <1>6, <1>7, <1>10
<1> QED BY <1>8, <1>9, <1>10 DEF ReadSuperPath

LEMMA TfileKeeps ==
  ASSUME MountInv, NEW t \in Threads, ReadSuperTfile(t)
  PROVE  MountInv'
<1>1. TypeInv /\ DentryInv /\ SbInv
  BY DEF MountInv
<1>2. /\ th[t].op = "mount" /\ th[t].pc = "tfile" /\ th[t].n = Root
      /\ ThreadOK(t) /\ Mounting(t)
  BY AtMount DEF ReadSuperTfile
<1>3. /\ UNCHANGED <<link, removed, lcount, lpins, inode, dentry, anon, overput, nfsgot, twins>>
      /\ UNCHANGED <<sb, mount_path, s_fs_info>>
  BY DEF ReadSuperTfile, hist
<1>4. /\ th[t].pins = {Root} /\ th[t].ino = NoSlot /\ sb = "mounting" /\ s_active = 0 /\ s_fs_info
      /\ mount_path = "live"
  BY <1>2 DEF ThreadOK, Mounting
<1>5. ASSUME Others(t), th' \in [Threads -> Thread], th'[t].op = "mount", th'[t].n = Root,
             th'[t].ino = NoSlot, th'[t].pins = {Root},
             \/ th'[t].pc = "oops" /\ s_active' = s_active
             \/ th'[t].pc = "find" /\ s_active' = 1 /\ th'[t].l = link[Root] /\ link[Root] \in Lowers
      PROVE  MountInv'
  <2>1. ThreadOK(t)' /\ DentryOf(t)' /\ HoldsLive(t)'
    BY <1>3, <1>5 DEF ThreadOK, DentryOf, HoldsLive, Iget, Locked
  <2>2. Mounting(t)'
    BY <1>3, <1>4, <1>5 DEF Mounting, Iget
  <2>3. SbInv'
    BY <1>1, <1>2, <1>3, <1>5, <2>2, SbMounting
  <2>4. TypeInv'
    BY <1>1, <1>3, <1>4, <1>5 DEF TypeInv
  <2>5. \A m \in Names :
          lpins'[m] = lpins[m] - Count(m \in th[t].pins) + Count(m \in th'[t].pins)
    BY <1>1, <1>3, <1>4, <1>5 DEF TypeInv, Count
  <2>6. th'[t].pc # "set"
    BY <1>5
  <2> QED BY <1>2, <1>3, <1>4, <1>5, <2>1, <2>3, <2>4, <2>5, <2>6, MountStep
<1>6. CASE Goto(t, "oops") /\ UNCHANGED s_active
  <2>1. "oops" \in Labels
    BY DEF Labels
  <2> QED BY <1>1, <1>2, <1>4, <1>5, <1>6, <2>1, GotoEffect DEF TypeInv
<1>7. CASE s_active' = s_active + 1 /\ th' = [th EXCEPT ![t].pc = "find", ![t].l = link[Root]]
  <2>1. PICK l \in Lowers : l = link[Root]
    BY <1>1, Constants DEF TypeInv, DentryInv
  <2>2. "find" \in Labels
    BY DEF Labels
  <2>3. th' = [th EXCEPT ![t].l = l, ![t].pc = "find"] /\ th \in [Threads -> Thread]
    BY <1>1, <1>7, <2>1 DEF TypeInv, Thread
  <2>4. /\ th' \in [Threads -> Thread] /\ Others(t)
        /\ th'[t].pc = "find" /\ th'[t].op = th[t].op /\ th'[t].n = th[t].n
        /\ th'[t].l = l /\ th'[t].ino = th[t].ino /\ th'[t].pins = th[t].pins
    BY <2>2, <2>3, FindEffect
  <2> QED BY <1>2, <1>4, <1>5, <1>7, <2>1, <2>4
<1> QED BY <1>6, <1>7 DEF ReadSuperTfile

LEMMA ReadFailKeeps ==
  ASSUME MountInv, NEW t \in Threads, ReadSuperFail(t)
  PROVE  MountInv'
<1>1. TypeInv /\ SbInv
  BY DEF MountInv
<1>2. /\ th[t].op = "mount" /\ th[t].pc = "fail" /\ th[t].n = Root /\ sb = "mounting"
      /\ ThreadOK(t) /\ Mounting(t)
  BY AtMount DEF ReadSuperFail
<1>3. /\ UNCHANGED <<link, removed, lcount, inode, dentry, anon, overput, nfsgot, twins>>
      /\ UNCHANGED <<sb, mount_path>> /\ s_active' = 0 /\ s_fs_info' = FALSE
      /\ lpins' = Put(th[t].pins)
      /\ th' = [th EXCEPT ![t].pc = "oops", ![t].pins = {}]
  BY DEF ReadSuperFail, hist
<1>4. th[t].ino = NoSlot
  BY <1>2 DEF ThreadOK
<1>5. /\ th' \in [Threads -> Thread] /\ Others(t)
      /\ th'[t].pc = "oops" /\ th'[t].op = "mount" /\ th'[t].n = Root
      /\ th'[t].ino = NoSlot /\ th'[t].pins = {}
  <2>1. "oops" \in Labels /\ {} \in SUBSET Names /\ th \in [Threads -> Thread]
    BY <1>1 DEF Labels, TypeInv
  <2>2. PICK pins \in SUBSET Names : pins = {}
    BY <2>1
  <2>3. GotoWith(t, "oops", pins)
    BY <1>3, <2>2 DEF GotoWith
  <2>4. /\ th' \in [Threads -> Thread] /\ Others(t)
        /\ th'[t].pc = "oops" /\ th'[t].op = th[t].op /\ th'[t].n = th[t].n
        /\ th'[t].l = th[t].l /\ th'[t].ino = th[t].ino /\ th'[t].pins = pins
    BY <2>1, <2>3, PinsEffect
  <2> QED BY <1>2, <1>4, <2>2, <2>4
<1>6. ThreadOK(t)' /\ DentryOf(t)' /\ HoldsLive(t)' /\ Mounting(t)'
  BY <1>2, <1>3, <1>5 DEF ThreadOK, DentryOf, HoldsLive, Mounting, Iget, Locked
<1>7. SbInv'
  BY <1>1, <1>2, <1>3, <1>5, <1>6, SbMounting
<1>8. /\ lpins' \in [Names -> Int]
      /\ \A m \in Names : lpins'[m] = lpins[m] - Count(m \in th[t].pins)
  BY <1>1, <1>3, PinEffect DEF TypeInv
<1>9. TypeInv'
  <2>1. s_fs_info' \in BOOLEAN
    BY <1>3, Zenon
  <2> QED BY <1>1, <1>3, <1>5, <1>8, <2>1 DEF TypeInv
<1>10. \A m \in Names :
         lpins'[m] = lpins[m] - Count(m \in th[t].pins) + Count(m \in th'[t].pins)
  BY <1>1, <1>5, <1>8 DEF TypeInv, Count
<1> QED BY <1>2, <1>3, <1>4, <1>5, <1>6, <1>7, <1>9, <1>10, MountStep

(* The root's inode gets its dentry, and the file system is mounted.         *)
LEMMA RootShown ==
  ASSUME MountInv, NEW t \in Threads, At(t, "splice"),
         dentry' = [dentry EXCEPT ![Root] =
                      [st |-> "pos", ino |-> th[t].ino, data |-> TRUE, path |-> TRUE]],
         th' = [th EXCEPT ![t] = Idle], sb' = "mounted",
         UNCHANGED <<link, removed, lcount, lpins, inode, anon, overput, nfsgot, twins,
                     mount_path, s_fs_info, s_active>>
  PROVE  MountInv'
<1>1. /\ TypeInv /\ CallInv /\ DentryInv /\ InodeInv /\ TwinInv /\ SbInv
      /\ LowerPathsBalanced /\ LowerInodesBalanced /\ \A m \in Names : Stands(m)
  BY DEF MountInv
<1>2. /\ th[t].op = "mount" /\ th[t].pc = "splice" /\ sb = "mounting" /\ th[t].n = Root
      /\ ThreadOK(t) /\ DentryOf(t) /\ HoldsLive(t) /\ Mounting(t) /\ th[t] \in Thread
  BY <1>1, AtMount DEF TypeInv
<1>3. PICK i \in Slots : i = th[t].ino
  BY <1>2 DEF ThreadOK, Thread
<1>4. i # NoSlot /\ Root \in Names
  BY Constants
<1>5. /\ inode[i].st = "live" /\ inode[i].lower = link[Root] /\ link[Root] # NoLower
      /\ th[t].pins = {Root}
  BY <1>1, <1>2, <1>3, <1>4 DEF HoldsLive, DentryOf, ThreadOK, Iget, DentryInv
<1>6. /\ \A n \in Names : dentry[n] = NoDentry
      /\ anon = {} /\ s_active = 1 /\ s_fs_info /\ mount_path = "live"
      /\ \A u \in Threads : u # t => th[u].op = "none" /\ th[u].pc = "idle"
  BY <1>1, <1>2 DEF SbInv, Mounting, Iget, CallInv, ThreadOK
<1>7. Root \notin removed
  BY <1>1, <1>4, <1>6, RecordTypes DEF DentryInv, DentryOK
<1>8. PICK d : d = [st |-> "pos", ino |-> i, data |-> TRUE, path |-> TRUE]
  OBVIOUS
<1>9. d \in Dentry /\ d.st = "pos" /\ d.ino = i /\ d.data /\ d.path
  BY <1>8 DEF Dentry
<1>10. /\ dentry' \in [Names -> Dentry]
       /\ \A m \in Names \ {Root} : dentry'[m] = dentry[m]
       /\ dentry'[Root].st = "pos" /\ dentry'[Root].ino = i
       /\ dentry'[Root].data /\ dentry'[Root].path
  <2>1. dentry' = [dentry EXCEPT ![Root] = d] /\ dentry \in [Names -> Dentry]
    BY <1>1, <1>3, <1>8 DEF TypeInv
  <2> QED BY <1>4, <1>9, <2>1
<1>11. /\ th' \in [Threads -> Thread] /\ Others(t) /\ th'[t] = Idle
       /\ th'[t].pc = "idle" /\ th'[t].op = "none" /\ th'[t].n = Root
       /\ th'[t].l = NoLower /\ th'[t].ino = NoSlot /\ th'[t].pins = {}
  BY <1>1, ReturnEffect DEF TypeInv
<1>12. CallInv'
  <2>1. ThreadOK(t)' /\ DentryOf(t)'
    BY <1>11 DEF ThreadOK, DentryOf, Locked, Iget
  <2>2. \A u \in Threads \ {t} : th[u].op \notin {"lookup", "create", "mount"}
    BY <1>6
  <2> QED BY <1>1, <1>11, <2>1, <2>2, CallStep DEF TypeInv, Locked
<1>13. DentryInv'
  <2>1. DentryOK(Root)'
    BY <1>4, <1>5, <1>7, <1>10 DEF DentryOK
  <2> QED BY <1>1, <1>2, <1>4, <1>5, <1>10, <1>11, <2>1, DentryChange
<1>14. InodeInv'
  <2>1. ASSUME NEW j \in Slots PROVE Holders(j)' = Holders(j)
    <3>1. /\ Holders(j) \in Nat
          /\ Holders(j)' = Holders(j) - Count(dentry[Root].ino = j) + Count(dentry'[Root].ino = j)
                             - Count(th[t].ino = j) + Count(th'[t].ino = j)
                             - Count(j \in anon) + Count(j \in anon')
      BY <1>4, <1>10, <1>11, HoldersChange
    <3>2. j # NoSlot /\ dentry[Root].ino = NoSlot
      BY <1>4, <1>6, Constants, RecordTypes
    <3> QED BY <1>3, <1>6, <1>10, <1>11, <3>1, <3>2 DEF Count
  <2>2. ASSUME NEW m \in Names, dentry'[m].ino # NoSlot PROVE inode[dentry'[m].ino].st = "live"
    BY <1>1, <1>5, <1>10, <2>2 DEF InodeInv
  <2>3. HoldsLive(t)'
    BY <1>11 DEF HoldsLive
  <2>4. \A j \in anon' : inode[j].st = "live"
    BY <1>1 DEF InodeInv
  <2> QED BY <1>1, <1>11, <2>1, <2>2, <2>3, <2>4, InodesMoved
<1>15. TwinInv'
  <2>1. \A u \in Threads : th'[u].pc = "set" => th[u].pc = "set" /\ th'[u].l = th[u].l
    BY <1>11 DEF Others
  <2> QED BY <1>1, <2>1, TwinKept
<1>16. SbInv'
  <2>1. \A u \in Threads : th'[u].op = "none"
    BY <1>6, <1>11 DEF Others
  <2> QED BY <1>6, <1>10, <2>1 DEF SbInv, Mounting
<1>17. ASSUME NEW m \in Names PROVE Stands(m)'
  <2>1. CASE m = Root
    BY <1>5, <1>10, <2>1 DEF Stands
  <2>2. CASE m # Root
    <3>1. dentry'[m].st = "none"
      BY <1>6, <1>10, <2>2, RecordTypes
    <3> QED BY <3>1 DEF Stands
  <2> QED BY <2>1, <2>2
<1>18. LowerPathsBalanced'
  <2>1. ASSUME NEW m \in Names
        PROVE  lpins'[m] = lpins[m] - Count(dentry[m].path) + Count(dentry'[m].path)
                             - Count(m \in th[t].pins) + Count(m \in th'[t].pins)
    <3>1. lpins[m] \in Int /\ lpins'[m] = lpins[m] /\ Count(m \in th'[t].pins) = 0
      BY <1>1, <1>11 DEF TypeInv, Count
    <3>2. Count(dentry[m].path) = 0
      BY <1>6, RecordTypes DEF Count
    <3>3. Count(dentry'[m].path) = Count(m \in th[t].pins) /\ Count(m \in th[t].pins) \in Int
      <4>1. CASE m = Root
        BY <1>5, <1>10, <4>1 DEF Count
      <4>2. CASE m # Root
        BY <1>5, <1>6, <1>10, <4>2, RecordTypes DEF Count
      <4> QED BY <4>1, <4>2
    <3>4. PICK k \in Int : k = Count(m \in th[t].pins) /\ k = Count(dentry'[m].path)
      BY <3>3
    <3>5. lpins'[m] = lpins[m] - 0 + k - k + 0
      BY <3>1
    <3> QED BY <3>1, <3>2, <3>4, <3>5
  <2> QED BY <1>1, <1>11, <2>1, PathsStep
<1>19. TypeInv'
  BY <1>1, <1>10, <1>11 DEF TypeInv
<1>20. LowerInodesBalanced'
  BY <1>1 DEF LowerInodesBalanced
<1> QED BY <1>12, <1>13, <1>14, <1>15, <1>16, <1>17, <1>18, <1>19, <1>20 DEF MountInv

LEMMA RootKeeps ==
  ASSUME MountInv, NEW t \in Threads, ReadSuperRoot(t)
  PROVE  MountInv'
<1>1. TypeInv /\ SbInv
  BY DEF MountInv
<1>2. At(t, "splice")
  BY DEF ReadSuperRoot
<1>3. UNCHANGED <<link, removed, lcount, lpins, inode, anon, overput, nfsgot, twins,
                  mount_path, s_fs_info, s_active>>
  BY DEF ReadSuperRoot, hist
<1>4. CASE /\ dentry' = [dentry EXCEPT ![Root] =
                           [st |-> "pos", ino |-> th[t].ino, data |-> TRUE, path |-> TRUE]]
           /\ th' = [th EXCEPT ![t] = Idle]
           /\ sb' = "mounted"
  BY <1>2, <1>3, <1>4, RootShown
<1>5. CASE Goto(t, "oops") /\ UNCHANGED <<dentry, sb>>
  <2>1. /\ th[t].op = "mount" /\ th[t].pc = "splice" /\ th[t].n = Root /\ sb = "mounting"
        /\ ThreadOK(t) /\ HoldsLive(t) /\ Mounting(t) /\ th[t].pins \in SUBSET {Root}
    BY <1>2, AtMount
  <2>2. /\ th' \in [Threads -> Thread] /\ Others(t)
        /\ th'[t].pc = "oops" /\ th'[t].op = th[t].op /\ th'[t].n = th[t].n
        /\ th'[t].l = th[t].l /\ th'[t].ino = th[t].ino /\ th'[t].pins = th[t].pins
    <3>1. "oops" \in Labels
      BY DEF Labels
    <3> QED BY <1>1, <1>5, <3>1, GotoEffect DEF TypeInv
  <2>3. ThreadOK(t)' /\ DentryOf(t)'
    BY <2>1, <2>2 DEF ThreadOK, DentryOf, Iget, Locked
  <2>4. HoldsLive(t)' /\ Mounting(t)'
    BY <1>3, <1>5, <2>1, <2>2 DEF HoldsLive, Mounting, Iget
  <2>5. SbInv'
    BY <1>1, <1>3, <1>5, <2>1, <2>2, <2>4, SbMounting
  <2>6. TypeInv'
    BY <1>1, <1>3, <1>5, <2>2 DEF TypeInv
  <2>7. \A m \in Names :
          lpins'[m] = lpins[m] - Count(m \in th[t].pins) + Count(m \in th'[t].pins)
    BY <1>1, <1>3, <2>2 DEF TypeInv, Count
  <2> QED BY <1>3, <1>5, <2>1, <2>2, <2>3, <2>4, <2>5, <2>6, <2>7, MountStep
<1> QED BY <1>4, <1>5 DEF ReadSuperRoot

-----------------------------------------------------------------------------
(* The superblock while the caches shrink.                                   *)
LEMMA SbShrunk ==
  ASSUME SbInv, UNCHANGED mvars, th' = th, sb \in {"mounted", "shutdown"},
         sb = "mounted" => dentry'[Root].st = "pos"
  PROVE  SbInv'
<1>1. UNCHANGED <<sb, mount_path, s_fs_info, s_active, mounts>>
  BY DEF mvars
<1>2. \A u \in Threads : Mounting(u)'
  BY <1>1 DEF SbInv, Mounting
<1> QED BY <1>1, <1>2 DEF SbInv

(* The dentry of a name is dropped.                                          *)
LEMMA DropKeeps ==
  ASSUME MountInv, UNCHANGED mvars, NEW n \in Names, n # Root \/ sb = "shutdown", Drop(n)
  PROVE  MountInv'
<1>1. /\ TypeInv /\ CallInv /\ DentryInv /\ InodeInv /\ TwinInv /\ SbInv
      /\ LowerPathsBalanced /\ LowerInodesBalanced /\ \A m \in Names : Stands(m)
  BY DEF MountInv
<1>2. /\ dentry[n].st \in {"pos", "unhashed"} /\ ~InUse(n)
      /\ dentry' = [dentry EXCEPT ![n] = NoDentry]
      /\ inode'  = IF dentry[n].ino = NoSlot THEN inode ELSE Iput(dentry[n].ino)
      /\ lpins'  = IF dentry[n].path THEN Put({n}) ELSE lpins
      /\ UNCHANGED <<anon, th, overput, nfsgot, twins>>
      /\ IF n \in removed
         THEN /\ removed' = removed \ {n}
              /\ link' = [link EXCEPT ![n] = NoLower]
              /\ lcount' = [lcount EXCEPT ![link[n]] = @ - 1]
         ELSE UNCHANGED <<link, removed, lcount>>
  BY DEF Drop, Killed, lower, hist
<1>3. DentryOK(n)
  BY <1>1 DEF DentryInv
<1>4. /\ dentry' \in [Names -> Dentry]
      /\ \A m \in Names \ {n} : dentry'[m] = dentry[m]
      /\ dentry'[n] = NoDentry /\ dentry'[n].st = "none" /\ dentry'[n].ino = NoSlot
      /\ dentry'[n].path = FALSE
  BY <1>1, <1>2, RecordTypes DEF TypeInv
<1>5. /\ n \notin removed'
      /\ \A m \in Names \ {n} : link'[m] = link[m] /\ (m \in removed' <=> m \in removed)
      /\ link' \in [Names -> Lowers \cup {NoLower}] /\ removed' \in SUBSET Names
  BY <1>1, <1>2 DEF TypeInv
<1>6. Root \notin removed /\ link'[Root] = link[Root] /\ link[Root] # NoLower
  <2>1. Root \notin removed
    BY <1>1, Constants DEF DentryInv, DentryOK
  <2> QED BY <1>1, <1>2, <1>5, <2>1, Constants DEF DentryInv
<1>7. /\ \A u \in Threads : th[u].pc # "idle" => th[u].n # n /\ th[u].n \in Names
      /\ sb \in {"mounted", "shutdown"}
  <2>1. dentry[n] # NoDentry
    BY <1>2, RecordTypes
  <2> QED BY <1>1, <1>2, <2>1 DEF InUse, TypeInv, Thread, SbInv
<1>8. CallInv'
  <2>1. \A u \in Threads : th[u].pc # "idle" =>
          dentry'[th[u].n] = dentry[th[u].n] /\ link'[th[u].n] = link[th[u].n]
    BY <1>4, <1>5, <1>7
  <2> QED BY <1>1, <1>2, <2>1, CallStill DEF TypeInv
<1>9. DentryInv'
  <2>1. ASSUME NEW m \in Names PROVE DentryOK(m)'
    <3>1. CASE m = n
      BY <1>4, <1>5, <3>1 DEF DentryOK
    <3>2. CASE m # n
      BY <1>1, <1>2, <1>4, <1>5, <3>2 DEF DentryInv, DentryOK
    <3> QED BY <3>1, <3>2
  <2>2. dentry'[Root].st \in {"none", "pos"}
    BY <1>1, <1>4, Constants DEF DentryInv
  <2> QED BY <1>6, <2>1, <2>2 DEF DentryInv
<1>10. ASSUME NEW j \in Slots
       PROVE  /\ Holders(j) \in Nat
              /\ Holders(j)' = Holders(j) - Count(dentry[n].ino = j)
  <2>1. /\ Holders(j) \in Nat
        /\ Holders(j)' = Holders(j) - Count(dentry[n].ino = j) + Count(dentry'[n].ino = j)
                           - Count(j \in anon) + Count(j \in anon')
    BY <1>2, <1>4, HoldersDrop
  <2>2. /\ Count(dentry'[n].ino = j) = 0 /\ Count(j \in anon') = Count(j \in anon)
        /\ Count(j \in anon) \in Int /\ Count(dentry[n].ino = j) \in Int
    BY <1>2, <1>4, Constants DEF Count
  <2> QED BY <2>1, <2>2
<1>11. /\ InodeInv' /\ inode' \in [Slots -> Inode]
       /\ \A j \in Slots : /\ inode'[j].lower = inode[j].lower
                           /\ inode'[j].st = "live" => inode[j].st = "live"
  <2>1. PICK i \in Slots : i = dentry[n].ino
    BY <1>1, <1>2, <1>3 DEF DentryOK, TypeInv, Dentry
  <2>2. inode[i].st = "live" /\ inode' = Iput(i)
    BY <1>1, <1>2, <1>3, <2>1 DEF InodeInv, DentryOK
  <2>3. /\ \A j \in Slots \ {i} : Holders(j)' = Holders(j)
        /\ Holders(i)' = Holders(i) - 1
    BY <1>10, <2>1 DEF Count
  <2>4. \A m \in Names : dentry'[m].ino \in {dentry[m].ino, NoSlot}
    BY <1>4
  <2>5. InodeInv'
    BY <1>1, <1>2, <2>2, <2>3, <2>4, InodePut
  <2>6. /\ inode' \in [Slots -> Inode]
        /\ \A j \in Slots \ {i} : inode'[j] = inode[j]
        /\ inode'[i].lower = inode[i].lower
    BY <1>1, <2>2, IputEffect DEF TypeInv
  <2> QED BY <2>2, <2>5, <2>6
<1>12. TwinInv'
  BY <1>1, <1>2, <1>11, TwinKept
<1>13. SbInv'
  <2>1. sb = "mounted" => dentry'[Root].st = "pos"
    BY <1>1, <1>4, Constants DEF SbInv
  <2> QED BY <1>1, <1>2, <1>7, <2>1, SbShrunk
<1>14. ASSUME NEW m \in Names PROVE Stands(m)'
  <2>1. CASE m = n
    BY <1>4, <2>1 DEF Stands
  <2>2. CASE m # n
    <3>1. Stands(m) /\ DentryOK(m) /\ dentry'[m] = dentry[m] /\ link'[m] = link[m]
      BY <1>1, <1>4, <1>5, <2>2 DEF DentryInv
    <3>2. dentry[m].st = "pos" =>
            /\ inode'[dentry[m].ino].st = "live"
            /\ inode'[dentry[m].ino].lower = inode[dentry[m].ino].lower
      <4>1. dentry[m].st = "pos" => dentry[m].ino \in Slots /\ dentry[m].ino # NoSlot
        BY <1>1, <3>1 DEF DentryOK, TypeInv, Dentry
      <4>2. dentry'[m].ino # NoSlot => inode'[dentry'[m].ino].st = "live"
        BY <1>11 DEF InodeInv
      <4> QED BY <1>11, <3>1, <4>1, <4>2
    <3> QED BY <1>2, <3>1, <3>2, StandsKept
  <2> QED BY <2>1, <2>2
<1>15. lpins' \in [Names -> Int] /\ LowerPathsBalanced'
  <2>1. /\ Put({n}) \in [Names -> Int]
        /\ \A m \in Names : Put({n})[m] = lpins[m] - Count(m \in {n})
    BY <1>1, PinEffect DEF TypeInv
  <2>2. lpins' \in [Names -> Int]
    BY <1>1, <1>2, <2>1 DEF TypeInv
  <2>3. ASSUME NEW m \in Names
        PROVE  lpins'[m] = lpins[m] - Count(dentry[m].path) + Count(dentry'[m].path)
    <3>1. lpins[m] \in Int
      BY <1>1 DEF TypeInv
    <3>2. CASE m = n
      <4>1. Count(m \in {n}) = 1 /\ Count(dentry'[m].path) = 0
        BY <1>4, <3>2 DEF Count
      <4>2. CASE dentry[n].path
        <5>1. Count(dentry[m].path) = 1 /\ lpins'[m] = lpins[m] - 1
          BY <1>2, <2>1, <3>2, <4>1, <4>2 DEF Count
        <5> QED BY <3>1, <4>1, <5>1
      <4>3. CASE ~dentry[n].path
        <5>1. Count(dentry[m].path) = 0 /\ lpins'[m] = lpins[m]
          BY <1>2, <3>2, <4>3 DEF Count
        <5> QED BY <3>1, <4>1, <5>1
      <4> QED BY <4>2, <4>3
    <3>3. CASE m # n
      <4>1. Count(m \in {n}) = 0
        BY <3>3 DEF Count
      <4>2. Count(dentry'[m].path) = Count(dentry[m].path) /\ Count(dentry[m].path) \in Int
        BY <1>4, <3>3 DEF Count
      <4>3. lpins'[m] = lpins[m]
        <5>1. Put({n})[m] = lpins[m]
          BY <2>1, <3>1, <4>1
        <5>2. lpins' = Put({n}) \/ lpins' = lpins
          BY <1>2
        <5> QED BY <5>1, <5>2
      <4> QED BY <3>1, <4>2, <4>3
    <3> QED BY <3>2, <3>3
  <2> QED BY <1>1, <1>2, <2>2, <2>3, PathsStill
<1>16. lcount' \in [Lowers -> Int]
  BY <1>1, <1>2 DEF TypeInv
<1>17. TypeInv'
  BY <1>1, <1>2, <1>4, <1>5, <1>11, <1>15, <1>16 DEF TypeInv, mvars
<1>18. LowerInodesBalanced'
  <2>1. ASSUME NEW l \in Lowers
        PROVE  lcount'[l] = lcount[l] - Count(link[n] = l) + Count(link'[n] = l)
                              + nfsgot'[l] - nfsgot[l] - overput'[l] + overput[l]
    <3>1. /\ lcount[l] \in Int /\ nfsgot[l] \in Int /\ overput[l] \in Int
          /\ nfsgot'[l] = nfsgot[l] /\ overput'[l] = overput[l]
      BY <1>1, <1>2 DEF TypeInv
    <3>2. CASE n \in removed
      <4>0. /\ link'[n] = NoLower /\ lcount' = [lcount EXCEPT ![link[n]] = @ - 1]
            /\ lcount \in [Lowers -> Int]
        BY <1>1, <1>2, <3>2 DEF TypeInv
      <4>1. lcount'[l] = lcount[l] - Count(link[n] = l) /\ Count(link[n] = l) \in Int
        BY <3>1, <4>0 DEF Count
      <4>2. Count(link'[n] = l) = 0
        BY <4>0, Constants DEF Count
      <4> QED BY <3>1, <4>1, <4>2
    <3>3. CASE n \notin removed
      <4>1. /\ Count(link'[n] = l) = Count(link[n] = l) /\ Count(link[n] = l) \in Int
            /\ lcount'[l] = lcount[l]
        BY <1>2, <3>3 DEF Count
      <4> QED BY <3>1, <4>1
    <3> QED BY <3>2, <3>3
  <2> QED BY <1>1, <1>5, <1>11, <1>17, <2>1, LowersByName
<1> QED BY <1>8, <1>9, <1>11, <1>12, <1>13, <1>14, <1>15, <1>17, <1>18 DEF MountInv

(* An anonymous dentry is dropped.                                           *)
LEMMA DropAnonKeeps ==
  ASSUME MountInv, UNCHANGED mvars, NEW i \in Slots, DropAnon(i)
  PROVE  MountInv'
<1>1. /\ TypeInv /\ CallInv /\ DentryInv /\ InodeInv /\ TwinInv /\ SbInv
      /\ LowerPathsBalanced /\ LowerInodesBalanced /\ \A m \in Names : Stands(m)
  BY DEF MountInv
<1>2. /\ i \in anon /\ anon' = anon \ {i} /\ inode' = Iput(i)
      /\ UNCHANGED <<link, removed, lcount, lpins, dentry, th, overput, nfsgot, twins>>
  BY DEF DropAnon, lower, hist
<1>3. inode[i].st = "live"
  BY <1>1, <1>2 DEF InodeInv
<1>4. /\ inode' \in [Slots -> Inode]
      /\ \A j \in Slots \ {i} : inode'[j] = inode[j]
      /\ inode'[i].lower = inode[i].lower
  BY <1>1, <1>2, IputEffect DEF TypeInv
<1>5. ASSUME NEW j \in Slots
      PROVE  /\ Holders(j) \in Nat
             /\ Holders(j)' = Holders(j) - Count(i = j)
  <2>1. /\ Holders(j) \in Nat
        /\ Holders(j)' = Holders(j) - Count(dentry[Root].ino = j) + Count(dentry'[Root].ino = j)
                           - Count(j \in anon) + Count(j \in anon')
    BY <1>2, HoldersDrop, Constants
  <2>2. /\ Count(dentry'[Root].ino = j) = Count(dentry[Root].ino = j)
        /\ Count(dentry[Root].ino = j) \in Int
        /\ Count(j \in anon) = Count(j \in anon') + Count(i = j)
        /\ Count(j \in anon') \in Int /\ Count(i = j) \in Int
    BY <1>2 DEF Count
  <2> QED BY <2>1, <2>2
<1>6. InodeInv'
  <2>1. /\ \A j \in Slots \ {i} : Holders(j)' = Holders(j)
        /\ Holders(i)' = Holders(i) - 1
    BY <1>5 DEF Count
  <2> QED BY <1>1, <1>2, <1>3, <2>1, InodePut
<1>7. CallInv'
  BY <1>1, <1>2, CallStill DEF TypeInv
<1>8. DentryInv'
  BY <1>1, <1>2 DEF DentryInv, DentryOK
<1>9. TwinInv'
  BY <1>1, <1>2, <1>3, <1>4, TwinKept
<1>10. SbInv'
  <2>1. sb \in {"mounted", "shutdown"}
    BY <1>1, <1>2 DEF SbInv, TypeInv
  <2> QED BY <1>1, <1>2, <2>1, SbShrunk DEF SbInv
<1>11. ASSUME NEW m \in Names PROVE Stands(m)'
  <2>1. Stands(m) /\ DentryOK(m)
    BY <1>1 DEF DentryInv
  <2>2. dentry[m].st = "pos" =>
          /\ inode'[dentry[m].ino].st = "live"
          /\ inode'[dentry[m].ino].lower = inode[dentry[m].ino].lower
    <3>1. dentry[m].st = "pos" => dentry[m].ino \in Slots /\ dentry[m].ino # NoSlot
      BY <1>1, <2>1 DEF DentryOK, TypeInv, Dentry
    <3>2. dentry'[m].ino # NoSlot => inode'[dentry'[m].ino].st = "live"
      BY <1>6 DEF InodeInv
    <3> QED BY <1>2, <1>4, <3>1, <3>2
  <2> QED BY <1>2, <2>1, <2>2, StandsKept
<1>12. LowerPathsBalanced'
  BY <1>1, <1>2 DEF LowerPathsBalanced
<1>13. LowerInodesBalanced'
  <2>1. \A l \in Lowers : SlotsOf(l)' = SlotsOf(l)
    BY <1>4 DEF SlotsOf
  <2> QED BY <1>1, <1>2, <2>1 DEF LowerInodesBalanced, SlotsOf
<1>14. TypeInv'
  BY <1>1, <1>2, <1>4 DEF TypeInv, mvars
<1> QED BY <1>6, <1>7, <1>8, <1>9, <1>10, <1>11, <1>12, <1>13, <1>14 DEF MountInv

(* An inode without references is evicted, and its lower inode put.          *)
LEMMA EvictKeeps ==
  ASSUME MountInv, NEW i \in Slots, Evict(i)
  PROVE  MountInv'
<1>1. /\ TypeInv /\ CallInv /\ DentryInv /\ InodeInv /\ TwinInv /\ SbInv
      /\ LowerPathsBalanced /\ LowerInodesBalanced /\ \A m \in Names : Stands(m)
  BY DEF MountInv
<1>2. /\ inode[i].st = "freeing" /\ inode' = [inode EXCEPT ![i] = NoInode]
      /\ lcount' = [lcount EXCEPT ![inode[i].lower] = @ - 1]
      /\ UNCHANGED <<link, removed, lpins, dentry, anon, th, overput, nfsgot, twins>>
      /\ UNCHANGED <<sb, mount_path, s_fs_info, s_active, mounts>>
  BY DEF Evict, trfs_evict_inode, hist, mvars
<1>3. /\ inode' \in [Slots -> Inode] /\ inode'[i] = NoInode
      /\ \A j \in Slots \ {i} : inode'[j] = inode[j]
  BY <1>1, <1>2, RecordTypes DEF TypeInv
<1>4. inode[i].lower \in Lowers /\ inode[i].count = 0 /\ Holders(i) = 0
  <2>1. InodeOK(i) /\ Counted(i)
    BY <1>1 DEF InodeInv
  <2> QED BY <1>2, <2>1 DEF InodeOK, Counted
<1>5. \A j \in Slots : Holders(j)' = Holders(j)
  BY <1>2 DEF Holders, DentriesOf, ThreadsOf
<1>6. /\ \A n \in Names : dentry[n].ino # i
      /\ \A u \in Threads : th[u].ino # i
      /\ i \notin anon
  BY <1>4, HoldersType
<1>7. InodeInv'
  <2>1. ASSUME NEW j \in Slots PROVE InodeOK(j)' /\ Counted(j)'
    <3>1. InodeOK(j) /\ Counted(j)
      BY <1>1 DEF InodeInv
    <3>2. CASE j = i
      BY <1>3, <1>4, <1>5, <3>2, RecordTypes DEF InodeOK, Counted
    <3>3. CASE j # i
      BY <1>3, <1>5, <3>1, <3>3 DEF InodeOK, Counted
    <3> QED BY <3>2, <3>3
  <2>2. ASSUME NEW n \in Names, dentry[n].ino # NoSlot PROVE inode'[dentry[n].ino].st = "live"
    BY <1>1, <1>3, <1>6, <2>2 DEF InodeInv, TypeInv, Dentry
  <2>3. ASSUME NEW j \in anon PROVE inode'[j].st = "live"
    BY <1>1, <1>3, <1>6 DEF InodeInv, TypeInv
  <2>4. ASSUME NEW u \in Threads PROVE HoldsLive(u)'
    <3>1. HoldsLive(u) /\ th[u].ino \in Slots \cup {NoSlot}
      BY <1>1 DEF InodeInv, TypeInv, Thread
    <3>2. th[u].ino # NoSlot => inode'[th[u].ino] = inode[th[u].ino]
      BY <1>3, <1>6, <3>1
    <3> QED BY <1>2, <3>1, <3>2 DEF HoldsLive
  <2> QED BY <1>2, <2>1, <2>2, <2>3, <2>4 DEF InodeInv
<1>8. \A j \in Slots : inode'[j].st = "live" =>
        inode[j].st = "live" /\ inode'[j].lower = inode[j].lower
  BY <1>3, RecordTypes
<1>9. TwinInv'
  BY <1>1, <1>2, <1>8, TwinKept
<1>10. CallInv'
  BY <1>1, <1>2, CallStill DEF TypeInv
<1>11. DentryInv'
  BY <1>1, <1>2 DEF DentryInv, DentryOK
<1>12. SbInv'
  <2>1. sb = "none" => \A j \in Slots : inode'[j].st \in {"free", "new"}
    BY <1>1, <1>2 DEF SbInv
  <2>2. \A u \in Threads : Mounting(u)'
    BY <1>1, <1>2 DEF SbInv, Mounting
  <2> QED BY <1>1, <1>2, <2>1, <2>2 DEF SbInv
<1>13. ASSUME NEW m \in Names PROVE Stands(m)'
  <2>1. Stands(m) /\ DentryOK(m)
    BY <1>1 DEF DentryInv
  <2>2. dentry[m].st = "pos" =>
          /\ inode'[dentry[m].ino].st = "live"
          /\ inode'[dentry[m].ino].lower = inode[dentry[m].ino].lower
    <3>1. dentry[m].st = "pos" => dentry[m].ino \in Slots
      BY <1>1, <2>1, Constants DEF DentryOK, TypeInv, Dentry
    <3> QED BY <1>3, <1>6, <2>1, <3>1 DEF Stands
  <2> QED BY <1>2, <2>1, <2>2, StandsKept
<1>14. LowerPathsBalanced'
  BY <1>1, <1>2 DEF LowerPathsBalanced
<1>15. TypeInv'
  <2>1. PICK l \in Lowers : l = inode[i].lower
    BY <1>4
  <2>2. lcount' = [lcount EXCEPT ![l] = @ - 1] /\ lcount \in [Lowers -> Int]
    BY <1>1, <1>2, <2>1 DEF TypeInv
  <2>3. lcount' \in [Lowers -> Int]
    BY <2>2
  <2> QED BY <1>1, <1>2, <1>3, <2>3 DEF TypeInv
<1>16. LowerInodesBalanced'
  <2>1. ASSUME NEW k \in Lowers
        PROVE  lcount'[k] = lcount[k] - Count(inode[i].lower = k) + Count(inode'[i].lower = k)
    <3>1. inode'[i].lower = NoLower /\ lcount[k] \in Int
      BY <1>1, <1>3, RecordTypes DEF TypeInv
    <3> QED BY <1>1, <1>2, <1>4, <3>1, Constants DEF TypeInv, Count
  <2>2. \A j \in Slots \ {i} : inode'[j].lower = inode[j].lower
    BY <1>3
  <2> QED BY <1>1, <1>2, <1>15, <2>1, <2>2, LowersBySlot
<1> QED BY <1>7, <1>9, <1>10, <1>11, <1>12, <1>13, <1>14, <1>15, <1>16 DEF MountInv

-----------------------------------------------------------------------------
(* The invariant.                                                            *)
LEMMA InitHolds == Init => MountInv
<1> SUFFICES ASSUME Init PROVE MountInv
  OBVIOUS
<1>1. /\ link = InitLink /\ removed = {} /\ anon = {} /\ twins = {}
      /\ lcount = [l \in Lowers |-> Cardinality({n \in Names : InitLink[n] = l})]
      /\ lpins = [n \in Names |-> 0] /\ inode = [i \in Slots |-> NoInode]
      /\ dentry = [n \in Names |-> NoDentry] /\ th = [t \in Threads |-> Idle]
      /\ overput = [l \in Lowers |-> 0] /\ nfsgot = [l \in Lowers |-> 0]
      /\ sb = "none" /\ s_fs_info = FALSE /\ s_active = 0 /\ mounts = 0
  BY DEF Init, InterposeInit
<1>2. /\ \A t \in Threads : /\ th[t] = Idle /\ th[t].pc = "idle" /\ th[t].op = "none"
                            /\ th[t].n = Root /\ th[t].ino = NoSlot /\ th[t].pins = {}
      /\ \A n \in Names : /\ dentry[n] = NoDentry /\ dentry[n].st = "none"
                          /\ dentry[n].ino = NoSlot /\ ~dentry[n].path /\ lpins[n] = 0
      /\ \A i \in Slots : /\ inode[i] = NoInode /\ inode[i].st = "free"
                          /\ inode[i].lower = NoLower /\ inode[i].count = 0
  BY <1>1, RecordTypes
<1>3. \A l \in Lowers : Cardinality(NamesOf(l)) \in Nat /\ lcount[l] = Cardinality(NamesOf(l))
  BY <1>1, LowerCounts DEF NamesOf
<1>4. TypeInv
  <2>1. lcount \in [Lowers -> Int]
    BY <1>1, <1>3
  <2>2. link \in [Names -> Lowers \cup {NoLower}]
    BY <1>1, InterposeAssumption
  <2>3. s_fs_info \in BOOLEAN
    BY <1>1, Zenon
  <2> QED BY <1>1, <2>1, <2>2, <2>3, RecordTypes DEF TypeInv
<1>5. CallInv
  <2>1. \A t \in Threads : ThreadOK(t)
    BY <1>2 DEF ThreadOK, Iget, Locked
  <2>2. \A t \in Threads : DentryOf(t)
    BY <1>2 DEF DentryOf, Iget
  <2>3. \A t, u \in Threads : Apart(t, u)
    BY <1>2 DEF Apart, Locked
  <2> QED BY <2>1, <2>2, <2>3 DEF CallInv
<1>6. DentryInv
  BY <1>1, <1>2, Constants, InterposeAssumption DEF DentryInv, DentryOK
<1>7. InodeInv
  <2>1. ASSUME NEW i \in Slots PROVE InodeOK(i) /\ Counted(i)
    <3>1. DentriesOf(i) = {} /\ ThreadsOf(i) = {}
      BY <1>2, Constants DEF DentriesOf, ThreadsOf
    <3>2. Cardinality({}) = 0 /\ Count(i \in anon) = 0
      BY <1>1, FS_EmptySet DEF Count
    <3>3. Holders(i) = 0
      BY <3>1, <3>2 DEF Holders
    <3> QED BY <1>2, <3>3 DEF InodeOK, Counted
  <2> QED BY <1>1, <1>2, <2>1 DEF InodeInv, HoldsLive
<1>8. TwinInv
  BY <1>2 DEF TwinInv, OneInode
<1>9. SbInv
  BY <1>1, <1>2 DEF SbInv, Mounting
<1>10. \A n \in Names : Stands(n)
  BY <1>2 DEF Stands
<1>11. LowerPathsBalanced
  <2>1. ASSUME NEW n \in Names
        PROVE  lpins[n] = Count(dentry[n].path) + Cardinality({t \in Threads : n \in th[t].pins})
    <3>1. {t \in Threads : n \in th[t].pins} = {}
      BY <1>2
    <3>2. Cardinality({t \in Threads : n \in th[t].pins}) = 0
      BY <3>1, FS_EmptySet
    <3>3. Count(dentry[n].path) = 0 /\ lpins[n] = 0
      BY <1>2 DEF Count
    <3> QED BY <3>2, <3>3
  <2> QED BY <2>1 DEF LowerPathsBalanced
<1>12. LowerInodesBalanced
  <2>1. ASSUME NEW l \in Lowers
        PROVE  lcount[l] = Cardinality({n \in Names : link[n] = l})
                             + Cardinality({i \in Slots : inode[i].lower = l})
                             + nfsgot[l] - overput[l]
    <3>1. {i \in Slots : inode[i].lower = l} = {}
      BY <1>2, Constants
    <3>2. Cardinality({i \in Slots : inode[i].lower = l}) = 0
      BY <3>1, FS_EmptySet
    <3>3. nfsgot[l] = 0 /\ overput[l] = 0
      BY <1>1
    <3>4. lcount[l] = Cardinality({n \in Names : link[n] = l}) /\ lcount[l] \in Nat
      BY <1>3 DEF NamesOf
    <3> QED BY <3>2, <3>3, <3>4
  <2> QED BY <2>1 DEF LowerInodesBalanced
<1> QED BY <1>4, <1>5, <1>6, <1>7, <1>8, <1>9, <1>10, <1>11, <1>12 DEF MountInv

LEMMA NextKeeps ==
  ASSUME MountInv, [Next]_vars
  PROVE  MountInv'
<1>1. CASE UNCHANGED vars
  <2>1. UNCHANGED ivars /\ UNCHANGED mvars
    BY <1>1 DEF vars
  <2>2. TypeInv'
    BY <2>1 DEF MountInv, TypeInv, ivars, mvars
  <2>3. SbInv'
    BY <2>1 DEF MountInv, SbInv, Mounting, ivars, mvars
  <2> QED BY <2>1, <2>2, <2>3, SuperAlone
<1>2. CASE init_trfs_fs \/ exit_trfs_fs
  BY <1>2, ModuleKeeps
<1>3. ASSUME NEW t \in Threads, Running(t) PROVE MountInv'
  BY <1>3, StepKeeps, PathKeeps, TfileKeeps, RootKeeps, ReadFailKeeps DEF Running
<1>4. ASSUME NEW t \in Threads, sb = "mounted", Enter(t), UNCHANGED mvars PROVE MountInv'
  BY <1>4, EnterStep
<1>5. ASSUME NEW t \in Threads, NEW a \in MountArgs, trfs_mount(t, a) PROVE MountInv'
  BY <1>5, MountKeeps
<1>6. CASE trfs_shutdown_super
  BY <1>6, ShutdownKeeps
<1>7. CASE Shrink
  BY <1>7, DropKeeps, DropAnonKeeps DEF Shrink
<1>8. CASE trfs_put_super
  BY <1>8, PutSuperKeeps
<1>9. ASSUME NEW i \in Slots, Evict(i) PROVE MountInv'
  BY <1>9, EvictKeeps
<1> QED BY <1>1, <1>2, <1>3, <1>4, <1>5, <1>6, <1>7, <1>8, <1>9 DEF Next

(* MountInv is an invariant, whatever the order in which threads enter,      *)
(* run, fail and return, the caches shrink and the file system is unmounted. *)
THEOREM MountInvariant == Spec => []MountInv
<1>1. MountInv /\ [Next]_vars => MountInv'
  BY NextKeeps
<1> QED BY InitHolds, <1>1, PTL DEF Spec

-----------------------------------------------------------------------------
(* The threads that have got the lower path of a name can be counted.        *)
LEMMA PinnersType ==
  ASSUME NEW n
  PROVE  Cardinality({t \in Threads : n \in th[t].pins}) \in Nat
<1>1. IsFiniteSet({t \in Threads : n \in th[t].pins})
  BY Constants, FS_Subset
<1> QED BY <1>1, FS_CardinalityType

(* The variables have their types: in particular no path_put and no iput     *)
(* takes a count of references below zero, whatever calls fail.              *)
THEOREM TypeCorrect == Spec => []TypeOK
<1>1. MountInv => TypeOK
  <2> SUFFICES ASSUME MountInv PROVE TypeOK
    OBVIOUS
  <2>1. TypeInv /\ InodeInv /\ LowerPathsBalanced
    BY DEF MountInv
  <2>2. lpins \in [Names -> Nat]
    <3>1. ASSUME NEW n \in Names PROVE lpins[n] \in Nat
      <4>1. lpins[n] = Count(dentry[n].path) + Cardinality({t \in Threads : n \in th[t].pins})
        BY <2>1 DEF LowerPathsBalanced
      <4>2. Count(dentry[n].path) \in Nat
        BY DEF Count
      <4>3. Cardinality({t \in Threads : n \in th[t].pins}) \in Nat
        BY PinnersType
      <4>4. PICK k \in Nat, c \in Nat :
              lpins[n] = k + c
        BY <4>1, <4>2, <4>3
      <4> QED BY <4>4
    <3>2. lpins \in [Names -> Int]
      BY <2>1 DEF TypeInv
    <3> QED BY <3>1, <3>2
  <2>3. inode \in [Slots -> [st : {"free", "new", "live", "freeing"},
                             lower : Lowers \cup {NoLower}, count : Nat]]
    <3>1. ASSUME NEW i \in Slots
          PROVE  inode[i] \in [st : {"free", "new", "live", "freeing"},
                               lower : Lowers \cup {NoLower}, count : Nat]
      <4>1. Counted(i) /\ inode[i] \in Inode
        BY <2>1 DEF InodeInv, TypeInv
      <4>2. inode[i].count \in Nat
        BY <4>1, HoldersType DEF Counted
      <4> QED BY <4>1, <4>2 DEF Inode
    <3>2. inode \in [Slots -> Inode]
      BY <2>1 DEF TypeInv
    <3> QED BY <3>1, <3>2
  <2>4. dentry \in [Names -> [st : {"none", "looking", "neg", "pos", "unhashed"},
                              ino : Slots \cup {NoSlot}, data : BOOLEAN, path : BOOLEAN]]
    BY <2>1 DEF TypeInv, Dentry
  <2> QED BY <2>1, <2>2, <2>3, <2>4 DEF TypeInv, TypeOK
<1> QED BY <1>1, MountInvariant, PTL

(* path_get and path_put: every reference on a lower dentry is the one in a  *)
(* dentry's private data or belongs to a call, on every exit of every call,  *)
(* of mount and of d_release.                                                *)
THEOREM PathReferences == Spec => []LowerPathsBalanced
<1>1. MountInv => LowerPathsBalanced
  BY DEF MountInv
<1> QED BY <1>1, MountInvariant, PTL

(* igrab and iput of lower inodes: but for the put of trfs_iget's error exit *)
(* and the get of trfs_nfs_get_inode, which are counted, every reference is  *)
(* a lower dentry's or a trfs inode's.                                       *)
THEOREM LowerReferences == Spec => []LowerInodesBalanced
<1>1. MountInv => LowerInodesBalanced
  BY DEF MountInv
<1> QED BY <1>1, MountInvariant, PTL

(* Every reference on a trfs inode belongs to a dentry or to a thread, or to *)
(* nobody when trfs_iget's igrab has failed.                                 *)
THEOREM UpperReferences == Spec => []UpperInodesBalanced
<1>1. MountInv => UpperInodesBalanced
  <2> SUFFICES ASSUME MountInv PROVE UpperInodesBalanced
    OBVIOUS
  <2>1. \A i \in Slots : Counted(i)
    BY DEF MountInv, InodeInv
  <2> QED BY <2>1 DEF UpperInodesBalanced, Counted, Holders, DentriesOf, ThreadsOf
<1> QED BY <1>1, MountInvariant, PTL

(* A dentry that the VFS finds stands for the lower dentry of its name,      *)
(* whatever lookups, creates, links and unlinks run at the same time.        *)
THEOREM DentriesCoherent == Spec => []Coherent
<1>1. MountInv => Coherent
  BY DEF MountInv, Stands, Coherent
<1> QED BY <1>1, MountInvariant, PTL

(* trfs_iget makes one inode for a lower inode, except when two threads were *)
(* between iget5_locked and the setting of the lower inode at once.          *)
THEOREM InodeUnique == Spec => []OneInode
<1>1. MountInv => OneInode
  BY DEF MountInv, TwinInv
<1> QED BY <1>1, MountInvariant, PTL

(* A call that is inside trfs finds the private data of the superblock, the  *)
(* strings of the mount and the reference on the lower superblock.           *)
THEOREM SuperHeld == Spec => []SuperInUse
<1>1. MountInv => SuperInUse
  <2> SUFFICES ASSUME MountInv, NEW t \in Threads, th[t].op \notin {"none", "mount"}
               PROVE  sb = "mounted" /\ s_fs_info /\ mount_path = "live" /\ s_active = 1
    BY DEF SuperInUse
  <2>1. TypeInv /\ CallInv /\ SbInv
    BY DEF MountInv
  <2>2. th[t].pc # "idle"
    BY <2>1, OutsideHasNothing
  <2>3. sb = "mounted"
    BY <2>1, <2>2, Inside
  <2> QED BY <2>1, <2>3 DEF SbInv
<1> QED BY <1>1, MountInvariant, PTL

(* generic_shutdown_super, trfs_d_release, trfs_evict_inode and              *)
(* trfs_put_super leave nothing behind but the inodes whose igrab failed.    *)
THEOREM NothingLeft == Spec => []UnmountClean
<1>1. MountInv => UnmountClean
  <2> SUFFICES ASSUME MountInv, sb = "none", mounts > 0
               PROVE  /\ \A n \in Names : dentry[n] = NoDentry /\ lpins[n] = 0
                      /\ \A i \in Slots :
                           inode[i] = NoInode \/ (Fault("stale") /\ inode[i].st = "new")
                      /\ s_active = 0 /\ ~s_fs_info /\ mount_path = "freed"
    BY DEF UnmountClean
  <2>1. TypeInv /\ CallInv /\ InodeInv /\ SbInv /\ LowerPathsBalanced
    BY DEF MountInv
  <2>2. /\ \A t \in Threads : th[t].ino = NoSlot /\ th[t].pins = {}
        /\ \A n \in Names : /\ dentry[n] = NoDentry
                            /\ dentry[n].ino = NoSlot /\ ~dentry[n].path
        /\ anon = {} /\ s_active = 0 /\ ~s_fs_info /\ mount_path = "freed"
        /\ \A i \in Slots : inode[i].st \in {"free", "new"}
    <3>1. \A t \in Threads : th[t].pc = "idle"
      BY <2>1 DEF SbInv
    <3>2. \A t \in Threads : th[t].ino = NoSlot /\ th[t].pins = {}
      BY <2>1, <3>1, OutsideHasNothing
    <3>3. \A n \in Names : dentry[n] = NoDentry
      BY <2>1 DEF SbInv
    <3> QED BY <2>1, <3>2, <3>3, RecordTypes DEF SbInv
  <2>3. ASSUME NEW n \in Names PROVE lpins[n] = 0
    <3>1. {t \in Threads : n \in th[t].pins} = {}
      BY <2>2
    <3>2. Cardinality({t \in Threads : n \in th[t].pins}) = 0
      BY <3>1, FS_EmptySet
    <3>3. Count(dentry[n].path) = 0
      BY <2>2 DEF Count
    <3>4. lpins[n] = Count(dentry[n].path) + Cardinality({t \in Threads : n \in th[t].pins})
      BY <2>1 DEF LowerPathsBalanced
    <3> QED BY <3>2, <3>3, <3>4
  <2>4. ASSUME NEW i \in Slots
        PROVE  inode[i] = NoInode \/ (Fault("stale") /\ inode[i].st = "new")
    <3>1. DentriesOf(i) = {} /\ ThreadsOf(i) = {}
      BY <2>2, Constants DEF DentriesOf, ThreadsOf
    <3>2. /\ Cardinality(DentriesOf(i)) = 0 /\ Cardinality(ThreadsOf(i)) = 0
          /\ Count(i \in anon) = 0
      BY <2>2, <3>1, FS_EmptySet DEF Count
    <3>3. Holders(i) = 0
      BY <3>2 DEF Holders
    <3>4. InodeOK(i) /\ Counted(i)
      BY <2>1 DEF InodeInv
    <3> QED BY <2>2, <3>3, <3>4 DEF InodeOK, Counted
  <2> QED BY <2>2, <2>3, <2>4
<1> QED BY <1>1, MountInvariant, PTL
=============================================================================
