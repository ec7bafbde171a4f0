--------------------------- MODULE TrfsInterpose ---------------------------
(***************************************************************************)
(* Interposition: how trfs finds or makes the dentry and the inode that    *)
(* stand for a lower dentry and a lower inode (lookup.c), how it lets them *)
(* go (dentry.c, super.c), and the references on both sides.               *)
(*                                                                         *)
(* Threads run lookups, creates, links and unlinks; the VFS holds the lock *)
(* of the parent directory meanwhile, so that two of them meet only in     *)
(* different directories.  The dentry cache may drop a dentry and an inode *)
(* at any time.  iget5_locked, d_splice_alias and iput are the kernel's;   *)
(* they are modelled as trfs calls them.                                   *)
(*                                                                         *)
(* Abstractions.  A name has at most one trfs dentry at a time.  Lower     *)
(* dentries stay in the lower cache, each with one reference on its inode. *)
(* The fields copied from the lower inode are left out.                    *)
(***************************************************************************)
EXTENDS Integers, FiniteSets

CONSTANTS
  Threads,
  Names,      \* names in the tree, Root included
  Root,
  ParentOf,   \* ParentOf[n]: the directory of n
  Lowers,     \* lower inodes
  NoLower,    \* NULL
  Slots,      \* trfs inodes, in use or not
  NoSlot,
  InitLink,   \* InitLink[n]: lower inode of n, NoLower if n does not exist
  Foreign,    \* lower inodes of another file system, mounted below
  Faults,     \* see FaultKinds
  MaxOps      \* bound on the operations of a behaviour

(* "nomem": an allocation fails; "lower": the lower call fails; "stale":     *)
(* igrab finds the lower inode dying; "cold": NFS asks for an inode that the *)
(* lower file system has not in memory.                                      *)
FaultKinds == {"nomem", "lower", "stale", "cold"}

ASSUME InterposeAssumption ==
  /\ Root \in Names /\ NoLower \notin Lowers /\ NoSlot \notin Slots
  /\ ParentOf \in [Names \ {Root} -> Names]
  /\ InitLink \in [Names -> Lowers \cup {NoLower}] /\ InitLink[Root] # NoLower
  /\ Foreign \subseteq Lowers /\ Faults \subseteq FaultKinds /\ MaxOps \in Nat
  /\ IsFiniteSet(Names) /\ IsFiniteSet(Slots) /\ IsFiniteSet(Threads)

VARIABLES
  link,       \* link[n]: inode of lower dentry n
  removed,    \* lower names that are unlinked while their dentry is in use
  lcount,     \* lcount[l]: i_count of lower inode l
  lpins,      \* lpins[n]: references trfs holds on lower dentry n
  inode,      \* inode[i]: [st, lower, count]
  dentry,     \* dentry[n]: [st, ino, data, path]; data: d_fsdata, path: the
              \* lower path in it
  anon,       \* inodes with an anonymous dentry made for NFS
  th,         \* th[t]: [pc, op, n, l, ino, pins], pins: the names whose lower
              \* path t has got
  ops,        \* operations started
  overput,    \* history: puts of lower inodes that nothing was got for
  nfsgot,     \* history: lower inodes got by ilookup
  twins       \* history: lower inodes for which two inodes were made at once

ivars == <<link, removed, lcount, lpins, inode, dentry, anon, th, ops, overput,
           nfsgot, twins>>

NoInode  == [st |-> "free", lower |-> NoLower, count |-> 0]
NoDentry == [st |-> "none", ino |-> NoSlot, data |-> FALSE, path |-> FALSE]
Idle == [pc |-> "idle", op |-> "none", n |-> Root, l |-> NoLower, ino |-> NoSlot,
         pins |-> {}]

Fault(f) == f \in Faults

(* d_count: children, and threads that work on n.                            *)
InUse(n) ==
  \/ \E m \in Names \ {Root} : ParentOf[m] = n /\ dentry[m].st # "none"
  \/ \E t \in Threads : th[t].pc # "idle" /\ (th[t].n = n \/ n \in th[t].pins)

(* The VFS serialises the calls on one directory.                            *)
DirFree(d) ==
  \A t \in Threads : th[t].op \in {"lookup", "create", "unlink"} => ParentOf[th[t].n] # d

Start(t, op, n, label, pins) ==
  /\ ops < MaxOps
  /\ ops' = ops + 1
  /\ th' = [th EXCEPT ![t] = [Idle EXCEPT !.pc = label, !.op = op, !.n = n, !.pins = pins]]

Begin(t, op, n, label, pins) == th[t].pc = "idle" /\ Start(t, op, n, label, pins)

Goto(t, label) == th' = [th EXCEPT ![t].pc = label]

(* The lower dentry's references: trfs_get_lower_path takes one,             *)
(* trfs_put_lower_path gives one back.                                       *)
Get(ns) == [n \in Names |-> IF n \in ns THEN lpins[n] + 1 ELSE lpins[n]]
Put(ns) == [n \in Names |-> IF n \in ns THEN lpins[n] - 1 ELSE lpins[n]]

(* Mutant: drop_inode keeps an inode without references.                     *)
IputCached(i) == [inode EXCEPT ![i].count = @ - 1]

(* iput of a trfs inode.  drop_inode is generic_delete_inode: the last       *)
(* reference gone, the inode is evicted.                                     *)
Iput(i) ==
  [inode EXCEPT ![i].count = @ - 1,
                ![i].st = IF inode[i].count = 1 THEN "freeing" ELSE @]

(* Mutant: an inode that is found is not referenced.                         *)
IgrabNothing(i) == inode

Igrab(i) == [inode EXCEPT ![i].count = @ + 1]

(* Mutant: d_release frees the private data and keeps the path.              *)
KilledPinned(n) ==
  /\ dentry' = [dentry EXCEPT ![n] = NoDentry]
  /\ inode'  = IF dentry[n].ino = NoSlot THEN inode ELSE Iput(dentry[n].ino)
  /\ UNCHANGED lpins

(* The end of a dentry: its inode is put, trfs_d_release puts the lower path *)
(* and frees the private data.                                               *)
Killed(n) ==
  /\ dentry' = [dentry EXCEPT ![n] = NoDentry]
  /\ inode'  = IF dentry[n].ino = NoSlot THEN inode ELSE Iput(dentry[n].ino)
  /\ lpins'  = IF dentry[n].path THEN Put({n}) ELSE lpins

hist  == <<overput, nfsgot, twins>>
lower == <<link, removed, lcount>>

-----------------------------------------------------------------------------
(***************************************************************************)
(* trfs_lookup.                                                            *)
(***************************************************************************)
trfs_lookup(t, n) ==
  /\ n # Root /\ dentry[n].st = "none" /\ dentry[ParentOf[n]].st = "pos"
  /\ DirFree(ParentOf[n])
  /\ Begin(t, "lookup", n, "data", {ParentOf[n]})
  /\ lpins' = Get({ParentOf[n]})
  /\ dentry' = [dentry EXCEPT ![n].st = "looking"]
  /\ UNCHANGED <<lower, inode, anon, hist>>

(* Without private data the new dentry has no operations yet either: it is   *)
(* freed without d_release.                                                  *)
new_dentry_private_data(t) ==
  /\ th[t].pc = "data"
  /\ \/ dentry' = [dentry EXCEPT ![th[t].n].data = TRUE] /\ Goto(t, "walk")
     \/ /\ Fault("nomem")
        /\ dentry' = [dentry EXCEPT ![th[t].n] = NoDentry]
        /\ Goto(t, "out")
  /\ UNCHANGED <<lower, lpins, inode, anon, ops, hist>>

(* vfs_path_lookup.  ENOENT gives a negative dentry over a negative lower    *)
(* one; any other error ends the lookup.                                     *)
LookupLower(t) ==
  LET n == th[t].n IN
  /\ th[t].pc = "walk"
  /\ \/ /\ lpins' = Get({n})
        /\ dentry' = [dentry EXCEPT ![n].path = TRUE,
                        ![n].st = IF link[n] = NoLower THEN "neg" ELSE @]
        /\ Goto(t, IF link[n] = NoLower THEN "out" ELSE "interpose")
     \/ /\ Fault("lower") \/ (link[n] = NoLower /\ Fault("nomem"))
        /\ Goto(t, "fail")
        /\ UNCHANGED <<lpins, dentry>>
  /\ UNCHANGED <<lower, inode, anon, ops, hist>>

(***************************************************************************)
(* __trfs_interpose and trfs_iget, also used by create, link and mount.    *)
(***************************************************************************)
(* Mutant: an inode of another file system is waited for.                    *)
InterposeWaits(t) ==
  /\ th[t].pc = "interpose" /\ link[th[t].n] \notin Foreign
  /\ th' = [th EXCEPT ![t].l = link[th[t].n], ![t].pc = "find"]
  /\ UNCHANGED <<lower, lpins, inode, dentry, anon, ops, hist>>

(* An inode of another file system is refused.                               *)
Interpose(t) ==
  /\ th[t].pc = "interpose"
  /\ th' = [th EXCEPT ![t].l = link[th[t].n],
                      ![t].pc = IF link[th[t].n] \in Foreign THEN "fail" ELSE "find"]
  /\ UNCHANGED <<lower, lpins, inode, dentry, anon, ops, hist>>

(* Mutants: trfs_inode_test matches nothing; an inode that is being freed is *)
(* returned.                                                                 *)
MatchNothing(l) == {}

MatchFreeing(l) == {i \in Slots : inode[i].lower = l}

(* What iget5_locked finds with trfs_inode_test.  trfs_inode_set sets        *)
(* nothing, so an inode that is new does not match yet; one that is being    *)
(* freed is waited for.                                                      *)
Match(l) == {i \in Slots : inode[i].lower = l /\ inode[i].st = "live"}

Dying(l) == {i \in Slots : inode[i].lower = l /\ inode[i].st = "freeing"}

Found(t) ==
  \E i \in Match(th[t].l) :
    /\ inode' = Igrab(i)
    /\ th' = [th EXCEPT ![t].ino = i, ![t].pc = "splice"]

IgetFind(t) ==
  /\ th[t].pc = "find"
  /\ \/ Found(t)
     \/ /\ Match(th[t].l) \cup Dying(th[t].l) = {}
        /\ Goto(t, "alloc")
        /\ UNCHANGED inode
  /\ UNCHANGED <<lower, lpins, dentry, anon, ops, hist>>

(* iget5_locked allocates, looks again and inserts.  If it returns NULL,     *)
(* trfs_iget puts the lower inode, for which only NFS has got a reference.   *)
IgetAlloc(t) ==
  LET l == th[t].l IN
  /\ th[t].pc = "alloc"
  /\ \/ Found(t) /\ UNCHANGED <<lcount, overput, twins>>
     \/ /\ Match(l) \cup Dying(l) = {}
        /\ \E i \in Slots : inode[i].st = "free"
        /\ LET i == CHOOSE i \in Slots : inode[i].st = "free" IN
             /\ inode' = [inode EXCEPT ![i] = [NoInode EXCEPT !.st = "new", !.count = 1]]
             /\ th' = [th EXCEPT ![t].ino = i, ![t].pc = "set"]
        /\ twins' = IF \E u \in Threads : th[u].pc = "set" /\ th[u].l = l
                    THEN twins \cup {l} ELSE twins
        /\ UNCHANGED <<lcount, overput>>
     \/ /\ Fault("nomem")
        /\ lcount' = [lcount EXCEPT ![l] = @ - 1]
        /\ overput' = [overput EXCEPT ![l] = @ + 1]
        /\ Goto(t, "fail")
        /\ UNCHANGED <<inode, twins>>
  /\ UNCHANGED <<link, removed, lpins, dentry, anon, ops, nfsgot>>

(* igrab, set the lower inode, unlock.  If igrab fails the new inode is left *)
(* as it is, with its reference.                                             *)
IgetInit(t) ==
  LET l == th[t].l  i == th[t].ino IN
  /\ th[t].pc = "set"
  /\ \/ /\ inode' = [inode EXCEPT ![i].lower = l, ![i].st = "live"]
        /\ lcount' = [lcount EXCEPT ![l] = @ + 1]
        /\ Goto(t, "splice")
     \/ /\ Fault("stale")
        /\ th' = [th EXCEPT ![t].pc = "fail", ![t].ino = NoSlot]
        /\ UNCHANGED <<inode, lcount>>
  /\ UNCHANGED <<link, removed, lpins, dentry, anon, ops, hist>>

(* d_splice_alias gives the reference to the dentry.                         *)
Splice(t) ==
  /\ th[t].pc = "splice" /\ th[t].op \in {"lookup", "create"}
  /\ dentry' = [dentry EXCEPT ![th[t].n].st = "pos", ![th[t].n].ino = th[t].ino]
  /\ th' = [th EXCEPT ![t].ino = NoSlot, ![t].pc = "out"]
  /\ UNCHANGED <<lower, lpins, inode, anon, ops, hist>>

(* A lookup that fails puts the lower path, and the VFS frees the dentry; a  *)
(* create or link leaves the dentry negative over what it has made below.    *)
FailedInterpose(t) ==
  /\ th[t].pc = "fail" /\ th[t].op \in {"lookup", "create"}
  /\ IF th[t].op = "lookup" THEN Killed(th[t].n) ELSE UNCHANGED <<dentry, inode, lpins>>
  /\ Goto(t, "out")
  /\ UNCHANGED <<lower, anon, ops, hist>>

(* Nothing hashes a negative dentry.  The VFS, which has looked it up, may   *)
(* create or link there before it unlocks the directory, then puts it.       *)
Returned(t) ==
  th' = [th EXCEPT ![t] =
           IF th[t].op \in {"lookup", "create"} /\ dentry[th[t].n].st = "neg"
           THEN [th[t] EXCEPT !.pc = "neg", !.pins = {}] ELSE Idle]

(* Mutant: the path is put on the way out and once more.                     *)
OutPutTwice(t) ==
  /\ th[t].pc = "out"
  /\ lpins' = [n \in Names |-> IF n \in th[t].pins THEN lpins[n] - 2 ELSE lpins[n]]
  /\ Returned(t)
  /\ UNCHANGED <<lower, inode, dentry, anon, ops, hist>>

(* Put the lower paths the call has got and return.                          *)
Out(t) ==
  /\ th[t].pc = "out"
  /\ lpins' = Put(th[t].pins)
  /\ Returned(t)
  /\ UNCHANGED <<lower, inode, dentry, anon, ops, hist>>

(* dput of the VFS: a dentry that is not hashed dies with its last reference. *)
Dput(t) ==
  /\ th[t].pc = "neg"
  /\ Killed(th[t].n)
  /\ th' = [th EXCEPT ![t] = Idle]
  /\ UNCHANGED <<lower, anon, ops, hist>>

-----------------------------------------------------------------------------
(***************************************************************************)
(* The inode operations, as far as they concern interposition.             *)
(***************************************************************************)
(* The VFS creates and links where it has just looked up a negative dentry.  *)
LookedUp(t, n) == th[t].pc = "neg" /\ th[t].op = "lookup" /\ th[t].n = n

(* create, mkdir, mknod, symlink: a new lower inode.  The lower call fails   *)
(* when the name exists below.                                               *)
trfs_create(t, n) ==
  /\ LookedUp(t, n)
  /\ \/ \E l \in Lowers :
          /\ link[n] = NoLower /\ lcount[l] = 0 /\ \A m \in Names : link[m] # l
          /\ Start(t, "create", n, "interpose", {n})
          /\ link' = [link EXCEPT ![n] = l]
          /\ lcount' = [lcount EXCEPT ![l] = 1]
     \/ /\ link[n] # NoLower \/ Fault("lower")
        /\ Start(t, "create", n, "out", {n})
        /\ UNCHANGED <<link, lcount>>
  /\ lpins' = Get({n})
  /\ UNCHANGED <<removed, inode, dentry, anon, hist>>

trfs_link(t, o, n) ==
  /\ dentry[o].st = "pos" /\ (\A m \in Names \ {Root} : ParentOf[m] # o)
  /\ LookedUp(t, n)
  /\ \/ /\ link[n] = NoLower
        /\ Start(t, "create", n, "interpose", {o, n})
        /\ link' = [link EXCEPT ![n] = link[o]]
        /\ lcount' = [lcount EXCEPT ![link[o]] = @ + 1]
     \/ /\ link[n] # NoLower \/ Fault("lower")
        /\ Start(t, "create", n, "out", {o, n})
        /\ UNCHANGED <<link, lcount>>
  /\ lpins' = Get({o, n})
  /\ UNCHANGED <<removed, inode, dentry, anon, hist>>

(* unlink and rmdir: the lower dentry keeps its inode as long as trfs holds  *)
(* it; the trfs dentry is unhashed and goes with its last user.              *)
trfs_unlink(t, n) ==
  /\ n # Root /\ dentry[n].st = "pos" /\ DirFree(ParentOf[n])
  /\ \A m \in Names \ {Root} : ParentOf[m] = n => dentry[m].st = "none"
  /\ Begin(t, "unlink", n, "out", {n})
  /\ lpins' = Get({n})
  /\ \/ /\ removed' = removed \cup {n}
        /\ dentry' = [dentry EXCEPT ![n].st = "unhashed"]
     \/ Fault("lower") /\ UNCHANGED <<removed, dentry>>
  /\ UNCHANGED <<link, lcount, inode, anon, hist>>

(* The handlers that get the lower path, make the lower call, which may fail *)
(* or be missing, and put the path again on every way out.                   *)
Forward(t, n) ==
  /\ Begin(t, "forward", n, "out", {n})
  /\ lpins' = Get({n})
  /\ UNCHANGED <<lower, inode, dentry, anon, hist>>

trfs_d_revalidate(t, n) == dentry[n].st = "pos" /\ Forward(t, n)
trfs_getattr(t, n)      == dentry[n].st = "pos" /\ Forward(t, n)
trfs_readlink(t, n)     == dentry[n].st = "pos" /\ Forward(t, n)
trfs_statfs(t)          == dentry[Root].st = "pos" /\ Forward(t, Root)

(* setxattr, getxattr, listxattr and removexattr.                            *)
Xattr(t, n) == dentry[n].st = "pos" /\ Forward(t, n)

-----------------------------------------------------------------------------
(***************************************************************************)
(* Letting go.                                                             *)
(***************************************************************************)
(* The dentry cache drops a dentry nobody uses.  With it goes the lower      *)
(* dentry of a removed name.                                                 *)
Drop(n) ==
  /\ dentry[n].st \in {"pos", "unhashed"} /\ ~InUse(n)
  /\ Killed(n)
  /\ IF n \in removed
     THEN /\ removed' = removed \ {n}
          /\ link' = [link EXCEPT ![n] = NoLower]
          /\ lcount' = [lcount EXCEPT ![link[n]] = @ - 1]
     ELSE UNCHANGED lower
  /\ UNCHANGED <<anon, th, ops, hist>>

(* Mutant: the lower inode is forgotten without iput.                        *)
trfs_evict_inode_noput(i) ==
  /\ inode[i].st = "freeing"
  /\ inode' = [inode EXCEPT ![i] = NoInode]
  /\ UNCHANGED <<lower, lpins, dentry, anon, th, ops, hist>>

trfs_evict_inode(i) ==
  /\ inode[i].st = "freeing"
  /\ inode' = [inode EXCEPT ![i] = NoInode]
  /\ lcount' = [lcount EXCEPT ![inode[i].lower] = @ - 1]
  /\ UNCHANGED <<link, removed, lpins, dentry, anon, th, ops, hist>>

-----------------------------------------------------------------------------
(***************************************************************************)
(* NFS export.                                                             *)
(***************************************************************************)
(* ilookup takes a reference that is not put when trfs_iget succeeds, and    *)
(* returns NULL for an inode that is not in memory.                          *)
trfs_nfs_get_inode(t, l) ==
  /\ \/ /\ Fault("cold")
        /\ Begin(t, "nfs", Root, "oops", {})
        /\ UNCHANGED <<lcount, nfsgot>>
     \/ /\ lcount[l] > 0 /\ l \notin Foreign
        /\ th[t].pc = "idle" /\ ops < MaxOps
        /\ ops' = ops + 1
        /\ th' = [th EXCEPT ![t] = [Idle EXCEPT !.pc = "find", !.op = "nfs", !.l = l]]
        /\ lcount' = [lcount EXCEPT ![l] = @ + 1]
        /\ nfsgot' = [nfsgot EXCEPT ![l] = @ + 1]
  /\ UNCHANGED <<link, removed, lpins, inode, dentry, anon, overput, twins>>

(* d_obtain_alias: a dentry of the inode if it has one, or an anonymous one, *)
(* which nobody gives private data.                                          *)
trfs_fh_to_dentry(t) ==
  LET i == th[t].ino IN
  /\ th[t].op = "nfs" /\ th[t].pc \in {"splice", "fail"}
  /\ IF th[t].pc = "splice"
     THEN IF i \in anon \/ \E n \in Names : dentry[n].st = "pos" /\ dentry[n].ino = i
          THEN inode' = Iput(i) /\ UNCHANGED anon
          ELSE anon' = anon \cup {i} /\ UNCHANGED inode
     ELSE UNCHANGED <<inode, anon>>
  /\ th' = [th EXCEPT ![t] = Idle]
  /\ UNCHANGED <<lower, lpins, dentry, ops, hist>>

(* An operation on an anonymous dentry looks for its lower path.             *)
UseAnon(t) ==
  /\ anon # {}
  /\ Begin(t, "nfs", Root, "oops", {})
  /\ UNCHANGED <<lower, lpins, inode, dentry, anon, hist>>

DropAnon(i) ==
  /\ i \in anon
  /\ anon' = anon \ {i}
  /\ inode' = Iput(i)
  /\ UNCHANGED <<lower, lpins, dentry, th, ops, hist>>

(* A step of a thread inside trfs.                                           *)
Step(t) ==
  \/ new_dentry_private_data(t) \/ LookupLower(t) \/ Interpose(t) \/ IgetFind(t)
  \/ IgetAlloc(t) \/ IgetInit(t) \/ Splice(t) \/ FailedInterpose(t) \/ Out(t)
  \/ Dput(t) \/ trfs_fh_to_dentry(t)

(* A thread entering trfs.                                                   *)
Enter(t) ==
  \/ \E n \in Names : trfs_lookup(t, n) \/ trfs_create(t, n) \/ trfs_unlink(t, n)
  \/ \E n, o \in Names : trfs_link(t, o, n)
  \/ \E n \in Names :
       trfs_d_revalidate(t, n) \/ trfs_getattr(t, n) \/ trfs_readlink(t, n) \/ Xattr(t, n)
  \/ trfs_statfs(t)
  \/ \E l \in Lowers : trfs_nfs_get_inode(t, l)
  \/ UseAnon(t)

InterposeInit ==
  /\ link = InitLink
  /\ removed = {}
  /\ lcount = [l \in Lowers |-> Cardinality({n \in Names : InitLink[n] = l})]
  /\ lpins = [n \in Names |-> 0]
  /\ inode = [i \in Slots |-> NoInode]
  /\ dentry = [n \in Names |-> NoDentry]
  /\ anon = {}
  /\ th = [t \in Threads |-> Idle]
  /\ ops = 0
  /\ overput = [l \in Lowers |-> 0]
  /\ nfsgot = [l \in Lowers |-> 0]
  /\ twins = {}
-----------------------------------------------------------------------------
(***************************************************************************)
(* Properties.                                                             *)
(***************************************************************************)
Count(b) == IF b THEN 1 ELSE 0

(* Every reference on a lower inode is accounted for: one for each lower     *)
(* dentry and one for each trfs inode that stands for it.  The exceptions    *)
(* are the put of trfs_iget's error exit and the get of NFS's ilookup.       *)
LowerInodesBalanced ==
  \A l \in Lowers :
    lcount[l] = Cardinality({n \in Names : link[n] = l})
                  + Cardinality({i \in Slots : inode[i].lower = l})
                  + nfsgot[l] - overput[l]

(* Every reference on a lower dentry is the one in a trfs dentry's private   *)
(* data or belongs to a thread inside a call: no exit of lookup, create,     *)
(* link, unlink or d_release forgets or repeats a path_put.                  *)
LowerPathsBalanced ==
  \A n \in Names :
    lpins[n] = Count(dentry[n].path)
                 + Cardinality({t \in Threads : n \in th[t].pins})

(* Every reference on a trfs inode belongs to a dentry or to a thread; only  *)
(* an inode whose igrab failed stays new, with a reference nobody has.       *)
UpperInodesBalanced ==
  \A i \in Slots :
    LET holders == Cardinality({n \in Names : dentry[n].ino = i})
                     + Cardinality({t \in Threads : th[t].ino = i})
                     + Count(i \in anon)
    IN  inode[i].count = holders
          \/ (Fault("stale") /\ inode[i].st = "new" /\ inode[i].count = 1)

(* A dentry that the VFS finds in its cache stands for the lower dentry of   *)
(* the same name: it has the inode of that one's inode, and it lives.        *)
Coherent ==
  \A n \in Names :
    dentry[n].st = "pos" =>
      /\ dentry[n].data /\ dentry[n].path
      /\ inode[dentry[n].ino].st = "live"
      /\ inode[dentry[n].ino].lower = link[n]

(* One inode stands for a lower inode, however many names it has, except     *)
(* when two threads made one each at the same time.                          *)
OneInode ==
  \A i, j \in Slots :
    (i # j /\ inode[i].st = "live" /\ inode[j].st = "live"
       /\ inode[i].lower = inode[j].lower) => inode[i].lower \in twins
=============================================================================
