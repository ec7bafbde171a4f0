----------------------------- MODULE TrfsMount -----------------------------
(***************************************************************************)
(* The life of the module and of its superblock (main.c, super.c) around   *)
(* the dentries and inodes of TrfsInterpose: load, mount with all the      *)
(* exits of trfs_read_super, use, unmount, unload.                         *)
(***************************************************************************)
EXTENDS TrfsInterpose

CONSTANTS
  MountArgs,   \* see ArgKinds
  MaxMounts    \* bound on the mounts of a behaviour

(* "missing": no options or no device name; "nodir": the lower path is not a *)
(* directory; "notfile": the trace file cannot be opened; "noequals": the    *)
(* option string has no '='.                                                 *)
ArgKinds == {"good", "missing", "nodir", "notfile", "noequals"}

ASSUME MountAssumption == MountArgs \subseteq ArgKinds /\ MaxMounts \in Nat

VARIABLES
  module,     \* "out" or "loaded"
  sb,         \* the superblock: "none", "mounting", "mounted", "shutdown"
  args,       \* the arguments of the mount
  mount_path, \* the struct with the two path strings: "null", "live", "freed"
  s_fs_info,  \* TRUE when the superblock has its private data
  s_active,   \* references on the lower superblock
  mounts      \* mounts so far

mvars == <<module, sb, args, mount_path, s_fs_info, s_active, mounts>>
vars == <<ivars, mvars>>

-----------------------------------------------------------------------------
(* Both caches and the registration, or nothing.                             *)
init_trfs_fs ==
  /\ module = "out"
  /\ module' = "loaded"
  /\ UNCHANGED <<ivars, sb, args, mount_path, s_fs_info, s_active, mounts>>

(* The kernel unloads only a module that no superblock uses.                 *)
exit_trfs_fs ==
  /\ module = "loaded" /\ sb = "none"
  /\ module' = "out"
  /\ UNCHANGED <<ivars, sb, args, mount_path, s_fs_info, s_active, mounts>>

At(t, label) == th[t].op = "mount" /\ th[t].pc = label

(* Where the path of the trace file is taken from, the end of the string is  *)
(* not seen: without a '=' what lies behind it is read, and may be anything. *)
Tracker(a) == IF a = "noequals" THEN {"good", "notfile"} ELSE {a}

(* Missing arguments and a failed kmalloc of the struct reach                *)
(* trfs_read_super as a null pointer; the strings are copied to what kmalloc *)
(* returned, NULL or not.                                                    *)
trfs_mount(t, a) ==
  /\ module = "loaded" /\ sb = "none" /\ mounts < MaxMounts
  /\ th[t].pc = "idle"
  /\ sb' = "mounting"
  /\ args' \in Tracker(a)
  /\ mounts' = mounts + 1
  /\ \E label \in {"super"} \cup (IF Fault("nomem") \/ a = "noequals" THEN {"oops"} ELSE {}) :
       th' = [th EXCEPT ![t] = [Idle EXCEPT !.pc = label, !.op = "mount"]]
  /\ mount_path' \in (IF a = "missing" THEN {"null"} ELSE {"live"})
                       \cup (IF Fault("nomem") THEN {"null"} ELSE {})
  /\ UNCHANGED <<link, removed, lcount, lpins, inode, dentry, anon, ops, hist,
                 module, s_fs_info, s_active>>

(* kern_path and the private data of the superblock.                         *)
ReadSuperPath(t) ==
  /\ At(t, "super")
  /\ \/ /\ mount_path = "null" \/ args = "nodir"
        /\ Goto(t, "fail")
        /\ UNCHANGED <<lpins, s_fs_info>>
     \/ /\ mount_path = "live" /\ args # "nodir"
        /\ lpins' = Get({Root})
        /\ \/ /\ th' = [th EXCEPT ![t].pc = "tfile", ![t].pins = {Root}]
              /\ s_fs_info' = TRUE
           \/ /\ Fault("nomem")
              /\ th' = [th EXCEPT ![t].pc = "fail", ![t].pins = {Root}]
              /\ UNCHANGED s_fs_info
  /\ UNCHANGED <<link, removed, lcount, inode, dentry, anon, ops, hist, module, sb,
                 args, mount_path, s_active, mounts>>

(* Mutant: the lower superblock is not held.                                 *)
ReadSuperTfileUnheld(t) ==
  /\ At(t, "tfile") /\ args # "notfile"
  /\ th' = [th EXCEPT ![t].pc = "find", ![t].l = link[Root]]
  /\ UNCHANGED <<link, removed, lcount, lpins, inode, dentry, anon, ops, hist,
                 module, sb, args, mount_path, s_fs_info, s_active, mounts>>

(* The trace file is truncated; filp_close is called with whatever filp_open *)
(* returned.  Then the lower superblock is held and trfs_iget called.        *)
ReadSuperTfile(t) ==
  /\ At(t, "tfile")
  /\ \/ args = "notfile" /\ Goto(t, "oops") /\ UNCHANGED s_active
     \/ /\ args # "notfile"
        /\ s_active' = s_active + 1
        /\ th' = [th EXCEPT ![t].pc = "find", ![t].l = link[Root]]
  /\ UNCHANGED <<link, removed, lcount, lpins, inode, dentry, anon, ops, hist,
                 module, sb, args, mount_path, s_fs_info, mounts>>

(* d_make_root, its private data and the lower path, which passes from       *)
(* kern_path to the root dentry.  When d_make_root fails it has put the      *)
(* inode and out_iput puts it again; when the private data fails, d_release  *)
(* uses the missing data.                                                    *)
ReadSuperRoot(t) ==
  /\ At(t, "splice")
  /\ \/ /\ dentry' = [dentry EXCEPT ![Root] =
                        [st |-> "pos", ino |-> th[t].ino, data |-> TRUE, path |-> TRUE]]
        /\ th' = [th EXCEPT ![t] = Idle]
        /\ sb' = "mounted"
     \/ Fault("nomem") /\ Goto(t, "oops") /\ UNCHANGED <<dentry, sb>>
  /\ UNCHANGED <<link, removed, lcount, lpins, inode, anon, ops, hist, module, args,
                 mount_path, s_fs_info, s_active, mounts>>

(* The error exits of trfs_read_super put what was taken and clear           *)
(* s_fs_info; mount_nodev then calls kill_sb, that is trfs_shutdown_super,   *)
(* which uses s_fs_info.                                                     *)
ReadSuperFail(t) ==
  /\ At(t, "fail")
  /\ lpins' = Put(th[t].pins)
  /\ s_active' = 0
  /\ s_fs_info' = FALSE
  /\ th' = [th EXCEPT ![t].pc = "oops", ![t].pins = {}]
  /\ UNCHANGED <<link, removed, lcount, inode, dentry, anon, ops, hist, module, sb,
                 args, mount_path, mounts>>

(* Unmounting needs that nobody is inside.  trfs_shutdown_super frees the    *)
(* strings and the struct first, then generic_shutdown_super runs.           *)
trfs_shutdown_super ==
  /\ sb = "mounted" /\ \A t \in Threads : th[t].pc = "idle"
  /\ sb' = "shutdown"
  /\ mount_path' = "freed"
  /\ UNCHANGED <<ivars, module, args, s_fs_info, s_active, mounts>>

(* The dentry and inode caches shrink, for a mounted file system a bit, for  *)
(* one that is shut down completely.                                         *)
Shrink ==
  /\ \/ \E n \in Names : (n # Root \/ sb = "shutdown") /\ Drop(n)
     \/ \E i \in Slots : DropAnon(i)
  /\ UNCHANGED mvars

Evict(i) == trfs_evict_inode(i) /\ UNCHANGED mvars

(* Mutant: the reference on the lower superblock is kept.                    *)
trfs_put_super_active ==
  /\ sb = "shutdown" /\ anon = {}
  /\ \A n \in Names : dentry[n].st = "none"
  /\ \A i \in Slots : inode[i].st \in {"free", "new"}
  /\ sb' = "none"
  /\ s_fs_info' = FALSE
  /\ UNCHANGED <<ivars, module, args, mount_path, s_active, mounts>>

(* Called by generic_shutdown_super when the caches are empty; an inode that *)
(* still has references is left behind.                                      *)
trfs_put_super ==
  /\ sb = "shutdown" /\ anon = {}
  /\ \A n \in Names : dentry[n].st = "none"
  /\ \A i \in Slots : inode[i].st \in {"free", "new"}
  /\ s_active' = s_active - 1
  /\ s_fs_info' = FALSE
  /\ sb' = "none"
  /\ UNCHANGED <<ivars, module, args, mount_path, mounts>>

-----------------------------------------------------------------------------
Init ==
  /\ InterposeInit
  /\ module = "out"
  /\ sb = "none"
  /\ args = "good"
  /\ mount_path = "null"
  /\ s_fs_info = FALSE
  /\ s_active = 0
  /\ mounts = 0

Running(t) ==
  \/ Step(t) /\ UNCHANGED mvars
  \/ ReadSuperPath(t) \/ ReadSuperTfile(t) \/ ReadSuperRoot(t) \/ ReadSuperFail(t)

Next ==
  \/ init_trfs_fs \/ exit_trfs_fs
  \/ \E t \in Threads :
       \/ Running(t)
       \/ sb = "mounted" /\ Enter(t) /\ UNCHANGED mvars
       \/ \E a \in MountArgs : trfs_mount(t, a)
  \/ trfs_shutdown_super \/ Shrink \/ trfs_put_super
  \/ \E i \in Slots : Evict(i)

(* A thread inside trfs runs on, an inode without references is evicted by   *)
(* the thread that put it, and unmounting, once begun, goes on.              *)
Fairness ==
  /\ \A t \in Threads : WF_vars(Running(t))
  /\ \A i \in Slots : WF_vars(Evict(i))
  /\ WF_vars(sb = "shutdown" /\ (Shrink \/ trfs_put_super))

Spec == Init /\ [][Next]_vars /\ Fairness
-----------------------------------------------------------------------------
(* Type invariant.                                                           *)
TypeOK ==
  /\ link \in [Names -> Lowers \cup {NoLower}]
  /\ removed \subseteq Names
  /\ lpins \in [Names -> Nat]
  /\ inode \in [Slots -> [st : {"free", "new", "live", "freeing"},
                          lower : Lowers \cup {NoLower}, count : Nat]]
  /\ dentry \in [Names -> [st : {"none", "looking", "neg", "pos", "unhashed"},
                           ino : Slots \cup {NoSlot}, data : BOOLEAN, path : BOOLEAN]]
  /\ anon \subseteq Slots
  /\ sb \in {"none", "mounting", "mounted", "shutdown"}
  /\ s_active \in Nat

(* After an unmount nothing of trfs is left, whatever was done on it: no     *)
(* dentry, no lower path, no reference on the lower superblock, no string,   *)
(* and no inode except those whose igrab failed.                             *)
UnmountClean ==
  (sb = "none" /\ mounts > 0) =>
    /\ \A n \in Names : dentry[n] = NoDentry /\ lpins[n] = 0
    /\ \A i \in Slots : inode[i] = NoInode \/ (Fault("stale") /\ inode[i].st = "new")
    /\ s_active = 0 /\ ~s_fs_info /\ mount_path = "freed"

(* The superblock data and the strings the tracing code uses are there as    *)
(* long as a thread can be inside.                                           *)
SuperInUse ==
  (\E t \in Threads : th[t].op \notin {"none", "mount"} /\ th[t].pc # "oops")
    => sb = "mounted" /\ s_fs_info /\ mount_path = "live" /\ s_active = 1

(* A call inside trfs returns or oopses: a lookup may wait for an inode that *)
(* is being evicted, but not for ever.                                       *)
CallsReturn ==
  \A t \in Threads :
    (th[t].pc \notin {"idle", "oops"}) ~> (th[t].pc \in {"idle", "oops"})

(* An unmount that has begun comes to its end.                               *)
UnmountEnds == (sb = "shutdown") ~> (sb = "none")

-----------------------------------------------------------------------------
(* "If any of the arguments are wrongly passed, mount will fail" (README):   *)
(* it returns an error, the kernel does not.                                 *)
MountReturns == \A t \in Threads : ~At(t, "oops")
=============================================================================
