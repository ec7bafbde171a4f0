----------------------------- MODULE TrfsFile ------------------------------
(***************************************************************************)
(* The open files of trfs and the lower files under them: who holds the    *)
(* lower file and the private data, and whether the size of the inode and  *)
(* the position of a directory, which exist on both levels, stay the same. *)
(* file.c outside the tracing code, mmap.c, trfs_setattr and trfs_link of  *)
(* inode.c.                                                                *)
(*                                                                         *)
(* The regular files are opens of one inode, the calls on them come from   *)
(* threads that share the descriptors.                                     *)
(***************************************************************************)
EXTENDS Integers, FiniteSets, FiniteSetsExt

CONSTANTS
  Threads,
  Files,     \* struct file of the upper level
  NoFile,    \* not a file
  Dirs,      \* the files that are open directories
  MaxSize,   \* bound on sizes
  MaxPos,    \* bound on directory offsets
  IntRange,  \* 2^32, scaled down: an int holds -IntRange/2 .. IntRange/2 - 1
  Faults,    \* see FaultKinds
  MaxMaps,   \* bound on the mappings of a file
  MaxOps     \* bound on the calls of a behaviour

(* "refused": trfs or the VFS turns a call down before it has any effect;    *)
(* "lower": the lower file system fails a call.                              *)
FaultKinds == {"refused", "lower"}

ASSUME FileAssumption ==
  /\ IsFiniteSet(Threads)
  /\ NoFile \notin Files /\ Dirs \subseteq Files /\ Faults \subseteq FaultKinds
  /\ {MaxSize, MaxPos, MaxMaps, MaxOps} \subseteq Nat
  /\ IntRange \in Nat /\ IntRange > 1

VARIABLES
  file,         \* see TypeOK
  usize,        \* i_size of the upper inode
  lsize,        \* i_size of the lower inode
  th,           \* what a thread is doing
  kiocb,        \* the asynchronous request of a thread
  ops,          \* calls so far
  early,        \* <<file, label>>: a request completed while its call was at label
  size_excuse,  \* see SizeAgrees
  pos_excuse    \* the directories excused in PosAgrees

vars == <<file, usize, lsize, th, kiocb, ops, early, size_excuse, pos_excuse>>

Fault(x) == x \in Faults

Closed == [open |-> FALSE, fd |-> FALSE, info |-> FALSE, lower |-> FALSE,
           vm_ops |-> FALSE, count |-> 0, lcount |-> 0, maps |-> 0, pos |-> 0, lpos |-> 0]
Idle == [op |-> "none", pc |-> "idle", f |-> NoFile, aio |-> FALSE, n |-> 0,
         ok |-> TRUE, alone |-> FALSE]
NoIocb == [st |-> "none", f |-> NoFile, filp |-> "upper", write |-> FALSE, n |-> 0]

At(t, op, label) == th[t].op = op /\ th[t].pc = label
Goto(t, label) == th' = [th EXCEPT ![t].pc = label]
F(t) == file[th[t].f]

(* TRFS_F(file)->lower_file can be used.                                     *)
LowerFile(f) == file[f].info /\ file[f].lower /\ file[f].lcount > 0

(* A use of what is not there: the thread stops where it is.                 *)
Oops(t) == Goto(t, "oops") /\ UNCHANGED <<file, usize, lsize, kiocb, ops, early,
                                          size_excuse, pos_excuse>>

-----------------------------------------------------------------------------
(* Entry and return.  Calls that change the size, and calls that move a      *)
(* directory, note whether they ran alone.                                   *)
Sizing == {"write", "write_iter", "setattr", "link"}
Moving == {"readdir", "llseek"}

Clash(op1, f1, op2, f2) ==
  \/ op1 \in Sizing /\ op2 \in Sizing
  \/ op1 \in Moving /\ op2 \in Moving /\ f1 = f2

Begin(t, f, op) ==
  /\ th[t].pc = "idle" /\ ops < MaxOps
  /\ LET others == {u \in Threads : Clash(op, f, th[u].op, th[u].f)}
         queued == {u \in Threads : kiocb[u].st = "queued" /\ kiocb[u].write}
     IN th' = [u \in Threads |->
                 IF u = t
                 THEN [Idle EXCEPT !.op = op, !.pc = "in", !.f = f,
                         !.alone = others = {} /\ (op \in Sizing => queued = {})]
                 ELSE [th[u] EXCEPT !.alone = @ /\ u \notin others]]
  /\ ops' = ops + 1
  /\ UNCHANGED <<usize, lsize, kiocb, early, size_excuse, pos_excuse>>

(* The VFS turns the descriptor into a reference on the file, for a fault    *)
(* the mapping has one.                                                      *)
Enter(t, f, op) ==
  /\ IF op = "fault" THEN file[f].maps > 0 ELSE file[f].fd
  /\ Begin(t, f, op)
  /\ file' = [file EXCEPT ![f].count = @ + 1]

(* link(2) goes by names: no open file.                                      *)
EnterLink(t) == Begin(t, NoFile, "link") /\ UNCHANGED file

(* What a call that returns leaves to be excused: it was not alone, or it    *)
(* changed one level only.  Alone and successful, it sets both levels.       *)
Excuse(t, sets, breaks) ==
  /\ size_excuse' = IF th[t].op \notin Sizing THEN size_excuse
                    ELSE ~th[t].alone \/ breaks \/ (size_excuse /\ ~sets)
  /\ pos_excuse' = IF th[t].op \notin Moving THEN pos_excuse
                   ELSE IF ~th[t].alone \/ breaks THEN pos_excuse \cup {th[t].f}
                   ELSE IF sets THEN pos_excuse \ {th[t].f} ELSE pos_excuse

(* The end of a call: fput of the file, given as it is otherwise changed.    *)
Return(t, r) ==
  /\ th' = [th EXCEPT ![t] = Idle]
  /\ file' = [file EXCEPT ![th[t].f] = [r EXCEPT !.count = r.count - 1]]

(* The call ends without an effect.                                          *)
Refused(t) ==
  /\ Return(t, F(t))
  /\ Excuse(t, FALSE, FALSE)
  /\ UNCHANGED <<usize, lsize, kiocb, ops, early>>

-----------------------------------------------------------------------------
(* Open, close, release.                                                     *)

(* No open file, and no call that still looks at one.                        *)
Unused(f) == file[f] = Closed /\ \A t \in Threads : th[t].f # f

(* Mutant: the error of dentry_open is lost.                                 *)
trfs_open_lost(f) ==
  /\ Unused(f) /\ ops < MaxOps
  /\ \E ok \in {TRUE} \cup (IF Fault("lower") THEN {FALSE} ELSE {}) :
       file' = [file EXCEPT ![f] =
                  [Closed EXCEPT !.open = TRUE, !.fd = TRUE, !.info = TRUE, !.lower = ok,
                                 !.count = 1, !.lcount = IF ok THEN 1 ELSE 0]]
  /\ ops' = ops + 1
  /\ UNCHANGED <<usize, lsize, th, kiocb, early, size_excuse, pos_excuse>>

(* Nobody else knows the file yet.  The failures, of an unhashed dentry, of  *)
(* kzalloc and of dentry_open after which the private data is freed, leave   *)
(* nothing behind.                                                           *)
trfs_open(f) ==
  /\ Unused(f) /\ ops < MaxOps
  /\ \/ file' = [file EXCEPT ![f] =
                   [Closed EXCEPT !.open = TRUE, !.fd = TRUE, !.info = TRUE,
                                  !.lower = TRUE, !.count = 1, !.lcount = 1]]
     \/ Fault("refused") /\ file' = [file EXCEPT ![f] = Closed]
     \/ Fault("lower") /\ file' = [file EXCEPT ![f] = Closed]
  /\ pos_excuse' = pos_excuse \ {f}
  /\ ops' = ops + 1
  /\ UNCHANGED <<usize, lsize, th, kiocb, early, size_excuse>>

(* close(2): the descriptor's reference passes to the call.                  *)
Close(t, f) ==
  /\ th[t].pc = "idle" /\ file[f].fd
  /\ file' = [file EXCEPT ![f].fd = FALSE]
  /\ th' = [th EXCEPT ![t] = [Idle EXCEPT !.op = "close", !.pc = "in", !.f = f]]
  /\ UNCHANGED <<usize, lsize, kiocb, ops, early, size_excuse, pos_excuse>>

(* Mutant: the lower file is put at every close, not at the last.            *)
trfs_flush_put(t) ==
  /\ At(t, "close", "in")
  /\ Return(t, [F(t) EXCEPT !.lower = FALSE, !.lcount = @ - (IF F(t).lower THEN 1 ELSE 0)])
  /\ UNCHANGED <<usize, lsize, kiocb, ops, early, size_excuse, pos_excuse>>

(* The lower flush, if there is a lower file.                                *)
trfs_flush(t) ==
  /\ At(t, "close", "in")
  /\ IF F(t).info /\ (F(t).lower => F(t).lcount > 0) THEN Refused(t) ELSE Oops(t)

(* The last reference is gone: the lower file is put, the data freed.        *)
trfs_file_release(f) ==
  /\ file[f].open /\ file[f].count = 0
  /\ file' = [file EXCEPT ![f] =
                [Closed EXCEPT !.lcount = file[f].lcount - (IF file[f].lower THEN 1 ELSE 0)]]
  /\ UNCHANGED <<usize, lsize, th, kiocb, ops, early, size_excuse, pos_excuse>>

-----------------------------------------------------------------------------
(* Calls that hand the lower file on and change nothing that is kept here.   *)

UseLower(t) == IF LowerFile(th[t].f) THEN Refused(t) ELSE Oops(t)

(* The upper pages first; their failure keeps the lower file out.            *)
trfs_fsync(t) ==
  /\ At(t, "forward", "in")
  /\ \/ Fault("refused") /\ Refused(t)
     \/ UseLower(t)

trfs_fasync(t) == At(t, "forward", "in") /\ UseLower(t)

(* Commands that are not of trctl; TrfsTrace has those.                      *)
trfs_unlocked_ioctl(t) == At(t, "forward", "in") /\ UseLower(t)

trfs_compat_ioctl(t) == At(t, "forward", "in") /\ UseLower(t)

-----------------------------------------------------------------------------
(* Writing and truncating.  A write copies the lower size up without a lock: *)
(* the size is read in one step and stored in another.                       *)

(* vfs_write on the lower file, up to offset n.                              *)
LowerWrite(t) ==
  /\ At(t, "write", "in")
  /\ \/ ~LowerFile(th[t].f) /\ Oops(t)
     \/ LowerFile(th[t].f) /\ Fault("lower") /\ Refused(t)
     \/ /\ LowerFile(th[t].f)
        /\ \E n \in 0..MaxSize : lsize' = Max({lsize, n})
        /\ Goto(t, "copy")
        /\ UNCHANGED <<file, usize, kiocb, ops, early, size_excuse, pos_excuse>>

(* fsstack_copy_inode_size, the reading half.                                *)
CopyRead(t) ==
  /\ th[t].pc = "copy"
  /\ \/ ~(F(t).open /\ LowerFile(th[t].f)) /\ Oops(t)
     \/ /\ F(t).open /\ LowerFile(th[t].f)
        /\ th' = [th EXCEPT ![t].n = lsize, ![t].pc = "store"]
        /\ UNCHANGED <<file, usize, lsize, kiocb, ops, early, size_excuse, pos_excuse>>

(* A call that has the lock of the upper inode.                              *)
InodeLocked == \E u \in Threads : At(u, "setattr", "notify") \/ At(u, "link", "saved")

(* Under the lock of the upper inode.  The upper level is truncated first;   *)
(* when notify_change then fails, the lower level is not.                    *)
trfs_setattr(t) ==
  \/ /\ At(t, "setattr", "in")
     /\ ~InodeLocked
     /\ \/ Fault("refused") /\ Refused(t)
        \/ ~LowerFile(th[t].f) /\ Oops(t)
        \/ /\ LowerFile(th[t].f)
           /\ \E n \in 0..MaxSize : /\ usize' = n
                                    /\ th' = [th EXCEPT ![t].pc = "notify", ![t].n = n]
           /\ UNCHANGED <<file, lsize, kiocb, ops, early, size_excuse, pos_excuse>>
  \/ /\ At(t, "setattr", "notify")
     /\ \/ lsize' = th[t].n /\ Excuse(t, TRUE, FALSE)
        \/ Fault("lower") /\ Excuse(t, FALSE, TRUE) /\ UNCHANGED lsize
     /\ Return(t, F(t))
     /\ UNCHANGED <<usize, kiocb, ops, early>>

(* The upper size is saved before vfs_link on the lower level and written    *)
(* back when all has succeeded.  The VFS has the lock of the upper inode,    *)
(* which writes do not take.                                                 *)
trfs_link(t) ==
  \/ /\ At(t, "link", "in")
     /\ ~InodeLocked
     /\ th' = [th EXCEPT ![t].pc = "saved", ![t].n = usize]
     /\ UNCHANGED <<file, usize, lsize, kiocb, ops, early, size_excuse, pos_excuse>>
  \/ /\ At(t, "link", "saved")
     /\ usize' = th[t].n \/ ((Fault("lower") \/ Fault("refused")) /\ UNCHANGED usize)
     /\ th' = [th EXCEPT ![t] = Idle]
     /\ Excuse(t, FALSE, FALSE)
     /\ UNCHANGED <<file, lsize, kiocb, ops, early>>

-----------------------------------------------------------------------------
(* Reading and seeking a directory.                                          *)

(* iterate_dir runs on the lower position, unless it fails at once.  trfs    *)
(* copies the lower position up, then the VFS stores that of the context:    *)
(* where the lower level has come to, or the upper position from before.     *)
(* The directory is locked, seeking does not take the lock.                  *)
trfs_readdir(t) ==
  \/ /\ At(t, "readdir", "in")
     /\ ~\E u \in Threads : /\ th[u].op = "readdir" /\ th[u].f = th[t].f
                            /\ th[u].pc \in {"set", "back"}
     /\ \/ ~LowerFile(th[t].f) /\ Oops(t)
        \/ /\ LowerFile(th[t].f)
           /\ \/ \E p \in F(t).lpos..MaxPos :
                   /\ file' = [file EXCEPT ![th[t].f].lpos = p]
                   /\ th' = [th EXCEPT ![t].pc = "set", ![t].n = p]
              \/ /\ Fault("lower")
                 /\ th' = [th EXCEPT ![t].pc = "set", ![t].n = F(t).pos, ![t].ok = FALSE]
                 /\ UNCHANGED file
           /\ UNCHANGED <<usize, lsize, kiocb, ops, early, size_excuse, pos_excuse>>
  \/ /\ At(t, "readdir", "set")
     /\ file' = [file EXCEPT ![th[t].f].pos = F(t).lpos]
     /\ Goto(t, "back")
     /\ UNCHANGED <<usize, lsize, kiocb, ops, early, size_excuse, pos_excuse>>
  \/ /\ At(t, "readdir", "back")
     /\ Return(t, [F(t) EXCEPT !.pos = th[t].n])
     /\ Excuse(t, th[t].ok, FALSE)
     /\ UNCHANGED <<usize, lsize, kiocb, ops, early>>

(* loff_t to int.                                                            *)
ToInt(x) == LET y == x % IntRange IN IF y >= IntRange \div 2 THEN y - IntRange ELSE y

(* Where generic_file_llseek goes from position p; beyond MaxPos it fails.   *)
NewPos(whence, p, off) == IF whence = "set" THEN off ELSE p + off

(* Mutant: generic_file_llseek, which sets the upper position only.          *)
trfs_file_llseek_upper(t) ==
  /\ At(t, "llseek", "in")
  /\ \E off \in 0..MaxPos : Return(t, [F(t) EXCEPT !.pos = off])
  /\ Excuse(t, TRUE, FALSE)
  /\ UNCHANGED <<usize, lsize, kiocb, ops, early>>

(* The upper position, then the lower one, unless the result of the first    *)
(* step looks negative as an int.                                            *)
trfs_file_llseek(t) ==
  \/ /\ At(t, "llseek", "in")
     /\ \E off \in 0..MaxPos, whence \in {"set", "cur"} :
          LET p == NewPos(whence, F(t).pos, off)
          IN \/ p > MaxPos /\ Refused(t)
             \/ /\ p <= MaxPos
                /\ IF ToInt(p) < 0
                   THEN Return(t, [F(t) EXCEPT !.pos = p]) /\ Excuse(t, FALSE, TRUE)
                   ELSE /\ file' = [file EXCEPT ![th[t].f].pos = p]
                        /\ th' = [th EXCEPT ![t].pc = whence, ![t].n = off]
                        /\ UNCHANGED <<size_excuse, pos_excuse>>
                /\ UNCHANGED <<usize, lsize, kiocb, ops, early>>
  \/ /\ th[t].op = "llseek" /\ th[t].pc \in {"set", "cur"}
     /\ \/ ~LowerFile(th[t].f) /\ Oops(t)
        \/ LET p == NewPos(th[t].pc, F(t).lpos, th[t].n)
           IN /\ LowerFile(th[t].f)
              /\ Return(t, [F(t) EXCEPT !.lpos = IF p <= MaxPos THEN p ELSE @])
              /\ Excuse(t, th[t].pc = "set", FALSE)
              /\ UNCHANGED <<usize, lsize, kiocb, ops, early>>

-----------------------------------------------------------------------------
(* read_iter and write_iter: readv, writev and asynchronous requests.  The   *)
(* request is pointed at the lower file for the time of the lower call.      *)
Iter == {"read_iter", "write_iter"}

(* For an asynchronous request the reference of the call is the request's.   *)
(* The lower file may lack the method.                                       *)
IterGet(t) ==
  /\ th[t].op \in Iter /\ th[t].pc = "in"
  /\ \/ ~LowerFile(th[t].f) /\ Oops(t)
     \/ LowerFile(th[t].f) /\ Fault("refused") /\ Refused(t)
     \/ /\ LowerFile(th[t].f)
        /\ file' = [file EXCEPT ![th[t].f].lcount = @ + 1]
        /\ \E aio \in {FALSE} \cup (IF kiocb[t].st = "none" THEN {TRUE} ELSE {}) :
             /\ th' = [th EXCEPT ![t].pc = "lower", ![t].aio = aio]
             /\ kiocb' = IF aio
                         THEN [kiocb EXCEPT ![t] =
                                 [NoIocb EXCEPT !.st = "submitted", !.f = th[t].f,
                                    !.filp = "lower", !.write = th[t].op = "write_iter"]]
                         ELSE kiocb
        /\ UNCHANGED <<usize, lsize, ops, early, size_excuse, pos_excuse>>

(* The lower call is done, fails, or queues an asynchronous request.         *)
IterLower(t) ==
  /\ th[t].op \in Iter /\ th[t].pc = "lower"
  /\ \E n \in IF th[t].op = "write_iter" THEN 0..MaxSize ELSE {0} :
       \/ /\ th' = [th EXCEPT ![t].pc = "restore"]
          /\ lsize' = Max({lsize, n})
          /\ UNCHANGED kiocb
       \/ /\ Fault("lower")
          /\ th' = [th EXCEPT ![t].pc = "restore", ![t].ok = FALSE]
          /\ UNCHANGED <<lsize, kiocb>>
       \/ /\ th[t].aio
          /\ th' = [th EXCEPT ![t].pc = "restore"]
          /\ kiocb' = [kiocb EXCEPT ![t].st = "queued", ![t].n = n]
          /\ UNCHANGED lsize
  /\ UNCHANGED <<file, usize, ops, early, size_excuse, pos_excuse>>

(* Mutant: ki_filp is left pointing at the lower file.                       *)
IterRestoreNot(t) ==
  /\ th[t].op \in Iter /\ th[t].pc = "restore"
  /\ Goto(t, "put")
  /\ UNCHANGED <<file, usize, lsize, kiocb, ops, early, size_excuse, pos_excuse>>

(* iocb->ki_filp = file.                                                     *)
IterRestore(t) ==
  /\ th[t].op \in Iter /\ th[t].pc = "restore"
  /\ kiocb' = IF th[t].aio THEN [kiocb EXCEPT ![t].filp = "upper"] ELSE kiocb
  /\ Goto(t, "put")
  /\ UNCHANGED <<file, usize, lsize, ops, early, size_excuse, pos_excuse>>

(* Mutant: the reference is put only when the lower call succeeds.           *)
IterPutOnSuccess(t) ==
  /\ th[t].op \in Iter /\ th[t].pc = "put"
  /\ file' = IF th[t].ok THEN [file EXCEPT ![th[t].f].lcount = @ - 1] ELSE file
  /\ Goto(t, IF th[t].op = "write_iter" /\ th[t].ok THEN "copy" ELSE "out")
  /\ UNCHANGED <<usize, lsize, kiocb, ops, early, size_excuse, pos_excuse>>

(* Mutant: one put too many when the lower call fails.                       *)
IterPutTwice(t) ==
  /\ th[t].op \in Iter /\ th[t].pc = "put"
  /\ file' = [file EXCEPT ![th[t].f].lcount = @ - (IF th[t].ok THEN 1 ELSE 2)]
  /\ Goto(t, IF th[t].op = "write_iter" /\ th[t].ok THEN "copy" ELSE "out")
  /\ UNCHANGED <<usize, lsize, kiocb, ops, early, size_excuse, pos_excuse>>

(* fput(lower_file), then the size is copied, for a queued write too.        *)
IterPut(t) ==
  /\ th[t].op \in Iter /\ th[t].pc = "put"
  /\ \/ F(t).lcount = 0 /\ Oops(t)
     \/ /\ F(t).lcount > 0
        /\ file' = [file EXCEPT ![th[t].f].lcount = @ - 1]
        /\ Goto(t, IF th[t].op = "write_iter" /\ th[t].ok THEN "copy" ELSE "out")
        /\ UNCHANGED <<usize, lsize, kiocb, ops, early, size_excuse, pos_excuse>>

(* Mutant: the size is not copied after a write.                             *)
CopyStoreNot(t) ==
  /\ th[t].pc = "store"
  /\ IF th[t].op = "write"
     THEN Return(t, F(t)) /\ Excuse(t, TRUE, FALSE)
     ELSE /\ th' = [th EXCEPT ![t].pc = "out", ![t].n = 0]
          /\ UNCHANGED <<file, size_excuse, pos_excuse>>
  /\ UNCHANGED <<usize, lsize, kiocb, ops, early>>

(* fsstack_copy_inode_size, the writing half; trfs_write returns.            *)
CopyStore(t) ==
  /\ th[t].pc = "store"
  /\ usize' = th[t].n
  /\ IF th[t].op = "write"
     THEN Return(t, F(t)) /\ Excuse(t, TRUE, FALSE)
     ELSE /\ th' = [th EXCEPT ![t].pc = "out", ![t].n = 0]
          /\ UNCHANGED <<file, size_excuse, pos_excuse>>
  /\ UNCHANGED <<lsize, kiocb, ops, early>>

(* The reference of the call is dropped, or, for an asynchronous request     *)
(* that was not queued, that of the request: ki_filp is put.  A queued one   *)
(* keeps it.                                                                 *)
IterReturn(t) ==
  /\ th[t].op \in Iter /\ th[t].pc = "out"
  /\ LET queued == th[t].aio /\ kiocb[t].st # "submitted"
         put    == IF queued THEN F(t)
                   ELSE IF th[t].aio /\ kiocb[t].filp = "lower"
                   THEN [F(t) EXCEPT !.lcount = @ - 1]
                   ELSE [F(t) EXCEPT !.count = @ - 1]
     IN /\ file' = [file EXCEPT ![th[t].f] = put]
        /\ kiocb' = IF th[t].aio /\ kiocb[t].st # "queued"
                    THEN [kiocb EXCEPT ![t] = NoIocb] ELSE kiocb
  /\ th' = [th EXCEPT ![t] = Idle]
  /\ Excuse(t, th[t].ok, FALSE)
  /\ UNCHANGED <<usize, lsize, ops, early>>

(* A queued request completes, possibly before its call has returned: the    *)
(* data is written and ki_filp is put.  A lower file that an early           *)
(* completion has freed stays freed.                                         *)
Complete(t) ==
  /\ kiocb[t].st = "queued"
  /\ LET f      == kiocb[t].f
         inside == th[t].aio /\ th[t].pc # "oops"
     IN /\ lsize' = IF kiocb[t].write THEN Max({lsize, kiocb[t].n}) ELSE lsize
        /\ file' = [file EXCEPT ![f] = IF kiocb[t].filp = "lower"
                                       THEN [file[f] EXCEPT !.lcount = Max({0, file[f].lcount - 1})]
                                       ELSE [file[f] EXCEPT !.count = file[f].count - 1]]
        /\ early' = IF inside THEN early \cup {<<f, th[t].pc>>} ELSE early
        /\ kiocb' = [kiocb EXCEPT ![t] =
                        [NoIocb EXCEPT !.st = IF inside THEN "gone" ELSE "none"]]
        /\ size_excuse' = (size_excuse \/ kiocb[t].write)
        /\ th' = [u \in Threads |->
                    IF kiocb[t].write /\ th[u].op \in Sizing
                    THEN [th[u] EXCEPT !.alone = FALSE] ELSE th[u]]
  /\ UNCHANGED <<usize, ops, pos_excuse>>

-----------------------------------------------------------------------------
(* Mappings.  n is 1 when the call has saved the lower vm_ops.               *)

(* Mutant: the lower vm_ops are not saved.                                   *)
trfs_mmap_nosave(t) ==
  /\ At(t, "mmap", "in")
  /\ Return(t, [F(t) EXCEPT !.count = @ + 1, !.maps = @ + 1])
  /\ UNCHANGED <<usize, lsize, kiocb, ops, early, size_excuse, pos_excuse>>

(* The lower mmap is called until one call has saved its vm_ops.  A mapping  *)
(* holds a reference on the file.                                            *)
trfs_mmap(t) ==
  \/ /\ At(t, "mmap", "in")
     /\ \/ ~LowerFile(th[t].f) /\ Oops(t)
        \/ LowerFile(th[t].f) /\ Fault("refused") /\ Refused(t)
        \/ LowerFile(th[t].f) /\ ~F(t).vm_ops /\ Fault("lower") /\ Refused(t)
        \/ /\ LowerFile(th[t].f)
           /\ th' = [th EXCEPT ![t].pc = "save", ![t].n = IF F(t).vm_ops THEN 0 ELSE 1]
           /\ UNCHANGED <<file, usize, lsize, kiocb, ops, early, size_excuse, pos_excuse>>
  \/ /\ At(t, "mmap", "save")
     /\ Return(t, [F(t) EXCEPT !.vm_ops = @ \/ th[t].n = 1, !.count = @ + 1, !.maps = @ + 1])
     /\ UNCHANGED <<usize, lsize, kiocb, ops, early, size_excuse, pos_excuse>>

(* The lower fault handler gets a copy of the vma with the lower file.       *)
trfs_fault(t) ==
  /\ At(t, "fault", "in")
  /\ IF F(t).info /\ F(t).vm_ops THEN UseLower(t) ELSE Oops(t)

(* The same for the first write to a page; the handler is optional.          *)
trfs_page_mkwrite(t) ==
  /\ At(t, "fault", "in")
  /\ \/ F(t).info /\ F(t).vm_ops /\ Fault("refused") /\ Refused(t)
     \/ IF F(t).info /\ F(t).vm_ops THEN UseLower(t) ELSE Oops(t)

(* A mapping goes; faults hold the lock that this needs.                     *)
Munmap(f) ==
  /\ file[f].maps > 0
  /\ ~\E t \in Threads : th[t].op = "fault" /\ th[t].f = f
  /\ file' = [file EXCEPT ![f].maps = @ - 1, ![f].count = @ - 1]
  /\ UNCHANGED <<usize, lsize, th, kiocb, ops, early, size_excuse, pos_excuse>>

-----------------------------------------------------------------------------
(* Nothing is open; the regular file is empty.                               *)
Init ==
  /\ file = [f \in Files |-> Closed]
  /\ usize = 0
  /\ lsize = 0
  /\ th = [t \in Threads |-> Idle]
  /\ kiocb = [t \in Threads |-> NoIocb]
  /\ ops = 0
  /\ early = {}
  /\ size_excuse = FALSE
  /\ pos_excuse = {}

(* A thread inside a call on an open file.                                   *)
Step(t) ==
  \/ trfs_flush(t) \/ trfs_fsync(t) \/ trfs_fasync(t)
  \/ trfs_unlocked_ioctl(t) \/ trfs_compat_ioctl(t)
  \/ LowerWrite(t) \/ CopyRead(t) \/ CopyStore(t) \/ trfs_setattr(t)
  \/ trfs_readdir(t) \/ trfs_file_llseek(t)
  \/ IterGet(t) \/ IterLower(t) \/ IterRestore(t) \/ IterPut(t) \/ IterReturn(t)
  \/ trfs_mmap(t) \/ trfs_fault(t) \/ trfs_page_mkwrite(t)

Call(t) ==
  \/ EnterLink(t)
  \/ \E f \in Files : Close(t, f) \/ Enter(t, f, "forward")
  \/ \E f \in Dirs, op \in Moving : Enter(t, f, op)
  \/ \E f \in Files \ Dirs :
       \/ \E op \in {"write", "setattr", "fault"} \cup Iter : Enter(t, f, op)
       \/ file[f].maps + Cardinality({u \in Threads : th[u].op = "mmap"}) < MaxMaps
          /\ Enter(t, f, "mmap")

Next ==
  \/ \E t \in Threads : Step(t) \/ trfs_link(t) \/ Call(t) \/ Complete(t)
  \/ \E f \in Files : trfs_open(f) \/ trfs_file_release(f) \/ Munmap(f)

(* A call goes on, the device completes its requests, and the last fput      *)
(* releases the file.                                                        *)
Fairness ==
  /\ \A t \in Threads : WF_vars(Step(t)) /\ WF_vars(trfs_link(t)) /\ WF_vars(Complete(t))
  /\ \A f \in Files : WF_vars(trfs_file_release(f))

Spec == Init /\ [][Next]_vars /\ Fairness
-----------------------------------------------------------------------------
(* Type invariant.                                                           *)
TypeOK ==
  /\ file \in [Files -> [open : BOOLEAN, fd : BOOLEAN, info : BOOLEAN, lower : BOOLEAN,
                         vm_ops : BOOLEAN, count : Nat, lcount : Nat, maps : 0..MaxMaps,
                         pos : 0..MaxPos, lpos : 0..MaxPos]]
  /\ usize \in 0..MaxSize /\ lsize \in 0..MaxSize
  /\ early \subseteq Files \X {"restore", "put", "copy", "store", "out"}
  /\ pos_excuse \subseteq Dirs /\ size_excuse \in BOOLEAN

(* A request of the file completed while the request pointed at the lower    *)
(* file: the completion has put the wrong file.                              *)
PutLower(f) == <<f, "restore">> \in early

(* The lower file has one reference from the open file and one from every    *)
(* read_iter or write_iter that is between get_file and fput; a file that is *)
(* not open has neither a lower file nor private data.                       *)
LowerFileBalanced ==
  \A f \in Files : PutLower(f) \/
    /\ file[f].lcount = (IF file[f].lower THEN 1 ELSE 0)
         + Cardinality({t \in Threads : /\ th[t].op \in Iter /\ th[t].f = f
                                        /\ th[t].pc \in {"lower", "restore", "put"}})
    /\ file[f].open <=> file[f].lower
    /\ file[f].open <=> file[f].info

(* A file is never released under a call, a mapping or a request: what the   *)
(* lower level works on is there.  Only a request that completes before the  *)
(* call that queued it has returned can take the file from under that call.  *)
LowerFileInUse ==
  \A f \in Files :
    \/ \E label \in {"restore", "put", "copy", "store", "out"} : <<f, label>> \in early
    \/ (\/ file[f].maps > 0
        \/ \E t \in Threads : th[t].f = f
        \/ \E t \in Threads : kiocb[t].st = "queued" /\ kiocb[t].f = f) => LowerFile(f)

(* The BUG_ON of the fault handlers: a mapping means that the lower vm_ops   *)
(* have been saved, however the mmap calls of several threads mix.           *)
MappedHasVmOps == \A f \in Files : file[f].maps > 0 => file[f].vm_ops

(* No thread uses a file, its data or its lower file after the end, unless a *)
(* completion was early.                                                     *)
NoOops == \A t \in Threads : th[t].pc = "oops" => \E e \in early : e[1] = th[t].f

(* Between calls the size stat reports, that of the upper inode, is the size *)
(* of the lower inode.  Excused: the last change overlapped with another or  *)
(* with a link, which saves the upper size and writes it back, or was a      *)
(* truncation that failed below, or was queued.  One change that is alone    *)
(* and succeeds makes both sizes equal again; a link alone changes nothing.  *)
SizeAgrees ==
  \/ size_excuse
  \/ \E t \in Threads : th[t].op \in Sizing
  \/ \E t \in Threads : kiocb[t].st = "queued" /\ kiocb[t].write
  \/ usize = lsize

(* Between calls the two positions of an open directory are the same.        *)
(* Excused: the last seek or read overlapped with another, or the seek went  *)
(* to an offset that is negative as an int.                                  *)
PosAgrees ==
  \A d \in Dirs : \/ d \in pos_excuse
                  \/ \E t \in Threads : th[t].op \in Moving /\ th[t].f = d
                  \/ file[d].pos = file[d].lpos

(* A file without descriptor and mapping is released, with its lower file,   *)
(* when its calls and requests are done.                                     *)
ClosedIsReleased ==
  \A f \in Files :
    (file[f].open /\ ~file[f].fd)
      ~> (~file[f].open \/ file[f].maps > 0 \/ \E e \in early : e[1] = f)
=============================================================================
