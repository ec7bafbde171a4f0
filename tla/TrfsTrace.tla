----------------------------- MODULE TrfsTrace -----------------------------
(***************************************************************************)
(* The tracing side of trfs: the twelve traced VFS handlers of file.c and  *)
(* inode.c, run by several threads at once, the trace file they append to, *)
(* and the two shared superblock fields they use without any lock,         *)
(* sb_info->mask and sb_info->record_id.                                   *)
(*                                                                         *)
(* A handler performs the operation on the lower file system (for a        *)
(* directory operation under the lower parent's inode lock), reads the     *)
(* mask, and, if the call is to be traced, reads record_id, opens the      *)
(* trace file, appends the record in two to three separate vfs_write       *)
(* calls, and stores record_id + 1.  Every one of those accesses is a step *)
(* of its own here, because another thread can run between any two.        *)
(*                                                                         *)
(* Abstractions.  Return values are -1 (any errno), 0 and 1 (any positive  *)
(* byte count).  A path is a model value with a length; the trace file is  *)
(* the sequence of pieces that reached it.  The mask is the set of calls   *)
(* whose bit is set.  Timestamps, sizes and link counts copied between     *)
(* inodes are left out: nothing here depends on them.                      *)
(***************************************************************************)
EXTENDS Integers, Sequences, FiniteSets

CONSTANTS
  Threads,    \* kernel threads executing system calls
  Dirs,       \* directories of the lower file system
  Paths,      \* names of dentries and symlink texts
  NoPath,     \* second path of a call that has only one
  DirOf,      \* DirOf[p]: the lower parent directory of dentry p
  PathLen,    \* PathLen[p]: strlen of p
  Calls,      \* the calls the users make: records [op, p1, p2]
  Masks,      \* the masks trctl may install
  TfileDir,   \* the directory that holds the trace file
  Faults,     \* which environment failures can happen, see FaultKinds
  MaxCalls    \* bound on the number of calls of a behaviour

Ops == {"open", "read", "write", "release", "create", "link", "unlink",
        "symlink", "mkdir", "rmdir", "mknod", "rename"}

FileOps    == {"open", "read", "write", "release"}   \* take no directory lock
TwoPathOps == {"link", "symlink", "rename"}          \* path_len2 # 0
Fail       == -1
Results    == -1 .. 1

(* "interpose": trfs_interpose fails; "negative": vfs_link succeeds but      *)
(* leaves a negative lower dentry; "nomem": kmalloc returns NULL; "tfile":   *)
(* filp_open of the trace file fails; "enospc": vfs_write to the trace file  *)
(* writes nothing or only a part.                                            *)
FaultKinds == {"interpose", "negative", "nomem", "tfile", "enospc"}

PathBuf == 256     \* size of the buffer handed to dentry_path_raw

(* The locks of the lower file system: the inode locks of its directories    *)
(* and the mutex that serialises renames between two directories.            *)
RenameMutex == "s_vfs_rename_mutex"
Locks == Dirs \cup {RenameMutex}

Call == [op : Ops, p1 : Paths, p2 : Paths \cup {NoPath}]

ASSUME ConstantsAssumption ==
  /\ NoPath \notin Paths
  /\ RenameMutex \notin Dirs
  /\ DirOf \in [Paths -> Dirs]
  /\ PathLen \in [Paths -> Nat]
  /\ Calls \subseteq Call /\ Calls # {}
  /\ \A c \in Calls : (c.op \in TwoPathOps) <=> (c.p2 # NoPath)
  /\ Masks \subseteq SUBSET Ops
  /\ Faults \subseteq FaultKinds
  /\ MaxCalls \in Nat

VARIABLES
  mask,        \* sb_info->mask: the calls that are traced
  record_id,   \* sb_info->record_id
  trace,       \* the pieces in the trace file, in file order
  pc,          \* pc[t]: where thread t is
  cur,         \* cur[t]: the call thread t executes
  err,         \* err[t]: the handler's local err
  rec_id,      \* rec_id[t]: the handler's local rec_id
  seq,         \* seq[t]: index in effects of t's call, 0 before the lower call
  holds,       \* holds[t]: the lower locks that t holds
  effects      \* history: the calls on the lower file system, in the order
               \* they took effect, with the value each system call returned

vars == <<mask, record_id, trace, pc, cur, err, rec_id, seq, holds, effects>>

NoCall == CHOOSE c \in Calls : TRUE   \* what a dead local variable holds

PCs == {"idle", "called", "locking", "mask", "id", "tfile", "header", "path1",
        "path2", "content", "bump", "interpose", "out", "oops"}

(* Mutant: rename takes lock_parent twice instead of lock_rename.            *)
LocksOfNoMutex(c) ==
  CASE c.op \in FileOps  -> {}
    [] c.op = "link"     -> {DirOf[c.p2]}
    [] c.op = "rename"   -> {DirOf[c.p1], DirOf[c.p2]}
    [] OTHER             -> {DirOf[c.p1]}

(* The lower locks of a call: lock_parent of the dentry that is created or   *)
(* removed (of the new name for link), none for the operations on an open    *)
(* file; lock_rename takes the lock of one parent, or the mutex and the      *)
(* locks of both.                                                            *)
LocksOf(c) ==
  CASE c.op \in FileOps  -> {}
    [] c.op = "link"     -> {DirOf[c.p2]}
    [] c.op = "rename"   ->
         IF DirOf[c.p1] = DirOf[c.p2] THEN {DirOf[c.p1]}
         ELSE {RenameMutex, DirOf[c.p1], DirOf[c.p2]}
    [] OTHER             -> {DirOf[c.p1]}

(***************************************************************************)
(* Pieces of a record.                                                     *)
(***************************************************************************)
(* A run of bytes taken from paths: the first bytes of lead, then the last   *)
(* bytes of tail.                                                            *)
Text == [lead : Paths, leadLen : Nat, tail : Paths, tailLen : Nat]

Whole(p) == [lead |-> p, leadLen |-> PathLen[p], tail |-> p, tailLen |-> 0]

(* What path_name1 points to after the second dentry_path_raw into the same  *)
(* buffer: dentry_path_raw writes right-aligned, so path 2 has overwritten   *)
(* the end of path 1 (all of it when it is not longer than path 2).          *)
Overwritten(p, q) ==
  LET over == IF PathLen[p] <= PathLen[q] THEN PathLen[p] ELSE PathLen[q]
  IN  [lead |-> p, leadLen |-> PathLen[p] - over, tail |-> q, tailLen |-> over]

(* The bytes written as the first path: link and rename build both names in  *)
(* one buffer, symlink writes symname from its own storage.                  *)
Path1Text(c) ==
  IF c.op \in {"link", "rename"} THEN Overwritten(c.p1, c.p2) ELSE Whole(c.p1)

Header == [part : {"header"}, call : Nat, id : Nat, op : Ops, err : Results,
           path2 : BOOLEAN, write_len : Results]
PathPiece == [part : {"path1", "path2"}, call : Nat, text : Text]
DataPiece == [part : {"content", "cut"}, call : Nat]

(* Mutant: symlink forgets path_len2.                                        *)
HeaderOfOnePath(t) ==
  [part |-> "header", call |-> seq[t], id |-> rec_id[t], op |-> cur[t].op,
   err |-> err[t], path2 |-> cur[t].op \in {"link", "rename"},
   write_len |-> IF cur[t].op = "write" THEN err[t] ELSE 0]

(* struct trfs_trace_ds as the handler fills it.                             *)
HeaderOf(t) ==
  [part |-> "header", call |-> seq[t], id |-> rec_id[t], op |-> cur[t].op,
   err |-> err[t], path2 |-> cur[t].op \in TwoPathOps,
   write_len |-> IF cur[t].op = "write" THEN err[t] ELSE 0]

IsHeader(x) == x.part = "header"

-----------------------------------------------------------------------------
(***************************************************************************)
(* Control flow shared by the handlers.                                    *)
(***************************************************************************)
Goto(t, label) == pc' = [pc EXCEPT ![t] = label]

(* Mutant: lock_parent does not lock.                                        *)
LocksFreeAlways(ds) == TRUE

LocksFree(ds) == \A u \in Threads : holds[u] \cap ds = {}

(* The locks that t's call needs and t does not hold yet.                    *)
Missing(t) == LocksOf(cur[t]) \ holds[t]

(* lock_rename: all locks but the last, one by one, the mutex first.  Which  *)
(* of the two directories comes next depends on their places in the tree,    *)
(* so either may.  Nobody is let go while t waits.                           *)
LockRename(t) ==
  /\ pc[t] \in {"called", "locking"} /\ cur[t].op = "rename"
  /\ \E l \in Missing(t) :
       /\ Missing(t) # {l}
       /\ RenameMutex \in Missing(t) => l = RenameMutex
       /\ LocksFree({l})
       /\ holds' = [holds EXCEPT ![t] = @ \cup {l}]
  /\ Goto(t, "locking")
  /\ UNCHANGED <<mask, record_id, trace, cur, err, rec_id, seq, effects>>

(* Mutant: mknod, too, interposes after tracing.                             *)
AfterTraceMknod(t) ==
  IF cur[t].op \in {"mkdir", "mknod"} \/ (cur[t].op = "create" /\ err[t] = 0)
  THEN "interpose" ELSE "out"

(* After the tracing block create and mkdir still have to interpose (create  *)
(* only when the lower call succeeded); the others go to their exit.         *)
AfterTrace(t) ==
  IF cur[t].op = "mkdir" \/ (cur[t].op = "create" /\ err[t] = 0)
  THEN "interpose" ELSE "out"

AfterPath1(t) ==
  CASE cur[t].op \in TwoPathOps -> "path2"
    [] cur[t].op = "write"      -> "content"
    [] OTHER                    -> "bump"

InterposeResults == IF "interpose" \in Faults THEN {0, Fail} ELSE {0}

(* The call on the lower file system: take the last lock that is missing (if *)
(* the call has any), call vfs_*, keep its (possibly adjusted) result e in   *)
(* err, continue at label.                                                   *)
LowerCall(t, op, e, label) ==
  /\ pc[t] \in {"called", "locking"} /\ cur[t].op = op
  /\ \A k, l \in Missing(t) : k = l
  /\ LocksFree(Missing(t))
  /\ holds'   = [holds EXCEPT ![t] = LocksOf(cur[t])]
  /\ effects' = Append(effects, [call |-> cur[t], returned |-> FALSE, ret |-> 0])
  /\ seq'     = [seq EXCEPT ![t] = Len(effects) + 1]
  /\ err'     = [err EXCEPT ![t] = e]
  /\ Goto(t, label)
  /\ UNCHANGED <<mask, record_id, trace, cur, rec_id>>

(***************************************************************************)
(* The handlers, up to the tracing block.                                  *)
(***************************************************************************)
(* An unhashed dentry or a failed kzalloc returns at once and is not traced; *)
(* a failed dentry_open is traced.                                           *)
trfs_open(t) ==
  \/ /\ pc[t] = "called" /\ cur[t].op = "open"
     /\ err' = [err EXCEPT ![t] = Fail]
     /\ Goto(t, "out")
     /\ UNCHANGED <<mask, record_id, trace, cur, rec_id, seq, holds, effects>>
  \/ \E e \in {0, Fail} : LowerCall(t, "open", e, "mask")

trfs_read(t)  == \E e \in Results : LowerCall(t, "read", e, "mask")
trfs_write(t) == \E e \in Results : LowerCall(t, "write", e, "mask")
trfs_file_release(t) == LowerCall(t, "release", 0, "mask")

trfs_create(t) == \E e \in {0, Fail} : LowerCall(t, "create", e, "mask")

(* vfs_link can succeed and leave the lower dentry negative: the handler     *)
(* then returns 0 without interposing or tracing.                            *)
trfs_link(t) ==
  \/ LowerCall(t, "link", Fail, "out")
  \/ "negative" \in Faults /\ LowerCall(t, "link", 0, "out")
  \/ \E e \in InterposeResults :
       LowerCall(t, "link", e, IF e = 0 THEN "mask" ELSE "out")

(* -EBUSY from a file that NFS has silly-renamed counts as success.          *)
trfs_unlink(t) ==
  LowerCall(t, "unlink", Fail, "out") \/ LowerCall(t, "unlink", 0, "mask")

trfs_symlink(t) ==
  \/ LowerCall(t, "symlink", Fail, "out")
  \/ \E e \in InterposeResults :
       LowerCall(t, "symlink", e, IF e = 0 THEN "mask" ELSE "out")

trfs_mkdir(t) ==
  LowerCall(t, "mkdir", Fail, "out") \/ LowerCall(t, "mkdir", 0, "mask")

trfs_rmdir(t) ==
  LowerCall(t, "rmdir", Fail, "out") \/ LowerCall(t, "rmdir", 0, "mask")

trfs_mknod(t) ==
  \/ LowerCall(t, "mknod", Fail, "out")
  \/ \E e \in InterposeResults :
       LowerCall(t, "mknod", e, IF e = 0 THEN "mask" ELSE "out")

(* The trap checks of lock_rename fail the call before vfs_rename.           *)
trfs_rename(t) ==
  LowerCall(t, "rename", Fail, "out") \/ LowerCall(t, "rename", 0, "mask")

-----------------------------------------------------------------------------
(***************************************************************************)
(* The tracing block, the same code in every handler.                      *)
(***************************************************************************)
(* Mutants: the mask is ignored; the directory is unlocked before the call   *)
(* is traced.                                                                *)
ReadMaskIgnored(t) ==
  /\ pc[t] = "mask"
  /\ Goto(t, "id")
  /\ UNCHANGED <<mask, record_id, trace, cur, err, rec_id, seq, holds, effects>>

ReadMaskUnlocked(t) ==
  /\ pc[t] = "mask"
  /\ Goto(t, IF cur[t].op \in mask THEN "id" ELSE AfterTrace(t))
  /\ holds' = [holds EXCEPT ![t] = {}]
  /\ UNCHANGED <<mask, record_id, trace, cur, err, rec_id, seq, effects>>

ReadMask(t) ==
  /\ pc[t] = "mask"
  /\ Goto(t, IF cur[t].op \in mask THEN "id" ELSE AfterTrace(t))
  /\ UNCHANGED <<mask, record_id, trace, cur, err, rec_id, seq, holds, effects>>

(* The dentries whose path is built in the 256 byte buffer.                  *)
Dentries(c) == IF c.op \in {"link", "rename"} THEN {c.p1, c.p2} ELSE {c.p1}

(* Read record_id and build the path names.  Nothing checks kmalloc's result *)
(* or dentry_path_raw's ERR_PTR, so either failure is a kernel oops: the     *)
(* task dies where it is, with its locks held.                               *)
ReadRecordId(t) ==
  /\ pc[t] = "id"
  /\ rec_id' = [rec_id EXCEPT ![t] = record_id]
  /\ \/ (\A p \in Dentries(cur[t]) : PathLen[p] < PathBuf) /\ Goto(t, "tfile")
     \/ (\E p \in Dentries(cur[t]) : PathLen[p] >= PathBuf) /\ Goto(t, "oops")
     \/ "nomem" \in Faults /\ Goto(t, "oops")
  /\ UNCHANGED <<mask, record_id, trace, cur, err, seq, holds, effects>>

(* Mutant: the trace file is opened without O_APPEND.                        *)
OpenFlagsNoAppend == {"O_WRONLY", "O_CREAT"}

(* The flags with which every handler opens the trace file.                  *)
OpenFlags == {"O_WRONLY", "O_CREAT", "O_APPEND"}

(* filp_open with OpenFlags: an open with O_CREAT takes the inode lock of    *)
(* the directory that holds the file, for the time of the open; a handler    *)
(* that holds that lock itself waits for ever.  Neither the result nor that  *)
(* of the kmalloc of the struct that follows is checked: an ERR_PTR or NULL  *)
(* is dereferenced.                                                          *)
FilpOpen(t) ==
  /\ pc[t] = "tfile"
  /\ "O_CREAT" \in OpenFlags => LocksFree({TfileDir})
  /\ \/ Goto(t, "header")
     \/ Faults \cap {"tfile", "nomem"} # {} /\ Goto(t, "oops")
  /\ UNCHANGED <<mask, record_id, trace, cur, err, rec_id, seq, holds, effects>>

(* The handler's offset before it writes the piece, counted in pieces: the   *)
(* local starts at 0 and each vfs_write advances it.                         *)
Offset(piece) ==
  CASE piece.part = "header" -> 0 [] piece.part = "path1" -> 1 [] OTHER -> 2

(* The file after a piece is written: at its end if it was opened with       *)
(* O_APPEND, and otherwise at the offset, over what is there.                *)
WithPiece(piece) ==
  IF "O_APPEND" \in OpenFlags THEN Append(trace, piece)
  ELSE SubSeq(trace, 1, Offset(piece)) \o <<piece>>
         \o SubSeq(trace, Offset(piece) + 2, Len(trace))

(* One vfs_write to the trace file; one call is atomic.  Its result is       *)
(* ignored, so it may write nothing or a part.                               *)
VfsWrite(piece) ==
  \/ trace' = WithPiece(piece)
  \/ /\ "enospc" \in Faults
     /\ \/ trace' = trace
        \/ trace' = WithPiece([part |-> "cut", call |-> piece.call])

WriteHeader(t) ==
  /\ pc[t] = "header"
  /\ VfsWrite(HeaderOf(t))
  /\ Goto(t, "path1")
  /\ UNCHANGED <<mask, record_id, cur, err, rec_id, seq, holds, effects>>

(* Mutant: the mask is tested again before the paths are written.            *)
WritePath1Masked(t) ==
  /\ pc[t] = "path1"
  /\ IF cur[t].op \in mask
     THEN VfsWrite([part |-> "path1", call |-> seq[t], text |-> Path1Text(cur[t])])
     ELSE UNCHANGED trace
  /\ Goto(t, AfterPath1(t))
  /\ UNCHANGED <<mask, record_id, cur, err, rec_id, seq, holds, effects>>

WritePath1(t) ==
  /\ pc[t] = "path1"
  /\ VfsWrite([part |-> "path1", call |-> seq[t], text |-> Path1Text(cur[t])])
  /\ Goto(t, AfterPath1(t))
  /\ UNCHANGED <<mask, record_id, cur, err, rec_id, seq, holds, effects>>

(* Mutant: the first path is written twice.                                  *)
WritePath2First(t) ==
  /\ pc[t] = "path2"
  /\ VfsWrite([part |-> "path1", call |-> seq[t], text |-> Path1Text(cur[t])])
  /\ Goto(t, "bump")
  /\ UNCHANGED <<mask, record_id, cur, err, rec_id, seq, holds, effects>>

WritePath2(t) ==
  /\ pc[t] = "path2"
  /\ VfsWrite([part |-> "path2", call |-> seq[t], text |-> Whole(cur[t].p2)])
  /\ Goto(t, "bump")
  /\ UNCHANGED <<mask, record_id, cur, err, rec_id, seq, holds, effects>>

(* vfs_write(file_op, buf, err, ..): a negative count is refused with        *)
(* -EINVAL and a zero count writes nothing.                                  *)
WriteContent(t) ==
  /\ pc[t] = "content"
  /\ IF err[t] > 0
     THEN VfsWrite([part |-> "content", call |-> seq[t]])
     ELSE UNCHANGED trace
  /\ Goto(t, "bump")
  /\ UNCHANGED <<mask, record_id, cur, err, rec_id, seq, holds, effects>>

(* Mutants: the shared counter is incremented instead of the local copy; the *)
(* local copy is decremented; nothing is stored.                             *)
BumpShared(t) ==
  /\ pc[t] = "bump"
  /\ record_id' = record_id + 1
  /\ Goto(t, AfterTrace(t))
  /\ UNCHANGED <<mask, trace, cur, err, rec_id, seq, holds, effects>>

BumpDown(t) ==
  /\ pc[t] = "bump"
  /\ record_id' = rec_id[t] - 1
  /\ Goto(t, AfterTrace(t))
  /\ UNCHANGED <<mask, trace, cur, err, rec_id, seq, holds, effects>>

BumpMissing(t) ==
  /\ pc[t] = "bump"
  /\ Goto(t, AfterTrace(t))
  /\ UNCHANGED <<mask, record_id, trace, cur, err, rec_id, seq, holds, effects>>

Bump(t) ==
  /\ pc[t] = "bump"
  /\ record_id' = rec_id[t] + 1
  /\ Goto(t, AfterTrace(t))
  /\ UNCHANGED <<mask, trace, cur, err, rec_id, seq, holds, effects>>

(***************************************************************************)
(* The rest of the handlers.                                               *)
(***************************************************************************)
Interpose(t) ==
  /\ pc[t] = "interpose"
  /\ \E e \in InterposeResults : err' = [err EXCEPT ![t] = e]
  /\ Goto(t, "out")
  /\ UNCHANGED <<mask, record_id, trace, cur, rec_id, seq, holds, effects>>

(* Mutant: an error exit misses the unlock.                                  *)
ReturnLocked(t) ==
  /\ pc[t] = "out"
  /\ holds' = IF err[t] < 0 THEN holds ELSE [holds EXCEPT ![t] = {}]
  /\ effects' = IF seq[t] = 0 THEN effects
                ELSE [effects EXCEPT ![seq[t]] =
                        [call |-> cur[t], returned |-> TRUE, ret |-> err[t]]]
  /\ seq'    = [seq EXCEPT ![t] = 0]
  /\ cur'    = [cur EXCEPT ![t] = NoCall]
  /\ err'    = [err EXCEPT ![t] = 0]
  /\ rec_id' = [rec_id EXCEPT ![t] = 0]
  /\ Goto(t, "idle")
  /\ UNCHANGED <<mask, record_id, trace>>

(* The out label: unlock_dir / unlock_rename, free the buffers, return err.  *)
(* The locals die; they get fixed values so that they do not tell states     *)
(* apart.                                                                    *)
Return(t) ==
  /\ pc[t] = "out"
  /\ holds' = [holds EXCEPT ![t] = {}]
  /\ effects' = IF seq[t] = 0 THEN effects
                ELSE [effects EXCEPT ![seq[t]] =
                        [call |-> cur[t], returned |-> TRUE, ret |-> err[t]]]
  /\ seq'    = [seq EXCEPT ![t] = 0]
  /\ cur'    = [cur EXCEPT ![t] = NoCall]
  /\ err'    = [err EXCEPT ![t] = 0]
  /\ rec_id' = [rec_id EXCEPT ![t] = 0]
  /\ Goto(t, "idle")
  /\ UNCHANGED <<mask, record_id, trace>>

(* A user makes a system call; MaxCalls bounds how many.                     *)
Invoke(t, c) ==
  /\ pc[t] = "idle"
  /\ Len(effects) + Cardinality({u \in Threads : pc[u] \in {"called", "locking"}})
       < MaxCalls
  /\ cur' = [cur EXCEPT ![t] = c]
  /\ Goto(t, "called")
  /\ UNCHANGED <<mask, record_id, trace, err, rec_id, seq, holds, effects>>

(* The ALL, NONE and HEX ioctls store their argument, whatever it is.        *)
trfs_unlocked_ioctl(m) ==
  /\ mask' = m
  /\ UNCHANGED <<record_id, trace, pc, cur, err, rec_id, seq, holds, effects>>

-----------------------------------------------------------------------------
(* trfs_read_super: a truncated trace file, record_id 0, BITMAP_MAX.         *)
Init ==
  /\ mask = Ops
  /\ record_id = 0
  /\ trace = <<>>
  /\ pc = [t \in Threads |-> "idle"]
  /\ cur = [t \in Threads |-> NoCall]
  /\ err = [t \in Threads |-> 0]
  /\ rec_id = [t \in Threads |-> 0]
  /\ seq = [t \in Threads |-> 0]
  /\ holds = [t \in Threads |-> {}]
  /\ effects = <<>>

Handler(t) ==
  \/ trfs_open(t)    \/ trfs_read(t)    \/ trfs_write(t) \/ trfs_file_release(t)
  \/ trfs_create(t)  \/ trfs_link(t)    \/ trfs_unlink(t)
  \/ trfs_symlink(t) \/ trfs_mkdir(t)   \/ trfs_rmdir(t)
  \/ trfs_mknod(t)   \/ trfs_rename(t)

Tracing(t) ==
  \/ ReadMask(t)    \/ ReadRecordId(t) \/ FilpOpen(t)
  \/ WriteHeader(t) \/ WritePath1(t)   \/ WritePath2(t) \/ WriteContent(t)
  \/ Bump(t)

Step(t) == LockRename(t) \/ Handler(t) \/ Tracing(t) \/ Interpose(t) \/ Return(t)

Next ==
  \/ \E t \in Threads : Step(t) \/ (\E c \in Calls : Invoke(t, c))
  \/ \E m \in Masks : trfs_unlocked_ioctl(m)

(* The scheduler keeps running every thread that is not blocked on a lock;   *)
(* no user has to make another call.                                         *)
Fairness == \A t \in Threads : WF_vars(Step(t))

Spec == Init /\ [][Next]_vars
FairSpec == Spec /\ Fairness
-----------------------------------------------------------------------------
(***************************************************************************)
(* Properties.                                                             *)
(***************************************************************************)
Headers == {k \in DOMAIN trace : IsHeader(trace[k])}

PartsOf(n) == {trace[k].part : k \in {j \in DOMAIN trace : trace[j].call = n}}

(* The parts a complete record of effect n has; a failed or empty write has  *)
(* no content.                                                               *)
RecordParts(n) ==
  {"header", "path1"}
    \cup (IF effects[n].call.op \in TwoPathOps THEN {"path2"} ELSE {})
    \cup (IF effects[n].call.op = "write" /\ effects[n].ret > 0
          THEN {"content"} ELSE {})

Rank == [header |-> 0, path1 |-> 1, path2 |-> 2, content |-> 3]

Effect == [call : Call, returned : BOOLEAN, ret : Results]

(* Type invariant of the variables above.                                    *)
TypeOK ==
  /\ mask \in SUBSET Ops
  /\ record_id \in Nat
  /\ trace \in Seq(Header \cup PathPiece \cup DataPiece)
  /\ pc \in [Threads -> PCs]
  /\ cur \in [Threads -> Calls]
  /\ err \in [Threads -> Results]
  /\ rec_id \in [Threads -> Nat]
  /\ seq \in [Threads -> Nat]
  /\ holds \in [Threads -> SUBSET Locks]
  /\ effects \in Seq(Effect)

(* No id is skipped: although record_id is read and stored back without a    *)
(* lock (and so can even move backwards), every id below it has been written *)
(* in some header, unless writes to the trace file fail.                     *)
IdsCovered ==
  "enospc" \notin Faults =>
    \A i \in 0 .. (record_id - 1) : \E k \in Headers : trace[k].id = i

(* The pieces of one call reach the file in the order struct, path 1, path 2 *)
(* or content, each at most once, however the threads interleave.            *)
PiecesInOrder ==
  \A j, k \in DOMAIN trace :
    (j < k /\ trace[j].call = trace[k].call
       /\ trace[j].part # "cut" /\ trace[k].part # "cut")
      => Rank[trace[j].part] < Rank[trace[k].part]

(* A call that has returned left a complete record or nothing at all, even   *)
(* if the mask was changed by an ioctl while the handler was writing.        *)
AllOrNothing ==
  "enospc" \notin Faults =>
    \A n \in DOMAIN effects :
      effects[n].returned => PartsOf(n) \in {{}, RecordParts(n)}

(* Calls that take a common lock of the lower file system have their records *)
(* in the trace in the order in which the lower operations took effect, and  *)
(* unmixed: the handlers trace before they unlock, so a replay sees create,  *)
(* rename, unlink, ... of one directory in the order they happened.          *)
SameDirInEffectOrder ==
  \A j, k \in DOMAIN trace :
    (j < k /\ LocksOf(effects[trace[j].call].call)
                \cap LocksOf(effects[trace[k].call].call) # {})
      => trace[j].call <= trace[k].call

(* The err in a header is what the system call returned, with one exception: *)
(* create and mkdir interpose after tracing, and when that fails a call      *)
(* recorded as successful has returned an error.  A call recorded as failed  *)
(* has failed.                                                               *)
RecordedErrReturned ==
  \A k \in Headers :
    LET e == effects[trace[k].call]
    IN  e.returned =>
          \/ e.ret = trace[k].err
          \/ /\ e.call.op \in {"create", "mkdir"} /\ "interpose" \in Faults
             /\ trace[k].err = 0 /\ e.ret = Fail

(* No lower lock stays taken by a thread that has left its handler, whatever *)
(* exit it took, and no two threads hold the same lock.                      *)
LocksInHandlers ==
  \A t, u \in Threads :
    /\ pc[t] \in {"idle", "called"} => holds[t] = {}
    /\ t # u => holds[t] \cap holds[u] = {}

(* t is in a call that locks the directory of the trace file, where FilpOpen *)
(* has it wait for itself.                                                   *)
LocksTfileDir(t) == pc[t] # "idle" /\ TfileDir \in LocksOf(cur[t])

(* Every system call returns (under Fairness, and if nothing makes the       *)
(* kernel oops), although a handler waits for the trace file's directory,    *)
(* and rename for a second and a third lock, with other locks held: calls    *)
(* can hang only if, for ever, one hangs that locks the directory of the     *)
(* trace file itself.                                                        *)
EveryCallReturns ==
  \/ \A t \in Threads : (pc[t] # "idle") ~> (pc[t] = "idle")
  \/ \E t \in Threads : <>[]LocksTfileDir(t)

-----------------------------------------------------------------------------
(***************************************************************************)
(* What the documentation says of the trace, and the code does not ensure. *)
(***************************************************************************)
(* "record_id is the unique record id assigned to each record" (README).     *)
UniqueIds == \A j, k \in Headers : trace[j].id = trace[k].id => j = k

(* What a header announces: the tests treplay makes to find the next one.    *)
Body(h) ==
  <<"path1">> \o (IF h.path2 THEN <<"path2">> ELSE <<>>)
              \o (IF h.write_len # 0 THEN <<"content">> ELSE <<>>)

(* "the values of path_len1, path_len2 and write_len will help us to jump to *)
(* next record" (README): the bytes between two structs are those the first  *)
(* one announces.                                                            *)
WellFramed ==
  /\ trace # <<>> => IsHeader(trace[1])
  /\ \A k \in Headers :
       LET body == Body(trace[k])
           next == k + Len(body) + 1
       IN  /\ \A i \in DOMAIN body :
                k + i <= Len(trace) =>
                  trace[k + i].part = body[i] /\ trace[k + i].call = trace[k].call
           /\ next <= Len(trace) => IsHeader(trace[next])

(* "the absolute path of the file1, file2 ... is also written" (README).     *)
PathsRecorded ==
  \A k \in DOMAIN trace :
    trace[k].part = "path1" =>
      trace[k].text = Whole(effects[trace[k].call].call.p1)
=============================================================================
