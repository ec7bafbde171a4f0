---------------------------- MODULE TraceReplay ----------------------------
(***************************************************************************)
(* The purpose of trfs end to end: users work on a mounted trfs, every     *)
(* call is traced, and treplay replays the trace in a directory that holds *)
(* the same files as the lower one did.                                    *)
(* The calls are made one at a time here (TrfsTrace has the interleavings  *)
(* of the tracing code); what matters is which calls leave which record,   *)
(* and what treplay makes of it.                                           *)
(***************************************************************************)
EXTENDS Treplay

CONSTANTS
  Handles,     \* open files of the users
  PathLen,     \* PathLen[p]: strlen of p
  Menus        \* what the users do: records [calls, max, faults], at most max
               \* calls of the set calls, see Call, with failures of faults:
               \* "lower": lower calls fail; "buffer": threads of a program
               \* change a buffer that is being written

Ops == {"open", "creat", "read", "write", "untraced", "close", "unlink", "rmdir",
        "mkdir", "mknod", "link", "rename", "symlink"}

Call == [op : Ops, p : Paths, q : Paths, creat : BOOLEAN, trunc : BOOLEAN,
         h : Handles, c : Contents]

ASSUME RecordAssumption ==
  /\ PathLen \in [Paths -> Nat]
  /\ Menus \subseteq [calls : SUBSET Call, max : Nat,
                      faults : SUBSET {"lower", "buffer"}]

VARIABLES
  menu,     \* what the users of this behaviour do
  ltree,    \* the lower file system
  files,    \* files[h]: object and position, Closed if not open
  calls,    \* calls made so far
  hidden    \* history: TRUE once a call changed files without a record that
            \* says so

uvars == <<menu, ltree, files, calls, hidden>>
vars == <<trace, rvars, uvars>>

Fail == -2          \* an errno

(* A record of the trace.                                                    *)
Rec(op, err, p, q) ==
  [op |-> op, err |-> err, p1 |-> p, p2 |-> q, creat |-> FALSE, trunc |-> FALSE,
   len |-> 0, content |-> NoContent]

(* open's record has the flags of the file, O_CREAT and O_TRUNC included.    *)
OpenRec(err, u) ==
  [Rec("open", err, u.p, NoContent) EXCEPT !.creat = u.creat, !.trunc = u.trunc]

(* write's record has its return value as write_len and that many bytes of   *)
(* the buffer.                                                               *)
WriteRec(err, p, c) ==
  [Rec("write", err, p, NoContent) EXCEPT
     !.len = err, !.content = IF err > 0 THEN c ELSE NoContent]

(* link and rename build both paths in one buffer: the first is overwritten  *)
(* by the second, from the right.                                            *)
Clobbered(p, q) == IF PathLen[p] = PathLen[q] THEN q ELSE Junk

-----------------------------------------------------------------------------
(* A user's call that leaves the records recs.                               *)
Calling(recs) ==
  /\ pc = "record" /\ calls < menu.max
  /\ calls' = calls + 1
  /\ trace' = trace \o recs
  /\ UNCHANGED <<rvars, menu>>

Failing == "lower" \in menu.faults

One(op, err, p) == Rec(op, err, p, NoContent)

(* open(2), O_CREAT or not.  A file that is not there goes through           *)
(* trfs_create first; both traced calls can fail below, trfs_open can fail   *)
(* before it comes to the trace, and after it the VFS can give the file up   *)
(* again, for instance because the lower truncation fails.                   *)
UserOpen(u) ==
  /\ u.op = "open" /\ files[u.h] = Closed
  /\ CanOpen(ltree, u.p, u)
  /\ LET there == Exists(ltree, u.p)
         new   == IF there THEN <<>> ELSE <<One("create", 0, u.p)>>
     IN  \/ /\ ltree' = Opened(ltree, u.p, u)
            /\ files' = [files EXCEPT ![u.h] = [ino |-> ltree'.name[u.p], pos |-> 0]]
            /\ Calling(Append(new, OpenRec(0, u)))
            /\ UNCHANGED hidden
         \/ /\ Failing /\ ~there
            /\ Calling(<<One("create", Fail, u.p)>>)
            /\ UNCHANGED <<ltree, files, hidden>>
         \/ /\ Failing
            /\ ltree' = IF there THEN ltree ELSE Add(ltree, u.p, "file")
            /\ \/ (Calling(new) \/ Calling(Append(new, OpenRec(Fail, u))))
                  /\ UNCHANGED hidden
               \/ /\ Calling(new \o <<OpenRec(0, u), One("release", 0, u.p)>>)
                  /\ hidden' = (hidden \/ (there /\ u.trunc))
            /\ UNCHANGED files

IsOpen(h) == files[h] # Closed

UserRead(u) ==
  /\ u.op = "read" /\ IsOpen(u.h)
  /\ \/ LET f == files[u.h]
            n == IF f.pos < Len(ltree.node[f.ino].data) THEN 1 ELSE 0
        IN  /\ files' = [files EXCEPT ![u.h].pos = @ + n]
            /\ Calling(<<One("read", n, u.p)>>)
     \/ /\ Failing
        /\ Calling(<<One("read", Fail, u.p)>>)
        /\ UNCHANGED files
  /\ UNCHANGED <<ltree, hidden>>

PutData(u) ==
  /\ ltree' = Written(ltree, files[u.h].ino, files[u.h].pos, u.c)
  /\ files' = [files EXCEPT ![u.h].pos = @ + 1]

(* The content is fetched from the user's buffer a second time for the       *)
(* trace.  A write of nothing returns 0.                                     *)
UserWrite(u) ==
  /\ u.op = "write" /\ IsOpen(u.h)
  /\ \/ PutData(u) /\ Calling(<<WriteRec(1, u.p, u.c)>>) /\ UNCHANGED hidden
     \/ /\ "buffer" \in menu.faults
        /\ PutData(u)
        /\ Calling(<<WriteRec(1, u.p, Garbled)>>)
        /\ hidden' = TRUE
     \/ /\ \E err \in {0} \cup (IF Failing THEN {Fail} ELSE {}) :
             Calling(<<WriteRec(err, u.p, u.c)>>)
        /\ UNCHANGED <<ltree, files, hidden>>

(* writev(2), io_submit(2) and stores to a mapping go through                *)
(* trfs_write_iter and the lower mapping, lseek(2) through                   *)
(* generic_file_llseek, ftruncate(2) through trfs_setattr: no record.        *)
(* pwrite(2) is recorded as a write, without its offset.                     *)
UserUntraced(u) ==
  /\ u.op = "untraced" /\ IsOpen(u.h)
  /\ \/ PutData(u) /\ Calling(<<>>)
     \/ /\ files' = [files EXCEPT ![u.h].pos = 0]
        /\ UNCHANGED ltree /\ Calling(<<>>)
     \/ /\ ltree' = [ltree EXCEPT !.node[files[u.h].ino].data = <<>>]
        /\ UNCHANGED files /\ Calling(<<>>)
     \/ /\ ltree' = Written(ltree, files[u.h].ino, 0, u.c)
        /\ UNCHANGED files /\ Calling(<<WriteRec(1, u.p, u.c)>>)
  /\ hidden' = TRUE

UserClose(u) ==
  /\ u.op = "close" /\ IsOpen(u.h)
  /\ files' = [files EXCEPT ![u.h] = Closed]
  /\ Calling(<<One("release", 0, u.p)>>)
  /\ UNCHANGED <<ltree, hidden>>

(* The calls on names are traced only when they have succeeded, create       *)
(* excepted.                                                                 *)
OnName(u, op, can, tree, rec) ==
  /\ u.op = op /\ can
  /\ ltree' = tree
  /\ Calling(<<rec>>)
  /\ UNCHANGED <<files, hidden>>

(* The lower call has succeeded, but trfs_interpose fails before the         *)
(* tracing: there is no record of what is now in the lower file system.      *)
Unrecorded(u, op, can, tree) ==
  /\ u.op = op /\ can /\ Failing
  /\ ltree' = tree
  /\ Calling(<<>>)
  /\ hidden' = TRUE
  /\ UNCHANGED files

(* mknod(2) of a regular file is a create without open.  create and mkdir    *)
(* are recorded before trfs_interpose: the record says 0 also when it fails  *)
(* and the user gets an errno.                                               *)
UserNames(u) ==
  \/ OnName(u, "creat", CanAdd(ltree, u.p), Add(ltree, u.p, "file"), One("create", 0, u.p))
  \/ OnName(u, "creat", Failing /\ CanAdd(ltree, u.p), ltree, One("create", Fail, u.p))
  \/ OnName(u, "mknod", CanAdd(ltree, u.p), Add(ltree, u.p, "node"), One("mknod", 0, u.p))
  \/ Unrecorded(u, "mknod", CanAdd(ltree, u.p), Add(ltree, u.p, "node"))
  \/ OnName(u, "mkdir", CanAdd(ltree, u.p), Add(ltree, u.p, "dir"), One("mkdir", 0, u.p))
  \/ OnName(u, "unlink", CanUnlink(ltree, u.p), Remove(ltree, u.p), One("unlink", 0, u.p))
  \/ OnName(u, "rmdir", CanRmdir(ltree, u.p), Remove(ltree, u.p), One("rmdir", 0, u.p))

(* symlink's record has the new name first and the text of the link second.  *)
UserTwoNames(u) ==
  \/ OnName(u, "link", CanLink(ltree, u.p, u.q), Link(ltree, u.p, u.q),
            Rec("link", 0, Clobbered(u.p, u.q), u.q))
  \/ Unrecorded(u, "link", CanLink(ltree, u.p, u.q), Link(ltree, u.p, u.q))
  \/ OnName(u, "rename", CanRename(ltree, u.p, u.q), Rename(ltree, u.p, u.q),
            Rec("rename", 0, Clobbered(u.p, u.q), u.q))
  \/ OnName(u, "symlink", CanAdd(ltree, u.p), Add(ltree, u.p, "symlink"),
            Rec("symlink", 0, u.p, u.q))
  \/ Unrecorded(u, "symlink", CanAdd(ltree, u.p), Add(ltree, u.p, "symlink"))

(* The users are done and somebody starts treplay.                           *)
StartTreplay ==
  /\ pc = "record"
  /\ pc' = "start"
  /\ argv' \in Argvs
  /\ UNCHANGED <<trace, rtree, fdtab, fd, replay, abort, k, path1, path2,
                 content, deviated, uvars>>

Init ==
  /\ trace = <<>>
  /\ pc = "record"
  /\ menu \in Menus
  /\ ltree = StartTree
  /\ files = [h \in Handles |-> Closed]
  /\ calls = 0
  /\ hidden = FALSE
  /\ TreplayInit

UserCall == \E u \in menu.calls :
  \/ UserOpen(u) \/ UserRead(u) \/ UserWrite(u) \/ UserUntraced(u) \/ UserClose(u)
  \/ UserNames(u) \/ UserTwoNames(u)

Next == UserCall \/ StartTreplay \/ (TreplayNext /\ UNCHANGED uvars)

(* treplay is a process that is scheduled; the users need not do anything.   *)
Spec == Init /\ [][Next]_vars /\ WF_vars(TreplayNext /\ UNCHANGED uvars)
-----------------------------------------------------------------------------
(***************************************************************************)
(* Properties.                                                             *)
(***************************************************************************)
(* Type invariant: what treplay holds are records, descriptors of objects    *)
(* that exist, and no more records than there are.                           *)
TypeOK ==
  /\ \A i \in DOMAIN trace : trace[i].err \in -2 .. 1 /\ trace[i].p1 \in Paths
  /\ \A n \in 1 .. MaxFds : fdtab[n].ino \in 0 .. Len(rtree.node)
  /\ fd \in 0 .. MaxFds
  /\ k \in 1 .. (Len(trace) + 1)
  /\ deviated \subseteq 1 .. (k - 1)
  /\ \A h \in Handles : files[h].ino \in 0 .. Len(ltree.node)

(* The records since the last open, record i excluded.                       *)
Session(i) ==
  {j \in 1 .. (i - 1) : \A m \in j .. (i - 1) : trace[m].op # "open"}

IsOp(i, ops) == trace[i].op \in ops

(* A record that a replay in order does the right thing for: not one of the  *)
(* calls whose paths are wrong, and open, write, ... in the usual order, one *)
(* file at a time.  A create is only repeated by the open after it, and only *)
(* if that has O_CREAT (mknod(2) and open(2) without it do not).             *)
Faithful(i) ==
  /\ ~IsOp(i, {"link", "rename", "symlink"})
  /\ trace[i].p1 \notin Misfit /\ trace[i].content \notin Misfit
  /\ IsOp(i, {"open", "create"}) => trace[i].err = 0
  /\ IsOp(i, {"create"}) =>
       /\ i < Len(trace) /\ IsOp(i + 1, {"open"})
       /\ trace[i + 1].p1 = trace[i].p1 /\ trace[i + 1].creat
  /\ (IsOp(i, {"open"}) /\ \E j \in 1 .. (i - 1) : IsOp(j, {"open"})) =>
       \E j \in Session(i) : IsOp(j, {"release"})
  /\ IsOp(i, {"write"}) =>
       /\ trace[i].err > 0
       /\ \A j \in Session(i) : IsOp(j, {"read"}) => trace[j].err <= 0

Replayable == ~hidden /\ \A i \in DOMAIN trace : Faithful(i)

(* A full replay of a trace in which files were used one at a time leaves    *)
(* the tree the users left, although treplay has one descriptor for all      *)
(* files, never repeats a create and reads nothing.                          *)
Reproduced ==
  (pc = "exit" /\ replay /\ argv.file /\ Replayable) => SameTree(rtree, ltree)

(* And it returns what the trace says the users' calls returned, except for  *)
(* create (whose file the next open makes) and for read.                     *)
ReturnsSame ==
  (replay /\ Replayable) => \A i \in deviated : IsOp(i, {"create", "read"})

(* treplay -s replays nothing after the first record that deviates.          *)
StrictStops ==
  abort => \A i \in deviated : i = k - 1 /\ pc = "aborted"

(* treplay -n leaves the replay directory alone, whatever nVal and sVal held. *)
PrintOnly ==
  (argv.opts = {"n"} /\ argv.argc = 3) => rtree = StartTree

(* treplay comes to an end with every trace, a crash included.               *)
TreplayEnds == (pc = "start") ~> (pc \in Ended)

-----------------------------------------------------------------------------
(* "Aborts te replay if there is any deviation between the result of the     *)
(* syscall executing now compared to what the return value was originally"   *)
(* (README): a replay that is aborted has met a deviation.                   *)
AbortsOnDeviation == pc = "aborted" => (k - 1) \in deviated
=============================================================================
