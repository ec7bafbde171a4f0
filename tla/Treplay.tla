------------------------------ MODULE Treplay ------------------------------
(***************************************************************************)
(* treplay (hw2/treplay.c): reads a trace file record by record, prints    *)
(* each record and, unless told not to, repeats its call below             *)
(* /usr/src/replay.  One process, started on a finished trace.             *)
(*                                                                         *)
(* Abstractions.  A record is one value: that records are framed as they   *)
(* announce is what WellFramed of TrfsTrace is about.  Contents are single *)
(* units, so a write returns 1.  An errno is -2, EPERM (which the return   *)
(* value -1 of a system call wrapper happens to equal) is -1.  Modes are   *)
(* left out.                                                               *)
(***************************************************************************)
EXTENDS FileTree, FiniteSets

CONSTANTS
  Contents,    \* what is written
  NoContent,   \* the null pointer content, and p2 of a record without one
  Junk,        \* a path no user named
  Garbled,     \* content other than the recorded one
  Misfit,      \* paths and contents whose length is such that the malloc'ed
               \* block they are copied to has no zero byte after them
  Argvs,       \* the command lines: records [argc, opts, bad, file],
               \* file: the trace file is there
  MaxFds       \* size of the descriptor table

ASSUME ReplayAssumption ==
  /\ Junk \in Paths
  /\ NoContent \notin Contents \cup Paths /\ Garbled \notin Contents
  /\ Misfit \subseteq Contents \cup Paths
  /\ MaxFds \in Nat \ {0}

VARIABLES
  trace,      \* the records of the trace file
  rtree,      \* what is below /usr/src/replay
  fdtab,      \* treplay's descriptors after the trace file's, Closed or open
  fd,         \* the global fd, 0 for a number that is not in the table
  pc,         \* "record" while users still run, then where treplay is
  argv,       \* the command line
  replay,     \* the variables of that name in main
  abort,
  k,          \* the record at prev_rec_size
  path1,      \* what pathbuf1 is read back as
  path2,
  content,    \* pathbuf2 and content survive from earlier records
  deviated    \* history: records whose replay returned another value

rvars == <<rtree, fdtab, fd, pc, argv, replay, abort, k, path1, path2, content,
           deviated>>

Closed == [ino |-> 0, pos |-> 0]
NoArgv == CHOOSE a \in Argvs : TRUE   \* before treplay is started
Descriptor(n) == n + 3         \* 0, 1, 2 and the trace file come first
Ended == {"exit", "aborted", "crash"}

(* A block without a zero byte after it is read on into what follows it.     *)
ReadBack(x, other) == IF x \in Misfit THEN {x, other} ELSE {x}

-----------------------------------------------------------------------------
(* The usage errors free a tracer that was never set.                        *)
UsageError(a) ==
  \/ a.argc < 2 \/ a.bad
  \/ Cardinality(a.opts) > 1
  \/ a.argc = 2 /\ a.opts # {}

(* Mutant: any option replays.                                               *)
main_options_any ==
  /\ pc = "start"
  /\ \E n, s \in BOOLEAN :
       /\ "n" \in argv.opts => n
       /\ "s" \in argv.opts => s
       /\ replay' = (argv.argc = 3 => n \/ s)
       /\ abort'  = (argv.argc = 3 /\ ~n /\ s)
  /\ pc' = "trace"
  /\ UNCHANGED <<trace, rtree, fdtab, fd, argv, k, path1, path2, content, deviated>>

(* getopt, then the choice of the mode.  nVal and sVal are not initialised;  *)
(* with more than one argument besides the trace file the options are        *)
(* ignored.                                                                  *)
main_options ==
  /\ pc = "start"
  /\ \/ /\ UsageError(argv)
        /\ pc' \in {"exit", "crash"}
        /\ UNCHANGED <<replay, abort>>
     \/ /\ ~UsageError(argv)
        /\ \E nVal, sVal \in BOOLEAN :
             /\ "n" \in argv.opts => nVal
             /\ "s" \in argv.opts => sVal
             /\ replay' = (argv.argc = 3 => ~nVal /\ sVal)
             /\ abort'  = (argv.argc = 3 /\ ~nVal /\ sVal)
        /\ pc' = "trace"
  /\ UNCHANGED <<trace, rtree, fdtab, fd, argv, k, path1, path2, content, deviated>>

(* open and stat of the trace file; the size is tested, their results are    *)
(* not (a file that is not there leaves the size undefined).                 *)
OpenTrace ==
  /\ pc = "trace"
  /\ pc' \in IF argv.file THEN {IF trace = <<>> THEN "exit" ELSE "read"}
             ELSE {"exit", "crash"}
  /\ UNCHANGED <<trace, rtree, fdtab, fd, argv, replay, abort, k, path1, path2,
                 content, deviated>>

(* content is replaced only by a record with a write_len.                    *)
NextContent(r) == IF r.len # 0 THEN r.content ELSE content

(* Copy the next record.  A negative write_len makes malloc fail and memcpy  *)
(* write to the null pointer.  The full paths are built in blocks that are   *)
(* one byte short, which may overwrite the heap's own fields.                *)
ReadRecord ==
  /\ pc = "read" /\ k <= Len(trace)
  /\ LET r == trace[k] IN
       \/ /\ r.len < 0 \/ {r.p1, r.p2} \cap Misfit # {}
          /\ pc' = "crash"
          /\ UNCHANGED <<path1, path2, content>>
       \/ /\ r.len >= 0
          /\ path1' \in ReadBack(r.p1, Junk)
          /\ path2' \in IF r.p2 = NoContent THEN {path2} ELSE ReadBack(r.p2, Junk)
          /\ content' \in ReadBack(NextContent(r), Garbled)
          /\ pc' = "got"
  /\ UNCHANGED <<trace, rtree, fdtab, fd, argv, replay, abort, k, deviated>>

EndOfTrace ==
  /\ pc = "read" /\ k > Len(trace)
  /\ pc' = "exit"
  /\ UNCHANGED <<trace, rtree, fdtab, fd, argv, replay, abort, k, path1, path2,
                 content, deviated>>

(* Mutant: prev_rec_size is only advanced after a replay.                    *)
print_record_again ==
  /\ pc = "got" /\ ~replay
  /\ pc' = "read"
  /\ UNCHANGED <<trace, rtree, fdtab, fd, argv, replay, abort, k, path1, path2,
                 content, deviated>>

(* treplay -n.                                                               *)
print_record ==
  /\ pc = "got" /\ ~replay
  /\ k' = k + 1
  /\ pc' = "read"
  /\ UNCHANGED <<trace, rtree, fdtab, fd, argv, replay, abort, path1, path2,
                 content, deviated>>

-----------------------------------------------------------------------------
(***************************************************************************)
(* replay_record, one action per case.                                     *)
(***************************************************************************)
Replaying(op) == pc = "got" /\ replay /\ trace[k].op = op

(* Mutants: the result is ignored; a record is skipped.                      *)
DoneSkips(errval, res) ==
  /\ deviated' = IF errval = trace[k].err THEN deviated ELSE deviated \cup {k}
  /\ k' = k + 2
  /\ pc' = IF abort /\ ~res THEN "aborted" ELSE "read"
  /\ UNCHANGED <<trace, argv, replay, abort, path1, path2, content>>

DoneAlways(errval, res) ==
  /\ deviated' = IF errval = trace[k].err THEN deviated ELSE deviated \cup {k}
  /\ k' = k + 1
  /\ pc' = "read"
  /\ UNCHANGED <<trace, argv, replay, abort, path1, path2, content>>

(* replay_record has returned res, the call errval.                          *)
Done(errval, res) ==
  /\ deviated' = IF errval = trace[k].err THEN deviated ELSE deviated \cup {k}
  /\ k' = k + 1
  /\ pc' = IF abort /\ ~res THEN "aborted" ELSE "read"
  /\ UNCHANGED <<trace, argv, replay, abort, path1, path2, content>>

Compare(errval) == Done(errval, trace[k].err = errval)

Free == CHOOSE n \in 1 .. MaxFds :
          fdtab[n] = Closed /\ \A m \in 1 .. (n - 1) : fdtab[m] # Closed

HasFd == fd # 0 /\ fdtab[fd] # Closed

(* With a full table open(2) fails before it looks at the path.              *)
HasFree == \E n \in 1 .. MaxFds : fdtab[n] = Closed

NewFd(fs, p) == [fdtab EXCEPT ![Free] = [ino |-> fs.name[p], pos |-> 0]]

(* Mutant: fd is not set.                                                    *)
ReplayOpenNoFd ==
  /\ Replaying("open")
  /\ IF HasFree /\ CanOpen(rtree, path1, trace[k])
     THEN /\ rtree' = Opened(rtree, path1, trace[k])
          /\ fdtab' = NewFd(rtree', path1)
          /\ Done(0, FALSE)
     ELSE UNCHANGED <<rtree, fdtab>> /\ Done(-1, FALSE)
  /\ UNCHANGED fd

(* The test for success asks for errval > 0 after errval has been set to 0.  *)
ReplayOpen ==
  /\ Replaying("open")
  /\ IF HasFree /\ CanOpen(rtree, path1, trace[k])
     THEN /\ rtree' = Opened(rtree, path1, trace[k])
          /\ fdtab' = NewFd(rtree', path1)
          /\ fd' = Free
          /\ Done(0, FALSE)
     ELSE UNCHANGED <<rtree, fdtab, fd>> /\ Done(-1, FALSE)

(* read of bytes_read = 0 bytes: the position stays.                         *)
ReplayRead ==
  /\ Replaying("read")
  /\ Compare(IF HasFd THEN 0 ELSE -1)
  /\ UNCHANGED <<rtree, fdtab, fd>>

(* strlen(content) bytes of whatever content holds.                          *)
ReplayWrite ==
  /\ Replaying("write")
  /\ \/ /\ content = NoContent
        /\ pc' = "crash"
        /\ UNCHANGED <<trace, rtree, fdtab, fd, argv, replay, abort, k, path1,
                       path2, content, deviated>>
     \/ /\ content # NoContent /\ HasFd
        /\ rtree' = Written(rtree, fdtab[fd].ino, fdtab[fd].pos, content)
        /\ fdtab' = [fdtab EXCEPT ![fd].pos = @ + 1]
        /\ Compare(IF content = Garbled THEN 2 ELSE 1)
        /\ UNCHANGED fd
     \/ /\ content # NoContent /\ ~HasFd
        /\ Compare(-1)
        /\ UNCHANGED <<rtree, fdtab, fd>>

(* fd keeps the number that was closed.                                      *)
ReplayRelease ==
  /\ Replaying("release")
  /\ IF HasFd
     THEN fdtab' = [fdtab EXCEPT ![fd] = Closed] /\ Compare(0)
     ELSE UNCHANGED fdtab /\ Compare(-1)
  /\ UNCHANGED <<rtree, fd>>

(* open with the directory's i_opflags, IOP_LOOKUP: the value of O_RDWR, and *)
(* no O_CREAT.  The descriptor stays open and is not remembered.             *)
ReplayCreate ==
  /\ Replaying("create")
  /\ IF HasFree /\ Is(rtree, path1, "file")
     THEN /\ fdtab' = NewFd(rtree, path1)
          /\ Compare(Descriptor(Free))
     ELSE UNCHANGED fdtab /\ Compare(-1)
  /\ UNCHANGED <<rtree, fd>>

(* The calls on names: enabled or not, with the tree they leave.             *)
OnNames(op, can, tree) ==
  /\ Replaying(op)
  /\ IF can THEN rtree' = tree /\ Compare(0) ELSE UNCHANGED rtree /\ Compare(-1)
  /\ UNCHANGED <<fdtab, fd>>

(* Mutant: unlink and rmdir swapped.                                         *)
ReplayUnlinkAsRmdir ==
  OnNames("unlink", CanRmdir(rtree, path1), Remove(rtree, path1))

ReplayUnlink ==
  OnNames("unlink", CanUnlink(rtree, path1), Remove(rtree, path1))

ReplayRmdir == OnNames("rmdir", CanRmdir(rtree, path1), Remove(rtree, path1))
ReplayMkdir == OnNames("mkdir", CanAdd(rtree, path1), Add(rtree, path1, "dir"))
ReplayMknod == OnNames("mknod", CanAdd(rtree, path1), Add(rtree, path1, "node"))

ReplayLink ==
  OnNames("link", CanLink(rtree, path1, path2), Link(rtree, path1, path2))

ReplayRename ==
  OnNames("rename", CanRename(rtree, path1, path2), Rename(rtree, path1, path2))

(* symlink(fullpath1, path2): makes path2, without /usr/src/replay, a link   *)
(* to fullpath1.  path2 is a name outside the replay directory (relative to  *)
(* where treplay was started, or absolute), where the call works or not.     *)
ReplaySymlink ==
  /\ Replaying("symlink")
  /\ \E errval \in {0, -1} : Compare(errval)
  /\ UNCHANGED <<rtree, fdtab, fd>>

replay_record ==
  \/ ReplayOpen   \/ ReplayRead  \/ ReplayWrite \/ ReplayRelease
  \/ ReplayCreate \/ ReplayLink  \/ ReplayUnlink \/ ReplaySymlink
  \/ ReplayMkdir  \/ ReplayRmdir \/ ReplayMknod \/ ReplayRename

TreplayInit ==
  /\ rtree = StartTree
  /\ fdtab = [n \in 1 .. MaxFds |-> Closed]
  /\ fd = 0
  /\ argv = NoArgv
  /\ replay = FALSE /\ abort = FALSE
  /\ k = 1
  /\ path1 = NoContent /\ path2 = NoContent /\ content = NoContent
  /\ deviated = {}

TreplayNext ==
  \/ main_options \/ OpenTrace \/ ReadRecord \/ EndOfTrace
  \/ print_record \/ replay_record
=============================================================================
