---------------------------- MODULE MCTrfsTrace ----------------------------
(***************************************************************************)
(* Values of the constants of TrfsTrace for model checking.  Directory d   *)
(* holds a, b and the longer name abc, directory e holds c, directory f    *)
(* holds g and, where a run says so, the trace file; in the other runs it  *)
(* is in /tmp, outside the lower tree.                                     *)
(***************************************************************************)
EXTENDS TrfsTraceLog

MCDirs   == {"d", "e", "f"}
MCPaths  == {"a", "b", "abc", "c", "g", "long"}
MCDirOf  == [a |-> "d", b |-> "d", abc |-> "d", c |-> "e", g |-> "f", long |-> "d"]
MCLen    == [a |-> 2, b |-> 2, abc |-> 4, c |-> 2, g |-> 2, long |-> 256]

One(op, p)    == [op |-> op, p1 |-> p, p2 |-> NoPath]
Two(op, p, q) == [op |-> op, p1 |-> p, p2 |-> q]

(* One call of every handler.                                                *)
AllCalls ==
  {One(op, "a") : op \in FileOps \cup {"create", "unlink", "mkdir", "rmdir", "mknod"}}
    \cup {Two("link", "a", "b"), Two("symlink", "a", "c"), Two("rename", "abc", "c")}

(* Lock-free and locked calls that meet: a close, a call in directory e,     *)
(* renames from d to e and back, and a call in the directory of the trace    *)
(* file.                                                                     *)
MixedCalls ==
  {One("release", "a"), One("mkdir", "c"), One("rmdir", "g"),
   Two("rename", "abc", "c"), Two("rename", "c", "abc")}

(* Calls that all lock directory d.                                          *)
OneDirCalls ==
  {One("create", "a"), One("unlink", "b"), Two("link", "c", "a"),
   Two("rename", "abc", "c"), Two("symlink", "b", "a")}

(* Calls that oops on a path of 256 bytes, holding a lock or not, and calls  *)
(* on short paths that then wait for that lock or not.                       *)
LongCalls ==
  {One("read", "long"), Two("link", "a", "long"), One("mkdir", "a"),
   Two("symlink", "a", "c")}

ReadCalls  == {One("read", "a")}
LinkCalls  == {Two("link", "a", "b"), Two("link", "abc", "b")}

AllMasks   == {Ops, {}}
NoMasks    == {}
=============================================================================
