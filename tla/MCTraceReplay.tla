--------------------------- MODULE MCTraceReplay ---------------------------
(***************************************************************************)
(* Values for TraceReplay: a directory d with a file a in it, files b and  *)
(* c, a content x; the path m and the content y fill the blocks they are   *)
(* copied to.                                                              *)
(***************************************************************************)
EXTENDS TraceReplay

MCPaths     == {"d", "d/a", "b", "c", "m", "junk"}
MCParentOf  == [p \in MCPaths |-> IF p = "d/a" THEN "d" ELSE "/"]
MCAlready   == <<"c">>
MCPathLen   == [p \in MCPaths |-> IF p = "d/a" THEN 3 ELSE 1]

Do(op, p) == [op |-> op, p |-> p, q |-> p, creat |-> FALSE, trunc |-> FALSE,
              h |-> 1, c |-> "x"]
On(op, h, c) == [Do(op, "b") EXCEPT !.h = h, !.c = c]
Two(op, p, q) == [Do(op, p) EXCEPT !.q = q]
Creat(p, h) == [Do("open", p) EXCEPT !.creat = TRUE, !.h = h]
Trunc(p, h) == [Do("open", p) EXCEPT !.trunc = TRUE, !.h = h]

(* One file, opened again and again.                                         *)
Sessions == [calls |-> {Creat("b", 1), Trunc("b", 1), On("write", 1, "x"),
                        On("read", 1, "x"), Do("close", "b"), Do("unlink", "b")},
             max |-> 6, faults |-> {}]

(* Two files open at once.                                                   *)
Overlap == [calls |-> {Creat("b", 1), Creat("c", 2), On("write", 1, "x"),
                       On("write", 2, "x"), On("close", 1, "x"), On("close", 2, "x")},
            max |-> 5, faults |-> {}]

Names == [calls |-> {Do("mkdir", "d"), Do("rmdir", "d"), Creat("d/a", 1),
                     Do("creat", "b"), Do("mknod", "b"), Do("unlink", "b"),
                     Do("unlink", "d/a"), Two("link", "d/a", "b"),
                     Two("rename", "d/a", "b"), Two("rename", "b", "m"),
                     Two("link", "b", "m"), Two("symlink", "b", "d")},
          max |-> 4, faults |-> {}]

Faulty == [calls |-> {Creat("b", 1), Trunc("b", 1), Do("creat", "b"), On("write", 1, "x"),
                      On("write", 1, "y"), On("read", 1, "x"), On("untraced", 1, "x"),
                      Do("close", "b")},
           max |-> 4, faults |-> {"lower", "buffer"}]

(* Names of which the trace does not know, and known calls on them.          *)
Nameless == [calls |-> {Do("mknod", "b"), Two("link", "c", "b"), Two("symlink", "b", "d"),
                        Do("unlink", "b"), Do("mkdir", "b"), Trunc("c", 1), Do("close", "c")},
             max |-> 4, faults |-> {"lower"}]

MCMenus == {Sessions, Overlap, Names, Faulty, Nameless}
StrictMenus == {Overlap}

Argv(argc, opts, bad) == [argc |-> argc, opts |-> opts, bad |-> bad, file |-> TRUE]

MCArgvs ==
  {Argv(2, {}, FALSE), Argv(3, {"n"}, FALSE), Argv(3, {"s"}, FALSE),
   Argv(3, {}, FALSE), Argv(4, {"n"}, FALSE), Argv(3, {}, TRUE),
   [Argv(2, {}, FALSE) EXCEPT !.file = FALSE]}
StrictArgvs == {Argv(3, {"s"}, FALSE)}
=============================================================================
