---------------------------- MODULE MCTrfsMount ----------------------------
(***************************************************************************)
(* Values for TrfsMount: file a in the root and file b in directory s are  *)
(* hard links of one lower inode x, file e does not exist, m is a mount    *)
(* point of another file system.                                           *)
(***************************************************************************)
EXTENDS TrfsMount

MCNames    == {"root", "s", "a", "b", "e", "m"}
MCParentOf == [n \in MCNames \ {"root"} |-> IF n = "b" THEN "s" ELSE "root"]
MCLink     == [root |-> "r", s |-> "d", a |-> "x", b |-> "x", e |-> "null", m |-> "f"]
MCLowers   == {"r", "d", "x", "y", "f"}
=============================================================================
