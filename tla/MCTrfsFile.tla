---------------------------- MODULE MCTrfsFile -----------------------------
(***************************************************************************)
(* Values for TrfsFile: one regular file and one directory.  An int has    *)
(* two bits, directory offsets go beyond them.                             *)
(***************************************************************************)
EXTENDS TrfsFile

MCFiles == {"file", "dir"}
MCDirs  == {"dir"}
=============================================================================
