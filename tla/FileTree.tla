------------------------------ MODULE FileTree ------------------------------
(***************************************************************************)
(* A small file system as the system calls see it: names, the objects they *)
(* refer to and the objects' contents.  It stands for the lower file       *)
(* system below trfs and for the directory in which treplay replays, both  *)
(* of which the programs only use through system calls.                    *)
(***************************************************************************)
EXTENDS Integers, Sequences

CONSTANTS
  Paths,       \* the path names
  Top,         \* the directory everything is in
  ParentOf,    \* ParentOf[p]: the directory of p, a path or Top
  Already      \* the files that are there from the start, a sequence

ASSUME TreeAssumption ==
  /\ Top \notin Paths /\ ParentOf \in [Paths -> Paths \cup {Top}]
  /\ Already \in Seq(Paths)

Hole  == "zero"                \* what a write past the end leaves in between
Kinds == {"file", "dir", "node", "symlink"}

(* name[p] is the number of the object p refers to, 0 if there is none.      *)
StartTree ==
  [name |-> [p \in Paths |-> IF \E i \in DOMAIN Already : Already[i] = p
                             THEN CHOOSE i \in DOMAIN Already : Already[i] = p
                             ELSE 0],
   node |-> [i \in DOMAIN Already |-> [kind |-> "file", data |-> <<>>]]]

Exists(fs, p) == fs.name[p] # 0
Object(fs, p) == fs.node[fs.name[p]]
Is(fs, p, k)  == Exists(fs, p) /\ Object(fs, p).kind = k
IsEmpty(fs, p) == \A q \in Paths : ParentOf[q] = p => ~Exists(fs, q)

CanAdd(fs, p) ==
  ~Exists(fs, p) /\ (ParentOf[p] # Top => Is(fs, ParentOf[p], "dir"))

Add(fs, p, k) ==
  [name |-> [fs.name EXCEPT ![p] = Len(fs.node) + 1],
   node |-> Append(fs.node, [kind |-> k, data |-> <<>>])]

CanUnlink(fs, p) == Exists(fs, p) /\ ~Is(fs, p, "dir")
CanRmdir(fs, p)  == Is(fs, p, "dir") /\ IsEmpty(fs, p)
Remove(fs, p)    == [fs EXCEPT !.name[p] = 0]

CanLink(fs, p, q) == CanUnlink(fs, p) /\ CanAdd(fs, q)
Link(fs, p, q)    == [fs EXCEPT !.name[q] = fs.name[p]]

(* Renaming a directory that is not empty is left out; two names of one      *)
(* object stay as they are.                                                  *)
CanRename(fs, p, q) ==
  /\ Exists(fs, p)
  /\ \/ fs.name[p] = fs.name[q]
     \/ Is(fs, p, "dir") /\ IsEmpty(fs, p) /\ (CanAdd(fs, q) \/ CanRmdir(fs, q))
     \/ CanUnlink(fs, p) /\ (CanAdd(fs, q) \/ CanUnlink(fs, q))

Rename(fs, p, q) ==
  IF fs.name[p] = fs.name[q] THEN fs
  ELSE [fs EXCEPT !.name = [@ EXCEPT ![q] = fs.name[p], ![p] = 0]]

(* open(2) of a regular file.                                                *)
CanOpen(fs, p, fl) == Is(fs, p, "file") \/ (fl.creat /\ CanAdd(fs, p))

Opened(fs, p, fl) ==
  IF ~Exists(fs, p) THEN Add(fs, p, "file")
  ELSE IF fl.trunc  THEN [fs EXCEPT !.node[fs.name[p]].data = <<>>]
  ELSE fs

(* One unit c written at offset pos of object i.                             *)
Written(fs, i, pos, c) ==
  LET old == fs.node[i].data
      len == IF Len(old) > pos THEN Len(old) ELSE pos + 1
  IN  [fs EXCEPT !.node[i].data =
         [k \in 1 .. len |-> IF k = pos + 1 THEN c
                             ELSE IF k <= Len(old) THEN old[k] ELSE Hole]]

(* The two hold the same objects under the same names.                       *)
SameTree(f, g) ==
  \A p \in Paths :
    /\ Exists(f, p) <=> Exists(g, p)
    /\ Exists(f, p) => Object(f, p) = Object(g, p)
=============================================================================
