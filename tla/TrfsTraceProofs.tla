-------------------------- MODULE TrfsTraceProofs --------------------------
(***************************************************************************)
(* Proofs about TrfsTrace, for any set of threads, directories, paths and  *)
(* calls and any number of them.                                           *)
(***************************************************************************)
EXTENDS TrfsTraceLog, SequenceTheorems, TLAPS

Piece == Header \cup PathPiece \cup DataPiece

(***************************************************************************)
(* Facts about the operators.                                              *)
(***************************************************************************)
(* The locks of a call are locks of the lower file system.                   *)
LEMMA LocksOfType ==
  ASSUME NEW c \in Calls
  PROVE  LocksOf(c) \in SUBSET Locks
  BY ConstantsAssumption DEF LocksOf, Locks, Call, TwoPathOps, Ops, FileOps

(* A call that the model makes is one of Calls.                              *)
LEMMA NoCallType == NoCall \in Calls
  BY ConstantsAssumption DEF NoCall

(* The bytes that stand for path 1 in a record are a text.                   *)
LEMMA Path1TextType ==
  ASSUME NEW c \in Calls
  PROVE  Path1Text(c) \in Text
<1>1. CASE c.op \in {"link", "rename"}
  <2>1. c.p1 \in Paths /\ c.p2 \in Paths
    BY <1>1, ConstantsAssumption DEF Call, TwoPathOps
  <2>2. PathLen[c.p1] \in Nat /\ PathLen[c.p2] \in Nat
    BY <2>1, ConstantsAssumption
  <2> QED BY <1>1, <2>1, <2>2 DEF Path1Text, Overwritten, Text
<1>2. CASE c.op \notin {"link", "rename"}
  <2>1. c.p1 \in Paths /\ PathLen[c.p1] \in Nat
    BY ConstantsAssumption DEF Call
  <2> QED BY <1>2, <2>1 DEF Path1Text, Whole, Text
<1> QED BY <1>1, <1>2

(* The pieces the handlers write are pieces of the call they are about.      *)
LEMMA PieceTypes ==
  ASSUME TypeOK, NEW t \in Threads
  PROVE  /\ HeaderOf(t) \in Header
         /\ [part |-> "path1", call |-> seq[t], text |-> Path1Text(cur[t])] \in PathPiece
         /\ cur[t].op \in TwoPathOps =>
              [part |-> "path2", call |-> seq[t], text |-> Whole(cur[t].p2)] \in PathPiece
         /\ [part |-> "content", call |-> seq[t]] \in DataPiece
         /\ [part |-> "cut", call |-> seq[t]] \in DataPiece
<1>1. cur[t] \in Calls /\ cur[t].op \in Ops /\ seq[t] \in Nat /\ rec_id[t] \in Nat
        /\ err[t] \in Results
  BY ConstantsAssumption DEF TypeOK, Call
<1>2. HeaderOf(t) \in Header
  BY <1>1 DEF HeaderOf, Header, Results
<1>3. Path1Text(cur[t]) \in Text
  BY <1>1, Path1TextType
<1>4. ASSUME cur[t].op \in TwoPathOps PROVE Whole(cur[t].p2) \in Text
  <2>1. cur[t].p2 \in Paths /\ PathLen[cur[t].p2] \in Nat
    BY <1>1, <1>4, ConstantsAssumption DEF Call
  <2> QED BY <2>1 DEF Whole, Text
<1> QED BY <1>1, <1>2, <1>3, <1>4 DEF PathPiece, DataPiece

(* One vfs_write to the trace file leaves it alone or adds one piece, the    *)
(* given one or its beginning.                                               *)
LEMMA VfsWriteAppends ==
  ASSUME NEW piece, VfsWrite(piece)
  PROVE  \/ "enospc" \in Faults /\ trace' = trace
         \/ trace' = Append(trace, piece)
         \/ /\ "enospc" \in Faults
            /\ trace' = Append(trace, [part |-> "cut", call |-> piece.call])
  BY DEF VfsWrite, WithPiece, OpenFlags

(* Where a handler goes after the first path, and after the tracing block.   *)
LEMMA Labels ==
  ASSUME NEW t \in Threads
  PROVE  /\ \/ AfterPath1(t) = "path2" /\ cur[t].op \in TwoPathOps
            \/ AfterPath1(t) = "content"
            \/ AfterPath1(t) = "bump"
         /\ AfterTrace(t) \in {"interpose", "out"}
  BY DEF AfterPath1, AfterTrace

(* An unhashed dentry or a failed kzalloc in trfs_open.                      *)
OpenFails(t) ==
  /\ pc[t] = "called"
  /\ err' = [err EXCEPT ![t] = Fail]
  /\ Goto(t, "out")
  /\ UNCHANGED <<mask, record_id, trace, cur, rec_id, seq, holds, effects>>

(* Every handler begins with one lower call, except an open that fails       *)
(* before it.                                                                *)
LEMMA HandlerCases ==
  ASSUME NEW t \in Threads, Handler(t)
  PROVE  \/ OpenFails(t)
         \/ \E op \in Ops, e \in Results, label \in {"mask", "out"} :
              LowerCall(t, op, e, label)
<1> DEFINE Lower(op) ==
      \E e \in Results, label \in {"mask", "out"} : LowerCall(t, op, e, label)
<1>1. 0 \in Results /\ Fail \in Results /\ InterposeResults \subseteq Results
  BY DEF Results, Fail, InterposeResults
<1>2. CASE trfs_open(t)
  BY <1>1, <1>2 DEF trfs_open, OpenFails, Ops
<1>3. ASSUME trfs_read(t) \/ trfs_write(t) \/ trfs_file_release(t) \/ trfs_create(t)
      PROVE  \E op \in Ops : Lower(op)
  BY <1>1, <1>3 DEF trfs_read, trfs_write, trfs_file_release, trfs_create, Ops
<1>4. ASSUME trfs_link(t) \/ trfs_symlink(t) \/ trfs_mknod(t)
      PROVE  \E op \in Ops : Lower(op)
  BY <1>1, <1>4, Zenon DEF trfs_link, trfs_symlink, trfs_mknod, Ops
<1>5. ASSUME trfs_unlink(t) \/ trfs_mkdir(t) \/ trfs_rmdir(t) \/ trfs_rename(t)
      PROVE  \E op \in Ops : Lower(op)
  BY <1>1, <1>5 DEF trfs_unlink, trfs_mkdir, trfs_rmdir, trfs_rename, Ops
<1> QED BY <1>2, <1>3, <1>4, <1>5 DEF Handler

(* A piece added to the trace keeps it a sequence of pieces.                 *)
LEMMA WriteType ==
  ASSUME TypeOK, NEW t \in Threads,
         NEW piece \in Piece, piece.call = seq[t], VfsWrite(piece)
  PROVE  trace' \in Seq(Piece)
<1>1. [part |-> "cut", call |-> piece.call] \in Piece
  BY PieceTypes DEF Piece
<1>2. trace \in Seq(Piece)
  BY DEF TypeOK, Piece
<1> QED BY <1>1, <1>2, VfsWriteAppends

(* Where the handlers are and what they hold: a thread owns an entry of      *)
(* effects, its own, from its lower call to its return, and holds exactly    *)
(* the locks of its call for that time, before it some of them; only a call  *)
(* with two paths gets to write a second one.                                *)
Control ==
  /\ \A t \in Threads :
       /\ pc[t] = "path2" => cur[t].op \in TwoPathOps
       /\ pc[t] \in {"idle", "called", "locking"} => seq[t] = 0
       /\ pc[t] \notin {"idle", "called", "locking", "out"} => seq[t] # 0
       /\ seq[t] = 0 /\ pc[t] # "locking" => holds[t] = {}
       /\ pc[t] = "locking" => holds[t] \subseteq LocksOf(cur[t])
       /\ seq[t] # 0 => /\ seq[t] <= Len(effects)
                        /\ effects[seq[t]].call = cur[t]
                        /\ holds[t] = LocksOf(cur[t])
  /\ \A t, u \in Threads :
       t # u => /\ holds[t] \cap holds[u] = {}
                /\ seq[t] # 0 => seq[t] # seq[u]

(* Returning from a handler keeps the order and the calls of effects.        *)
LEMMA ReturnEffects ==
  ASSUME TypeOK, Control, NEW t \in Threads, Return(t)
  PROVE  /\ effects' \in Seq(Effect)
         /\ Len(effects') = Len(effects)
         /\ \A j \in 1 .. Len(effects) : effects'[j].call = effects[j].call
<1> DEFINE r == [call |-> cur[t], returned |-> TRUE, ret |-> err[t]]
<1>1. CASE seq[t] = 0
  BY <1>1 DEF Return, TypeOK
<1>2. CASE seq[t] # 0
  <2>1. effects' = [effects EXCEPT ![seq[t]] = r]
    BY <1>2 DEF Return
  <2>2. r \in Effect /\ r.call = cur[t]
    BY ConstantsAssumption DEF TypeOK, Effect
  <2>3. effects \in Seq(Effect) /\ seq[t] \in 1 .. Len(effects)
        /\ effects[seq[t]].call = cur[t]
    BY <1>2 DEF TypeOK, Control
  <2> HIDE DEF r
  <2>4. /\ [effects EXCEPT ![seq[t]] = r] \in Seq(Effect)
        /\ Len([effects EXCEPT ![seq[t]] = r]) = Len(effects)
        /\ \A j \in 1 .. Len(effects) : [effects EXCEPT ![seq[t]] = r][j]
                                         = IF j = seq[t] THEN r ELSE effects[j]
    BY <2>2, <2>3, ExceptSeq
  <2> QED BY <2>1, <2>2, <2>3, <2>4
<1> QED BY <1>1, <1>2

(* A step of trfs preserves the type invariant.                              *)
LEMMA TypeStep ==
  ASSUME TypeOK, Control, [Next]_vars
  PROVE  TypeOK'
<1> USE DEF TypeOK
<1>1. ASSUME NEW t \in Threads, NEW op \in Ops, NEW e \in Results,
             NEW label \in {"mask", "out"}, LowerCall(t, op, e, label)
      PROVE  TypeOK'
  <2>1. cur[t] \in Calls /\ LocksOf(cur[t]) \in SUBSET Locks /\ Calls \subseteq Call
    BY LocksOfType, ConstantsAssumption
  <2>2. [call |-> cur[t], returned |-> FALSE, ret |-> 0] \in Effect
    BY <2>1 DEF Effect, Results
  <2>3. effects' \in Seq(Effect)
    BY <1>1, <2>2 DEF LowerCall
  <2> QED BY <1>1, <2>1, <2>3 DEF LowerCall, Goto, PCs
<1>2. ASSUME NEW t \in Threads, OpenFails(t) PROVE TypeOK'
  BY <1>2 DEF OpenFails, Goto, PCs, Fail, Results
<1>3. ASSUME NEW t \in Threads, ReadMask(t) PROVE TypeOK'
  BY <1>3, Labels DEF ReadMask, Goto, PCs
<1>4. ASSUME NEW t \in Threads, ReadRecordId(t) PROVE TypeOK'
  BY <1>4 DEF ReadRecordId, Goto, PCs
<1>5. ASSUME NEW t \in Threads, FilpOpen(t) PROVE TypeOK'
  BY <1>5 DEF FilpOpen, Goto, PCs
<1>6. ASSUME NEW t \in Threads, WriteHeader(t) PROVE TypeOK'
  <2>1. HeaderOf(t) \in Piece /\ HeaderOf(t).call = seq[t]
    BY PieceTypes DEF Piece, HeaderOf
  <2>2. trace' \in Seq(Piece)
    BY <1>6, <2>1, WriteType DEF WriteHeader
  <2> QED BY <1>6, <2>2 DEF WriteHeader, Goto, PCs, Piece
<1>7. ASSUME NEW t \in Threads, WritePath1(t) PROVE TypeOK'
  <2> DEFINE p == [part |-> "path1", call |-> seq[t], text |-> Path1Text(cur[t])]
  <2>1. p \in Piece /\ p.call = seq[t]
    BY PieceTypes DEF Piece
  <2>2. trace' \in Seq(Piece)
    BY <1>7, <2>1, WriteType DEF WritePath1
  <2> QED BY <1>7, <2>2, Labels DEF WritePath1, Goto, PCs, Piece
<1>8. ASSUME NEW t \in Threads, WritePath2(t) PROVE TypeOK'
  <2> DEFINE p == [part |-> "path2", call |-> seq[t], text |-> Whole(cur[t].p2)]
  <2>1. p \in Piece /\ p.call = seq[t]
    BY <1>8, PieceTypes DEF Piece, Control, WritePath2
  <2>2. trace' \in Seq(Piece)
    BY <1>8, <2>1, WriteType DEF WritePath2
  <2> QED BY <1>8, <2>2 DEF WritePath2, Goto, PCs, Piece
<1>9. ASSUME NEW t \in Threads, WriteContent(t) PROVE TypeOK'
  <2> DEFINE p == [part |-> "content", call |-> seq[t]]
  <2>1. p \in Piece /\ p.call = seq[t]
    BY PieceTypes DEF Piece
  <2>2. trace' \in Seq(Piece)
    BY <1>9, <2>1, WriteType DEF WriteContent, Piece
  <2> QED BY <1>9, <2>2 DEF WriteContent, Goto, PCs, Piece
<1>10. ASSUME NEW t \in Threads, Bump(t) PROVE TypeOK'
  BY <1>10, Labels DEF Bump, Goto, PCs
<1>11. ASSUME NEW t \in Threads, Interpose(t) PROVE TypeOK'
  BY <1>11 DEF Interpose, Goto, PCs, InterposeResults, Results, Fail
<1>12. ASSUME NEW t \in Threads, Return(t) PROVE TypeOK'
  <2>1. effects' \in Seq(Effect)
    BY <1>12, ReturnEffects
  <2> QED BY <1>12, <2>1, NoCallType DEF Return, Goto, PCs, Results
<1>13. ASSUME NEW t \in Threads, NEW c \in Calls, Invoke(t, c) PROVE TypeOK'
  BY <1>13 DEF Invoke, Goto, PCs
<1>14. ASSUME NEW m \in Masks, trfs_unlocked_ioctl(m) PROVE TypeOK'
  BY <1>14, ConstantsAssumption DEF trfs_unlocked_ioctl
<1>15. CASE UNCHANGED vars
  BY <1>15 DEF vars
<1>16. ASSUME NEW t \in Threads, LockRename(t) PROVE TypeOK'
  <2>1. LocksOf(cur[t]) \in SUBSET Locks
    BY LocksOfType
  <2>2. holds' \in [Threads -> SUBSET Locks]
    BY <1>16, <2>1 DEF LockRename, Missing
  <2> QED BY <1>16, <2>2 DEF LockRename, Goto, PCs
<1> QED
  BY <1>1, <1>2, <1>3, <1>4, <1>5, <1>6, <1>7, <1>8, <1>9, <1>10, <1>11, <1>12,
     <1>13, <1>14, <1>15, <1>16, HandlerCases DEF Next, Step, Tracing

(* A way to go on that is not the second path.                               *)
LEMMA MoveTo ==
  ASSUME NEW t \in Threads, NEW l \in PCs \ {"idle", "called", "locking", "mask", "path2"},
         pc' = [pc EXCEPT ![t] = l]
  PROVE  \E label \in PCs \ {"idle", "called", "locking", "mask"} :
           /\ pc' = [pc EXCEPT ![t] = label]
           /\ label = "path2" => cur[t].op \in TwoPathOps
<1> WITNESS l \in PCs \ {"idle", "called", "locking", "mask"}
<1> QED OBVIOUS

(* The tracing block changes nothing but the trace, record_id and the        *)
(* thread's own rec_id, and runs between the lower call and the exit.        *)
LEMMA TracingFrame ==
  ASSUME NEW t \in Threads, Tracing(t)
  PROVE  /\ UNCHANGED <<mask, cur, err, seq, holds, effects>>
         /\ pc[t] \notin {"idle", "called", "locking", "out", "interpose", "oops"}
         /\ \E label \in PCs \ {"idle", "called", "locking", "mask"} :
              /\ pc' = [pc EXCEPT ![t] = label]
              /\ label = "path2" => cur[t].op \in TwoPathOps
<1> USE DEF Goto, PCs
<1>1. CASE ReadMask(t)
  <2>1. CASE cur[t].op \in mask
    <3>1. pc[t] = "mask" /\ pc' = [pc EXCEPT ![t] = "id"]
          /\ UNCHANGED <<mask, cur, err, seq, holds, effects>>
      BY <1>1, <2>1 DEF ReadMask
    <3> QED BY <3>1, MoveTo
  <2>2. CASE cur[t].op \notin mask
    BY <1>1, <2>2, Labels DEF ReadMask
  <2> QED BY <2>1, <2>2
<1>2. CASE ReadRecordId(t)
  BY <1>2 DEF ReadRecordId
<1>3. CASE FilpOpen(t)
  BY <1>3 DEF FilpOpen
<1>4. CASE WriteHeader(t)
  <2>1. pc[t] = "header" /\ pc' = [pc EXCEPT ![t] = "path1"]
        /\ UNCHANGED <<mask, cur, err, seq, holds, effects>>
    BY <1>4 DEF WriteHeader
  <2> QED BY <2>1, MoveTo
<1>5. CASE WritePath1(t)
  BY <1>5, Labels, Zenon DEF WritePath1
<1>6. CASE WritePath2(t)
  <2>1. pc[t] = "path2" /\ pc' = [pc EXCEPT ![t] = "bump"]
        /\ UNCHANGED <<mask, cur, err, seq, holds, effects>>
    BY <1>6 DEF WritePath2
  <2> QED BY <2>1, MoveTo
<1>7. CASE WriteContent(t)
  <2>1. pc[t] = "content" /\ pc' = [pc EXCEPT ![t] = "bump"]
        /\ UNCHANGED <<mask, cur, err, seq, holds, effects>>
    BY <1>7 DEF WriteContent
  <2> QED BY <2>1, MoveTo
<1>8. CASE Bump(t)
  BY <1>8, Labels DEF Bump
<1> QED BY <1>1, <1>2, <1>3, <1>4, <1>5, <1>6, <1>7, <1>8 DEF Tracing

(* A step of trfs preserves Control.                                         *)
LEMMA ControlStep ==
  ASSUME TypeOK, Control, [Next]_vars
  PROVE  Control'
<1> USE DEF TypeOK, Control
<1>1. ASSUME NEW t \in Threads, NEW op \in Ops, NEW e \in Results,
             NEW label \in {"mask", "out"}, LowerCall(t, op, e, label)
      PROVE  Control'
  <2>1. /\ pc[t] \in {"called", "locking"} /\ pc' = [pc EXCEPT ![t] = label]
        /\ holds' = [holds EXCEPT ![t] = LocksOf(cur[t])] /\ cur' = cur
        /\ effects' = Append(effects, [call |-> cur[t], returned |-> FALSE, ret |-> 0])
        /\ seq' = [seq EXCEPT ![t] = Len(effects) + 1]
    BY <1>1 DEF LowerCall, Goto
  <2>2. \A u \in Threads \ {t} : LocksOf(cur[t]) \cap holds[u] = {}
    <3>1. holds[t] \subseteq LocksOf(cur[t])
      BY <2>1
    <3>2. \A u \in Threads : holds[u] \cap (LocksOf(cur[t]) \ holds[t]) = {}
      BY <1>1 DEF LowerCall, LocksFree, Missing
    <3> QED BY <3>1, <3>2
  <2> QED BY <2>1, <2>2
<1>2. ASSUME NEW t \in Threads, OpenFails(t) PROVE Control'
  BY <1>2 DEF OpenFails, Goto
<1>3. ASSUME NEW t \in Threads, Tracing(t) PROVE Control'
  <2>1. PICK label \in PCs \ {"idle", "called", "locking", "mask"} :
          /\ pc' = [pc EXCEPT ![t] = label]
          /\ label = "path2" => cur[t].op \in TwoPathOps
    BY <1>3, TracingFrame
  <2>2. UNCHANGED <<cur, seq, holds, effects>> /\ seq[t] # 0
    BY <1>3, TracingFrame
  <2> QED BY <2>1, <2>2
<1>4. ASSUME NEW t \in Threads, Interpose(t) PROVE Control'
  BY <1>4 DEF Interpose, Goto
<1>5. ASSUME NEW t \in Threads, Return(t) PROVE Control'
  BY <1>5, ReturnEffects DEF Return, Goto
<1>6. ASSUME NEW t \in Threads, NEW c \in Calls, Invoke(t, c) PROVE Control'
  BY <1>6 DEF Invoke, Goto
<1>7. ASSUME NEW m \in Masks, trfs_unlocked_ioctl(m) PROVE Control'
  BY <1>7 DEF trfs_unlocked_ioctl
<1>8. CASE UNCHANGED vars
  BY <1>8 DEF vars
<1>9. ASSUME NEW t \in Threads, LockRename(t) PROVE Control'
  <2>1. PICK l \in LocksOf(cur[t]) :
          /\ \A u \in Threads : l \notin holds[u]
          /\ holds' = [holds EXCEPT ![t] = holds[t] \cup {l}]
    BY <1>9 DEF LockRename, LocksFree, Missing
  <2>2. /\ pc[t] \in {"called", "locking"} /\ pc' = [pc EXCEPT ![t] = "locking"]
        /\ UNCHANGED <<cur, seq, effects>>
    BY <1>9 DEF LockRename, Goto
  <2> QED BY <2>1, <2>2
<1> HIDE DEF TypeOK, Control
<1> QED
  BY <1>1, <1>2, <1>3, <1>4, <1>5, <1>6, <1>7, <1>8, <1>9, HandlerCases
     DEF Next, Step

(* The initial state has the right types and no handler is running.          *)
LEMMA ControlInit ==
  ASSUME Init
  PROVE  TypeOK /\ Control
  BY NoCallType DEF Init, TypeOK, Control, PCs, Results

(* The type invariant holds for any number of threads and calls and whatever *)
(* fails, and with it Control.                                               *)
THEOREM TypeCorrect == Spec => [](TypeOK /\ Control)
<1>1. TypeOK /\ Control /\ [Next]_vars => (TypeOK /\ Control)'
  BY TypeStep, ControlStep
<1> QED BY ControlInit, <1>1, PTL DEF Spec

(* The locks a handler takes are never left behind, on any of its exits, and *)
(* never shared.                                                             *)
THEOREM LocksCorrect == Spec => []LocksInHandlers
<1>1. Control => LocksInHandlers
  BY DEF Control, LocksInHandlers
<1> QED BY TypeCorrect, <1>1, PTL

-----------------------------------------------------------------------------
(***************************************************************************)
(* The trace file and the order of its pieces.                             *)
(***************************************************************************)
(* How far a thread at label p is with its record: the pieces of rank below  *)
(* PcRank(p) may have been written, the others not.                          *)
PcRank(p) == IF p \in {"header", "path1", "path2", "content"} THEN Rank[p]
             ELSE IF p \in {"bump", "interpose", "out", "oops"} THEN 4 ELSE 0

(* The ranks of the labels.                                                  *)
LEMMA Ranks ==
  /\ PcRank("mask") = 0 /\ PcRank("id") = 0 /\ PcRank("tfile") = 0
  /\ PcRank("header") = 0 /\ PcRank("path1") = 1 /\ PcRank("path2") = 2
  /\ PcRank("content") = 3 /\ PcRank("bump") = 4 /\ PcRank("interpose") = 4
  /\ PcRank("out") = 4 /\ PcRank("oops") = 4
  /\ \A p \in {"header", "path1", "path2", "content"} : Rank[p] = PcRank(p)
  BY DEF PcRank, Rank

(* Thread t adds a piece of its own call, the one its label names or the     *)
(* beginning of it, and moves on to a later piece.                           *)
Adds(t, piece) ==
  /\ trace' = Append(trace, piece)
  /\ piece.call = seq[t] /\ seq[t] # 0
  /\ piece.part # "cut" => piece.part = pc[t]
  /\ pc[t] \in {"header", "path1", "path2", "content"}
  /\ PcRank(pc[t]) < PcRank(pc'[t])
  /\ \A u \in Threads \ {t} : pc'[u] = pc[u]
  /\ UNCHANGED <<seq, effects, holds, cur>>

(* A vfs_write of a handler leaves the trace alone or adds a piece.          *)
LEMMA WriteAdds ==
  ASSUME TypeOK, Control, NEW t \in Threads, NEW piece \in Piece, VfsWrite(piece),
         piece.call = seq[t], piece.part = pc[t],
         pc[t] \in {"header", "path1", "path2", "content"},
         NEW l \in PCs, pc' = [pc EXCEPT ![t] = l], PcRank(pc[t]) < PcRank(l),
         UNCHANGED <<seq, effects, holds, cur>>
  PROVE  trace' = trace \/ \E p \in Piece : Adds(t, p)
<1> DEFINE cut == [part |-> "cut", call |-> piece.call]
<1>1. cut \in Piece /\ cut.call = seq[t] /\ cut.part = "cut"
  BY PieceTypes DEF Piece
<1>2. seq[t] # 0
  BY DEF Control
<1>3. pc'[t] = l /\ \A u \in Threads \ {t} : pc'[u] = pc[u]
  BY DEF TypeOK
<1>4. trace' = Append(trace, piece) => Adds(t, piece)
  BY <1>2, <1>3 DEF Adds
<1>5. trace' = Append(trace, cut) => Adds(t, cut)
  BY <1>1, <1>2, <1>3 DEF Adds
<1>6. trace' = trace \/ trace' = Append(trace, piece) \/ trace' = Append(trace, cut)
  BY VfsWriteAppends
<1> HIDE DEF cut
<1> QED BY <1>1, <1>4, <1>5, <1>6

(* The trace changes only by a handler adding a piece of its call.           *)
LEMMA TraceSteps ==
  ASSUME TypeOK, Control, [Next]_vars
  PROVE  trace' = trace \/ \E t \in Threads : \E piece \in Piece : Adds(t, piece)
<1> DEFINE Goal == trace' = trace \/ \E t \in Threads : \E piece \in Piece : Adds(t, piece)
<1>1. ASSUME NEW t \in Threads, WriteHeader(t) PROVE Goal
  <2>1. /\ HeaderOf(t) \in Piece /\ HeaderOf(t).call = seq[t]
        /\ HeaderOf(t).part = "header"
    BY PieceTypes DEF Piece, HeaderOf
  <2>2. /\ pc[t] = "header" /\ VfsWrite(HeaderOf(t))
        /\ pc' = [pc EXCEPT ![t] = "path1"] /\ UNCHANGED <<seq, effects, holds, cur>>
    BY <1>1 DEF WriteHeader, Goto
  <2>3. \E l \in PCs : l = "path1" /\ PcRank(pc[t]) < PcRank(l)
    BY <2>2, Ranks DEF PCs
  <2> QED BY <2>1, <2>2, <2>3, WriteAdds
<1>2. ASSUME NEW t \in Threads, WritePath1(t) PROVE Goal
  <2> DEFINE p == [part |-> "path1", call |-> seq[t], text |-> Path1Text(cur[t])]
  <2>1. p \in Piece /\ p.call = seq[t] /\ p.part = "path1"
    BY PieceTypes DEF Piece
  <2>2. /\ pc[t] = "path1" /\ VfsWrite(p)
        /\ pc' = [pc EXCEPT ![t] = AfterPath1(t)] /\ UNCHANGED <<seq, effects, holds, cur>>
    BY <1>2 DEF WritePath1, Goto
  <2>3. AfterPath1(t) \in PCs /\ 1 < PcRank(AfterPath1(t))
    BY Labels, Ranks DEF PCs
  <2> HIDE DEF p
  <2> QED BY <2>1, <2>2, <2>3, WriteAdds, Ranks
<1>3. ASSUME NEW t \in Threads, WritePath2(t) PROVE Goal
  <2> DEFINE p == [part |-> "path2", call |-> seq[t], text |-> Whole(cur[t].p2)]
  <2>1. p \in Piece /\ p.call = seq[t] /\ p.part = "path2"
    BY <1>3, PieceTypes DEF Piece, Control, WritePath2
  <2>2. /\ pc[t] = "path2" /\ VfsWrite(p)
        /\ pc' = [pc EXCEPT ![t] = "bump"] /\ UNCHANGED <<seq, effects, holds, cur>>
    BY <1>3 DEF WritePath2, Goto
  <2>3. \E l \in PCs : l = "bump" /\ PcRank(pc[t]) < PcRank(l)
    BY <2>2, Ranks DEF PCs
  <2> HIDE DEF p
  <2> QED BY <2>1, <2>2, <2>3, WriteAdds
<1>4. ASSUME NEW t \in Threads, WriteContent(t) PROVE Goal
  <2> DEFINE p == [part |-> "content", call |-> seq[t]]
  <2>1. p \in Piece /\ p.call = seq[t] /\ p.part = "content"
    BY PieceTypes DEF Piece
  <2>2. /\ pc[t] = "content" /\ (VfsWrite(p) \/ trace' = trace)
        /\ pc' = [pc EXCEPT ![t] = "bump"] /\ UNCHANGED <<seq, effects, holds, cur>>
    BY <1>4 DEF WriteContent, Goto
  <2>3. \E l \in PCs : l = "bump" /\ PcRank(pc[t]) < PcRank(l)
    BY <2>2, Ranks DEF PCs
  <2> HIDE DEF p
  <2> QED BY <2>1, <2>2, <2>3, WriteAdds
<1>5. ASSUME NEW t \in Threads,
             ReadMask(t) \/ ReadRecordId(t) \/ FilpOpen(t) \/ Bump(t)
               \/ Interpose(t) \/ Return(t) \/ OpenFails(t) \/ LockRename(t)
      PROVE  trace' = trace
  BY <1>5 DEF ReadMask, ReadRecordId, FilpOpen, Bump, Interpose, Return, OpenFails,
       LockRename
<1>6. ASSUME NEW t \in Threads, NEW op \in Ops, NEW e \in Results,
             NEW label \in {"mask", "out"}, LowerCall(t, op, e, label)
      PROVE  trace' = trace
  BY <1>6 DEF LowerCall
<1>7. ASSUME NEW t \in Threads, NEW c \in Calls, Invoke(t, c) PROVE trace' = trace
  BY <1>7 DEF Invoke
<1>8. ASSUME NEW m \in Masks, trfs_unlocked_ioctl(m) PROVE trace' = trace
  BY <1>8 DEF trfs_unlocked_ioctl
<1>9. CASE UNCHANGED vars
  BY <1>9 DEF vars
<1> QED
  BY <1>1, <1>2, <1>3, <1>4, <1>5, <1>6, <1>7, <1>8, <1>9, HandlerCases
     DEF Next, Step, Tracing

(* The history of effects grows and keeps its calls; a thread leaves its     *)
(* entry, takes a new one at the end, or keeps its own and moves forward.    *)
LEMMA ThreadSteps ==
  ASSUME TypeOK, Control, [Next]_vars
  PROVE  /\ Len(effects) <= Len(effects')
         /\ \A j \in 1 .. Len(effects) : effects'[j].call = effects[j].call
         /\ \A u \in Threads :
              \/ seq'[u] = 0
              \/ seq'[u] = Len(effects) + 1
              \/ seq'[u] = seq[u] /\ PcRank(pc[u]) <= PcRank(pc'[u])
<1> DEFINE Grows == /\ Len(effects) <= Len(effects')
                    /\ \A j \in 1 .. Len(effects) : effects'[j].call = effects[j].call
           Forward(u) == \/ seq'[u] = 0
                         \/ seq'[u] = Len(effects) + 1
                         \/ seq'[u] = seq[u] /\ PcRank(pc[u]) <= PcRank(pc'[u])
           Goal == Grows /\ \A u \in Threads : Forward(u)
<1>0. /\ effects \in Seq(Effect) /\ Len(effects) \in Nat
      /\ pc \in [Threads -> PCs] /\ seq \in [Threads -> Nat]
      /\ \A p \in PCs : PcRank(p) \in Nat
  BY Ranks DEF TypeOK, PCs, PcRank, Rank
<1>1. ASSUME NEW t \in Threads, NEW op \in Ops, NEW e \in Results,
             NEW label \in {"mask", "out"}, LowerCall(t, op, e, label)
      PROVE  Goal
  <2>1. effects' = Append(effects, [call |-> cur[t], returned |-> FALSE, ret |-> 0])
        /\ seq' = [seq EXCEPT ![t] = Len(effects) + 1] /\ pc' = [pc EXCEPT ![t] = label]
    BY <1>1 DEF LowerCall, Goto
  <2>2. Grows
    BY <1>0, <2>1
  <2>3. \A u \in Threads : Forward(u)
    BY <1>0, <2>1
  <2> QED BY <2>2, <2>3
<1>2. ASSUME NEW t \in Threads, NEW l \in PCs, pc' = [pc EXCEPT ![t] = l],
             UNCHANGED <<effects, seq>>, PcRank(pc[t]) <= PcRank(l) \/ seq[t] = 0
      PROVE  Goal
  BY <1>0, <1>2
<1>3. ASSUME NEW t \in Threads, OpenFails(t) PROVE Goal
  <2>1. seq[t] = 0
    BY <1>3 DEF OpenFails, Control
  <2> QED BY <1>2, <1>3, <2>1 DEF OpenFails, Goto, PCs
<1>4. ASSUME NEW t \in Threads, Tracing(t) PROVE Goal
  <2>1. UNCHANGED <<effects, seq>> /\ \E l \in PCs :
          pc' = [pc EXCEPT ![t] = l] /\ PcRank(pc[t]) <= PcRank(l)
    <3>1. CASE ReadMask(t) \/ ReadRecordId(t) \/ FilpOpen(t)
      <4>1. PcRank(pc[t]) = 0
        BY <3>1, Ranks DEF ReadMask, ReadRecordId, FilpOpen
      <4> QED BY <1>0, <1>4, <4>1, TracingFrame
    <3>2. CASE WriteHeader(t)
      BY <3>2, Ranks DEF WriteHeader, Goto, PCs
    <3>3. CASE WritePath1(t)
      <4>1. AfterPath1(t) \in PCs /\ 1 <= PcRank(AfterPath1(t))
        BY Labels, Ranks DEF PCs
      <4> QED BY <3>3, <4>1, Ranks DEF WritePath1, Goto
    <3>4. CASE WritePath2(t)
      BY <3>4, Ranks DEF WritePath2, Goto, PCs
    <3>5. CASE WriteContent(t)
      BY <3>5, Ranks DEF WriteContent, Goto, PCs
    <3>6. CASE Bump(t)
      <4>1. AfterTrace(t) \in PCs /\ 4 <= PcRank(AfterTrace(t))
        BY Labels, Ranks DEF PCs
      <4> QED BY <3>6, <4>1, Ranks DEF Bump, Goto
    <3> QED BY <1>4, <3>1, <3>2, <3>3, <3>4, <3>5, <3>6 DEF Tracing
  <2> QED BY <1>2, <2>1
<1>5. ASSUME NEW t \in Threads, Interpose(t) PROVE Goal
  <2>1. UNCHANGED <<effects, seq>> /\ \E l \in PCs :
          pc' = [pc EXCEPT ![t] = l] /\ PcRank(pc[t]) <= PcRank(l)
    BY <1>5, Ranks DEF Interpose, Goto, PCs
  <2> QED BY <1>2, <2>1
<1>6. ASSUME NEW t \in Threads, Return(t) PROVE Goal
  <2>1. seq' = [seq EXCEPT ![t] = 0] /\ pc' = [pc EXCEPT ![t] = "idle"]
    BY <1>6 DEF Return, Goto
  <2>2. Grows
    BY <1>0, <1>6, ReturnEffects
  <2>3. \A u \in Threads : Forward(u)
    BY <1>0, <2>1
  <2> QED BY <2>2, <2>3
<1>7. ASSUME NEW t \in Threads, NEW c \in Calls, Invoke(t, c) PROVE Goal
  <2>1. seq[t] = 0
    BY <1>7 DEF Invoke, Control
  <2> QED BY <1>2, <1>7, <2>1 DEF Invoke, Goto, PCs
<1>8. CASE UNCHANGED <<effects, seq, pc>>
  BY <1>0, <1>8
<1>9. ASSUME NEW m \in Masks, trfs_unlocked_ioctl(m) PROVE Goal
  BY <1>8, <1>9 DEF trfs_unlocked_ioctl
<1>10. ASSUME UNCHANGED vars PROVE Goal
  BY <1>8, <1>10 DEF vars
<1>11. ASSUME NEW t \in Threads, Handler(t) PROVE Goal
  <2> HIDE DEF Goal
  <2> QED BY <1>1, <1>3, <1>11, HandlerCases
<1>12. ASSUME NEW t \in Threads, LockRename(t) PROVE Goal
  <2>1. seq[t] = 0
    BY <1>12 DEF LockRename, Control
  <2> QED BY <1>2, <1>12, <2>1 DEF LockRename, Goto, PCs
<1>13. Goal
  <2> HIDE DEF Goal
  <2> QED BY <1>4, <1>5, <1>6, <1>7, <1>9, <1>10, <1>11, <1>12 DEF Next, Step
<1> QED BY <1>13

(* The locks of entry n of effects.                                          *)
EffectLocks(n) == LocksOf(effects[n].call)

(* Every piece belongs to a call that took effect.                           *)
PiecesExist == \A k \in DOMAIN trace : trace[k].call \in 1 .. Len(effects)

(* The pieces a running call has in the trace are those before its label.    *)
PiecesBehind ==
  \A k \in DOMAIN trace, t \in Threads :
    (seq[t] # 0 /\ trace[k].call = seq[t] /\ trace[k].part # "cut")
      => Rank[trace[k].part] < PcRank(pc[t])

(* A running call is the last one in the trace among those that need a lock  *)
(* it holds.                                                                 *)
HolderLast ==
  \A k \in DOMAIN trace, t \in Threads :
    (seq[t] # 0 /\ EffectLocks(trace[k].call) \cap EffectLocks(seq[t]) # {})
      => trace[k].call <= seq[t]

OrderInv == /\ PiecesExist /\ PiecesBehind /\ HolderLast
            /\ PiecesInOrder /\ SameDirInEffectOrder

(* Adding a piece keeps the orders of the trace.                             *)
LEMMA AddsOrder ==
  ASSUME TypeOK, Control, OrderInv,
         NEW t \in Threads, NEW piece \in Piece, Adds(t, piece)
  PROVE  OrderInv'
<1> DEFINE n == Len(trace)
<1>1. /\ trace \in Seq(Piece) /\ n \in Nat /\ Len(trace') = n + 1
      /\ DOMAIN trace = 1 .. n /\ DOMAIN trace' = 1 .. n + 1
      /\ \A k \in 1 .. n : trace'[k] = trace[k]
      /\ trace'[n + 1] = piece
  BY DEF TypeOK, Piece, Adds
<1>2. /\ piece.call = seq[t] /\ seq[t] # 0 /\ seq[t] \in 1 .. Len(effects)
      /\ UNCHANGED <<seq, effects>> /\ \A u \in Threads \ {t} : pc'[u] = pc[u]
      /\ PcRank(pc[t]) < PcRank(pc'[t])
      /\ piece.part # "cut" => Rank[piece.part] = PcRank(pc[t])
  BY Ranks DEF Adds, Control, TypeOK
<1>3. /\ \A k \in 1 .. n : trace[k].call \in 1 .. Len(effects)
      /\ \A u \in Threads : seq[u] \in Nat
      /\ Len(effects) \in Nat
  BY <1>1 DEF OrderInv, PiecesExist, TypeOK
<1>4. \A u \in Threads \ {t} :
        seq[u] # 0 => seq[u] # seq[t] /\ EffectLocks(seq[t]) \cap EffectLocks(seq[u]) = {}
  <2>1. \A u \in Threads : seq[u] # 0 => EffectLocks(seq[u]) = holds[u]
    BY DEF Control, EffectLocks
  <2> QED BY <1>2, <2>1 DEF Control
<1>5. \A k \in Nat : EffectLocks(k)' = EffectLocks(k)
  BY <1>2 DEF EffectLocks
<1>6. PiecesExist'
  BY <1>1, <1>2, <1>3 DEF PiecesExist
<1>7. \A p \in {"header", "path1", "path2", "content"} : Rank[p] \in Nat
  BY DEF Rank
<1>8. \A k \in 1 .. n : trace[k].part \in {"header", "path1", "path2", "content", "cut"}
  BY <1>1 DEF Piece, Header, PathPiece, DataPiece
<1>9. \A u \in Threads : PcRank(pc[u]) \in Nat /\ PcRank(pc'[u]) \in Nat
  BY Ranks DEF PcRank, Rank
<1>10. PiecesBehind'
  <2> SUFFICES ASSUME NEW k \in 1 .. n + 1, NEW u \in Threads,
                      seq[u] # 0, trace'[k].call = seq[u], trace'[k].part # "cut"
               PROVE  Rank[trace'[k].part] < PcRank(pc'[u])
    BY <1>1, <1>2 DEF PiecesBehind
  <2>1. CASE k \in 1 .. n
    <3>1. Rank[trace[k].part] < PcRank(pc[u])
      BY <1>1, <2>1 DEF OrderInv, PiecesBehind
    <3>2. PcRank(pc[u]) <= PcRank(pc'[u])
      BY <1>2, <1>9
    <3>3. trace'[k] = trace[k] /\ Rank[trace[k].part] \in Nat
      BY <1>1, <1>7, <1>8, <2>1
    <3> QED BY <1>9, <3>1, <3>2, <3>3
  <2>2. CASE k = n + 1
    <3>1. u = t
      BY <1>1, <1>2, <1>4, <2>2
    <3> QED BY <1>1, <1>2, <2>2, <3>1
  <2> QED BY <1>1, <2>1, <2>2
<1>11. HolderLast'
  <2> SUFFICES ASSUME NEW k \in 1 .. n + 1, NEW u \in Threads, seq[u] # 0,
                      EffectLocks(trace'[k].call) \cap EffectLocks(seq[u]) # {}
               PROVE  trace'[k].call <= seq[u]
    BY <1>1, <1>2, <1>3 DEF HolderLast, EffectLocks
  <2>1. CASE k \in 1 .. n
    BY <1>1, <2>1 DEF OrderInv, HolderLast
  <2>2. CASE k = n + 1
    BY <1>1, <1>2, <1>3, <1>4, <2>2
  <2> QED BY <1>1, <2>1, <2>2
<1>12. PiecesInOrder'
  <2> SUFFICES ASSUME NEW j \in 1 .. n + 1, NEW k \in 1 .. n + 1,
                      j < k, trace'[j].call = trace'[k].call,
                      trace'[j].part # "cut", trace'[k].part # "cut"
               PROVE  Rank[trace'[j].part] < Rank[trace'[k].part]
    BY <1>1 DEF PiecesInOrder
  <2>1. CASE k \in 1 .. n
    BY <1>1, <2>1 DEF OrderInv, PiecesInOrder
  <2>2. CASE k = n + 1
    <3>1. j \in 1 .. n
      BY <1>1, <2>2
    <3> QED BY <1>1, <1>2, <2>2, <3>1 DEF OrderInv, PiecesBehind
  <2> QED BY <1>1, <2>1, <2>2
<1>13. SameDirInEffectOrder'
  <2> SUFFICES ASSUME NEW j \in 1 .. n + 1, NEW k \in 1 .. n + 1, j < k,
                      EffectLocks(trace'[j].call) \cap EffectLocks(trace'[k].call) # {}
               PROVE  trace'[j].call <= trace'[k].call
    BY <1>1, <1>2 DEF SameDirInEffectOrder, EffectLocks
  <2>1. CASE k \in 1 .. n
    <3>1. j \in 1 .. n /\ trace'[j] = trace[j] /\ trace'[k] = trace[k]
      BY <1>1, <2>1
    <3>2. LocksOf(effects[trace[j].call].call) \cap LocksOf(effects[trace[k].call].call) # {}
      BY <3>1 DEF EffectLocks
    <3> QED BY <1>1, <2>1, <3>1, <3>2 DEF OrderInv, SameDirInEffectOrder
  <2>2. CASE k = n + 1
    <3>1. j \in 1 .. n
      BY <1>1, <2>2
    <3> QED BY <1>1, <1>2, <2>2, <3>1 DEF OrderInv, HolderLast
  <2> QED BY <1>1, <2>1, <2>2
<1> QED BY <1>6, <1>10, <1>11, <1>12, <1>13 DEF OrderInv

(* A step that leaves the trace alone keeps its orders.                      *)
LEMMA StutterOrder ==
  ASSUME TypeOK, Control, OrderInv, [Next]_vars, trace' = trace
  PROVE  OrderInv'
<1>1. /\ \A k \in DOMAIN trace : trace[k].call \in 1 .. Len(effects)
      /\ \A j \in 1 .. Len(effects) : EffectLocks(j)' = EffectLocks(j)
      /\ \A u \in Threads : seq[u] \in Nat
      /\ Len(effects) \in Nat /\ Len(effects') \in Nat /\ Len(effects) <= Len(effects')
  <2>1. TypeOK'
    BY TypeStep
  <2>2. \A j \in 1 .. Len(effects) : EffectLocks(j)' = EffectLocks(j)
    BY ThreadSteps DEF EffectLocks
  <2>3. PiecesExist
    BY DEF OrderInv
  <2>4. (\A u \in Threads : seq[u] \in Nat) /\ Len(effects) \in Nat
    BY DEF TypeOK
  <2>5. Len(effects') \in Nat
    BY <2>1 DEF TypeOK
  <2>6. Len(effects) <= Len(effects')
    BY ThreadSteps
  <2> QED BY <2>2, <2>3, <2>4, <2>5, <2>6 DEF PiecesExist
<1>2. \A u \in Threads :
        \/ seq'[u] = 0
        \/ seq'[u] = Len(effects) + 1
        \/ seq'[u] = seq[u] /\ PcRank(pc[u]) <= PcRank(pc'[u])
  BY ThreadSteps
<1>3. PiecesExist'
  BY <1>1 DEF PiecesExist
<1>4. PiecesBehind'
  <2> SUFFICES ASSUME NEW k \in DOMAIN trace, NEW u \in Threads,
                      seq'[u] # 0, trace[k].call = seq'[u], trace[k].part # "cut"
               PROVE  Rank[trace[k].part] < PcRank(pc'[u])
    BY DEF PiecesBehind
  <2>1. seq'[u] = seq[u] /\ PcRank(pc[u]) <= PcRank(pc'[u])
    BY <1>1, <1>2
  <2>2. Rank[trace[k].part] < PcRank(pc[u])
    BY <2>1 DEF OrderInv, PiecesBehind
  <2>3. Rank[trace[k].part] \in Nat
    BY DEF TypeOK, Header, PathPiece, DataPiece, Rank
  <2>4. PcRank(pc[u]) \in Nat /\ PcRank(pc'[u]) \in Nat
    BY DEF PcRank, Rank
  <2> QED BY <2>1, <2>2, <2>3, <2>4
<1>5. HolderLast'
  <2> SUFFICES ASSUME NEW k \in DOMAIN trace, NEW u \in Threads, seq'[u] # 0,
                      EffectLocks(trace[k].call)' \cap EffectLocks(seq[u])' # {}
               PROVE  trace[k].call <= seq'[u]
    BY DEF HolderLast
  <2>1. CASE seq'[u] = Len(effects) + 1
    BY <1>1, <2>1
  <2>2. CASE seq'[u] = seq[u]
    <3>1. seq[u] \in 1 .. Len(effects)
      BY <1>1, <2>2 DEF Control
    <3>2. EffectLocks(trace[k].call)' = EffectLocks(trace[k].call)
          /\ EffectLocks(seq[u])' = EffectLocks(seq[u])
      BY <1>1, <2>2, <3>1 DEF EffectLocks
    <3> QED BY <2>2, <3>2 DEF OrderInv, HolderLast
  <2> QED BY <1>2, <2>1, <2>2
<1>6. PiecesInOrder'
  BY DEF OrderInv, PiecesInOrder
<1>7. SameDirInEffectOrder'
  <2> SUFFICES ASSUME NEW j \in DOMAIN trace, NEW k \in DOMAIN trace, j < k,
                      EffectLocks(trace[j].call)' \cap EffectLocks(trace[k].call)' # {}
               PROVE  trace[j].call <= trace[k].call
    BY DEF SameDirInEffectOrder, EffectLocks
  <2>1. EffectLocks(trace[j].call)' = EffectLocks(trace[j].call)
        /\ EffectLocks(trace[k].call)' = EffectLocks(trace[k].call)
    BY <1>1 DEF EffectLocks
  <2>2. LocksOf(effects[trace[j].call].call) \cap LocksOf(effects[trace[k].call].call) # {}
    BY <2>1 DEF EffectLocks
  <2> QED BY <2>2 DEF OrderInv, SameDirInEffectOrder
<1> QED BY <1>3, <1>4, <1>5, <1>6, <1>7 DEF OrderInv

(* The invariant behind the orders of the trace.                             *)
LEMMA OrderInvariant == Spec => []OrderInv
<1>1. Init => OrderInv
  BY DEF Init, OrderInv, PiecesExist, PiecesBehind, HolderLast, PiecesInOrder,
     SameDirInEffectOrder
<1>2. TypeOK /\ Control /\ OrderInv /\ [Next]_vars => OrderInv'
  BY TraceSteps, AddsOrder, StutterOrder
<1> QED BY <1>1, <1>2, TypeCorrect, PTL DEF Spec

(* However many threads append to the trace, the pieces of each call are in  *)
(* it in the order struct, path 1, path 2 or content, each at most once.     *)
THEOREM PiecesOrdered == Spec => []PiecesInOrder
<1>1. OrderInv => PiecesInOrder
  BY DEF OrderInv
<1> QED BY <1>1, OrderInvariant, PTL

(* Calls that need a common directory lock are traced in the order in which  *)
(* they took effect, even when writes to the trace fail or a thread dies.    *)
THEOREM TraceFollowsEffects == Spec => []SameDirInEffectOrder
<1>1. OrderInv => SameDirInEffectOrder
  BY DEF OrderInv
<1> QED BY <1>1, OrderInvariant, PTL

-----------------------------------------------------------------------------
(***************************************************************************)
(* Record ids.                                                             *)
(***************************************************************************)
(* Id i is in some header; every id below n is.                              *)
Used(i) == \E k \in Headers : trace[k].id = i

Covered(n) == \A i \in 0 .. (n - 1) : Used(i)

Copied == {"tfile", "header", "path1", "path2", "content", "bump"}
Headed == {"path1", "path2", "content", "bump"}

(* Inductive form of IdsCovered: record_id is stored back from a local copy, *)
(* so the copies, too, have every id below them in the trace, and their own  *)
(* id once the header is out.                                                *)
IdsInv ==
  /\ Covered(record_id)
  /\ \A t \in Threads : pc[t] \in Copied => Covered(rec_id[t])
  /\ \A t \in Threads : pc[t] \in Headed => Used(rec_id[t])

(* A used id stays used.                                                     *)
LEMMA UsedStays ==
  ASSUME TypeOK, Control, [Next]_vars
  PROVE  /\ \A i \in Nat : Used(i) => Used(i)'
         /\ \A n \in Nat : Covered(n) => Covered(n)'
<1>1. ASSUME NEW k \in Headers PROVE k \in Headers' /\ trace'[k] = trace[k]
  <2>1. CASE trace' = trace
    BY <2>1 DEF Headers, IsHeader
  <2>2. ASSUME NEW t \in Threads, NEW piece \in Piece, Adds(t, piece)
        PROVE  k \in Headers' /\ trace'[k] = trace[k]
    BY <2>2 DEF Adds, TypeOK, Headers, IsHeader, Piece
  <2> QED BY <2>1, <2>2, TraceSteps
<1>2. \A i \in Nat : Used(i) => Used(i)'
  BY <1>1 DEF Used
<1> QED BY <1>2 DEF Covered

(* A step of trfs preserves IdsInv if writes to the trace do not fail.       *)
LEMMA IdsStep ==
  ASSUME TypeOK, Control, IdsInv, [Next]_vars, "enospc" \notin Faults
  PROVE  IdsInv'
<1>0. /\ record_id \in Nat /\ rec_id \in [Threads -> Nat] /\ pc \in [Threads -> PCs]
      /\ trace \in Seq(Piece)
  BY DEF TypeOK, Piece
<1>1. /\ Covered(record_id)'  \/ record_id' # record_id
      /\ \A u \in Threads : pc[u] \in Copied => (Covered(rec_id[u])' \/ rec_id'[u] # rec_id[u])
      /\ \A u \in Threads : pc[u] \in Headed => (Used(rec_id[u])' \/ rec_id'[u] # rec_id[u])
  <2>1. ASSUME record_id' = record_id PROVE Covered(record_id)'
    BY <1>0, <2>1, UsedStays DEF IdsInv, Covered
  <2>2. ASSUME NEW u \in Threads, rec_id'[u] = rec_id[u], pc[u] \in Copied
        PROVE  Covered(rec_id[u])'
    BY <1>0, <2>2, UsedStays DEF IdsInv, Covered
  <2>3. ASSUME NEW u \in Threads, rec_id'[u] = rec_id[u], pc[u] \in Headed
        PROVE  Used(rec_id[u])'
    BY <1>0, <2>3, UsedStays DEF IdsInv, Used
  <2> QED BY <2>1, <2>2, <2>3
<1> USE DEF Copied, Headed
<1>2. ASSUME UNCHANGED <<record_id, rec_id>>,
             NEW t \in Threads, NEW l \in PCs, pc' = [pc EXCEPT ![t] = l],
             l \in Copied => pc[t] \in Copied, l \in Headed => pc[t] \in Headed
      PROVE  IdsInv'
  BY <1>0, <1>1, <1>2 DEF IdsInv
<1>3. ASSUME NEW t \in Threads, NEW op \in Ops, NEW e \in Results,
             NEW label \in {"mask", "out"}, LowerCall(t, op, e, label)
      PROVE  IdsInv'
  BY <1>2, <1>3 DEF LowerCall, Goto, PCs
<1>4. ASSUME NEW t \in Threads, OpenFails(t) PROVE IdsInv'
  BY <1>2, <1>4 DEF OpenFails, Goto, PCs
<1>5. ASSUME NEW t \in Threads, ReadMask(t) PROVE IdsInv'
  BY <1>2, <1>5, Labels DEF ReadMask, Goto, PCs
<1>6. ASSUME NEW t \in Threads, ReadRecordId(t) PROVE IdsInv'
  <2>1. /\ rec_id' = [rec_id EXCEPT ![t] = record_id] /\ UNCHANGED record_id
        /\ \E l \in {"tfile", "oops"} : pc' = [pc EXCEPT ![t] = l]
    BY <1>6 DEF ReadRecordId, Goto
  <2>2. Covered(record_id)'
    BY <1>1, <2>1
  <2> QED BY <1>0, <1>1, <2>1, <2>2 DEF IdsInv, Covered
<1>7. ASSUME NEW t \in Threads, FilpOpen(t) PROVE IdsInv'
  BY <1>2, <1>7 DEF FilpOpen, Goto, PCs
<1>8. ASSUME NEW t \in Threads, WriteHeader(t) PROVE IdsInv'
  <2>1. trace' = Append(trace, HeaderOf(t)) /\ UNCHANGED <<record_id, rec_id>>
        /\ pc' = [pc EXCEPT ![t] = "path1"] /\ pc[t] = "header"
    BY <1>8, VfsWriteAppends DEF WriteHeader, Goto
  <2>2. HeaderOf(t).part = "header" /\ HeaderOf(t).id = rec_id[t]
    BY DEF HeaderOf
  <2>3. Len(trace) + 1 \in Headers' /\ trace'[Len(trace) + 1].id = rec_id[t]
    BY <1>0, <2>1, <2>2 DEF Headers, IsHeader
  <2>4. Used(rec_id[t])'
    BY <2>1, <2>3 DEF Used
  <2> QED BY <1>0, <1>1, <2>1, <2>4 DEF IdsInv
<1>9. ASSUME NEW t \in Threads, WritePath1(t) PROVE IdsInv'
  BY <1>2, <1>9, Labels DEF WritePath1, Goto, PCs
<1>10. ASSUME NEW t \in Threads, WritePath2(t) PROVE IdsInv'
  BY <1>2, <1>10 DEF WritePath2, Goto, PCs
<1>11. ASSUME NEW t \in Threads, WriteContent(t) PROVE IdsInv'
  BY <1>2, <1>11 DEF WriteContent, Goto, PCs
<1>12. ASSUME NEW t \in Threads, Bump(t) PROVE IdsInv'
  <2>1. /\ record_id' = rec_id[t] + 1 /\ rec_id' = rec_id /\ pc[t] = "bump"
        /\ pc' = [pc EXCEPT ![t] = AfterTrace(t)]
    BY <1>12 DEF Bump, Goto
  <2>2. Covered(rec_id[t])' /\ Used(rec_id[t])'
    BY <1>1, <2>1
  <2>3. Covered(record_id)'
    BY <1>0, <2>1, <2>2 DEF Covered
  <2> QED BY <1>0, <1>1, <2>1, <2>3, Labels DEF IdsInv
<1>13. ASSUME NEW t \in Threads, Interpose(t) PROVE IdsInv'
  BY <1>2, <1>13 DEF Interpose, Goto, PCs
<1>14. ASSUME NEW t \in Threads, Return(t) PROVE IdsInv'
  <2>1. /\ rec_id' = [rec_id EXCEPT ![t] = 0] /\ UNCHANGED record_id
        /\ pc' = [pc EXCEPT ![t] = "idle"]
    BY <1>14 DEF Return, Goto
  <2> QED BY <1>0, <1>1, <2>1 DEF IdsInv
<1>15. ASSUME NEW t \in Threads, NEW c \in Calls, Invoke(t, c) PROVE IdsInv'
  BY <1>2, <1>15 DEF Invoke, Goto, PCs
<1>16. ASSUME UNCHANGED <<record_id, rec_id, pc>> PROVE IdsInv'
  BY <1>0, <1>1, <1>16 DEF IdsInv
<1>17. ASSUME NEW m \in Masks, trfs_unlocked_ioctl(m) PROVE IdsInv'
  BY <1>16, <1>17 DEF trfs_unlocked_ioctl
<1>18. ASSUME UNCHANGED vars PROVE IdsInv'
  BY <1>16, <1>18 DEF vars
<1>19. ASSUME NEW t \in Threads, LockRename(t) PROVE IdsInv'
  BY <1>2, <1>19 DEF LockRename, Goto, PCs
<1> QED
  BY <1>3, <1>4, <1>5, <1>6, <1>7, <1>8, <1>9, <1>10, <1>11, <1>12, <1>13, <1>14,
     <1>15, <1>17, <1>18, <1>19, HandlerCases DEF Next, Step, Tracing

(* No id below record_id is missing from the trace, although record_id is    *)
(* read, incremented and stored without a lock by any number of threads.     *)
THEOREM NoIdSkipped == Spec => []IdsCovered
<1>1. Init => IdsInv
  BY DEF Init, IdsInv, Covered, Copied, Headed
<1>2. IdsInv => IdsCovered
  BY DEF IdsInv, IdsCovered, Covered, Used
<1>3. CASE "enospc" \notin Faults
  <2>1. TypeOK /\ Control /\ IdsInv /\ [Next]_vars => IdsInv'
    BY <1>3, IdsStep
  <2> QED BY <1>1, <1>2, <2>1, TypeCorrect, PTL DEF Spec
<1>4. CASE "enospc" \in Faults
  <2>1. IdsCovered
    BY <1>4 DEF IdsCovered
  <2> QED BY <2>1, PTL
<1> QED BY <1>3, <1>4

=============================================================================
