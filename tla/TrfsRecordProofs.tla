------------------------- MODULE TrfsRecordProofs --------------------------
(***************************************************************************)
(* Proofs about the single record: the err it holds is the one the call    *)
(* returned, it is complete or absent when the call returns, and, where    *)
(* calls are serialised, the records follow each other as their headers    *)
(* announce.                                                               *)
(***************************************************************************)
EXTENDS TrfsTraceLogProofs

(***************************************************************************)
(* The recorded err.                                                       *)
(***************************************************************************)
(* The calls that interpose after they have been traced.                     *)
Late == {"create", "mkdir"}

Recording == {"mask", "id", "tfile", "header", "path1", "path2", "content", "bump"}

(* Only the late ones come to their interposition after the tracing block,   *)
(* and only if the lower call succeeded: create tests that after the block,  *)
(* mkdir before it.                                                          *)
LateOnly ==
  \A t \in Threads :
    /\ pc[t] = "interpose" => cur[t].op \in Late /\ err[t] = 0
    /\ pc[t] \in Recording /\ cur[t].op = "mkdir" => err[t] = 0

(* A late call whose interposition has failed after it was recorded.         *)
LateFailure(t) ==
  cur[t].op \in Late /\ "interpose" \in Faults /\ err[t] = Fail /\ pc[t] = "out"

(* A running call has not returned.                                          *)
Running == \A t \in Threads : seq[t] # 0 => ~effects[seq[t]].returned

(* While a call runs its header, once written, has the err it will return.   *)
HeaderErrs ==
  \A k \in Headers, t \in Threads :
    (seq[t] # 0 /\ trace[k].call = seq[t])
      => (trace[k].err = err[t] \/ (trace[k].err = 0 /\ LateFailure(t)))

ErrInv == LateOnly /\ Running /\ HeaderErrs /\ RecordedErrReturned

(* A lower call adds an entry to effects.                                    *)
LEMMA LowerCallEffects ==
  ASSUME TypeOK, NEW t \in Threads, NEW op \in Ops, NEW e \in Results,
         NEW label \in {"mask", "out"}, LowerCall(t, op, e, label)
  PROVE  /\ Len(effects') = Len(effects) + 1
         /\ \A j \in 1 .. Len(effects) : effects'[j] = effects[j]
         /\ ~effects'[Len(effects) + 1].returned
<1>1. effects \in Seq(Effect) /\ Len(effects) \in Nat
  BY DEF TypeOK
<1> QED BY <1>1 DEF LowerCall

(* A return changes the entry of the call, and no other.                     *)
LEMMA ReturnEntry ==
  ASSUME TypeOK, Control, NEW t \in Threads, Return(t), seq[t] # 0
  PROVE  /\ \A j \in 1 .. Len(effects) : j # seq[t] => effects'[j] = effects[j]
         /\ effects'[seq[t]] = [call |-> cur[t], returned |-> TRUE, ret |-> err[t]]
         /\ seq[t] \in 1 .. Len(effects) /\ Len(effects') = Len(effects)
<1>1. effects \in Seq(Effect) /\ seq[t] \in 1 .. Len(effects)
  BY DEF Control, TypeOK
<1>2. effects' = [effects EXCEPT ![seq[t]] =
                    [call |-> cur[t], returned |-> TRUE, ret |-> err[t]]]
  BY DEF Return
<1> QED BY <1>1, <1>2

(* What a step of the tracing block does to the headers: nothing, or it adds *)
(* that of its own call, with its err.                                       *)
LEMMA HeaderSteps ==
  ASSUME TypeOK, Control, NEW t \in Threads, Tracing(t)
  PROVE  /\ \A k \in Headers' :
              \/ k \in Headers /\ trace'[k] = trace[k]
              \/ trace'[k].call = seq[t] /\ trace'[k].err = err[t]
         /\ \A u \in Threads \ {t} : pc'[u] = pc[u]
<1>1. CASE WriteHeader(t)
  <2>1. VfsWrite(HeaderOf(t)) /\ pc' = [pc EXCEPT ![t] = "path1"]
    BY <1>1 DEF WriteHeader, Goto
  <2>2. \/ trace' = trace
        \/ trace' = Append(trace, HeaderOf(t))
        \/ trace' = Append(trace, [part |-> "cut", call |-> HeaderOf(t).call])
    BY <2>1, VfsWriteAppends
  <2>3. HeaderOf(t).call = seq[t] /\ HeaderOf(t).err = err[t]
    BY DEF HeaderOf
  <2>4. trace \in Seq(Piece)
    BY DEF TypeOK, Piece
  <2>5. \A u \in Threads \ {t} : pc'[u] = pc[u]
    BY <2>1 DEF TypeOK
  <2>6. CASE trace' = trace
    BY <2>5, <2>6 DEF Headers, IsHeader
  <2>7. ASSUME NEW piece \in Piece, trace' = Append(trace, piece)
        PROVE  \A k \in Headers' : \/ k \in Headers /\ trace'[k] = trace[k]
                                   \/ trace'[k] = piece /\ piece.part = "header"
    <3>1. /\ DOMAIN trace = 1 .. Len(trace) /\ DOMAIN trace' = 1 .. Len(trace) + 1
          /\ Len(trace) \in Nat /\ trace'[Len(trace) + 1] = piece
          /\ \A k \in 1 .. Len(trace) : trace'[k] = trace[k]
      BY <2>4, <2>7
    <3> QED BY <3>1 DEF Headers, IsHeader
  <2>8. HeaderOf(t) \in Piece /\ [part |-> "cut", call |-> HeaderOf(t).call] \in Piece
    BY <2>3, PieceTypes DEF Piece
  <2> QED BY <2>2, <2>3, <2>5, <2>6, <2>7, <2>8
<1>2. CASE ~WriteHeader(t)
  <2>1. pc[t] # "header" \/ trace' = trace
    <3>1. ASSUME pc[t] = "header" PROVE FALSE
      BY <1>2, <3>1 DEF Tracing, ReadMask, ReadRecordId, FilpOpen, WritePath1,
         WritePath2, WriteContent, Bump
    <3> QED BY <3>1
  <2>2. \A u \in Threads \ {t} : pc'[u] = pc[u]
    BY TracingFrame DEF TypeOK
  <2>3. CASE trace' = trace
    BY <2>2, <2>3 DEF Headers, IsHeader
  <2>4. ASSUME NEW u \in Threads, NEW piece \in Piece, Adds(u, piece)
        PROVE  \A k \in Headers' : k \in Headers /\ trace'[k] = trace[k]
    <3>1. u = t
      <4>1. PcRank(pc[u]) \in Nat
        BY DEF PcRank, Rank
      <4> QED BY <2>2, <2>4, <4>1 DEF Adds
    <3>2. piece.part # "header" \/ trace' = trace
      BY <2>1, <2>4, <3>1 DEF Adds
    <3>3. CASE trace' = trace
      BY <3>3 DEF Headers, IsHeader
    <3>4. CASE piece.part # "header"
      BY <2>4, <3>4, HeadersKept
    <3> QED BY <3>2, <3>3, <3>4
  <2>5. [Next]_vars
    BY DEF Next, Step
  <2> QED BY <2>2, <2>3, <2>4, <2>5, TraceSteps
<1> QED BY <1>1, <1>2

(* A mkdir that failed below is not traced.                                  *)
LEMMA MkdirTraced ==
  ASSUME NEW t \in Threads, Handler(t), TypeOK, cur[t].op = "mkdir", pc'[t] \in Recording
  PROVE  err'[t] = 0
<1> USE DEF TypeOK, Recording
<1>1. pc \in [Threads -> PCs] /\ err \in [Threads -> Results]
  OBVIOUS
<1>2. CASE trfs_mkdir(t)
  <2>1. CASE LowerCall(t, "mkdir", Fail, "out")
    BY <1>1, <2>1 DEF LowerCall, Goto
  <2>2. CASE LowerCall(t, "mkdir", 0, "mask")
    BY <1>1, <2>2 DEF LowerCall
  <2> QED BY <1>2, <2>1, <2>2 DEF trfs_mkdir
<1>3. ASSUME NEW op, NEW e, NEW label, LowerCall(t, op, e, label) PROVE op = "mkdir"
  BY <1>3 DEF LowerCall
<1>4. ASSUME trfs_open(t) PROVE FALSE
  BY <1>3, <1>4 DEF trfs_open
<1>5. ASSUME trfs_read(t) \/ trfs_write(t) \/ trfs_file_release(t) \/ trfs_create(t)
      PROVE  FALSE
  BY <1>3, <1>5 DEF trfs_read, trfs_write, trfs_file_release, trfs_create
<1>6. ASSUME trfs_link(t) \/ trfs_symlink(t) \/ trfs_mknod(t) PROVE FALSE
  BY <1>3, <1>6, Zenon DEF trfs_link, trfs_symlink, trfs_mknod
<1>7. ASSUME trfs_unlink(t) \/ trfs_rmdir(t) \/ trfs_rename(t) PROVE FALSE
  BY <1>3, <1>7 DEF trfs_unlink, trfs_rmdir, trfs_rename
<1> QED BY <1>2, <1>4, <1>5, <1>6, <1>7 DEF Handler

(* A step of trfs preserves ErrInv.                                          *)
LEMMA ErrStep ==
  ASSUME TypeOK, Control, OrderInv, ErrInv, [Next]_vars
  PROVE  ErrInv'
<1>0. /\ pc \in [Threads -> PCs] /\ seq \in [Threads -> Nat]
      /\ cur \in [Threads -> Calls] /\ err \in [Threads -> Results]
      /\ \A k \in Headers : trace[k].call \in 1 .. Len(effects)
      /\ Len(effects) \in Nat
      /\ \A u \in Threads : seq[u] # 0 => seq[u] \in 1 .. Len(effects)
  BY DEF TypeOK, Control, OrderInv, PiecesExist, Headers
<1> USE DEF ErrInv, Running, HeaderErrs, RecordedErrReturned
<1>1. ASSUME UNCHANGED <<trace, effects>>, LateOnly',
             \A u \in Threads : \/ seq'[u] = 0
                                \/ /\ seq'[u] = seq[u] /\ cur'[u] = cur[u]
                                   /\ err'[u] = err[u]
                                   /\ pc[u] = "out" => pc'[u] = "out"
      PROVE  ErrInv'
  <2>1. Headers' = Headers
    BY <1>1 DEF Headers, IsHeader
  <2>2. HeaderErrs'
    BY <1>1, <2>1 DEF LateFailure
  <2> QED BY <1>1, <2>1, <2>2
<1>2. ASSUME NEW t \in Threads, NEW op \in Ops, NEW e \in Results,
             NEW label \in {"mask", "out"}, LowerCall(t, op, e, label), Handler(t)
      PROVE  ErrInv'
  <2>1. /\ UNCHANGED <<trace, cur>> /\ seq' = [seq EXCEPT ![t] = Len(effects) + 1]
        /\ err' = [err EXCEPT ![t] = e] /\ pc' = [pc EXCEPT ![t] = label]
    BY <1>2 DEF LowerCall, Goto
  <2>2. Headers' = Headers
    BY <2>1 DEF Headers, IsHeader
  <2>3. /\ \A j \in 1 .. Len(effects) : effects'[j] = effects[j]
        /\ ~effects'[Len(effects) + 1].returned
    BY <1>2, LowerCallEffects
  <2>4. LateOnly'
    <3>1. pc'[t] \in Recording /\ cur[t].op = "mkdir" => err'[t] = 0
      BY <1>2, MkdirTraced
    <3>2. pc'[t] # "interpose" /\ \A u \in Threads \ {t} : pc'[u] = pc[u] /\ err'[u] = err[u]
      BY <1>0, <2>1
    <3> QED BY <2>1, <3>1, <3>2 DEF LateOnly
  <2>5. Running'
    BY <1>0, <2>1, <2>3
  <2>6. HeaderErrs'
    BY <1>0, <2>1, <2>2 DEF LateFailure
  <2>7. RecordedErrReturned'
    BY <1>0, <2>1, <2>2, <2>3
  <2> QED BY <2>4, <2>5, <2>6, <2>7
<1>3. ASSUME NEW t \in Threads, OpenFails(t) PROVE ErrInv'
  <2>1. seq[t] = 0 /\ pc' = [pc EXCEPT ![t] = "out"] /\ err' = [err EXCEPT ![t] = Fail]
        /\ UNCHANGED <<trace, effects, cur, seq>>
    BY <1>3 DEF OpenFails, Control, Goto
  <2>2. LateOnly'
    BY <1>0, <2>1 DEF LateOnly, Recording
  <2> QED BY <1>0, <1>1, <2>1, <2>2
<1>4. ASSUME NEW t \in Threads, Tracing(t) PROVE ErrInv'
  <2>1. UNCHANGED <<cur, err, seq, effects>>
    BY <1>4, TracingFrame
  <2>2. /\ \A k \in Headers' : \/ k \in Headers /\ trace'[k] = trace[k]
                               \/ trace'[k].call = seq[t] /\ trace'[k].err = err[t]
        /\ \A u \in Threads \ {t} : pc'[u] = pc[u]
    BY <1>4, HeaderSteps
  <2>3. seq[t] # 0 /\ pc[t] # "out"
    BY <1>4, TracingFrame DEF Control
  <2>4. LateOnly'
    <3>1. pc[t] \in Recording
      BY <1>4 DEF Tracing, ReadMask, ReadRecordId, FilpOpen, WriteHeader,
         WritePath1, WritePath2, WriteContent, Bump, Recording
    <3>2. pc'[t] = "interpose" => cur[t].op = "mkdir" \/ (cur[t].op = "create" /\ err[t] = 0)
      BY <1>0, <1>4 DEF Tracing, ReadMask, ReadRecordId, FilpOpen, WriteHeader,
         WritePath1, WritePath2, WriteContent, Bump, Goto, AfterTrace, AfterPath1
    <3>3. cur[t].op = "mkdir" => err[t] = 0
      BY <3>1 DEF LateOnly
    <3> QED BY <2>1, <2>2, <3>2, <3>3 DEF LateOnly, Late
  <2>5. Running'
    BY <2>1
  <2>6. HeaderErrs'
    BY <2>1, <2>2, <2>3 DEF Control, LateFailure
  <2>7. RecordedErrReturned'
    BY <2>1, <2>2, <2>3
  <2> QED BY <2>4, <2>5, <2>6, <2>7
<1>5. ASSUME NEW t \in Threads, Interpose(t) PROVE ErrInv'
  <2>1. PICK e \in InterposeResults :
          /\ pc[t] = "interpose" /\ pc' = [pc EXCEPT ![t] = "out"]
          /\ err' = [err EXCEPT ![t] = e] /\ UNCHANGED <<trace, effects, cur, seq>>
    BY <1>5 DEF Interpose, Goto
  <2>2. e = 0 \/ (e = Fail /\ "interpose" \in Faults)
    BY <2>1 DEF InterposeResults
  <2>3. cur[t].op \in Late /\ err[t] = 0
    BY <2>1 DEF LateOnly
  <2>4. Headers' = Headers
    BY <2>1 DEF Headers, IsHeader
  <2>5. LateOnly'
    BY <1>0, <2>1 DEF LateOnly, Recording
  <2>6. HeaderErrs'
    <3> SUFFICES ASSUME NEW k \in Headers, NEW u \in Threads,
                        seq[u] # 0, trace[k].call = seq[u]
                 PROVE  trace[k].err = err'[u] \/ (trace[k].err = 0 /\ LateFailure(u)')
      BY <2>1, <2>4
    <3>1. trace[k].err = err[u] \/ (trace[k].err = 0 /\ LateFailure(u))
      OBVIOUS
    <3>2. CASE u = t
      <4>1. trace[k].err = 0
        BY <2>3, <3>1, <3>2
      <4>2. err'[u] = e /\ pc'[u] = "out"
        BY <1>0, <2>1, <3>2
      <4> QED BY <2>1, <2>2, <2>3, <3>2, <4>1, <4>2 DEF LateFailure
    <3>3. CASE u # t
      <4>1. err'[u] = err[u] /\ pc'[u] = pc[u]
        BY <1>0, <2>1, <3>3
      <4> QED BY <2>1, <3>1, <4>1 DEF LateFailure
    <3> QED BY <3>2, <3>3
  <2> QED BY <2>1, <2>4, <2>5, <2>6
<1>6. ASSUME NEW t \in Threads, Return(t) PROVE ErrInv'
  <2>1. /\ UNCHANGED trace /\ seq' = [seq EXCEPT ![t] = 0]
        /\ cur' = [cur EXCEPT ![t] = NoCall] /\ err' = [err EXCEPT ![t] = 0]
        /\ pc' = [pc EXCEPT ![t] = "idle"]
    BY <1>6 DEF Return, Goto
  <2>2. LateOnly'
    BY <1>0, <2>1 DEF LateOnly, Recording
  <2>3. CASE seq[t] = 0
    <3>1. effects' = effects
      BY <1>6, <2>3 DEF Return
    <3> QED BY <1>0, <1>1, <2>1, <2>2, <3>1
  <2>4. CASE seq[t] # 0
    <3>1. /\ \A j \in 1 .. Len(effects) : j # seq[t] => effects'[j] = effects[j]
          /\ effects'[seq[t]] = [call |-> cur[t], returned |-> TRUE, ret |-> err[t]]
      BY <1>6, <2>4, ReturnEntry
    <3>2. Headers' = Headers
      BY <2>1 DEF Headers, IsHeader
    <3>3. HeaderErrs'
      BY <1>0, <2>1, <3>2 DEF LateFailure
    <3>4. Running'
      BY <1>0, <2>1, <3>1 DEF Control
    <3>5. RecordedErrReturned'
      <4> SUFFICES ASSUME NEW k \in Headers, effects'[trace[k].call].returned
                   PROVE  \/ effects'[trace[k].call].ret = trace[k].err
                          \/ /\ effects'[trace[k].call].call.op \in Late
                             /\ "interpose" \in Faults /\ trace[k].err = 0
                             /\ effects'[trace[k].call].ret = Fail
        BY <2>1, <3>2 DEF Late
      <4>1. CASE trace[k].call = seq[t]
        <5>1. trace[k].err = err[t] \/ (trace[k].err = 0 /\ LateFailure(t))
          BY <2>4, <4>1
        <5> QED BY <3>1, <4>1, <5>1 DEF LateFailure
      <4>2. CASE trace[k].call # seq[t]
        BY <1>0, <3>1, <4>2 DEF Late
      <4> QED BY <4>1, <4>2
    <3> QED BY <2>2, <3>3, <3>4, <3>5
  <2> QED BY <2>3, <2>4
<1>7. ASSUME NEW t \in Threads, seq[t] = 0, NEW l \in {"called", "locking"},
             pc' = [pc EXCEPT ![t] = l],
             \A u \in Threads \ {t} : cur'[u] = cur[u], UNCHANGED <<trace, effects, seq, err>>
      PROVE  ErrInv'
  <2>1. LateOnly'
    BY <1>0, <1>7 DEF LateOnly, Recording
  <2> QED BY <1>0, <1>1, <1>7, <2>1
<1>8. ASSUME UNCHANGED <<trace, effects, seq, cur, err, pc>> PROVE ErrInv'
  <2>1. LateOnly'
    BY <1>8 DEF LateOnly
  <2> QED BY <1>1, <1>8, <2>1
<1> HIDE DEF ErrInv
<1>9. ASSUME NEW m \in Masks, trfs_unlocked_ioctl(m) PROVE ErrInv'
  BY <1>8, <1>9 DEF trfs_unlocked_ioctl
<1>10. ASSUME UNCHANGED vars PROVE ErrInv'
  BY <1>8, <1>10 DEF vars
<1>11. ASSUME NEW t \in Threads, Handler(t) PROVE ErrInv'
  BY <1>2, <1>3, <1>11, HandlerCases
<1>12. ASSUME NEW t \in Threads, NEW c \in Calls, Invoke(t, c) PROVE ErrInv'
  <2>1. seq[t] = 0 /\ pc' = [pc EXCEPT ![t] = "called"] /\ cur' = [cur EXCEPT ![t] = c]
        /\ UNCHANGED <<trace, effects, seq, err>>
    BY <1>12 DEF Invoke, Control, Goto
  <2> QED BY <1>0, <1>7, <2>1
<1>13. ASSUME NEW t \in Threads, LockRename(t) PROVE ErrInv'
  <2>1. seq[t] = 0 /\ pc' = [pc EXCEPT ![t] = "locking"]
        /\ UNCHANGED <<trace, effects, seq, err, cur>>
    BY <1>13 DEF LockRename, Control, Goto
  <2> QED BY <1>7, <2>1
<1> QED
  BY <1>4, <1>5, <1>6, <1>9, <1>10, <1>11, <1>12, <1>13 DEF Next, Step

(* ErrInv holds throughout.                                                  *)
LEMMA ErrInvariant == Spec => []ErrInv
<1>1. Init => ErrInv
  BY DEF Init, ErrInv, LateOnly, Running, HeaderErrs, RecordedErrReturned, Headers
<1>2. TypeOK /\ Control /\ OrderInv /\ ErrInv /\ [Next]_vars => ErrInv'
  BY ErrStep
<1> QED BY <1>1, <1>2, TypeCorrect, OrderInvariant, PTL DEF Spec

(* Whatever the threads do and whatever fails, the err in a record is the    *)
(* value its system call returned, but for a create or mkdir recorded as     *)
(* successful whose interposition failed.                                    *)
THEOREM RecordedErrCorrect == Spec => []RecordedErrReturned
<1>1. ErrInv => RecordedErrReturned
  BY DEF ErrInv
<1> QED BY <1>1, ErrInvariant, PTL

-----------------------------------------------------------------------------
(***************************************************************************)
(* Whole records or none.                                                  *)
(***************************************************************************)
(* The parts of the record of the call thread t executes.                    *)
FullParts(t) ==
  {"header", "path1"}
    \cup (IF cur[t].op \in TwoPathOps THEN {"path2"} ELSE {})
    \cup (IF cur[t].op = "write" /\ err[t] > 0 THEN {"content"} ELSE {})

(* What has been written of a running call's record, by its label: the       *)
(* strengthening that AllOrNothing needs of the calls that have not          *)
(* returned.  A thread that has died may have left any beginning.            *)
SoFar(t, parts) ==
  /\ pc[t] \in {"mask", "id", "tfile", "header"} => parts = {}
  /\ pc[t] = "path1" => parts = {"header"}
  /\ pc[t] \in {"path2", "content"} => parts = {"header", "path1"}
  /\ pc[t] = "content" => cur[t].op = "write"
  /\ pc[t] = "bump" => parts = FullParts(t)
  /\ pc[t] \in {"interpose", "out"} => parts \in {{}, FullParts(t)}

WholeInv ==
  /\ \A t \in Threads : seq[t] # 0 => SoFar(t, PartsOf(seq[t]))
  /\ \A n \in DOMAIN effects :
       effects[n].returned => PartsOf(n) \in {{}, RecordParts(n)}

(* A piece that is added shows among the parts of its call only.             *)
LEMMA PartsAppend ==
  ASSUME TypeOK, NEW piece \in Piece, trace' = Append(trace, piece), NEW n \in Nat
  PROVE  PartsOf(n)' = IF piece.call = n THEN PartsOf(n) \cup {piece.part} ELSE PartsOf(n)
<1>1. trace \in Seq(Piece)
  BY DEF TypeOK, Piece
<1>2. /\ DOMAIN trace = 1 .. Len(trace) /\ DOMAIN trace' = 1 .. Len(trace) + 1
      /\ Len(trace) \in Nat /\ trace'[Len(trace) + 1] = piece
      /\ \A k \in 1 .. Len(trace) : trace'[k] = trace[k]
  BY <1>1
<1>3. \A p : p \in PartsOf(n) <=> \E k \in 1 .. Len(trace) : trace[k].call = n /\ trace[k].part = p
  BY <1>2 DEF PartsOf
<1>4. \A p : p \in PartsOf(n)' <=>
               \E k \in 1 .. Len(trace) + 1 : trace'[k].call = n /\ trace'[k].part = p
  BY <1>2 DEF PartsOf
<1>5. \A p : p \in PartsOf(n)' <=> (p \in PartsOf(n) \/ (piece.call = n /\ p = piece.part))
  BY <1>2, <1>3, <1>4
<1> QED BY <1>5

(* A call without a piece has no parts.                                      *)
LEMMA NoParts ==
  ASSUME NEW n, \A k \in DOMAIN trace : trace[k].call # n
  PROVE  PartsOf(n) = {}
  BY DEF PartsOf

(* A vfs_write that does not fail adds the piece to the parts of the call,   *)
(* and changes no other call's.                                              *)
LEMMA WriteParts ==
  ASSUME TypeOK, "enospc" \notin Faults, NEW t \in Threads,
         NEW piece \in Piece, piece.call = seq[t], VfsWrite(piece)
  PROVE  \A n \in Nat : PartsOf(n)' = IF n = seq[t] THEN PartsOf(n) \cup {piece.part}
                                      ELSE PartsOf(n)
<1>1. trace' = Append(trace, piece)
  BY VfsWriteAppends
<1>2. \A n \in Nat : PartsOf(n)' = IF piece.call = n THEN PartsOf(n) \cup {piece.part}
                                   ELSE PartsOf(n)
  BY <1>1, PartsAppend
<1> QED BY <1>2

(* A step of a thread that leaves effects alone and writes about its own     *)
(* call only preserves WholeInv if its own record is as its label says.      *)
LEMMA WholeFrame ==
  ASSUME TypeOK, Control, ErrInv, WholeInv, NEW t \in Threads, UNCHANGED effects,
         seq'[t] = seq[t], seq[t] # 0 => SoFar(t, PartsOf(seq[t]))',
         \A u \in Threads \ {t} : /\ pc'[u] = pc[u] /\ cur'[u] = cur[u]
                                  /\ err'[u] = err[u] /\ seq'[u] = seq[u],
         \A n \in Nat : n # seq[t] => PartsOf(n)' = PartsOf(n)
  PROVE  WholeInv'
<1>0. /\ \A u \in Threads : seq[u] \in Nat
      /\ DOMAIN effects = 1 .. Len(effects) /\ Len(effects) \in Nat
  BY DEF TypeOK
<1>1. ASSUME NEW u \in Threads, seq'[u] # 0
      PROVE  SoFar(u, PartsOf(seq[u]))'
  <2>1. CASE u = t
    BY <1>1, <2>1
  <2>2. CASE u # t
    <3>1. seq[u] # 0 /\ seq[u] # seq[t]
      BY <1>1, <2>2 DEF Control
    <3>2. PartsOf(seq[u])' = PartsOf(seq[u])
      <4>1. PartsOf(seq[u])' = {trace'[k].part : k \in {j \in DOMAIN trace' : trace'[j].call = seq[u]}}
        BY <2>2 DEF PartsOf
      <4>2. \A n \in Nat : PartsOf(n)' = {trace'[k].part : k \in {j \in DOMAIN trace' : trace'[j].call = n}}
        BY DEF PartsOf
      <4> QED BY <1>0, <3>1, <4>1, <4>2
    <3>3. SoFar(u, PartsOf(seq[u]))
      BY <3>1 DEF WholeInv
    <3> QED BY <2>2, <3>2, <3>3 DEF SoFar, FullParts
  <2> QED BY <2>1, <2>2
<1>2. ASSUME NEW n \in DOMAIN effects, effects[n].returned
      PROVE  PartsOf(n)' \in {{}, RecordParts(n)'}
  <2>1. n \in Nat /\ n # seq[t]
    BY <1>0, <1>2 DEF ErrInv, Running
  <2>2. RecordParts(n)' = RecordParts(n)
    BY DEF RecordParts
  <2> QED BY <1>2, <2>1, <2>2 DEF WholeInv
<1> QED BY <1>1, <1>2 DEF WholeInv

(* The steps of the tracing block keep the parts as the labels say.          *)
LEMMA WholeTracing ==
  ASSUME TypeOK, Control, ErrInv, WholeInv, "enospc" \notin Faults,
         NEW t \in Threads, Tracing(t)
  PROVE  WholeInv'
<1>0. pc \in [Threads -> PCs] /\ seq \in [Threads -> Nat]
  BY DEF TypeOK
<1>1. /\ UNCHANGED <<cur, err, seq, effects>> /\ seq[t] # 0
      /\ \A u \in Threads \ {t} : pc'[u] = pc[u]
  BY <1>0, TracingFrame DEF Control
<1>2. SoFar(t, PartsOf(seq[t])) /\ FullParts(t)' = FullParts(t)
  BY <1>1 DEF WholeInv, FullParts
<1>3. ASSUME SoFar(t, PartsOf(seq[t]))', \A n \in Nat : n # seq[t] => PartsOf(n)' = PartsOf(n)
      PROVE  WholeInv'
  BY <1>1, <1>3, WholeFrame
<1>4. \A n \in Nat : PartsOf(n)' = {trace'[k].part : k \in {j \in DOMAIN trace' : trace'[j].call = n}}
  BY DEF PartsOf
<1>5. PartsOf(seq[t])' = {trace'[k].part : k \in {j \in DOMAIN trace' : trace'[j].call = seq[t]}}
  BY <1>1 DEF PartsOf
<1>6. ASSUME NEW piece \in Piece, piece.call = seq[t], VfsWrite(piece),
             pc[t] \notin {"path1", "header"} =>
               PartsOf(seq[t]) \cup {piece.part} = FullParts(t) /\ pc'[t] = "bump",
             pc[t] = "path1" => /\ piece.part = "path1"
                                /\ pc'[t] = AfterPath1(t),
             pc[t] = "header" => piece.part = "header" /\ pc'[t] = "path1"
      PROVE  WholeInv'
  <2>1. \A n \in Nat : PartsOf(n)' = IF n = seq[t] THEN PartsOf(n) \cup {piece.part}
                                     ELSE PartsOf(n)
    BY <1>6, WriteParts
  <2>2. PartsOf(seq[t])' = PartsOf(seq[t]) \cup {piece.part}
    BY <1>0, <1>4, <1>5, <2>1
  <2>3. SoFar(t, PartsOf(seq[t]))'
    <3>1. CASE pc[t] \notin {"path1", "header"}
      BY <1>2, <1>6, <2>2, <3>1 DEF SoFar
    <3>2. CASE pc[t] = "path1"
      <4>1. PartsOf(seq[t])' = {"header", "path1"} /\ cur' = cur
        BY <1>1, <1>2, <1>6, <2>2, <3>2 DEF SoFar
      <4>2. AfterPath1(t) = "bump" => FullParts(t) = {"header", "path1"}
        BY DEF AfterPath1, FullParts
      <4>3. AfterPath1(t) = "content" => cur[t].op = "write"
        BY DEF AfterPath1
      <4>4. AfterPath1(t) \in {"path2", "content", "bump"}
        BY Labels
      <4> QED BY <1>2, <1>6, <3>2, <4>1, <4>2, <4>3, <4>4 DEF SoFar
    <3>3. CASE pc[t] = "header"
      BY <1>2, <1>6, <2>2, <3>3 DEF SoFar
    <3> QED BY <3>1, <3>2, <3>3
  <2> QED BY <1>3, <2>1, <2>3
<1>7. ASSUME trace' = trace, SoFar(t, PartsOf(seq[t]))' PROVE WholeInv'
  <2>1. \A n \in Nat : n # seq[t] => PartsOf(n)' = PartsOf(n)
    BY <1>7 DEF PartsOf
  <2> QED BY <1>3, <1>7, <2>1
<1>8. ASSUME trace' = trace PROVE PartsOf(seq[t])' = PartsOf(seq[t])
  BY <1>1, <1>8 DEF PartsOf
<1>9. CASE ReadMask(t)
  <2>1. trace' = trace /\ pc[t] = "mask" /\ pc'[t] \in {"id", "interpose", "out"}
    BY <1>0, <1>9, Labels DEF ReadMask, Goto
  <2> QED BY <1>2, <1>7, <1>8, <2>1 DEF SoFar
<1>10. CASE ReadRecordId(t) \/ FilpOpen(t)
  <2>1. /\ trace' = trace /\ pc[t] \in {"id", "tfile"}
        /\ pc'[t] \in {"tfile", "header", "oops"}
    BY <1>0, <1>10 DEF ReadRecordId, FilpOpen, Goto
  <2> QED BY <1>2, <1>7, <1>8, <2>1 DEF SoFar
<1>11. CASE WriteHeader(t)
  <2>1. HeaderOf(t) \in Piece /\ HeaderOf(t).call = seq[t] /\ HeaderOf(t).part = "header"
    BY PieceTypes DEF Piece, HeaderOf
  <2>2. VfsWrite(HeaderOf(t)) /\ pc[t] = "header" /\ pc'[t] = "path1"
    BY <1>0, <1>11 DEF WriteHeader, Goto
  <2> QED BY <1>6, <2>1, <2>2
<1>12. CASE WritePath1(t)
  <2> DEFINE p == [part |-> "path1", call |-> seq[t], text |-> Path1Text(cur[t])]
  <2>1. p \in Piece /\ p.call = seq[t] /\ p.part = "path1"
    BY PieceTypes DEF Piece
  <2>2. VfsWrite(p) /\ pc[t] = "path1" /\ pc'[t] = AfterPath1(t)
    BY <1>0, <1>12 DEF WritePath1, Goto
  <2> HIDE DEF p
  <2> QED BY <1>6, <2>1, <2>2
<1>13. CASE WritePath2(t)
  <2> DEFINE p == [part |-> "path2", call |-> seq[t], text |-> Whole(cur[t].p2)]
  <2>1. cur[t].op \in TwoPathOps /\ pc[t] = "path2"
    BY <1>13 DEF Control, WritePath2
  <2>2. p \in Piece /\ p.call = seq[t] /\ p.part = "path2"
    BY <2>1, PieceTypes DEF Piece
  <2>3. VfsWrite(p) /\ pc'[t] = "bump"
    BY <1>0, <1>13 DEF WritePath2, Goto
  <2>4. FullParts(t) = {"header", "path1", "path2"}
    BY <2>1 DEF FullParts, TwoPathOps
  <2>5. PartsOf(seq[t]) = {"header", "path1"}
    BY <1>2, <2>1 DEF SoFar
  <2> HIDE DEF p
  <2> QED BY <1>6, <2>1, <2>2, <2>3, <2>4, <2>5
<1>14. CASE WriteContent(t)
  <2> DEFINE p == [part |-> "content", call |-> seq[t]]
  <2>1. pc[t] = "content" /\ pc'[t] = "bump" /\ cur[t].op = "write"
        /\ PartsOf(seq[t]) = {"header", "path1"}
    BY <1>0, <1>2, <1>14 DEF WriteContent, Goto, SoFar
  <2>2. p \in Piece /\ p.call = seq[t] /\ p.part = "content"
    BY PieceTypes DEF Piece
  <2>3. CASE err[t] > 0
    <3>1. VfsWrite(p)
      BY <1>14, <2>3 DEF WriteContent
    <3>2. FullParts(t) = {"header", "path1", "content"}
      BY <2>1, <2>3 DEF FullParts, TwoPathOps
    <3> HIDE DEF p
    <3> QED BY <1>6, <2>1, <2>2, <3>1, <3>2
  <2>4. CASE ~(err[t] > 0)
    <3>1. trace' = trace
      BY <1>14, <2>4 DEF WriteContent
    <3>2. FullParts(t) = {"header", "path1"}
      BY <2>1, <2>4 DEF FullParts, TwoPathOps
    <3> QED BY <1>2, <1>7, <1>8, <2>1, <3>1, <3>2 DEF SoFar
  <2> QED BY <2>3, <2>4
<1>15. CASE Bump(t)
  <2>1. trace' = trace /\ pc[t] = "bump" /\ pc'[t] \in {"interpose", "out"}
    BY <1>0, <1>15, Labels DEF Bump, Goto
  <2> QED BY <1>2, <1>7, <1>8, <2>1 DEF SoFar
<1> QED BY <1>9, <1>10, <1>11, <1>12, <1>13, <1>14, <1>15 DEF Tracing

(* A step of trfs preserves WholeInv, if no write to the trace file fails.   *)
LEMMA WholeStep ==
  ASSUME TypeOK, Control, OrderInv, ErrInv, WholeInv, "enospc" \notin Faults, [Next]_vars
  PROVE  WholeInv'
<1>0. /\ pc \in [Threads -> PCs] /\ seq \in [Threads -> Nat] /\ cur \in [Threads -> Calls]
      /\ err \in [Threads -> Results]
      /\ DOMAIN effects = 1 .. Len(effects) /\ Len(effects) \in Nat
      /\ \A u \in Threads : seq[u] # 0 => seq[u] \in 1 .. Len(effects)
  BY DEF TypeOK, Control
<1>1. ASSUME trace' = trace PROVE \A n : PartsOf(n)' = PartsOf(n)
  BY <1>1 DEF PartsOf
<1>2. ASSUME NEW t \in Threads, seq'[t] = seq[t], UNCHANGED <<trace, effects>>,
             \A u \in Threads \ {t} : /\ pc'[u] = pc[u] /\ cur'[u] = cur[u]
                                      /\ err'[u] = err[u] /\ seq'[u] = seq[u],
             \/ seq[t] = 0
             \/ /\ pc'[t] = pc[t] /\ cur'[t] = cur[t] /\ err'[t] = err[t]
             \/ /\ pc[t] = "interpose" /\ pc'[t] = "out" /\ cur'[t] = cur[t]
      PROVE  WholeInv'
  <2>1. \A n \in Nat : n # seq[t] => PartsOf(n)' = PartsOf(n)
    BY <1>2 DEF PartsOf
  <2>2. ASSUME seq[t] # 0 PROVE SoFar(t, PartsOf(seq[t]))'
    <3>1. PartsOf(seq[t])' = PartsOf(seq[t]) /\ SoFar(t, PartsOf(seq[t]))
      BY <1>2, <2>2 DEF PartsOf, WholeInv
    <3>2. FullParts(t)' = FullParts(t)
      <4>1. CASE err'[t] = err[t]
        BY <1>2, <2>2, <4>1 DEF FullParts
      <4>2. CASE pc[t] = "interpose"
        <5>1. cur[t].op \in {"create", "mkdir"} /\ cur'[t] = cur[t]
          BY <1>2, <2>2, <4>2 DEF ErrInv, LateOnly, Late
        <5> QED BY <5>1 DEF FullParts
      <4> QED BY <1>2, <2>2, <4>1, <4>2
    <3> QED BY <1>2, <2>2, <3>1, <3>2 DEF SoFar
  <2> QED BY <1>2, <2>1, <2>2, WholeFrame
<1>3. ASSUME NEW t \in Threads, NEW op \in Ops, NEW e \in Results,
             NEW label \in {"mask", "out"}, LowerCall(t, op, e, label)
      PROVE  WholeInv'
  <2>1. /\ UNCHANGED <<trace, cur>> /\ seq' = [seq EXCEPT ![t] = Len(effects) + 1]
        /\ err' = [err EXCEPT ![t] = e] /\ pc' = [pc EXCEPT ![t] = label]
    BY <1>3 DEF LowerCall, Goto
  <2>2. /\ \A j \in 1 .. Len(effects) : effects'[j] = effects[j]
        /\ ~effects'[Len(effects) + 1].returned /\ Len(effects') = Len(effects) + 1
    BY <1>3, LowerCallEffects
  <2>3. PartsOf(Len(effects) + 1) = {}
    <3>1. \A k \in DOMAIN trace : trace[k].call # Len(effects) + 1
      BY <1>0 DEF OrderInv, PiecesExist
    <3> QED BY <3>1, NoParts
  <2>4. ASSUME NEW u \in Threads, seq'[u] # 0 PROVE SoFar(u, PartsOf(seq[u]))'
    <3>1. CASE u = t
      <4>1. PartsOf(seq[u])' = {} /\ pc'[u] \in {"mask", "out"}
        BY <1>0, <2>1, <2>3, <3>1 DEF PartsOf
      <4> QED BY <4>1 DEF SoFar
    <3>2. CASE u # t
      <4>1. /\ seq'[u] = seq[u] /\ pc'[u] = pc[u] /\ cur'[u] = cur[u] /\ err'[u] = err[u]
        BY <1>0, <2>1, <3>2
      <4>2. SoFar(u, PartsOf(seq[u])) /\ PartsOf(seq[u])' = PartsOf(seq[u])
        BY <2>1, <2>4, <4>1 DEF WholeInv, PartsOf
      <4> QED BY <4>1, <4>2 DEF SoFar, FullParts
    <3> QED BY <3>1, <3>2
  <2>5. ASSUME NEW n \in DOMAIN effects', effects'[n].returned
        PROVE  PartsOf(n)' \in {{}, RecordParts(n)'}
    <3>1. effects' \in Seq(Effect)
      BY TypeStep DEF TypeOK
    <3>2. n \in DOMAIN effects /\ effects'[n] = effects[n]
      BY <1>0, <2>2, <2>5, <3>1
    <3>3. RecordParts(n)' = RecordParts(n) /\ PartsOf(n)' = PartsOf(n)
      BY <1>1, <2>1, <3>2 DEF RecordParts
    <3> QED BY <2>5, <3>2, <3>3 DEF WholeInv
  <2> QED BY <2>4, <2>5 DEF WholeInv
<1>4. ASSUME NEW t \in Threads, OpenFails(t) PROVE WholeInv'
  <2>1. seq[t] = 0
    BY <1>4 DEF OpenFails, Control
  <2> QED BY <1>0, <1>2, <1>4, <2>1 DEF OpenFails, Goto
<1>5. ASSUME NEW t \in Threads, Interpose(t) PROVE WholeInv'
  BY <1>0, <1>2, <1>5 DEF Interpose, Goto
<1>6. ASSUME NEW t \in Threads, Return(t) PROVE WholeInv'
  <2>1. /\ UNCHANGED trace /\ seq' = [seq EXCEPT ![t] = 0] /\ pc[t] = "out"
        /\ \A u \in Threads \ {t} : /\ pc'[u] = pc[u] /\ cur'[u] = cur[u]
                                    /\ err'[u] = err[u] /\ seq'[u] = seq[u]
    BY <1>0, <1>6 DEF Return, Goto
  <2>2. CASE seq[t] = 0
    <3>1. effects' = effects /\ seq'[t] = seq[t]
      BY <1>0, <1>6, <2>1, <2>2 DEF Return
    <3> QED BY <1>2, <2>1, <2>2, <3>1
  <2>3. CASE seq[t] # 0
    <3>1. /\ \A j \in 1 .. Len(effects) : j # seq[t] => effects'[j] = effects[j]
          /\ effects'[seq[t]] = [call |-> cur[t], returned |-> TRUE, ret |-> err[t]]
          /\ Len(effects') = Len(effects)
      BY <1>6, <2>3, ReturnEntry
    <3>2. DOMAIN effects' = DOMAIN effects
      <4>1. effects' \in Seq(Effect)
        BY TypeStep DEF TypeOK
      <4> QED BY <1>0, <3>1, <4>1
    <3>3. ASSUME NEW u \in Threads, seq'[u] # 0 PROVE SoFar(u, PartsOf(seq[u]))'
      <4>1. u # t
        BY <1>0, <2>1, <3>3
      <4>2. SoFar(u, PartsOf(seq[u])) /\ PartsOf(seq[u])' = PartsOf(seq[u])
        BY <2>1, <3>3, <4>1 DEF WholeInv, PartsOf
      <4> QED BY <2>1, <4>1, <4>2 DEF SoFar, FullParts
    <3>4. ASSUME NEW n \in DOMAIN effects, effects'[n].returned
          PROVE  PartsOf(n)' \in {{}, RecordParts(n)'}
      <4>1. PartsOf(n)' = PartsOf(n)
        BY <1>1, <2>1
      <4>2. CASE n = seq[t]
        <5>1. PartsOf(seq[t]) \in {{}, FullParts(t)}
          BY <2>1, <2>3 DEF WholeInv, SoFar
        <5>2. RecordParts(n)' = FullParts(t)
          BY <3>1, <4>2 DEF RecordParts, FullParts
        <5> QED BY <4>1, <4>2, <5>1, <5>2
      <4>3. CASE n # seq[t]
        <5>1. effects'[n] = effects[n]
          BY <1>0, <3>1, <4>3
        <5>2. RecordParts(n)' = RecordParts(n)
          BY <5>1 DEF RecordParts
        <5> QED BY <3>4, <4>1, <5>1, <5>2 DEF WholeInv
      <4> QED BY <4>2, <4>3
    <3> QED BY <3>2, <3>3, <3>4 DEF WholeInv
  <2> QED BY <2>2, <2>3
<1>7. ASSUME NEW t \in Threads, NEW c \in Calls, Invoke(t, c) PROVE WholeInv'
  <2>1. seq[t] = 0
    BY <1>7 DEF Invoke, Control
  <2> QED BY <1>0, <1>2, <1>7, <2>1 DEF Invoke, Goto
<1>8. ASSUME UNCHANGED <<trace, effects, seq, cur, err, pc>> PROVE WholeInv'
  <2>1. ASSUME NEW u \in Threads, seq'[u] # 0 PROVE SoFar(u, PartsOf(seq[u]))'
    <3>1. SoFar(u, PartsOf(seq[u])) /\ PartsOf(seq[u])' = PartsOf(seq[u])
      BY <1>8, <2>1 DEF WholeInv, PartsOf
    <3> QED BY <1>8, <3>1 DEF SoFar, FullParts
  <2>2. \A n : RecordParts(n)' = RecordParts(n) /\ PartsOf(n)' = PartsOf(n)
    BY <1>1, <1>8 DEF RecordParts
  <2> QED BY <1>8, <2>1, <2>2 DEF WholeInv
<1>9. ASSUME NEW m \in Masks, trfs_unlocked_ioctl(m) PROVE WholeInv'
  BY <1>8, <1>9 DEF trfs_unlocked_ioctl
<1>10. ASSUME UNCHANGED vars PROVE WholeInv'
  BY <1>8, <1>10 DEF vars
<1>11. ASSUME NEW t \in Threads, Handler(t) PROVE WholeInv'
  BY <1>3, <1>4, <1>11, HandlerCases
<1>13. ASSUME NEW t \in Threads, LockRename(t) PROVE WholeInv'
  <2>1. seq[t] = 0
    BY <1>13 DEF LockRename, Control
  <2> QED BY <1>0, <1>2, <1>13, <2>1 DEF LockRename, Goto
<1>12. ASSUME NEW t \in Threads, Tracing(t) PROVE WholeInv'
  BY <1>12, WholeTracing
<1> QED BY <1>5, <1>6, <1>7, <1>9, <1>10, <1>11, <1>12, <1>13 DEF Next, Step

(* A call that has returned left a whole record or nothing, for any number   *)
(* of threads and whatever ioctl changes the mask in between: only a failing *)
(* write to the trace file leaves a part of one.                             *)
THEOREM WholeRecords == Spec => []AllOrNothing
<1>1. Init => WholeInv
  BY DEF Init, WholeInv
<1>2. WholeInv => AllOrNothing
  BY DEF WholeInv, AllOrNothing
<1>3. CASE "enospc" \notin Faults
  <2>1. TypeOK /\ Control /\ OrderInv /\ ErrInv /\ WholeInv /\ [Next]_vars => WholeInv'
    BY <1>3, WholeStep
  <2> QED BY <1>1, <1>2, <2>1, TypeCorrect, OrderInvariant, ErrInvariant, PTL DEF Spec
<1>4. CASE "enospc" \in Faults
  <2>1. AllOrNothing
    BY <1>4 DEF AllOrNothing
  <2> QED BY <2>1, PTL
<1> QED BY <1>3, <1>4

-----------------------------------------------------------------------------
(***************************************************************************)
(* Records that follow each other.                                         *)
(***************************************************************************)
(* A failed write is recorded with a write_len that no content follows: the  *)
(* one case in which even serialised records do not follow each other as     *)
(* their headers announce.                                                   *)
NoFailedWrite == \A k \in Headers : trace[k].op = "write" => trace[k].err >= 0

(* A handler in the middle of its record.                                    *)
Middle == {"path1", "path2", "content"}

(* The records that begin in the first n pieces also end there.              *)
Done(n) == \A k \in Headers : k <= n => k + Len(Body(trace[k])) <= n

(* Where the trace ends, by the label of the one thread that traces: after   *)
(* its header, after its first path, or else at the end of a record.         *)
LastPart ==
  /\ (\A t \in Threads : pc[t] \notin Middle) => Done(Len(trace))
  /\ \A t \in Threads :
       /\ pc[t] = "path1" =>
            /\ Len(trace) >= 1 /\ trace[Len(trace)] = HeaderOf(t)
            /\ Done(Len(trace) - 1)
       /\ pc[t] \in {"path2", "content"} =>
            /\ Len(trace) >= 2 /\ trace[Len(trace) - 1] = HeaderOf(t)
            /\ Len(trace) \notin Headers /\ Done(Len(trace) - 2)
       /\ pc[t] = "content" => cur[t].op = "write"

FrameInv == NoFailedWrite => WellFramed /\ LastPart

(* The pieces that follow a header.                                          *)
LEMMA BodyOfHeader ==
  ASSUME NEW h \in Header
  PROVE  /\ DOMAIN Body(h) = 1 .. Len(Body(h))
         /\ Len(Body(h)) = 1 + (IF h.path2 THEN 1 ELSE 0) + (IF h.write_len # 0 THEN 1 ELSE 0)
         /\ Body(h)[1] = "path1"
         /\ h.path2 => Body(h)[2] = "path2"
         /\ ~h.path2 /\ h.write_len # 0 => Body(h)[2] = "content"
<1> DEFINE S     == {"path1", "path2", "content"}
           one   == <<"path1">>
           two   == IF h.path2 THEN <<"path2">> ELSE <<>>
           three == IF h.write_len # 0 THEN <<"content">> ELSE <<>>
<1>1. /\ two \in Seq(S) /\ Len(two) = IF h.path2 THEN 1 ELSE 0
      /\ h.path2 => two[1] = "path2"
  <2>1. CASE h.path2
    <3>1. two = <<"path2">>
      BY <2>1
    <3> QED BY <2>1, <3>1
  <2>2. CASE ~h.path2
    <3>1. two = <<>>
      BY <2>2
    <3> QED BY <2>2, <3>1
  <2> QED BY <2>1, <2>2
<1>2. /\ three \in Seq(S) /\ Len(three) = IF h.write_len # 0 THEN 1 ELSE 0
      /\ h.write_len # 0 => three[1] = "content"
  <2>1. CASE h.write_len # 0
    <3>1. three = <<"content">>
      BY <2>1
    <3> QED BY <2>1, <3>1
  <2>2. CASE h.write_len = 0
    <3>1. three = <<>>
      BY <2>2
    <3> QED BY <2>2, <3>1
  <2> QED BY <2>1, <2>2
<1>3. one \in Seq(S) /\ Len(one) = 1 /\ one[1] = "path1"
  OBVIOUS
<1>4. Body(h) = one \o two \o three
  BY DEF Body
<1> HIDE DEF S, one, two, three
<1>5. /\ one \o two \in Seq(S) /\ Len(one \o two) = 1 + Len(two)
      /\ (one \o two)[1] = "path1" /\ (h.path2 => (one \o two)[2] = "path2")
  <2>1. /\ one \o two \in Seq(S) /\ Len(one \o two) = 1 + Len(two)
        /\ \A i \in 1 .. 1 + Len(two) :
             (one \o two)[i] = IF i <= 1 THEN one[i] ELSE two[i - 1]
    BY <1>1, <1>3, ConcatProperties
  <2> QED BY <1>1, <1>3, <2>1
<1>6. /\ Body(h) \in Seq(S) /\ Len(Body(h)) = Len(one \o two) + Len(three)
      /\ \A i \in 1 .. Len(one \o two) + Len(three) :
           Body(h)[i] = IF i <= Len(one \o two) THEN (one \o two)[i]
                        ELSE three[i - Len(one \o two)]
  BY <1>2, <1>4, <1>5, ConcatProperties
<1> QED BY <1>1, <1>2, <1>5, <1>6

(* A body has a length, whatever announces it.                               *)
LEMMA BodyNat == \A h : Len(Body(h)) \in Nat
<1> SUFFICES ASSUME NEW h PROVE Len(Body(h)) \in Nat
  OBVIOUS
<1> DEFINE S     == {"path1", "path2", "content"}
           two   == IF h.path2 THEN <<"path2">> ELSE <<>>
           three == IF h.write_len # 0 THEN <<"content">> ELSE <<>>
<1>1. two \in Seq(S) /\ three \in Seq(S) /\ <<"path1">> \in Seq(S)
  <2>1. <<"path1">> \in Seq(S) /\ <<"path2">> \in Seq(S) /\ <<"content">> \in Seq(S)
        /\ <<>> \in Seq(S)
    OBVIOUS
  <2> QED BY <2>1, Zenon
<1>2. Body(h) = <<"path1">> \o two \o three
  BY DEF Body
<1> HIDE DEF S, two, three
<1>3. Body(h) \in Seq(S)
  BY <1>1, <1>2, ConcatProperties
<1> QED BY <1>3, LenProperties

(* Only a handler that writes to the trace touches it or moves to or from    *)
(* the middle of a record.                                                   *)
LEMMA FrameSteps ==
  ASSUME TypeOK, Control, [Next]_vars
  PROVE  \/ /\ trace' = trace
            /\ \A u \in Threads :
                 \/ /\ pc'[u] = pc[u] /\ cur'[u] = cur[u] /\ err'[u] = err[u]
                    /\ seq'[u] = seq[u] /\ rec_id'[u] = rec_id[u]
                 \/ pc[u] \notin Middle /\ pc'[u] \notin Middle
         \/ \E t \in Threads :
              WriteHeader(t) \/ WritePath1(t) \/ WritePath2(t) \/ WriteContent(t)
<1> DEFINE Quiet ==
      /\ trace' = trace
      /\ \A u \in Threads :
           \/ /\ pc'[u] = pc[u] /\ cur'[u] = cur[u] /\ err'[u] = err[u]
              /\ seq'[u] = seq[u] /\ rec_id'[u] = rec_id[u]
           \/ pc[u] \notin Middle /\ pc'[u] \notin Middle
<1>0. /\ pc \in [Threads -> PCs] /\ rec_id \in [Threads -> Nat] /\ seq \in [Threads -> Nat]
      /\ cur \in [Threads -> Calls] /\ err \in [Threads -> Results]
  BY DEF TypeOK
<1> USE DEF Middle
<1>1. ASSUME NEW t \in Threads, NEW op \in Ops, NEW e \in Results,
             NEW label \in {"mask", "out"}, LowerCall(t, op, e, label)
      PROVE  Quiet
  BY <1>0, <1>1 DEF LowerCall, Goto
<1>2. ASSUME NEW t \in Threads, OpenFails(t) PROVE Quiet
  BY <1>0, <1>2 DEF OpenFails, Goto
<1>3. ASSUME NEW t \in Threads, ReadMask(t) PROVE Quiet
  BY <1>0, <1>3, Labels DEF ReadMask, Goto
<1>4. ASSUME NEW t \in Threads, ReadRecordId(t) PROVE Quiet
  BY <1>0, <1>4 DEF ReadRecordId, Goto
<1>5. ASSUME NEW t \in Threads, FilpOpen(t) PROVE Quiet
  BY <1>0, <1>5 DEF FilpOpen, Goto
<1>6. ASSUME NEW t \in Threads, Bump(t) PROVE Quiet
  BY <1>0, <1>6, Labels DEF Bump, Goto
<1>7. ASSUME NEW t \in Threads, Interpose(t) PROVE Quiet
  BY <1>0, <1>7 DEF Interpose, Goto
<1>8. ASSUME NEW t \in Threads, Return(t) PROVE Quiet
  BY <1>0, <1>8 DEF Return, Goto
<1>9. ASSUME NEW t \in Threads, NEW c \in Calls, Invoke(t, c) PROVE Quiet
  BY <1>0, <1>9 DEF Invoke, Goto
<1>10. ASSUME NEW m \in Masks, trfs_unlocked_ioctl(m) PROVE Quiet
  BY <1>10 DEF trfs_unlocked_ioctl
<1>11. ASSUME UNCHANGED vars PROVE Quiet
  BY <1>11 DEF vars
<1>12. ASSUME NEW t \in Threads, Handler(t) PROVE Quiet
  BY <1>1, <1>2, <1>12, HandlerCases
<1>13. ASSUME NEW t \in Threads, LockRename(t) PROVE Quiet
  BY <1>0, <1>13 DEF LockRename, Goto
<1> HIDE DEF Quiet
<1>14. Quiet \/ \E t \in Threads :
                  WriteHeader(t) \/ WritePath1(t) \/ WritePath2(t) \/ WriteContent(t)
  BY <1>3, <1>4, <1>5, <1>6, <1>7, <1>8, <1>9, <1>10, <1>11, <1>12, <1>13
     DEF Next, Step, Tracing
<1> QED BY <1>14 DEF Quiet

(* What an added piece does to the headers.                                  *)
LEMMA HeadersAppend ==
  ASSUME TypeOK, NEW piece \in Piece, trace' = Append(trace, piece)
  PROVE  /\ Len(trace) \in Nat /\ Len(trace') = Len(trace) + 1
         /\ DOMAIN trace = 1 .. Len(trace) /\ DOMAIN trace' = 1 .. Len(trace) + 1
         /\ \A k \in 1 .. Len(trace) : trace'[k] = trace[k]
         /\ trace'[Len(trace) + 1] = piece
         /\ Headers \subseteq 1 .. Len(trace)
         /\ Headers' = Headers \cup (IF piece.part = "header" THEN {Len(trace) + 1} ELSE {})
<1>1. /\ Len(trace) \in Nat /\ Len(trace') = Len(trace) + 1
      /\ DOMAIN trace = 1 .. Len(trace) /\ DOMAIN trace' = 1 .. Len(trace) + 1
      /\ \A k \in 1 .. Len(trace) : trace'[k] = trace[k]
      /\ trace'[Len(trace) + 1] = piece
  BY DEF TypeOK, Piece
<1> QED BY <1>1 DEF Headers, IsHeader

(* What WellFramed says of the record whose header is piece k.               *)
InFrame(k) ==
  /\ \A i \in DOMAIN Body(trace[k]) :
       k + i <= Len(trace) => /\ trace[k + i].part = Body(trace[k])[i]
                              /\ trace[k + i].call = trace[k].call
  /\ k + Len(Body(trace[k])) + 1 <= Len(trace)
       => IsHeader(trace[k + Len(Body(trace[k])) + 1])

(* The place after a record is the next one or within the trace.             *)
LEMMA NextPlace ==
  ASSUME NEW k \in Nat, NEW l \in Nat, NEW n \in Nat, k + l + 1 <= n + 1
  PROVE  k + l = n \/ k + l + 1 <= n
  OBVIOUS

(* What WellFramed says of one header.                                       *)
LEMMA FrameOf ==
  ASSUME WellFramed, NEW k \in Headers
  PROVE  InFrame(k)
BY DEF WellFramed, InFrame

(* A piece that continues the record that begins after the first m pieces,   *)
(* where all the records before it have ended, keeps the records in frame.   *)
LEMMA FramedAppend ==
  ASSUME TypeOK, WellFramed, NEW piece \in Piece, trace' = Append(trace, piece),
         NEW m \in 0 .. Len(trace), Done(m),
         \/ m = Len(trace) /\ piece.part = "header"
         \/ /\ piece.part # "header" /\ m + 1 \in Headers
            /\ \A k \in Headers : k <= m + 1
            /\ m < Len(trace) /\ Len(trace) - m <= Len(Body(trace[m + 1]))
            /\ Body(trace[m + 1])[Len(trace) - m] = piece.part
            /\ trace[m + 1].call = piece.call
  PROVE  WellFramed'
<1> DEFINE n == Len(trace)
<1>1. /\ n \in Nat /\ Len(trace') = n + 1
      /\ DOMAIN trace = 1 .. n /\ DOMAIN trace' = 1 .. n + 1
      /\ \A k \in 1 .. n : trace'[k] = trace[k]
      /\ trace'[n + 1] = piece
      /\ Headers \subseteq 1 .. n
      /\ Headers' = Headers \cup (IF piece.part = "header" THEN {n + 1} ELSE {})
      /\ trace \in Seq(Piece) /\ m \in Nat /\ m <= n
  BY HeadersAppend DEF TypeOK, Piece
<1>0. n = Len(trace)
  OBVIOUS
<1> HIDE DEF n
<1>2. \A k \in Headers : /\ Len(Body(trace[k])) \in Nat
                         /\ DOMAIN Body(trace[k]) = 1 .. Len(Body(trace[k]))
  BY BodyOfHeader, HeaderTypes
<1>3. trace' # <<>> => IsHeader(trace'[1])
  <2>1. CASE n = 0
    BY <1>1, <2>1 DEF IsHeader
  <2>2. CASE n # 0
    <3>1. trace # <<>> /\ trace'[1] = trace[1]
      BY <1>0, <1>1, <2>2
    <3> QED BY <3>1 DEF WellFramed, IsHeader
  <2> QED BY <2>1, <2>2
<1>4. ASSUME NEW k \in Headers, k <= m PROVE InFrame(k)'
  <2>1. trace'[k] = trace[k] /\ k + Len(Body(trace[k])) <= m /\ k \in Nat
    BY <1>1, <1>4 DEF Done
  <2>2. ASSUME NEW i \in DOMAIN Body(trace[k])
        PROVE  /\ trace'[k + i].part = Body(trace[k])[i]
               /\ trace'[k + i].call = trace[k].call
    <3>1. k + i \in 1 .. n
      BY <1>1, <1>2, <2>1, <2>2
    <3>2. k + i <= Len(trace) => /\ trace[k + i].part = Body(trace[k])[i]
                                 /\ trace[k + i].call = trace[k].call
      BY FrameOf, <2>2 DEF InFrame
    <3>3. k + i <= Len(trace) /\ trace'[k + i] = trace[k + i]
      BY <1>0, <1>1, <3>1
    <3> QED BY <3>2, <3>3
  <2>3. ASSUME k + Len(Body(trace[k])) + 1 <= n
        PROVE  IsHeader(trace'[k + Len(Body(trace[k])) + 1])
    <3>1. IsHeader(trace[k + Len(Body(trace[k])) + 1])
      BY FrameOf, <1>0, <2>3 DEF InFrame
    <3>2. k + Len(Body(trace[k])) + 1 \in 1 .. n
      BY <1>1, <1>2, <2>1, <2>3
    <3> QED BY <1>1, <3>1, <3>2 DEF IsHeader
  <2>4. ASSUME k + Len(Body(trace[k])) = n
        PROVE  IsHeader(trace'[k + Len(Body(trace[k])) + 1])
    <3>1. m = n
      BY <1>1, <2>1, <2>4
    <3>2. piece.part = "header"
      BY <1>0, <1>1, <3>1
    <3> QED BY <1>1, <2>4, <3>2 DEF IsHeader
  <2>5. \A l \in Nat : k + l + 1 <= n + 1 => (k + l = n \/ k + l + 1 <= n)
    <3>1. k \in Nat /\ n \in Nat
      BY <1>1, <2>1
    <3> QED BY <3>1, NextPlace
  <2>6. Len(Body(trace[k])) \in Nat
    BY <1>2
  <2> QED BY <1>1, <2>1, <2>2, <2>3, <2>4, <2>5, <2>6 DEF InFrame
<1>5. ASSUME m = n, piece.part = "header"
      PROVE  WellFramed'
  <2>1. \A k \in Headers' : (k \in Headers /\ k <= m) \/ k = n + 1
    <3>1. Headers' = Headers \cup {n + 1}
      BY <1>1, <1>5
    <3>2. \A k \in Headers : k <= m
      BY <1>1, <1>5
    <3> QED BY <3>1, <3>2
  <2>2. Len(Body(piece)) \in Nat /\ DOMAIN Body(piece) = 1 .. Len(Body(piece))
    <3>1. piece \in Header
      BY <1>5 DEF Piece, PathPiece, DataPiece
    <3> QED BY <3>1, BodyOfHeader
  <2>3. /\ \A i \in DOMAIN Body(trace'[n + 1]) : ~(n + 1 + i <= n + 1)
        /\ ~(n + 1 + Len(Body(trace'[n + 1])) + 1 <= n + 1)
    <3>1. \A i \in Nat \ {0} : ~(n + 1 + i <= n + 1) /\ ~(n + 1 + i + 1 <= n + 1)
      BY <1>1
    <3>2. ~(n + 1 + 0 + 1 <= n + 1)
      BY <1>1
    <3>3. trace'[n + 1] = piece
      BY <1>1
    <3> QED BY <2>2, <3>1, <3>2, <3>3
  <2>4. ASSUME NEW k, k = n + 1 PROVE InFrame(k)'
    <3>1. Len(trace') = n + 1
      BY <1>1
    <3> QED BY <2>3, <2>4, <3>1 DEF InFrame
  <2>5. \A k \in Headers' : InFrame(k)'
    BY <1>4, <2>1, <2>4
  <2> QED BY <1>3, <2>5 DEF WellFramed, InFrame
<1>6. ASSUME piece.part # "header", m + 1 \in Headers, \A k \in Headers : k <= m + 1, m < n,
             n - m <= Len(Body(trace[m + 1])),
             Body(trace[m + 1])[n - m] = piece.part, trace[m + 1].call = piece.call
      PROVE  WellFramed'
  <2>1. /\ Headers' = Headers /\ trace'[m + 1] = trace[m + 1]
        /\ \A k \in Headers : k <= m \/ k = m + 1
    <3>1. m + 1 \in 1 .. n /\ \A k \in Headers : k \in Nat
      BY <1>1, <1>6
    <3> QED BY <1>1, <1>6, <3>1
  <2>2. ASSUME NEW i \in DOMAIN Body(trace[m + 1]), m + 1 + i <= n + 1
        PROVE  /\ trace'[m + 1 + i].part = Body(trace[m + 1])[i]
               /\ trace'[m + 1 + i].call = trace[m + 1].call
    <3>1. CASE m + 1 + i <= n
      <4>1. m + 1 + i \in 1 .. n
        BY <1>1, <1>2, <1>6, <2>2, <3>1
      <4> QED BY <1>1, <1>6, <2>2, <3>1, <4>1, <1>0 DEF WellFramed
    <3>2. CASE m + 1 + i = n + 1
      <4>1. i = n - m
        BY <1>1, <1>2, <1>6, <2>2, <3>2
      <4> QED BY <1>1, <1>6, <3>2, <4>1
    <3> QED BY <1>1, <1>2, <1>6, <2>2, <3>1, <3>2
  <2>3. ~(m + 1 + Len(Body(trace[m + 1])) + 1 <= n + 1)
    BY <1>1, <1>2, <1>6
  <2>4. InFrame(m + 1)'
    BY <1>1, <2>1, <2>2, <2>3 DEF InFrame
  <2>5. \A k \in Headers' : InFrame(k)'
    BY <1>4, <2>1, <2>4
  <2> QED BY <1>3, <2>5 DEF WellFramed, InFrame
<1> QED BY <1>0, <1>5, <1>6

(* Records that have ended stay ended.                                       *)
LEMMA DoneStays ==
  ASSUME TypeOK, NEW m \in Int, m <= Len(trace), Done(m),
         \/ trace' = trace
         \/ \E piece \in Piece : trace' = Append(trace, piece)
  PROVE  Done(m)'
<1>1. CASE trace' = trace
  BY <1>1 DEF Done, Headers, IsHeader
<1>2. ASSUME NEW piece \in Piece, trace' = Append(trace, piece) PROVE Done(m)'
  <2>1. /\ Len(trace) \in Nat /\ \A k \in 1 .. Len(trace) : trace'[k] = trace[k]
        /\ Headers \subseteq 1 .. Len(trace)
        /\ Headers' \subseteq Headers \cup {Len(trace) + 1}
    BY <1>2, HeadersAppend
  <2>2. \A k \in Headers' : k <= m => k \in Headers /\ trace'[k] = trace[k]
    BY <2>1
  <2> QED BY <2>2 DEF Done
<1> QED BY <1>1, <1>2

(* The length of the record of thread t's header.                            *)
LEMMA OwnBody ==
  ASSUME TypeOK, NEW t \in Threads
  PROVE  /\ HeaderOf(t) \in Header /\ Body(HeaderOf(t))[1] = "path1"
         /\ HeaderOf(t).call = seq[t] /\ HeaderOf(t).op = cur[t].op
         /\ HeaderOf(t).err = err[t] /\ HeaderOf(t).part = "header"
         /\ cur[t].op \in TwoPathOps =>
              Len(Body(HeaderOf(t))) = 2 /\ Body(HeaderOf(t))[2] = "path2"
         /\ cur[t].op = "write" /\ err[t] # 0 =>
              Len(Body(HeaderOf(t))) = 2 /\ Body(HeaderOf(t))[2] = "content"
         /\ cur[t].op = "write" /\ err[t] = 0 => Len(Body(HeaderOf(t))) = 1
         /\ cur[t].op \notin TwoPathOps \cup {"write"} => Len(Body(HeaderOf(t))) = 1
         /\ Len(Body(HeaderOf(t))) \in Nat /\ Len(Body(HeaderOf(t))) >= 1
<1>1. HeaderOf(t) \in Header
  BY PieceTypes
<1>2. /\ HeaderOf(t).path2 = (cur[t].op \in TwoPathOps)
      /\ HeaderOf(t).write_len = IF cur[t].op = "write" THEN err[t] ELSE 0
      /\ HeaderOf(t).call = seq[t] /\ HeaderOf(t).op = cur[t].op
      /\ HeaderOf(t).err = err[t] /\ HeaderOf(t).part = "header"
  BY DEF HeaderOf
<1>3. "write" \notin TwoPathOps
  BY DEF TwoPathOps
<1>4. /\ Len(Body(HeaderOf(t))) = 1 + (IF HeaderOf(t).path2 THEN 1 ELSE 0)
                                    + (IF HeaderOf(t).write_len # 0 THEN 1 ELSE 0)
      /\ Body(HeaderOf(t))[1] = "path1"
      /\ HeaderOf(t).path2 => Body(HeaderOf(t))[2] = "path2"
      /\ ~HeaderOf(t).path2 /\ HeaderOf(t).write_len # 0 => Body(HeaderOf(t))[2] = "content"
  BY <1>1, BodyOfHeader
<1>5. ASSUME cur[t].op \in TwoPathOps
      PROVE  Len(Body(HeaderOf(t))) = 2 /\ Body(HeaderOf(t))[2] = "path2"
  <2>1. HeaderOf(t).path2 /\ HeaderOf(t).write_len = 0
    BY <1>2, <1>3, <1>5
  <2> QED BY <1>4, <2>1
<1>6. ASSUME cur[t].op = "write", err[t] # 0
      PROVE  Len(Body(HeaderOf(t))) = 2 /\ Body(HeaderOf(t))[2] = "content"
  <2>1. ~HeaderOf(t).path2 /\ HeaderOf(t).write_len # 0
    BY <1>2, <1>3, <1>6
  <2> QED BY <1>4, <2>1
<1>7. ASSUME cur[t].op \notin TwoPathOps, cur[t].op # "write" \/ err[t] = 0
      PROVE  Len(Body(HeaderOf(t))) = 1
  <2>1. ~HeaderOf(t).path2 /\ HeaderOf(t).write_len = 0
    BY <1>2, <1>7
  <2> QED BY <1>4, <2>1
<1>8. Len(Body(HeaderOf(t))) \in {1, 2}
  BY <1>5, <1>6, <1>7
<1>9. Len(Body(HeaderOf(t))) \in Nat /\ Len(Body(HeaderOf(t))) >= 1
  BY <1>8
<1> QED BY <1>1, <1>2, <1>3, <1>4, <1>5, <1>6, <1>7, <1>9

(* At the end of a record: nobody is in the middle of one.                   *)
LEMMA TailEnd ==
  ASSUME NEW m, Len(trace') = m, Done(m)',
         \A u \in Threads : pc'[u] \notin Middle
  PROVE  LastPart'
<1>1. Done(Len(trace))'
  BY DEF Done
<1> QED BY <1>1 DEF LastPart, Middle

(* The last record has ended with the trace.                                 *)
LEMMA DoneLast ==
  ASSUME NEW m \in Nat, NEW e \in Nat, Done(m)', m <= e,
         \A k \in Headers' : k \in Nat /\ k <= m + 1,
         m + 1 + Len(Body(trace'[m + 1])) = e
  PROVE  Done(e)'
<1>1. ASSUME NEW k \in Headers', k <= e PROVE k + Len(Body(trace'[k])) <= e
  <2>1. CASE k <= m
    <3>1. k + Len(Body(trace'[k])) <= m
      BY <1>1, <2>1 DEF Done
    <3>2. Len(Body(trace'[k])) \in Nat
      BY BodyNat
    <3> QED BY <1>1, <3>1, <3>2
  <2>2. CASE k = m + 1
    BY <2>2
  <2> QED BY <1>1, <2>1, <2>2
<1> QED BY <1>1 DEF Done

(* A place one or two before the end.                                        *)
LEMMA PlaceBefore ==
  ASSUME NEW n \in Nat, NEW m \in Nat, n \in {m + 1, m + 2}
  PROVE  m \in 0 .. n /\ m < n /\ m + 1 \in 1 .. n /\ m <= n /\ m \in Int
OBVIOUS

(* A piece that completes the record of thread t, whose header is piece      *)
(* m + 1, or the one that starts or continues it.                            *)
LEMMA RecordGrows ==
  ASSUME TypeOK, Control, NEW t \in Threads, WellFramed, NEW m \in Nat, Done(m),
         UNCHANGED <<cur, err, seq, rec_id>>, Len(trace) \in {m + 1, m + 2},
         trace[m + 1] = HeaderOf(t), Len(trace) = m + 2 => m + 2 \notin Headers,
         NEW piece \in Piece, trace' = Append(trace, piece), piece.call = seq[t],
         piece.part # "header", Len(trace) - m <= Len(Body(HeaderOf(t))),
         Body(HeaderOf(t))[Len(trace) - m] = piece.part
  PROVE  /\ WellFramed' /\ Done(m)' /\ trace'[m + 1] = HeaderOf(t)'
         /\ Len(trace') = Len(trace) + 1 /\ Len(trace) + 1 \notin Headers'
         /\ Len(Body(HeaderOf(t))) = Len(trace) - m =>
              \A e \in Nat : e = Len(trace) + 1 => Done(e)'
<1>1. /\ Len(trace) \in Nat /\ Len(trace') = Len(trace) + 1
      /\ DOMAIN trace = 1 .. Len(trace)
      /\ \A k \in 1 .. Len(trace) : trace'[k] = trace[k]
      /\ Headers \subseteq 1 .. Len(trace) /\ Headers' = Headers
  BY HeadersAppend
<1>2. m \in 0 .. Len(trace) /\ m < Len(trace) /\ m + 1 \in 1 .. Len(trace) /\ m <= Len(trace)
      /\ m \in Int
  <2>1. Len(trace) \in Nat /\ Len(trace) \in {m + 1, m + 2}
    BY <1>1
  <2> QED BY <2>1, PlaceBefore
<1>3. m + 1 \in Headers
  <2>1. trace[m + 1].part = "header"
    BY OwnBody
  <2> QED BY <1>1, <1>2, <2>1 DEF Headers, IsHeader
<1>4. ASSUME NEW k \in Headers PROVE k <= m + 1
  <2>1. k \in 1 .. Len(trace)
    BY <1>1
  <2>2. CASE Len(trace) = m + 1
    BY <2>1, <2>2
  <2>3. CASE Len(trace) = m + 2
    <3>1. k # m + 2
      BY <2>3
    <3> QED BY <2>1, <2>3, <3>1
  <2> QED BY <2>2, <2>3
<1>5. trace[m + 1].call = piece.call
  BY OwnBody
<1>6. WellFramed'
  <2>1. /\ Len(trace) - m <= Len(Body(trace[m + 1]))
        /\ Body(trace[m + 1])[Len(trace) - m] = piece.part
    OBVIOUS
  <2>2. /\ piece.part # "header" /\ m + 1 \in Headers
        /\ \A k \in Headers : k <= m + 1
        /\ m < Len(trace) /\ Len(trace) - m <= Len(Body(trace[m + 1]))
        /\ Body(trace[m + 1])[Len(trace) - m] = piece.part
        /\ trace[m + 1].call = piece.call
    BY <1>2, <1>3, <1>4, <1>5, <2>1
  <2> QED BY <1>2, <2>2, FramedAppend
<1>7. Done(m)'
  BY <1>2, DoneStays
<1>8. trace'[m + 1] = HeaderOf(t)'
  BY <1>1, <1>2 DEF HeaderOf
<1>9. Len(trace) + 1 \notin Headers'
  BY <1>1
<1>10. \A k \in Headers' : k \in Nat /\ k <= m + 1
  <2>1. Headers' = Headers /\ Headers \subseteq Nat
    <3>1. Headers' = Headers /\ Headers \subseteq 1 .. Len(trace)
      BY <1>1, Zenon
    <3>2. 1 .. Len(trace) \subseteq Nat
      OBVIOUS
    <3> QED BY <3>1, <3>2, Zenon
  <2> QED BY <1>4, <2>1, Zenon
<1>11. Len(trace) \in Nat
  BY <1>1, Zenon
<1>12. m <= Len(trace) + 1 /\ m + 1 + (Len(trace) - m) = Len(trace) + 1
  BY <1>11
<1>13. trace'[m + 1] = HeaderOf(t)
  BY <1>1, <1>2
<1>14. ASSUME Len(Body(HeaderOf(t))) = Len(trace) - m,
              NEW e \in Nat, e = Len(trace) + 1
       PROVE  Done(e)'
  <2>1. m + 1 + Len(Body(trace'[m + 1])) = e
    BY <1>12, <1>13, <1>14, Zenon
  <2> QED BY <1>7, <1>10, <1>12, <1>14, <2>1, DoneLast
<1> QED BY <1>1, <1>6, <1>7, <1>8, <1>9, <1>14

(* A step of trfs preserves FrameInv where calls are serialised.             *)
LEMMA FrameStep ==
  ASSUME TypeOK, Control, FrameInv, Serialised, "enospc" \notin Faults, [Next]_vars
  PROVE  FrameInv'
<1>0. /\ pc \in [Threads -> PCs] /\ trace \in Seq(Piece) /\ Len(trace) \in Nat
      /\ seq \in [Threads -> Nat] /\ err \in [Threads -> Results]
  BY DEF TypeOK, Piece
<1>1. ASSUME NoFailedWrite',
             \/ trace' = trace
             \/ \E piece \in Piece : trace' = Append(trace, piece)
      PROVE  NoFailedWrite /\ WellFramed /\ LastPart
  <2>1. NoFailedWrite
    <3>1. CASE trace' = trace
      BY <1>1, <3>1 DEF NoFailedWrite, Headers, IsHeader
    <3>2. ASSUME NEW piece \in Piece, trace' = Append(trace, piece) PROVE NoFailedWrite
      <4>1. \A k \in Headers : k \in Headers' /\ trace'[k] = trace[k]
        BY <3>2, HeadersAppend
      <4> QED BY <1>1, <4>1 DEF NoFailedWrite
    <3> QED BY <1>1, <3>1, <3>2
  <2> QED BY <2>1 DEF FrameInv
<1>2. ASSUME NEW t \in Threads, pc[t] \in Middle \cup {"header"}
      PROVE  \A u \in Threads \ {t} : pc[u] \notin Middle
  BY <1>2, Alone DEF Middle, Busy, PCs
<1>3. ASSUME trace' = trace, NoFailedWrite',
             \A u \in Threads :
               \/ /\ pc'[u] = pc[u] /\ cur'[u] = cur[u] /\ err'[u] = err[u]
                  /\ seq'[u] = seq[u] /\ rec_id'[u] = rec_id[u]
               \/ pc[u] \notin Middle /\ pc'[u] \notin Middle
      PROVE  WellFramed' /\ LastPart'
  <2>1. WellFramed /\ LastPart /\ Headers' = Headers
    BY <1>1, <1>3 DEF Headers, IsHeader
  <2>2. WellFramed'
    BY <1>3, <2>1 DEF WellFramed, IsHeader
  <2>3. /\ Done(Len(trace))' = Done(Len(trace)) /\ Done(Len(trace) - 1)' = Done(Len(trace) - 1)
        /\ Done(Len(trace) - 2)' = Done(Len(trace) - 2)
    BY <1>3, <2>1 DEF Done
  <2>4. \A u \in Threads : pc'[u] \in Middle => /\ pc[u] = pc'[u] /\ cur'[u] = cur[u]
                                                /\ HeaderOf(u)' = HeaderOf(u)
    BY <1>3 DEF HeaderOf
  <2>5. (\A u \in Threads : pc'[u] \notin Middle) => (\A u \in Threads : pc[u] \notin Middle)
    BY <1>3
  <2>6. LastPart'
    BY <1>3, <2>1, <2>3, <2>4, <2>5 DEF LastPart, Middle
  <2> QED BY <2>2, <2>6
<1>4. ASSUME NEW t \in Threads, WriteHeader(t), NoFailedWrite'
      PROVE  WellFramed' /\ LastPart'
  <2>1. /\ pc[t] = "header" /\ pc' = [pc EXCEPT ![t] = "path1"]
        /\ UNCHANGED <<cur, err, seq, rec_id>> /\ trace' = Append(trace, HeaderOf(t))
    BY <1>4, VfsWriteAppends DEF WriteHeader, Goto
  <2>2. HeaderOf(t) \in Piece /\ HeaderOf(t).part = "header"
    BY OwnBody DEF Piece
  <2>3. \A u \in Threads : pc[u] \notin Middle
    BY <1>2, <2>1 DEF Middle
  <2>4. WellFramed /\ Done(Len(trace))
    BY <1>1, <1>4, <2>1, <2>2, <2>3 DEF LastPart
  <2>5. WellFramed'
    <3>1. Len(trace) \in 0 .. Len(trace)
      BY <1>0
    <3> QED BY <2>1, <2>2, <2>4, <3>1, FramedAppend
  <2>6. /\ Len(trace') = Len(trace) + 1 /\ trace'[Len(trace) + 1] = HeaderOf(t)
    BY <2>1, <2>2, HeadersAppend
  <2>7. ASSUME NEW m \in Int, m = Len(trace) PROVE Done(m)'
    <3>1. m <= Len(trace) /\ Done(m)
      BY <1>0, <2>4, <2>7
    <3>2. \E piece \in Piece : trace' = Append(trace, piece)
      BY <2>1, <2>2, Zenon
    <3> QED BY <3>1, <3>2, DoneStays
  <2>8. HeaderOf(t)' = HeaderOf(t)
    BY <2>1 DEF HeaderOf
  <2>9. Done(Len(trace) - 1)'
    <3>1. Len(trace') - 1 = Len(trace) /\ Len(trace) \in Int
      BY <1>0, <2>6
    <3> QED BY <2>7, <3>1
  <2>10. /\ pc'[t] = "path1" /\ \A u \in Threads : u # t => pc'[u] \notin Middle
    BY <1>0, <2>1, <2>3
  <2>11. Len(trace') >= 1 /\ trace'[Len(trace')] = HeaderOf(t)'
    BY <1>0, <2>6, <2>8
  <2> QED BY <2>5, <2>9, <2>10, <2>11 DEF LastPart, Middle
<1>5. ASSUME NEW t \in Threads, WritePath1(t), NoFailedWrite'
      PROVE  WellFramed' /\ LastPart'
  <2> DEFINE p == [part |-> "path1", call |-> seq[t], text |-> Path1Text(cur[t])]
  <2>1. /\ pc[t] = "path1" /\ pc' = [pc EXCEPT ![t] = AfterPath1(t)]
        /\ UNCHANGED <<cur, err, seq, rec_id>> /\ trace' = Append(trace, p)
    BY <1>5, VfsWriteAppends DEF WritePath1, Goto
  <2>2. p \in Piece /\ p.part = "path1" /\ p.call = seq[t]
    BY PieceTypes DEF Piece
  <2> HIDE DEF p
  <2>3. \A u \in Threads : u # t => pc'[u] \notin Middle
    BY <1>0, <1>2, <2>1 DEF Middle
  <2>4. /\ WellFramed /\ Len(trace) >= 1 /\ trace[Len(trace)] = HeaderOf(t)
        /\ Done(Len(trace) - 1)
    BY <1>1, <1>5, <2>1, <2>2 DEF LastPart
  <2>5. PICK m \in Nat : m = Len(trace) - 1
    BY <1>0, <2>4
  <2>6. /\ Len(trace) \in {m + 1, m + 2} /\ trace[m + 1] = HeaderOf(t)
        /\ (Len(trace) = m + 2 => m + 2 \notin Headers) /\ Len(trace) - m = 1
        /\ Done(m) /\ Len(trace) = m + 1
    BY <1>0, <2>4, <2>5
  <2>7. 1 <= Len(Body(HeaderOf(t))) /\ Body(HeaderOf(t))[1] = p.part /\ p.part # "header"
    BY <2>2, OwnBody
  <2>8. /\ WellFramed' /\ Done(m)' /\ trace'[m + 1] = HeaderOf(t)'
        /\ Len(trace') = Len(trace) + 1 /\ Len(trace) + 1 \notin Headers'
        /\ Len(Body(HeaderOf(t))) = 1 =>
             \A e \in Nat : e = Len(trace) + 1 => Done(e)'
    BY <2>1, <2>2, <2>4, <2>6, <2>7, RecordGrows
  <2>9. pc'[t] = AfterPath1(t) /\ cur'[t] = cur[t]
    BY <1>0, <2>1
  <2>10. CASE cur[t].op \in TwoPathOps \cup {"write"}
    <3>1. /\ pc'[t] \in {"path2", "content"} /\ (pc'[t] = "content" => cur[t].op = "write")
      BY <2>9, <2>10 DEF AfterPath1
    <3>2. Len(trace') >= 2 /\ Len(trace') - 1 = m + 1 /\ Len(trace') - 2 = m
      BY <2>6, <2>8
    <3>3. Done(Len(trace) - 2)'
      BY <2>8, <3>2
    <3>4. trace'[Len(trace') - 1] = HeaderOf(t)' /\ Len(trace') \notin Headers'
      BY <2>8, <3>2
    <3>5. LastPart'
      BY <2>3, <2>9, <3>1, <3>2, <3>3, <3>4 DEF LastPart, Middle
    <3> QED BY <2>8, <3>5
  <2>11. CASE cur[t].op \notin TwoPathOps \cup {"write"}
    <3>1. pc'[t] = "bump" /\ Len(Body(HeaderOf(t))) = 1
      BY <2>9, <2>11, OwnBody DEF AfterPath1
    <3>2. Len(trace) + 1 \in Nat
      BY <1>0
    <3>3. PICK e \in Nat : e = Len(trace) + 1
      BY <3>2
    <3>4. Done(e)' /\ Len(trace') = e
      BY <2>8, <3>1, <3>3
    <3>5. \A u \in Threads : pc'[u] \notin Middle
      BY <2>3, <3>1 DEF Middle
    <3> QED BY <2>8, <3>4, <3>5, TailEnd
  <2> QED BY <2>10, <2>11
<1>6. ASSUME NEW t \in Threads, NEW part \in {"path2", "content"}, NoFailedWrite',
             NEW piece \in Piece, piece.part = part, piece.call = seq[t],
             pc[t] \in {"path2", "content"}, pc' = [pc EXCEPT ![t] = "bump"],
             UNCHANGED <<cur, err, seq, rec_id>>, trace' = Append(trace, piece),
             Len(Body(HeaderOf(t))) = 2, Body(HeaderOf(t))[2] = part
      PROVE  WellFramed' /\ LastPart'
  <2>1. /\ WellFramed /\ Len(trace) >= 2 /\ trace[Len(trace) - 1] = HeaderOf(t)
        /\ Done(Len(trace) - 2) /\ Len(trace) \notin Headers
    BY <1>1, <1>6 DEF LastPart
  <2>2. PICK m \in Nat : m = Len(trace) - 2
    <3>1. Len(trace) - 2 \in Nat
      BY <1>0, <2>1
    <3> QED BY <3>1, Zenon
  <2>3. /\ Len(trace) \in {m + 1, m + 2} /\ trace[m + 1] = HeaderOf(t)
        /\ (Len(trace) = m + 2 => m + 2 \notin Headers) /\ Len(trace) - m = 2
        /\ Done(m)
    <3>1. m + 1 = Len(trace) - 1 /\ m + 2 = Len(trace) /\ Len(trace) - m = 2
      BY <1>0, <2>2
    <3> QED BY <2>1, <2>2, <3>1
  <2>4. 2 <= Len(Body(HeaderOf(t))) /\ piece.part # "header"
    BY <1>6
  <2>5. /\ WellFramed' /\ Len(trace') = Len(trace) + 1
        /\ \A e \in Nat : e = Len(trace) + 1 => Done(e)'
    BY <1>6, <2>1, <2>3, <2>4, RecordGrows
  <2>6. PICK e \in Nat : e = Len(trace) + 1
    BY <1>0
  <2>7. \A u \in Threads : pc'[u] \notin Middle
    BY <1>0, <1>2, <1>6 DEF Middle
  <2> QED BY <2>5, <2>6, <2>7, TailEnd
<1>7. ASSUME NEW t \in Threads, WritePath2(t), NoFailedWrite'
      PROVE  WellFramed' /\ LastPart'
  <2> DEFINE p == [part |-> "path2", call |-> seq[t], text |-> Whole(cur[t].p2)]
  <2>1. /\ pc[t] = "path2" /\ pc' = [pc EXCEPT ![t] = "bump"]
        /\ UNCHANGED <<cur, err, seq, rec_id>> /\ trace' = Append(trace, p)
    BY <1>7, VfsWriteAppends DEF WritePath2, Goto
  <2>2. cur[t].op \in TwoPathOps
    BY <2>1 DEF Control
  <2>3. p \in Piece /\ p.part = "path2" /\ p.call = seq[t]
    BY <2>2, PieceTypes DEF Piece
  <2> HIDE DEF p
  <2>4. Len(Body(HeaderOf(t))) = 2 /\ Body(HeaderOf(t))[2] = "path2"
    BY <2>2, OwnBody
  <2> QED BY <1>6, <1>7, <2>1, <2>3, <2>4
<1>8. ASSUME NEW t \in Threads, WriteContent(t), NoFailedWrite'
      PROVE  WellFramed' /\ LastPart'
  <2> DEFINE p == [part |-> "content", call |-> seq[t]]
  <2>1. /\ pc[t] = "content" /\ pc' = [pc EXCEPT ![t] = "bump"]
        /\ UNCHANGED <<cur, err, seq, rec_id>>
        /\ (err[t] > 0 /\ trace' = Append(trace, p)) \/ (~(err[t] > 0) /\ trace' = trace)
    BY <1>8, VfsWriteAppends DEF WriteContent, Goto
  <2>2. p \in Piece /\ p.part = "content" /\ p.call = seq[t]
    BY PieceTypes DEF Piece
  <2> HIDE DEF p
  <2>3. LastPart /\ WellFramed
    BY <1>1, <1>8, <2>1, <2>2
  <2>4. cur[t].op = "write"
    BY <2>1, <2>3 DEF LastPart
  <2>5. CASE err[t] > 0 /\ trace' = Append(trace, p)
    <3>1. err[t] # 0
      BY <1>0, <2>5 DEF Results
    <3>2. Len(Body(HeaderOf(t))) = 2 /\ Body(HeaderOf(t))[2] = "content"
      BY <2>4, <3>1, OwnBody
    <3> QED BY <1>6, <1>8, <2>1, <2>2, <2>5, <3>2
  <2>6. CASE ~(err[t] > 0) /\ trace' = trace
    <3>1. /\ Len(trace) >= 2 /\ trace[Len(trace) - 1] = HeaderOf(t)
          /\ Done(Len(trace) - 2) /\ Len(trace) \notin Headers
      BY <2>1, <2>3 DEF LastPart
    <3>2. Headers' = Headers /\ Headers \subseteq 1 .. Len(trace) /\ WellFramed'
      BY <1>0, <2>3, <2>6 DEF Headers, IsHeader, WellFramed
    <3>3. Len(trace) - 1 \in Headers
      <4>1. HeaderOf(t).part = "header"
        BY OwnBody
      <4> QED BY <1>0, <3>1, <4>1 DEF Headers, IsHeader
    <3>4. err[t] = 0
      <4>1. HeaderOf(t).op = "write" /\ HeaderOf(t).err = err[t]
        BY <2>4, OwnBody
      <4>2. err[t] >= 0
        BY <1>8, <2>6, <3>1, <3>2, <3>3, <4>1 DEF NoFailedWrite
      <4> QED BY <1>0, <2>6, <4>2 DEF Results
    <3>5. Len(Body(HeaderOf(t))) = 1
      BY <2>4, <3>4, OwnBody
    <3>6. PICK m \in Nat : m = Len(trace) - 2
      <4>1. Len(trace) - 2 \in Nat
        BY <1>0, <3>1
      <4> QED BY <4>1, Zenon
    <3>7. PICK e \in Nat : e = Len(trace)
      BY <1>0
    <3>8. m + 1 = Len(trace) - 1 /\ m + 2 = Len(trace) /\ m <= e /\ m + 1 + 1 = e /\ m \in Int
          /\ m <= Len(trace)
      BY <1>0, <3>6, <3>7
    <3>9. \A k \in Headers' : k \in Nat /\ k <= m + 1
      BY <1>0, <3>1, <3>2, <3>6
    <3>10. m + 1 + Len(Body(trace'[m + 1])) = e
      BY <2>6, <3>1, <3>5, <3>8
    <3>11. Done(m)'
      BY <2>6, <3>1, <3>6, <3>8, DoneStays
    <3>12. Done(e)' /\ Len(trace') = e
      BY <2>6, <3>7, <3>8, <3>9, <3>10, <3>11, DoneLast
    <3>13. \A u \in Threads : pc'[u] \notin Middle
      BY <1>0, <1>2, <2>1 DEF Middle
    <3> QED BY <3>2, <3>12, <3>13, TailEnd
  <2> QED BY <2>1, <2>5, <2>6
<1>9. ASSUME NoFailedWrite' PROVE WellFramed' /\ LastPart'
  BY <1>3, <1>4, <1>5, <1>7, <1>8, <1>9, FrameSteps
<1> QED BY <1>9 DEF FrameInv

(* Where calls are serialised and writes to the trace file do not fail, the  *)
(* records follow each other as their headers announce, until a write that   *)
(* failed is recorded: its write_len is the negative err, and no content     *)
(* follows.                                                                  *)
THEOREM SerialWellFramed ==
  ASSUME Serialised, "enospc" \notin Faults
  PROVE  Spec => [](NoFailedWrite => WellFramed)
<1>1. Init => FrameInv
  BY DEF Init, FrameInv, WellFramed, LastPart, Done, Headers, Middle
<1>2. TypeOK /\ Control /\ FrameInv /\ [Next]_vars => FrameInv'
  BY FrameStep
<1>3. FrameInv => (NoFailedWrite => WellFramed)
  BY DEF FrameInv
<1> QED BY <1>1, <1>2, <1>3, TypeCorrect, PTL DEF Spec

(* The op in a header is that of a call somebody made.                       *)
OpsMade == \A k \in Headers : \E c \in Calls : trace[k].op = c.op

(* OpsMade holds throughout: only WriteHeader adds a header, its caller's.    *)
LEMMA OpsMadeInvariant ==
  ASSUME "enospc" \notin Faults
  PROVE  Spec => []OpsMade
<1>1. Init => OpsMade
  BY DEF Init, OpsMade, Headers
<1>2. ASSUME TypeOK, Control, OpsMade, [Next]_vars PROVE OpsMade'
  <2>1. CASE trace' = trace
    BY <1>2, <2>1 DEF OpsMade, Headers, IsHeader
  <2>2. ASSUME NEW piece \in Piece, trace' = Append(trace, piece),
               piece.part # "header" \/ \E c \in Calls : piece.op = c.op
        PROVE  OpsMade'
    <3>1. /\ \A k \in 1 .. Len(trace) : trace'[k] = trace[k]
          /\ trace'[Len(trace) + 1] = piece
          /\ Headers \subseteq 1 .. Len(trace)
          /\ Headers' = Headers \cup (IF piece.part = "header" THEN {Len(trace) + 1} ELSE {})
      BY <1>2, <2>2, HeadersAppend
    <3> QED BY <1>2, <2>2, <3>1 DEF OpsMade
  <2>3. ASSUME NEW t \in Threads, WriteHeader(t) PROVE OpsMade'
    <3>1. trace' = Append(trace, HeaderOf(t))
      BY <2>3, VfsWriteAppends DEF WriteHeader
    <3>2. HeaderOf(t) \in Piece /\ HeaderOf(t).op = cur[t].op /\ cur[t] \in Calls
      BY <1>2, PieceTypes DEF Piece, HeaderOf, TypeOK
    <3> QED BY <2>2, <3>1, <3>2
  <2>4. ASSUME NEW t \in Threads, WritePath1(t) PROVE OpsMade'
    <3> DEFINE p == [part |-> "path1", call |-> seq[t], text |-> Path1Text(cur[t])]
    <3>1. trace' = Append(trace, p)
      BY <2>4, VfsWriteAppends DEF WritePath1
    <3>2. p \in Piece /\ p.part # "header"
      BY <1>2, PieceTypes DEF Piece
    <3> HIDE DEF p
    <3> QED BY <2>2, <3>1, <3>2
  <2>5. ASSUME NEW t \in Threads, WritePath2(t) PROVE OpsMade'
    <3> DEFINE p == [part |-> "path2", call |-> seq[t], text |-> Whole(cur[t].p2)]
    <3>1. trace' = Append(trace, p) /\ cur[t].op \in TwoPathOps
      BY <1>2, <2>5, VfsWriteAppends DEF WritePath2, Control
    <3>2. p \in Piece /\ p.part # "header"
      BY <1>2, <3>1, PieceTypes DEF Piece
    <3> HIDE DEF p
    <3> QED BY <2>2, <3>1, <3>2
  <2>6. ASSUME NEW t \in Threads, WriteContent(t) PROVE OpsMade'
    <3> DEFINE p == [part |-> "content", call |-> seq[t]]
    <3>1. trace' = Append(trace, p) \/ trace' = trace
      BY <2>6, VfsWriteAppends DEF WriteContent
    <3>2. p \in Piece /\ p.part # "header"
      BY <1>2, PieceTypes DEF Piece
    <3> HIDE DEF p
    <3> QED BY <2>1, <2>2, <3>1, <3>2
  <2> QED BY <1>2, <2>1, <2>3, <2>4, <2>5, <2>6, FrameSteps
<1> QED BY <1>1, <1>2, TypeCorrect, PTL DEF Spec

(* Calls that all lock a common directory are written to the trace one whole *)
(* record after the other, whatever they return: none of them is a write.    *)
THEOREM OneDirectoryWellFramed ==
  ASSUME \A c, d \in Calls : LocksOf(c) \cap LocksOf(d) # {}, "enospc" \notin Faults
  PROVE  Spec => []WellFramed
<1>1. Serialised
  BY DEF Serialised
<1>2. OpsMade => NoFailedWrite
  <2>1. \A c \in Calls : c.op # "write"
    <3> SUFFICES ASSUME NEW c \in Calls, c.op = "write" PROVE FALSE
      OBVIOUS
    <3>1. LocksOf(c) = {}
      BY DEF LocksOf, FileOps
    <3> QED BY <3>1
  <2> QED BY <2>1 DEF OpsMade, NoFailedWrite
<1> QED BY <1>1, <1>2, SerialWellFramed, OpsMadeInvariant, PTL
=============================================================================
