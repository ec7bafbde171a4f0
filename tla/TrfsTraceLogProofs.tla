------------------------- MODULE TrfsTraceLogProofs -------------------------
(***************************************************************************)
(* Proof that serialised calls are traced as TraceLog prescribes, and that *)
(* their ids are then unique.                                              *)
(***************************************************************************)
EXTENDS TrfsTraceProofs

(* The labels between the lower call and the exit.                           *)
Busy == PCs \ {"idle", "called", "locking", "out"}

(* Serialised calls are never busy at the same time: Control gives each busy *)
(* thread the locks of its call, and any two calls need a common one.        *)
LEMMA Alone ==
  ASSUME TypeOK, Control, Serialised, NEW t \in Threads, NEW u \in Threads,
         pc[t] \in Busy, pc[u] \in Busy
  PROVE  t = u
<1>1. CASE \A v, w \in Threads : v = w
  BY <1>1
<1>2. CASE \A c, d \in Calls : LocksOf(c) \cap LocksOf(d) # {}
  <2>1. holds[t] = LocksOf(cur[t]) /\ holds[u] = LocksOf(cur[u])
    BY DEF Control, Busy
  <2>2. holds[t] \cap holds[u] # {}
    BY <1>2, <2>1 DEF TypeOK
  <2> QED BY <2>2 DEF Control
<1> QED BY <1>1, <1>2 DEF Serialised

(* While calls are serialised a copy of record_id is never out of date, and  *)
(* the ids in the trace are below record_id, up to the one being written.    *)
SerialIds ==
  /\ \A t \in Threads : pc[t] \in Copied => rec_id[t] = record_id
  /\ \A k \in Headers : \/ trace[k].id < record_id
                        \/ trace[k].id = record_id /\ \E t \in Threads : pc[t] \in Headed

SerialInv == SerialIds /\ UniqueIds

(* Where tracing cannot fail, no handler oopses: the next label of           *)
(* ReadRecordId and FilpOpen, and the effect of a write, are determined.     *)
LEMMA NoFaults ==
  ASSUME TypeOK, NoTracingFaults, NEW t \in Threads
  PROVE  /\ ReadRecordId(t) => pc' = [pc EXCEPT ![t] = "tfile"]
         /\ FilpOpen(t) => pc' = [pc EXCEPT ![t] = "header"]
         /\ "enospc" \notin Faults
<1>1. "nomem" \notin Faults /\ "tfile" \notin Faults /\ "enospc" \notin Faults
  BY DEF NoTracingFaults
<1>2. \A p \in Dentries(cur[t]) : PathLen[p] \in Nat /\ PathLen[p] < 256
  <2>1. cur[t] \in Calls
    BY DEF TypeOK
  <2>2. \A p \in Dentries(cur[t]) : p \in Paths
    BY <2>1, ConstantsAssumption DEF Dentries, Call, TwoPathOps
  <2> QED BY <2>1, <2>2, ConstantsAssumption DEF NoTracingFaults, PathBuf
<1>3. ReadRecordId(t) => pc' = [pc EXCEPT ![t] = "tfile"]
  BY <1>1, <1>2 DEF ReadRecordId, Goto, PathBuf
<1>4. FilpOpen(t) => pc' = [pc EXCEPT ![t] = "header"]
  BY <1>1 DEF FilpOpen, Goto
<1> QED BY <1>1, <1>3, <1>4

(* What stands at the places in Headers is a header.                         *)
LEMMA HeaderTypes ==
  ASSUME TypeOK, NEW k \in Headers
  PROVE  trace[k] \in Header /\ trace[k].id \in Nat
<1>1. trace[k] \in Piece /\ trace[k].part = "header"
  BY DEF TypeOK, Piece, Headers, IsHeader
<1>2. trace[k] \in Header
  BY <1>1 DEF Piece, PathPiece, DataPiece
<1> QED BY <1>2 DEF Header

(* What the pieces that are not headers leave alone.                         *)
LEMMA HeadersKept ==
  ASSUME TypeOK, Control, NEW t \in Threads, NEW piece \in Piece, Adds(t, piece),
         piece.part # "header"
  PROVE  Headers' = Headers /\ \A k \in Headers : trace'[k] = trace[k]
<1>1. /\ trace \in Seq(Piece) /\ trace' = Append(trace, piece)
  BY DEF TypeOK, Piece, Adds
<1>2. /\ DOMAIN trace = 1 .. Len(trace) /\ DOMAIN trace' = 1 .. Len(trace) + 1
      /\ Len(trace) \in Nat
      /\ \A k \in 1 .. Len(trace) : trace'[k] = trace[k]
      /\ trace'[Len(trace) + 1] = piece
  BY <1>1
<1> QED BY <1>2 DEF Headers, IsHeader

(* The labels from the test of the mask to the storing of record_id.         *)
Section == {"id"} \cup Copied

(* A step that does not concern any record: a thread that moves is not in    *)
(* its section.                                                              *)
Outside ==
  /\ UNCHANGED <<trace, record_id>>
  /\ \A u \in Threads :
       \/ pc'[u] = pc[u] /\ rec_id'[u] = rec_id[u] /\ cur'[u] = cur[u] /\ err'[u] = err[u]
       \/ pc[u] \notin Section /\ pc'[u] \notin Section

(* A step that writes a path or the content, after the header.               *)
Body1(t) ==
  /\ Headers' = Headers /\ \A k \in Headers : trace'[k] = trace[k]
  /\ UNCHANGED <<mask, record_id, rec_id, cur, err>>
  /\ pc[t] \in Headed /\ pc'[t] \in Headed
  /\ \A u \in Threads \ {t} : pc'[u] = pc[u]

(* The mask lets thread t trace its call.                                    *)
Starts(t) == ReadMask(t) /\ cur[t].op \in mask

(* The steps of trfs, as far as the log is concerned.                        *)
LEMMA SerialSteps ==
  ASSUME TypeOK, Control, NoTracingFaults, [Next]_vars
  PROVE  \/ Outside
         \/ \E t \in Threads : \/ Body1(t) \/ Starts(t) \/ ReadRecordId(t)
                               \/ FilpOpen(t) \/ WriteHeader(t) \/ Bump(t)
<1> DEFINE Goal == \/ Outside
                   \/ \E t \in Threads : \/ Body1(t) \/ Starts(t) \/ ReadRecordId(t)
                                         \/ FilpOpen(t) \/ WriteHeader(t) \/ Bump(t)
<1>0. /\ pc \in [Threads -> PCs] /\ rec_id \in [Threads -> Nat]
      /\ cur \in [Threads -> Calls] /\ err \in [Threads -> Results]
  BY DEF TypeOK
<1> USE DEF Section, Copied, Headed
<1>1. ASSUME NEW t \in Threads, NEW op \in Ops, NEW e \in Results,
             NEW label \in {"mask", "out"}, LowerCall(t, op, e, label)
      PROVE  Outside
  BY <1>0, <1>1 DEF Outside, LowerCall, Goto
<1>2. ASSUME NEW t \in Threads, OpenFails(t) PROVE Outside
  BY <1>0, <1>2 DEF Outside, OpenFails, Goto
<1>3. ASSUME NEW t \in Threads, ReadMask(t), cur[t].op \notin mask PROVE Outside
  BY <1>0, <1>3, Labels DEF Outside, ReadMask, Goto
<1>4. ASSUME NEW t \in Threads, Interpose(t) PROVE Outside
  BY <1>0, <1>4 DEF Outside, Interpose, Goto
<1>5. ASSUME NEW t \in Threads, Return(t) PROVE Outside
  BY <1>0, <1>5 DEF Outside, Return, Goto
<1>6. ASSUME NEW t \in Threads, NEW c \in Calls, Invoke(t, c) PROVE Outside
  BY <1>0, <1>6 DEF Outside, Invoke, Goto
<1>7. ASSUME NEW m \in Masks, trfs_unlocked_ioctl(m) PROVE Outside
  BY <1>7 DEF Outside, trfs_unlocked_ioctl
<1>8. ASSUME UNCHANGED vars PROVE Outside
  BY <1>8 DEF Outside, vars
<1>9. ASSUME NEW t \in Threads, WritePath1(t) \/ WritePath2(t) \/ WriteContent(t)
      PROVE  Body1(t)
  <2>1. /\ UNCHANGED <<mask, record_id, rec_id, cur, err>>
        /\ pc[t] \in {"path1", "path2", "content"}
        /\ \E l \in Headed : pc' = [pc EXCEPT ![t] = l]
    BY <1>9, Labels DEF WritePath1, WritePath2, WriteContent, Goto
  <2>2. pc'[t] \in Headed /\ \A u \in Threads \ {t} : pc'[u] = pc[u]
    BY <1>0, <2>1
  <2>3. Headers' = Headers /\ \A k \in Headers : trace'[k] = trace[k]
    <3>1. CASE trace' = trace
      BY <3>1 DEF Headers, IsHeader
    <3>2. ASSUME NEW u \in Threads, NEW piece \in Piece, Adds(u, piece)
          PROVE  Headers' = Headers /\ \A k \in Headers : trace'[k] = trace[k]
      <4>1. u = t
        <5>1. PcRank(pc[u]) \in Nat
          BY DEF PcRank, Rank
        <5> QED BY <2>2, <3>2, <5>1 DEF Adds
      <4>2. piece.part # "header"
        BY <2>1, <3>2, <4>1 DEF Adds
      <4> QED BY <3>2, <4>2, HeadersKept
    <3> QED BY <3>1, <3>2, TraceSteps
  <2> QED BY <2>1, <2>2, <2>3 DEF Body1
<1>10. ASSUME NEW t \in Threads, Handler(t) PROVE Outside
  BY <1>1, <1>2, <1>10, HandlerCases
<1>11. ASSUME NEW t \in Threads, Tracing(t) PROVE Goal
  BY <1>3, <1>9, <1>11, Zenon DEF Tracing, Starts
<1>12. ASSUME NEW t \in Threads, LockRename(t) PROVE Outside
  BY <1>0, <1>12 DEF Outside, LockRename, Goto
<1> HIDE DEF Section, Copied, Headed
<1> QED BY <1>4, <1>5, <1>6, <1>7, <1>8, <1>10, <1>11, <1>12 DEF Next, Step

(* A step of trfs preserves SerialInv.                                       *)
LEMMA SerialStep ==
  ASSUME TypeOK, Control, SerialInv, Serialised, NoTracingFaults, [Next]_vars
  PROVE  SerialInv'
<1>0. /\ pc \in [Threads -> PCs] /\ rec_id \in [Threads -> Nat]
      /\ trace \in Seq(Piece) /\ record_id \in Nat
      /\ \A k \in Headers : trace[k].id \in Nat
  BY HeaderTypes DEF TypeOK, Piece
<1> USE DEF SerialInv, SerialIds, Section, Copied, Headed
<1>1. CASE Outside
  <2>1. Headers' = Headers /\ UNCHANGED <<trace, record_id>>
    BY <1>1 DEF Outside, Headers, IsHeader
  <2>2. UniqueIds'
    BY <2>1 DEF UniqueIds
  <2>3. \A u \in Threads : pc[u] \in Headed <=> pc'[u] \in Headed
    BY <1>1 DEF Outside
  <2>4. \A u \in Threads : pc'[u] \in Copied => rec_id'[u] = record_id'
    BY <1>1 DEF Outside
  <2> QED BY <2>1, <2>2, <2>3, <2>4
<1>2. ASSUME NEW t \in Threads, Body1(t) PROVE SerialInv'
  <2>1. UniqueIds'
    BY <1>2 DEF Body1, UniqueIds
  <2> QED BY <1>2, <2>1 DEF Body1
<1>3. ASSUME NEW t \in Threads, Starts(t) PROVE SerialInv'
  <2>1. pc[t] = "mask" /\ pc' = [pc EXCEPT ![t] = "id"]
        /\ UNCHANGED <<trace, record_id, rec_id>>
    BY <1>3 DEF Starts, ReadMask, Goto
  <2> QED BY <1>0, <2>1 DEF UniqueIds, Headers, IsHeader
<1>4. ASSUME NEW t \in Threads, ReadRecordId(t) PROVE SerialInv'
  <2>1. pc[t] = "id" /\ pc' = [pc EXCEPT ![t] = "tfile"]
        /\ rec_id' = [rec_id EXCEPT ![t] = record_id] /\ UNCHANGED <<trace, record_id>>
    BY <1>4, NoFaults DEF ReadRecordId
  <2> QED BY <1>0, <2>1 DEF UniqueIds, Headers, IsHeader
<1>5. ASSUME NEW t \in Threads, FilpOpen(t) PROVE SerialInv'
  <2>1. pc[t] = "tfile" /\ pc' = [pc EXCEPT ![t] = "header"]
        /\ UNCHANGED <<trace, record_id, rec_id>>
    BY <1>5, NoFaults DEF FilpOpen
  <2> QED BY <1>0, <2>1 DEF UniqueIds, Headers, IsHeader
<1>6. ASSUME NEW t \in Threads, WriteHeader(t) PROVE SerialInv'
  <2>1. /\ pc[t] = "header" /\ pc' = [pc EXCEPT ![t] = "path1"]
        /\ UNCHANGED <<record_id, rec_id>> /\ trace' = Append(trace, HeaderOf(t))
    BY <1>6, NoFaults, VfsWriteAppends DEF WriteHeader, Goto
  <2>2. HeaderOf(t).part = "header" /\ HeaderOf(t).id = record_id
    BY <2>1 DEF HeaderOf
  <2> DEFINE n == Len(trace) + 1
  <2>3. /\ Headers' = Headers \cup {n} /\ n \notin Headers /\ trace'[n].id = record_id
        /\ \A k \in Headers : trace'[k] = trace[k]
    BY <1>0, <2>1, <2>2 DEF Headers, IsHeader
  <2>4. \A u \in Threads : pc[u] \notin Headed
    BY <2>1, Alone DEF Busy, PCs
  <2>5. \A k \in Headers : trace[k].id < record_id
    BY <2>4
  <2> HIDE DEF n
  <2>6. UniqueIds'
    BY <1>0, <2>3, <2>5 DEF UniqueIds
  <2>7. pc'[t] \in Headed
    BY <1>0, <2>1
  <2> QED BY <1>0, <2>1, <2>3, <2>6, <2>7
<1>7. ASSUME NEW t \in Threads, Bump(t) PROVE SerialInv'
  <2>1. /\ pc[t] = "bump" /\ pc' = [pc EXCEPT ![t] = AfterTrace(t)]
        /\ record_id' = record_id + 1 /\ UNCHANGED <<trace, rec_id>>
    BY <1>7 DEF Bump, Goto
  <2>2. \A u \in Threads : pc'[u] \notin Copied
    BY <1>0, <2>1, Alone, Labels DEF Busy, PCs
  <2>3. \A k \in Headers : trace[k].id < record_id'
    BY <1>0, <2>1
  <2>4. Headers' = Headers /\ UniqueIds'
    BY <2>1 DEF Headers, IsHeader, UniqueIds
  <2> QED BY <2>1, <2>2, <2>3, <2>4
<1> HIDE DEF SerialInv, Section, Copied, Headed
<1> QED BY <1>1, <1>2, <1>3, <1>4, <1>5, <1>6, <1>7, SerialSteps

(* The ids of serialised calls are those of one counter.                     *)
LEMMA SerialInvariant ==
  ASSUME Serialised, NoTracingFaults
  PROVE  Spec => []SerialInv
<1>1. Init => SerialInv
  BY DEF Init, SerialInv, SerialIds, UniqueIds, Headers, Copied
<1>2. TypeOK /\ Control /\ SerialInv /\ [Next]_vars => SerialInv'
  BY SerialStep
<1> QED BY <1>1, <1>2, TypeCorrect, PTL DEF Spec

(* Where calls are serialised, by a single thread or by the lock of a common *)
(* directory, and tracing does not fail, no two records have the same id.    *)
THEOREM SerialUniqueIds ==
  ASSUME Serialised, NoTracingFaults
  PROVE  Spec => []UniqueIds
<1>1. SerialInv => UniqueIds
  BY DEF SerialInv
<1> QED BY <1>1, SerialInvariant, PTL

(* A step of trfs is a step of the log or leaves it alone.                   *)
LEMMA LogStep ==
  ASSUME TypeOK, Control, SerialInv, Serialised, NoTracingFaults, [Next]_vars, TypeOK'
  PROVE  [Log!Next]_(Log!vars)
<1> DEFINE Same == WrittenRecs' = WrittenRecs /\ PendingRecs' = PendingRecs /\ LogNext' = LogNext
<1>0. /\ pc \in [Threads -> PCs] /\ trace \in Seq(Piece) /\ record_id \in Nat
      /\ rec_id \in [Threads -> Nat]
  BY DEF TypeOK, Piece
<1>1. ASSUME Same PROVE [Log!Next]_(Log!vars)
  <2>1. CASE mask' = mask
    BY <1>1, <2>1 DEF Log!vars
  <2>2. CASE mask' # mask
    <3>1. mask' \in SUBSET Ops
      BY DEF TypeOK
    <3> QED BY <1>1, <3>1 DEF Log!Next, Log!SetMask
  <2> QED BY <2>1, <2>2
<1>2. ASSUME UNCHANGED trace PROVE WrittenRecs' = WrittenRecs
  BY <1>2 DEF WrittenRecs, Headers, IsHeader
<1>3. CASE Outside
  <2>1. Pending' = Pending /\ Numbering' = Numbering
    BY <1>3 DEF Outside, Pending, Numbering, Section, Copied
  <2>2. PendingRecs' = PendingRecs
    <3>1. \A u \in Pending : cur'[u] = cur[u] /\ err'[u] = err[u]
      BY <1>3 DEF Outside, Pending, Section, Copied
    <3> QED BY <1>3, <2>1, <3>1 DEF PendingRecs, Outside
  <2>3. LogNext' = LogNext
    BY <1>3, <2>1 DEF LogNext, Outside
  <2> QED BY <1>1, <1>2, <1>3, <2>2, <2>3 DEF Outside
<1>4. ASSUME NEW t \in Threads, Body1(t) PROVE [Log!Next]_(Log!vars)
  <2>1. Pending' = Pending
    BY <1>4 DEF Body1, Pending, Headed
  <2>2. PendingRecs' = PendingRecs
    BY <1>4, <2>1 DEF PendingRecs, Body1
  <2>3. t \in Numbering /\ t \in Numbering'
    BY <1>4 DEF Body1, Numbering, Headed
  <2>4. WrittenRecs' = WrittenRecs
    BY <1>4 DEF WrittenRecs, Body1
  <2>5. LogNext' = LogNext
    BY <1>4, <2>3 DEF LogNext, Body1
  <2> QED BY <1>1, <2>2, <2>4, <2>5
<1>5. ASSUME NEW t \in Threads, Starts(t) PROVE [Log!Next]_(Log!vars)
  <2>1. /\ pc[t] = "mask" /\ pc' = [pc EXCEPT ![t] = "id"] /\ cur[t].op \in mask
        /\ UNCHANGED <<mask, trace, record_id, cur, err>>
    BY <1>5 DEF Starts, ReadMask, Goto
  <2>2. Pending = {} /\ Numbering = {}
    BY <2>1, Alone DEF Pending, Numbering, Busy, PCs
  <2>3. Pending' = {t} /\ t \in Numbering'
    BY <1>0, <2>1, <2>2 DEF Pending, Numbering
  <2>4. /\ PendingRecs = {}
        /\ PendingRecs' = {[id |-> record_id, op |-> cur[t].op, err |-> err[t]]}
    BY <2>1, <2>2, <2>3 DEF PendingRecs
  <2>5. LogNext = record_id /\ LogNext' = record_id + 1
    BY <2>1, <2>2, <2>3 DEF LogNext
  <2>6. cur[t].op \in Ops /\ err[t] \in Results
    BY ConstantsAssumption DEF TypeOK, Call
  <2>7. Log!Record(cur[t].op, err[t])
    BY <1>2, <2>1, <2>4, <2>5 DEF Log!Record
  <2> QED BY <2>6, <2>7 DEF Log!Next
<1>6. ASSUME NEW t \in Threads, ReadRecordId(t) \/ FilpOpen(t)
      PROVE  [Log!Next]_(Log!vars)
  <2>1. /\ pc[t] \in {"id", "tfile"}
        /\ pc' = [pc EXCEPT ![t] = "tfile"] \/ pc' = [pc EXCEPT ![t] = "header"]
        /\ UNCHANGED <<trace, record_id, cur, err>>
    BY <1>6, NoFaults DEF ReadRecordId, FilpOpen
  <2>2. Pending' = Pending /\ Numbering' = Numbering
    BY <1>0, <2>1 DEF Pending, Numbering
  <2> QED BY <1>1, <1>2, <2>1, <2>2 DEF PendingRecs, LogNext
<1>7. ASSUME NEW t \in Threads, WriteHeader(t) PROVE [Log!Next]_(Log!vars)
  <2>1. /\ pc[t] = "header" /\ pc' = [pc EXCEPT ![t] = "path1"]
        /\ UNCHANGED <<mask, record_id, cur, err>> /\ trace' = Append(trace, HeaderOf(t))
    BY <1>7, NoFaults, VfsWriteAppends DEF WriteHeader, Goto
  <2>2. /\ HeaderOf(t).part = "header" /\ HeaderOf(t).id = record_id
        /\ HeaderOf(t).op = cur[t].op /\ HeaderOf(t).err = err[t]
    BY <2>1 DEF HeaderOf, SerialInv, SerialIds, Copied
  <2> DEFINE r == [id |-> record_id, op |-> cur[t].op, err |-> err[t]]
             n == Len(trace) + 1
  <2>3. /\ Headers' = Headers \cup {n}
        /\ \A k \in Headers : trace'[k] = trace[k]
        /\ trace'[n] = HeaderOf(t)
    BY <1>0, <2>1, <2>2 DEF Headers, IsHeader
  <2> HIDE DEF n
  <2>4. WrittenRecs' = WrittenRecs \cup {r}
    BY <2>2, <2>3 DEF WrittenRecs
  <2>5. Pending = {t} /\ Pending' = {}
    <3>1. \A u \in Pending : u = t
      BY <2>1, Alone DEF Pending, Busy, PCs
    <3> QED BY <1>0, <2>1, <3>1 DEF Pending
  <2>6. PendingRecs = {r} /\ PendingRecs' = {}
    BY <2>5 DEF PendingRecs
  <2>7. t \in Numbering /\ t \in Numbering'
    BY <1>0, <2>1 DEF Numbering
  <2>8. LogNext' = LogNext
    BY <2>1, <2>7 DEF LogNext
  <2> QED BY <2>1, <2>4, <2>6, <2>8 DEF Log!vars
<1>8. ASSUME NEW t \in Threads, Bump(t) PROVE [Log!Next]_(Log!vars)
  <2>1. /\ pc[t] = "bump" /\ pc' = [pc EXCEPT ![t] = AfterTrace(t)]
        /\ record_id' = record_id + 1 /\ UNCHANGED trace
    BY <1>8 DEF Bump, Goto, SerialInv, SerialIds, Copied
  <2>2. t \in Numbering /\ Numbering' = {}
    BY <1>0, <2>1, Alone, Labels DEF Numbering, Busy, PCs
  <2>3. Pending = {} /\ Pending' = {}
    BY <1>0, <2>1, Alone, Labels DEF Pending, Busy, PCs
  <2>4. PendingRecs' = PendingRecs /\ LogNext' = LogNext
    BY <2>1, <2>2, <2>3 DEF PendingRecs, LogNext
  <2> QED BY <1>1, <1>2, <2>1, <2>4
<1> QED BY <1>3, <1>4, <1>5, <1>6, <1>7, <1>8, SerialSteps

(* Serialised calls implement TraceLog: each traced call adds exactly one    *)
(* record, numbered consecutively, at the moment its handler tests the mask. *)
THEOREM SerialImplementsTraceLog ==
  ASSUME Serialised, NoTracingFaults
  PROVE  Spec => ImplementsTraceLog
<1>1. Init => Log!Init
  BY DEF Init, Log!Init, WrittenRecs, PendingRecs, Headers, Pending, LogNext, Numbering
<1>2. TypeOK /\ Control /\ SerialInv /\ [Next]_vars /\ TypeOK' => [Log!Next]_(Log!vars)
  BY LogStep
<1> QED BY <1>1, <1>2, TypeCorrect, SerialInvariant, PTL DEF Spec, ImplementsTraceLog, Log!Spec
=============================================================================
