-------------------------- MODULE TrfsFileProofs ---------------------------
(***************************************************************************)
(* Theorems about TrfsFile, for any number of threads and files.  What all *)
(* of them rest on is the reference count of the open file: RefInv says    *)
(* who has to be counted, and that a file whose lower file was put by a    *)
(* completion is never released.                                           *)
(***************************************************************************)
EXTENDS TrfsFile, FiniteSetTheorems, TLAPS

Ops == {"none", "close", "forward", "write", "setattr", "link", "fault", "mmap"}
         \cup Moving \cup Iter
Labels == {"idle", "in", "copy", "store", "notify", "saved", "set", "back", "cur", "lower",
           "restore", "put", "out", "save", "oops"}
Late == {"restore", "put", "copy", "store", "out"}

Thread == [op : Ops, pc : Labels, f : Files \cup {NoFile}, aio : BOOLEAN, n : Nat,
           ok : BOOLEAN, alone : BOOLEAN]
FileRec == [open : BOOLEAN, fd : BOOLEAN, info : BOOLEAN, lower : BOOLEAN,
            vm_ops : BOOLEAN, count : Nat, lcount : Nat, maps : 0 .. MaxMaps,
            pos : 0 .. MaxPos, lpos : 0 .. MaxPos]
Iocb == [st : {"none", "submitted", "queued", "gone"}, f : Files \cup {NoFile},
         filp : {"upper", "lower"}, write : BOOLEAN, n : 0 .. MaxSize]

(* What a thread may be doing.                                               *)
ThreadOK(t) ==
  /\ th[t].f = NoFile <=> th[t].pc = "idle" \/ th[t].op = "link"
  /\ th[t].op = "none" <=> th[t].pc = "idle"
  /\ th[t].op \in Moving => th[t].f \in Dirs
  /\ th[t].pc \in {"copy", "store"} => th[t].op \in {"write", "write_iter"}
  /\ th[t].op = "link" => th[t].pc \in {"in", "saved"}
  /\ th[t].pc \in {"store", "notify", "saved"} => th[t].n <= MaxSize
  /\ th[t].op \in Moving /\ th[t].pc \in {"set", "cur", "back"} => th[t].n <= MaxPos
  /\ th[t].aio => th[t].op \in Iter /\ th[t].pc \in Late \cup {"lower", "oops"}

(* A request of the file completed before its call had returned.             *)
Early(f) == \E label \in Late : <<f, label>> \in early

(* How the request of a thread and the call that made it go together.        *)
IocbOK(t) ==
  /\ kiocb[t].f = NoFile <=> kiocb[t].st \in {"none", "gone"}
  /\ kiocb[t].st \in {"submitted", "gone"} => th[t].aio
  /\ th[t].aio =>
       /\ kiocb[t].f \in {NoFile, th[t].f}
       /\ kiocb[t].f = NoFile => Early(th[t].f)
       /\ kiocb[t].st = "none" => th[t].pc = "oops"
       /\ th[t].pc = "lower" => kiocb[t].st = "submitted"
       /\ kiocb[t].f # NoFile =>
            (kiocb[t].filp = "lower" <=> th[t].pc \in {"lower", "restore"})
  /\ ~th[t].aio => kiocb[t].filp = "upper"
  /\ th[t].pc = "oops" => Early(th[t].f)

TypeInv ==
  /\ TypeOK
  /\ th \in [Threads -> Thread]
  /\ kiocb \in [Threads -> Iocb]
  /\ \A t \in Threads : ThreadOK(t)

IocbInv == \A t \in Threads : IocbOK(t)

(* Who holds a reference on the file: the descriptor, the mappings, the      *)
(* calls, and the requests, to which an asynchronous call passes its own.    *)
Calls(f) == {t \in Threads : th[t].f = f /\ ~th[t].aio}
Requests(f) == {t \in Threads : kiocb[t].f = f}
One(b) == IF b THEN 1 ELSE 0

RefInv ==
  \A f \in Files :
    /\ file[f].count >= One(file[f].fd) + file[f].maps + Cardinality(Calls(f))
                          + Cardinality(Requests(f)) + One(PutLower(f))
    /\ ~file[f].open => file[f].count = 0

(* The calls between get_file and fput of the lower file.                    *)
Holding(f) == {t \in Threads : /\ th[t].op \in Iter /\ th[t].f = f
                               /\ th[t].pc \in {"lower", "restore", "put"}}

LowerInv ==
  \A f \in Files :
    /\ file[f].open <=> file[f].lower
    /\ file[f].open <=> file[f].info
    /\ PutLower(f) \/ file[f].lcount = One(file[f].lower) + Cardinality(Holding(f))

(* The mappings and the calls that may become one stay within the bound.     *)
Mapping(f) == {t \in Threads : th[t].op = "mmap" /\ th[t].f = f}

MapsInv == \A f \in Files : file[f].maps + Cardinality(Mapping(f)) <= MaxMaps

VmInv ==
  /\ MappedHasVmOps
  /\ \A t \in Threads :
       /\ At(t, "mmap", "save") => F(t).vm_ops \/ th[t].n = 1
       /\ th[t].op = "fault" => F(t).maps > 0

FileInv == TypeInv /\ IocbInv /\ RefInv /\ LowerInv /\ MapsInv /\ VmInv

-----------------------------------------------------------------------------
(* The bounds are numbers, directories are files and NoFile is not.          *)
LEMMA Bounds ==
  /\ MaxSize \in Nat /\ MaxPos \in Nat /\ MaxMaps \in Nat
  /\ NoFile \notin Files /\ Dirs \subseteq Files
BY FileAssumption

LEMMA ClosedType == Closed \in FileRec
BY Bounds DEF Closed, FileRec

LEMMA NoIocbType == NoIocb \in Iocb
BY Bounds DEF NoIocb, Iocb

(* The larger of two numbers.                                                *)
LEMMA MaxPair ==
  ASSUME NEW a \in Int, NEW b \in Int
  PROVE  Max({a, b}) = IF a >= b THEN a ELSE b
<1>1. \E x \in {a, b} : \A y \in {a, b} : x >= y
  OBVIOUS
<1>2. /\ Max({a, b}) \in {a, b}
      /\ \A y \in {a, b} : Max({a, b}) >= y
  BY <1>1 DEF Max
<1> QED BY <1>2

(* What a set of threads gains or loses when one thread changes.             *)
LEMMA CountChange ==
  ASSUME NEW A \in SUBSET Threads, NEW B \in SUBSET Threads, NEW t \in Threads,
         \A u \in Threads \ {t} : u \in A <=> u \in B
  PROVE  /\ Cardinality(A) \in Nat /\ Cardinality(B) \in Nat
         /\ Cardinality(B) = Cardinality(A) - One(t \in A) + One(t \in B)
<1>1. IsFiniteSet(A) /\ IsFiniteSet(B) /\ Cardinality(A) \in Nat /\ Cardinality(B) \in Nat
  BY FileAssumption, FS_Subset, FS_CardinalityType
<1>2. A \ {t} = B \ {t}
  OBVIOUS
<1>3. /\ Cardinality(A \ {t}) = IF t \in A THEN Cardinality(A) - 1 ELSE Cardinality(A)
      /\ Cardinality(B \ {t}) = IF t \in B THEN Cardinality(B) - 1 ELSE Cardinality(B)
  BY <1>1, FS_RemoveElement
<1> QED BY <1>1, <1>2, <1>3 DEF One

(* A set of threads that has a member is counted.                            *)
LEMMA Counted ==
  ASSUME NEW A \in SUBSET Threads
  PROVE  /\ Cardinality(A) \in Nat
         /\ Cardinality(A) = 0 <=> A = {}
  BY FileAssumption, FS_Subset, FS_CardinalityType, FS_EmptySet

(* A released file has nobody who refers to it.                              *)
LEMMA NotCounted ==
  ASSUME TypeInv, RefInv, NEW f \in Files, file[f].count = 0
  PROVE  /\ ~file[f].fd /\ file[f].maps = 0 /\ ~PutLower(f)
         /\ Calls(f) = {} /\ Requests(f) = {}
<1>1. /\ Cardinality(Calls(f)) \in Nat /\ (Cardinality(Calls(f)) = 0 <=> Calls(f) = {})
      /\ Cardinality(Requests(f)) \in Nat /\ (Cardinality(Requests(f)) = 0 <=> Requests(f) = {})
  BY Counted DEF Calls, Requests
<1>2. file[f].maps \in Nat /\ file[f].fd \in BOOLEAN
  BY FileAssumption DEF TypeInv, TypeOK
<1> QED BY <1>1, <1>2 DEF RefInv, One

(* Whoever refers to a file finds it open, with its lower file there unless  *)
(* a completion was early.                                                   *)
LEMMA InUse ==
  ASSUME FileInv, NEW f \in Files,
         \/ file[f].fd \/ file[f].maps > 0
         \/ \E t \in Threads : th[t].f = f
         \/ \E t \in Threads : kiocb[t].f = f,
         ~Early(f)
  PROVE  file[f].open /\ LowerFile(f)
<1>1. Calls(f) # {} \/ Requests(f) # {} \/ file[f].fd \/ file[f].maps > 0
  <2>1. ASSUME NEW t \in Threads, th[t].f = f, th[t].aio PROVE t \in Requests(f)
    BY <2>1, FileAssumption DEF FileInv, IocbInv, IocbOK, Requests
  <2> QED BY <2>1 DEF Calls, Requests
<1>2. file[f].count # 0
  BY <1>1, NotCounted DEF FileInv
<1>3. file[f].open /\ file[f].lower /\ file[f].info
  BY <1>2 DEF FileInv, RefInv, LowerInv
<1>4. ~PutLower(f)
  BY DEF PutLower, Early, Late
<1>5. Cardinality(Holding(f)) \in Nat
  BY Counted DEF Holding
<1> QED BY <1>3, <1>4, <1>5 DEF FileInv, LowerInv, LowerFile, One

-----------------------------------------------------------------------------
(* Types.                                                                    *)

(* The parts of TypeInv.                                                     *)
ThreadsOK == th \in [Threads -> Thread] /\ \A t \in Threads : ThreadOK(t)
FilesOK == file \in [Files -> FileRec]
SizesOK == usize \in 0 .. MaxSize /\ lsize \in 0 .. MaxSize /\ size_excuse \in BOOLEAN
EarlyOK == early \subseteq Files \X Late
ExcuseOK == pos_excuse \subseteq Dirs
IocbsOK == kiocb \in [Threads -> Iocb]

LEMMA TypeParts ==
  /\ TypeInv <=> ThreadsOK /\ FilesOK /\ SizesOK /\ EarlyOK /\ ExcuseOK /\ IocbsOK
  /\ TypeInv' <=> ThreadsOK' /\ FilesOK' /\ SizesOK' /\ EarlyOK' /\ ExcuseOK' /\ IocbsOK'
BY DEF TypeInv, TypeOK, ThreadsOK, FilesOK, SizesOK, EarlyOK, ExcuseOK, IocbsOK, FileRec, Late

(* A thread inside a call on a file has a reference to it unless the call is *)
(* asynchronous.                                                             *)
LEMMA HasFile ==
  ASSUME TypeInv, NEW t \in Threads, th[t].f # NoFile
  PROVE  /\ th[t] \in Thread /\ th[t].f \in Files /\ F(t) \in FileRec /\ ThreadOK(t)
         /\ th[t].pc # "idle" /\ th[t].op # "link"
         /\ RefInv /\ ~th[t].aio => F(t).count > 0
<1>1. /\ th[t] \in Thread /\ th[t].f \in Files /\ F(t) \in FileRec /\ ThreadOK(t)
      /\ th[t].pc # "idle" /\ th[t].op # "link"
  BY TypeParts DEF ThreadsOK, FilesOK, ThreadOK, Thread, F
<1>2. ASSUME RefInv, ~th[t].aio, F(t).count = 0 PROVE FALSE
  BY <1>1, <1>2, NotCounted DEF F, Calls
<1> QED BY <1>1, <1>2 DEF FileRec

(* Only a thread inside a call on a file makes a step of one.                *)
LEMMA StepInside ==
  ASSUME TypeInv, NEW t \in Threads, Step(t)
  PROVE  th[t].f # NoFile
BY TypeParts DEF ThreadsOK, ThreadOK, Step, At, Iter, trfs_flush, trfs_fsync, trfs_fasync,
   trfs_unlocked_ioctl, trfs_compat_ioctl, LowerWrite, CopyRead, CopyStore, trfs_setattr, trfs_readdir,
   trfs_file_llseek, IterGet, IterLower, IterRestore, IterPut, IterReturn, trfs_mmap,
   trfs_fault, trfs_page_mkwrite

(* The end of a call.                                                        *)
LEMMA ReturnType ==
  ASSUME TypeInv, NEW t \in Threads, th[t].f # NoFile,
         NEW r \in FileRec, r.count > 0, Return(t, r)
  PROVE  ThreadsOK' /\ FilesOK'
<1>1. ThreadsOK'
  BY TypeParts, FileAssumption DEF Return, ThreadsOK, ThreadOK, Thread, Idle, Ops, Labels, Late,
                                   Moving, Iter
<1>2. FilesOK'
  BY TypeParts, HasFile DEF Return, FilesOK, FileRec
<1> QED BY <1>1, <1>2

LEMMA ExcuseType ==
  ASSUME TypeInv, NEW t \in Threads, th[t].f # NoFile, NEW sets \in BOOLEAN,
         NEW breaks \in BOOLEAN, Excuse(t, sets, breaks)
  PROVE  size_excuse' \in BOOLEAN /\ ExcuseOK'
  BY TypeParts, HasFile DEF Excuse, ExcuseOK, SizesOK, ThreadOK

LEMMA OopsType ==
  ASSUME TypeInv, NEW t \in Threads, th[t].f # NoFile, Oops(t)
  PROVE  TypeInv'
<1>1. ThreadsOK'
  BY TypeParts, FileAssumption DEF Oops, Goto, ThreadsOK, ThreadOK, Thread, Labels, Late
<1> QED BY <1>1, TypeParts DEF Oops, FilesOK, SizesOK, EarlyOK, ExcuseOK, IocbsOK

LEMMA RefusedType ==
  ASSUME TypeInv, RefInv, NEW t \in Threads, th[t].f # NoFile, ~th[t].aio, Refused(t)
  PROVE  TypeInv'
<1>1. F(t) \in FileRec /\ F(t).count > 0
  BY HasFile
<1>2. Return(t, F(t)) /\ Excuse(t, FALSE, FALSE)
  BY DEF Refused
<1>3. ThreadsOK' /\ FilesOK' /\ size_excuse' \in BOOLEAN /\ ExcuseOK'
  BY <1>1, <1>2, ReturnType, ExcuseType
<1> QED BY <1>3, TypeParts DEF Refused, SizesOK, EarlyOK, IocbsOK

(* A thread goes on inside its call, from one label to another.              *)
LEMMA TurnType ==
  ASSUME TypeInv, NEW t \in Threads, NEW r \in Thread, th[t].f # NoFile,
         th' = [th EXCEPT ![t] = r],
         r.op = th[t].op, r.f = th[t].f, r.pc # "idle",
         r.pc \in {"copy", "store"} => r.op \in {"write", "write_iter"},
         r.pc \in {"store", "notify", "saved"} => r.n <= MaxSize,
         r.op \in Moving /\ r.pc \in {"set", "cur", "back"} => r.n <= MaxPos,
         r.aio => r.op \in Iter /\ r.pc \in Late \cup {"lower"}
  PROVE  ThreadsOK'
<1>1. ThreadOK(t) /\ th \in [Threads -> Thread]
  BY TypeParts, HasFile DEF ThreadsOK
<1>2. ThreadOK(t)'
  BY <1>1 DEF ThreadOK
<1>3. \A u \in Threads \ {t} : ThreadOK(u)'
  BY TypeParts DEF ThreadsOK, ThreadOK
<1> QED BY <1>1, <1>2, <1>3 DEF ThreadsOK

(* The end of read_iter and write_iter: the reference of the call, or of     *)
(* the request, is dropped unless the request was queued.                    *)
LEMMA IterReturnEffect ==
  ASSUME FileInv, NEW t \in Threads, IterReturn(t)
  PROVE  /\ th[t].f \in Files /\ th' = [th EXCEPT ![t] = Idle]
         /\ \/ /\ th[t].aio /\ kiocb[t].st = "queued"
               /\ file' = file /\ kiocb' = kiocb
            \/ /\ th[t].aio /\ kiocb[t].st = "gone"
               /\ file' = file /\ kiocb' = [kiocb EXCEPT ![t] = NoIocb]
            \/ /\ th[t].aio /\ kiocb[t].st = "submitted" /\ kiocb[t].f = th[t].f
               /\ F(t).count > 0 /\ file' = [file EXCEPT ![th[t].f].count = @ - 1]
               /\ kiocb' = [kiocb EXCEPT ![t] = NoIocb]
            \/ /\ ~th[t].aio /\ F(t).count > 0
               /\ file' = [file EXCEPT ![th[t].f].count = @ - 1] /\ kiocb' = kiocb
<1> USE DEF FileInv
<1>0. th[t].pc = "out" /\ th' = [th EXCEPT ![t] = Idle] /\ th[t].f # NoFile
  BY TypeParts DEF IterReturn, ThreadsOK, ThreadOK, Iter
<1>1. /\ th[t] \in Thread /\ th[t].f \in Files /\ F(t) \in FileRec
      /\ ~th[t].aio => F(t).count > 0
  BY <1>0, HasFile
<1>2. /\ kiocb \in [Threads -> Iocb] /\ file \in [Files -> FileRec] /\ IocbOK(t)
      /\ kiocb[t].st \in {"none", "submitted", "queued", "gone"}
  BY TypeParts DEF IocbInv, IocbsOK, FilesOK, Iocb
<1>3. th[t].aio \in BOOLEAN
  BY <1>1 DEF Thread
<1>4. ASSUME th[t].aio
      PROVE  /\ kiocb[t].st \in {"queued", "gone", "submitted"}
             /\ kiocb[t].st = "submitted" => kiocb[t].f = th[t].f /\ kiocb[t].filp # "lower"
  BY <1>0, <1>1, <1>2, <1>4, Bounds DEF IocbOK
<1>5. CASE th[t].aio /\ kiocb[t].st = "queued"
  <2>1. file' = [file EXCEPT ![th[t].f] = F(t)] /\ kiocb' = kiocb
    BY <1>5 DEF IterReturn
  <2> QED BY <1>0, <1>1, <1>2, <1>5, <2>1 DEF F
<1>6. CASE th[t].aio /\ kiocb[t].st = "gone"
  <2>1. file' = [file EXCEPT ![th[t].f] = F(t)] /\ kiocb' = [kiocb EXCEPT ![t] = NoIocb]
    BY <1>6 DEF IterReturn
  <2> QED BY <1>0, <1>1, <1>2, <1>6, <2>1 DEF F
<1>7. CASE th[t].aio /\ kiocb[t].st = "submitted"
  <2>1. kiocb[t].f = th[t].f /\ kiocb[t].filp # "lower"
    BY <1>4, <1>7
  <2>2. F(t).count > 0
    BY <1>1, <2>1, NotCounted DEF Requests, F, FileRec
  <2>3. /\ file' = [file EXCEPT ![th[t].f] = [F(t) EXCEPT !.count = F(t).count - 1]]
        /\ kiocb' = [kiocb EXCEPT ![t] = NoIocb]
    BY <1>7, <2>1 DEF IterReturn
  <2> QED BY <1>0, <1>1, <1>2, <1>7, <2>1, <2>2, <2>3 DEF F
<1>8. CASE ~th[t].aio
  <2>1. file' = [file EXCEPT ![th[t].f] = [F(t) EXCEPT !.count = F(t).count - 1]] /\ kiocb' = kiocb
    BY <1>8 DEF IterReturn
  <2> QED BY <1>0, <1>1, <1>2, <1>8, <2>1 DEF F
<1> QED BY <1>3, <1>4, <1>5, <1>6, <1>7, <1>8

(* A file with one mapping more.                                             *)
LEMMA MappedType ==
  ASSUME NEW x \in FileRec, NEW b \in BOOLEAN, x.count + 1 \in Nat,
         x.maps + 1 \in 0 .. MaxMaps
  PROVE  LET y == [x EXCEPT !.vm_ops = @ \/ b, !.count = @ + 1, !.maps = @ + 1]
         IN  y \in FileRec /\ y.count = x.count + 1
<1>1. CASE b
  BY <1>1 DEF FileRec
<1>2. CASE ~b
  BY <1>2 DEF FileRec
<1> QED BY <1>1, <1>2

(* A step of a thread keeps the types.                                       *)
LEMMA StepType ==
  ASSUME FileInv, NEW t \in Threads, Step(t)
  PROVE  TypeInv'
<1> USE DEF FileInv
<1>0. th[t].f # NoFile
  BY StepInside
<1> DEFINE f == th[t].f
<1>1. /\ th[t] \in Thread /\ f \in Files /\ F(t) \in FileRec /\ ThreadOK(t)
      /\ th[t].pc # "idle" /\ th[t].op # "link" /\ (~th[t].aio => F(t).count > 0)
  BY <1>0, HasFile
<1>2. ThreadsOK /\ FilesOK /\ SizesOK /\ EarlyOK /\ ExcuseOK /\ IocbsOK
  BY TypeParts
<1>3. ASSUME Oops(t) PROVE TypeInv'
  BY <1>0, <1>3, OopsType
<1>4. ASSUME Refused(t), ~th[t].aio PROVE TypeInv'
  BY <1>0, <1>4, RefusedType
<1>5. th[t].pc = "in" => ~th[t].aio
  BY <1>1 DEF ThreadOK, Late
<1>6. CASE trfs_flush(t) \/ trfs_fsync(t) \/ trfs_fasync(t) \/ trfs_unlocked_ioctl(t)
           \/ trfs_compat_ioctl(t) \/ trfs_fault(t) \/ trfs_page_mkwrite(t)
  BY <1>3, <1>4, <1>5, <1>6 DEF trfs_flush, trfs_fsync, trfs_fasync, trfs_unlocked_ioctl,
     trfs_compat_ioctl, trfs_fault, trfs_page_mkwrite, UseLower, At
<1>7. CASE LowerWrite(t)
  <2>1. ASSUME NEW n \in 0 .. MaxSize, lsize' = Max({lsize, n}), Goto(t, "copy"),
               At(t, "write", "in"),
               UNCHANGED <<file, usize, kiocb, ops, early, size_excuse, pos_excuse>>
        PROVE  TypeInv'
    <3>1. SizesOK'
      BY <1>2, <2>1, MaxPair, FileAssumption DEF SizesOK
    <3>2. ThreadsOK'
      <4> DEFINE r == [th[t] EXCEPT !.pc = "copy"]
      <4>1. r \in Thread
        BY <1>1 DEF Thread, Labels
      <4>2. th' = [th EXCEPT ![t] = r]
        BY <1>1, <2>1 DEF Goto
      <4> QED BY <1>0, <1>1, <1>5, <2>1, <4>1, <4>2, TurnType DEF Thread, At, Late
    <3> QED BY <1>2, <2>1, <3>1, <3>2, TypeParts DEF FilesOK, EarlyOK, ExcuseOK, IocbsOK
  <2> QED BY <1>3, <1>4, <1>5, <1>7, <2>1 DEF LowerWrite, At
<1>8. CASE CopyRead(t)
  <2>1. ASSUME th' = [th EXCEPT ![t].n = lsize, ![t].pc = "store"],
               UNCHANGED <<file, usize, lsize, kiocb, ops, early, size_excuse, pos_excuse>>
        PROVE  TypeInv'
    <3> DEFINE r == [th[t] EXCEPT !.n = lsize, !.pc = "store"]
    <3>0. lsize \in Nat /\ lsize <= MaxSize
      BY <1>2, Bounds DEF SizesOK
    <3>1. r \in Thread /\ r.n <= MaxSize
      BY <1>1, <3>0 DEF Thread, Labels
    <3>2. th' = [th EXCEPT ![t] = r]
      BY <1>1, <2>1
    <3>3. /\ r.op = th[t].op /\ r.f = th[t].f /\ r.aio = th[t].aio /\ r.pc = "store"
          /\ th[t].op \in {"write", "write_iter"} /\ (r.aio => r.op \in Iter /\ r.pc \in Late)
      BY <1>1, <1>8 DEF Thread, CopyRead, Late, ThreadOK
    <3> HIDE DEF r
    <3>4. ThreadsOK'
      BY <1>0, <1>1, <3>1, <3>2, <3>3, TurnType
    <3> QED BY <1>2, <2>1, <3>4, TypeParts DEF FilesOK, SizesOK, EarlyOK, ExcuseOK, IocbsOK
  <2> QED BY <1>3, <1>8, <2>1 DEF CopyRead
<1>9. CASE CopyStore(t)
  <2>1. th[t].op \in {"write", "write_iter"} /\ th[t].n \in 0 .. MaxSize /\ th[t].pc = "store"
    BY <1>1, <1>9, FileAssumption DEF CopyStore, ThreadOK, Thread
  <2>2. /\ usize' \in 0 .. MaxSize /\ lsize' = lsize /\ UNCHANGED <<kiocb, early>>
    BY <1>9, <2>1 DEF CopyStore
  <2>3. CASE th[t].op = "write"
    <3>1. Return(t, F(t)) /\ Excuse(t, TRUE, FALSE) /\ ~th[t].aio
      BY <1>1, <1>9, <2>3 DEF CopyStore, ThreadOK, Iter
    <3>2. ThreadsOK' /\ FilesOK' /\ size_excuse' \in BOOLEAN /\ ExcuseOK'
      BY <1>0, <1>1, <3>1, ReturnType, ExcuseType
    <3> QED BY <1>2, <2>2, <3>2, TypeParts DEF SizesOK, EarlyOK, IocbsOK
  <2>4. CASE th[t].op = "write_iter"
    <3> DEFINE r == [th[t] EXCEPT !.pc = "out", !.n = 0]
    <3>0. th' = [th EXCEPT ![t].pc = "out", ![t].n = 0]
      BY <1>9, <2>4 DEF CopyStore
    <3>1. r \in Thread /\ th' = [th EXCEPT ![t] = r]
      BY <1>1, <3>0 DEF Thread, Labels
    <3>2. ThreadsOK'
      BY <1>0, <1>1, <2>4, <3>1, TurnType DEF Thread, Late, Iter
    <3>3. UNCHANGED <<file, size_excuse, pos_excuse>>
      BY <1>9, <2>4 DEF CopyStore
    <3> QED BY <1>2, <2>2, <3>2, <3>3, TypeParts DEF FilesOK, SizesOK, EarlyOK, ExcuseOK, IocbsOK
  <2> QED BY <2>1, <2>3, <2>4
<1>10. CASE trfs_setattr(t)
  <2>1. ASSUME NEW n \in 0 .. MaxSize, usize' = n, At(t, "setattr", "in"),
               th' = [th EXCEPT ![t].pc = "notify", ![t].n = n],
               UNCHANGED <<file, lsize, kiocb, ops, early, size_excuse, pos_excuse>>
        PROVE  TypeInv'
    <3> DEFINE r == [th[t] EXCEPT !.pc = "notify", !.n = n]
    <3>0. n \in Nat /\ n <= MaxSize
      BY Bounds
    <3>1. r \in Thread /\ r.n <= MaxSize
      BY <1>1, <3>0 DEF Thread, Labels
    <3>2. /\ th' = [th EXCEPT ![t] = r] /\ ~r.aio
          /\ r.op = "setattr" /\ th[t].op = "setattr" /\ r.pc = "notify" /\ r.f = th[t].f
      BY <1>1, <1>5, <2>1 DEF Thread, At
    <3> HIDE DEF r
    <3>3. ThreadsOK'
      BY <1>0, <1>1, <3>1, <3>2, TurnType
    <3> QED BY <1>2, <2>1, <3>3, TypeParts DEF FilesOK, SizesOK, EarlyOK, ExcuseOK, IocbsOK
  <2>2. ASSUME At(t, "setattr", "notify"), Return(t, F(t)),
               \/ lsize' = th[t].n /\ Excuse(t, TRUE, FALSE)
               \/ Excuse(t, FALSE, TRUE) /\ UNCHANGED lsize,
               UNCHANGED <<usize, kiocb, ops, early>>
        PROVE  TypeInv'
    <3>1. ~th[t].aio /\ th[t].n \in 0 .. MaxSize
      BY <1>1, <2>2, FileAssumption DEF At, ThreadOK, Thread, Iter
    <3>2. ThreadsOK' /\ FilesOK'
      BY <1>0, <1>1, <2>2, <3>1, ReturnType
    <3>3. size_excuse' \in BOOLEAN /\ ExcuseOK'
      BY <1>0, <2>2, ExcuseType
    <3> QED BY <1>2, <2>2, <3>1, <3>2, <3>3, TypeParts DEF SizesOK, EarlyOK, IocbsOK
  <2> QED BY <1>3, <1>4, <1>5, <1>10, <2>1, <2>2 DEF trfs_setattr, At
<1>11. CASE trfs_readdir(t)
  <2>1. ASSUME NEW p \in 0 .. MaxPos, NEW ok \in BOOLEAN, At(t, "readdir", "in"),
               \/ file' = [file EXCEPT ![th[t].f].lpos = p]
               \/ file' = file,
               th' = [th EXCEPT ![t].pc = "set", ![t].n = p, ![t].ok = ok],
               UNCHANGED <<usize, lsize, kiocb, ops, early, size_excuse, pos_excuse>>
        PROVE  TypeInv'
    <3> DEFINE r == [th[t] EXCEPT !.pc = "set", !.n = p, !.ok = ok]
    <3>1. p \in Nat /\ p <= MaxPos
      BY Bounds
    <3>2. r \in Thread /\ r.n <= MaxPos
      BY <1>1, <3>1 DEF Thread, Labels
    <3>3. /\ th' = [th EXCEPT ![t] = r] /\ ~r.aio
          /\ r.op = "readdir" /\ th[t].op = "readdir" /\ r.pc = "set" /\ r.f = th[t].f
      BY <1>1, <1>5, <2>1 DEF Thread, At
    <3> HIDE DEF r
    <3>4. ThreadsOK'
      BY <1>0, <1>1, <3>2, <3>3, TurnType
    <3>5. FilesOK'
      BY <1>1, <1>2, <2>1 DEF FilesOK, FileRec
    <3> QED BY <1>2, <2>1, <3>4, <3>5, TypeParts DEF SizesOK, EarlyOK, ExcuseOK, IocbsOK
  <2>2. ASSUME At(t, "readdir", "set"), file' = [file EXCEPT ![th[t].f].pos = F(t).lpos],
               Goto(t, "back"),
               UNCHANGED <<usize, lsize, kiocb, ops, early, size_excuse, pos_excuse>>
        PROVE  TypeInv'
    <3> DEFINE r == [th[t] EXCEPT !.pc = "back"]
    <3>1. ~th[t].aio /\ th[t].n <= MaxPos
      BY <1>1, <2>2 DEF At, ThreadOK, Iter, Moving
    <3>2. r \in Thread /\ r.n <= MaxPos
      BY <1>1, <3>1 DEF Thread, Labels
    <3>3. /\ th' = [th EXCEPT ![t] = r] /\ ~r.aio
          /\ r.op = "readdir" /\ th[t].op = "readdir" /\ r.pc = "back" /\ r.f = th[t].f
      BY <1>1, <2>2, <3>1 DEF Thread, At, Goto
    <3> HIDE DEF r
    <3>4. ThreadsOK'
      BY <1>0, <1>1, <3>2, <3>3, TurnType
    <3>5. FilesOK'
      BY <1>1, <1>2, <2>2 DEF FilesOK, FileRec
    <3> QED BY <1>2, <2>2, <3>4, <3>5, TypeParts DEF SizesOK, EarlyOK, ExcuseOK, IocbsOK
  <2>3. ASSUME At(t, "readdir", "back"), Return(t, [F(t) EXCEPT !.pos = th[t].n]),
               Excuse(t, th[t].ok, FALSE), UNCHANGED <<usize, lsize, kiocb, ops, early>>
        PROVE  TypeInv'
    <3>1. ~th[t].aio /\ th[t].n \in 0 .. MaxPos /\ th[t].ok \in BOOLEAN
      BY <1>1, <2>3, Bounds DEF At, ThreadOK, Thread, Iter, Moving
    <3> DEFINE x == [F(t) EXCEPT !.pos = th[t].n]
    <3>2. x \in FileRec /\ x.count > 0
      BY <1>1, <3>1 DEF FileRec
    <3> HIDE DEF x
    <3>3. Return(t, x)
      BY <2>3 DEF x
    <3>4. ThreadsOK' /\ FilesOK' /\ size_excuse' \in BOOLEAN /\ ExcuseOK'
      BY <1>0, <2>3, <3>1, <3>2, <3>3, ReturnType, ExcuseType
    <3> QED BY <1>2, <2>3, <3>4, TypeParts DEF SizesOK, EarlyOK, IocbsOK
  <2>4. F(t).pos \in 0 .. MaxPos /\ F(t).lpos .. MaxPos \subseteq 0 .. MaxPos
    BY <1>1, Bounds DEF FileRec
  <2>5. ASSUME NEW p, th' = [th EXCEPT ![t].pc = "set", ![t].n = p]
        PROVE  th' = [th EXCEPT ![t].pc = "set", ![t].n = p, ![t].ok = th[t].ok]
    BY <1>1, <1>2, <2>5 DEF ThreadsOK, Thread
  <2>6. ASSUME At(t, "readdir", "in"), LowerFile(th[t].f) PROVE TypeInv'
    <3>1. CASE \E p \in F(t).lpos .. MaxPos :
                 /\ file' = [file EXCEPT ![th[t].f].lpos = p]
                 /\ th' = [th EXCEPT ![t].pc = "set", ![t].n = p]
      BY <1>1, <1>3, <1>11, <2>1, <2>4, <2>5, <2>6, <3>1 DEF trfs_readdir, At, Thread
    <3>2. CASE /\ file' = file
               /\ th' = [th EXCEPT ![t].pc = "set", ![t].n = F(t).pos, ![t].ok = FALSE]
      BY <1>3, <1>11, <2>1, <2>4, <2>6, <3>2 DEF trfs_readdir, At
    <3> QED BY <1>3, <1>11, <2>6, <3>1, <3>2 DEF trfs_readdir, At
  <2> QED BY <1>3, <1>11, <2>2, <2>3, <2>6 DEF trfs_readdir
<1>12. CASE trfs_file_llseek(t)
  <2>1. ASSUME NEW p \in 0 .. MaxPos, Return(t, [F(t) EXCEPT !.pos = p]), ~th[t].aio,
               Excuse(t, FALSE, TRUE), UNCHANGED <<usize, lsize, kiocb, ops, early>>
        PROVE  TypeInv'
    <3> DEFINE x == [F(t) EXCEPT !.pos = p]
    <3>1. x \in FileRec /\ x.count > 0
      BY <1>1, <2>1 DEF FileRec
    <3> HIDE DEF x
    <3>2. Return(t, x)
      BY <2>1 DEF x
    <3>3. ThreadsOK' /\ FilesOK' /\ size_excuse' \in BOOLEAN /\ ExcuseOK'
      BY <1>0, <2>1, <3>1, <3>2, ReturnType, ExcuseType
    <3> QED BY <1>2, <2>1, <3>3, TypeParts DEF SizesOK, EarlyOK, IocbsOK
  <2>2. ASSUME NEW p \in 0 .. MaxPos, NEW off \in 0 .. MaxPos, NEW whence \in {"set", "cur"},
               file' = [file EXCEPT ![th[t].f].pos = p], ~th[t].aio, th[t].op = "llseek",
               th' = [th EXCEPT ![t].pc = whence, ![t].n = off],
               UNCHANGED <<usize, lsize, kiocb, ops, early, size_excuse, pos_excuse>>
        PROVE  TypeInv'
    <3> DEFINE r == [th[t] EXCEPT !.pc = whence, !.n = off]
    <3>1. off \in Nat /\ off <= MaxPos
      BY Bounds
    <3>2. r \in Thread /\ r.n <= MaxPos
      BY <1>1, <3>1 DEF Thread, Labels
    <3>3. /\ th' = [th EXCEPT ![t] = r] /\ ~r.aio
          /\ r.op = "llseek" /\ th[t].op = "llseek" /\ r.pc \in {"set", "cur"} /\ r.f = th[t].f
      BY <1>1, <2>2 DEF Thread
    <3> HIDE DEF r
    <3>4. ThreadsOK'
      BY <1>0, <1>1, <3>2, <3>3, TurnType
    <3>5. FilesOK'
      BY <1>1, <1>2, <2>2 DEF FilesOK, FileRec
    <3> QED BY <1>2, <2>2, <3>4, <3>5, TypeParts DEF SizesOK, EarlyOK, ExcuseOK, IocbsOK
  <2>3. ASSUME At(t, "llseek", "in") PROVE TypeInv'
    <3>1. ~th[t].aio /\ F(t).pos \in Nat /\ th[t].op = "llseek"
      BY <1>1, <1>5, <2>3, Bounds DEF At, FileRec
    <3>2. PICK off \in 0 .. MaxPos, whence \in {"set", "cur"} :
            LET p == NewPos(whence, F(t).pos, off)
            IN \/ p > MaxPos /\ Refused(t)
               \/ /\ p <= MaxPos
                  /\ IF ToInt(p) < 0
                     THEN Return(t, [F(t) EXCEPT !.pos = p]) /\ Excuse(t, FALSE, TRUE)
                     ELSE /\ file' = [file EXCEPT ![th[t].f].pos = p]
                          /\ th' = [th EXCEPT ![t].pc = whence, ![t].n = off]
                          /\ UNCHANGED <<size_excuse, pos_excuse>>
                  /\ UNCHANGED <<usize, lsize, kiocb, ops, early>>
      BY <1>12, <2>3 DEF trfs_file_llseek, At
    <3> DEFINE p == NewPos(whence, F(t).pos, off)
    <3>3. p \in Nat
      BY <3>1, Bounds DEF NewPos
    <3>4. CASE p > MaxPos
      <4>1. ~(p <= MaxPos)
        BY <3>3, <3>4, Bounds
      <4> QED BY <1>4, <3>1, <3>2, <4>1
    <3>5. CASE p <= MaxPos
      <4>1. p \in 0 .. MaxPos
        BY <3>3, <3>5
      <4>2. ~(p > MaxPos)
        BY <3>3, <3>5, Bounds
      <4>3. CASE ToInt(p) < 0
        BY <2>1, <3>1, <3>2, <4>1, <4>2, <4>3
      <4>4. CASE ~(ToInt(p) < 0)
        BY <2>2, <3>1, <3>2, <4>1, <4>2, <4>4
      <4> QED BY <4>3, <4>4
    <3> QED BY <3>3, <3>4, <3>5, Bounds
  <2>4. ASSUME th[t].op = "llseek", th[t].pc \in {"set", "cur"} PROVE TypeInv'
    <3>1. ~th[t].aio
      BY <1>1, <2>4 DEF ThreadOK, Iter
    <3> DEFINE p == NewPos(th[t].pc, F(t).lpos, th[t].n)
               x == [F(t) EXCEPT !.lpos = IF p <= MaxPos THEN p ELSE @]
    <3>2. p \in Nat
      BY <1>1, Bounds DEF NewPos, FileRec, Thread
    <3>3. x \in FileRec /\ x.count > 0
      BY <1>1, <3>1, <3>2, Bounds DEF FileRec
    <3>4. Oops(t) \/ /\ Return(t, x) /\ Excuse(t, th[t].pc = "set", FALSE)
                     /\ UNCHANGED <<usize, lsize, kiocb, ops, early>>
      BY <1>12, <2>4 DEF trfs_file_llseek, At
    <3> HIDE DEF x
    <3>5. ASSUME Return(t, x), Excuse(t, th[t].pc = "set", FALSE),
                 UNCHANGED <<usize, lsize, kiocb, ops, early>>
          PROVE  TypeInv'
      <4>1. ThreadsOK' /\ FilesOK' /\ size_excuse' \in BOOLEAN /\ ExcuseOK'
        BY <1>0, <3>3, <3>5, ReturnType, ExcuseType
      <4> QED BY <1>2, <3>5, <4>1, TypeParts DEF SizesOK, EarlyOK, IocbsOK
    <3> QED BY <1>3, <3>4, <3>5
  <2> QED BY <1>12, <2>3, <2>4 DEF trfs_file_llseek
<1>13. CASE IterGet(t)
  <2>1. th[t].op \in Iter /\ th[t].pc = "in" /\ ~th[t].aio
    BY <1>5, <1>13 DEF IterGet
  <2>2. ASSUME NEW aio \in BOOLEAN, file' = [file EXCEPT ![th[t].f].lcount = @ + 1],
               th' = [th EXCEPT ![t].pc = "lower", ![t].aio = aio],
               kiocb' = IF aio
                        THEN [kiocb EXCEPT ![t] =
                                [NoIocb EXCEPT !.st = "submitted", !.f = th[t].f,
                                   !.filp = "lower", !.write = th[t].op = "write_iter"]]
                        ELSE kiocb,
               UNCHANGED <<usize, lsize, ops, early, size_excuse, pos_excuse>>
        PROVE  TypeInv'
    <3> DEFINE r == [th[t] EXCEPT !.pc = "lower", !.aio = aio]
    <3>1. r \in Thread
      BY <1>1 DEF Thread, Labels
    <3>2. /\ th' = [th EXCEPT ![t] = r]
          /\ r.op \in Iter /\ r.op = th[t].op /\ r.pc = "lower" /\ r.f = th[t].f
      BY <1>1, <2>1, <2>2 DEF Thread
    <3> HIDE DEF r
    <3>3. ThreadsOK'
      BY <1>0, <1>1, <3>1, <3>2, TurnType DEF Iter
    <3>4. FilesOK'
      BY <1>1, <1>2, <2>2 DEF FilesOK, FileRec
    <3>5. IocbsOK'
      <4> DEFINE k == [NoIocb EXCEPT !.st = "submitted", !.f = th[t].f, !.filp = "lower",
                                     !.write = th[t].op = "write_iter"]
      <4>1. ASSUME NEW w \in BOOLEAN
            PROVE  [NoIocb EXCEPT !.st = "submitted", !.f = th[t].f, !.filp = "lower",
                                  !.write = w] \in Iocb
        BY <1>1, NoIocbType DEF Iocb
      <4>2. k \in Iocb
        BY <4>1
      <4> HIDE DEF k
      <4>3. kiocb' = kiocb \/ kiocb' = [kiocb EXCEPT ![t] = k]
        BY <2>2 DEF k
      <4> QED BY <1>2, <4>2, <4>3 DEF IocbsOK
    <3> QED BY <1>2, <2>2, <3>3, <3>4, <3>5, TypeParts DEF SizesOK, EarlyOK, ExcuseOK
  <2> QED BY <1>3, <1>4, <1>13, <2>1, <2>2 DEF IterGet
<1>14. CASE IterLower(t)
  <2>1. th[t].op \in Iter /\ th[t].pc = "lower"
    BY <1>14 DEF IterLower
  <2>2. UNCHANGED <<file, usize, ops, early, size_excuse, pos_excuse>>
    BY <1>14 DEF IterLower
  <2>3. PICK n \in IF th[t].op = "write_iter" THEN 0..MaxSize ELSE {0} :
          \/ /\ th' = [th EXCEPT ![t].pc = "restore"]
             /\ lsize' = Max({lsize, n})
             /\ UNCHANGED kiocb
          \/ /\ Fault("lower")
             /\ th' = [th EXCEPT ![t].pc = "restore", ![t].ok = FALSE]
             /\ UNCHANGED <<lsize, kiocb>>
          \/ /\ th[t].aio
             /\ th' = [th EXCEPT ![t].pc = "restore"]
             /\ kiocb' = [kiocb EXCEPT ![t].st = "queued", ![t].n = n]
             /\ UNCHANGED lsize
    BY <1>14 DEF IterLower
  <2>4. n \in 0 .. MaxSize
    BY Bounds
  <2>5. ThreadsOK'
    <3>1. ASSUME NEW ok \in BOOLEAN, th' = [th EXCEPT ![t].pc = "restore", ![t].ok = ok]
          PROVE  ThreadsOK'
      <4> DEFINE r == [th[t] EXCEPT !.pc = "restore", !.ok = ok]
      <4>1. r \in Thread
        BY <1>1 DEF Thread, Labels
      <4>2. /\ th' = [th EXCEPT ![t] = r]
            /\ r.op \in Iter /\ r.op = th[t].op /\ r.pc = "restore" /\ r.f = th[t].f
        BY <1>1, <2>1, <3>1 DEF Thread
      <4> HIDE DEF r
      <4> QED BY <1>0, <1>1, <4>1, <4>2, TurnType DEF Iter, Late
    <3>2. ASSUME th' = [th EXCEPT ![t].pc = "restore"] PROVE ThreadsOK'
      <4>1. th' = [th EXCEPT ![t].pc = "restore", ![t].ok = th[t].ok]
        BY <1>1, <1>2, <3>2 DEF ThreadsOK, Thread
      <4> QED BY <1>1, <3>1, <4>1 DEF Thread
    <3> QED BY <2>3, <3>1, <3>2
  <2>6. SizesOK'
    BY <1>2, <2>2, <2>3, <2>4, MaxPair, Bounds DEF SizesOK
  <2>7. IocbsOK'
    BY <1>2, <2>3, <2>4 DEF IocbsOK, Iocb
  <2> QED BY <1>2, <2>2, <2>5, <2>6, <2>7, TypeParts DEF FilesOK, EarlyOK, ExcuseOK
<1>15. CASE IterRestore(t)
  <2>1. /\ th[t].op \in Iter /\ th[t].pc = "restore" /\ th' = [th EXCEPT ![t].pc = "put"]
        /\ kiocb' = IF th[t].aio THEN [kiocb EXCEPT ![t].filp = "upper"] ELSE kiocb
        /\ UNCHANGED <<file, usize, lsize, ops, early, size_excuse, pos_excuse>>
    BY <1>15 DEF IterRestore, Goto
  <2> DEFINE r == [th[t] EXCEPT !.pc = "put"]
  <2>2. r \in Thread
    BY <1>1 DEF Thread, Labels
  <2>3. /\ th' = [th EXCEPT ![t] = r]
        /\ r.op \in Iter /\ r.op = th[t].op /\ r.pc = "put" /\ r.f = th[t].f
    BY <1>1, <2>1 DEF Thread
  <2> HIDE DEF r
  <2>4. ThreadsOK'
    BY <1>0, <1>1, <2>2, <2>3, TurnType DEF Iter, Late
  <2>5. IocbsOK'
    BY <1>2, <2>1 DEF IocbsOK, Iocb
  <2> QED BY <1>2, <2>1, <2>4, <2>5, TypeParts DEF FilesOK, SizesOK, EarlyOK, ExcuseOK
<1>16. CASE IterPut(t)
  <2>1. ASSUME NEW l \in {"copy", "out"}, l = "copy" => th[t].op = "write_iter",
               file' = [file EXCEPT ![th[t].f].lcount = @ - 1], F(t).lcount > 0,
               th[t].op \in Iter, th' = [th EXCEPT ![t].pc = l],
               UNCHANGED <<usize, lsize, kiocb, ops, early, size_excuse, pos_excuse>>
        PROVE  TypeInv'
    <3> DEFINE r == [th[t] EXCEPT !.pc = l]
    <3>1. r \in Thread
      BY <1>1 DEF Thread, Labels
    <3>2. /\ th' = [th EXCEPT ![t] = r]
          /\ r.op \in Iter /\ r.op = th[t].op /\ r.pc = l /\ r.f = th[t].f
      BY <1>1, <2>1 DEF Thread
    <3> HIDE DEF r
    <3>3. ThreadsOK'
      BY <1>0, <1>1, <2>1, <3>1, <3>2, TurnType DEF Iter, Late
    <3>4. FilesOK'
      BY <1>1, <1>2, <2>1 DEF FilesOK, FileRec, F
    <3> QED BY <1>2, <2>1, <3>3, <3>4, TypeParts DEF SizesOK, EarlyOK, ExcuseOK, IocbsOK
  <2> QED BY <1>3, <1>16, <2>1 DEF IterPut, Goto
<1>17. CASE IterReturn(t)
  <2>1. Excuse(t, th[t].ok, FALSE) /\ UNCHANGED <<usize, lsize, ops, early>>
    BY <1>17 DEF IterReturn
  <2>2. ExcuseOK' /\ size_excuse' \in BOOLEAN
    BY <1>0, <1>1, <2>1, ExcuseType DEF Thread
  <2>3. ThreadsOK'
    <3>1. th' = [th EXCEPT ![t] = Idle]
      BY <1>17, IterReturnEffect
    <3> QED BY <1>2, <3>1, Bounds DEF ThreadsOK, ThreadOK, Thread, Idle, Ops, Labels, Late,
                                      Moving, Iter
  <2>a. /\ \/ file' = file
           \/ F(t).count > 0 /\ file' = [file EXCEPT ![th[t].f].count = @ - 1]
        /\ kiocb' = kiocb \/ kiocb' = [kiocb EXCEPT ![t] = NoIocb]
    BY <1>17, IterReturnEffect
  <2>4. FilesOK'
    BY <1>1, <1>2, <2>a DEF FilesOK, FileRec, F
  <2>5. IocbsOK'
    BY <1>2, <2>a, NoIocbType DEF IocbsOK
  <2> QED BY <1>2, <2>1, <2>2, <2>3, <2>4, <2>5, TypeParts DEF SizesOK, EarlyOK
<1>18. CASE trfs_mmap(t)
  <2>1. ASSUME At(t, "mmap", "in"),
               th' = [th EXCEPT ![t].pc = "save", ![t].n = IF F(t).vm_ops THEN 0 ELSE 1],
               UNCHANGED <<file, usize, lsize, kiocb, ops, early, size_excuse, pos_excuse>>
        PROVE  TypeInv'
    <3> DEFINE r == [th[t] EXCEPT !.pc = "save", !.n = IF F(t).vm_ops THEN 0 ELSE 1]
    <3>1. r \in Thread
      BY <1>1 DEF Thread, Labels
    <3>2. /\ th' = [th EXCEPT ![t] = r] /\ ~r.aio
          /\ r.op = "mmap" /\ r.op = th[t].op /\ r.pc = "save" /\ r.f = th[t].f
      BY <1>1, <1>5, <2>1 DEF Thread, At
    <3> HIDE DEF r
    <3>3. ThreadsOK'
      BY <1>0, <1>1, <3>1, <3>2, TurnType
    <3> QED BY <1>2, <2>1, <3>3, TypeParts DEF FilesOK, SizesOK, EarlyOK, ExcuseOK, IocbsOK
  <2>2. ASSUME At(t, "mmap", "save"),
               Return(t, [F(t) EXCEPT !.vm_ops = @ \/ th[t].n = 1, !.count = @ + 1,
                                      !.maps = @ + 1]),
               UNCHANGED <<usize, lsize, kiocb, ops, early, size_excuse, pos_excuse>>
        PROVE  TypeInv'
    <3>1. F(t).maps + 1 \in 0 .. MaxMaps
      <4>1. Cardinality(Mapping(f)) \in Nat /\ Cardinality(Mapping(f)) # 0
        BY <1>1, <2>2, Counted DEF Mapping, At
      <4> QED BY <1>1, <4>1, Bounds DEF MapsInv, F, FileRec
    <3> DEFINE x == [F(t) EXCEPT !.vm_ops = @ \/ th[t].n = 1, !.count = @ + 1, !.maps = @ + 1]
    <3>2. F(t).count + 1 \in Nat /\ F(t).count + 1 > 0
      BY <1>1 DEF FileRec
    <3>3. (th[t].n = 1) \in BOOLEAN
      OBVIOUS
    <3>4. x \in FileRec /\ x.count = F(t).count + 1
      BY <1>1, <3>1, <3>2, <3>3, MappedType, Zenon
    <3> HIDE DEF x
    <3>5. Return(t, x)
      BY <2>2 DEF x
    <3>6. ThreadsOK' /\ FilesOK'
      BY <1>0, <3>2, <3>4, <3>5, ReturnType
    <3> QED BY <1>2, <2>2, <3>6, TypeParts DEF SizesOK, EarlyOK, ExcuseOK, IocbsOK
  <2> QED BY <1>3, <1>4, <1>5, <1>18, <2>1, <2>2 DEF trfs_mmap, At
<1> QED BY <1>6, <1>7, <1>8, <1>9, <1>10, <1>11, <1>12, <1>13, <1>14, <1>15, <1>16, <1>17,
           <1>18 DEF Step

(* A thread that is not the one that acts, except that it may lose alone.    *)
SameCall(u) ==
  /\ th'[u].op = th[u].op /\ th'[u].pc = th[u].pc /\ th'[u].f = th[u].f
  /\ th'[u].aio = th[u].aio /\ th'[u].n = th[u].n /\ th'[u].ok = th[u].ok

(* What beginning a call does to the threads.                                *)
LEMMA BeginEffect ==
  ASSUME TypeInv, NEW t \in Threads, NEW f \in Files \cup {NoFile}, NEW op \in Ops \ {"none"},
         Begin(t, f, op)
  PROVE  /\ th' \in [Threads -> Thread] /\ th[t].pc = "idle"
         /\ th'[t].op = op /\ th'[t].pc = "in" /\ th'[t].f = f /\ ~th'[t].aio
         /\ \A u \in Threads \ {t} : SameCall(u)
         /\ UNCHANGED <<usize, lsize, kiocb, early, size_excuse, pos_excuse>>
<1>1. th \in [Threads -> Thread]
  BY TypeParts DEF ThreadsOK
<1> DEFINE others == {u \in Threads : Clash(op, f, th[u].op, th[u].f)}
           queued == {u \in Threads : kiocb[u].st = "queued" /\ kiocb[u].write}
           single == others = {} /\ (op \in Sizing => queued = {})
           enters == [Idle EXCEPT !.op = op, !.pc = "in", !.f = f, !.alone = single]
           stays(u) == [th[u] EXCEPT !.alone = @ /\ u \notin others]
<1>2. ASSUME NEW b \in BOOLEAN
      PROVE  LET r == [Idle EXCEPT !.op = op, !.pc = "in", !.f = f, !.alone = b]
             IN  /\ r \in Thread
                 /\ r.op = op /\ r.pc = "in" /\ r.f = f /\ ~r.aio
  BY DEF Idle, Thread, Labels
<1>3. single \in BOOLEAN
  OBVIOUS
<1>4. /\ enters \in Thread
      /\ enters.op = op /\ enters.pc = "in" /\ enters.f = f /\ ~enters.aio
  BY <1>2, <1>3, Zenon
<1>5. ASSUME NEW u \in Threads, NEW b \in BOOLEAN
      PROVE  LET r == [th[u] EXCEPT !.alone = b]
             IN  /\ r \in Thread
                 /\ r.op = th[u].op /\ r.pc = th[u].pc /\ r.f = th[u].f
                 /\ r.aio = th[u].aio /\ r.n = th[u].n /\ r.ok = th[u].ok
  BY <1>1 DEF Thread
<1>6. ASSUME NEW u \in Threads
      PROVE  /\ stays(u) \in Thread
             /\ stays(u).op = th[u].op /\ stays(u).pc = th[u].pc /\ stays(u).f = th[u].f
             /\ stays(u).aio = th[u].aio /\ stays(u).n = th[u].n /\ stays(u).ok = th[u].ok
  <2>1. (th[u].alone /\ u \notin others) \in BOOLEAN
    OBVIOUS
  <2> QED BY <1>5, <2>1, Zenon
<1>7. th' = [u \in Threads |-> IF u = t THEN enters ELSE stays(u)]
  BY DEF Begin
<1> HIDE DEF enters, stays
<1>8. th' \in [Threads -> Thread] /\ th'[t] = enters /\ \A u \in Threads \ {t} : th'[u] = stays(u)
  BY <1>4, <1>6, <1>7
<1>9. \A u \in Threads \ {t} : SameCall(u)
  BY <1>6, <1>8 DEF SameCall
<1> QED BY <1>4, <1>8, <1>9 DEF Begin

(* A call on a file takes a reference to it.                                 *)
LEMMA EnterEffect ==
  ASSUME TypeInv, NEW t \in Threads, NEW f \in Files, NEW op \in Ops \ {"none", "link"},
         Enter(t, f, op)
  PROVE  /\ th' \in [Threads -> Thread] /\ th[t].pc = "idle"
         /\ th'[t].op = op /\ th'[t].pc = "in" /\ th'[t].f = f /\ ~th'[t].aio
         /\ \A u \in Threads \ {t} : SameCall(u)
         /\ UNCHANGED <<usize, lsize, kiocb, early, size_excuse, pos_excuse>>
         /\ file' = [file EXCEPT ![f].count = @ + 1]
         /\ IF op = "fault" THEN file[f].maps > 0 ELSE file[f].fd
<1>1. Begin(t, f, op)
  BY DEF Enter
<1> QED BY <1>1, BeginEffect DEF Enter

(* A link touches no open file and no request.                               *)
LEMMA LinkAside ==
  ASSUME TypeInv, NEW t \in Threads, EnterLink(t) \/ trfs_link(t)
  PROVE  /\ th' \in [Threads -> Thread] /\ ThreadOK(t)'
         /\ th[t].f = NoFile /\ th'[t].f = NoFile /\ ~th[t].aio /\ ~th'[t].aio
         /\ th[t].op \in {"none", "link"} /\ th'[t].op \in {"none", "link"}
         /\ th'[t].pc # "oops" /\ \A u \in Threads \ {t} : SameCall(u)
         /\ UNCHANGED <<file, lsize, kiocb, early, pos_excuse>>
         /\ usize' \in 0 .. MaxSize /\ size_excuse' \in BOOLEAN
<1>1. /\ th \in [Threads -> Thread] /\ th[t] \in Thread /\ ThreadOK(t)
      /\ usize \in 0 .. MaxSize /\ size_excuse \in BOOLEAN
  BY TypeParts DEF ThreadsOK, SizesOK
<1>2. CASE EnterLink(t)
  <2>1. Begin(t, NoFile, "link") /\ file' = file /\ "link" \in Ops \ {"none"}
    BY <1>2 DEF EnterLink, Ops
  <2>2. /\ th' \in [Threads -> Thread] /\ th[t].pc = "idle"
        /\ th'[t].op = "link" /\ th'[t].pc = "in" /\ th'[t].f = NoFile /\ ~th'[t].aio
        /\ \A u \in Threads \ {t} : SameCall(u)
        /\ UNCHANGED <<usize, lsize, kiocb, early, size_excuse, pos_excuse>>
    BY <2>1, BeginEffect
  <2>3. th[t].f = NoFile /\ th[t].op = "none" /\ ~th[t].aio
    BY <1>1, <2>2 DEF ThreadOK, Late
  <2>4. ThreadOK(t)'
    BY <2>2 DEF ThreadOK, Moving
  <2> QED BY <1>1, <2>1, <2>2, <2>3, <2>4
<1>3. CASE trfs_link(t)
  <2>1. th[t].op = "link" /\ th[t].f = NoFile /\ ~th[t].aio
    BY <1>1, <1>3 DEF trfs_link, At, ThreadOK, Iter
  <2>2. UNCHANGED <<file, lsize, kiocb, early>>
    BY <1>3 DEF trfs_link
  <2>3. CASE th[t].pc = "in"
    <3> DEFINE r == [th[t] EXCEPT !.pc = "saved", !.n = usize]
    <3>1. /\ th' = [th EXCEPT ![t].pc = "saved", ![t].n = usize]
          /\ UNCHANGED <<usize, pos_excuse, size_excuse>>
      BY <1>3, <2>3 DEF trfs_link, At
    <3>2. usize \in Nat /\ usize <= MaxSize
      BY <1>1, Bounds
    <3>3. /\ r \in Thread /\ th' = [th EXCEPT ![t] = r]
          /\ r.op = "link" /\ r.pc = "saved" /\ r.f = NoFile /\ ~r.aio /\ r.n <= MaxSize
      BY <1>1, <2>1, <3>1, <3>2 DEF Thread, Labels
    <3> HIDE DEF r
    <3>4. th'[t] = r /\ \A u \in Threads \ {t} : th'[u] = th[u]
      BY <1>1, <3>3
    <3>5. ThreadOK(t)'
      BY <3>3, <3>4 DEF ThreadOK, Moving
    <3> QED BY <1>1, <2>1, <2>2, <3>1, <3>3, <3>4, <3>5 DEF SameCall
  <2>4. CASE th[t].pc = "saved"
    <3>1. /\ usize' = th[t].n \/ usize' = usize
          /\ th' = [th EXCEPT ![t] = Idle] /\ Excuse(t, FALSE, FALSE)
      BY <1>3, <2>4 DEF trfs_link, At
    <3>2. th[t].n \in 0 .. MaxSize
      BY <1>1, <2>4, Bounds DEF ThreadOK, Thread
    <3>3. pos_excuse' = pos_excuse
      BY <2>1, <3>1 DEF Excuse, Moving
    <3>4. size_excuse' \in BOOLEAN
      BY <2>1, <3>1 DEF Excuse, Sizing
    <3>5. /\ th'[t] = Idle /\ \A u \in Threads \ {t} : th'[u] = th[u]
          /\ Idle \in Thread
      BY <1>1, <3>1, Bounds DEF Idle, Thread, Ops, Labels
    <3>6. ThreadOK(t)' /\ Idle.f = NoFile /\ ~Idle.aio /\ Idle.op = "none" /\ Idle.pc = "idle"
      BY <3>5 DEF Idle, ThreadOK, Moving
    <3> QED BY <1>1, <2>1, <2>2, <3>1, <3>2, <3>3, <3>4, <3>5, <3>6 DEF SameCall
  <2> QED BY <1>3, <2>3, <2>4 DEF trfs_link, At
<1> QED BY <1>2, <1>3

(* The completion of a request drops the reference of the request, or, while *)
(* the call has not restored ki_filp, one of the lower file.                 *)
LEMMA CompleteEffect ==
  ASSUME FileInv, NEW t \in Threads, Complete(t)
  PROVE  LET f == kiocb[t].f
             inside == th[t].aio /\ th[t].pc # "oops" IN
         /\ f \in Files /\ kiocb[t].st = "queued" /\ F(t) = file[th[t].f]
         /\ inside => th[t].f = f /\ th[t].pc \in Late
         /\ th' \in [Threads -> Thread] /\ \A u \in Threads : SameCall(u)
         /\ \/ /\ kiocb[t].filp = "upper" /\ file[f].count > 0
               /\ file' = [file EXCEPT ![f].count = @ - 1]
               /\ \/ ~inside /\ early' = early
                  \/ /\ inside /\ th[t].pc # "restore"
                     /\ early' = early \cup {<<f, th[t].pc>>}
            \/ /\ inside /\ th[t].pc = "restore" /\ early' = early \cup {<<f, "restore">>}
               /\ \E c \in Nat : file' = [file EXCEPT ![f].lcount = c]
         /\ \E k \in Iocb : /\ kiocb' = [kiocb EXCEPT ![t] = k]
                            /\ k.f = NoFile /\ k.filp = "upper"
                            /\ k.st = IF inside THEN "gone" ELSE "none"
<1> USE DEF FileInv
<1> DEFINE f == kiocb[t].f
           inside == th[t].aio /\ th[t].pc # "oops"
<1>1. /\ th \in [Threads -> Thread] /\ kiocb \in [Threads -> Iocb] /\ file \in [Files -> FileRec]
      /\ th[t] \in Thread /\ ThreadOK(t) /\ IocbOK(t)
      /\ kiocb[t].f \in Files \cup {NoFile} /\ kiocb[t].filp \in {"upper", "lower"}
  BY TypeParts DEF ThreadsOK, IocbsOK, FilesOK, IocbInv, Iocb
<1>2. kiocb[t].st = "queued" /\ f \in Files
  BY <1>1 DEF Complete, IocbOK
<1>3. file[f].count > 0 /\ file[f] \in FileRec
  BY <1>1, <1>2, NotCounted DEF Requests, FileRec
<1>4. inside => th[t].f = f /\ th[t].pc \in Late
  BY <1>1, <1>2, Bounds DEF IocbOK, ThreadOK
<1>5. kiocb[t].filp = "lower" <=> inside /\ th[t].pc = "restore"
  BY <1>1, <1>2, <1>4, Bounds DEF IocbOK, Late
<1>6. th' \in [Threads -> Thread] /\ \A u \in Threads : SameCall(u)
  <2>1. th' = [u \in Threads |-> IF kiocb[t].write /\ th[u].op \in Sizing
                                 THEN [th[u] EXCEPT !.alone = FALSE] ELSE th[u]]
    BY DEF Complete
  <2> QED BY <1>1, <2>1 DEF Thread, SameCall
<1> DEFINE less == [file[f] EXCEPT !.count = file[f].count - 1]
           lost == [file[f] EXCEPT !.lcount = Max({0, file[f].lcount - 1})]
           put == \/ /\ kiocb[t].filp = "upper" /\ file[f].count > 0
                     /\ file' = [file EXCEPT ![f].count = @ - 1]
                     /\ \/ ~inside /\ early' = early
                        \/ /\ inside /\ th[t].pc # "restore"
                           /\ early' = early \cup {<<f, th[t].pc>>}
                  \/ /\ inside /\ th[t].pc = "restore" /\ early' = early \cup {<<f, "restore">>}
                     /\ \E c \in Nat : file' = [file EXCEPT ![f].lcount = c]
<1>a. /\ file' = [file EXCEPT ![f] = IF kiocb[t].filp = "lower" THEN lost ELSE less]
      /\ early' = IF inside THEN early \cup {<<f, th[t].pc>>} ELSE early
  BY DEF Complete
<1>7. ASSUME kiocb[t].filp = "upper" PROVE put
  <2>1. file' = [file EXCEPT ![f].count = @ - 1]
    BY <1>1, <1>7, <1>a
  <2>2. \/ ~inside /\ early' = early
        \/ /\ inside /\ th[t].pc # "restore" /\ early' = early \cup {<<f, th[t].pc>>}
    BY <1>5, <1>7, <1>a
  <2> QED BY <1>3, <1>7, <2>1, <2>2
<1>8. ASSUME kiocb[t].filp = "lower" PROVE put
  <2>1. file' = [file EXCEPT ![f] = lost]
    BY <1>8, <1>a
  <2>2. Max({0, file[f].lcount - 1}) \in Nat
    BY <1>3, MaxPair DEF FileRec
  <2>3. file' = [file EXCEPT ![f].lcount = Max({0, file[f].lcount - 1})]
    BY <1>1, <1>2, <2>1
  <2>4. early' = early \cup {<<f, "restore">>}
    BY <1>5, <1>8, <1>a
  <2>5. \E c \in Nat : file' = [file EXCEPT ![f].lcount = c]
    BY <2>2, <2>3, Zenon
  <2> QED BY <1>5, <1>8, <2>4, <2>5
<1>9. \E k \in Iocb : /\ kiocb' = [kiocb EXCEPT ![t] = k]
                      /\ k.f = NoFile /\ k.filp = "upper"
                      /\ k.st = IF inside THEN "gone" ELSE "none"
  <2> DEFINE k == [NoIocb EXCEPT !.st = IF inside THEN "gone" ELSE "none"]
  <2>1. /\ k \in Iocb /\ k.f = NoFile /\ k.filp = "upper"
        /\ k.st = IF inside THEN "gone" ELSE "none"
    BY NoIocbType DEF NoIocb, Iocb
  <2>2. kiocb' = [kiocb EXCEPT ![t] = k]
    BY DEF Complete
  <2> QED BY <2>1, <2>2
<1> QED BY <1>1, <1>2, <1>4, <1>6, <1>7, <1>8, <1>9 DEF F

(* Every other step keeps the types as well.                                 *)
LEMMA NextType ==
  ASSUME FileInv, [Next]_vars
  PROVE  TypeInv'
<1> USE DEF FileInv
<1>0. ThreadsOK /\ FilesOK /\ SizesOK /\ EarlyOK /\ ExcuseOK /\ IocbsOK
  BY TypeParts
<1>1. ASSUME NEW t \in Threads, Step(t) PROVE TypeInv'
  BY <1>1, StepType
<1>2. ASSUME NEW t \in Threads, NEW f \in Files, NEW op \in Ops \ {"none", "link"},
             Enter(t, f, op), op \in Moving => f \in Dirs
      PROVE  TypeInv'
  <2>0. /\ th' \in [Threads -> Thread]
        /\ th'[t].op = op /\ th'[t].pc = "in" /\ th'[t].f = f /\ ~th'[t].aio
        /\ \A u \in Threads \ {t} : SameCall(u)
    BY <1>2, EnterEffect
  <2>a. ThreadOK(t)'
    BY <1>2, <2>0, Bounds DEF ThreadOK
  <2>b. \A u \in Threads \ {t} : ThreadOK(u)'
    BY <1>0, <2>0 DEF ThreadsOK, ThreadOK, SameCall
  <2>1. ThreadsOK'
    BY <2>0, <2>a, <2>b DEF ThreadsOK
  <2>2. FilesOK'
    BY <1>0, <1>2, EnterEffect DEF FilesOK, FileRec
  <2> QED BY <1>0, <1>2, <2>1, <2>2, EnterEffect, TypeParts
          DEF SizesOK, EarlyOK, ExcuseOK, IocbsOK
<1>3. ASSUME NEW t \in Threads, NEW f \in Files, Close(t, f) PROVE TypeInv'
  <2>1. ThreadsOK'
    BY <1>0, <1>3, Bounds DEF Close, ThreadsOK, ThreadOK, Thread, Idle, Ops, Labels, Late,
                              Moving, Iter
  <2>2. FilesOK'
    BY <1>0, <1>3 DEF Close, FilesOK, FileRec
  <2> QED BY <1>0, <1>3, <2>1, <2>2, TypeParts DEF Close, SizesOK, EarlyOK, ExcuseOK, IocbsOK
<1>a. ASSUME NEW t \in Threads, EnterLink(t) \/ trfs_link(t) PROVE TypeInv'
  <2>1. /\ th' \in [Threads -> Thread] /\ ThreadOK(t)'
        /\ \A u \in Threads \ {t} : SameCall(u)
        /\ UNCHANGED <<file, lsize, kiocb, early, pos_excuse>>
        /\ usize' \in 0 .. MaxSize /\ size_excuse' \in BOOLEAN
    BY <1>a, LinkAside
  <2>2. \A u \in Threads \ {t} : ThreadOK(u)'
    BY <1>0, <2>1 DEF ThreadsOK, ThreadOK, SameCall
  <2>3. ThreadsOK'
    BY <2>1, <2>2 DEF ThreadsOK
  <2> QED BY <1>0, <2>1, <2>3, TypeParts DEF FilesOK, SizesOK, EarlyOK, ExcuseOK, IocbsOK
<1>4. ASSUME NEW t \in Threads, Call(t) PROVE TypeInv'
  <2>1. /\ {"forward", "write", "setattr", "fault", "mmap"} \cup Moving \cup Iter
             \subseteq Ops \ {"none", "link"}
        /\ ({"forward", "write", "setattr", "fault", "mmap"} \cup Iter) \cap Moving = {}
        /\ Dirs \subseteq Files
    BY Bounds DEF Ops, Moving, Iter
  <2> QED BY <1>2, <1>3, <1>4, <1>a, <2>1 DEF Call
<1>5. ASSUME NEW t \in Threads, Complete(t) PROVE TypeInv'
  <2>0. th' \in [Threads -> Thread] /\ \A u \in Threads : SameCall(u)
    BY <1>5, CompleteEffect
  <2>1. ThreadsOK'
    BY <1>0, <2>0 DEF ThreadsOK, ThreadOK, SameCall
  <2>2. FilesOK'
    <3>1. PICK f \in Files : \/ file' = [file EXCEPT ![f].count = @ - 1] /\ file[f].count > 0
                             \/ \E c \in Nat : file' = [file EXCEPT ![f].lcount = c]
      BY <1>5, CompleteEffect
    <3> QED BY <1>0, <3>1 DEF FilesOK, FileRec
  <2>3. IocbsOK'
    <3>1. \E k \in Iocb : kiocb' = [kiocb EXCEPT ![t] = k]
      BY <1>5, CompleteEffect
    <3> QED BY <1>0, <3>1 DEF IocbsOK
  <2>4. EarlyOK'
    <3>1. \/ early' = early
          \/ \E f \in Files, l \in Late : early' = early \cup {<<f, l>>}
      BY <1>5, CompleteEffect DEF Late
    <3> QED BY <1>0, <3>1 DEF EarlyOK
  <2>5. SizesOK' /\ ExcuseOK'
    <3>1. kiocb[t].n \in 0 .. MaxSize /\ kiocb[t].write \in BOOLEAN
      BY <1>0 DEF IocbsOK, Iocb
    <3>2. /\ lsize' = IF kiocb[t].write THEN Max({lsize, kiocb[t].n}) ELSE lsize
          /\ size_excuse' = (size_excuse \/ kiocb[t].write)
          /\ usize' = usize /\ pos_excuse' = pos_excuse
      BY <1>5 DEF Complete
    <3>3. lsize' \in 0 .. MaxSize
      BY <1>0, <3>1, <3>2, MaxPair, Bounds DEF SizesOK
    <3>4. size_excuse' \in BOOLEAN
      BY <3>2, Zenon
    <3> QED BY <1>0, <3>2, <3>3, <3>4 DEF SizesOK, ExcuseOK
  <2> QED BY <2>1, <2>2, <2>3, <2>4, <2>5, TypeParts
<1>6. ASSUME NEW f \in Files, trfs_open(f) PROVE TypeInv'
  <2>1. FilesOK'
    <3>1. \/ file' = [file EXCEPT ![f] =
                        [Closed EXCEPT !.open = TRUE, !.fd = TRUE, !.info = TRUE,
                                       !.lower = TRUE, !.count = 1, !.lcount = 1]]
          \/ file' = [file EXCEPT ![f] = Closed]
      BY <1>6 DEF trfs_open
    <3>2. ASSUME NEW r \in FileRec PROVE [file EXCEPT ![f] = r] \in [Files -> FileRec]
      BY <1>0 DEF FilesOK
    <3>3. [Closed EXCEPT !.open = TRUE, !.fd = TRUE, !.info = TRUE,
                         !.lower = TRUE, !.count = 1, !.lcount = 1] \in FileRec
      BY ClosedType DEF FileRec
    <3> QED BY <3>1, <3>2, <3>3, ClosedType DEF FilesOK
  <2> QED BY <1>0, <1>6, <2>1, TypeParts
          DEF trfs_open, ThreadsOK, ThreadOK, SizesOK, EarlyOK, ExcuseOK, IocbsOK
<1>7. ASSUME NEW f \in Files, trfs_file_release(f) PROVE TypeInv'
  <2>1. file[f].lcount - (IF file[f].lower THEN 1 ELSE 0) \in Nat
    <3>1. file[f].count = 0 /\ ~PutLower(f)
      BY <1>7, NotCounted DEF trfs_file_release
    <3>2. Cardinality(Holding(f)) \in Nat
      BY Counted DEF Holding
    <3> QED BY <3>1, <3>2 DEF LowerInv, One
  <2>2. FilesOK'
    <3>1. file' = [file EXCEPT ![f] =
                     [Closed EXCEPT !.lcount = file[f].lcount - (IF file[f].lower THEN 1 ELSE 0)]]
      BY <1>7 DEF trfs_file_release
    <3>2. ASSUME NEW c \in Nat PROVE [Closed EXCEPT !.lcount = c] \in FileRec
      BY ClosedType DEF FileRec
    <3> QED BY <1>0, <2>1, <3>1, <3>2 DEF FilesOK
  <2> QED BY <1>0, <1>7, <2>2, TypeParts
          DEF trfs_file_release, ThreadsOK, ThreadOK, SizesOK, EarlyOK, ExcuseOK, IocbsOK
<1>8. ASSUME NEW f \in Files, Munmap(f) PROVE TypeInv'
  <2>1. file[f].count > 0 /\ file[f].maps > 0
    BY <1>0, <1>8, NotCounted, Bounds DEF Munmap, FilesOK, FileRec
  <2>2. FilesOK'
    BY <1>0, <1>8, <2>1, Bounds DEF Munmap, FilesOK, FileRec
  <2> QED BY <1>0, <1>8, <2>2, TypeParts
          DEF Munmap, ThreadsOK, ThreadOK, SizesOK, EarlyOK, ExcuseOK, IocbsOK
<1>9. CASE UNCHANGED vars
  BY <1>0, <1>9, TypeParts DEF vars, FilesOK, ThreadsOK, ThreadOK, SizesOK, EarlyOK, ExcuseOK,
                               IocbsOK
<1> QED BY <1>1, <1>a, <1>4, <1>5, <1>6, <1>7, <1>8, <1>9 DEF Next

-----------------------------------------------------------------------------
(* What the steps of a thread have in common.                                *)

InSection == {"lower", "restore", "put"}

(* All of a file but its positions, its reference counts and its mappings.   *)
SameRest(g) ==
  /\ file'[g].open = file[g].open /\ file'[g].fd = file[g].fd
  /\ file'[g].info = file[g].info /\ file'[g].lower = file[g].lower
SameFile(g) ==
  /\ SameRest(g) /\ file'[g].vm_ops = file[g].vm_ops /\ file'[g].maps = file[g].maps
  /\ file'[g].count = file[g].count /\ file'[g].lcount = file[g].lcount

(* The thread goes on, and no reference changes hands.                       *)
Keeps(t) ==
  /\ \A u \in Threads \ {t} : th'[u] = th[u]
  /\ th'[t].op = th[t].op /\ th'[t].f = th[t].f /\ th'[t].aio = th[t].aio
  /\ th[t].op \in Iter => (th'[t].pc \in InSection <=> th[t].pc \in InSection)
  /\ At(t, "mmap", "save")' => F(t).vm_ops \/ th'[t].n = 1
  /\ \A g \in Files : SameFile(g)
  /\ \A u \in Threads : kiocb'[u].f = kiocb[u].f /\ (u = t \/ kiocb'[u] = kiocb[u])
  /\ early' = early /\ th'[t].pc # "oops"
  /\ IF th[t].aio
     THEN \/ {th[t].pc, th'[t].pc} \subseteq {"copy", "store", "out"} /\ kiocb' = kiocb
          \/ IterLower(t) \/ IterRestore(t)
     ELSE kiocb' = kiocb

(* The call returns, and a call of mmap leaves a mapping.                    *)
Ends(t) ==
  /\ th' = [th EXCEPT ![t] = Idle] /\ ~th[t].aio
  /\ th[t].op \in Iter => th[t].pc \notin InSection
  /\ \A g \in Files \ {th[t].f} : SameFile(g)
  /\ SameRest(th[t].f) /\ file'[th[t].f].lcount = F(t).lcount
  /\ \/ /\ file'[th[t].f].count = F(t).count - 1
        /\ file'[th[t].f].maps = F(t).maps
        /\ file'[th[t].f].vm_ops = F(t).vm_ops
     \/ /\ At(t, "mmap", "save")
        /\ file'[th[t].f].count = F(t).count
        /\ file'[th[t].f].maps = F(t).maps + 1
        /\ file'[th[t].f].vm_ops = (F(t).vm_ops \/ th[t].n = 1)
  /\ kiocb' = kiocb /\ early' = early

(* get_file of the lower file, and its fput.                                 *)
Gets(t) ==
  /\ \A u \in Threads \ {t} : th'[u] = th[u] /\ kiocb'[u] = kiocb[u]
  /\ th[t].op \in Iter /\ th[t].pc = "in" /\ ~th[t].aio
  /\ th'[t].op = th[t].op /\ th'[t].f = th[t].f /\ th'[t].pc = "lower"
  /\ \A g \in Files \ {th[t].f} : SameFile(g)
  /\ SameRest(th[t].f) /\ file'[th[t].f].lcount = F(t).lcount + 1
  /\ file'[th[t].f].count = F(t).count /\ file'[th[t].f].maps = F(t).maps
  /\ file'[th[t].f].vm_ops = F(t).vm_ops
  /\ early' = early
  /\ \/ ~th'[t].aio /\ kiocb' = kiocb
     \/ /\ th'[t].aio /\ kiocb[t].st = "none"
        /\ kiocb'[t].st = "submitted" /\ kiocb'[t].f = th[t].f /\ kiocb'[t].filp = "lower"

Puts(t) ==
  /\ \A u \in Threads \ {t} : th'[u] = th[u]
  /\ th[t].op \in Iter /\ th[t].pc = "put" /\ F(t).lcount > 0
  /\ th'[t].op = th[t].op /\ th'[t].f = th[t].f /\ th'[t].aio = th[t].aio
  /\ th'[t].pc \in {"copy", "out"}
  /\ \A g \in Files \ {th[t].f} : SameFile(g)
  /\ SameRest(th[t].f) /\ file'[th[t].f].lcount = F(t).lcount - 1
  /\ file'[th[t].f].count = F(t).count /\ file'[th[t].f].maps = F(t).maps
  /\ file'[th[t].f].vm_ops = F(t).vm_ops
  /\ early' = early /\ kiocb' = kiocb

(* The call stops at what an early completion has taken from it.             *)
Stops(t) ==
  /\ Oops(t) /\ Early(th[t].f)
  /\ th[t].op \in Iter /\ th[t].pc \in InSection => PutLower(th[t].f)
  /\ th[t].aio => th[t].pc \notin {"idle", "lower", "restore"}

(* A call that returns.                                                      *)
LEMMA ReturnEnds ==
  ASSUME TypeInv, NEW t \in Threads, th[t].f # NoFile, ~th[t].aio,
         th[t].op \in Iter => th[t].pc \notin InSection,
         NEW r \in FileRec, Return(t, r),
         r.open = F(t).open, r.fd = F(t).fd, r.info = F(t).info, r.lower = F(t).lower,
         r.vm_ops = F(t).vm_ops, r.maps = F(t).maps, r.lcount = F(t).lcount,
         r.count = F(t).count, UNCHANGED <<kiocb, early>>
  PROVE  Ends(t)
<1>1. th[t].f \in Files /\ file \in [Files -> FileRec]
  BY HasFile, TypeParts DEF FilesOK
<1>2. file' = [file EXCEPT ![th[t].f] = [r EXCEPT !.count = r.count - 1]]
  BY DEF Return
<1>3. \A g \in Files \ {th[t].f} : file'[g] = file[g]
  BY <1>1, <1>2
<1>4. file'[th[t].f] = [r EXCEPT !.count = r.count - 1]
  BY <1>1, <1>2
<1>5. th' = [th EXCEPT ![t] = Idle]
  BY DEF Return
<1>6. \A g \in Files \ {th[t].f} : SameFile(g)
  BY <1>3 DEF SameFile, SameRest
<1>7. /\ SameRest(th[t].f) /\ file'[th[t].f].lcount = F(t).lcount
      /\ file'[th[t].f].count = F(t).count - 1
      /\ file'[th[t].f].maps = F(t).maps /\ file'[th[t].f].vm_ops = F(t).vm_ops
  BY <1>4 DEF SameRest, FileRec, F
<1> QED BY <1>5, <1>6, <1>7 DEF Ends

(* A call on a directory that returns and has moved a position.              *)
LEMMA MovedEnds ==
  ASSUME TypeInv, NEW t \in Threads, th[t].f # NoFile, ~th[t].aio, th[t].op \notin Iter,
         NEW p \in 0 .. MaxPos, UNCHANGED <<kiocb, early>>,
         Return(t, [F(t) EXCEPT !.pos = p]) \/ Return(t, [F(t) EXCEPT !.lpos = p])
  PROVE  Ends(t)
<1>1. F(t) \in FileRec
  BY HasFile
<1>2. PICK r \in FileRec :
        /\ Return(t, r)
        /\ r.open = F(t).open /\ r.fd = F(t).fd /\ r.info = F(t).info /\ r.lower = F(t).lower
        /\ r.vm_ops = F(t).vm_ops /\ r.maps = F(t).maps /\ r.lcount = F(t).lcount
        /\ r.count = F(t).count
  <2>1. CASE Return(t, [F(t) EXCEPT !.pos = p])
    <3> DEFINE r == [F(t) EXCEPT !.pos = p]
    <3>1. /\ r \in FileRec
          /\ r.open = F(t).open /\ r.fd = F(t).fd /\ r.info = F(t).info /\ r.lower = F(t).lower
          /\ r.vm_ops = F(t).vm_ops /\ r.maps = F(t).maps /\ r.lcount = F(t).lcount
          /\ r.count = F(t).count
      BY <1>1 DEF FileRec
    <3> QED BY <2>1, <3>1
  <2>2. CASE Return(t, [F(t) EXCEPT !.lpos = p])
    <3> DEFINE r == [F(t) EXCEPT !.lpos = p]
    <3>1. /\ r \in FileRec
          /\ r.open = F(t).open /\ r.fd = F(t).fd /\ r.info = F(t).info /\ r.lower = F(t).lower
          /\ r.vm_ops = F(t).vm_ops /\ r.maps = F(t).maps /\ r.lcount = F(t).lcount
          /\ r.count = F(t).count
      BY <1>1 DEF FileRec
    <3> QED BY <2>2, <3>1
  <2> QED BY <2>1, <2>2
<1> QED BY <1>2, ReturnEnds

(* A call that goes on without touching a file or a request.                 *)
LEMMA TurnKeeps ==
  ASSUME TypeInv, NEW t \in Threads, NEW r, th' = [th EXCEPT ![t] = r],
         r.op = th[t].op, r.f = th[t].f, r.aio = th[t].aio,
         th[t].op \in Iter => (r.pc \in InSection <=> th[t].pc \in InSection),
         r.op = "mmap" /\ r.pc = "save" => F(t).vm_ops \/ r.n = 1,
         r.pc # "oops",
         th[t].aio => {th[t].pc, r.pc} \subseteq {"copy", "store", "out"},
         \A g \in Files : SameFile(g), UNCHANGED <<kiocb, early>>
  PROVE  Keeps(t)
<1>1. th' [t] = r /\ \A u \in Threads \ {t} : th'[u] = th[u]
  BY TypeParts DEF ThreadsOK
<1> QED BY <1>1 DEF Keeps, At

(* A step of a thread is of one of these kinds.                              *)
LEMMA StepKinds ==
  ASSUME FileInv, NEW t \in Threads, Step(t)
  PROVE  Keeps(t) \/ Ends(t) \/ Gets(t) \/ Puts(t) \/ Stops(t) \/ IterReturn(t)
<1> USE DEF FileInv
<1> DEFINE Kind == Keeps(t) \/ Ends(t) \/ Gets(t) \/ Puts(t) \/ Stops(t) \/ IterReturn(t)
<1>0. th[t].f # NoFile
  BY StepInside
<1> DEFINE f == th[t].f
<1>1. /\ th[t] \in Thread /\ f \in Files /\ F(t) \in FileRec /\ ThreadOK(t)
      /\ th[t].pc # "idle"
  BY <1>0, HasFile
<1>2. /\ th \in [Threads -> Thread] /\ file \in [Files -> FileRec] /\ kiocb \in [Threads -> Iocb]
  BY TypeParts DEF ThreadsOK, FilesOK, IocbsOK
<1>3. ASSUME ~(F(t).open /\ LowerFile(f)) PROVE Early(f)
  BY <1>1, <1>3, InUse DEF F
<1>4. th[t].pc = "in" => ~th[t].aio
  BY <1>1 DEF ThreadOK, Late
<1>5. ASSUME Oops(t), th[t].op \in Iter => th[t].pc \notin InSection, ~(F(t).open /\ LowerFile(f))
      PROVE  Kind
  BY <1>0, <1>1, <1>3, <1>5 DEF Stops, ThreadOK, InSection
<1>6. ASSUME Refused(t), ~th[t].aio, th[t].op \in Iter => th[t].pc \notin InSection
      PROVE  Kind
  <2>1. Return(t, F(t)) /\ UNCHANGED <<kiocb, early>>
    BY <1>6 DEF Refused
  <2> QED BY <1>0, <1>1, <1>6, <2>1, ReturnEnds
<1>7. "in" \notin InSection /\ "copy" \notin InSection
  BY DEF InSection
<1>8. ASSUME UseLower(t), th[t].pc = "in" PROVE Kind
  BY <1>4, <1>5, <1>6, <1>7, <1>8 DEF UseLower
<1>9. ASSUME file' = file PROVE \A g \in Files : SameFile(g)
  BY <1>9 DEF SameFile, SameRest
<1>10. CASE \/ trfs_flush(t) \/ trfs_fsync(t) \/ trfs_fasync(t)
            \/ trfs_unlocked_ioctl(t) \/ trfs_compat_ioctl(t)
  BY <1>4, <1>5, <1>6, <1>7, <1>8, <1>10 DEF trfs_flush, trfs_fsync, trfs_fasync,
     trfs_unlocked_ioctl, trfs_compat_ioctl, At, LowerFile, F
<1>11. CASE trfs_fault(t) \/ trfs_page_mkwrite(t)
  <2>1. At(t, "fault", "in") /\ F(t).vm_ops
    BY <1>1, <1>11 DEF trfs_fault, trfs_page_mkwrite, At, VmInv, MappedHasVmOps, F
  <2>2. F(t).info \/ ~LowerFile(f)
    BY DEF LowerFile, F
  <2> QED BY <1>4, <1>5, <1>6, <1>7, <1>8, <1>11, <2>1, <2>2
          DEF trfs_fault, trfs_page_mkwrite, At
<1>12. CASE LowerWrite(t)
  <2>1. ASSUME At(t, "write", "in"), Goto(t, "copy"), UNCHANGED <<file, kiocb, early>>
        PROVE  Kind
    <3> DEFINE r == [th[t] EXCEPT !.pc = "copy"]
    <3>1. /\ th' = [th EXCEPT ![t] = r] /\ r.op = "write" /\ th[t].op = "write"
          /\ r.f = f /\ r.aio = th[t].aio /\ ~th[t].aio /\ r.pc = "copy"
      BY <1>1, <1>4, <2>1 DEF Goto, At, Thread
    <3> HIDE DEF r
    <3> QED BY <1>9, <2>1, <3>1, TurnKeeps DEF Iter
  <2> QED BY <1>4, <1>5, <1>6, <1>7, <1>12, <2>1 DEF LowerWrite, At
<1>13. CASE CopyRead(t)
  <2>0. th[t].pc = "copy" /\ th[t].op \in {"write", "write_iter"}
    BY <1>1, <1>13 DEF CopyRead, ThreadOK
  <2>1. ASSUME th' = [th EXCEPT ![t].n = lsize, ![t].pc = "store"], UNCHANGED <<file, kiocb, early>>
        PROVE  Kind
    <3> DEFINE r == [th[t] EXCEPT !.n = lsize, !.pc = "store"]
    <3>1. /\ th' = [th EXCEPT ![t] = r] /\ r.op = th[t].op
          /\ r.f = f /\ r.aio = th[t].aio /\ r.pc = "store"
      BY <1>1, <2>1 DEF Thread
    <3> HIDE DEF r
    <3> QED BY <1>9, <2>0, <2>1, <3>1, TurnKeeps DEF InSection
  <2> QED BY <1>5, <1>7, <1>13, <2>0, <2>1 DEF CopyRead
<1>14. CASE CopyStore(t)
  <2>0. th[t].pc = "store" /\ th[t].op \in {"write", "write_iter"} /\ UNCHANGED <<kiocb, early>>
    BY <1>1, <1>14 DEF CopyStore, ThreadOK
  <2>1. CASE th[t].op = "write"
    <3>1. Return(t, F(t)) /\ ~th[t].aio /\ th[t].op \notin Iter
      BY <1>1, <1>14, <2>1 DEF CopyStore, ThreadOK, Iter
    <3> QED BY <1>0, <1>1, <2>0, <3>1, ReturnEnds
  <2>2. CASE th[t].op = "write_iter"
    <3> DEFINE r == [th[t] EXCEPT !.pc = "out", !.n = 0]
    <3>0. th' = [th EXCEPT ![t].pc = "out", ![t].n = 0] /\ file' = file
      BY <1>14, <2>2 DEF CopyStore
    <3>1. /\ th' = [th EXCEPT ![t] = r] /\ r.op = th[t].op
          /\ r.f = f /\ r.aio = th[t].aio /\ r.pc = "out"
      BY <1>1, <3>0 DEF Thread
    <3> HIDE DEF r
    <3> QED BY <1>9, <2>0, <3>0, <3>1, TurnKeeps DEF InSection
  <2> QED BY <2>0, <2>1, <2>2
<1>15. CASE trfs_setattr(t)
  <2>1. ASSUME NEW n \in 0 .. MaxSize, At(t, "setattr", "in"),
               th' = [th EXCEPT ![t].pc = "notify", ![t].n = n], UNCHANGED <<file, kiocb, early>>
        PROVE  Kind
    <3> DEFINE r == [th[t] EXCEPT !.pc = "notify", !.n = n]
    <3>1. /\ th' = [th EXCEPT ![t] = r] /\ r.op = th[t].op /\ th[t].op = "setattr"
          /\ r.f = f /\ r.aio = th[t].aio /\ r.pc = "notify" /\ ~th[t].aio
      BY <1>1, <1>4, <2>1 DEF Thread, At
    <3> HIDE DEF r
    <3> QED BY <1>9, <2>1, <3>1, TurnKeeps DEF Iter
  <2>2. ASSUME At(t, "setattr", "notify"), Return(t, F(t)), UNCHANGED <<kiocb, early>>
        PROVE  Kind
    <3>1. ~th[t].aio /\ th[t].op \notin Iter
      BY <1>1, <2>2 DEF At, ThreadOK, Iter
    <3> QED BY <1>0, <1>1, <2>2, <3>1, ReturnEnds
  <2> QED BY <1>4, <1>5, <1>6, <1>7, <1>15, <2>1, <2>2 DEF trfs_setattr, At
<1>16. CASE trfs_readdir(t)
  <2>1. ASSUME NEW l \in {"set", "back"}, th[t].op = "readdir", ~th[t].aio,
               file' = file \/ \E p : \/ file' = [file EXCEPT ![th[t].f].lpos = p]
                                     \/ file' = [file EXCEPT ![th[t].f].pos = p],
               \E r : /\ th' = [th EXCEPT ![t] = r]
                      /\ r.op = th[t].op /\ r.f = f /\ r.aio = th[t].aio /\ r.pc = l,
               UNCHANGED <<kiocb, early>>
        PROVE  Kind
    <3>1. ASSUME NEW p, \/ file' = [file EXCEPT ![th[t].f].lpos = p]
                        \/ file' = [file EXCEPT ![th[t].f].pos = p]
          PROVE  \A g \in Files : SameFile(g)
      BY <1>1, <1>2, <3>1 DEF SameFile, SameRest, FileRec
    <3>2. \A g \in Files : SameFile(g)
      BY <1>9, <2>1, <3>1
    <3>3. PICK r : /\ th' = [th EXCEPT ![t] = r]
                   /\ r.op = th[t].op /\ r.f = f /\ r.aio = th[t].aio /\ r.pc = l
      BY <2>1
    <3>4. th[t].op \notin Iter /\ r.op # "mmap" /\ r.pc # "oops"
      BY <2>1, <3>3 DEF Iter
    <3> QED BY <2>1, <3>2, <3>3, <3>4, TurnKeeps
  <2>2. ASSUME NEW l \in {"set", "back"},
               \/ \E n, ok : th' = [th EXCEPT ![t].pc = l, ![t].n = n, ![t].ok = ok]
               \/ \E n : th' = [th EXCEPT ![t].pc = l, ![t].n = n]
               \/ th' = [th EXCEPT ![t].pc = l]
        PROVE  \E r : /\ th' = [th EXCEPT ![t] = r]
                      /\ r.op = th[t].op /\ r.f = f /\ r.aio = th[t].aio /\ r.pc = l
    <3>1. ASSUME NEW r, th' = [th EXCEPT ![t] = r],
                 \/ \E n, ok : r = [th[t] EXCEPT !.pc = l, !.n = n, !.ok = ok]
                 \/ \E n : r = [th[t] EXCEPT !.pc = l, !.n = n]
                 \/ r = [th[t] EXCEPT !.pc = l]
          PROVE  r.op = th[t].op /\ r.f = f /\ r.aio = th[t].aio /\ r.pc = l
      BY <1>1, <3>1 DEF Thread
    <3>2. CASE \E n, ok : th' = [th EXCEPT ![t].pc = l, ![t].n = n, ![t].ok = ok]
      <4>1. PICK n, ok : th' = [th EXCEPT ![t].pc = l, ![t].n = n, ![t].ok = ok]
        BY <3>2
      <4>2. th' = [th EXCEPT ![t] = [th[t] EXCEPT !.pc = l, !.n = n, !.ok = ok]]
        BY <1>2, <4>1
      <4> QED BY <3>1, <4>2
    <3>3. CASE \E n : th' = [th EXCEPT ![t].pc = l, ![t].n = n]
      <4>1. PICK n : th' = [th EXCEPT ![t].pc = l, ![t].n = n]
        BY <3>3
      <4>2. th' = [th EXCEPT ![t] = [th[t] EXCEPT !.pc = l, !.n = n]]
        BY <1>2, <4>1
      <4> QED BY <3>1, <4>2
    <3>4. CASE th' = [th EXCEPT ![t].pc = l]
      <4>1. th' = [th EXCEPT ![t] = [th[t] EXCEPT !.pc = l]]
        BY <1>2, <3>4
      <4> QED BY <3>1, <4>1
    <3> QED BY <2>2, <3>2, <3>3, <3>4
  <2>3. CASE At(t, "readdir", "in")
    <3>1. ~th[t].aio /\ th[t].op = "readdir" /\ th[t].op \notin Iter
      BY <1>4, <2>3 DEF At, Iter
    <3>2. CASE /\ UNCHANGED <<kiocb, early>>
               /\ \E p : /\ file' = [file EXCEPT ![th[t].f].lpos = p]
                         /\ th' = [th EXCEPT ![t].pc = "set", ![t].n = p]
      BY <2>1, <2>2, <3>1, <3>2
    <3>3. CASE /\ UNCHANGED <<file, kiocb, early>>
               /\ th' = [th EXCEPT ![t].pc = "set", ![t].n = F(t).pos, ![t].ok = FALSE]
      BY <2>1, <2>2, <3>1, <3>3
    <3>4. CASE Oops(t) /\ ~LowerFile(f)
      BY <1>5, <3>1, <3>4
    <3> QED BY <1>16, <2>3, <3>2, <3>3, <3>4 DEF trfs_readdir, At
  <2>4. CASE At(t, "readdir", "set")
    <3>1. ~th[t].aio /\ th[t].op = "readdir"
      BY <1>1, <2>4 DEF At, ThreadOK, Iter
    <3>2. /\ UNCHANGED <<kiocb, early>> /\ file' = [file EXCEPT ![th[t].f].pos = F(t).lpos]
          /\ th' = [th EXCEPT ![t].pc = "back"]
      BY <1>16, <2>4 DEF trfs_readdir, At, Goto
    <3> QED BY <2>1, <2>2, <3>1, <3>2
  <2>5. CASE At(t, "readdir", "back")
    <3>1. ~th[t].aio /\ th[t].op \notin Iter /\ th[t].n \in 0 .. MaxPos
      BY <1>1, <2>5, Bounds DEF At, ThreadOK, Thread, Iter, Moving
    <3>2. Return(t, [F(t) EXCEPT !.pos = th[t].n]) /\ UNCHANGED <<kiocb, early>>
      BY <1>16, <2>5 DEF trfs_readdir, At
    <3> QED BY <1>0, <1>1, <3>1, <3>2, MovedEnds
  <2> QED BY <1>16, <2>3, <2>4, <2>5 DEF trfs_readdir
<1>17. CASE trfs_file_llseek(t)
  <2>1. th[t].op = "llseek" /\ ~th[t].aio /\ th[t].op \notin Iter
    BY <1>1, <1>17 DEF trfs_file_llseek, At, ThreadOK, Iter
  <2>2. ASSUME NEW p \in 0 .. MaxPos, NEW off, NEW whence \in {"set", "cur"},
               file' = [file EXCEPT ![th[t].f].pos = p],
               th' = [th EXCEPT ![t].pc = whence, ![t].n = off], UNCHANGED <<kiocb, early>>
        PROVE  Kind
    <3> DEFINE r == [th[t] EXCEPT !.pc = whence, !.n = off]
    <3>1. /\ th' = [th EXCEPT ![t] = r] /\ r.op = th[t].op /\ r.f = f /\ r.aio = th[t].aio
          /\ r.pc = whence
      BY <1>1, <2>2 DEF Thread
    <3>2. \A g \in Files : SameFile(g)
      BY <1>1, <1>2, <2>2 DEF SameFile, SameRest, FileRec
    <3> HIDE DEF r
    <3> QED BY <2>1, <2>2, <3>1, <3>2, TurnKeeps
  <2>3. ASSUME At(t, "llseek", "in") PROVE Kind
    <3>1. F(t).pos \in Nat
      BY <1>1, Bounds DEF FileRec
    <3>2. PICK off \in 0 .. MaxPos, whence \in {"set", "cur"} :
            LET p == NewPos(whence, F(t).pos, off)
            IN \/ p > MaxPos /\ Refused(t)
               \/ /\ p <= MaxPos
                  /\ IF ToInt(p) < 0
                     THEN Return(t, [F(t) EXCEPT !.pos = p]) /\ Excuse(t, FALSE, TRUE)
                     ELSE /\ file' = [file EXCEPT ![th[t].f].pos = p]
                          /\ th' = [th EXCEPT ![t].pc = whence, ![t].n = off]
                          /\ UNCHANGED <<size_excuse, pos_excuse>>
                  /\ UNCHANGED <<usize, lsize, kiocb, ops, early>>
      BY <1>17, <2>3 DEF trfs_file_llseek, At
    <3> DEFINE p == NewPos(whence, F(t).pos, off)
    <3>3. p \in Nat
      BY <3>1, Bounds DEF NewPos
    <3>4. CASE ~(p <= MaxPos)
      BY <1>6, <2>1, <3>2, <3>4
    <3>5. CASE p <= MaxPos
      <4>1. p \in 0 .. MaxPos /\ ~(p > MaxPos)
        BY <3>3, <3>5, Bounds
      <4>2. CASE ToInt(p) < 0
        <5>1. Return(t, [F(t) EXCEPT !.pos = p]) /\ UNCHANGED <<kiocb, early>>
          BY <3>2, <4>1, <4>2
        <5> QED BY <1>0, <1>1, <2>1, <4>1, <5>1, MovedEnds
      <4>3. CASE ~(ToInt(p) < 0)
        BY <2>2, <3>2, <4>1, <4>3
      <4> QED BY <4>2, <4>3
    <3> QED BY <3>4, <3>5
  <2>4. ASSUME th[t].pc \in {"set", "cur"} PROVE Kind
    <3> DEFINE p == NewPos(th[t].pc, F(t).lpos, th[t].n)
               q == IF p <= MaxPos THEN p ELSE F(t).lpos
    <3>1. q \in 0 .. MaxPos
      BY <1>1, Bounds DEF NewPos, FileRec, Thread
    <3>2. \/ Oops(t) /\ ~LowerFile(f)
          \/ Return(t, [F(t) EXCEPT !.lpos = q]) /\ UNCHANGED <<kiocb, early>>
      BY <1>17, <2>4 DEF trfs_file_llseek, At
    <3> HIDE DEF q
    <3>3. ASSUME Return(t, [F(t) EXCEPT !.lpos = q]), UNCHANGED <<kiocb, early>> PROVE Kind
      BY <1>0, <1>1, <2>1, <3>1, <3>3, MovedEnds
    <3> QED BY <1>5, <2>1, <3>2, <3>3
  <2> QED BY <1>17, <2>3, <2>4 DEF trfs_file_llseek
<1>18. CASE IterGet(t)
  <2>1. th[t].op \in Iter /\ th[t].pc = "in" /\ ~th[t].aio
    BY <1>4, <1>18 DEF IterGet
  <2>2. ASSUME NEW aio \in {FALSE} \cup (IF kiocb[t].st = "none" THEN {TRUE} ELSE {}),
               file' = [file EXCEPT ![th[t].f].lcount = @ + 1],
               th' = [th EXCEPT ![t].pc = "lower", ![t].aio = aio],
               kiocb' = IF aio
                        THEN [kiocb EXCEPT ![t] =
                                [NoIocb EXCEPT !.st = "submitted", !.f = th[t].f,
                                   !.filp = "lower", !.write = th[t].op = "write_iter"]]
                        ELSE kiocb,
               UNCHANGED early
        PROVE  Kind
    <3>1. /\ \A u \in Threads \ {t} : th'[u] = th[u]
          /\ th'[t].op = th[t].op /\ th'[t].f = th[t].f /\ th'[t].pc = "lower"
          /\ th'[t].aio = aio
      BY <1>1, <1>2, <2>2 DEF Thread
    <3>2. /\ \A g \in Files \ {th[t].f} : SameFile(g)
          /\ SameRest(th[t].f) /\ file'[th[t].f].lcount = F(t).lcount + 1
          /\ file'[th[t].f].count = F(t).count /\ file'[th[t].f].maps = F(t).maps
          /\ file'[th[t].f].vm_ops = F(t).vm_ops
      BY <1>1, <1>2, <2>2 DEF SameFile, SameRest, FileRec, F
    <3>3. CASE ~aio
      BY <2>1, <2>2, <3>1, <3>2, <3>3 DEF Gets
    <3>4. CASE aio
      <4>1. kiocb[t].st = "none" /\ th'[t].aio
        BY <2>2, <3>1, <3>4
      <4>2. ASSUME NEW w
            PROVE  LET k == [NoIocb EXCEPT !.st = "submitted", !.f = th[t].f,
                                           !.filp = "lower", !.write = w]
                   IN  k.st = "submitted" /\ k.f = th[t].f /\ k.filp = "lower"
        BY DEF NoIocb
      <4> DEFINE k == [NoIocb EXCEPT !.st = "submitted", !.f = th[t].f, !.filp = "lower",
                                     !.write = th[t].op = "write_iter"]
      <4>3. k.st = "submitted" /\ k.f = th[t].f /\ k.filp = "lower"
        BY <4>2, Zenon
      <4>4. kiocb' = [kiocb EXCEPT ![t] = k]
        BY <2>2, <3>4
      <4> HIDE DEF k
      <4>5. kiocb'[t] = k /\ \A u \in Threads \ {t} : kiocb'[u] = kiocb[u]
        BY <1>2, <4>4
      <4> QED BY <2>1, <2>2, <3>1, <3>2, <4>1, <4>3, <4>5 DEF Gets
    <3> QED BY <3>3, <3>4
  <2> QED BY <1>5, <1>6, <1>7, <1>18, <2>1, <2>2 DEF IterGet
<1>19. CASE IterLower(t) \/ IterRestore(t)
  <2>1. /\ th[t].op \in Iter /\ th[t].pc \in {"lower", "restore"} /\ UNCHANGED <<file, early>>
        /\ \E l \in {"restore", "put"}, ok \in BOOLEAN :
             th' = [th EXCEPT ![t].pc = l] \/ th' = [th EXCEPT ![t].pc = l, ![t].ok = ok]
    BY <1>19 DEF IterLower, IterRestore, Goto
  <2>2. /\ \A u \in Threads : kiocb'[u].f = kiocb[u].f /\ (u = t \/ kiocb'[u] = kiocb[u])
        /\ ~th[t].aio => kiocb' = kiocb
    <3>1. CASE IterLower(t)
      <4>1. \/ kiocb' = kiocb
            \/ th[t].aio /\ \E n : kiocb' = [kiocb EXCEPT ![t].st = "queued", ![t].n = n]
        BY <3>1 DEF IterLower
      <4> QED BY <1>2, <4>1 DEF Iocb
    <3>2. CASE IterRestore(t)
      <4>1. kiocb' = kiocb \/ (th[t].aio /\ kiocb' = [kiocb EXCEPT ![t].filp = "upper"])
        BY <3>2 DEF IterRestore
      <4> QED BY <1>2, <4>1 DEF Iocb
    <3> QED BY <1>19, <3>1, <3>2
  <2>3. /\ \A u \in Threads \ {t} : th'[u] = th[u]
        /\ th'[t].op = th[t].op /\ th'[t].f = th[t].f /\ th'[t].aio = th[t].aio
        /\ th'[t].pc \in {"restore", "put"}
    BY <1>1, <1>2, <2>1 DEF Thread
  <2>4. Keeps(t)
    BY <1>9, <1>19, <2>1, <2>2, <2>3 DEF Keeps, InSection, At
  <2> QED BY <2>4
<1>20. CASE IterPut(t)
  <2>1. th[t].op \in Iter /\ th[t].pc = "put"
    BY <1>20 DEF IterPut
  <2>2. CASE F(t).lcount = 0
    <3>1. t \in Holding(f) /\ Cardinality(Holding(f)) \in Nat /\ Cardinality(Holding(f)) # 0
      BY <2>1, Counted DEF Holding
    <3>2. PutLower(f)
      BY <1>1, <2>2, <3>1 DEF LowerInv, One, F
    <3>3. Early(f)
      BY <3>2 DEF PutLower, Early, Late
    <3>4. Oops(t)
      BY <1>20, <2>2 DEF IterPut
    <3> QED BY <2>1, <3>2, <3>3, <3>4 DEF Stops
  <2>3. CASE F(t).lcount > 0
    <3>1. /\ file' = [file EXCEPT ![th[t].f].lcount = @ - 1] /\ UNCHANGED <<kiocb, early>>
          /\ \E l \in {"copy", "out"} : th' = [th EXCEPT ![t].pc = l]
      BY <1>20, <2>3 DEF IterPut, Goto
    <3>2. /\ \A u \in Threads \ {t} : th'[u] = th[u]
          /\ th'[t].op = th[t].op /\ th'[t].f = th[t].f /\ th'[t].aio = th[t].aio
          /\ th'[t].pc \in {"copy", "out"}
      BY <1>1, <1>2, <3>1 DEF Thread
    <3>3. /\ \A g \in Files \ {th[t].f} : SameFile(g)
          /\ SameRest(th[t].f) /\ file'[th[t].f].lcount = F(t).lcount - 1
          /\ file'[th[t].f].count = F(t).count /\ file'[th[t].f].maps = F(t).maps
          /\ file'[th[t].f].vm_ops = F(t).vm_ops
      BY <1>1, <1>2, <3>1 DEF SameFile, SameRest, FileRec, F
    <3> QED BY <2>1, <2>3, <3>1, <3>2, <3>3 DEF Puts
  <2>4. F(t).lcount = 0 \/ F(t).lcount > 0
    BY <1>1 DEF FileRec
  <2> QED BY <2>2, <2>3, <2>4
<1>21. CASE trfs_mmap(t)
  <2>1. ASSUME At(t, "mmap", "in"), UNCHANGED <<file, kiocb, early>>,
               th' = [th EXCEPT ![t].pc = "save", ![t].n = IF F(t).vm_ops THEN 0 ELSE 1]
        PROVE  Kind
    <3> DEFINE r == [th[t] EXCEPT !.pc = "save", !.n = IF F(t).vm_ops THEN 0 ELSE 1]
    <3>1. /\ th' = [th EXCEPT ![t] = r] /\ r.op = th[t].op /\ th[t].op = "mmap"
          /\ r.f = f /\ r.aio = th[t].aio /\ (F(t).vm_ops \/ r.n = 1)
          /\ ~th[t].aio /\ r.pc = "save"
      BY <1>1, <1>4, <2>1 DEF Thread, At
    <3> HIDE DEF r
    <3> QED BY <1>9, <2>1, <3>1, TurnKeeps DEF Iter
  <2>2. ASSUME At(t, "mmap", "save"), UNCHANGED <<kiocb, early>>,
               Return(t, [F(t) EXCEPT !.vm_ops = @ \/ th[t].n = 1, !.count = @ + 1,
                                      !.maps = @ + 1])
        PROVE  Kind
    <3>1. ~th[t].aio /\ th[t].op \notin Iter
      BY <1>1, <2>2 DEF At, ThreadOK, Iter
    <3> DEFINE x == [F(t) EXCEPT !.vm_ops = @ \/ th[t].n = 1, !.count = @ + 1, !.maps = @ + 1]
    <3>2. ASSUME NEW v
          PROVE  LET y == [F(t) EXCEPT !.vm_ops = v, !.count = @ + 1, !.maps = @ + 1]
                     z == [y EXCEPT !.count = y.count - 1]
                 IN  /\ z.open = F(t).open /\ z.fd = F(t).fd /\ z.info = F(t).info
                     /\ z.lower = F(t).lower /\ z.lcount = F(t).lcount
                     /\ z.count = F(t).count /\ z.maps = F(t).maps + 1 /\ z.vm_ops = v
      BY <1>1 DEF FileRec
    <3> DEFINE z == [x EXCEPT !.count = x.count - 1]
    <3>3. /\ z.open = F(t).open /\ z.fd = F(t).fd /\ z.info = F(t).info
          /\ z.lower = F(t).lower /\ z.lcount = F(t).lcount
          /\ z.count = F(t).count /\ z.maps = F(t).maps + 1
          /\ z.vm_ops = (F(t).vm_ops \/ th[t].n = 1)
      BY <3>2, Zenon
    <3>4. th' = [th EXCEPT ![t] = Idle] /\ file' = [file EXCEPT ![f] = z]
      BY <2>2 DEF Return
    <3> HIDE DEF z
    <3>5. file'[f] = z /\ \A g \in Files \ {f} : file'[g] = file[g]
      BY <1>1, <1>2, <3>4
    <3>6. \A g \in Files \ {f} : SameFile(g)
      BY <3>5 DEF SameFile, SameRest
    <3>7. /\ SameRest(f) /\ file'[f].lcount = F(t).lcount /\ file'[f].count = F(t).count
          /\ file'[f].maps = F(t).maps + 1 /\ file'[f].vm_ops = (F(t).vm_ops \/ th[t].n = 1)
      BY <3>3, <3>5, Zenon DEF SameRest, F
    <3>8. Ends(t)
      BY <2>2, <3>1, <3>4, <3>6, <3>7, Zenon DEF Ends
    <3> QED BY <3>8
  <2> QED BY <1>4, <1>5, <1>6, <1>7, <1>21, <2>1, <2>2 DEF trfs_mmap, At
<1> QED BY <1>10, <1>11, <1>12, <1>13, <1>14, <1>15, <1>16, <1>17, <1>18, <1>19, <1>20, <1>21
        DEF Step

-----------------------------------------------------------------------------
(* Counting.  A step changes what one thread holds.                          *)

LEMMA CallsChange ==
  ASSUME NEW t \in Threads, NEW g,
         \A u \in Threads \ {t} : th'[u].f = th[u].f /\ th'[u].aio = th[u].aio
  PROVE  /\ Cardinality(Calls(g)) \in Nat /\ Cardinality(Calls(g)') \in Nat
         /\ Cardinality(Calls(g)') = Cardinality(Calls(g)) - One(th[t].f = g /\ ~th[t].aio)
                                       + One(th'[t].f = g /\ ~th'[t].aio)
<1>1. Calls(g) \in SUBSET Threads /\ Calls(g)' \in SUBSET Threads
  BY DEF Calls
<1>2. \A u \in Threads \ {t} : u \in Calls(g) <=> u \in Calls(g)'
  BY DEF Calls
<1>3. /\ t \in Calls(g) <=> th[t].f = g /\ ~th[t].aio
      /\ t \in Calls(g)' <=> th'[t].f = g /\ ~th'[t].aio
  BY DEF Calls
<1>4. /\ Cardinality(Calls(g)) \in Nat /\ Cardinality(Calls(g)') \in Nat
      /\ Cardinality(Calls(g)') = Cardinality(Calls(g)) - One(t \in Calls(g))
                                       + One(t \in Calls(g)')
  BY <1>1, <1>2, CountChange
<1> QED BY <1>3, <1>4 DEF One

LEMMA RequestsChange ==
  ASSUME NEW t \in Threads, NEW g, \A u \in Threads \ {t} : kiocb'[u].f = kiocb[u].f
  PROVE  /\ Cardinality(Requests(g)) \in Nat /\ Cardinality(Requests(g)') \in Nat
         /\ Cardinality(Requests(g)') = Cardinality(Requests(g)) - One(kiocb[t].f = g)
                                          + One(kiocb'[t].f = g)
<1>1. Requests(g) \in SUBSET Threads /\ Requests(g)' \in SUBSET Threads
  BY DEF Requests
<1>2. \A u \in Threads \ {t} : u \in Requests(g) <=> u \in Requests(g)'
  BY DEF Requests
<1>3. /\ t \in Requests(g) <=> kiocb[t].f = g
      /\ t \in Requests(g)' <=> kiocb'[t].f = g
  BY DEF Requests
<1>4. /\ Cardinality(Requests(g)) \in Nat /\ Cardinality(Requests(g)') \in Nat
      /\ Cardinality(Requests(g)') = Cardinality(Requests(g)) - One(t \in Requests(g))
                                       + One(t \in Requests(g)')
  BY <1>1, <1>2, CountChange
<1> QED BY <1>3, <1>4 DEF One

Held(r, g) == r.op \in Iter /\ r.f = g /\ r.pc \in InSection

LEMMA HoldingChange ==
  ASSUME NEW t \in Threads, NEW g,
         \A u \in Threads \ {t} : /\ th'[u].op = th[u].op /\ th'[u].f = th[u].f
                                  /\ th'[u].pc = th[u].pc
  PROVE  /\ Cardinality(Holding(g)) \in Nat /\ Cardinality(Holding(g)') \in Nat
         /\ Cardinality(Holding(g)') = Cardinality(Holding(g)) - One(Held(th[t], g))
                                         + One(Held(th'[t], g))
<1>1. Holding(g) \in SUBSET Threads /\ Holding(g)' \in SUBSET Threads
  BY DEF Holding
<1>2. \A u \in Threads \ {t} : u \in Holding(g) <=> u \in Holding(g)'
  BY DEF Holding
<1>3. /\ t \in Holding(g) <=> Held(th[t], g)
      /\ t \in Holding(g)' <=> Held(th'[t], g)
  BY DEF Holding, Held, InSection
<1>4. /\ Cardinality(Holding(g)) \in Nat /\ Cardinality(Holding(g)') \in Nat
      /\ Cardinality(Holding(g)') = Cardinality(Holding(g)) - One(t \in Holding(g))
                                       + One(t \in Holding(g)')
  BY <1>1, <1>2, CountChange
<1> QED BY <1>3, <1>4 DEF One

LEMMA MappingChange ==
  ASSUME NEW t \in Threads, NEW g,
         \A u \in Threads \ {t} : th'[u].op = th[u].op /\ th'[u].f = th[u].f
  PROVE  /\ Cardinality(Mapping(g)) \in Nat /\ Cardinality(Mapping(g)') \in Nat
         /\ Cardinality(Mapping(g)') = Cardinality(Mapping(g))
                                         - One(th[t].op = "mmap" /\ th[t].f = g)
                                         + One(th'[t].op = "mmap" /\ th'[t].f = g)
<1>1. Mapping(g) \in SUBSET Threads /\ Mapping(g)' \in SUBSET Threads
  BY DEF Mapping
<1>2. \A u \in Threads \ {t} : u \in Mapping(g) <=> u \in Mapping(g)'
  BY DEF Mapping
<1>3. /\ t \in Mapping(g) <=> th[t].op = "mmap" /\ th[t].f = g
      /\ t \in Mapping(g)' <=> th'[t].op = "mmap" /\ th'[t].f = g
  BY DEF Mapping
<1>4. /\ Cardinality(Mapping(g)) \in Nat /\ Cardinality(Mapping(g)') \in Nat
      /\ Cardinality(Mapping(g)') = Cardinality(Mapping(g)) - One(t \in Mapping(g))
                                       + One(t \in Mapping(g)')
  BY <1>1, <1>2, CountChange
<1> QED BY <1>3, <1>4 DEF One

(* Two files are counted apart: RefInv, LowerInv and MapsInv file by file.   *)
RefOK(g) ==
  /\ file[g].count >= One(file[g].fd) + file[g].maps + Cardinality(Calls(g))
                        + Cardinality(Requests(g)) + One(PutLower(g))
  /\ ~file[g].open => file[g].count = 0
LowerOK(g) ==
  /\ file[g].open <=> file[g].lower
  /\ file[g].open <=> file[g].info
  /\ PutLower(g) \/ file[g].lcount = One(file[g].lower) + Cardinality(Holding(g))
MapsOK(g) == file[g].maps + Cardinality(Mapping(g)) <= MaxMaps

LEMMA FileByFile ==
  /\ RefInv <=> \A g \in Files : RefOK(g)
  /\ LowerInv <=> \A g \in Files : LowerOK(g)
  /\ MapsInv <=> \A g \in Files : MapsOK(g)
  /\ RefInv' <=> \A g \in Files : RefOK(g)'
  /\ LowerInv' <=> \A g \in Files : LowerOK(g)'
  /\ MapsInv' <=> \A g \in Files : MapsOK(g)'
BY DEF RefInv, LowerInv, MapsInv, RefOK, LowerOK, MapsOK

(* What RefOK, LowerOK and MapsOK look at, in the present state.             *)
LEMMA FileTypes ==
  ASSUME FileInv, NEW g \in Files
  PROVE  /\ file[g].count \in Nat /\ file[g].lcount \in Nat /\ file[g].maps \in Nat
         /\ {file[g].open, file[g].fd, file[g].lower, file[g].info, file[g].vm_ops}
              \subseteq BOOLEAN
         /\ RefOK(g) /\ LowerOK(g) /\ MapsOK(g)
<1>1. file[g] \in FileRec /\ MaxMaps \in Nat
  BY TypeParts, Bounds DEF FileInv, FilesOK
<1> QED BY <1>1, FileByFile DEF FileInv, FileRec

(* A file no thread and no request of which changed.                         *)
LEMMA OtherFile ==
  ASSUME FileInv, NEW g \in Files, NEW t \in Threads, SameFile(g), PutLower(g)' = PutLower(g),
         \A u \in Threads \ {t} : /\ th'[u].op = th[u].op /\ th'[u].f = th[u].f
                                  /\ th'[u].aio = th[u].aio /\ th'[u].pc = th[u].pc
                                  /\ kiocb'[u].f = kiocb[u].f,
         (th[t].f = g /\ ~th[t].aio) <=> (th'[t].f = g /\ ~th'[t].aio),
         kiocb[t].f = g <=> kiocb'[t].f = g,
         PutLower(g) \/ (Held(th[t], g) <=> Held(th'[t], g)),
         (th[t].op = "mmap" /\ th[t].f = g) <=> (th'[t].op = "mmap" /\ th'[t].f = g)
  PROVE  RefOK(g)' /\ LowerOK(g)' /\ MapsOK(g)'
<1>1. /\ Cardinality(Calls(g)') = Cardinality(Calls(g)) /\ Cardinality(Calls(g)) \in Nat
  BY CallsChange DEF One
<1>2. Cardinality(Requests(g)') = Cardinality(Requests(g)) /\ Cardinality(Requests(g)) \in Nat
  BY RequestsChange DEF One
<1>3. PutLower(g) \/ Cardinality(Holding(g)') = Cardinality(Holding(g))
  BY HoldingChange DEF One
<1>4. Cardinality(Mapping(g)') = Cardinality(Mapping(g)) /\ Cardinality(Mapping(g)) \in Nat
  BY MappingChange DEF One
<1>5. RefOK(g) /\ LowerOK(g) /\ MapsOK(g)
  BY FileTypes
<1>6. RefOK(g)'
  BY <1>1, <1>2, <1>5 DEF RefOK, SameFile, SameRest
<1>7. LowerOK(g)'
  BY <1>3, <1>5 DEF LowerOK, SameFile, SameRest
<1>8. MapsOK(g)'
  BY <1>4, <1>5 DEF MapsOK, SameFile, SameRest
<1> QED BY <1>6, <1>7, <1>8

LEMMA KeepsCounts ==
  ASSUME FileInv, NEW t \in Threads, Keeps(t)
  PROVE  RefInv' /\ LowerInv' /\ MapsInv'
<1> SUFFICES ASSUME NEW g \in Files PROVE RefOK(g)' /\ LowerOK(g)' /\ MapsOK(g)'
  BY FileByFile
<1>1. /\ \A u \in Threads \ {t} : th'[u] = th[u]
      /\ th'[t].op = th[t].op /\ th'[t].f = th[t].f /\ th'[t].aio = th[t].aio
      /\ SameFile(g) /\ \A u \in Threads : kiocb'[u].f = kiocb[u].f
      /\ PutLower(g)' = PutLower(g) /\ (Held(th'[t], g) <=> Held(th[t], g))
  BY DEF Keeps, PutLower, Held
<1> QED BY <1>1, OtherFile

LEMMA EndsCounts ==
  ASSUME FileInv, NEW t \in Threads, th[t].f # NoFile, Ends(t)
  PROVE  RefInv' /\ LowerInv' /\ MapsInv'
<1>0. PICK f \in Files : f = th[t].f
  BY HasFile DEF FileInv
<1>1. th \in [Threads -> Thread] /\ f \in Files /\ th[t].f = f
  BY <1>0, TypeParts DEF ThreadsOK, FileInv
<1>2. th'[t] = Idle /\ \A u \in Threads \ {t} : th'[u] = th[u]
  BY <1>1 DEF Ends
<1>3. /\ th'[t].f = NoFile /\ th'[t].op = "none" /\ NoFile \notin Files
      /\ kiocb' = kiocb /\ early' = early /\ ~th[t].aio /\ ~Held(th[t], f)
  BY <1>1, <1>2, Bounds DEF Idle, Ends, Held
<1>4. \A g : PutLower(g)' = PutLower(g)
  BY <1>3 DEF PutLower
<1>5. ASSUME NEW g \in Files \ {f} PROVE RefOK(g)' /\ LowerOK(g)' /\ MapsOK(g)'
  <2>1. SameFile(g)
    BY <1>1, <1>5 DEF Ends
  <2> QED BY <1>1, <1>2, <1>3, <1>4, <2>1, OtherFile DEF Held
<1>6. /\ Cardinality(Calls(f)') = Cardinality(Calls(f)) - 1 /\ Cardinality(Calls(f)) \in Nat
      /\ Cardinality(Calls(f)') \in Nat
  BY <1>1, <1>2, <1>3, CallsChange DEF One
<1>7. Cardinality(Requests(f)') = Cardinality(Requests(f)) /\ Cardinality(Requests(f)) \in Nat
  BY <1>3, RequestsChange DEF One
<1>8. Cardinality(Holding(f)') = Cardinality(Holding(f))
  BY <1>1, <1>2, <1>3, HoldingChange DEF One, Held
<1>9. Cardinality(Mapping(f)') = Cardinality(Mapping(f)) - One(th[t].op = "mmap")
      /\ Cardinality(Mapping(f)) \in Nat
  BY <1>1, <1>2, <1>3, MappingChange DEF One
<1>10. /\ file[f].count \in Nat /\ file[f].maps \in Nat
       /\ RefOK(f) /\ LowerOK(f) /\ MapsOK(f)
  BY <1>1, FileTypes
<1>11. SameRest(f) /\ file'[f].lcount = file[f].lcount
  BY <1>1 DEF Ends, F
<1>12. \/ /\ file'[f].count = file[f].count - 1 /\ file'[f].maps = file[f].maps
       \/ /\ th[t].op = "mmap"
          /\ file'[f].count = file[f].count /\ file'[f].maps = file[f].maps + 1
  BY <1>1 DEF Ends, F, At
<1>13. file[f].count > 0
  BY <1>1, <1>3, <1>10, HasFile DEF FileInv, F
<1>14. RefOK(f)'
  BY <1>3, <1>4, <1>6, <1>7, <1>10, <1>11, <1>12, <1>13 DEF RefOK, SameRest, One
<1>15. LowerOK(f)'
  BY <1>4, <1>8, <1>10, <1>11 DEF LowerOK, SameRest
<1>16. MapsOK(f)'
  BY <1>9, <1>10, <1>12, Bounds DEF MapsOK, One
<1> QED BY <1>1, <1>5, <1>14, <1>15, <1>16, FileByFile

LEMMA StopsCounts ==
  ASSUME FileInv, NEW t \in Threads, th[t].f # NoFile, Stops(t)
  PROVE  RefInv' /\ LowerInv' /\ MapsInv'
<1>1. th \in [Threads -> Thread] /\ th[t] \in Thread
  BY TypeParts DEF ThreadsOK, FileInv
<1>2. /\ \A u \in Threads \ {t} : th'[u] = th[u]
      /\ th'[t].op = th[t].op /\ th'[t].f = th[t].f /\ th'[t].aio = th[t].aio
      /\ th'[t].pc = "oops" /\ UNCHANGED <<file, kiocb, early>>
  BY <1>1 DEF Stops, Oops, Goto, Thread
<1>3. ASSUME NEW g \in Files PROVE RefOK(g)' /\ LowerOK(g)' /\ MapsOK(g)'
  <2>1. SameFile(g) /\ PutLower(g)' = PutLower(g)
    BY <1>2 DEF SameFile, SameRest, PutLower
  <2>2. PutLower(g) \/ (Held(th[t], g) <=> Held(th'[t], g))
    BY <1>2 DEF Stops, Held, InSection
  <2> QED BY <1>2, <2>1, <2>2, OtherFile
<1> QED BY <1>3, FileByFile

LEMMA GetsCounts ==
  ASSUME FileInv, NEW t \in Threads, Gets(t)
  PROVE  RefInv' /\ LowerInv' /\ MapsInv'
<1>0. PICK f \in Files : f = th[t].f
  BY HasFile, TypeParts DEF FileInv, Gets, ThreadsOK, ThreadOK, Iter
<1>1. NoFile \notin Files /\ IocbOK(t)
  BY Bounds DEF FileInv, IocbInv
<1>2. /\ \A u \in Threads \ {t} : th'[u] = th[u] /\ kiocb'[u] = kiocb[u]
      /\ th[t].op \in Iter /\ th[t].op # "mmap" /\ th'[t].op = th[t].op /\ th'[t].f = f /\ ~th[t].aio
      /\ ~Held(th[t], f) /\ Held(th'[t], f) /\ early' = early
  BY <1>0 DEF Gets, Held, InSection, Iter
<1>3. \/ ~th'[t].aio /\ kiocb'[t].f = kiocb[t].f
      \/ th'[t].aio /\ kiocb[t].f = NoFile /\ kiocb'[t].f = f
  BY <1>0, <1>1 DEF Gets, IocbOK
<1>4. \A g : PutLower(g)' = PutLower(g)
  BY <1>2 DEF PutLower
<1>5. ASSUME NEW g \in Files \ {f} PROVE RefOK(g)' /\ LowerOK(g)' /\ MapsOK(g)'
  <2>1. SameFile(g)
    BY <1>0, <1>5 DEF Gets
  <2> QED BY <1>0, <1>1, <1>2, <1>3, <1>4, <2>1, OtherFile DEF Held
<1>6. /\ Cardinality(Calls(f)') = Cardinality(Calls(f)) - 1 + One(~th'[t].aio)
      /\ Cardinality(Calls(f)) \in Nat /\ Cardinality(Calls(f)') \in Nat
  BY <1>0, <1>2, CallsChange DEF One
<1>7. /\ Cardinality(Requests(f)') = Cardinality(Requests(f)) + One(th'[t].aio)
      /\ Cardinality(Requests(f)) \in Nat
  BY <1>1, <1>2, <1>3, RequestsChange DEF One
<1>8. Cardinality(Holding(f)') = Cardinality(Holding(f)) + 1 /\ Cardinality(Holding(f)) \in Nat
  BY <1>2, HoldingChange DEF One
<1>9. Cardinality(Mapping(f)') = Cardinality(Mapping(f))
  BY <1>0, <1>2, MappingChange DEF One
<1>10. /\ file[f].count \in Nat /\ file[f].maps \in Nat /\ file[f].lcount \in Nat
       /\ RefOK(f) /\ LowerOK(f) /\ MapsOK(f)
  BY FileTypes
<1>11. /\ SameRest(f) /\ file'[f].lcount = file[f].lcount + 1
       /\ file'[f].count = file[f].count /\ file'[f].maps = file[f].maps
  BY <1>0 DEF Gets, F
<1>12. Cardinality(Calls(f)') + Cardinality(Requests(f)')
         = Cardinality(Calls(f)) + Cardinality(Requests(f)) /\ Cardinality(Requests(f)') \in Nat
  BY <1>6, <1>7 DEF One
<1>13. RefOK(f)'
  BY <1>4, <1>6, <1>7, <1>10, <1>11, <1>12 DEF RefOK, SameRest, One
<1>14. LowerOK(f)'
  BY <1>4, <1>8, <1>10, <1>11 DEF LowerOK, SameRest, One
<1>15. MapsOK(f)'
  BY <1>9, <1>10, <1>11 DEF MapsOK
<1> QED BY <1>5, <1>13, <1>14, <1>15, FileByFile

LEMMA PutsCounts ==
  ASSUME FileInv, NEW t \in Threads, Puts(t)
  PROVE  RefInv' /\ LowerInv' /\ MapsInv'
<1>0. PICK f \in Files : f = th[t].f
  BY HasFile, TypeParts DEF FileInv, Puts, ThreadsOK, ThreadOK, Iter
<1>2. /\ \A u \in Threads \ {t} : th'[u] = th[u]
      /\ th'[t].op = th[t].op /\ th'[t].f = f /\ th[t].aio = th'[t].aio
      /\ Held(th[t], f) /\ ~Held(th'[t], f) /\ early' = early /\ kiocb' = kiocb
  BY <1>0 DEF Puts, Held, InSection, Iter
<1>4. \A g : PutLower(g)' = PutLower(g)
  BY <1>2 DEF PutLower
<1>5. ASSUME NEW g \in Files \ {f} PROVE RefOK(g)' /\ LowerOK(g)' /\ MapsOK(g)'
  <2>1. SameFile(g)
    BY <1>0, <1>5 DEF Puts
  <2> QED BY <1>0, <1>2, <1>4, <2>1, OtherFile DEF Held
<1>6. Cardinality(Calls(f)') = Cardinality(Calls(f)) /\ Cardinality(Calls(f)) \in Nat
  BY <1>0, <1>2, CallsChange DEF One
<1>7. Cardinality(Requests(f)') = Cardinality(Requests(f)) /\ Cardinality(Requests(f)) \in Nat
  BY <1>2, RequestsChange DEF One
<1>8. Cardinality(Holding(f)') = Cardinality(Holding(f)) - 1 /\ Cardinality(Holding(f)) \in Nat
      /\ Cardinality(Holding(f)') \in Nat
  BY <1>2, HoldingChange DEF One
<1>9. Cardinality(Mapping(f)') = Cardinality(Mapping(f))
  BY <1>0, <1>2, MappingChange DEF One
<1>10. /\ file[f].lcount \in Nat
       /\ RefOK(f) /\ LowerOK(f) /\ MapsOK(f)
  BY FileTypes
<1>11. /\ SameRest(f) /\ file'[f].lcount = file[f].lcount - 1
       /\ file'[f].count = file[f].count /\ file'[f].maps = file[f].maps
  BY <1>0 DEF Puts, F
<1>13. RefOK(f)'
  BY <1>4, <1>6, <1>7, <1>10, <1>11 DEF RefOK, SameRest
<1>14. LowerOK(f)'
  BY <1>4, <1>8, <1>10, <1>11 DEF LowerOK, SameRest, One
<1>15. MapsOK(f)'
  BY <1>9, <1>10, <1>11 DEF MapsOK
<1> QED BY <1>5, <1>13, <1>14, <1>15, FileByFile

LEMMA IterReturnCounts ==
  ASSUME FileInv, NEW t \in Threads, IterReturn(t)
  PROVE  RefInv' /\ LowerInv' /\ MapsInv'
<1>0. PICK f \in Files : f = th[t].f
  BY IterReturnEffect
<1>1. /\ th \in [Threads -> Thread] /\ kiocb \in [Threads -> Iocb] /\ file \in [Files -> FileRec]
      /\ NoFile \notin Files /\ IocbOK(t) /\ early' = early
      /\ th[t].op \in Iter /\ th[t].pc = "out"
  BY TypeParts, Bounds DEF FileInv, ThreadsOK, FilesOK, IocbsOK, IocbInv, IterReturn
<1>2. th'[t] = Idle /\ \A u \in Threads \ {t} : th'[u] = th[u]
  BY <1>1, IterReturnEffect
<1>3. /\ th'[t].f = NoFile /\ ~th'[t].aio /\ th'[t].op = "none" /\ th[t].op # "mmap"
      /\ \A g \in Files : ~Held(th[t], g) /\ ~Held(th'[t], g)
  BY <1>1, <1>2 DEF Idle, Held, Iter, InSection
<1>4. \A g : PutLower(g)' = PutLower(g)
  BY <1>1 DEF PutLower
<1>5. /\ NoIocb.f = NoFile
      /\ \/ /\ ~th[t].aio /\ kiocb' = kiocb /\ file[f].count > 0
            /\ file' = [file EXCEPT ![f].count = @ - 1]
         \/ /\ th[t].aio /\ file' = file
            /\ kiocb' = kiocb \/ (kiocb[t].f = NoFile /\ kiocb' = [kiocb EXCEPT ![t] = NoIocb])
         \/ /\ th[t].aio /\ file' = [file EXCEPT ![f].count = @ - 1] /\ file[f].count > 0
            /\ kiocb[t].f = f /\ kiocb' = [kiocb EXCEPT ![t] = NoIocb]
  BY <1>0, <1>1, IterReturnEffect DEF NoIocb, IocbOK, F
<1>6. \A u \in Threads \ {t} : kiocb'[u] = kiocb[u]
  BY <1>1, <1>5
<1>7. /\ file'[f].count \in {file[f].count, file[f].count - 1}
      /\ file'[f].count = file[f].count \/ file[f].count > 0
      /\ \/ /\ ~th[t].aio /\ kiocb'[t].f = kiocb[t].f
            /\ file'[f].count = file[f].count - 1
         \/ /\ th[t].aio /\ file'[f].count = file[f].count
            /\ kiocb'[t].f = kiocb[t].f
         \/ /\ th[t].aio /\ file'[f].count = file[f].count - 1
            /\ kiocb[t].f = f /\ kiocb'[t].f = NoFile
  <2>1. file' = [file EXCEPT ![f].count = @ - 1] => file'[f].count = file[f].count - 1
    BY <1>1 DEF FileRec
  <2>2. kiocb' = [kiocb EXCEPT ![t] = NoIocb] => kiocb'[t].f = NoFile
    BY <1>1, <1>5
  <2> QED BY <1>5, <2>1, <2>2
<1>8. /\ \A g \in Files \ {f} : file'[g] = file[g]
      /\ SameRest(f) /\ file'[f].lcount = file[f].lcount /\ file'[f].maps = file[f].maps
  <2>1. file' = file \/ file' = [file EXCEPT ![f].count = @ - 1]
    BY <1>5
  <2> QED BY <1>1, <2>1 DEF SameRest, FileRec
<1>9. ASSUME NEW g \in Files \ {f} PROVE RefOK(g)' /\ LowerOK(g)' /\ MapsOK(g)'
  <2>1. SameFile(g)
    BY <1>8, <1>9 DEF SameFile, SameRest
  <2>2. kiocb[t].f = g <=> kiocb'[t].f = g
    BY <1>1, <1>7, <1>9
  <2> QED BY <1>0, <1>1, <1>2, <1>3, <1>4, <1>6, <2>1, <2>2, OtherFile
<1>10. /\ Cardinality(Calls(f)') = Cardinality(Calls(f)) - One(~th[t].aio)
       /\ Cardinality(Calls(f)) \in Nat /\ Cardinality(Calls(f)') \in Nat
  BY <1>0, <1>1, <1>2, <1>3, CallsChange DEF One
<1>11. /\ Cardinality(Requests(f)') = Cardinality(Requests(f)) - One(kiocb[t].f = f)
                                       + One(kiocb'[t].f = f)
       /\ Cardinality(Requests(f)) \in Nat /\ Cardinality(Requests(f)') \in Nat
  BY <1>6, RequestsChange
<1>12. Cardinality(Holding(f)') = Cardinality(Holding(f))
  BY <1>2, <1>3, HoldingChange DEF One
<1>13. Cardinality(Mapping(f)') = Cardinality(Mapping(f))
  BY <1>2, <1>3, MappingChange DEF One
<1>14. /\ file[f].count \in Nat /\ file[f].maps \in Nat
       /\ RefOK(f) /\ LowerOK(f) /\ MapsOK(f)
  BY FileTypes
<1>15. file'[f].count - Cardinality(Calls(f)') - Cardinality(Requests(f)')
         = file[f].count - Cardinality(Calls(f)) - Cardinality(Requests(f))
  BY <1>1, <1>7, <1>10, <1>11, <1>14 DEF One
<1>16. RefOK(f)'
  BY <1>4, <1>7, <1>8, <1>10, <1>11, <1>14, <1>15 DEF RefOK, SameRest, One
<1>17. LowerOK(f)'
  BY <1>4, <1>8, <1>12, <1>14 DEF LowerOK, SameRest
<1>18. MapsOK(f)'
  BY <1>8, <1>13, <1>14 DEF MapsOK
<1> QED BY <1>9, <1>16, <1>17, <1>18, FileByFile

(* A step of a thread keeps the counts.                                      *)
LEMMA StepCounts ==
  ASSUME FileInv, NEW t \in Threads, Step(t)
  PROVE  RefInv' /\ LowerInv' /\ MapsInv'
<1>1. th[t].f # NoFile
  BY StepInside DEF FileInv
<1> QED BY <1>1, StepKinds, KeepsCounts, EndsCounts, GetsCounts, PutsCounts, StopsCounts,
           IterReturnCounts

LEMMA EnterCounts ==
  ASSUME FileInv, NEW t \in Threads, NEW f \in Files, NEW op \in Ops \ {"none", "link"},
         Enter(t, f, op), op = "mmap" => file[f].maps + Cardinality(Mapping(f)) < MaxMaps
  PROVE  RefInv' /\ LowerInv' /\ MapsInv'
<1>1. /\ th[t].pc = "idle" /\ \A u \in Threads \ {t} : SameCall(u)
      /\ th'[t].op = op /\ th'[t].pc = "in" /\ th'[t].f = f /\ ~th'[t].aio
      /\ UNCHANGED <<kiocb, early>>
      /\ file' = [file EXCEPT ![f].count = @ + 1]
      /\ IF op = "fault" THEN file[f].maps > 0 ELSE file[f].fd
  BY EnterEffect DEF FileInv
<1>2. /\ th[t].f = NoFile /\ th[t].op = "none" /\ NoFile \notin Files
      /\ file \in [Files -> FileRec]
  BY <1>1, TypeParts, Bounds DEF FileInv, ThreadsOK, ThreadOK, FilesOK
<1>3. \A g \in Files : /\ PutLower(g)' = PutLower(g) /\ ~Held(th[t], g) /\ ~Held(th'[t], g)
  BY <1>1, <1>2 DEF PutLower, Held, InSection
<1>4. /\ \A g \in Files \ {f} : SameFile(g)
      /\ SameRest(f) /\ file'[f].lcount = file[f].lcount /\ file'[f].maps = file[f].maps
      /\ file'[f].count = file[f].count + 1
  BY <1>1, <1>2 DEF SameFile, SameRest, FileRec
<1>5. ASSUME NEW g \in Files \ {f} PROVE RefOK(g)' /\ LowerOK(g)' /\ MapsOK(g)'
  BY <1>1, <1>2, <1>3, <1>4, OtherFile DEF SameCall
<1>6. /\ Cardinality(Calls(f)') = Cardinality(Calls(f)) + 1
      /\ Cardinality(Calls(f)) \in Nat
  BY <1>1, <1>2, CallsChange DEF One, SameCall
<1>7. Cardinality(Requests(f)') = Cardinality(Requests(f)) /\ Cardinality(Requests(f)) \in Nat
  BY <1>1, RequestsChange DEF One
<1>8. Cardinality(Holding(f)') = Cardinality(Holding(f))
  BY <1>1, <1>3, HoldingChange DEF One, SameCall
<1>9. Cardinality(Mapping(f)') = Cardinality(Mapping(f)) + One(op = "mmap")
      /\ Cardinality(Mapping(f)) \in Nat
  BY <1>1, <1>2, MappingChange DEF One, SameCall
<1>10. /\ file[f].count \in Nat /\ file[f].maps \in Nat
       /\ RefOK(f) /\ LowerOK(f) /\ MapsOK(f)
  BY FileTypes
<1>11. file[f].open
  <2>1. file[f].count # 0
    BY <1>1, <1>10, NotCounted DEF FileInv
  <2> QED BY <1>10, <2>1 DEF RefOK
<1>12. RefOK(f)'
  BY <1>3, <1>4, <1>6, <1>7, <1>10, <1>11 DEF RefOK, SameRest, One
<1>13. LowerOK(f)'
  BY <1>3, <1>4, <1>8, <1>10 DEF LowerOK, SameRest
<1>14. MapsOK(f)'
  BY <1>4, <1>9, <1>10, Bounds DEF MapsOK, One
<1> QED BY <1>5, <1>12, <1>13, <1>14, FileByFile

LEMMA CloseCounts ==
  ASSUME FileInv, NEW t \in Threads, NEW f \in Files, Close(t, f)
  PROVE  RefInv' /\ LowerInv' /\ MapsInv'
<1>1. /\ th[t].f = NoFile /\ th[t].op = "none" /\ NoFile \notin Files
      /\ file \in [Files -> FileRec] /\ th \in [Threads -> Thread] /\ file[f].fd
  BY TypeParts, Bounds DEF FileInv, ThreadsOK, ThreadOK, FilesOK, Close
<1>2. /\ th' = [th EXCEPT ![t] = [Idle EXCEPT !.op = "close", !.pc = "in", !.f = f]]
      /\ file' = [file EXCEPT ![f].fd = FALSE] /\ UNCHANGED <<kiocb, early>>
  BY DEF Close
<1>3. /\ \A u \in Threads \ {t} : th'[u] = th[u]
      /\ th'[t].op = "close" /\ th'[t].f = f /\ ~th'[t].aio
  BY <1>1, <1>2 DEF Idle
<1>4. \A g \in Files : /\ PutLower(g)' = PutLower(g) /\ ~Held(th[t], g) /\ ~Held(th'[t], g)
  BY <1>1, <1>2, <1>3 DEF PutLower, Held, Iter
<1>5. /\ \A g \in Files \ {f} : SameFile(g)
      /\ file'[f].lcount = file[f].lcount /\ file'[f].maps = file[f].maps
      /\ file'[f].count = file[f].count /\ ~file'[f].fd /\ file'[f].open = file[f].open
      /\ file'[f].lower = file[f].lower /\ file'[f].info = file[f].info
  BY <1>1, <1>2 DEF SameFile, SameRest, FileRec
<1>6. ASSUME NEW g \in Files \ {f} PROVE RefOK(g)' /\ LowerOK(g)' /\ MapsOK(g)'
  BY <1>1, <1>2, <1>3, <1>4, <1>5, OtherFile
<1>7. /\ Cardinality(Calls(f)') = Cardinality(Calls(f)) + 1
      /\ Cardinality(Calls(f)) \in Nat
  BY <1>1, <1>3, CallsChange DEF One
<1>8. Cardinality(Requests(f)') = Cardinality(Requests(f)) /\ Cardinality(Requests(f)) \in Nat
  BY <1>2, RequestsChange DEF One
<1>9. Cardinality(Holding(f)') = Cardinality(Holding(f))
  BY <1>3, <1>4, HoldingChange DEF One
<1>10. Cardinality(Mapping(f)') = Cardinality(Mapping(f))
  BY <1>1, <1>3, MappingChange DEF One
<1>11. /\ file[f].count \in Nat /\ file[f].maps \in Nat
       /\ RefOK(f) /\ LowerOK(f) /\ MapsOK(f)
  BY FileTypes
<1>12. RefOK(f)'
  BY <1>1, <1>4, <1>5, <1>7, <1>8, <1>11 DEF RefOK, One
<1>13. LowerOK(f)'
  BY <1>4, <1>5, <1>9, <1>11 DEF LowerOK
<1>14. MapsOK(f)'
  BY <1>5, <1>10, <1>11 DEF MapsOK
<1> QED BY <1>6, <1>12, <1>13, <1>14, FileByFile

LEMMA CompleteCounts ==
  ASSUME FileInv, NEW t \in Threads, Complete(t)
  PROVE  RefInv' /\ LowerInv' /\ MapsInv'
<1>0. PICK f \in Files : f = kiocb[t].f
  BY CompleteEffect
<1>1. /\ file \in [Files -> FileRec] /\ kiocb \in [Threads -> Iocb] /\ NoFile \notin Files
  BY TypeParts, Bounds DEF FileInv, FilesOK, IocbsOK
<1>2. \A u \in Threads : SameCall(u)
  BY CompleteEffect
<1>3. /\ kiocb'[t].f = NoFile /\ \A u \in Threads \ {t} : kiocb'[u] = kiocb[u]
  BY <1>1, CompleteEffect
<1>4. \/ /\ file' = [file EXCEPT ![f].count = @ - 1] /\ file[f].count > 0
         /\ \A g \in Files : PutLower(g)' = PutLower(g)
      \/ /\ \E c \in Nat : file' = [file EXCEPT ![f].lcount = c]
         /\ PutLower(f)' /\ \A g \in Files \ {f} : PutLower(g)' = PutLower(g)
  <2>1. \/ /\ file' = [file EXCEPT ![f].count = @ - 1] /\ file[f].count > 0
           /\ \/ early' = early
              \/ \E l \in Late \ {"restore"} : early' = early \cup {<<f, l>>}
        \/ /\ \E c \in Nat : file' = [file EXCEPT ![f].lcount = c]
           /\ early' = early \cup {<<f, "restore">>}
    BY <1>0, CompleteEffect
  <2>2. ASSUME NEW l \in Late \ {"restore"}, early' = early \cup {<<f, l>>}
        PROVE  \A g \in Files : PutLower(g)' = PutLower(g)
    BY <2>2 DEF PutLower
  <2>3. ASSUME early' = early PROVE \A g \in Files : PutLower(g)' = PutLower(g)
    BY <2>3 DEF PutLower
  <2>4. ASSUME early' = early \cup {<<f, "restore">>}
        PROVE  PutLower(f)' /\ \A g \in Files \ {f} : PutLower(g)' = PutLower(g)
    BY <2>4 DEF PutLower
  <2> QED BY <2>1, <2>2, <2>3, <2>4
<1>5. /\ \A g \in Files \ {f} : SameFile(g)
      /\ SameRest(f) /\ file'[f].maps = file[f].maps
      /\ \/ /\ file'[f].count = file[f].count - 1 /\ file[f].count > 0
            /\ PutLower(f)' = PutLower(f) /\ file'[f].lcount = file[f].lcount
         \/ file'[f].count = file[f].count /\ PutLower(f)'
  <2>1. \A g \in Files \ {f} : file'[g] = file[g]
    BY <1>1, <1>4
  <2>2. \A g \in Files \ {f} : SameFile(g)
    BY <2>1 DEF SameFile, SameRest
  <2>3. ASSUME file' = [file EXCEPT ![f].count = @ - 1]
        PROVE  /\ SameRest(f) /\ file'[f].maps = file[f].maps
               /\ file'[f].count = file[f].count - 1 /\ file'[f].lcount = file[f].lcount
    BY <1>1, <2>3 DEF SameRest, FileRec
  <2>4. ASSUME NEW c \in Nat, file' = [file EXCEPT ![f].lcount = c]
        PROVE  /\ SameRest(f) /\ file'[f].maps = file[f].maps
               /\ file'[f].count = file[f].count
    BY <1>1, <2>4 DEF SameRest, FileRec
  <2> QED BY <1>4, <2>2, <2>3, <2>4
<1>6. ASSUME NEW g \in Files \ {f} PROVE RefOK(g)' /\ LowerOK(g)' /\ MapsOK(g)'
  <2>1. SameFile(g) /\ PutLower(g)' = PutLower(g)
    BY <1>4, <1>5, <1>6
  <2>2. kiocb[t].f = g <=> kiocb'[t].f = g
    BY <1>0, <1>1, <1>3, <1>6
  <2> QED BY <1>2, <1>3, <2>1, <2>2, OtherFile DEF SameCall, Held
<1>7. Cardinality(Calls(f)') = Cardinality(Calls(f)) /\ Cardinality(Calls(f)) \in Nat
  BY <1>2, CallsChange DEF One, SameCall
<1>8. /\ Cardinality(Requests(f)') = Cardinality(Requests(f)) - 1
      /\ Cardinality(Requests(f)) \in Nat /\ Cardinality(Requests(f)') \in Nat
  BY <1>0, <1>1, <1>3, RequestsChange DEF One
<1>9. Cardinality(Holding(f)') = Cardinality(Holding(f))
  BY <1>2, HoldingChange DEF One, SameCall, Held
<1>10. Cardinality(Mapping(f)') = Cardinality(Mapping(f))
  BY <1>2, MappingChange DEF One, SameCall
<1>11. /\ file[f].count \in Nat /\ file[f].maps \in Nat
       /\ RefOK(f) /\ LowerOK(f) /\ MapsOK(f)
  BY FileTypes
<1>12. RefOK(f)'
  BY <1>5, <1>7, <1>8, <1>11 DEF RefOK, SameRest, One
<1>13. LowerOK(f)'
  BY <1>5, <1>9, <1>11 DEF LowerOK, SameRest
<1>14. MapsOK(f)'
  BY <1>5, <1>10, <1>11 DEF MapsOK
<1> QED BY <1>6, <1>12, <1>13, <1>14, FileByFile

(* A file is opened, released or unmapped, and no thread does anything.      *)
LEMMA FileCounts ==
  ASSUME FileInv, NEW f \in Files, trfs_open(f) \/ trfs_file_release(f) \/ Munmap(f)
  PROVE  RefInv' /\ LowerInv' /\ MapsInv'
<1>1. file \in [Files -> FileRec] /\ UNCHANGED <<th, kiocb, early>>
  BY TypeParts DEF FileInv, FilesOK, trfs_open, trfs_file_release, Munmap
<1>2. \A g \in Files : /\ Calls(g)' = Calls(g) /\ Requests(g)' = Requests(g)
                       /\ Holding(g)' = Holding(g) /\ Mapping(g)' = Mapping(g)
                       /\ PutLower(g)' = PutLower(g)
  BY <1>1 DEF Calls, Requests, Holding, Mapping, PutLower
<1>3. \A g \in Files \ {f} : file'[g] = file[g]
  BY <1>1 DEF trfs_open, trfs_file_release, Munmap
<1>4. ASSUME NEW g \in Files \ {f} PROVE RefOK(g)' /\ LowerOK(g)' /\ MapsOK(g)'
  <2>1. RefOK(g) /\ LowerOK(g) /\ MapsOK(g)
    BY FileTypes
  <2> QED BY <1>2, <1>3, <2>1 DEF RefOK, LowerOK, MapsOK
<1>5. /\ file[f].count \in Nat /\ file[f].maps \in Nat /\ file[f].lcount \in Nat
      /\ RefOK(f) /\ LowerOK(f) /\ MapsOK(f) /\ file[f].lower \in BOOLEAN
  BY FileTypes
<1>6. /\ Cardinality(Calls(f)) \in Nat /\ Cardinality(Requests(f)) \in Nat
      /\ Cardinality(Holding(f)) \in Nat /\ Cardinality(Mapping(f)) \in Nat
  BY Counted DEF Calls, Requests, Holding, Mapping
<1>7. /\ Closed.count = 0 /\ Closed.maps = 0 /\ Closed.lcount = 0 /\ ~Closed.open
      /\ ~Closed.fd /\ ~Closed.info /\ ~Closed.lower
  BY DEF Closed
<1>8. ASSUME file[f].count = 0
      PROVE  /\ Cardinality(Calls(f)) = 0 /\ Cardinality(Requests(f)) = 0
             /\ file[f].maps = 0 /\ ~PutLower(f)
  BY <1>8, NotCounted, FS_EmptySet DEF FileInv
<1>9. CASE trfs_open(f)
  <2>1. file[f] = Closed
    BY <1>9 DEF trfs_open, Unused
  <2>2. \/ /\ file'[f].count = 1 /\ file'[f].maps = 0 /\ file'[f].lcount = 1
           /\ file'[f].open /\ file'[f].fd /\ file'[f].info /\ file'[f].lower
        \/ file'[f] = Closed
    <3>1. \/ file' = [file EXCEPT ![f] =
                        [Closed EXCEPT !.open = TRUE, !.fd = TRUE, !.info = TRUE,
                                       !.lower = TRUE, !.count = 1, !.lcount = 1]]
          \/ file' = [file EXCEPT ![f] = Closed]
      BY <1>9 DEF trfs_open
    <3> QED BY <1>1, <3>1 DEF Closed
  <2>3. RefOK(f)'
    BY <1>2, <1>7, <1>8, <2>1, <2>2 DEF RefOK, One
  <2>4. LowerOK(f)'
    BY <1>2, <1>5, <1>6, <1>7, <1>8, <2>1, <2>2 DEF LowerOK, One
  <2>5. MapsOK(f)'
    BY <1>2, <1>5, <1>6, <1>7, <2>1, <2>2 DEF MapsOK
  <2> QED BY <1>4, <2>3, <2>4, <2>5, FileByFile
<1>10. CASE trfs_file_release(f)
  <2>1. file[f].count = 0 /\ file[f].open
    BY <1>10 DEF trfs_file_release
  <2> DEFINE c == file[f].lcount - (IF file[f].lower THEN 1 ELSE 0)
  <2>2. file' = [file EXCEPT ![f] = [Closed EXCEPT !.lcount = c]]
    BY <1>10 DEF trfs_file_release
  <2>3. c = Cardinality(Holding(f))
    BY <1>5, <1>6, <1>8, <2>1 DEF LowerOK, One
  <2> HIDE DEF c
  <2>4. /\ file'[f].count = 0 /\ file'[f].maps = 0 /\ ~file'[f].open /\ ~file'[f].fd
        /\ ~file'[f].info /\ ~file'[f].lower /\ file'[f].lcount = c
    BY <1>1, <2>2 DEF Closed
  <2>5. RefOK(f)'
    BY <1>2, <1>8, <2>1, <2>4 DEF RefOK, One
  <2>6. LowerOK(f)'
    BY <1>2, <1>6, <2>3, <2>4 DEF LowerOK, One
  <2>7. MapsOK(f)'
    BY <1>2, <1>5, <1>6, <1>8, <2>1, <2>4 DEF MapsOK
  <2> QED BY <1>4, <2>5, <2>6, <2>7, FileByFile
<1>11. CASE Munmap(f)
  <2>1. /\ file' = [file EXCEPT ![f].maps = @ - 1, ![f].count = @ - 1]
        /\ file[f].maps > 0
    BY <1>11 DEF Munmap
  <2>2. /\ SameRest(f) /\ file'[f].lcount = file[f].lcount
        /\ file'[f].maps = file[f].maps - 1 /\ file'[f].count = file[f].count - 1
    BY <1>1, <2>1 DEF SameRest, FileRec
  <2>3. file[f].count > 0
    BY <1>5, <1>8, <2>1
  <2>4. RefOK(f)'
    BY <1>2, <1>5, <1>6, <2>1, <2>2, <2>3 DEF RefOK, SameRest, One
  <2>5. LowerOK(f)'
    BY <1>2, <1>5, <2>2 DEF LowerOK, SameRest
  <2>6. MapsOK(f)'
    BY <1>2, <1>5, <1>6, <2>2, Bounds DEF MapsOK
  <2> QED BY <1>4, <2>4, <2>5, <2>6, FileByFile
<1> QED BY <1>9, <1>10, <1>11

(* Every step keeps the counts.                                              *)
LEMMA NextCounts ==
  ASSUME FileInv, [Next]_vars
  PROVE  RefInv' /\ LowerInv' /\ MapsInv'
<1>a. ASSUME NEW t \in Threads, EnterLink(t) \/ trfs_link(t)
      PROVE  RefInv' /\ LowerInv' /\ MapsInv'
  <2>1. /\ th[t].f = NoFile /\ th'[t].f = NoFile /\ \A u \in Threads \ {t} : SameCall(u)
        /\ UNCHANGED <<file, kiocb, early>> /\ NoFile \notin Files
    BY <1>a, LinkAside, Bounds DEF FileInv
  <2>2. ASSUME NEW g \in Files PROVE RefOK(g)' /\ LowerOK(g)' /\ MapsOK(g)'
    <3>1. SameFile(g) /\ PutLower(g)' = PutLower(g) /\ th[t].f # g /\ th'[t].f # g
      BY <2>1 DEF SameFile, SameRest, PutLower
    <3> QED BY <2>1, <3>1, OtherFile DEF SameCall, Held
  <2> QED BY <2>2, FileByFile
<1>1. ASSUME NEW t \in Threads, Call(t) PROVE RefInv' /\ LowerInv' /\ MapsInv'
  <2>1. /\ {"forward", "write", "setattr", "fault"} \cup Moving \cup Iter
             \subseteq Ops \ {"none", "link", "mmap"}
        /\ Dirs \subseteq Files /\ "mmap" \in Ops \ {"none", "link"}
    BY Bounds DEF Ops, Moving, Iter
  <2>2. ASSUME NEW f \in Files,
               file[f].maps + Cardinality({u \in Threads : th[u].op = "mmap"}) < MaxMaps
        PROVE  file[f].maps + Cardinality(Mapping(f)) < MaxMaps
    <3> DEFINE A == {u \in Threads : th[u].op = "mmap"}
    <3>1. IsFiniteSet(A) /\ Mapping(f) \subseteq A
      BY FileAssumption, FS_Subset DEF Mapping
    <3>2. Cardinality(Mapping(f)) <= Cardinality(A)
      BY <3>1, FS_Subset
    <3>3. Cardinality(A) \in Nat /\ Cardinality(Mapping(f)) \in Nat /\ file[f].maps \in Nat
      BY <3>1, FS_CardinalityType, Counted, FileTypes DEF Mapping
    <3> HIDE DEF A
    <3>4. file[f].maps + Cardinality(A) < MaxMaps
      BY <2>2 DEF A
    <3> QED BY <3>2, <3>3, <3>4, Bounds
  <2>3. ASSUME NEW f \in Files, Enter(t, f, "mmap"),
               file[f].maps + Cardinality({u \in Threads : th[u].op = "mmap"}) < MaxMaps
        PROVE  RefInv' /\ LowerInv' /\ MapsInv'
    BY <2>1, <2>2, <2>3, EnterCounts
  <2>4. ASSUME NEW f \in Files, NEW op \in Ops \ {"none", "link", "mmap"}, Enter(t, f, op)
        PROVE  RefInv' /\ LowerInv' /\ MapsInv'
    BY <2>4, EnterCounts
  <2> QED BY <1>1, <1>a, <2>1, <2>3, <2>4, CloseCounts DEF Call
<1>2. CASE UNCHANGED vars
  BY <1>2 DEF vars, FileInv, RefInv, LowerInv, MapsInv, Calls, Requests, Holding, Mapping,
              PutLower
<1> QED BY <1>a, <1>1, <1>2, StepCounts, CompleteCounts, FileCounts DEF Next

-----------------------------------------------------------------------------
(* Mappings and the saved vm_ops.                                            *)

(* What VmInv says of one thread, in terms of its file.                      *)
VmOK(r, x) ==
  /\ r.op = "mmap" /\ r.pc = "save" => x.vm_ops \/ r.n = 1
  /\ r.op = "fault" => x.maps > 0

LEMMA VmParts ==
  /\ VmInv <=> /\ \A g \in Files : file[g].maps > 0 => file[g].vm_ops
               /\ \A u \in Threads : VmOK(th[u], file[th[u].f])
  /\ VmInv' <=> /\ \A g \in Files : file'[g].maps > 0 => file'[g].vm_ops
                /\ \A u \in Threads : VmOK(th'[u], file'[th'[u].f])
BY DEF VmInv, VmOK, MappedHasVmOps, At, F

(* A step that saves no vm_ops and makes or drops no mapping.                *)
LEMMA VmKept ==
  ASSUME FileInv,
         \A g \in Files : file'[g].vm_ops = file[g].vm_ops /\ file'[g].maps = file[g].maps,
         \A u \in Threads :
           \/ th'[u].op \notin {"mmap", "fault"}
           \/ SameCall(u)
           \/ th'[u].f \in Files /\ VmOK(th'[u], file'[th'[u].f])
  PROVE  VmInv'
<1>1. /\ \A g \in Files : file[g].maps > 0 => file[g].vm_ops
      /\ \A u \in Threads : VmOK(th[u], file[th[u].f])
  BY VmParts DEF FileInv
<1>2. ASSUME NEW u \in Threads PROVE VmOK(th'[u], file'[th'[u].f])
  <2>1. CASE SameCall(u) /\ th[u].f # NoFile
    <3>1. th[u].f \in Files /\ th'[u].f = th[u].f
      BY <2>1, HasFile DEF FileInv, SameCall
    <3> QED BY <1>1, <2>1, <3>1 DEF VmOK, SameCall
  <2>2. CASE SameCall(u) /\ th[u].f = NoFile
    <3>1. th'[u].op \in {"none", "link"}
      BY <2>2, TypeParts DEF FileInv, ThreadsOK, ThreadOK, SameCall
    <3> QED BY <3>1 DEF VmOK
  <2>3. CASE th'[u].op \notin {"mmap", "fault"}
    BY <2>3 DEF VmOK
  <2> QED BY <2>1, <2>2, <2>3
<1> QED BY <1>1, <1>2, VmParts

LEMMA StepVm ==
  ASSUME FileInv, NEW t \in Threads, Step(t)
  PROVE  VmInv'
<1>1. th[t].f # NoFile
  BY StepInside DEF FileInv
<1>2. th[t].f \in Files /\ th \in [Threads -> Thread] /\ file \in [Files -> FileRec]
  BY <1>1, HasFile, TypeParts DEF FileInv, ThreadsOK, FilesOK
<1>3. /\ \A g \in Files : file[g].maps > 0 => file[g].vm_ops
      /\ \A u \in Threads : VmOK(th[u], file[th[u].f])
  BY VmParts DEF FileInv
<1>4. CASE Keeps(t)
  <2>1. \A g \in Files : file'[g].vm_ops = file[g].vm_ops /\ file'[g].maps = file[g].maps
    BY <1>4 DEF Keeps, SameFile
  <2>2. \A u \in Threads \ {t} : SameCall(u)
    BY <1>4 DEF Keeps, SameCall
  <2>3. th'[t].f \in Files /\ VmOK(th'[t], file'[th'[t].f])
    BY <1>2, <1>3, <1>4, <2>1 DEF Keeps, VmOK, At, F
  <2> QED BY <2>1, <2>2, <2>3, VmKept
<1>5. CASE Ends(t)
  <2>1. th'[t] = Idle /\ \A u \in Threads \ {t} : th'[u] = th[u]
    BY <1>2, <1>5 DEF Ends
  <2>2. \A g \in Files \ {th[t].f} : file'[g].vm_ops = file[g].vm_ops /\ file'[g].maps = file[g].maps
    BY <1>5 DEF Ends, SameFile
  <2>3. \/ /\ file'[th[t].f].maps = file[th[t].f].maps
           /\ file'[th[t].f].vm_ops = file[th[t].f].vm_ops
        \/ file'[th[t].f].vm_ops = TRUE /\ file'[th[t].f].maps = file[th[t].f].maps + 1
    <3>1. VmOK(th[t], F(t))
      BY <1>3 DEF F
    <3> QED BY <1>5, <3>1 DEF Ends, VmOK, At, F
  <2>4. \A g \in Files : file[g].maps \in Nat
    BY FileTypes
  <2>5. \A g \in Files : file'[g].maps > 0 => file'[g].vm_ops
    BY <1>3, <2>2, <2>3
  <2>6. ASSUME NEW u \in Threads PROVE VmOK(th'[u], file'[th'[u].f])
    <3>1. CASE u = t
      BY <2>1, <3>1 DEF VmOK, Idle
    <3>2. CASE u # t /\ th[u].f = NoFile
      <4>1. th'[u].op \in {"none", "link"}
        BY <2>1, <3>2, TypeParts DEF FileInv, ThreadsOK, ThreadOK
      <4> QED BY <4>1 DEF VmOK
    <3>3. CASE u # t /\ th[u].f # NoFile
      <4>1. th[u].f \in Files /\ th'[u] = th[u]
        BY <2>1, <3>3, HasFile DEF FileInv
      <4> QED BY <1>2, <1>3, <2>2, <2>3, <2>4, <4>1 DEF VmOK
    <3> QED BY <3>1, <3>2, <3>3
  <2> QED BY <2>5, <2>6, VmParts
<1>6. CASE Gets(t) \/ Puts(t)
  <2>1. \A g \in Files : file'[g].vm_ops = file[g].vm_ops /\ file'[g].maps = file[g].maps
    BY <1>6 DEF Gets, Puts, SameFile, F
  <2>2. \A u \in Threads \ {t} : SameCall(u)
    BY <1>6 DEF Gets, Puts, SameCall
  <2>3. th'[t].op \notin {"mmap", "fault"}
    BY <1>6 DEF Gets, Puts, Iter
  <2> QED BY <2>1, <2>2, <2>3, VmKept
<1>7. CASE Stops(t)
  <2>1. /\ file' = file /\ \A u \in Threads \ {t} : SameCall(u)
        /\ th'[t].op = th[t].op /\ th'[t].f = th[t].f /\ th'[t].pc = "oops"
    BY <1>2, <1>7 DEF Stops, Oops, Goto, SameCall, Thread
  <2>2. th'[t].f \in Files /\ VmOK(th'[t], file'[th'[t].f])
    BY <1>2, <1>3, <2>1 DEF VmOK
  <2> QED BY <2>1, <2>2, VmKept
<1>8. CASE IterReturn(t)
  <2>1. file' = file \/ file' = [file EXCEPT ![th[t].f].count = @ - 1]
    BY <1>8, IterReturnEffect
  <2>2. \A g \in Files : file'[g].vm_ops = file[g].vm_ops /\ file'[g].maps = file[g].maps
    BY <1>2, <2>1 DEF FileRec
  <2>3. th' = [th EXCEPT ![t] = Idle]
    BY <1>8, IterReturnEffect
  <2>4. th'[t].op = "none" /\ \A u \in Threads \ {t} : SameCall(u)
    BY <1>2, <2>3 DEF Idle, SameCall
  <2> QED BY <2>2, <2>4, VmKept
<1> QED BY <1>4, <1>5, <1>6, <1>7, <1>8, StepKinds

LEMMA NextVm ==
  ASSUME FileInv, [Next]_vars
  PROVE  VmInv'
<1>0. th \in [Threads -> Thread] /\ file \in [Files -> FileRec]
  BY TypeParts DEF FileInv, ThreadsOK, FilesOK
<1>1. ASSUME NEW t \in Threads, NEW f \in Files, NEW op \in Ops \ {"none", "link"}, Enter(t, f, op)
      PROVE  VmInv'
  <2>1. /\ \A u \in Threads \ {t} : SameCall(u)
        /\ th'[t].op = op /\ th'[t].pc = "in" /\ th'[t].f = f
        /\ file' = [file EXCEPT ![f].count = @ + 1]
        /\ op = "fault" => file[f].maps > 0
    BY <1>1, EnterEffect DEF FileInv
  <2>2. \A g \in Files : file'[g].vm_ops = file[g].vm_ops /\ file'[g].maps = file[g].maps
    BY <1>0, <2>1 DEF FileRec
  <2>3. th'[t].f \in Files /\ VmOK(th'[t], file'[th'[t].f])
    BY <2>1, <2>2 DEF VmOK
  <2> QED BY <2>1, <2>2, <2>3, VmKept
<1>2. ASSUME NEW t \in Threads, NEW f \in Files, Close(t, f) PROVE VmInv'
  <2>1. /\ th' = [th EXCEPT ![t] = [Idle EXCEPT !.op = "close", !.pc = "in", !.f = f]]
        /\ file' = [file EXCEPT ![f].fd = FALSE]
    BY <1>2 DEF Close
  <2>2. th'[t].op = "close" /\ \A u \in Threads \ {t} : SameCall(u)
    BY <1>0, <2>1 DEF Idle, SameCall
  <2>3. \A g \in Files : file'[g].vm_ops = file[g].vm_ops /\ file'[g].maps = file[g].maps
    BY <1>0, <2>1 DEF FileRec
  <2> QED BY <2>2, <2>3, VmKept
<1>a. ASSUME NEW t \in Threads, EnterLink(t) \/ trfs_link(t) PROVE VmInv'
  <2>1. /\ file' = file /\ th'[t].op \notin {"mmap", "fault"}
        /\ \A u \in Threads \ {t} : SameCall(u)
    BY <1>a, LinkAside DEF FileInv
  <2> QED BY <2>1, VmKept
<1>3. ASSUME NEW t \in Threads, Call(t) PROVE VmInv'
  <2>1. /\ {"forward", "write", "setattr", "fault", "mmap"} \cup Moving \cup Iter
             \subseteq Ops \ {"none", "link"}
        /\ Dirs \subseteq Files
    BY Bounds DEF Ops, Moving, Iter
  <2> QED BY <1>1, <1>2, <1>3, <1>a, <2>1 DEF Call
<1>4. ASSUME NEW t \in Threads, Complete(t) PROVE VmInv'
  <2>1. PICK f \in Files : \/ file' = [file EXCEPT ![f].count = @ - 1]
                           \/ \E c \in Nat : file' = [file EXCEPT ![f].lcount = c]
    BY <1>4, CompleteEffect
  <2>2. \A g \in Files : file'[g].vm_ops = file[g].vm_ops /\ file'[g].maps = file[g].maps
    BY <1>0, <2>1 DEF FileRec
  <2>3. \A u \in Threads : SameCall(u)
    BY <1>4, CompleteEffect
  <2> QED BY <2>2, <2>3, VmKept
<1>5. ASSUME NEW f \in Files, trfs_open(f) \/ trfs_file_release(f) \/ Munmap(f) PROVE VmInv'
  <2>1. /\ \A g \in Files : file[g].maps > 0 => file[g].vm_ops
        /\ \A u \in Threads : VmOK(th[u], file[th[u].f])
    BY VmParts DEF FileInv
  <2>2. th' = th /\ \A g \in Files \ {f} : file'[g] = file[g]
    BY <1>0, <1>5 DEF trfs_open, trfs_file_release, Munmap
  <2>3. file'[f].maps > 0 => file'[f].vm_ops
    <3>1. CASE trfs_open(f) \/ trfs_file_release(f)
      <4>1. file'[f].maps = 0
        <5>1. \/ file' = [file EXCEPT ![f] =
                            [Closed EXCEPT !.open = TRUE, !.fd = TRUE, !.info = TRUE,
                                           !.lower = TRUE, !.count = 1, !.lcount = 1]]
              \/ file' = [file EXCEPT ![f] = Closed]
              \/ \E c : file' = [file EXCEPT ![f] = [Closed EXCEPT !.lcount = c]]
          BY <3>1 DEF trfs_open, trfs_file_release
        <5>2. /\ Closed.maps = 0 /\ \A c : [Closed EXCEPT !.lcount = c].maps = 0
              /\ [Closed EXCEPT !.open = TRUE, !.fd = TRUE, !.info = TRUE,
                                !.lower = TRUE, !.count = 1, !.lcount = 1].maps = 0
          BY DEF Closed
        <5>3. \A r : file' = [file EXCEPT ![f] = r] => file'[f] = r
          BY <1>0
        <5> QED BY <5>1, <5>2, <5>3
      <4> QED BY <4>1
    <3>2. CASE Munmap(f)
      <4>1. file' = [file EXCEPT ![f].maps = @ - 1, ![f].count = @ - 1] /\ file[f].maps > 0
        BY <3>2 DEF Munmap
      <4>2. file'[f].vm_ops = file[f].vm_ops
        BY <1>0, <4>1 DEF FileRec
      <4> QED BY <2>1, <4>1, <4>2
    <3> QED BY <1>5, <3>1, <3>2
  <2>4. ASSUME NEW u \in Threads, th[u].f = f PROVE VmOK(th[u], file'[f])
    <3>1. CASE trfs_open(f)
      BY <2>4, <3>1 DEF trfs_open, Unused
    <3>2. CASE trfs_file_release(f)
      <4>1. u \notin Calls(f)
        BY <3>2, NotCounted DEF trfs_file_release, FileInv
      <4>2. th[u].aio
        BY <2>4, <4>1 DEF Calls
      <4>3. th[u].op \in Iter
        BY <4>2, TypeParts DEF FileInv, ThreadsOK, ThreadOK
      <4> QED BY <4>3 DEF VmOK, Iter
    <3>3. CASE Munmap(f)
      <4>1. /\ file' = [file EXCEPT ![f].maps = @ - 1, ![f].count = @ - 1]
            /\ th[u].op # "fault"
        BY <2>4, <3>3 DEF Munmap
      <4>2. file'[f].vm_ops = file[f].vm_ops
        BY <1>0, <4>1 DEF FileRec
      <4> QED BY <2>1, <2>4, <4>1, <4>2 DEF VmOK
    <3> QED BY <1>5, <3>1, <3>2, <3>3
  <2>5. ASSUME NEW u \in Threads PROVE VmOK(th'[u], file'[th'[u].f])
    <3>1. CASE th[u].f = f
      BY <2>2, <2>4, <3>1
    <3>2. CASE th[u].f # f /\ th[u].f # NoFile
      <4>1. th[u].f \in Files \ {f}
        BY <3>2, HasFile DEF FileInv
      <4> QED BY <2>1, <2>2, <4>1
    <3>3. CASE th[u].f = NoFile
      <4>1. th'[u].op \in {"none", "link"}
        BY <2>2, <3>3, TypeParts DEF FileInv, ThreadsOK, ThreadOK
      <4> QED BY <4>1 DEF VmOK
    <3> QED BY <3>1, <3>2, <3>3
  <2> QED BY <2>1, <2>2, <2>3, <2>5, VmParts
<1>6. CASE UNCHANGED vars
  BY <1>6 DEF vars, FileInv, VmInv, MappedHasVmOps, At, F
<1> QED BY <1>a, <1>3, <1>4, <1>5, <1>6, StepVm DEF Next

-----------------------------------------------------------------------------
(* Requests.                                                                 *)

(* A thread that does nothing while the set of early completions may grow.   *)
LEMMA IocbKept ==
  ASSUME NEW u \in Threads, IocbOK(u), SameCall(u), kiocb'[u] = kiocb[u], early \subseteq early'
  PROVE  IocbOK(u)'
<1>1. \A g : Early(g) => Early(g)'
  BY DEF Early
<1> QED BY <1>1 DEF IocbOK, SameCall, Early

LEMMA StepIocb ==
  ASSUME FileInv, NEW t \in Threads, Step(t)
  PROVE  IocbInv'
<1> DEFINE r == th'[t]
           k == kiocb'[t]
<1>0. th[t].f # NoFile
  BY StepInside DEF FileInv
<1>1. /\ th[t] \in Thread /\ th[t].f \in Files /\ ThreadOK(t) /\ IocbOK(t)
      /\ th \in [Threads -> Thread] /\ kiocb \in [Threads -> Iocb] /\ NoFile \notin Files
      /\ \A u \in Threads : IocbOK(u)
  BY <1>0, HasFile, TypeParts, Bounds DEF FileInv, ThreadsOK, IocbsOK, IocbInv
<1>2. early' = early /\ \A u \in Threads \ {t} : SameCall(u) /\ kiocb'[u] = kiocb[u]
  <2>1. CASE IterReturn(t)
    <3>1. /\ th' = [th EXCEPT ![t] = Idle] /\ early' = early
          /\ kiocb' = kiocb \/ kiocb' = [kiocb EXCEPT ![t] = NoIocb]
      BY <2>1, IterReturnEffect DEF IterReturn
    <3> QED BY <1>1, <3>1 DEF SameCall
  <2>2. CASE Stops(t)
    BY <1>1, <2>2 DEF Stops, Oops, Goto, SameCall
  <2>3. CASE Ends(t)
    BY <1>1, <2>3 DEF Ends, SameCall
  <2>4. CASE Keeps(t)
    BY <2>4 DEF Keeps, SameCall
  <2>5. CASE Gets(t) \/ Puts(t)
    BY <2>5 DEF Gets, Puts, SameCall
  <2> QED BY <2>1, <2>2, <2>3, <2>4, <2>5, StepKinds
<1>3. \A u \in Threads \ {t} : IocbOK(u)'
  BY <1>1, <1>2, IocbKept
<1>4. \A g : Early(g)' <=> Early(g)
  BY <1>2 DEF Early
<1>5. ASSUME r.f = th[t].f \/ (~r.aio /\ r.pc # "oops"),
             k.f = NoFile <=> k.st \in {"none", "gone"},
             k.st \in {"submitted", "gone"} => r.aio,
             r.aio => /\ k.f \in {NoFile, th[t].f}
                      /\ k.f = NoFile => Early(th[t].f)
                      /\ k.st = "none" => r.pc = "oops"
                      /\ r.pc = "lower" => k.st = "submitted"
                      /\ k.f # NoFile => (k.filp = "lower" <=> r.pc \in {"lower", "restore"}),
             ~r.aio => k.filp = "upper",
             r.pc = "oops" => Early(th[t].f)
      PROVE  IocbOK(t)'
  BY <1>4, <1>5 DEF IocbOK, Early
<1>6. CASE Keeps(t)
  <2>1. CASE ~th[t].aio
    <3>1. /\ ~r.aio /\ k = kiocb[t] /\ r.pc # "oops" /\ r.f = th[t].f
      BY <2>1, <1>6 DEF Keeps
    <3>2. IocbOK(t)'
      BY <1>1, <1>5, <2>1, <3>1 DEF IocbOK
    <3> QED BY <1>3, <3>2 DEF IocbInv
  <2>2. CASE th[t].aio /\ {th[t].pc, r.pc} \subseteq {"copy", "store", "out"} /\ kiocb' = kiocb
    <3>1. r.aio /\ k = kiocb[t] /\ r.f = th[t].f
      BY <2>2, <1>6 DEF Keeps
    <3>2. IocbOK(t)'
      BY <1>1, <1>5, <2>2, <3>1 DEF IocbOK
    <3> QED BY <1>3, <3>2 DEF IocbInv
  <2>3. CASE th[t].aio /\ IterLower(t)
    <3>1. /\ r.aio /\ r.f = th[t].f /\ r.pc = "restore" /\ th[t].pc = "lower"
      BY <1>1, <1>6, <2>3 DEF Keeps, IterLower, Thread
    <3>2. \/ kiocb' = kiocb
          \/ \E n : kiocb' = [kiocb EXCEPT ![t].st = "queued", ![t].n = n]
      BY <2>3 DEF IterLower
    <3>3. k.f = kiocb[t].f /\ k.filp = kiocb[t].filp /\ k.st \in {kiocb[t].st, "queued"}
      BY <1>1, <3>2 DEF Iocb
    <3>4. /\ kiocb[t].st = "submitted" /\ kiocb[t].f = th[t].f /\ kiocb[t].filp = "lower"
      BY <1>1, <2>3, <3>1 DEF IocbOK
    <3>5. IocbOK(t)'
      BY <1>1, <1>5, <3>1, <3>3, <3>4
    <3> QED BY <1>3, <3>5 DEF IocbInv
  <2>4. CASE th[t].aio /\ IterRestore(t)
    <3>1. /\ r.aio /\ r.f = th[t].f /\ r.pc = "put" /\ th[t].pc = "restore"
          /\ kiocb' = [kiocb EXCEPT ![t].filp = "upper"]
      BY <1>1, <1>6, <2>4 DEF Keeps, IterRestore, Thread, Goto
    <3>2. k.f = kiocb[t].f /\ k.filp = "upper" /\ k.st = kiocb[t].st
      BY <1>1, <3>1 DEF Iocb
    <3>3. IocbOK(t)'
      BY <1>1, <1>5, <2>4, <3>1, <3>2 DEF IocbOK
    <3> QED BY <1>3, <3>3 DEF IocbInv
  <2> QED BY <1>6, <2>1, <2>2, <2>3, <2>4 DEF Keeps
<1>7. CASE Ends(t)
  <2>1. r = Idle /\ k = kiocb[t] /\ ~th[t].aio
    BY <1>1, <1>7 DEF Ends
  <2>2. ~r.aio /\ r.pc # "oops"
    BY <2>1 DEF Idle
  <2>3. IocbOK(t)'
    BY <1>1, <1>5, <2>1, <2>2 DEF IocbOK
  <2> QED BY <1>3, <2>3 DEF IocbInv
<1>8. CASE Gets(t)
  <2>1. /\ ~th[t].aio /\ r.f = th[t].f /\ r.pc = "lower"
        /\ \/ ~r.aio /\ k = kiocb[t]
           \/ r.aio /\ k.st = "submitted" /\ k.f = th[t].f /\ k.filp = "lower"
    BY <1>8 DEF Gets
  <2>2. IocbOK(t)'
    BY <1>1, <1>5, <2>1 DEF IocbOK
  <2> QED BY <1>3, <2>2 DEF IocbInv
<1>9. CASE Puts(t)
  <2>1. /\ r.aio = th[t].aio /\ r.f = th[t].f /\ r.pc \in {"copy", "out"} /\ th[t].pc = "put"
        /\ k = kiocb[t]
    BY <1>9 DEF Puts
  <2>2. IocbOK(t)'
    BY <1>1, <1>5, <2>1 DEF IocbOK
  <2> QED BY <1>3, <2>2 DEF IocbInv
<1>10. CASE Stops(t)
  <2>1. /\ r.aio = th[t].aio /\ r.f = th[t].f /\ r.pc = "oops" /\ k = kiocb[t]
        /\ Early(th[t].f)
        /\ th[t].aio => th[t].pc \notin {"lower", "restore"}
    BY <1>1, <1>10 DEF Stops, Oops, Goto, Thread
  <2>2. IocbOK(t)'
    BY <1>1, <1>5, <2>1 DEF IocbOK
  <2> QED BY <1>3, <2>2 DEF IocbInv
<1>11. CASE IterReturn(t)
  <2>1. r = Idle /\ \/ k = kiocb[t] /\ (th[t].aio => kiocb[t].st = "queued")
                    \/ k = NoIocb
    BY <1>1, <1>11, IterReturnEffect
  <2>2. ~r.aio /\ r.pc # "oops" /\ th[t].pc = "out"
    BY <1>11, <2>1 DEF Idle, IterReturn
  <2>3. k.f = NoFile <=> k.st \in {"none", "gone"}
    BY <1>1, <2>1 DEF IocbOK, NoIocb
  <2>4. k.st \notin {"submitted", "gone"} /\ k.filp = "upper"
    BY <1>1, <2>1, <2>2 DEF IocbOK, NoIocb, Iocb
  <2>5. IocbOK(t)'
    BY <1>5, <2>2, <2>3, <2>4
  <2> QED BY <1>3, <2>5 DEF IocbInv
<1> QED BY <1>6, <1>7, <1>8, <1>9, <1>10, <1>11, StepKinds

LEMMA NextIocb ==
  ASSUME FileInv, [Next]_vars
  PROVE  IocbInv'
<1>0. /\ th \in [Threads -> Thread] /\ kiocb \in [Threads -> Iocb]
      /\ \A u \in Threads : IocbOK(u)
  BY TypeParts DEF FileInv, ThreadsOK, IocbsOK, IocbInv
<1>1. ASSUME NEW t \in Threads, ~th[t].aio, ~th'[t].aio, th'[t].pc # "oops",
             \A u \in Threads \ {t} : SameCall(u), UNCHANGED <<kiocb, early>>
      PROVE  IocbInv'
  <2>1. IocbOK(t)'
    BY <1>0, <1>1 DEF IocbOK
  <2>2. \A u \in Threads \ {t} : IocbOK(u)'
    BY <1>0, <1>1, IocbKept
  <2> QED BY <2>1, <2>2 DEF IocbInv
<1>2. ASSUME NEW t \in Threads, th[t].pc = "idle" PROVE ~th[t].aio
  BY <1>2, TypeParts DEF FileInv, ThreadsOK, ThreadOK, Late
<1>3. ASSUME NEW t \in Threads, NEW f \in Files, NEW op \in Ops \ {"none", "link"}, Enter(t, f, op)
      PROVE  IocbInv'
  <2>1. /\ \A u \in Threads \ {t} : SameCall(u)
        /\ th[t].pc = "idle" /\ th'[t].pc = "in" /\ ~th'[t].aio
        /\ UNCHANGED <<kiocb, early>>
    BY <1>3, EnterEffect DEF FileInv
  <2> QED BY <1>1, <1>2, <2>1
<1>4. ASSUME NEW t \in Threads, NEW f \in Files, Close(t, f) PROVE IocbInv'
  <2>1. /\ th[t].pc = "idle" /\ UNCHANGED <<kiocb, early>>
        /\ th' = [th EXCEPT ![t] = [Idle EXCEPT !.op = "close", !.pc = "in", !.f = f]]
    BY <1>4 DEF Close
  <2>2. th'[t].pc = "in" /\ ~th'[t].aio /\ \A u \in Threads \ {t} : SameCall(u)
    BY <1>0, <2>1 DEF Idle, SameCall
  <2> QED BY <1>1, <1>2, <2>1, <2>2
<1>a. ASSUME NEW t \in Threads, EnterLink(t) \/ trfs_link(t) PROVE IocbInv'
  BY <1>1, <1>a, LinkAside DEF FileInv
<1>5. ASSUME NEW t \in Threads, Call(t) PROVE IocbInv'
  <2>1. /\ {"forward", "write", "setattr", "fault", "mmap"} \cup Moving \cup Iter
             \subseteq Ops \ {"none", "link"}
        /\ Dirs \subseteq Files
    BY Bounds DEF Ops, Moving, Iter
  <2> QED BY <1>3, <1>4, <1>5, <1>a, <2>1 DEF Call
<1>6. ASSUME NEW t \in Threads, Complete(t) PROVE IocbInv'
  <2> DEFINE inside == th[t].aio /\ th[t].pc # "oops"
  <2>1. /\ inside => th[t].f = kiocb[t].f /\ th[t].pc \in Late
        /\ \A u \in Threads : SameCall(u)
        /\ (early' = early /\ ~inside) \/ early' = early \cup {<<kiocb[t].f, th[t].pc>>}
    BY <1>6, CompleteEffect
  <2>2. PICK k \in Iocb : /\ kiocb' = [kiocb EXCEPT ![t] = k]
                          /\ k.f = NoFile /\ k.filp = "upper"
                          /\ k.st = IF inside THEN "gone" ELSE "none"
    BY <1>6, CompleteEffect
  <2>3. early \subseteq early' /\ kiocb'[t] = k /\ \A u \in Threads \ {t} : kiocb'[u] = kiocb[u]
    BY <1>0, <2>1, <2>2
  <2>4. \A u \in Threads \ {t} : IocbOK(u)'
    BY <1>0, <2>1, <2>3, IocbKept
  <2>5. inside => \E label \in Late : <<th[t].f, label>> \in early'
    BY <2>1
  <2>6. th[t].aio => \E label \in Late : <<th[t].f, label>> \in early'
    BY <1>0, <2>3, <2>5 DEF IocbOK, Early
  <2>7. th[t].pc \in Late => th[t].pc # "lower"
    BY DEF Late
  <2>8. /\ th'[t].pc = th[t].pc /\ th'[t].f = th[t].f /\ th'[t].aio = th[t].aio
    BY <2>1 DEF SameCall
  <2>9. th[t].pc = "oops" => \E label \in Late : <<th[t].f, label>> \in early'
    BY <1>0, <2>3 DEF IocbOK, Early
  <2>10. IocbOK(t)'
    BY <2>1, <2>2, <2>3, <2>6, <2>7, <2>8, <2>9 DEF IocbOK, Early
  <2> QED BY <2>4, <2>10 DEF IocbInv
<1>7. ASSUME UNCHANGED <<th, kiocb, early>> PROVE IocbInv'
  <2>1. \A u \in Threads : SameCall(u)
    BY <1>7 DEF SameCall
  <2> QED BY <1>0, <1>7, <2>1, IocbKept DEF IocbInv
<1>8. ASSUME NEW f \in Files, trfs_open(f) \/ trfs_file_release(f) \/ Munmap(f) PROVE IocbInv'
  BY <1>7, <1>8 DEF trfs_open, trfs_file_release, Munmap
<1>9. CASE UNCHANGED vars
  BY <1>7, <1>9 DEF vars
<1> QED BY <1>a, <1>5, <1>6, <1>8, <1>9, StepIocb DEF Next

-----------------------------------------------------------------------------
(* The inductive invariant.                                                  *)

(* Nobody refers to a file before the first open.                            *)
LEMMA InitFileInv == Init => FileInv
<1> SUFFICES ASSUME Init PROVE FileInv
  OBVIOUS
<1>1. /\ \A t \in Threads : th[t] = Idle /\ kiocb[t] = NoIocb
      /\ \A f \in Files : file[f] = Closed
      /\ early = {} /\ NoFile \notin Files
  BY Bounds DEF Init
<1>2. Idle \in Thread
  BY DEF Idle, Thread, Ops, Labels
<1>3. ThreadsOK
  BY <1>1, <1>2 DEF Init, ThreadsOK, ThreadOK, Idle, Moving
<1>4. FilesOK /\ SizesOK /\ EarlyOK /\ ExcuseOK /\ IocbsOK
  <2>1. FilesOK /\ IocbsOK
    BY ClosedType, NoIocbType DEF Init, FilesOK, IocbsOK
  <2>2. SizesOK
    <3>1. usize = 0 /\ lsize = 0 /\ size_excuse = FALSE
      BY DEF Init
    <3>2. 0 \in 0 .. MaxSize
      BY Bounds
    <3> QED BY <3>1, <3>2, Zenon DEF SizesOK
  <2>3. EarlyOK /\ ExcuseOK
    BY DEF Init, EarlyOK, ExcuseOK
  <2> QED BY <2>1, <2>2, <2>3
<1>5. IocbInv
  BY <1>1 DEF IocbInv, IocbOK, Idle, NoIocb
<1>6. ASSUME NEW f \in Files
      PROVE  /\ Calls(f) = {} /\ Requests(f) = {} /\ Holding(f) = {} /\ Mapping(f) = {}
             /\ ~PutLower(f)
  BY <1>1 DEF Calls, Requests, Holding, Mapping, PutLower, Idle, NoIocb
<1>7. Cardinality({}) = 0
  BY FS_EmptySet
<1>8. RefInv
  BY <1>1, <1>6, <1>7 DEF RefInv, One, Closed
<1>9. LowerInv
  BY <1>1, <1>6, <1>7 DEF LowerInv, One, Closed
<1>10. MapsInv
  BY <1>1, <1>6, <1>7, Bounds DEF MapsInv, Closed
<1>11. VmInv
  BY <1>1 DEF VmInv, MappedHasVmOps, At, Closed, Idle
<1> QED BY <1>3, <1>4, <1>5, <1>8, <1>9, <1>10, <1>11, TypeParts DEF FileInv

LEMMA FileInvariant == Spec => []FileInv
<1>1. FileInv /\ [Next]_vars => FileInv'
  BY NextType, NextIocb, NextCounts, NextVm DEF FileInv
<1> QED BY <1>1, InitFileInv, PTL DEF Spec

-----------------------------------------------------------------------------
(* Whatever the calls of any number of threads do, the fields of the open    *)
(* files, the sizes and what is remembered of completions keep their types:  *)
(* the counts never go below zero, the mappings never above their bound.     *)
THEOREM FileTypeCorrect == Spec => []TypeOK
<1>1. FileInv => TypeOK
  BY DEF FileInv, TypeInv
<1> QED BY <1>1, FileInvariant, PTL

(* For any number of files and threads the lower file of an open file is     *)
(* counted once for the open file and once for every read_iter and           *)
(* write_iter between get_file and fput, whichever of them fail, and a file  *)
(* that is released leaves neither lower file nor private data, as long as   *)
(* no request of the file completes before its call has restored ki_filp.    *)
THEOREM LowerFileCounted == Spec => []LowerFileBalanced
<1>1. FileInv => LowerFileBalanced
  BY DEF FileInv, LowerInv, LowerFileBalanced, Holding, One
<1> QED BY <1>1, FileInvariant, PTL

(* For any number of files and threads trfs_file_release runs under no call, *)
(* mapping or queued request of the file: they all find the lower file,      *)
(* unless a request of the file completed before its call had returned.      *)
THEOREM LowerFileStays == Spec => []LowerFileInUse
<1>1. ASSUME FileInv PROVE LowerFileInUse
  <2>1. ASSUME NEW f \in Files,
               \/ file[f].maps > 0
               \/ \E t \in Threads : th[t].f = f
               \/ \E t \in Threads : kiocb[t].st = "queued" /\ kiocb[t].f = f
        PROVE  Early(f) \/ LowerFile(f)
    BY <1>1, <2>1, InUse
  <2> QED BY <2>1 DEF LowerFileInUse, Early, Late
<1> QED BY <1>1, FileInvariant, PTL

(* The BUG_ON of the fault handlers never fires: however many trfs_mmap and  *)
(* munmap calls interleave, a mapped file has its lower vm_ops.              *)
THEOREM MappedSaved == Spec => []MappedHasVmOps
<1>1. FileInv => MappedHasVmOps
  BY DEF FileInv, VmInv
<1> QED BY <1>1, FileInvariant, PTL

(* A call uses a file, its private data or its lower file after the end only *)
(* on a file one of whose requests completed before its call had returned.   *)
THEOREM OopsOnlyWhenEarly == Spec => []NoOops
<1>1. ASSUME FileInv, NEW t \in Threads, th[t].pc = "oops"
      PROVE  \E e \in early : e[1] = th[t].f
  <2>1. Early(th[t].f)
    BY <1>1 DEF FileInv, IocbInv, IocbOK
  <2> QED BY <2>1 DEF Early
<1>2. FileInv => NoOops
  BY <1>1 DEF NoOops
<1> QED BY <1>2, FileInvariant, PTL
=============================================================================
