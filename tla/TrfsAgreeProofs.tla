-------------------------- MODULE TrfsAgreeProofs ---------------------------
(***************************************************************************)
(* Theorems about what TrfsFile keeps on both levels: the size of the      *)
(* inode and the position of a directory.  The argument follows the one    *)
(* call that was alone: SizeInv and PosInv say what it has done so far and *)
(* that nobody else touches the two values meanwhile.                      *)
(***************************************************************************)
EXTENDS TrfsFileProofs

(* What a call keeps for itself: it has not failed before its lower call,    *)
(* and the request of a read is not one of a write.                          *)
CallOK(t) ==
  /\ th[t].pc \in {"in", "lower"} => th[t].ok
  /\ th[t].aio /\ th[t].op = "read_iter" => ~kiocb[t].write

CallInv == \A t \in Threads : CallOK(t)

SizeEven == size_excuse \/ usize = lsize
QueuedWrite(t) == kiocb[t].st = "queued" /\ kiocb[t].write

(* How far a call that changes the size has come, if it is alone.            *)
SizeOK(t) ==
  th[t].op \in Sizing /\ th[t].alone =>
    /\ \A u \in Threads \ {t} : th[u].op \notin Sizing /\ ~QueuedWrite(u)
    /\ QueuedWrite(t) => th[t].aio
    /\ th[t].pc \in {"in", "lower", "saved"} => SizeEven
    /\ th[t].pc \in {"restore", "put", "out"} /\ ~th[t].ok => SizeEven
    /\ th[t].pc = "out" /\ th[t].ok => usize = lsize
    /\ th[t].pc = "store" => th[t].n = lsize
    /\ th[t].pc \in {"notify", "saved"} => th[t].n = usize

SizeInv == SizeAgrees /\ \A t \in Threads : SizeOK(t)

PosEven(d) == d \in pos_excuse \/ file[d].pos = file[d].lpos

(* How far a call that moves a directory has come, if it is alone.           *)
PosOK(t) ==
  th[t].op \in Moving /\ th[t].alone =>
    /\ \A u \in Threads \ {t} : ~(th[u].op \in Moving /\ th[u].f = th[t].f)
    /\ th[t].pc = "in" => PosEven(th[t].f)
    /\ th[t].op = "llseek" /\ th[t].pc = "set" => F(t).pos = th[t].n
    /\ th[t].op = "llseek" /\ th[t].pc = "cur" =>
         \/ th[t].f \in pos_excuse
         \/ F(t).pos = F(t).lpos + th[t].n
    /\ th[t].op = "readdir" /\ th[t].pc \in {"set", "back"} =>
         \/ th[t].n = F(t).lpos
         \/ ~th[t].ok /\ th[t].f \in pos_excuse

PosInv == PosAgrees /\ \A t \in Threads : PosOK(t)

AgreeInv == FileInv /\ CallInv /\ SizeInv /\ PosInv

-----------------------------------------------------------------------------
(* What a step of a call leaves alone.                                       *)

(* The call goes on, or it ends and settles what has to be excused.          *)
GoesOn(t) ==
  /\ th'[t].op = th[t].op /\ th'[t].f = th[t].f /\ th'[t].alone = th[t].alone
  /\ UNCHANGED <<size_excuse, pos_excuse>>

Settles(t) == th'[t] = Idle /\ \E sets, breaks \in BOOLEAN : Excuse(t, sets, breaks)

SamePos(g) == file'[g].pos = file[g].pos /\ file'[g].lpos = file[g].lpos

(* The sizes are left alone by a call that does not change sizes, and the    *)
(* positions of all directories but its own by every call.                   *)
Minds(t) ==
  /\ \A u \in Threads \ {t} : th'[u] = th[u] /\ kiocb'[u] = kiocb[u]
  /\ GoesOn(t) \/ Settles(t)
  /\ th[t].op \notin Sizing =>
       UNCHANGED <<usize, lsize>> /\ (QueuedWrite(t)' <=> QueuedWrite(t))
  /\ \A g \in Files : th[t].op \notin Moving \/ g # th[t].f => SamePos(g)
  /\ CallOK(t)'

(* A call that stops.                                                        *)
LEMMA OopsMinds ==
  ASSUME TypeInv, NEW t \in Threads, th[t].f # NoFile, CallOK(t), Oops(t)
  PROVE  Minds(t)
<1>1. th' = [th EXCEPT ![t].pc = "oops"] /\ th \in [Threads -> Thread]
  BY TypeParts DEF Oops, Goto, ThreadsOK
<1>2. /\ th'[t].op = th[t].op /\ th'[t].f = th[t].f /\ th'[t].alone = th[t].alone
      /\ th'[t].aio = th[t].aio /\ th'[t].pc = "oops"
      /\ \A u \in Threads \ {t} : th'[u] = th[u]
  BY <1>1 DEF Thread
<1>3. UNCHANGED <<file, usize, lsize, kiocb, size_excuse, pos_excuse>>
  BY DEF Oops
<1> QED BY <1>2, <1>3 DEF Minds, GoesOn, SamePos, QueuedWrite, CallOK

(* A call that returns.                                                      *)
LEMMA ReturnMinds ==
  ASSUME TypeInv, NEW t \in Threads, th[t].f # NoFile,
         NEW r \in FileRec, Return(t, r),
         th[t].op \notin Moving => r.pos = F(t).pos /\ r.lpos = F(t).lpos,
         th[t].op \notin Sizing => UNCHANGED <<usize, lsize>>,
         NEW sets \in BOOLEAN, NEW breaks \in BOOLEAN, Excuse(t, sets, breaks),
         kiocb' = kiocb
  PROVE  Minds(t)
<1>1. /\ th \in [Threads -> Thread] /\ file \in [Files -> FileRec] /\ th[t].f \in Files
  BY TypeParts, HasFile DEF ThreadsOK, FilesOK
<1>2. th'[t] = Idle /\ \A u \in Threads \ {t} : th'[u] = th[u]
  BY <1>1 DEF Return
<1>3. file' = [file EXCEPT ![th[t].f] = [r EXCEPT !.count = r.count - 1]]
  BY DEF Return
<1>4. /\ \A g \in Files \ {th[t].f} : file'[g] = file[g]
      /\ file'[th[t].f].pos = r.pos /\ file'[th[t].f].lpos = r.lpos
  BY <1>1, <1>3 DEF FileRec
<1>5. \A g \in Files : th[t].op \notin Moving \/ g # th[t].f => SamePos(g)
  BY <1>4 DEF SamePos, F
<1>6. CallOK(t)'
  BY <1>2 DEF CallOK, Idle
<1>7. Settles(t)
  BY <1>2 DEF Settles
<1>8. QueuedWrite(t)' <=> QueuedWrite(t)
  BY DEF QueuedWrite
<1> QED BY <1>2, <1>5, <1>6, <1>7, <1>8 DEF Minds

(* A call that is turned down.                                               *)
LEMMA RefusedMinds ==
  ASSUME TypeInv, NEW t \in Threads, th[t].f # NoFile, Refused(t)
  PROVE  Minds(t)
<1>1. /\ F(t) \in FileRec /\ Return(t, F(t)) /\ Excuse(t, FALSE, FALSE)
      /\ UNCHANGED <<usize, lsize, kiocb>>
  BY HasFile DEF Refused
<1> QED BY <1>1, ReturnMinds

(* A call that goes on with another record.                                  *)
LEMMA TurnMinds ==
  ASSUME TypeInv, NEW t \in Threads, th[t].f # NoFile,
         NEW r, th' = [th EXCEPT ![t] = r],
         r.op = th[t].op, r.f = th[t].f, r.alone = th[t].alone,
         r.pc \in {"in", "lower"} => r.ok,
         r.aio /\ r.op = "read_iter" => ~kiocb'[t].write,
         \A u \in Threads \ {t} : kiocb'[u] = kiocb[u],
         th[t].op \notin Sizing =>
           UNCHANGED <<usize, lsize>> /\ (QueuedWrite(t)' <=> QueuedWrite(t)),
         \A g \in Files : th[t].op \notin Moving \/ g # th[t].f => SamePos(g),
         UNCHANGED <<size_excuse, pos_excuse>>
  PROVE  Minds(t)
<1>1. th'[t] = r /\ \A u \in Threads \ {t} : th'[u] = th[u]
  BY TypeParts DEF ThreadsOK
<1> QED BY <1>1 DEF Minds, GoesOn, CallOK

(* A position that changes is that of the directory of the call.             *)
LEMMA PosOnly ==
  ASSUME TypeInv, NEW t \in Threads, th[t].f # NoFile, NEW p \in 0 .. MaxPos,
         file' = [file EXCEPT ![th[t].f].pos = p] \/ file' = [file EXCEPT ![th[t].f].lpos = p]
  PROVE  /\ \A g \in Files : g # th[t].f => SamePos(g)
         /\ \/ file'[th[t].f].pos = p /\ file'[th[t].f].lpos = F(t).lpos
            \/ file'[th[t].f].lpos = p /\ file'[th[t].f].pos = F(t).pos
BY TypeParts, HasFile DEF FilesOK, FileRec, SamePos, F

(* So are the counts.                                                        *)
LEMMA CountOnly ==
  ASSUME TypeInv, NEW f \in Files, NEW c,
         file' = [file EXCEPT ![f].count = c] \/ file' = [file EXCEPT ![f].lcount = c]
  PROVE  \A g \in Files : SamePos(g)
BY TypeParts DEF FilesOK, FileRec, SamePos

(* Every step of a call keeps to that.                                       *)
LEMMA StepMinds ==
  ASSUME FileInv, CallInv, NEW t \in Threads, Step(t)
  PROVE  Minds(t)
<1>0. TypeInv /\ CallOK(t) /\ th[t].f # NoFile /\ th[t].f \in Files
  BY StepInside, HasFile DEF FileInv, CallInv
<1>1. /\ th \in [Threads -> Thread] /\ kiocb \in [Threads -> Iocb] /\ th[t] \in Thread
      /\ F(t) \in FileRec /\ ThreadOK(t) /\ lsize \in 0 .. MaxSize
  BY <1>0, TypeParts, HasFile DEF ThreadsOK, IocbsOK, SizesOK
<1>2. ASSUME Oops(t) PROVE Minds(t)
  BY <1>0, <1>2, OopsMinds
<1>3. ASSUME Refused(t) PROVE Minds(t)
  BY <1>0, <1>3, RefusedMinds
<1>4. ASSUME UseLower(t) PROVE Minds(t)
  BY <1>2, <1>3, <1>4 DEF UseLower
<1>5. ASSUME NEW r, th' = [th EXCEPT ![t] = r],
             r.op = th[t].op, r.f = th[t].f, r.alone = th[t].alone, r.aio = th[t].aio,
             r.pc \notin {"in", "lower"}, UNCHANGED <<kiocb, size_excuse, pos_excuse>>,
             th[t].op \notin Sizing => UNCHANGED <<usize, lsize>>,
             \A g \in Files : th[t].op \notin Moving \/ g # th[t].f => SamePos(g)
      PROVE  Minds(t)
  BY <1>0, <1>5, TurnMinds DEF CallOK, QueuedWrite
<1>6. ASSUME file' = file PROVE \A g \in Files : SamePos(g)
  BY <1>6 DEF SamePos
<1>7. CASE trfs_flush(t)
  BY <1>2, <1>3, <1>7 DEF trfs_flush
<1>8. CASE trfs_fsync(t) \/ trfs_fasync(t) \/ trfs_unlocked_ioctl(t) \/ trfs_compat_ioctl(t)
  BY <1>3, <1>4, <1>8 DEF trfs_fsync, trfs_fasync, trfs_unlocked_ioctl, trfs_compat_ioctl
<1>9. CASE trfs_fault(t) \/ trfs_page_mkwrite(t)
  BY <1>2, <1>3, <1>4, <1>9 DEF trfs_fault, trfs_page_mkwrite
<1>10. CASE LowerWrite(t)
  <2>1. ASSUME Goto(t, "copy"), UNCHANGED <<file, kiocb, size_excuse, pos_excuse>>
        PROVE  Minds(t)
    <3> DEFINE r == [th[t] EXCEPT !.pc = "copy"]
    <3>1. th' = [th EXCEPT ![t] = r] /\ th[t].op = "write"
      BY <1>10, <2>1 DEF Goto, LowerWrite, At
    <3>2. /\ r.op = th[t].op /\ r.f = th[t].f /\ r.alone = th[t].alone /\ r.aio = th[t].aio
          /\ r.pc = "copy"
      BY <1>1 DEF Thread
    <3> HIDE DEF r
    <3> QED BY <1>5, <1>6, <2>1, <3>1, <3>2 DEF Sizing
  <2> QED BY <1>2, <1>3, <1>10, <2>1 DEF LowerWrite
<1>11. CASE CopyRead(t)
  <2>1. ASSUME th' = [th EXCEPT ![t].n = lsize, ![t].pc = "store"],
               UNCHANGED <<file, usize, lsize, kiocb, size_excuse, pos_excuse>>
        PROVE  Minds(t)
    <3> DEFINE r == [th[t] EXCEPT !.n = lsize, !.pc = "store"]
    <3>1. th' = [th EXCEPT ![t] = r]
      BY <1>1, <2>1
    <3>2. /\ r.op = th[t].op /\ r.f = th[t].f /\ r.alone = th[t].alone /\ r.aio = th[t].aio
          /\ r.pc = "store"
      BY <1>1 DEF Thread
    <3> HIDE DEF r
    <3> QED BY <1>5, <1>6, <2>1, <3>1, <3>2
  <2> QED BY <1>2, <1>11, <2>1 DEF CopyRead
<1>12. CASE CopyStore(t)
  <2>1. th[t].op \in {"write", "write_iter"} /\ UNCHANGED <<lsize, kiocb>>
    BY <1>1, <1>12 DEF CopyStore, ThreadOK
  <2>2. CASE th[t].op = "write"
    <3>1. Return(t, F(t)) /\ Excuse(t, TRUE, FALSE)
      BY <1>12, <2>2 DEF CopyStore
    <3> QED BY <1>0, <1>1, <2>1, <2>2, <3>1, ReturnMinds DEF Sizing
  <2>3. CASE th[t].op = "write_iter"
    <3> DEFINE r == [th[t] EXCEPT !.pc = "out", !.n = 0]
    <3>1. th' = [th EXCEPT ![t] = r] /\ UNCHANGED <<file, size_excuse, pos_excuse>>
      BY <1>1, <1>12, <2>3 DEF CopyStore
    <3>2. /\ r.op = th[t].op /\ r.f = th[t].f /\ r.alone = th[t].alone /\ r.aio = th[t].aio
          /\ r.pc = "out"
      BY <1>1 DEF Thread
    <3> HIDE DEF r
    <3> QED BY <1>5, <1>6, <2>1, <2>3, <3>1, <3>2 DEF Sizing
  <2> QED BY <2>1, <2>2, <2>3
<1>13. CASE trfs_setattr(t)
  <2>0. th[t].op = "setattr" /\ UNCHANGED kiocb
    BY <1>13 DEF trfs_setattr, At, Refused, Oops
  <2>1. ASSUME NEW n \in 0 .. MaxSize, th' = [th EXCEPT ![t].pc = "notify", ![t].n = n],
               UNCHANGED <<file, kiocb, size_excuse, pos_excuse>>
        PROVE  Minds(t)
    <3> DEFINE r == [th[t] EXCEPT !.pc = "notify", !.n = n]
    <3>1. th' = [th EXCEPT ![t] = r]
      BY <1>1, <2>1
    <3>2. /\ r.op = th[t].op /\ r.f = th[t].f /\ r.alone = th[t].alone /\ r.aio = th[t].aio
          /\ r.pc = "notify"
      BY <1>1 DEF Thread
    <3> HIDE DEF r
    <3> QED BY <1>5, <1>6, <2>0, <2>1, <3>1, <3>2 DEF Sizing
  <2>2. ASSUME NEW sets \in BOOLEAN, NEW breaks \in BOOLEAN,
               Return(t, F(t)), Excuse(t, sets, breaks)
        PROVE  Minds(t)
    BY <1>0, <1>1, <2>0, <2>2, ReturnMinds DEF Sizing
  <2> QED BY <1>2, <1>3, <1>13, <2>1, <2>2 DEF trfs_setattr
<1>14. CASE trfs_readdir(t)
  <2>0. th[t].op = "readdir"
    BY <1>14 DEF trfs_readdir, At
  <2>1. ASSUME NEW p, NEW b, th' = [th EXCEPT ![t] = [th[t] EXCEPT !.pc = "set", !.n = p, !.ok = b]],
               \A g \in Files : g # th[t].f => SamePos(g),
               UNCHANGED <<usize, lsize, kiocb, size_excuse, pos_excuse>>
        PROVE  Minds(t)
    <3> DEFINE r == [th[t] EXCEPT !.pc = "set", !.n = p, !.ok = b]
    <3>1. th' = [th EXCEPT ![t] = r]
      BY <2>1
    <3>2. /\ r.op = th[t].op /\ r.f = th[t].f /\ r.alone = th[t].alone /\ r.aio = th[t].aio
          /\ r.pc = "set"
      BY <1>1 DEF Thread
    <3> HIDE DEF r
    <3> QED BY <1>5, <2>0, <2>1, <3>1, <3>2 DEF Moving
  <2>2. ASSUME NEW p \in F(t).lpos .. MaxPos, file' = [file EXCEPT ![th[t].f].lpos = p],
               th' = [th EXCEPT ![t].pc = "set", ![t].n = p],
               UNCHANGED <<usize, lsize, kiocb, size_excuse, pos_excuse>>
        PROVE  Minds(t)
    <3>1. th' = [th EXCEPT ![t] = [th[t] EXCEPT !.pc = "set", !.n = p, !.ok = th[t].ok]]
      BY <1>1, <2>2 DEF Thread
    <3>2. p \in 0 .. MaxPos
      BY <1>1, <2>2, Bounds DEF FileRec
    <3>3. \A g \in Files : g # th[t].f => SamePos(g)
      BY <1>0, <2>2, <3>2, PosOnly
    <3> QED BY <2>1, <2>2, <3>1, <3>3
  <2>3. ASSUME th' = [th EXCEPT ![t].pc = "set", ![t].n = F(t).pos, ![t].ok = FALSE],
               UNCHANGED <<file, usize, lsize, kiocb, size_excuse, pos_excuse>>
        PROVE  Minds(t)
    <3>1. th' = [th EXCEPT ![t] = [th[t] EXCEPT !.pc = "set", !.n = F(t).pos, !.ok = FALSE]]
      BY <1>1, <2>3
    <3> QED BY <1>6, <2>1, <2>3, <3>1
  <2>4. ASSUME file' = [file EXCEPT ![th[t].f].pos = F(t).lpos], Goto(t, "back"),
               UNCHANGED <<usize, lsize, kiocb, size_excuse, pos_excuse>>
        PROVE  Minds(t)
    <3> DEFINE r == [th[t] EXCEPT !.pc = "back"]
    <3>1. th' = [th EXCEPT ![t] = r]
      BY <1>1, <2>4 DEF Goto
    <3>2. /\ r.op = th[t].op /\ r.f = th[t].f /\ r.alone = th[t].alone /\ r.aio = th[t].aio
          /\ r.pc = "back"
      BY <1>1 DEF Thread
    <3>3. F(t).lpos \in 0 .. MaxPos
      BY <1>1 DEF FileRec
    <3>4. \A g \in Files : g # th[t].f => SamePos(g)
      BY <1>0, <2>4, <3>3, PosOnly
    <3> HIDE DEF r
    <3> QED BY <1>5, <2>0, <2>4, <3>1, <3>2, <3>4 DEF Moving
  <2>5. CASE At(t, "readdir", "back")
    <3>1. Return(t, [F(t) EXCEPT !.pos = th[t].n]) /\ UNCHANGED <<usize, lsize, kiocb>>
      BY <1>14, <2>5 DEF trfs_readdir, At
    <3>2. Excuse(t, th[t].ok, FALSE) /\ th[t].ok \in BOOLEAN
      <4>1. th[t].ok \in BOOLEAN
        BY <1>1 DEF Thread
      <4>2. Excuse(t, th[t].ok, FALSE)
        BY <1>14, <2>5, Zenon DEF trfs_readdir, At
      <4> QED BY <4>1, <4>2
    <3>3. th[t].n \in 0 .. MaxPos
      BY <1>1, <2>5, Bounds DEF ThreadOK, Thread, At, Moving
    <3>4. [F(t) EXCEPT !.pos = th[t].n] \in FileRec
      BY <1>1, <3>3 DEF FileRec
    <3> QED BY <1>0, <2>0, <3>1, <3>2, <3>4, ReturnMinds DEF Moving
  <2> QED BY <1>2, <1>14, <2>2, <2>3, <2>4, <2>5 DEF trfs_readdir
<1>15. CASE trfs_file_llseek(t)
  <2>0. th[t].op = "llseek" /\ th[t].op \in Moving
    BY <1>15 DEF trfs_file_llseek, At, Moving
  <2>1. ASSUME NEW p \in 0 .. MaxPos, NEW whence \in {"set", "cur"}, NEW off \in 0 .. MaxPos,
               file' = [file EXCEPT ![th[t].f].pos = p],
               th' = [th EXCEPT ![t].pc = whence, ![t].n = off],
               UNCHANGED <<usize, lsize, kiocb, size_excuse, pos_excuse>>
        PROVE  Minds(t)
    <3> DEFINE r == [th[t] EXCEPT !.pc = whence, !.n = off]
    <3>1. th' = [th EXCEPT ![t] = r]
      BY <1>1, <2>1
    <3>2. /\ r.op = th[t].op /\ r.f = th[t].f /\ r.alone = th[t].alone /\ r.aio = th[t].aio
          /\ r.pc = whence
      BY <1>1 DEF Thread
    <3>3. \A g \in Files : g # th[t].f => SamePos(g)
      BY <1>0, <2>1, PosOnly
    <3> HIDE DEF r
    <3> QED BY <1>5, <2>0, <2>1, <3>1, <3>2, <3>3
  <2>2. ASSUME NEW p \in 0 .. MaxPos, NEW sets \in BOOLEAN, NEW breaks \in BOOLEAN,
               Return(t, [F(t) EXCEPT !.pos = p]) \/ Return(t, [F(t) EXCEPT !.lpos = p]),
               Excuse(t, sets, breaks), UNCHANGED <<usize, lsize, kiocb>>
        PROVE  Minds(t)
    <3>1. [F(t) EXCEPT !.pos = p] \in FileRec /\ [F(t) EXCEPT !.lpos = p] \in FileRec
      BY <1>1 DEF FileRec
    <3> QED BY <1>0, <2>0, <2>2, <3>1, ReturnMinds
  <2>3. CASE At(t, "llseek", "in")
    <3>1. PICK off \in 0 .. MaxPos, whence \in {"set", "cur"} :
            LET p == NewPos(whence, F(t).pos, off)
            IN \/ Refused(t)
               \/ /\ p <= MaxPos
                  /\ \/ Return(t, [F(t) EXCEPT !.pos = p]) /\ Excuse(t, FALSE, TRUE)
                     \/ /\ file' = [file EXCEPT ![th[t].f].pos = p]
                        /\ th' = [th EXCEPT ![t].pc = whence, ![t].n = off]
                        /\ UNCHANGED <<size_excuse, pos_excuse>>
                  /\ UNCHANGED <<usize, lsize, kiocb>>
      BY <1>15, <2>3 DEF trfs_file_llseek, At
    <3> DEFINE p == NewPos(whence, F(t).pos, off)
    <3>2. p <= MaxPos => p \in 0 .. MaxPos
      BY <1>1, Bounds DEF NewPos, FileRec
    <3> HIDE DEF p
    <3> QED BY <1>3, <2>1, <2>2, <3>1, <3>2 DEF p
  <2>4. CASE th[t].pc \in {"set", "cur"}
    <3> DEFINE p == NewPos(th[t].pc, F(t).lpos, th[t].n)
               q == IF p <= MaxPos THEN p ELSE F(t).lpos
    <3>1. \/ Oops(t)
          \/ /\ Return(t, [F(t) EXCEPT !.lpos = q])
             /\ Excuse(t, th[t].pc = "set", FALSE)
             /\ UNCHANGED <<usize, lsize, kiocb>>
      BY <1>15, <2>4 DEF trfs_file_llseek, At
    <3>2. q \in 0 .. MaxPos /\ (th[t].pc = "set") \in BOOLEAN
      BY <1>1, <2>0, <2>4, Bounds DEF NewPos, FileRec, Thread
    <3> HIDE DEF q
    <3> QED BY <1>2, <2>2, <3>1, <3>2
  <2> QED BY <1>15, <2>3, <2>4 DEF trfs_file_llseek
<1>16. CASE IterGet(t)
  <2>0. th[t].op \in Iter /\ th[t].pc = "in" /\ th[t].ok
    BY <1>0, <1>16 DEF IterGet, CallOK
  <2>1. ASSUME file' = [file EXCEPT ![th[t].f].lcount = @ + 1], NEW aio \in BOOLEAN,
               aio => kiocb[t].st = "none",
               th' = [th EXCEPT ![t].pc = "lower", ![t].aio = aio],
               kiocb' = IF aio
                        THEN [kiocb EXCEPT ![t] =
                                [NoIocb EXCEPT !.st = "submitted", !.f = th[t].f,
                                   !.filp = "lower", !.write = th[t].op = "write_iter"]]
                        ELSE kiocb,
               UNCHANGED <<usize, lsize, size_excuse, pos_excuse>>
        PROVE  Minds(t)
    <3> DEFINE r == [th[t] EXCEPT !.pc = "lower", !.aio = aio]
    <3>1. th' = [th EXCEPT ![t] = r]
      BY <1>1, <2>1
    <3>2. /\ r.op = th[t].op /\ r.f = th[t].f /\ r.alone = th[t].alone /\ r.aio = aio
          /\ r.pc = "lower" /\ r.ok = th[t].ok
      BY <1>1 DEF Thread
    <3>3. \A g \in Files : SamePos(g)
      BY <1>0, <2>1, CountOnly
    <3>4. \A u \in Threads \ {t} : kiocb'[u] = kiocb[u]
      BY <1>1, <2>1
    <3>5. aio => /\ kiocb'[t].st = "submitted"
                 /\ kiocb'[t].write = (th[t].op = "write_iter")
      <4> DEFINE k(w) == [NoIocb EXCEPT !.st = "submitted", !.f = th[t].f,
                                        !.filp = "lower", !.write = w]
      <4>1. \A w : k(w).st = "submitted" /\ k(w).write = w
        BY DEF NoIocb
      <4>2. aio => kiocb'[t] = k(th[t].op = "write_iter")
        BY <1>1, <2>1
      <4> HIDE DEF k
      <4> QED BY <4>1, <4>2
    <3>6. QueuedWrite(t)' <=> QueuedWrite(t)
      BY <2>1, <3>5 DEF QueuedWrite
    <3>7. r.aio /\ r.op = "read_iter" => ~kiocb'[t].write
      BY <3>2, <3>5
    <3> HIDE DEF r
    <3> QED BY <1>0, <2>0, <2>1, <3>1, <3>2, <3>3, <3>4, <3>6, <3>7, TurnMinds
  <2> QED BY <1>2, <1>3, <1>16, <2>1 DEF IterGet
<1>17. CASE IterLower(t)
  <2>0. /\ th[t].op \in Iter /\ th[t].pc = "lower"
        /\ UNCHANGED <<file, usize, size_excuse, pos_excuse>>
    BY <1>17 DEF IterLower
  <2>1. PICK n \in IF th[t].op = "write_iter" THEN 0 .. MaxSize ELSE {0}, b \in BOOLEAN :
          /\ th' = [th EXCEPT ![t] = [th[t] EXCEPT !.pc = "restore", !.ok = b]]
          /\ lsize' = lsize \/ lsize' = Max({lsize, n})
          /\ \/ kiocb' = kiocb
             \/ th[t].aio /\ kiocb' = [kiocb EXCEPT ![t].st = "queued", ![t].n = n]
    <3>1. [th EXCEPT ![t].pc = "restore"]
             = [th EXCEPT ![t] = [th[t] EXCEPT !.pc = "restore", !.ok = th[t].ok]]
      BY <1>1 DEF Thread
    <3>2. th[t].ok \in BOOLEAN
      BY <1>1 DEF Thread
    <3>3. [th EXCEPT ![t].pc = "restore", ![t].ok = FALSE]
             = [th EXCEPT ![t] = [th[t] EXCEPT !.pc = "restore", !.ok = FALSE]]
      BY <1>1
    <3> QED BY <1>17, <3>1, <3>2, <3>3 DEF IterLower
  <2> DEFINE r == [th[t] EXCEPT !.pc = "restore", !.ok = b]
  <2>2. th' = [th EXCEPT ![t] = r]
    BY <2>1
  <2>3. /\ r.op = th[t].op /\ r.f = th[t].f /\ r.alone = th[t].alone /\ r.aio = th[t].aio
        /\ r.pc = "restore"
    BY <1>1 DEF Thread
  <2>4. /\ \A u \in Threads \ {t} : kiocb'[u] = kiocb[u]
        /\ kiocb'[t].write = kiocb[t].write
        /\ kiocb'[t].st = kiocb[t].st \/ th[t].aio
    BY <1>1, <2>1 DEF Iocb
  <2>5. ASSUME th[t].op \notin Sizing
        PROVE  lsize' = lsize /\ (QueuedWrite(t)' <=> QueuedWrite(t))
    <3>1. th[t].op = "read_iter" /\ n = 0
      BY <2>0, <2>1, <2>5 DEF Iter, Sizing
    <3>2. lsize' = lsize
      BY <1>1, <2>1, <3>1, MaxPair, Bounds
    <3>3. th[t].aio => ~kiocb[t].write
      BY <1>0, <3>1 DEF CallOK
    <3> QED BY <2>4, <3>2, <3>3 DEF QueuedWrite
  <2>6. r.aio /\ r.op = "read_iter" => ~kiocb'[t].write
    BY <1>0, <2>3, <2>4 DEF CallOK
  <2> HIDE DEF r
  <2> QED BY <1>0, <1>6, <2>0, <2>2, <2>3, <2>4, <2>5, <2>6, TurnMinds
<1>18. CASE IterRestore(t)
  <2> DEFINE r == [th[t] EXCEPT !.pc = "put"]
  <2>1. /\ th' = [th EXCEPT ![t] = r] /\ UNCHANGED <<file, usize, lsize, size_excuse, pos_excuse>>
        /\ kiocb' = kiocb \/ kiocb' = [kiocb EXCEPT ![t].filp = "upper"]
    BY <1>1, <1>18 DEF IterRestore, Goto
  <2>2. /\ r.op = th[t].op /\ r.f = th[t].f /\ r.alone = th[t].alone /\ r.aio = th[t].aio
        /\ r.pc = "put"
    BY <1>1 DEF Thread
  <2>3. /\ \A u \in Threads \ {t} : kiocb'[u] = kiocb[u]
        /\ kiocb'[t].write = kiocb[t].write /\ kiocb'[t].st = kiocb[t].st
    BY <1>1, <2>1 DEF Iocb
  <2>4. QueuedWrite(t)' <=> QueuedWrite(t)
    BY <2>3 DEF QueuedWrite
  <2>5. r.aio /\ r.op = "read_iter" => ~kiocb'[t].write
    BY <1>0, <2>2, <2>3 DEF CallOK
  <2> HIDE DEF r
  <2> QED BY <1>0, <1>6, <2>1, <2>2, <2>3, <2>4, <2>5, TurnMinds
<1>19. CASE IterPut(t)
  <2>1. ASSUME file' = [file EXCEPT ![th[t].f].lcount = @ - 1], NEW label \in {"copy", "out"},
               Goto(t, label), UNCHANGED <<usize, lsize, kiocb, size_excuse, pos_excuse>>
        PROVE  Minds(t)
    <3> DEFINE r == [th[t] EXCEPT !.pc = label]
    <3>1. th' = [th EXCEPT ![t] = r]
      BY <1>1, <2>1 DEF Goto
    <3>2. /\ r.op = th[t].op /\ r.f = th[t].f /\ r.alone = th[t].alone /\ r.aio = th[t].aio
          /\ r.pc = label
      BY <1>1 DEF Thread
    <3>3. \A g \in Files : SamePos(g)
      BY <1>0, <2>1, CountOnly
    <3> HIDE DEF r
    <3> QED BY <1>5, <2>1, <3>1, <3>2, <3>3
  <2> QED BY <1>2, <1>19, <2>1 DEF IterPut
<1>20. CASE IterReturn(t)
  <2>0. /\ th' = [th EXCEPT ![t] = Idle] /\ UNCHANGED <<usize, lsize>>
        /\ Excuse(t, th[t].ok, FALSE)
    BY <1>20, Zenon DEF IterReturn
  <2>1. /\ th'[t] = Idle /\ \A u \in Threads \ {t} : th'[u] = th[u]
        /\ th[t].ok \in BOOLEAN
    BY <1>1, <2>0 DEF Thread
  <2>2. \/ kiocb' = kiocb
        \/ kiocb[t].st # "queued" /\ kiocb' = [kiocb EXCEPT ![t] = NoIocb]
    BY <1>20 DEF IterReturn
  <2>3. file' = file \/ file' = [file EXCEPT ![th[t].f].count = @ - 1]
    BY <1>20, IterReturnEffect
  <2>4. \A g \in Files : SamePos(g)
    BY <1>0, <1>6, <2>3, CountOnly
  <2>5. \A u \in Threads \ {t} : kiocb'[u] = kiocb[u]
    BY <1>1, <2>2
  <2>6. QueuedWrite(t)' <=> QueuedWrite(t)
    BY <1>1, <2>2 DEF QueuedWrite, NoIocb
  <2>7. CallOK(t)'
    BY <2>1 DEF CallOK, Idle
  <2>8. Settles(t)
    BY <2>0, <2>1, Zenon DEF Settles
  <2> QED BY <2>0, <2>1, <2>4, <2>5, <2>6, <2>7, <2>8 DEF Minds
<1>21. CASE trfs_mmap(t)
  <2>0. th[t].op = "mmap" /\ th[t].op \notin Sizing /\ th[t].op \notin Moving
    BY <1>21 DEF trfs_mmap, At, Sizing, Moving
  <2>1. ASSUME NEW n, th' = [th EXCEPT ![t].pc = "save", ![t].n = n],
               UNCHANGED <<file, usize, lsize, kiocb, size_excuse, pos_excuse>>
        PROVE  Minds(t)
    <3> DEFINE r == [th[t] EXCEPT !.pc = "save", !.n = n]
    <3>1. th' = [th EXCEPT ![t] = r]
      BY <1>1, <2>1
    <3>2. /\ r.op = th[t].op /\ r.f = th[t].f /\ r.alone = th[t].alone /\ r.aio = th[t].aio
          /\ r.pc = "save"
      BY <1>1 DEF Thread
    <3> HIDE DEF r
    <3> QED BY <1>5, <1>6, <2>1, <3>1, <3>2
  <2>2. CASE At(t, "mmap", "save")
    <3> DEFINE r(v) == [F(t) EXCEPT !.vm_ops = v, !.count = F(t).count + 1, !.maps = F(t).maps + 1]
               q(v) == [r(v) EXCEPT !.count = r(v).count - 1]
    <3> DEFINE v == F(t).vm_ops \/ th[t].n = 1
    <3>0. Return(t, r(v)) /\ UNCHANGED <<usize, lsize, kiocb, size_excuse, pos_excuse>>
      BY <1>21, <2>2 DEF trfs_mmap, At
    <3>1. /\ th' = [th EXCEPT ![t] = Idle] /\ file' = [file EXCEPT ![th[t].f] = q(v)]
          /\ UNCHANGED <<usize, lsize, kiocb, size_excuse, pos_excuse>>
      BY <3>0, Zenon DEF Return
    <3>2. \A w : q(w).pos = F(t).pos /\ q(w).lpos = F(t).lpos
      BY <1>1 DEF FileRec
    <3> HIDE DEF q, v
    <3>3. \A g \in Files : SamePos(g)
      BY <1>0, <3>1, <3>2, TypeParts DEF FilesOK, SamePos, F
    <3>4. th'[t] = Idle /\ \A u \in Threads \ {t} : th'[u] = th[u]
      BY <1>1, <3>1
    <3>5. Excuse(t, FALSE, FALSE)
      BY <2>0, <3>1 DEF Excuse
    <3>6. CallOK(t)'
      BY <3>4 DEF CallOK, Idle
    <3>7. Settles(t)
      <4>1. FALSE \in BOOLEAN
        OBVIOUS
      <4> QED BY <3>4, <3>5, <4>1, Zenon DEF Settles
    <3> QED BY <3>1, <3>3, <3>4, <3>6, <3>7 DEF Minds, QueuedWrite
  <2> QED BY <1>2, <1>3, <1>21, <2>1, <2>2 DEF trfs_mmap
<1> QED BY <1>7, <1>8, <1>9, <1>10, <1>11, <1>12, <1>13, <1>14, <1>15, <1>16, <1>17, <1>18,
           <1>19, <1>20, <1>21 DEF Step

(* And so does a link.                                                       *)
LEMMA LinkMinds ==
  ASSUME TypeInv, NEW t \in Threads, trfs_link(t)
  PROVE  Minds(t) /\ th[t].op = "link"
<1>1. /\ th \in [Threads -> Thread] /\ ~th'[t].aio
      /\ UNCHANGED <<file, lsize, kiocb, pos_excuse>>
  BY LinkAside, TypeParts DEF ThreadsOK
<1>2. th[t].op = "link"
  BY DEF trfs_link, At
<1>3. \A g \in Files : SamePos(g)
  BY <1>1 DEF SamePos
<1>4. CASE th[t].pc = "in"
  <2>1. /\ th' = [th EXCEPT ![t].pc = "saved", ![t].n = usize]
        /\ UNCHANGED <<size_excuse, pos_excuse>>
    BY <1>4 DEF trfs_link, At
  <2>2. /\ th'[t].op = th[t].op /\ th'[t].f = th[t].f /\ th'[t].alone = th[t].alone
        /\ th'[t].pc = "saved" /\ \A u \in Threads \ {t} : th'[u] = th[u]
    BY <1>1, <2>1 DEF Thread
  <2>3. GoesOn(t) /\ CallOK(t)'
    BY <1>1, <2>1, <2>2 DEF GoesOn, CallOK
  <2> QED BY <1>1, <1>2, <1>3, <2>2, <2>3 DEF Minds, Sizing, Moving
<1>5. CASE th[t].pc # "in"
  <2>1. th' = [th EXCEPT ![t] = Idle] /\ Excuse(t, FALSE, FALSE)
    BY <1>5 DEF trfs_link, At
  <2>2. th'[t] = Idle /\ \A u \in Threads \ {t} : th'[u] = th[u]
    BY <1>1, <2>1
  <2>3. Settles(t)
    <3>1. FALSE \in BOOLEAN
      OBVIOUS
    <3> QED BY <2>1, <2>2, <3>1, Zenon DEF Settles
  <2>4. CallOK(t)'
    BY <2>2 DEF CallOK, Idle
  <2> QED BY <1>1, <1>2, <1>3, <2>2, <2>3, <2>4 DEF Minds, Sizing, Moving
<1> QED BY <1>2, <1>4, <1>5

-----------------------------------------------------------------------------
(* Sizes.                                                                    *)

(* A thread does something that has nothing to do with sizes.                *)
LEMMA SizeKept ==
  ASSUME SizeInv, NEW t \in Threads, th'[t].op \notin Sizing, th[t].op \notin Sizing,
         \A u \in Threads \ {t} : th'[u] = th[u],
         UNCHANGED <<usize, lsize, size_excuse>>,
         \A u \in Threads : QueuedWrite(u)' <=> QueuedWrite(u)
  PROVE  SizeInv'
<1>1. SizeEven' <=> SizeEven
  BY DEF SizeEven
<1>2. SizeAgrees'
  <2>1. \A u \in Threads : th[u].op \in Sizing => th'[u].op \in Sizing
    OBVIOUS
  <2> QED BY <2>1 DEF SizeInv, SizeAgrees, QueuedWrite
<1>3. ASSUME NEW u \in Threads, u # t PROVE SizeOK(u)'
  <2>1. SizeOK(u) /\ th'[u] = th[u]
    BY <1>3 DEF SizeInv
  <2>2. ASSUME th[u].op \in Sizing, th[u].alone
        PROVE  \A v \in Threads \ {u} : th'[v].op \notin Sizing /\ ~QueuedWrite(v)'
    BY <2>1, <2>2 DEF SizeOK
  <2> QED BY <1>1, <2>1, <2>2 DEF SizeOK
<1>4. SizeOK(t)'
  BY DEF SizeOK
<1> QED BY <1>2, <1>3, <1>4 DEF SizeInv

(* A step of a call that does not change sizes.                              *)
LEMMA OtherSize ==
  ASSUME SizeInv, NEW t \in Threads, th[t].op \notin Sizing, Minds(t)
  PROVE  SizeInv'
<1>1. /\ UNCHANGED <<usize, lsize>> /\ \A u \in Threads : QueuedWrite(u)' <=> QueuedWrite(u)
      /\ \A u \in Threads \ {t} : th'[u] = th[u]
  BY DEF Minds, QueuedWrite
<1>2. size_excuse' = size_excuse /\ th'[t].op \notin Sizing
  BY DEF Minds, GoesOn, Settles, Excuse, Idle, Sizing
<1> QED BY <1>1, <1>2, SizeKept

(* Of two calls that change the size neither is alone: only the one that     *)
(* makes the step counts.                                                    *)
LEMMA OwnSize ==
  ASSUME SizeInv, NEW t \in Threads, th[t].op \in Sizing, Minds(t),
         SizeOK(t)', th'[t].op \in Sizing \/ size_excuse' \/ QueuedWrite(t)' \/ usize' = lsize'
  PROVE  SizeInv'
<1>1. SizeAgrees'
  BY DEF SizeAgrees, QueuedWrite
<1>2. ASSUME NEW u \in Threads, u # t PROVE SizeOK(u)'
  <2>1. th'[u] = th[u] /\ SizeOK(u)
    BY <1>2 DEF Minds, SizeInv
  <2>2. ~(th[u].op \in Sizing /\ th[u].alone)
    BY <1>2, <2>1 DEF SizeOK
  <2> QED BY <2>1, <2>2 DEF SizeOK
<1> QED BY <1>1, <1>2 DEF SizeInv

(* A call that was not alone leaves an excuse behind.                        *)
LEMMA CrowdedSize ==
  ASSUME SizeInv, NEW t \in Threads, th[t].op \in Sizing, ~th[t].alone, Minds(t)
  PROVE  SizeInv'
<1>1. CASE GoesOn(t)
  <2>1. th'[t].op \in Sizing /\ ~th'[t].alone
    BY <1>1 DEF GoesOn
  <2> QED BY <2>1, OwnSize DEF SizeOK
<1>2. CASE Settles(t)
  <2>1. th'[t].op \notin Sizing
    BY <1>2 DEF Settles, Idle, Sizing
  <2>2. size_excuse'
    BY <1>2, Zenon DEF Settles, Excuse
  <2> QED BY <2>1, <2>2, OwnSize DEF SizeOK
<1> QED BY <1>1, <1>2 DEF Minds

(* A call that is alone and goes on.                                         *)
LEMMA AloneSize ==
  ASSUME SizeInv, NEW t \in Threads, th[t].op \in Sizing, th[t].alone, Minds(t), GoesOn(t),
         QueuedWrite(t)' => th'[t].aio,
         th'[t].pc \in {"in", "lower", "saved"} => SizeEven',
         th'[t].pc \in {"restore", "put", "out"} /\ ~th'[t].ok => SizeEven',
         th'[t].pc = "out" /\ th'[t].ok => usize' = lsize',
         th'[t].pc = "store" => th'[t].n = lsize',
         th'[t].pc \in {"notify", "saved"} => th'[t].n = usize'
  PROVE  SizeInv'
<1>1. SizeOK(t)
  BY DEF SizeInv
<1>2. \A u \in Threads \ {t} : th'[u].op \notin Sizing /\ ~QueuedWrite(u)'
  BY <1>1 DEF SizeOK, Minds, QueuedWrite
<1>3. SizeOK(t)'
  BY <1>2 DEF SizeOK
<1>4. th'[t].op \in Sizing
  BY DEF GoesOn
<1> QED BY <1>3, <1>4, OwnSize

(* A call that is alone and ends.                                            *)
LEMMA EndSize ==
  ASSUME SizeInv, NEW t \in Threads, th[t].op \in Sizing, th[t].alone, Minds(t),
         th'[t] = Idle, size_excuse' \/ usize' = lsize'
  PROVE  SizeInv'
<1>1. th'[t].op \notin Sizing
  BY DEF Idle, Sizing
<1> QED BY <1>1, OwnSize DEF SizeOK

(* A step of a call that is alone.  Both sizes were the same, or excused,    *)
(* when it began; a successful one leaves them the same.                     *)
LEMMA StepSizeAlone ==
  ASSUME FileInv, CallInv, SizeInv, NEW t \in Threads, Step(t),
         th[t].op \in Sizing, th[t].alone
  PROVE  SizeInv'
<1>0. TypeInv /\ th[t].f # NoFile /\ Minds(t) /\ CallOK(t) /\ SizeOK(t)
  BY StepInside, StepMinds DEF FileInv, CallInv, SizeInv
<1>1. /\ th \in [Threads -> Thread] /\ kiocb \in [Threads -> Iocb] /\ th[t] \in Thread
      /\ ThreadOK(t) /\ lsize \in 0 .. MaxSize /\ size_excuse \in BOOLEAN
  BY <1>0, TypeParts, HasFile DEF ThreadsOK, IocbsOK, SizesOK
<1>2. /\ QueuedWrite(t) => th[t].aio
      /\ th[t].pc \in {"in", "lower"} => SizeEven
      /\ th[t].pc \in {"restore", "put", "out"} /\ ~th[t].ok => SizeEven
      /\ th[t].pc = "out" /\ th[t].ok => usize = lsize
      /\ th[t].pc = "store" => th[t].n = lsize
      /\ th[t].pc = "notify" => th[t].n = usize
  BY <1>0 DEF SizeOK
<1>3. th[t].op \notin Iter => ~th[t].aio
  BY <1>1 DEF ThreadOK
<1>4. ASSUME NEW sets \in BOOLEAN, NEW breaks \in BOOLEAN, Excuse(t, sets, breaks)
      PROVE  /\ breaks => size_excuse'
             /\ ~breaks /\ ~sets => size_excuse' = size_excuse
  <2>1. size_excuse' = (~th[t].alone \/ breaks \/ (size_excuse /\ ~sets))
    BY <1>4, Zenon DEF Excuse
  <2>2. breaks => size_excuse'
    BY <2>1, Zenon
  <2>3. ASSUME ~breaks, ~sets PROVE size_excuse' = size_excuse
    <3>1. CASE size_excuse
      BY <1>1, <2>1, <2>3, <3>1
    <3>2. CASE ~size_excuse
      BY <1>1, <2>1, <2>3, <3>2
    <3> QED BY <3>1, <3>2
  <2> QED BY <2>2, <2>3
<1>5. ASSUME Refused(t), th[t].pc = "in" PROVE SizeInv'
  <2>1. /\ th'[t] = Idle /\ Excuse(t, FALSE, FALSE) /\ UNCHANGED <<usize, lsize>>
    BY <1>1, <1>5 DEF Refused, Return
  <2>2. size_excuse' = size_excuse
    BY <1>4, <2>1
  <2> QED BY <1>0, <1>2, <1>5, <2>1, <2>2, EndSize DEF SizeEven
<1>6. ASSUME Oops(t) PROVE SizeInv'
  <2>1. /\ th'[t].pc = "oops" /\ th'[t].aio = th[t].aio /\ th'[t].op = th[t].op
        /\ th'[t].f = th[t].f /\ th'[t].alone = th[t].alone
        /\ UNCHANGED <<kiocb, size_excuse, pos_excuse>>
    BY <1>1, <1>6 DEF Oops, Goto, Thread
  <2>2. GoesOn(t) /\ (QueuedWrite(t)' => th'[t].aio)
    BY <1>2, <2>1 DEF GoesOn, QueuedWrite
  <2> QED BY <1>0, <2>1, <2>2, AloneSize
<1>7. CASE LowerWrite(t)
  <2>1. ASSUME Goto(t, "copy"), UNCHANGED <<file, kiocb, size_excuse, pos_excuse>>
        PROVE  SizeInv'
    <3>1. /\ th'[t].pc = "copy" /\ th'[t].aio = th[t].aio /\ th'[t].op = th[t].op
          /\ th'[t].f = th[t].f /\ th'[t].alone = th[t].alone
      BY <1>1, <2>1 DEF Goto, Thread
    <3>2. GoesOn(t) /\ (QueuedWrite(t)' => th'[t].aio)
      BY <1>2, <2>1, <3>1 DEF GoesOn, QueuedWrite
    <3> QED BY <1>0, <3>1, <3>2, AloneSize
  <2> QED BY <1>5, <1>6, <1>7, <2>1 DEF LowerWrite, At
<1>8. CASE CopyRead(t)
  <2>1. ASSUME th' = [th EXCEPT ![t].n = lsize, ![t].pc = "store"],
               UNCHANGED <<lsize, kiocb, size_excuse, pos_excuse>>
        PROVE  SizeInv'
    <3>1. /\ th'[t].pc = "store" /\ th'[t].n = lsize' /\ th'[t].aio = th[t].aio
          /\ th'[t].op = th[t].op /\ th'[t].f = th[t].f /\ th'[t].alone = th[t].alone
      BY <1>1, <2>1 DEF Thread
    <3>2. GoesOn(t) /\ (QueuedWrite(t)' => th'[t].aio)
      BY <1>2, <2>1, <3>1 DEF GoesOn, QueuedWrite
    <3> QED BY <1>0, <3>1, <3>2, AloneSize
  <2> QED BY <1>6, <1>8, <2>1 DEF CopyRead
<1>9. CASE CopyStore(t)
  <2>1. usize' = lsize' /\ UNCHANGED kiocb
    BY <1>2, <1>9 DEF CopyStore
  <2>2. CASE th[t].op = "write"
    <3>1. th'[t] = Idle
      BY <1>1, <1>9, <2>2 DEF CopyStore, Return
    <3> QED BY <1>0, <2>1, <3>1, EndSize
  <2>3. CASE th[t].op # "write"
    <3>1. /\ th' = [th EXCEPT ![t].pc = "out", ![t].n = 0]
          /\ UNCHANGED <<size_excuse, pos_excuse>>
      BY <1>9, <2>3 DEF CopyStore
    <3>2. /\ th'[t].pc = "out" /\ th'[t].aio = th[t].aio
          /\ th'[t].op = th[t].op /\ th'[t].f = th[t].f /\ th'[t].alone = th[t].alone
      BY <1>1, <3>1 DEF Thread
    <3>3. GoesOn(t) /\ (QueuedWrite(t)' => th'[t].aio)
      BY <1>2, <2>1, <3>1, <3>2 DEF GoesOn, QueuedWrite
    <3> QED BY <1>0, <2>1, <3>2, <3>3, AloneSize DEF SizeEven
  <2> QED BY <2>2, <2>3
<1>10. CASE trfs_setattr(t)
  <2>1. ASSUME NEW n \in 0 .. MaxSize, usize' = n,
               th' = [th EXCEPT ![t].pc = "notify", ![t].n = n],
               UNCHANGED <<kiocb, size_excuse, pos_excuse>>
        PROVE  SizeInv'
    <3>1. /\ th'[t].pc = "notify" /\ th'[t].n = usize' /\ th'[t].aio = th[t].aio
          /\ th'[t].op = th[t].op /\ th'[t].f = th[t].f /\ th'[t].alone = th[t].alone
      BY <1>1, <2>1 DEF Thread
    <3>2. GoesOn(t) /\ (QueuedWrite(t)' => th'[t].aio)
      BY <1>2, <2>1, <3>1 DEF GoesOn, QueuedWrite
    <3> QED BY <1>0, <3>1, <3>2, AloneSize
  <2>2. CASE At(t, "setattr", "notify")
    <3>1. /\ th' = [th EXCEPT ![t] = Idle] /\ usize' = usize
          /\ lsize' = th[t].n \/ Excuse(t, FALSE, TRUE)
      BY <1>10, <2>2 DEF trfs_setattr, At, Return
    <3>2. th'[t] = Idle /\ th[t].n = usize
      BY <1>1, <1>2, <2>2, <3>1 DEF At
    <3>3. size_excuse' \/ usize' = lsize'
      BY <1>4, <3>1, <3>2
    <3> QED BY <1>0, <3>2, <3>3, EndSize
  <2> QED BY <1>5, <1>6, <1>10, <2>1, <2>2 DEF trfs_setattr, At
<1>11. CASE IterGet(t)
  <2>1. ASSUME NEW aio \in BOOLEAN, th' = [th EXCEPT ![t].pc = "lower", ![t].aio = aio],
               UNCHANGED <<usize, lsize, size_excuse, pos_excuse>>,
               IF aio THEN kiocb'[t].st = "submitted" ELSE kiocb' = kiocb,
               th[t].pc = "in"
        PROVE  SizeInv'
    <3>1. /\ th'[t].pc = "lower" /\ th'[t].ok = th[t].ok /\ th'[t].aio = aio
          /\ th'[t].op = th[t].op /\ th'[t].f = th[t].f /\ th'[t].alone = th[t].alone
      BY <1>1, <2>1 DEF Thread
    <3>2. ~th[t].aio
      BY <1>1, <2>1 DEF ThreadOK, Late
    <3>3. GoesOn(t) /\ ~QueuedWrite(t)'
      BY <1>2, <2>1, <3>1, <3>2 DEF GoesOn, QueuedWrite
    <3>4. SizeEven'
      BY <1>2, <2>1 DEF SizeEven
    <3> QED BY <1>0, <3>1, <3>3, <3>4, AloneSize
  <2>2. \A k : kiocb' = [kiocb EXCEPT ![t] = [NoIocb EXCEPT !.st = "submitted", !.f = th[t].f,
                                                 !.filp = "lower", !.write = k]]
                 => kiocb'[t].st = "submitted"
    BY <1>1 DEF NoIocb
  <2> QED BY <1>5, <1>6, <1>11, <2>1, <2>2 DEF IterGet
<1>12. CASE IterLower(t)
  <2>0. /\ th[t].pc = "lower" /\ UNCHANGED <<usize, size_excuse, pos_excuse>>
        /\ th[t].ok /\ SizeEven
    BY <1>0, <1>2, <1>12 DEF IterLower, CallOK
  <2>1. \/ th' = [th EXCEPT ![t].pc = "restore"] /\ kiocb' = kiocb
        \/ /\ th' = [th EXCEPT ![t].pc = "restore", ![t].ok = FALSE]
           /\ kiocb' = kiocb /\ lsize' = lsize
        \/ th' = [th EXCEPT ![t].pc = "restore"] /\ th[t].aio
    BY <1>12 DEF IterLower
  <2>2. /\ th'[t].pc = "restore" /\ th'[t].aio = th[t].aio
        /\ th'[t].op = th[t].op /\ th'[t].f = th[t].f /\ th'[t].alone = th[t].alone
    <3>1. CASE th' = [th EXCEPT ![t].pc = "restore"]
      BY <1>1, <3>1 DEF Thread
    <3>2. CASE th' = [th EXCEPT ![t].pc = "restore", ![t].ok = FALSE]
      BY <1>1, <3>2 DEF Thread
    <3> QED BY <2>1, <3>1, <3>2
  <2>3. ~th'[t].ok => lsize' = lsize
    <3>1. CASE th' = [th EXCEPT ![t].pc = "restore"]
      BY <1>1, <2>0, <3>1 DEF Thread
    <3> QED BY <2>1, <3>1
  <2>4. GoesOn(t) /\ (QueuedWrite(t)' => th'[t].aio)
    BY <1>2, <2>0, <2>1, <2>2 DEF GoesOn, QueuedWrite
  <2>5. ~th'[t].ok => SizeEven'
    BY <2>0, <2>3 DEF SizeEven
  <2> QED BY <1>0, <2>2, <2>4, <2>5, AloneSize
<1>13. CASE IterRestore(t)
  <2>1. /\ th' = [th EXCEPT ![t].pc = "put"] /\ th[t].pc = "restore"
        /\ UNCHANGED <<usize, lsize, size_excuse, pos_excuse>>
        /\ kiocb' = kiocb \/ kiocb' = [kiocb EXCEPT ![t].filp = "upper"]
    BY <1>13 DEF IterRestore, Goto
  <2>2. /\ th'[t].pc = "put" /\ th'[t].aio = th[t].aio /\ th'[t].ok = th[t].ok
        /\ th'[t].op = th[t].op /\ th'[t].f = th[t].f /\ th'[t].alone = th[t].alone
    BY <1>1, <2>1 DEF Thread
  <2>3. kiocb'[t].st = kiocb[t].st /\ kiocb'[t].write = kiocb[t].write
    BY <1>1, <2>1 DEF Iocb
  <2>4. GoesOn(t) /\ (QueuedWrite(t)' => th'[t].aio)
    BY <1>2, <2>1, <2>2, <2>3 DEF GoesOn, QueuedWrite
  <2>5. ~th'[t].ok => SizeEven'
    BY <1>2, <2>1, <2>2 DEF SizeEven
  <2> QED BY <1>0, <2>2, <2>4, <2>5, AloneSize
<1>14. CASE IterPut(t)
  <2>1. ASSUME th[t].op \in Iter, th[t].pc = "put",
               Goto(t, IF th[t].op = "write_iter" /\ th[t].ok THEN "copy" ELSE "out"),
               UNCHANGED <<usize, lsize, kiocb, size_excuse, pos_excuse>>
        PROVE  SizeInv'
    <3>1. /\ th'[t].pc = (IF th[t].ok THEN "copy" ELSE "out") /\ th'[t].ok = th[t].ok
          /\ th'[t].aio = th[t].aio
          /\ th'[t].op = th[t].op /\ th'[t].f = th[t].f /\ th'[t].alone = th[t].alone
      BY <1>1, <2>1 DEF Goto, Thread, Iter, Sizing
    <3>2. GoesOn(t) /\ (QueuedWrite(t)' => th'[t].aio)
      BY <1>2, <2>1, <3>1 DEF GoesOn, QueuedWrite
    <3>3. ~th'[t].ok => SizeEven'
      BY <1>2, <2>1, <3>1 DEF SizeEven
    <3> QED BY <1>0, <3>1, <3>2, <3>3, AloneSize
  <2> QED BY <1>6, <1>14, <2>1 DEF IterPut
<1>15. CASE IterReturn(t)
  <2>1. /\ th' = [th EXCEPT ![t] = Idle] /\ UNCHANGED <<usize, lsize>> /\ th[t].pc = "out"
        /\ Excuse(t, th[t].ok, FALSE)
    BY <1>15, Zenon DEF IterReturn
  <2>2. th'[t] = Idle /\ th[t].ok \in BOOLEAN
    BY <1>1, <2>1 DEF Thread
  <2>3. size_excuse' \/ usize' = lsize'
    <3>1. CASE th[t].ok
      BY <1>2, <2>1, <3>1
    <3>2. CASE ~th[t].ok
      <4>1. size_excuse' = size_excuse
        BY <1>4, <2>1, <2>2, <3>2
      <4> QED BY <1>2, <2>1, <3>2, <4>1 DEF SizeEven
    <3> QED BY <3>1, <3>2
  <2> QED BY <1>0, <2>2, <2>3, EndSize
<1>16. th[t].op \in {"write", "write_iter", "setattr"}
  BY <1>0, HasFile DEF Sizing
<1> QED BY <1>7, <1>8, <1>9, <1>10, <1>11, <1>12, <1>13, <1>14, <1>15, <1>16
        DEF Step, At, trfs_flush, trfs_fsync, trfs_fasync, trfs_unlocked_ioctl,
            trfs_compat_ioctl, trfs_readdir, trfs_file_llseek, trfs_mmap, trfs_fault, trfs_page_mkwrite

LEMMA StepSize ==
  ASSUME FileInv, CallInv, SizeInv, NEW t \in Threads, Step(t)
  PROVE  SizeInv'
BY StepMinds, OtherSize, CrowdedSize, StepSizeAlone

(* A link that is alone writes back what is there; one that is not alone     *)
(* leaves an excuse.                                                         *)
LEMMA LinkSize ==
  ASSUME FileInv, SizeInv, NEW t \in Threads, trfs_link(t)
  PROVE  SizeInv'
<1>0. /\ TypeInv /\ th \in [Threads -> Thread] /\ size_excuse \in BOOLEAN
      /\ Minds(t) /\ th[t].op = "link" /\ th[t].op \in Sizing
  BY LinkMinds, TypeParts DEF FileInv, ThreadsOK, SizesOK, Sizing
<1>1. CASE ~th[t].alone
  BY <1>0, <1>1, CrowdedSize
<1>2. CASE th[t].alone
  <2>1. /\ ~th[t].aio /\ ~th'[t].aio /\ UNCHANGED <<lsize, kiocb, pos_excuse>>
        /\ QueuedWrite(t) => th[t].aio
        /\ th[t].pc \in {"in", "saved"} => SizeEven
        /\ th[t].pc = "saved" => th[t].n = usize
    BY <1>0, <1>2, LinkAside DEF SizeInv, SizeOK
  <2>2. CASE th[t].pc = "in"
    <3>1. /\ th' = [th EXCEPT ![t].pc = "saved", ![t].n = usize]
          /\ UNCHANGED <<usize, size_excuse>>
      BY <2>2 DEF trfs_link, At
    <3>2. /\ th'[t].pc = "saved" /\ th'[t].n = usize' /\ th'[t].op = th[t].op
          /\ th'[t].f = th[t].f /\ th'[t].alone = th[t].alone
      BY <1>0, <3>1 DEF Thread
    <3>3. GoesOn(t) /\ ~QueuedWrite(t)' /\ SizeEven'
      BY <2>1, <2>2, <3>1, <3>2 DEF GoesOn, QueuedWrite, SizeEven
    <3> QED BY <1>0, <1>2, <3>2, <3>3, AloneSize
  <2>3. CASE th[t].pc # "in"
    <3>1. /\ th' = [th EXCEPT ![t] = Idle] /\ Excuse(t, FALSE, FALSE) /\ th[t].pc = "saved"
          /\ usize' = th[t].n \/ usize' = usize
      BY <2>3 DEF trfs_link, At
    <3>2. th'[t] = Idle /\ usize' = usize /\ SizeEven
      BY <1>0, <2>1, <3>1
    <3>3. size_excuse => size_excuse'
      BY <1>0, <3>1, Zenon DEF Excuse
    <3> QED BY <1>0, <1>2, <2>1, <3>2, <3>3, EndSize DEF SizeEven
  <2> QED BY <2>2, <2>3
<1> QED BY <1>1, <1>2

(* A call that enters: whom it makes lose the claim to be alone.             *)
LEMMA EnterAlone ==
  ASSUME TypeInv, NEW t \in Threads, NEW f \in Files \cup {NoFile}, NEW op \in Ops \ {"none"},
         Begin(t, f, op)
  PROVE  LET others == {u \in Threads : Clash(op, f, th[u].op, th[u].f)} IN
         /\ \A u \in Threads \ {t} : th'[u].alone => th[u].alone /\ u \notin others
         /\ th'[t].alone => /\ others = {}
                            /\ op \in Sizing => \A u \in Threads : ~QueuedWrite(u)
<1>1. th \in [Threads -> Thread]
  BY TypeParts DEF ThreadsOK
<1> DEFINE others == {u \in Threads : Clash(op, f, th[u].op, th[u].f)}
           queued == {u \in Threads : kiocb[u].st = "queued" /\ kiocb[u].write}
           single == others = {} /\ (op \in Sizing => queued = {})
           enters(b) == [Idle EXCEPT !.op = op, !.pc = "in", !.f = f, !.alone = b]
           stays(u, b) == [th[u] EXCEPT !.alone = b]
<1>2. th' = [u \in Threads |-> IF u = t THEN enters(single)
                               ELSE stays(u, th[u].alone /\ u \notin others)]
  BY DEF Begin
<1>3. /\ \A b : enters(b).alone = b
      /\ \A u \in Threads : \A b : stays(u, b).alone = b
  <2>1. \A b : enters(b).alone = b
    BY DEF Idle
  <2>2. ASSUME NEW u \in Threads, NEW b PROVE stays(u, b).alone = b
    BY <1>1 DEF Thread
  <2> QED BY <2>1, <2>2
<1> HIDE DEF enters, stays, single, others
<1>4. /\ th'[t].alone = single
      /\ \A u \in Threads \ {t} : th'[u].alone = (th[u].alone /\ u \notin others)
  BY <1>2, <1>3, Zenon
<1> QED BY <1>4 DEF single, others, QueuedWrite

(* Entering, closing, completing and what happens to a file as a whole.      *)
LEMMA NextSize ==
  ASSUME FileInv, CallInv, SizeInv, [Next]_vars
  PROVE  SizeInv'
<1>0. TypeInv /\ th \in [Threads -> Thread] /\ kiocb \in [Threads -> Iocb]
  BY TypeParts DEF FileInv, ThreadsOK, IocbsOK
<1>1. ASSUME NEW t \in Threads, NEW f \in Files \cup {NoFile}, NEW op \in Ops \ {"none"},
             Begin(t, f, op)
      PROVE  SizeInv'
  <2>1. /\ th[t].pc = "idle" /\ th'[t].op = op /\ th'[t].pc = "in" /\ ~th'[t].aio
        /\ \A u \in Threads \ {t} : SameCall(u)
        /\ UNCHANGED <<usize, lsize, kiocb, size_excuse>>
    BY <1>0, <1>1, BeginEffect
  <2>2. /\ \A u \in Threads \ {t} : th'[u].alone =>
               /\ th[u].alone
               /\ op \in Sizing => th[u].op \notin Sizing
        /\ th'[t].alone /\ op \in Sizing =>
               \A u \in Threads : ~QueuedWrite(u) /\ th[u].op \notin Sizing
    BY <1>0, <1>1, EnterAlone DEF Clash
  <2>3. th[t].op = "none" /\ "none" \notin Sizing
    BY <2>1, TypeParts DEF FileInv, ThreadsOK, ThreadOK, Sizing
  <2>4. \A u \in Threads : QueuedWrite(u)' <=> QueuedWrite(u)
    BY <2>1 DEF QueuedWrite
  <2>5. SizeEven' <=> SizeEven
    BY <2>1 DEF SizeEven
  <2>6. SizeAgrees'
    <3>1. \A u \in Threads : th[u].op \in Sizing => th'[u].op \in Sizing
      BY <2>1, <2>3 DEF SameCall
    <3> QED BY <2>1, <3>1 DEF SizeInv, SizeAgrees
  <2>7. SizeOK(t)'
    <3>1. ASSUME op \in Sizing, th'[t].alone PROVE SizeEven
      BY <2>2, <3>1 DEF SizeInv, SizeAgrees, SizeEven, QueuedWrite
    <3>2. ASSUME op \in Sizing, th'[t].alone
          PROVE  \A u \in Threads \ {t} : th'[u].op \notin Sizing /\ ~QueuedWrite(u)'
      BY <2>1, <2>2, <2>4, <3>2 DEF SameCall
    <3> QED BY <2>1, <2>2, <2>4, <2>5, <3>1, <3>2 DEF SizeOK
  <2>8. ASSUME NEW u \in Threads, u # t PROVE SizeOK(u)'
    <3>1. SizeOK(u) /\ SameCall(u)
      BY <2>1, <2>8 DEF SizeInv
    <3>2. ASSUME th'[u].op \in Sizing, th'[u].alone
          PROVE  /\ th[u].op \in Sizing /\ th[u].alone
                 /\ \A v \in Threads \ {u} : th'[v].op \notin Sizing /\ ~QueuedWrite(v)'
      <4>1. th[u].op \in Sizing /\ th[u].alone /\ op \notin Sizing
        BY <2>2, <2>8, <3>1, <3>2 DEF SameCall
      <4>2. \A v \in Threads \ {u} : th[v].op \notin Sizing /\ ~QueuedWrite(v)
        BY <3>1, <4>1 DEF SizeOK
      <4> QED BY <2>1, <2>4, <4>1, <4>2 DEF SameCall
    <3> QED BY <2>1, <2>4, <2>5, <3>1, <3>2 DEF SizeOK, SameCall
  <2> QED BY <2>6, <2>7, <2>8 DEF SizeInv
<1>2. ASSUME NEW t \in Threads, NEW f \in Files, Close(t, f) PROVE SizeInv'
  <2>1. /\ th' = [th EXCEPT ![t] = [Idle EXCEPT !.op = "close", !.pc = "in", !.f = f]]
        /\ UNCHANGED <<usize, lsize, kiocb, size_excuse>> /\ th[t].pc = "idle"
    BY <1>2 DEF Close
  <2>2. th'[t].op = "close" /\ \A u \in Threads \ {t} : th'[u] = th[u]
    BY <1>0, <2>1 DEF Idle
  <2>3. th[t].op = "none"
    BY <2>1, TypeParts DEF FileInv, ThreadsOK, ThreadOK
  <2> QED BY <2>1, <2>2, <2>3, SizeKept DEF Sizing, QueuedWrite
<1>3. ASSUME NEW t \in Threads, Call(t) PROVE SizeInv'
  <2>1. /\ {"forward", "write", "setattr", "link", "fault", "mmap"} \cup Moving \cup Iter
             \subseteq Ops \ {"none"}
        /\ Dirs \subseteq Files
    BY Bounds DEF Ops, Moving, Iter
  <2> QED BY <1>1, <1>2, <1>3, <2>1 DEF Call, Enter, EnterLink
<1>4. ASSUME UNCHANGED <<usize, lsize, th, size_excuse>>,
             \A u \in Threads : QueuedWrite(u)' <=> QueuedWrite(u)
      PROVE  SizeInv'
  <2>1. SizeEven' <=> SizeEven
    BY <1>4 DEF SizeEven
  <2>2. SizeAgrees'
    BY <1>4 DEF SizeInv, SizeAgrees, QueuedWrite
  <2>3. ASSUME NEW u \in Threads PROVE SizeOK(u)'
    <3>1. SizeOK(u)
      BY DEF SizeInv
    <3> QED BY <1>4, <2>1, <3>1 DEF SizeOK
  <2> QED BY <2>2, <2>3 DEF SizeInv
<1>5. ASSUME NEW t \in Threads, Complete(t) PROVE SizeInv'
  <2>1. /\ kiocb[t].st = "queued" /\ usize' = usize
        /\ lsize' = IF kiocb[t].write THEN Max({lsize, kiocb[t].n}) ELSE lsize
        /\ size_excuse' = (size_excuse \/ kiocb[t].write)
        /\ th' = [u \in Threads |->
                    IF kiocb[t].write /\ th[u].op \in Sizing
                    THEN [th[u] EXCEPT !.alone = FALSE] ELSE th[u]]
    BY <1>5 DEF Complete
  <2>2. CASE kiocb[t].write
    <3>1. size_excuse'
      BY <2>1, <2>2, Zenon
    <3>2. ASSUME NEW u \in Threads PROVE ~(th'[u].op \in Sizing /\ th'[u].alone)
      BY <1>0, <2>1, <2>2 DEF Thread
    <3> QED BY <3>1, <3>2 DEF SizeInv, SizeAgrees, SizeOK
  <2>3. CASE ~kiocb[t].write
    <3>1. th' = th /\ lsize' = lsize /\ kiocb[t].write = FALSE
      BY <1>0, <2>1, <2>3 DEF Iocb
    <3>2. size_excuse' = size_excuse
      <4>1. size_excuse \in BOOLEAN
        BY TypeParts DEF FileInv, SizesOK
      <4>2. CASE size_excuse
        BY <2>1, <4>1, <4>2
      <4>3. CASE ~size_excuse
        BY <2>1, <2>3, <4>1, <4>3
      <4> QED BY <4>2, <4>3
    <3>3. PICK k \in Iocb : kiocb' = [kiocb EXCEPT ![t] = k] /\ k.st \in {"gone", "none"}
      BY <1>5, CompleteEffect
    <3>4. \A u \in Threads : QueuedWrite(u)' <=> QueuedWrite(u)
      BY <1>0, <2>3, <3>3 DEF QueuedWrite
    <3> QED BY <1>4, <2>1, <3>1, <3>2, <3>4
  <2> QED BY <2>2, <2>3
<1>6. ASSUME NEW f \in Files, trfs_open(f) \/ trfs_file_release(f) \/ Munmap(f) PROVE SizeInv'
  BY <1>4, <1>6 DEF trfs_open, trfs_file_release, Munmap, QueuedWrite
<1>7. CASE UNCHANGED vars
  BY <1>4, <1>7 DEF vars, QueuedWrite
<1> QED BY <1>3, <1>5, <1>6, <1>7, StepSize, LinkSize DEF Next

-----------------------------------------------------------------------------
(* Positions.                                                                *)

(* The claim of a thread that another one does not interfere with.           *)
LEMMA PosUntouched ==
  ASSUME NEW u \in Threads, PosOK(u), th[u].op \in Moving => th[u].f \in Files,
         th'[u].op = th[u].op, th'[u].f = th[u].f, th'[u].pc = th[u].pc, th'[u].n = th[u].n,
         th'[u].ok = th[u].ok,
         th'[u].alone => th[u].alone,
         th[u].op \in Moving /\ th'[u].alone =>
           /\ SamePos(th[u].f) /\ (th[u].f \in pos_excuse' <=> th[u].f \in pos_excuse)
           /\ \A v \in Threads \ {u} : ~(th'[v].op \in Moving /\ th'[v].f = th[u].f)
  PROVE  PosOK(u)'
<1> SUFFICES ASSUME th[u].op \in Moving, th'[u].alone
             PROVE  PosOK(u)'
  BY DEF PosOK
<1>1. /\ SamePos(th[u].f) /\ (th[u].f \in pos_excuse' <=> th[u].f \in pos_excuse)
      /\ \A v \in Threads \ {u} : ~(th'[v].op \in Moving /\ th'[v].f = th'[u].f)
  OBVIOUS
<1>2. /\ th[u].pc = "in" => PosEven(th[u].f)
      /\ th[u].op = "llseek" /\ th[u].pc = "set" => F(u).pos = th[u].n
      /\ th[u].op = "llseek" /\ th[u].pc = "cur" =>
           \/ th[u].f \in pos_excuse
           \/ F(u).pos = F(u).lpos + th[u].n
      /\ th[u].op = "readdir" /\ th[u].pc \in {"set", "back"} =>
           \/ th[u].n = F(u).lpos
           \/ ~th[u].ok /\ th[u].f \in pos_excuse
  BY DEF PosOK
<1> QED BY <1>1, <1>2 DEF PosOK, PosEven, SamePos, F

(* A thread does something that has nothing to do with positions.            *)
LEMMA PosKept ==
  ASSUME TypeInv, PosInv, NEW t \in Threads, th'[t].op \notin Moving, th[t].op \notin Moving,
         \A u \in Threads \ {t} : SameCall(u) /\ (th'[u].alone => th[u].alone),
         pos_excuse' = pos_excuse, \A g \in Files : SamePos(g)
  PROVE  PosInv'
<1>1. Dirs \subseteq Files /\ \A u \in Threads : th[u].op \in Moving => th[u].f \in Files
  BY TypeParts, Bounds DEF ThreadsOK, ThreadOK
<1>2. PosAgrees'
  <2>1. \A u \in Threads : th[u].op \in Moving => th'[u].op \in Moving /\ th'[u].f = th[u].f
    BY DEF SameCall
  <2> QED BY <1>1, <2>1 DEF PosInv, PosAgrees, SamePos
<1>3. ASSUME NEW u \in Threads, u # t PROVE PosOK(u)'
  <2>1. PosOK(u) /\ SameCall(u)
    BY <1>3 DEF PosInv
  <2>2. th[u].op \in Moving /\ th[u].alone =>
          \A v \in Threads \ {u} : ~(th'[v].op \in Moving /\ th'[v].f = th[u].f)
    BY <2>1 DEF PosOK, SameCall
  <2> QED BY <1>1, <1>3, <2>1, <2>2, PosUntouched DEF SameCall
<1>4. PosOK(t)'
  BY DEF PosOK
<1> QED BY <1>2, <1>3, <1>4 DEF PosInv

(* A step of a call that does not move.                                      *)
LEMMA OtherPos ==
  ASSUME TypeInv, PosInv, NEW t \in Threads, th[t].op \notin Moving, Minds(t)
  PROVE  PosInv'
<1>1. /\ \A u \in Threads \ {t} : SameCall(u) /\ (th'[u].alone => th[u].alone)
      /\ \A g \in Files : SamePos(g)
  BY DEF Minds, SameCall
<1>2. pos_excuse' = pos_excuse /\ th'[t].op \notin Moving
  BY DEF Minds, GoesOn, Settles, Excuse, Idle, Moving
<1> QED BY <1>1, <1>2, PosKept

(* A call that moves a directory concerns nobody who is alone.               *)
LEMMA OwnPos ==
  ASSUME TypeInv, PosInv, NEW t \in Threads, th[t].op \in Moving, Minds(t), PosOK(t)',
         \/ th'[t].op \in Moving
         \/ th[t].f \in pos_excuse'
         \/ file'[th[t].f].pos = file'[th[t].f].lpos
  PROVE  PosInv'
<1>1. Dirs \subseteq Files /\ \A u \in Threads : th[u].op \in Moving => th[u].f \in Files
  BY TypeParts, Bounds DEF ThreadsOK, ThreadOK
<1>2. /\ \A u \in Threads \ {t} : th'[u] = th[u]
      /\ \A g \in Files : g # th[t].f => SamePos(g)
  BY DEF Minds
<1>3. /\ th'[t].op \in Moving => th'[t].f = th[t].f
      /\ \A g : g # th[t].f => (g \in pos_excuse' <=> g \in pos_excuse)
  <2>1. CASE GoesOn(t)
    BY <2>1 DEF GoesOn
  <2>2. CASE Settles(t)
    BY <2>2 DEF Settles, Excuse, Idle, Moving
  <2> QED BY <2>1, <2>2 DEF Minds
<1>4. PosAgrees'
  <2>1. ASSUME NEW d \in Dirs, d # th[t].f
        PROVE  \/ d \in pos_excuse'
               \/ \E u \in Threads : th'[u].op \in Moving /\ th'[u].f = d
               \/ file'[d].pos = file'[d].lpos
    <3>1. \/ d \in pos_excuse
          \/ \E u \in Threads : th[u].op \in Moving /\ th[u].f = d
          \/ file[d].pos = file[d].lpos
      BY DEF PosInv, PosAgrees
    <3> QED BY <1>1, <1>2, <1>3, <2>1, <3>1 DEF SamePos
  <2> QED BY <1>3, <2>1 DEF PosAgrees
<1>5. ASSUME NEW u \in Threads, u # t PROVE PosOK(u)'
  <2>1. PosOK(u) /\ th'[u] = th[u]
    BY <1>2, <1>5 DEF PosInv
  <2>2. ASSUME th[u].op \in Moving, th[u].alone
        PROVE  /\ th[u].f # th[t].f
               /\ \A v \in Threads \ {u} : ~(th'[v].op \in Moving /\ th'[v].f = th[u].f)
    <3>1. \A v \in Threads \ {u} : ~(th[v].op \in Moving /\ th[v].f = th[u].f)
      BY <2>1, <2>2 DEF PosOK
    <3> QED BY <1>2, <1>3, <1>5, <3>1
  <2> QED BY <1>1, <1>2, <1>3, <2>1, <2>2, PosUntouched
<1> QED BY <1>4, <1>5 DEF PosInv

(* A call that was not alone leaves an excuse behind.                        *)
LEMMA CrowdedPos ==
  ASSUME TypeInv, PosInv, NEW t \in Threads, th[t].op \in Moving, ~th[t].alone, Minds(t)
  PROVE  PosInv'
<1>1. CASE GoesOn(t)
  <2>1. th'[t].op \in Moving /\ ~th'[t].alone
    BY <1>1 DEF GoesOn
  <2> QED BY <2>1, OwnPos DEF PosOK
<1>2. CASE Settles(t)
  <2>1. th'[t].op \notin Moving /\ th[t].f \in pos_excuse'
    BY <1>2 DEF Settles, Excuse, Idle, Moving
  <2> QED BY <2>1, OwnPos DEF PosOK
<1> QED BY <1>1, <1>2 DEF Minds

(* A call that is alone and goes on.                                         *)
LEMMA AlonePos ==
  ASSUME TypeInv, PosInv, NEW t \in Threads, th[t].op \in Moving, th[t].alone, Minds(t),
         GoesOn(t), th'[t].pc # "in",
         th[t].op = "llseek" /\ th'[t].pc = "set" => file'[th[t].f].pos = th'[t].n,
         th[t].op = "llseek" /\ th'[t].pc = "cur" =>
           \/ th[t].f \in pos_excuse
           \/ file'[th[t].f].pos = file'[th[t].f].lpos + th'[t].n,
         th[t].op = "readdir" /\ th'[t].pc \in {"set", "back"} =>
           \/ th'[t].n = file'[th[t].f].lpos
           \/ ~th'[t].ok /\ th[t].f \in pos_excuse
  PROVE  PosInv'
<1>1. \A u \in Threads \ {t} : ~(th'[u].op \in Moving /\ th'[u].f = th[t].f)
  BY DEF PosInv, PosOK, Minds
<1>2. th'[t].op = th[t].op /\ th'[t].f = th[t].f /\ pos_excuse' = pos_excuse
  BY DEF GoesOn
<1>3. PosOK(t)'
  BY <1>1, <1>2 DEF PosOK, F
<1> QED BY <1>2, <1>3, OwnPos

(* A call that is alone and ends.                                            *)
LEMMA EndPos ==
  ASSUME TypeInv, PosInv, NEW t \in Threads, th[t].op \in Moving, th[t].alone, Minds(t),
         th'[t] = Idle, th[t].f \in pos_excuse' \/ file'[th[t].f].pos = file'[th[t].f].lpos
  PROVE  PosInv'
<1>1. th'[t].op \notin Moving
  BY DEF Idle, Moving
<1> QED BY <1>1, OwnPos DEF PosOK

(* A step of a call that is alone.  A read ends where the lower directory    *)
(* is; a seek moves both positions to the same place or by the same offset.  *)
LEMMA StepPosAlone ==
  ASSUME FileInv, CallInv, PosInv, NEW t \in Threads, Step(t),
         th[t].op \in Moving, th[t].alone
  PROVE  PosInv'
<1>0. TypeInv /\ th[t].f # NoFile /\ Minds(t) /\ PosOK(t)
  BY StepInside, StepMinds DEF FileInv, PosInv
<1>1. /\ th \in [Threads -> Thread] /\ file \in [Files -> FileRec] /\ th[t] \in Thread
      /\ ThreadOK(t) /\ F(t) \in FileRec /\ th[t].f \in Files
  BY <1>0, TypeParts, HasFile DEF ThreadsOK, FilesOK
<1>2. /\ th[t].pc = "in" => PosEven(th[t].f)
      /\ th[t].op = "llseek" /\ th[t].pc = "set" => F(t).pos = th[t].n
      /\ th[t].op = "llseek" /\ th[t].pc = "cur" =>
           \/ th[t].f \in pos_excuse
           \/ F(t).pos = F(t).lpos + th[t].n
      /\ th[t].op = "readdir" /\ th[t].pc \in {"set", "back"} =>
           \/ th[t].n = F(t).lpos
           \/ ~th[t].ok /\ th[t].f \in pos_excuse
  BY <1>0 DEF PosOK
<1>3. ASSUME NEW sets \in BOOLEAN, NEW breaks \in BOOLEAN, Excuse(t, sets, breaks)
      PROVE  /\ breaks => th[t].f \in pos_excuse'
             /\ ~breaks /\ ~sets => pos_excuse' = pos_excuse
  BY <1>3 DEF Excuse
<1>4. ASSUME NEW r \in FileRec, Return(t, r)
      PROVE  /\ th'[t] = Idle
             /\ file'[th[t].f].pos = r.pos /\ file'[th[t].f].lpos = r.lpos
  BY <1>1, <1>4 DEF Return, FileRec
<1>5. ASSUME Refused(t), th[t].pc = "in" PROVE PosInv'
  <2>1. /\ th'[t] = Idle /\ Excuse(t, FALSE, FALSE)
        /\ file'[th[t].f].pos = F(t).pos /\ file'[th[t].f].lpos = F(t).lpos
    BY <1>1, <1>4, <1>5 DEF Refused
  <2>2. pos_excuse' = pos_excuse
    BY <1>3, <2>1
  <2> QED BY <1>0, <1>2, <1>5, <2>1, <2>2, EndPos DEF PosEven, F
<1>6. ASSUME Oops(t) PROVE PosInv'
  <2>1. /\ th'[t].pc = "oops" /\ th'[t].op = th[t].op
        /\ th'[t].f = th[t].f /\ th'[t].alone = th[t].alone
        /\ UNCHANGED <<size_excuse, pos_excuse>>
    BY <1>1, <1>6 DEF Oops, Goto, Thread
  <2>2. GoesOn(t)
    BY <2>1 DEF GoesOn
  <2> QED BY <1>0, <2>1, <2>2, AlonePos
<1>7. CASE trfs_readdir(t)
  <2>0. th[t].op = "readdir"
    BY <1>7 DEF trfs_readdir, At
  <2>1. ASSUME NEW p \in F(t).lpos .. MaxPos, file' = [file EXCEPT ![th[t].f].lpos = p],
               th' = [th EXCEPT ![t].pc = "set", ![t].n = p],
               UNCHANGED <<size_excuse, pos_excuse>>
        PROVE  PosInv'
    <3>1. /\ th'[t].pc = "set" /\ th'[t].n = p /\ th'[t].op = th[t].op
          /\ th'[t].f = th[t].f /\ th'[t].alone = th[t].alone
      BY <1>1, <2>1 DEF Thread
    <3>2. file'[th[t].f].lpos = p
      BY <1>1, <2>1 DEF FileRec
    <3>3. GoesOn(t)
      BY <2>1, <3>1 DEF GoesOn
    <3> QED BY <1>0, <2>0, <3>1, <3>2, <3>3, AlonePos
  <2>2. ASSUME th[t].pc = "in",
               th' = [th EXCEPT ![t].pc = "set", ![t].n = F(t).pos, ![t].ok = FALSE],
               UNCHANGED <<file, size_excuse, pos_excuse>>
        PROVE  PosInv'
    <3>1. /\ th'[t].pc = "set" /\ th'[t].n = F(t).pos /\ ~th'[t].ok /\ th'[t].op = th[t].op
          /\ th'[t].f = th[t].f /\ th'[t].alone = th[t].alone
      BY <1>1, <2>2 DEF Thread
    <3>2. th[t].f \in pos_excuse \/ F(t).pos = file'[th[t].f].lpos
      BY <1>2, <2>2 DEF PosEven, F
    <3>3. GoesOn(t)
      BY <2>2, <3>1 DEF GoesOn
    <3> QED BY <1>0, <2>0, <3>1, <3>2, <3>3, AlonePos
  <2>3. ASSUME th[t].pc = "set", file' = [file EXCEPT ![th[t].f].pos = F(t).lpos],
               Goto(t, "back"), UNCHANGED <<size_excuse, pos_excuse>>
        PROVE  PosInv'
    <3>1. /\ th'[t].pc = "back" /\ th'[t].n = th[t].n /\ th'[t].ok = th[t].ok
          /\ th'[t].op = th[t].op /\ th'[t].f = th[t].f /\ th'[t].alone = th[t].alone
      BY <1>1, <2>3 DEF Goto, Thread
    <3>2. file'[th[t].f].lpos = F(t).lpos
      BY <1>1, <2>3 DEF FileRec, F
    <3>3. GoesOn(t)
      BY <2>3, <3>1 DEF GoesOn
    <3> QED BY <1>0, <1>2, <2>0, <2>3, <3>1, <3>2, <3>3, AlonePos
  <2>4. CASE At(t, "readdir", "back")
    <3> DEFINE r == [F(t) EXCEPT !.pos = th[t].n]
    <3>1. Return(t, r)
      BY <1>7, <2>4 DEF trfs_readdir, At
    <3>2. Excuse(t, th[t].ok, FALSE)
      BY <1>7, <2>4, Zenon DEF trfs_readdir, At
    <3>3. th[t].n \in 0 .. MaxPos /\ th[t].ok \in BOOLEAN
      BY <1>1, <2>4, Bounds DEF ThreadOK, Thread, At, Moving
    <3>4. r \in FileRec /\ r.pos = th[t].n /\ r.lpos = F(t).lpos
      BY <1>1, <3>3 DEF FileRec
    <3> HIDE DEF r
    <3>5. th'[t] = Idle /\ file'[th[t].f].pos = th[t].n /\ file'[th[t].f].lpos = F(t).lpos
      BY <1>4, <3>1, <3>4
    <3>6. \/ th[t].n = F(t).lpos
          \/ th[t].f \in pos_excuse'
      BY <1>2, <1>3, <2>4, <3>2, <3>3 DEF At
    <3> QED BY <1>0, <3>5, <3>6, EndPos
  <2> QED BY <1>6, <1>7, <2>1, <2>2, <2>3, <2>4 DEF trfs_readdir, At
<1>8. CASE trfs_file_llseek(t)
  <2>0. th[t].op = "llseek"
    BY <1>8 DEF trfs_file_llseek, At
  <2>1. CASE At(t, "llseek", "in")
    <3>1. PICK off \in 0 .. MaxPos, whence \in {"set", "cur"} :
            LET p == NewPos(whence, F(t).pos, off)
            IN \/ Refused(t)
               \/ /\ p <= MaxPos
                  /\ \/ Return(t, [F(t) EXCEPT !.pos = p]) /\ Excuse(t, FALSE, TRUE)
                     \/ /\ file' = [file EXCEPT ![th[t].f].pos = p]
                        /\ th' = [th EXCEPT ![t].pc = whence, ![t].n = off]
                        /\ UNCHANGED <<size_excuse, pos_excuse>>
      BY <1>8, <2>1 DEF trfs_file_llseek, At
    <3> DEFINE p == NewPos(whence, F(t).pos, off)
    <3>2. p <= MaxPos => p \in 0 .. MaxPos
      BY <1>1, Bounds DEF NewPos, FileRec
    <3>3. (whence = "set" => p = off) /\ (whence = "cur" => p = F(t).pos + off)
      BY DEF NewPos
    <3>4. PosEven(th[t].f)
      BY <1>2, <2>1 DEF At
    <3> HIDE DEF p
    <3>5. ASSUME p \in 0 .. MaxPos, Return(t, [F(t) EXCEPT !.pos = p]), Excuse(t, FALSE, TRUE)
          PROVE  PosInv'
      <4>1. [F(t) EXCEPT !.pos = p] \in FileRec
        BY <1>1, <3>5 DEF FileRec
      <4>2. th'[t] = Idle /\ th[t].f \in pos_excuse'
        BY <1>3, <1>4, <3>5, <4>1
      <4> QED BY <1>0, <4>2, EndPos
    <3>6. ASSUME p \in 0 .. MaxPos, file' = [file EXCEPT ![th[t].f].pos = p],
                 th' = [th EXCEPT ![t].pc = whence, ![t].n = off],
                 UNCHANGED <<size_excuse, pos_excuse>>
          PROVE  PosInv'
      <4>1. /\ th'[t].pc = whence /\ th'[t].n = off /\ th'[t].op = th[t].op
            /\ th'[t].f = th[t].f /\ th'[t].alone = th[t].alone
        BY <1>1, <3>6 DEF Thread
      <4>2. file'[th[t].f].pos = p /\ file'[th[t].f].lpos = F(t).lpos
        BY <1>1, <3>6 DEF FileRec, F
      <4>3. GoesOn(t)
        BY <3>6, <4>1 DEF GoesOn
      <4>4. whence = "cur" => th[t].f \in pos_excuse \/ p = F(t).lpos + off
        BY <3>3, <3>4 DEF PosEven, F
      <4> QED BY <1>0, <2>0, <3>1, <3>3, <4>1, <4>2, <4>3, <4>4, AlonePos
    <3> QED BY <1>5, <2>1, <3>1, <3>2, <3>5, <3>6 DEF p, At
  <2>2. CASE th[t].pc \in {"set", "cur"}
    <3> DEFINE p == NewPos(th[t].pc, F(t).lpos, th[t].n)
               q == IF p <= MaxPos THEN p ELSE F(t).lpos
    <3>1. \/ Oops(t)
          \/ Return(t, [F(t) EXCEPT !.lpos = q]) /\ Excuse(t, th[t].pc = "set", FALSE)
      BY <1>8, <2>2 DEF trfs_file_llseek, At
    <3>2. q \in 0 .. MaxPos /\ (th[t].pc = "set") \in BOOLEAN
      BY <1>1, <2>0, <2>2, Bounds DEF NewPos, FileRec, Thread
    <3>3. th[t].n \in Nat /\ th[t].n <= MaxPos /\ F(t).pos <= MaxPos
      BY <1>1, <2>0, <2>2, Bounds DEF ThreadOK, FileRec, Thread
    <3>4. \/ F(t).pos = q
          \/ th[t].pc = "cur" /\ th[t].f \in pos_excuse
      <4>1. CASE th[t].pc = "set"
        BY <1>2, <2>0, <3>3, <4>1 DEF NewPos
      <4>2. CASE th[t].pc = "cur"
        BY <1>2, <2>0, <3>3, <4>2 DEF NewPos
      <4> QED BY <2>2, <4>1, <4>2
    <3> HIDE DEF q
    <3>5. ASSUME Return(t, [F(t) EXCEPT !.lpos = q]), Excuse(t, th[t].pc = "set", FALSE)
          PROVE  PosInv'
      <4> DEFINE r == [F(t) EXCEPT !.lpos = q]
      <4>1. r \in FileRec /\ r.lpos = q /\ r.pos = F(t).pos
        BY <1>1, <3>2 DEF FileRec
      <4> HIDE DEF r
      <4>2. th'[t] = Idle /\ file'[th[t].f].pos = F(t).pos /\ file'[th[t].f].lpos = q
        BY <1>4, <3>5, <4>1 DEF r
      <4>3. th[t].pc = "cur" => pos_excuse' = pos_excuse
        BY <1>3, <3>2, <3>5
      <4> QED BY <1>0, <3>4, <4>2, <4>3, EndPos
    <3> QED BY <1>6, <3>1, <3>5
  <2> QED BY <1>8, <2>1, <2>2 DEF trfs_file_llseek
<1>9. th[t].op \in {"readdir", "llseek"} /\ th[t].pc \notin {"copy", "store"}
  BY <1>1 DEF Moving, ThreadOK
<1> QED BY <1>7, <1>8, <1>9
        DEF Step, At, Iter, trfs_flush, trfs_fsync, trfs_fasync, trfs_unlocked_ioctl,
            trfs_compat_ioctl, LowerWrite, CopyRead, CopyStore, trfs_setattr, IterGet, IterLower, IterRestore, IterPut,
            IterReturn, trfs_mmap, trfs_fault, trfs_page_mkwrite

LEMMA StepPos ==
  ASSUME FileInv, CallInv, PosInv, NEW t \in Threads, Step(t)
  PROVE  PosInv'
BY StepMinds, OtherPos, CrowdedPos, StepPosAlone DEF FileInv

(* Entering, closing, completing and what happens to a file as a whole.      *)
LEMMA NextPos ==
  ASSUME FileInv, CallInv, PosInv, [Next]_vars
  PROVE  PosInv'
<1>0. /\ TypeInv /\ th \in [Threads -> Thread] /\ file \in [Files -> FileRec]
      /\ Dirs \subseteq Files /\ \A u \in Threads : th[u].op \in Moving => th[u].f \in Dirs
  BY TypeParts, Bounds DEF FileInv, ThreadsOK, FilesOK, ThreadOK
<1>1. ASSUME NEW t \in Threads, NEW f \in Files, NEW op \in Ops \ {"none", "link"},
             Enter(t, f, op), op \in Moving => f \in Dirs
      PROVE  PosInv'
  <2>1. /\ th[t].pc = "idle" /\ th'[t].op = op /\ th'[t].pc = "in" /\ th'[t].f = f
        /\ \A u \in Threads \ {t} : SameCall(u)
        /\ pos_excuse' = pos_excuse /\ file' = [file EXCEPT ![f].count = @ + 1]
    BY <1>0, <1>1, EnterEffect
  <2>2. /\ \A u \in Threads \ {t} : th'[u].alone =>
               /\ th[u].alone
               /\ op \in Moving => ~(th[u].op \in Moving /\ th[u].f = f)
        /\ th'[t].alone /\ op \in Moving =>
               \A u \in Threads : ~(th[u].op \in Moving /\ th[u].f = f)
    BY <1>0, <1>1, EnterAlone DEF Clash, Enter
  <2>3. th[t].op = "none" /\ "none" \notin Moving
    BY <2>1, TypeParts DEF FileInv, ThreadsOK, ThreadOK, Moving
  <2>4. \A g \in Files : SamePos(g)
    BY <1>0, <2>1, CountOnly
  <2>5. CASE op \notin Moving
    BY <1>0, <2>1, <2>2, <2>3, <2>4, <2>5, PosKept
  <2>6. CASE op \in Moving
    <3>1. PosAgrees'
      <4>1. \A u \in Threads : th[u].op \in Moving => th'[u].op \in Moving /\ th'[u].f = th[u].f
        BY <2>1, <2>3 DEF SameCall
      <4> QED BY <1>0, <2>1, <2>4, <4>1 DEF PosInv, PosAgrees, SamePos
    <3>2. PosOK(t)'
      <4>1. ASSUME th'[t].alone
            PROVE  /\ file'[f].pos = file'[f].lpos \/ f \in pos_excuse
                   /\ \A u \in Threads \ {t} : ~(th'[u].op \in Moving /\ th'[u].f = f)
        <5>1. \A u \in Threads : ~(th[u].op \in Moving /\ th[u].f = f)
          BY <2>2, <2>6, <4>1
        <5>2. file[f].pos = file[f].lpos \/ f \in pos_excuse
          BY <1>1, <2>6, <5>1 DEF PosInv, PosAgrees
        <5> QED BY <2>1, <2>4, <5>1, <5>2 DEF SamePos, SameCall
      <4> QED BY <2>1, <4>1 DEF PosOK, PosEven
    <3>3. ASSUME NEW u \in Threads, u # t PROVE PosOK(u)'
      <4>1. PosOK(u) /\ SameCall(u)
        BY <2>1, <3>3 DEF PosInv
      <4>2. ASSUME th[u].op \in Moving, th'[u].alone
            PROVE  \A v \in Threads \ {u} : ~(th'[v].op \in Moving /\ th'[v].f = th[u].f)
        <5>1. th[u].alone /\ th[u].f # f
          BY <2>2, <2>6, <3>3, <4>2
        <5>2. \A v \in Threads \ {u} : ~(th[v].op \in Moving /\ th[v].f = th[u].f)
          BY <4>1, <4>2, <5>1 DEF PosOK
        <5> QED BY <2>1, <5>1, <5>2 DEF SameCall
      <4> QED BY <1>0, <2>1, <2>2, <2>4, <3>3, <4>1, <4>2, PosUntouched DEF SameCall
    <3> QED BY <3>1, <3>2, <3>3 DEF PosInv
  <2> QED BY <2>5, <2>6
<1>2. ASSUME NEW t \in Threads, NEW f \in Files, Close(t, f) PROVE PosInv'
  <2>1. /\ th' = [th EXCEPT ![t] = [Idle EXCEPT !.op = "close", !.pc = "in", !.f = f]]
        /\ file' = [file EXCEPT ![f].fd = FALSE]
        /\ pos_excuse' = pos_excuse /\ th[t].pc = "idle"
    BY <1>2 DEF Close
  <2>2. th'[t].op = "close" /\ \A u \in Threads \ {t} : th'[u] = th[u]
    BY <1>0, <2>1 DEF Idle
  <2>3. th[t].op = "none"
    BY <2>1, TypeParts DEF FileInv, ThreadsOK, ThreadOK
  <2>4. \A g \in Files : SamePos(g)
    BY <1>0, <2>1 DEF FileRec, SamePos
  <2> QED BY <1>0, <2>1, <2>2, <2>3, <2>4, PosKept DEF Moving, SameCall
<1>3. ASSUME NEW t \in Threads, Call(t) PROVE PosInv'
  <2>1. /\ {"forward", "write", "setattr", "fault", "mmap"} \cup Iter
             \subseteq (Ops \ {"none", "link"}) \ Moving
        /\ Moving \subseteq Ops \ {"none", "link"}
    BY Bounds DEF Ops, Moving, Iter
  <2>2. ASSUME EnterLink(t) PROVE PosInv'
    <3>1. Begin(t, NoFile, "link") /\ "link" \in Ops \ {"none"}
      BY <2>2 DEF EnterLink, Ops
    <3>2. \A u \in Threads \ {t} : th'[u].alone => th[u].alone
      BY <1>0, <3>1, EnterAlone
    <3>3. /\ \A u \in Threads \ {t} : SameCall(u)
          /\ th[t].op \notin Moving /\ th'[t].op \notin Moving
          /\ file' = file /\ pos_excuse' = pos_excuse
      BY <1>0, <2>2, LinkAside DEF Moving
    <3>4. \A g \in Files : SamePos(g)
      BY <3>3 DEF SamePos
    <3> QED BY <1>0, <3>2, <3>3, <3>4, PosKept
  <2> QED BY <1>0, <1>1, <1>2, <1>3, <2>1, <2>2 DEF Call
<1>4. ASSUME \A u \in Threads : SameCall(u) /\ (th'[u].alone => th[u].alone),
             pos_excuse' = pos_excuse, \A g \in Files : SamePos(g)
      PROVE  PosInv'
  <2>1. PosAgrees'
    BY <1>0, <1>4 DEF PosInv, PosAgrees, SamePos, SameCall
  <2>2. ASSUME NEW u \in Threads PROVE PosOK(u)'
    <3>1. PosOK(u)
      BY DEF PosInv
    <3>2. th[u].op \in Moving /\ th[u].alone =>
            \A v \in Threads \ {u} : ~(th'[v].op \in Moving /\ th'[v].f = th[u].f)
      BY <1>4, <3>1 DEF PosOK, SameCall
    <3> QED BY <1>0, <1>4, <3>1, <3>2, PosUntouched DEF SameCall
  <2> QED BY <2>1, <2>2 DEF PosInv
<1>5. ASSUME NEW t \in Threads, Complete(t) PROVE PosInv'
  <2>1. \A u \in Threads : SameCall(u)
    BY <1>5, CompleteEffect
  <2>2. PICK f \in Files : \/ file' = [file EXCEPT ![f].count = @ - 1]
                           \/ \E c \in Nat : file' = [file EXCEPT ![f].lcount = c]
    BY <1>5, CompleteEffect
  <2>3. \A g \in Files : SamePos(g)
    BY <1>0, <2>2, CountOnly
  <2>4. /\ pos_excuse' = pos_excuse
        /\ th' = [u \in Threads |->
                    IF kiocb[t].write /\ th[u].op \in Sizing
                    THEN [th[u] EXCEPT !.alone = FALSE] ELSE th[u]]
    BY <1>5 DEF Complete
  <2>5. \A u \in Threads : th'[u].alone => th[u].alone
    BY <1>0, <2>4 DEF Thread
  <2> QED BY <1>4, <2>1, <2>3, <2>4, <2>5
<1>6. ASSUME NEW f \in Files, th' = th, \A g \in Files \ {f} : file'[g] = file[g],
             \A u \in Threads : ~(th[u].op \in Moving /\ th[u].f = f),
             file'[f].pos = file'[f].lpos,
             pos_excuse' = pos_excuse \/ pos_excuse' = pos_excuse \ {f}
      PROVE  PosInv'
  <2>1. \A g : g # f => (g \in pos_excuse' <=> g \in pos_excuse)
    BY <1>6
  <2>2. PosAgrees'
    BY <1>0, <1>6, <2>1 DEF PosInv, PosAgrees
  <2>3. ASSUME NEW u \in Threads PROVE PosOK(u)'
    <3>1. PosOK(u) /\ (th[u].op \in Moving => th[u].f # f)
      BY <1>6 DEF PosInv
    <3>2. th[u].op \in Moving => SamePos(th[u].f)
      BY <1>0, <1>6, <3>1 DEF SamePos
    <3>3. th[u].op \in Moving /\ th[u].alone =>
            \A v \in Threads \ {u} : ~(th'[v].op \in Moving /\ th'[v].f = th[u].f)
      BY <1>6, <3>1 DEF PosOK
    <3> QED BY <1>0, <1>6, <2>1, <3>1, <3>2, <3>3, PosUntouched
  <2> QED BY <2>2, <2>3 DEF PosInv
<1>7. ASSUME NEW f \in Files, trfs_open(f) PROVE PosInv'
  <2> DEFINE r == [Closed EXCEPT !.open = TRUE, !.fd = TRUE, !.info = TRUE,
                                 !.lower = TRUE, !.count = 1, !.lcount = 1]
  <2>1. /\ th' = th /\ pos_excuse' = pos_excuse \ {f} /\ \A u \in Threads : th[u].f # f
        /\ file' = [file EXCEPT ![f] = r] \/ file' = [file EXCEPT ![f] = Closed]
    BY <1>7 DEF trfs_open, Unused
  <2>2. r.pos = r.lpos /\ Closed.pos = Closed.lpos
    BY DEF Closed
  <2> HIDE DEF r
  <2>3. (\A g \in Files \ {f} : file'[g] = file[g]) /\ file'[f].pos = file'[f].lpos
    BY <1>0, <2>1, <2>2
  <2> QED BY <1>6, <2>1, <2>3
<1>8. ASSUME NEW f \in Files, trfs_file_release(f) PROVE PosInv'
  <2> DEFINE r(c) == [Closed EXCEPT !.lcount = c]
  <2>1. /\ th' = th /\ pos_excuse' = pos_excuse /\ file[f].count = 0
        /\ \E c : file' = [file EXCEPT ![f] = r(c)]
    BY <1>8 DEF trfs_file_release
  <2>2. \A c : r(c).pos = r(c).lpos
    BY DEF Closed
  <2> HIDE DEF r
  <2>3. (\A g \in Files \ {f} : file'[g] = file[g]) /\ file'[f].pos = file'[f].lpos
    BY <1>0, <2>1, <2>2
  <2>4. ASSUME NEW u \in Threads, th[u].f = f PROVE th[u].op \notin Moving
    <3>1. th[u].aio
      BY <2>1, <2>4, NotCounted DEF FileInv, Calls
    <3>2. th[u].op \in Iter
      BY <3>1, TypeParts DEF FileInv, ThreadsOK, ThreadOK
    <3> QED BY <3>2 DEF Iter, Moving
  <2> QED BY <1>6, <2>1, <2>3, <2>4
<1>9. ASSUME NEW f \in Files, Munmap(f) PROVE PosInv'
  <2>1. /\ th' = th /\ pos_excuse' = pos_excuse
        /\ file' = [file EXCEPT ![f].maps = @ - 1, ![f].count = @ - 1]
    BY <1>9 DEF Munmap
  <2>2. \A g \in Files : SamePos(g)
    BY <1>0, <2>1 DEF FileRec, SamePos
  <2> QED BY <1>4, <2>1, <2>2 DEF SameCall
<1>10. CASE UNCHANGED vars
  BY <1>4, <1>10 DEF vars, SameCall, SamePos
<1>11. ASSUME NEW t \in Threads, trfs_link(t) PROVE PosInv'
  BY <1>0, <1>11, LinkMinds, OtherPos DEF Moving
<1> QED BY <1>3, <1>5, <1>7, <1>8, <1>9, <1>10, <1>11, StepPos DEF Next

-----------------------------------------------------------------------------
(* The inductive invariant.                                                  *)

(* What a call keeps for itself, it keeps.                                   *)
LEMMA NextCallInv ==
  ASSUME FileInv, CallInv, [Next]_vars
  PROVE  CallInv'
<1>0. /\ TypeInv /\ th \in [Threads -> Thread] /\ kiocb \in [Threads -> Iocb]
      /\ \A u \in Threads : CallOK(u)
  BY TypeParts DEF FileInv, ThreadsOK, IocbsOK, CallInv
<1>1. ASSUME NEW t \in Threads, Step(t) \/ trfs_link(t) PROVE CallInv'
  <2>1. CallOK(t)' /\ \A u \in Threads \ {t} : th'[u] = th[u] /\ kiocb'[u] = kiocb[u]
    BY <1>0, <1>1, StepMinds, LinkMinds DEF Minds
  <2> QED BY <1>0, <2>1 DEF CallInv, CallOK
<1>2. ASSUME NEW t \in Threads, NEW f \in Files \cup {NoFile}, NEW op \in Ops \ {"none"},
             Begin(t, f, op)
      PROVE  CallInv'
  <2>1. /\ ~th'[t].aio /\ \A u \in Threads \ {t} : SameCall(u)
        /\ kiocb' = kiocb
    BY <1>0, <1>2, BeginEffect
  <2>2. th'[t].ok
    <3> DEFINE r(b) == [Idle EXCEPT !.op = op, !.pc = "in", !.f = f, !.alone = b]
    <3>1. \A b : r(b).ok
      BY DEF Idle
    <3>2. \E b : th'[t] = r(b)
      BY <1>2 DEF Begin
    <3> QED BY <3>1, <3>2
  <2> QED BY <1>0, <2>1, <2>2 DEF CallInv, CallOK, SameCall
<1>3. ASSUME NEW t \in Threads, NEW f \in Files, Close(t, f) PROVE CallInv'
  <2>1. /\ th' = [th EXCEPT ![t] = [Idle EXCEPT !.op = "close", !.pc = "in", !.f = f]]
        /\ kiocb' = kiocb
    BY <1>3 DEF Close
  <2>2. th'[t].ok /\ ~th'[t].aio /\ \A u \in Threads \ {t} : th'[u] = th[u]
    BY <1>0, <2>1 DEF Idle
  <2> QED BY <1>0, <2>1, <2>2 DEF CallInv, CallOK
<1>4. ASSUME NEW t \in Threads, Call(t) PROVE CallInv'
  <2>1. /\ {"forward", "write", "setattr", "link", "fault", "mmap"} \cup Moving \cup Iter
             \subseteq Ops \ {"none"}
        /\ Dirs \subseteq Files
    BY Bounds DEF Ops, Moving, Iter
  <2> QED BY <1>2, <1>3, <1>4, <2>1 DEF Call, Enter, EnterLink
<1>5. ASSUME NEW t \in Threads, Complete(t) PROVE CallInv'
  <2>1. \A u \in Threads : SameCall(u)
    BY <1>5, CompleteEffect
  <2> DEFINE k(s) == [NoIocb EXCEPT !.st = s]
  <2>2. \E s : kiocb' = [kiocb EXCEPT ![t] = k(s)]
    BY <1>5 DEF Complete
  <2>3. \A s : ~k(s).write
    BY DEF NoIocb
  <2> HIDE DEF k
  <2>4. ~kiocb'[t].write /\ \A u \in Threads \ {t} : kiocb'[u] = kiocb[u]
    BY <1>0, <2>2, <2>3
  <2> QED BY <1>0, <2>1, <2>4 DEF CallInv, CallOK, SameCall
<1>6. ASSUME UNCHANGED <<th, kiocb>> PROVE CallInv'
  BY <1>0, <1>6 DEF CallInv, CallOK
<1>7. ASSUME NEW f \in Files, trfs_open(f) \/ trfs_file_release(f) \/ Munmap(f) PROVE CallInv'
  BY <1>6, <1>7 DEF trfs_open, trfs_file_release, Munmap
<1>8. CASE UNCHANGED vars
  BY <1>6, <1>8 DEF vars
<1> QED BY <1>1, <1>4, <1>5, <1>7, <1>8 DEF Next

LEMMA AgreeInvariant == Spec => []AgreeInv
<1>1. Init => CallInv /\ SizeInv /\ PosInv
  <2> SUFFICES ASSUME Init PROVE CallInv /\ SizeInv /\ PosInv
    OBVIOUS
  <2>1. /\ \A t \in Threads : th[t] = Idle
        /\ usize = lsize /\ \A d \in Dirs : file[d].pos = file[d].lpos
    BY Bounds DEF Init, Closed
  <2>2. \A t \in Threads : th[t].ok /\ ~th[t].aio /\ ~th[t].alone
    BY <2>1 DEF Idle
  <2>3. CallInv
    BY <2>2 DEF CallInv, CallOK
  <2>4. SizeInv /\ PosInv
    BY <2>1, <2>2 DEF SizeInv, SizeAgrees, SizeOK, PosInv, PosAgrees, PosOK
  <2> QED BY <2>3, <2>4
<1>2. FileInv /\ (CallInv /\ SizeInv /\ PosInv) /\ [Next]_vars
        => (CallInv /\ SizeInv /\ PosInv)'
  BY NextCallInv, NextSize, NextPos
<1>3. Spec => [](CallInv /\ SizeInv /\ PosInv)
  BY <1>1, <1>2, FileInvariant, PTL DEF Spec
<1> QED BY <1>3, FileInvariant, PTL DEF AgreeInv

-----------------------------------------------------------------------------
(* For any number of threads and any interleaving of trfs_write, write_iter, *)
(* trfs_setattr, trfs_link and completions: when no such call runs and none  *)
(* is queued, the size of the upper inode is that of the lower one, unless   *)
(* the last change overlapped with another or with a link, failed below      *)
(* after truncating above, or was queued.                                    *)
THEOREM SizesAgree == Spec => []SizeAgrees
<1>1. AgreeInv => SizeAgrees
  BY DEF AgreeInv, SizeInv
<1> QED BY <1>1, AgreeInvariant, PTL

(* For any number of directories and threads: between the calls of           *)
(* trfs_readdir and trfs_file_llseek the two positions of a directory are    *)
(* the same, unless the last of them overlapped with another or sought an    *)
(* offset that is negative as an int.                                        *)
THEOREM PositionsAgree == Spec => []PosAgrees
<1>1. AgreeInv => PosAgrees
  BY DEF AgreeInv, PosInv
<1> QED BY <1>1, AgreeInvariant, PTL
=============================================================================
