------------------------------- MODULE Trctl -------------------------------
(***************************************************************************)
(* Several trctl processes (hw2/trctl.c) setting the bitmap of one mounted *)
(* trfs through trfs_unlocked_ioctl.  The bitmap is the unsigned long of   *)
(* the source, because trctl switches its bits by adding and subtracting   *)
(* powers of two.  The + and - options work on a local copy that is read   *)
(* once; every change is sent with an ioctl of its own, and another trctl  *)
(* can run between any two of them.                                        *)
(***************************************************************************)
EXTENDS Integers, Sequences

CONSTANTS
  Procs,       \* trctl processes, each running one command
  Commands,    \* the command lines: records [kind, value, opts]
  InitMasks,   \* what earlier commands may have left in the bitmap
  Garbage      \* what an uninitialised unsigned long can hold

BITMAP_MAX == 4095       \* 0xfff
Bits == 0 .. 11          \* OPEN_CALL .. RENAME_CALL

Kinds == {"show", "all", "none", "hex", "options"}
Option == [on : BOOLEAN, bit : Bits]

ASSUME TrctlAssumption ==
  /\ Commands \subseteq [kind : Kinds, value : Nat, opts : Seq(Option)]
  /\ InitMasks \subseteq 0 .. BITMAP_MAX
  /\ Garbage \subseteq Nat /\ Garbage # {}

VARIABLES
  mask,        \* sb_info->mask
  cmd,         \* cmd[p]: the command line of process p
  pc,          \* pc[p]: where process p is
  fd,          \* fd[p]: open("/mnt/trfs") succeeded
  retmapval,   \* retmapval[p]: the local copy of the bitmap
  index,       \* index[p]: the option that is next
  mask0,       \* history: the initial bitmap
  seen         \* history: seen[p]: what retmapval[p] was before the options

vars == <<mask, cmd, pc, fd, retmapval, index, mask0, seen>>

Bit(m, k) == (m \div 2^k) % 2

-----------------------------------------------------------------------------
Goto(p, label) == pc' = [pc EXCEPT ![p] = label]

(* The setting ioctls (ALL, NONE, HEX) of a process: the kernel stores what  *)
(* it is given; on a descriptor that is not open nothing happens.            *)
SetIoctl(p, value) == mask' = IF fd[p] THEN value ELSE mask

(* ioctl(RET): on a descriptor that is not open the copy stays as it was.    *)
RetIoctl(p) ==
  LET v == IF fd[p] THEN mask ELSE retmapval[p] IN
    /\ retmapval' = [retmapval EXCEPT ![p] = v]
    /\ seen' = [seen EXCEPT ![p] = v]

(* The result of open is not checked.                                        *)
Open(p) ==
  /\ pc[p] = "start"
  /\ \E ok \in BOOLEAN : fd' = [fd EXCEPT ![p] = ok]
  /\ Goto(p, "command")
  /\ UNCHANGED <<mask, cmd, retmapval, index, mask0, seen>>

Show(p) ==
  /\ pc[p] = "command" /\ cmd[p].kind = "show"
  /\ RetIoctl(p)
  /\ Goto(p, "close")
  /\ UNCHANGED <<mask, cmd, fd, index, mask0>>

SetAll(p) ==
  /\ pc[p] = "command" /\ cmd[p].kind = "all"
  /\ SetIoctl(p, BITMAP_MAX)
  /\ Goto(p, "close")
  /\ UNCHANGED <<cmd, fd, retmapval, index, mask0, seen>>

SetNone(p) ==
  /\ pc[p] = "command" /\ cmd[p].kind = "none"
  /\ SetIoctl(p, 0)
  /\ Goto(p, "close")
  /\ UNCHANGED <<cmd, fd, retmapval, index, mask0, seen>>

(* Mutant: the range of the hex value is not checked.                        *)
SetHexUnchecked(p) ==
  /\ pc[p] = "command" /\ cmd[p].kind = "hex"
  /\ SetIoctl(p, cmd[p].value)
  /\ Goto(p, "close")
  /\ UNCHANGED <<cmd, fd, retmapval, index, mask0, seen>>

(* A value above BITMAP_MAX (a negative one is one, as unsigned long) is     *)
(* refused by trctl, not by the kernel; so is an argument without 0x.        *)
SetHex(p) ==
  /\ pc[p] = "command" /\ cmd[p].kind = "hex"
  /\ IF cmd[p].value > BITMAP_MAX THEN UNCHANGED mask ELSE SetIoctl(p, cmd[p].value)
  /\ Goto(p, "close")
  /\ UNCHANGED <<cmd, fd, retmapval, index, mask0, seen>>

StartOptions(p) ==
  /\ pc[p] = "command" /\ cmd[p].kind = "options"
  /\ RetIoctl(p)
  /\ Goto(p, "options")
  /\ UNCHANGED <<mask, cmd, fd, index, mask0>>

(* Mutants: the bit is not tested before it is added or subtracted; a bit is *)
(* switched off by clearing it and all lower ones.                           *)
SwitchedBlind(m, o) == IF o.on THEN m + 2^o.bit ELSE m - 2^o.bit

SwitchedBelow(m, o) ==
  CASE o.on /\ Bit(m, o.bit) = 0  -> m + 2^o.bit
    [] ~o.on /\ Bit(m, o.bit) = 1 -> m - (m % 2^(o.bit + 1))
    [] OTHER                      -> m

(* The bitmap after an option: the bit is added when it is clear,            *)
(* subtracted when it is set.                                                *)
Switched(m, o) ==
  CASE o.on /\ Bit(m, o.bit) = 0  -> m + 2^o.bit
    [] ~o.on /\ Bit(m, o.bit) = 1 -> m - 2^o.bit
    [] OTHER                      -> m

(* One turn of the loop over the options; ioctl(HEX) is called only when the *)
(* copy has changed.                                                         *)
ApplyOption(p) ==
  /\ pc[p] = "options" /\ index[p] <= Len(cmd[p].opts)
  /\ LET m == Switched(retmapval[p], cmd[p].opts[index[p]])
     IN  /\ retmapval' = [retmapval EXCEPT ![p] = m]
         /\ IF m = retmapval[p] THEN UNCHANGED mask ELSE SetIoctl(p, m)
  /\ index' = [index EXCEPT ![p] = @ + 1]
  /\ UNCHANGED <<cmd, pc, fd, mask0, seen>>

EndOptions(p) ==
  /\ pc[p] = "options" /\ index[p] > Len(cmd[p].opts)
  /\ Goto(p, "close")
  /\ UNCHANGED <<mask, cmd, fd, retmapval, index, mask0, seen>>

Close(p) ==
  /\ pc[p] = "close"
  /\ Goto(p, "exit")
  /\ UNCHANGED <<mask, cmd, fd, retmapval, index, mask0, seen>>

-----------------------------------------------------------------------------
Init ==
  /\ mask \in InitMasks
  /\ cmd \in [Procs -> Commands]
  /\ pc = [p \in Procs |-> "start"]
  /\ fd = [p \in Procs |-> FALSE]
  /\ retmapval \in [Procs -> Garbage]
  /\ index = [p \in Procs |-> 1]
  /\ mask0 = mask
  /\ seen = retmapval

Next == \E p \in Procs :
  \/ Open(p) \/ Show(p) \/ SetAll(p) \/ SetNone(p) \/ SetHex(p)
  \/ StartOptions(p) \/ ApplyOption(p) \/ EndOptions(p) \/ Close(p)

Spec == Init /\ [][Next]_vars
-----------------------------------------------------------------------------
(* The options of process p that name bit k, as positions.                   *)
Naming(p, k) == {i \in DOMAIN cmd[p].opts : cmd[p].opts[i].bit = k}

(* What bit k has to be after the options: what the last one naming it asks  *)
(* for, or what it was.                                                      *)
Wanted(p, k) ==
  IF Naming(p, k) = {} THEN Bit(seen[p], k)
  ELSE LET last == CHOOSE i \in Naming(p, k) : \A j \in Naming(p, k) : j <= i
       IN  IF cmd[p].opts[last].on THEN 1 ELSE 0

Sets(p, k) ==
  \/ cmd[p].kind \in {"all", "none", "hex"}
  \/ cmd[p].kind = "options" /\ Naming(p, k) # {}

(* However the processes interleave, the bitmap stays one of the twelve      *)
(* calls: the kernel stores whatever it is given, and the additions of a     *)
(* stale copy never carry into a bit above.                                  *)
MaskInRange == mask \in 0 .. BITMAP_MAX

(* The arithmetic of the options switches exactly the bits they name, the    *)
(* last option for a bit winning, whatever the copy was.                     *)
OptionsExact ==
  \A p \in Procs :
    (cmd[p].kind = "options" /\ pc[p] \in {"close", "exit"})
      => \A k \in Bits : Bit(retmapval[p], k) = Wanted(p, k)

(* A bit that no process was asked to set keeps its value, although every    *)
(* ioctl stores all twelve of them from a copy that may be stale.            *)
OnlyNamedBitsChange ==
  \A k \in Bits :
    Bit(mask, k) # Bit(mask0, k) => \E p \in Procs : fd[p] /\ Sets(p, k)
=============================================================================
