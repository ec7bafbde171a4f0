---------------------------- MODULE TrctlProofs ----------------------------
(***************************************************************************)
(* Proofs about Trctl: the bitmap arithmetic of the options, and that no   *)
(* interleaving of any number of trctl processes damages the bitmap.       *)
(***************************************************************************)
EXTENDS Trctl, TLAPS

(***************************************************************************)
(* The arithmetic.  What adding and subtracting 2^b does to the bits is    *)
(* shown for b = 0 and carried from b - 1 to b by halving.                 *)
(***************************************************************************)
(* The powers of two the source writes as masks.                             *)
LEMMA Powers ==
  /\ 2^0 = 1 /\ 2^1 = 2 /\ 2^2 = 4 /\ 2^3 = 8 /\ 2^4 = 16 /\ 2^5 = 32
  /\ 2^6 = 64 /\ 2^7 = 128 /\ 2^8 = 256 /\ 2^9 = 512 /\ 2^10 = 1024 /\ 2^11 = 2048
  OBVIOUS

(* Each is twice the one before.                                             *)
LEMMA Double ==
  ASSUME NEW b \in 1 .. 11
  PROVE  b - 1 \in 0 .. 10 /\ 2^(b - 1) \in Nat \ {0} /\ 2^b = 2 * 2^(b - 1)
<1> DEFINE Q(c) == 2^(c - 1) \in Nat \ {0} /\ 2^c = 2 * 2^(c - 1)
<1>1. Q(1) /\ Q(2) /\ Q(3) /\ Q(4) /\ Q(5) /\ Q(6) /\ Q(7) /\ Q(8) /\ Q(9) /\ Q(10) /\ Q(11)
  OBVIOUS
<1> HIDE DEF Q
<1>2. Q(b)
  BY <1>1
<1>3. b - 1 \in 0 .. 10
  OBVIOUS
<1> QED BY <1>2, <1>3 DEF Q

(* Bit b of m is bit b - 1 of its half.                                      *)
LEMMA Halving ==
  ASSUME NEW m \in Nat, NEW b \in 1 .. 11
  PROVE  Bit(m, b) = Bit(m \div 2, b - 1)
<1> DEFINE Q(c) == Bit(m, c) = Bit(m \div 2, c - 1)
<1>1. /\ m \div 2 = (m \div 2) \div 1      /\ m \div 4 = (m \div 2) \div 2
      /\ m \div 8 = (m \div 2) \div 4      /\ m \div 16 = (m \div 2) \div 8
  OBVIOUS
<1>2. /\ m \div 32 = (m \div 2) \div 16    /\ m \div 64 = (m \div 2) \div 32
      /\ m \div 128 = (m \div 2) \div 64   /\ m \div 256 = (m \div 2) \div 128
  OBVIOUS
<1>3. /\ m \div 512 = (m \div 2) \div 256  /\ m \div 1024 = (m \div 2) \div 512
      /\ m \div 2048 = (m \div 2) \div 1024
  OBVIOUS
<1>4. Q(1) /\ Q(2) /\ Q(3) /\ Q(4)
  BY <1>1 DEF Bit
<1>5. Q(5) /\ Q(6) /\ Q(7) /\ Q(8)
  BY <1>2 DEF Bit
<1>6. Q(9) /\ Q(10) /\ Q(11)
  BY <1>3 DEF Bit
<1> HIDE DEF Q
<1>7. Q(b)
  BY <1>4, <1>5, <1>6
<1> QED BY <1>7 DEF Q

(* Adding 2^b where bit b is clear sets it and no other.                     *)
Adds(b) ==
  \A m \in Nat : Bit(m, b) = 0 =>
    \A k \in Bits : Bit(m + 2^b, k) = IF k = b THEN 1 ELSE Bit(m, k)

(* Subtracting 2^b where bit b is set clears it.                             *)
Subtracts(b) ==
  \A m \in Nat : Bit(m, b) = 1 => m - 2^b \in Nat /\ Bit(m - 2^b, b) = 0

(* The lowest bit is the remainder modulo 2.                                 *)
LEMMA LowestBit == \A m \in Nat : Bit(m, 0) = m % 2
  BY Powers DEF Bit

(* Adding or subtracting 1 switches the lowest bit only.                     *)
LEMMA AddsLowest == Adds(0) /\ Subtracts(0)
<1>1. Adds(0)
  <2> SUFFICES ASSUME NEW m \in Nat, m % 2 = 0, NEW k \in Bits
               PROVE  Bit(m + 1, k) = IF k = 0 THEN 1 ELSE Bit(m, k)
    BY LowestBit, Powers DEF Adds
  <2>1. m + 1 \in Nat /\ (m + 1) \div 2 = m \div 2 /\ (m + 1) % 2 = 1
    OBVIOUS
  <2>2. CASE k = 0
    BY <2>1, <2>2, LowestBit
  <2>3. CASE k # 0
    <3>1. k \in 1 .. 11
      BY <2>3 DEF Bits
    <3> QED BY <2>1, <2>3, <3>1, Halving
  <2> QED BY <2>2, <2>3
<1>2. Subtracts(0)
  <2> SUFFICES ASSUME NEW m \in Nat, m % 2 = 1
               PROVE  m - 1 \in Nat /\ Bit(m - 1, 0) = 0
    BY LowestBit, Powers DEF Subtracts
  <2>1. m - 1 \in Nat /\ (m - 1) % 2 = 0
    OBVIOUS
  <2> QED BY <2>1, LowestBit
<1> QED BY <1>1, <1>2

(* What adding 2^b does to m, adding 2^(b - 1) does to the half of m.        *)
LEMMA AddsNext ==
  ASSUME NEW b \in 1 .. 11, Adds(b - 1), Subtracts(b - 1)
  PROVE  Adds(b) /\ Subtracts(b)
<1> DEFINE P == 2^(b - 1)
<1>1. P \in Nat \ {0} /\ 2^b = 2 * P /\ b - 1 \in 0 .. 10
  BY Double
<1> HIDE DEF P
<1>2. Adds(b)
  <2> SUFFICES ASSUME NEW m \in Nat, Bit(m, b) = 0, NEW k \in Bits
               PROVE  Bit(m + 2 * P, k) = IF k = b THEN 1 ELSE Bit(m, k)
    BY <1>1 DEF Adds
  <2>1. /\ m + 2 * P \in Nat /\ m \div 2 \in Nat
        /\ (m + 2 * P) \div 2 = (m \div 2) + P /\ (m + 2 * P) % 2 = m % 2
    BY <1>1
  <2>2. CASE k = 0
    <3>1. k # b
      BY <2>2
    <3> QED BY <2>1, <2>2, <3>1, LowestBit
  <2>3. CASE k # 0
    <3>1. k \in 1 .. 11 /\ k - 1 \in Bits /\ (k - 1 = b - 1 <=> k = b)
      BY <2>3 DEF Bits
    <3>2. Bit(m \div 2, b - 1) = 0
      BY Halving
    <3>3. Bit((m \div 2) + P, k - 1) = IF k = b THEN 1 ELSE Bit(m \div 2, k - 1)
      BY <2>1, <3>1, <3>2 DEF Adds, P
    <3>4. Bit(m, k) = Bit(m \div 2, k - 1)
      BY <3>1, Halving
    <3>5. Bit(m + 2 * P, k) = Bit((m \div 2) + P, k - 1)
      BY <2>1, <3>1, Halving
    <3> QED BY <3>3, <3>4, <3>5
  <2> QED BY <2>2, <2>3
<1>3. Subtracts(b)
  <2> SUFFICES ASSUME NEW m \in Nat, Bit(m, b) = 1
               PROVE  m - 2 * P \in Nat /\ Bit(m - 2 * P, b) = 0
    BY <1>1 DEF Subtracts
  <2>1. m \div 2 \in Nat /\ Bit(m \div 2, b - 1) = 1
    BY Halving
  <2>2. (m \div 2) - P \in Nat /\ Bit((m \div 2) - P, b - 1) = 0
    BY <2>1 DEF Subtracts, P
  <2>3. m - 2 * P \in Nat /\ (m - 2 * P) \div 2 = (m \div 2) - P
    BY <1>1, <2>2
  <2> QED BY <2>2, <2>3, Halving
<1> QED BY <1>2, <1>3

(* Adding 2^b to a number whose bit b is clear, or subtracting it from one   *)
(* whose bit b is set, switches bit b and no other.                          *)
LEMMA AddsAll == \A b \in Bits : Adds(b) /\ Subtracts(b)
<1> DEFINE Ok(b) == Adds(b) /\ Subtracts(b)
<1>1. ASSUME NEW b \in 1 .. 11, Ok(b - 1) PROVE Ok(b)
  BY <1>1, AddsNext
<1>2. /\ 1 - 1 = 0 /\ 2 - 1 = 1 /\ 3 - 1 = 2 /\ 4 - 1 = 3 /\ 5 - 1 = 4 /\ 6 - 1 = 5
      /\ 7 - 1 = 6 /\ 8 - 1 = 7 /\ 9 - 1 = 8 /\ 10 - 1 = 9 /\ 11 - 1 = 10
  OBVIOUS
<1>3. Ok(0)
  BY AddsLowest
<1> HIDE DEF Ok
<1>4. Ok(1) /\ Ok(2) /\ Ok(3) /\ Ok(4) /\ Ok(5) /\ Ok(6)
  BY <1>1, <1>2, <1>3
<1>5. Ok(7) /\ Ok(8) /\ Ok(9) /\ Ok(10) /\ Ok(11)
  BY <1>1, <1>2, <1>4
<1>6. \A b \in Bits : Ok(b)
  BY <1>3, <1>4, <1>5 DEF Bits
<1> QED BY <1>6 DEF Ok

(* Setting a clear bit of a bitmap gives a bitmap.                           *)
LEMMA AddBound ==
  ASSUME NEW m \in Nat, m <= 4095, NEW b \in Bits, Bit(m, b) = 0
  PROVE  m + 2^b <= 4095
<1> DEFINE Q(c) == Bit(m, c) = 0 => m + 2^c <= 4095
<1>1. (m \div 1) % 2 = 0 => m + 1 <= 4095
  OBVIOUS
<1>2. (m \div 2) % 2 = 0 => m + 2 <= 4095
  OBVIOUS
<1>3. (m \div 4) % 2 = 0 => m + 4 <= 4095
  OBVIOUS
<1>4. (m \div 8) % 2 = 0 => m + 8 <= 4095
  OBVIOUS
<1>5. (m \div 16) % 2 = 0 => m + 16 <= 4095
  OBVIOUS
<1>6. (m \div 32) % 2 = 0 => m + 32 <= 4095
  OBVIOUS
<1>7. (m \div 64) % 2 = 0 => m + 64 <= 4095
  OBVIOUS
<1>8. (m \div 128) % 2 = 0 => m + 128 <= 4095
  OBVIOUS
<1>9. (m \div 256) % 2 = 0 => m + 256 <= 4095
  OBVIOUS
<1>10. (m \div 512) % 2 = 0 => m + 512 <= 4095
  OBVIOUS
<1>11. (m \div 1024) % 2 = 0 => m + 1024 <= 4095
  OBVIOUS
<1>12. (m \div 2048) % 2 = 0 => m + 2048 <= 4095
  OBVIOUS
<1>13. Q(0) /\ Q(1) /\ Q(2) /\ Q(3) /\ Q(4) /\ Q(5) /\ Q(6) /\ Q(7)
  BY <1>1, <1>2, <1>3, <1>4, <1>5, <1>6, <1>7, <1>8 DEF Bit
<1>14. Q(8) /\ Q(9) /\ Q(10) /\ Q(11)
  BY <1>9, <1>10, <1>11, <1>12 DEF Bit
<1> HIDE DEF Q
<1>15. Q(b)
  BY <1>13, <1>14 DEF Bits
<1> QED BY <1>15 DEF Q

(* One option switches the bit it names, and no other, in whatever the copy  *)
(* of the bitmap holds, and does not leave the range of bitmaps.             *)
LEMMA SwitchedBits ==
  ASSUME NEW m \in Nat, NEW o \in Option
  PROVE  /\ Switched(m, o) \in Nat
         /\ Bit(Switched(m, o), o.bit) = IF o.on THEN 1 ELSE 0
         /\ \A k \in Bits : k # o.bit => Bit(Switched(m, o), k) = Bit(m, k)
         /\ m \in 0 .. BITMAP_MAX => Switched(m, o) \in 0 .. BITMAP_MAX
<1>1. o.bit \in Bits /\ o.on \in BOOLEAN
  BY DEF Option
<1>2. 2^o.bit \in Nat
  <2> DEFINE Q(c) == 2^c \in Nat
  <2>1. Q(0) /\ Q(1) /\ Q(2) /\ Q(3) /\ Q(4) /\ Q(5) /\ Q(6) /\ Q(7) /\ Q(8) /\ Q(9)
        /\ Q(10) /\ Q(11)
    OBVIOUS
  <2> HIDE DEF Q
  <2>2. Q(o.bit)
    BY <1>1, <2>1 DEF Bits
  <2> QED BY <2>2 DEF Q
<1>3. Bit(m, o.bit) \in {0, 1}
  <2> DEFINE d == m \div 2^o.bit
  <2>1. d % 2 \in {0, 1}
    <3>1. d \in Int
      <4> DEFINE Q(c) == m \div 2^c \in Int
      <4>1. Q(0) /\ Q(1) /\ Q(2) /\ Q(3) /\ Q(4) /\ Q(5) /\ Q(6) /\ Q(7) /\ Q(8) /\ Q(9)
            /\ Q(10) /\ Q(11)
        OBVIOUS
      <4> HIDE DEF Q
      <4>2. Q(o.bit)
        BY <1>1, <4>1 DEF Bits
      <4> QED BY <4>2 DEF Q
    <3> HIDE DEF d
    <3> QED BY <3>1
  <2> QED BY <2>1 DEF Bit
<1>4. CASE o.on /\ Bit(m, o.bit) = 0
  <2>1. Switched(m, o) = m + 2^o.bit
    BY <1>4 DEF Switched
  <2>2. \A k \in Bits : Bit(m + 2^o.bit, k) = IF k = o.bit THEN 1 ELSE Bit(m, k)
    BY <1>1, <1>4, AddsAll DEF Adds
  <2>3. m + 2^o.bit \in Nat
    BY <1>2
  <2>4. m \in 0 .. BITMAP_MAX => m + 2^o.bit \in 0 .. BITMAP_MAX
    <3>1. ASSUME m <= 4095 PROVE m + 2^o.bit <= 4095
      BY <1>1, <1>4, <3>1, AddBound
    <3> DEFINE n == m + 2^o.bit
    <3>2. n \in Nat /\ (m <= 4095 => n <= 4095)
      BY <2>3, <3>1
    <3> HIDE DEF n
    <3>3. m \in 0 .. 4095 => n \in 0 .. 4095
      BY <3>2
    <3> QED BY <3>3 DEF n, BITMAP_MAX
  <2> QED BY <1>1, <1>4, <2>1, <2>2, <2>3, <2>4
<1>5. CASE ~o.on /\ Bit(m, o.bit) = 1
  <2> DEFINE n == m - 2^o.bit
  <2>1. Switched(m, o) = n
    BY <1>5 DEF Switched
  <2>2. n \in Nat /\ Bit(n, o.bit) = 0
    BY <1>1, <1>5, AddsAll DEF Subtracts
  <2>3. n + 2^o.bit = m /\ n <= m
    BY <1>2
  <2> HIDE DEF n
  <2>4. \A k \in Bits : Bit(n + 2^o.bit, k) = IF k = o.bit THEN 1 ELSE Bit(n, k)
    BY <1>1, <2>2, AddsAll DEF Adds
  <2>5. m \in 0 .. BITMAP_MAX => n \in 0 .. BITMAP_MAX
    BY <2>2, <2>3 DEF BITMAP_MAX
  <2> QED BY <1>1, <1>5, <2>1, <2>2, <2>3, <2>4, <2>5
<1>6. CASE ~(o.on /\ Bit(m, o.bit) = 0) /\ ~(~o.on /\ Bit(m, o.bit) = 1)
  <2>1. Switched(m, o) = m
    BY <1>6 DEF Switched
  <2> QED BY <1>1, <1>3, <1>6, <2>1
<1> QED BY <1>4, <1>5, <1>6

-----------------------------------------------------------------------------
(***************************************************************************)
(* The bitmap.                                                             *)
(***************************************************************************)
Labels == {"start", "command", "options", "close", "exit"}

(* The types, and that the copy a process works on is a bitmap if it could   *)
(* read one: the strengthening MaskInRange needs.                            *)
RangeInv ==
  /\ mask \in 0 .. BITMAP_MAX
  /\ cmd \in [Procs -> Commands]
  /\ pc \in [Procs -> Labels]
  /\ fd \in [Procs -> BOOLEAN]
  /\ retmapval \in [Procs -> Nat]
  /\ index \in [Procs -> Nat \ {0}]
  /\ seen \in [Procs -> Nat]
  /\ \A p \in Procs : pc[p] = "options" /\ fd[p] => retmapval[p] \in 0 .. BITMAP_MAX

(* The option a process is about to apply is one.                            *)
LEMMA OptionType ==
  ASSUME RangeInv, NEW p \in Procs, index[p] <= Len(cmd[p].opts)
  PROVE  /\ cmd[p].opts[index[p]] \in Option /\ index[p] \in DOMAIN cmd[p].opts
         /\ DOMAIN cmd[p].opts = 1 .. Len(cmd[p].opts) /\ Len(cmd[p].opts) \in Nat
<1>1. cmd[p].opts \in Seq(Option) /\ index[p] \in Nat \ {0}
  BY TrctlAssumption DEF RangeInv
<1> QED BY <1>1

(* A step of a trctl process preserves RangeInv.                             *)
LEMMA RangeStep ==
  ASSUME RangeInv, [Next]_vars
  PROVE  RangeInv'
<1> USE DEF RangeInv, Labels
<1>1. ASSUME NEW p \in Procs, Open(p) PROVE RangeInv'
  BY <1>1 DEF Open, Goto
<1>2. ASSUME NEW p \in Procs, Show(p) \/ StartOptions(p) PROVE RangeInv'
  <2>1. (IF fd[p] THEN mask ELSE retmapval[p]) \in Nat
    BY DEF BITMAP_MAX
  <2> QED BY <1>2, <2>1 DEF Show, StartOptions, RetIoctl, Goto
<1>3. ASSUME NEW p \in Procs, SetAll(p) \/ SetNone(p) PROVE RangeInv'
  <2>1. BITMAP_MAX \in 0 .. BITMAP_MAX /\ 0 \in 0 .. BITMAP_MAX
    BY DEF BITMAP_MAX
  <2> QED BY <1>3, <2>1 DEF SetAll, SetNone, SetIoctl, Goto
<1>4. ASSUME NEW p \in Procs, SetHex(p) PROVE RangeInv'
  <2>1. cmd[p] \in Commands /\ mask \in 0 .. BITMAP_MAX
    OBVIOUS
  <2> HIDE DEF RangeInv
  <2>2. cmd[p].value \in Nat
    BY <2>1, TrctlAssumption
  <2>3. \/ mask' = mask
        \/ ~(cmd[p].value > BITMAP_MAX) /\ mask' = cmd[p].value
    BY <1>4 DEF SetHex, SetIoctl
  <2>4. \A v \in Nat : ~(v > BITMAP_MAX) => v \in 0 .. BITMAP_MAX
    BY DEF BITMAP_MAX
  <2>5. mask' \in 0 .. BITMAP_MAX
    BY <2>1, <2>2, <2>3, <2>4
  <2> QED BY <1>4, <2>5 DEF SetHex, Goto, RangeInv
<1>5. ASSUME NEW p \in Procs, ApplyOption(p) PROVE RangeInv'
  <2> DEFINE m == Switched(retmapval[p], cmd[p].opts[index[p]])
  <2>1. /\ pc[p] = "options" /\ index[p] <= Len(cmd[p].opts)
        /\ retmapval' = [retmapval EXCEPT ![p] = m]
        /\ IF m = retmapval[p] THEN UNCHANGED mask ELSE SetIoctl(p, m)
        /\ index' = [index EXCEPT ![p] = @ + 1] /\ UNCHANGED <<cmd, pc, fd, mask0, seen>>
    BY <1>5 DEF ApplyOption
  <2>2. m \in Nat /\ (retmapval[p] \in 0 .. BITMAP_MAX => m \in 0 .. BITMAP_MAX)
    <3>1. cmd[p].opts[index[p]] \in Option
      BY <2>1, OptionType
    <3>2. retmapval[p] \in Nat
      OBVIOUS
    <3> QED BY <3>1, <3>2, SwitchedBits
  <2> HIDE DEF m
  <2>3. mask' \in 0 .. BITMAP_MAX
    BY <2>1, <2>2 DEF SetIoctl
  <2> QED BY <2>1, <2>2, <2>3
<1>6. ASSUME NEW p \in Procs, EndOptions(p) \/ Close(p) PROVE RangeInv'
  BY <1>6 DEF EndOptions, Close, Goto
<1>7. CASE UNCHANGED vars
  BY <1>7 DEF vars
<1> HIDE DEF RangeInv
<1> QED BY <1>1, <1>2, <1>3, <1>4, <1>5, <1>6, <1>7 DEF Next

(* RangeInv always holds.                                                    *)
LEMMA RangeInvariant == Spec => []RangeInv
<1>1. ASSUME Init PROVE RangeInv
  <2>1. retmapval \in [Procs -> Nat] /\ seen \in [Procs -> Nat] /\ mask \in 0 .. BITMAP_MAX
    BY <1>1, TrctlAssumption DEF Init
  <2> QED BY <1>1, <2>1 DEF Init, RangeInv, Labels
<1>2. RangeInv /\ [Next]_vars => RangeInv'
  BY RangeStep
<1> QED BY <1>1, <1>2, PTL DEF Spec

(* Any number of trctl processes, with any commands and any of their opens   *)
(* failing, leave in the bitmap a set of the twelve calls.                   *)
THEOREM MaskStaysInRange == Spec => []MaskInRange
<1>1. RangeInv => MaskInRange
  BY DEF RangeInv, MaskInRange
<1> QED BY <1>1, RangeInvariant, PTL

-----------------------------------------------------------------------------
(***************************************************************************)
(* The options.                                                            *)
(***************************************************************************)
(* The options naming bit k that process p has applied.                      *)
Applied(p, k) == {i \in Naming(p, k) : i < index[p]}

LastOf(S, i) == i \in S /\ \A j \in S : j <= i

(* The loop invariant of the options: each bit is as the last option applied *)
(* to it asks, or as it was read.                                            *)
LoopInv(p) ==
  \A k \in Bits :
    /\ Applied(p, k) = {} => Bit(retmapval[p], k) = Bit(seen[p], k)
    /\ Applied(p, k) # {} => \E i : LastOf(Applied(p, k), i)
    /\ \A i : LastOf(Applied(p, k), i) =>
         Bit(retmapval[p], k) = IF cmd[p].opts[i].on THEN 1 ELSE 0

ExactInv ==
  \A p \in Procs : cmd[p].kind = "options" =>
    /\ pc[p] \in {"start", "command"} => index[p] = 1
    /\ pc[p] \in {"options", "close", "exit"} => LoopInv(p)
    /\ pc[p] \in {"close", "exit"} => index[p] > Len(cmd[p].opts)

(* Before the first option nothing has been applied.                         *)
LEMMA LoopStarts ==
  ASSUME RangeInv, NEW p \in Procs, StartOptions(p), index[p] = 1
  PROVE  LoopInv(p)'
<1>1. cmd[p].opts \in Seq(Option)
  BY TrctlAssumption DEF RangeInv
<1>2. UNCHANGED <<cmd, index>> /\ retmapval'[p] = seen'[p]
  BY DEF StartOptions, RetIoctl, RangeInv
<1>3. \A k \in Bits : Applied(p, k)' = {}
  BY <1>1, <1>2 DEF Applied, Naming
<1>4. \A k \in Bits : \A i : ~LastOf(Applied(p, k)', i)
  BY <1>3 DEF LastOf
<1> QED BY <1>2, <1>3, <1>4 DEF LoopInv, LastOf

(* One turn of the loop.                                                     *)
LEMMA LoopTurns ==
  ASSUME RangeInv, NEW p \in Procs, ApplyOption(p), LoopInv(p)
  PROVE  LoopInv(p)'
<1> DEFINE n == index[p]
           o == cmd[p].opts[n]
<1>1. /\ o \in Option /\ n \in DOMAIN cmd[p].opts /\ n \in Nat
      /\ DOMAIN cmd[p].opts = 1 .. Len(cmd[p].opts) /\ Len(cmd[p].opts) \in Nat
  <2>1. index[p] <= Len(cmd[p].opts) /\ index[p] \in Nat
    <3>1. index[p] \in Nat \ {0}
      BY DEF RangeInv
    <3> QED BY <3>1 DEF ApplyOption
  <2>2. o \in Option /\ n \in DOMAIN cmd[p].opts
        /\ DOMAIN cmd[p].opts = 1 .. Len(cmd[p].opts) /\ Len(cmd[p].opts) \in Nat
    BY <2>1, OptionType
  <2> QED BY <2>1, <2>2
<1>2. /\ UNCHANGED <<cmd, seen>> /\ index'[p] = n + 1
      /\ retmapval'[p] = Switched(retmapval[p], o) /\ retmapval[p] \in Nat
  BY DEF ApplyOption, RangeInv
<1> DEFINE new == retmapval'[p]
           old == retmapval[p]
<1>3. /\ Bit(new, o.bit) = IF o.on THEN 1 ELSE 0
      /\ \A k \in Bits : k # o.bit => Bit(new, k) = Bit(old, k)
  <2>1. old \in Nat /\ o \in Option /\ new = Switched(old, o)
    BY <1>1, <1>2
  <2> HIDE DEF n, o, new, old
  <2> QED BY <2>1, SwitchedBits
<1>4. \A k \in Bits : Applied(p, k)' = IF o.bit = k THEN Applied(p, k) \cup {n} ELSE Applied(p, k)
  <2> SUFFICES ASSUME NEW k \in Bits
               PROVE  Applied(p, k)' = IF o.bit = k THEN Applied(p, k) \cup {n} ELSE Applied(p, k)
    OBVIOUS
  <2>1. Naming(p, k)' = Naming(p, k) /\ Naming(p, k) \subseteq Nat
        /\ (n \in Naming(p, k) <=> o.bit = k)
    BY <1>1, <1>2 DEF Naming
  <2>2. \A i \in Nat : i < n + 1 <=> (i < n \/ i = n)
    BY <1>1
  <2>3. Applied(p, k)' = {i \in Naming(p, k) : i < n + 1}
    BY <1>2, <2>1 DEF Applied
  <2> HIDE DEF n, o
  <2>4. Applied(p, k) = {i \in Naming(p, k) : i < n}
    BY DEF Applied, n
  <2> QED BY <2>1, <2>2, <2>3, <2>4
<1>5. \A k \in Bits : \A i \in Applied(p, k) : i \in Nat /\ i < n
  BY <1>1 DEF Applied, Naming
<1> HIDE DEF n, o, new, old
<1>6. ASSUME NEW k \in Bits
      PROVE  /\ Applied(p, k)' = {} => Bit(new, k) = Bit(seen'[p], k)
             /\ Applied(p, k)' # {} => \E i : LastOf(Applied(p, k)', i)
             /\ \A i : LastOf(Applied(p, k)', i) =>
                  Bit(new, k) = IF cmd'[p].opts[i].on THEN 1 ELSE 0
  <2>1. CASE o.bit # k
    <3>1. Applied(p, k)' = Applied(p, k)
      BY <1>4, <2>1
    <3>2. Bit(new, k) = Bit(old, k)
      BY <1>3, <2>1
    <3> QED BY <1>2, <3>1, <3>2 DEF LoopInv, old
  <2>2. CASE o.bit = k
    <3>1. Applied(p, k)' = Applied(p, k) \cup {n} /\ Bit(new, k) = IF o.on THEN 1 ELSE 0
      BY <1>3, <1>4, <2>2
    <3>2. \A j \in Applied(p, k) : j \in Nat /\ j < n
      BY <1>5
    <3>3. LastOf(Applied(p, k)', n)
      BY <1>1, <3>1, <3>2 DEF LastOf
    <3>4. ASSUME NEW i, LastOf(Applied(p, k)', i) PROVE i = n
      <4>1. n <= i /\ (i = n \/ (i \in Nat /\ i < n))
        BY <3>1, <3>2, <3>4 DEF LastOf
      <4> QED BY <1>1, <4>1
    <3>5. cmd'[p].opts[n] = o
      BY <1>2 DEF o
    <3> QED BY <3>1, <3>3, <3>4, <3>5
  <2> QED BY <2>1, <2>2
<1> QED BY <1>6 DEF LoopInv, LastOf, new

(* What the loop is about does not change while process p does nothing.      *)
LEMMA LoopKept ==
  ASSUME NEW p \in Procs, cmd' = cmd, retmapval'[p] = retmapval[p], index'[p] = index[p],
         seen'[p] = seen[p], LoopInv(p)
  PROVE  LoopInv(p)'
<1>1. \A k : Applied(p, k)' = Applied(p, k)
  BY DEF Applied, Naming
<1> QED BY <1>1 DEF LoopInv, LastOf

(* A step of a trctl process preserves ExactInv.                             *)
LEMMA ExactStep ==
  ASSUME RangeInv, ExactInv, [Next]_vars
  PROVE  ExactInv'
<1>0. /\ pc \in [Procs -> Labels] /\ index \in [Procs -> Nat \ {0}]
      /\ retmapval \in [Procs -> Nat] /\ seen \in [Procs -> Nat]
  BY DEF RangeInv
<1> DEFINE Good(p) ==
      cmd[p].kind = "options" =>
        /\ pc[p] \in {"start", "command"} => index[p] = 1
        /\ pc[p] \in {"options", "close", "exit"} => LoopInv(p)
        /\ pc[p] \in {"close", "exit"} => index[p] > Len(cmd[p].opts)
<1>1. ASSUME NEW p \in Procs, Good(p)',
             \A q \in Procs \ {p} : /\ pc'[q] = pc[q] /\ index'[q] = index[q]
                                    /\ retmapval'[q] = retmapval[q] /\ seen'[q] = seen[q],
             cmd' = cmd
      PROVE  ExactInv'
  <2>1. ASSUME NEW q \in Procs, q # p PROVE Good(q)'
    BY <1>1, <2>1, LoopKept DEF ExactInv
  <2> QED BY <1>1, <2>1 DEF ExactInv
<1>2. ASSUME NEW p \in Procs, Open(p) PROVE ExactInv'
  <2>1. /\ UNCHANGED <<cmd, index, retmapval, seen>> /\ pc[p] = "start"
        /\ pc'[p] = "command" /\ \A q \in Procs \ {p} : pc'[q] = pc[q]
    BY <1>0, <1>2 DEF Open, Goto
  <2> QED BY <1>1, <2>1 DEF ExactInv
<1>3. ASSUME NEW p \in Procs, cmd[p].kind # "options",
             cmd' = cmd, UNCHANGED index,
             \A q \in Procs \ {p} : /\ pc'[q] = pc[q] /\ retmapval'[q] = retmapval[q]
                                    /\ seen'[q] = seen[q]
      PROVE  ExactInv'
  BY <1>1, <1>3
<1>4. ASSUME NEW p \in Procs, Show(p) \/ SetAll(p) \/ SetNone(p) \/ SetHex(p)
      PROVE  ExactInv'
  <2>1. /\ cmd' = cmd /\ index' = index /\ cmd[p].kind # "options"
        /\ \A q \in Procs \ {p} : /\ pc'[q] = pc[q] /\ retmapval'[q] = retmapval[q]
                                  /\ seen'[q] = seen[q]
    BY <1>0, <1>4 DEF Show, SetAll, SetNone, SetHex, RetIoctl, Goto
  <2> QED BY <1>3, <2>1
<1>5. ASSUME NEW p \in Procs, StartOptions(p) PROVE ExactInv'
  <2>1. /\ UNCHANGED <<cmd, index>> /\ pc[p] = "command" /\ pc'[p] = "options"
        /\ cmd[p].kind = "options"
        /\ \A q \in Procs \ {p} : /\ pc'[q] = pc[q] /\ retmapval'[q] = retmapval[q]
                                  /\ seen'[q] = seen[q]
    BY <1>0, <1>5 DEF StartOptions, RetIoctl, Goto
  <2>2. index[p] = 1
    BY <2>1 DEF ExactInv
  <2>3. LoopInv(p)'
    BY <1>5, <2>2, LoopStarts
  <2> QED BY <1>1, <2>1, <2>3
<1>6. ASSUME NEW p \in Procs, ApplyOption(p) PROVE ExactInv'
  <2>1. /\ UNCHANGED <<cmd, pc, seen>> /\ pc[p] = "options"
        /\ \A q \in Procs \ {p} : retmapval'[q] = retmapval[q] /\ index'[q] = index[q]
    BY <1>0, <1>6 DEF ApplyOption
  <2>2. cmd[p].kind = "options" => LoopInv(p)'
    BY <1>6, <2>1, LoopTurns DEF ExactInv
  <2> QED BY <1>1, <2>1, <2>2
<1>7. ASSUME NEW p \in Procs, EndOptions(p) \/ Close(p) PROVE ExactInv'
  <2>1. /\ UNCHANGED <<cmd, index, retmapval, seen>> /\ pc[p] \in {"options", "close"}
        /\ pc'[p] \in {"close", "exit"} /\ \A q \in Procs \ {p} : pc'[q] = pc[q]
        /\ pc[p] = "options" => index[p] > Len(cmd[p].opts)
    BY <1>0, <1>7 DEF EndOptions, Close, Goto
  <2>2. cmd[p].kind = "options" => LoopInv(p)' /\ index[p] > Len(cmd[p].opts)
    BY <2>1, LoopKept DEF ExactInv
  <2> QED BY <1>1, <2>1, <2>2
<1>8. CASE UNCHANGED vars
  <2>1. ASSUME NEW q \in Procs PROVE Good(q)'
    BY <1>8, LoopKept DEF ExactInv, vars
  <2> QED BY <2>1 DEF ExactInv
<1> HIDE DEF Good
<1> QED BY <1>2, <1>4, <1>5, <1>6, <1>7, <1>8 DEF Next

(* The options of a command line do exactly what they say, for any list of   *)
(* them, to whatever was in the copy: for each bit the last one decides.     *)
THEOREM OptionsSwitchExactly == Spec => []OptionsExact
<1>1. Init => ExactInv
  BY DEF Init, ExactInv
<1>2. RangeInv /\ ExactInv /\ [Next]_vars => ExactInv'
  BY ExactStep
<1>3. ASSUME RangeInv, ExactInv PROVE OptionsExact
  <2> SUFFICES ASSUME NEW p \in Procs, cmd[p].kind = "options", pc[p] \in {"close", "exit"},
                      NEW k \in Bits
               PROVE  Bit(retmapval[p], k) = Wanted(p, k)
    BY DEF OptionsExact
  <2>1. LoopInv(p) /\ index[p] > Len(cmd[p].opts) /\ index[p] \in Nat
        /\ cmd[p].opts \in Seq(Option)
    BY <1>3, TrctlAssumption DEF ExactInv, RangeInv
  <2>2. Applied(p, k) = Naming(p, k)
    BY <2>1 DEF Applied, Naming
  <2>3. CASE Naming(p, k) = {}
    BY <2>1, <2>2, <2>3 DEF LoopInv, Wanted
  <2>4. CASE Naming(p, k) # {}
    <3> DEFINE last == CHOOSE i \in Naming(p, k) : \A j \in Naming(p, k) : j <= i
    <3>1. \E i \in Naming(p, k) : \A j \in Naming(p, k) : j <= i
      BY <2>1, <2>2, <2>4 DEF LoopInv, LastOf
    <3>2. LastOf(Naming(p, k), last)
      BY <3>1 DEF LastOf
    <3>3. Wanted(p, k) = IF cmd[p].opts[last].on THEN 1 ELSE 0
      BY <2>4 DEF Wanted
    <3> HIDE DEF last
    <3> QED BY <2>1, <2>2, <3>2, <3>3 DEF LoopInv
  <2> QED BY <2>3, <2>4
<1> QED BY <1>1, <1>2, <1>3, RangeInvariant, PTL DEF Spec

-----------------------------------------------------------------------------
(***************************************************************************)
(* Bits nobody names.                                                      *)
(***************************************************************************)
(* Somebody who can reach the kernel was asked to set bit k.                 *)
Asked(k) == \E p \in Procs : fd[p] /\ Sets(p, k)

(* The bits nobody asked for are the initial ones, in the kernel and in      *)
(* every copy that can get there, however stale it is.                       *)
NamedInv ==
  /\ \A p \in Procs : pc[p] = "start" => ~fd[p]
  /\ \A k \in Bits : Bit(mask, k) = Bit(mask0, k) \/ Asked(k)
  /\ \A p \in Procs : pc[p] = "options" =>
       /\ cmd[p].kind = "options"
       /\ fd[p] => \A k \in Bits : Bit(retmapval[p], k) = Bit(mask0, k) \/ Asked(k)

(* A step of a trctl process preserves NamedInv.                             *)
LEMMA NamedStep ==
  ASSUME RangeInv, NamedInv, [Next]_vars
  PROVE  NamedInv'
<1>0. /\ pc \in [Procs -> Labels] /\ fd \in [Procs -> BOOLEAN]
      /\ retmapval \in [Procs -> Nat]
  BY DEF RangeInv
<1>1. ASSUME NEW p \in Procs, Open(p) PROVE NamedInv'
  <2>1. /\ UNCHANGED <<mask, mask0, cmd, retmapval>> /\ pc[p] = "start" /\ pc'[p] = "command"
        /\ \A q \in Procs \ {p} : pc'[q] = pc[q] /\ fd'[q] = fd[q]
    BY <1>0, <1>1 DEF Open, Goto
  <2>2. ~fd[p]
    BY <2>1 DEF NamedInv
  <2>3. \A k \in Bits : Asked(k) => Asked(k)'
    BY <2>1, <2>2 DEF Asked, Sets, Naming
  <2> QED BY <2>1, <2>3 DEF NamedInv
<1>2. ASSUME UNCHANGED <<cmd, fd>> PROVE \A k : Asked(k)' <=> Asked(k)
  BY <1>2 DEF Asked, Sets, Naming
<1>3. ASSUME NEW p \in Procs, Show(p) \/ EndOptions(p) \/ Close(p) PROVE NamedInv'
  <2>1. /\ UNCHANGED <<mask, mask0, cmd, fd>>
        /\ \A q \in Procs \ {p} : pc'[q] = pc[q] /\ retmapval'[q] = retmapval[q]
        /\ pc'[p] \notin {"start", "options"}
    BY <1>0, <1>3 DEF Show, EndOptions, Close, RetIoctl, Goto
  <2> QED BY <1>2, <2>1 DEF NamedInv
<1>4. ASSUME NEW p \in Procs, SetAll(p) \/ SetNone(p) \/ SetHex(p) PROVE NamedInv'
  <2>1. /\ UNCHANGED <<retmapval, mask0, cmd, fd>> /\ (fd[p] \/ mask' = mask)
        /\ \A q \in Procs \ {p} : pc'[q] = pc[q]
        /\ pc'[p] \notin {"start", "options"} /\ cmd[p].kind \in {"all", "none", "hex"}
    BY <1>0, <1>4 DEF SetAll, SetNone, SetHex, SetIoctl, Goto
  <2>2. CASE mask' = mask
    BY <1>2, <2>1, <2>2 DEF NamedInv
  <2>3. CASE fd[p]
    <3>1. \A k \in Bits : Asked(k)
      BY <2>1, <2>3 DEF Asked, Sets
    <3> QED BY <1>2, <2>1, <3>1 DEF NamedInv
  <2> QED BY <2>1, <2>2, <2>3
<1>5. ASSUME NEW p \in Procs, StartOptions(p) PROVE NamedInv'
  <2>1. /\ UNCHANGED <<mask, mask0, cmd, fd>> /\ (fd[p] => retmapval'[p] = mask)
        /\ \A q \in Procs \ {p} : pc'[q] = pc[q] /\ retmapval'[q] = retmapval[q]
        /\ pc'[p] = "options" /\ cmd[p].kind = "options"
    BY <1>0, <1>5 DEF StartOptions, RetIoctl, Goto
  <2> QED BY <1>2, <2>1 DEF NamedInv
<1>6. ASSUME NEW p \in Procs, ApplyOption(p) PROVE NamedInv'
  <2> DEFINE o == cmd[p].opts[index[p]]
  <2>1. /\ UNCHANGED <<cmd, pc, fd, mask0>> /\ pc[p] = "options"
        /\ retmapval'[p] = Switched(retmapval[p], o)
        /\ index[p] <= Len(cmd[p].opts) /\ retmapval[p] \in Nat
        /\ \A q \in Procs \ {p} : retmapval'[q] = retmapval[q]
        /\ mask' = mask \/ (fd[p] /\ mask' = retmapval'[p])
    BY <1>0, <1>6 DEF ApplyOption, SetIoctl
  <2>2. o \in Option /\ index[p] \in DOMAIN cmd[p].opts
    BY <2>1, OptionType
  <2>3. o.bit \in Bits /\ index[p] \in Naming(p, o.bit)
    BY <2>2 DEF Option, Naming
  <2> HIDE DEF o
  <2>4. cmd[p].kind = "options"
    BY <2>1 DEF NamedInv
  <2>5. fd[p] => Asked(o.bit)
    BY <2>3, <2>4 DEF Asked, Sets
  <2>6. \A k \in Bits : k # o.bit => Bit(retmapval'[p], k) = Bit(retmapval[p], k)
    BY <2>1, <2>2, SwitchedBits
  <2>7. fd[p] => \A k \in Bits : Bit(retmapval'[p], k) = Bit(mask0, k) \/ Asked(k)
    BY <2>1, <2>5, <2>6 DEF NamedInv
  <2> QED BY <1>2, <2>1, <2>4, <2>7 DEF NamedInv
<1>7. CASE UNCHANGED vars
  BY <1>2, <1>7 DEF vars, NamedInv
<1> QED BY <1>1, <1>3, <1>4, <1>5, <1>6, <1>7 DEF Next

(* A bit that no successful command names keeps its initial value for ever,  *)
(* although every ioctl of any number of racing processes stores all twelve. *)
THEOREM UnnamedBitsKept == Spec => []OnlyNamedBitsChange
<1>1. Init => NamedInv
  BY DEF Init, NamedInv
<1>2. RangeInv /\ NamedInv /\ [Next]_vars => NamedInv'
  BY NamedStep
<1>3. NamedInv => OnlyNamedBitsChange
  BY DEF NamedInv, OnlyNamedBitsChange, Asked
<1> QED BY <1>1, <1>2, <1>3, RangeInvariant, PTL DEF Spec
=============================================================================
