------------------------------ MODULE MCTrctl ------------------------------
(***************************************************************************)
(* Command lines for Trctl: every kind of command, options at both ends of *)
(* the bitmap, repeated and contradicting ones, hex values at the limit.   *)
(***************************************************************************)
EXTENDS Trctl

Plain(k)   == [kind |-> k, value |-> 0, opts |-> <<>>]
Hex(v)     == [kind |-> "hex", value |-> v, opts |-> <<>>]
Options(s) == [kind |-> "options", value |-> 0, opts |-> s]
On(k)      == [on |-> TRUE, bit |-> k]
Off(k)     == [on |-> FALSE, bit |-> k]

MCOptions ==
  {Options(<<On(0), Off(1)>>), Options(<<Off(11), On(11)>>),
   Options(<<On(11), On(11), Off(3)>>), Options(<<Off(2)>>)}

MCCommands ==
  {Plain("show"), Plain("all"), Plain("none"), Hex(2730), Hex(4095), Hex(4096)}
    \cup MCOptions

MCMasks   == {0, 1365, 4095}
MCGarbage == {0, 70000}
=============================================================================
