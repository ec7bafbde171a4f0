------------------------------ MODULE TraceLog ------------------------------
(***************************************************************************)
(* What a trace should be: a log to which each traced call adds one record *)
(* in a single step, numbered consecutively from 0, if its bit is set in   *)
(* the mask at that step.                                                  *)
(***************************************************************************)
EXTENDS Integers

CONSTANTS
  Ops,        \* the calls that can be traced
  Results     \* the return values of the calls

VARIABLES
  mask,       \* the calls that are traced
  recs,       \* the records of the log: [id, op, err]
  next        \* the number of the next record

vars == <<mask, recs, next>>

Init == mask = Ops /\ recs = {} /\ next = 0

Record(op, err) ==
  /\ op \in mask
  /\ recs' = recs \cup {[id |-> next, op |-> op, err |-> err]}
  /\ next' = next + 1
  /\ UNCHANGED mask

SetMask ==
  /\ mask' \in SUBSET Ops
  /\ UNCHANGED <<recs, next>>

Next == (\E op \in Ops, err \in Results : Record(op, err)) \/ SetMask

Spec == Init /\ [][Next]_vars
=============================================================================
