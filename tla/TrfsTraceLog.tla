---------------------------- MODULE TrfsTraceLog ----------------------------
(***************************************************************************)
(* When trfs implements TraceLog: the calls are serialised, by being made  *)
(* by one thread or by all needing a common lower directory lock, and      *)
(* tracing itself does not fail.                                           *)
(***************************************************************************)
EXTENDS TrfsTrace

Serialised ==
  \/ \A t, u \in Threads : t = u
  \/ \A c, d \in Calls : LocksOf(c) \cap LocksOf(d) # {}

NoTracingFaults ==
  /\ Faults \cap {"nomem", "tfile", "enospc"} = {}
  /\ \A c \in Calls : \A p \in Dentries(c) : PathLen[p] < PathBuf

(* A call's record exists from the moment its handler has tested the mask:   *)
(* the records in the file, and the one of a handler that has not written    *)
(* its struct yet.  The number is taken until Bump stores the next one.      *)
Pending == {t \in Threads : pc[t] \in {"id", "tfile", "header"}}

Numbering ==
  {t \in Threads : pc[t] \in {"id", "tfile", "header", "path1", "path2",
                              "content", "bump"}}

WrittenRecs ==
  {[id |-> trace[k].id, op |-> trace[k].op, err |-> trace[k].err] : k \in Headers}

PendingRecs ==
  {[id |-> record_id, op |-> cur[t].op, err |-> err[t]] : t \in Pending}

LogNext == IF Numbering = {} THEN record_id ELSE record_id + 1

Log == INSTANCE TraceLog WITH recs <- WrittenRecs \cup PendingRecs, next <- LogNext

(* Serialised calls are traced as if each record were added in one step,     *)
(* with consecutive ids, under the mask of that step.                        *)
ImplementsTraceLog == Log!Spec
=============================================================================
