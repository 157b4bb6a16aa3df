-------------------------- MODULE MCSnapshotCycle --------------------------
(* A bound on SnapshotCycle for TLC. *)
EXTENDS SnapshotCycle, TLC

(* Counters, which have payloads, are collected once; waits and files twice, in  *)
(* less time.                                                                    *)
Apart ==
  LET Only(ops, collectors) ==
        /\ \A s \in Session : call[s].op \in ops \union {NoCall.op}
        /\ \A r \in DOMAIN db.runs : db.runs[r].collector \in collectors
  IN \/ Only({"WAIT_STATS", "FILE_IO", "PURGE"}, {"WAIT_STATS", "FILE_IO"}) /\ now <= 2
     \/ Only({"PERFORMANCE_COUNTERS", "PURGE"}, {"PERFORMANCE_COUNTERS"}) /\ lastRun <= 1
=============================================================================
