---------------------------- MODULE MCTableImport ----------------------------
(* An append and an upsert of one table, by two executors.                    *)
EXTENDS TableImport, TLC

CONSTANTS a1, m1

MCModeOf == [u \in Uploads |-> IF u = m1 THEN "upsert" ELSE "append"]

\* One fault of any kind in a behaviour, or a shutdown and what makes the run
\* it leaves behind overlap with the next one.
FewFaults ==
  LET others == faults.error + faults.outage + faults.crash
      overlapping == faults.retry + faults.late
  IN  \/ faults.stop + others + overlapping <= 1
      \/ faults.stop = 1 /\ others = 0 /\ overlapping = 1
==============================================================================
