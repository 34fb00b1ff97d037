--------------------------- MODULE MCSourceRefresh ---------------------------
(* A job of each kind, two loops, a caller that queues a refresh, and one     *)
(* fault of any kind at any point.                                            *)
EXTENDS SourceRefresh, TLC

CONSTANTS i1, r1, incremental, reconciliation

MCKindOf == [j \in Jobs |-> IF j = r1 THEN reconciliation ELSE incremental]

\* One cancel, crash, stall or lost renewal in a behaviour.
OneFault == faults.cancel + faults.crash + faults.stall + faults.beat <= 1
==============================================================================
