------------------------------ MODULE MCJobQueue ------------------------------
(***************************************************************************)
(* Instances of JobQueue for TLC.  j1 is a heavy import (its work checks   *)
(* the cancel token), j2 a heavy and j3 a light refresh of one storage.    *)
(***************************************************************************)
EXTENDS JobQueue, TLC

CONSTANTS p1, p2, l1, l2, j1, j2, j3, s1

\* One loop under each of two profiles.
MCProfileOf == l1 :> p1 @@ l2 :> p2

\* Both profiles take every row.
MCLane == [p \in Profiles |-> Jobs]

MCWeight == [j \in Jobs |-> IF j = j3 THEN 1 ELSE 2]
MCStorageOf == [j \in Jobs |-> IF j = j1 THEN None ELSE s1]
MCCancellable == Jobs \cap {j1}
MCMaxAttempts == [j \in Jobs |-> 2]

\* One fault of any kind in a behaviour, or an outcome that lands between the
\* releaseSelf and the exit of a terminating process.
FewFaults ==
  LET total == faults.crash + faults.stop + faults.zombie
  IN  \/ total <= 1
      \/ total = 2 /\ faults.crash = 0 /\ stalled = {} /\ \E p \in Profiles : proc[p] = "released"
==============================================================================
