----------------------------- MODULE JobContract -----------------------------
(***************************************************************************)
(* What the job queue promises to the rest of Catworld, without workers,   *)
(* leases or heartbeats: a row of cw_jobs is an at-least-once task with a  *)
(* budget of attempts.  It is started at most MaxAttempts[j] times more    *)
(* than it was given back for free, it ends COMPLETED or FAILED, and what  *)
(* has ended never runs again.  JobQueue is shown to implement this.       *)
(***************************************************************************)
EXTENDS Naturals

CONSTANTS
  Jobs,         \* rows of cw_jobs that may ever exist
  MaxAttempts   \* cw_jobs.max_attempts of each row

VARIABLES
  phase,        \* status of each row; "NEW" before its INSERT, "GONE" after its DELETE
  charged       \* attempts charged to each row

vars == <<phase, charged>>

Init ==
  /\ phase = [j \in Jobs |-> "NEW"]
  /\ charged = [j \in Jobs |-> 0]

Moves(j, from, to) == phase[j] = from /\ phase'[j] = to

\* A start is only granted while budget is left, and it is charged.
Start(j) ==
  /\ Moves(j, "QUEUED", "RUNNING")
  /\ charged[j] < MaxAttempts[j]
  /\ charged'[j] = charged[j] + 1

\* The run ended without a verdict.  Its attempt is kept or reimbursed, and
\* there must be budget left for the next one.
GiveBack(j) ==
  /\ Moves(j, "RUNNING", "QUEUED")
  /\ charged'[j] \in {charged[j], charged[j] - 1}
  /\ charged'[j] < MaxAttempts[j]

\* Every other change leaves the account alone.  Only a run can succeed; a
\* failure may be acknowledged, and a row may be deleted with its parent.
Settle(j) ==
  /\ \/ Moves(j, "NEW", "QUEUED")
     \/ Moves(j, "RUNNING", "COMPLETED")
     \/ Moves(j, "RUNNING", "FAILED")
     \/ Moves(j, "QUEUED", "FAILED")
     \/ Moves(j, "FAILED", "COMPLETED")
     \/ phase[j] \notin {"NEW", "GONE"} /\ phase'[j] = "GONE"
  /\ charged'[j] = charged[j]

Keep(j) == phase'[j] = phase[j] /\ charged'[j] = charged[j]

\* One statement of the code may move several rows at once.
Next ==
  /\ phase' = [j \in Jobs |-> phase'[j]]
  /\ charged' = [j \in Jobs |-> charged'[j]]
  /\ \A j \in Jobs : Start(j) \/ GiveBack(j) \/ Settle(j) \/ Keep(j)

Spec == Init /\ [][Next]_vars

==============================================================================
