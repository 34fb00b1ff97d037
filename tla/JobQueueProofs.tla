---------------------------- MODULE JobQueueProofs ----------------------------
(***************************************************************************)
(* Proofs about JobQueue, for every set of rows, profiles and loops and    *)
(* every bound on the faults, and, at the end, about the commands that     *)
(* Supervisor carries out.                                                 *)
(***************************************************************************)
EXTENDS JobQueue, Supervisor, FiniteSetTheorems, TLAPS

\* Writing one column of a row yields a row.
LEMMA ColumnType ==
  ASSUME NEW row \in JobRow
  PROVE  /\ \A status \in Statuses : [row EXCEPT !.status = status] \in JobRow
         /\ \A h \in {"null", "fresh", "stale"} : [row EXCEPT !.heartbeat = h] \in JobRow
         /\ \A d \in BOOLEAN : [row EXCEPT !.due = d] \in JobRow
BY DEF JobRow

\* Taking a row from its owner yields a row.
LEMMA ReleasedType ==
  ASSUME NEW row \in JobRow, NEW status \in Statuses
  PROVE  Released(row, status) \in JobRow
BY DEF JobRow, Released

\* One outcome of an execution yields a row.
LEMMA OutcomeType ==
  ASSUME NEW row \in JobRow, NEW attempts \in Nat, NEW max \in Nat, NEW retryable \in BOOLEAN
  PROVE  /\ CompleteRow(row) \in JobRow
         /\ FailRow(row, attempts, max, retryable) \in JobRow
<1>1. Released(row, "COMPLETED") \in JobRow BY ReleasedType DEF Statuses
<1>2. Released(row, "FAILED") \in JobRow BY ReleasedType DEF Statuses
<1>3. [Released(row, "QUEUED") EXCEPT !.due = FALSE] \in JobRow
  <2>1. Released(row, "QUEUED") \in JobRow BY ReleasedType DEF Statuses
  <2>. QED BY <2>1 DEF JobRow
<1>. QED BY <1>1, <1>2, <1>3 DEF CompleteRow, FailRow

\* What the recovery statements and releaseSelf write is a row.
LEMMA RecoveryType ==
  ASSUME TypeOK, NEW j \in Jobs
  PROVE  /\ Released(job[j], "FAILED") \in JobRow
         /\ [Released(job[j], "QUEUED") EXCEPT !.due = TRUE] \in JobRow
         /\ AfterCrash(j) \in JobRow
         /\ Refunded(j) \in JobRow
<1>0. job[j] \in JobRow BY DEF TypeOK
<1>1. Released(job[j], "FAILED") \in JobRow BY <1>0, ReleasedType DEF Statuses
<1>2. Released(job[j], "QUEUED") \in JobRow BY <1>0, ReleasedType DEF Statuses
<1>3. [Released(job[j], "QUEUED") EXCEPT !.due = TRUE] \in JobRow BY <1>2 DEF JobRow
<1>4. Refunded(j) \in JobRow
  <2>. DEFINE r == Released(job[j], "QUEUED")
  <2>1. (IF r.attempts > 0 THEN r.attempts - 1 ELSE 0) \in Nat BY <1>2 DEF JobRow
  <2>2. Refunded(j) = [r EXCEPT !.due = TRUE,
                                !.attempts = IF r.attempts > 0 THEN r.attempts - 1 ELSE 0]
    BY <1>2 DEF JobRow, Refunded
  <2>. HIDE DEF r
  <2>3. r \in JobRow BY <1>2 DEF r
  <2>. QED BY <2>1, <2>2, <2>3 DEF JobRow
<1>. QED BY <1>1, <1>3, <1>4 DEF AfterCrash

\* A fault is counted once more.
LEMMA BumpType ==
  ASSUME TypeOK, NEW kind \in {"crash", "stop", "zombie"}, NEW max, BumpFault(kind, max)
  PROVE  faults' \in [crash : Nat, stop : Nat, zombie : Nat]
BY DEF TypeOK, BumpFault

\* An execution that ends leaves well-typed executions and fault counts.
LEMMA OutcomeTypes ==
  ASSUME TypeOK, NEW l \in Loops, Outcome(l)
  PROVE  /\ exec' \in [Loops -> Execution]
         /\ faults' \in [crash : Nat, stop : Nat, zombie : Nat]
         /\ exec[l].job \in Jobs /\ exec[l].attempts \in Nat
         /\ job[exec[l].job] \in JobRow
<1>1. Idle \in Execution BY DEF Idle, Execution
<1>2. exec' \in [Loops -> Execution] BY <1>1 DEF TypeOK, Outcome
<1>3. faults' \in [crash : Nat, stop : Nat, zombie : Nat]
  <2>1. CASE proc[ProfileOf[l]] = "released" BY <2>1, BumpType DEF Outcome
  <2>2. CASE proc[ProfileOf[l]] # "released" BY <2>2 DEF Outcome, TypeOK
  <2>. QED BY <2>1, <2>2
<1>4. exec[l].job \in Jobs /\ exec[l].attempts \in Nat
  BY DEF TypeOK, Outcome, Busy, Execution
<1>. QED BY <1>2, <1>3, <1>4 DEF TypeOK

LEMMA NoExecutionType ==
  ASSUME TypeOK, NEW p \in Profiles
  PROVE  NoExecution(p) \in [Loops -> Execution]
BY DEF TypeOK, NoExecution, Idle, Execution

\* The variables keep their types in every step of the queue, the loops and
\* the processes.
LEMMA TypeStep == ASSUME TypeOK, [Next]_vars PROVE TypeOK'
<1>. USE JobQueueAssumption
<1>1. ASSUME NEW j \in Jobs, Enqueue(j) \/ Cancel(j) \/ Purge(j) \/ DeleteWithParent(j)
                              \/ BackoffElapses(j) \/ HeartbeatAges(j)
      PROVE TypeOK'
  <2>1. job[j] \in JobRow BY DEF TypeOK
  <2>2. job' \in [Jobs -> JobRow]
    <3>1. CASE Enqueue(j) BY <3>1, <2>1, ColumnType DEF TypeOK, Enqueue, Statuses
    <3>2. CASE Cancel(j) BY <3>2, <2>1, ColumnType DEF TypeOK, Cancel, Statuses
    <3>3. CASE Purge(j) BY <3>3, <2>1, ColumnType DEF TypeOK, Purge, Statuses
    <3>6. CASE DeleteWithParent(j)
      BY <3>6, <2>1, ColumnType DEF TypeOK, DeleteWithParent, Statuses
    <3>4. CASE BackoffElapses(j) BY <3>4, <2>1, ColumnType DEF TypeOK, BackoffElapses
    <3>5. CASE HeartbeatAges(j) BY <3>5, <2>1, ColumnType DEF TypeOK, HeartbeatAges
    <3>. QED BY <1>1, <3>1, <3>2, <3>3, <3>4, <3>5, <3>6
  <2>. QED
    BY <1>1, <2>2
    DEF TypeOK, Enqueue, Cancel, Purge, DeleteWithParent, BackoffElapses, HeartbeatAges
<1>2. CASE CancelAll
  <2>1. \A j \in Jobs : [job[j] EXCEPT !.status = "FAILED"] \in JobRow
    BY ColumnType DEF TypeOK, Statuses
  <2>2. job' \in [Jobs -> JobRow] BY <1>2, <2>1 DEF TypeOK, CancelAll
  <2>. QED BY <1>2, <2>2 DEF TypeOK, CancelAll
<1>3. CASE DismissFailed
  <2>1. \A j \in Jobs : [job[j] EXCEPT !.status = "COMPLETED"] \in JobRow
    BY ColumnType DEF TypeOK, Statuses
  <2>2. job' \in [Jobs -> JobRow] BY <1>3, <2>1 DEF TypeOK, DismissFailed
  <2>. QED BY <1>3, <2>2 DEF TypeOK, DismissFailed
<1>4. ASSUME NEW l \in Loops, ClaimBegin(l) PROVE TypeOK'
  <2>1. NextInLine(ProfileOf[l]) \subseteq Jobs BY DEF NextInLine, Claimable
  <2>. QED BY <1>4, <2>1 DEF TypeOK, ClaimBegin
<1>5. ASSUME NEW l \in Loops, ClaimCommit(l) PROVE TypeOK'
  <2>1. claiming[l] \in Jobs BY <1>5 DEF ClaimCommit, TypeOK
  <2>2. ClaimedRow(l) \in JobRow
    <3>. DEFINE row == job[claiming[l]]
    <3>1. row \in JobRow BY <2>1 DEF TypeOK
    <3>2. row.attempts + 1 \in Nat BY <3>1 DEF JobRow
    <3>3. ClaimedRow(l) = [row EXCEPT !.status = "RUNNING", !.lockedBy = l, !.heartbeat = "fresh",
                                      !.attempts = row.attempts + 1]
      BY <3>1 DEF JobRow, ClaimedRow
    <3>. HIDE DEF row
    <3>. QED BY <3>1, <3>2, <3>3 DEF JobRow, Statuses
  <2>3. ClaimedRow(l).attempts \in Nat BY <2>2 DEF JobRow
  <2>4. exec' \in [Loops -> Execution] BY <1>5, <2>1, <2>3 DEF ClaimCommit, TypeOK, Execution
  <2>5. job' \in [Jobs -> JobRow] BY <1>5, <2>2 DEF ClaimCommit, TypeOK
  <2>. QED BY <1>5, <2>4, <2>5 DEF TypeOK, ClaimCommit
<1>6. ASSUME NEW l \in Loops, ClaimAbort(l) PROVE TypeOK' BY <1>6 DEF TypeOK, ClaimAbort
<1>7. ASSUME NEW l \in Loops, Beat(l) PROVE TypeOK'
  <2>1. exec[l].job \in Jobs BY <1>7 DEF TypeOK, Beat, Busy, Execution
  <2>2. [job[exec[l].job] EXCEPT !.heartbeat = "fresh"] \in JobRow
    BY <2>1, ColumnType DEF TypeOK
  <2>3. job' \in [Jobs -> JobRow] BY <1>7, <2>1, <2>2 DEF TypeOK, Beat
  <2>. QED BY <1>7, <2>3 DEF TypeOK, Beat
<1>8. ASSUME NEW l \in Loops, Complete(l) PROVE TypeOK'
  <2>1. Outcome(l) BY <1>8 DEF Complete
  <2>2. CompleteRow(job[exec[l].job]) \in JobRow BY <2>1, OutcomeTypes, OutcomeType
  <2>. QED BY <1>8, <2>1, <2>2, OutcomeTypes DEF TypeOK, Complete, Outcome
<1>9. ASSUME NEW l \in Loops, Fail(l) PROVE TypeOK'
  <2>1. Outcome(l) BY <1>9 DEF Fail
  <2>2. \A retryable \in BOOLEAN :
          FailRow(job[exec[l].job], exec[l].attempts, MaxAttempts[exec[l].job], retryable) \in JobRow
    <3>1. MaxAttempts[exec[l].job] \in Nat BY <2>1, OutcomeTypes
    <3>. QED BY <2>1, <3>1, OutcomeTypes, OutcomeType
  <2>3. job' \in [Jobs -> JobRow]
    <3>1. PICK retryable \in BOOLEAN :
            job' = [job EXCEPT ![exec[l].job] =
                      FailRow(@, exec[l].attempts, MaxAttempts[exec[l].job], retryable)]
      BY <1>9 DEF Fail
    <3>. DEFINE row == FailRow(job[exec[l].job], exec[l].attempts, MaxAttempts[exec[l].job], retryable)
    <3>2. row \in JobRow BY <2>2
    <3>3. job' = [job EXCEPT ![exec[l].job] = row] BY <3>1
    <3>. HIDE DEF row
    <3>. QED BY <3>2, <3>3 DEF TypeOK
  <2>4. exec' \in [Loops -> Execution] /\ faults' \in [crash : Nat, stop : Nat, zombie : Nat]
    BY <2>1, OutcomeTypes
  <2>. QED BY <2>1, <2>3, <2>4 DEF TypeOK, Outcome
<1>10. ASSUME NEW l \in Loops, FailLost(l) PROVE TypeOK'
  <2>1. Outcome(l) BY <1>10 DEF FailLost
  <2>2. exec' \in [Loops -> Execution] /\ faults' \in [crash : Nat, stop : Nat, zombie : Nat]
    BY <2>1, OutcomeTypes
  <2>3. UNCHANGED <<job, claiming, proc, stalled, overlapped>>
    BY <1>10, <2>1 DEF FailLost, Outcome
  <2>. QED BY <2>2, <2>3 DEF TypeOK
<1>11. ASSUME NEW l \in Loops, AbortOnShutdown(l) PROVE TypeOK'
  BY <1>11 DEF TypeOK, AbortOnShutdown, Idle, Execution
<1>12. ASSUME NEW p \in Profiles, FailExhausted(p) \/ RequeueStale(p) PROVE TypeOK'
  <2>0. \A j \in Jobs : /\ job[j] \in JobRow
                        /\ Released(job[j], "FAILED") \in JobRow
                        /\ [Released(job[j], "QUEUED") EXCEPT !.due = TRUE] \in JobRow
    BY RecoveryType DEF TypeOK
  <2>1. job' \in [Jobs -> JobRow]
    <3>1. CASE FailExhausted(p) BY <3>1, <2>0 DEF FailExhausted
    <3>2. CASE RequeueStale(p)
      <4>. DEFINE new(j) == IF j \in StaleRows /\ ~Exhausted(j)
                              THEN [Released(job[j], "QUEUED") EXCEPT !.due = TRUE] ELSE job[j]
      <4>1. \A j \in Jobs : new(j) \in JobRow BY <2>0
      <4>2. job' = [j \in Jobs |-> new(j)] BY <3>2 DEF RequeueStale
      <4>. HIDE DEF new
      <4>. QED BY <4>1, <4>2
    <3>. QED BY <1>12, <3>1, <3>2
  <2>. QED BY <1>12, <2>1 DEF TypeOK, FailExhausted, RequeueStale
<1>13. ASSUME NEW p \in Profiles, Boot(p) \/ ReleaseOwn(p) PROVE TypeOK'
  <2>0. \A j \in Jobs : job[j] \in JobRow /\ AfterCrash(j) \in JobRow /\ Refunded(j) \in JobRow
    BY RecoveryType DEF TypeOK
  <2>1. job' \in [Jobs -> JobRow] BY <1>13, <2>0 DEF Boot, ReleaseOwn
  <2>2. proc' \in [Profiles -> ProcStates] BY <1>13 DEF TypeOK, Boot, ReleaseOwn, ProcStates
  <2>. QED BY <1>13, <2>1, <2>2 DEF TypeOK, Boot, ReleaseOwn
<1>14. ASSUME NEW p \in Profiles, Drain(p) \/ Terminate(p) \/ DrainExit(p) PROVE TypeOK'
  <2>1. proc' \in [Profiles -> ProcStates]
    BY <1>14 DEF TypeOK, Drain, Terminate, DrainExit, ProcStates
  <2>2. faults' \in [crash : Nat, stop : Nat, zombie : Nat]
    <3>1. CASE faults' = faults BY <3>1 DEF TypeOK
    <3>2. CASE BumpFault("stop", MaxStops) BY <3>2, BumpType
    <3>. QED BY <1>14, <3>1, <3>2 DEF Drain, Terminate, DrainExit
  <2>. QED BY <1>14, <2>1, <2>2 DEF TypeOK, Drain, Terminate, DrainExit
<1>15. ASSUME NEW p \in Profiles, Exit(p) \/ Crash(p) PROVE TypeOK'
  <2>1. proc' \in [Profiles -> ProcStates] BY <1>15 DEF TypeOK, Exit, Crash, ProcStates
  <2>2. exec' \in [Loops -> Execution] BY <1>15, NoExecutionType DEF Exit, Crash
  <2>3. faults' \in [crash : Nat, stop : Nat, zombie : Nat]
    <3>1. CASE Exit(p) BY <3>1 DEF TypeOK, Exit
    <3>2. CASE Crash(p) BY <3>2, BumpType DEF Crash
    <3>. QED BY <1>15, <3>1, <3>2
  <2>4. stalled' \subseteq Profiles BY <1>15 DEF TypeOK, Exit, Crash
  <2>5. UNCHANGED <<job, claiming, overlapped>> BY <1>15 DEF Exit, Crash
  <2>. QED BY <2>1, <2>2, <2>3, <2>4, <2>5 DEF TypeOK
<1>16. ASSUME NEW p \in Profiles, Stall(p) \/ Resume(p) PROVE TypeOK'
  <2>1. CASE Stall(p) BY <2>1, BumpType DEF TypeOK, Stall
  <2>2. CASE Resume(p) BY <2>2 DEF TypeOK, Resume
  <2>. QED BY <1>16, <2>1, <2>2
<1>17. CASE UNCHANGED vars BY <1>17 DEF TypeOK, vars
<1>. QED
  BY <1>1, <1>2, <1>3, <1>4, <1>5, <1>6, <1>7, <1>8, <1>9, <1>10, <1>11, <1>12, <1>13,
     <1>14, <1>15, <1>16, <1>17 DEF Next, QueueNext, LoopNext, ProcessNext

\* Rows, claims, executions and processes always have the types the code
\* gives them; in particular an execution always names a row that exists.
THEOREM TypeCorrect == Spec => []TypeOK
<1>1. Init => TypeOK
  <2>. SUFFICES ASSUME Init PROVE TypeOK OBVIOUS
  <2>1. job \in [Jobs -> JobRow] BY DEF Init, JobRow, Statuses
  <2>2. exec \in [Loops -> Execution] BY DEF Init, Idle, Execution
  <2>3. claiming \in [Loops -> Jobs \cup {None}] /\ proc \in [Profiles -> ProcStates]
    BY DEF Init, ProcStates
  <2>4. faults \in [crash : Nat, stop : Nat, zombie : Nat] BY DEF Init
  <2>. QED BY <2>1, <2>2, <2>3, <2>4 DEF Init, TypeOK
<1>2. TypeOK /\ [Next]_vars => TypeOK' BY TypeStep
<1>. QED BY <1>1, <1>2, PTL DEF Spec

------------------------------------------------------------------------------
(* The inductive invariant *)

\* What a step other than a claim may do to row j: it never starts it, never
\* charges it, queues it only within its budget, leaves it alone while a claim
\* holds it, and takes it from a live owner only by settling it.
Survives(j) ==
  /\ job'[j].attempts <= job[j].attempts
  /\ job'[j].status = "NEW" => job[j].status = "NEW"
  /\ job'[j].status = "RUNNING" =>
       /\ job[j].status = "RUNNING"
       /\ job'[j].lockedBy = job[j].lockedBy
       /\ job'[j].attempts = job[j].attempts
       /\ job'[j].heartbeat # "null"
  /\ job'[j].status = "QUEUED" /\ ZombieFree' => job'[j].attempts < MaxAttempts[j]
  /\ RowLocked(j) /\ job[j].status = "QUEUED" => job'[j].status = "QUEUED"
  /\ ZombieFree' /\ (\E l \in Loops : Working(l)' /\ exec[l].job = j) =>
       \/ job'[j].status \in Terminal
       \/ job'[j].status = "RUNNING" /\ job'[j].heartbeat = "fresh"

\* The part of a step around the rows.
QuietAround ==
  /\ claiming' = claiming
  /\ \A l \in Loops : Busy(l)' => exec'[l] = exec[l]
  /\ \A l \in Loops : Working(l)' => Working(l)
  /\ DownIsIdle'
  /\ ZombieFree' => ZombieFree /\ stalled' = {}

\* A step that is quiet around rows that all survive it keeps the invariant.
LEMMA SurvivalKeepsInvariant ==
  ASSUME TypeOK, TypeOK', IInv, QuietAround, \A j \in Jobs : Survives(j)
  PROVE  IInv'
<1>. USE DEF IInv
<1>1. RunningIsRecoverable' BY DEF RunningIsRecoverable, Running, Survives
<1>2. ClaimsHoldRows'
  <2>1. ASSUME NEW l \in Loops, claiming[l] # None PROVE job'[claiming[l]].status = "QUEUED"
    <3>1. claiming[l] \in Jobs BY <2>1 DEF TypeOK
    <3>2. RowLocked(claiming[l]) BY DEF RowLocked
    <3>3. job[claiming[l]].status = "QUEUED" BY <2>1 DEF ClaimsHoldRows
    <3>. QED BY <3>1, <3>2, <3>3 DEF Survives
  <2>. QED BY <2>1 DEF ClaimsHoldRows, QuietAround
<1>3. DownIsIdle' BY DEF QuietAround
<1>4. NewIsUncharged'
  <2>1. ASSUME NEW j \in Jobs, job'[j].status = "NEW" PROVE job'[j].attempts = 0
    <3>1. job[j].attempts = 0 BY <2>1 DEF Survives, NewIsUncharged
    <3>2. job'[j].attempts \in Nat BY DEF TypeOK, JobRow
    <3>. QED BY <3>1, <3>2 DEF Survives
  <2>. QED BY <2>1 DEF NewIsUncharged
<1>5. (ZombieFree => stalled = {})' BY DEF QuietAround
<1>6. WorkingOwns'
  <2>. SUFFICES ASSUME ZombieFree', NEW l \in Loops, Working(l)'
                PROVE  \/ job'[exec'[l].job].status \in Terminal
                       \/ /\ job'[exec'[l].job].status = "RUNNING"
                          /\ job'[exec'[l].job].lockedBy = l
                          /\ job'[exec'[l].job].attempts = exec'[l].attempts
                          /\ job'[exec'[l].job].heartbeat = "fresh"
    BY DEF WorkingOwns
  <2>1. exec'[l] = exec[l] /\ Working(l) /\ ZombieFree
    BY DEF QuietAround, Working
  <2>2. exec[l].job \in Jobs BY <2>1 DEF TypeOK, Execution, Working, Busy
  <2>3. \/ job'[exec[l].job].status \in Terminal
        \/ job'[exec[l].job].status = "RUNNING" /\ job'[exec[l].job].heartbeat = "fresh"
    BY <2>2 DEF Survives
  <2>4. ASSUME job'[exec[l].job].status = "RUNNING"
        PROVE  /\ job'[exec[l].job].lockedBy = l
               /\ job'[exec[l].job].attempts = exec[l].attempts
    <3>1. job[exec[l].job].status = "RUNNING"
      BY <2>2, <2>4 DEF Survives
    <3>2. job[exec[l].job].lockedBy = l /\ job[exec[l].job].attempts = exec[l].attempts
      BY <2>1, <3>1 DEF WorkingOwns, Terminal
    <3>. QED BY <2>2, <2>4, <3>2 DEF Survives
  <2>. QED BY <2>1, <2>3, <2>4
<1>7. SingleExecutor'
  <2>1. ASSUME ZombieFree', NEW l \in Loops, NEW m \in Loops, Working(l)', Working(m)', l # m
        PROVE  exec'[l].job # exec'[m].job
    <3>1. exec'[l] = exec[l] /\ exec'[m] = exec[m] /\ Working(l) /\ Working(m) /\ ZombieFree
      BY <2>1 DEF QuietAround, Working
    <3>. QED BY <2>1, <3>1 DEF SingleExecutor
  <2>. QED BY <2>1 DEF SingleExecutor
<1>8. AttemptsWithinBudget'
  <2>1. ASSUME ZombieFree', NEW j \in Jobs
        PROVE  /\ job'[j].attempts <= MaxAttempts[j]
               /\ job'[j].status = "QUEUED" => job'[j].attempts < MaxAttempts[j]
    <3>1. job[j].attempts <= MaxAttempts[j] BY <2>1 DEF QuietAround, AttemptsWithinBudget
    <3>2. job[j].attempts \in Nat /\ job'[j].attempts \in Nat /\ MaxAttempts[j] \in Nat
      BY JobQueueAssumption DEF TypeOK, JobRow
    <3>. QED BY <2>1, <3>1, <3>2 DEF Survives
  <2>. QED BY <2>1 DEF AttemptsWithinBudget
<1>. QED BY <1>1, <1>2, <1>3, <1>4, <1>5, <1>6, <1>7, <1>8

\* A row that is left alone survives.
LEMMA SameRowSurvives ==
  ASSUME TypeOK, IInv, QuietAround, NEW j \in Jobs, job'[j] = job[j]
  PROVE  Survives(j)
<1>. USE DEF IInv
<1>1. job[j].attempts \in Nat BY DEF TypeOK, JobRow
<1>2. job[j].status = "RUNNING" => job[j].heartbeat # "null"
  BY DEF RunningIsRecoverable, Running
<1>3. ASSUME job[j].status = "QUEUED", ZombieFree' PROVE job[j].attempts < MaxAttempts[j]
  BY <1>3 DEF QuietAround, AttemptsWithinBudget
<1>4. ASSUME ZombieFree', NEW l \in Loops, Working(l)', exec[l].job = j
      PROVE  \/ job[j].status \in Terminal
             \/ job[j].status = "RUNNING" /\ job[j].heartbeat = "fresh"
  BY <1>4 DEF QuietAround, WorkingOwns
<1>. QED BY <1>1, <1>2, <1>3, <1>4 DEF Survives

\* A row that ends survives, unless a claim holds it.
LEMMA SettledRowSurvives ==
  ASSUME NEW j \in Jobs, job'[j].attempts = job[j].attempts, job[j].attempts \in Nat,
         job'[j].status \in Terminal, ~RowLocked(j) \/ job[j].status # "QUEUED"
  PROVE  Survives(j)
BY DEF Survives, Terminal

\* A row that goes back to the queue survives, if it is within its budget and
\* no working loop executes it.
LEMMA QueuedRowSurvives ==
  ASSUME NEW j \in Jobs, job'[j].attempts <= job[j].attempts, job'[j].status = "QUEUED",
         ZombieFree' => job'[j].attempts < MaxAttempts[j],
         ZombieFree' => ~\E l \in Loops : Working(l)' /\ exec[l].job = j
  PROVE  Survives(j)
BY DEF Survives

\* A step that changes rows only is quiet around them.
LEMMA RowsOnlyIsQuiet ==
  ASSUME IInv, UNCHANGED <<claiming, exec, proc, stalled, faults>>
  PROVE  QuietAround
BY DEF IInv, QuietAround, Working, Busy, ZombieFree, DownIsIdle

\* The producers' steps and the passing of time.
LEMMA QueueStep ==
  ASSUME TypeOK, TypeOK', IInv, QueueNext
  PROVE  IInv'
<1>0. UNCHANGED <<claiming, exec, proc, stalled, faults>>
  BY DEF QueueNext, Enqueue, Cancel, Purge, DeleteWithParent, BackoffElapses, HeartbeatAges,
         CancelAll, DismissFailed
<1>1. QuietAround BY <1>0, RowsOnlyIsQuiet
<1>2. SUFFICES ASSUME NEW k \in Jobs, job'[k] # job[k] PROVE Survives(k)
  BY <1>1, SameRowSurvives, SurvivalKeepsInvariant
<1>3. job[k] \in JobRow /\ job[k].attempts \in Nat /\ MaxAttempts[k] \in Nat \ {0}
  BY JobQueueAssumption DEF TypeOK, JobRow
<1>4. CASE \E j \in Jobs : Enqueue(j)
  <2>1. Enqueue(k) BY <1>2, <1>4 DEF Enqueue, TypeOK
  <2>2. job[k].status = "NEW" /\ job'[k] = [job[k] EXCEPT !.status = "QUEUED"]
    BY <2>1 DEF Enqueue, TypeOK
  <2>3. job[k].attempts = 0 BY <2>2 DEF IInv, NewIsUncharged
  <2>4. job'[k].status = "QUEUED" /\ job'[k].attempts = 0 BY <1>3, <2>2, <2>3 DEF JobRow
  <2>5. ASSUME ZombieFree', NEW l \in Loops, Working(l)', exec[l].job = k PROVE FALSE
    BY <1>1, <2>2, <2>5 DEF QuietAround, IInv, WorkingOwns, Terminal
  <2>. QED BY <1>3, <2>3, <2>4, <2>5, QueuedRowSurvives
<1>5. CASE \E j \in Jobs : Cancel(j) \/ Purge(j) \/ DeleteWithParent(j)
  <2>1. Cancel(k) \/ Purge(k) \/ DeleteWithParent(k)
    BY <1>2, <1>5 DEF Cancel, Purge, DeleteWithParent, TypeOK
  <2>2. ~RowLocked(k) \/ job[k].status # "QUEUED" BY <2>1 DEF Cancel, Purge, DeleteWithParent
  <2>3. job'[k].status \in Terminal /\ job'[k].attempts = job[k].attempts
    BY <2>1, <1>3 DEF Cancel, Purge, DeleteWithParent, TypeOK, JobRow, Terminal
  <2>. QED BY <1>3, <2>2, <2>3, SettledRowSurvives
<1>6. CASE CancelAll \/ DismissFailed
  <2>1. ~RowLocked(k) \/ job[k].status # "QUEUED" BY <1>2, <1>6 DEF CancelAll, DismissFailed
  <2>2. job'[k].status \in Terminal /\ job'[k].attempts = job[k].attempts
    BY <1>2, <1>3, <1>6 DEF CancelAll, DismissFailed, JobRow, Terminal
  <2>. QED BY <1>3, <2>1, <2>2, SettledRowSurvives
<1>7. CASE \E j \in Jobs : BackoffElapses(j)
  <2>1. BackoffElapses(k) BY <1>2, <1>7 DEF BackoffElapses, TypeOK
  <2>2. job[k].status = "QUEUED" /\ job'[k] = [job[k] EXCEPT !.due = TRUE]
    BY <2>1 DEF BackoffElapses, TypeOK
  <2>3. job'[k].status = "QUEUED" /\ job'[k].attempts = job[k].attempts
    BY <1>3, <2>2 DEF JobRow
  <2>4. ZombieFree' => job[k].attempts < MaxAttempts[k]
    BY <1>1, <2>2 DEF QuietAround, IInv, AttemptsWithinBudget
  <2>5. ASSUME ZombieFree', NEW l \in Loops, Working(l)', exec[l].job = k PROVE FALSE
    BY <1>1, <2>2, <2>5 DEF QuietAround, IInv, WorkingOwns, Terminal
  <2>. QED BY <1>3, <2>3, <2>4, <2>5, QueuedRowSurvives
<1>8. CASE \E j \in Jobs : HeartbeatAges(j)
  <2>1. HeartbeatAges(k) BY <1>2, <1>8 DEF HeartbeatAges, TypeOK
  <2>2. job[k].status = "RUNNING" /\ job'[k] = [job[k] EXCEPT !.heartbeat = "stale"]
    BY <2>1 DEF HeartbeatAges, TypeOK
  <2>3. /\ job'[k].status = "RUNNING" /\ job'[k].heartbeat = "stale"
        /\ job'[k].lockedBy = job[k].lockedBy /\ job'[k].attempts = job[k].attempts
    BY <1>3, <2>2 DEF JobRow
  <2>4. ASSUME ZombieFree', NEW l \in Loops, Working(l)', exec[l].job = k PROVE FALSE
    <3>1. Working(l) /\ stalled = {} BY <1>1, <2>4 DEF QuietAround, IInv
    <3>2. Alive(ProfileOf[l]) BY <3>1 DEF IInv, DownIsIdle, Working, Alive
    <3>. QED BY <2>1, <2>4, <3>2 DEF HeartbeatAges
  <2>. QED BY <1>3, <2>2, <2>3, <2>4 DEF Survives
<1>. QED BY <1>4, <1>5, <1>6, <1>7, <1>8 DEF QueueNext

\* An outcome is quiet around the rows: the loop that ends works no more, and
\* an outcome that lands after releaseSelf is counted as a zombie event.
LEMMA OutcomeIsQuiet ==
  ASSUME TypeOK, IInv, NEW l \in Loops, Outcome(l)
  PROVE  /\ QuietAround
         /\ ~Working(l)'
         /\ ZombieFree' => Working(l)
<1>1. exec' = [exec EXCEPT ![l] = Idle] /\ UNCHANGED <<claiming, proc, stalled>> /\ Busy(l)
  BY DEF Outcome
<1>2. ~Busy(l)' /\ \A m \in Loops : m # l => exec'[m] = exec[m]
  BY <1>1 DEF TypeOK, Busy, Idle
<1>3. ZombieFree' => ZombieFree /\ proc[ProfileOf[l]] # "released"
  <2>1. CASE proc[ProfileOf[l]] = "released"
    <3>1. faults'.zombie = faults.zombie + 1 /\ faults.zombie \in Nat
      BY <2>1 DEF Outcome, BumpFault, TypeOK
    <3>. QED BY <3>1 DEF ZombieFree
  <2>2. CASE proc[ProfileOf[l]] # "released" BY <2>2 DEF Outcome, ZombieFree
  <2>. QED BY <2>1, <2>2
<1>. QED BY <1>1, <1>2, <1>3 DEF QuietAround, IInv, DownIsIdle, Working, Busy

\* Ends of executions: complete, fail, fail lost, abort on shutdown.
LEMMA OutcomeStep ==
  ASSUME TypeOK, TypeOK', IInv, NEW l \in Loops,
         Complete(l) \/ Fail(l) \/ FailLost(l) \/ AbortOnShutdown(l)
  PROVE  IInv'
<1>1. CASE AbortOnShutdown(l)
  <2>1. QuietAround
    BY <1>1
    DEF AbortOnShutdown, QuietAround, IInv, DownIsIdle, Working, Busy, Idle, TypeOK, ZombieFree
  <2>2. job' = job BY <1>1 DEF AbortOnShutdown
  <2>. QED BY <2>1, <2>2, SameRowSurvives, SurvivalKeepsInvariant
<1>2. CASE FailLost(l)
  <2>1. QuietAround /\ job' = job BY <1>2, OutcomeIsQuiet DEF FailLost
  <2>. QED BY <2>1, SameRowSurvives, SurvivalKeepsInvariant
<1>3. CASE Complete(l) \/ Fail(l)
  <2>0. Outcome(l) BY <1>3 DEF Complete, Fail
  <2>. DEFINE k == exec[l].job
  <2>1. QuietAround /\ ~Working(l)' /\ (ZombieFree' => Working(l)) BY <2>0, OutcomeIsQuiet
  <2>2. k \in Jobs /\ exec[l].attempts \in Nat /\ job[k] \in JobRow BY <2>0, OutcomeTypes
  <2>3. \A j \in Jobs : j # k => job'[j] = job[j] BY <1>3 DEF Complete, Fail, TypeOK
  <2>4. SUFFICES ASSUME job'[k] # job[k] PROVE Survives(k)
    BY <2>1, <2>2, <2>3, SameRowSurvives, SurvivalKeepsInvariant
  <2>5. job[k].attempts \in Nat BY <2>2 DEF JobRow
  <2>6. job[k].status = "RUNNING"
    BY <1>3, <2>2, <2>4 DEF Complete, Fail, CompleteRow, FailRow, TypeOK
  <2>7. \/ job'[k].status \in Terminal /\ job'[k].attempts = job[k].attempts
        \/ /\ job'[k].status = "QUEUED" /\ job'[k].attempts = job[k].attempts
           /\ exec[l].attempts < MaxAttempts[k]
    <3>1. CASE Complete(l)
      <4>1. job'[k] = Released(job[k], "COMPLETED")
        BY <3>1, <2>2, <2>6 DEF Complete, CompleteRow, TypeOK
      <4>. QED BY <4>1, <2>2 DEF Released, JobRow, Terminal
    <3>2. CASE Fail(l)
      <4>1. \/ job'[k] = Released(job[k], "FAILED")
            \/ /\ exec[l].attempts < MaxAttempts[k]
               /\ job'[k] = [Released(job[k], "QUEUED") EXCEPT !.due = FALSE]
        BY <3>2, <2>2, <2>6 DEF Fail, FailRow, TypeOK
      <4>. QED BY <4>1, <2>2 DEF Released, JobRow, Terminal
    <3>. QED BY <1>3, <3>1, <3>2
  <2>8. ZombieFree' => exec[l].attempts = job[k].attempts
    BY <2>1, <2>6 DEF QuietAround, IInv, WorkingOwns, Terminal
  <2>9. ASSUME ZombieFree', NEW m \in Loops, Working(m)', exec[m].job = k PROVE FALSE
    <3>1. m # l /\ Working(m) /\ Working(l) /\ ZombieFree BY <2>1, <2>9 DEF QuietAround
    <3>. QED BY <3>1, <2>9 DEF IInv, SingleExecutor
  <2>. QED
    BY <2>2, <2>5, <2>6, <2>7, <2>8, <2>9, SettledRowSurvives, QueuedRowSurvives
<1>. QED BY <1>1, <1>2, <1>3

\* The timer of an execution.
LEMMA BeatStep ==
  ASSUME TypeOK, TypeOK', IInv, NEW l \in Loops, Beat(l)
  PROVE  IInv'
<1>. DEFINE k == exec[l].job
<1>1. QuietAround BY RowsOnlyIsQuiet DEF Beat
<1>2. k \in Jobs /\ job[k] \in JobRow BY DEF TypeOK, Beat, Busy, Execution
<1>3. \A j \in Jobs : j # k => job'[j] = job[j] BY DEF Beat, TypeOK
<1>4. SUFFICES Survives(k) BY <1>1, <1>2, <1>3, SameRowSurvives, SurvivalKeepsInvariant
<1>5. /\ job'[k].status = job[k].status /\ job'[k].attempts = job[k].attempts
      /\ job'[k].lockedBy = job[k].lockedBy /\ job'[k].heartbeat = "fresh"
  BY <1>2 DEF Beat, TypeOK, JobRow
<1>6. job[k].attempts \in Nat BY <1>2 DEF JobRow
<1>7. job[k].status = "QUEUED" /\ ZombieFree' => job[k].attempts < MaxAttempts[k]
  BY <1>1, <1>2 DEF QuietAround, IInv, AttemptsWithinBudget
<1>8. ZombieFree' /\ (\E m \in Loops : Working(m)' /\ exec[m].job = k) =>
        job[k].status \in Terminal \/ job[k].status = "RUNNING"
  BY <1>1 DEF QuietAround, IInv, WorkingOwns
<1>. QED BY <1>5, <1>6, <1>7, <1>8 DEF Survives

\* Claims: a row held by a claim is QUEUED, so nobody works on it.
LEMMA ClaimStep ==
  ASSUME TypeOK, TypeOK', IInv, NEW l \in Loops,
         ClaimBegin(l) \/ ClaimCommit(l) \/ ClaimAbort(l)
  PROVE  IInv'
<1>. USE DEF IInv
<1>1. CASE ClaimBegin(l) \/ ClaimAbort(l)
  <2>1. UNCHANGED <<job, exec, proc, stalled, faults>> BY <1>1 DEF ClaimBegin, ClaimAbort
  <2>2. ClaimsHoldRows'
    <3>1. CASE ClaimBegin(l)
      <4>1. PICK j \in NextInLine(ProfileOf[l]) : claiming' = [claiming EXCEPT ![l] = j]
        BY <3>1 DEF ClaimBegin
      <4>2. job[j].status = "QUEUED" /\ ~RowLocked(j) BY <4>1 DEF NextInLine, Claimable
      <4>. QED BY <2>1, <4>1, <4>2 DEF ClaimsHoldRows, RowLocked, TypeOK
    <3>2. CASE ClaimAbort(l) BY <2>1, <3>2 DEF ClaimAbort, ClaimsHoldRows, TypeOK
    <3>. QED BY <1>1, <3>1, <3>2
  <2>. QED
    BY <2>1, <2>2 DEF RunningIsRecoverable, Running, DownIsIdle, NewIsUncharged, ZombieFree,
       WorkingOwns, SingleExecutor, AttemptsWithinBudget, Working, Busy
<1>2. CASE ClaimCommit(l)
  <2>. DEFINE k == claiming[l]
  <2>1. k \in Jobs /\ job[k] \in JobRow /\ job[k].status = "QUEUED"
    BY <1>2 DEF ClaimCommit, TypeOK, ClaimsHoldRows
  <2>2. /\ job'[k].status = "RUNNING" /\ job'[k].lockedBy = l /\ job'[k].heartbeat = "fresh"
        /\ job'[k].attempts = job[k].attempts + 1
        /\ ClaimedRow(l).attempts = job[k].attempts + 1
    BY <1>2, <2>1 DEF ClaimCommit, ClaimedRow, TypeOK, JobRow
  <2>3. \A j \in Jobs : j # k => job'[j] = job[j] BY <1>2 DEF ClaimCommit, TypeOK
  <2>4. /\ UNCHANGED <<proc, stalled, faults>>
        /\ claiming' = [claiming EXCEPT ![l] = None]
        /\ \A m \in Loops : m # l => exec'[m] = exec[m]
        /\ \/ exec'[l] = exec[l]
           \/ proc[ProfileOf[l]] # "down"
              /\ exec'[l] = [job |-> k, attempts |-> job[k].attempts + 1]
    BY <1>2, <2>2 DEF ClaimCommit, TypeOK
  <2>5. ASSUME ZombieFree, NEW m \in Loops, Working(m) PROVE exec[m].job # k
    BY <2>1, <2>5 DEF WorkingOwns, Terminal
  <2>6. ZombieFree' = ZombieFree /\ (ZombieFree => stalled = {})' BY <2>4 DEF ZombieFree
  <2>7. RunningIsRecoverable'
    BY <2>2, <2>3, JobQueueAssumption DEF RunningIsRecoverable, Running
  <2>8. ClaimsHoldRows' BY <2>1, <2>3, <2>4, <1>2 DEF ClaimsHoldRows, TypeOK, ClaimCommit
  <2>9. DownIsIdle' BY <2>4 DEF DownIsIdle, Busy
  <2>10. NewIsUncharged' BY <2>2, <2>3 DEF NewIsUncharged
  <2>11. ASSUME ZombieFree', NEW m \in Loops, Working(m)'
         PROVE  \/ Working(m) /\ exec'[m] = exec[m] /\ exec[m].job # k /\ exec[m].job \in Jobs
                \/ m = l /\ exec'[m] = [job |-> k, attempts |-> job[k].attempts + 1]
    <3>1. CASE exec'[m] = exec[m]
      <4>1. Working(m) BY <2>4, <2>11, <3>1 DEF Working, Busy
      <4>. QED BY <3>1, <4>1, <2>5, <2>6, <2>11 DEF Working, Busy, TypeOK, Execution
    <3>. QED BY <2>4, <3>1
  <2>12. WorkingOwns'
    <3>. SUFFICES ASSUME ZombieFree', NEW m \in Loops, Working(m)'
                  PROVE  \/ job'[exec'[m].job].status \in Terminal
                         \/ /\ job'[exec'[m].job].status = "RUNNING"
                            /\ job'[exec'[m].job].lockedBy = m
                            /\ job'[exec'[m].job].attempts = exec'[m].attempts
                            /\ job'[exec'[m].job].heartbeat = "fresh"
      BY DEF WorkingOwns
    <3>1. CASE Working(m) /\ exec'[m] = exec[m] /\ exec[m].job # k /\ exec[m].job \in Jobs
      BY <3>1, <2>3, <2>6 DEF WorkingOwns
    <3>2. CASE m = l /\ exec'[m] = [job |-> k, attempts |-> job[k].attempts + 1]
      BY <3>2, <2>2
    <3>. QED BY <2>11, <3>1, <3>2
  <2>13. SingleExecutor'
    BY <2>6, <2>11 DEF SingleExecutor
  <2>14. AttemptsWithinBudget'
    <3>1. job[k].attempts \in Nat /\ MaxAttempts[k] \in Nat
      BY <2>1, JobQueueAssumption DEF JobRow
    <3>2. ZombieFree => job[k].attempts < MaxAttempts[k] BY <2>1 DEF AttemptsWithinBudget
    <3>. QED BY <2>2, <2>3, <2>6, <3>1, <3>2 DEF AttemptsWithinBudget
  <2>. QED BY <2>6, <2>7, <2>8, <2>9, <2>10, <2>12, <2>13, <2>14
<1>. QED BY <1>1, <1>2

\* recoverStale: a row it takes is stale, so no working loop executes it.
LEMMA RecoveryStep ==
  ASSUME TypeOK, TypeOK', IInv, NEW p \in Profiles, FailExhausted(p) \/ RequeueStale(p)
  PROVE  IInv'
<1>1. QuietAround BY RowsOnlyIsQuiet DEF FailExhausted, RequeueStale
<1>2. SUFFICES ASSUME NEW k \in Jobs, job'[k] # job[k] PROVE Survives(k)
  BY <1>1, SameRowSurvives, SurvivalKeepsInvariant
<1>3. job[k] \in JobRow /\ job[k].attempts \in Nat /\ MaxAttempts[k] \in Nat
  BY JobQueueAssumption DEF TypeOK, JobRow
<1>4. k \in StaleRows BY <1>2 DEF FailExhausted, RequeueStale
<1>5. job[k].status = "RUNNING" /\ job[k].heartbeat = "stale" BY <1>4 DEF StaleRows, Running
<1>6. ASSUME ZombieFree', NEW l \in Loops, Working(l)', exec[l].job = k PROVE FALSE
  BY <1>1, <1>5, <1>6 DEF QuietAround, IInv, WorkingOwns, Terminal
<1>7. CASE Exhausted(k)
  <2>1. job'[k] = Released(job[k], "FAILED")
    BY <1>2, <1>4, <1>7 DEF FailExhausted, RequeueStale
  <2>2. job'[k].status \in Terminal /\ job'[k].attempts = job[k].attempts
    BY <2>1, <1>3 DEF Released, JobRow, Terminal
  <2>. QED BY <1>3, <1>5, <2>2, SettledRowSurvives
<1>8. CASE ~Exhausted(k)
  <2>1. job'[k] = [Released(job[k], "QUEUED") EXCEPT !.due = TRUE]
    BY <1>2, <1>4, <1>8 DEF FailExhausted, RequeueStale
  <2>2. job'[k].status = "QUEUED" /\ job'[k].attempts = job[k].attempts
    BY <2>1, <1>3 DEF Released, JobRow
  <2>3. job[k].attempts < MaxAttempts[k] BY <1>3, <1>8 DEF Exhausted
  <2>. QED BY <1>3, <1>6, <2>2, <2>3, QueuedRowSurvives
<1>. QED BY <1>7, <1>8

\* A process that starts takes back the rows of its previous life: its loops
\* are idle, and no other loop owns them.
LEMMA BootStep ==
  ASSUME TypeOK, TypeOK', IInv, NEW p \in Profiles, Boot(p)
  PROVE  IInv'
<1>1. QuietAround
  BY DEF Boot, QuietAround, IInv, DownIsIdle, Working, Busy, ZombieFree, TypeOK
<1>2. SUFFICES ASSUME NEW k \in Jobs, job'[k] # job[k] PROVE Survives(k)
  BY <1>1, SameRowSurvives, SurvivalKeepsInvariant
<1>3. job[k] \in JobRow /\ job[k].attempts \in Nat /\ MaxAttempts[k] \in Nat
  BY JobQueueAssumption DEF TypeOK, JobRow
<1>4. k \in OwnRows(p) /\ job'[k] = AfterCrash(k) BY <1>2 DEF Boot
<1>5. job[k].status = "RUNNING" /\ job[k].lockedBy \in LoopsOf(p)
  BY <1>4 DEF OwnRows, Running
<1>6. ASSUME ZombieFree', NEW l \in Loops, Working(l)', exec[l].job = k PROVE FALSE
  <2>1. job[k].lockedBy = l /\ Busy(l)
    BY <1>1, <1>5, <1>6 DEF QuietAround, IInv, WorkingOwns, Working, Terminal
  <2>. QED BY <1>5, <2>1 DEF LoopsOf, Boot, IInv, DownIsIdle
<1>7. CASE Exhausted(k)
  <2>1. job'[k].status \in Terminal /\ job'[k].attempts = job[k].attempts
    BY <1>3, <1>4, <1>7 DEF AfterCrash, Released, JobRow, Terminal
  <2>. QED BY <1>3, <1>5, <2>1, SettledRowSurvives
<1>8. CASE ~Exhausted(k)
  <2>1. job'[k].status = "QUEUED" /\ job'[k].attempts = job[k].attempts
    BY <1>3, <1>4, <1>8 DEF AfterCrash, Released, JobRow
  <2>2. job[k].attempts < MaxAttempts[k] BY <1>3, <1>8 DEF Exhausted
  <2>. QED BY <1>3, <1>6, <2>1, <2>2, QueuedRowSurvives
<1>. QED BY <1>7, <1>8

\* releaseSelf on shutdown: the loops whose rows go back work no more.
LEMMA ReleaseStep ==
  ASSUME TypeOK, TypeOK', IInv, NEW p \in Profiles, ReleaseOwn(p)
  PROVE  IInv'
<1>1. QuietAround
  BY DEF ReleaseOwn, QuietAround, IInv, DownIsIdle, Working, Busy, ZombieFree, TypeOK
<1>2. SUFFICES ASSUME NEW k \in Jobs, job'[k] # job[k] PROVE Survives(k)
  BY <1>1, SameRowSurvives, SurvivalKeepsInvariant
<1>3. job[k] \in JobRow /\ job[k].attempts \in Nat /\ MaxAttempts[k] \in Nat \ {0}
  BY JobQueueAssumption DEF TypeOK, JobRow
<1>4. k \in OwnRows(p) /\ job'[k] = Refunded(k) BY <1>2 DEF ReleaseOwn
<1>5. job[k].status = "RUNNING" /\ job[k].lockedBy \in LoopsOf(p)
  BY <1>4 DEF OwnRows, Running
<1>6. ASSUME ZombieFree', NEW l \in Loops, Working(l)', exec[l].job = k PROVE FALSE
  <2>1. job[k].lockedBy = l /\ proc'[ProfileOf[l]] # "released"
    BY <1>1, <1>5, <1>6 DEF QuietAround, IInv, WorkingOwns, Working, Terminal
  <2>. QED BY <1>5, <2>1 DEF LoopsOf, ReleaseOwn, TypeOK
<1>7. /\ job'[k].status = "QUEUED"
      /\ job'[k].attempts = IF job[k].attempts > 0 THEN job[k].attempts - 1 ELSE 0
  BY <1>3, <1>4 DEF Refunded, Released, JobRow
<1>8. ZombieFree' => job[k].attempts <= MaxAttempts[k]
  BY <1>1 DEF QuietAround, IInv, AttemptsWithinBudget
<1>. QED BY <1>3, <1>6, <1>7, <1>8, QueuedRowSurvives

\* The other steps of a process leave the rows alone.
LEMMA LifeStep ==
  ASSUME TypeOK, TypeOK', IInv, NEW p \in Profiles,
         \/ Drain(p) \/ DrainExit(p) \/ Terminate(p) \/ Exit(p)
         \/ Crash(p) \/ Stall(p) \/ Resume(p)
  PROVE  IInv'
<1>1. QuietAround /\ job' = job
  <2>. USE DEF IInv, QuietAround, DownIsIdle, Working, Busy, ZombieFree
  <2>1. CASE Drain(p) \/ Terminate(p)
    <3>1. faults'.zombie = faults.zombie BY <2>1 DEF Drain, Terminate, BumpFault, TypeOK
    <3>2. CASE Drain(p) BY <3>1, <3>2, JobQueueAssumption DEF Drain, TypeOK
    <3>3. CASE Terminate(p) BY <3>1, <3>3, JobQueueAssumption DEF Terminate, TypeOK
    <3>. QED BY <2>1, <3>2, <3>3
  <2>2. CASE DrainExit(p) BY <2>2 DEF DrainExit, LoopsOf, TypeOK
  <2>3. CASE Exit(p) BY <2>3 DEF Exit, NoExecution, LoopsOf, Idle, TypeOK
  <2>4. CASE Crash(p) BY <2>4 DEF Crash, BumpFault, NoExecution, LoopsOf, Idle, TypeOK
  <2>5. CASE Stall(p)
    <3>1. faults'.zombie = faults.zombie + 1 /\ faults.zombie \in Nat
      BY <2>5 DEF Stall, BumpFault, TypeOK
    <3>2. ~ZombieFree' BY <3>1
    <3>. QED BY <2>5, <3>2 DEF Stall
  <2>6. CASE Resume(p) BY <2>6 DEF Resume
  <2>. QED BY <2>1, <2>2, <2>3, <2>4, <2>5, <2>6
<1>. QED BY <1>1, SameRowSurvives, SurvivalKeepsInvariant

LEMMA InvStep == ASSUME TypeOK, IInv, [Next]_vars PROVE IInv'
<1>1. TypeOK' BY TypeStep
<1>2. CASE UNCHANGED vars
  <2>1. UNCHANGED <<claiming, exec, proc, stalled, faults>> /\ job' = job BY <1>2 DEF vars
  <2>. QED BY <1>1, <2>1, RowsOnlyIsQuiet, SameRowSurvives, SurvivalKeepsInvariant
<1>3. CASE QueueNext BY <1>1, <1>3, QueueStep
<1>4. CASE LoopNext BY <1>1, <1>4, OutcomeStep, BeatStep, ClaimStep DEF LoopNext
<1>5. CASE ProcessNext
  BY <1>1, <1>5, RecoveryStep, BootStep, ReleaseStep, LifeStep DEF ProcessNext
<1>. QED BY <1>2, <1>3, <1>4, <1>5 DEF Next

\* The invariant holds in every behaviour, for any number of rows, loops,
\* profiles and faults.
THEOREM InvCorrect == Spec => []IInv
<1>1. Init => IInv
  <2>. SUFFICES ASSUME Init PROVE IInv OBVIOUS
  <2>1. \A l \in Loops : ~Busy(l) BY DEF Init, Busy, Idle
  <2>2. RunningIsRecoverable BY DEF Init, RunningIsRecoverable, Running
  <2>3. ClaimsHoldRows BY DEF Init, ClaimsHoldRows
  <2>4. NewIsUncharged BY DEF Init, NewIsUncharged
  <2>5. AttemptsWithinBudget BY JobQueueAssumption DEF Init, AttemptsWithinBudget
  <2>6. stalled = {} BY DEF Init
  <2>. QED
    BY <2>1, <2>2, <2>3, <2>4, <2>5, <2>6
    DEF IInv, DownIsIdle, WorkingOwns, SingleExecutor, Working
<1>2. TypeOK /\ IInv /\ [Next]_vars => IInv' BY InvStep
<1>. QED BY <1>1, <1>2, TypeCorrect, PTL DEF Spec

\* No two loops execute the same row (claim, recoverStale and releaseSelf).
THEOREM ExecutorIsSingle == Spec => []SingleExecutor
<1>1. IInv => SingleExecutor BY DEF IInv
<1>. QED BY <1>1, InvCorrect, PTL

\* recoverStale and releaseSelf never take a row from a live owner.
THEOREM WorkersOwnTheirRows == Spec => []WorkingOwns
<1>1. IInv => WorkingOwns BY DEF IInv
<1>. QED BY <1>1, InvCorrect, PTL

\* No path back to the queue forgets max_attempts.
THEOREM BudgetHolds == Spec => []AttemptsWithinBudget
<1>1. IInv => AttemptsWithinBudget BY DEF IInv
<1>. QED BY <1>1, InvCorrect, PTL

\* Every RUNNING row is within reach of recoverStale and releaseSelf, stalls
\* of processes included.
THEOREM RunningRowsAreRecoverable == Spec => []RunningIsRecoverable
<1>1. IInv => RunningIsRecoverable BY DEF IInv
<1>. QED BY <1>1, InvCorrect, PTL

------------------------------------------------------------------------------
(* What is settled stays settled *)

\* A step that changes a settled row settles it again, and never from
\* COMPLETED to FAILED, whatever zombies there are.
LEMMA SettledStep ==
  ASSUME TypeOK, IInv, [Next]_vars, NEW j \in Jobs, job[j].status \in Terminal
  PROVE  /\ job'[j].status \in Terminal
         /\ job[j].status = "COMPLETED" => job'[j].status # "FAILED"
<1>. USE DEF Terminal
<1>0. job[j] \in JobRow BY DEF TypeOK
<1>1. CASE UNCHANGED vars BY <1>1 DEF vars
<1>2. CASE QueueNext
  BY <1>0, <1>2 DEF QueueNext, Enqueue, Cancel, Purge, DeleteWithParent, BackoffElapses,
     HeartbeatAges, CancelAll, DismissFailed, TypeOK, JobRow
<1>3. CASE LoopNext
  <2>1. PICK l \in Loops : \/ ClaimBegin(l) \/ ClaimCommit(l) \/ ClaimAbort(l)
                           \/ Beat(l) \/ Complete(l) \/ Fail(l) \/ FailLost(l)
                           \/ AbortOnShutdown(l)
    BY <1>3 DEF LoopNext
  <2>2. CASE ClaimBegin(l) \/ ClaimAbort(l) \/ FailLost(l) \/ AbortOnShutdown(l)
    BY <2>2 DEF ClaimBegin, ClaimAbort, FailLost, AbortOnShutdown
  <2>3. CASE ClaimCommit(l)
    <3>1. claiming[l] # j BY <2>3 DEF ClaimCommit, IInv, ClaimsHoldRows
    <3>. QED BY <2>3, <3>1 DEF ClaimCommit, TypeOK
  <2>4. CASE Beat(l) BY <1>0, <2>4 DEF Beat, TypeOK, JobRow
  <2>5. CASE Complete(l) BY <2>5 DEF Complete, CompleteRow, TypeOK
  <2>6. CASE Fail(l) BY <2>6 DEF Fail, FailRow, TypeOK
  <2>. QED BY <2>1, <2>2, <2>3, <2>4, <2>5, <2>6
<1>4. CASE ProcessNext
  <2>1. j \notin StaleRows /\ \A p \in Profiles : j \notin OwnRows(p)
    BY DEF StaleRows, OwnRows, Running
  <2>. QED
    BY <1>4, <2>1 DEF ProcessNext, FailExhausted, RequeueStale, Boot, Drain, DrainExit,
       Terminate, ReleaseOwn, Exit, Crash, Stall, Resume
<1>. QED BY <1>1, <1>2, <1>3, <1>4 DEF Next

\* The late outcome of a zombie, a recovery or a claim never revives what was
\* cancelled, failed or completed.
THEOREM SettledForGood == Spec => SettledStaysSettled
<1>1. TypeOK /\ IInv /\ [Next]_vars =>
        [\A j \in Jobs : job[j].status \in Terminal =>
           /\ job'[j].status \in Terminal
           /\ job[j].status = "COMPLETED" => job'[j].status # "FAILED"]_vars
  BY SettledStep
<1>. QED BY <1>1, TypeCorrect, InvCorrect, PTL DEF Spec, SettledStaysSettled

------------------------------------------------------------------------------
(* The queue implements its contract *)

\* One row in one step: it is started within its budget, given back, settled
\* or left alone.
RowStep(j) ==
  \/ /\ job[j].status = "QUEUED" /\ job'[j].status = "RUNNING"
     /\ job[j].attempts < MaxAttempts[j] /\ job'[j].attempts = job[j].attempts + 1
  \/ /\ job[j].status = "RUNNING" /\ job'[j].status = "QUEUED"
     /\ job'[j].attempts \in {job[j].attempts, job[j].attempts - 1}
     /\ job'[j].attempts < MaxAttempts[j]
  \/ /\ job'[j].attempts = job[j].attempts
     /\ \/ job'[j].status = job[j].status
        \/ job[j].status = "NEW" /\ job'[j].status = "QUEUED"
        \/ job[j].status = "RUNNING" /\ job'[j].status \in {"COMPLETED", "FAILED"}
        \/ job[j].status = "QUEUED" /\ job'[j].status = "FAILED"
        \/ job[j].status = "FAILED" /\ job'[j].status = "COMPLETED"
        \/ job[j].status \notin {"NEW", "GONE"} /\ job'[j].status = "GONE"

\* Every step of the queue is such a step of every row, as long as no process
\* has stalled.
LEMMA EveryRowSteps ==
  ASSUME TypeOK, IInv, ZombieFree, ZombieFree', [Next]_vars, NEW j \in Jobs
  PROVE  RowStep(j)
<1>0. job[j] \in JobRow /\ job[j].attempts \in Nat /\ MaxAttempts[j] \in Nat \ {0}
  BY JobQueueAssumption DEF TypeOK, JobRow
<1>1. CASE job'[j] = job[j] BY <1>1 DEF RowStep
<1>2. CASE QueueNext
  BY <1>0, <1>2 DEF QueueNext, Enqueue, Cancel, Purge, DeleteWithParent, BackoffElapses,
     HeartbeatAges, CancelAll, DismissFailed, TypeOK, JobRow, RowStep
<1>3. ASSUME NEW l \in Loops, job'[j] # job[j],
             \/ ClaimBegin(l) \/ ClaimCommit(l) \/ ClaimAbort(l)
             \/ Beat(l) \/ Complete(l) \/ Fail(l) \/ FailLost(l) \/ AbortOnShutdown(l)
      PROVE  RowStep(j)
  <2>1. CASE ClaimBegin(l) \/ ClaimAbort(l) \/ FailLost(l) \/ AbortOnShutdown(l)
    BY <1>3, <2>1 DEF ClaimBegin, ClaimAbort, FailLost, AbortOnShutdown
  <2>2. CASE ClaimCommit(l)
    <3>1. claiming[l] = j BY <1>3, <2>2 DEF ClaimCommit, TypeOK
    <3>2. job[j].status = "QUEUED" BY <2>2, <3>1 DEF ClaimCommit, IInv, ClaimsHoldRows
    <3>3. job[j].attempts < MaxAttempts[j] BY <3>2 DEF IInv, AttemptsWithinBudget
    <3>4. job'[j].status = "RUNNING" /\ job'[j].attempts = job[j].attempts + 1
      BY <1>0, <2>2, <3>1 DEF ClaimCommit, ClaimedRow, TypeOK, JobRow
    <3>. QED BY <3>2, <3>3, <3>4 DEF RowStep
  <2>3. CASE Beat(l) BY <1>0, <2>3 DEF Beat, TypeOK, JobRow, RowStep
  <2>4. CASE Complete(l)
    BY <1>0, <2>4 DEF Complete, CompleteRow, Released, TypeOK, JobRow, RowStep
  <2>5. CASE Fail(l)
    <3>1. Outcome(l) /\ exec[l].job = j BY <1>3, <2>5 DEF Fail, TypeOK
    <3>2. job[j].status = "RUNNING" BY <1>3, <2>5, <3>1 DEF Fail, FailRow, TypeOK
    <3>3. exec[l].attempts = job[j].attempts
      BY <3>1, <3>2, OutcomeIsQuiet DEF IInv, WorkingOwns, Terminal
    <3>4. \/ job'[j] = Released(job[j], "FAILED")
          \/ /\ exec[l].attempts < MaxAttempts[j]
             /\ job'[j] = [Released(job[j], "QUEUED") EXCEPT !.due = FALSE]
      BY <2>5, <3>1, <3>2 DEF Fail, FailRow, TypeOK
    <3>. QED BY <1>0, <3>2, <3>3, <3>4 DEF Released, JobRow, RowStep
  <2>. QED BY <1>3, <2>1, <2>2, <2>3, <2>4, <2>5
<1>4. ASSUME NEW p \in Profiles, job'[j] # job[j],
             FailExhausted(p) \/ RequeueStale(p) \/ Boot(p) \/ ReleaseOwn(p)
      PROVE  RowStep(j)
  <2>1. job[j].status = "RUNNING"
    BY <1>4 DEF FailExhausted, RequeueStale, Boot, ReleaseOwn, StaleRows, OwnRows, Running
  <2>2. job[j].attempts <= MaxAttempts[j] BY DEF IInv, AttemptsWithinBudget
  <2>3. \/ job'[j] = Released(job[j], "FAILED")
        \/ ~Exhausted(j) /\ job'[j] = [Released(job[j], "QUEUED") EXCEPT !.due = TRUE]
        \/ job'[j] = Refunded(j)
    BY <1>4 DEF FailExhausted, RequeueStale, Boot, ReleaseOwn, AfterCrash
  <2>4. CASE job'[j] = Refunded(j)
    <3>1. /\ job'[j].status = "QUEUED"
          /\ job'[j].attempts = IF job[j].attempts > 0 THEN job[j].attempts - 1 ELSE 0
      BY <1>0, <2>4 DEF Refunded, Released, JobRow
    <3>. QED BY <1>0, <2>1, <2>2, <3>1 DEF RowStep
  <2>5. CASE job'[j] = Released(job[j], "FAILED")
    BY <1>0, <2>1, <2>5 DEF Released, JobRow, RowStep
  <2>6. CASE ~Exhausted(j) /\ job'[j] = [Released(job[j], "QUEUED") EXCEPT !.due = TRUE]
    BY <1>0, <2>1, <2>6 DEF Released, JobRow, RowStep, Exhausted
  <2>. QED BY <2>3, <2>4, <2>5, <2>6
<1>5. CASE ProcessNext
  BY <1>1, <1>4, <1>5 DEF ProcessNext, Drain, DrainExit, Terminate, Exit, Crash, Stall, Resume
<1>6. CASE LoopNext BY <1>1, <1>3, <1>6 DEF LoopNext
<1>7. CASE UNCHANGED vars BY <1>1, <1>7 DEF vars
<1>. QED BY <1>2, <1>5, <1>6, <1>7 DEF Next

\* As long as no process has stalled past the stale window, claims, recovery
\* and releaseSelf together give every row the life of an at-least-once task
\* with a budget of attempts.
THEOREM QueueImplementsContract == Spec => ContractSpec
<1>1. TypeOK /\ [Next]_vars /\ ZombieFree' => ZombieFree
  <2>. SUFFICES ASSUME TypeOK, [Next]_vars, ZombieFree' PROVE ZombieFree OBVIOUS
  <2>. USE DEF ZombieFree
  <2>1. ASSUME NEW kind \in {"crash", "stop", "zombie"}, NEW max \in Nat, BumpFault(kind, max)
        PROVE  faults.zombie = 0
    BY <2>1 DEF BumpFault, TypeOK
  <2>2. CASE UNCHANGED vars BY <2>2 DEF vars
  <2>3. CASE QueueNext
    BY <2>3 DEF QueueNext, Enqueue, Cancel, Purge, DeleteWithParent, BackoffElapses,
       HeartbeatAges, CancelAll, DismissFailed
  <2>4. CASE LoopNext
    <3>1. ASSUME NEW l \in Loops, Outcome(l) PROVE faults.zombie = 0
      BY <2>1, <3>1, JobQueueAssumption DEF Outcome
    <3>. QED BY <2>4, <3>1 DEF LoopNext, ClaimBegin, ClaimCommit, ClaimAbort, Beat, Complete,
                Fail, FailLost, AbortOnShutdown
  <2>5. CASE ProcessNext
    BY <2>1, <2>5, JobQueueAssumption
    DEF ProcessNext, FailExhausted, RequeueStale, Boot, Drain, DrainExit,
        Terminate, ReleaseOwn, Exit, Crash, Stall, Resume
  <2>. QED BY <2>2, <2>3, <2>4, <2>5 DEF Next
<1>2. Init => Contract!Init BY DEF Init, Contract!Init
<1>3. TypeOK /\ IInv /\ [Next]_vars => [ZombieFree' => Contract!Next]_(Contract!vars)
  <2>. SUFFICES ASSUME TypeOK, IInv, ZombieFree', [Next]_vars
                PROVE  Contract!Next
    OBVIOUS
  <2>1. ZombieFree BY <1>1
  <2>2. ASSUME NEW j \in Jobs
        PROVE  Contract!Start(j) \/ Contract!GiveBack(j) \/ Contract!Settle(j) \/ Contract!Keep(j)
    <3>1. RowStep(j) BY <2>1, EveryRowSteps
    <3>. QED
      BY <3>1 DEF RowStep, Contract!Start, Contract!GiveBack, Contract!Settle, Contract!Keep,
                  Contract!Moves
  <2>. QED BY <2>2 DEF Contract!Next
<1>. QED
  BY <1>2, <1>3, TypeCorrect, InvCorrect, PTL DEF Spec, ContractSpec
------------------------------------------------------------------------------
(* The caps on heavy rows and on rows of one storage *)

\* A row starts to run only when a claim statement that holds it commits.
LEMMA OnlyClaimsStart ==
  ASSUME TypeOK, [Next]_vars, NEW j \in Jobs, j \notin Running, j \in Running'
  PROVE  \E l \in Loops : ClaimCommit(l) /\ claiming[l] = j
<1>0. /\ job[j] \in JobRow /\ job[j].status # "RUNNING"
      /\ job'[j].status = "RUNNING" /\ job'[j] # job[j]
  BY DEF TypeOK, Running
<1>1. CASE QueueNext
  BY <1>0, <1>1 DEF QueueNext, Enqueue, Cancel, Purge, DeleteWithParent, BackoffElapses,
     HeartbeatAges, CancelAll, DismissFailed, TypeOK, JobRow
<1>2. ASSUME NEW l \in Loops,
             \/ ClaimBegin(l) \/ ClaimAbort(l)
             \/ Beat(l) \/ Complete(l) \/ Fail(l) \/ FailLost(l) \/ AbortOnShutdown(l)
      PROVE  FALSE
  <2>1. CASE ClaimBegin(l) \/ ClaimAbort(l) \/ FailLost(l) \/ AbortOnShutdown(l)
    BY <1>0, <2>1 DEF ClaimBegin, ClaimAbort, FailLost, AbortOnShutdown
  <2>2. CASE Beat(l) BY <1>0, <2>2 DEF Beat, TypeOK, JobRow
  <2>3. CASE Complete(l) BY <1>0, <2>3 DEF Complete, CompleteRow, TypeOK
  <2>4. CASE Fail(l) BY <1>0, <2>4 DEF Fail, FailRow, TypeOK
  <2>. QED BY <1>2, <2>1, <2>2, <2>3, <2>4
<1>3. ASSUME NEW l \in Loops, ClaimCommit(l) PROVE claiming[l] = j
  BY <1>0, <1>3 DEF ClaimCommit, TypeOK
<1>4. CASE ProcessNext
  BY <1>0, <1>4 DEF ProcessNext, FailExhausted, RequeueStale, Boot, ReleaseOwn, StaleRows,
     OwnRows, Running, Drain, DrainExit, Terminate, Exit, Crash, Stall, Resume
<1>5. CASE UNCHANGED vars BY <1>0, <1>5 DEF vars
<1>. QED BY <1>1, <1>2, <1>3, <1>4, <1>5 DEF Next, LoopNext

\* A claim statement starts only from a row in line, and counts as overlapped
\* when another is in flight.
LEMMA OnlyBeginClaims ==
  ASSUME TypeOK, [Next]_vars
  PROVE  \/ UNCHANGED overlapped /\ \A m \in Loops : claiming'[m] \in {claiming[m], None}
         \/ \E l \in Loops : ClaimBegin(l)
<1>1. CASE UNCHANGED vars BY <1>1 DEF vars
<1>2. CASE QueueNext
  BY <1>2 DEF QueueNext, Enqueue, Cancel, Purge, DeleteWithParent, BackoffElapses,
     HeartbeatAges, CancelAll, DismissFailed
<1>3. CASE LoopNext
  <2>1. ASSUME NEW l \in Loops, ClaimCommit(l) \/ ClaimAbort(l)
        PROVE  UNCHANGED overlapped /\ \A m \in Loops : claiming'[m] \in {claiming[m], None}
    BY <2>1 DEF ClaimCommit, ClaimAbort, TypeOK
  <2>2. ASSUME NEW l \in Loops,
               Beat(l) \/ Complete(l) \/ Fail(l) \/ FailLost(l) \/ AbortOnShutdown(l)
        PROVE  UNCHANGED <<claiming, overlapped>>
    BY <2>2 DEF Beat, Complete, Fail, FailLost, Outcome, AbortOnShutdown
  <2>. QED BY <1>3, <2>1, <2>2 DEF LoopNext
<1>4. CASE ProcessNext
  BY <1>4 DEF ProcessNext, FailExhausted, RequeueStale, Boot, Drain, DrainExit, Terminate,
     ReleaseOwn, Exit, Crash, Stall, Resume
<1>. QED BY <1>1, <1>2, <1>3, <1>4 DEF Next

\* The rows counted by the caps are finitely many.
LEMMA CountsAreFinite ==
  ASSUME NEW S \in SUBSET Jobs
  PROVE  IsFiniteSet(S) /\ Cardinality(S) \in Nat
BY JobQueueAssumption, FS_Subset, FS_CardinalityType

\* Fewer rows, or the same, keep a bound; one row more keeps a bound that was
\* not reached.
LEMMA CountGrows ==
  ASSUME NEW S \in SUBSET Jobs, NEW T \in SUBSET Jobs, NEW x
  PROVE  /\ T \subseteq S => Cardinality(T) <= Cardinality(S)
         /\ T \subseteq S \cup {x} => Cardinality(T) <= Cardinality(S) + 1
<1>1. IsFiniteSet(S) /\ Cardinality(S) \in Nat BY CountsAreFinite
<1>2. IsFiniteSet(S \cup {x}) /\ Cardinality(S \cup {x}) <= Cardinality(S) + 1
  <2>1. /\ IsFiniteSet(S \cup {x})
        /\ Cardinality(S \cup {x}) = IF x \in S THEN Cardinality(S) ELSE Cardinality(S) + 1
    BY <1>1, FS_AddElement, Zenon
  <2>. QED BY <1>1, <2>1
<1>3. T \subseteq S \cup {x} => Cardinality(T) <= Cardinality(S \cup {x}) BY <1>2, FS_Subset
<1>4. T \subseteq S => Cardinality(T) <= Cardinality(S) BY <1>1, FS_Subset
<1>5. Cardinality(T) \in Nat /\ Cardinality(S \cup {x}) \in Nat
  BY <1>2, CountsAreFinite, FS_CardinalityType
<1>. QED BY <1>1, <1>2, <1>3, <1>4, <1>5

\* What a claim in flight has counted still holds when it commits: as long as
\* no two claims were in flight at once nothing else starts a row.
SerialInv ==
  /\ CapsHoldSerially
  /\ ~overlapped =>
       /\ \A l, m \in Loops : claiming[l] # None /\ claiming[m] # None => l = m
       /\ \A l \in Loops : claiming[l] # None => UnderCaps(claiming[l])

LEMMA SerialStep == ASSUME TypeOK, SerialInv, [Next]_vars PROVE SerialInv'
<1>. USE JobQueueAssumption
<1>. SUFFICES ASSUME ~overlapped' PROVE SerialInv'
  BY DEF SerialInv, CapsHoldSerially
<1>1. ~overlapped BY OnlyBeginClaims DEF ClaimBegin
<1>2. \A l, m \in Loops : claiming[l] # None /\ claiming[m] # None => l = m
  BY <1>1 DEF SerialInv
<1>3. Running \subseteq Jobs /\ Running' \subseteq Jobs BY DEF Running
<1>c. /\ Cardinality(HeavyRunning) <= MaxHeavy
      /\ \A s \in {StorageOf[j] : j \in Jobs} \ {None} :
           Cardinality(StorageRunning(s)) <= MaxPerStorage
  BY <1>1 DEF SerialInv, CapsHoldSerially
<1>n. /\ HeavyRunning \in SUBSET Jobs /\ HeavyRunning' \in SUBSET Jobs
      /\ \A s : StorageRunning(s) \in SUBSET Jobs /\ StorageRunning(s)' \in SUBSET Jobs
  BY <1>3 DEF HeavyRunning, StorageRunning
<1>N. /\ Cardinality(HeavyRunning) \in Nat /\ Cardinality(HeavyRunning') \in Nat
      /\ \A s : /\ Cardinality(StorageRunning(s)) \in Nat
                /\ Cardinality(StorageRunning(s)') \in Nat
  BY <1>n, CountsAreFinite
<1>4. CASE \E l \in Loops : ClaimCommit(l)
  <2>1. PICK l \in Loops : ClaimCommit(l) BY <1>4
  <2>. DEFINE j == claiming[l]
  <2>2. j \in Jobs /\ j # None BY <2>1 DEF ClaimCommit, TypeOK
  <2>3. Running' \subseteq Running \cup {j}
    <3>1. ASSUME NEW k \in Running', k \notin Running PROVE k = j
      <4>1. k \in Jobs BY <1>3, <3>1
      <4>2. PICK m \in Loops : ClaimCommit(m) /\ claiming[m] = k BY <4>1, <3>1, OnlyClaimsStart
      <4>3. m = l BY <1>2, <2>1, <4>2 DEF ClaimCommit
      <4>. QED BY <4>2, <4>3
    <3>. QED BY <3>1
  <2>4. UnderCaps(j) BY <1>1, <2>2 DEF SerialInv
  <2>. HIDE DEF j
  <2>5. Cardinality(HeavyRunning') <= MaxHeavy
    <3>1. CASE Weight[j] = 2
      <4>1. HeavyRunning' \subseteq HeavyRunning \cup {j} BY <2>3 DEF HeavyRunning
      <4>2. Cardinality(HeavyRunning') <= Cardinality(HeavyRunning) + 1
        BY <4>1, <1>n, CountGrows
      <4>3. Cardinality(HeavyRunning) < MaxHeavy BY <2>4, <3>1 DEF UnderCaps
      <4>. QED BY <4>2, <4>3, <1>N
    <3>2. CASE Weight[j] # 2
      <4>1. HeavyRunning' \subseteq HeavyRunning BY <2>3, <3>2 DEF HeavyRunning
      <4>2. Cardinality(HeavyRunning') <= Cardinality(HeavyRunning) BY <4>1, <1>n, CountGrows
      <4>. QED BY <4>2, <1>c, <1>N
    <3>. QED BY <3>1, <3>2
  <2>6. ASSUME NEW s \in {StorageOf[k] : k \in Jobs} \ {None}
        PROVE  Cardinality(StorageRunning(s)') <= MaxPerStorage
    <3>1. CASE StorageOf[j] = s
      <4>1. StorageRunning(s)' \subseteq StorageRunning(s) \cup {j} BY <2>3 DEF StorageRunning
      <4>2. Cardinality(StorageRunning(s)') <= Cardinality(StorageRunning(s)) + 1
        BY <4>1, <1>n, CountGrows
      <4>3. Cardinality(StorageRunning(s)) < MaxPerStorage BY <2>4, <3>1 DEF UnderCaps
      <4>. QED BY <4>2, <4>3, <1>N
    <3>2. CASE StorageOf[j] # s
      <4>1. StorageRunning(s)' \subseteq StorageRunning(s) BY <2>3, <3>2 DEF StorageRunning
      <4>2. Cardinality(StorageRunning(s)') <= Cardinality(StorageRunning(s))
        BY <4>1, <1>n, CountGrows
      <4>. QED BY <4>2, <1>c, <1>N
    <3>. QED BY <3>1, <3>2
  <2>7. \A m \in Loops : claiming'[m] = None
    BY <1>2, <2>1 DEF ClaimCommit, TypeOK
  <2>. QED BY <2>5, <2>6, <2>7 DEF SerialInv, CapsHoldSerially
<1>5. CASE ~\E l \in Loops : ClaimCommit(l)
  <2>1. Running' \subseteq Running BY <1>3, <1>5, OnlyClaimsStart
  <2>2. /\ HeavyRunning' \subseteq HeavyRunning
        /\ \A s : StorageRunning(s)' \subseteq StorageRunning(s)
    BY <2>1 DEF HeavyRunning, StorageRunning
  <2>3. /\ Cardinality(HeavyRunning') <= Cardinality(HeavyRunning)
        /\ \A s : Cardinality(StorageRunning(s)') <= Cardinality(StorageRunning(s))
    BY <2>2, <1>n, CountGrows
  <2>4. CapsHoldSerially' BY <2>3, <1>c, <1>N DEF CapsHoldSerially
  <2>5. ASSUME NEW j, UnderCaps(j) PROVE UnderCaps(j)'
    BY <2>3, <2>5, <1>N DEF UnderCaps
  <2>6. CASE \E l \in Loops : ClaimBegin(l)
    <3>1. PICK l \in Loops : ClaimBegin(l) BY <2>6
    <3>2. PICK j \in NextInLine(ProfileOf[l]) : claiming' = [claiming EXCEPT ![l] = j]
      BY <3>1 DEF ClaimBegin
    <3>3. UnderCaps(j)' BY <2>5, <3>2 DEF NextInLine, Claimable
    <3>4. \A m \in Loops : claiming[m] = None BY <3>1 DEF ClaimBegin
    <3>5. \A m \in Loops : claiming'[m] = IF m = l THEN j ELSE None BY <3>2, <3>4 DEF TypeOK
    <3>. QED BY <2>4, <3>3, <3>5 DEF SerialInv
  <2>7. CASE \A m \in Loops : claiming'[m] \in {claiming[m], None}
    <3>1. ASSUME NEW m \in Loops, claiming'[m] # None PROVE UnderCaps(claiming[m])'
      <4>1. PICK k : k = claiming[m] OBVIOUS
      <4>2. k = claiming'[m] /\ UnderCaps(k) BY <1>1, <2>7, <3>1, <4>1 DEF SerialInv
      <4>3. UnderCaps(k)' BY <2>5, <4>2
      <4>. QED BY <4>2, <4>3 DEF UnderCaps
    <3>2. \A l, m \in Loops : claiming'[l] # None /\ claiming'[m] # None => l = m
      BY <1>2, <2>7
    <3>. QED BY <2>4, <3>1, <3>2 DEF SerialInv
  <2>. QED BY <2>6, <2>7, OnlyBeginClaims
<1>. QED BY <1>4, <1>5

\* The caps on heavy rows and on rows per storage hold across all workers as
\* long as claims come one at a time.
THEOREM CapsHold == Spec => []CapsHoldSerially
<1>1. Init => SerialInv
  <2>. SUFFICES ASSUME Init PROVE SerialInv OBVIOUS
  <2>1. Running = {} BY DEF Init, Running
  <2>2. HeavyRunning = {} /\ \A s : StorageRunning(s) = {}
    BY <2>1 DEF HeavyRunning, StorageRunning
  <2>3. Cardinality(HeavyRunning) = 0 /\ \A s : Cardinality(StorageRunning(s)) = 0
    <3>1. Cardinality({}) = 0 BY FS_EmptySet
    <3>. QED BY <2>2, <3>1
  <2>4. CapsHoldSerially BY <2>3, JobQueueAssumption DEF CapsHoldSerially
  <2>. QED BY <2>4 DEF SerialInv, Init
<1>2. TypeOK /\ SerialInv /\ [Next]_vars => SerialInv' BY SerialStep
<1>3. SerialInv => CapsHoldSerially BY DEF SerialInv
<1>. QED BY <1>1, <1>2, <1>3, TypeCorrect, PTL DEF Spec
------------------------------------------------------------------------------
(* The commands of the supervisor that runs these workers: the statements of
   Supervisor move the row of a command as the table of CommandContract
   allows, for any profiles, commands, edits and faults. *)

\* The row of a command: its state, and what was asked.
CommandRow == [status : {"NONE", "CHECKED", "GONE"} \cup Open \cup TerminalCommand,
               action : Actions, mode : {"SAFE", "IMMEDIATE"}, profile : ProfileIds \cup {Nothing}]

\* Commands, and what the supervisor remembers of them, keep their types.
CommandTypes ==
  /\ cmd \in [Commands -> CommandRow]
  /\ sup \in [state : {"down", "up", "shutting", "terminating"},
              phase : {"reconcile", "commands"}, held : Commands \cup {Nothing}]

\* The command that is being started has been accepted, or its profile was deleted since.
HeldInv == sup.held \in Commands => cmd[sup.held].status \in {"ACCEPTED", "GONE"}

\* The inductive invariant.
CommandInv == CommandTypes /\ HeldInv

\* The moves of one command that the statements of the program make.
Legal(c) ==
  \/ cmd'[c].status = cmd[c].status
  \/ cmd'[c].status = "GONE"
  \/ cmd[c].status = "NONE" /\ cmd'[c].status = "CHECKED"
  \/ cmd[c].status = "CHECKED" /\ cmd'[c].status = "PENDING"
  \/ cmd[c].status = "PENDING" /\ cmd'[c].status \in {"ACCEPTED", "CANCELLED", "EXPIRED"}
  \/ /\ cmd[c].status = "ACCEPTED"
     /\ cmd'[c].status \in {"DRAINING", "APPLYING", "DONE", "FORCED", "FAILED"}
  \/ cmd[c].status \in {"DRAINING", "APPLYING"} /\ cmd'[c].status \in {"DONE", "FORCED", "FAILED"}

\* What is shown of every step.
Steps == CommandTypes' /\ HeldInv' /\ \A c \in Commands : Legal(c)

\* A row in another state is a row.
LEMMA RowWithStatus ==
  ASSUME CommandTypes, NEW c \in Commands, NEW s \in {"GONE"} \cup Open \cup TerminalCommand
  PROVE  WithStatus(c, s) \in CommandRow /\ WithStatus(c, s).status = s
<1>1. cmd[c] \in CommandRow BY DEF CommandTypes
<1>2. NoCommand \in CommandRow BY DEF NoCommand, CommandRow, Actions
<1>3. s \in {"NONE", "CHECKED", "GONE"} \cup Open \cup TerminalCommand OBVIOUS
<1>4. CASE s \in Open
  <2>1. WithStatus(c, s) = [cmd[c] EXCEPT !.status = s] BY <1>4 DEF WithStatus
  <2>. QED BY <1>1, <1>3, <2>1 DEF CommandRow
<1>5. CASE s \notin Open
  <2>1. WithStatus(c, s) = [NoCommand EXCEPT !.status = s] BY <1>5 DEF WithStatus
  <2>. QED BY <1>2, <1>3, <2>1 DEF CommandRow
<1>. QED BY <1>4, <1>5

\* A statement that writes one row.
LEMMA OneRowMoves ==
  ASSUME CommandTypes, NEW c \in Commands, NEW w \in CommandRow, cmd' = [cmd EXCEPT ![c] = w]
  PROVE  /\ cmd' \in [Commands -> CommandRow] /\ cmd'[c].status = w.status
         /\ \A d \in Commands \ {c} : cmd'[d].status = cmd[d].status
BY DEF CommandTypes

\* A request is checked and created, is withdrawn or expires, or is taken.
LEMMA RequestSteps ==
  ASSUME CommandInv, NEW c \in Commands,
         PostCheck(c) \/ PostCreate(c) \/ Withdraw(c) \/ ClaimCommand(c)
  PROVE  Steps
<1>. USE DEF CommandInv
<1>1. CASE PostCheck(c)
  <2>1. PICK a \in Actions, m \in Modes[c] \cup {"SAFE"}, p \in ProfileIds \cup {Nothing} :
          /\ (a \in ProfileActions) = (p # Nothing)
          /\ p # Nothing => profile[p] # "deleted"
          /\ m \in (IF a = "START_PROFILE" THEN {"SAFE"} ELSE Modes[c])
          /\ \A d \in Commands : IsOpen(d) => ~commandsConflict(a, p, d)
          /\ cmd' = [cmd EXCEPT ![c] = [status |-> "CHECKED", action |-> a, mode |-> m,
                                        profile |-> p]]
    BY <1>1, Zenon DEF PostCheck
  <2>. DEFINE w == [status |-> "CHECKED", action |-> a, mode |-> m, profile |-> p]
  <2>2. m \in {"SAFE", "IMMEDIATE"} BY SupervisorAssumption
  <2>3. w \in CommandRow /\ w.status = "CHECKED" BY <2>2 DEF CommandRow
  <2>4. cmd' = [cmd EXCEPT ![c] = w] BY <2>1
  <2>. HIDE DEF w
  <2>5. /\ cmd' \in [Commands -> CommandRow] /\ cmd'[c].status = "CHECKED"
        /\ \A d \in Commands \ {c} : cmd'[d].status = cmd[d].status
    BY <2>3, <2>4, OneRowMoves
  <2>. QED BY <1>1, <2>5 DEF PostCheck, Steps, CommandTypes, HeldInv, Legal
<1>2. CASE PostCreate(c)
  <2>1. PICK s \in {"GONE", "PENDING"} : cmd' = [cmd EXCEPT ![c] = WithStatus(c, s)]
    BY <1>2 DEF PostCreate
  <2>2. WithStatus(c, s) \in CommandRow /\ WithStatus(c, s).status = s
    BY RowWithStatus DEF Open
  <2>3. /\ cmd' \in [Commands -> CommandRow] /\ cmd'[c].status = s
        /\ \A d \in Commands \ {c} : cmd'[d].status = cmd[d].status
    BY <2>1, <2>2, OneRowMoves
  <2>. QED BY <1>2, <2>3 DEF PostCreate, Steps, CommandTypes, HeldInv, Legal
<1>3. CASE Withdraw(c)
  <2>1. PICK s \in {"CANCELLED", "EXPIRED"} : cmd' = [cmd EXCEPT ![c] = WithStatus(c, s)]
    BY <1>3 DEF Withdraw
  <2>2. WithStatus(c, s) \in CommandRow /\ WithStatus(c, s).status = s
    BY RowWithStatus DEF TerminalCommand
  <2>3. /\ cmd' \in [Commands -> CommandRow] /\ cmd'[c].status = s
        /\ \A d \in Commands \ {c} : cmd'[d].status = cmd[d].status
    BY <2>1, <2>2, OneRowMoves
  <2>. QED BY <1>3, <2>3 DEF Withdraw, Steps, CommandTypes, HeldInv, Legal
<1>4. CASE ClaimCommand(c)
  <2>. DEFINE w == [cmd[c] EXCEPT !.status = "ACCEPTED"]
  <2>1. cmd[c] \in CommandRow BY DEF CommandTypes
  <2>2. w \in CommandRow /\ w.status = "ACCEPTED" BY <2>1 DEF CommandRow, Open
  <2>3. cmd' = [cmd EXCEPT ![c] = w] BY <1>4 DEF ClaimCommand
  <2>. HIDE DEF w
  <2>4. /\ cmd' \in [Commands -> CommandRow] /\ cmd'[c].status = "ACCEPTED"
        /\ \A d \in Commands \ {c} : cmd'[d].status = cmd[d].status
    BY <2>2, <2>3, OneRowMoves
  <2>5. sup' = [sup EXCEPT !.held = c] BY <1>4 DEF ClaimCommand
  <2>6. /\ sup' \in [state : {"down", "up", "shutting", "terminating"},
                     phase : {"reconcile", "commands"}, held : Commands \cup {Nothing}]
        /\ sup'.held = c
    BY <2>5 DEF CommandTypes
  <2>. QED BY <1>4, <2>4, <2>6 DEF ClaimCommand, Steps, CommandTypes, HeldInv, Legal
<1>. QED BY <1>1, <1>2, <1>3, <1>4

\* Whatever a started command reports, it was accepted before.
LEMMA StartSteps ==
  ASSUME CommandInv, NEW c \in Commands, StartCommand(c)
  PROVE  Steps
<1>. USE DEF CommandInv
<1>1. PICK s \in {"DONE", "DRAINING", "APPLYING", "FAILED"} : Reported(c, s)
  BY
  DEF StartCommand, Refuse, StartNow, StartRestart, StartStop, StartAll,
      StartShutdown
<1>2. cmd[c].status \in {"ACCEPTED", "GONE"} BY DEF StartCommand, HeldInv
<1>3. PICK t \in {"DONE", "DRAINING", "APPLYING", "FAILED"} : cmd' = StatusWritten(c, t) \/ cmd' = cmd
  BY <1>1 DEF Reported
<1>4. t \in Open \cup TerminalCommand BY DEF Open, TerminalCommand
<1>5. /\ cmd' \in [Commands -> CommandRow]
      /\ cmd'[c].status = cmd[c].status \/ (cmd[c].status = "ACCEPTED" /\ cmd'[c].status = t)
      /\ \A d \in Commands \ {c} : cmd'[d].status = cmd[d].status
  <2>1. CASE cmd' = cmd BY <2>1 DEF CommandTypes
  <2>2. CASE cmd' = [cmd EXCEPT ![c] = WithStatus(c, t)] /\ IsOpen(c)
    <3>1. WithStatus(c, t) \in CommandRow /\ WithStatus(c, t).status = t
      BY <1>4, RowWithStatus
    <3>2. cmd[c].status = "ACCEPTED" BY <1>2, <2>2 DEF IsOpen, Open
    <3>. QED BY <2>2, <3>1, <3>2, OneRowMoves
  <2>. QED BY <1>3, <2>1, <2>2 DEF StatusWritten
<1>6. PICK state \in {sup.state, "shutting"} : sup' = [sup EXCEPT !.held = Nothing, !.state = state]
  BY <1>1 DEF Reported
<1>7. /\ sup' \in [state : {"down", "up", "shutting", "terminating"},
                   phase : {"reconcile", "commands"}, held : Commands \cup {Nothing}]
      /\ sup'.held = Nothing
  BY <1>6 DEF CommandTypes
<1>8. Nothing \notin Commands BY SupervisorAssumption
<1>. QED BY <1>5, <1>7, <1>8 DEF Steps, CommandTypes, HeldInv, Legal

\* A command under way is done, or was forced.
LEMMA FinishSteps ==
  ASSUME CommandInv, Finish
  PROVE  Steps
<1>. USE DEF CommandInv
<1>1. \A c \in Commands : cmd[c] \in CommandRow BY DEF CommandTypes
<1>2. PICK D \in SUBSET Commands :
        cmd' = [c \in Commands |->
          IF c \in D THEN StatusWritten(c, IF Forced(c) THEN "FORCED" ELSE "DONE")[c]
          ELSE cmd[c]]
  <2>. DEFINE done == {c \in Commands : Done(c)}
  <2>1. PICK lost \in SUBSET done :
          cmd' = [c \in Commands |->
            IF c \in done \ lost
            THEN StatusWritten(c, IF Forced(c) THEN "FORCED" ELSE "DONE")[c] ELSE cmd[c]]
    BY DEF Finish
  <2>2. done \ lost \in SUBSET Commands OBVIOUS
  <2>. HIDE DEF done
  <2>. QED BY <2>1, <2>2
<1>3. ASSUME NEW c \in Commands
      PROVE  /\ cmd'[c] \in CommandRow
             /\ \/ cmd'[c] = cmd[c]
                \/ cmd[c].status \in Open /\ cmd'[c].status \in {"FORCED", "DONE"}
  <2>1. CASE c \in D /\ IsOpen(c)
    <3>1. PICK t \in {"FORCED", "DONE"} : cmd'[c] = StatusWritten(c, t)[c] BY <1>2, <2>1
    <3>2. cmd'[c] = WithStatus(c, t) BY <2>1, <3>1 DEF StatusWritten, CommandTypes
    <3>3. WithStatus(c, t) \in CommandRow /\ WithStatus(c, t).status = t
      BY RowWithStatus DEF TerminalCommand
    <3>. QED BY <2>1, <3>2, <3>3 DEF IsOpen
  <2>2. CASE ~(c \in D /\ IsOpen(c))
    <3>1. cmd'[c] = cmd[c] BY <1>2, <2>2 DEF StatusWritten
    <3>. QED BY <1>1, <3>1
  <2>. QED BY <2>1, <2>2
<1>4. cmd' \in [Commands -> CommandRow] BY <1>2, <1>3
<1>5. \A c \in Commands : cmd[c].status # "PENDING" BY DEF Finish, InState
<1>6. \A c \in Commands : Legal(c) BY <1>3, <1>5 DEF Legal, Open
<1>7. PICK state \in {sup.state, "down"} : sup' = [sup EXCEPT !.state = state, !.phase = "reconcile"]
  <2>1. CASE sup' = [sup EXCEPT !.state = "down", !.phase = "reconcile"] BY <2>1
  <2>2. CASE sup' = [sup EXCEPT !.phase = "reconcile"]
    <3>1. sup' = [sup EXCEPT !.state = sup.state, !.phase = "reconcile"] BY <2>2 DEF CommandTypes
    <3>. QED BY <3>1
  <2>. QED BY <2>1, <2>2 DEF Finish
<1>8. /\ sup' \in [state : {"down", "up", "shutting", "terminating"},
                   phase : {"reconcile", "commands"}, held : Commands \cup {Nothing}]
      /\ sup'.held = Nothing
  BY <1>7 DEF CommandTypes, Finish
<1>9. Nothing \notin Commands BY SupervisorAssumption
<1>. QED BY <1>4, <1>6, <1>8, <1>9 DEF Steps, CommandTypes, HeldInv

\* The rows of the commands of a profile go with it.
LEMMA DeleteSteps ==
  ASSUME CommandInv, NEW p \in ProfileIds, DeleteProfile(p)
  PROVE  Steps
<1>. USE DEF CommandInv
<1>1. ASSUME NEW c \in Commands
      PROVE  cmd'[c] \in CommandRow /\ (cmd'[c].status = cmd[c].status \/ cmd'[c].status = "GONE")
  <2>1. cmd[c] \in CommandRow BY DEF CommandTypes
  <2>2. WithStatus(c, "GONE") \in CommandRow /\ WithStatus(c, "GONE").status = "GONE"
    BY RowWithStatus
  <2>. QED BY <2>1, <2>2 DEF DeleteProfile
<1>2. cmd' \in [Commands -> CommandRow] BY <1>1 DEF DeleteProfile
<1>3. sup' = sup BY DEF DeleteProfile
<1>. QED BY <1>1, <1>2, <1>3 DEF Steps, CommandTypes, HeldInv, Legal

\* Commands under way fail when a supervisor starts.
LEMMA BootSteps ==
  ASSUME CommandInv, SupervisorBoot
  PROVE  Steps
<1>. USE DEF CommandInv
<1>1. ASSUME NEW c \in Commands
      PROVE  /\ cmd'[c] \in CommandRow
             /\ \/ cmd'[c].status = cmd[c].status
                \/ cmd[c].status \in {"ACCEPTED", "DRAINING", "APPLYING"} /\ cmd'[c].status = "FAILED"
  <2>1. cmd[c] \in CommandRow BY DEF CommandTypes
  <2>2. /\ WithStatus(c, "FAILED") \in CommandRow
        /\ WithStatus(c, "FAILED").status = "FAILED"
    BY RowWithStatus DEF TerminalCommand
  <2>. QED BY <2>1, <2>2 DEF SupervisorBoot
<1>2. cmd' \in [Commands -> CommandRow] BY <1>1 DEF SupervisorBoot
<1>3. /\ sup' \in [state : {"down", "up", "shutting", "terminating"},
                   phase : {"reconcile", "commands"}, held : Commands \cup {Nothing}]
      /\ sup'.held = Nothing
  BY DEF SupervisorBoot
<1>4. Nothing \notin Commands BY SupervisorAssumption
<1>. QED BY <1>1, <1>2, <1>3, <1>4 DEF Steps, CommandTypes, HeldInv, Legal

\* Every other statement leaves the commands, and the one being started, alone.
LEMMA OtherSteps ==
  ASSUME CommandInv, cmd' = cmd,
         \/ sup' = sup
         \/ sup' = [sup EXCEPT !.phase = "commands"]
         \/ \E s \in {"terminating", "down"} : sup' = [sup EXCEPT !.state = s]
         \/ sup' = [state |-> "down", phase |-> "reconcile", held |-> Nothing]
  PROVE  Steps
<1>1. /\ sup' \in [state : {"down", "up", "shutting", "terminating"},
                   phase : {"reconcile", "commands"}, held : Commands \cup {Nothing}]
      /\ sup'.held \in {sup.held, Nothing}
  BY DEF CommandInv, CommandTypes
<1>2. Nothing \notin Commands BY SupervisorAssumption
<1>. QED BY <1>1, <1>2 DEF CommandInv, Steps, CommandTypes, HeldInv, Legal

\* Every step of the supervisor and of those who ask it.
LEMMA CommandSteps ==
  ASSUME CommandInv, [SupervisorNext]_supervisorVars
  PROVE  Steps
<1>1. ASSUME NEW p \in ProfileIds, Patch(p) \/ Elapse(p) \/ ChildExit(p) \/ ChildEnds(p)
      PROVE  Steps
  BY <1>1, OtherSteps DEF Patch, Elapse, ChildExit, ChildEnds
<1>2. ASSUME Reconcile \/ SupervisorTerminate \/ SupervisorExit \/ SupervisorCrash PROVE Steps
  BY <1>2, OtherSteps DEF Reconcile, SupervisorTerminate, SupervisorExit, SupervisorCrash
<1>3. CASE UNCHANGED supervisorVars BY <1>3, OtherSteps DEF supervisorVars
<1>4. CASE SupervisorNext
  BY <1>1, <1>2, <1>4, RequestSteps, StartSteps, FinishSteps, DeleteSteps, BootSteps
  DEF SupervisorNext, Cycle
<1>. QED BY <1>3, <1>4

\* What the program does to a row is a move of the table.
LEMMA StepsMove == ASSUME Steps, CommandInv PROVE CommandTable!Move
<1>. DEFINE seen == [c \in Commands |-> IF cmd[c].status = "CHECKED" THEN "NONE" ELSE cmd[c].status]
<1>1. \A c \in Commands :
        cmd'[c].status \in {"NONE", "CHECKED", "GONE"} \cup Open \cup TerminalCommand
  BY DEF Steps, CommandTypes, CommandRow
<1>2. seen' \in [Commands -> {"NONE", "GONE"} \cup Open \cup TerminalCommand] BY <1>1
<1>3. ASSUME NEW c \in Commands
      PROVE  \/ seen'[c] = seen[c]
             \/ seen[c] = "NONE" /\ seen'[c] = "PENDING"
             \/ seen[c] \in Open /\ seen'[c] \in CommandTable!TRANSITIONS[seen[c]]
             \/ seen[c] = "ACCEPTED" /\ seen'[c] = "FORCED"
             \/ seen'[c] = "GONE"
  <2>1. Legal(c) BY DEF Steps
  <2>2. /\ seen[c] = IF cmd[c].status = "CHECKED" THEN "NONE" ELSE cmd[c].status
        /\ seen'[c] = IF cmd'[c].status = "CHECKED" THEN "NONE" ELSE cmd'[c].status
    OBVIOUS
  <2>. HIDE DEF seen
  <2>3. /\ CommandTable!TRANSITIONS["PENDING"] = {"ACCEPTED", "CANCELLED", "EXPIRED", "FAILED"}
        /\ CommandTable!TRANSITIONS["ACCEPTED"] = {"DRAINING", "APPLYING", "DONE", "FAILED"}
        /\ CommandTable!TRANSITIONS["DRAINING"] = {"APPLYING", "DONE", "FORCED", "FAILED"}
        /\ CommandTable!TRANSITIONS["APPLYING"] = {"DONE", "FORCED", "FAILED"}
    BY DEF CommandTable!TRANSITIONS, CommandTable!Open
  <2>. QED BY <2>1, <2>2, <2>3 DEF Legal, Open
<1>. QED
  BY <1>2, <1>3
  DEF CommandTable!Move, CommandTable!Open, CommandTable!Terminal, Open, TerminalCommand

\* Nothing has been asked yet.
LEMMA CommandStart == ASSUME SupervisorInit PROVE CommandInv /\ CommandTable!Init
<1>1. NoCommand \in CommandRow /\ NoCommand.status = "NONE"
  BY DEF NoCommand, CommandRow, Actions
<1>2. Nothing \notin Commands BY SupervisorAssumption
<1>. QED BY <1>1, <1>2 DEF SupervisorInit, CommandInv, CommandTypes, HeldInv, CommandTable!Init

\* Whatever requests, the loop of the supervisor, crashes and deletions do to
\* the rows of the commands, each row is created once and moves only as the
\* table of the states has it: the table is an abstract specification, which
\* the supervisor implements.
THEOREM CommandsFollowTable == SupervisorSpec => CommandStates
<1>1. SupervisorInit => CommandInv /\ CommandTable!Init BY CommandStart
<1>2. CommandInv /\ [SupervisorNext]_supervisorVars => CommandInv'
  BY CommandSteps DEF Steps, CommandInv
<1>3. CommandInv /\ [SupervisorNext]_supervisorVars => CommandTable!Move
  BY CommandSteps, StepsMove
<1>. QED BY <1>1, <1>2, <1>3, PTL DEF SupervisorSpec, CommandStates, CommandTable!Spec

\* What the supervisor keeps in memory, and the bounds.
MemoryTypes ==
  /\ profile \in [ProfileIds -> {"on", "off", "deleted"}]
  /\ slot \in [ProfileIds -> Slot]
  /\ active \in [Commands -> [kind : {"none", "restart", "stop", "supervisor"},
                              old : [ProfileIds -> {0} \cup Children], forced : BOOLEAN]]
  /\ shown \subseteq ProfileIds
  /\ count \in [patch : Nat, outage : Nat, stop : Nat]

\* Commands wait for fewer children than there are names: a new child is told from
\* every one that a command waits for.
LEMMA FreshIsUnknown ==
  ASSUME MemoryTypes, NEW p \in ProfileIds
  PROVE  Fresh(p) \in Children /\ \A c \in Commands : active[c].old[p] # Fresh(p)
<1>1. \E g \in Children : \A c \in Commands : active[c].old[p] # g
  <2>. SUFFICES ASSUME \A g \in Children : \E c \in Commands : active[c].old[p] = g PROVE FALSE
    OBVIOUS
  <2>. DEFINE f == [g \in Children |-> CHOOSE c \in Commands : active[c].old[p] = g]
  <2>1. \A g \in Children : f[g] \in Commands /\ active[f[g]].old[p] = g OBVIOUS
  <2>2. IsFiniteSet(Commands) /\ Cardinality(Commands) \in Nat
    BY SupervisorAssumption, FS_CardinalityType
  <2>3. IsFiniteSet(Children) /\ Cardinality(Children) = Cardinality(Commands) + 1
    BY <2>2, FS_Interval DEF Children
  <2>4. f \in [Children -> Commands] BY <2>1
  <2>. HIDE DEF f
  <2>5. PICK x, y \in Children : x # y /\ f[x] = f[y]
    BY <2>2, <2>3, <2>4, FS_PigeonHole
  <2>. QED BY <2>1, <2>5
<1>. QED BY <1>1 DEF Fresh

\* What happens to a slot leaves it a slot.
LEMMA SlotMoves ==
  ASSUME NEW s \in Slot
  PROVE  /\ Exited(s) \in Slot /\ Enforced(s) \in Slot
         /\ \A mode : Drained(s, mode) \in Slot
         /\ \A b \in BOOLEAN : [s EXCEPT !.enabled = b] \in Slot /\ [s EXCEPT !.backoff = b] \in Slot
         /\ \A k, b \in BOOLEAN : [s EXCEPT !.known = k, !.enabled = b] \in Slot
         /\ \A k, b \in BOOLEAN : [s EXCEPT !.enabled = k, !.backoff = b] \in Slot
         /\ [s EXCEPT !.killAt = "over"] \in Slot
         /\ s.deadline = "running" => [s EXCEPT !.deadline = "over"] \in Slot
<1>. USE DEF Slot, Timer
<1>1. Exited(s) \in Slot BY DEF Exited
<1>2. Enforced(s) \in Slot
  <2>. DEFINE t == IF s.draining /\ ~s.term /\ s.deadline = "over"
                   THEN [s EXCEPT !.term = TRUE, !.killAt = "running"] ELSE s
  <2>1. t \in Slot
    <3>1. s.draining => [s EXCEPT !.term = TRUE, !.killAt = "running"] \in Slot OBVIOUS
    <3>2. CASE s.draining /\ ~s.term /\ s.deadline = "over" BY <3>1, <3>2
    <3>3. CASE ~(s.draining /\ ~s.term /\ s.deadline = "over") BY <3>3
    <3>. QED BY <3>2, <3>3
  <2>2. Enforced(s) = IF t.draining /\ t.term /\ t.killAt = "over"
                      THEN [t EXCEPT !.killed = TRUE, !.killAt = "running"] ELSE t
    BY DEF Enforced
  <2>. HIDE DEF t
  <2>3. [t EXCEPT !.killed = TRUE, !.killAt = "running"] \in Slot BY <2>1
  <2>4. CASE t.draining /\ t.term /\ t.killAt = "over" BY ONLY <2>2, <2>3, <2>4
  <2>5. CASE ~(t.draining /\ t.term /\ t.killAt = "over") BY ONLY <2>1, <2>2, <2>5
  <2>. QED BY <2>4, <2>5
<1>3. ASSUME NEW mode PROVE Drained(s, mode) \in Slot
  <2>1. CASE s.child = 0 BY <2>1 DEF Drained
  <2>2. CASE s.child # 0
    <3>1. /\ [s EXCEPT !.draining = TRUE] \in Slot
          /\ [s EXCEPT !.draining = TRUE, !.term = TRUE, !.killAt = "running"] \in Slot
          /\ [s EXCEPT !.draining = TRUE, !.deadline = "running"] \in Slot
      BY <2>2
    <3>. QED BY <2>2, <3>1 DEF Drained
  <2>. QED BY <2>1, <2>2
<1>4. \A b \in BOOLEAN : [s EXCEPT !.enabled = b] \in Slot /\ [s EXCEPT !.backoff = b] \in Slot
  OBVIOUS
<1>5. \A k, b \in BOOLEAN : [s EXCEPT !.known = k, !.enabled = b] \in Slot OBVIOUS
<1>6. \A k, b \in BOOLEAN : [s EXCEPT !.enabled = k, !.backoff = b] \in Slot OBVIOUS
<1>7. [s EXCEPT !.killAt = "over"] \in Slot OBVIOUS
<1>8. s.deadline = "running" => [s EXCEPT !.deadline = "over"] \in Slot OBVIOUS
<1>. QED BY <1>1, <1>2, <1>3, <1>4, <1>5, <1>6, <1>7, <1>8

LEMMA SpawnedType ==
  ASSUME MemoryTypes, NEW p \in ProfileIds, NEW s \in Slot PROVE Spawned(s, p) \in Slot
<1>1. Fresh(p) \in Children /\ Fresh(p) # 0 BY FreshIsUnknown DEF Children
<1>. QED BY <1>1 DEF Spawned, Slot, Timer

LEMMA NoSlotType == NoSlot \in Slot
BY DEF NoSlot, Slot, Timer

\* One cycle of the profiles.
LEMMA ReconciledType ==
  ASSUME MemoryTypes, NEW p \in ProfileIds PROVE Reconciled(p) \in Slot
<1>. DEFINE s == [slot[p] EXCEPT !.known = TRUE, !.enabled = (profile[p] = "on")]
<1>1. slot[p] \in Slot BY DEF MemoryTypes
<1>2. s \in Slot
  <2>1. (profile[p] = "on") \in BOOLEAN OBVIOUS
  <2>. QED BY <1>1, <2>1, SlotMoves
<1>3. /\ Drained(slot[p], "SAFE") \in Slot /\ Drained(s, "SAFE") \in Slot
      /\ Spawned(s, p) \in Slot
  <2>. HIDE DEF s
  <2>. QED BY <1>1, <1>2, SlotMoves, SpawnedType
<1>4. Reconciled(p) \in {NoSlot, slot[p], Drained(slot[p], "SAFE"), s, Drained(s, "SAFE"),
                         Spawned(s, p)}
  BY DEF Reconciled
<1>. HIDE DEF s
<1>. QED BY <1>1, <1>2, <1>3, <1>4, NoSlotType

\* What bounds the faults and the edits counts them.
LEMMA CountTypes ==
  ASSUME MemoryTypes
  PROVE  /\ Edit => count' \in [patch : Nat, outage : Nat, stop : Nat]
         /\ \A kind \in {"outage", "stop"} :
              Fault(kind) => count' \in [patch : Nat, outage : Nat, stop : Nat]
<1>1. Edit => count' \in [patch : Nat, outage : Nat, stop : Nat] BY DEF MemoryTypes, Edit
<1>2. Fault("outage") => count' \in [patch : Nat, outage : Nat, stop : Nat]
  BY DEF MemoryTypes, Fault
<1>3. Fault("stop") => count' \in [patch : Nat, outage : Nat, stop : Nat]
  BY DEF MemoryTypes, Fault
<1>. QED BY <1>1, <1>2, <1>3

\* The start of a command: what it writes, drains and waits for.
LEMMA StartTypes ==
  ASSUME CommandTypes, MemoryTypes, NEW c \in Commands, StartCommand(c)
  PROVE  MemoryTypes'
<1>. DEFINE p == cmd[c].profile
<1>0. \A q \in ProfileIds : slot[q] \in Slot BY DEF MemoryTypes
<1>1. ASSUME NEW status, Reported(c, status)
      PROVE  count' \in [patch : Nat, outage : Nat, stop : Nat]
  BY <1>1, CountTypes DEF Reported, MemoryTypes
<1>2. ASSUME NEW kind \in {"restart", "stop", "supervisor"}, NEW targets, Wait(c, kind, targets)
      PROVE  active' \in [Commands -> [kind : {"none", "restart", "stop", "supervisor"},
                                       old : [ProfileIds -> {0} \cup Children], forced : BOOLEAN]]
  <2>. DEFINE old == [q \in ProfileIds |-> IF q \in targets THEN slot[q].child ELSE 0]
  <2>1. \A q \in ProfileIds : slot[q].child \in {0} \cup Children BY <1>0 DEF Slot
  <2>2. old \in [ProfileIds -> {0} \cup Children] BY <2>1
  <2>3. active' = [active EXCEPT ![c] = [kind |-> kind, forced |-> FALSE, old |-> old]]
    BY <1>2 DEF Wait
  <2>. HIDE DEF old
  <2>. QED BY <2>2, <2>3 DEF MemoryTypes
<1>3. shown' = shown BY DEF StartCommand
<1>4. ASSUME NEW v \in {"on", "off"}, profile' = [profile EXCEPT ![p] = v]
      PROVE  profile' \in [ProfileIds -> {"on", "off", "deleted"}]
  BY <1>4 DEF MemoryTypes
<1>5. ASSUME NEW w, p \in ProfileIds => w \in Slot, slot' = [slot EXCEPT ![p] = w]
      PROVE  slot' \in [ProfileIds -> Slot]
  BY <1>5 DEF MemoryTypes
<1>6. CASE Refuse(c) BY <1>1, <1>3, <1>6 DEF Refuse, MemoryTypes
<1>7. CASE StartNow(c)
  <2>. DEFINE w == IF slot[p].child = 0 /\ sup.state = "up"
                   THEN Spawned([slot[p] EXCEPT !.enabled = TRUE], p)
                   ELSE [slot[p] EXCEPT !.enabled = TRUE, !.backoff = FALSE]
  <2>1. p \in ProfileIds => w \in Slot
    <3>. SUFFICES ASSUME p \in ProfileIds PROVE w \in Slot OBVIOUS
    <3>1. /\ [slot[p] EXCEPT !.enabled = TRUE] \in Slot
          /\ [slot[p] EXCEPT !.enabled = TRUE, !.backoff = FALSE] \in Slot
      BY <1>0, SlotMoves
    <3>2. Spawned([slot[p] EXCEPT !.enabled = TRUE], p) \in Slot BY <3>1, SpawnedType
    <3>. QED BY <3>1, <3>2
  <2>2. slot' = [slot EXCEPT ![p] = w] BY <1>7 DEF StartNow
  <2>3. slot' \in [ProfileIds -> Slot]
    <3>. HIDE DEF w
    <3>. QED BY <1>5, <2>1, <2>2
  <2>4. profile' \in [ProfileIds -> {"on", "off", "deleted"}]
    BY <1>4, <1>7 DEF StartNow, MemoryTypes
  <2>5. count' \in [patch : Nat, outage : Nat, stop : Nat] BY <1>1, <1>7 DEF StartNow
  <2>6. active' = active BY <1>7 DEF StartNow
  <2>. QED BY <1>3, <2>3, <2>4, <2>5, <2>6 DEF MemoryTypes
<1>8. CASE StartRestart(c)
  <2>1. p \in ProfileIds => Drained(slot[p], cmd[c].mode) \in Slot BY <1>0, SlotMoves
  <2>2. slot' = [slot EXCEPT ![p] = Drained(slot[p], cmd[c].mode)] BY <1>8 DEF StartRestart
  <2>3. slot' \in [ProfileIds -> Slot] BY <1>5, <2>1, <2>2
  <2>. QED BY <1>1, <1>2, <1>3, <1>8, <2>3 DEF StartRestart, MemoryTypes
<1>9. CASE StartStop(c)
  <2>. DEFINE w == Drained([slot[p] EXCEPT !.enabled = FALSE], cmd[c].mode)
  <2>1. p \in ProfileIds => w \in Slot
    <3>. SUFFICES ASSUME p \in ProfileIds PROVE w \in Slot OBVIOUS
    <3>1. [slot[p] EXCEPT !.enabled = FALSE] \in Slot BY <1>0, SlotMoves
    <3>. QED BY <3>1, SlotMoves
  <2>2. slot' = [slot EXCEPT ![p] = w] BY <1>9 DEF StartStop
  <2>3. slot' \in [ProfileIds -> Slot]
    <3>. HIDE DEF w
    <3>. QED BY <1>5, <2>1, <2>2
  <2>4. profile' \in [ProfileIds -> {"on", "off", "deleted"}] BY <1>4, <1>9 DEF StartStop
  <2>5. /\ count' \in [patch : Nat, outage : Nat, stop : Nat]
        /\ active' = active \/ Wait(c, "stop", {p})
    BY <1>1, <1>9 DEF StartStop
  <2>. QED BY <1>2, <1>3, <2>3, <2>4, <2>5 DEF MemoryTypes
<1>10. CASE StartAll(c)
  <2>1. \A q \in ProfileIds : /\ Drained(slot[q], cmd[c].mode) \in Slot
                              /\ [slot[q] EXCEPT !.backoff = FALSE] \in Slot
    BY <1>0, SlotMoves
  <2>2. PICK on : slot' = [q \in ProfileIds |->
                     IF q \notin on THEN slot[q]
                     ELSE IF slot[q].child = 0 THEN [slot[q] EXCEPT !.backoff = FALSE]
                     ELSE Drained(slot[q], cmd[c].mode)]
    BY <1>10 DEF StartAll
  <2>3. slot' \in [ProfileIds -> Slot] BY <1>0, <2>1, <2>2
  <2>4. /\ count' \in [patch : Nat, outage : Nat, stop : Nat]
        /\ active' = active \/ \E targets : Wait(c, "restart", targets)
    BY <1>1, <1>10 DEF StartAll
  <2>5. profile' = profile BY <1>10 DEF StartAll
  <2>. QED BY <1>2, <1>3, <2>3, <2>4, <2>5 DEF MemoryTypes
<1>11. CASE StartShutdown(c)
  <2>1. \A q \in ProfileIds : Drained(slot[q], cmd[c].mode) \in Slot BY <1>0, SlotMoves
  <2>2. slot' \in [ProfileIds -> Slot] BY <1>11, <2>1 DEF StartShutdown
  <2>. QED BY <1>1, <1>2, <1>3, <1>11, <2>2 DEF StartShutdown, MemoryTypes
<1>. QED BY <1>6, <1>7, <1>8, <1>9, <1>10, <1>11 DEF StartCommand

\* The end of a cycle, the end of a child, and the passing of time.
LEMMA TickTypes ==
  ASSUME MemoryTypes,
         \/ Reconcile \/ Finish \/ SupervisorTerminate \/ SupervisorBoot
         \/ \E p \in ProfileIds : Elapse(p) \/ ChildExit(p) \/ ChildEnds(p)
  PROVE  MemoryTypes'
<1>0. \A q \in ProfileIds : slot[q] \in Slot BY DEF MemoryTypes
<1>1. CASE Reconcile
  <2>1. slot' \in [ProfileIds -> Slot] BY <1>1, ReconciledType DEF Reconcile
  <2>. QED BY <1>1, <2>1 DEF Reconcile, MemoryTypes
<1>a. NotActive \in [kind : {"none", "restart", "stop", "supervisor"},
                     old : [ProfileIds -> {0} \cup Children], forced : BOOLEAN]
  BY DEF NotActive
<1>2. CASE Finish
  <2>1. slot' \in [ProfileIds -> Slot] BY <1>0, <1>2, SlotMoves DEF Finish
  <2>2. \A c \in Commands : Forced(c) \in BOOLEAN BY DEF Forced, MemoryTypes
  <2>3. PICK done \in SUBSET Commands :
          active' = [c \in Commands |->
            IF c \in done THEN NotActive ELSE [active[c] EXCEPT !.forced = Forced(c)]]
    <3>. DEFINE d == {c \in Commands : Done(c)}
    <3>1. active' = [c \in Commands |->
            IF c \in d THEN NotActive ELSE [active[c] EXCEPT !.forced = Forced(c)]]
      BY <1>2 DEF Finish
    <3>2. d \in SUBSET Commands OBVIOUS
    <3>. HIDE DEF d
    <3>. QED BY <3>1, <3>2
  <2>4. ASSUME NEW c \in Commands
        PROVE  active'[c] \in [kind : {"none", "restart", "stop", "supervisor"},
                               old : [ProfileIds -> {0} \cup Children], forced : BOOLEAN]
    <3>1. CASE c \in done
      <4>1. active'[c] = NotActive BY <2>3, <3>1
      <4>. QED BY <1>a, <4>1
    <3>2. CASE c \notin done
      <4>1. active'[c] = [active[c] EXCEPT !.forced = Forced(c)] BY <2>3, <3>2
      <4>. QED BY <2>2, <4>1 DEF MemoryTypes
    <3>. QED BY <3>1, <3>2
  <2>5. active' \in [Commands -> [kind : {"none", "restart", "stop", "supervisor"},
                                  old : [ProfileIds -> {0} \cup Children], forced : BOOLEAN]]
    BY <2>3, <2>4
  <2>6. count' = count \/ Fault("outage") BY <1>2 DEF Finish
  <2>7. count' \in [patch : Nat, outage : Nat, stop : Nat]
    BY <2>6, CountTypes DEF MemoryTypes
  <2>8. shown' \subseteq ProfileIds /\ profile' = profile
    BY <1>2 DEF Finish, Live, MemoryTypes
  <2>. QED BY <2>1, <2>5, <2>7, <2>8 DEF MemoryTypes
<1>3. CASE SupervisorTerminate
  <2>1. slot' \in [ProfileIds -> Slot] BY <1>0, <1>3, SlotMoves DEF SupervisorTerminate
  <2>2. count' \in [patch : Nat, outage : Nat, stop : Nat]
    BY <1>3, CountTypes DEF SupervisorTerminate
  <2>. QED BY <1>3, <2>1, <2>2 DEF SupervisorTerminate, MemoryTypes
<1>4. CASE SupervisorBoot
  BY <1>4, <1>a, NoSlotType DEF SupervisorBoot, MemoryTypes
<1>5. ASSUME NEW p \in ProfileIds, Elapse(p) PROVE MemoryTypes'
  <2>1. PICK w \in Slot : slot' = [slot EXCEPT ![p] = w]
    <3>1. CASE slot[p].deadline = "running" /\ slot' = [slot EXCEPT ![p].deadline = "over"]
      BY <1>0, <3>1, SlotMoves
    <3>2. CASE slot' = [slot EXCEPT ![p].killAt = "over"] BY <1>0, <3>2, SlotMoves
    <3>3. CASE slot' = [slot EXCEPT ![p].backoff = FALSE] BY <1>0, <3>3, SlotMoves
    <3>. QED BY <1>5, <3>1, <3>2, <3>3 DEF Elapse
  <2>2. slot' \in [ProfileIds -> Slot] BY <2>1 DEF MemoryTypes
  <2>. QED BY <1>5, <2>2 DEF Elapse, MemoryTypes
<1>6. ASSUME NEW p \in ProfileIds, ChildExit(p) \/ ChildEnds(p) PROVE MemoryTypes'
  <2>1. PICK b \in BOOLEAN : slot' = [slot EXCEPT ![p] = [Exited(slot[p]) EXCEPT !.backoff = b]]
    <3>1. slot[p].backoff \in BOOLEAN BY <1>0 DEF Slot
    <3>. QED BY <1>6, <3>1 DEF ChildExit, ChildEnds
  <2>2. [Exited(slot[p]) EXCEPT !.backoff = b] \in Slot BY <1>0, SlotMoves
  <2>3. slot' \in [ProfileIds -> Slot] BY <2>1, <2>2 DEF MemoryTypes
  <2>4. count' \in [patch : Nat, outage : Nat, stop : Nat]
    BY <1>6, CountTypes DEF ChildExit, ChildEnds, MemoryTypes
  <2>. QED BY <1>6, <2>3, <2>4 DEF ChildExit, ChildEnds, MemoryTypes
<1>. QED BY <1>1, <1>2, <1>3, <1>4, <1>5, <1>6

LEMMA MemoryStep ==
  ASSUME CommandTypes, MemoryTypes, [SupervisorNext]_supervisorVars PROVE MemoryTypes'
<1>1. ASSUME NEW c \in Commands, PostCheck(c) \/ PostCreate(c) \/ Withdraw(c) \/ ClaimCommand(c)
      PROVE  MemoryTypes'
  BY <1>1 DEF PostCheck, PostCreate, Withdraw, ClaimCommand, MemoryTypes
<1>2. ASSUME NEW p \in ProfileIds, Patch(p) \/ DeleteProfile(p) PROVE MemoryTypes'
  <2>1. count' \in [patch : Nat, outage : Nat, stop : Nat]
    BY <1>2, CountTypes DEF Patch, DeleteProfile
  <2>2. profile' \in [ProfileIds -> {"on", "off", "deleted"}]
    BY <1>2 DEF Patch, DeleteProfile, MemoryTypes
  <2>. QED BY <1>2, <2>1, <2>2 DEF Patch, DeleteProfile, MemoryTypes
<1>3. CASE SupervisorExit BY <1>3 DEF SupervisorExit, MemoryTypes
<1>4. CASE SupervisorCrash
  <2>1. count' \in [patch : Nat, outage : Nat, stop : Nat]
    BY <1>4, CountTypes DEF SupervisorCrash
  <2>. QED BY <1>4, <2>1 DEF SupervisorCrash, MemoryTypes
<1>5. CASE UNCHANGED supervisorVars
  BY <1>5 DEF supervisorVars, MemoryTypes
<1>. QED BY <1>1, <1>2, <1>3, <1>4, <1>5, StartTypes, TickTypes DEF SupervisorNext, Cycle

\* Rows, slots and commands under way keep their types for any profiles and commands;
\* a slot without a process is not being drained, and a new process is told from each
\* that a command waits for.
THEOREM SupervisorTypeCorrect == SupervisorSpec => []SupervisorTypeOK
<1>1. SupervisorInit => MemoryTypes
  <2>1. NotActive \in [kind : {"none", "restart", "stop", "supervisor"},
                       old : [ProfileIds -> {0} \cup Children], forced : BOOLEAN]
    BY DEF NotActive
  <2>. QED BY <2>1, NoSlotType DEF SupervisorInit, MemoryTypes
<1>2. SupervisorInit => CommandInv BY CommandStart
<1>3. CommandInv /\ [SupervisorNext]_supervisorVars => CommandInv'
  BY CommandSteps DEF Steps, CommandInv
<1>4. CommandInv /\ MemoryTypes /\ [SupervisorNext]_supervisorVars => MemoryTypes'
  BY MemoryStep DEF CommandInv
<1>5. CommandInv /\ MemoryTypes => SupervisorTypeOK
  BY DEF CommandInv, CommandTypes, CommandRow, MemoryTypes, SupervisorTypeOK
<1>. QED BY <1>1, <1>2, <1>3, <1>4, <1>5, PTL DEF SupervisorSpec
==============================================================================
