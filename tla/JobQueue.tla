------------------------------- MODULE JobQueue -------------------------------
(***************************************************************************)
(* The table cw_jobs and the worker processes that drain it                *)
(* (src/src/worker).  A worker process runs under a profile; it owns a few *)
(* loops, each of which claims a row, executes it and records the outcome. *)
(* Every process also runs the recovery statements that take rows back     *)
(* from owners whose heartbeat has stopped.                                *)
(*                                                                         *)
(* Time is abstracted: a heartbeat is fresh or stale, a backoff is pending *)
(* or over.  What separates the two is an action guarded by who can still  *)
(* beat, never a number of seconds.                                        *)
(***************************************************************************)
EXTENDS Integers, FiniteSets

CONSTANTS
  Jobs,           \* rows of cw_jobs that may ever exist
  Profiles,       \* worker profiles; at most one process runs under each
  Loops,          \* claim loops; the label profile-n@host of a loop survives restarts
  ProfileOf,      \* [Loops -> Profiles]
  Lane,           \* [Profiles -> SUBSET Jobs]: rows whose type and weight the profile accepts
  Weight,         \* [Jobs -> 0..2]
  StorageOf,      \* storage_server_id of each row, or None
  Cancellable,    \* rows whose work checks the cancel token (imports)
  MaxAttempts,    \* [Jobs -> Nat \ {0}]
  MaxHeavy,       \* rows of weight 2 that may run at once
  MaxPerStorage,  \* rows of one storage that may run at once
  MaxCrashes, MaxStops, MaxZombies,   \* bounds on faults
  None

ASSUME JobQueueAssumption ==
  /\ IsFiniteSet(Jobs) /\ IsFiniteSet(Loops)
  /\ None \notin Jobs \cup Loops
  /\ ProfileOf \in [Loops -> Profiles]
  /\ Lane \in [Profiles -> SUBSET Jobs]
  /\ Weight \in [Jobs -> 0..2]
  /\ DOMAIN StorageOf = Jobs
  /\ Cancellable \subseteq Jobs
  /\ MaxAttempts \in [Jobs -> Nat \ {0}]
  /\ MaxHeavy \in Nat /\ MaxPerStorage \in Nat
  /\ MaxCrashes \in Nat /\ MaxStops \in Nat /\ MaxZombies \in Nat

VARIABLES
  job,        \* the rows: status, lockedBy, attempts, heartbeat, due (available_at <= NOW())
  claiming,   \* row locked by the claim statement a loop has in flight, or None
  exec,       \* what each loop is executing: the row as returned by its claim
  proc,       \* state of the process of each profile
  stalled,    \* profiles whose process is alive but makes no progress
  overlapped, \* history: two claim statements have been in flight at once
  faults      \* history: crashes, stops and zombie events so far

vars == <<job, claiming, exec, proc, stalled, overlapped, faults>>

Statuses == {"NEW", "QUEUED", "RUNNING", "COMPLETED", "FAILED", "GONE"}
Terminal == {"COMPLETED", "FAILED", "GONE"}

JobRow == [status : Statuses, lockedBy : Loops \cup {None}, attempts : Nat,
           heartbeat : {"null", "fresh", "stale"}, due : BOOLEAN]

Idle == [job |-> None, attempts |-> 0]
Execution == [job : Jobs \cup {None}, attempts : Nat]

ProcStates == {"down", "up", "draining", "terminating", "released"}

TypeOK ==
  /\ job \in [Jobs -> JobRow]
  /\ claiming \in [Loops -> Jobs \cup {None}]
  /\ exec \in [Loops -> Execution]
  /\ proc \in [Profiles -> ProcStates]
  /\ stalled \subseteq Profiles
  /\ overlapped \in BOOLEAN
  /\ faults \in [crash : Nat, stop : Nat, zombie : Nat]

Init ==
  /\ job = [j \in Jobs |-> [status |-> "NEW", lockedBy |-> None, attempts |-> 0,
                            heartbeat |-> "null", due |-> TRUE]]
  /\ claiming = [l \in Loops |-> None]
  /\ exec = [l \in Loops |-> Idle]
  /\ proc = [p \in Profiles |-> "down"]
  /\ stalled = {}
  /\ overlapped = FALSE
  /\ faults = [crash |-> 0, stop |-> 0, zombie |-> 0]

------------------------------------------------------------------------------
(* Helpers *)

LoopsOf(p) == {l \in Loops : ProfileOf[l] = p}
Alive(p) == proc[p] # "down" /\ p \notin stalled
Busy(l) == exec[l].job # None
RowLocked(j) == \E l \in Loops : claiming[l] = j

Running == {j \in Jobs : job[j].status = "RUNNING"}
HeavyRunning == {j \in Running : Weight[j] = 2}
StorageRunning(s) == {j \in Running : StorageOf[j] = s}

\* Mutant: the label pattern matches every worker.
OwnRows_AnyLabel(p) == Running

\* Rows RUNNING under a label of profile p.
OwnRows(p) == {j \in Running : job[j].lockedBy \in LoopsOf(p)}

Released(row, status) ==
  [row EXCEPT !.status = status, !.lockedBy = None, !.heartbeat = "null"]

BumpFault(kind, max) ==
  /\ faults[kind] < max
  /\ faults' = [faults EXCEPT ![kind] = @ + 1]

------------------------------------------------------------------------------
(* Producers and operators of the queue (web processes) *)

\* A row is inserted with the defaults of the schema.
Enqueue(j) ==
  /\ job[j].status = "NEW"
  /\ job' = [job EXCEPT ![j].status = "QUEUED"]
  /\ UNCHANGED <<claiming, exec, proc, stalled, overlapped, faults>>

\* Cancel of one upload, or its supersession by a retry.  lockedBy and the
\* heartbeat stay in the row.
Cancel(j) ==
  /\ job[j].status \in {"QUEUED", "RUNNING"}
  /\ ~RowLocked(j)
  /\ job' = [job EXCEPT ![j].status = "FAILED"]
  /\ UNCHANGED <<claiming, exec, proc, stalled, overlapped, faults>>

CancelAll ==
  /\ \E j \in Jobs : job[j].status \in {"QUEUED", "RUNNING"}
  /\ \A j \in Jobs : ~RowLocked(j)
  /\ job' = [j \in Jobs |-> IF job[j].status \in {"QUEUED", "RUNNING"}
                              THEN [job[j] EXCEPT !.status = "FAILED"]
                              ELSE job[j]]
  /\ UNCHANGED <<claiming, exec, proc, stalled, overlapped, faults>>

DismissFailed ==
  /\ \E j \in Jobs : job[j].status = "FAILED"
  /\ job' = [j \in Jobs |-> IF job[j].status = "FAILED"
                              THEN [job[j] EXCEPT !.status = "COMPLETED"]
                              ELSE job[j]]
  /\ UNCHANGED <<claiming, exec, proc, stalled, overlapped, faults>>

\* Retention: created_at is compared, so a row may go as soon as it has ended.
Purge(j) ==
  /\ job[j].status \in {"COMPLETED", "FAILED"}
  /\ job' = [job EXCEPT ![j].status = "GONE"]
  /\ UNCHANGED <<claiming, exec, proc, stalled, overlapped, faults>>

\* The upload, table, dataset or source of the row is deleted, whatever the
\* row is doing.
DeleteWithParent(j) ==
  /\ job[j].status \notin {"NEW", "GONE"}
  /\ ~RowLocked(j)
  /\ job' = [job EXCEPT ![j].status = "GONE"]
  /\ UNCHANGED <<claiming, exec, proc, stalled, overlapped, faults>>

------------------------------------------------------------------------------
(* Claim: the counts are read in the statement's snapshot, the row is       *)
(* updated when the statement commits                                       *)

\* Mutant: the caps are compared with <=.
UnderCaps_OffByOne(j) ==
  /\ Weight[j] < 2 \/ Cardinality(HeavyRunning) <= MaxHeavy
  /\ StorageOf[j] = None \/ Cardinality(StorageRunning(StorageOf[j])) <= MaxPerStorage

\* Mutant: the row to be claimed is counted as running already.
UnderCaps_CountsItself(j) ==
  /\ Weight[j] < 2 \/ Cardinality(HeavyRunning) + 1 < MaxHeavy
  /\ StorageOf[j] = None \/ Cardinality(StorageRunning(StorageOf[j])) < MaxPerStorage

UnderCaps(j) ==
  /\ Weight[j] < 2 \/ Cardinality(HeavyRunning) < MaxHeavy
  /\ StorageOf[j] = None \/ Cardinality(StorageRunning(StorageOf[j])) < MaxPerStorage

\* SKIP LOCKED: a row another claim holds is not a candidate.
Claimable(p) ==
  {j \in Lane[p] : job[j].status = "QUEUED" /\ job[j].due /\ ~RowLocked(j) /\ UnderCaps(j)}

\* Light rows first; the order by available_at among equal weights is left open.
NextInLine(p) == {j \in Claimable(p) : \A k \in Claimable(p) : Weight[j] <= Weight[k]}

CanClaim(l) ==
  /\ proc[ProfileOf[l]] = "up" /\ ProfileOf[l] \notin stalled
  /\ ~Busy(l) /\ claiming[l] = None

ClaimBegin(l) ==
  /\ CanClaim(l)
  /\ \E j \in NextInLine(ProfileOf[l]) : claiming' = [claiming EXCEPT ![l] = j]
  /\ overlapped' = (overlapped \/ \E m \in Loops : claiming[m] # None)
  /\ UNCHANGED <<job, exec, proc, stalled, faults>>

\* Mutant: the claim leaves heartbeat_at to the timer of the execution.
ClaimedRow_NoHeartbeat(l) ==
  [job[claiming[l]] EXCEPT !.status = "RUNNING", !.lockedBy = l, !.attempts = @ + 1]

ClaimedRow(l) ==
  [job[claiming[l]] EXCEPT !.status = "RUNNING", !.lockedBy = l, !.heartbeat = "fresh",
                           !.attempts = @ + 1]

\* The database commits whatever became of the client: the loop starts to
\* work on the row it gets back, whether or not its process is draining or
\* terminating by now, unless the process is gone or the answer is lost.
ClaimCommit(l) ==
  /\ claiming[l] # None
  /\ job' = [job EXCEPT ![claiming[l]] = ClaimedRow(l)]
  /\ claiming' = [claiming EXCEPT ![l] = None]
  /\ \/ /\ proc[ProfileOf[l]] # "down"
        /\ exec' = [exec EXCEPT ![l] = [job |-> claiming[l], attempts |-> ClaimedRow(l).attempts]]
     \/ exec' = exec
  /\ UNCHANGED <<proc, stalled, overlapped, faults>>

\* The statement fails (transient error): the loop naps and claims again.
ClaimAbort(l) ==
  /\ claiming[l] # None
  /\ claiming' = [claiming EXCEPT ![l] = None]
  /\ UNCHANGED <<job, exec, proc, stalled, overlapped, faults>>

------------------------------------------------------------------------------
(* Execution *)

\* The timer of an execution writes heartbeat_at by id, whoever owns the row
\* and whatever its status.
Beat(l) ==
  /\ Busy(l) /\ Alive(ProfileOf[l])
  /\ job[exec[l].job].status # "GONE"
  /\ job[exec[l].job].heartbeat # "fresh"
  /\ job' = [job EXCEPT ![exec[l].job].heartbeat = "fresh"]
  /\ UNCHANGED <<claiming, exec, proc, stalled, overlapped, faults>>

\* The outcome of an execution lands.  Between releaseSelf and exit the row
\* may already have another owner: that counts as a zombie event.
Outcome(l) ==
  /\ Busy(l) /\ Alive(ProfileOf[l])
  /\ exec' = [exec EXCEPT ![l] = Idle]
  /\ IF proc[ProfileOf[l]] = "released" THEN BumpFault("zombie", MaxZombies)
                                        ELSE UNCHANGED faults
  /\ UNCHANGED <<claiming, proc, stalled, overlapped>>

\* Mutant: completeJob writes by id.
CompleteRow_Unguarded(row) == Released(row, "COMPLETED")

\* completeJob: guarded by the status alone.
CompleteRow(row) ==
  IF row.status = "RUNNING" THEN Released(row, "COMPLETED") ELSE row

Complete(l) ==
  /\ Outcome(l)
  /\ job' = [job EXCEPT ![exec[l].job] = CompleteRow(@)]

\* Mutant: fail writes by id.
FailRow_Unguarded(row, attempts, max, retryable) ==
  IF attempts < max /\ retryable
    THEN [Released(row, "QUEUED") EXCEPT !.due = FALSE]
    ELSE Released(row, "FAILED")

\* fail: the verdict comes from the attempts the claim returned, the guard
\* from the status alone.  available_at matters only if the row is queued.
FailRow(row, attempts, max, retryable) ==
  IF row.status # "RUNNING" THEN row
  ELSE IF attempts < max /\ retryable
         THEN [Released(row, "QUEUED") EXCEPT !.due = FALSE]
         ELSE Released(row, "FAILED")

Fail(l) ==
  /\ Outcome(l)
  /\ \E retryable \in BOOLEAN :
       job' = [job EXCEPT ![exec[l].job] =
                 FailRow(@, exec[l].attempts, MaxAttempts[exec[l].job], retryable)]

\* fail itself throws (database out of reach): the loop goes on, the row
\* stays RUNNING with nobody to beat for it.
FailLost(l) ==
  /\ Outcome(l)
  /\ UNCHANGED job

\* The cancel token of a shutdown aborts an import; the row is left to releaseSelf.
AbortOnShutdown(l) ==
  /\ proc[ProfileOf[l]] \in {"terminating", "released"} /\ Alive(ProfileOf[l])
  /\ Busy(l) /\ exec[l].job \in Cancellable
  /\ exec' = [exec EXCEPT ![l] = Idle]
  /\ UNCHANGED <<job, claiming, proc, stalled, overlapped, faults>>

\* available_at is reached.
BackoffElapses(j) ==
  /\ job[j].status = "QUEUED" /\ ~job[j].due
  /\ job' = [job EXCEPT ![j].due = TRUE]
  /\ UNCHANGED <<claiming, exec, proc, stalled, overlapped, faults>>

------------------------------------------------------------------------------
(* Recovery (recoverStale, first two statements) *)

\* The stale window passes only when no execution is left to beat for the row.
HeartbeatAges(j) ==
  /\ job[j].status = "RUNNING" /\ job[j].heartbeat = "fresh"
  /\ ~\E l \in Loops : exec[l].job = j /\ Alive(ProfileOf[l])
  /\ job' = [job EXCEPT ![j].heartbeat = "stale"]
  /\ UNCHANGED <<claiming, exec, proc, stalled, overlapped, faults>>

StaleRows == {j \in Running : job[j].heartbeat = "stale"}
Exhausted(j) == job[j].attempts >= MaxAttempts[j]

\* The recovery loop runs until the process has finished.
Recovers(p) ==
  /\ Alive(p)
  /\ proc[p] \notin {"up"} => \E l \in LoopsOf(p) : Busy(l)

FailExhausted(p) ==
  /\ Recovers(p)
  /\ \E j \in StaleRows : Exhausted(j)
  /\ job' = [j \in Jobs |-> IF j \in StaleRows /\ Exhausted(j)
                              THEN Released(job[j], "FAILED") ELSE job[j]]
  /\ UNCHANGED <<claiming, exec, proc, stalled, overlapped, faults>>

RequeueStale(p) ==
  /\ Recovers(p)
  /\ \E j \in StaleRows : ~Exhausted(j)
  /\ job' = [j \in Jobs |-> IF j \in StaleRows /\ ~Exhausted(j)
                              THEN [Released(job[j], "QUEUED") EXCEPT !.due = TRUE]
                              ELSE job[j]]
  /\ UNCHANGED <<claiming, exec, proc, stalled, overlapped, faults>>

------------------------------------------------------------------------------
(* Life of a worker process *)

\* releaseSelf after a crash: the attempt was spent, and an exhausted row fails.
AfterCrash(j) ==
  IF Exhausted(j) THEN Released(job[j], "FAILED")
                  ELSE [Released(job[j], "QUEUED") EXCEPT !.due = TRUE]

\* Mutant: the attempt is reimbursed twice.
Refunded_Twice(j) == [Released(job[j], "QUEUED") EXCEPT !.due = TRUE, !.attempts = @ - 2]

\* releaseSelf on a clean shutdown: the attempt is reimbursed.
Refunded(j) ==
  [Released(job[j], "QUEUED") EXCEPT !.due = TRUE,
                                     !.attempts = IF @ > 0 THEN @ - 1 ELSE 0]

\* A process starts; bootstrapProfile keeps a second one from starting under
\* the same profile.  Starting takes longer than a claim left in flight.
Boot(p) ==
  /\ proc[p] = "down"
  /\ \A l \in LoopsOf(p) : claiming[l] = None
  /\ proc' = [proc EXCEPT ![p] = "up"]
  /\ job' = [j \in Jobs |-> IF j \in OwnRows(p) THEN AfterCrash(j) ELSE job[j]]
  /\ UNCHANGED <<claiming, exec, stalled, overlapped, faults>>

\* {type:"drain"}, loss of the supervisor, or the profile disabled.
Drain(p) ==
  /\ proc[p] = "up" /\ p \notin stalled
  /\ BumpFault("stop", MaxStops)
  /\ proc' = [proc EXCEPT ![p] = "draining"]
  /\ UNCHANGED <<job, claiming, exec, stalled, overlapped>>

\* main waits for every loop, so no claim is in flight when it exits.
DrainExit(p) ==
  /\ proc[p] = "draining" /\ p \notin stalled
  /\ \A l \in LoopsOf(p) : ~Busy(l) /\ claiming[l] = None
  /\ proc' = [proc EXCEPT ![p] = "down"]
  /\ UNCHANGED <<job, claiming, exec, stalled, overlapped, faults>>

\* SIGTERM or SIGINT.
Terminate(p) ==
  /\ proc[p] \in {"up", "draining"} /\ p \notin stalled
  /\ BumpFault("stop", MaxStops)
  /\ proc' = [proc EXCEPT ![p] = "terminating"]
  /\ UNCHANGED <<job, claiming, exec, stalled, overlapped>>

\* abortAndWait is over, because nothing is in flight or because the grace
\* period has passed: own rows go back to the queue.  A claim statement in
\* flight is not counted as in flight.
ReleaseOwn(p) ==
  /\ proc[p] = "terminating" /\ p \notin stalled
  /\ proc' = [proc EXCEPT ![p] = "released"]
  /\ job' = [j \in Jobs |-> IF j \in OwnRows(p) THEN Refunded(j) ELSE job[j]]
  /\ UNCHANGED <<claiming, exec, stalled, overlapped, faults>>

NoExecution(p) == [l \in Loops |-> IF l \in LoopsOf(p) THEN Idle ELSE exec[l]]

Exit(p) ==
  /\ proc[p] = "released" /\ p \notin stalled
  /\ proc' = [proc EXCEPT ![p] = "down"]
  /\ exec' = NoExecution(p)
  /\ UNCHANGED <<job, claiming, stalled, overlapped, faults>>

Crash(p) ==
  /\ proc[p] # "down"
  /\ BumpFault("crash", MaxCrashes)
  /\ proc' = [proc EXCEPT ![p] = "down"]
  /\ exec' = NoExecution(p)
  /\ stalled' = stalled \ {p}
  /\ UNCHANGED <<job, claiming, overlapped>>

\* The process stops making progress without dying (synchronous parsing that
\* blocks its timers, swapping, database out of its reach) and goes on later.
Stall(p) ==
  /\ Alive(p)
  /\ BumpFault("zombie", MaxZombies)
  /\ stalled' = stalled \cup {p}
  /\ UNCHANGED <<job, claiming, exec, proc, overlapped>>

Resume(p) ==
  /\ p \in stalled
  /\ stalled' = stalled \ {p}
  /\ UNCHANGED <<job, claiming, exec, proc, overlapped, faults>>

------------------------------------------------------------------------------
QueueNext ==
  \/ \E j \in Jobs :
       \/ Enqueue(j) \/ Cancel(j) \/ Purge(j) \/ DeleteWithParent(j)
       \/ BackoffElapses(j) \/ HeartbeatAges(j)
  \/ CancelAll
  \/ DismissFailed

LoopNext ==
  \E l \in Loops :
    \/ ClaimBegin(l) \/ ClaimCommit(l) \/ ClaimAbort(l)
    \/ Beat(l) \/ Complete(l) \/ Fail(l) \/ FailLost(l) \/ AbortOnShutdown(l)

ProcessNext ==
  \E p \in Profiles :
    \/ FailExhausted(p) \/ RequeueStale(p)
    \/ Boot(p) \/ Drain(p) \/ DrainExit(p) \/ Terminate(p) \/ ReleaseOwn(p) \/ Exit(p)
    \/ Crash(p) \/ Stall(p) \/ Resume(p)

Next == QueueNext \/ LoopNext \/ ProcessNext

Spec == Init /\ [][Next]_vars

\* The timers and poll loops of a live process keep firing, claims do not
\* fail for ever, backoffs end, the supervisor restarts what went down, and an
\* execution ends some day.  Nothing is assumed of users or of faults.
Fairness ==
  /\ \A j \in Jobs : WF_vars(BackoffElapses(j)) /\ WF_vars(HeartbeatAges(j))
  /\ \A l \in Loops :
       /\ WF_vars(ClaimBegin(l)) /\ SF_vars(ClaimCommit(l))
       /\ WF_vars(Complete(l) \/ Fail(l) \/ AbortOnShutdown(l))
  /\ \A p \in Profiles :
       /\ WF_vars(FailExhausted(p)) /\ WF_vars(RequeueStale(p))
       /\ WF_vars(Boot(p)) /\ WF_vars(DrainExit(p)) /\ WF_vars(ReleaseOwn(p))
       /\ WF_vars(Exit(p)) /\ WF_vars(Resume(p))

FairSpec == Spec /\ Fairness
------------------------------------------------------------------------------
(* Properties *)

\* No process has stalled past the stale window, and no outcome has landed
\* between the releaseSelf and the exit of a terminating process.
ZombieFree == faults.zombie = 0

\* A released process is about to exit; its executions can publish nothing.
Working(l) == Busy(l) /\ proc[ProfileOf[l]] # "released"

\* An execution owns its row, with the attempt and the live heartbeat of its
\* own claim, unless the row has been settled against it (cancel, supersede):
\* recoverStale and releaseSelf never take a row from a live owner.
WorkingOwns ==
  ZombieFree =>
    \A l \in Loops : Working(l) =>
      LET row == job[exec[l].job]
      IN  \/ row.status \in Terminal
          \/ /\ row.status = "RUNNING" /\ row.lockedBy = l
             /\ row.attempts = exec[l].attempts /\ row.heartbeat = "fresh"

\* No two loops execute the same row, whatever crashes, shutdowns, lost
\* answers and recoveries come between their claims.
SingleExecutor ==
  ZombieFree =>
    \A l, m \in Loops : Working(l) /\ Working(m) /\ l # m => exec[l].job # exec[m].job

\* A row that kills its worker, or whose claims get lost, is not started more
\* than max_attempts times: no path back to the queue forgets the limit.
AttemptsWithinBudget ==
  ZombieFree =>
    \A j \in Jobs : /\ job[j].attempts <= MaxAttempts[j]
                    /\ job[j].status = "QUEUED" => job[j].attempts < MaxAttempts[j]

\* Every row RUNNING carries the owner and the heartbeat by which releaseSelf
\* and recoverStale find it: none can be orphaned out of their reach.
RunningIsRecoverable ==
  \A j \in Running : job[j].lockedBy # None /\ job[j].heartbeat # "null"

\* As long as no two claim statements were in flight at once, the caps on
\* heavy rows and on rows per storage hold across all workers.
CapsHoldSerially ==
  ~overlapped =>
    /\ Cardinality(HeavyRunning) <= MaxHeavy
    /\ \A s \in {StorageOf[j] : j \in Jobs} \ {None} :
         Cardinality(StorageRunning(s)) <= MaxPerStorage

\* What was cancelled, failed or completed is never queued or run again, not
\* even by the late outcome of a zombie (the guards of completeJob and fail).
SettledStaysSettled ==
  [][\A j \in Jobs : job[j].status \in Terminal =>
       /\ job'[j].status \in Terminal
       /\ job[j].status = "COMPLETED" => job'[j].status # "FAILED"]_vars

\* Every row that is queued or running is settled some day: no crash, lost
\* answer, stall or shutdown leaves it RUNNING or QUEUED for ever.
EverySettles ==
  \A j \in Jobs : (job[j].status \in {"QUEUED", "RUNNING"}) ~> (job[j].status \in Terminal)

\* The queue implements the contract of an at-least-once task with a budget,
\* as long as no process has stalled past the stale window.
Contract == INSTANCE JobContract WITH
  phase <- [j \in Jobs |-> job[j].status],
  charged <- [j \in Jobs |-> job[j].attempts]

ContractSpec == Contract!Init /\ [][ZombieFree' => Contract!Next]_(Contract!vars)

\* A claim statement holds its row QUEUED until it commits, and no two hold
\* the same row (FOR UPDATE SKIP LOCKED).
ClaimsHoldRows ==
  \A l \in Loops : claiming[l] # None =>
    /\ job[claiming[l]].status = "QUEUED"
    /\ \A m \in Loops : m # l => claiming[m] # claiming[l]

DownIsIdle == \A l \in Loops : proc[ProfileOf[l]] = "down" => ~Busy(l)

NewIsUncharged == \A j \in Jobs : job[j].status = "NEW" => job[j].attempts = 0

\* The inductive invariant: why live owners are safe.  A row is taken back
\* only when it is stale, its process down or released; a heartbeat goes stale
\* only when no live execution beats for it; a claim takes only QUEUED rows.
IInv ==
  /\ RunningIsRecoverable
  /\ ClaimsHoldRows
  /\ DownIsIdle
  /\ NewIsUncharged
  /\ ZombieFree => stalled = {}
  /\ WorkingOwns
  /\ SingleExecutor
  /\ AttemptsWithinBudget

==============================================================================
