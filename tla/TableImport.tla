----------------------------- MODULE TableImport -----------------------------
(***************************************************************************)
(* Imports of uploads into one table of a PostgreSQL storage: the lock row *)
(* of the table (withImportLock), the load and the publication by          *)
(* importUploadPg, and the exactly-once marker of an append.               *)
(*                                                                         *)
(* The files have disjoint keys; of the rows of the table only how many    *)
(* copies it has of each file is kept, which is also all that a count of   *)
(* its rows is taken to tell.  Each executor is a process of its own.  A   *)
(* process that is suspended is one whose renewals fail and which takes no *)
(* step meanwhile.  The queue is in JobQueue; here a row of it only says   *)
(* whether an import is to be run, and for how many times yet.             *)
(***************************************************************************)
EXTENDS Integers

CONSTANTS
  Uploads,       \* uploads destined to the table
  ModeOf,        \* [Uploads -> {"append", "upsert", "replace"}]
  Loops,         \* executors of imports
  MaxAttempts,   \* max_attempts of an import (5 in the code)
  TableExists,   \* whether the table exists at the start
  MaxErrors, MaxCrashes, MaxOutages, MaxRetries, MaxStops, MaxLate,   \* bounds on faults
  None, Dead

ASSUME TableImportAssumption ==
  /\ ModeOf \in [Uploads -> {"append", "upsert", "replace"}]
  /\ None \notin Loops /\ Dead \notin Loops /\ None # Dead /\ None \notin Nat
  /\ MaxAttempts \in Nat \ {0} /\ TableExists \in BOOLEAN
  /\ MaxErrors \in Nat /\ MaxCrashes \in Nat /\ MaxOutages \in Nat
  /\ MaxRetries \in Nat /\ MaxStops \in Nat /\ MaxLate \in Nat

VARIABLES
  job,       \* the import job of each upload: status and attempts
  upload,    \* status of each upload: "open" until it is COMPLETED or FAILED
  lock,      \* row of cw_import_locks: holder (None: no row), fresh (not expired)
  target,    \* the table: whether it exists and the copies of each file
  marker,    \* uploads in cw_internal.applied_uploads
  stage,     \* staging table of each upload: copies of the file (None: no table)
  catalog,   \* row_count of the table in the catalog
  run,       \* what each executor is doing
  aged,      \* history: the lease of a live import has expired
  faults     \* history: faults so far

vars == <<job, upload, lock, target, marker, stage, catalog, run, aged, faults>>

Copies == [Uploads -> Nat]
NoCopies == [u \in Uploads |-> 0]
Only(u, n) == [NoCopies EXCEPT ![u] = n]

Working == {"look", "open", "fill", "check", "merge", "swap", "count", "meta", "release"}
Pcs == {"idle", "wait", "cleanup", "complete", "fail"} \cup Working

\* mine: the row of the queue is still the one that was claimed.
\* last: no attempt is left.  ok: the renewals get through.
\* lost: "expired" by the local clock, or "yes" for good.
\* found, applied, counted: targetExists, alreadyApplied and actual.
\* merged: the rows of the merged table.
\* leaving: told to stop; gone: has given up the job and the lock, not exited.
Run == [pc : Pcs, up : Uploads \cup {None}, mine : BOOLEAN, last : BOOLEAN,
        ok : BOOLEAN, lost : {"no", "expired", "yes"}, found : BOOLEAN, applied : BOOLEAN,
        counted : Copies, merged : Copies, leaving : BOOLEAN, gone : BOOLEAN,
        error : {"none", "retryable", "final"}]

NoRun == [pc |-> "idle", up |-> None, mine |-> FALSE, last |-> FALSE, ok |-> TRUE,
          lost |-> "no", found |-> FALSE, applied |-> FALSE, counted |-> NoCopies,
          merged |-> NoCopies, leaving |-> FALSE, gone |-> FALSE, error |-> "none"]

RunsOK ==
  /\ run \in [Loops -> Run]
  /\ \A l \in Loops : run[l].pc # "idle" => run[l].up \in Uploads

TypeOK ==
  /\ job \in [Uploads -> [status : {"QUEUED", "RUNNING", "COMPLETED", "FAILED"}, attempts : Nat]]
  /\ upload \in [Uploads -> {"open", "COMPLETED", "FAILED"}]
  /\ lock \in [holder : Loops \cup {None, Dead}, fresh : BOOLEAN]
  /\ target \in [exists : BOOLEAN, rows : Copies]
  /\ marker \subseteq Uploads
  /\ stage \in [Uploads -> Nat \cup {None}]
  /\ catalog \in Copies
  /\ RunsOK
  /\ aged \in BOOLEAN
  /\ faults \in [error : Nat, crash : Nat, outage : Nat, retry : Nat, stop : Nat, late : Nat]

Init ==
  /\ job = [u \in Uploads |-> [status |-> "QUEUED", attempts |-> 0]]
  /\ upload = [u \in Uploads |-> "open"]
  /\ lock = [holder |-> None, fresh |-> FALSE]
  /\ target = [exists |-> TableExists, rows |-> NoCopies]
  /\ marker = {}
  /\ stage = [u \in Uploads |-> None]
  /\ catalog = NoCopies
  /\ run = [l \in Loops |-> NoRun]
  /\ aged = FALSE
  /\ faults = [error |-> 0, crash |-> 0, outage |-> 0, retry |-> 0, stop |-> 0, late |-> 0]

------------------------------------------------------------------------------
Up(l) == run[l].up
At(l, pc) == run[l].pc = pc
Holds(l) == run[l].pc \in Working

GoTo(l, pc) == run' = [run EXCEPT ![l].pc = pc]
RaiseTo(l, pc, error) == run' = [run EXCEPT ![l].pc = pc, ![l].error = error]

BumpFault(kind, max) ==
  /\ faults[kind] < max
  /\ faults' = [faults EXCEPT ![kind] = @ + 1]

Settle(u, status) == [job EXCEPT ![u].status = status]

\* The runs of u, seen from a row of the queue that is no longer theirs.
Disowned(u) == [l \in Loops |-> IF Up(l) = u THEN [run[l] EXCEPT !.mine = FALSE] ELSE run[l]]

------------------------------------------------------------------------------
(* The worker takes an import *)

Start(l, u) ==
  /\ At(l, "idle") /\ job[u].status = "QUEUED" /\ upload[u] = "open"
  /\ job' = [job EXCEPT ![u] = [status |-> "RUNNING", attempts |-> @.attempts + 1]]
  /\ run' = [run EXCEPT ![l] = [NoRun EXCEPT !.pc = "wait", !.up = u, !.mine = TRUE,
                                             !.last = job[u].attempts + 1 >= MaxAttempts]]
  /\ UNCHANGED <<upload, lock, target, marker, stage, catalog, aged, faults>>

\* The upload is already COMPLETED or FAILED: there is nothing to import.
Skip(l, u) ==
  /\ At(l, "idle") /\ job[u].status = "QUEUED" /\ upload[u] # "open"
  /\ job' = [job EXCEPT ![u] = [status |-> "COMPLETED", attempts |-> @.attempts + 1]]
  /\ UNCHANGED <<upload, lock, target, marker, stage, catalog, run, aged, faults>>

------------------------------------------------------------------------------
(* withImportLock *)

\* Mutant: an expired row is not taken over.
LockTakeable_OnlyFree == lock.holder = None

LockTakeable == lock.holder = None \/ ~lock.fresh

TryAcquire(l) ==
  /\ At(l, "wait") /\ LockTakeable
  /\ lock' = [holder |-> l, fresh |-> TRUE]
  /\ GoTo(l, "look")
  /\ UNCHANGED <<job, upload, target, marker, stage, catalog, aged, faults>>

\* After 30 minutes of waiting.
WaitTimeout(l) ==
  /\ At(l, "wait") /\ ~LockTakeable
  /\ RaiseTo(l, "cleanup", "retryable")
  /\ UNCHANGED <<job, upload, lock, target, marker, stage, catalog, aged, faults>>

\* Renewals fail from here on, until Renew.
Outage(l) ==
  /\ Holds(l) /\ run[l].ok
  /\ BumpFault("outage", MaxOutages)
  /\ run' = [run EXCEPT ![l].ok = FALSE]
  /\ UNCHANGED <<job, upload, lock, target, marker, stage, catalog, aged>>

\* Whoever still has the row revives it, expired or not.
Renew(l) ==
  /\ Holds(l)
  /\ IF lock.holder = l
     THEN /\ ~run[l].ok
          /\ lock' = [lock EXCEPT !.fresh = TRUE]
          /\ run' = [run EXCEPT ![l].ok = TRUE,
                                ![l].lost = IF @ = "expired" THEN "no" ELSE @]
     ELSE /\ run[l].lost # "yes"
          /\ run' = [run EXCEPT ![l].ok = TRUE, ![l].lost = "yes"]
          /\ UNCHANGED lock
  /\ UNCHANGED <<job, upload, target, marker, stage, catalog, aged, faults>>

Renewed == lock.holder \in Loops /\ run[lock.holder].ok

\* LEASE_MS without a renewal: the row expires, and a live holder knows it by
\* its own clock, for good if a renewal has failed since.
LeaseAges ==
  /\ lock.holder # None /\ lock.fresh /\ ~Renewed
  /\ lock' = [lock EXCEPT !.fresh = FALSE]
  /\ IF lock.holder \in Loops
     THEN \E lost \in {"expired", "yes"} : run' = [run EXCEPT ![lock.holder].lost = lost] /\ aged' = TRUE
     ELSE UNCHANGED <<run, aged>>
  /\ UNCHANGED <<job, upload, target, marker, stage, catalog, faults>>

\* DELETE ... WHERE locked_by = holder.
Released(l) == IF lock.holder = l THEN [holder |-> None, fresh |-> FALSE] ELSE lock

AfterRelease(l) == IF run[l].error = "none" THEN "complete" ELSE "cleanup"

Release(l) ==
  /\ At(l, "release")
  /\ lock' = Released(l)
  /\ run' = [run EXCEPT ![l].pc = AfterRelease(l), ![l].ok = TRUE, ![l].lost = "no"]
  /\ UNCHANGED <<job, upload, target, marker, stage, catalog, aged, faults>>

\* The row of a process that will renew it no more.
Orphan(l) == IF lock.holder = l THEN [lock EXCEPT !.holder = Dead] ELSE lock

\* The DELETE throws: the row stays, and the import fails whatever it has done.
ReleaseFails(l) ==
  /\ At(l, "release") /\ ~run[l].ok
  /\ lock' = Orphan(l)
  /\ RaiseTo(l, "cleanup", IF run[l].error = "final" THEN "final" ELSE "retryable")
  /\ UNCHANGED <<job, upload, target, marker, stage, catalog, aged, faults>>

------------------------------------------------------------------------------
(* importUploadPgLocked *)

\* Mutant: the marker is not looked for.
AlreadyApplied_Never(u) == FALSE

\* alreadyApplied: the marker without the table does not count.
AlreadyApplied(u) == ModeOf[u] = "append" /\ u \in marker /\ target.exists

\* targetExists and the marker.
Look(l) ==
  /\ At(l, "look")
  /\ run' = [run EXCEPT ![l].pc = "open", ![l].found = target.exists,
                        ![l].applied = AlreadyApplied(Up(l))]
  /\ UNCHANGED <<job, upload, lock, target, marker, stage, catalog, aged, faults>>

\* An empty staging table, in the place of any other of the upload.
OpenStage(l) ==
  /\ At(l, "open")
  /\ stage' = [stage EXCEPT ![Up(l)] = 0]
  /\ GoTo(l, "fill")
  /\ UNCHANGED <<job, upload, lock, target, marker, catalog, aged, faults>>

Fill(l) ==
  /\ At(l, "fill") /\ stage[Up(l)] # None
  /\ stage' = [stage EXCEPT ![Up(l)] = IF run[l].applied THEN @ ELSE @ + 1]
  /\ GoTo(l, "check")
  /\ UNCHANGED <<job, upload, lock, target, marker, catalog, aged, faults>>

\* lease.assert().  A cancelled job is noticed within ten seconds, not at once.
MayPublish(l) == run[l].lost = "no" /\ ~run[l].leaving

Check(l) ==
  /\ At(l, "check") /\ MayPublish(l)
  /\ GoTo(l, IF ModeOf[Up(l)] = "upsert" /\ run[l].found THEN "merge" ELSE "swap")
  /\ UNCHANGED <<job, upload, lock, target, marker, stage, catalog, aged, faults>>

CheckThrows(l) ==
  /\ At(l, "check") /\ (run[l].lost # "no" \/ run[l].leaving \/ ~run[l].mine)
  /\ RaiseTo(l, "release", "retryable")
  /\ UNCHANGED <<job, upload, lock, target, marker, stage, catalog, aged, faults>>

\* Mutant: the rows that are not in the staging table are left behind.
Merged_OnlyOwn(u) == Only(u, 1)

\* The rows that are not in the staging table are carried over.
Merged(u) == [target.rows EXCEPT ![u] = 1]

\* The key must be unique in the staging table.
Merge(l) ==
  /\ At(l, "merge") /\ stage[Up(l)] = 1 /\ target.exists
  /\ run' = [run EXCEPT ![l].pc = "swap",
                        ![l].merged = Merged(Up(l))]
  /\ UNCHANGED <<job, upload, lock, target, marker, stage, catalog, aged, faults>>

FullSwap(l) == ModeOf[Up(l)] = "replace" \/ ~run[l].found

\* The staging table and a target as it was found.
Swappable(l) == stage[Up(l)] # None /\ target.exists = run[l].found

MarkedBy(u) == IF ModeOf[u] = "append" THEN marker \cup {u} ELSE marker

Publish(l, rows) ==
  /\ target' = [exists |-> TRUE, rows |-> rows]
  /\ stage' = [stage EXCEPT ![Up(l)] = None]
  /\ run' = [run EXCEPT ![l].pc = "count", ![l].merged = NoCopies]
  /\ UNCHANGED <<job, upload, lock, catalog, aged, faults>>

\* atomicSwap without a key: the staging table becomes the table.
SwapFull(l) ==
  /\ At(l, "swap") /\ FullSwap(l) /\ Swappable(l)
  /\ Publish(l, Only(Up(l), stage[Up(l)]))
  /\ marker' = MarkedBy(Up(l))

\* atomicSwap with a key: the merged table becomes the table.
SwapMerged(l) ==
  /\ At(l, "swap") /\ ~FullSwap(l) /\ ModeOf[Up(l)] = "upsert" /\ target.exists
  /\ Publish(l, run[l].merged)
  /\ UNCHANGED marker

\* INSERT and marker in one transaction.
Append(l) ==
  /\ At(l, "swap") /\ ~FullSwap(l) /\ ModeOf[Up(l)] = "append" /\ Swappable(l)
  /\ Publish(l, [target.rows EXCEPT ![Up(l)] = @ + stage[Up(l)]])
  /\ marker' = MarkedBy(Up(l))

\* A table that is gone, or has come, or holds a key twice.
Refused(l) ==
  /\ \/ At(l, "fill") /\ stage[Up(l)] = None
     \/ At(l, "merge") /\ (stage[Up(l)] # 1 \/ ~target.exists)
     \/ At(l, "swap") /\ (FullSwap(l) \/ ModeOf[Up(l)] = "append") /\ ~Swappable(l)
  /\ RaiseTo(l, "release", "retryable")
  /\ UNCHANGED <<job, upload, lock, target, marker, stage, catalog, aged, faults>>

\* Mutant: the catalog gets the count of the file.
Counted_Own(u) == Only(u, 1)

\* SELECT COUNT(*) of the table.
Counted(u) == target.rows

\* A full replacement must have the rows of the file.
Count(l) ==
  /\ At(l, "count")
  /\ IF FullSwap(l) /\ target.rows # Only(Up(l), 1)
     THEN RaiseTo(l, "release", "retryable")
     ELSE run' = [run EXCEPT ![l].pc = "meta", ![l].counted = Counted(Up(l))]
  /\ UNCHANGED <<job, upload, lock, target, marker, stage, catalog, aged, faults>>

\* One transaction: the catalog, the version and the upload, COMPLETED.
Meta(l) ==
  /\ At(l, "meta")
  /\ catalog' = run[l].counted
  /\ upload' = [upload EXCEPT ![Up(l)] = "COMPLETED"]
  /\ GoTo(l, "release")
  /\ UNCHANGED <<job, lock, target, marker, stage, aged, faults>>

\* Any other error, among them the gate of evaluateLoad ("final").
Throw(l) ==
  /\ Holds(l) /\ ~At(l, "release")
  /\ BumpFault("error", MaxErrors)
  /\ \E error \in {"retryable", "final"} : RaiseTo(l, "release", error)
  /\ UNCHANGED <<job, upload, lock, target, marker, stage, catalog, aged>>

------------------------------------------------------------------------------
(* The end of a run *)

\* importUploadPg drops the temporary tables of the upload, after the release.
Cleanup(l) ==
  /\ At(l, "cleanup")
  /\ stage' = [stage EXCEPT ![Up(l)] = None]
  /\ GoTo(l, "fail")
  /\ UNCHANGED <<job, upload, lock, target, marker, catalog, aged, faults>>

Complete(l) ==
  /\ At(l, "complete")
  /\ job' = IF run[l].mine THEN Settle(Up(l), "COMPLETED") ELSE job
  /\ run' = [run EXCEPT ![l] = NoRun]
  /\ UNCHANGED <<upload, lock, target, marker, stage, catalog, aged, faults>>

NoRetry(l) == run[l].last \/ run[l].error = "final"

\* A COMPLETED upload is not demoted.
Fail(l) ==
  /\ At(l, "fail")
  /\ job' = IF run[l].mine THEN Settle(Up(l), IF NoRetry(l) THEN "FAILED" ELSE "QUEUED") ELSE job
  /\ upload' = [upload EXCEPT ![Up(l)] = IF NoRetry(l) /\ @ = "open" THEN "FAILED" ELSE @]
  /\ run' = [run EXCEPT ![l] = NoRun]
  /\ UNCHANGED <<lock, target, marker, stage, catalog, aged, faults>>

Crash(l) ==
  /\ ~At(l, "idle")
  /\ BumpFault("crash", MaxCrashes)
  /\ lock' = Orphan(l)
  /\ run' = [run EXCEPT ![l] = NoRun]
  /\ UNCHANGED <<job, upload, target, marker, stage, catalog, aged>>

\* SIGTERM: the token of the import is cancelled.
Terminate(l) ==
  /\ ~At(l, "idle") /\ ~run[l].leaving
  /\ BumpFault("stop", MaxStops)
  /\ run' = [run EXCEPT ![l].leaving = TRUE]
  /\ UNCHANGED <<job, upload, lock, target, marker, stage, catalog, aged>>

\* Mutant: the job is given back whoever it is of by now.
GivenBack_Always(l) == [job EXCEPT ![Up(l)] = [status |-> "QUEUED", attempts |-> @.attempts - 1]]

\* The job is given back without counting the attempt.
GivenBack(l) ==
  IF run[l].mine THEN [job EXCEPT ![Up(l)] = [status |-> "QUEUED", attempts |-> @.attempts - 1]] ELSE job

\* releaseAllImportLocks finds the lock of a run that is in withImportLock.
HeldReleased(l) == IF Holds(l) THEN Released(l) ELSE lock

\* The grace has passed: job and lock are released, and the process exits.
Quit(l) ==
  /\ ~At(l, "idle") /\ run[l].leaving /\ ~run[l].gone
  /\ job' = GivenBack(l) /\ lock' = HeldReleased(l)
  /\ run' = [run EXCEPT ![l] = NoRun]
  /\ UNCHANGED <<upload, target, marker, stage, catalog, aged, faults>>

\* As Quit, but the import takes more steps before the process is gone.
QuitLate(l) ==
  /\ ~At(l, "idle") /\ run[l].leaving /\ ~run[l].gone
  /\ BumpFault("late", MaxLate)
  /\ job' = GivenBack(l) /\ lock' = HeldReleased(l)
  /\ run' = [run EXCEPT ![l].gone = TRUE, ![l].mine = FALSE]
  /\ UNCHANGED <<upload, target, marker, stage, catalog, aged>>

Exit(l) ==
  /\ run[l].gone
  /\ lock' = Orphan(l)
  /\ run' = [run EXCEPT ![l] = NoRun]
  /\ UNCHANGED <<job, upload, target, marker, stage, catalog, aged, faults>>

\* recoverStale: the executor of the job is dead.
RecoverJob(u) ==
  /\ job[u].status = "RUNNING" /\ ~\E l \in Loops : Up(l) = u /\ run[l].mine
  /\ IF job[u].attempts >= MaxAttempts
     THEN /\ job' = Settle(u, "FAILED")
          /\ upload' = [upload EXCEPT ![u] = IF @ = "open" THEN "FAILED" ELSE @]
     ELSE job' = Settle(u, "QUEUED") /\ UNCHANGED upload
  /\ UNCHANGED <<lock, target, marker, stage, catalog, run, aged, faults>>

\* A user retries an upload that has failed, or that he has just cancelled: the
\* old job becomes FAILED and a new one is queued, whoever is running the old one.
Retry(u) ==
  /\ upload[u] # "COMPLETED"
  /\ BumpFault("retry", MaxRetries)
  /\ job' = [job EXCEPT ![u] = [status |-> "QUEUED", attempts |-> 0]]
  /\ upload' = [upload EXCEPT ![u] = "open"]
  /\ run' = Disowned(u)
  /\ UNCHANGED <<lock, target, marker, stage, catalog, aged>>

------------------------------------------------------------------------------
LockNext(l) ==
  TryAcquire(l) \/ WaitTimeout(l) \/ Outage(l) \/ Renew(l)
  \/ Release(l) \/ ReleaseFails(l)

ImportNext(l) ==
  Look(l) \/ OpenStage(l) \/ Fill(l) \/ Check(l) \/ CheckThrows(l) \/ Merge(l) \/ SwapFull(l) \/ SwapMerged(l)
  \/ Append(l) \/ Refused(l) \/ Count(l) \/ Meta(l) \/ Throw(l)

EndNext(l) ==
  Cleanup(l) \/ Complete(l) \/ Fail(l) \/ Crash(l) \/ Terminate(l) \/ Quit(l) \/ QuitLate(l) \/ Exit(l)

Next ==
  \/ \E l \in Loops, u \in Uploads : Start(l, u) \/ Skip(l, u)
  \/ \E l \in Loops : LockNext(l) \/ ImportNext(l) \/ EndNext(l)
  \/ LeaseAges
  \/ \E u \in Uploads : RecoverJob(u) \/ Retry(u)

Spec == Init /\ [][Next]_vars

\* The steps of a run, its timer, the claim loops and the recovery loop keep
\* going; nothing is assumed of errors, users, faults or the end of a wait.
Fairness ==
  /\ \A l \in Loops :
       /\ WF_vars(Look(l) \/ OpenStage(l) \/ Fill(l) \/ Check(l) \/ CheckThrows(l) \/ Merge(l) \/ SwapFull(l)
                  \/ SwapMerged(l) \/ Append(l) \/ Refused(l) \/ Count(l) \/ Meta(l)
                  \/ Release(l) \/ Cleanup(l) \/ Complete(l) \/ Fail(l))
       /\ SF_vars(TryAcquire(l))
       /\ WF_vars(Renew(l)) /\ WF_vars(Exit(l))
       /\ \A u \in Uploads : WF_vars(Start(l, u) \/ Skip(l, u))
  /\ WF_vars(LeaseAges)
  /\ \A u \in Uploads : WF_vars(RecoverJob(u))

FairSpec == Spec /\ Fairness
------------------------------------------------------------------------------
(* Properties *)

\* No lease has expired under a live import, and no process has gone on after
\* giving up its lock.
Undisturbed == ~aged /\ faults.late = 0

\* An import that has the lock keeps it, whatever happens to others.
HolderOwnsLock ==
  Undisturbed => \A l \in Loops : Holds(l) => lock.holder = l /\ lock.fresh /\ run[l].lost = "no"

\* import-lock.ts: two imports never work on the table at once.
OneImporter == Undisturbed => \A l, m \in Loops : Holds(l) /\ Holds(m) => l = m

\* applied-marker.ts: the file of an append is in the table at most once,
\* whatever crashes, retries and takeovers there are between its COMMIT and its metadata.
ExactlyOnce == Undisturbed => \A u \in Uploads : ModeOf[u] = "append" => target.rows[u] <= 1

Replaces(l) == At(l, "swap") /\ FullSwap(l) /\ run[l].found /\ run'[l].pc = "count"

RemovedByReplace ==
  \A u \in Uploads : target'.rows[u] < target.rows[u] => \E l \in Loops : Replaces(l)

\* Rows of another upload leave the table only when a "replace" is published:
\* a merge or an append never undoes what was published before it.
OnlyReplaceRemoves == [][Undisturbed => RemovedByReplace]_vars

\* An upload reported COMPLETED is in the table, unless a replace came after it.
CompletedIsInTable ==
  Undisturbed =>
    \A u \in Uploads : upload[u] = "COMPLETED" =>
      \/ target.rows[u] = 1
      \/ \E v \in Uploads \ {u} : ModeOf[v] = "replace" /\ target.rows[v] > 0

\* Once every file in the table is reported COMPLETED, the catalog has its count,
\* if no user has retried an import that was still running.
CatalogMatches ==
  Undisturbed /\ faults.retry = 0 /\ (\A u \in Uploads : target.rows[u] > 0 => upload[u] = "COMPLETED")
    => catalog = target.rows

\* Every import ends, its upload COMPLETED or FAILED: the lock of a dead process
\* is taken over, and a run whose process died is run again or given up.
EveryImportSettles == \A u \in Uploads : upload[u] = "open" ~> upload[u] # "open"

\* One run has the job of an upload, and an attempt to give back.
OwnersOK ==
  \A l \in Loops : run[l].mine =>
    /\ Up(l) \in Uploads /\ job[Up(l)].status = "RUNNING" /\ job[Up(l)].attempts > 0
    /\ \A m \in Loops : run[m].mine /\ Up(m) = Up(l) => m = l

\* The lock is of a run that works under it, or of a dead one; nobody has lost a
\* lock that he is still waiting for.
LockOfWorker ==
  /\ lock.holder \in Loops => Holds(lock.holder)
  /\ \A l \in Loops : At(l, "wait") => run[l].lost = "no"

\* What the holder of the lock has read of the table still holds.
ReadIsCurrent ==
  \A l \in Loops : run[l].pc \in {"open", "fill", "check", "merge", "swap"} =>
    run[l].found = target.exists /\ run[l].applied = AlreadyApplied(Up(l))

\* Its staging table has the file once, or nothing if it is to add nothing,
\* unless a run that failed has dropped it.
StageIsLoad ==
  \A l \in Loops :
    /\ At(l, "fill") => stage[Up(l)] \in {None, 0}
    /\ run[l].pc \in {"check", "merge", "swap"} =>
         stage[Up(l)] \in {None, IF run[l].applied THEN 0 ELSE 1}

\* Its merged table has every other row of the table as it is.
MergeIsCurrent ==
  \A l \in Loops : At(l, "swap") /\ ~FullSwap(l) /\ ModeOf[Up(l)] = "upsert" =>
    run[l].merged = Merged(Up(l))

\* A file is in the table once, and that of an append comes with its marker.
MarkedRows ==
  \A u \in Uploads : target.rows[u] > 0 =>
    target.exists /\ target.rows[u] = 1 /\ (ModeOf[u] = "append" => u \in marker)

\* The inductive invariant of the proofs.
IInv ==
  /\ OwnersOK
  /\ LockOfWorker
  /\ HolderOwnsLock
  /\ Undisturbed => ReadIsCurrent /\ StageIsLoad /\ MergeIsCurrent /\ MarkedRows
  /\ faults.late = 0 => \A l \in Loops : ~run[l].gone
==============================================================================
