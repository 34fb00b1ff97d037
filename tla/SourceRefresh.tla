---------------------------- MODULE SourceRefresh ----------------------------
(***************************************************************************)
(* The lease by which the refreshes of one synchronised source             *)
(* (SOURCE_REFRESH jobs, refreshDatasetSource) exclude each other, and the *)
(* statements of the worker, the recovery and the users that write the     *)
(* same row of cw_dataset_sources without holding it.                      *)
(*                                                                         *)
(* Only the path with a key column and an existing target is modelled: the *)
(* rows read go to a staging table, a merged table is built from it and    *)
(* from the current version of the target, and the target is replaced by   *)
(* it.  Of the rows, only which run and which batch they come from is kept. *)
(* The row of cw_jobs is reduced to what matters here; JobQueue has it all. *)
(***************************************************************************)
EXTENDS Integers, FiniteSets

CONSTANTS
  Jobs,          \* SOURCE_REFRESH rows of the source that may ever exist
  Kinds,         \* incremental and reconciliation
  KindOf,        \* [Jobs -> Kinds]
  Loops,         \* claim loops, each in a process of its own
  Producers,     \* callers of queueSourceRefresh
  Leases,        \* lease markers (a random UUID each in the code)
  MaxAttempts,   \* max_attempts of the jobs (3 in the code)
  Batches,       \* batches a complete read of the source takes
  MaxCancels, MaxCrashes, MaxStalls, MaxBeatFailures,   \* bounds on faults
  None

ASSUME SourceRefreshAssumption ==
  /\ KindOf \in [Jobs -> Kinds]
  /\ None \notin Jobs \cup Kinds \cup Loops \cup Leases /\ "mark" \notin Kinds /\ None # "mark"
  /\ IsFiniteSet(Leases) /\ IsFiniteSet(Loops) /\ IsFiniteSet(Kinds)
  /\ MaxAttempts \in Nat \ {0} /\ Batches \in Nat
  /\ MaxCancels \in Nat /\ MaxCrashes \in Nat /\ MaxStalls \in Nat /\ MaxBeatFailures \in Nat

VARIABLES
  job,        \* rows of cw_jobs: status, attempts, lockedBy
  producer,   \* what each producer is about to do: insert a job of a kind, "mark", or None
  src,        \* the row of the source: status, lease (in last_error), fresh (updated_at)
  run,        \* what each loop is doing
  stage,      \* staging table of each kind: whether it exists and the batches in it
  version,    \* version of the target table
  stalled,    \* loops whose process makes no progress
  breached,   \* history: a statement has overwritten the lease of a live run
  faults      \* history: cancels, crashes, stalls and failed renewals so far

vars == <<job, producer, src, run, stage, version, stalled, breached, faults>>

Batch == [lease : Leases, n : 1..Batches]
StagingTable == [exists : BOOLEAN, rows : SUBSET Batch]
Absent == [exists |-> FALSE, rows |-> {}]

JobRow == [status : {"NEW", "QUEUED", "RUNNING", "COMPLETED", "FAILED"},
           attempts : Nat, lockedBy : Loops \cup {None}]

SourceRow == [status : {"queued", "running", "completed", "failed"},
              lease : Leases \cup {None}, fresh : BOOLEAN]

Pcs == {"idle", "look", "takeover", "open", "read", "merge", "swap", "finish", "complete", "fail"}

\* base, content: version and batches the merged table was built from.
Run == [pc : Pcs, job : Jobs \cup {None}, attempts : Nat, lease : Leases \cup {None},
        lost : BOOLEAN, n : 0..Batches, base : Nat, content : SUBSET Batch,
        error : {"none", "busy", "lost", "other"}]

NoRun == [pc |-> "idle", job |-> None, attempts |-> 0, lease |-> None, lost |-> FALSE,
          n |-> 0, base |-> 0, content |-> {}, error |-> "none"]

\* Past the acquisition of the lease and before its release.
Holding(l) == run[l].pc \in {"open", "read", "merge", "swap", "finish"}

RunsOK ==
  /\ run \in [Loops -> Run]
  /\ \A l \in Loops :
       /\ run[l].pc # "idle" => run[l].job \in Jobs
       /\ Holding(l) => run[l].lease \in Leases

TypeOK ==
  /\ job \in [Jobs -> JobRow]
  /\ producer \in [Producers -> Kinds \cup {"mark", None}]
  /\ src \in SourceRow
  /\ RunsOK
  /\ stage \in [Kinds -> StagingTable]
  /\ version \in Nat
  /\ stalled \subseteq Loops
  /\ breached \in BOOLEAN
  /\ faults \in [cancel : Nat, crash : Nat, stall : Nat, beat : Nat]

Init ==
  /\ job = [j \in Jobs |-> [status |-> "NEW", attempts |-> 0, lockedBy |-> None]]
  /\ producer = [w \in Producers |-> None]
  /\ src = [status |-> "queued", lease |-> None, fresh |-> TRUE]
  /\ run = [l \in Loops |-> NoRun]
  /\ stage = [k \in Kinds |-> Absent]
  /\ version = 0
  /\ stalled = {}
  /\ breached = FALSE
  /\ faults = [cancel |-> 0, crash |-> 0, stall |-> 0, beat |-> 0]

------------------------------------------------------------------------------
Active(j) == job[j].status \in {"QUEUED", "RUNNING"}
Live(l) == l \notin stalled
Kind(l) == KindOf[run[l].job]

\* A statement of loop l (None: of no run) overwrites the lease of another run.
Overwrites(l) ==
  /\ src.status = "running"
  /\ \E m \in Loops : m # l /\ Holding(m) /\ run[m].lease = src.lease

BumpFault(kind, max) ==
  /\ faults[kind] < max
  /\ faults' = [faults EXCEPT ![kind] = @ + 1]

Unleased(status) == [src EXCEPT !.status = status, !.lease = None, !.fresh = TRUE]

\* Mutant: lastStatus = "queued" is written whatever the source is doing.
MarkedQueued_Unguarded == Unleased("queued")

\* queuedUpdates: a source that is running is left alone.
MarkedQueued == IF src.status = "running" THEN src ELSE Unleased("queued")

------------------------------------------------------------------------------
(* queueSourceRefresh, called by users, by the scheduler and by the refresh *)
(* itself: look for an active job of the kind, then insert, in one section  *)
(* of the advisory lock of the source                                       *)

LockFree == \A w \in Producers : producer[w] = None

\* An active job is reused; the source is marked if it is still in the queue.
FindQueued(w, k) ==
  /\ producer[w] = None /\ LockFree
  /\ \E j \in Jobs : KindOf[j] = k /\ job[j].status = "QUEUED"
  /\ producer' = [producer EXCEPT ![w] = "mark"]
  /\ UNCHANGED <<job, src, run, stage, version, stalled, breached, faults>>

MarkQueued(w) ==
  /\ producer[w] = "mark"
  /\ src' = MarkedQueued
  /\ producer' = [producer EXCEPT ![w] = None]
  /\ UNCHANGED <<job, run, stage, version, stalled, breached, faults>>

FindNone(w, k) ==
  /\ producer[w] = None /\ LockFree
  /\ ~\E j \in Jobs : KindOf[j] = k /\ Active(j)
  /\ producer' = [producer EXCEPT ![w] = k]
  /\ UNCHANGED <<job, src, run, stage, version, stalled, breached, faults>>

InsertJob(w, j) ==
  /\ producer[w] = KindOf[j] /\ job[j].status = "NEW"
  /\ job' = [job EXCEPT ![j].status = "QUEUED"]
  /\ src' = MarkedQueued
  /\ producer' = [producer EXCEPT ![w] = None]
  /\ UNCHANGED <<run, stage, version, stalled, breached, faults>>

\* The user cancels the refresh: its jobs fail, its run has no token to see it by.
CancelSource ==
  /\ \E j \in Jobs : Active(j)
  /\ BumpFault("cancel", MaxCancels)
  /\ job' = [j \in Jobs |-> IF Active(j) THEN [job[j] EXCEPT !.status = "FAILED"] ELSE job[j]]
  /\ UNCHANGED <<producer, src, run, stage, version, stalled, breached>>

------------------------------------------------------------------------------
(* A run: acquire the lease, read into the staging table, merge, swap       *)

StartRun(l, j) ==
  /\ run[l].pc = "idle" /\ Live(l) /\ job[j].status = "QUEUED"
  /\ job' = [job EXCEPT ![j] = [status |-> "RUNNING", attempts |-> @.attempts + 1, lockedBy |-> l]]
  /\ run' = [run EXCEPT ![l] = [NoRun EXCEPT !.pc = "look", !.job = j,
                                             !.attempts = job[j].attempts + 1]]
  /\ UNCHANGED <<producer, src, stage, version, stalled, breached, faults>>

UsedLeases ==
  {src.lease} \cup {run[l].lease : l \in Loops}
    \cup UNION {{b.lease : b \in stage[k].rows} : k \in Kinds}

\* The lease marker is random: any unused one stands for it.
NewLease == CHOOSE t \in Leases : t \notin UsedLeases

Acquire(l) ==
  /\ src' = [status |-> "running", lease |-> NewLease, fresh |-> TRUE]
  /\ run' = [run EXCEPT ![l].pc = "open", ![l].lease = NewLease]

\* First conditional UPDATE: the source is not running.
AcquireFree(l) ==
  /\ run[l].pc = "look" /\ Live(l)
  /\ Leases \ UsedLeases # {}
  /\ IF src.status # "running"
       THEN Acquire(l)
       ELSE run' = [run EXCEPT ![l].pc = "takeover"] /\ UNCHANGED src
  /\ UNCHANGED <<job, producer, stage, version, stalled, breached, faults>>

CanTakeOver == src.status = "running" /\ ~src.fresh

\* Second conditional UPDATE: the owner has not renewed for staleLeaseMinutes.
AcquireStale(l) ==
  /\ run[l].pc = "takeover" /\ Live(l)
  /\ Leases \ UsedLeases # {}
  /\ IF CanTakeOver
       THEN Acquire(l)
       ELSE run' = [run EXCEPT ![l].pc = "fail", ![l].error = "busy"] /\ UNCHANGED src
  /\ UNCHANGED <<job, producer, stage, version, stalled, breached, faults>>

\* Mutant: the rows left by an earlier run of the kind stay in the staging table.
OpenedStage_Keeps(k) == [stage[k] EXCEPT !.exists = TRUE]

\* The staging table is dropped and created.
OpenedStage(k) == [exists |-> TRUE, rows |-> {}]

OpenStage(l) ==
  /\ run[l].pc = "open" /\ Live(l)
  /\ stage' = [stage EXCEPT ![Kind(l)] = OpenedStage(Kind(l))]
  /\ run' = [run EXCEPT ![l].pc = "read"]
  /\ UNCHANGED <<job, producer, src, version, stalled, breached, faults>>

\* assertLease throws: the catch of a run that knows it has lost touches nothing.
LeaseLost(l) ==
  /\ run[l].pc \in {"read", "merge"} /\ Live(l) /\ run[l].lost
  /\ run' = [run EXCEPT ![l].pc = "fail", ![l].error = "lost"]
  /\ UNCHANGED <<job, producer, src, stage, version, stalled, breached, faults>>

ReadBatch(l) ==
  /\ run[l].pc = "read" /\ Live(l) /\ ~run[l].lost /\ run[l].n < Batches
  /\ stage[Kind(l)].exists
  /\ stage' = [stage EXCEPT ![Kind(l)].rows = @ \cup {[lease |-> run[l].lease, n |-> run[l].n + 1]}]
  /\ run' = [run EXCEPT ![l].n = @ + 1]
  /\ UNCHANGED <<job, producer, src, version, stalled, breached, faults>>

ReadEnd(l) ==
  /\ run[l].pc = "read" /\ Live(l) /\ ~run[l].lost /\ run[l].n = Batches
  /\ run' = [run EXCEPT ![l].pc = "merge"]
  /\ UNCHANGED <<job, producer, src, stage, version, stalled, breached, faults>>

\* Last assertLease, then the merged table is built outside any transaction.
BuildMerged(l) ==
  /\ run[l].pc = "merge" /\ Live(l) /\ ~run[l].lost
  /\ stage[Kind(l)].exists
  /\ run' = [run EXCEPT ![l].pc = "swap", ![l].base = version, ![l].content = stage[Kind(l)].rows]
  /\ UNCHANGED <<job, producer, src, stage, version, stalled, breached, faults>>

\* The target is replaced by the merged table; the staging table is dropped.
Swap(l) ==
  /\ run[l].pc = "swap" /\ Live(l)
  /\ version' = version + 1
  /\ stage' = [stage EXCEPT ![Kind(l)] = Absent]
  /\ run' = [run EXCEPT ![l].pc = "finish"]
  /\ UNCHANGED <<job, producer, src, stalled, breached, faults>>

\* The state of the source is written by id, without a look at the lease; it is
\* "failed" when too many checks for deletions have been skipped.
Finish(l) ==
  /\ run[l].pc = "finish" /\ Live(l)
  /\ \E status \in {"completed", "failed"} : src' = Unleased(status)
  /\ breached' = (breached \/ Overwrites(l))
  /\ run' = [run EXCEPT ![l].pc = "complete"]
  /\ UNCHANGED <<job, producer, stage, version, stalled, faults>>

\* The run throws before it asks for the lease (no endpoint, no storage).
ThrowEarly(l) ==
  /\ run[l].pc = "look" /\ Live(l)
  /\ run' = [run EXCEPT ![l].pc = "fail", ![l].error = "other"]
  /\ UNCHANGED <<job, producer, src, stage, version, stalled, breached, faults>>

\* Any await of the run throws (network, storage, integrity barrier).  A run
\* that knows it has lost keeps off the source, but the merge drops the staging
\* table of the kind however it ends.
Throw(l) ==
  /\ Holding(l) /\ Live(l)
  /\ stage' = IF run[l].lost /\ run[l].pc # "swap"
                THEN stage ELSE [stage EXCEPT ![Kind(l)] = Absent]
  /\ IF run[l].lost
       THEN run' = [run EXCEPT ![l].pc = "fail", ![l].error = "lost"] /\ UNCHANGED <<src, breached>>
       ELSE /\ run' = [run EXCEPT ![l].pc = "fail", ![l].error = "other"]
            /\ src' = Unleased("failed")
            /\ breached' = (breached \/ Overwrites(l))
  /\ UNCHANGED <<job, producer, version, stalled, faults>>

\* Renewal every minute, guarded by the marker; the run learns here that it lost.
Heartbeat(l) ==
  /\ Holding(l) /\ Live(l)
  /\ \/ /\ src.status = "running" /\ src.lease = run[l].lease
        /\ ~src.fresh
        /\ src' = [src EXCEPT !.fresh = TRUE]
        /\ UNCHANGED run
     \/ /\ ~(src.status = "running" /\ src.lease = run[l].lease)
        /\ ~run[l].lost
        /\ run' = [run EXCEPT ![l].lost = TRUE]
        /\ UNCHANGED src
  /\ UNCHANGED <<job, producer, stage, version, stalled, breached, faults>>

\* Renewals have failed for half the time after which the lease is taken over.
HeartbeatFails(l) ==
  /\ Holding(l) /\ Live(l) /\ ~run[l].lost
  /\ BumpFault("beat", MaxBeatFailures)
  /\ run' = [run EXCEPT ![l].lost = TRUE]
  /\ UNCHANGED <<job, producer, src, stage, version, stalled, breached>>

\* staleLeaseMinutes pass, which no run that renews lets happen.
LeaseAges ==
  /\ src.status = "running" /\ src.fresh
  /\ ~\E l \in Loops : /\ Holding(l) /\ Live(l)
                       /\ run[l].lease = src.lease /\ ~run[l].lost
  /\ src' = [src EXCEPT !.fresh = FALSE]
  /\ UNCHANGED <<job, producer, run, stage, version, stalled, breached, faults>>

------------------------------------------------------------------------------
(* What the worker does with the outcome                                    *)

Settle(j, status) == [job EXCEPT ![j] = [@ EXCEPT !.status = status, !.lockedBy = None]]

CompleteJob(l) ==
  /\ run[l].pc = "complete" /\ Live(l)
  /\ job' = IF job[run[l].job].status = "RUNNING" THEN Settle(run[l].job, "COMPLETED") ELSE job
  /\ run' = [run EXCEPT ![l] = NoRun]
  /\ UNCHANGED <<producer, src, stage, version, stalled, breached, faults>>

\* isSourceBusyError: the source belongs to another run.
SparesSource(error) == error = "busy"

\* fail: one transaction; only its update of the job is guarded.
FailJob(l) ==
  /\ run[l].pc = "fail" /\ Live(l)
  /\ \E retry \in BOOLEAN :
       /\ retry => run[l].attempts < MaxAttempts
       /\ retry \/ run[l].attempts >= MaxAttempts \/ run[l].error = "other"   \* isNonRetryable
       /\ job' = IF job[run[l].job].status = "RUNNING"
                   THEN Settle(run[l].job, IF retry THEN "QUEUED" ELSE "FAILED") ELSE job
       /\ IF SparesSource(run[l].error)
            THEN UNCHANGED <<src, breached>>
            ELSE /\ src' = Unleased(IF retry THEN "queued" ELSE "failed")
                 /\ breached' = (breached \/ Overwrites(l))
  /\ run' = [run EXCEPT ![l] = NoRun]
  /\ UNCHANGED <<producer, stage, version, stalled, faults>>

------------------------------------------------------------------------------
(* Faults and recovery                                                      *)

\* The process dies (or fail itself throws): the row stays RUNNING.
Crash(l) ==
  /\ run[l].pc # "idle"
  /\ BumpFault("crash", MaxCrashes)
  /\ run' = [run EXCEPT ![l] = NoRun]
  /\ stalled' = stalled \ {l}
  /\ UNCHANGED <<job, producer, src, stage, version, breached>>

Refund(attempts) == IF attempts > 0 THEN attempts - 1 ELSE 0

\* SIGTERM: refreshes have no cancel token, so releaseSelf takes the row back
\* under the run and the process exits.
Shutdown(l) ==
  /\ run[l].pc # "idle" /\ Live(l)
  /\ BumpFault("crash", MaxCrashes)
  /\ LET j == run[l].job
     IN  job' = IF job[j].status = "RUNNING" /\ job[j].lockedBy = l
                  THEN [job EXCEPT ![j] = [status |-> "QUEUED", lockedBy |-> None,
                                           attempts |-> Refund(@.attempts)]]
                  ELSE job
  /\ run' = [run EXCEPT ![l] = NoRun]
  /\ UNCHANGED <<producer, src, stage, version, stalled, breached>>

Stall(l) ==
  /\ Live(l) /\ run[l].pc # "idle"
  /\ BumpFault("stall", MaxStalls)
  /\ stalled' = stalled \cup {l}
  /\ UNCHANGED <<job, producer, src, run, stage, version, breached>>

Resume(l) ==
  /\ l \in stalled
  /\ stalled' = stalled \ {l}
  /\ UNCHANGED <<job, producer, src, run, stage, version, breached, faults>>

\* recoverStale, first two statements: nobody beats for the job any more.
RecoverJob(j) ==
  /\ job[j].status = "RUNNING"
  /\ ~\E l \in Loops : run[l].job = j /\ Live(l)
  /\ job' = Settle(j, IF job[j].attempts >= MaxAttempts THEN "FAILED" ELSE "QUEUED")
  /\ UNCHANGED <<producer, src, run, stage, version, stalled, breached, faults>>

\* Mutant: the statement is gone.
Orphaned_Never == FALSE

\* recoverStale, fourth statement: a source is running for no job.
Orphaned == src.status = "running" /\ ~\E j \in Jobs : Active(j)

RecoverSource ==
  /\ Orphaned
  /\ src' = Unleased("failed")
  /\ breached' = (breached \/ Overwrites(None))
  /\ UNCHANGED <<job, producer, run, stage, version, stalled, faults>>

------------------------------------------------------------------------------
RunNext ==
  \E l \in Loops :
    \/ \E j \in Jobs : StartRun(l, j)
    \/ AcquireFree(l) \/ AcquireStale(l) \/ OpenStage(l) \/ LeaseLost(l)
    \/ ReadBatch(l) \/ ReadEnd(l) \/ BuildMerged(l) \/ Swap(l) \/ Finish(l)
    \/ ThrowEarly(l) \/ Throw(l) \/ Heartbeat(l) \/ HeartbeatFails(l) \/ CompleteJob(l) \/ FailJob(l)
    \/ Crash(l) \/ Shutdown(l) \/ Stall(l) \/ Resume(l)

Next ==
  \/ \E w \in Producers : \E k \in Kinds : FindQueued(w, k) \/ FindNone(w, k)
  \/ \E w \in Producers : MarkQueued(w)
  \/ \E w \in Producers : \E j \in Jobs : InsertJob(w, j)
  \/ CancelSource
  \/ RunNext
  \/ LeaseAges
  \/ \E j \in Jobs : RecoverJob(j)
  \/ RecoverSource

Spec == Init /\ [][Next]_vars

\* The steps of a live run, its timer, the claim loops and the recovery loop
\* keep going; nothing is assumed of users, errors or faults.
Fairness ==
  /\ \A l \in Loops :
       /\ WF_vars(\E j \in Jobs : StartRun(l, j))
       /\ WF_vars(\/ AcquireFree(l) \/ AcquireStale(l) \/ OpenStage(l) \/ LeaseLost(l)
                  \/ ReadBatch(l) \/ ReadEnd(l) \/ BuildMerged(l) \/ Swap(l) \/ Finish(l)
                  \/ ThrowEarly(l) \/ Throw(l) \/ CompleteJob(l) \/ FailJob(l))
       /\ WF_vars(Heartbeat(l)) /\ WF_vars(Resume(l))
  /\ WF_vars(LeaseAges) /\ WF_vars(RecoverSource)
  /\ \A j \in Jobs : WF_vars(RecoverJob(j))

FairSpec == Spec /\ Fairness
------------------------------------------------------------------------------
(* Properties *)

\* No process has stalled, no run has been cut off from the database, and no
\* unguarded statement has overwritten the lease of a live run.
Undisturbed == ~breached /\ faults.stall = 0 /\ faults.beat = 0

\* A run that has acquired the lease keeps it: it is not taken over while its
\* owner renews it, whatever crashes, shutdowns and cancels go on around it.
HolderOwnsLease ==
  Undisturbed =>
    \A l \in Loops : Holding(l) =>
      /\ src.status = "running" /\ src.lease = run[l].lease /\ src.fresh
      /\ ~run[l].lost

\* Every attempt has a marker of its own, so a renewal never revives the lease
\* of another run.
LeasesDistinct ==
  \A l, m \in Loops : l # m /\ run[l].lease # None => run[l].lease # run[m].lease

\* The conditional UPDATEs and the renewal exclude incremental and
\* reconciliation of one source from each other.
OneHolder ==
  Undisturbed => \A l, m \in Loops : Holding(l) /\ Holding(m) => l = m

WholeRead(l) == [lease : {run[l].lease}, n : 1..Batches]

\* What is published is the complete read of the run that publishes it, merged
\* with the very version it replaces: no lost update, no rows of another run.
PublishesOwnRead ==
  [][\A l \in Loops : run[l].pc = "swap" /\ run'[l].pc = "finish" /\ Undisturbed =>
       run[l].base = version /\ run[l].content = WholeRead(l)]_vars

\* However many callers ask at once, a kind has one active job.
OneActiveJobPerKind ==
  \A i, j \in Jobs : Active(i) /\ Active(j) /\ KindOf[i] = KindOf[j] => i = j

\* A source is not shown as running for ever: its run ends, or the lease of a
\* dead run is taken over, or recoverStale clears it.
SourceFreed == src.status = "running" ~> src.status # "running"

\* A run looks for the lease without one, and has lost none.
SeekersHoldNone ==
  \A l \in Loops : run[l].pc \in {"look", "takeover"} => run[l].lease = None /\ ~run[l].lost

\* The inductive invariant of the proofs: a lease is written by another run
\* only if nobody renews it, and a renewed lease never ages.
IInv ==
  /\ HolderOwnsLease
  /\ LeasesDistinct
  /\ SeekersHoldNone
  /\ faults.stall = 0 => stalled = {}

\* Why one active job per kind is kept: the section of the lock has one caller,
\* who has found that there is none.
DedupInv ==
  /\ \A w, v \in Producers : producer[w] # None /\ producer[v] # None => w = v
  /\ \A w \in Producers : \A j \in Jobs : producer[w] = KindOf[j] => ~Active(j)
  /\ OneActiveJobPerKind

==============================================================================
