-------------------------- MODULE SourceRefreshProofs --------------------------
(***************************************************************************)
(* Proofs about SourceRefresh, for every set of jobs, loops, producers and *)
(* lease markers and every bound on the faults, and, at the end, about the *)
(* refresh of a derived table (DerivedRefresh).                            *)
(***************************************************************************)
EXTENDS SourceRefresh, DerivedRefresh, FiniteSetTheorems, TLAPS

\* A run that moves on keeps its job and its lease.
LEMMA RunMoves ==
  ASSUME NEW r \in Run, NEW pc \in Pcs
  PROVE  /\ [r EXCEPT !.pc = pc] \in Run /\ [r EXCEPT !.pc = pc].pc = pc
         /\ [r EXCEPT !.pc = pc].job = r.job /\ [r EXCEPT !.pc = pc].lease = r.lease
         /\ [r EXCEPT !.pc = pc].lost = r.lost
BY DEF Run

LEMMA RunFails ==
  ASSUME NEW r \in Run, NEW e \in {"none", "busy", "lost", "other"}
  PROVE  /\ [r EXCEPT !.pc = "fail", !.error = e] \in Run
         /\ [r EXCEPT !.pc = "fail", !.error = e].pc = "fail"
         /\ [r EXCEPT !.pc = "fail", !.error = e].job = r.job
         /\ [r EXCEPT !.pc = "fail", !.error = e].lease = r.lease
         /\ [r EXCEPT !.pc = "fail", !.error = e].lost = r.lost
BY DEF Run, Pcs

LEMMA RunAcquires ==
  ASSUME NEW r \in Run, NEW t \in Leases
  PROVE  /\ [r EXCEPT !.pc = "open", !.lease = t] \in Run
         /\ [r EXCEPT !.pc = "open", !.lease = t].job = r.job
         /\ [r EXCEPT !.pc = "open", !.lease = t].lease = t
         /\ [r EXCEPT !.pc = "open", !.lease = t].pc = "open"
         /\ [r EXCEPT !.pc = "open", !.lease = t].lost = r.lost
BY DEF Run, Pcs

LEMMA RunLoses ==
  ASSUME NEW r \in Run
  PROVE  /\ [r EXCEPT !.lost = TRUE] \in Run
         /\ [r EXCEPT !.lost = TRUE].job = r.job
         /\ [r EXCEPT !.lost = TRUE].lease = r.lease
         /\ [r EXCEPT !.lost = TRUE].pc = r.pc
BY DEF Run

LEMMA RunReads ==
  ASSUME NEW r \in Run, r.n < Batches
  PROVE  /\ [r EXCEPT !.n = @ + 1] \in Run
         /\ [r EXCEPT !.n = @ + 1].job = r.job
         /\ [r EXCEPT !.n = @ + 1].lease = r.lease
         /\ [r EXCEPT !.n = @ + 1].pc = r.pc
         /\ [r EXCEPT !.n = @ + 1].lost = r.lost
         /\ r.n + 1 \in 1..Batches
<1>1. r.n + 1 \in 0..Batches /\ r.n + 1 \in 1..Batches BY SourceRefreshAssumption DEF Run
<1>. QED BY <1>1 DEF Run

LEMMA RunMerges ==
  ASSUME NEW r \in Run, NEW b \in Nat, NEW c \in SUBSET Batch
  PROVE  /\ [r EXCEPT !.pc = "swap", !.base = b, !.content = c] \in Run
         /\ [r EXCEPT !.pc = "swap", !.base = b, !.content = c].job = r.job
         /\ [r EXCEPT !.pc = "swap", !.base = b, !.content = c].lease = r.lease
         /\ [r EXCEPT !.pc = "swap", !.base = b, !.content = c].pc = "swap"
         /\ [r EXCEPT !.pc = "swap", !.base = b, !.content = c].lost = r.lost
BY DEF Run, Pcs

HoldingPcs == {"open", "read", "merge", "swap", "finish"}

LEMMA RunFacts ==
  ASSUME TypeOK, NEW l \in Loops
  PROVE  /\ run[l] \in Run
         /\ run[l].pc # "idle" => run[l].job \in Jobs
         /\ run[l].pc \in HoldingPcs => run[l].lease \in Leases
BY DEF TypeOK, RunsOK, Holding, HoldingPcs

\* One loop takes a step: its new run must have a job, and a marker to hold.
LEMMA RunUpdate ==
  ASSUME TypeOK, NEW l \in Loops, NEW r \in Run, run' = [run EXCEPT ![l] = r],
         r.pc # "idle" => r.job \in Jobs,
         r.pc \in HoldingPcs => r.lease \in Leases
  PROVE  RunsOK'
<1>1. run \in [Loops -> Run] BY DEF TypeOK, RunsOK
<1>2. run' \in [Loops -> Run] BY <1>1
<1>3. \A m \in Loops : run'[m] = IF m = l THEN r ELSE run[m] BY <1>1
<1>4. ASSUME NEW m \in Loops
      PROVE  /\ run'[m].pc # "idle" => run'[m].job \in Jobs
             /\ run'[m].pc \in HoldingPcs => run'[m].lease \in Leases
  <2>1. CASE m = l BY <1>3, <2>1
  <2>2. CASE m # l BY <1>3, <2>2, RunFacts
  <2>. QED BY <2>1, <2>2
<1>. QED BY <1>2, <1>4 DEF Holding, HoldingPcs, RunsOK

LEMMA NoRunType == NoRun \in Run
BY SourceRefreshAssumption DEF Run, NoRun, Pcs

\* What the unguarded statements and queuedUpdates write is a row of a source.
LEMMA SourceType ==
  ASSUME TypeOK
  PROVE  /\ \A status \in {"queued", "completed", "failed"} : Unleased(status) \in SourceRow
         /\ MarkedQueued \in SourceRow
         /\ \A f \in BOOLEAN : [src EXCEPT !.fresh = f] \in SourceRow
BY DEF TypeOK, SourceRow, Unleased, MarkedQueued

LEMMA JobType ==
  ASSUME TypeOK, NEW j \in Jobs, NEW status \in {"COMPLETED", "FAILED", "QUEUED"}
  PROVE  /\ Settle(j, status) \in [Jobs -> JobRow]
         /\ [job[j] EXCEPT !.status = status, !.lockedBy = None] \in JobRow
<1>1. job[j] \in JobRow BY DEF TypeOK
<1>2. [job[j] EXCEPT !.status = status, !.lockedBy = None] \in JobRow BY <1>1 DEF JobRow
<1>. DEFINE row == [job[j] EXCEPT !.status = status, !.lockedBy = None]
<1>3. Settle(j, status) = [job EXCEPT ![j] = row] BY DEF Settle
<1>. HIDE DEF row
<1>4. [job EXCEPT ![j] = row] \in [Jobs -> JobRow] BY <1>2 DEF TypeOK, row
<1>. QED BY <1>2, <1>3, <1>4 DEF row

\* A run in progress has a job, and its kind has a staging table.
LEMMA BusyRun ==
  ASSUME TypeOK, NEW l \in Loops, run[l].pc # "idle"
  PROVE  /\ run[l].job \in Jobs /\ job[run[l].job] \in JobRow
         /\ Kind(l) \in Kinds /\ stage[Kind(l)] \in StagingTable
BY SourceRefreshAssumption, RunFacts DEF TypeOK, Kind

LEMMA FaultType ==
  ASSUME TypeOK, NEW kind \in {"cancel", "crash", "stall", "beat"}, NEW max, BumpFault(kind, max)
  PROVE  faults' \in [cancel : Nat, crash : Nat, stall : Nat, beat : Nat]
BY DEF TypeOK, BumpFault

LEMMA UnchangedRuns == ASSUME TypeOK, run' = run PROVE RunsOK'
BY DEF TypeOK, RunsOK, Holding

\* The statements of users, producers and recovery keep the types.
LEMMA OthersTypeStep ==
  ASSUME TypeOK,
         \/ \E w \in Producers, k \in Kinds : FindQueued(w, k) \/ FindNone(w, k)
         \/ \E w \in Producers : MarkQueued(w)
         \/ \E w \in Producers, j \in Jobs : InsertJob(w, j)
         \/ CancelSource \/ LeaseAges \/ RecoverSource
         \/ \E j \in Jobs : RecoverJob(j)
  PROVE  TypeOK'
<1>. USE SourceRefreshAssumption
<1>1. RunsOK'
  BY UnchangedRuns DEF FindQueued, MarkQueued, FindNone, InsertJob, CancelSource, LeaseAges,
                                  RecoverSource, RecoverJob
<1>2. ASSUME NEW w \in Producers,
             MarkQueued(w) \/ \E k \in Kinds : FindQueued(w, k) \/ FindNone(w, k)
      PROVE  TypeOK'
  <2>1. src' \in SourceRow BY <1>2, SourceType DEF FindQueued, MarkQueued, FindNone, TypeOK
  <2>2. producer' \in [Producers -> Kinds \cup {"mark", None}]
    BY <1>2 DEF FindQueued, MarkQueued, FindNone, TypeOK
  <2>. QED BY <1>1, <1>2, <2>1, <2>2 DEF FindQueued, MarkQueued, FindNone, TypeOK
<1>3. ASSUME NEW w \in Producers, NEW j \in Jobs, InsertJob(w, j) PROVE TypeOK'
  <2>1. [job[j] EXCEPT !.status = "QUEUED"] \in JobRow BY DEF TypeOK, JobRow
  <2>2. job' \in [Jobs -> JobRow] BY <1>3, <2>1 DEF InsertJob, TypeOK
  <2>3. src' \in SourceRow BY <1>3, SourceType DEF InsertJob
  <2>. QED BY <1>1, <1>3, <2>2, <2>3 DEF InsertJob, TypeOK
<1>4. CASE CancelSource
  <2>1. job' \in [Jobs -> JobRow]
    <3>. DEFINE new(j) == IF Active(j) THEN [job[j] EXCEPT !.status = "FAILED"] ELSE job[j]
    <3>1. \A j \in Jobs : new(j) \in JobRow BY DEF TypeOK, JobRow
    <3>2. job' = [j \in Jobs |-> new(j)] BY <1>4 DEF CancelSource
    <3>. HIDE DEF new
    <3>. QED BY <3>1, <3>2
  <2>2. faults' \in [cancel : Nat, crash : Nat, stall : Nat, beat : Nat]
    BY <1>4, FaultType DEF CancelSource
  <2>. QED BY <1>1, <1>4, <2>1, <2>2 DEF CancelSource, TypeOK
<1>5. CASE LeaseAges \/ RecoverSource
  <2>1. src' \in SourceRow BY <1>5, SourceType DEF LeaseAges, RecoverSource
  <2>2. breached' \in BOOLEAN BY <1>5 DEF LeaseAges, RecoverSource, TypeOK, Overwrites
  <2>. QED BY <1>1, <1>5, <2>1, <2>2 DEF LeaseAges, RecoverSource, TypeOK
<1>6. ASSUME NEW j \in Jobs, RecoverJob(j) PROVE TypeOK'
  <2>1. job' \in [Jobs -> JobRow] BY <1>6, JobType DEF RecoverJob
  <2>. QED BY <1>1, <1>6, <2>1 DEF RecoverJob, TypeOK
<1>. QED BY <1>2, <1>3, <1>4, <1>5, <1>6

\* The steps of a run keep the types: a run in progress keeps its job, and a
\* run that holds the lease keeps its marker.
LEMMA RunTypeStep == ASSUME TypeOK, RunNext PROVE TypeOK'
<1>. USE SourceRefreshAssumption
<1>1. ASSUME NEW l \in Loops, NEW j \in Jobs, StartRun(l, j) PROVE TypeOK'
  <2>1. job[j] \in JobRow /\ job[j].attempts + 1 \in Nat BY DEF TypeOK, JobRow
  <2>2. job' \in [Jobs -> JobRow] BY <1>1, <2>1 DEF StartRun, TypeOK, JobRow
  <2>. DEFINE r == [NoRun EXCEPT !.pc = "look", !.job = j, !.attempts = job[j].attempts + 1]
  <2>3. r \in Run /\ r.pc = "look" /\ r.job = j BY <2>1, NoRunType DEF Run, Pcs
  <2>4. run' = [run EXCEPT ![l] = r] BY <1>1 DEF StartRun
  <2>. HIDE DEF r
  <2>5. RunsOK' BY <2>3, <2>4, RunUpdate DEF HoldingPcs
  <2>. QED BY <1>1, <2>2, <2>5 DEF StartRun, TypeOK
<1>2. ASSUME NEW l \in Loops, AcquireFree(l) \/ AcquireStale(l) PROVE TypeOK'
  <2>1. NewLease \in Leases BY <1>2 DEF AcquireFree, AcquireStale, NewLease
  <2>2. run[l] \in Run /\ run[l].job \in Jobs
    BY <1>2, RunFacts DEF AcquireFree, AcquireStale
  <2>3. src' \in SourceRow /\ RunsOK'
    <3>1. CASE Acquire(l)
      <4>. DEFINE r == [run[l] EXCEPT !.pc = "open", !.lease = NewLease]
      <4>1. run' = [run EXCEPT ![l] = r] BY <3>1 DEF Acquire
      <4>2. r \in Run /\ r.job \in Jobs /\ r.lease \in Leases BY <2>1, <2>2, RunAcquires
      <4>3. src' \in SourceRow BY <2>1, <3>1 DEF Acquire, SourceRow
      <4>. HIDE DEF r
      <4>. QED BY <4>1, <4>2, <4>3, RunUpdate
    <3>2. CASE run' = [run EXCEPT ![l].pc = "takeover"] /\ src' = src
      <4>. DEFINE r == [run[l] EXCEPT !.pc = "takeover"]
      <4>1. run' = [run EXCEPT ![l] = r] BY <3>2
      <4>2. r \in Run /\ r.job \in Jobs /\ r.pc \notin HoldingPcs
        BY <2>2, RunMoves DEF Pcs, HoldingPcs
      <4>. HIDE DEF r
      <4>. QED BY <3>2, <4>1, <4>2, RunUpdate DEF TypeOK
    <3>3. CASE run' = [run EXCEPT ![l].pc = "fail", ![l].error = "busy"] /\ src' = src
      <4>. DEFINE r == [run[l] EXCEPT !.pc = "fail", !.error = "busy"]
      <4>1. run' = [run EXCEPT ![l] = r] BY <3>3
      <4>2. r \in Run /\ r.job \in Jobs /\ r.pc \notin HoldingPcs
        BY <2>2, RunFails DEF HoldingPcs
      <4>. HIDE DEF r
      <4>. QED BY <3>3, <4>1, <4>2, RunUpdate DEF TypeOK
    <3>. QED BY <1>2, <3>1, <3>2, <3>3 DEF AcquireFree, AcquireStale
  <2>. QED BY <1>2, <2>3 DEF AcquireFree, AcquireStale, TypeOK
<1>3. ASSUME NEW l \in Loops, OpenStage(l) \/ Swap(l) PROVE TypeOK'
  <2>1. run[l] \in Run /\ run[l].job \in Jobs /\ run[l].lease \in Leases
    BY <1>3, RunFacts DEF OpenStage, Swap, HoldingPcs
  <2>2. PICK pc \in {"read", "finish"} : run' = [run EXCEPT ![l].pc = pc]
    BY <1>3 DEF OpenStage, Swap
  <2>. DEFINE r == [run[l] EXCEPT !.pc = pc]
  <2>3. run' = [run EXCEPT ![l] = r] BY <2>2
  <2>4. r \in Run /\ r.job \in Jobs /\ r.lease \in Leases BY <2>1 DEF Run, Pcs
  <2>. HIDE DEF r
  <2>5. RunsOK' BY <2>3, <2>4, RunUpdate
  <2>6. stage' \in [Kinds -> StagingTable]
    <3>1. Absent \in StagingTable /\ OpenedStage(Kind(l)) \in StagingTable
      BY DEF OpenedStage, Absent, StagingTable
    <3>. QED BY <1>3, <3>1 DEF OpenStage, Swap, TypeOK
  <2>7. version' \in Nat BY <1>3 DEF OpenStage, Swap, TypeOK
  <2>. QED BY <1>3, <2>5, <2>6, <2>7 DEF OpenStage, Swap, TypeOK
<1>4. ASSUME NEW l \in Loops, ReadEnd(l) \/ LeaseLost(l) \/ ThrowEarly(l) PROVE TypeOK'
  <2>1. run[l] \in Run /\ run[l].job \in Jobs /\ (run[l].pc \in HoldingPcs => run[l].lease \in Leases)
    BY <1>4, RunFacts DEF ReadEnd, LeaseLost, ThrowEarly
  <2>2. RunsOK'
    <3>1. CASE ReadEnd(l)
      <4>. DEFINE r == [run[l] EXCEPT !.pc = "merge"]
      <4>1. run' = [run EXCEPT ![l] = r] /\ run[l].pc \in HoldingPcs
        BY <3>1 DEF ReadEnd, HoldingPcs
      <4>2. r \in Run /\ r.job \in Jobs /\ r.lease \in Leases BY <2>1, <4>1, RunMoves DEF Pcs
      <4>. HIDE DEF r
      <4>. QED BY <4>1, <4>2, RunUpdate
    <3>2. CASE LeaseLost(l) \/ ThrowEarly(l)
      <4>1. PICK e \in {"none", "busy", "lost", "other"} :
              run' = [run EXCEPT ![l].pc = "fail", ![l].error = e]
        BY <3>2 DEF LeaseLost, ThrowEarly
      <4>. DEFINE r == [run[l] EXCEPT !.pc = "fail", !.error = e]
      <4>2. run' = [run EXCEPT ![l] = r] BY <4>1
      <4>3. r \in Run /\ r.job \in Jobs /\ r.pc \notin HoldingPcs BY <2>1, RunFails DEF HoldingPcs
      <4>. HIDE DEF r
      <4>. QED BY <4>2, <4>3, RunUpdate
    <3>. QED BY <1>4, <3>1, <3>2
  <2>. QED BY <1>4, <2>2 DEF ReadEnd, LeaseLost, ThrowEarly, TypeOK
<1>5. ASSUME NEW l \in Loops, ReadBatch(l) PROVE TypeOK'
  <2>1. run[l] \in Run /\ run[l].job \in Jobs /\ run[l].lease \in Leases
    BY <1>5, RunFacts DEF ReadBatch, HoldingPcs
  <2>. DEFINE r == [run[l] EXCEPT !.n = @ + 1]
  <2>2. run' = [run EXCEPT ![l] = r] BY <1>5 DEF ReadBatch
  <2>3. r \in Run /\ r.job \in Jobs /\ r.lease \in Leases /\ run[l].n + 1 \in 1..Batches
    BY <1>5, <2>1, RunReads DEF ReadBatch
  <2>. HIDE DEF r
  <2>4. RunsOK' BY <2>2, <2>3, RunUpdate
  <2>5. stage' \in [Kinds -> StagingTable]
    <3>. DEFINE b == [lease |-> run[l].lease, n |-> run[l].n + 1]
                k == Kind(l)
                t == [stage[k] EXCEPT !.rows = @ \cup {b}]
    <3>1. b \in Batch BY <2>1, <2>3 DEF Batch
    <3>2. k \in Kinds /\ stage[k] \in StagingTable BY <1>5, BusyRun DEF ReadBatch
    <3>3. t \in StagingTable BY <3>1, <3>2 DEF StagingTable
    <3>4. stage' = [stage EXCEPT ![k] = t] BY <1>5 DEF ReadBatch
    <3>. HIDE DEF b, k, t
    <3>. QED BY <3>2, <3>3, <3>4 DEF TypeOK
  <2>. QED BY <1>5, <2>4, <2>5 DEF ReadBatch, TypeOK
<1>6. ASSUME NEW l \in Loops, BuildMerged(l) PROVE TypeOK'
  <2>1. run[l] \in Run /\ run[l].job \in Jobs /\ run[l].lease \in Leases
    BY <1>6, RunFacts DEF BuildMerged, HoldingPcs
  <2>2. version \in Nat /\ stage[Kind(l)].rows \in SUBSET Batch
    BY <1>6, BusyRun DEF BuildMerged, TypeOK, StagingTable
  <2>. DEFINE r == [run[l] EXCEPT !.pc = "swap", !.base = version, !.content = stage[Kind(l)].rows]
  <2>3. run' = [run EXCEPT ![l] = r] BY <1>6 DEF BuildMerged
  <2>4. r \in Run /\ r.job \in Jobs /\ r.lease \in Leases BY <2>1, <2>2 DEF Run, Pcs
  <2>. HIDE DEF r
  <2>5. RunsOK' BY <2>3, <2>4, RunUpdate
  <2>. QED BY <1>6, <2>5 DEF BuildMerged, TypeOK
<1>7. ASSUME NEW l \in Loops, Finish(l) PROVE TypeOK'
  <2>1. run[l] \in Run /\ run[l].job \in Jobs BY <1>7, RunFacts DEF Finish
  <2>. DEFINE r == [run[l] EXCEPT !.pc = "complete"]
  <2>2. run' = [run EXCEPT ![l] = r] BY <1>7 DEF Finish
  <2>3. r \in Run /\ r.job \in Jobs /\ r.pc \notin HoldingPcs
    BY <2>1, RunMoves DEF Pcs, HoldingPcs
  <2>. HIDE DEF r
  <2>4. RunsOK' BY <2>2, <2>3, RunUpdate
  <2>5. src' \in SourceRow BY <1>7, SourceType DEF Finish
  <2>6. breached' \in BOOLEAN BY <1>7 DEF Finish, Overwrites, TypeOK
  <2>. QED BY <1>7, <2>4, <2>5, <2>6 DEF Finish, TypeOK
<1>8. ASSUME NEW l \in Loops, Throw(l) PROVE TypeOK'
  <2>1. run[l] \in Run /\ run[l].job \in Jobs BY <1>8, RunFacts DEF Throw, Holding
  <2>2. PICK e \in {"lost", "other"} : run' = [run EXCEPT ![l].pc = "fail", ![l].error = e]
    BY <1>8 DEF Throw
  <2>. DEFINE r == [run[l] EXCEPT !.pc = "fail", !.error = e]
  <2>3. run' = [run EXCEPT ![l] = r] BY <2>2
  <2>4. r \in Run /\ r.job \in Jobs /\ r.pc \notin HoldingPcs BY <2>1 DEF Run, Pcs, HoldingPcs
  <2>. HIDE DEF r
  <2>5. RunsOK' BY <2>3, <2>4, RunUpdate
  <2>6. src' \in SourceRow BY <1>8, SourceType DEF Throw, TypeOK
  <2>7. breached' \in BOOLEAN BY <1>8 DEF Throw, Overwrites, TypeOK
  <2>8. stage' \in [Kinds -> StagingTable]
    <3>1. Absent \in StagingTable BY DEF Absent, StagingTable
    <3>. QED BY <1>8, <3>1 DEF Throw, TypeOK
  <2>. QED BY <1>8, <2>5, <2>6, <2>7, <2>8 DEF Throw, TypeOK
<1>9. ASSUME NEW l \in Loops, Heartbeat(l) \/ HeartbeatFails(l) PROVE TypeOK'
  <2>1. run[l] \in Run /\ run[l].job \in Jobs /\ run[l].lease \in Leases
    BY <1>9, RunFacts DEF Heartbeat, HeartbeatFails, Holding, HoldingPcs
  <2>2. RunsOK'
    <3>1. CASE run' = [run EXCEPT ![l].lost = TRUE]
      <4>. DEFINE r == [run[l] EXCEPT !.lost = TRUE]
      <4>1. run' = [run EXCEPT ![l] = r] BY <3>1
      <4>2. r \in Run /\ r.job \in Jobs /\ r.lease \in Leases BY <2>1, RunLoses
      <4>. HIDE DEF r
      <4>. QED BY <4>1, <4>2, RunUpdate
    <3>2. CASE run' = run BY <3>2, UnchangedRuns
    <3>. QED BY <1>9, <3>1, <3>2 DEF Heartbeat, HeartbeatFails
  <2>3. src' \in SourceRow BY <1>9, SourceType DEF Heartbeat, HeartbeatFails, TypeOK
  <2>4. faults' \in [cancel : Nat, crash : Nat, stall : Nat, beat : Nat]
    BY <1>9, FaultType DEF Heartbeat, HeartbeatFails, TypeOK
  <2>. QED BY <1>9, <2>2, <2>3, <2>4 DEF Heartbeat, HeartbeatFails, TypeOK
<1>10. ASSUME NEW l \in Loops, CompleteJob(l) \/ FailJob(l) \/ Crash(l) \/ Shutdown(l)
       PROVE  TypeOK'
  <2>1. run[l] \in Run /\ run[l].job \in Jobs /\ job[run[l].job] \in JobRow
    BY <1>10, RunFacts, BusyRun DEF CompleteJob, FailJob, Crash, Shutdown
  <2>2. run' = [run EXCEPT ![l] = NoRun] BY <1>10 DEF CompleteJob, FailJob, Crash, Shutdown
  <2>3. NoRun \in Run /\ NoRun.pc = "idle" BY NoRunType DEF NoRun
  <2>4. RunsOK' BY <2>2, <2>3, RunUpdate DEF HoldingPcs
  <2>5. job' \in [Jobs -> JobRow]
    <3>1. CASE CompleteJob(l) \/ FailJob(l)
      <4>1. job' = job \/ \E status \in {"COMPLETED", "FAILED", "QUEUED"} :
                           job' = Settle(run[l].job, status)
        BY <3>1 DEF CompleteJob, FailJob
      <4>2. \A status \in {"COMPLETED", "FAILED", "QUEUED"} :
              Settle(run[l].job, status) \in [Jobs -> JobRow] BY <2>1, JobType
      <4>. QED BY <4>1, <4>2 DEF TypeOK
    <3>2. CASE Shutdown(l)
      <4>1. Refund(job[run[l].job].attempts) \in Nat BY <2>1 DEF Refund, JobRow
      <4>. DEFINE row == [status |-> "QUEUED", lockedBy |-> None,
                          attempts |-> Refund(job[run[l].job].attempts)]
      <4>2. row \in JobRow BY <4>1 DEF JobRow
      <4>3. job' = job \/ job' = [job EXCEPT ![run[l].job] = row] BY <3>2 DEF Shutdown
      <4>. HIDE DEF row
      <4>. QED BY <2>1, <4>2, <4>3 DEF TypeOK
    <3>3. CASE Crash(l) BY <3>3 DEF Crash, TypeOK
    <3>. QED BY <1>10, <3>1, <3>2, <3>3
  <2>6. src' \in SourceRow BY <1>10, SourceType DEF CompleteJob, FailJob, Crash, Shutdown, TypeOK
  <2>7. breached' \in BOOLEAN
    BY <1>10 DEF CompleteJob, FailJob, Crash, Shutdown, Overwrites, TypeOK
  <2>8. faults' \in [cancel : Nat, crash : Nat, stall : Nat, beat : Nat]
    BY <1>10, FaultType DEF CompleteJob, FailJob, Crash, Shutdown, TypeOK
  <2>. QED
    BY <1>10, <2>4, <2>5, <2>6, <2>7, <2>8 DEF CompleteJob, FailJob, Crash, Shutdown, TypeOK
<1>11. ASSUME NEW l \in Loops, Stall(l) \/ Resume(l) PROVE TypeOK'
  <2>1. RunsOK' BY <1>11, UnchangedRuns DEF Stall, Resume
  <2>2. faults' \in [cancel : Nat, crash : Nat, stall : Nat, beat : Nat]
    BY <1>11, FaultType DEF Stall, Resume, TypeOK
  <2>. QED BY <1>11, <2>1, <2>2 DEF Stall, Resume, TypeOK
<1>. QED BY <1>1, <1>2, <1>3, <1>4, <1>5, <1>6, <1>7, <1>8, <1>9, <1>10, <1>11 DEF RunNext

LEMMA TypeStep == ASSUME TypeOK, [Next]_vars PROVE TypeOK'
<1>1. CASE Next BY <1>1, OthersTypeStep, RunTypeStep DEF Next
<1>2. CASE UNCHANGED vars
  <2>1. RunsOK' BY <1>2, UnchangedRuns DEF vars
  <2>. QED BY <1>2, <2>1 DEF vars, TypeOK
<1>. QED BY <1>1, <1>2

\* Type correctness.
THEOREM TypeCorrect == Spec => []TypeOK
<1>1. Init => TypeOK
  <2>. SUFFICES ASSUME Init PROVE TypeOK OBVIOUS
  <2>1. RunsOK BY NoRunType DEF Init, RunsOK, Holding, NoRun
  <2>. QED BY <2>1, SourceRefreshAssumption
         DEF Init, TypeOK, JobRow, SourceRow, StagingTable, Absent
<1>. QED BY <1>1, TypeStep, PTL DEF Spec

------------------------------------------------------------------------------
(* The lease                                                                *)

\* No step takes a fault back.
LEMMA UndisturbedBefore == ASSUME TypeOK, Next, Undisturbed' PROVE Undisturbed
<1>1. breached => breached'
  BY ZenonT(60)
  DEF Next, RunNext, FindQueued, MarkQueued, FindNone, InsertJob, CancelSource, LeaseAges,
      RecoverJob, RecoverSource,
         StartRun, AcquireFree, AcquireStale, OpenStage, LeaseLost, ReadBatch, ReadEnd,
         BuildMerged,
         Swap, Finish, ThrowEarly, Throw, Heartbeat, HeartbeatFails, CompleteJob, FailJob, Crash,
         Shutdown,
         Stall, Resume
<1>2. \/ faults' = faults
      \/ \E kind \in {"cancel", "crash", "stall", "beat"} :
           faults' = [faults EXCEPT ![kind] = @ + 1]
  BY ZenonT(60)
  DEF Next, RunNext, FindQueued, MarkQueued, FindNone, InsertJob, CancelSource, LeaseAges,
      RecoverJob, RecoverSource,
         StartRun, AcquireFree, AcquireStale, OpenStage, LeaseLost, ReadBatch, ReadEnd,
         BuildMerged,
         Swap, Finish, ThrowEarly, Throw, Heartbeat, HeartbeatFails, CompleteJob, FailJob, Crash,
         Shutdown,
         Stall, Resume, BumpFault
<1>3. faults \in [cancel : Nat, crash : Nat, stall : Nat, beat : Nat] BY DEF TypeOK
<1>4. faults'.stall = 0 /\ faults'.beat = 0 => faults.stall = 0 /\ faults.beat = 0 BY <1>2, <1>3
<1>. QED BY <1>1, <1>4 DEF Undisturbed

\* A statement that writes the row of the source without a look at the lease,
\* and yet breaches none, is its owner's: no other run holds the lease.
LEMMA OnlyWriterHolds ==
  ASSUME TypeOK, IInv, NEW l, breached' = (breached \/ Overwrites(l)), faults' = faults, Undisturbed'
  PROVE  \A m \in Loops : Holding(m) => m = l
<1>1. Undisturbed /\ ~Overwrites(l) BY DEF Undisturbed
<1>. QED BY <1>1 DEF IInv, HolderOwnsLease, Overwrites

\* A step of loop l that draws no marker keeps the markers apart.
LEMMA MarkersKept ==
  ASSUME TypeOK, IInv, NEW l \in Loops, NEW r \in Run, run' = [run EXCEPT ![l] = r],
         r.lease \in {run[l].lease, None},
         r.pc \in {"look", "takeover"} => r.lease = None /\ ~r.lost
  PROVE  LeasesDistinct' /\ SeekersHoldNone'
<1>1. \A m \in Loops : run'[m] = IF m = l THEN r ELSE run[m] BY DEF TypeOK, RunsOK
<1>2. LeasesDistinct' BY <1>1 DEF IInv, LeasesDistinct
<1>3. SeekersHoldNone' BY <1>1 DEF IInv, SeekersHoldNone
<1>. QED BY <1>2, <1>3

\* A step of loop l that leaves the row of the source alone keeps the lease.
LEMMA LeaseKept ==
  ASSUME TypeOK, IInv, NEW l \in Loops, NEW r \in Run, run' = [run EXCEPT ![l] = r],
         src' = src, Undisturbed' => Undisturbed,
         r.pc \in HoldingPcs /\ Undisturbed =>
           run[l].pc \in HoldingPcs /\ r.lease = run[l].lease /\ r.lost = run[l].lost
  PROVE  HolderOwnsLease'
<1>1. \A m \in Loops : run'[m] = IF m = l THEN r ELSE run[m] BY DEF TypeOK, RunsOK
<1>. SUFFICES ASSUME Undisturbed', NEW m \in Loops, Holding(m)'
              PROVE  /\ src.status = "running" /\ src.lease = run'[m].lease /\ src.fresh
                     /\ ~run'[m].lost
  BY DEF HolderOwnsLease
<1>2. Holding(m) /\ run'[m].lease = run[m].lease /\ run'[m].lost = run[m].lost
  BY <1>1 DEF Holding, HoldingPcs
<1>. QED BY <1>2 DEF IInv, HolderOwnsLease

\* A step in which loop l gives up the lease while another statement of its
\* writes the row of the source.
LEMMA LeaseReleased ==
  ASSUME TypeOK, IInv, NEW l \in Loops, NEW r \in Run, run' = [run EXCEPT ![l] = r],
         r.pc \notin HoldingPcs,
         faults' = faults, Undisturbed' => Undisturbed,
         \/ src' = src
         \/ breached' = (breached \/ Overwrites(l))
  PROVE  HolderOwnsLease'
<1>1. \A m \in Loops : run'[m] = IF m = l THEN r ELSE run[m] BY DEF TypeOK, RunsOK
<1>2. CASE src' = src BY <1>2, LeaseKept
<1>3. CASE breached' = (breached \/ Overwrites(l))
  <2>. SUFFICES ASSUME Undisturbed', NEW m \in Loops, Holding(m)' PROVE FALSE
    BY DEF HolderOwnsLease
  <2>1. m # l /\ Holding(m) BY <1>1 DEF Holding, HoldingPcs
  <2>. QED BY <1>3, <2>1, OnlyWriterHolds
<1>. QED BY <1>2, <1>3

\* Nobody holds a lease that a step of another may take: the row is not
\* running, or its owner has let it age.
LEMMA LeaseAcquired ==
  ASSUME TypeOK, IInv, NEW l \in Loops, run[l].pc \in {"look", "takeover"},
         src.status # "running" \/ ~src.fresh, Leases \ UsedLeases # {},
         Acquire(l), Undisturbed' => Undisturbed
  PROVE  HolderOwnsLease' /\ LeasesDistinct' /\ SeekersHoldNone'
<1>1. NewLease \in Leases /\ NewLease \notin UsedLeases BY DEF NewLease
<1>2. run[l] \in Run BY RunFacts
<1>. DEFINE r == [run[l] EXCEPT !.pc = "open", !.lease = NewLease]
<1>3. r.pc = "open" /\ r.lease = NewLease /\ r.lost = run[l].lost BY <1>2 DEF Run
<1>4. run' = [run EXCEPT ![l] = r] BY DEF Acquire
<1>. HIDE DEF r
<1>5. \A m \in Loops : run'[m] = IF m = l THEN r ELSE run[m] BY <1>4 DEF TypeOK, RunsOK
<1>6. \A m \in Loops : run[m].lease # NewLease BY <1>1 DEF UsedLeases
<1>7. HolderOwnsLease'
  <2>. SUFFICES ASSUME Undisturbed', NEW m \in Loops, Holding(m)'
                PROVE  m = l
    BY <1>3, <1>5 DEF HolderOwnsLease, Acquire, IInv, SeekersHoldNone
  <2>1. Undisturbed OBVIOUS
  <2>2. ~Holding(m) BY <2>1 DEF IInv, HolderOwnsLease
  <2>. QED BY <2>2, <1>5 DEF Holding
<1>8. LeasesDistinct' BY <1>3, <1>5, <1>6 DEF IInv, LeasesDistinct
<1>9. SeekersHoldNone' BY <1>3, <1>5 DEF IInv, SeekersHoldNone
<1>. QED BY <1>7, <1>8, <1>9

\* The statements of users, producers and recovery: they leave a running row
\* alone, or breach the lease of its owner, or find that nobody renews it.
LEMMA OthersInvStep ==
  ASSUME TypeOK, IInv, Undisturbed' => Undisturbed,
         \/ \E w \in Producers, k \in Kinds : FindQueued(w, k) \/ FindNone(w, k)
         \/ \E w \in Producers : MarkQueued(w)
         \/ \E w \in Producers, j \in Jobs : InsertJob(w, j)
         \/ CancelSource \/ LeaseAges \/ RecoverSource
         \/ \E j \in Jobs : RecoverJob(j)
  PROVE  IInv'
<1>1. run' = run /\ stalled' = stalled /\ faults'.stall = faults.stall
  BY
  DEF FindQueued, MarkQueued, FindNone, InsertJob, CancelSource, LeaseAges, RecoverSource,
      RecoverJob,
         BumpFault, TypeOK
<1>2. LeasesDistinct' /\ SeekersHoldNone' /\ (faults'.stall = 0 => stalled' = {})
  BY <1>1 DEF IInv, LeasesDistinct, SeekersHoldNone
<1>3. ASSUME Undisturbed', NEW m \in Loops, Holding(m) PROVE src' = src
  <2>1. src.status = "running" /\ src.lease = run[m].lease /\ ~run[m].lost /\ m \notin stalled
    BY <1>3 DEF IInv, HolderOwnsLease, Undisturbed
  <2>2. ~LeaseAges BY <1>3, <2>1 DEF LeaseAges, Live
  <2>3. ~RecoverSource
    BY <1>3, OnlyWriterHolds, SourceRefreshAssumption DEF RecoverSource
  <2>. QED BY <2>1, <2>2, <2>3
         DEF FindQueued, MarkQueued, FindNone, InsertJob, MarkedQueued, CancelSource, RecoverJob
<1>4. HolderOwnsLease' BY <1>1, <1>3 DEF IInv, HolderOwnsLease, Holding
<1>. QED BY <1>2, <1>4 DEF IInv

\* The steps of a run.
LEMMA RunInvStep ==
  ASSUME TypeOK, IInv, Undisturbed' => Undisturbed, RunNext PROVE IInv'
<1>. USE SourceRefreshAssumption
<1>1. ASSUME NEW l \in Loops, NEW j \in Jobs, StartRun(l, j) PROVE IInv'
  <2>1. job[j] \in JobRow /\ job[j].attempts + 1 \in Nat BY DEF TypeOK, JobRow
  <2>. DEFINE r == [NoRun EXCEPT !.pc = "look", !.job = j, !.attempts = job[j].attempts + 1]
  <2>2. r \in Run /\ r.pc = "look" /\ r.lease = None /\ ~r.lost
    BY <2>1, NoRunType DEF Run, NoRun, Pcs
  <2>3. run' = [run EXCEPT ![l] = r] BY <1>1 DEF StartRun
  <2>. HIDE DEF r
  <2>4. LeasesDistinct' /\ SeekersHoldNone' BY <2>2, <2>3, MarkersKept
  <2>5. HolderOwnsLease' BY <1>1, <2>2, <2>3, LeaseKept DEF StartRun, HoldingPcs
  <2>. QED BY <1>1, <2>4, <2>5 DEF StartRun, IInv
<1>2. ASSUME NEW l \in Loops, AcquireFree(l) \/ AcquireStale(l) PROVE IInv'
  <2>1. run[l] \in Run /\ run[l].pc \in {"look", "takeover"} /\ run[l].lease = None /\ ~run[l].lost
    BY <1>2, RunFacts DEF AcquireFree, AcquireStale, IInv, SeekersHoldNone
  <2>2. HolderOwnsLease' /\ LeasesDistinct' /\ SeekersHoldNone'
    <3>1. CASE Acquire(l)
      <4>1. src.status # "running" \/ ~src.fresh
        BY <1>2, <3>1, <2>1
        DEF AcquireFree, AcquireStale, Acquire, CanTakeOver, TypeOK, RunsOK, Run
      <4>. QED BY <1>2, <2>1, <3>1, <4>1, LeaseAcquired DEF AcquireFree, AcquireStale
    <3>2. CASE run' = [run EXCEPT ![l].pc = "takeover"] /\ src' = src
      <4>. DEFINE r == [run[l] EXCEPT !.pc = "takeover"]
      <4>1. run' = [run EXCEPT ![l] = r] BY <3>2
      <4>2. r \in Run /\ r.pc = "takeover" /\ r.lease = None /\ ~r.lost BY <2>1 DEF Run, Pcs
      <4>. HIDE DEF r
      <4>3. HolderOwnsLease' BY <3>2, <4>1, <4>2, LeaseKept DEF HoldingPcs
      <4>. QED BY <4>1, <4>2, <4>3, MarkersKept
    <3>3. CASE run' = [run EXCEPT ![l].pc = "fail", ![l].error = "busy"] /\ src' = src
      <4>. DEFINE r == [run[l] EXCEPT !.pc = "fail", !.error = "busy"]
      <4>1. run' = [run EXCEPT ![l] = r] BY <3>3
      <4>2. r \in Run /\ r.pc = "fail" /\ r.lease = None /\ ~r.lost BY <2>1 DEF Run, Pcs
      <4>. HIDE DEF r
      <4>3. HolderOwnsLease' BY <3>3, <4>1, <4>2, LeaseKept DEF HoldingPcs
      <4>. QED BY <4>1, <4>2, <4>3, MarkersKept
    <3>. QED BY <1>2, <3>1, <3>2, <3>3 DEF AcquireFree, AcquireStale
  <2>. QED BY <1>2, <2>2 DEF AcquireFree, AcquireStale, IInv
<1>3. ASSUME NEW l \in Loops,
             \/ OpenStage(l) \/ LeaseLost(l) \/ ReadBatch(l) \/ ReadEnd(l) \/ BuildMerged(l) \/ Swap(l)
      PROVE  IInv'
  <2>1. run[l] \in Run /\ run[l].pc \in HoldingPcs /\ src' = src
    BY <1>3, RunFacts DEF OpenStage, LeaseLost, ReadBatch, ReadEnd, BuildMerged, Swap, HoldingPcs
  <2>2. /\ run' = [run EXCEPT ![l] = run'[l]]
        /\ run'[l] \in Run /\ run'[l].lease = run[l].lease /\ run'[l].lost = run[l].lost
        /\ run'[l].pc \in HoldingPcs \cup {"fail"}
    <3>1. run \in [Loops -> Run] /\ RunsOK' BY <1>3, RunTypeStep DEF TypeOK, RunsOK, RunNext
    <3>2. run'[l] \in Run BY <3>1 DEF RunsOK
    <3>3. run' = [run EXCEPT ![l] = run'[l]]
      BY <1>3, <3>1 DEF OpenStage, LeaseLost, ReadBatch, ReadEnd, BuildMerged, Swap
    <3>4. run'[l].lease = run[l].lease /\ run'[l].lost = run[l].lost
      BY <1>3, <2>1, <3>1 DEF OpenStage, LeaseLost, ReadBatch, ReadEnd, BuildMerged, Swap, Run
    <3>5. run'[l].pc \in HoldingPcs \cup {"fail"}
      BY <1>3, <2>1, <3>1
         DEF OpenStage, LeaseLost, ReadBatch, ReadEnd, BuildMerged, Swap, Run, HoldingPcs
    <3>. QED BY <3>2, <3>3, <3>4, <3>5
  <2>. DEFINE r == run'[l]
  <2>3. run' = [run EXCEPT ![l] = r] /\ r \in Run /\ r.lease = run[l].lease /\ r.lost = run[l].lost
        /\ r.pc \in HoldingPcs \cup {"fail"} BY <2>2
  <2>. HIDE DEF r
  <2>4. LeasesDistinct' /\ SeekersHoldNone' BY <2>3, MarkersKept DEF HoldingPcs
  <2>5. HolderOwnsLease' BY <2>1, <2>3, LeaseKept
  <2>. QED BY <1>3, <2>4, <2>5
         DEF OpenStage, LeaseLost, ReadBatch, ReadEnd, BuildMerged, Swap, IInv
<1>4. ASSUME NEW l \in Loops, Finish(l) \/ Throw(l) \/ ThrowEarly(l) PROVE IInv'
  <2>1. run[l] \in Run BY RunFacts
  <2>2. PICK pc \in {"complete", "fail"}, e \in {"none", "busy", "lost", "other"} :
          run' = [run EXCEPT ![l] = [run[l] EXCEPT !.pc = pc, !.error = e]]
    <3>1. CASE Finish(l)
      <4>1. run' = [run EXCEPT ![l] = [run[l] EXCEPT !.pc = "complete", !.error = run[l].error]]
        BY <2>1, <3>1 DEF Finish, Run
      <4>. QED BY <2>1, <4>1 DEF Run
    <3>2. CASE Throw(l) \/ ThrowEarly(l) BY <3>2 DEF Throw, ThrowEarly
    <3>. QED BY <1>4, <3>1, <3>2
  <2>. DEFINE r == [run[l] EXCEPT !.pc = pc, !.error = e]
  <2>3. r \in Run /\ r.pc \in {"complete", "fail"} /\ r.lease = run[l].lease
    BY <2>1 DEF Run, Pcs
  <2>4. run' = [run EXCEPT ![l] = r] BY <2>2
  <2>. HIDE DEF r
  <2>5. LeasesDistinct' /\ SeekersHoldNone' BY <2>3, <2>4, MarkersKept
  <2>6. HolderOwnsLease'
    BY <1>4, <2>3, <2>4, LeaseReleased DEF Finish, Throw, ThrowEarly, HoldingPcs
  <2>. QED BY <1>4, <2>5, <2>6 DEF Finish, Throw, ThrowEarly, IInv
<1>5. ASSUME NEW l \in Loops, Heartbeat(l) PROVE IInv'
  <2>1. run[l] \in Run /\ Holding(l) BY <1>5, RunFacts DEF Heartbeat
  <2>2. CASE run' = run /\ src' = [src EXCEPT !.fresh = TRUE]
    <3>1. src'.status = src.status /\ src'.lease = src.lease /\ src'.fresh
      BY <2>2 DEF TypeOK, SourceRow
    <3>. QED BY <1>5, <2>2, <3>1
           DEF Heartbeat, IInv, HolderOwnsLease, LeasesDistinct, SeekersHoldNone, Holding
  <2>3. CASE run' = [run EXCEPT ![l].lost = TRUE] /\ src' = src
             /\ ~(src.status = "running" /\ src.lease = run[l].lease)
    <3>. DEFINE r == [run[l] EXCEPT !.lost = TRUE]
    <3>1. r \in Run /\ r.pc = run[l].pc /\ r.lease = run[l].lease BY <2>1, RunLoses
    <3>2. run' = [run EXCEPT ![l] = r] BY <2>3
    <3>. HIDE DEF r
    <3>3. LeasesDistinct' /\ SeekersHoldNone' BY <2>1, <3>1, <3>2, MarkersKept DEF Holding
    <3>4. ~Undisturbed BY <2>1, <2>3 DEF IInv, HolderOwnsLease
    <3>. QED BY <1>5, <3>3, <3>4 DEF Heartbeat, IInv, HolderOwnsLease
  <2>. QED BY <1>5, <2>2, <2>3 DEF Heartbeat
<1>6. ASSUME NEW l \in Loops, HeartbeatFails(l) PROVE IInv'
  <2>1. run[l] \in Run /\ Holding(l) BY <1>6, RunFacts DEF HeartbeatFails
  <2>. DEFINE r == [run[l] EXCEPT !.lost = TRUE]
  <2>2. r \in Run /\ r.pc = run[l].pc /\ r.lease = run[l].lease BY <2>1, RunLoses
  <2>3. run' = [run EXCEPT ![l] = r] BY <1>6 DEF HeartbeatFails
  <2>. HIDE DEF r
  <2>4. LeasesDistinct' /\ SeekersHoldNone' BY <2>1, <2>2, <2>3, MarkersKept DEF Holding
  <2>5. faults'.beat # 0 /\ faults'.stall = faults.stall
    BY <1>6 DEF HeartbeatFails, BumpFault, TypeOK
  <2>. QED BY <1>6, <2>4, <2>5 DEF HeartbeatFails, IInv, HolderOwnsLease, Undisturbed
<1>7. ASSUME NEW l \in Loops, CompleteJob(l) \/ FailJob(l) PROVE IInv'
  <2>1. run' = [run EXCEPT ![l] = NoRun] /\ faults' = faults /\ stalled' = stalled
    BY <1>7 DEF CompleteJob, FailJob
  <2>2. NoRun \in Run /\ NoRun.pc = "idle" /\ NoRun.lease = None BY NoRunType DEF NoRun
  <2>3. src' = src \/ breached' = (breached \/ Overwrites(l)) BY <1>7 DEF CompleteJob, FailJob
  <2>. HIDE DEF NoRun
  <2>4. LeasesDistinct' /\ SeekersHoldNone' BY <2>1, <2>2, MarkersKept
  <2>5. HolderOwnsLease' BY <2>1, <2>2, <2>3, LeaseReleased DEF HoldingPcs
  <2>. QED BY <2>1, <2>4, <2>5 DEF IInv
<1>8. ASSUME NEW l \in Loops, Crash(l) \/ Shutdown(l) PROVE IInv'
  <2>1. run' = [run EXCEPT ![l] = NoRun] /\ src' = src BY <1>8 DEF Crash, Shutdown
  <2>2. NoRun \in Run /\ NoRun.pc = "idle" /\ NoRun.lease = None BY NoRunType DEF NoRun
  <2>3. LeasesDistinct' /\ SeekersHoldNone' BY <2>1, <2>2, MarkersKept
  <2>4. HolderOwnsLease' BY <2>1, <2>2, LeaseKept DEF HoldingPcs
  <2>5. faults'.stall = faults.stall /\ stalled' \subseteq stalled
    BY <1>8 DEF Crash, Shutdown, BumpFault, TypeOK
  <2>. QED BY <2>3, <2>4, <2>5 DEF IInv
<1>9. ASSUME NEW l \in Loops, Stall(l) \/ Resume(l) PROVE IInv'
  <2>1. run' = run /\ src' = src BY <1>9 DEF Stall, Resume
  <2>2. faults'.stall = 0 => faults.stall = 0 /\ stalled' \subseteq stalled
    BY <1>9 DEF Stall, Resume, BumpFault, TypeOK
  <2>3. LeasesDistinct' /\ SeekersHoldNone' /\ HolderOwnsLease'
    BY <2>1 DEF IInv, LeasesDistinct, SeekersHoldNone, HolderOwnsLease, Holding
  <2>. QED BY <2>2, <2>3 DEF IInv
<1>. QED BY <1>1, <1>2, <1>3, <1>4, <1>5, <1>6, <1>7, <1>8, <1>9 DEF RunNext

LEMMA InvStep == ASSUME TypeOK, IInv, [Next]_vars PROVE IInv'
<1>1. CASE Next
  <2>1. Undisturbed' => Undisturbed BY <1>1, UndisturbedBefore
  <2>. QED BY <1>1, <2>1, OthersInvStep, RunInvStep DEF Next
<1>2. CASE UNCHANGED vars
  BY <1>2 DEF vars, IInv, HolderOwnsLease, LeasesDistinct, SeekersHoldNone, Undisturbed, Holding
<1>. QED BY <1>1, <1>2

\* The inductive invariant: a run that has acquired the lease keeps it.
THEOREM InvCorrect == Spec => []IInv
<1>1. Init => IInv
  BY DEF Init, IInv, HolderOwnsLease, LeasesDistinct, SeekersHoldNone, Holding, NoRun
<1>2. TypeOK /\ IInv /\ [Next]_vars => IInv' BY InvStep
<1>. QED BY <1>1, <1>2, TypeCorrect, PTL DEF Spec

\* Incremental and reconciliation exclude each other as long as no unguarded
\* statement overwrites a lease and no process loses touch with the database.
THEOREM RunsExclude == Spec => []OneHolder
<1>1. TypeOK /\ IInv => OneHolder
  <2>. SUFFICES ASSUME TypeOK, IInv, Undisturbed, NEW l \in Loops, NEW m \in Loops,
                       Holding(l), Holding(m)
                PROVE  l = m
    BY DEF OneHolder
  <2>1. run[l].lease = run[m].lease BY DEF IInv, HolderOwnsLease
  <2>2. run[l].lease # None BY RunFacts, SourceRefreshAssumption DEF Holding, HoldingPcs
  <2>. QED BY <2>1, <2>2 DEF IInv, LeasesDistinct
<1>. QED BY <1>1, TypeCorrect, InvCorrect, PTL

\* Every attempt has a marker of its own, stalls and faults included.
THEOREM MarkersAreDistinct == Spec => []LeasesDistinct
<1>1. IInv => LeasesDistinct BY DEF IInv
<1>. QED BY <1>1, InvCorrect, PTL

------------------------------------------------------------------------------
(* What is published                                                        *)

\* The first n batches of the read of one run.
FirstBatches(lease, n) == [lease : {lease}, n : 1..n]

\* What loop l has read so far is in the staging table of its kind, and nothing
\* else is; its merged table is that read over the version that still stands.
OwnRead(l) ==
  /\ run[l].pc \in {"look", "takeover", "open"} => run[l].n = 0
  /\ run[l].pc = "read" => stage[Kind(l)].rows = FirstBatches(run[l].lease, run[l].n)
  /\ run[l].pc = "merge" => stage[Kind(l)].rows = FirstBatches(run[l].lease, Batches)
  /\ run[l].pc = "swap" =>
       run[l].base = version /\ run[l].content = FirstBatches(run[l].lease, Batches)

\* The inductive invariant behind PublishesOwnRead.
ReadInv == Undisturbed => \A l \in Loops : OwnRead(l)

LEMMA HoldersAreOne ==
  ASSUME TypeOK, IInv, Undisturbed, NEW l \in Loops, NEW m \in Loops, Holding(l), Holding(m)
  PROVE  l = m
<1>1. run[l].lease = run[m].lease BY DEF IInv, HolderOwnsLease
<1>2. run[l].lease # None BY RunFacts, SourceRefreshAssumption DEF Holding, HoldingPcs
<1>. QED BY <1>1, <1>2 DEF IInv, LeasesDistinct

\* A loop whose run, staging table and target do not change has read what it had.
LEMMA OwnReadKept ==
  ASSUME NEW l \in Loops, OwnRead(l), run'[l] = run[l],
         (stage' = stage /\ version' = version) \/ ~Holding(l)
  PROVE  OwnRead(l)'
BY DEF OwnRead, Kind, Holding

\* A loop moves: the staging table and the target are touched by holders only,
\* so what another run has read is not.
LEMMA OthersKeepTheirRead ==
  ASSUME TypeOK, IInv, Undisturbed, ReadInv, NEW l \in Loops, NEW r, run' = [run EXCEPT ![l] = r],
         (stage' = stage /\ version' = version) \/ Holding(l),
         OwnRead(l)'
  PROVE  ReadInv'
<1>1. \A m \in Loops \ {l} : run'[m] = run[m] BY DEF TypeOK, RunsOK
<1>2. ASSUME NEW m \in Loops \ {l} PROVE OwnRead(m)'
  <2>1. (stage' = stage /\ version' = version) \/ ~Holding(m) BY HoldersAreOne
  <2>. QED BY <1>1, <2>1, OwnReadKept DEF ReadInv
<1>. QED BY <1>2 DEF ReadInv

\* A run that has nothing read keeps the invariant by its number of batches.
LEMMA NothingReadYet ==
  ASSUME NEW l \in Loops, run'[l].pc \notin {"read", "merge", "swap"},
         run'[l].pc \in {"look", "takeover", "open"} => run'[l].n = 0
  PROVE  OwnRead(l)'
BY DEF OwnRead

\* Reading starts with an empty staging table and adds one batch after another.
LEMMA ReadGrows ==
  ASSUME NEW lease, NEW n \in Nat
  PROVE  /\ FirstBatches(lease, 0) = {}
         /\ FirstBatches(lease, n + 1) = FirstBatches(lease, n) \cup {[lease |-> lease, n |-> n + 1]}
<1>1. 1..0 = {} /\ 1..(n + 1) = 1..n \cup {n + 1} OBVIOUS
<1>2. FirstBatches(lease, 0) = {} BY <1>1 DEF FirstBatches
<1>3. \A b : b \in FirstBatches(lease, n + 1) <=>
             b \in FirstBatches(lease, n) \cup {[lease |-> lease, n |-> n + 1]}
  BY <1>1 DEF FirstBatches
<1>. QED BY <1>2, <1>3

LEMMA ReadStep ==
  ASSUME TypeOK, IInv, Undisturbed, ReadInv, RunNext
  PROVE  ReadInv'
<1>. USE SourceRefreshAssumption
<1>0. run \in [Loops -> Run] /\ \A l \in Loops : run[l] \in Run /\ OwnRead(l)
  BY DEF TypeOK, RunsOK, ReadInv
<1>1. ASSUME NEW l \in Loops, NEW j \in Jobs, StartRun(l, j) PROVE ReadInv'
  <2>. DEFINE r == [NoRun EXCEPT !.pc = "look", !.job = j, !.attempts = job[j].attempts + 1]
  <2>1. run' = [run EXCEPT ![l] = r] /\ stage' = stage /\ version' = version BY <1>1 DEF StartRun
  <2>2. r.pc = "look" /\ r.n = 0 BY DEF NoRun
  <2>. HIDE DEF r
  <2>3. run'[l] = r BY <1>0, <2>1
  <2>4. OwnRead(l)' BY <2>2, <2>3, NothingReadYet
  <2>. QED BY <2>1, <2>4, OthersKeepTheirRead
<1>2. ASSUME NEW l \in Loops, AcquireFree(l) \/ AcquireStale(l) PROVE ReadInv'
  <2>1. run[l] \in Run /\ run[l].n = 0 /\ stage' = stage /\ version' = version
    BY <1>0, <1>2 DEF AcquireFree, AcquireStale, OwnRead
  <2>2. PICK pc \in {"open", "takeover", "fail"}, t \in Leases \cup {None}, e \in {"none", "busy", "lost", "other"} :
          run' = [run EXCEPT ![l] = [run[l] EXCEPT !.pc = pc, !.lease = t, !.error = e]]
    <3>1. CASE run' = [run EXCEPT ![l].pc = "open", ![l].lease = NewLease]
      <4>1. run' = [run EXCEPT ![l] = [run[l] EXCEPT !.pc = "open", !.lease = NewLease, !.error = run[l].error]]
        BY <1>0, <2>1, <3>1 DEF Run
      <4>2. NewLease \in Leases BY <1>2 DEF NewLease, AcquireFree, AcquireStale
      <4>. QED BY <2>1, <4>1, <4>2 DEF Run
    <3>2. CASE run' = [run EXCEPT ![l].pc = "takeover"]
      <4>1. run' = [run EXCEPT ![l] = [run[l] EXCEPT !.pc = "takeover", !.lease = run[l].lease, !.error = run[l].error]]
        BY <1>0, <2>1, <3>2 DEF Run
      <4>. QED BY <2>1, <4>1 DEF Run
    <3>3. CASE run' = [run EXCEPT ![l].pc = "fail", ![l].error = "busy"]
      <4>1. run' = [run EXCEPT ![l] = [run[l] EXCEPT !.pc = "fail", !.lease = run[l].lease, !.error = "busy"]]
        BY <1>0, <2>1, <3>3 DEF Run
      <4>. QED BY <2>1, <4>1 DEF Run
    <3>. QED BY <1>2, <3>1, <3>2, <3>3 DEF AcquireFree, AcquireStale, Acquire
  <2>. DEFINE r == [run[l] EXCEPT !.pc = pc, !.lease = t, !.error = e]
  <2>3. r.pc = pc /\ r.n = 0 BY <2>1 DEF Run
  <2>4. run' = [run EXCEPT ![l] = r] BY <2>2
  <2>. HIDE DEF r
  <2>5. run'[l] = r BY <1>0, <2>4
  <2>6. OwnRead(l)' BY <2>3, <2>5, NothingReadYet
  <2>. QED BY <2>1, <2>4, <2>6, OthersKeepTheirRead
<1>3. ASSUME NEW l \in Loops, OpenStage(l) PROVE ReadInv'
  <2>1. Holding(l) /\ run[l].n = 0 /\ Kind(l) \in Kinds
    BY <1>0, <1>3, BusyRun DEF OpenStage, OwnRead, Holding
  <2>. DEFINE r == [run[l] EXCEPT !.pc = "read"]
  <2>2. run' = [run EXCEPT ![l] = r] BY <1>3 DEF OpenStage
  <2>3. r.pc = "read" /\ r.n = 0 /\ r.job = run[l].job /\ r.lease = run[l].lease
    BY <1>0, <2>1 DEF Run
  <2>. HIDE DEF r
  <2>4. run'[l] = r BY <1>0, <2>2
  <2>5. stage'[Kind(l)].rows = {} BY <1>3, <2>1 DEF OpenStage, OpenedStage, TypeOK
  <2>6. OwnRead(l)' BY <2>3, <2>4, <2>5, ReadGrows DEF OwnRead, Kind
  <2>. QED BY <2>1, <2>2, <2>6, OthersKeepTheirRead
<1>4. ASSUME NEW l \in Loops, ReadBatch(l) PROVE ReadInv'
  <2>1. Holding(l) /\ Kind(l) \in Kinds /\ run[l].n \in Nat
    BY <1>0, <1>4, BusyRun DEF ReadBatch, Holding, Run
  <2>. DEFINE r == [run[l] EXCEPT !.n = @ + 1]
  <2>2. run' = [run EXCEPT ![l] = r] BY <1>4 DEF ReadBatch
  <2>3. r.pc = "read" /\ r.n = run[l].n + 1 /\ r.job = run[l].job /\ r.lease = run[l].lease
    BY <1>0, <1>4 DEF Run, ReadBatch
  <2>. HIDE DEF r
  <2>4. run'[l] = r BY <1>0, <2>2
  <2>5. stage'[Kind(l)].rows = stage[Kind(l)].rows \cup {[lease |-> run[l].lease, n |-> run[l].n + 1]}
    BY <1>4, <2>1 DEF ReadBatch, TypeOK, StagingTable
  <2>6. stage[Kind(l)].rows = FirstBatches(run[l].lease, run[l].n)
    BY <1>0, <1>4 DEF ReadBatch, OwnRead
  <2>. DEFINE rows == FirstBatches(run[l].lease, run[l].n + 1)
  <2>7. stage'[Kind(l)].rows = rows BY <2>1, <2>5, <2>6, ReadGrows
  <2>. HIDE DEF rows
  <2>8. Kind(l)' = Kind(l) BY <2>3, <2>4 DEF Kind
  <2>9. run'[l].pc = "read" /\ FirstBatches(run'[l].lease, run'[l].n) = rows
    BY <2>3, <2>4 DEF rows
  <2>10. OwnRead(l)' BY <2>7, <2>8, <2>9 DEF OwnRead
  <2>. QED BY <2>1, <2>2, <2>10, OthersKeepTheirRead
<1>5. ASSUME NEW l \in Loops, ReadEnd(l) PROVE ReadInv'
  <2>. DEFINE r == [run[l] EXCEPT !.pc = "merge"]
  <2>1. run' = [run EXCEPT ![l] = r] /\ stage' = stage /\ version' = version BY <1>5 DEF ReadEnd
  <2>2. r.pc = "merge" /\ r.job = run[l].job /\ r.lease = run[l].lease BY <1>0 DEF Run
  <2>. HIDE DEF r
  <2>3. run'[l] = r BY <1>0, <2>1
  <2>4. stage[Kind(l)].rows = FirstBatches(run[l].lease, Batches)
    BY <1>0, <1>5 DEF ReadEnd, OwnRead
  <2>5. OwnRead(l)' BY <2>1, <2>2, <2>3, <2>4 DEF OwnRead, Kind
  <2>. QED BY <2>1, <2>5, OthersKeepTheirRead
<1>6. ASSUME NEW l \in Loops, BuildMerged(l) PROVE ReadInv'
  <2>. DEFINE r == [run[l] EXCEPT !.pc = "swap", !.base = version, !.content = stage[Kind(l)].rows]
  <2>1. run' = [run EXCEPT ![l] = r] /\ stage' = stage /\ version' = version
    BY <1>6 DEF BuildMerged
  <2>2. r.pc = "swap" /\ r.lease = run[l].lease /\ r.base = version /\ r.content = stage[Kind(l)].rows
    BY <1>0 DEF Run
  <2>. HIDE DEF r
  <2>3. run'[l] = r BY <1>0, <2>1
  <2>4. stage[Kind(l)].rows = FirstBatches(run[l].lease, Batches)
    BY <1>0, <1>6 DEF BuildMerged, OwnRead
  <2>5. OwnRead(l)' BY <2>1, <2>2, <2>3, <2>4 DEF OwnRead
  <2>. QED BY <2>1, <2>5, OthersKeepTheirRead
<1>7. ASSUME NEW l \in Loops, LeaseLost(l) \/ Swap(l) \/ Finish(l) \/ ThrowEarly(l) \/ Throw(l)
      PROVE ReadInv'
  <2>1. PICK pc \in {"finish", "complete", "fail"}, e \in {"none", "busy", "lost", "other"} :
          run' = [run EXCEPT ![l] = [run[l] EXCEPT !.pc = pc, !.error = e]]
    <3>1. CASE Swap(l)
      <4>1. run' = [run EXCEPT ![l] = [run[l] EXCEPT !.pc = "finish", !.error = run[l].error]]
        BY <1>0, <3>1 DEF Swap, Run
      <4>. QED BY <1>0, <4>1 DEF Run
    <3>2. CASE Finish(l)
      <4>1. run' = [run EXCEPT ![l] = [run[l] EXCEPT !.pc = "complete", !.error = run[l].error]]
        BY <1>0, <3>2 DEF Finish, Run
      <4>. QED BY <1>0, <4>1 DEF Run
    <3>3. CASE LeaseLost(l) \/ ThrowEarly(l) \/ Throw(l)
      BY ZenonT(60), <3>3 DEF LeaseLost, ThrowEarly, Throw
    <3>. QED BY <1>7, <3>1, <3>2, <3>3
  <2>. DEFINE r == [run[l] EXCEPT !.pc = pc, !.error = e]
  <2>2. run' = [run EXCEPT ![l] = r] BY <2>1
  <2>3. r.pc = pc BY <1>0 DEF Run
  <2>. HIDE DEF r
  <2>4. run'[l] = r BY <1>0, <2>2
  <2>5. OwnRead(l)' BY <2>3, <2>4, NothingReadYet
  <2>6. (stage' = stage /\ version' = version) \/ Holding(l)
    BY <1>7 DEF LeaseLost, Swap, Finish, ThrowEarly, Throw, Holding
  <2>. QED BY <2>2, <2>5, <2>6, OthersKeepTheirRead
<1>8. ASSUME NEW l \in Loops, Heartbeat(l) \/ HeartbeatFails(l) PROVE ReadInv'
  <2>1. stage' = stage /\ version' = version BY <1>8 DEF Heartbeat, HeartbeatFails
  <2>2. CASE run' = run BY <1>0, <2>1, <2>2, OwnReadKept DEF ReadInv
  <2>3. CASE run' = [run EXCEPT ![l].lost = TRUE]
    <3>. DEFINE r == [run[l] EXCEPT !.lost = TRUE]
    <3>1. run' = [run EXCEPT ![l] = r] BY <2>3
    <3>2. /\ r.pc = run[l].pc /\ r.n = run[l].n /\ r.job = run[l].job /\ r.lease = run[l].lease
          /\ r.base = run[l].base /\ r.content = run[l].content
      BY <1>0 DEF Run
    <3>. HIDE DEF r
    <3>3. run'[l] = r BY <1>0, <3>1
    <3>4. OwnRead(l)' BY <1>0, <2>1, <3>2, <3>3 DEF OwnRead, Kind
    <3>. QED BY <2>1, <3>1, <3>4, OthersKeepTheirRead
  <2>. QED BY <1>8, <2>2, <2>3 DEF Heartbeat, HeartbeatFails
<1>9. ASSUME NEW l \in Loops, CompleteJob(l) \/ FailJob(l) \/ Crash(l) \/ Shutdown(l)
      PROVE  ReadInv'
  <2>1. run' = [run EXCEPT ![l] = NoRun] /\ stage' = stage /\ version' = version
    BY <1>9 DEF CompleteJob, FailJob, Crash, Shutdown
  <2>2. NoRun.pc = "idle" BY DEF NoRun
  <2>3. run'[l] = NoRun BY <1>0, <2>1
  <2>4. OwnRead(l)' BY <2>2, <2>3, NothingReadYet
  <2>. QED BY <2>1, <2>4, OthersKeepTheirRead
<1>10. ASSUME NEW l \in Loops, Stall(l) \/ Resume(l) PROVE ReadInv'
  <2>1. run' = run /\ stage' = stage /\ version' = version BY <1>10 DEF Stall, Resume
  <2>. QED BY <1>0, <2>1, OwnReadKept DEF ReadInv
<1>. QED BY <1>1, <1>2, <1>3, <1>4, <1>5, <1>6, <1>7, <1>8, <1>9, <1>10 DEF RunNext

LEMMA ReadInvStep == ASSUME TypeOK, IInv, ReadInv, [Next]_vars PROVE ReadInv'
<1>. SUFFICES ASSUME Undisturbed' PROVE ReadInv' BY DEF ReadInv
<1>1. CASE RunNext
  <2>1. Undisturbed BY <1>1, UndisturbedBefore DEF Next
  <2>. QED BY <1>1, <2>1, ReadStep
<1>2. CASE UNCHANGED <<run, stage, version>>
  <2>1. Undisturbed BY UndisturbedBefore DEF vars, Undisturbed
  <2>. QED BY <1>2, <2>1, OwnReadKept DEF ReadInv
<1>3. Next => RunNext \/ UNCHANGED <<run, stage, version>>
  BY
  DEF Next, FindQueued, FindNone, MarkQueued, InsertJob, CancelSource, LeaseAges, RecoverJob,
      RecoverSource
<1>. QED BY <1>1, <1>2, <1>3 DEF vars

\* The table that takes the place of the target is the complete read of the run
\* that publishes it, merged with the very version it replaces, as long as no
\* statement has overwritten a lease and no process lost touch with the database.
THEOREM RunsPublishTheirRead == Spec => PublishesOwnRead
<1>1. Init => ReadInv BY DEF Init, ReadInv, OwnRead, NoRun
<1>2. TypeOK /\ IInv /\ ReadInv /\ [Next]_vars => ReadInv' BY ReadInvStep
<1>3. ReadInv /\ [Next]_vars =>
        [\A l \in Loops : run[l].pc = "swap" /\ run'[l].pc = "finish" /\ Undisturbed =>
           run[l].base = version /\ run[l].content = WholeRead(l)]_vars
  BY DEF ReadInv, OwnRead, WholeRead, FirstBatches
<1>. QED BY <1>1, <1>2, <1>3, TypeCorrect, InvCorrect, PTL DEF Spec, PublishesOwnRead

------------------------------------------------------------------------------
(* One active job per kind                                                  *)

\* What is not the insert of a new row makes no job active.
LEMMA NoneActivated ==
  ASSUME TypeOK, [Next]_vars,
         ~\E w \in Producers, j \in Jobs : InsertJob(w, j)
  PROVE  \A j \in Jobs : Active(j)' => Active(j)
<1>1. job \in [Jobs -> JobRow] BY DEF TypeOK
<1>2. ASSUME NEW i \in Jobs, NEW status, job[i].status = "RUNNING", job' = Settle(i, status)
      PROVE  \A j \in Jobs : Active(j)' => Active(j)
  BY <1>1, <1>2 DEF Settle, Active
<1>3. CASE job' = job BY <1>3 DEF Active
<1>4. CASE CancelSource BY <1>4 DEF CancelSource, Active
<1>5. ASSUME NEW j \in Jobs, RecoverJob(j) PROVE \A i \in Jobs : Active(i)' => Active(i)
  BY <1>2, <1>5 DEF RecoverJob
<1>6. ASSUME NEW l \in Loops, NEW j \in Jobs, StartRun(l, j)
      PROVE  \A i \in Jobs : Active(i)' => Active(i)
  BY <1>1, <1>6 DEF StartRun, Active
<1>7. ASSUME NEW l \in Loops, CompleteJob(l) \/ FailJob(l)
      PROVE  \A i \in Jobs : Active(i)' => Active(i)
  <2>1. run[l].job \in Jobs BY <1>7, RunFacts DEF CompleteJob, FailJob
  <2>2. \/ job' = job
        \/ job[run[l].job].status = "RUNNING" /\ \E status : job' = Settle(run[l].job, status)
    BY <1>7 DEF CompleteJob, FailJob
  <2>. QED BY <1>2, <1>3, <2>1, <2>2
<1>8. ASSUME NEW l \in Loops, Shutdown(l) PROVE \A i \in Jobs : Active(i)' => Active(i)
  BY <1>1, <1>8 DEF Shutdown, Active
<1>. QED
  BY ZenonT(60), <1>3, <1>4, <1>5, <1>6, <1>7, <1>8
     DEF Next, RunNext, FindQueued, MarkQueued, FindNone, LeaseAges, RecoverSource, AcquireFree,
         AcquireStale,
         OpenStage, LeaseLost, ReadBatch, ReadEnd, BuildMerged, Swap, Finish, ThrowEarly, Throw,
         Heartbeat,
         HeartbeatFails, Crash, Stall, Resume, vars

LEMMA DedupStep == ASSUME TypeOK, DedupInv, [Next]_vars PROVE DedupInv'
<1>. USE SourceRefreshAssumption
<1>0. producer \in [Producers -> Kinds \cup {"mark", None}] /\ job \in [Jobs -> JobRow]
  BY DEF TypeOK
<1>1. ASSUME NEW w \in Producers, NEW j \in Jobs, InsertJob(w, j) PROVE DedupInv'
  <2>1. \A i \in Jobs : Active(i)' => i = j \/ Active(i) BY <1>0, <1>1 DEF InsertJob, Active
  <2>2. \A v \in Producers : producer'[v] = None BY <1>0, <1>1 DEF InsertJob, DedupInv
  <2>3. \A i \in Jobs : KindOf[i] # None OBVIOUS
  <2>4. \A i \in Jobs : Active(i) => KindOf[i] # KindOf[j]
    BY <1>1 DEF InsertJob, DedupInv
  <2>. QED BY <2>1, <2>2, <2>3, <2>4 DEF DedupInv, OneActiveJobPerKind
<1>2. ASSUME NEW w \in Producers, NEW k \in Kinds, FindNone(w, k) PROVE DedupInv'
  <2>1. \A v \in Producers : producer'[v] = IF v = w THEN k ELSE None
    BY <1>0, <1>2 DEF FindNone, LockFree
  <2>2. \A i \in Jobs : KindOf[i] # None OBVIOUS
  <2>3. job' = job BY <1>2 DEF FindNone
  <2>. QED BY <1>2, <2>1, <2>2, <2>3 DEF FindNone, DedupInv, OneActiveJobPerKind, Active
<1>3. ASSUME NEW w \in Producers, MarkQueued(w) \/ \E k \in Kinds : FindQueued(w, k)
      PROVE  DedupInv'
  <2>1. job' = job BY <1>3 DEF MarkQueued, FindQueued
  <2>2. PICK p \in {"mark", None} : producer' = [producer EXCEPT ![w] = p]
    BY <1>3 DEF MarkQueued, FindQueued
  <2>3. \A v \in Producers : producer'[v] = IF v = w THEN p ELSE producer[v] BY <1>0, <2>2
  <2>4. p # None => \A v \in Producers : producer[v] = None
    BY <1>3, <1>0, <2>2 DEF MarkQueued, FindQueued, LockFree
  <2>5. \A i \in Jobs : KindOf[i] # None /\ KindOf[i] # "mark" OBVIOUS
  <2>6. \A v, u \in Producers : producer'[v] # None /\ producer'[u] # None => v = u
    BY <2>3, <2>4 DEF DedupInv
  <2>7. \A v \in Producers : \A j \in Jobs : producer'[v] = KindOf[j] => ~Active(j)
    BY <2>3, <2>5 DEF DedupInv
  <2>. QED BY <2>1, <2>6, <2>7 DEF DedupInv, OneActiveJobPerKind, Active
<1>4. CASE /\ ~\E w \in Producers, j \in Jobs : InsertJob(w, j)
           /\ ~\E w \in Producers, k \in Kinds : FindNone(w, k)
           /\ ~\E w \in Producers : MarkQueued(w) \/ \E k \in Kinds : FindQueued(w, k)
  <2>1. producer' = producer
    BY ZenonT(60), <1>4
    DEF Next, RunNext, FindQueued, MarkQueued, CancelSource, RecoverJob, StartRun, CompleteJob,
        FailJob,
         Shutdown, LeaseAges, RecoverSource, AcquireFree, AcquireStale, OpenStage, LeaseLost,
         ReadBatch, ReadEnd, BuildMerged, Swap, Finish, ThrowEarly, Throw, Heartbeat,
         HeartbeatFails, Crash,
         Stall, Resume, vars
  <2>2. \A j \in Jobs : Active(j)' => Active(j) BY <1>4, NoneActivated
  <2>. QED BY <2>1, <2>2 DEF DedupInv, OneActiveJobPerKind
<1>. QED BY <1>1, <1>2, <1>3, <1>4

\* However many callers ask at once, and whatever the workers do meanwhile, a
\* kind has one active job.
THEOREM OneJobPerKind == Spec => []OneActiveJobPerKind
<1>1. Init => DedupInv
  BY SourceRefreshAssumption DEF Init, DedupInv, OneActiveJobPerKind, Active
<1>2. TypeOK /\ DedupInv /\ [Next]_vars => DedupInv' BY DedupStep
<1>3. DedupInv => OneActiveJobPerKind BY DEF DedupInv
<1>. QED BY <1>1, <1>2, <1>3, TypeCorrect, PTL DEF Spec

------------------------------------------------------------------------------
(* Derived tables: the other refresh, with its own variables (DerivedRefresh), for
   any executors, results, requests, edits and faults. *)

DerivedPcs == {"idle", "read", "start", "query", "swap", "describe", "clear",
               "columns", "finish", "complete", "catch", "fail"}

ExecutorState ==
  [pc : DerivedPcs, job : Nat, attempt : Nat, prev : Nat, cron : BOOLEAN, n : Nat, ver : Nat,
   again : BOOLEAN]

DerivedTypes ==
  /\ dt \in [exists : BOOLEAN, cron : BOOLEAN, next : {"none", "set"},
             status : {"new", "queued", "running", "ok", "failed"}, rows : Nat]
  /\ derivedJob \in [id : Nat, status : {"none", "queued", "running"}, attempts : Nat,
                     by : Executors \cup {"nobody"}]
  /\ exec \in [Executors -> ExecutorState]
  /\ table \in [ver : Nat, rows : Nat] /\ catalog \in [rows : Nat, columns : Nat]
  /\ table.ver = 0 => table.rows = Adopted

\* What an executor has done to the table and to its description still stands,
\* and the status does not yet say that it has.
Stands(e) ==
  /\ exec[e].pc \in {"query", "swap", "describe", "clear", "columns", "finish", "catch"} =>
       ~dt.exists \/ dt.status # "ok"
  /\ Halfway(e) => exec[e].ver = table.ver /\ exec[e].n = table.rows
  /\ exec[e].pc \in {"clear", "columns", "finish"} => catalog.rows = exec[e].n
  /\ exec[e].pc = "columns" => catalog.columns = 0
  /\ exec[e].pc = "finish" => catalog.columns = exec[e].ver

\* As long as no executor goes on after it lost its job.
OkInv ==
  "overlapped" \notin past =>
    /\ \A e, f \in Refreshing : e = f
    /\ \A e \in Executors : Stands(e)
    /\ dt.exists /\ dt.status = "ok" =>
         catalog.rows = table.rows /\ catalog.columns = table.ver /\ dt.rows = table.rows

\* The count that the guard relies on is that of the table, and an empty result
\* that has passed the guard replaces an empty table.
Counted(e) ==
  /\ exec[e].pc \in {"start", "query"} => exec[e].prev = table.rows \/ table.ver = 0
  /\ exec[e].pc = "swap" /\ exec[e].n = 0 => table.rows = 0 \/ table.ver = 0

CountInv ==
  {"overlapped", "halfway"} \cap past = {} =>
    /\ \A e \in Executors : Counted(e)
    /\ dt.exists /\ (\A e \in Executors : ~Halfway(e)) => dt.rows = table.rows \/ table.ver = 0

\* An executor still has the cron of the row, and with a cron a refresh is due.
ScheduleInv ==
  "edited" \notin past =>
    /\ \A e \in Executors :
         exec[e].pc \in {"start", "query", "swap", "describe", "clear", "columns", "finish"} =>
           exec[e].cron = dt.cron
    /\ dt.cron => dt.next = "set"

DerivedInv == DerivedTypes /\ OkInv /\ CountInv /\ ScheduleInv

\* What one executor does to its own state.
LEMMA ExecutorMoves ==
  ASSUME DerivedTypes, NEW e \in Executors, NEW v \in ExecutorState, exec' = [exec EXCEPT ![e] = v]
  PROVE  /\ exec' \in [Executors -> ExecutorState] /\ exec'[e] = v
         /\ \A f \in Executors \ {e} : exec'[f] = exec[f]
BY DEF DerivedTypes

LEMMA ExecutorType == ASSUME DerivedTypes, NEW e \in Executors PROVE exec[e] \in ExecutorState
BY DEF DerivedTypes

LEMMA GivesUp ==
  ASSUME DerivedTypes, NEW e \in Executors, NEW pc \in DerivedPcs, giveUp(e, pc)
  PROVE  /\ exec' \in [Executors -> ExecutorState] /\ exec'[e].pc = pc
         /\ exec'[e].job = exec[e].job /\ exec'[e].attempt = exec[e].attempt
         /\ exec'[e].ver = 0
         /\ \A f \in Executors \ {e} : exec'[f] = exec[f]
<1>. DEFINE v == [exec[e] EXCEPT !.pc = pc, !.prev = 0, !.cron = FALSE, !.n = 0, !.ver = 0]
<1>0. exec[e] \in ExecutorState BY ExecutorType
<1>1. /\ v \in ExecutorState /\ v.pc = pc /\ v.job = exec[e].job
      /\ v.attempt = exec[e].attempt /\ v.ver = 0
  BY <1>0 DEF ExecutorState
<1>2. exec' = [exec EXCEPT ![e] = v] BY DEF giveUp
<1>. HIDE DEF v
<1>. QED BY <1>1, <1>2, ExecutorMoves

LEMMA GoesTo ==
  ASSUME DerivedTypes, NEW e \in Executors, NEW pc \in DerivedPcs, goto(e, pc)
  PROVE  /\ exec' \in [Executors -> ExecutorState] /\ exec'[e].pc = pc
         /\ exec'[e].prev = exec[e].prev /\ exec'[e].cron = exec[e].cron
         /\ exec'[e].n = exec[e].n /\ exec'[e].ver = exec[e].ver
         /\ exec'[e].job = exec[e].job /\ exec'[e].attempt = exec[e].attempt
         /\ \A f \in Executors \ {e} : exec'[f] = exec[f]
<1>. DEFINE v == [exec[e] EXCEPT !.pc = pc]
<1>1. /\ v \in ExecutorState /\ v.pc = pc /\ v.prev = exec[e].prev /\ v.cron = exec[e].cron
      /\ v.n = exec[e].n /\ v.ver = exec[e].ver
      /\ v.job = exec[e].job /\ v.attempt = exec[e].attempt
  BY DEF DerivedTypes, ExecutorState
<1>2. exec' = [exec EXCEPT ![e] = v] BY DEF goto
<1>. HIDE DEF v
<1>. QED BY <1>1, <1>2, ExecutorMoves

LEMMA BecomesIdle ==
  ASSUME DerivedTypes, NEW e \in Executors, exec' = [exec EXCEPT ![e] = Idle]
  PROVE  /\ exec' \in [Executors -> ExecutorState] /\ exec'[e].pc = "idle"
         /\ \A f \in Executors \ {e} : exec'[f] = exec[f]
<1>1. Idle \in ExecutorState /\ Idle.pc = "idle" BY DEF Idle, ExecutorState, DerivedPcs
<1>. HIDE DEF Idle
<1>. QED BY <1>1, ExecutorMoves

\* What is known of the others while e is at work: unless two have overlapped, they are idle.
LEMMA OthersAreIdle ==
  ASSUME DerivedInv, NEW e \in Executors, exec[e].pc # "idle", "overlapped" \notin past
  PROVE  \A f \in Executors \ {e} : exec[f].pc = "idle"
BY DEF DerivedInv, OkInv, Refreshing

\* An empty result passes the guard only if the row counts none.
LEMMA EmptyIsBlocked ==
  ASSUME NEW e \in Executors, exec[e].prev \in Nat, Verdict(e, 0) # "FAILED"
  PROVE  exec[e].prev = 0
BY DEF Verdict, evaluateLoad, Reasons, Blocking, ReasonCode, Defaults, Emptied

\* Nobody at work writes the row of the derived table.
LEMMA RequestsKeep ==
  ASSUME DerivedInv, (\E byCron \in BOOLEAN : Queue(byCron)) \/ Edit \/ Delete
  PROVE  DerivedInv'
<1>. USE DEF DerivedInv
<1>1. ASSUME NEW byCron \in BOOLEAN, Queue(byCron) PROVE DerivedInv'
  <2>1. DerivedTypes' BY <1>1 DEF Queue, DerivedTypes
  <2>2. /\ dt'.exists = dt.exists /\ dt'.cron = dt.cron /\ dt'.next = dt.next /\ dt'.rows = dt.rows
        /\ dt'.status = dt.status \/ dt'.status # "ok"
    BY <1>1 DEF Queue, DerivedTypes
  <2>. QED BY <1>1, <2>1, <2>2
         DEF Queue, OkInv, CountInv, ScheduleInv, Stands, Counted, Halfway, Refreshing
<1>2. CASE Edit
  <2>1. DerivedTypes' BY <1>2 DEF Edit, DerivedTypes, Rescheduled
  <2>2. /\ dt'.exists = dt.exists /\ dt'.status = dt.status /\ dt'.rows = dt.rows
        /\ dt'.cron => dt'.next = "set"
    BY <1>2 DEF Edit, DerivedTypes, Rescheduled
  <2>3. OkInv' /\ CountInv'
    BY <1>2, <2>2 DEF Edit, OkInv, CountInv, Stands, Counted, Halfway, Refreshing
  <2>4. ScheduleInv' BY <1>2, <2>2 DEF Edit, ScheduleInv, Refreshing
  <2>. QED BY <2>1, <2>3, <2>4
<1>3. CASE Delete
  <2>1. DerivedTypes' BY <1>3 DEF Delete, DerivedTypes
  <2>2. /\ ~dt'.exists /\ dt'.status = dt.status /\ dt'.rows = dt.rows
        /\ dt'.cron = dt.cron /\ dt'.next = dt.next
    BY <1>3 DEF Delete, DerivedTypes
  <2>. QED BY <1>3, <2>1, <2>2
         DEF Delete, OkInv, CountInv, ScheduleInv, Stands, Counted, Halfway, Refreshing
<1>. QED BY <1>1, <1>2, <1>3

LEMMA ClaimKeeps == ASSUME DerivedInv, NEW e \in Executors, Claim(e) PROVE DerivedInv'
<1>. USE DEF DerivedInv
<1>. DEFINE v == [Idle EXCEPT !.pc = "read", !.job = derivedJob.id,
                              !.attempt = derivedJob.attempts + 1]
<1>0. derivedJob.id \in Nat /\ derivedJob.attempts + 1 \in Nat BY DEF DerivedTypes
<1>1. v \in ExecutorState /\ v.pc = "read" BY <1>0 DEF Idle, ExecutorState, DerivedPcs
<1>2. exec' = [exec EXCEPT ![e] = v] BY DEF Claim
<1>. HIDE DEF v
<1>3. /\ exec' \in [Executors -> ExecutorState] /\ exec'[e].pc = "read"
      /\ \A f \in Executors \ {e} : exec'[f] = exec[f]
  BY <1>1, <1>2, ExecutorMoves
<1>. DEFINE claimed == [derivedJob EXCEPT !.status = "running", !.attempts = @ + 1, !.by = e]
<1>7. claimed \in [id : Nat, status : {"none", "queued", "running"}, attempts : Nat,
                   by : Executors \cup {"nobody"}]
  BY <1>0 DEF DerivedTypes
<1>8. derivedJob' = claimed /\ UNCHANGED <<dt, table, catalog>> BY DEF Claim
<1>. HIDE DEF claimed
<1>4. DerivedTypes' BY <1>3, <1>7, <1>8 DEF DerivedTypes
<1>5. OkInv' BY <1>3 DEF Claim, OkInv, Stands, Halfway, Refreshing
<1>6. CountInv' /\ ScheduleInv' BY <1>3 DEF Claim, CountInv, ScheduleInv, Counted, Halfway
<1>. QED BY <1>4, <1>5, <1>6

LEMMA ReadKeeps ==
  ASSUME DerivedInv, NEW e \in Executors, ReadRow(e) \/ SetRunning(e) \/ Query(e)
  PROVE  DerivedInv'
<1>. USE DEF DerivedInv
<1>1. CASE ReadRow(e)
  <2>1. CASE dt.exists
    <3>. DEFINE v == [exec[e] EXCEPT !.pc = "start", !.prev = dt.rows, !.cron = dt.cron]
    <3>0. exec[e] \in ExecutorState /\ dt.rows \in Nat /\ dt.cron \in BOOLEAN
      BY ExecutorType DEF DerivedTypes
    <3>1. v \in ExecutorState /\ v.pc = "start" /\ v.prev = dt.rows /\ v.cron = dt.cron
      BY <3>0 DEF ExecutorState, DerivedPcs
    <3>2. exec' = [exec EXCEPT ![e] = v] BY <1>1, <2>1 DEF ReadRow
    <3>. HIDE DEF v
    <3>3. /\ exec' \in [Executors -> ExecutorState] /\ exec'[e] = v
          /\ \A f \in Executors \ {e} : exec'[f] = exec[f]
      BY <3>1, <3>2, ExecutorMoves
    <3>4. DerivedTypes' BY <1>1, <3>3 DEF ReadRow, DerivedTypes
    <3>5. OkInv' BY <1>1, <3>1, <3>3 DEF ReadRow, OkInv, Stands, Halfway, Refreshing
    <3>6. ASSUME {"overlapped", "halfway"} \cap past = {}
          PROVE  dt.rows = table.rows \/ table.ver = 0
      BY <1>1, <2>1, <3>6, OthersAreIdle DEF ReadRow, CountInv, Halfway
    <3>7. CountInv' BY <1>1, <3>1, <3>3, <3>6 DEF ReadRow, CountInv, Counted, Halfway
    <3>8. ScheduleInv' BY <1>1, <3>1, <3>3 DEF ReadRow, ScheduleInv
    <3>. QED BY <3>4, <3>5, <3>7, <3>8
  <2>2. CASE ~dt.exists
    <3>1. /\ exec' \in [Executors -> ExecutorState] /\ exec'[e].pc = "fail"
          /\ \A f \in Executors \ {e} : exec'[f] = exec[f]
      BY <1>1, <2>2, GivesUp DEF ReadRow, DerivedPcs
    <3>. QED
      BY <1>1, <3>1
      DEF ReadRow, DerivedTypes, OkInv, CountInv, ScheduleInv, Stands, Counted, Halfway,
          Refreshing
  <2>. QED BY <2>1, <2>2
<1>2. CASE SetRunning(e)
  <2>1. CASE dt.exists
    <3>1. /\ exec' \in [Executors -> ExecutorState] /\ exec'[e].pc = "query"
          /\ exec'[e].prev = exec[e].prev /\ exec'[e].cron = exec[e].cron
          /\ \A f \in Executors \ {e} : exec'[f] = exec[f]
      BY <1>2, <2>1, GoesTo DEF SetRunning, DerivedPcs
    <3>2. /\ dt'.exists = dt.exists /\ dt'.status = "running" /\ dt'.rows = dt.rows
          /\ dt'.cron = dt.cron /\ dt'.next = dt.next
      BY <1>2, <2>1 DEF SetRunning, DerivedTypes
    <3>3. DerivedTypes' BY <1>2, <2>1, <3>1 DEF SetRunning, DerivedTypes
    <3>4. OkInv' BY <1>2, <3>1, <3>2 DEF SetRunning, OkInv, Stands, Halfway, Refreshing
    <3>5. CountInv' /\ ScheduleInv'
      BY <1>2, <3>1, <3>2 DEF SetRunning, CountInv, ScheduleInv, Counted, Halfway
    <3>. QED BY <3>3, <3>4, <3>5
  <2>2. CASE ~dt.exists
    <3>1. /\ exec' \in [Executors -> ExecutorState] /\ exec'[e].pc = "fail"
          /\ \A f \in Executors \ {e} : exec'[f] = exec[f]
      BY <1>2, <2>2, GivesUp DEF SetRunning, DerivedPcs
    <3>. QED BY <1>2, <2>2, <3>1
           DEF SetRunning, DerivedTypes, OkInv, CountInv, ScheduleInv, Stands, Counted,
               Halfway, Refreshing
  <2>. QED BY <2>1, <2>2
<1>3. CASE Query(e)
  <2>1. PICK n \in Counts :
          exec' = [exec EXCEPT ![e] =
                     [@ EXCEPT !.pc = IF Verdict(e, n) = "FAILED" THEN "catch" ELSE "swap", !.prev = 0,
                               !.n = IF Verdict(e, n) = "FAILED" THEN 0 ELSE n,
                               !.again = ~(Verdict(e, n) = "FAILED")]]
    BY <1>3 DEF Query
  <2>2. n \in Nat BY DerivedAssumption
  <2>3. PICK pc \in {"catch", "swap"}, m \in Nat, b \in BOOLEAN :
          /\ exec' = [exec EXCEPT ![e] = [@ EXCEPT !.pc = pc, !.prev = 0, !.n = m, !.again = b]]
          /\ pc = "swap" => m = n /\ Verdict(e, n) # "FAILED"
    BY <2>1, <2>2
  <2>. DEFINE v == [exec[e] EXCEPT !.pc = pc, !.prev = 0, !.n = m, !.again = b]
  <2>0. exec[e] \in ExecutorState BY ExecutorType
  <2>4. v \in ExecutorState /\ v.pc = pc /\ v.n = m /\ v.cron = exec[e].cron
    BY <2>0 DEF ExecutorState, DerivedPcs
  <2>5. exec' = [exec EXCEPT ![e] = v] BY <2>3
  <2>. HIDE DEF v
  <2>6. /\ exec' \in [Executors -> ExecutorState] /\ exec'[e] = v
        /\ \A f \in Executors \ {e} : exec'[f] = exec[f]
    BY <2>4, <2>5, ExecutorMoves
  <2>7. pc = "swap" /\ m = 0 => exec[e].prev = 0
    BY <2>3, EmptyIsBlocked DEF DerivedTypes, ExecutorState
  <2>8. DerivedTypes' BY <1>3, <2>6 DEF Query, DerivedTypes
  <2>9. OkInv'
    <3>1. exec[e].pc = "query" /\ UNCHANGED <<dt, table, catalog, past>> BY <1>3 DEF Query
    <3>2. exec'[e].pc \in {"catch", "swap"} BY <2>4, <2>6
    <3>. QED BY <2>6, <3>1, <3>2 DEF OkInv, Stands, Halfway, Refreshing
  <2>10. CountInv' BY <1>3, <2>4, <2>6, <2>7 DEF Query, CountInv, Counted, Halfway
  <2>11. ScheduleInv' BY <1>3, <2>4, <2>6 DEF Query, ScheduleInv
  <2>. QED BY <2>8, <2>9, <2>10, <2>11
<1>. QED BY <1>1, <1>2, <1>3

LEMMA SwapKeeps ==
  ASSUME DerivedInv, NEW e \in Executors, SwapDerived(e) PROVE DerivedInv'
<1>. USE DEF DerivedInv
<1>. DEFINE v == [exec[e] EXCEPT !.pc = "describe", !.ver = table.ver + 1]
<1>1. /\ v \in ExecutorState /\ v.pc = "describe" /\ v.n = exec[e].n /\ v.cron = exec[e].cron
      /\ v.ver = table.ver + 1
  <2>1. exec[e] \in ExecutorState /\ table.ver + 1 \in Nat BY ExecutorType DEF DerivedTypes
  <2>. QED BY <2>1 DEF ExecutorState, DerivedPcs
<1>2. exec' = [exec EXCEPT ![e] = v] BY DEF SwapDerived
<1>. HIDE DEF v
<1>3. /\ exec' \in [Executors -> ExecutorState] /\ exec'[e] = v
      /\ \A f \in Executors \ {e} : exec'[f] = exec[f]
  BY <1>1, <1>2, ExecutorMoves
<1>4. table' \in [ver : Nat, rows : Nat] /\ table'.ver = table.ver + 1 /\ table'.ver # 0 /\ table'.rows = exec[e].n
  BY DEF SwapDerived, DerivedTypes, ExecutorState
<1>5. DerivedTypes' BY <1>3, <1>4 DEF SwapDerived, DerivedTypes
<1>6. "overlapped" \notin past => \A f \in Executors \ {e} : exec[f].pc = "idle"
  BY OthersAreIdle DEF SwapDerived
<1>7. OkInv' BY <1>1, <1>3, <1>4, <1>6 DEF SwapDerived, OkInv, Stands, Halfway, Refreshing
<1>8. CountInv' BY <1>1, <1>3, <1>4, <1>6 DEF SwapDerived, CountInv, Counted, Halfway
<1>9. ScheduleInv' BY <1>1, <1>3 DEF SwapDerived, ScheduleInv
<1>. QED BY <1>5, <1>7, <1>8, <1>9

LEMMA DescribeKeeps ==
  ASSUME DerivedInv, NEW e \in Executors, Describe(e) \/ ClearColumns(e) \/ CreateColumns(e)
  PROVE  DerivedInv'
<1>. USE DEF DerivedInv
<1>0. "overlapped" \notin past => \A f \in Executors \ {e} : exec[f].pc = "idle"
  BY OthersAreIdle DEF Describe, ClearColumns, CreateColumns
<1>1. CASE Describe(e)
  <2>1. /\ exec' \in [Executors -> ExecutorState] /\ exec'[e].pc = "clear"
        /\ exec'[e].cron = exec[e].cron /\ exec'[e].n = exec[e].n /\ exec'[e].ver = exec[e].ver
        /\ \A f \in Executors \ {e} : exec'[f] = exec[f]
    BY <1>1, GoesTo DEF Describe, DerivedPcs
  <2>2. /\ catalog' \in [rows : Nat, columns : Nat] /\ catalog'.rows = exec[e].n
        /\ catalog'.columns = catalog.columns
    BY <1>1 DEF Describe, DerivedTypes, ExecutorState
  <2>3. DerivedTypes' BY <1>1, <2>1, <2>2 DEF Describe, DerivedTypes
  <2>4. OkInv' BY <1>0, <1>1, <2>1, <2>2 DEF Describe, OkInv, Stands, Halfway, Refreshing
  <2>5. CountInv' /\ ScheduleInv'
    BY <1>1, <2>1 DEF Describe, CountInv, ScheduleInv, Counted, Halfway
  <2>. QED BY <2>3, <2>4, <2>5
<1>2. CASE ClearColumns(e)
  <2>1. /\ exec' \in [Executors -> ExecutorState] /\ exec'[e].pc = "columns"
        /\ exec'[e].cron = exec[e].cron /\ exec'[e].n = exec[e].n /\ exec'[e].ver = exec[e].ver
        /\ \A f \in Executors \ {e} : exec'[f] = exec[f]
    BY <1>2, GoesTo DEF ClearColumns, DerivedPcs
  <2>2. /\ catalog' \in [rows : Nat, columns : Nat] /\ catalog'.rows = catalog.rows
        /\ catalog'.columns = 0
    BY <1>2 DEF ClearColumns, DerivedTypes
  <2>3. DerivedTypes' BY <1>2, <2>1, <2>2 DEF ClearColumns, DerivedTypes
  <2>4. OkInv' BY <1>0, <1>2, <2>1, <2>2 DEF ClearColumns, OkInv, Stands, Halfway, Refreshing
  <2>5. CountInv' /\ ScheduleInv'
    BY <1>2, <2>1 DEF ClearColumns, CountInv, ScheduleInv, Counted, Halfway
  <2>. QED BY <2>3, <2>4, <2>5
<1>3. CASE CreateColumns(e) /\ catalog.columns = 0
  <2>1. /\ exec' \in [Executors -> ExecutorState] /\ exec'[e].pc = "finish"
        /\ exec'[e].cron = exec[e].cron /\ exec'[e].n = exec[e].n /\ exec'[e].ver = exec[e].ver
        /\ \A f \in Executors \ {e} : exec'[f] = exec[f]
    BY <1>3, GoesTo DEF CreateColumns, DerivedPcs
  <2>2. /\ catalog' \in [rows : Nat, columns : Nat] /\ catalog'.rows = catalog.rows
        /\ catalog'.columns = exec[e].ver
    BY <1>3 DEF CreateColumns, DerivedTypes, ExecutorState
  <2>3. DerivedTypes' BY <1>3, <2>1, <2>2 DEF CreateColumns, DerivedTypes
  <2>4. OkInv' BY <1>0, <1>3, <2>1, <2>2 DEF CreateColumns, OkInv, Stands, Halfway, Refreshing
  <2>5. CountInv' /\ ScheduleInv'
    BY <1>3, <2>1 DEF CreateColumns, CountInv, ScheduleInv, Counted, Halfway
  <2>. QED BY <2>3, <2>4, <2>5
<1>4. CASE CreateColumns(e) /\ catalog.columns # 0
  <2>1. /\ exec' \in [Executors -> ExecutorState] /\ exec'[e].pc = "catch"
        /\ \A f \in Executors \ {e} : exec'[f] = exec[f]
    BY <1>4, GivesUp DEF CreateColumns, DerivedPcs
  <2>2. exec[e].pc = "columns" /\ UNCHANGED <<dt, derivedJob, table, catalog, past>>
    BY <1>4 DEF CreateColumns
  <2>3. "overlapped" \in past BY <1>4, <2>2 DEF OkInv, Stands
  <2>4. OkInv' /\ CountInv' BY <2>2, <2>3 DEF OkInv, CountInv
  <2>5. DerivedTypes' BY <2>1, <2>2 DEF DerivedTypes
  <2>6. ScheduleInv' BY <2>1, <2>2 DEF ScheduleInv
  <2>. QED BY <2>4, <2>5, <2>6
<1>. QED BY <1>1, <1>2, <1>3, <1>4

LEMMA FinishKeeps ==
  ASSUME DerivedInv, NEW e \in Executors, FinishRefresh(e) \/ Complete(e) \/ Catch(e) \/ Fail(e)
  PROVE  DerivedInv'
<1>. USE DEF DerivedInv
<1>0. "overlapped" \notin past => \A f \in Executors \ {e} : exec[f].pc = "idle"
  BY OthersAreIdle DEF FinishRefresh, Complete, Catch, Fail
<1>1. CASE FinishRefresh(e) /\ dt.exists
  <2>1. /\ exec' \in [Executors -> ExecutorState] /\ exec'[e].pc = "complete"
        /\ \A f \in Executors \ {e} : exec'[f] = exec[f]
    BY <1>1, GoesTo DEF FinishRefresh, DerivedPcs
  <2>. DEFINE next == IF exec[e].cron THEN "set" ELSE "none"
  <2>2. next \in {"none", "set"} /\ (exec[e].cron => next = "set") OBVIOUS
  <2>3. dt' = [dt EXCEPT !.status = "ok", !.rows = exec[e].n, !.next = next]
    BY <1>1 DEF FinishRefresh, Finished
  <2>. HIDE DEF next
  <2>4. /\ dt' \in [exists : BOOLEAN, cron : BOOLEAN, next : {"none", "set"},
                    status : {"new", "queued", "running", "ok", "failed"}, rows : Nat]
        /\ dt'.exists = dt.exists /\ dt'.cron = dt.cron /\ dt'.rows = exec[e].n /\ dt'.next = next
    BY <2>2, <2>3 DEF DerivedTypes, ExecutorState
  <2>5. DerivedTypes' BY <1>1, <2>1, <2>4 DEF FinishRefresh, DerivedTypes
  <2>6. OkInv' BY <1>0, <1>1, <2>1, <2>4 DEF FinishRefresh, OkInv, Stands, Halfway, Refreshing
  <2>7. CountInv'
    BY <1>0, <1>1, <2>1, <2>4 DEF FinishRefresh, CountInv, Counted, Halfway, OkInv, Stands
  <2>8. ScheduleInv' BY <1>1, <2>1, <2>2, <2>4 DEF FinishRefresh, ScheduleInv
  <2>. QED BY <2>5, <2>6, <2>7, <2>8
<1>2. CASE FinishRefresh(e) /\ ~dt.exists
  <2>1. /\ exec' \in [Executors -> ExecutorState] /\ exec'[e].pc = "catch"
        /\ \A f \in Executors \ {e} : exec'[f] = exec[f]
    BY <1>2, GivesUp DEF FinishRefresh, DerivedPcs
  <2>. QED BY <1>2, <2>1
         DEF FinishRefresh, DerivedTypes, OkInv, CountInv, ScheduleInv, Stands, Counted, Halfway,
             Refreshing
<1>3. CASE Complete(e)
  <2>1. /\ exec' \in [Executors -> ExecutorState] /\ exec'[e].pc = "idle"
        /\ \A f \in Executors \ {e} : exec'[f] = exec[f]
    BY <1>3, BecomesIdle DEF Complete
  <2>2. derivedJob' = derivedJob \/ derivedJob' = [derivedJob EXCEPT !.status = "none"]
    BY <1>3 DEF Complete
  <2>3. DerivedTypes' BY <1>3, <2>1, <2>2 DEF Complete, DerivedTypes
  <2>. QED BY <1>3, <2>1, <2>3
         DEF Complete, OkInv, CountInv, ScheduleInv, Stands, Counted, Halfway, Refreshing
<1>4. CASE Catch(e)
  <2>1. /\ exec' \in [Executors -> ExecutorState] /\ exec'[e].pc = "fail"
        /\ \A f \in Executors \ {e} : exec'[f] = exec[f]
    BY <1>4, GivesUp DEF Catch, DerivedPcs
  <2>2. dt' = dt \/ dt' = [dt EXCEPT !.status = "failed"] BY <1>4 DEF Catch
  <2>3. /\ dt' \in [exists : BOOLEAN, cron : BOOLEAN, next : {"none", "set"},
                    status : {"new", "queued", "running", "ok", "failed"}, rows : Nat]
        /\ dt'.exists = dt.exists /\ dt'.cron = dt.cron /\ dt'.rows = dt.rows /\ dt'.next = dt.next
        /\ dt'.status = dt.status \/ dt'.status # "ok"
    BY <2>2 DEF DerivedTypes
  <2>4. DerivedTypes' BY <1>4, <2>1, <2>3 DEF Catch, DerivedTypes
  <2>. QED BY <1>4, <2>1, <2>3, <2>4
         DEF Catch, OkInv, CountInv, ScheduleInv, Stands, Counted, Halfway, Refreshing
<1>5. CASE Fail(e)
  <2>1. /\ exec' \in [Executors -> ExecutorState] /\ exec'[e].pc = "idle"
        /\ \A f \in Executors \ {e} : exec'[f] = exec[f]
    BY <1>5, BecomesIdle DEF Fail
  <2>2. \/ derivedJob' = derivedJob
        \/ derivedJob' = [derivedJob EXCEPT !.status = "queued"]
        \/ derivedJob' = [derivedJob EXCEPT !.status = "none"]
    BY <1>5 DEF Fail, Again, Running
  <2>3. \/ dt' = dt
        \/ dt' = [dt EXCEPT !.status = "queued", !.next = dt.next]
        \/ dt' = [dt EXCEPT !.status = "failed", !.next = IF dt.cron THEN "set" ELSE "none"]
    BY <1>5 DEF Fail, Failed, Again
  <2>4. /\ dt' \in [exists : BOOLEAN, cron : BOOLEAN, next : {"none", "set"},
                    status : {"new", "queued", "running", "ok", "failed"}, rows : Nat]
        /\ dt'.exists = dt.exists /\ dt'.cron = dt.cron /\ dt'.rows = dt.rows
        /\ dt'.next = dt.next \/ (dt.cron => dt'.next = "set")
        /\ dt'.status = dt.status \/ dt'.status # "ok"
    BY ZenonT(60), <2>3 DEF DerivedTypes
  <2>5. DerivedTypes' BY <1>5, <2>1, <2>2, <2>4 DEF Fail, DerivedTypes
  <2>. QED BY <1>5, <2>1, <2>4, <2>5
         DEF Fail, OkInv, CountInv, ScheduleInv, Stands, Counted, Halfway, Refreshing
<1>. QED BY <1>1, <1>2, <1>3, <1>4, <1>5

LEMMA FaultsKeep ==
  ASSUME DerivedInv, NEW e \in Executors, Error(e) \/ RefreshCrash(e) PROVE DerivedInv'
<1>. USE DEF DerivedInv
<1>1. PICK pc \in {"fail", "catch", "idle"} :
        /\ exec' \in [Executors -> ExecutorState] /\ exec'[e].pc = pc
        /\ \A f \in Executors \ {e} : exec'[f] = exec[f]
        /\ pc = "catch" => exec[e].pc \in {"query", "swap", "describe", "clear", "columns", "finish"}
  <2>1. CASE Error(e)
    <3>. DEFINE pc == IF exec[e].pc \in {"read", "start"} THEN "fail" ELSE "catch"
    <3>1. pc \in DerivedPcs /\ pc \in {"fail", "catch"} BY DEF DerivedPcs
    <3>2. giveUp(e, pc) BY <2>1 DEF Error
    <3>3. pc = "catch" => exec[e].pc \in {"query", "swap", "describe", "clear", "columns", "finish"}
      BY <2>1 DEF Error
    <3>. HIDE DEF pc
    <3>. QED BY <3>1, <3>2, <3>3, GivesUp
  <2>2. CASE RefreshCrash(e) BY <2>2, BecomesIdle DEF RefreshCrash
  <2>. QED BY <2>1, <2>2
<1>2. UNCHANGED <<dt, derivedJob, table, catalog>> BY DEF Error, RefreshCrash
<1>3. exec[e].pc # "idle" BY DEF Error, RefreshCrash
<1>4. past' = IF Halfway(e) THEN past \cup {"halfway"} ELSE past BY DEF Error, RefreshCrash
<1>5. /\ past \subseteq past'
      /\ "overlapped" \in past' => "overlapped" \in past
      /\ Halfway(e) => "halfway" \in past'
  BY <1>4
<1>6. DerivedTypes' BY <1>1, <1>2 DEF DerivedTypes
<1>7. OkInv' BY <1>1, <1>2, <1>3, <1>5 DEF OkInv, Stands, Halfway, Refreshing
<1>8. CountInv' BY <1>1, <1>2, <1>5 DEF CountInv, Counted, Halfway
<1>9. ScheduleInv' BY <1>1, <1>2, <1>5 DEF ScheduleInv
<1>. QED BY <1>6, <1>7, <1>8, <1>9

LEMMA RecoveryKeeps ==
  ASSUME DerivedInv, Recover \/ RefreshStall \/ RecoverStatus PROVE DerivedInv'
<1>. USE DEF DerivedInv
<1>1. CASE Recover \/ RefreshStall
  <2>1. UNCHANGED <<dt, exec, table, catalog, past>> BY <1>1 DEF Recover, RefreshStall
  <2>2. \/ derivedJob' = [derivedJob EXCEPT !.status = "queued"]
        \/ derivedJob' = [derivedJob EXCEPT !.status = "none"]
    BY <1>1 DEF Recover, RefreshStall, Requeued
  <2>3. DerivedTypes' BY <2>1, <2>2 DEF DerivedTypes
  <2>. QED BY <2>1, <2>3 DEF OkInv, CountInv, ScheduleInv, Stands, Counted, Halfway, Refreshing
<1>2. CASE RecoverStatus
  <2>1. UNCHANGED <<derivedJob, exec, table, catalog, past>> BY <1>2 DEF RecoverStatus
  <2>2. /\ dt' \in [exists : BOOLEAN, cron : BOOLEAN, next : {"none", "set"},
                    status : {"new", "queued", "running", "ok", "failed"}, rows : Nat]
        /\ dt'.exists = dt.exists /\ dt'.cron = dt.cron /\ dt'.rows = dt.rows /\ dt'.next = dt.next
        /\ dt'.status # "ok"
    BY <1>2 DEF RecoverStatus, DerivedTypes
  <2>3. DerivedTypes' BY <2>1, <2>2 DEF DerivedTypes
  <2>. QED
    BY <2>1, <2>2, <2>3 DEF OkInv, CountInv, ScheduleInv, Stands, Counted, Halfway, Refreshing
<1>. QED BY <1>1, <1>2

LEMMA DerivedInvStep == ASSUME DerivedInv, [DerivedNext]_derivedVars PROVE DerivedInv'
<1>1. CASE DerivedNext
  BY <1>1, RequestsKeep, ClaimKeeps, ReadKeeps, SwapKeeps, DescribeKeeps, FinishKeeps,
     FaultsKeep, RecoveryKeeps
     DEF DerivedNext, Step
<1>2. CASE UNCHANGED derivedVars
  BY <1>2
  DEF derivedVars, DerivedInv, DerivedTypes, OkInv, CountInv, ScheduleInv, Stands, Counted, Halfway,
      Refreshing
<1>. QED BY <1>1, <1>2

LEMMA DerivedInvInit == ASSUME DerivedInit PROVE DerivedInv
<1>1. \A e \in Executors : exec[e] = Idle BY DEF DerivedInit
<1>2. Idle \in ExecutorState /\ Idle.pc = "idle" BY DEF Idle, ExecutorState, DerivedPcs
<1>3. exec \in [Executors -> ExecutorState] BY <1>2 DEF DerivedInit
<1>. HIDE DEF Idle
<1>4. DerivedTypes BY <1>3, DerivedAssumption DEF DerivedInit, DerivedTypes
<1>5. \A e \in Executors : exec[e].pc = "idle" BY <1>1, <1>2
<1>6. dt.status = "new" /\ past = {} /\ table.ver = 0 /\ (dt.cron => dt.next = "set")
  BY DEF DerivedInit
<1>. QED BY <1>4, <1>5, <1>6
       DEF DerivedInv, OkInv, CountInv, ScheduleInv, Stands, Counted, Halfway, Refreshing

\* A derived table that says "ok" is what it says: the table, its description and
\* the row agree, and with a cron the next refresh is due, for any executors,
\* results, requests and faults, unless an executor went on after it lost its job.
THEOREM DerivedIsCurrent == DerivedSpec => []OkMeansCurrent
<1>1. DerivedInit => DerivedInv BY DerivedInvInit
<1>2. DerivedInv /\ [DerivedNext]_derivedVars => DerivedInv' BY DerivedInvStep
<1>3. DerivedInv => OkMeansCurrent BY DEF DerivedInv, OkInv, ScheduleInv, OkMeansCurrent
<1>. QED BY <1>1, <1>2, <1>3, PTL DEF DerivedSpec

\* Only a swap empties the table, and what passed the guard relied on the right count.
LEMMA EmptyStep ==
  ASSUME DerivedInv, [DerivedNext]_derivedVars, Empties
  PROVE  {"overlapped", "halfway"} \cap past # {} \/ (Adopted > 0 /\ table.ver = 0)
<1>0. table' # table BY DEF Empties, DerivedInv, DerivedTypes
<1>1. PICK e \in Executors : SwapDerived(e)
  BY <1>0
  DEF DerivedNext, derivedVars, Step, Queue, Edit, Delete, Claim, ReadRow, SetRunning,
      Query,
         Describe, ClearColumns, CreateColumns, FinishRefresh, Complete, Catch, Fail,
         Error, RefreshCrash, Recover, RefreshStall, RecoverStatus
<1>2. exec[e].n = 0 /\ table.rows > 0 /\ exec[e].pc = "swap" BY <1>1 DEF SwapDerived, Empties
<1>. QED BY <1>1, <1>2 DEF DerivedInv, DerivedTypes, CountInv, Counted

\* An empty result replaces a table with rows only if a refresh ended between its
\* swap and its last update, or two overlapped, or the derived table adopted it.
THEOREM DerivedEmptiesAreSeen == DerivedSpec => EmptiesUnseen
<1>1. DerivedInit => DerivedInv BY DerivedInvInit
<1>2. DerivedInv /\ [DerivedNext]_derivedVars => DerivedInv' BY DerivedInvStep
<1>3. DerivedInv /\ [DerivedNext]_derivedVars =>
        [Empties => \/ {"overlapped", "halfway"} \cap past # {}
                    \/ (Adopted > 0 /\ table.ver = 0)]_derivedVars
  BY EmptyStep
<1>. QED BY <1>1, <1>2, <1>3, PTL DEF DerivedSpec, EmptiesUnseen
\* Executors at work on the job after it was given to another, or back to the queue;
\* and those of them that will queue it again when they fail.
Late ==
  {e \in Executors : /\ exec[e].pc # "idle" /\ exec[e].job = derivedJob.id
                     /\ ~(derivedJob.status = "running" /\ derivedJob.by = e)}
Armed == {e \in Late : exec[e].attempt < Attempts}

\* Only a stall makes an executor late, and only one that is late queues the job beyond
\* its attempts, once.
BudgetInv ==
  /\ used \in [requests : 0..MaxRequests, edits : Nat, faults : 0..MaxFaults]
  /\ derivedJob.id <= used.requests
  /\ \A e \in Executors : exec[e].job <= derivedJob.id
  /\ derivedJob.status = "running" =>
       /\ derivedJob.by \in Executors
       /\ exec[derivedJob.by].pc # "idle" => /\ exec[derivedJob.by].job = derivedJob.id
                                             /\ exec[derivedJob.by].attempt = derivedJob.attempts
       /\ derivedJob.attempts + Cardinality(Armed) <= Attempts + used.faults
  /\ derivedJob.status = "queued" =>
       derivedJob.attempts + 1 + Cardinality(Armed) <= Attempts + used.faults
  /\ derivedJob.attempts <= Attempts + used.faults
  /\ Cardinality(Late) <= used.faults

\* What is written is a count of the query, and columns are of a swap there was.
ValueInv ==
  /\ dt.rows \in Counts \cup {0}
  /\ table.rows \in Counts \cup {Adopted} /\ catalog.rows \in Counts \cup {Adopted}
  /\ catalog.columns <= table.ver
  /\ \A e \in Executors :
       /\ exec[e].pc \in {"swap", "describe", "clear", "columns", "finish"} => exec[e].n \in Counts
       /\ exec[e].ver <= table.ver

\* Sizes of sets that lose or gain a member.
LEMMA Fewer ==
  ASSUME NEW T, IsFiniteSet(T), NEW S, S \subseteq T
  PROVE  Cardinality(S) \in Nat /\ Cardinality(T) \in Nat /\ Cardinality(S) <= Cardinality(T)
<1>1. IsFiniteSet(S) /\ Cardinality(S) <= Cardinality(T) BY FS_Subset
<1>. QED BY <1>1, FS_CardinalityType

LEMMA OneMore ==
  ASSUME NEW T, IsFiniteSet(T), NEW x, NEW S, S \subseteq T \cup {x}
  PROVE  Cardinality(S) \in Nat /\ Cardinality(T) \in Nat /\ Cardinality(S) <= Cardinality(T) + 1
<1>1. /\ IsFiniteSet(T \cup {x}) /\ Cardinality(T) \in Nat
      /\ Cardinality(T \cup {x}) <= Cardinality(T) + 1
  BY FS_AddElement, FS_CardinalityType
<1>2. /\ Cardinality(S) \in Nat /\ Cardinality(T \cup {x}) \in Nat
      /\ Cardinality(S) <= Cardinality(T \cup {x})
  BY <1>1, Fewer
<1>. QED BY <1>1, <1>2

LEMMA OneLess ==
  ASSUME NEW T, IsFiniteSet(T), NEW x \in T, NEW S, S \subseteq T \ {x}
  PROVE  Cardinality(S) \in Nat /\ Cardinality(T) \in Nat /\ Cardinality(S) <= Cardinality(T) - 1
<1>1. /\ IsFiniteSet(T \ {x}) /\ Cardinality(T) \in Nat
      /\ Cardinality(T \ {x}) = Cardinality(T) - 1
  BY FS_RemoveElement, FS_CardinalityType
<1>2. Cardinality(S) \in Nat /\ Cardinality(S) <= Cardinality(T \ {x}) BY <1>1, Fewer
<1>. QED BY <1>1, <1>2

LEMMA LateIsFinite == IsFiniteSet(Late) /\ IsFiniteSet(Armed) /\ Armed \subseteq Late
<1>1. IsFiniteSet(Executors) /\ Late \subseteq Executors BY DerivedAssumption DEF Late
<1>2. IsFiniteSet(Late) BY <1>1, FS_Subset
<1>3. Armed \subseteq Late BY DEF Armed
<1>. QED BY <1>2, <1>3, FS_Subset

LEMMA LateSizes ==
  /\ Cardinality(Late) \in Nat /\ Cardinality(Armed) \in Nat
  /\ Cardinality(Armed) <= Cardinality(Late)
BY LateIsFinite, Fewer

\* The bounds count.
LEMMA UsedTypes ==
  ASSUME BudgetInv
  PROVE  /\ used.requests \in Nat /\ used.faults \in Nat
         /\ Attempts \in Nat \ {0} /\ MaxFaults \in Nat /\ MaxRequests \in Nat
BY DerivedAssumption DEF BudgetInv

\* A statement that leaves the job alone, of an executor that goes on or ends.
LEMMA WorkKeepsBudget ==
  ASSUME DerivedTypes, DerivedTypes', BudgetInv, NEW e \in Executors, exec[e].pc # "idle",
         \/ exec'[e].job = exec[e].job /\ exec'[e].attempt = exec[e].attempt
         \/ exec'[e].pc = "idle" /\ exec'[e].job = 0,
         \A f \in Executors \ {e} : exec'[f] = exec[f],
         derivedJob' = derivedJob,
         used' \in [requests : 0..MaxRequests, edits : Nat, faults : 0..MaxFaults],
         used'.requests = used.requests, used.faults <= used'.faults
  PROVE  BudgetInv'
<1>0. /\ derivedJob.id \in Nat /\ derivedJob.attempts \in Nat
      /\ \A f \in Executors : exec[f].job \in Nat /\ exec[f].attempt \in Nat
  BY DEF DerivedTypes, ExecutorState
<1>1. Late' \subseteq Late BY DEF Late
<1>2. Armed' \subseteq Armed BY <1>1 DEF Armed, Late
<1>3. /\ Cardinality(Late') \in Nat /\ Cardinality(Late') <= Cardinality(Late)
      /\ Cardinality(Armed') \in Nat /\ Cardinality(Armed') <= Cardinality(Armed)
  BY <1>1, <1>2, LateIsFinite, Fewer
<1>4. Cardinality(Late) \in Nat /\ Cardinality(Armed) \in Nat BY LateSizes
<1>5. used'.faults \in Nat /\ used.faults \in Nat /\ Attempts \in Nat BY UsedTypes
<1>6. \A f \in Executors : exec'[f].job <= derivedJob.id BY <1>0 DEF BudgetInv
<1>7. derivedJob.status = "running" /\ exec'[derivedJob.by].pc # "idle" =>
        /\ exec'[derivedJob.by].job = derivedJob.id
        /\ exec'[derivedJob.by].attempt = derivedJob.attempts
  BY <1>0 DEF BudgetInv
<1>. QED BY <1>0, <1>3, <1>4, <1>5, <1>6, <1>7 DEF BudgetInv

\* The job of e is ended, or queued again, by e; who had it goes on, late.
LEMMA EndKeepsBudget ==
  ASSUME DerivedTypes, DerivedTypes', BudgetInv, NEW e \in Executors, exec[e].pc # "idle",
         exec'[e].pc = "idle", exec'[e].job = 0,
         \A f \in Executors \ {e} : exec'[f] = exec[f], Running(e),
         NEW status \in {"queued", "none"}, derivedJob' = [derivedJob EXCEPT !.status = status],
         status = "queued" => exec[e].attempt < Attempts, used' = used
  PROVE  BudgetInv'
<1>0. /\ derivedJob.id \in Nat /\ derivedJob.attempts \in Nat
      /\ \A f \in Executors : exec[f].job \in Nat /\ exec[f].attempt \in Nat
      /\ derivedJob'.id = derivedJob.id /\ derivedJob'.attempts = derivedJob.attempts
      /\ derivedJob'.status = status
  BY DEF DerivedTypes, ExecutorState
<1>1. derivedJob.status = "running" /\ exec[e].job = derivedJob.id BY DEF Running
<1>. DEFINE by == derivedJob.by
<1>2. by \in Executors /\ (e = by => exec[e].attempt = derivedJob.attempts)
  BY <1>1 DEF BudgetInv
<1>3. Cardinality(Late) \in Nat /\ Cardinality(Armed) \in Nat /\ Cardinality(Armed) <= Cardinality(Late)
  BY LateSizes
<1>4. used.faults \in Nat /\ Attempts \in Nat \ {0} BY UsedTypes
<1>5. Cardinality(Late') \in Nat /\ Cardinality(Late') <= Cardinality(Late)
  <2>1. CASE e = by
    <3>1. Late' \subseteq Late BY <1>0, <1>1, <2>1 DEF Late
    <3>. QED BY <3>1, LateIsFinite, Fewer
  <2>2. CASE e # by
    <3>1. e \in Late BY <1>1, <2>2 DEF Late
    <3>2. Late' \subseteq (Late \ {e}) \cup {by} BY <1>0, <1>1 DEF Late
    <3>3. IsFiniteSet(Late \ {e}) /\ Cardinality(Late \ {e}) = Cardinality(Late) - 1
      BY <3>1, LateIsFinite, FS_RemoveElement
    <3>4. /\ Cardinality(Late') \in Nat /\ Cardinality(Late \ {e}) \in Nat
          /\ Cardinality(Late') <= Cardinality(Late \ {e}) + 1
      BY <3>2, <3>3, OneMore
    <3>. QED BY <1>3, <3>3, <3>4
  <2>. QED BY <2>1, <2>2
<1>6. Cardinality(Armed') \in Nat /\ Cardinality(Armed') <= Cardinality(Late')
  <2>1. \A f \in Late' : f \in Executors BY DEF Late
  <2>2. IsFiniteSet(Late') /\ Armed' \subseteq Late'
    <3>1. IsFiniteSet(Executors) /\ Late' \subseteq Executors BY <2>1, DerivedAssumption
    <3>. QED BY <3>1, FS_Subset DEF Armed
  <2>. QED BY <2>2, Fewer
<1>7. status = "queued" => derivedJob.attempts + 1 + Cardinality(Armed') <= Attempts + used.faults
  <2>. SUFFICES ASSUME status = "queued"
                PROVE  derivedJob.attempts + 1 + Cardinality(Armed') <= Attempts + used.faults
    OBVIOUS
  <2>1. CASE derivedJob.attempts < Attempts
    <3>1. Cardinality(Late) <= used.faults BY DEF BudgetInv
    <3>. QED BY <1>0, <1>3, <1>4, <1>5, <1>6, <2>1, <3>1
  <2>2. CASE ~(derivedJob.attempts < Attempts)
    <3>1. e # by /\ e \in Armed BY <1>1, <1>2, <2>2 DEF Late, Armed
    <3>2. \A f \in Armed' : f \in Armed \ {e}
      <4>1. \A f \in Armed' : /\ f \in Executors /\ f # e /\ exec'[f] = exec[f] /\ exec[f].pc # "idle"
                              /\ exec[f].job = derivedJob.id /\ exec[f].attempt < Attempts
        BY <1>0 DEF Armed, Late
      <4>2. by \notin Armed'
        BY <1>1, <2>2, <4>1 DEF BudgetInv
      <4>. QED BY <4>1, <4>2 DEF Armed, Late
    <3>3. Armed' \subseteq Armed \ {e} BY <3>2
    <3>4. Cardinality(Armed') <= Cardinality(Armed) - 1 BY <3>1, <3>3, LateIsFinite, OneLess
    <3>5. derivedJob.attempts + Cardinality(Armed) <= Attempts + used.faults BY <1>1 DEF BudgetInv
    <3>. QED BY <1>0, <1>3, <1>4, <1>6, <3>4, <3>5
  <2>. QED BY <2>1, <2>2
<1>8. \A f \in Executors : exec'[f].job <= derivedJob.id BY <1>0 DEF BudgetInv
<1>9. Cardinality(Late') <= used.faults BY <1>3, <1>4, <1>5 DEF BudgetInv
<1>. QED BY <1>0, <1>7, <1>8, <1>9 DEF BudgetInv

\* The recovery takes the job from its executor, which goes on only if it stalls.
LEMMA RecoveryKeepsBudget ==
  ASSUME DerivedTypes, DerivedTypes', BudgetInv, Recover \/ RefreshStall PROVE BudgetInv'
<1>1. /\ derivedJob.status = "running" /\ exec' = exec
      /\ used' \in [requests : 0..MaxRequests, edits : Nat, faults : 0..MaxFaults]
      /\ used'.requests = used.requests
      /\ \/ exec[derivedJob.by].pc = "idle" /\ used'.faults = used.faults
         \/ used'.faults = used.faults + 1
  BY UsedTypes DEF Recover, RefreshStall, fault, BudgetInv
<1>2. PICK status \in {"queued", "none"} :
        /\ derivedJob' = [derivedJob EXCEPT !.status = status]
        /\ status = "queued" => derivedJob.attempts < Attempts
  BY DEF Recover, RefreshStall, Requeued
<1>0. /\ derivedJob.id \in Nat /\ derivedJob.attempts \in Nat
      /\ derivedJob'.id = derivedJob.id /\ derivedJob'.attempts = derivedJob.attempts
      /\ derivedJob'.status = status
  BY <1>2 DEF DerivedTypes
<1>3. Cardinality(Late) \in Nat BY LateSizes
<1>4. used.faults \in Nat /\ Attempts \in Nat \ {0} /\ used'.faults \in Nat BY <1>1, UsedTypes
<1>5. Cardinality(Late') \in Nat /\ Cardinality(Late') <= used'.faults
  <2>1. CASE exec[derivedJob.by].pc = "idle" /\ used'.faults = used.faults
    <3>1. Late' \subseteq Late BY <1>0, <1>1, <2>1 DEF Late
    <3>2. Cardinality(Late') \in Nat /\ Cardinality(Late') <= Cardinality(Late)
      BY <3>1, LateIsFinite, Fewer
    <3>. QED BY <1>3, <1>4, <2>1, <3>2 DEF BudgetInv
  <2>2. CASE used'.faults = used.faults + 1
    <3>1. Late' \subseteq Late \cup {derivedJob.by} BY <1>0, <1>1 DEF Late
    <3>2. Cardinality(Late') \in Nat /\ Cardinality(Late') <= Cardinality(Late) + 1
      BY <3>1, LateIsFinite, OneMore
    <3>. QED BY <1>3, <1>4, <2>2, <3>2 DEF BudgetInv
  <2>. QED BY <1>1, <2>1, <2>2
<1>6. Cardinality(Armed') \in Nat /\ Cardinality(Armed') <= Cardinality(Late')
  <2>1. IsFiniteSet(Executors) /\ Late' \subseteq Executors BY DerivedAssumption DEF Late
  <2>2. IsFiniteSet(Late') /\ Armed' \subseteq Late' BY <2>1, FS_Subset DEF Armed
  <2>. QED BY <2>2, Fewer
<1>7. status = "queued" => derivedJob.attempts + 1 + Cardinality(Armed') <= Attempts + used'.faults
  BY <1>0, <1>2, <1>4, <1>5, <1>6
<1>8. derivedJob.attempts <= Attempts + used'.faults BY <1>0, <1>1, <1>4 DEF BudgetInv
<1>. QED BY <1>0, <1>1, <1>5, <1>7, <1>8 DEF BudgetInv

\* A new job has nobody late; a claim makes its executor the one that has the job.
LEMMA ClaimKeepsBudget ==
  ASSUME DerivedTypes, DerivedTypes', BudgetInv, NEW e \in Executors, Claim(e) PROVE BudgetInv'
<1>0. /\ derivedJob.id \in Nat /\ derivedJob.attempts \in Nat
      /\ \A f \in Executors : exec[f].job \in Nat /\ exec[f].attempt \in Nat
  BY DEF DerivedTypes, ExecutorState
<1>1. /\ derivedJob.status = "queued" /\ exec[e].pc = "idle" /\ used' = used
      /\ derivedJob'.status = "running" /\ derivedJob'.by = e
      /\ derivedJob'.id = derivedJob.id /\ derivedJob'.attempts = derivedJob.attempts + 1
  BY DEF Claim, DerivedTypes
<1>2. /\ exec'[e].pc = "read" /\ exec'[e].job = derivedJob.id
      /\ exec'[e].attempt = derivedJob.attempts + 1
      /\ \A f \in Executors \ {e} : exec'[f] = exec[f]
  BY DEF Claim, Idle, DerivedTypes
<1>3. Late' = Late BY <1>1, <1>2 DEF Late
<1>4. Armed' = Armed BY <1>1, <1>2, <1>3 DEF Armed, Late
<1>5. Cardinality(Late) \in Nat /\ Cardinality(Armed) \in Nat BY LateSizes
<1>6. used.faults \in Nat /\ Attempts \in Nat \ {0} BY UsedTypes
<1>7. derivedJob.attempts + 1 + Cardinality(Armed) <= Attempts + used.faults BY <1>1 DEF BudgetInv
<1>8. \A f \in Executors : exec'[f].job <= derivedJob'.id BY <1>0, <1>1, <1>2 DEF BudgetInv
<1>9. derivedJob'.attempts <= Attempts + used.faults BY <1>0, <1>1, <1>5, <1>6, <1>7
<1>10. derivedJob'.attempts + Cardinality(Armed') <= Attempts + used'.faults
  BY <1>1, <1>4, <1>7
<1>11. Cardinality(Late') <= used'.faults BY <1>1, <1>3 DEF BudgetInv
<1>. QED BY <1>1, <1>2, <1>8, <1>9, <1>10, <1>11 DEF BudgetInv

LEMMA QueueKeepsBudget ==
  ASSUME DerivedTypes, DerivedTypes', BudgetInv, NEW byCron \in BOOLEAN, Queue(byCron)
  PROVE  BudgetInv'
<1>0. /\ derivedJob.id \in Nat /\ derivedJob.attempts \in Nat
      /\ \A f \in Executors : exec[f].job \in Nat /\ exec[f].attempt \in Nat
  BY DEF DerivedTypes, ExecutorState
<1>1. /\ exec' = exec /\ used.requests + 1 <= MaxRequests
      /\ used' \in [requests : 0..MaxRequests, edits : Nat, faults : 0..MaxFaults]
      /\ used'.requests = used.requests + 1 /\ used'.faults = used.faults
  BY UsedTypes DEF Queue, BudgetInv
<1>2. used.faults \in Nat /\ used.requests \in Nat /\ Attempts \in Nat \ {0} BY UsedTypes
<1>3. CASE derivedJob.status = "none"
  <2>1. derivedJob' = [id |-> derivedJob.id + 1, status |-> "queued", attempts |-> 0, by |-> "nobody"]
    BY <1>3 DEF Queue
  <2>2. \A f \in Executors : exec[f].job <= derivedJob.id BY DEF BudgetInv
  <2>3. Late' = {} /\ Armed' = {} BY <1>0, <1>1, <2>1, <2>2 DEF Late, Armed
  <2>4. Cardinality(Late') = 0 /\ Cardinality(Armed') = 0 BY <2>3, FS_EmptySet
  <2>5. \A f \in Executors : exec'[f].job <= derivedJob'.id BY <1>0, <1>1, <2>1, <2>2
  <2>6. derivedJob'.id <= used'.requests BY <1>0, <1>1, <1>2, <2>1 DEF BudgetInv
  <2>. QED BY <1>1, <1>2, <2>1, <2>4, <2>5, <2>6 DEF BudgetInv
<1>4. CASE derivedJob.status # "none"
  <2>1. derivedJob' = derivedJob BY <1>4 DEF Queue
  <2>2. Late' = Late BY <1>1, <2>1 DEF Late
  <2>3. Armed' = Armed BY <1>1, <2>2 DEF Armed
  <2>4. derivedJob'.id <= used'.requests BY <1>0, <1>1, <1>2, <2>1 DEF BudgetInv
  <2>. QED BY <1>1, <2>1, <2>2, <2>3, <2>4 DEF BudgetInv
<1>. QED BY <1>3, <1>4

LEMMA RowIsRead ==
  ASSUME DerivedTypes, NEW e \in Executors, ReadRow(e)
  PROVE  /\ exec'[e].job = exec[e].job /\ exec'[e].attempt = exec[e].attempt
         /\ exec'[e].pc \in {"start", "fail"} /\ exec'[e].ver \in {0, exec[e].ver}
         /\ \A f \in Executors \ {e} : exec'[f] = exec[f]
<1>1. CASE dt.exists
  <2>. DEFINE v == [exec[e] EXCEPT !.pc = "start", !.prev = dt.rows, !.cron = dt.cron]
  <2>0. exec[e] \in ExecutorState /\ dt.rows \in Nat /\ dt.cron \in BOOLEAN
    BY ExecutorType DEF DerivedTypes
  <2>1. /\ v \in ExecutorState /\ v.pc = "start" /\ v.job = exec[e].job
        /\ v.attempt = exec[e].attempt /\ v.ver = exec[e].ver
    BY <2>0 DEF ExecutorState, DerivedPcs
  <2>2. exec' = [exec EXCEPT ![e] = v] BY <1>1 DEF ReadRow
  <2>. HIDE DEF v
  <2>. QED BY <2>1, <2>2, ExecutorMoves
<1>2. CASE ~dt.exists BY <1>2, GivesUp DEF ReadRow, DerivedPcs
<1>. QED BY <1>1, <1>2

LEMMA QueryGoesOn ==
  ASSUME DerivedTypes, NEW e \in Executors, Query(e)
  PROVE  /\ exec'[e].job = exec[e].job /\ exec'[e].attempt = exec[e].attempt
         /\ exec'[e].pc = "catch" \/ (exec'[e].pc = "swap" /\ exec'[e].n \in Counts)
         /\ exec'[e].ver = exec[e].ver /\ \A f \in Executors \ {e} : exec'[f] = exec[f]
<1>1. PICK n \in Counts :
        exec' = [exec EXCEPT ![e] =
                   [@ EXCEPT !.pc = IF Verdict(e, n) = "FAILED" THEN "catch" ELSE "swap", !.prev = 0,
                             !.n = IF Verdict(e, n) = "FAILED" THEN 0 ELSE n,
                             !.again = ~(Verdict(e, n) = "FAILED")]]
  BY DEF Query
<1>2. n \in Nat BY DerivedAssumption
<1>3. PICK pc \in {"catch", "swap"}, m \in Nat, b \in BOOLEAN :
        /\ exec' = [exec EXCEPT ![e] = [@ EXCEPT !.pc = pc, !.prev = 0, !.n = m, !.again = b]]
        /\ pc = "swap" => m = n
  BY <1>1, <1>2
<1>. DEFINE v == [exec[e] EXCEPT !.pc = pc, !.prev = 0, !.n = m, !.again = b]
<1>0. exec[e] \in ExecutorState BY ExecutorType
<1>4. /\ v \in ExecutorState /\ v.pc = pc /\ v.n = m /\ v.job = exec[e].job
      /\ v.attempt = exec[e].attempt /\ v.ver = exec[e].ver
  BY <1>0 DEF ExecutorState, DerivedPcs
<1>5. exec' = [exec EXCEPT ![e] = v] BY <1>3
<1>. HIDE DEF v
<1>6. exec'[e] = v /\ \A f \in Executors \ {e} : exec'[f] = exec[f] BY <1>4, <1>5, ExecutorMoves
<1>. QED BY <1>3, <1>4, <1>6

LEMMA ErrorGivesUp ==
  ASSUME DerivedTypes, NEW e \in Executors, Error(e)
  PROVE  /\ exec'[e].job = exec[e].job /\ exec'[e].attempt = exec[e].attempt
         /\ exec'[e].pc \in {"catch", "fail"} /\ exec'[e].ver = 0
         /\ \A f \in Executors \ {e} : exec'[f] = exec[f]
<1>. DEFINE pc == IF exec[e].pc \in {"read", "start"} THEN "fail" ELSE "catch"
<1>1. pc \in DerivedPcs /\ pc \in {"fail", "catch"} BY DEF DerivedPcs
<1>2. giveUp(e, pc) BY DEF Error
<1>. HIDE DEF pc
<1>. QED BY <1>1, <1>2, GivesUp

\* Every step keeps the budget.
LEMMA BudgetStep ==
  ASSUME DerivedTypes, DerivedTypes', BudgetInv, [DerivedNext]_derivedVars PROVE BudgetInv'
<1>0. exec \in [Executors -> ExecutorState] BY DEF DerivedTypes
<1>1. CASE \E byCron \in BOOLEAN : Queue(byCron) BY <1>1, QueueKeepsBudget
<1>2. CASE Edit \/ Delete \/ RecoverStatus \/ UNCHANGED derivedVars
  <2>1. /\ exec' = exec /\ derivedJob' = derivedJob
        /\ used' \in [requests : 0..MaxRequests, edits : Nat, faults : 0..MaxFaults]
        /\ used'.requests = used.requests /\ used'.faults = used.faults
    BY <1>2 DEF Edit, Delete, RecoverStatus, derivedVars, BudgetInv
  <2>2. Late' = Late BY <2>1 DEF Late
  <2>3. Armed' = Armed BY <2>1, <2>2 DEF Armed
  <2>. QED BY <2>1, <2>2, <2>3 DEF BudgetInv
<1>3. ASSUME NEW e \in Executors, Claim(e) PROVE BudgetInv' BY <1>3, ClaimKeepsBudget
<1>4. ASSUME NEW e \in Executors,
             \/ ReadRow(e) \/ SetRunning(e) \/ Query(e) \/ SwapDerived(e) \/ Describe(e)
             \/ ClearColumns(e) \/ CreateColumns(e) \/ FinishRefresh(e) \/ Catch(e)
      PROVE  BudgetInv'
  <2>1. exec[e].pc # "idle" /\ derivedJob' = derivedJob /\ used' = used
    BY <1>4 DEF ReadRow, SetRunning, Query, SwapDerived, Describe, ClearColumns, CreateColumns,
                FinishRefresh, Catch
  <2>2. /\ exec'[e].job = exec[e].job /\ exec'[e].attempt = exec[e].attempt
        /\ \A f \in Executors \ {e} : exec'[f] = exec[f]
    <3>1. CASE ReadRow(e) BY <3>1, RowIsRead
    <3>2. CASE SetRunning(e) BY <3>2, GoesTo, GivesUp DEF SetRunning, DerivedPcs
    <3>3. CASE Query(e) BY <3>3, QueryGoesOn
    <3>4. CASE SwapDerived(e) BY <1>0, <3>4 DEF SwapDerived, ExecutorState
    <3>5. CASE Describe(e) BY <3>5, GoesTo DEF Describe, DerivedPcs
    <3>6. CASE ClearColumns(e) BY <3>6, GoesTo DEF ClearColumns, DerivedPcs
    <3>7. CASE CreateColumns(e) BY <3>7, GoesTo, GivesUp DEF CreateColumns, DerivedPcs
    <3>8. CASE FinishRefresh(e) BY <3>8, GoesTo, GivesUp DEF FinishRefresh, DerivedPcs
    <3>9. CASE Catch(e) BY <3>9, GivesUp DEF Catch, DerivedPcs
    <3>. QED BY <1>4, <3>1, <3>2, <3>3, <3>4, <3>5, <3>6, <3>7, <3>8, <3>9
  <2>3. /\ used' \in [requests : 0..MaxRequests, edits : Nat, faults : 0..MaxFaults]
        /\ used'.requests = used.requests /\ used.faults <= used'.faults
    BY <2>1, UsedTypes DEF BudgetInv
  <2>. QED BY <2>1, <2>2, <2>3, WorkKeepsBudget
<1>5. ASSUME NEW e \in Executors, Error(e) \/ RefreshCrash(e) PROVE BudgetInv'
  <2>1. exec[e].pc # "idle" /\ derivedJob' = derivedJob /\ fault
    BY <1>5 DEF Error, RefreshCrash
  <2>2. /\ used' \in [requests : 0..MaxRequests, edits : Nat, faults : 0..MaxFaults]
        /\ used'.requests = used.requests /\ used.faults <= used'.faults
    BY <2>1, UsedTypes DEF fault, BudgetInv
  <2>3. /\ \/ exec'[e].job = exec[e].job /\ exec'[e].attempt = exec[e].attempt
           \/ exec'[e].pc = "idle" /\ exec'[e].job = 0
        /\ \A f \in Executors \ {e} : exec'[f] = exec[f]
    <3>1. CASE Error(e) BY <3>1, ErrorGivesUp
    <3>2. CASE RefreshCrash(e) BY <1>0, <3>2 DEF RefreshCrash, Idle
    <3>. QED BY <1>5, <3>1, <3>2
  <2>. QED BY <2>1, <2>2, <2>3, WorkKeepsBudget
<1>6. ASSUME NEW e \in Executors, Complete(e) \/ Fail(e) PROVE BudgetInv'
  <2>1. exec[e].pc # "idle" /\ used' = used /\ exec' = [exec EXCEPT ![e] = Idle]
    BY <1>6 DEF Complete, Fail
  <2>2. /\ exec'[e].pc = "idle" /\ exec'[e].job = 0
        /\ \A f \in Executors \ {e} : exec'[f] = exec[f]
    BY <1>0, <2>1 DEF Idle
  <2>3. CASE ~Running(e)
    <3>1. derivedJob' = derivedJob BY <1>6, <2>3 DEF Complete, Fail
    <3>2. /\ used' \in [requests : 0..MaxRequests, edits : Nat, faults : 0..MaxFaults]
          /\ used'.requests = used.requests /\ used.faults <= used'.faults
      BY <2>1, UsedTypes DEF BudgetInv
    <3>. QED BY <2>1, <2>2, <3>1, <3>2, WorkKeepsBudget
  <2>4. CASE Running(e)
    <3>1. PICK status \in {"queued", "none"} :
            /\ derivedJob' = [derivedJob EXCEPT !.status = status]
            /\ status = "queued" => exec[e].attempt < Attempts
      BY <1>6, <2>4 DEF Complete, Fail, Again
    <3>. QED BY <2>1, <2>2, <2>4, <3>1, EndKeepsBudget
  <2>. QED BY <2>3, <2>4
<1>7. CASE Recover \/ RefreshStall BY <1>7, RecoveryKeepsBudget
<1>. QED BY <1>1, <1>2, <1>3, <1>4, <1>5, <1>6, <1>7 DEF DerivedNext, Step

\* Every step writes counts of the query, and columns of a swap there was.
LEMMA ValueStep ==
  ASSUME DerivedTypes, ValueInv, [DerivedNext]_derivedVars PROVE ValueInv'
<1>0. exec \in [Executors -> ExecutorState] /\ table.ver \in Nat /\ catalog.columns \in Nat
  BY DEF DerivedTypes
<1>1. CASE \E byCron \in BOOLEAN : Queue(byCron)
  BY <1>1 DEF Queue, ValueInv, DerivedTypes
<1>2. CASE Edit \/ Delete \/ RecoverStatus
  BY <1>2 DEF Edit, Delete, RecoverStatus, ValueInv, DerivedTypes
<1>3. CASE Recover \/ RefreshStall \/ UNCHANGED derivedVars
  BY <1>3 DEF Recover, RefreshStall, derivedVars, ValueInv
<1>4. ASSUME NEW e \in Executors,
             \/ exec'[e].pc \notin {"swap", "describe", "clear", "columns", "finish"}
             \/ exec'[e].n \in Counts,
             exec'[e].ver <= table'.ver, \A f \in Executors \ {e} : exec'[f] = exec[f],
             table.ver <= table'.ver, table'.ver \in Nat
      PROVE  \A f \in Executors :
               /\ exec'[f].pc \in {"swap", "describe", "clear", "columns", "finish"} =>
                    exec'[f].n \in Counts
               /\ exec'[f].ver <= table'.ver
  <2>1. \A f \in Executors : exec[f].ver \in Nat BY <1>0 DEF ExecutorState
  <2>. QED BY <1>0, <1>4, <2>1 DEF ValueInv
<1>5. ASSUME NEW e \in Executors, Claim(e) PROVE ValueInv'
  <2>1. /\ exec'[e].pc = "read" /\ exec'[e].ver = 0
        /\ \A f \in Executors \ {e} : exec'[f] = exec[f]
    BY <1>0, <1>5 DEF Claim, Idle
  <2>. QED BY <1>0, <1>4, <1>5, <2>1 DEF Claim, ValueInv
<1>6. ASSUME NEW e \in Executors, ReadRow(e) \/ SetRunning(e) \/ Catch(e) \/ Error(e)
      PROVE  ValueInv'
  <2>1. UNCHANGED <<table, catalog>> /\ dt'.rows = dt.rows
    BY <1>6 DEF ReadRow, SetRunning, Catch, Error, DerivedTypes
  <2>2. /\ exec'[e].pc \in {"start", "query", "catch", "fail"} /\ exec'[e].ver \in {0, exec[e].ver}
        /\ \A f \in Executors \ {e} : exec'[f] = exec[f]
    <3>1. CASE ReadRow(e) BY <3>1, RowIsRead
    <3>2. CASE SetRunning(e) BY <3>2, GoesTo, GivesUp DEF SetRunning, DerivedPcs
    <3>3. CASE Catch(e) BY <3>3, GivesUp DEF Catch, DerivedPcs
    <3>4. CASE Error(e) BY <3>4, ErrorGivesUp
    <3>. QED BY <1>6, <3>1, <3>2, <3>3, <3>4
  <2>3. exec'[e].ver <= table.ver BY <1>0, <2>2 DEF ValueInv
  <2>. QED BY <1>0, <1>4, <2>1, <2>2, <2>3 DEF ValueInv
<1>7. ASSUME NEW e \in Executors, Query(e) PROVE ValueInv'
  <2>1. /\ exec'[e].pc = "catch" \/ (exec'[e].pc = "swap" /\ exec'[e].n \in Counts)
        /\ exec'[e].ver = exec[e].ver /\ \A f \in Executors \ {e} : exec'[f] = exec[f]
    BY <1>7, QueryGoesOn
  <2>. QED BY <1>0, <1>4, <1>7, <2>1 DEF Query, ValueInv
<1>8. ASSUME NEW e \in Executors, SwapDerived(e) PROVE ValueInv'
  <2>1. /\ exec'[e].n = exec[e].n /\ exec'[e].ver = table'.ver /\ exec[e].n \in Counts
        /\ table'.ver = table.ver + 1 /\ table'.rows = exec[e].n
        /\ \A f \in Executors \ {e} : exec'[f] = exec[f]
    BY <1>0, <1>8 DEF SwapDerived, ExecutorState, ValueInv
  <2>2. exec'[e].ver <= table'.ver /\ table.ver <= table'.ver /\ table'.ver \in Nat
    BY <1>0, <2>1
  <2>3. catalog'.columns <= table'.ver BY <1>0, <1>8, <2>1 DEF SwapDerived, ValueInv
  <2>. QED BY <1>4, <1>8, <2>1, <2>2, <2>3 DEF SwapDerived, ValueInv
<1>9. ASSUME NEW e \in Executors,
             Describe(e) \/ ClearColumns(e) \/ CreateColumns(e) \/ FinishRefresh(e)
      PROVE  ValueInv'
  <2>0. exec[e].n \in Counts /\ exec[e].ver <= table.ver
    BY <1>9 DEF Describe, ClearColumns, CreateColumns, FinishRefresh, ValueInv
  <2>1. /\ \/ exec'[e].pc \notin {"swap", "describe", "clear", "columns", "finish"}
           \/ exec'[e].n \in Counts
        /\ exec'[e].ver \in {0, exec[e].ver} /\ \A f \in Executors \ {e} : exec'[f] = exec[f]
    <3>1. CASE Describe(e) BY <2>0, <3>1, GoesTo DEF Describe, DerivedPcs
    <3>2. CASE ClearColumns(e) BY <2>0, <3>2, GoesTo DEF ClearColumns, DerivedPcs
    <3>3. CASE CreateColumns(e) BY <2>0, <3>3, GoesTo, GivesUp DEF CreateColumns, DerivedPcs
    <3>4. CASE FinishRefresh(e) BY <2>0, <3>4, GoesTo, GivesUp DEF FinishRefresh, DerivedPcs
    <3>. QED BY <1>9, <3>1, <3>2, <3>3, <3>4
  <2>2. exec'[e].ver <= table.ver BY <1>0, <2>0, <2>1
  <2>3. table' = table BY <1>9 DEF Describe, ClearColumns, CreateColumns, FinishRefresh
  <2>4. /\ catalog'.rows \in {catalog.rows, exec[e].n}
        /\ catalog'.columns \in {0, catalog.columns, exec[e].ver}
    BY <1>9 DEF Describe, ClearColumns, CreateColumns, FinishRefresh, DerivedTypes
  <2>5. dt'.rows \in {dt.rows, exec[e].n}
    BY <1>9 DEF Describe, ClearColumns, CreateColumns, FinishRefresh, Finished, DerivedTypes
  <2>6. catalog'.columns <= table.ver BY <1>0, <2>0, <2>4 DEF ValueInv
  <2>. QED BY <1>0, <1>4, <2>0, <2>1, <2>2, <2>3, <2>4, <2>5, <2>6 DEF ValueInv
<1>10. ASSUME NEW e \in Executors, Complete(e) \/ Fail(e) \/ RefreshCrash(e) PROVE ValueInv'
  <2>1. /\ exec'[e].pc = "idle" /\ exec'[e].ver = 0
        /\ \A f \in Executors \ {e} : exec'[f] = exec[f]
    BY <1>0, <1>10 DEF Complete, Fail, RefreshCrash, Idle
  <2>2. UNCHANGED <<table, catalog>> BY <1>10 DEF Complete, Fail, RefreshCrash
  <2>3. dt'.rows = dt.rows BY <1>10 DEF Complete, Fail, Failed, RefreshCrash, DerivedTypes
  <2>. QED BY <1>0, <1>4, <2>1, <2>2, <2>3 DEF ValueInv
<1>. QED BY <1>1, <1>2, <1>3, <1>5, <1>6, <1>7, <1>8, <1>9, <1>10 DEF DerivedNext, Step

\* A job of a derived table is attempted at most Attempts times and once more for each
\* stall, although the executor that lost it still queues it again when it fails; and
\* what the row, the table and the description say are counts of the query.
THEOREM DerivedTypeCorrect == DerivedSpec => []DerivedTypeOK
<1>1. DerivedInit => DerivedInv BY DerivedInvInit
<1>2. DerivedInv /\ [DerivedNext]_derivedVars => DerivedInv' BY DerivedInvStep
<1>3. DerivedInit => BudgetInv
  <2>1. ASSUME DerivedInit PROVE BudgetInv
    <3>1. Late = {} /\ Armed = {} BY <2>1 DEF DerivedInit, Idle, Late, Armed
    <3>2. Cardinality(Late) = 0 /\ Cardinality(Armed) = 0 BY <3>1, FS_EmptySet
    <3>. QED BY <2>1, <3>2, DerivedAssumption DEF DerivedInit, BudgetInv, Idle
  <2>. QED BY <2>1
<1>4. DerivedInit => ValueInv BY DEF DerivedInit, ValueInv, Idle
<1>5. DerivedInv /\ DerivedInv' /\ BudgetInv /\ [DerivedNext]_derivedVars => BudgetInv'
  BY BudgetStep DEF DerivedInv
<1>6. DerivedInv /\ ValueInv /\ [DerivedNext]_derivedVars => ValueInv'
  BY ValueStep DEF DerivedInv
<1>7. ASSUME DerivedInv, BudgetInv, ValueInv PROVE DerivedTypeOK
  <2>1. DerivedTypes BY <1>7 DEF DerivedInv
  <2>2. dt \in [exists : BOOLEAN, cron : BOOLEAN, next : {"none", "set"},
                status : {"new", "queued", "running", "ok", "failed"}, rows : Counts \cup {0}]
    BY <1>7, <2>1 DEF DerivedTypes, ValueInv
  <2>3. derivedJob \in [id : 0..MaxRequests, status : {"none", "queued", "running"},
                        attempts : 0..(Attempts + MaxFaults), by : Executors \cup {"nobody"}]
    <3>1. /\ derivedJob.id \in Nat /\ derivedJob.id <= used.requests
          /\ derivedJob.attempts \in Nat /\ derivedJob.attempts <= Attempts + used.faults
          /\ used.requests \in 0..MaxRequests /\ used.faults \in 0..MaxFaults
      BY <1>7, <2>1 DEF DerivedTypes, BudgetInv
    <3>2. derivedJob.id \in 0..MaxRequests /\ derivedJob.attempts \in 0..(Attempts + MaxFaults)
      BY <1>7, <3>1, UsedTypes
    <3>. QED BY <2>1, <3>2 DEF DerivedTypes
  <2>4. \A e \in Executors :
          exec[e].pc \in {"idle", "read", "start", "query", "swap", "describe", "clear",
                          "columns", "finish", "complete", "catch", "fail"}
    BY <2>1 DEF DerivedTypes, ExecutorState, DerivedPcs
  <2>5. catalog.columns \in 0..table.ver BY <1>7, <2>1 DEF DerivedTypes, ValueInv
  <2>. QED BY <1>7, <2>2, <2>3, <2>4, <2>5 DEF DerivedTypeOK, ValueInv
<1>. QED BY <1>1, <1>2, <1>3, <1>4, <1>5, <1>6, <1>7, PTL DEF DerivedSpec
==============================================================================
