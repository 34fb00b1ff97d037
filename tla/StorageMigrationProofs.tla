------------------------- MODULE StorageMigrationProofs -------------------------
(***************************************************************************)
(* Proofs about StorageMigration: its types, one migration of a scope at a *)
(* time, a project that stays on one server, a move that keeps what was    *)
(* published before it, and reports that tell the truth.                   *)
(***************************************************************************)
EXTENDS StorageMigration, SequenceTheorems, TLAPS

Request == [scope : Requested, target : Servers]

JobRow == [scope : Requested, target : Servers,
           status : {"queued", "running", "completed", "failed"}, attempts : Nat,
           by : Executors \cup {Nowhere}, moved : BOOLEAN]

Place == [Datasets -> Servers \cup {Nowhere}]

Executor == [pc : Pcs, job : Nat, attempt : Nat, from : Place, start : [Datasets -> Nat],
             left : SUBSET Datasets, copy : 0..(MaxLoads + 1), again : BOOLEAN]

QueueInv ==
  /\ jobs \in Seq(JobRow) /\ asking \in Seq(Request) /\ Len(jobs) + Len(asking) <= MaxJobs

\* No table holds a load that has not begun.
StoreInv ==
  /\ pointer \in Place /\ load \in Place /\ creating \in Servers \cup {Nowhere}
  /\ used \in [loads : 0..MaxLoads, changes : Nat, faults : Nat]
  /\ stored \in [Servers -> [Datasets -> Nat]]
  /\ \A t \in Servers, d \in Datasets : stored[t][d] <= used.loads + 1

\* Nor does an executor, which only has datasets left that it has planned.
Sound(r) ==
  /\ r.pc # "idle" => r.job \in 1..Len(jobs)
  /\ r.pc \in {"read", "swap"} => r.left \subseteq {d \in Datasets : r.from[d] # Nowhere}
  /\ r.pc = "swap" => r.left # {} /\ r.copy > 0
  /\ r.copy <= used.loads + 1

ExecInv == exec \in [Executors -> Executor] /\ \A e \in Executors : Sound(exec[e])

TypeInv == QueueInv /\ StoreInv /\ ExecInv

------------------------------------------------------------------------------
(* What each kind of step does to the rows and the executors *)

\* The dataset an executor is at.
At(e) == CHOOSE d \in exec[e].left : TRUE

LEMMA AtIsLeft ==
  ASSUME NEW e, exec[e].left # {}
  PROVE  At(e) \in exec[e].left
BY DEF At

LEMMA IdleIs ==
  ASSUME MigrationAssumption
  PROVE  /\ Idle \in Executor /\ Idle.pc = "idle" /\ Idle.from = Free /\ Idle.left = {}
         /\ Idle.copy = 0 /\ Idle.job = 0
BY DEF Idle, Executor, Free, Place, Pcs, MigrationAssumption

\* A sequence without one of its elements.
LEMMA RemoveAtIs ==
  ASSUME NEW S, NEW s \in Seq(S), NEW i \in 1..Len(s)
  PROVE  /\ RemoveAt(s, i) \in Seq(S) /\ Len(RemoveAt(s, i)) = Len(s) - 1
         /\ \A k \in 1..(Len(s) - 1) : RemoveAt(s, i)[k] = s[IF k < i THEN k ELSE k + 1]
<1>. DEFINE a == SubSeq(s, 1, i - 1)
            b == SubSeq(s, i + 1, Len(s))
<1>1. a \in Seq(S) /\ Len(a) = i - 1 /\ \A k \in 1..(i - 1) : a[k] = s[k] OBVIOUS
<1>2. b \in Seq(S) /\ Len(b) = Len(s) - i /\ \A k \in 1..(Len(s) - i) : b[k] = s[i + k] OBVIOUS
<1>3. RemoveAt(s, i) = a \o b BY DEF RemoveAt
<1>. HIDE DEF a, b
<1>4. /\ a \o b \in Seq(S) /\ Len(a \o b) = Len(a) + Len(b)
      /\ \A k \in 1..Len(a) + Len(b) :
           (a \o b)[k] = IF k <= Len(a) THEN a[k] ELSE b[k - Len(a)]
  BY <1>1, <1>2, ConcatProperties
<1>5. ASSUME NEW k \in 1..(Len(s) - 1)
      PROVE  (a \o b)[k] = s[IF k < i THEN k ELSE k + 1]
  <2>0. k \in Nat /\ i \in Nat /\ Len(s) \in Nat /\ k \in 1..Len(a) + Len(b) BY <1>1, <1>2
  <2>1. CASE k < i
    <3>1. k \in 1..(i - 1) /\ k <= Len(a) BY <1>1, <2>0, <2>1
    <3>. QED BY <1>1, <1>4, <2>0, <2>1, <3>1
  <2>2. CASE k >= i
    <3>1. (a \o b)[k] = b[k - (i - 1)] BY <1>1, <1>4, <2>0, <2>2
    <3>2. k - (i - 1) \in 1..(Len(s) - i) BY <2>0, <2>2
    <3>3. i + (k - (i - 1)) = k + 1 BY <2>0
    <3>4. b[k - (i - 1)] = s[i + (k - (i - 1))] BY <1>2, <3>2
    <3>. QED BY <2>0, <2>2, <3>1, <3>3, <3>4
  <2>. QED BY <2>0, <2>1, <2>2
<1>. QED BY <1>1, <1>2, <1>3, <1>4, <1>5

\* What a step does to one row of the queue, and to one executor.
Row(j, r) == jobs' = [jobs EXCEPT ![j] = r]
Runs(e, r) == exec' = [exec EXCEPT ![e] = r]

LEMMA RowKeepsTypes ==
  ASSUME jobs \in Seq(JobRow), NEW j \in 1..Len(jobs), NEW r \in JobRow, Row(j, r)
  PROVE  /\ jobs' \in Seq(JobRow) /\ Len(jobs') = Len(jobs)
         /\ \A k \in 1..Len(jobs) : jobs'[k] = IF k = j THEN r ELSE jobs[k]
BY DEF Row

LEMMA RunsKeepsTypes ==
  ASSUME exec \in [Executors -> Executor], NEW e \in Executors, NEW r \in Executor, Runs(e, r)
  PROVE  /\ exec' \in [Executors -> Executor]
         /\ \A f \in Executors : exec'[f] = IF f = e THEN r ELSE exec[f]
BY DEF Runs

LEMMA JobTypes ==
  ASSUME QueueInv
  PROVE  /\ Len(jobs) \in Nat /\ DOMAIN jobs = 1..Len(jobs)
         /\ \A j \in 1..Len(jobs) : jobs[j] \in JobRow
         /\ Len(asking) \in Nat /\ DOMAIN asking = 1..Len(asking)
         /\ \A i \in 1..Len(asking) : asking[i] \in Request
BY DEF QueueInv

------------------------------------------------------------------------------
(* Types *)

LEMMA TypesHold ==
  ASSUME MigrationAssumption, TypeInv
  PROVE  TypeOK
<1>1. stored \in [Servers -> [Datasets -> 0..(MaxLoads + 1)]]
  <2>1. MaxLoads \in Nat /\ used.loads <= MaxLoads /\ used.loads \in Nat
    BY DEF MigrationAssumption, TypeInv, StoreInv
  <2>. QED BY <2>1 DEF TypeInv, StoreInv
<1>2. jobs \in Seq(JobRow) /\ DOMAIN jobs = 1..Len(jobs) BY DEF TypeInv, QueueInv
<1>. QED BY <1>1, <1>2
         DEF TypeOK, TypeInv, QueueInv, StoreInv, ExecInv, Sound, JobRow, Executor, Place

LEMMA InitTypes ==
  ASSUME MigrationAssumption, Init
  PROVE  TypeInv
<1>1. QueueInv BY DEF Init, QueueInv, MigrationAssumption
<1>2. StoreInv
  <2>1. PICK ds \in SUBSET Datasets :
          /\ pointer = [d \in Datasets |-> IF d \in ds THEN Home ELSE Nowhere]
          /\ stored = [t \in Servers |-> [d \in Datasets |-> IF t = Home /\ d \in ds THEN 1 ELSE 0]]
    BY DEF Init
  <2>2. used \in [loads : 0..MaxLoads, changes : Nat, faults : Nat] /\ used.loads = 0
    BY DEF Init, MigrationAssumption
  <2>3. pointer \in Place /\ load \in Place /\ creating = Nowhere
    BY <2>1 DEF Init, MigrationAssumption, Place, Free
  <2>. QED BY <2>1, <2>2, <2>3 DEF StoreInv
<1>3. ExecInv BY IdleIs DEF Init, ExecInv, Sound
<1>. QED BY <1>1, <1>2, <1>3 DEF TypeInv

\* An executor takes a step, and the rows keep their number.
LEMMA RunsKeepsSound ==
  ASSUME ExecInv, NEW e \in Executors, NEW r \in Executor, Runs(e, r), Sound(r),
         Len(jobs') = Len(jobs), used'.loads = used.loads
  PROVE  ExecInv'
BY RunsKeepsTypes DEF ExecInv, Sound

LEMMA IdleSound ==
  ASSUME MigrationAssumption, StoreInv
  PROVE  Sound(Idle)
BY IdleIs DEF Sound, StoreInv

\* The steps of an executor that neither reads nor writes a table.
LEMMA ClaimTypes ==
  ASSUME MigrationAssumption, TypeInv, NEW e \in Executors, Claim(e)
  PROVE  TypeInv'
<1>. USE DEF TypeInv
<1>0. DOMAIN jobs = 1..Len(jobs) /\ \A j \in 1..Len(jobs) : jobs[j] \in JobRow BY JobTypes
<1>1. PICK j \in DOMAIN jobs :
        /\ jobs[j].status = "queued"
        /\ jobs' = [jobs EXCEPT ![j].status = "running", ![j].attempts = @ + 1, ![j].by = e]
        /\ Runs(e, [Idle EXCEPT !.pc = "plan", !.job = j, !.attempt = jobs[j].attempts + 1])
  BY DEF Claim, Runs
<1>. DEFINE q == [jobs[j] EXCEPT !.status = "running", !.attempts = @ + 1, !.by = e]
            r == [Idle EXCEPT !.pc = "plan", !.job = j, !.attempt = jobs[j].attempts + 1]
<1>2. jobs[j] \in JobRow /\ q \in JobRow
  <2>1. jobs[j] \in JobRow BY <1>0
  <2>2. q.attempts \in Nat BY <2>1 DEF JobRow
  <2>3. q \in JobRow BY <2>1, <2>2 DEF JobRow
  <2>. QED BY <2>1, <2>3
<1>3. jobs' \in Seq(JobRow) /\ Len(jobs') = Len(jobs)
  <2>1. Row(j, q) BY <1>0, <1>1 DEF Row
  <2>. QED BY <1>0, <1>2, <2>1, RowKeepsTypes DEF QueueInv
<1>4. jobs[j].attempts \in Nat BY <1>2 DEF JobRow
<1>5. r \in Executor /\ Sound(r)
  <2>0. j \in Nat /\ jobs[j].attempts + 1 \in Nat /\ "plan" \in Pcs BY <1>0, <1>4 DEF Pcs
  <2>1. r \in Executor BY <2>0, IdleIs DEF Executor
  <2>2. r.pc = "plan" /\ r.job = j /\ r.copy = 0 BY IdleIs DEF Executor
  <2>. QED BY <2>1, <2>2, IdleSound, IdleIs DEF Sound
<1>6. ExecInv' BY <1>1, <1>3, <1>5, RunsKeepsSound DEF Claim
<1>. QED BY <1>3, <1>6 DEF Claim, QueueInv, StoreInv

LEMMA StatusChanges ==
  ASSUME QueueInv, NEW j \in 1..Len(jobs), NEW st \in {"queued", "running", "completed", "failed"},
         jobs' = [jobs EXCEPT ![j].status = st]
  PROVE  /\ jobs' \in Seq(JobRow) /\ Len(jobs') = Len(jobs)
         /\ \A k \in 1..Len(jobs) :
              /\ jobs'[k].scope = jobs[k].scope /\ jobs'[k].target = jobs[k].target
              /\ jobs'[k].by = jobs[k].by /\ jobs'[k].moved = jobs[k].moved
              /\ jobs'[k].status = IF k = j THEN st ELSE jobs[k].status
<1>. DEFINE q == [jobs[j] EXCEPT !.status = st]
<1>1. jobs[j] \in JobRow /\ q \in JobRow BY JobTypes DEF JobRow
<1>2. Row(j, q) BY JobTypes DEF Row
<1>3. /\ jobs' \in Seq(JobRow) /\ Len(jobs') = Len(jobs)
      /\ \A k \in 1..Len(jobs) : jobs'[k] = IF k = j THEN q ELSE jobs[k]
  BY <1>1, <1>2, RowKeepsTypes DEF QueueInv
<1>. QED BY <1>1, <1>3 DEF JobRow

LEMMA ScopeIs ==
  ASSUME MigrationAssumption, QueueInv, NEW j \in 1..Len(jobs)
  PROVE  Covered(jobs[j].scope) \subseteq Datasets /\ jobs[j].target \in Servers
BY JobTypes DEF Covered, JobRow, MigrationAssumption

\* What an executor that is not idle works on.
LEMMA WorkIs ==
  ASSUME MigrationAssumption, TypeInv, NEW e \in Executors, exec[e].pc # "idle"
  PROVE  /\ exec[e] \in Executor /\ exec[e].job \in 1..Len(jobs) /\ Target(e) \in Servers
         /\ ToMigrate(e) \subseteq Live /\ \A d \in ToMigrate(e) : pointer[d] \in Servers
         /\ \A d \in Migrated(e) : exec[e].from[d] \in Servers
<1>1. exec[e] \in Executor /\ exec[e].job \in 1..Len(jobs) BY DEF TypeInv, ExecInv, Sound
<1>2. Target(e) \in Servers /\ ToMigrate(e) \subseteq Live
  BY <1>1, ScopeIs DEF Target, ToMigrate, TypeInv, Live
<1>3. \A d \in ToMigrate(e) : pointer[d] \in Servers
  BY <1>2 DEF Live, Exists, TypeInv, StoreInv, Place
<1>4. \A d \in Migrated(e) : exec[e].from[d] \in Servers
  BY <1>1 DEF Migrated, Executor, Place
<1>. QED BY <1>1, <1>2, <1>3, <1>4

LEMMA PlanTypes ==
  ASSUME MigrationAssumption, TypeInv, NEW e \in Executors, Plan(e)
  PROVE  TypeInv'
<1>. DEFINE m == ToMigrate(e)
            from == [d \in Datasets |-> IF d \in m THEN pointer[d] ELSE Nowhere]
            start == [d \in Datasets |-> IF d \in m THEN stored[pointer[d]][d] ELSE 0]
            none == [exec[e] EXCEPT !.pc = "fail", !.again = FALSE]
            some == [exec[e] EXCEPT !.pc = "read", !.left = m, !.from = from, !.start = start]
<1>1. Runs(e, IF m = {} THEN none ELSE some) BY DEF Plan, Runs
<1>2. exec[e] \in Executor /\ exec[e].job \in 1..Len(jobs) BY WorkIs DEF Plan
<1>3. m \subseteq Datasets /\ \A d \in m : pointer[d] \in Servers BY WorkIs DEF Plan, Live
<1>4. from \in Place BY <1>3 DEF Place
<1>5. start \in [Datasets -> Nat] BY <1>3 DEF TypeInv, StoreInv
<1>6. none \in Executor /\ some \in Executor BY <1>2, <1>3, <1>4, <1>5 DEF Executor, Pcs
<1>7. Sound(exec[e]) BY DEF TypeInv, ExecInv
<1>8. Sound(none) BY <1>2, <1>7 DEF Sound, Executor
<1>9. Sound(some)
  <2>1. \A d \in m : d \in Datasets /\ some.from[d] # Nowhere
    BY <1>2, <1>3 DEF Executor, MigrationAssumption
  <2>2. some.left = m /\ some.job = exec[e].job /\ some.copy = exec[e].copy /\ some.pc = "read"
    BY <1>2 DEF Executor
  <2>. QED BY <1>2, <1>7, <2>1, <2>2 DEF Sound
<1>. HIDE DEF none, some
<1>10. ExecInv' BY <1>1, <1>6, <1>8, <1>9, RunsKeepsSound DEF Plan, TypeInv
<1>. QED BY <1>10 DEF Plan, TypeInv, QueueInv, StoreInv

LEMMA ReadTypes ==
  ASSUME MigrationAssumption, TypeInv, NEW e \in Executors, ReadTable(e)
  PROVE  TypeInv'
<1>. DEFINE d == At(e)
            take == [exec[e] EXCEPT !.pc = "swap", !.copy = stored[exec[e].from[d]][d]]
            skip == [exec[e] EXCEPT !.left = @ \ {d}]
<1>1. Runs(e, IF ToCopy(e, d) THEN take ELSE skip) /\ exec[e].pc = "read"
  BY WorkIs DEF ReadTable, Runs, At, TypeInv, ExecInv
<1>2. exec[e] \in Executor /\ exec[e].job \in 1..Len(jobs) /\ Sound(exec[e])
  BY <1>1, WorkIs DEF TypeInv, ExecInv
<1>3. d \in exec[e].left /\ d \in Datasets /\ exec[e].from[d] \in Servers
  BY <1>1, <1>2, WorkIs, AtIsLeft DEF ReadTable, Sound, Migrated
<1>4. /\ stored[exec[e].from[d]][d] \in Nat /\ stored[exec[e].from[d]][d] <= used.loads + 1
      /\ used.loads \in 0..MaxLoads
  BY <1>3 DEF TypeInv, StoreInv
<1>5. stored[exec[e].from[d]][d] \in 0..(MaxLoads + 1) BY <1>4 DEF MigrationAssumption
<1>6. take \in Executor /\ skip \in Executor BY <1>2, <1>5 DEF Executor, Pcs
<1>7. Sound(skip) BY <1>1, <1>2 DEF Sound, Executor
<1>8. ToCopy(e, d) => Sound(take)
  <2>1. /\ take.pc = "swap" /\ take.left = exec[e].left /\ take.from = exec[e].from
        /\ take.job = exec[e].job /\ take.copy = stored[exec[e].from[d]][d]
    BY <1>2 DEF Executor
  <2>2. exec[e].left \subseteq {c \in Datasets : exec[e].from[c] # Nowhere} /\ exec[e].left # {}
    BY <1>1, <1>2, <1>3 DEF Sound
  <2>3. ToCopy(e, d) => take.copy > 0 BY <1>4, <2>1 DEF ToCopy
  <2>. QED BY <1>2, <1>4, <2>1, <2>2, <2>3 DEF Sound
<1>. HIDE DEF take, skip
<1>9. ExecInv' BY <1>1, <1>6, <1>7, <1>8, RunsKeepsSound DEF ReadTable, TypeInv
<1>. QED BY <1>9 DEF ReadTable, TypeInv, QueueInv, StoreInv

LEMMA SwapTypes ==
  ASSUME MigrationAssumption, TypeInv, NEW e \in Executors, AtomicSwap(e)
  PROVE  TypeInv'
<1>. DEFINE d == At(e)
            r == [exec[e] EXCEPT !.pc = "read", !.left = @ \ {d}, !.copy = 0]
<1>1. Runs(e, r) /\ stored' = [stored EXCEPT ![Target(e)][d] = exec[e].copy] /\ exec[e].pc = "swap"
  BY WorkIs DEF AtomicSwap, Runs, At, TypeInv, ExecInv
<1>2. exec[e] \in Executor /\ exec[e].job \in 1..Len(jobs) /\ Sound(exec[e]) /\ Target(e) \in Servers
  BY <1>1, WorkIs DEF TypeInv, ExecInv
<1>3. r \in Executor
  <2>1. 0 \in 0..(MaxLoads + 1) BY DEF MigrationAssumption
  <2>. QED BY <1>2, <2>1 DEF Executor, Pcs
<1>4. Sound(r)
  <2>1. 0 <= used.loads + 1 BY DEF TypeInv, StoreInv
  <2>. QED BY <1>1, <1>2, <2>1 DEF Sound, Executor
<1>5. ExecInv' BY <1>1, <1>3, <1>4, RunsKeepsSound DEF AtomicSwap, TypeInv
<1>6. exec[e].copy \in Nat /\ exec[e].copy <= used.loads + 1 BY <1>2 DEF Executor, Sound
<1>7. /\ stored' \in [Servers -> [Datasets -> Nat]]
      /\ \A t \in Servers, c \in Datasets :
           stored'[t][c] = IF t = Target(e) /\ c = d THEN exec[e].copy ELSE stored[t][c]
  BY <1>1, <1>2, <1>6 DEF TypeInv, StoreInv
<1>8. StoreInv' BY <1>6, <1>7 DEF AtomicSwap, TypeInv, StoreInv
<1>. QED BY <1>5, <1>8 DEF AtomicSwap, TypeInv, QueueInv

LEMMA MovedIs ==
  ASSUME MigrationAssumption, TypeInv, NEW e \in Executors, exec[e].pc = "read",
         exec[e].left = {}, Commit(e), Migrated(e) \subseteq Live
  PROVE  /\ pointer' \in Place
         /\ \A d \in Datasets :
              pointer'[d] = IF d \in Migrated(e) THEN Target(e) ELSE pointer[d]
         /\ jobs' \in Seq(JobRow) /\ Len(jobs') = Len(jobs)
         /\ \A k \in 1..Len(jobs) :
              /\ jobs'[k].scope = jobs[k].scope /\ jobs'[k].target = jobs[k].target
              /\ jobs'[k].by = jobs[k].by /\ jobs'[k].status = jobs[k].status
              /\ jobs'[k].moved = (jobs[k].moved \/ k = exec[e].job)
         /\ Runs(e, [exec[e] EXCEPT !.pc = "complete"])
<1>1. /\ pointer' = Moved(e) /\ jobs' = [jobs EXCEPT ![exec[e].job].moved = TRUE]
      /\ exec' = [exec EXCEPT ![e].pc = "complete"]
  BY DEF Commit
<1>2. Target(e) \in Servers /\ exec[e].job \in 1..Len(jobs) BY WorkIs
<1>3. /\ pointer' \in Place
      /\ \A d \in Datasets : pointer'[d] = IF d \in Migrated(e) THEN Target(e) ELSE pointer[d]
  BY <1>1, <1>2 DEF Moved, Place, TypeInv, StoreInv
<1>. DEFINE j == exec[e].job
            q == [jobs[j] EXCEPT !.moved = TRUE]
<1>4. QueueInv BY DEF TypeInv
<1>5. jobs[j] \in JobRow /\ q \in JobRow
  <2>1. jobs[j] \in JobRow BY <1>2, <1>4, JobTypes
  <2>2. TRUE \in BOOLEAN OBVIOUS
  <2>3. q \in JobRow BY <2>1, <2>2 DEF JobRow
  <2>. QED BY <2>1, <2>3
<1>6. Row(j, q) BY <1>1, <1>2, <1>4, JobTypes DEF Row
<1>7. /\ jobs' \in Seq(JobRow) /\ Len(jobs') = Len(jobs)
      /\ \A k \in 1..Len(jobs) : jobs'[k] = IF k = j THEN q ELSE jobs[k]
  BY <1>2, <1>4, <1>5, <1>6, RowKeepsTypes DEF QueueInv
<1>8. \A k \in 1..Len(jobs) : jobs[k].moved \in BOOLEAN BY <1>4, JobTypes DEF JobRow
<1>9. q.moved /\ q.scope = jobs[j].scope /\ q.target = jobs[j].target /\ q.by = jobs[j].by
      /\ q.status = jobs[j].status /\ q.moved = TRUE
  BY <1>5 DEF JobRow
<1>10. \A k \in 1..Len(jobs) :
         /\ jobs'[k].scope = jobs[k].scope /\ jobs'[k].target = jobs[k].target
         /\ jobs'[k].by = jobs[k].by /\ jobs'[k].status = jobs[k].status
  BY <1>7, <1>9
<1>11. \A k \in 1..Len(jobs) : jobs'[k].moved = (jobs[k].moved \/ k = exec[e].job)
  BY <1>7, <1>8, <1>9, Zenon
<1>12. Runs(e, [exec[e] EXCEPT !.pc = "complete"]) BY <1>1 DEF Runs, TypeInv, ExecInv
<1>. QED BY <1>3, <1>7, <1>10, <1>11, <1>12

LEMMA CommitTypes ==
  ASSUME MigrationAssumption, TypeInv, NEW e \in Executors, Commit(e)
  PROVE  TypeInv'
<1>1. exec[e].pc = "read" /\ exec[e].left = {} BY DEF Commit
<1>2. exec[e] \in Executor /\ exec[e].job \in 1..Len(jobs) /\ Sound(exec[e])
  BY <1>1, WorkIs DEF TypeInv, ExecInv
<1>3. CASE Migrated(e) \subseteq Live
  <2>. DEFINE r == [exec[e] EXCEPT !.pc = "complete"]
  <2>1. r \in Executor /\ Sound(r) BY <1>2 DEF Executor, Sound, Pcs
  <2>2. Runs(e, r) /\ Len(jobs') = Len(jobs) /\ jobs' \in Seq(JobRow) /\ pointer' \in Place
    BY <1>1, <1>3, MovedIs
  <2>. HIDE DEF r
  <2>3. ExecInv' BY <2>1, <2>2, RunsKeepsSound DEF Commit, TypeInv
  <2>. QED BY <2>2, <2>3 DEF Commit, TypeInv, QueueInv, StoreInv
<1>4. CASE ~(Migrated(e) \subseteq Live)
  <2>. DEFINE r == [exec[e] EXCEPT !.pc = "fail", !.from = Free]
  <2>1. r \in Executor /\ Sound(r) BY <1>2 DEF Executor, Sound, Pcs, Free, Place
  <2>2. Runs(e, r) /\ jobs' = jobs /\ pointer' = pointer BY <1>4 DEF Commit, Runs
  <2>. HIDE DEF r
  <2>3. ExecInv' BY <2>1, <2>2, RunsKeepsSound DEF Commit, TypeInv
  <2>. QED BY <2>2, <2>3 DEF Commit, TypeInv, QueueInv, StoreInv
<1>. QED BY <1>3, <1>4

\* The job of an executor that ends is settled if it still runs.
LEMMA EndsIs ==
  ASSUME MigrationAssumption, TypeInv, NEW e \in Executors, exec[e].pc # "idle",
         NEW st \in {"queued", "completed", "failed"}, Ends(e, st)
  PROVE  /\ jobs' \in Seq(JobRow) /\ Len(jobs') = Len(jobs) /\ Runs(e, Idle)
         /\ \A k \in 1..Len(jobs) :
              /\ jobs'[k].scope = jobs[k].scope /\ jobs'[k].target = jobs[k].target
              /\ jobs'[k].by = jobs[k].by /\ jobs'[k].moved = jobs[k].moved
              /\ jobs'[k].status = IF k = exec[e].job /\ jobs[k].status = "running" THEN st
                                   ELSE jobs[k].status
<1>1. exec[e].job \in 1..Len(jobs) /\ QueueInv BY WorkIs DEF TypeInv
<1>2. CASE Running(e)
  <2>1. jobs' = [jobs EXCEPT ![exec[e].job].status = st] BY <1>2 DEF Ends
  <2>2. st \in {"queued", "running", "completed", "failed"} OBVIOUS
  <2>3. jobs[exec[e].job].status = "running" BY <1>2 DEF Running
  <2>4. /\ jobs' \in Seq(JobRow) /\ Len(jobs') = Len(jobs)
        /\ \A k \in 1..Len(jobs) :
             /\ jobs'[k].scope = jobs[k].scope /\ jobs'[k].target = jobs[k].target
             /\ jobs'[k].by = jobs[k].by /\ jobs'[k].moved = jobs[k].moved
             /\ jobs'[k].status = IF k = exec[e].job THEN st ELSE jobs[k].status
    BY ZenonT(60), <1>1, <2>1, <2>2, StatusChanges
  <2>5. Runs(e, Idle) BY DEF Ends, Runs
  <2>. QED BY <2>3, <2>4, <2>5
<1>3. CASE ~Running(e)
  <2>1. jobs' = jobs BY <1>3 DEF Ends
  <2>2. jobs[exec[e].job].status # "running" BY <1>3 DEF Running
  <2>. QED BY <1>1, <2>1, <2>2 DEF Ends, Runs, QueueInv
<1>. QED BY <1>2, <1>3

LEMMA EndsTypes ==
  ASSUME MigrationAssumption, TypeInv, NEW e \in Executors, Complete(e) \/ Fail(e)
  PROVE  TypeInv'
<1>1. exec[e].pc # "idle" BY DEF Complete, Fail
<1>2. PICK st \in {"queued", "completed", "failed"} : Ends(e, st) BY DEF Complete, Fail
<1>3. jobs' \in Seq(JobRow) /\ Len(jobs') = Len(jobs) /\ Runs(e, Idle) BY <1>1, <1>2, EndsIs
<1>4. ExecInv' BY <1>2, <1>3, IdleIs, IdleSound, RunsKeepsSound DEF Ends, TypeInv
<1>. QED BY <1>2, <1>3, <1>4 DEF Ends, TypeInv, QueueInv, StoreInv

LEMMA FaultIs ==
  ASSUME StoreInv, fault
  PROVE  /\ used' \in [loads : 0..MaxLoads, changes : Nat, faults : Nat]
         /\ used'.loads = used.loads
BY DEF StoreInv, fault

LEMMA ErrorTypes ==
  ASSUME MigrationAssumption, TypeInv, NEW e \in Executors, Error(e)
  PROVE  TypeInv'
<1>. DEFINE r == [Idle EXCEPT !.pc = "fail", !.job = exec[e].job, !.attempt = exec[e].attempt]
<1>1. Runs(e, r) BY DEF Error, AfterError, Runs
<1>2. exec[e] \in Executor /\ exec[e].job \in 1..Len(jobs) BY WorkIs DEF Error
<1>3. Sound(Idle) BY IdleSound DEF TypeInv
<1>4. r \in Executor /\ Sound(r)
  <2>1. exec[e].job \in Nat /\ exec[e].attempt \in Nat /\ "fail" \in Pcs
    BY <1>2 DEF Executor, Pcs
  <2>2. r \in Executor BY <2>1, IdleIs DEF Executor
  <2>3. r.pc = "fail" /\ r.job = exec[e].job /\ r.copy = Idle.copy BY IdleIs DEF Executor
  <2>. QED BY <1>2, <1>3, <2>2, <2>3 DEF Sound
<1>. HIDE DEF r
<1>5. used' \in [loads : 0..MaxLoads, changes : Nat, faults : Nat] /\ used'.loads = used.loads
  BY FaultIs DEF Error, TypeInv
<1>6. ExecInv' BY <1>1, <1>4, <1>5, RunsKeepsSound DEF Error, TypeInv
<1>. QED BY <1>5, <1>6 DEF Error, TypeInv, QueueInv, StoreInv

LEMMA CrashTypes ==
  ASSUME MigrationAssumption, TypeInv, NEW e \in Executors, Crash(e)
  PROVE  TypeInv'
<1>1. used' \in [loads : 0..MaxLoads, changes : Nat, faults : Nat] /\ used'.loads = used.loads
  BY FaultIs DEF Crash, TypeInv
<1>2. ExecInv' BY <1>1, IdleIs, IdleSound, RunsKeepsSound DEF Crash, Runs, TypeInv
<1>. QED BY <1>1, <1>2 DEF Crash, TypeInv, QueueInv, StoreInv

\* The executors go on when only rows and loads change.
LEMMA OthersKeepSound ==
  ASSUME ExecInv, exec' = exec, Len(jobs') = Len(jobs) \/ Len(jobs') = Len(jobs) + 1,
         Len(jobs) \in Nat, used'.loads = used.loads \/ used'.loads = used.loads + 1,
         used.loads \in Nat
  PROVE  ExecInv'
<1>1. ASSUME NEW e \in Executors PROVE Sound(exec[e])'
  <2>1. exec[e] \in Executor /\ Sound(exec[e]) BY DEF ExecInv
  <2>2. exec[e].copy \in Int BY <2>1 DEF Executor
  <2>. QED BY <2>1, <2>2 DEF Sound
<1>. QED BY <1>1 DEF ExecInv

LEMMA RequeueTypes ==
  ASSUME MigrationAssumption, TypeInv, NEW j \in DOMAIN jobs, Recover(j) \/ Stall(j)
  PROVE  TypeInv'
<1>1. QueueInv /\ j \in 1..Len(jobs) /\ Len(jobs) \in Nat BY JobTypes DEF TypeInv
<1>2. Requeued(j) BY DEF Recover, Stall
<1>3. jobs' \in Seq(JobRow) /\ Len(jobs') = Len(jobs)
  BY <1>1, <1>2, StatusChanges DEF Requeued
<1>4. /\ used' \in [loads : 0..MaxLoads, changes : Nat, faults : Nat] /\ used'.loads = used.loads
      /\ used.loads \in Nat
  BY FaultIs DEF Recover, Stall, TypeInv, StoreInv
<1>5. ExecInv' BY <1>1, <1>3, <1>4, OthersKeepSound DEF Recover, Stall, TypeInv
<1>. QED BY <1>3, <1>4, <1>5 DEF Recover, Stall, TypeInv, QueueInv, StoreInv

LEMMA DatasetTypes ==
  ASSUME MigrationAssumption, TypeInv,
         \/ \E d \in Datasets : LoadStart(d) \/ LoadPublish(d) \/ DeleteDataset(d)
         \/ CreateStart \/ CreateEnd
  PROVE  TypeInv'
<1>. DEFINE Counts(n) == /\ used' \in [loads : 0..MaxLoads, changes : Nat, faults : Nat]
                         /\ used'.loads = used.loads + n
<1>1. StoreInv /\ used.loads \in Nat /\ Len(jobs) \in Nat BY JobTypes DEF TypeInv, StoreInv
<1>2. ASSUME NEW d \in Datasets, LoadStart(d)
      PROVE  StoreInv' /\ Counts(1) /\ UNCHANGED <<jobs, asking, exec>>
  <2>0. used.loads \in 0..MaxLoads /\ used.loads < MaxLoads /\ MaxLoads \in Nat
    BY <1>1, <1>2 DEF LoadStart, StoreInv, MigrationAssumption
  <2>4. used.loads + 1 \in 0..MaxLoads BY <2>0
  <2>1. Counts(1) BY <1>1, <1>2, <2>4 DEF LoadStart, StoreInv
  <2>2. load' \in Place BY <1>1, <1>2 DEF LoadStart, StoreInv, Place
  <2>3. \A t \in Servers, c \in Datasets : stored[t][c] <= used'.loads + 1
    BY SMTT(30), <1>1, <2>1 DEF StoreInv
  <2>. QED BY <1>1, <1>2, <2>1, <2>2, <2>3 DEF LoadStart, StoreInv
<1>3. ASSUME NEW d \in Datasets, LoadPublish(d)
      PROVE  StoreInv' /\ Counts(0) /\ UNCHANGED <<jobs, asking, exec>>
  <2>1. load[d] \in Servers /\ stored' = [stored EXCEPT ![load[d]][d] = used.loads + 1]
    BY <1>1, <1>3 DEF LoadPublish, StoreInv, Place
  <2>2. /\ stored' \in [Servers -> [Datasets -> Nat]]
        /\ \A t \in Servers, c \in Datasets :
             stored'[t][c] = IF t = load[d] /\ c = d THEN used.loads + 1 ELSE stored[t][c]
    <3>1. stored \in [Servers -> [Datasets -> Nat]] /\ used.loads + 1 \in Nat
      BY <1>1 DEF StoreInv
    <3>. DEFINE now == [stored[load[d]] EXCEPT ![d] = used.loads + 1]
    <3>2. /\ now \in [Datasets -> Nat]
          /\ \A c \in Datasets : now[c] = IF c = d THEN used.loads + 1 ELSE stored[load[d]][c]
      BY <2>1, <3>1
    <3>3. stored' = [stored EXCEPT ![load[d]] = now] BY <2>1
    <3>. HIDE DEF now
    <3>. QED BY <2>1, <3>1, <3>2, <3>3
  <2>4. \A t \in Servers, c \in Datasets : stored'[t][c] <= used.loads + 1
    <3>1. used.loads + 1 <= used.loads + 1 BY <1>1
    <3>2. \A t \in Servers, c \in Datasets : stored[t][c] <= used.loads + 1 BY <1>1 DEF StoreInv
    <3>. QED BY <2>2, <3>1, <3>2
  <2>3. load' \in Place BY <1>1, <1>3 DEF LoadPublish, StoreInv, Place
  <2>5. /\ pointer' = pointer /\ creating' = creating /\ used' = used
        /\ UNCHANGED <<jobs, asking, exec>>
    BY <1>3 DEF LoadPublish
  <2>6. StoreInv'
    <3>1. /\ pointer' \in Place /\ creating' \in Servers \cup {Nowhere}
          /\ used' \in [loads : 0..MaxLoads, changes : Nat, faults : Nat]
      BY <1>1, <2>5 DEF StoreInv
    <3>. QED BY <2>2, <2>3, <2>4, <2>5, <3>1 DEF StoreInv
  <2>7. used'.loads = used.loads + 0 BY <1>1, <2>5
  <2>8. used' \in [loads : 0..MaxLoads, changes : Nat, faults : Nat] BY <1>1, <2>5 DEF StoreInv
  <2>9. Counts(0) BY <2>7, <2>8
  <2>. HIDE DEF Counts
  <2>. QED BY <2>5, <2>6, <2>9
<1>4. ASSUME NEW d \in Datasets, DeleteDataset(d)
      PROVE  StoreInv' /\ Counts(0) /\ UNCHANGED <<jobs, asking, exec>>
  <2>1. pointer' \in Place BY <1>1, <1>4 DEF DeleteDataset, StoreInv, Place
  <2>3. used.changes \in Nat /\ used.changes + 1 \in Nat BY <1>1 DEF StoreInv
  <2>4. used' = [used EXCEPT !.changes = used.changes + 1] BY <1>4 DEF DeleteDataset
  <2>2. Counts(0) BY SMTT(30), <1>1, <2>3, <2>4 DEF StoreInv
  <2>. QED BY <1>1, <1>4, <2>1, <2>2 DEF DeleteDataset, StoreInv
<1>5. ASSUME CreateStart
      PROVE  StoreInv' /\ Counts(0) /\ UNCHANGED <<jobs, asking, exec>>
  <2>1. creating' \in Servers BY <1>1, <1>5 DEF CreateStart, Live, Exists, StoreInv, Place
  <2>3. used.changes \in Nat /\ used.changes + 1 \in Nat BY <1>1 DEF StoreInv
  <2>2. Counts(0) BY <1>1, <1>5, <2>3 DEF CreateStart, StoreInv
  <2>. QED BY <1>1, <1>5, <2>1, <2>2 DEF CreateStart, StoreInv
<1>6. ASSUME CreateEnd
      PROVE  StoreInv' /\ Counts(0) /\ UNCHANGED <<jobs, asking, exec>>
  <2>1. pointer' \in Place BY <1>1, <1>6 DEF CreateEnd, StoreInv, Place, Live
  <2>2. used' = used BY <1>6 DEF CreateEnd
  <2>3. Counts(0) BY <1>1, <2>2 DEF StoreInv
  <2>. QED BY <1>1, <1>6, <2>1, <2>2, <2>3 DEF CreateEnd, StoreInv
<1>7. StoreInv' /\ (Counts(0) \/ Counts(1)) /\ UNCHANGED <<jobs, asking, exec>>
  BY <1>2, <1>3, <1>4, <1>5, <1>6
<1>8. ExecInv' BY <1>1, <1>7, OthersKeepSound DEF TypeInv
<1>. QED BY <1>7, <1>8 DEF TypeInv, QueueInv

LEMMA AskIs ==
  ASSUME MigrationAssumption, TypeInv, NEW scope \in Requested, NEW target \in Servers,
         Ask(scope, target)
  PROVE  /\ asking' \in Seq(Request) /\ Len(asking') = Len(asking) + 1
         /\ Len(asking) \in Nat /\ Len(jobs) + Len(asking) < MaxJobs
         /\ \A i \in 1..Len(asking) : asking'[i] = asking[i]
         /\ asking'[Len(asking) + 1].scope = scope
<1>. DEFINE r == [scope |-> scope, target |-> target]
<1>1. r \in Request /\ asking \in Seq(Request) BY DEF Request, TypeInv, QueueInv
<1>2. asking' = Append(asking, r) /\ Len(jobs) + Len(asking) < MaxJobs BY DEF Ask
<1>. QED BY <1>1, <1>2

LEMMA AskTypes ==
  ASSUME MigrationAssumption, TypeInv, NEW scope \in Requested, NEW target \in Servers,
         Ask(scope, target)
  PROVE  TypeInv'
<1>1. Len(jobs) \in Nat /\ MaxJobs \in Nat BY JobTypes DEF TypeInv, MigrationAssumption
<1>2. QueueInv' BY <1>1, AskIs DEF Ask, TypeInv, QueueInv
<1>. QED BY <1>2 DEF Ask, TypeInv, StoreInv, ExecInv, Sound

\* The request that has held its lock becomes the last row of the queue.
LEMMA CreateJobIs ==
  ASSUME MigrationAssumption, TypeInv, CreateJob
  PROVE  \E i \in 1..Len(asking) :
           /\ asking' \in Seq(Request) /\ Len(asking') = Len(asking) - 1
           /\ \A k \in 1..(Len(asking) - 1) : asking'[k] = asking[IF k < i THEN k ELSE k + 1]
           /\ jobs' \in Seq(JobRow) /\ Len(jobs') = Len(jobs) + 1
           /\ \A j \in 1..Len(jobs) : jobs'[j] = jobs[j]
           /\ jobs'[Len(jobs) + 1].scope = asking[i].scope
           /\ jobs'[Len(jobs) + 1].status = "queued" /\ ~jobs'[Len(jobs) + 1].moved
           /\ past' = IF asking[i].scope = Project THEN past ELSE past \cup {"apart"}
<1>1. QueueInv /\ DOMAIN asking = 1..Len(asking) BY JobTypes DEF TypeInv
<1>2. PICK i \in 1..Len(asking) :
        /\ asking' = RemoveAt(asking, i)
        /\ jobs' = Append(jobs, [scope |-> asking[i].scope, target |-> asking[i].target,
                                 status |-> "queued", attempts |-> 0, by |-> Nowhere,
                                 moved |-> FALSE])
        /\ past' = IF asking[i].scope = Project THEN past ELSE past \cup {"apart"}
  BY <1>1 DEF CreateJob
<1>. DEFINE q == [scope |-> asking[i].scope, target |-> asking[i].target, status |-> "queued",
                  attempts |-> 0, by |-> Nowhere, moved |-> FALSE]
<1>3. asking[i] \in Request BY <1>1, JobTypes
<1>4. q \in JobRow /\ q.scope = asking[i].scope /\ q.status = "queued" /\ ~q.moved
  BY <1>3 DEF JobRow, Request
<1>. HIDE DEF q
<1>5. jobs' = Append(jobs, q) BY <1>2 DEF q
<1>6. /\ jobs' \in Seq(JobRow) /\ Len(jobs') = Len(jobs) + 1 /\ jobs'[Len(jobs) + 1] = q
      /\ \A j \in 1..Len(jobs) : jobs'[j] = jobs[j]
  BY <1>1, <1>4, <1>5 DEF QueueInv
<1>7. /\ asking' \in Seq(Request) /\ Len(asking') = Len(asking) - 1
      /\ \A k \in 1..(Len(asking) - 1) : asking'[k] = asking[IF k < i THEN k ELSE k + 1]
  BY <1>1, <1>2, RemoveAtIs DEF QueueInv
<1>. QED BY <1>2, <1>4, <1>6, <1>7

LEMMA CreateJobTypes ==
  ASSUME MigrationAssumption, TypeInv, CreateJob
  PROVE  TypeInv'
<1>1. /\ asking' \in Seq(Request) /\ Len(asking') = Len(asking) - 1
      /\ jobs' \in Seq(JobRow) /\ Len(jobs') = Len(jobs) + 1
  BY CreateJobIs
<1>2. Len(jobs) \in Nat /\ Len(asking) \in Nat /\ used.loads \in Nat
  BY JobTypes DEF TypeInv, StoreInv
<1>3. QueueInv' BY <1>1, <1>2 DEF TypeInv, QueueInv
<1>4. ExecInv' BY <1>1, <1>2, OthersKeepSound DEF CreateJob, TypeInv
<1>. QED BY <1>3, <1>4 DEF CreateJob, TypeInv, StoreInv

LEMMA StepTypes ==
  ASSUME MigrationAssumption, TypeInv, [Next]_vars
  PROVE  TypeInv'
<1>1. CASE UNCHANGED vars
  BY <1>1 DEF vars, TypeInv, QueueInv, StoreInv, ExecInv, Sound
<1>2. ASSUME NEW e \in Executors, Claim(e) \/ Step(e) \/ Error(e) \/ Crash(e)
      PROVE  TypeInv'
  BY <1>2, ClaimTypes, PlanTypes, ReadTypes, SwapTypes, CommitTypes, EndsTypes, ErrorTypes,
     CrashTypes DEF Step
<1>3. ASSUME NEW j \in DOMAIN jobs, Recover(j) \/ Stall(j) PROVE TypeInv' BY <1>3, RequeueTypes
<1>4. ASSUME NEW scope \in Requested, NEW target \in Servers, Ask(scope, target) PROVE TypeInv'
  BY <1>4, AskTypes
<1>. QED BY <1>1, <1>2, <1>3, <1>4, DatasetTypes, CreateJobTypes DEF Next

\* The variables keep their types, whatever the datasets, servers and executors.
THEOREM TypeCorrect == Spec => []TypeOK
<1>1. Init => TypeInv BY InitTypes, MigrationAssumption
<1>2. TypeInv /\ [Next]_vars => TypeInv' BY StepTypes, MigrationAssumption
<1>3. TypeInv => TypeOK BY TypesHold, MigrationAssumption
<1>. QED BY <1>1, <1>2, <1>3, PTL DEF Spec

------------------------------------------------------------------------------
(* One migration of a scope at a time *)

Open == {"queued", "running"}

\* A request that holds its lock is alone with its scope, and nothing of its
\* scope is under way.
ScopeInv ==
  /\ \A i, k \in 1..Len(asking) : asking[i].scope = asking[k].scope => i = k
  /\ \A i \in 1..Len(asking), j \in 1..Len(jobs) :
       jobs[j].status \in Open => jobs[j].scope # asking[i].scope
  /\ \A i, j \in 1..Len(jobs) :
       jobs[i].status \in Open /\ jobs[j].status \in Open /\ jobs[i].scope = jobs[j].scope => i = j

\* Most steps only settle rows, or move them between waiting and running.
RowsKept ==
  /\ asking' = asking /\ Len(jobs') = Len(jobs)
  /\ \A j \in 1..Len(jobs) : /\ jobs'[j].scope = jobs[j].scope
                             /\ jobs'[j].status \in Open => jobs[j].status \in Open

LEMMA ClaimIs ==
  ASSUME MigrationAssumption, TypeInv, NEW e \in Executors, Claim(e)
  PROVE  \E j \in 1..Len(jobs) :
           /\ jobs[j].status = "queued" /\ Len(jobs') = Len(jobs)
           /\ \A k \in 1..Len(jobs) :
                /\ jobs'[k].scope = jobs[k].scope /\ jobs'[k].target = jobs[k].target
                /\ jobs'[k].moved = jobs[k].moved
                /\ jobs'[k].by = IF k = j THEN e ELSE jobs[k].by
                /\ jobs'[k].status = IF k = j THEN "running" ELSE jobs[k].status
           /\ exec' = [exec EXCEPT ![e] = [Idle EXCEPT !.pc = "plan", !.job = j,
                                                       !.attempt = jobs[j].attempts + 1]]
<1>0. DOMAIN jobs = 1..Len(jobs) /\ Len(jobs) \in Nat /\ \A j \in 1..Len(jobs) : jobs[j] \in JobRow
  BY JobTypes DEF TypeInv
<1>1. PICK j \in DOMAIN jobs :
        /\ jobs[j].status = "queued"
        /\ jobs' = [jobs EXCEPT ![j].status = "running", ![j].attempts = @ + 1, ![j].by = e]
        /\ exec' = [exec EXCEPT ![e] = [Idle EXCEPT !.pc = "plan", !.job = j,
                                                    !.attempt = jobs[j].attempts + 1]]
  BY DEF Claim
<1>. DEFINE q == [jobs[j] EXCEPT !.status = "running", !.attempts = @ + 1, !.by = e]
<1>2. jobs' = [jobs EXCEPT ![j] = q] /\ jobs[j] \in JobRow BY <1>0, <1>1
<1>3. /\ q.scope = jobs[j].scope /\ q.target = jobs[j].target /\ q.moved = jobs[j].moved
      /\ q.by = e /\ q.status = "running"
  BY <1>2 DEF JobRow
<1>. HIDE DEF q
<1>4. Len(jobs') = Len(jobs) /\ \A k \in 1..Len(jobs) : jobs'[k] = IF k = j THEN q ELSE jobs[k]
  BY <1>0, <1>2 DEF TypeInv, QueueInv
<1>5. \A k \in 1..Len(jobs) :
        /\ jobs'[k].scope = jobs[k].scope /\ jobs'[k].target = jobs[k].target
        /\ jobs'[k].moved = jobs[k].moved
        /\ jobs'[k].by = IF k = j THEN e ELSE jobs[k].by
        /\ jobs'[k].status = IF k = j THEN "running" ELSE jobs[k].status
  BY <1>3, <1>4
<1>6. j \in 1..Len(jobs) BY <1>0
<1>. QED BY <1>1, <1>4, <1>5, <1>6

LEMMA RequeueIs ==
  ASSUME MigrationAssumption, TypeInv, NEW j \in DOMAIN jobs, Recover(j) \/ Stall(j)
  PROVE  /\ j \in 1..Len(jobs) /\ jobs[j].status = "running" /\ Len(jobs') = Len(jobs)
         /\ \E st \in {"queued", "failed"} : \A k \in 1..Len(jobs) :
              /\ jobs'[k].scope = jobs[k].scope /\ jobs'[k].target = jobs[k].target
              /\ jobs'[k].by = jobs[k].by /\ jobs'[k].moved = jobs[k].moved
              /\ jobs'[k].status = IF k = j THEN st ELSE jobs[k].status
<1>1. QueueInv /\ j \in 1..Len(jobs) BY JobTypes DEF TypeInv
<1>2. Requeued(j) /\ jobs[j].status = "running" BY DEF Recover, Stall
<1>3. PICK st \in {"queued", "failed"} : jobs' = [jobs EXCEPT ![j].status = st]
  BY <1>2 DEF Requeued
<1>4. st \in {"queued", "running", "completed", "failed"} OBVIOUS
<1>. QED BY <1>1, <1>2, <1>3, <1>4, StatusChanges

LEMMA RowsAreKept ==
  ASSUME MigrationAssumption, TypeInv, [Next]_vars,
         ~CreateJob, \A scope \in Requested, target \in Servers : ~Ask(scope, target)
  PROVE  RowsKept
<1>1. CASE UNCHANGED <<jobs, asking>> BY <1>1 DEF RowsKept
<1>2. ASSUME NEW e \in Executors, Claim(e) PROVE RowsKept
  <2>1. asking' = asking BY <1>2 DEF Claim
  <2>. QED BY <1>2, <2>1, ClaimIs DEF RowsKept, Open
<1>3. ASSUME NEW e \in Executors, Commit(e) PROVE RowsKept
  <2>1. CASE Migrated(e) \subseteq Live
    <3>1. asking' = asking /\ exec[e].pc = "read" /\ exec[e].left = {} BY <1>3 DEF Commit
    <3>. QED BY <1>3, <2>1, <3>1, MovedIs DEF RowsKept
  <2>2. CASE ~(Migrated(e) \subseteq Live) BY <1>1, <1>3, <2>2 DEF Commit
  <2>. QED BY <2>1, <2>2
<1>4. ASSUME NEW e \in Executors, Complete(e) \/ Fail(e) PROVE RowsKept
  <2>1. PICK st \in {"queued", "completed", "failed"} : Ends(e, st) BY <1>4 DEF Complete, Fail
  <2>2. exec[e].pc # "idle" BY <1>4 DEF Complete, Fail
  <2>3. asking' = asking BY <2>1 DEF Ends
  <2>. QED BY <2>1, <2>2, <2>3, EndsIs DEF RowsKept, Open
<1>5. ASSUME NEW j \in DOMAIN jobs, Recover(j) \/ Stall(j) PROVE RowsKept
  <2>1. asking' = asking BY <1>5 DEF Recover, Stall
  <2>. QED BY <1>5, <2>1, RequeueIs DEF RowsKept, Open
<1>6. ASSUME NEW e \in Executors, Plan(e) \/ ReadTable(e) \/ AtomicSwap(e) \/ Error(e) \/ Crash(e)
      PROVE  UNCHANGED <<jobs, asking>>
  BY <1>6 DEF Plan, ReadTable, AtomicSwap, Error, Crash
<1>7. ASSUME \/ \E d \in Datasets : LoadStart(d) \/ LoadPublish(d) \/ DeleteDataset(d)
             \/ CreateStart \/ CreateEnd \/ UNCHANGED vars
      PROVE  UNCHANGED <<jobs, asking>>
  BY <1>7 DEF LoadStart, LoadPublish, DeleteDataset, CreateStart, CreateEnd, vars
<1>. QED BY <1>1, <1>2, <1>3, <1>4, <1>5, <1>6, <1>7 DEF Next, Step

LEMMA ScopeKept ==
  ASSUME MigrationAssumption, TypeInv, ScopeInv, [Next]_vars
  PROVE  ScopeInv'
<1>1. Len(jobs) \in Nat /\ Len(asking) \in Nat BY JobTypes DEF TypeInv
<1>2. CASE RowsKept BY <1>2 DEF RowsKept, ScopeInv
<1>3. ASSUME NEW scope \in Requested, NEW target \in Servers, Ask(scope, target)
      PROVE  ScopeInv'
  <2>1. /\ Len(asking') = Len(asking) + 1 /\ \A i \in 1..Len(asking) : asking'[i] = asking[i]
        /\ asking'[Len(asking) + 1].scope = scope /\ jobs' = jobs
    BY <1>3, AskIs DEF Ask
  <2>2. \A i \in 1..Len(asking) : asking[i].scope # scope
    BY <1>3, JobTypes DEF Ask, Locked, TypeInv
  <2>3. \A j \in 1..Len(jobs) : jobs[j].status \in Open => jobs[j].scope # scope
    <3>1. Covered(scope) # {} BY <1>3 DEF Ask
    <3>2. \A j \in DOMAIN jobs : ~(Active(j) /\ Covered(jobs[j].scope) \cap Covered(scope) # {})
      BY <1>3 DEF Ask, Conflict
    <3>. QED BY <3>1, <3>2, JobTypes DEF Active, Open, TypeInv
  <2>4. \A i, k \in 1..Len(asking') : asking'[i].scope = asking'[k].scope => i = k
    <3>1. ASSUME NEW i \in 1..Len(asking'), NEW k \in 1..Len(asking'),
                 asking'[i].scope = asking'[k].scope
          PROVE  i = k
      <4>1. i \in 1..Len(asking) \/ i = Len(asking) + 1 BY <1>1, <2>1
      <4>2. k \in 1..Len(asking) \/ k = Len(asking) + 1 BY <1>1, <2>1
      <4>. QED BY <2>1, <2>2, <3>1, <4>1, <4>2 DEF ScopeInv
    <3>. QED BY <3>1
  <2>5. \A i \in 1..Len(asking'), j \in 1..Len(jobs) :
          jobs[j].status \in Open => jobs[j].scope # asking'[i].scope
    <3>1. \A i \in 1..Len(asking') : i \in 1..Len(asking) \/ i = Len(asking) + 1
      BY <1>1, <2>1
    <3>. QED BY <2>1, <2>3, <3>1 DEF ScopeInv
  <2>. QED BY <2>1, <2>4, <2>5 DEF ScopeInv
<1>4. ASSUME CreateJob
      PROVE  ScopeInv'
  <2>1. PICK i \in 1..Len(asking) :
          /\ Len(asking') = Len(asking) - 1
          /\ \A k \in 1..(Len(asking) - 1) : asking'[k] = asking[IF k < i THEN k ELSE k + 1]
          /\ Len(jobs') = Len(jobs) + 1
          /\ \A j \in 1..Len(jobs) : jobs'[j] = jobs[j]
          /\ jobs'[Len(jobs) + 1].scope = asking[i].scope
    BY <1>4, CreateJobIs
  <2>. DEFINE at(k) == IF k < i THEN k ELSE k + 1
  <2>2. /\ \A k \in 1..(Len(asking) - 1) : at(k) \in 1..Len(asking) /\ at(k) # i
        /\ \A k, l \in 1..(Len(asking) - 1) : at(k) = at(l) => k = l
    BY <1>1
  <2>3. \A k \in 1..Len(asking') : asking'[k] = asking[at(k)] BY <2>1
  <2>. HIDE DEF at
  <2>4. \A k, l \in 1..Len(asking') : asking'[k].scope = asking'[l].scope => k = l
    <3>1. ASSUME NEW k \in 1..Len(asking'), NEW l \in 1..Len(asking'),
                 asking'[k].scope = asking'[l].scope
          PROVE  k = l
      <4>1. asking[at(k)].scope = asking[at(l)].scope BY <2>3, <3>1
      <4>2. at(k) \in 1..Len(asking) /\ at(l) \in 1..Len(asking) BY <2>1, <2>2
      <4>3. at(k) = at(l) BY <4>1, <4>2 DEF ScopeInv
      <4>. QED BY <2>1, <2>2, <4>3
    <3>. QED BY <3>1
  <2>5. \A k \in 1..Len(asking'), j \in 1..Len(jobs') :
          jobs'[j].status \in Open => jobs'[j].scope # asking'[k].scope
    <3>1. ASSUME NEW k \in 1..Len(asking'), NEW j \in 1..Len(jobs'), jobs'[j].status \in Open
          PROVE  jobs'[j].scope # asking'[k].scope
      <4>1. asking'[k] = asking[at(k)] /\ at(k) \in 1..Len(asking) /\ at(k) # i
        BY <2>1, <2>2, <2>3
      <4>2. CASE j = Len(jobs) + 1 BY <2>1, <4>1, <4>2 DEF ScopeInv
      <4>3. CASE j \in 1..Len(jobs) BY SMTT(30), <2>1, <3>1, <4>1, <4>3 DEF ScopeInv
      <4>. QED BY <1>1, <2>1, <4>2, <4>3
    <3>. QED BY <3>1
  <2>6. \A k, l \in 1..Len(jobs') :
          jobs'[k].status \in Open /\ jobs'[l].status \in Open /\ jobs'[k].scope = jobs'[l].scope
            => k = l
    <3>1. ASSUME NEW k \in 1..Len(jobs), jobs[k].status \in Open
          PROVE  jobs[k].scope # asking[i].scope
      BY <3>1 DEF ScopeInv
    <3>2. ASSUME NEW k \in 1..Len(jobs'), NEW l \in 1..Len(jobs'), jobs'[k].status \in Open,
                 jobs'[l].status \in Open, jobs'[k].scope = jobs'[l].scope
          PROVE  k = l
      <4>1. k \in 1..Len(jobs) \/ k = Len(jobs) + 1 BY <1>1, <2>1
      <4>2. l \in 1..Len(jobs) \/ l = Len(jobs) + 1 BY <1>1, <2>1
      <4>. QED BY SMTT(30), <2>1, <3>1, <3>2, <4>1, <4>2 DEF ScopeInv
    <3>. QED BY <3>2
  <2>. QED BY <2>4, <2>5, <2>6 DEF ScopeInv
<1>. QED BY <1>2, <1>3, <1>4, RowsAreKept

\* Of the requests to migrate a project, or a dataset, one is under way: two at
\* the same moment never both find that there is no conflict.
THEOREM OneMigrationPerScope == Spec => []OnePerScope
<1>1. Init => TypeInv /\ ScopeInv
  <2>1. Init => ScopeInv BY DEF Init, ScopeInv
  <2>. QED BY <2>1, InitTypes, MigrationAssumption
<1>2. TypeInv /\ ScopeInv /\ [Next]_vars => (TypeInv /\ ScopeInv)'
  BY StepTypes, ScopeKept, MigrationAssumption
<1>3. TypeInv /\ ScopeInv => OnePerScope
  BY JobTypes DEF ScopeInv, OnePerScope, Active, Open, TypeInv
<1>. QED BY <1>1, <1>2, <1>3, PTL DEF Spec

------------------------------------------------------------------------------
(* Reports *)

\* Unless two have overlapped, one executor works, on a row that says so.
AloneInv ==
  "overlapped" \notin past =>
    /\ \A e, f \in Executors : Busy(e) /\ Busy(f) => e = f
    /\ \A e \in Executors : Busy(e) => /\ jobs[exec[e].job].status = "running"
                                       /\ jobs[exec[e].job].by = e

\* What is reported has been moved, and what has been moved is reported or is
\* about to be.
MovedInv ==
  /\ \A e \in Executors : exec[e].pc = "complete" => jobs[exec[e].job].moved
  /\ \A j \in 1..Len(jobs) : jobs[j].status = "completed" => jobs[j].moved
  /\ past \cap {"overlapped", "unreported"} = {} =>
       \A j \in 1..Len(jobs) : jobs[j].moved =>
         \/ jobs[j].status = "completed"
         \/ \E e \in Executors : exec[e].pc = "complete" /\ exec[e].job = j

LEMMA PastGrows ==
  ASSUME [Next]_vars
  PROVE  past \subseteq past'
BY DEF Next, Step, LoadStart, LoadPublish, CreateStart, CreateEnd, DeleteDataset, Ask, CreateJob,
       Claim, Plan, ReadTable, AtomicSwap, Commit, Complete, Fail, Ends, Error, Crash, Recover,
       Stall, vars

\* Before the transaction an executor stays with its row and changes none.
LEMMA WorkStays ==
  ASSUME MigrationAssumption, TypeInv, NEW e \in Executors,
         Plan(e) \/ ReadTable(e) \/ AtomicSwap(e) \/ Error(e)
  PROVE  /\ exec[e].pc \notin {"idle", "complete"} /\ exec'[e].pc \notin {"idle", "complete"}
         /\ exec'[e].job = exec[e].job /\ jobs' = jobs /\ past' = past
         /\ \A f \in Executors : f # e => exec'[f] = exec[f]
<1>1. exec[e].pc \notin {"idle", "complete"} /\ jobs' = jobs /\ past' = past
  BY DEF Plan, ReadTable, AtomicSwap, Error
<1>2. exec \in [Executors -> Executor] /\ exec[e] \in Executor BY DEF TypeInv, ExecInv
<1>3. CASE Plan(e)
  <2>1. CASE ToMigrate(e) = {}
    <3>1. exec' = [exec EXCEPT ![e] = [exec[e] EXCEPT !.pc = "fail", !.again = FALSE]]
      BY <1>3, <2>1 DEF Plan
    <3>. QED BY <1>1, <1>2, <3>1 DEF Executor
  <2>2. CASE ToMigrate(e) # {}
    <3>. DEFINE from == [d \in Datasets |-> IF d \in ToMigrate(e) THEN pointer[d] ELSE Nowhere]
                start == [d \in Datasets |->
                            IF d \in ToMigrate(e) THEN stored[pointer[d]][d] ELSE 0]
    <3>1. exec' = [exec EXCEPT ![e] = [exec[e] EXCEPT !.pc = "read", !.left = ToMigrate(e),
                                                      !.from = from, !.start = start]]
      BY <1>3, <2>2 DEF Plan
    <3>. HIDE DEF from, start
    <3>. QED BY <1>1, <1>2, <3>1 DEF Executor
  <2>. QED BY <2>1, <2>2
<1>4. CASE ReadTable(e)
  <2>1. PICK r : exec' = [exec EXCEPT ![e] = r] /\ r.pc \in {"swap", "read"} /\ r.job = exec[e].job
    <3>. DEFINE d == CHOOSE d \in exec[e].left : TRUE
                copied == [exec[e] EXCEPT !.pc = "swap", !.copy = stored[exec[e].from[d]][d]]
                passed == [exec[e] EXCEPT !.left = @ \ {d}]
    <3>1. copied.pc = "swap" /\ copied.job = exec[e].job BY <1>2 DEF Executor
    <3>2. passed.pc = "read" /\ passed.job = exec[e].job BY <1>2, <1>4 DEF ReadTable, Executor
    <3>3. exec' = [exec EXCEPT ![e] = copied] \/ exec' = [exec EXCEPT ![e] = passed]
      BY <1>4 DEF ReadTable
    <3>. HIDE DEF d, copied, passed
    <3>. QED BY <3>1, <3>2, <3>3
  <2>. QED BY <1>1, <1>2, <2>1
<1>5. CASE AtomicSwap(e)
  <2>. DEFINE d == CHOOSE d \in exec[e].left : TRUE
  <2>1. exec' = [exec EXCEPT ![e].pc = "read", ![e].left = @ \ {d}, ![e].copy = 0]
    BY <1>5 DEF AtomicSwap
  <2>. HIDE DEF d
  <2>. QED BY <1>1, <1>2, <2>1 DEF Executor
<1>6. CASE Error(e)
  <2>1. exec' = [exec EXCEPT ![e] = [Idle EXCEPT !.pc = "fail", !.job = exec[e].job,
                                                 !.attempt = exec[e].attempt]]
    BY <1>6 DEF Error, AfterError
  <2>. QED BY <1>1, <1>2, <2>1, IdleIs DEF Executor
<1>. QED BY <1>3, <1>4, <1>5, <1>6

\* The transaction moves, or the attempt fails; the row does not change its state.
LEMMA CommitIs ==
  ASSUME MigrationAssumption, TypeInv, NEW e \in Executors, Commit(e)
  PROVE  /\ exec[e].pc = "read" /\ exec'[e].pc \in {"complete", "fail"}
         /\ exec'[e].job = exec[e].job /\ past' = past
         /\ \A f \in Executors : f # e => exec'[f] = exec[f]
         /\ Len(jobs') = Len(jobs)
         /\ \A k \in 1..Len(jobs) :
              /\ jobs'[k].by = jobs[k].by /\ jobs'[k].status = jobs[k].status
              /\ jobs'[k].moved = (jobs[k].moved \/ (k = exec[e].job /\ exec'[e].pc = "complete"))
<1>1. exec[e].pc = "read" /\ exec[e].left = {} /\ past' = past BY DEF Commit
<1>2. exec \in [Executors -> Executor] /\ exec[e] \in Executor /\ exec[e].job \in 1..Len(jobs)
  BY <1>1, WorkIs DEF TypeInv, ExecInv
<1>3. CASE Migrated(e) \subseteq Live
  <2>1. exec' = [exec EXCEPT ![e] = [exec[e] EXCEPT !.pc = "complete"]]
    BY <1>1, <1>3, MovedIs DEF Runs
  <2>2. /\ exec'[e].pc = "complete" /\ exec'[e].job = exec[e].job
        /\ \A f \in Executors : f # e => exec'[f] = exec[f]
    BY <1>2, <2>1 DEF Executor
  <2>3. /\ Len(jobs') = Len(jobs)
        /\ \A k \in 1..Len(jobs) :
             /\ jobs'[k].by = jobs[k].by /\ jobs'[k].status = jobs[k].status
             /\ jobs'[k].moved = (jobs[k].moved \/ k = exec[e].job)
    BY <1>1, <1>3, MovedIs
  <2>. QED BY <1>1, <2>2, <2>3
<1>4. CASE ~(Migrated(e) \subseteq Live)
  <2>1. exec' = [exec EXCEPT ![e] = [@ EXCEPT !.pc = "fail", !.from = Free]] /\ jobs' = jobs
    BY <1>4 DEF Commit
  <2>2. /\ exec'[e].pc = "fail" /\ exec'[e].job = exec[e].job
        /\ \A f \in Executors : f # e => exec'[f] = exec[f]
    BY <1>2, <2>1 DEF Executor
  <2>3. \A k \in 1..Len(jobs) : jobs[k].moved \in BOOLEAN BY JobTypes DEF TypeInv, JobRow
  <2>4. \A k \in 1..Len(jobs) :
          jobs'[k].moved = (jobs[k].moved \/ (k = exec[e].job /\ exec'[e].pc = "complete"))
    <3>1. exec'[e].pc # "complete" BY <2>2
    <3>. QED BY <2>1, <2>3, <3>1, Zenon
  <2>. QED BY <1>1, <2>1, <2>2, <2>4
<1>. QED BY <1>3, <1>4

\* An executor that ends, by itself or not, is idle.
LEMMA IdlesIs ==
  ASSUME MigrationAssumption, TypeInv, NEW e \in Executors, exec' = [exec EXCEPT ![e] = Idle]
  PROVE  exec'[e].pc = "idle" /\ \A f \in Executors : f # e => exec'[f] = exec[f]
BY IdleIs DEF TypeInv, ExecInv

LEMMA ClaimStarts ==
  ASSUME MigrationAssumption, TypeInv, NEW e \in Executors, Claim(e)
  PROVE  \E j \in 1..Len(jobs) :
           /\ exec[e].pc = "idle" /\ exec'[e].pc = "plan" /\ exec'[e].job = j
           /\ \A f \in Executors : f # e => exec'[f] = exec[f]
           /\ "overlapped" \notin past' => \A f \in Executors : exec[f].pc = "idle"
           /\ jobs[j].status = "queued" /\ Len(jobs') = Len(jobs)
           /\ \A k \in 1..Len(jobs) :
                /\ jobs'[k].moved = jobs[k].moved
                /\ jobs'[k].by = IF k = j THEN e ELSE jobs[k].by
                /\ jobs'[k].status = IF k = j THEN "running" ELSE jobs[k].status
<1>1. PICK j \in 1..Len(jobs) :
        /\ jobs[j].status = "queued" /\ Len(jobs') = Len(jobs)
        /\ \A k \in 1..Len(jobs) :
             /\ jobs'[k].scope = jobs[k].scope /\ jobs'[k].target = jobs[k].target
             /\ jobs'[k].moved = jobs[k].moved
             /\ jobs'[k].by = IF k = j THEN e ELSE jobs[k].by
             /\ jobs'[k].status = IF k = j THEN "running" ELSE jobs[k].status
        /\ exec' = [exec EXCEPT ![e] = [Idle EXCEPT !.pc = "plan", !.job = j,
                                                    !.attempt = jobs[j].attempts + 1]]
  BY ClaimIs
<1>2. exec \in [Executors -> Executor] BY DEF TypeInv, ExecInv
<1>3. /\ exec'[e].pc = "plan" /\ exec'[e].job = j
      /\ \A f \in Executors : f # e => exec'[f] = exec[f]
  BY <1>1, <1>2, IdleIs DEF Executor
<1>4. exec[e].pc = "idle" BY DEF Claim, Busy
<1>5. "overlapped" \notin past' => \A f \in Executors : exec[f].pc = "idle" BY DEF Claim, Busy
<1>. QED BY <1>1, <1>3, <1>4, <1>5

LEMMA AloneKept ==
  ASSUME MigrationAssumption, TypeInv, AloneInv, [Next]_vars
  PROVE  AloneInv'
<1>. SUFFICES ASSUME "overlapped" \notin past'
              PROVE  /\ \A e, f \in Executors : exec'[e].pc # "idle" /\ exec'[f].pc # "idle" => e = f
                     /\ \A e \in Executors : exec'[e].pc # "idle" =>
                          /\ jobs'[exec'[e].job].status = "running" /\ jobs'[exec'[e].job].by = e
  BY DEF AloneInv, Busy
<1>1. /\ \A e, f \in Executors : exec[e].pc # "idle" /\ exec[f].pc # "idle" => e = f
      /\ \A e \in Executors : exec[e].pc # "idle" =>
           /\ jobs[exec[e].job].status = "running" /\ jobs[exec[e].job].by = e
           /\ exec[e].job \in 1..Len(jobs)
  BY PastGrows, WorkIs DEF AloneInv, Busy
<1>. DEFINE Goal == /\ \A e, f \in Executors : exec'[e].pc # "idle" /\ exec'[f].pc # "idle" => e = f
                    /\ \A e \in Executors : exec'[e].pc # "idle" =>
                         /\ jobs'[exec'[e].job].status = "running" /\ jobs'[exec'[e].job].by = e
<1>. SUFFICES Goal OBVIOUS
<1>2. CASE UNCHANGED <<exec, jobs>> BY <1>1, <1>2
<1>3. ASSUME NEW e \in Executors, Claim(e) PROVE Goal BY SMTT(30), <1>1, <1>3, ClaimStarts
<1>4. ASSUME NEW e \in Executors, Plan(e) \/ ReadTable(e) \/ AtomicSwap(e) \/ Error(e) PROVE Goal
  BY SMTT(30), <1>1, <1>4, WorkStays
<1>5. ASSUME NEW e \in Executors, Commit(e) PROVE Goal
  <2>1. /\ exec[e].pc = "read" /\ exec'[e].job = exec[e].job
        /\ \A f \in Executors : f # e => exec'[f] = exec[f]
        /\ \A k \in 1..Len(jobs) : jobs'[k].by = jobs[k].by /\ jobs'[k].status = jobs[k].status
    BY <1>5, CommitIs
  <2>. QED BY SMTT(30), <1>1, <2>1
<1>6. ASSUME NEW e \in Executors, Complete(e) \/ Fail(e) PROVE Goal
  <2>1. exec[e].pc # "idle" /\ exec' = [exec EXCEPT ![e] = Idle]
    BY <1>6 DEF Complete, Fail, Ends
  <2>2. exec'[e].pc = "idle" /\ \A f \in Executors : f # e => exec'[f] = exec[f]
    BY <2>1, IdlesIs
  <2>. QED BY <1>1, <2>1, <2>2
<1>7. ASSUME NEW e \in Executors, Crash(e) PROVE Goal
  <2>1. exec[e].pc # "idle" /\ exec' = [exec EXCEPT ![e] = Idle] BY <1>7 DEF Crash, Busy
  <2>2. exec'[e].pc = "idle" /\ \A f \in Executors : f # e => exec'[f] = exec[f]
    BY <2>1, IdlesIs
  <2>. QED BY <1>1, <2>1, <2>2
<1>8. ASSUME NEW j \in DOMAIN jobs, Recover(j) PROVE Goal
  <2>1. exec' = exec /\ exec[jobs[j].by].job # j BY <1>8 DEF Recover, Working
  <2>2. \A k \in 1..Len(jobs) : k # j => /\ jobs'[k].by = jobs[k].by
                                         /\ jobs'[k].status = jobs[k].status
    BY <1>8, RequeueIs
  <2>3. \A e \in Executors : exec[e].pc # "idle" => exec[e].job # j BY <1>1, <2>1
  <2>. QED BY <1>1, <2>1, <2>2, <2>3
<1>9. ASSUME NEW j \in DOMAIN jobs, Stall(j) PROVE FALSE BY <1>9 DEF Stall
<1>10. ASSUME CreateJob PROVE Goal
  <2>1. exec' = exec /\ \A k \in 1..Len(jobs) : jobs'[k] = jobs[k]
    BY <1>10, CreateJobIs DEF CreateJob
  <2>. QED BY <1>1, <2>1
<1>11. ASSUME \/ \E d \in Datasets : LoadStart(d) \/ LoadPublish(d) \/ DeleteDataset(d)
              \/ CreateStart \/ CreateEnd \/ UNCHANGED vars
              \/ \E scope \in Requested, target \in Servers : Ask(scope, target)
       PROVE  UNCHANGED <<jobs, exec>>
  BY <1>11 DEF LoadStart, LoadPublish, DeleteDataset, CreateStart, CreateEnd, Ask, vars
<1>. HIDE DEF Goal
<1>. QED BY <1>2, <1>3, <1>4, <1>5, <1>6, <1>7, <1>8, <1>9, <1>10, <1>11 DEF Next, Step

LEMMA MovedKept ==
  ASSUME MigrationAssumption, TypeInv, AloneInv, MovedInv, [Next]_vars
  PROVE  MovedInv'
<1>. DEFINE Clean == past' \cap {"overlapped", "unreported"} = {}
            Told == \A e \in Executors : exec'[e].pc = "complete" => jobs'[exec'[e].job].moved
            Done == \A j \in 1..Len(jobs') : jobs'[j].status = "completed" => jobs'[j].moved
            Left == Clean => \A j \in 1..Len(jobs') : jobs'[j].moved =>
                      \/ jobs'[j].status = "completed"
                      \/ \E e \in Executors : exec'[e].pc = "complete" /\ exec'[e].job = j
            Goal == Told /\ Done /\ Left
<1>. SUFFICES Goal BY DEF MovedInv
<1>1. /\ \A e \in Executors : exec[e].pc = "complete" =>
           jobs[exec[e].job].moved /\ exec[e].job \in 1..Len(jobs)
      /\ \A j \in 1..Len(jobs) : jobs[j].status = "completed" => jobs[j].moved
  BY WorkIs DEF MovedInv
<1>2. Clean => \A j \in 1..Len(jobs) : jobs[j].moved =>
        \/ jobs[j].status = "completed"
        \/ \E e \in Executors : exec[e].pc = "complete" /\ exec[e].job = j
  BY PastGrows DEF MovedInv
<1>3. Clean =>
        /\ \A e, f \in Executors : exec[e].pc # "idle" /\ exec[f].pc # "idle" => e = f
        /\ \A e \in Executors : exec[e].pc # "idle" =>
             /\ jobs[exec[e].job].status = "running" /\ jobs[exec[e].job].by = e
             /\ exec[e].job \in 1..Len(jobs)
  BY PastGrows, WorkIs DEF AloneInv, Busy
<1>4. Len(jobs) \in Nat BY JobTypes DEF TypeInv
<1>. HIDE DEF Clean
<1>5. CASE UNCHANGED <<exec, jobs>> BY <1>1, <1>2, <1>5
<1>6. ASSUME NEW e \in Executors, Claim(e) PROVE Goal
  <2>1. PICK j \in 1..Len(jobs) :
          /\ exec[e].pc = "idle" /\ exec'[e].pc = "plan" /\ exec'[e].job = j
          /\ \A f \in Executors : f # e => exec'[f] = exec[f]
          /\ "overlapped" \notin past' => \A f \in Executors : exec[f].pc = "idle"
          /\ jobs[j].status = "queued" /\ Len(jobs') = Len(jobs)
          /\ \A k \in 1..Len(jobs) :
               /\ jobs'[k].moved = jobs[k].moved
               /\ jobs'[k].by = IF k = j THEN e ELSE jobs[k].by
               /\ jobs'[k].status = IF k = j THEN "running" ELSE jobs[k].status
    BY <1>6, ClaimStarts
  <2>2. Told /\ Done BY <1>1, <2>1
  <2>3. Clean => \A f \in Executors : exec[f].pc = "idle" BY <2>1 DEF Clean
  <2>4. Left BY <1>2, <2>1, <2>3
  <2>. QED BY <2>2, <2>4
<1>7. ASSUME NEW e \in Executors, Plan(e) \/ ReadTable(e) \/ AtomicSwap(e) \/ Error(e) PROVE Goal
  <2>1. /\ exec[e].pc # "complete" /\ exec'[e].pc # "complete" /\ jobs' = jobs
        /\ \A f \in Executors : f # e => exec'[f] = exec[f]
    BY <1>7, WorkStays
  <2>. QED BY SMTT(30), <1>1, <1>2, <2>1
<1>8. ASSUME NEW e \in Executors, Commit(e) PROVE Goal
  <2>1. /\ exec[e].pc = "read" /\ exec'[e].job = exec[e].job
        /\ \A f \in Executors : f # e => exec'[f] = exec[f]
        /\ Len(jobs') = Len(jobs)
        /\ \A k \in 1..Len(jobs) :
             /\ jobs'[k].status = jobs[k].status
             /\ jobs'[k].moved = (jobs[k].moved \/ (k = exec[e].job /\ exec'[e].pc = "complete"))
    BY <1>8, CommitIs
  <2>2. exec[e].job \in 1..Len(jobs) BY <2>1, WorkIs
  <2>3. Told BY <1>1, <2>1, <2>2
  <2>4. Done BY <1>1, <2>1
  <2>5. Left
    <3>1. ASSUME Clean, NEW j \in 1..Len(jobs), jobs[j].moved, jobs'[j].status # "completed"
          PROVE  \E f \in Executors : exec'[f].pc = "complete" /\ exec'[f].job = j
      <4>1. PICK f \in Executors : exec[f].pc = "complete" /\ exec[f].job = j
        BY <1>2, <2>1, <3>1
      <4>2. f # e BY <2>1, <4>1
      <4>. QED BY <2>1, <4>1, <4>2
    <3>. QED BY <2>1, <3>1
  <2>. QED BY <2>3, <2>4, <2>5
<1>9. ASSUME NEW e \in Executors, Complete(e) \/ Fail(e) PROVE Goal
  <2>1. PICK st \in {"queued", "completed", "failed"} :
          Ends(e, st) /\ (st = "completed" => exec[e].pc = "complete")
                      /\ (st # "completed" => exec[e].pc = "fail")
    BY <1>9 DEF Complete, Fail
  <2>2. exec[e].pc # "idle" BY <2>1
  <2>3. exec' = [exec EXCEPT ![e] = Idle] BY <2>1 DEF Ends
  <2>4. exec'[e].pc = "idle" /\ \A f \in Executors : f # e => exec'[f] = exec[f]
    BY <2>3, IdlesIs
  <2>5. /\ Len(jobs') = Len(jobs)
        /\ \A k \in 1..Len(jobs) :
             /\ jobs'[k].moved = jobs[k].moved
             /\ jobs'[k].status = IF k = exec[e].job /\ jobs[k].status = "running" THEN st
                                  ELSE jobs[k].status
    BY <2>1, <2>2, EndsIs
  <2>6. Told BY <1>1, <2>4, <2>5
  <2>7. Done BY <1>1, <2>1, <2>5
  <2>8. Left
    <3>1. ASSUME Clean, NEW j \in 1..Len(jobs), jobs[j].moved, jobs'[j].status # "completed"
          PROVE  FALSE
      <4>1. jobs[j].status # "completed" BY <2>5, <3>1
      <4>2. PICK f \in Executors : exec[f].pc = "complete" /\ exec[f].job = j BY <1>2, <3>1, <4>1
      <4>3. f = e BY <1>3, <2>2, <3>1, <4>2
      <4>4. st = "completed" /\ jobs[j].status = "running" BY <1>3, <2>1, <3>1, <4>2, <4>3
      <4>. QED BY <2>5, <3>1, <4>2, <4>3, <4>4
    <3>. QED BY <2>5, <3>1
  <2>. QED BY <2>6, <2>7, <2>8
<1>10. ASSUME NEW e \in Executors, Crash(e) PROVE Goal
  <2>1. exec' = [exec EXCEPT ![e] = Idle] /\ jobs' = jobs BY <1>10 DEF Crash
  <2>2. exec'[e].pc = "idle" /\ \A f \in Executors : f # e => exec'[f] = exec[f]
    BY <2>1, IdlesIs
  <2>3. Clean => exec[e].pc # "complete" BY <1>10 DEF Crash, Clean
  <2>. QED BY <1>1, <1>2, <2>1, <2>2, <2>3
<1>11. ASSUME NEW j \in DOMAIN jobs, Recover(j) \/ Stall(j) PROVE Goal
  <2>1. exec' = exec BY <1>11 DEF Recover, Stall
  <2>2. /\ jobs[j].status = "running" /\ Len(jobs') = Len(jobs)
        /\ \A k \in 1..Len(jobs) :
             /\ jobs'[k].moved = jobs[k].moved
             /\ k # j => jobs'[k].status = jobs[k].status
             /\ k = j => jobs'[k].status # "completed"
    BY <1>11, RequeueIs
  <2>. QED BY <1>1, <1>2, <2>1, <2>2
<1>12. ASSUME CreateJob PROVE Goal
  <2>1. /\ exec' = exec /\ Len(jobs') = Len(jobs) + 1
        /\ \A k \in 1..Len(jobs) : jobs'[k] = jobs[k]
        /\ jobs'[Len(jobs) + 1].status = "queued" /\ ~jobs'[Len(jobs) + 1].moved
    BY <1>12, CreateJobIs DEF CreateJob
  <2>2. \A k \in 1..Len(jobs') : k \in 1..Len(jobs) \/ k = Len(jobs) + 1 BY <1>4, <2>1
  <2>. QED BY <1>1, <1>2, <2>1, <2>2
<1>13. ASSUME \/ \E d \in Datasets : LoadStart(d) \/ LoadPublish(d) \/ DeleteDataset(d)
              \/ CreateStart \/ CreateEnd \/ UNCHANGED vars
              \/ \E scope \in Requested, target \in Servers : Ask(scope, target)
       PROVE  UNCHANGED <<jobs, exec>>
  BY <1>13 DEF LoadStart, LoadPublish, DeleteDataset, CreateStart, CreateEnd, Ask, vars
<1>. HIDE DEF Goal
<1>. QED BY <1>5, <1>6, <1>7, <1>8, <1>9, <1>10, <1>11, <1>12, <1>13 DEF Next, Step

LEMMA InitReports ==
  ASSUME MigrationAssumption, Init
  PROVE  AloneInv /\ MovedInv
<1>1. \A e \in Executors : exec[e].pc = "idle" BY IdleIs DEF Init
<1>2. Len(jobs) = 0 BY DEF Init
<1>. QED BY <1>1, <1>2 DEF AloneInv, MovedInv, Busy

\* A migration that is reported completed has moved its datasets; one that is
\* reported failed has moved none, unless executors have overlapped or one has
\* ended between the transaction and the report.
THEOREM ReportsAreTrue == Spec => []ReportsTrue
<1>1. Init => TypeInv /\ AloneInv /\ MovedInv BY InitTypes, InitReports, MigrationAssumption
<1>2. TypeInv /\ AloneInv /\ MovedInv /\ [Next]_vars => (TypeInv /\ AloneInv /\ MovedInv)'
  BY StepTypes, AloneKept, MovedKept, MigrationAssumption
<1>3. TypeInv /\ AloneInv /\ MovedInv => ReportsTrue
  <2>1. SUFFICES ASSUME TypeInv, AloneInv, MovedInv, NEW j \in 1..Len(jobs)
                 PROVE  /\ jobs[j].status = "completed" => jobs[j].moved
                        /\ jobs[j].status = "failed"
                           /\ past \cap {"overlapped", "unreported"} = {} => ~jobs[j].moved
    BY JobTypes DEF ReportsTrue, TypeInv
  <2>2. ASSUME past \cap {"overlapped", "unreported"} = {}, NEW e \in Executors,
               exec[e].pc = "complete", exec[e].job = j
        PROVE  jobs[j].status = "running"
    BY <2>1, <2>2 DEF AloneInv, Busy
  <2>. QED BY <2>1, <2>2 DEF MovedInv
<1>. QED BY <1>1, <1>2, <1>3, PTL DEF Spec

------------------------------------------------------------------------------
(* A project on one server *)

\* While only the project is migrated, a migration takes all the datasets there
\* are: none is left behind when the pointers move.
WholeInv ==
  /\ "apart" \notin past => \A j \in 1..Len(jobs) : jobs[j].scope = Project
  /\ past \cap {"apart", "created"} = {} =>
       /\ Together
       /\ \A e \in Executors : Migrated(e) # {} => Live \subseteq Migrated(e)

\* Where executors do not begin and pointers do not move, WholeInv asks little.
LEMMA WholeStays ==
  ASSUME WholeInv, past \subseteq past', Len(jobs') = Len(jobs), pointer' = pointer,
         \A j \in 1..Len(jobs) : jobs'[j].scope = jobs[j].scope,
         \A e \in Executors : \/ \A d \in Datasets : exec'[e].from[d] = exec[e].from[d]
                              \/ \A d \in Datasets : exec'[e].from[d] = Nowhere
  PROVE  WholeInv'
<1>1. \A e \in Executors : Migrated(e)' = Migrated(e) \/ Migrated(e)' = {} BY DEF Migrated
<1>2. Live' = Live /\ (Together => Together') BY DEF Live, Exists, Together
<1>. QED BY <1>1, <1>2 DEF WholeInv

LEMMA WholeKept ==
  ASSUME MigrationAssumption, TypeInv, WholeInv, [Next]_vars
  PROVE  WholeInv'
<1>0. past \subseteq past' /\ Len(jobs) \in Nat /\ exec \in [Executors -> Executor]
  BY PastGrows, JobTypes DEF TypeInv, ExecInv
<1>1. CASE UNCHANGED <<exec, jobs, pointer>> BY <1>0, <1>1, WholeStays
<1>2. ASSUME NEW e \in Executors, Claim(e) PROVE WholeInv'
  <2>1. pointer' = pointer BY <1>2 DEF Claim
  <2>2. PICK j \in 1..Len(jobs) :
          /\ jobs[j].status = "queued" /\ Len(jobs') = Len(jobs)
          /\ \A k \in 1..Len(jobs) :
               /\ jobs'[k].scope = jobs[k].scope /\ jobs'[k].target = jobs[k].target
               /\ jobs'[k].moved = jobs[k].moved
               /\ jobs'[k].by = IF k = j THEN e ELSE jobs[k].by
               /\ jobs'[k].status = IF k = j THEN "running" ELSE jobs[k].status
          /\ exec' = [exec EXCEPT ![e] = [Idle EXCEPT !.pc = "plan", !.job = j,
                                                      !.attempt = jobs[j].attempts + 1]]
    BY <1>2, ClaimIs
  <2>3. exec'[e].from = Free /\ \A f \in Executors : f # e => exec'[f] = exec[f]
    BY <1>0, <2>2, IdleIs DEF Executor
  <2>. QED BY <1>0, <2>1, <2>2, <2>3, WholeStays DEF Free
<1>3. ASSUME NEW e \in Executors, Plan(e) PROVE WholeInv'
  <2>1. UNCHANGED <<pointer, jobs, past>> /\ exec[e].pc # "idle" BY <1>3 DEF Plan
  <2>2. exec[e] \in Executor /\ exec[e].job \in 1..Len(jobs) BY <2>1, WorkIs
  <2>3. CASE ToMigrate(e) = {}
    <3>1. exec' = [exec EXCEPT ![e] = [exec[e] EXCEPT !.pc = "fail", !.again = FALSE]]
      BY <1>3, <2>3 DEF Plan
    <3>2. exec'[e].from = exec[e].from /\ \A f \in Executors : f # e => exec'[f] = exec[f]
      BY <1>0, <2>2, <3>1 DEF Executor
    <3>. QED BY <1>0, <2>1, <3>2, WholeStays
  <2>4. CASE ToMigrate(e) # {}
    <3>. DEFINE from == [d \in Datasets |-> IF d \in ToMigrate(e) THEN pointer[d] ELSE Nowhere]
                start == [d \in Datasets |->
                            IF d \in ToMigrate(e) THEN stored[pointer[d]][d] ELSE 0]
    <3>1. exec' = [exec EXCEPT ![e] = [exec[e] EXCEPT !.pc = "read", !.left = ToMigrate(e),
                                                      !.from = from, !.start = start]]
      BY <1>3, <2>4 DEF Plan
    <3>. HIDE DEF start
    <3>2. exec'[e].from = from /\ \A f \in Executors : f # e => exec'[f] = exec[f]
      BY <1>0, <2>2, <3>1 DEF Executor
    <3>3. \A d \in ToMigrate(e) : d \in Datasets /\ pointer[d] # Nowhere
      BY <2>1, WorkIs DEF Live, Exists
    <3>4. ToMigrate(e) \subseteq Migrated(e)' BY <3>2, <3>3 DEF Migrated
    <3>5. ASSUME past \cap {"apart", "created"} = {} PROVE Live \subseteq ToMigrate(e)
      <4>1. Together /\ jobs[exec[e].job].scope = Project BY <2>2, <3>5 DEF WholeInv
      <4>2. ToMigrate(e) = {d \in Datasets : Exists(d) /\ pointer[d] # Target(e)}
        BY <4>1 DEF ToMigrate, Covered
      <4>3. PICK c \in Live : pointer[c] # Target(e) BY <2>4, <4>2 DEF Live
      <4>4. \A d \in Live : pointer[d] = pointer[c] BY <3>5, <4>1, <4>3 DEF Together
      <4>. QED BY <4>2, <4>3, <4>4 DEF Live
    <3>6. Live' = Live /\ (Together => Together') BY <2>1 DEF Live, Exists, Together
    <3>7. \A f \in Executors : f # e => Migrated(f)' = Migrated(f) BY <3>2 DEF Migrated
    <3>. QED BY <2>1, <3>4, <3>5, <3>6, <3>7 DEF WholeInv
  <2>. QED BY <2>3, <2>4
<1>4. ASSUME NEW e \in Executors, ReadTable(e) PROVE WholeInv'
  <2>1. UNCHANGED <<pointer, jobs, past>> /\ exec[e] \in Executor BY <1>0, <1>4 DEF ReadTable
  <2>3. PICK r : exec' = [exec EXCEPT ![e] = r] /\ r.from = exec[e].from
    BY <1>0, <1>4, <2>1 DEF ReadTable, Executor
  <2>2. \A f \in Executors : exec'[f].from = exec[f].from BY <1>0, <2>3
  <2>. QED BY <1>0, <2>1, <2>2, WholeStays
<1>5. ASSUME NEW e \in Executors, AtomicSwap(e) PROVE WholeInv'
  <2>1. UNCHANGED <<pointer, jobs, past>> /\ exec[e] \in Executor BY <1>0, <1>5 DEF AtomicSwap
  <2>. DEFINE d == CHOOSE d \in exec[e].left : TRUE
  <2>3. exec' = [exec EXCEPT ![e].pc = "read", ![e].left = @ \ {d}, ![e].copy = 0]
    BY <1>5 DEF AtomicSwap
  <2>. HIDE DEF d
  <2>4. exec'[e].from = exec[e].from /\ \A f \in Executors : f # e => exec'[f] = exec[f]
    BY <1>0, <2>1, <2>3 DEF Executor
  <2>2. \A f \in Executors : exec'[f].from = exec[f].from BY <2>4
  <2>. QED BY <1>0, <2>1, <2>2, WholeStays
<1>6. ASSUME NEW e \in Executors, Commit(e) PROVE WholeInv'
  <2>1. exec[e].pc = "read" /\ exec[e].left = {} /\ past' = past BY <1>6 DEF Commit
  <2>2. exec[e] \in Executor /\ Target(e) \in Servers BY <2>1, WorkIs
  <2>3. CASE Migrated(e) \subseteq Live
    <3>1. /\ \A d \in Datasets : pointer'[d] = IF d \in Migrated(e) THEN Target(e) ELSE pointer[d]
          /\ Len(jobs') = Len(jobs) /\ \A k \in 1..Len(jobs) : jobs'[k].scope = jobs[k].scope
          /\ exec' = [exec EXCEPT ![e] = [exec[e] EXCEPT !.pc = "complete"]]
      BY <1>6, <2>1, <2>3, MovedIs DEF Runs
    <3>2. \A f \in Executors : exec'[f].from = exec[f].from BY <1>0, <2>2, <3>1 DEF Executor
    <3>3. \A f \in Executors : Migrated(f)' = Migrated(f) BY <3>2 DEF Migrated
    <3>4. Live' = Live BY <2>2, <2>3, <3>1 DEF Live, Exists, MigrationAssumption
    <3>5. ASSUME past \cap {"apart", "created"} = {} PROVE Together'
      <4>1. Together /\ (Migrated(e) # {} => Live \subseteq Migrated(e)) BY <3>5 DEF WholeInv
      <4>2. ASSUME NEW c \in Live, NEW d \in Live PROVE pointer'[c] = pointer'[d]
        <5>1. pointer[c] = pointer[d] BY <3>5, <4>1 DEF Together
        <5>. QED BY <3>1, <4>1, <5>1 DEF Live
      <4>. QED BY <3>4, <4>2 DEF Together
    <3>. QED BY <2>1, <3>1, <3>3, <3>4, <3>5 DEF WholeInv
  <2>4. CASE ~(Migrated(e) \subseteq Live)
    <3>1. /\ exec' = [exec EXCEPT ![e] = [@ EXCEPT !.pc = "fail", !.from = Free]]
          /\ pointer' = pointer /\ jobs' = jobs
      BY <1>6, <2>4 DEF Commit
    <3>2. exec'[e].from = Free /\ \A f \in Executors : f # e => exec'[f] = exec[f]
      BY <1>0, <2>2, <3>1 DEF Executor
    <3>. QED BY <1>0, <3>1, <3>2, WholeStays DEF Free
  <2>. QED BY <2>3, <2>4
<1>7. ASSUME NEW e \in Executors, Complete(e) \/ Fail(e) PROVE WholeInv'
  <2>1. PICK st \in {"queued", "completed", "failed"} : Ends(e, st) BY <1>7 DEF Complete, Fail
  <2>2. exec[e].pc # "idle" BY <1>7 DEF Complete, Fail
  <2>3. exec' = [exec EXCEPT ![e] = Idle] /\ pointer' = pointer BY <2>1 DEF Ends
  <2>4. exec'[e].from = Free /\ \A f \in Executors : f # e => exec'[f] = exec[f]
    BY <1>0, <2>3, IdleIs
  <2>5. Len(jobs') = Len(jobs) /\ \A k \in 1..Len(jobs) : jobs'[k].scope = jobs[k].scope
    BY <2>1, <2>2, EndsIs
  <2>. QED BY <1>0, <2>3, <2>4, <2>5, WholeStays DEF Free
<1>8. ASSUME NEW e \in Executors, Error(e) \/ Crash(e) PROVE WholeInv'
  <2>1. pointer' = pointer /\ jobs' = jobs BY <1>8 DEF Error, Crash
  <2>2. exec'[e].from = Free /\ \A f \in Executors : f # e => exec'[f] = exec[f]
    <3>1. CASE Error(e)
      <4>1. exec' = [exec EXCEPT ![e] = [Idle EXCEPT !.pc = "fail", !.job = exec[e].job,
                                                     !.attempt = exec[e].attempt]]
        BY <3>1 DEF Error, AfterError
      <4>. QED BY <1>0, <4>1, IdleIs DEF Executor
    <3>2. CASE Crash(e) BY <1>0, <3>2, IdleIs DEF Crash
    <3>. QED BY <1>8, <3>1, <3>2
  <2>. QED BY <1>0, <2>1, <2>2, WholeStays DEF Free
<1>9. ASSUME NEW j \in DOMAIN jobs, Recover(j) \/ Stall(j) PROVE WholeInv'
  <2>1. pointer' = pointer /\ exec' = exec BY <1>9 DEF Recover, Stall
  <2>. QED BY <1>0, <1>9, <2>1, RequeueIs, WholeStays
<1>10. ASSUME CreateJob PROVE WholeInv'
  <2>1. PICK i \in 1..Len(asking) :
          /\ Len(jobs') = Len(jobs) + 1 /\ \A j \in 1..Len(jobs) : jobs'[j] = jobs[j]
          /\ jobs'[Len(jobs) + 1].scope = asking[i].scope
          /\ past' = IF asking[i].scope = Project THEN past ELSE past \cup {"apart"}
    BY <1>10, CreateJobIs
  <2>2. \A j \in 1..Len(jobs') : j \in 1..Len(jobs) \/ j = Len(jobs) + 1 BY <1>0, <2>1
  <2>3. "apart" \notin past' => \A j \in 1..Len(jobs') : jobs'[j].scope = Project
    BY <2>1, <2>2 DEF WholeInv
  <2>4. UNCHANGED <<exec, pointer>> BY <1>10 DEF CreateJob
  <2>5. Live' = Live /\ (Together => Together') /\ \A e \in Executors : Migrated(e)' = Migrated(e)
    BY <1>0, <2>4 DEF Live, Exists, Together, Migrated
  <2>. QED BY <1>0, <2>3, <2>5 DEF WholeInv
<1>11. ASSUME NEW d \in Datasets, DeleteDataset(d) PROVE WholeInv'
  <2>1. UNCHANGED <<exec, jobs, past>> /\ pointer' = [pointer EXCEPT ![d] = Nowhere]
    BY <1>11 DEF DeleteDataset
  <2>2. \A c \in Datasets : pointer'[c] = IF c = d THEN Nowhere ELSE pointer[c]
    BY <2>1 DEF TypeInv, StoreInv, Place
  <2>3. Live' \subseteq Live /\ \A c \in Live' : pointer'[c] = pointer[c]
    BY <2>2 DEF Live, Exists
  <2>4. Together => Together' BY <2>1, <2>3 DEF Together
  <2>5. \A e \in Executors : Migrated(e)' = Migrated(e) BY <2>1 DEF Migrated
  <2>. QED BY <2>1, <2>3, <2>4, <2>5 DEF WholeInv
<1>12. ASSUME CreateEnd PROVE WholeInv'
  <2>1. UNCHANGED <<exec, jobs>> BY <1>12 DEF CreateEnd
  <2>2. PICK d \in Datasets \ Live : pointer' = [pointer EXCEPT ![d] = creating]
    BY <1>12 DEF CreateEnd
  <2>3. ASSUME past' \cap {"apart", "created"} = {}
        PROVE  Together' /\ \A e \in Executors : Migrated(e)' = {}
    <3>1. Started = {} /\ \A c \in Live : pointer[c] = creating BY <1>12, <2>3 DEF CreateEnd
    <3>2. \A c \in Datasets : pointer'[c] = IF c = d THEN creating ELSE pointer[c]
      BY <2>2 DEF TypeInv, StoreInv, Place
    <3>3. \A c \in Live' : pointer'[c] = creating BY <3>1, <3>2 DEF Live, Exists
    <3>4. \A e \in Executors : Migrated(e)' = {} BY <2>1, <3>1 DEF Started, Migrated
    <3>. QED BY <3>3, <3>4 DEF Together
  <2>. QED BY <1>0, <2>1, <2>3 DEF WholeInv
<1>13. ASSUME \/ \E d \in Datasets : LoadStart(d) \/ LoadPublish(d)
              \/ CreateStart \/ UNCHANGED vars
              \/ \E scope \in Requested, target \in Servers : Ask(scope, target)
       PROVE  UNCHANGED <<jobs, exec, pointer>>
  BY <1>13 DEF LoadStart, LoadPublish, CreateStart, Ask, vars
<1>. QED BY <1>1, <1>2, <1>3, <1>4, <1>5, <1>6, <1>7, <1>8, <1>9, <1>10, <1>11, <1>12, <1>13
         DEF Next, Step

\* The datasets of a project are on one server, before, while and after it is
\* migrated, as long as no single dataset is migrated and none is created while
\* a migration is under way.
THEOREM ProjectStaysTogether == Spec => []Together
<1>1. Init => TypeInv /\ WholeInv
  <2>1. ASSUME Init PROVE WholeInv
    <3>1. PICK ds \in SUBSET Datasets :
            pointer = [d \in Datasets |-> IF d \in ds THEN Home ELSE Nowhere]
      BY <2>1 DEF Init
    <3>2. Together BY <3>1 DEF Together, Live, Exists
    <3>3. \A e \in Executors : Migrated(e) = {} BY <2>1, IdleIs, MigrationAssumption
                                                DEF Init, Migrated, Free
    <3>. QED BY <2>1, <3>2, <3>3 DEF Init, WholeInv
  <2>. QED BY <2>1, InitTypes, MigrationAssumption
<1>2. TypeInv /\ WholeInv /\ [Next]_vars => (TypeInv /\ WholeInv)'
  BY StepTypes, WholeKept, MigrationAssumption
<1>3. WholeInv => Together BY DEF WholeInv, Together
<1>. QED BY <1>1, <1>2, <1>3, PTL DEF Spec

------------------------------------------------------------------------------
(* What a move keeps *)

\* Where an executor has read, what was published when it began is still there;
\* where it has copied, it is there as well, and so is it in the copy it holds.
KeepInv ==
  "overlapped" \notin past => \A e \in Executors : exec[e].pc \in {"read", "swap"} =>
    /\ \A d \in Migrated(e) :
         /\ stored[exec[e].from[d]][d] >= exec[e].start[d]
         /\ d \notin exec[e].left => stored[Target(e)][d] >= exec[e].start[d]
    /\ exec[e].pc = "swap" => exec[e].copy >= exec[e].start[At(e)]

\* Tables only get later loads, and who reads or writes goes on.
LEMMA KeepStays ==
  ASSUME MigrationAssumption, TypeInv, TypeInv', KeepInv, past \subseteq past',
         \A t \in Servers, d \in Datasets : stored'[t][d] >= stored[t][d],
         \A j \in 1..Len(jobs) : jobs'[j].target = jobs[j].target,
         \A e \in Executors : exec'[e] = exec[e] \/ exec'[e].pc \notin {"read", "swap"}
  PROVE  KeepInv'
<1>1. SUFFICES ASSUME "overlapped" \notin past', NEW e \in Executors,
                      exec'[e].pc \in {"read", "swap"}
               PROVE  /\ \A d \in Migrated(e)' :
                           /\ stored'[exec'[e].from[d]][d] >= exec'[e].start[d]
                           /\ d \notin exec'[e].left => stored'[Target(e)'][d] >= exec'[e].start[d]
                      /\ exec'[e].pc = "swap" => exec'[e].copy >= exec'[e].start[At(e)']
  BY DEF KeepInv
<1>2. exec'[e] = exec[e] /\ exec[e].pc # "idle" BY <1>1
<1>3. /\ exec[e] \in Executor /\ Target(e) \in Servers /\ Target(e)' = Target(e)
      /\ \A d \in Migrated(e) : d \in Datasets /\ exec[e].from[d] \in Servers
  BY <1>2, WorkIs DEF Target, Migrated
<1>4. Migrated(e)' = Migrated(e) BY <1>2 DEF Migrated
<1>5. At(e)' = At(e) BY <1>2, Zenon DEF At
<1>6. /\ \A d \in Migrated(e) :
           /\ stored[exec[e].from[d]][d] >= exec[e].start[d]
           /\ d \notin exec[e].left => stored[Target(e)][d] >= exec[e].start[d]
      /\ exec[e].pc = "swap" => exec[e].copy >= exec[e].start[At(e)]
  BY <1>1, <1>2 DEF KeepInv
<1>7. ASSUME NEW d \in Migrated(e)
      PROVE  /\ stored'[exec[e].from[d]][d] >= exec[e].start[d]
             /\ d \notin exec[e].left => stored'[Target(e)][d] >= exec[e].start[d]
  <2>1. d \in Datasets /\ exec[e].from[d] \in Servers /\ exec[e].start[d] \in Nat
    BY <1>3 DEF Executor
  <2>2. \A t \in Servers : stored[t][d] \in Nat /\ stored'[t][d] \in Nat
    BY <2>1 DEF TypeInv, StoreInv
  <2>3. ASSUME NEW t \in Servers, stored[t][d] >= exec[e].start[d]
        PROVE  stored'[t][d] >= exec[e].start[d]
    <3>1. stored'[t][d] >= stored[t][d] BY <2>1
    <3>. QED BY <2>1, <2>2, <2>3, <3>1
  <2>4. stored[exec[e].from[d]][d] >= exec[e].start[d] BY <1>6
  <2>5. stored'[exec[e].from[d]][d] >= exec[e].start[d] BY <2>1, <2>3, <2>4
  <2>6. ASSUME d \notin exec[e].left PROVE stored'[Target(e)][d] >= exec[e].start[d]
    <3>1. stored[Target(e)][d] >= exec[e].start[d] BY <1>6, <2>6
    <3>. QED BY <1>3, <2>3, <3>1
  <2>. QED BY <2>5, <2>6
<1>. QED BY <1>2, <1>3, <1>4, <1>5, <1>6, <1>7

LEMMA KeepKept ==
  ASSUME MigrationAssumption, TypeInv, TypeInv', AloneInv, KeepInv, [Next]_vars
  PROVE  KeepInv'
<1>0. past \subseteq past' /\ exec \in [Executors -> Executor]
      /\ \A t \in Servers, d \in Datasets : stored[t][d] \in Nat
  BY PastGrows DEF TypeInv, StoreInv, ExecInv
<1>1. CASE UNCHANGED <<exec, jobs, stored>> BY <1>0, <1>1, KeepStays
<1>2. ASSUME NEW e \in Executors, Claim(e) PROVE KeepInv'
  <2>1. stored' = stored BY <1>2 DEF Claim
  <2>2. /\ exec'[e].pc = "plan" /\ \A f \in Executors : f # e => exec'[f] = exec[f]
    BY <1>2, ClaimStarts
  <2>3. \A j \in 1..Len(jobs) : jobs'[j].target = jobs[j].target BY <1>2, ClaimIs
  <2>. QED BY <1>0, <2>1, <2>2, <2>3, KeepStays
<1>3. ASSUME NEW e \in Executors, Complete(e) \/ Fail(e) PROVE KeepInv'
  <2>1. PICK st \in {"queued", "completed", "failed"} : Ends(e, st) BY <1>3 DEF Complete, Fail
  <2>2. exec[e].pc # "idle" BY <1>3 DEF Complete, Fail
  <2>3. exec' = [exec EXCEPT ![e] = Idle] /\ stored' = stored BY <2>1 DEF Ends
  <2>4. exec'[e].pc = "idle" /\ \A f \in Executors : f # e => exec'[f] = exec[f]
    BY <2>3, IdlesIs
  <2>5. \A j \in 1..Len(jobs) : jobs'[j].target = jobs[j].target BY <2>1, <2>2, EndsIs
  <2>. QED BY <1>0, <2>3, <2>4, <2>5, KeepStays
<1>4. ASSUME NEW e \in Executors, Error(e) \/ Crash(e) PROVE KeepInv'
  <2>1. stored' = stored /\ jobs' = jobs BY <1>4 DEF Error, Crash
  <2>2. exec'[e].pc \in {"idle", "fail"} /\ \A f \in Executors : f # e => exec'[f] = exec[f]
    <3>1. CASE Error(e)
      <4>1. exec' = [exec EXCEPT ![e] = [Idle EXCEPT !.pc = "fail", !.job = exec[e].job,
                                                     !.attempt = exec[e].attempt]]
        BY <3>1 DEF Error, AfterError
      <4>. QED BY <1>0, <4>1, IdleIs DEF Executor
    <3>2. CASE Crash(e) BY <1>0, <3>2, IdleIs DEF Crash
    <3>. QED BY <1>4, <3>1, <3>2
  <2>. QED BY <1>0, <2>1, <2>2, KeepStays
<1>5. ASSUME NEW j \in DOMAIN jobs, Recover(j) \/ Stall(j) PROVE KeepInv'
  <2>1. stored' = stored /\ exec' = exec BY <1>5 DEF Recover, Stall
  <2>. QED BY <1>0, <1>5, <2>1, RequeueIs, KeepStays
<1>6. ASSUME CreateJob PROVE KeepInv'
  <2>1. stored' = stored /\ exec' = exec BY <1>6 DEF CreateJob
  <2>2. PICK i \in 1..Len(asking) :
          /\ \A j \in 1..Len(jobs) : jobs'[j] = jobs[j]
          /\ past' = IF asking[i].scope = Project THEN past ELSE past \cup {"apart"}
    BY <1>0, <1>6, CreateJobIs
  <2>3. past \subseteq past' BY <2>2
  <2>4. \A j \in 1..Len(jobs) : jobs'[j].target = jobs[j].target BY <2>2
  <2>5. \A t \in Servers, d \in Datasets : stored'[t][d] >= stored[t][d]
    <3>1. stored \in [Servers -> [Datasets -> Nat]] BY DEF TypeInv, StoreInv
    <3>. SUFFICES ASSUME NEW t \in Servers, NEW d \in Datasets
                  PROVE  stored'[t][d] >= stored[t][d]
      OBVIOUS
    <3>2. stored[t][d] \in Nat BY <3>1
    <3>. QED BY <2>1, <3>2
  <2>6. \A e \in Executors : exec'[e] = exec[e] BY <2>1
  <2>. QED BY <1>0, <2>1, <2>3, <2>4, <2>5, <2>6, KeepStays
<1>7. ASSUME NEW d \in Datasets, LoadPublish(d) PROVE KeepInv'
  <2>1. /\ exec' = exec /\ jobs' = jobs /\ load[d] \in Servers
        /\ stored' = [stored EXCEPT ![load[d]][d] = used.loads + 1]
    BY <1>7 DEF LoadPublish, TypeInv, StoreInv, Place
  <2>2. \A t \in Servers, c \in Datasets :
          stored'[t][c] = IF t = load[d] /\ c = d THEN used.loads + 1 ELSE stored[t][c]
    BY <2>1 DEF TypeInv, StoreInv
  <2>3. used.loads + 1 >= stored[load[d]][d] BY <1>0, <2>1 DEF TypeInv, StoreInv
  <2>4. \A t \in Servers, c \in Datasets : stored'[t][c] >= stored[t][c] BY <1>0, <2>2, <2>3
  <2>. QED BY <1>0, <2>1, <2>4, KeepStays
<1>8. ASSUME NEW e \in Executors, Commit(e) PROVE KeepInv'
  <2>1. /\ exec'[e].pc \in {"complete", "fail"} /\ \A f \in Executors : f # e => exec'[f] = exec[f]
    BY <1>8, CommitIs
  <2>2. stored' = stored /\ exec[e].pc = "read" /\ exec[e].left = {} BY <1>8 DEF Commit
  <2>3. \A j \in 1..Len(jobs) : jobs'[j].target = jobs[j].target
    <3>1. CASE Migrated(e) \subseteq Live BY <1>8, <2>2, <3>1, MovedIs
    <3>2. CASE ~(Migrated(e) \subseteq Live) BY <1>8, <3>2 DEF Commit
    <3>. QED BY <3>1, <3>2
  <2>. QED BY <1>0, <2>1, <2>2, <2>3, KeepStays
<1>. DEFINE Kept(e) ==
              /\ \A d \in Migrated(e)' :
                   /\ stored'[exec'[e].from[d]][d] >= exec'[e].start[d]
                   /\ d \notin exec'[e].left => stored'[Target(e)'][d] >= exec'[e].start[d]
              /\ exec'[e].pc = "swap" => exec'[e].copy >= exec'[e].start[At(e)']
<1>9. ASSUME NEW e \in Executors, exec[e].pc # "idle",
             \A f \in Executors : f # e => exec'[f] = exec[f],
             "overlapped" \notin past /\ exec'[e].pc \in {"read", "swap"} => Kept(e)
      PROVE  KeepInv'
  <2>1. "overlapped" \notin past => \A f \in Executors : f # e => exec[f].pc = "idle"
    BY <1>9 DEF AloneInv, Busy
  <2>. QED BY <1>0, <1>9, <2>1 DEF KeepInv
<1>. HIDE DEF Kept
<1>10. ASSUME NEW e \in Executors, Plan(e) PROVE KeepInv'
  <2>1. exec[e].pc # "idle" /\ \A f \in Executors : f # e => exec'[f] = exec[f]
    BY <1>10, WorkStays
  <2>2. exec[e] \in Executor /\ stored' = stored BY <2>1, WorkIs, <1>10 DEF Plan
  <2>. DEFINE from == [d \in Datasets |-> IF d \in ToMigrate(e) THEN pointer[d] ELSE Nowhere]
              start == [d \in Datasets |->
                          IF d \in ToMigrate(e) THEN stored[pointer[d]][d] ELSE 0]
  <2>3. CASE ToMigrate(e) = {}
    <3>1. exec' = [exec EXCEPT ![e] = [exec[e] EXCEPT !.pc = "fail", !.again = FALSE]]
      BY <1>10, <2>3 DEF Plan
    <3>2. exec'[e].pc = "fail" BY <1>0, <2>2, <3>1 DEF Executor
    <3>. QED BY <1>9, <2>1, <3>2
  <2>4. CASE ToMigrate(e) # {}
    <3>1. exec' = [exec EXCEPT ![e] = [exec[e] EXCEPT !.pc = "read", !.left = ToMigrate(e),
                                                      !.from = from, !.start = start]]
      BY <1>10, <2>4 DEF Plan
    <3>. HIDE DEF from, start
    <3>2. /\ exec'[e].pc = "read" /\ exec'[e].left = ToMigrate(e)
          /\ exec'[e].from = from /\ exec'[e].start = start
      BY <1>0, <2>2, <3>1 DEF Executor
    <3>3. \A d \in ToMigrate(e) : d \in Datasets /\ pointer[d] \in Servers
      BY <2>1, WorkIs DEF Live
    <3>4. \A d \in Migrated(e)' : d \in ToMigrate(e) BY <3>2 DEF Migrated, from
    <3>5. \A d \in ToMigrate(e) : stored[from[d]][d] >= start[d] BY <1>0, <3>3 DEF from, start
    <3>6. Kept(e) BY <2>2, <3>2, <3>4, <3>5 DEF Kept
    <3>. QED BY <1>9, <2>1, <3>6
  <2>. QED BY <2>3, <2>4
<1>11. ASSUME NEW e \in Executors, ReadTable(e) PROVE KeepInv'
  <2>1. exec[e].pc # "idle" /\ \A f \in Executors : f # e => exec'[f] = exec[f]
    BY <1>11, WorkStays
  <2>2. /\ exec[e].pc = "read" /\ exec[e].left # {} /\ stored' = stored /\ jobs' = jobs
        /\ exec[e] \in Executor /\ Target(e) \in Servers
        /\ exec[e].left \subseteq Migrated(e)
    BY <1>11, <2>1, WorkIs DEF ReadTable, TypeInv, ExecInv, Sound, Migrated
  <2>. DEFINE d == At(e)
  <2>3. d \in exec[e].left /\ d \in Migrated(e) /\ d \in Datasets /\ exec[e].from[d] \in Servers
    BY <2>1, <2>2, AtIsLeft, WorkIs DEF Migrated
  <2>4. /\ ToCopy(e, d) => exec' = [exec EXCEPT ![e].pc = "swap",
                                                ![e].copy = stored[exec[e].from[d]][d]]
        /\ ~ToCopy(e, d) => exec' = [exec EXCEPT ![e].left = @ \ {d}]
    BY <1>11 DEF ReadTable, At
  <2>5. ToCopy(e, d) <=> stored[exec[e].from[d]][d] # 0 BY DEF ToCopy
  <2>. HIDE DEF d
  <2>6. /\ exec'[e].job = exec[e].job /\ exec'[e].from = exec[e].from
        /\ exec'[e].start = exec[e].start
        /\ ToCopy(e, d) => /\ exec'[e].pc = "swap" /\ exec'[e].left = exec[e].left
                           /\ exec'[e].copy = stored[exec[e].from[d]][d]
        /\ ~ToCopy(e, d) => exec'[e].pc = "read" /\ exec'[e].left = exec[e].left \ {d}
    BY <1>0, <2>2, <2>4 DEF Executor
  <2>7. Migrated(e)' = Migrated(e) /\ Target(e)' = Target(e) BY <2>2, <2>6 DEF Migrated, Target
  <2>8. ASSUME "overlapped" \notin past PROVE Kept(e)
    <3>1. \A c \in Migrated(e) :
            /\ stored[exec[e].from[c]][c] >= exec[e].start[c]
            /\ c \notin exec[e].left => stored[Target(e)][c] >= exec[e].start[c]
      BY <2>2, <2>8 DEF KeepInv
    <3>2. CASE ToCopy(e, d)
      <4>1. At(e)' = d BY <2>6, <3>2, Zenon DEF At, d
      <4>2. exec'[e].copy >= exec'[e].start[d] BY <2>3, <2>6, <3>1, <3>2
      <4>. QED BY <2>2, <2>6, <2>7, <3>1, <3>2, <4>1, <4>2 DEF Kept
    <3>3. CASE ~ToCopy(e, d)
      <4>1. exec[e].start[d] \in Nat /\ stored[Target(e)][d] \in Nat
        BY <1>0, <2>2, <2>3 DEF Executor
      <4>2. stored[exec[e].from[d]][d] = 0 BY <2>5, <3>3
      <4>3. stored[Target(e)][d] >= exec[e].start[d] BY <2>3, <3>1, <4>1, <4>2
      <4>4. exec'[e].pc = "read" /\ exec'[e].left = exec[e].left \ {d} BY <2>6, <3>3
      <4>. QED BY <2>2, <2>6, <2>7, <3>1, <4>3, <4>4 DEF Kept
    <3>. QED BY <3>2, <3>3
  <2>. QED BY <1>9, <2>1, <2>8
<1>12. ASSUME NEW e \in Executors, AtomicSwap(e) PROVE KeepInv'
  <2>1. exec[e].pc # "idle" /\ \A f \in Executors : f # e => exec'[f] = exec[f]
    BY <1>12, WorkStays
  <2>2. /\ exec[e].pc = "swap" /\ exec[e].left # {} /\ jobs' = jobs
        /\ exec[e] \in Executor /\ Target(e) \in Servers
        /\ exec[e].left \subseteq Migrated(e)
    BY <1>12, <2>1, WorkIs DEF AtomicSwap, TypeInv, ExecInv, Sound, Migrated
  <2>. DEFINE d == At(e)
  <2>3. d \in exec[e].left /\ d \in Migrated(e) /\ d \in Datasets BY <2>2, AtIsLeft DEF Migrated
  <2>4. /\ stored' = [stored EXCEPT ![Target(e)][d] = exec[e].copy]
        /\ exec' = [exec EXCEPT ![e].pc = "read", ![e].left = @ \ {d}, ![e].copy = 0]
    BY <1>12 DEF AtomicSwap, At
  <2>. HIDE DEF d
  <2>5. /\ exec'[e].job = exec[e].job /\ exec'[e].from = exec[e].from /\ exec'[e].pc = "read"
        /\ exec'[e].start = exec[e].start /\ exec'[e].left = exec[e].left \ {d}
    BY <1>0, <2>2, <2>4 DEF Executor
  <2>6. \A t \in Servers, c \in Datasets :
          stored'[t][c] = IF t = Target(e) /\ c = d THEN exec[e].copy ELSE stored[t][c]
    BY <2>2, <2>3, <2>4 DEF TypeInv, StoreInv
  <2>7. Migrated(e)' = Migrated(e) /\ Target(e)' = Target(e) BY <2>2, <2>5 DEF Migrated, Target
  <2>8. ASSUME "overlapped" \notin past PROVE Kept(e)
    <3>1. /\ \A c \in Migrated(e) :
               /\ stored[exec[e].from[c]][c] >= exec[e].start[c]
               /\ c \notin exec[e].left => stored[Target(e)][c] >= exec[e].start[c]
          /\ exec[e].copy >= exec[e].start[d]
      BY <2>2, <2>8 DEF KeepInv, d
    <3>2. \A c \in Migrated(e) : c \in Datasets /\ exec[e].from[c] \in Servers
      BY <2>1, WorkIs DEF Migrated
    <3>3. \A c \in Migrated(e) :
            /\ stored'[exec[e].from[c]][c] >= exec[e].start[c]
            /\ c \notin exec[e].left \ {d} => stored'[Target(e)][c] >= exec[e].start[c]
      BY <2>2, <2>6, <3>1, <3>2
    <3>. QED BY <2>5, <2>7, <3>3 DEF Kept
  <2>. QED BY <1>9, <2>1, <2>8
<1>13. ASSUME \/ \E d \in Datasets : LoadStart(d) \/ DeleteDataset(d)
              \/ CreateStart \/ CreateEnd \/ UNCHANGED vars
              \/ \E scope \in Requested, target \in Servers : Ask(scope, target)
       PROVE  UNCHANGED <<jobs, exec, stored>>
  BY <1>13 DEF LoadStart, DeleteDataset, CreateStart, CreateEnd, Ask, vars
<1>. QED BY <1>1, <1>2, <1>3, <1>4, <1>5, <1>6, <1>7, <1>8, <1>10, <1>11, <1>12, <1>13
         DEF Next, Step

\* The pointers move to a server that has, of every dataset, what was published
\* when the migration began or something later, unless executors overlapped.
THEOREM MovesKeepLoads == Spec => MoveKeeps
<1>1. Init => TypeInv /\ AloneInv /\ KeepInv
  <2>1. Init => KeepInv BY IdleIs, MigrationAssumption DEF Init, KeepInv
  <2>. QED BY <2>1, InitTypes, InitReports, MigrationAssumption
<1>2. TypeInv /\ AloneInv /\ KeepInv /\ [Next]_vars => (TypeInv /\ AloneInv /\ KeepInv)'
  BY StepTypes, AloneKept, KeepKept, MigrationAssumption
<1>3. TypeInv /\ KeepInv /\ [Next]_vars =>
        [\A e \in Executors :
           Commit(e) /\ pointer' # pointer /\ "overlapped" \notin past =>
             \A d \in Migrated(e) : stored[pointer'[d]][d] >= exec[e].start[d]]_vars
  <2>1. SUFFICES ASSUME TypeInv, KeepInv, NEW e \in Executors, Commit(e), pointer' # pointer,
                        "overlapped" \notin past, NEW d \in Migrated(e)
                 PROVE  stored[pointer'[d]][d] >= exec[e].start[d]
    OBVIOUS
  <2>2. exec[e].pc = "read" /\ exec[e].left = {} /\ pointer' = Moved(e) BY <2>1 DEF Commit
  <2>3. pointer'[d] = Target(e) BY <2>1, <2>2 DEF Moved, Migrated
  <2>. QED BY <2>1, <2>2, <2>3 DEF KeepInv
<1>. QED BY <1>1, <1>2, <1>3, PTL DEF Spec, MoveKeeps
==============================================================================
