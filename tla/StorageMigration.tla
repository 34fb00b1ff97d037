---------------------------- MODULE StorageMigration ----------------------------
(***************************************************************************)
(* Moving the datasets of a project to another storage server              *)
(* (src/src/server/storage/migrate.ts and its two routes).  A job copies   *)
(* the table of each dataset, one after the other, from the server the     *)
(* dataset points to, and then moves the pointers of all of them in one    *)
(* transaction of the catalog.  Loads go on meanwhile, and datasets are    *)
(* created and deleted.                                                    *)
(*                                                                         *)
(* The content of a table is the number of the load that made it.  A       *)
(* dataset has one table here; what a copy does to values is left out.     *)
(***************************************************************************)
EXTENDS Integers, SequencesExt, FiniteSets

CONSTANTS
  Datasets,     \* the datasets of a project
  Servers,      \* the storage servers
  Home,         \* the one the project is on
  Executors,    \* the loops of the workers
  Nowhere,      \* the server of a dataset that does not exist
  Project,      \* the scope of a migration of the whole project
  Requested,    \* the scopes people ask for
  MaxJobs,      \* bound on the requests
  MaxLoads,     \* bound on the loads
  MaxAttempts,  \* attempts of a job
  MaxChanges,   \* bound on the datasets created and deleted
  MaxFaults     \* bound on failed statements, crashes and stalls

ASSUME MigrationAssumption ==
  /\ IsFiniteSet(Datasets) /\ IsFiniteSet(Servers) /\ Home \in Servers /\ Nowhere \notin Servers
  /\ Project \notin Datasets /\ Requested \subseteq Datasets \cup {Project}
  /\ {MaxJobs, MaxLoads, MaxAttempts, MaxChanges, MaxFaults} \subseteq Nat

VARIABLES
  pointer,  \* Dataset.storageServerId
  stored,   \* what each server holds of each dataset (0: no table)
  jobs,     \* the jobs of migration, in the order of their creation
  asking,   \* requests that found no conflict and still hold their advisory lock
  exec,     \* what each executor is doing
  load,     \* the server a load of a dataset writes to, once it has read it
  creating, \* the server of the dataset being created
  used,     \* what the bounds count
  past      \* a history: what the code does not guard against

vars == <<pointer, stored, jobs, asking, exec, load, creating, used, past>>

Exists(d) == pointer[d] # Nowhere
Live == {d \in Datasets : Exists(d)}
Covered(scope) == IF scope = Project THEN Datasets ELSE {scope}
Active(j) == jobs[j].status \in {"queued", "running"}
Free == [d \in Datasets |-> Nowhere]
Idle == [pc |-> "idle", job |-> 0, attempt |-> 0, from |-> Free,
         start |-> [d \in Datasets |-> 0], left |-> {}, copy |-> 0, again |-> TRUE]

Pcs == {"idle", "plan", "read", "swap", "commit", "complete", "fail"}

TypeOK ==
  /\ pointer \in [Datasets -> Servers \cup {Nowhere}]
  /\ stored \in [Servers -> [Datasets -> 0..(MaxLoads + 1)]]
  /\ jobs \in Seq([scope : Requested, target : Servers,
                   status : {"queued", "running", "completed", "failed"}, attempts : Nat,
                   by : Executors \cup {Nowhere}, moved : BOOLEAN])
  /\ Len(jobs) + Len(asking) <= MaxJobs
  /\ \A e \in Executors :
       /\ exec[e].pc \in Pcs /\ exec[e].left \subseteq Datasets
       /\ exec[e].pc = "swap" => exec[e].left # {} /\ exec[e].copy > 0
       /\ exec[e].pc # "idle" => exec[e].job \in DOMAIN jobs
  /\ load \in [Datasets -> Servers \cup {Nowhere}]

\* A project on one server; one of its datasets may be to come.
Init ==
  /\ \E ds \in SUBSET Datasets \ {{}} :
       /\ pointer = [d \in Datasets |-> IF d \in ds THEN Home ELSE Nowhere]
       /\ stored = [t \in Servers |->
                     [d \in Datasets |-> IF t = Home /\ d \in ds THEN 1 ELSE 0]]
  /\ jobs = <<>> /\ asking = <<>>
  /\ exec = [e \in Executors |-> Idle]
  /\ load = Free /\ creating = Nowhere
  /\ used = [loads |-> 0, changes |-> 0, faults |-> 0]
  /\ past = {}

------------------------------------------------------------------------------
(* Loads, and the datasets of the project *)

\* What the migrations that have begun copy.
Started == {d \in Datasets : \E e \in Executors : exec[e].from[d] # Nowhere}

\* A load reads where its dataset is, and publishes there when it is ready.
LoadStart(d) ==
  /\ Exists(d) /\ load[d] = Nowhere /\ used.loads < MaxLoads
  /\ load' = [load EXCEPT ![d] = pointer[d]]
  /\ used' = [used EXCEPT !.loads = @ + 1]
  /\ UNCHANGED <<pointer, stored, jobs, asking, exec, creating, past>>

LoadPublish(d) ==
  /\ load[d] # Nowhere
  /\ stored' = [stored EXCEPT ![load[d]][d] = used.loads + 1]
  /\ load' = [load EXCEPT ![d] = Nowhere]
  /\ UNCHANGED <<pointer, jobs, asking, exec, creating, used, past>>

\* createDataset reads where the project is, and creates the dataset there.
CreateStart ==
  /\ creating = Nowhere /\ Live # {} /\ Live # Datasets /\ used.changes < MaxChanges
  /\ \E d \in Live : creating' = pointer[d]
  /\ used' = [used EXCEPT !.changes = @ + 1]
  /\ UNCHANGED <<pointer, stored, jobs, asking, exec, load, past>>

CreateEnd ==
  /\ creating # Nowhere
  /\ \E d \in Datasets \ Live :
       /\ stored[creating][d] = 0 /\ d \notin Started
       /\ pointer' = [pointer EXCEPT ![d] = creating]
  /\ creating' = Nowhere
  /\ past' = IF Started # {} \/ \E d \in Live : pointer[d] # creating
             THEN past \cup {"created"} ELSE past
  /\ UNCHANGED <<stored, jobs, asking, exec, load, used>>

\* The schema is dropped afterwards; nobody looks there any more.
DeleteDataset(d) ==
  /\ Exists(d) /\ used.changes < MaxChanges
  /\ pointer' = [pointer EXCEPT ![d] = Nowhere]
  /\ used' = [used EXCEPT !.changes = @ + 1]
  /\ UNCHANGED <<stored, jobs, asking, exec, load, creating, past>>

------------------------------------------------------------------------------
(* Requests *)

\* findActiveMigrationConflict.
Conflict(scope) ==
  \E j \in DOMAIN jobs : Active(j) /\ Covered(jobs[j].scope) \cap Covered(scope) # {}

\* Mutant: no lock.
Locked_Not(scope) == FALSE

\* withAdvisoryLock, on the id of the project or of the dataset.
Locked(scope) == \E i \in DOMAIN asking : asking[i].scope = scope

Ask(scope, target) ==
  /\ Len(jobs) + Len(asking) < MaxJobs
  /\ \E d \in Covered(scope) : Exists(d) /\ pointer[d] # target
  /\ ~Locked(scope) /\ ~Conflict(scope)
  /\ asking' = Append(asking, [scope |-> scope, target |-> target])
  /\ UNCHANGED <<pointer, stored, jobs, exec, load, creating, used, past>>

CreateJob ==
  /\ \E i \in DOMAIN asking :
       /\ asking' = RemoveAt(asking, i)
       /\ jobs' = Append(jobs, [scope |-> asking[i].scope, target |-> asking[i].target,
                                status |-> "queued", attempts |-> 0, by |-> Nowhere,
                                moved |-> FALSE])
       /\ past' = IF asking[i].scope = Project THEN past ELSE past \cup {"apart"}
  /\ UNCHANGED <<pointer, stored, exec, load, creating, used>>

------------------------------------------------------------------------------
(* A migration *)

Busy(e) == exec[e].pc # "idle"

Claim(e) ==
  /\ ~Busy(e)
  /\ \E j \in DOMAIN jobs :
       /\ jobs[j].status = "queued"
       /\ jobs' = [jobs EXCEPT ![j].status = "running", ![j].attempts = @ + 1, ![j].by = e]
       /\ exec' = [exec EXCEPT ![e] = [Idle EXCEPT !.pc = "plan", !.job = j,
                                                   !.attempt = jobs[j].attempts + 1]]
  /\ past' = IF \E f \in Executors : Busy(f) THEN past \cup {"overlapped"} ELSE past
  /\ UNCHANGED <<pointer, stored, asking, load, creating, used>>

Target(e) == jobs[exec[e].job].target
ToMigrate(e) == {d \in Covered(jobs[exec[e].job].scope) : Exists(d) /\ pointer[d] # Target(e)}

\* DATASET_NOT_FOUND and ALREADY_ON_TARGET are not tried again.
Plan(e) ==
  /\ exec[e].pc = "plan"
  /\ exec' = [exec EXCEPT ![e] =
       IF ToMigrate(e) = {} THEN [@ EXCEPT !.pc = "fail", !.again = FALSE]
       ELSE [@ EXCEPT !.pc = "read", !.left = ToMigrate(e),
                      !.from = [d \in Datasets |->
                                  IF d \in ToMigrate(e) THEN pointer[d] ELSE Nowhere],
                      !.start = [d \in Datasets |->
                                  IF d \in ToMigrate(e) THEN stored[pointer[d]][d] ELSE 0]]]
  /\ UNCHANGED <<pointer, stored, jobs, asking, load, creating, used, past>>

\* Mutant: a table that is on the target already is not copied again.
ToCopy_New(e, d) == stored[exec[e].from[d]][d] # 0 /\ stored[Target(e)][d] = 0

ToCopy(e, d) == stored[exec[e].from[d]][d] # 0

\* The next dataset is the first of those left, in the order of the query; its
\* table is read, and written to a staging table of its own.
ReadTable(e) ==
  /\ exec[e].pc = "read" /\ exec[e].left # {}
  /\ LET d == CHOOSE d \in exec[e].left : TRUE
     IN  IF ToCopy(e, d)
         THEN exec' = [exec EXCEPT ![e].pc = "swap", ![e].copy = stored[exec[e].from[d]][d]]
         ELSE exec' = [exec EXCEPT ![e].left = @ \ {d}]
  /\ UNCHANGED <<pointer, stored, jobs, asking, load, creating, used, past>>

AtomicSwap(e) ==
  /\ exec[e].pc = "swap"
  /\ LET d == CHOOSE d \in exec[e].left : TRUE
     IN  /\ stored' = [stored EXCEPT ![Target(e)][d] = exec[e].copy]
         /\ exec' = [exec EXCEPT ![e].pc = "read", ![e].left = @ \ {d}, ![e].copy = 0]
  /\ UNCHANGED <<pointer, jobs, asking, load, creating, used, past>>

Migrated(e) == {d \in Datasets : exec[e].from[d] # Nowhere}

\* Mutant: a transaction for each dataset, the last of which is lost.
Moved_Split(e) ==
  LET kept == CHOOSE d \in Migrated(e) : TRUE
  IN  [d \in Datasets |-> IF d \in Migrated(e) /\ (d # kept \/ Cardinality(Migrated(e)) = 1)
                          THEN Target(e) ELSE pointer[d]]

Moved(e) == [d \in Datasets |-> IF d \in Migrated(e) THEN Target(e) ELSE pointer[d]]

\* One transaction for all the pointers; it fails if a dataset is gone.
Commit(e) ==
  /\ exec[e].pc = "read" /\ exec[e].left = {}
  /\ IF Migrated(e) \subseteq Live
     THEN /\ pointer' = Moved(e)
          /\ jobs' = [jobs EXCEPT ![exec[e].job].moved = TRUE]
          /\ exec' = [exec EXCEPT ![e].pc = "complete"]
     ELSE /\ exec' = [exec EXCEPT ![e] = [@ EXCEPT !.pc = "fail", !.from = Free]]
          /\ UNCHANGED <<pointer, jobs>>
  /\ UNCHANGED <<stored, asking, load, creating, used, past>>

Running(e) == jobs[exec[e].job].status = "running"
Again(e) == exec[e].again /\ exec[e].attempt < MaxAttempts

Ends(e, status) ==
  /\ jobs' = IF Running(e) THEN [jobs EXCEPT ![exec[e].job].status = status] ELSE jobs
  /\ exec' = [exec EXCEPT ![e] = Idle]
  /\ UNCHANGED <<pointer, stored, asking, load, creating, used, past>>

Complete(e) == exec[e].pc = "complete" /\ Ends(e, "completed")
Fail(e) == exec[e].pc = "fail" /\ Ends(e, IF Again(e) THEN "queued" ELSE "failed")

------------------------------------------------------------------------------
(* Faults *)

fault == used.faults < MaxFaults /\ used' = [used EXCEPT !.faults = @ + 1]

AfterError(e) == "fail"

Error(e) ==
  /\ exec[e].pc \in {"plan", "read", "swap"} /\ fault
  /\ exec' = [exec EXCEPT ![e] = [Idle EXCEPT !.pc = AfterError(e), !.job = exec[e].job,
                                              !.attempt = exec[e].attempt]]
  /\ UNCHANGED <<pointer, stored, jobs, asking, load, creating, past>>

Crash(e) ==
  /\ Busy(e) /\ fault
  /\ exec' = [exec EXCEPT ![e] = Idle]
  /\ past' = IF exec[e].pc = "complete" THEN past \cup {"unreported"} ELSE past
  /\ UNCHANGED <<pointer, stored, jobs, asking, load, creating>>

Working(j) == exec[jobs[j].by].job = j

Requeued(j) ==
  jobs' = [jobs EXCEPT ![j].status =
             IF jobs[j].attempts < MaxAttempts THEN "queued" ELSE "failed"]

\* recoverStale: the job of a dead executor, and of one whose heartbeat stalls.
Recover(j) ==
  /\ jobs[j].status = "running" /\ ~Working(j)
  /\ Requeued(j)
  /\ UNCHANGED <<pointer, stored, asking, exec, load, creating, used, past>>

Stall(j) ==
  /\ jobs[j].status = "running" /\ Working(j) /\ fault
  /\ Requeued(j)
  /\ past' = past \cup {"overlapped"}
  /\ UNCHANGED <<pointer, stored, asking, exec, load, creating>>

------------------------------------------------------------------------------
Step(e) ==
  Plan(e) \/ ReadTable(e) \/ AtomicSwap(e) \/ Commit(e) \/ Complete(e) \/ Fail(e)

Next ==
  \/ \E d \in Datasets : LoadStart(d) \/ LoadPublish(d) \/ DeleteDataset(d)
  \/ CreateStart \/ CreateEnd
  \/ \E scope \in Requested, target \in Servers : Ask(scope, target)
  \/ CreateJob
  \/ \E e \in Executors : Claim(e) \/ Step(e) \/ Error(e) \/ Crash(e)
  \/ \E j \in DOMAIN jobs : Recover(j) \/ Stall(j)

Spec == Init /\ [][Next]_vars

------------------------------------------------------------------------------
(* What a migration promises *)

\* Two requests of the same scope never both have a job under way.
OnePerScope ==
  \A i, j \in DOMAIN jobs :
    Active(i) /\ Active(j) /\ jobs[i].scope = jobs[j].scope => i = j

\* What was published when the migration began is there where the pointer moves
\* to, however many copies were left over, unless two executors overlapped.
MoveKeeps ==
  [][\A e \in Executors :
       Commit(e) /\ pointer' # pointer /\ "overlapped" \notin past =>
         \A d \in Migrated(e) : stored[pointer'[d]][d] >= exec[e].start[d]]_vars

\* The project stays on one server, while only the project is migrated and no
\* dataset is created while a migration of it is under way.
Together ==
  past \cap {"apart", "created"} = {} =>
    \A c, d \in Live : pointer[c] = pointer[d]

\* A job that completes has moved its datasets, and one that fails has moved
\* none, unless an executor ended between the transaction and the report.
ReportsTrue ==
  \A j \in DOMAIN jobs :
    /\ jobs[j].status = "completed" => jobs[j].moved
    /\ jobs[j].status = "failed" /\ past \cap {"overlapped", "unreported"} = {} => ~jobs[j].moved
==============================================================================
