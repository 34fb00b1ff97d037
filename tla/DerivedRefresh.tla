----------------------------- MODULE DerivedRefresh -----------------------------
(***************************************************************************)
(* A derived table (src/src/server/connections/derived.ts, its routes, and *)
(* the worker's part in its job): the result of a query, computed into a   *)
(* staging table, judged, swapped in, and described in the catalog.        *)
(*                                                                         *)
(* The refresh takes no lock: an executor whose heartbeat stalls loses its *)
(* job and goes on beside the one that gets it.  Every statement on the    *)
(* catalog, the job or the storage is a step, and may fail.                *)
(***************************************************************************)
EXTENDS Integers, FiniteSets, LoadPolicy

CONSTANTS
  Executors,    \* the loops of the workers
  Counts,       \* rows the query may return
  Adopted,      \* the rows of the table the name had before (0: no such table)
  Attempts,     \* attempts of a job
  MaxRequests,  \* bound on the jobs queued
  MaxEdits,     \* bound on the edits of the derived table
  MaxFaults     \* bound on failed statements, crashes and stalls

ASSUME DerivedAssumption ==
  /\ IsFiniteSet(Executors) /\ Counts \subseteq Nat /\ Adopted \in Nat
  /\ Attempts \in Nat \ {0} /\ {MaxRequests, MaxEdits, MaxFaults} \subseteq Nat

VARIABLES
  dt,         \* the row of the derived table
  derivedJob, \* its last job: number, status, attempts, executor that claimed it
  exec,       \* what each executor is doing
  table,      \* the table of the storage: which swap made it, and its rows (0 also while
              \* there is none)
  catalog,    \* its description: rows, and the swap its columns come from (0: no columns)
  used,       \* what the bounds count
  past        \* a history: what has happened that the code does not guard against

derivedVars == <<dt, derivedJob, exec, table, catalog, used, past>>

Idle == [pc |-> "idle", job |-> 0, attempt |-> 0, prev |-> 0, cron |-> FALSE, n |-> 0, ver |-> 0,
         again |-> TRUE]

DerivedTypeOK ==
  /\ dt \in [exists : BOOLEAN, cron : BOOLEAN, next : {"none", "set"},
             status : {"new", "queued", "running", "ok", "failed"}, rows : Counts \cup {0}]
  /\ derivedJob \in [id : 0..MaxRequests, status : {"none", "queued", "running"},
                     attempts : 0..(Attempts + MaxFaults), by : Executors \cup {"nobody"}]
  /\ \A e \in Executors :
       exec[e].pc \in {"idle", "read", "start", "query", "swap", "describe", "clear",
                       "columns", "finish", "complete", "catch", "fail"}
  /\ table.rows \in Counts \cup {Adopted} /\ catalog.rows \in Counts \cup {Adopted}
  /\ catalog.columns \in 0..table.ver

DerivedInit ==
  /\ \E c \in BOOLEAN :
       dt = [exists |-> TRUE, cron |-> c, next |-> IF c THEN "set" ELSE "none",
             status |-> "new", rows |-> 0]
  /\ derivedJob = [id |-> 0, status |-> "none", attempts |-> 0, by |-> "nobody"]
  /\ exec = [e \in Executors |-> Idle]
  /\ table = [ver |-> 0, rows |-> Adopted]
  /\ catalog = [rows |-> Adopted, columns |-> 0]
  /\ used = [requests |-> 0, edits |-> 0, faults |-> 0]
  /\ past = {}

------------------------------------------------------------------------------
(* Requests *)

\* queueDerivedRefresh, for a person or for the cron (enqueueDueDerivedRefreshes):
\* time is left out, a next refresh that is set may be due.
Queue(byCron) ==
  /\ dt.exists /\ used.requests < MaxRequests
  /\ byCron => dt.cron /\ dt.next = "set"
  /\ derivedJob.status = "none" \/ ~byCron
  /\ derivedJob' = IF derivedJob.status = "none"
                   THEN [id |-> derivedJob.id + 1, status |-> "queued", attempts |-> 0,
                         by |-> "nobody"]
                   ELSE derivedJob
  /\ dt' = IF derivedJob.status = "running" THEN dt ELSE [dt EXCEPT !.status = "queued"]
  /\ used' = [used EXCEPT !.requests = @ + 1]
  /\ UNCHANGED <<exec, table, catalog, past>>

Refreshing == {e \in Executors : exec[e].pc # "idle"}

Rescheduled == IF dt.cron THEN "none" ELSE "set"

\* PATCH of the cron.
Edit ==
  /\ dt.exists /\ used.edits < MaxEdits
  /\ dt' = [dt EXCEPT !.cron = ~@, !.next = Rescheduled]
  /\ used' = [used EXCEPT !.edits = @ + 1]
  /\ past' = IF Refreshing = {} THEN past ELSE past \cup {"edited"}
  /\ UNCHANGED <<derivedJob, exec, table, catalog>>

\* DELETE of the derived table: its job, and the table, stay.
Delete ==
  /\ dt.exists /\ used.edits < MaxEdits
  /\ dt' = [dt EXCEPT !.exists = FALSE]
  /\ used' = [used EXCEPT !.edits = @ + 1]
  /\ UNCHANGED <<derivedJob, exec, table, catalog, past>>

------------------------------------------------------------------------------
(* A refresh *)

Claim(e) ==
  /\ exec[e].pc = "idle" /\ derivedJob.status = "queued"
  /\ derivedJob' = [derivedJob EXCEPT !.status = "running", !.attempts = @ + 1, !.by = e]
  /\ exec' = [exec EXCEPT ![e] = [Idle EXCEPT !.pc = "read", !.job = derivedJob.id,
                                             !.attempt = derivedJob.attempts + 1]]
  /\ past' = IF Refreshing = {} THEN past ELSE past \cup {"overlapped"}
  /\ UNCHANGED <<dt, table, catalog, used>>

goto(e, pc) == exec' = [exec EXCEPT ![e].pc = pc]

\* What an executor that gives up still needs.
giveUp(e, pc) ==
  exec' = [exec EXCEPT ![e] = [@ EXCEPT !.pc = pc, !.prev = 0, !.cron = FALSE, !.n = 0,
                                        !.ver = 0]]

\* The row is read once; what it says is used to the end.
ReadRow(e) ==
  /\ exec[e].pc = "read"
  /\ IF dt.exists
     THEN exec' = [exec EXCEPT ![e].pc = "start", ![e].prev = dt.rows, ![e].cron = dt.cron]
     ELSE giveUp(e, "fail")
  /\ UNCHANGED <<dt, derivedJob, table, catalog, used, past>>

SetRunning(e) ==
  /\ exec[e].pc = "start"
  /\ IF dt.exists THEN dt' = [dt EXCEPT !.status = "running"] /\ goto(e, "query")
     ELSE UNCHANGED dt /\ giveUp(e, "fail")
  /\ UNCHANGED <<derivedJob, table, catalog, used, past>>

\* Mutant: nothing is judged.
Verdict_None(e, n) == "OK"

Verdict(e, n) ==
  evaluateLoad([fullState |-> TRUE, deltaOnly |-> FALSE, expected |-> 0, parsed |-> n,
                staged |-> -1, prev |-> exec[e].prev, retry |-> FALSE, scheduled |-> TRUE,
                softEmpty |-> FALSE, unverified |-> FALSE, disagrees |-> FALSE], Defaults)

\* The query fills the staging table; a result that is blocked is not retried.
Query(e) ==
  /\ exec[e].pc = "query"
  /\ \E n \in Counts :
       LET blocked == Verdict(e, n) = "FAILED"
       IN  exec' = [exec EXCEPT ![e] =
                     [@ EXCEPT !.pc = IF blocked THEN "catch" ELSE "swap", !.prev = 0,
                               !.n = IF blocked THEN 0 ELSE n, !.again = ~blocked]]
  /\ UNCHANGED <<dt, derivedJob, table, catalog, used, past>>

SwapDerived(e) ==
  /\ exec[e].pc = "swap"
  /\ table' = [ver |-> table.ver + 1, rows |-> exec[e].n]
  /\ exec' = [exec EXCEPT ![e].pc = "describe", ![e].ver = table.ver + 1]
  /\ UNCHANGED <<dt, derivedJob, catalog, used, past>>

\* The row of the table in the catalog; the link to it from the derived table is
\* left out.
Describe(e) ==
  /\ exec[e].pc = "describe"
  /\ catalog' = [catalog EXCEPT !.rows = exec[e].n]
  /\ goto(e, "clear")
  /\ UNCHANGED <<dt, derivedJob, table, used, past>>

ClearColumns(e) ==
  /\ exec[e].pc = "clear"
  /\ catalog' = [catalog EXCEPT !.columns = 0]
  /\ goto(e, "columns")
  /\ UNCHANGED <<dt, derivedJob, table, used, past>>

\* A column that another executor has created meanwhile makes the statement fail.
CreateColumns(e) ==
  /\ exec[e].pc = "columns"
  /\ IF catalog.columns = 0
     THEN catalog' = [catalog EXCEPT !.columns = exec[e].ver] /\ goto(e, "finish")
     ELSE UNCHANGED catalog /\ giveUp(e, "catch")
  /\ UNCHANGED <<dt, derivedJob, table, used, past>>

\* Mutant: the rows are left as they were.
Finished_KeepsRows(e) ==
  [dt EXCEPT !.status = "ok", !.next = IF exec[e].cron THEN "set" ELSE "none"]

Finished(e) ==
  [dt EXCEPT !.status = "ok", !.rows = exec[e].n,
             !.next = IF exec[e].cron THEN "set" ELSE "none"]

FinishRefresh(e) ==
  /\ exec[e].pc = "finish"
  /\ IF dt.exists THEN dt' = Finished(e) /\ goto(e, "complete")
     ELSE UNCHANGED dt /\ giveUp(e, "catch")
  /\ UNCHANGED <<derivedJob, table, catalog, used, past>>

\* The job of e is running, by e or by the one that got it after e.
Running(e) == derivedJob.status = "running" /\ derivedJob.id = exec[e].job

\* completeJob asks only that the job is running.
Complete(e) ==
  /\ exec[e].pc = "complete"
  /\ derivedJob' = IF Running(e) THEN [derivedJob EXCEPT !.status = "none"] ELSE derivedJob
  /\ exec' = [exec EXCEPT ![e] = Idle]
  /\ UNCHANGED <<dt, table, catalog, used, past>>

\* The catch of the refresh, and the fail() of the worker.
Catch(e) ==
  /\ exec[e].pc = "catch"
  /\ dt' = IF dt.exists THEN [dt EXCEPT !.status = "failed"] ELSE dt
  /\ giveUp(e, "fail")
  /\ UNCHANGED <<derivedJob, table, catalog, used, past>>

Again(e) == exec[e].again /\ exec[e].attempt < Attempts

\* Mutant: the status says queued whatever becomes of the job.
Failed_Queued(e) == [dt EXCEPT !.status = "queued"]

Failed(e) ==
  [dt EXCEPT !.status = IF Again(e) THEN "queued" ELSE "failed",
             !.next = IF Again(e) THEN @ ELSE IF dt.cron THEN "set" ELSE "none"]

Fail(e) ==
  /\ exec[e].pc = "fail"
  /\ derivedJob' = IF ~Running(e) THEN derivedJob
                   ELSE [derivedJob EXCEPT !.status = IF Again(e) THEN "queued" ELSE "none"]
  /\ dt' = IF dt.exists THEN Failed(e) ELSE dt
  /\ exec' = [exec EXCEPT ![e] = Idle]
  /\ UNCHANGED <<table, catalog, used, past>>

------------------------------------------------------------------------------
(* Faults *)

fault == used.faults < MaxFaults /\ used' = [used EXCEPT !.faults = @ + 1]
Halfway(e) == exec[e].pc \in {"describe", "clear", "columns", "finish"}

\* A statement fails.
Error(e) ==
  /\ exec[e].pc \in {"read", "start", "query", "swap", "describe", "clear", "columns", "finish"}
  /\ fault
  /\ giveUp(e, IF exec[e].pc \in {"read", "start"} THEN "fail" ELSE "catch")
  /\ past' = IF Halfway(e) THEN past \cup {"halfway"} ELSE past
  /\ UNCHANGED <<dt, derivedJob, table, catalog>>

RefreshCrash(e) ==
  /\ exec[e].pc # "idle" /\ fault
  /\ exec' = [exec EXCEPT ![e] = Idle]
  /\ past' = IF Halfway(e) THEN past \cup {"halfway"} ELSE past
  /\ UNCHANGED <<dt, derivedJob, table, catalog>>

Requeued ==
  derivedJob' = [derivedJob EXCEPT !.status = IF derivedJob.attempts < Attempts
                                              THEN "queued" ELSE "none"]

\* recoverStale: the job of a dead executor, and of one whose heartbeat stalls.
Recover ==
  /\ derivedJob.status = "running" /\ exec[derivedJob.by].pc = "idle"
  /\ Requeued
  /\ UNCHANGED <<dt, exec, table, catalog, used, past>>

RefreshStall ==
  /\ derivedJob.status = "running" /\ exec[derivedJob.by].pc # "idle" /\ fault
  /\ Requeued
  /\ UNCHANGED <<dt, exec, table, catalog, past>>

\* The status of a refresh that has no job any more.
RecoverStatus ==
  /\ dt.exists /\ dt.status = "running" /\ derivedJob.status = "none"
  /\ dt' = [dt EXCEPT !.status = "failed"]
  /\ UNCHANGED <<derivedJob, exec, table, catalog, used, past>>

------------------------------------------------------------------------------
Step(e) ==
  \/ ReadRow(e) \/ SetRunning(e) \/ Query(e) \/ SwapDerived(e)
  \/ Describe(e) \/ ClearColumns(e) \/ CreateColumns(e)
  \/ FinishRefresh(e) \/ Complete(e) \/ Catch(e) \/ Fail(e)

DerivedNext ==
  \/ \E byCron \in BOOLEAN : Queue(byCron)
  \/ Edit \/ Delete
  \/ \E e \in Executors : Claim(e) \/ Step(e) \/ Error(e) \/ RefreshCrash(e)
  \/ Recover \/ RefreshStall \/ RecoverStatus

DerivedSpec == DerivedInit /\ [][DerivedNext]_derivedVars

\* Workers poll, go on with what they do, and recover what is stale.
DerivedFairSpec ==
  /\ DerivedSpec
  /\ WF_derivedVars(\E e \in Executors : Claim(e))
  /\ \A e \in Executors : WF_derivedVars(Step(e))
  /\ WF_derivedVars(Recover) /\ WF_derivedVars(RecoverStatus)

------------------------------------------------------------------------------
(* What a refresh promises *)

Quiet == Refreshing = {} /\ derivedJob.status = "none"

\* "ok" means what it says: the table, its description and the row of the
\* derived table agree, whatever failed and was retried before, unless an
\* executor has gone on after it lost its job.  With a cron the next refresh is
\* due at some time, unless the cron was edited while a refresh that had read
\* the row before was under way.
OkMeansCurrent ==
  Quiet /\ dt.exists /\ dt.status = "ok" /\ "overlapped" \notin past =>
    /\ catalog.rows = table.rows /\ catalog.columns = table.ver
    /\ dt.rows = table.rows
    /\ dt.cron /\ "edited" \notin past => dt.next = "set"

\* An empty result replaces a table with rows only where the count the guard
\* relies on is not that of the table: a refresh has ended between its swap and
\* its last update, or two have overlapped (or, as Adopted tells, the table was
\* there before the derived table).
Empties == table.rows > 0 /\ table'.rows = 0
EmptiesUnseen ==
  [][Empties => \/ {"overlapped", "halfway"} \cap past # {}
                \/ Adopted > 0 /\ table.ver = 0]_derivedVars

\* No refresh stays announced: queued or running becomes ok or failed.
StatusSettles ==
  dt.status \in {"queued", "running"}
    ~> dt.status \in {"ok", "failed"} \/ ~dt.exists \/ "overlapped" \in past
==============================================================================
