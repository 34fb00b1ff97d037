---------------------------- MODULE UploadPipeline ----------------------------
(***************************************************************************)
(* One upload, from its creation to its retention: its row in cw_uploads,  *)
(* the original file on disk, the rows of cw_jobs made for it, the loops   *)
(* that execute them, the requests of its users and the metadata cleanup.  *)
(* Uploads share nothing but the queue and the target table, which         *)
(* JobQueue and TableImport model; here an import is one step that         *)
(* publishes or throws, and a row is claimed as soon as it is QUEUED.      *)
(*                                                                         *)
(* Deadlines (24 h without activity, retention in days, stale heartbeats)  *)
(* may have passed at any time, so no clock is kept.  A request that reads *)
(* and writes later is two actions, and so is the cleanup; "slow" is the   *)
(* one of them in flight.                                                  *)
(***************************************************************************)
EXTENDS Integers, FiniteSets

CONSTANTS
  Loops,          \* executors of the worker processes
  MaxJobs,        \* rows of cw_jobs the upload may get
  MaxAttempts,    \* ["PREVIEW" / "IMPORT" -> Nat \ {0}]
  KeepFiles,      \* retention.upload_files_days is not 0
  Created,        \* what uploads are created with: [dataset, preview : BOOLEAN]
  MaxRequests,    \* bound on the requests that queue work
  MaxDisturbances,\* bound on cancels, crashes, stalled heartbeats and dismissals
  None

ASSUME UploadAssumption ==
  /\ IsFiniteSet(Loops) /\ None \notin Loops /\ None \notin Nat
  /\ MaxJobs \in Nat /\ KeepFiles \in BOOLEAN
  /\ MaxAttempts \in [{"PREVIEW", "IMPORT"} -> Nat \ {0}]
  /\ {MaxRequests, MaxDisturbances} \subseteq Nat
  /\ Created \subseteq [dataset : BOOLEAN, preview : BOOLEAN]

VARIABLES
  up,       \* the row: status, which of dataset / preview / mapping it has, cancelled by its user
  file,     \* whether the original is on disk
  job,      \* [Jobs -> row]
  exec,     \* [Loops -> what the loop executes]
  slow,     \* the request or cleanup between its read and its write
  overwrote,\* history: an unconditional write replaced a settled status
  outlived, \* history: the row survived a cleanup that had already listed its file
  count     \* history: requests, cancels and faults so far

vars == <<up, file, job, exec, slow, overwrote, outlived, count>>

Jobs == 1..MaxJobs
Settled == {"COMPLETED", "FAILED"}
Processing == {"QUEUED_PREVIEW", "PREVIEWING", "QUEUED_IMPORT", "IMPORTING", "RETRYING"}
Cancellable == Processing \cup {"PENDING_UPLOAD", "AWAITING_CONFIRMATION"}
FROM_UPLOADED == {"PENDING_UPLOAD", "FAILED"}
FROM_CONFIRM == {"PENDING_UPLOAD", "AWAITING_CONFIRMATION", "FAILED"}
FROM_RETRY == {"FAILED"}
FROM_PREVIEW == {"QUEUED_PREVIEW", "PREVIEWING"}

NoRow == [type |-> "PREVIEW", status |-> "NEW", attempts |-> 0]
JobRow == [type : {"PREVIEW", "IMPORT"}, attempts : Nat,
           status : {"NEW", "QUEUED", "RUNNING", "COMPLETED", "FAILED"}]
Idle == [job |-> None, pc |-> "idle", attempts |-> 0, final |-> FALSE]
Execution == [job : Jobs \cup {None}, attempts : Nat, final : BOOLEAN,
              pc : {"idle", "read", "mark", "preview", "queue", "import", "meta",
                    "complete", "skip", "delete", "fail"}]

TypeOK ==
  /\ up \in [status : Settled \cup Cancellable \cup {"GONE"},
             dataset : BOOLEAN, preview : BOOLEAN, mapping : BOOLEAN, byUser : BOOLEAN]
  /\ file \in BOOLEAN
  /\ job \in [Jobs -> JobRow]
  /\ exec \in [Loops -> Execution]
  /\ slow \in {"none", "put", "cancel", "retryFailed", "listed", "deleting"}
  /\ overwrote \in BOOLEAN /\ outlived \in BOOLEAN
  /\ count \in [request : Nat, cancel : Nat, fault : Nat]

\* POST /uploads: the client may have sent its own preview and mapping.
Init ==
  /\ \E c \in Created :
       up = [status |-> "PENDING_UPLOAD", dataset |-> c.dataset, preview |-> c.preview,
             mapping |-> c.preview, byUser |-> FALSE]
  /\ file = FALSE
  /\ job = [j \in Jobs |-> NoRow]
  /\ exec = [l \in Loops |-> Idle]
  /\ slow = "none"
  /\ overwrote = FALSE /\ outlived = FALSE
  /\ count = [request |-> 0, cancel |-> 0, fault |-> 0]

------------------------------------------------------------------------------
(* Helpers *)

Active(j) == job[j].status \in {"QUEUED", "RUNNING"}
Has(s) == {j \in Jobs : job[j].status = s}
Unused == {j \in Jobs : job[j].status = "NEW" /\ \A k \in 1..(j - 1) : job[k].status # "NEW"}
Ready(u) == u.mapping /\ u.preview /\ u.dataset
TypeAt(l) == job[exec[l].job].type
Owns(l) == exec[l].job # None /\ job[exec[l].job].status = "RUNNING"
BusyWith(j) == {l \in Loops : exec[l].job = j}

Asked ==
  /\ count.request < MaxRequests
  /\ count' = [count EXCEPT !.request = @ + 1]

Disturb(kind) ==
  /\ count.cancel + count.fault < MaxDisturbances
  /\ count' = [count EXCEPT ![kind] = @ + 1]

At(l, pc) == exec[l].pc = pc
Goto(l, pc) == exec' = [exec EXCEPT ![l].pc = pc]
\* The step threw; "final" is isNonRetryable of the error.
Throw(l, final) == exec' = [exec EXCEPT ![l].pc = "fail", ![l].final = final]

FailedWhere(S) == [j \in Jobs |-> IF j \in S THEN [job[j] EXCEPT !.status = "FAILED"] ELSE job[j]]

\* Mutant: the rows already active for the upload are left alone.
GuardedQueue_KeepsOld(from, type, u) ==
  /\ up.status \in from
  /\ up' = [u EXCEPT !.byUser = FALSE,
              !.status = IF type = "PREVIEW" THEN "QUEUED_PREVIEW" ELSE "QUEUED_IMPORT"]
  /\ \E j \in Unused :
       job' = [job EXCEPT ![j] = [type |-> type, status |-> "QUEUED", attempts |-> 0]]

\* One transaction: the conditional transition, the supersession of the rows
\* still active, and the new row.
GuardedQueue(from, type, u) ==
  /\ up.status \in from
  /\ up' = [u EXCEPT !.byUser = FALSE,
              !.status = IF type = "PREVIEW" THEN "QUEUED_PREVIEW" ELSE "QUEUED_IMPORT"]
  /\ \E j \in Unused :
       job' = [FailedWhere({k \in Jobs : Active(k)}) EXCEPT
                 ![j] = [type |-> type, status |-> "QUEUED", attempts |-> 0]]

QueueNext(from) == GuardedQueue(from, IF Ready(up) THEN "IMPORT" ELSE "PREVIEW", up)

------------------------------------------------------------------------------
(* Requests *)

\* PUT of the body: the status is checked before the stream is received ...
PutStart ==
  /\ slow = "none" /\ up.status \in FROM_UPLOADED
  /\ slow' = "put"
  /\ UNCHANGED <<up, file, job, exec, overwrote, outlived, count>>

\* ... and the file is replaced only when it has been received and checked;
PutStore ==
  /\ slow = "put" /\ slow' = "none" /\ file' = TRUE
  /\ UNCHANGED <<up, job, exec, overwrote, outlived, count>>

\* the stream may break, or fail its size, hash or limit.
PutBreaks ==
  /\ slow = "put" /\ slow' = "none"
  /\ UNCHANGED <<up, file, job, exec, overwrote, outlived, count>>

Unraced == UNCHANGED <<file, exec, overwrote, outlived>>

\* action=uploaded; POST .../uploaded always asks for the server's preview.
Uploaded ==
  /\ Asked
  /\ QueueNext(FROM_UPLOADED) \/ GuardedQueue(FROM_UPLOADED, "PREVIEW", up)
  /\ UNCHANGED slow /\ Unraced

\* The confirmation brings the dataset and the mapping, not a preview.
Confirm ==
  /\ Asked
  /\ GuardedQueue(FROM_CONFIRM, "IMPORT", [up EXCEPT !.dataset = TRUE, !.mapping = TRUE])
  /\ UNCHANGED slow /\ Unraced

Retry ==
  /\ Asked
  /\ QueueNext(FROM_RETRY)
  /\ UNCHANGED slow /\ Unraced

\* Retry of every failed upload: the list is read first; uploads cancelled by
\* a user, and those that never had a job, are not in it.
RetryFailedList ==
  /\ slow = "none" /\ up.status = "FAILED" /\ ~up.byUser /\ Has("NEW") # Jobs
  /\ slow' = "retryFailed"
  /\ UNCHANGED <<up, job, count>> /\ Unraced

RetryFailed ==
  /\ slow = "retryFailed" /\ slow' = "none"
  /\ \/ Asked /\ QueueNext(FROM_RETRY)
     \/ /\ up.status \notin FROM_RETRY \/ count.request = MaxRequests
        /\ UNCHANGED <<up, job, count>>
  /\ Unraced

CancelRead ==
  /\ slow = "none" /\ up.status \in Cancellable
  /\ Disturb("cancel")
  /\ slow' = "cancel"
  /\ UNCHANGED <<up, job>> /\ Unraced

Cancelled == /\ up' = [up EXCEPT !.status = "FAILED", !.byUser = TRUE]
             /\ job' = FailedWhere({j \in Jobs : Active(j)})

\* The write has no condition on the status; update() of a missing row throws.
CancelWrite ==
  /\ slow = "cancel" /\ slow' = "none"
  /\ IF up.status = "GONE" THEN UNCHANGED <<up, job>> ELSE Cancelled
  /\ overwrote' = (overwrote \/ up.status \in Settled)
  /\ UNCHANGED <<file, exec, outlived, count>>

\* Cancel of everything: every row of the queue, uploads that are not settled.
CancelAll ==
  /\ Disturb("cancel")
  /\ IF up.status \in Cancellable THEN Cancelled
     ELSE UNCHANGED up /\ job' = FailedWhere({j \in Jobs : Active(j)})
  /\ UNCHANGED slow /\ Unraced

DismissFailed ==
  /\ Has("FAILED") # {}
  /\ Disturb("fault")
  /\ job' = [j \in Jobs |-> IF job[j].status = "FAILED"
                            THEN [job[j] EXCEPT !.status = "COMPLETED"] ELSE job[j]]
  /\ UNCHANGED <<up, slow>> /\ Unraced

------------------------------------------------------------------------------
(* Executors *)

Quiet == UNCHANGED <<slow, outlived, count>>

Claim(l) ==
  /\ At(l, "idle")
  /\ \E j \in Has("QUEUED") :
       /\ job' = [job EXCEPT ![j].status = "RUNNING", ![j].attempts = @ + 1]
       /\ exec' = [exec EXCEPT ![l] = [job |-> j, pc |-> "read", final |-> FALSE,
                                       attempts |-> job[j].attempts + 1]]
  /\ UNCHANGED <<up, file, overwrote>> /\ Quiet

\* The upload has settled, or another executor is importing it.
Skipped(l) ==
  \/ up.status \in Settled
  \/ /\ TypeAt(l) = "IMPORT" /\ up.status = "IMPORTING"
     /\ \E j \in Has("RUNNING") \ {exec[l].job} : TRUE

\* The row of the upload is read once; what follows does not look again.
ReadUpload(l) ==
  /\ At(l, "read")
  /\ IF up.status = "GONE" THEN Throw(l, FALSE)
     ELSE Goto(l, IF Skipped(l) THEN "skip" ELSE "mark")
  /\ UNCHANGED <<up, file, job, overwrote>> /\ Quiet

\* PREVIEWING, once the file has been fetched, or IMPORTING; by id.
Mark(l) ==
  /\ At(l, "mark")
  /\ IF up.status = "GONE" \/ (TypeAt(l) = "PREVIEW" /\ ~file)
     THEN Throw(l, FALSE) /\ UNCHANGED <<up, overwrote>>
     ELSE /\ up' = [up EXCEPT !.status = IF TypeAt(l) = "PREVIEW" THEN "PREVIEWING"
                                         ELSE "IMPORTING"]
          /\ overwrote' = (overwrote \/ up.status \in Settled)
          /\ Goto(l, IF TypeAt(l) = "PREVIEW" THEN "preview" ELSE "import")
  /\ UNCHANGED <<file, job>> /\ Quiet

\* The file is parsed and the preview stored, or either throws.
Preview(l) ==
  /\ At(l, "preview")
  /\ \/ \E final \in BOOLEAN : Throw(l, final) /\ UNCHANGED up
     \/ up.status # "GONE" /\ up' = [up EXCEPT !.preview = TRUE] /\ Goto(l, "queue")
  /\ UNCHANGED <<file, job, overwrote>> /\ Quiet

\* The preview queues the import itself, superseding its own row.
QueueImport(l) ==
  /\ At(l, "queue")
  /\ \/ /\ ~up.dataset \/ up.status \notin FROM_PREVIEW
        /\ Throw(l, FALSE) /\ UNCHANGED <<up, job>>
     \/ /\ up.dataset
        /\ GuardedQueue(FROM_PREVIEW, "IMPORT", [up EXCEPT !.mapping = TRUE])
        /\ Goto(l, "complete")
  /\ UNCHANGED <<file, overwrote>> /\ Quiet

\* The file is fetched and importUpload runs up to its publication: it throws
\* on bad data and, if its row is no longer RUNNING, once it has noticed.
Import(l) ==
  /\ At(l, "import")
  /\ \/ file /\ Goto(l, "meta")
     \/ \E final \in BOOLEAN : Throw(l, final)
  /\ UNCHANGED <<up, file, job, overwrote>> /\ Quiet

\* The metadata transaction sets COMPLETED by id.
Meta(l) ==
  /\ At(l, "meta")
  /\ IF up.status = "GONE" THEN Throw(l, FALSE) /\ UNCHANGED <<up, overwrote>>
     ELSE /\ up' = [up EXCEPT !.status = "COMPLETED"]
          /\ overwrote' = (overwrote \/ up.status \in Settled)
          /\ Goto(l, "complete")
  /\ UNCHANGED <<file, job>> /\ Quiet

\* Mutant: the original is deleted after the preview too.
DeletesFile_Always(l) == ~KeepFiles

\* The original goes once its import is done, when originals are not kept.
DeletesFile(l) == ~KeepFiles /\ At(l, "complete") /\ TypeAt(l) = "IMPORT"

Complete(l) ==
  /\ At(l, "complete") \/ At(l, "skip")
  /\ job' = IF Owns(l) THEN [job EXCEPT ![exec[l].job].status = "COMPLETED"] ELSE job
  /\ exec' = [exec EXCEPT ![l] = IF DeletesFile(l) THEN [@ EXCEPT !.pc = "delete"] ELSE Idle]
  /\ UNCHANGED <<up, file, overwrote>> /\ Quiet

DeleteFile(l) ==
  /\ At(l, "delete")
  /\ file' = FALSE /\ exec' = [exec EXCEPT ![l] = Idle]
  /\ UNCHANGED <<up, job, overwrote>> /\ Quiet

WillRetry(l) == exec[l].attempts < MaxAttempts[TypeAt(l)] /\ ~exec[l].final

\* Mutant: the failure of a preview is not carried to the upload.
FailsUpload_Importing(l) == up.status = "IMPORTING"

FailsUpload(l) == up.status \in Cancellable

\* One transaction; the row only if it is still RUNNING, the upload whoever
\* owns it now.
Fail(l) ==
  /\ At(l, "fail")
  /\ job' = IF ~Owns(l) THEN job
            ELSE [job EXCEPT ![exec[l].job].status = IF WillRetry(l) THEN "QUEUED" ELSE "FAILED"]
  /\ up' = IF ~FailsUpload(l) THEN up
           ELSE [up EXCEPT !.status = IF WillRetry(l) THEN "RETRYING" ELSE "FAILED",
                           !.byUser = FALSE]
  /\ exec' = [exec EXCEPT ![l] = Idle]
  /\ UNCHANGED <<file, overwrote>> /\ Quiet

\* The process dies, or the statement of fail() does: the row stays RUNNING.
Crash(l) ==
  /\ ~At(l, "idle")
  /\ Disturb("fault")
  /\ exec' = [exec EXCEPT ![l] = Idle]
  /\ UNCHANGED <<up, file, job, slow, overwrote, outlived>>

\* recoverStale / releaseSelf: the row of an executor that is gone, or of one
\* that merely stopped beating.
RecoverJob(j) ==
  /\ job[j].status = "RUNNING"
  /\ IF BusyWith(j) = {} THEN UNCHANGED count ELSE Disturb("fault")
  /\ job' = [job EXCEPT ![j].status =
               IF job[j].attempts < MaxAttempts[job[j].type] THEN "QUEUED" ELSE "FAILED"]
  /\ UNCHANGED <<up, file, exec, slow, overwrote, outlived>>

\* Mutant: uploads are never repaired.
Interrupted_Never == FALSE

\* Mutant: rows waiting for another attempt are not looked at.
Interrupted_Queued == up.status = "IMPORTING" /\ Has("RUNNING") \cup Has("COMPLETED") = {}

Interrupted ==
  /\ up.status = "IMPORTING"
  /\ \A j \in Jobs : job[j].status \in {"NEW", "FAILED"}

RecoverUpload ==
  /\ Interrupted
  /\ up' = [up EXCEPT !.status = "FAILED", !.byUser = FALSE]
  /\ UNCHANGED <<file, job, exec, overwrote>> /\ Quiet

------------------------------------------------------------------------------
(* METADATA_CLEANUP *)

CancelStale ==
  /\ up.status \in {"PENDING_UPLOAD", "AWAITING_CONFIRMATION"}
  /\ up' = [up EXCEPT !.status = "FAILED", !.byUser = FALSE]
  /\ UNCHANGED <<file, job, exec, overwrote>> /\ Quiet

\* The files of expired uploads are listed, then the rows deleted where they
\* still are expired, then the listed files.
SweepList ==
  /\ slow = "none" /\ up.status \in Settled
  /\ slow' = "listed"
  /\ UNCHANGED <<up, file, job, exec, overwrote, outlived, count>>

SweepRow ==
  /\ slow = "listed" /\ slow' = "deleting"
  /\ up' = IF up.status \in Settled THEN [up EXCEPT !.status = "GONE"] ELSE up
  /\ outlived' = (outlived \/ up.status \notin Settled)
  /\ UNCHANGED <<file, job, exec, overwrote, count>>

SweepFile ==
  /\ slow = "deleting" /\ slow' = "none"
  /\ file' = FALSE
  /\ UNCHANGED <<up, job, exec, overwrote, outlived, count>>

\* Files no row names, and those of completed imports outside the window.
PurgeFile ==
  /\ slow = "none" /\ file
  /\ up.status \in {"GONE", "COMPLETED"}
  /\ file' = FALSE
  /\ UNCHANGED <<up, job, exec, slow, overwrote, outlived, count>>

------------------------------------------------------------------------------

Execute(l) ==
  \/ Claim(l) \/ ReadUpload(l) \/ Mark(l)
  \/ Preview(l) \/ QueueImport(l) \/ Import(l) \/ Meta(l)
  \/ Complete(l) \/ DeleteFile(l) \/ Fail(l)

Request ==
  \/ PutStart \/ PutStore \/ PutBreaks
  \/ Uploaded \/ Confirm \/ Retry \/ RetryFailedList \/ RetryFailed
  \/ CancelRead \/ CancelWrite \/ CancelAll \/ DismissFailed

Cleanup == CancelStale \/ SweepList \/ SweepRow \/ SweepFile \/ PurgeFile

Next ==
  \/ Request \/ Cleanup \/ RecoverUpload
  \/ \E l \in Loops : Execute(l) \/ Crash(l)
  \/ \E j \in Jobs : RecoverJob(j)

Spec == Init /\ [][Next]_vars

\* Loops run; every process runs the recovery once a minute.
FairSpec ==
  /\ Spec
  /\ \A l \in Loops : WF_vars(Execute(l))
  /\ WF_vars(\E j \in Jobs : BusyWith(j) = {} /\ RecoverJob(j))
  /\ WF_vars(RecoverUpload)

------------------------------------------------------------------------------
(* Properties *)

\* At most one row of the queue is active for the upload, whatever the
\* interleaving of retries, confirmations and the preview's own import: the
\* supersession in guardedQueue is in the transaction that creates the row.
OneActiveJob == \A j, k \in Jobs : Active(j) /\ Active(k) => j = k

\* A row waiting in the queue is only robbed of its upload (settled under it,
\* so that the row is skipped and the user's retry lost) by an executor that no
\* longer owns its own row.
StraysAlone ==
  [][ (/\ up.status \notin Settled /\ up'.status \in Settled
       /\ \E j \in Jobs : job'[j].status = "QUEUED")
      => \E l \in Loops : ~Owns(l) /\ exec[l].job # None /\ exec'[l] # exec[l] ]_vars

\* No upload is left being processed with nobody to process it: retries,
\* supersession, completion and failure keep a row or an executor for it.
\* What it takes to strand one is a crash or a stalled heartbeat on the last
\* attempt, a dismissed failure, or a cancel that raced with a blind write.
Stranded ==
  /\ up.status \in Processing
  /\ \A j \in Jobs : ~Active(j)
  /\ \A l \in Loops : At(l, "idle")
  /\ up.status # "IMPORTING" \/ Has("COMPLETED") # {}

NeverStranded ==
  Stranded => overwrote \/ count.fault > 0

\* The bytes of an upload that is still being processed are not taken away:
\* not by the deletion after an import, nor by the sweep of orphans, nor by the
\* retention of originals.  The exceptions are an upload retried
\* between the cleanup's list and its delete, and a settled status overwritten.
FileKept ==
  [][ (file /\ ~file' /\ up.status \in Processing)
      => outlived \/ overwrote ]_vars

\* Every upload handed to the queue settles, unless it was stranded.
UploadSettles ==
  (up.status \in Processing) ~> (up.status \in Settled \cup {"GONE"} \/ Stranded)
==============================================================================
