-------------------------- MODULE UploadPipelineProofs --------------------------
(***************************************************************************)
(* Proofs about UploadPipeline: its types, one active row per upload, no   *)
(* upload that is stranded without a fault or an unconditional write over  *)
(* a settled status, no bytes taken from an upload that is being           *)
(* processed, and who may settle an upload that waits.                     *)
(***************************************************************************)
EXTENDS UploadPipeline, TLAPS

Busy(l) == ~At(l, "idle")
RowOf(l) == job[exec[l].job]

ExecInv ==
  \A l \in Loops :
    /\ At(l, "idle") => exec[l].job = None
    /\ Busy(l) => exec[l].job \in Jobs /\ RowOf(l).status # "NEW"

TypeInv == TypeOK /\ ExecInv

\* Nothing happens before the first request; AWAITING_CONFIRMATION is never written.
FreshInv ==
  /\ up.status # "AWAITING_CONFIRMATION"
  /\ up.status = "PENDING_UPLOAD" =>
       (\A j \in Jobs : job[j].status = "NEW") /\ \A l \in Loops : At(l, "idle")

\* What an executor has done, by where it is.
ProgressInv ==
  \A l \in Loops :
    /\ At(l, "preview") \/ At(l, "queue") => TypeAt(l) = "PREVIEW"
    /\ At(l, "import") \/ At(l, "meta") \/ At(l, "delete") => TypeAt(l) = "IMPORT"
    /\ At(l, "complete") /\ TypeAt(l) = "PREVIEW" => RowOf(l).status \in {"FAILED", "COMPLETED"}
    /\ (At(l, "complete") \/ At(l, "delete")) /\ TypeAt(l) = "IMPORT" =>
         up.status \in {"COMPLETED", "GONE"} \/ overwrote

\* A cleanup that is about to delete the file has deleted the row.
SweepInv == slow = "deleting" => up.status = "GONE" \/ outlived

\* Until a fault, a row has one executor while it runs and none before.
OwnerInv ==
  count.fault = 0 =>
    /\ \A j \in Jobs : job[j].status = "RUNNING" => BusyWith(j) # {}
    /\ \A j \in Jobs : job[j].status = "QUEUED" => BusyWith(j) = {}
    /\ \A l, m \in Loops : Busy(l) /\ exec[l].job = exec[m].job => l = m
    /\ \A l \in Loops : At(l, "delete") => RowOf(l).status \in {"FAILED", "COMPLETED"}

\* Until a settled status is overwritten as well, what is processed has an active
\* row: an executor skips only what is settled.
HeldInv ==
  count.fault = 0 /\ ~overwrote =>
    /\ \A l \in Loops : At(l, "skip") /\ Owns(l) => up.status \in Settled \cup {"GONE"}
    /\ up.status \in Processing => \E j \in Jobs : Active(j)

IInv == FreshInv /\ OneActiveJob /\ ProgressInv /\ SweepInv /\ OwnerInv /\ HeldInv

------------------------------------------------------------------------------
(* What actions do to the rows of the queue *)

UpRow == [status : Settled \cup Cancellable \cup {"GONE"},
          dataset : BOOLEAN, preview : BOOLEAN, mapping : BOOLEAN, byUser : BOOLEAN]

\* The row j gets the status s, and nothing else changes but attempts.
OneRow(j, s) ==
  \A k \in Jobs : /\ job'[k].type = job[k].type
                  /\ job'[k].status = IF k = j THEN s ELSE job[k].status

FailsActive ==
  \A k \in Jobs : /\ job'[k].type = job[k].type
                  /\ job'[k].status = IF Active(k) THEN "FAILED" ELSE job[k].status

\* The active rows fail and a new one waits.
Supersedes ==
  \E j \in Jobs :
    /\ job[j].status = "NEW" /\ job'[j].status = "QUEUED"
    /\ \A k \in Jobs \ {j} : /\ job'[k].type = job[k].type
                             /\ job'[k].status = IF Active(k) THEN "FAILED" ELSE job[k].status

LEMMA FailedWhereIs ==
  ASSUME TypeOK, NEW S \in SUBSET Jobs
  PROVE  /\ FailedWhere(S) \in [Jobs -> JobRow]
         /\ \A k \in Jobs : /\ FailedWhere(S)[k].type = job[k].type
                            /\ FailedWhere(S)[k].status = IF k \in S THEN "FAILED" ELSE job[k].status
BY DEF FailedWhere, TypeOK, JobRow

LEMMA GuardedQueueDoes ==
  ASSUME TypeOK, NEW from, NEW type \in {"PREVIEW", "IMPORT"}, NEW u \in UpRow, GuardedQueue(from, type, u)
  PROVE  /\ up.status \in from /\ up' \in UpRow /\ up'.status \in {"QUEUED_PREVIEW", "QUEUED_IMPORT"}
         /\ job' \in [Jobs -> JobRow] /\ Supersedes
<1>1. up.status \in from /\ up' \in UpRow /\ up'.status \in {"QUEUED_PREVIEW", "QUEUED_IMPORT"}
  BY DEF GuardedQueue, UpRow, Cancellable, Processing
<1>2. PICK j \in Unused :
        job' = [FailedWhere({k \in Jobs : Active(k)}) EXCEPT
                  ![j] = [type |-> type, status |-> "QUEUED", attempts |-> 0]]
  BY DEF GuardedQueue
<1>3. j \in Jobs /\ job[j].status = "NEW" BY DEF Unused
<1>4. {k \in Jobs : Active(k)} \in SUBSET Jobs OBVIOUS
<1>5. [type |-> type, status |-> "QUEUED", attempts |-> 0] \in JobRow BY DEF JobRow
<1>. QED BY <1>1, <1>2, <1>3, <1>4, <1>5, FailedWhereIs DEF Supersedes

LEMMA QueueNextDoes ==
  ASSUME TypeOK, NEW from, QueueNext(from)
  PROVE  /\ up.status \in from /\ up' \in UpRow /\ up'.status \in {"QUEUED_PREVIEW", "QUEUED_IMPORT"}
         /\ job' \in [Jobs -> JobRow] /\ Supersedes
<1>1. up \in UpRow BY DEF TypeOK, UpRow
<1>. QED BY <1>1, GuardedQueueDoes DEF QueueNext

LEMMA CancelledDoes ==
  ASSUME TypeOK, Cancelled
  PROVE  up' \in UpRow /\ up'.status = "FAILED" /\ job' \in [Jobs -> JobRow] /\ FailsActive
<1>1. {k \in Jobs : Active(k)} \in SUBSET Jobs OBVIOUS
<1>2. up' \in UpRow /\ up'.status = "FAILED" BY DEF Cancelled, TypeOK, UpRow, Settled
<1>. QED BY <1>1, <1>2, FailedWhereIs DEF Cancelled, FailsActive

LEMMA DisturbDoes ==
  ASSUME TypeOK, NEW kind \in {"cancel", "fault"}, Disturb(kind)
  PROVE  /\ count' \in [request : Nat, cancel : Nat, fault : Nat]
         /\ count'.fault = count.fault + (IF kind = "fault" THEN 1 ELSE 0)
BY DEF Disturb, TypeOK

LEMMA AskedDoes ==
  ASSUME TypeOK, Asked
  PROVE  count' \in [request : Nat, cancel : Nat, fault : Nat] /\ count'.fault = count.fault
BY DEF Asked, TypeOK

\* Requests: executors are as they were, and the rows are superseded, cancelled,
\* dismissed or left alone.
RequestDoes ==
  /\ up' \in UpRow /\ job' \in [Jobs -> JobRow] /\ exec' = exec
  /\ overwrote' \in BOOLEAN /\ outlived' = outlived
  /\ slow' \in {"none", "put", "cancel", "retryFailed", "listed", "deleting"}
  /\ slow' = "deleting" => slow = "deleting"
  /\ count' \in [request : Nat, cancel : Nat, fault : Nat]
  /\ \/ /\ Supersedes /\ up.status \in FROM_CONFIRM /\ up'.status \in {"QUEUED_PREVIEW", "QUEUED_IMPORT"}
        /\ overwrote' = overwrote /\ count'.fault = count.fault
     \/ /\ FailsActive /\ count'.fault = count.fault
        /\ up.status \in Settled => overwrote' \/ up' = up
        /\ up'.status = "FAILED" \/ (up' = up /\ up.status \notin Cancellable)
        /\ overwrote => overwrote'
        /\ up.status = "GONE" => up' = up
     \/ /\ up' = up /\ count'.fault > 0 /\ overwrote' = overwrote
        /\ \A k \in Jobs : /\ job'[k].type = job[k].type
                           /\ job'[k].status = IF job[k].status = "FAILED" THEN "COMPLETED" ELSE job[k].status
     \/ up' = up /\ job' = job /\ count'.fault = count.fault /\ (overwrote => overwrote')

LEMMA RequestStep == TypeOK /\ Request => RequestDoes
<1>. SUFFICES ASSUME TypeOK, Request PROVE RequestDoes OBVIOUS
<1>0. up \in UpRow /\ job \in [Jobs -> JobRow] /\ overwrote \in BOOLEAN
      /\ slow \in {"none", "put", "cancel", "retryFailed", "listed", "deleting"}
      /\ count \in [request : Nat, cancel : Nat, fault : Nat]
  BY DEF TypeOK, UpRow
<1>1. CASE PutStart \/ PutStore \/ PutBreaks
  BY <1>0, <1>1 DEF PutStart, PutStore, PutBreaks, RequestDoes
<1>2. CASE Uploaded
  BY <1>0, <1>2, QueueNextDoes, GuardedQueueDoes, AskedDoes
  DEF Uploaded, Unraced, RequestDoes, FROM_UPLOADED, FROM_CONFIRM
<1>3. CASE Confirm
  <2>1. [up EXCEPT !.dataset = TRUE, !.mapping = TRUE] \in UpRow BY <1>0 DEF UpRow
  <2>. QED BY <1>0, <1>3, <2>1, GuardedQueueDoes, AskedDoes DEF Confirm, Unraced, RequestDoes
<1>4. CASE Retry
  BY <1>0, <1>4, QueueNextDoes, AskedDoes
  DEF Retry, Unraced, RequestDoes, FROM_RETRY, FROM_CONFIRM
<1>5. CASE RetryFailedList BY <1>0, <1>5 DEF RetryFailedList, Unraced, RequestDoes
<1>6. CASE RetryFailed
  BY <1>0, <1>6, QueueNextDoes, AskedDoes
  DEF RetryFailed, Unraced, RequestDoes, FROM_RETRY, FROM_CONFIRM
<1>7. CASE CancelRead
  BY <1>0, <1>7, DisturbDoes DEF CancelRead, Unraced, RequestDoes
<1>8. CASE CancelWrite
  <2>1. CASE up.status = "GONE" BY <1>0, <1>8, <2>1 DEF CancelWrite, RequestDoes
  <2>2. CASE up.status # "GONE" BY <1>0, <1>8, <2>2, CancelledDoes DEF CancelWrite, RequestDoes
  <2>. QED BY <2>1, <2>2
<1>9. CASE CancelAll
  <2>1. CASE up.status \in Cancellable
    <3>1. up.status \notin Settled /\ up.status # "GONE"
      BY <2>1 DEF Settled, Cancellable, Processing
    <3>. QED
      BY <1>0, <1>9, <2>1, <3>1, CancelledDoes, DisturbDoes DEF CancelAll, Unraced, RequestDoes
  <2>2. CASE up.status \notin Cancellable
    <3>1. {k \in Jobs : Active(k)} \in SUBSET Jobs OBVIOUS
    <3>2. job' \in [Jobs -> JobRow] /\ FailsActive
      BY <1>9, <2>2, <3>1, FailedWhereIs DEF CancelAll, FailsActive
    <3>. QED BY <1>0, <1>9, <2>2, <3>2, DisturbDoes DEF CancelAll, Unraced, RequestDoes
  <2>. QED BY <2>1, <2>2
<1>10. CASE DismissFailed
  <2>1. /\ job' \in [Jobs -> JobRow]
        /\ \A k \in Jobs : /\ job'[k].type = job[k].type
                           /\ job'[k].status = IF job[k].status = "FAILED" THEN "COMPLETED" ELSE job[k].status
    BY <1>0, <1>10 DEF DismissFailed, JobRow
  <2>2. count' \in [request : Nat, cancel : Nat, fault : Nat] /\ count'.fault > 0
    BY <1>0, <1>10, DisturbDoes DEF DismissFailed
  <2>. QED BY <1>0, <1>10, <2>1, <2>2 DEF DismissFailed, Unraced, RequestDoes
<1>. QED BY <1>1, <1>2, <1>3, <1>4, <1>5, <1>6, <1>7, <1>8, <1>9, <1>10 DEF Request

------------------------------------------------------------------------------
(* Types *)

LEMMA InitTypes == Init => TypeInv
<1>. SUFFICES ASSUME Init PROVE TypeInv OBVIOUS
<1>1. PICK c \in Created :
        up = [status |-> "PENDING_UPLOAD", dataset |-> c.dataset, preview |-> c.preview,
              mapping |-> c.preview, byUser |-> FALSE]
  BY DEF Init
<1>2. c \in [dataset : BOOLEAN, preview : BOOLEAN] BY UploadAssumption
<1>3. up \in [status : Settled \cup Cancellable \cup {"GONE"},
              dataset : BOOLEAN, preview : BOOLEAN, mapping : BOOLEAN, byUser : BOOLEAN]
  BY <1>1, <1>2 DEF Cancellable
<1>4. job \in [Jobs -> JobRow] BY DEF Init, NoRow, JobRow
<1>5. exec \in [Loops -> Execution] /\ \A l \in Loops : exec[l] = Idle
  BY DEF Init, Idle, Execution
<1>6. ExecInv BY <1>5 DEF ExecInv, Busy, At, Idle
<1>. QED BY <1>3, <1>4, <1>5, <1>6 DEF TypeInv, TypeOK, Init

\* An executor that goes on keeps its row, and no row becomes new again.
LEMMA ExecStep ==
  ASSUME TypeInv, NEW l \in Loops, NEW w \in Execution, exec' = [exec EXCEPT ![l] = w],
         w.pc = "idle" => w.job = None,
         w.pc # "idle" => w.job \in Jobs /\ job'[w.job].status # "NEW",
         \A k \in Jobs : job'[k].status = "NEW" => job[k].status = "NEW"
  PROVE  exec' \in [Loops -> Execution] /\ ExecInv'
<1>1. exec'[l] = w /\ \A m \in Loops \ {l} : exec'[m] = exec[m] BY DEF TypeInv, TypeOK
<1>2. ExecInv' BY <1>1 DEF TypeInv, ExecInv, Busy, RowOf, At
<1>. QED BY <1>2 DEF TypeInv, TypeOK

LEMMA IdleExec == Idle \in Execution /\ Idle.pc = "idle" /\ Idle.job = None
BY DEF Idle, Execution

\* Goto and Throw, with their effect on the executor.
Moves(l, pcs) ==
  /\ \A m \in Loops \ {l} : exec'[m] = exec[m]
  /\ exec'[l].pc \in pcs /\ exec'[l].job = exec[l].job
  /\ exec' \in [Loops -> Execution]

LEMMA GotoDoes ==
  ASSUME TypeInv, NEW l \in Loops, Busy(l), NEW pc \in {"read", "mark", "preview", "queue",
           "import", "meta", "complete", "skip", "delete", "fail"},
         Goto(l, pc) \/ (pc = "fail" /\ \E f \in BOOLEAN : Throw(l, f)),
         \A k \in Jobs : job'[k].status = "NEW" => job[k].status = "NEW"
  PROVE  Moves(l, {pc}) /\ ExecInv'
<1>1. PICK f \in BOOLEAN : Goto(l, pc) \/ (pc = "fail" /\ Throw(l, f)) OBVIOUS
<1>2. exec[l] \in Execution /\ exec[l].job \in Jobs /\ job[exec[l].job].status # "NEW"
  BY DEF TypeInv, TypeOK, ExecInv, RowOf
<1>. DEFINE w == IF Goto(l, pc) THEN [exec[l] EXCEPT !.pc = pc]
                 ELSE [exec[l] EXCEPT !.pc = "fail", !.final = f]
<1>3. exec' = [exec EXCEPT ![l] = w] BY <1>1 DEF Goto, Throw
<1>4. w \in Execution /\ w.pc = pc /\ w.job = exec[l].job
  <2>1. CASE Goto(l, pc) BY <1>2, <2>1 DEF Execution
  <2>2. CASE ~Goto(l, pc)
    <3>1. pc = "fail" /\ w = [exec[l] EXCEPT !.pc = "fail", !.final = f] BY <1>1, <2>2
    <3>. HIDE DEF w
    <3>2. w \in Execution BY <1>2, <3>1 DEF Execution
    <3>3. w.pc = "fail" /\ w.job = exec[l].job BY <1>2, <3>1 DEF Execution
    <3>. QED BY <3>1, <3>2, <3>3
  <2>. QED BY <2>1, <2>2
<1>. HIDE DEF w
<1>5. w.pc # "idle" /\ w.job \in Jobs /\ job'[w.job].status # "NEW" BY <1>2, <1>4
<1>6. exec' \in [Loops -> Execution] /\ ExecInv' BY <1>3, <1>4, <1>5, ExecStep
<1>7. exec'[l] = w /\ \A m \in Loops \ {l} : exec'[m] = exec[m] BY <1>3 DEF TypeInv, TypeOK
<1>. QED BY <1>4, <1>6, <1>7 DEF Moves

\* The steps of an executor that touch no row of the queue.
WorkKeeps == job' = job /\ count' = count /\ slow' = slow /\ outlived' = outlived

LEMMA ReadUploadDoes ==
  ASSUME TypeInv, NEW l \in Loops, ReadUpload(l)
  PROVE  /\ TypeInv' /\ WorkKeeps
         /\ up' = up /\ overwrote' = overwrote /\ Moves(l, {"fail", "skip", "mark"})
         /\ exec'[l].pc = "skip" => Skipped(l)
<1>. USE DEF TypeInv, TypeOK, WorkKeeps
<1>1. Busy(l) BY DEF ReadUpload, Busy, At
<1>2. Moves(l, {"fail", "skip", "mark"}) /\ ExecInv' /\ (exec'[l].pc = "skip" => Skipped(l))
  <2>0. job' = job BY DEF ReadUpload
  <2>1. CASE Throw(l, FALSE)
    <3>1. Moves(l, {"fail"}) /\ ExecInv' BY <1>1, <2>0, <2>1, GotoDoes
    <3>. QED BY <3>1 DEF Moves
  <2>2. CASE ~Skipped(l) /\ Goto(l, "mark")
    <3>1. Moves(l, {"mark"}) /\ ExecInv' BY <1>1, <2>0, <2>2, GotoDoes
    <3>. QED BY <3>1 DEF Moves
  <2>3. CASE Skipped(l) /\ Goto(l, "skip")
    <3>1. Moves(l, {"skip"}) /\ ExecInv' BY <1>1, <2>0, <2>3, GotoDoes
    <3>. QED BY <2>3, <3>1 DEF Moves
  <2>. QED BY <2>1, <2>2, <2>3 DEF ReadUpload
<1>. QED BY <1>2 DEF ReadUpload, Quiet, Moves

LEMMA MarkDoes ==
  ASSUME TypeInv, NEW l \in Loops, Mark(l)
  PROVE  /\ TypeInv' /\ WorkKeeps
         /\ \/ up' = up /\ overwrote' = overwrote /\ Moves(l, {"fail"})
            \/ /\ overwrote' = (overwrote \/ up.status \in Settled) /\ up.status # "GONE"
               /\ \/ TypeAt(l) = "PREVIEW" /\ up'.status = "PREVIEWING" /\ Moves(l, {"preview"})
                  \/ TypeAt(l) # "PREVIEW" /\ up'.status = "IMPORTING" /\ Moves(l, {"import"})
<1>. USE DEF TypeInv, TypeOK, WorkKeeps
<1>1. Busy(l) /\ job' = job BY DEF Mark, Busy, At
<1>2. CASE Throw(l, FALSE) /\ UNCHANGED <<up, overwrote>>
  <2>1. Moves(l, {"fail"}) /\ ExecInv' BY <1>1, <1>2, GotoDoes
  <2>. QED BY <1>2, <2>1 DEF Mark, Quiet, Moves
<1>3. CASE /\ up.status # "GONE"
           /\ up' = [up EXCEPT !.status = IF TypeAt(l) = "PREVIEW" THEN "PREVIEWING" ELSE "IMPORTING"]
           /\ overwrote' = (overwrote \/ up.status \in Settled)
           /\ Goto(l, IF TypeAt(l) = "PREVIEW" THEN "preview" ELSE "import")
  <2>1. up' \in UpRow BY <1>3 DEF UpRow, Cancellable, Processing
  <2>2. CASE TypeAt(l) = "PREVIEW"
    <3>1. Moves(l, {"preview"}) /\ ExecInv' BY <1>1, <1>3, <2>2, GotoDoes
    <3>. QED BY <1>3, <2>1, <2>2, <3>1
         DEF Mark, Quiet, Moves, UpRow
  <2>3. CASE TypeAt(l) # "PREVIEW"
    <3>1. Moves(l, {"import"}) /\ ExecInv' BY <1>1, <1>3, <2>3, GotoDoes
    <3>. QED BY <1>3, <2>1, <2>3, <3>1
         DEF Mark, Quiet, Moves, UpRow
  <2>. QED BY <2>2, <2>3
<1>. QED BY <1>2, <1>3 DEF Mark

LEMMA PreviewDoes ==
  ASSUME TypeInv, NEW l \in Loops, Preview(l)
  PROVE  /\ TypeInv' /\ WorkKeeps
         /\ up'.status = up.status /\ overwrote' = overwrote /\ Moves(l, {"fail", "queue"})
<1>. USE DEF TypeInv, TypeOK, WorkKeeps
<1>1. Busy(l) /\ job' = job BY DEF Preview, Busy, At
<1>2. CASE \E final \in BOOLEAN : Throw(l, final) /\ UNCHANGED up
  <2>1. Moves(l, {"fail"}) /\ ExecInv' BY <1>1, <1>2, GotoDoes
  <2>. QED BY <1>2, <2>1 DEF Preview, Quiet, Moves
<1>3. CASE up' = [up EXCEPT !.preview = TRUE] /\ Goto(l, "queue")
  <2>1. up' \in UpRow /\ up'.status = up.status BY <1>3 DEF UpRow
  <2>2. Moves(l, {"queue"}) /\ ExecInv' BY <1>1, <1>3, GotoDoes
  <2>. QED BY <2>1, <2>2 DEF Preview, Quiet, Moves, UpRow
<1>. QED BY <1>2, <1>3 DEF Preview

LEMMA ImportDoes ==
  ASSUME TypeInv, NEW l \in Loops, Import(l)
  PROVE  /\ TypeInv' /\ WorkKeeps
         /\ up' = up /\ overwrote' = overwrote /\ Moves(l, {"fail", "meta"})
<1>. USE DEF TypeInv, TypeOK, WorkKeeps
<1>1. Busy(l) /\ job' = job BY DEF Import, Busy, At
<1>2. CASE \E final \in BOOLEAN : Throw(l, final)
  <2>1. Moves(l, {"fail"}) /\ ExecInv' BY <1>1, <1>2, GotoDoes
  <2>. QED BY <2>1 DEF Import, Quiet, Moves
<1>3. CASE Goto(l, "meta")
  <2>1. Moves(l, {"meta"}) /\ ExecInv' BY <1>1, <1>3, GotoDoes
  <2>. QED BY <2>1 DEF Import, Quiet, Moves
<1>. QED BY <1>2, <1>3 DEF Import

LEMMA MetaDoes ==
  ASSUME TypeInv, NEW l \in Loops, Meta(l)
  PROVE  /\ TypeInv' /\ WorkKeeps
         /\ \/ up' = up /\ overwrote' = overwrote /\ Moves(l, {"fail"})
            \/ /\ overwrote' = (overwrote \/ up.status \in Settled) /\ up.status # "GONE"
               /\ up'.status = "COMPLETED" /\ Moves(l, {"complete"})
<1>. USE DEF TypeInv, TypeOK, WorkKeeps
<1>1. Busy(l) /\ job' = job BY DEF Meta, Busy, At
<1>2. CASE Throw(l, FALSE) /\ UNCHANGED <<up, overwrote>>
  <2>1. Moves(l, {"fail"}) /\ ExecInv' BY <1>1, <1>2, GotoDoes
  <2>. QED BY <1>2, <2>1 DEF Meta, Quiet, Moves
<1>3. CASE /\ up.status # "GONE" /\ up' = [up EXCEPT !.status = "COMPLETED"]
           /\ overwrote' = (overwrote \/ up.status \in Settled)
           /\ Goto(l, "complete")
  <2>1. up' \in UpRow /\ up'.status = "COMPLETED" BY <1>3 DEF UpRow, Settled
  <2>2. Moves(l, {"complete"}) /\ ExecInv' BY <1>1, <1>3, GotoDoes
  <2>. QED BY <1>3, <2>1, <2>2 DEF Meta, Quiet, Moves, UpRow
<1>. QED BY <1>2, <1>3 DEF Meta


\* The executor is idle again.
Ends(l) ==
  /\ \A m \in Loops \ {l} : exec'[m] = exec[m]
  /\ exec'[l] = Idle /\ exec' \in [Loops -> Execution]

LEMMA EndsDoes ==
  ASSUME TypeInv, NEW l \in Loops, exec' = [exec EXCEPT ![l] = Idle],
         \A k \in Jobs : job'[k].status = "NEW" => job[k].status = "NEW"
  PROVE  Ends(l) /\ ExecInv'
<1>1. exec' \in [Loops -> Execution] /\ ExecInv' BY IdleExec, ExecStep
<1>2. exec'[l] = Idle /\ \A m \in Loops \ {l} : exec'[m] = exec[m] BY DEF TypeInv, TypeOK
<1>. QED BY <1>1, <1>2 DEF Ends

\* One row of the queue gets another status.
LEMMA OneRowDoes ==
  ASSUME TypeInv, NEW j \in Jobs, NEW s \in {"QUEUED", "RUNNING", "COMPLETED", "FAILED"},
         \/ job' = [job EXCEPT ![j].status = s]
         \/ job' = [job EXCEPT ![j].status = s, ![j].attempts = @ + 1]
  PROVE  job' \in [Jobs -> JobRow] /\ OneRow(j, s)
<1>1. job \in [Jobs -> JobRow] BY DEF TypeInv, TypeOK
<1>2. CASE job' = [job EXCEPT ![j].status = s] BY <1>1, <1>2 DEF JobRow, OneRow
<1>3. CASE job' = [job EXCEPT ![j].status = s, ![j].attempts = @ + 1]
  <2>1. job'[j] \in JobRow /\ job'[j].status = s /\ job'[j].type = job[j].type
    BY <1>1, <1>3 DEF JobRow
  <2>. QED BY <1>1, <1>3, <2>1 DEF OneRow
<1>. QED BY <1>2, <1>3

LEMMA ClaimDoes ==
  ASSUME TypeInv, NEW l \in Loops, Claim(l)
  PROVE  /\ TypeInv' /\ up' = up /\ overwrote' = overwrote /\ count' = count
         /\ slow' = slow /\ outlived' = outlived /\ At(l, "idle")
         /\ \E j \in Jobs : /\ job[j].status = "QUEUED" /\ OneRow(j, "RUNNING")
                            /\ \A m \in Loops \ {l} : exec'[m] = exec[m]
                            /\ exec'[l].job = j /\ exec'[l].pc = "read"
<1>. USE DEF TypeInv, TypeOK
<1>1. PICK j \in Jobs :
        /\ job[j].status = "QUEUED"
        /\ job' = [job EXCEPT ![j].status = "RUNNING", ![j].attempts = @ + 1]
        /\ exec' = [exec EXCEPT ![l] = [job |-> j, pc |-> "read", final |-> FALSE,
                                        attempts |-> job[j].attempts + 1]]
  BY DEF Claim, Has
<1>2. job' \in [Jobs -> JobRow] /\ OneRow(j, "RUNNING") BY <1>1, OneRowDoes
<1>. DEFINE w == [job |-> j, pc |-> "read", final |-> FALSE, attempts |-> job[j].attempts + 1]
<1>3. w \in Execution /\ w.pc = "read" /\ w.job = j BY DEF Execution, JobRow
<1>4. exec' = [exec EXCEPT ![l] = w] BY <1>1
<1>. HIDE DEF w
<1>5. \A k \in Jobs : job'[k].status = "NEW" => job[k].status = "NEW" BY <1>2 DEF OneRow
<1>6. job'[j].status # "NEW" BY <1>2 DEF OneRow
<1>7. exec' \in [Loops -> Execution] /\ ExecInv' BY <1>3, <1>4, <1>5, <1>6, ExecStep
<1>8. exec'[l] = w /\ \A m \in Loops \ {l} : exec'[m] = exec[m] BY <1>4
<1>. QED BY <1>1, <1>2, <1>3, <1>7, <1>8 DEF Claim, Quiet

LEMMA QueueImportDoes ==
  ASSUME TypeInv, NEW l \in Loops, QueueImport(l)
  PROVE  /\ TypeInv' /\ overwrote' = overwrote /\ count' = count /\ slow' = slow /\ outlived' = outlived
         /\ \/ up' = up /\ job' = job /\ Moves(l, {"fail"})
            \/ /\ Supersedes /\ up.status \in FROM_PREVIEW
               /\ up'.status \in {"QUEUED_PREVIEW", "QUEUED_IMPORT"} /\ Moves(l, {"complete"})
<1>. USE DEF TypeInv, TypeOK
<1>1. Busy(l) BY DEF QueueImport, Busy, At
<1>2. CASE Throw(l, FALSE) /\ UNCHANGED <<up, job>>
  <2>1. Moves(l, {"fail"}) /\ ExecInv' BY <1>1, <1>2, GotoDoes
  <2>. QED BY <1>2, <2>1 DEF QueueImport, Quiet, Moves
<1>3. CASE /\ GuardedQueue(FROM_PREVIEW, "IMPORT", [up EXCEPT !.mapping = TRUE])
           /\ Goto(l, "complete")
  <2>1. [up EXCEPT !.mapping = TRUE] \in UpRow BY DEF UpRow
  <2>2. /\ up.status \in FROM_PREVIEW /\ up' \in UpRow
        /\ up'.status \in {"QUEUED_PREVIEW", "QUEUED_IMPORT"}
        /\ job' \in [Jobs -> JobRow] /\ Supersedes
    BY <1>3, <2>1, GuardedQueueDoes
  <2>3. \A k \in Jobs : job'[k].status = "NEW" => job[k].status = "NEW" BY <2>2 DEF Supersedes
  <2>4. Moves(l, {"complete"}) /\ ExecInv' BY <1>1, <1>3, <2>3, GotoDoes
  <2>. QED BY <2>2, <2>4 DEF QueueImport, Quiet, Moves, UpRow
<1>. QED BY <1>2, <1>3 DEF QueueImport

LEMMA CompleteDoes ==
  ASSUME TypeInv, NEW l \in Loops, Complete(l)
  PROVE  /\ TypeInv' /\ up' = up /\ overwrote' = overwrote /\ count' = count
         /\ slow' = slow /\ outlived' = outlived /\ (At(l, "complete") \/ At(l, "skip"))
         /\ IF Owns(l) THEN OneRow(exec[l].job, "COMPLETED") ELSE job' = job
         /\ \/ Ends(l)
            \/ Moves(l, {"delete"}) /\ At(l, "complete") /\ TypeAt(l) = "IMPORT"
<1>. USE DEF TypeInv, TypeOK
<1>0. Busy(l) /\ exec[l].job \in Jobs /\ RowOf(l).status # "NEW"
  BY DEF Complete, Busy, At, ExecInv
<1>1. /\ job' \in [Jobs -> JobRow]
      /\ IF Owns(l) THEN OneRow(exec[l].job, "COMPLETED") ELSE job' = job
  <2>1. CASE Owns(l) BY <1>0, <2>1, OneRowDoes DEF Complete
  <2>2. CASE ~Owns(l) BY <2>2 DEF Complete
  <2>. QED BY <2>1, <2>2
<1>2. \A k \in Jobs : job'[k].status = "NEW" => job[k].status = "NEW" BY <1>1 DEF OneRow
<1>3. CASE DeletesFile(l)
  <2>. DEFINE w == [exec[l] EXCEPT !.pc = "delete"]
  <2>1. exec' = [exec EXCEPT ![l] = w] BY <1>3 DEF Complete
  <2>2. w \in Execution /\ w.pc = "delete" /\ w.job = exec[l].job BY DEF Execution
  <2>. HIDE DEF w
  <2>3. exec' \in [Loops -> Execution] /\ ExecInv' BY <1>0, <1>2, <2>1, <2>2, ExecStep DEF RowOf
  <2>4. exec'[l] = w /\ \A m \in Loops \ {l} : exec'[m] = exec[m] BY <2>1
  <2>. QED BY <1>1, <1>3, <2>2, <2>3, <2>4 DEF Complete, Quiet, Moves, DeletesFile
<1>4. CASE ~DeletesFile(l)
  <2>1. exec' = [exec EXCEPT ![l] = Idle] BY <1>4 DEF Complete
  <2>2. Ends(l) /\ ExecInv' BY <1>2, <2>1, EndsDoes
  <2>. QED BY <1>1, <2>2 DEF Complete, Quiet, Ends
<1>. QED BY <1>3, <1>4

LEMMA FailDoes ==
  ASSUME TypeInv, NEW l \in Loops, Fail(l)
  PROVE  /\ TypeInv' /\ overwrote' = overwrote /\ count' = count /\ slow' = slow /\ outlived' = outlived
         /\ At(l, "fail") /\ Ends(l)
         /\ IF Owns(l) THEN OneRow(exec[l].job, IF WillRetry(l) THEN "QUEUED" ELSE "FAILED") ELSE job' = job
         /\ IF up.status \in Cancellable
            THEN up'.status = IF WillRetry(l) THEN "RETRYING" ELSE "FAILED"
            ELSE up' = up
<1>. USE DEF TypeInv, TypeOK
<1>0. Busy(l) /\ exec[l].job \in Jobs BY DEF Fail, Busy, At, ExecInv
<1>1. /\ job' \in [Jobs -> JobRow]
      /\ IF Owns(l) THEN OneRow(exec[l].job, IF WillRetry(l) THEN "QUEUED" ELSE "FAILED") ELSE job' = job
  <2>1. CASE Owns(l) BY <1>0, <2>1, OneRowDoes DEF Fail
  <2>2. CASE ~Owns(l) BY <2>2 DEF Fail
  <2>. QED BY <2>1, <2>2
<1>2. \A k \in Jobs : job'[k].status = "NEW" => job[k].status = "NEW" BY <1>1 DEF OneRow
<1>3. Ends(l) /\ ExecInv' BY <1>2, EndsDoes DEF Fail
<1>4. /\ up' \in UpRow
      /\ IF up.status \in Cancellable
         THEN up'.status = IF WillRetry(l) THEN "RETRYING" ELSE "FAILED"
         ELSE up' = up
  BY DEF Fail, FailsUpload, UpRow, Settled, Cancellable, Processing
<1>. QED BY <1>1, <1>3, <1>4 DEF Fail, Quiet, Ends, UpRow

LEMMA RecoverJobDoes ==
  ASSUME TypeInv, NEW j \in Jobs, RecoverJob(j)
  PROVE  /\ TypeInv' /\ UNCHANGED <<up, exec, slow, overwrote, outlived>>
         /\ job[j].status = "RUNNING"
         /\ IF BusyWith(j) = {} THEN count' = count ELSE count'.fault > 0
         /\ OneRow(j, "QUEUED") \/ OneRow(j, "FAILED")
<1>. USE DEF TypeInv, TypeOK
<1>1. job' \in [Jobs -> JobRow] /\ (OneRow(j, "QUEUED") \/ OneRow(j, "FAILED"))
  BY OneRowDoes DEF RecoverJob
<1>2. /\ count' \in [request : Nat, cancel : Nat, fault : Nat]
      /\ IF BusyWith(j) = {} THEN count' = count ELSE count'.fault > 0
  BY DisturbDoes DEF RecoverJob
<1>3. ExecInv' BY <1>1 DEF ExecInv, RecoverJob, OneRow, Busy, RowOf, At
<1>. QED BY <1>1, <1>2, <1>3 DEF RecoverJob

LEMMA CrashDoes ==
  ASSUME TypeInv, NEW l \in Loops, Crash(l)
  PROVE  TypeInv' /\ Ends(l) /\ count'.fault > 0 /\ UNCHANGED <<up, job, slow, overwrote, outlived>>
<1>1. Ends(l) /\ ExecInv' BY EndsDoes DEF Crash
<1>2. count' \in [request : Nat, cancel : Nat, fault : Nat] /\ count'.fault > 0
  BY DisturbDoes DEF Crash, TypeInv, TypeOK
<1>. QED BY <1>1, <1>2 DEF Crash, TypeInv, TypeOK, Ends

LEMMA DeleteFileDoes ==
  ASSUME TypeInv, NEW l \in Loops, DeleteFile(l)
  PROVE  TypeInv' /\ Ends(l) /\ UNCHANGED <<up, job, slow, overwrote, outlived, count>>
<1>1. Ends(l) /\ ExecInv' BY EndsDoes DEF DeleteFile
<1>. QED BY ZenonT(60), <1>1 DEF DeleteFile, Quiet, TypeInv, TypeOK, Ends

\* The cleanup and the repair of uploads.
LEMMA CleanupDoes ==
  ASSUME TypeInv, Cleanup \/ RecoverUpload
  PROVE  /\ TypeInv' /\ UNCHANGED <<job, exec, overwrote, count>>
         /\ \/ up' = up
            \/ /\ up.status \in {"PENDING_UPLOAD", "AWAITING_CONFIRMATION"} \/ Interrupted
               /\ up'.status = "FAILED"
            \/ up.status \in Settled /\ up'.status = "GONE"
         /\ slow' = "deleting" /\ slow # "deleting" =>
              up'.status = "GONE" \/ outlived'
         /\ outlived => outlived'
         /\ slow = "deleting" /\ slow' = "deleting" => outlived' = outlived
<1>. USE DEF TypeInv, TypeOK
<1>1. /\ UNCHANGED <<job, exec, overwrote, count>> /\ ExecInv'
      /\ file' \in BOOLEAN /\ outlived' \in BOOLEAN
      /\ slow' \in {"none", "put", "cancel", "retryFailed", "listed", "deleting"}
  BY DEF Cleanup, CancelStale, SweepList, SweepRow, SweepFile, PurgeFile, RecoverUpload, Quiet,
         ExecInv, Busy, RowOf, At
<1>2. CASE CancelStale \/ RecoverUpload
  <2>1. up' \in UpRow /\ up'.status = "FAILED"
    BY <1>2 DEF CancelStale, RecoverUpload, UpRow, Settled
  <2>. QED BY <1>1, <1>2, <2>1 DEF CancelStale, RecoverUpload, Quiet, UpRow
<1>3. CASE SweepRow
  <2>1. CASE up.status \in Settled
    <3>1. up' \in UpRow /\ up'.status = "GONE" BY <1>3, <2>1 DEF SweepRow, UpRow
    <3>. QED BY <1>1, <1>3, <2>1, <3>1 DEF SweepRow, UpRow
  <2>2. CASE up.status \notin Settled BY <1>1, <1>3, <2>2 DEF SweepRow
  <2>. QED BY <2>1, <2>2
<1>4. CASE SweepList \/ SweepFile \/ PurgeFile
  BY <1>1, <1>4 DEF SweepList, SweepFile, PurgeFile
<1>. QED BY <1>2, <1>3, <1>4 DEF Cleanup

LEMMA TypeStep == TypeInv /\ [Next]_vars => TypeInv'
<1>. SUFFICES ASSUME TypeInv, [Next]_vars PROVE TypeInv' OBVIOUS
<1>1. CASE Request
  <2>1. RequestDoes BY <1>1, RequestStep DEF TypeInv
  <2>2. file' \in BOOLEAN
    BY <1>1 DEF TypeInv, TypeOK, Request, PutStart, PutStore, PutBreaks, Uploaded, Confirm, Retry,
                RetryFailedList, RetryFailed, CancelRead, CancelWrite, CancelAll, DismissFailed,
                Unraced
  <2>3. \A k \in Jobs : job'[k].status = "NEW" => job[k].status = "NEW"
    BY <2>1 DEF RequestDoes, Supersedes, FailsActive
  <2>4. ExecInv' BY <2>1, <2>3 DEF RequestDoes, TypeInv, ExecInv, Busy, RowOf, At
  <2>. QED BY <2>1, <2>2, <2>4 DEF TypeInv, TypeOK, RequestDoes, UpRow
<1>2. CASE \E l \in Loops : Execute(l) \/ Crash(l)
  BY <1>2, ClaimDoes, ReadUploadDoes, MarkDoes, PreviewDoes, QueueImportDoes, ImportDoes,
     MetaDoes,
     CompleteDoes, DeleteFileDoes, FailDoes, CrashDoes DEF Execute
<1>3. CASE Cleanup \/ RecoverUpload BY <1>3, CleanupDoes
<1>4. CASE \E j \in Jobs : RecoverJob(j) BY <1>4, RecoverJobDoes
<1>5. CASE UNCHANGED vars
  BY <1>5 DEF vars, TypeInv, TypeOK, ExecInv, Busy, RowOf, At
<1>. QED BY <1>1, <1>2, <1>3, <1>4, <1>5 DEF Next

\* Every state is well typed, and an executor that works has a row of the queue.
THEOREM TypeCorrect == Spec => []TypeOK
<1>1. Spec => []TypeInv BY InitTypes, TypeStep, PTL DEF Spec
<1>. QED BY <1>1, PTL DEF TypeInv

------------------------------------------------------------------------------
(* One active row *)

Dismissed ==
  \A k \in Jobs : /\ job'[k].type = job[k].type
                  /\ job'[k].status = IF job[k].status = "FAILED" THEN "COMPLETED" ELSE job[k].status

\* What a step may do to the rows of the queue.
RowsMove ==
  \/ job' = job
  \/ FailsActive
  \/ Supersedes
  \/ Dismissed
  \/ \E j \in Jobs, s \in {"QUEUED", "RUNNING", "COMPLETED", "FAILED"} : Active(j) /\ OneRow(j, s)

LEMMA RowsStep == TypeInv /\ [Next]_vars => RowsMove
<1>. SUFFICES ASSUME TypeInv, [Next]_vars PROVE RowsMove OBVIOUS
<1>1. CASE Request
  BY <1>1, RequestStep DEF TypeInv, RequestDoes, RowsMove, Dismissed
<1>2. ASSUME NEW l \in Loops, Claim(l) PROVE RowsMove
  BY <1>2, ClaimDoes DEF RowsMove, Active
<1>3. ASSUME NEW l \in Loops, ReadUpload(l) \/ Mark(l) \/ Preview(l) \/ Import(l) \/ Meta(l)
      PROVE  RowsMove
  BY <1>3, ReadUploadDoes, MarkDoes, PreviewDoes, ImportDoes, MetaDoes DEF WorkKeeps, RowsMove
<1>4. ASSUME NEW l \in Loops, QueueImport(l) PROVE RowsMove
  BY <1>4, QueueImportDoes DEF RowsMove
<1>5. ASSUME NEW l \in Loops, Complete(l) \/ Fail(l) PROVE RowsMove
  <2>1. Busy(l) BY <1>5 DEF Complete, Fail, Busy, At
  <2>2. exec[l].job \in Jobs /\ (Owns(l) => Active(exec[l].job))
    BY <2>1 DEF TypeInv, ExecInv, Owns, Active
  <2>3. (IF Owns(l) THEN OneRow(exec[l].job, "COMPLETED") ELSE job' = job)
        \/ (IF Owns(l) THEN OneRow(exec[l].job, IF WillRetry(l) THEN "QUEUED" ELSE "FAILED") ELSE job' = job)
    BY <1>5, CompleteDoes, FailDoes
  <2>. QED BY <2>2, <2>3 DEF RowsMove
<1>6. ASSUME NEW l \in Loops, Crash(l) \/ DeleteFile(l) PROVE RowsMove
  BY <1>6, CrashDoes, DeleteFileDoes DEF RowsMove
<1>7. CASE Cleanup \/ RecoverUpload BY <1>7, CleanupDoes DEF RowsMove
<1>8. ASSUME NEW j \in Jobs, RecoverJob(j) PROVE RowsMove
  BY <1>8, RecoverJobDoes DEF RowsMove, Active
<1>9. CASE UNCHANGED vars BY <1>9 DEF vars, RowsMove
<1>. QED BY <1>1, <1>2, <1>3, <1>4, <1>5, <1>6, <1>7, <1>8, <1>9 DEF Next, Execute

\* No row gets another type, and what is over stays over.
LEMMA RowsKeep ==
  ASSUME RowsMove, NEW k \in Jobs
  PROVE  /\ job[k].status # "NEW" => job'[k].type = job[k].type /\ job'[k].status # "NEW"
         /\ job[k].status \in {"FAILED", "COMPLETED"} => job'[k].status \in {"FAILED", "COMPLETED"}
BY DEF RowsMove, FailsActive, Supersedes, Dismissed, OneRow, Active

LEMMA OneActiveStep == OneActiveJob /\ RowsMove => OneActiveJob'
<1>. SUFFICES ASSUME OneActiveJob, RowsMove PROVE OneActiveJob' OBVIOUS
<1>1. CASE job' = job BY <1>1 DEF OneActiveJob, Active
<1>2. CASE FailsActive BY <1>2 DEF FailsActive, OneActiveJob, Active
<1>3. CASE Supersedes BY <1>3 DEF Supersedes, OneActiveJob, Active
<1>4. CASE Dismissed BY <1>4 DEF Dismissed, OneActiveJob, Active
<1>5. CASE \E j \in Jobs, s \in {"QUEUED", "RUNNING", "COMPLETED", "FAILED"} : Active(j) /\ OneRow(j, s)
  BY <1>5 DEF OneRow, OneActiveJob, Active
<1>. QED BY <1>1, <1>2, <1>3, <1>4, <1>5 DEF RowsMove

\* At most one row of the queue is active for the upload.
THEOREM OneRowIsActive == Spec => []OneActiveJob
<1>1. Init => OneActiveJob BY DEF Init, OneActiveJob, Active, NoRow
<1>2. TypeInv /\ OneActiveJob /\ [Next]_vars => OneActiveJob' BY RowsStep, OneActiveStep
<1>3. Spec => []TypeInv BY InitTypes, TypeStep, PTL DEF Spec
<1>. QED BY <1>1, <1>2, <1>3, PTL DEF Spec

------------------------------------------------------------------------------
(* The other parts of the invariant, one at a time *)

\* What a step may do to the executors: nothing, or one moves on, ends or claims.
LEMMA FreshStep == TypeInv /\ FreshInv /\ [Next]_vars => FreshInv'
<1>. SUFFICES ASSUME TypeInv, FreshInv, [Next]_vars PROVE FreshInv' OBVIOUS
<1>1. CASE Request
  <2>1. RequestDoes BY <1>1, RequestStep DEF TypeInv
  <2>2. CASE up' = up /\ (FailsActive \/ job' = job \/ Dismissed)
    BY <2>1, <2>2 DEF FreshInv, RequestDoes, FailsActive, Dismissed, Active, At
  <2>3. CASE up'.status \in {"QUEUED_PREVIEW", "QUEUED_IMPORT", "FAILED"} BY <2>3 DEF FreshInv
  <2>. QED BY <2>1, <2>2, <2>3 DEF RequestDoes, Dismissed
<1>2. ASSUME NEW l \in Loops, Claim(l) PROVE FreshInv'
  BY <1>2, ClaimDoes DEF FreshInv
<1>3. ASSUME NEW l \in Loops, Busy(l), up' = up \/ up'.status = up.status PROVE FreshInv'
  BY <1>3 DEF FreshInv, Busy
<1>4. ASSUME NEW l \in Loops, Execute(l) \/ Crash(l), ~Claim(l) PROVE FreshInv'
  <2>1. Busy(l)
    BY <1>4 DEF Execute, Crash, ReadUpload, Mark, Preview, QueueImport, Import, Meta, Complete,
                DeleteFile, Fail, Busy, At
  <2>2. up' = up \/ up'.status = up.status \/ up'.status \notin {"PENDING_UPLOAD", "AWAITING_CONFIRMATION"}
    BY <1>4, ReadUploadDoes, MarkDoes, PreviewDoes, QueueImportDoes, ImportDoes, MetaDoes,
       CompleteDoes, DeleteFileDoes, FailDoes, CrashDoes DEF Execute
  <2>. QED BY <1>3, <2>1, <2>2 DEF FreshInv
<1>5. CASE Cleanup \/ RecoverUpload BY <1>5, CleanupDoes DEF FreshInv, At
<1>6. ASSUME NEW j \in Jobs, RecoverJob(j) PROVE FreshInv' BY <1>6, RecoverJobDoes DEF FreshInv
<1>7. CASE UNCHANGED vars BY <1>7 DEF vars, FreshInv, At
<1>. QED BY <1>1, <1>2, <1>4, <1>5, <1>6, <1>7 DEF Next

LEMMA SweepStep == TypeInv /\ SweepInv /\ [Next]_vars => SweepInv'
<1>. SUFFICES ASSUME TypeInv, SweepInv, [Next]_vars PROVE SweepInv' OBVIOUS
<1>0. up.status = "GONE" => up.status \notin Settled \cup Cancellable
  BY DEF Settled, Cancellable, Processing
<1>1. CASE Request
  <2>1. RequestDoes BY <1>1, RequestStep DEF TypeInv
  <2>. QED BY <1>0, <2>1 DEF RequestDoes, SweepInv, FROM_CONFIRM
<1>2. ASSUME NEW l \in Loops, Execute(l) \/ Crash(l) PROVE SweepInv'
  <2>1. slow' = slow /\ outlived' = outlived /\ (up.status = "GONE" => up'.status = "GONE")
    BY <1>0, <1>2, ClaimDoes, ReadUploadDoes, MarkDoes, PreviewDoes, QueueImportDoes, ImportDoes,
       MetaDoes,
       CompleteDoes, DeleteFileDoes, FailDoes, CrashDoes DEF Execute, WorkKeeps, FROM_PREVIEW
  <2>. QED BY <2>1 DEF SweepInv
<1>3. CASE Cleanup \/ RecoverUpload
  <2>1. Interrupted => up.status = "IMPORTING" BY DEF Interrupted
  <2>. QED BY <1>0, <1>3, <2>1, CleanupDoes DEF SweepInv, Settled
<1>4. ASSUME NEW j \in Jobs, RecoverJob(j) PROVE SweepInv' BY <1>4, RecoverJobDoes DEF SweepInv
<1>5. CASE UNCHANGED vars BY <1>5 DEF vars, SweepInv
<1>. QED BY <1>1, <1>2, <1>3, <1>4, <1>5 DEF Next

\* COMPLETED is left for the sweep, or overwritten.
Done == up.status \in {"COMPLETED", "GONE"} \/ overwrote

LEMMA DoneStep == TypeInv /\ Done /\ [Next]_vars => Done'
<1>. SUFFICES ASSUME TypeInv, Done, [Next]_vars PROVE Done' OBVIOUS
<1>0. /\ up.status = "GONE" => up.status \notin Settled \cup Cancellable
      /\ up.status = "COMPLETED" => up.status \notin Cancellable
      /\ "COMPLETED" \in Settled /\ up.status \in {"COMPLETED", "GONE"} => up.status \notin FROM_CONFIRM \cup FROM_PREVIEW
  BY DEF Settled, Cancellable, Processing, FROM_CONFIRM, FROM_PREVIEW
<1>1. CASE Request
  <2>1. RequestDoes BY <1>1, RequestStep DEF TypeInv
  <2>. QED BY <1>0, <2>1 DEF RequestDoes, Done, Settled
<1>2. ASSUME NEW l \in Loops, Execute(l) \/ Crash(l) PROVE Done'
  BY <1>0, <1>2, ClaimDoes, ReadUploadDoes, MarkDoes, PreviewDoes, QueueImportDoes, ImportDoes,
     MetaDoes,
     CompleteDoes, DeleteFileDoes, FailDoes, CrashDoes DEF Execute, Done, Settled
<1>3. CASE Cleanup \/ RecoverUpload
  <2>1. Interrupted => up.status = "IMPORTING" BY DEF Interrupted
  <2>. QED BY <1>0, <1>3, <2>1, CleanupDoes DEF Done
<1>4. ASSUME NEW j \in Jobs, RecoverJob(j) PROVE Done' BY <1>4, RecoverJobDoes DEF Done
<1>5. CASE UNCHANGED vars BY <1>5 DEF vars, Done
<1>. QED BY <1>1, <1>2, <1>3, <1>4, <1>5 DEF Next

ProgressOK(l) ==
  /\ At(l, "preview") \/ At(l, "queue") => TypeAt(l) = "PREVIEW"
  /\ At(l, "import") \/ At(l, "meta") \/ At(l, "delete") => TypeAt(l) = "IMPORT"
  /\ At(l, "complete") /\ TypeAt(l) = "PREVIEW" => RowOf(l).status \in {"FAILED", "COMPLETED"}
  /\ (At(l, "complete") \/ At(l, "delete")) /\ TypeAt(l) = "IMPORT" => Done

LEMMA StaysOK ==
  ASSUME TypeInv, [Next]_vars, NEW l \in Loops, ProgressOK(l), exec'[l] = exec[l]
  PROVE  ProgressOK(l)'
<1>1. CASE At(l, "idle") BY <1>1 DEF ProgressOK, At
<1>2. CASE Busy(l)
  <2>1. exec[l].job \in Jobs /\ RowOf(l).status # "NEW" BY <1>2 DEF TypeInv, ExecInv
  <2>2. TypeAt(l)' = TypeAt(l)
        /\ (RowOf(l).status \in {"FAILED", "COMPLETED"} => RowOf(l)'.status \in {"FAILED", "COMPLETED"})
    BY <2>1, RowsStep, RowsKeep DEF TypeAt, RowOf
  <2>3. Done => Done' BY DoneStep
  <2>. QED BY <2>2, <2>3 DEF ProgressOK, At
<1>. QED BY <1>1, <1>2 DEF Busy

LEMMA ProgressStep == TypeInv /\ FreshInv /\ ProgressInv /\ [Next]_vars => ProgressInv'
<1>. SUFFICES ASSUME TypeInv, FreshInv, ProgressInv, [Next]_vars PROVE ProgressInv' OBVIOUS
<1>0. \A l \in Loops : ProgressOK(l) BY DEF ProgressInv, ProgressOK, Done
<1>1. SUFFICES ASSUME NEW l \in Loops PROVE ProgressOK(l)'
  BY DEF ProgressInv, ProgressOK, Done
<1>2. CASE exec'[l] = exec[l] BY <1>0, <1>2, StaysOK
<1>3. CASE exec'[l] # exec[l]
  <2>1. CASE Execute(l) \/ Crash(l)
    <3>0. CASE Claim(l)
      <4>1. exec'[l].pc = "read" BY <3>0, ClaimDoes
      <4>. QED BY <4>1 DEF ProgressOK, At
    <3>1. CASE Ends(l) BY <3>1 DEF Ends, Idle, ProgressOK, At
    <3>2. CASE ~Claim(l) /\ ~Ends(l)
      <4>1. Busy(l) /\ exec[l].job \in Jobs /\ RowOf(l).status # "NEW"
        BY <2>1, <3>2
        DEF Execute, Crash, ReadUpload, Mark, Preview, QueueImport, Import, Meta, Complete,
                DeleteFile, Fail, Busy, At, TypeInv, ExecInv
      <4>2. job'[exec[l].job].type = job[exec[l].job].type BY <4>1, RowsStep, RowsKeep DEF RowOf
      <4>3. job[exec[l].job].type \in {"PREVIEW", "IMPORT"}
        BY <4>1 DEF TypeInv, TypeOK, JobRow
      <4>4. CASE ReadUpload(l)
        BY <4>4, ReadUploadDoes DEF Moves, ProgressOK, At
      <4>5. CASE Mark(l)
        BY <4>2, <4>3, <4>5, MarkDoes DEF Moves, ProgressOK, At, TypeAt
      <4>6. CASE Preview(l)
        <5>1. TypeAt(l) = "PREVIEW" BY <1>0, <4>6 DEF ProgressOK, Preview
        <5>. QED BY <4>2, <4>6, <5>1, PreviewDoes DEF Moves, ProgressOK, At, TypeAt
      <4>7. CASE QueueImport(l)
        <5>1. CASE Moves(l, {"fail"}) BY <5>1 DEF Moves, ProgressOK, At
        <5>2. CASE Supersedes /\ Moves(l, {"complete"})
          <6>1. TypeAt(l) = "PREVIEW" BY <1>0, <4>7 DEF ProgressOK, QueueImport
          <6>2. RowOf(l)'.status \in {"FAILED", "COMPLETED"}
            <7>1. job[exec[l].job].status \in {"QUEUED", "RUNNING", "COMPLETED", "FAILED"}
              BY <4>1 DEF TypeInv, TypeOK, JobRow, RowOf
            <7>2. job'[exec[l].job].status \in {"FAILED", "COMPLETED"}
              BY <4>1, <5>2, <7>1 DEF Supersedes, Active, RowOf
            <7>. QED BY <5>2, <7>2 DEF Moves, RowOf
          <6>. QED BY <4>2, <5>2, <6>1, <6>2 DEF Moves, ProgressOK, At, TypeAt
        <5>. QED BY <4>7, <5>1, <5>2, QueueImportDoes
      <4>8. CASE Import(l)
        <5>1. TypeAt(l) = "IMPORT" BY <1>0, <4>8 DEF ProgressOK, Import
        <5>. QED BY <4>2, <4>8, <5>1, ImportDoes DEF Moves, ProgressOK, At, TypeAt
      <4>9. CASE Meta(l)
        <5>1. TypeAt(l) = "IMPORT" BY <1>0, <4>9 DEF ProgressOK, Meta
        <5>2. CASE Moves(l, {"fail"}) BY <5>2 DEF Moves, ProgressOK, At
        <5>3. CASE up'.status = "COMPLETED" /\ Moves(l, {"complete"})
          BY <4>2, <5>1, <5>3 DEF Moves, ProgressOK, At, TypeAt, Done
        <5>. QED BY <4>9, <5>2, <5>3, MetaDoes
      <4>10. CASE Complete(l)
        <5>1. Moves(l, {"delete"}) /\ At(l, "complete") /\ TypeAt(l) = "IMPORT"
          BY <3>2, <4>10, CompleteDoes
        <5>2. Done BY <1>0, <5>1 DEF ProgressOK
        <5>3. Done' BY <5>2, DoneStep
        <5>. QED BY <4>2, <5>1, <5>3 DEF Moves, ProgressOK, At, TypeAt
      <4>11. CASE DeleteFile(l) \/ Fail(l) \/ Crash(l)
        BY <3>2, <4>11, DeleteFileDoes, FailDoes, CrashDoes
      <4>. QED BY <2>1, <3>2, <4>4, <4>5, <4>6, <4>7, <4>8, <4>9, <4>10, <4>11 DEF Execute
    <3>. QED BY <3>0, <3>1, <3>2
  <2>2. CASE Request BY <1>3, <2>2, RequestStep DEF TypeInv, RequestDoes
  <2>3. ASSUME NEW m \in Loops \ {l}, Execute(m) \/ Crash(m) PROVE FALSE
    BY <1>3, <2>3, ClaimDoes, ReadUploadDoes, MarkDoes, PreviewDoes, QueueImportDoes, ImportDoes,
       MetaDoes,
       CompleteDoes, DeleteFileDoes, FailDoes, CrashDoes DEF Execute, Moves, Ends
  <2>4. CASE Cleanup \/ RecoverUpload BY <1>3, <2>4, CleanupDoes
  <2>5. ASSUME NEW j \in Jobs, RecoverJob(j) PROVE FALSE BY <1>3, <2>5, RecoverJobDoes
  <2>6. CASE UNCHANGED vars BY <1>3, <2>6 DEF vars
  <2>. QED BY <2>1, <2>2, <2>3, <2>4, <2>5, <2>6 DEF Next
<1>. QED BY <1>2, <1>3

\* Faults are counted and what was overwritten is remembered.
LEMMA HistoryGrows ==
  TypeInv /\ [Next]_vars =>
    (count'.fault = 0 => count.fault = 0) /\ (overwrote => overwrote')
<1>. SUFFICES ASSUME TypeInv, [Next]_vars
              PROVE  (count'.fault = 0 => count.fault = 0) /\ (overwrote => overwrote')
  OBVIOUS
<1>0. count.fault \in Nat BY DEF TypeInv, TypeOK
<1>1. CASE Request BY <1>0, <1>1, RequestStep DEF TypeInv, RequestDoes
<1>2. ASSUME NEW l \in Loops, Execute(l) \/ Crash(l)
      PROVE  (count'.fault = 0 => count.fault = 0) /\ (overwrote => overwrote')
  <2>1. CASE Claim(l) BY <2>1, ClaimDoes
  <2>2. CASE ReadUpload(l) BY <2>2, ReadUploadDoes DEF WorkKeeps
  <2>3. CASE Mark(l) BY <2>3, MarkDoes DEF WorkKeeps
  <2>4. CASE Preview(l) \/ Import(l) BY <2>4, PreviewDoes, ImportDoes DEF WorkKeeps
  <2>5. CASE Meta(l) BY <2>5, MetaDoes DEF WorkKeeps
  <2>6. CASE QueueImport(l) BY <2>6, QueueImportDoes
  <2>7. CASE Complete(l) BY <2>7, CompleteDoes
  <2>8. CASE DeleteFile(l) BY <2>8, DeleteFileDoes
  <2>9. CASE Fail(l) BY <2>9, FailDoes
  <2>10. CASE Crash(l)
    <3>1. count'.fault > 0 /\ overwrote' = overwrote BY <2>10, CrashDoes
    <3>. QED BY <3>1
  <2>. QED BY <1>2, <2>1, <2>2, <2>3, <2>4, <2>5, <2>6, <2>7, <2>8, <2>9, <2>10 DEF Execute
<1>3. CASE Cleanup \/ RecoverUpload BY <1>3, CleanupDoes
<1>4. ASSUME NEW j \in Jobs, RecoverJob(j)
      PROVE  (count'.fault = 0 => count.fault = 0) /\ (overwrote => overwrote')
  BY <1>0, <1>4, RecoverJobDoes
<1>5. CASE UNCHANGED vars BY <1>5 DEF vars
<1>. QED BY <1>1, <1>2, <1>3, <1>4, <1>5 DEF Next

\* Nobody has a new row, and nobody has a row after its end.
LEMMA Rowless ==
  ASSUME TypeInv, NEW l \in Loops
  PROVE  /\ exec[l].job \in Jobs <=> Busy(l)
         /\ \A j \in Jobs : exec[l].job = j => Busy(l) /\ job[j].status # "NEW"
         /\ Idle.job \notin Jobs
BY UploadAssumption DEF TypeInv, ExecInv, Busy, RowOf, Idle, Jobs

\* OwnerInv without its condition.
Owners ==
  /\ \A j \in Jobs : job[j].status = "RUNNING" => \E l \in Loops : exec[l].job = j
  /\ \A j \in Jobs : job[j].status = "QUEUED" => \A l \in Loops : exec[l].job # j
  /\ \A l, m \in Loops : Busy(l) /\ exec[l].job = exec[m].job => l = m
  /\ \A l \in Loops : At(l, "delete") => RowOf(l).status \in {"FAILED", "COMPLETED"}

LEMMA OwnersStep ==
  TypeInv /\ Owners /\ [Next]_vars /\ count'.fault = 0 => Owners'
<1>. SUFFICES ASSUME TypeInv, Owners, [Next]_vars, count'.fault = 0 PROVE Owners' OBVIOUS
<1>. USE DEF Owners
<1>0. ASSUME NEW l \in Loops, NEW j \in Jobs, exec[l].job = j
      PROVE  Busy(l) /\ job[j].status # "NEW"
  BY <1>0, Rowless
<1>a. ASSUME \A l \in Loops : exec'[l].job = exec[l].job,
             \A l \in Loops : exec'[l].pc = "delete" => exec[l].pc = "delete",
             \A l \in Loops : exec[l].pc = "idle" => exec'[l].pc = "idle",
             FailsActive \/ Supersedes \/ job' = job
      PROVE  Owners'
  <2>1. ASSUME NEW l \in Loops, exec'[l].pc = "delete"
        PROVE  job'[exec'[l].job].status \in {"FAILED", "COMPLETED"}
    <3>1. At(l, "delete") BY <1>a, <2>1 DEF At
    <3>2. exec[l].job \in Jobs /\ job[exec[l].job].status \in {"FAILED", "COMPLETED"}
      BY <3>1, Rowless DEF Busy, At, RowOf
    <3>. QED BY <1>a, <3>2, RowsKeep DEF RowsMove
  <2>2. \A l \in Loops : exec'[l].pc # "idle" => exec[l].pc # "idle" BY <1>a
  <2>3. \A l, m \in Loops : exec'[l].pc # "idle" /\ exec'[l].job = exec'[m].job => l = m
    BY <1>a, <2>2 DEF Busy, At
  <2>4. \A j \in Jobs : job'[j].status = "RUNNING" => \E l \in Loops : exec'[l].job = j
    BY <1>a DEF FailsActive, Supersedes, Active
  <2>5. \A j \in Jobs : job'[j].status = "QUEUED" => \A l \in Loops : exec'[l].job # j
    BY <1>0, <1>a DEF FailsActive, Supersedes, Active
  <2>. QED BY <2>1, <2>3, <2>4, <2>5 DEF Busy, At, RowOf
<1>b. ASSUME NEW l \in Loops, Busy(l), Moves(l, {"read", "mark", "preview", "queue",
               "import", "meta", "complete", "skip", "fail"}),
             FailsActive \/ Supersedes \/ job' = job
      PROVE  Owners'
  <2>1. \A m \in Loops : exec'[m].job = exec[m].job BY <1>b DEF Moves
  <2>2. \A m \in Loops : exec'[m].pc = "delete" => exec[m].pc = "delete" BY <1>b DEF Moves
  <2>3. \A m \in Loops : exec[m].pc = "idle" => exec'[m].pc = "idle" BY <1>b DEF Moves, Busy, At
  <2>. QED BY <1>a, <1>b, <2>1, <2>2, <2>3
<1>c. ASSUME NEW l \in Loops, Ends(l), Busy(l),
             (~Owns(l) /\ job' = job) \/
             (Owns(l) /\ \E s \in {"QUEUED", "COMPLETED", "FAILED"} : OneRow(exec[l].job, s))
      PROVE  Owners'
  <2>1. exec[l].job \in Jobs /\ exec'[l].job \notin Jobs /\ exec'[l].pc = "idle"
        /\ \A m \in Loops \ {l} : exec'[m] = exec[m]
    BY <1>c, Rowless DEF Ends, Idle
  <2>2. Owns(l) <=> job[exec[l].job].status = "RUNNING"
    BY <2>1, UploadAssumption DEF Owns, Jobs
  <2>3. \A m \in Loops \ {l} : exec[m].job # exec[l].job BY <1>c
  <2>4. ASSUME NEW j \in Jobs, job'[j].status = "RUNNING" PROVE \E m \in Loops : exec'[m].job = j
    <3>1. job[j].status = "RUNNING" /\ j # exec[l].job BY <1>c, <2>1, <2>2, <2>4 DEF OneRow
    <3>. QED BY <2>1, <3>1
  <2>5. ASSUME NEW j \in Jobs, job'[j].status = "QUEUED", NEW m \in Loops PROVE exec'[m].job # j
    <3>1. CASE m = l BY <2>1, <3>1
    <3>2. CASE m # l BY <1>c, <2>1, <2>3, <2>5, <3>2 DEF OneRow
    <3>. QED BY <3>1, <3>2
  <2>6. \A k, m \in Loops : exec'[k].pc # "idle" /\ exec'[k].job = exec'[m].job => k = m
    <3>. SUFFICES ASSUME NEW k \in Loops, NEW m \in Loops, exec'[k].pc # "idle", exec'[k].job = exec'[m].job
                  PROVE  k = m
      OBVIOUS
    <3>1. k # l /\ exec'[k] = exec[k] /\ Busy(k) BY <2>1 DEF Busy, At
    <3>2. exec[k].job \in Jobs BY <3>1, Rowless
    <3>3. m # l BY <2>1, <3>1, <3>2
    <3>. QED BY <2>1, <3>1, <3>3
  <2>7. ASSUME NEW m \in Loops, exec'[m].pc = "delete"
        PROVE  job'[exec'[m].job].status \in {"FAILED", "COMPLETED"}
    <3>1. m # l /\ exec'[m] = exec[m] /\ At(m, "delete") BY <2>1, <2>7 DEF At
    <3>2. exec[m].job \in Jobs BY <3>1, Rowless DEF Busy, At
    <3>3. job[exec[m].job].status \in {"FAILED", "COMPLETED"} BY <3>1 DEF RowOf
    <3>. QED BY <1>c, <2>3, <3>1, <3>2, <3>3 DEF OneRow
  <2>. QED BY <2>4, <2>5, <2>6, <2>7 DEF Busy, At, RowOf
<1>1. CASE Request
  <2>1. RequestDoes BY <1>1, RequestStep DEF TypeInv
  <2>2. FailsActive \/ Supersedes \/ job' = job BY <2>1 DEF RequestDoes
  <2>. QED BY <1>a, <2>1, <2>2 DEF RequestDoes
<1>2. ASSUME NEW l \in Loops, Claim(l) PROVE Owners'
  <2>1. PICK j \in Jobs : /\ job[j].status = "QUEUED" /\ OneRow(j, "RUNNING")
                          /\ \A m \in Loops \ {l} : exec'[m] = exec[m]
                          /\ exec'[l].job = j /\ exec'[l].pc = "read"
    BY <1>2, ClaimDoes
  <2>0. exec[l].pc = "idle" BY <1>2, ClaimDoes DEF At
  <2>2. \A m \in Loops : exec[m].job # j BY <2>1
  <2>3. \A k \in Jobs : exec[l].job # k BY <2>0, Rowless DEF Busy, At
  <2>4. \A k \in Jobs : job'[k].status = "RUNNING" => \E m \in Loops : exec'[m].job = k
    BY <2>1, <2>3 DEF OneRow
  <2>5. \A k \in Jobs : job'[k].status = "QUEUED" => \A m \in Loops : exec'[m].job # k
    BY <2>1 DEF OneRow
  <2>6. \A k, m \in Loops : exec'[k].pc # "idle" /\ exec'[k].job = exec'[m].job => k = m
    BY <2>1, <2>2 DEF Busy, At
  <2>7. ASSUME NEW m \in Loops, exec'[m].pc = "delete"
        PROVE  job'[exec'[m].job].status \in {"FAILED", "COMPLETED"}
    <3>1. m # l /\ exec'[m] = exec[m] /\ At(m, "delete") BY <2>1, <2>7 DEF At
    <3>2. exec[m].job \in Jobs \ {j} BY <2>2, <3>1, Rowless DEF Busy, At
    <3>3. job[exec[m].job].status \in {"FAILED", "COMPLETED"} BY <3>1 DEF RowOf
    <3>. QED BY <2>1, <3>1, <3>2, <3>3 DEF OneRow
  <2>. QED BY <2>4, <2>5, <2>6, <2>7 DEF Busy, At, RowOf
<1>3. ASSUME NEW l \in Loops, ReadUpload(l) \/ Mark(l) \/ Preview(l) \/ Import(l) \/ Meta(l) \/ QueueImport(l)
      PROVE  Owners'
  <2>1. Busy(l)
    BY <1>3 DEF ReadUpload, Mark, Preview, Import, Meta, QueueImport, Busy, At
  <2>2. Moves(l, {"read", "mark", "preview", "queue", "import", "meta", "complete", "skip", "fail"})
    BY <1>3, ReadUploadDoes, MarkDoes, PreviewDoes, QueueImportDoes, ImportDoes, MetaDoes
    DEF Moves
  <2>3. Supersedes \/ job' = job
    BY <1>3, ReadUploadDoes, MarkDoes, PreviewDoes, QueueImportDoes, ImportDoes, MetaDoes
    DEF WorkKeeps
  <2>. QED BY <1>b, <2>1, <2>2, <2>3
<1>4. ASSUME NEW l \in Loops, Complete(l) PROVE Owners'
  <2>0. Busy(l) BY <1>4 DEF Complete, Busy, At
  <2>1. IF Owns(l) THEN OneRow(exec[l].job, "COMPLETED") ELSE job' = job BY <1>4, CompleteDoes
  <2>2. CASE Ends(l) BY <1>c, <2>0, <2>1, <2>2
  <2>3. CASE Moves(l, {"delete"})
    <3>1. /\ exec[l].job \in Jobs /\ \A m \in Loops : exec'[m].job = exec[m].job
          /\ \A m \in Loops : exec'[m].pc # "idle" => exec[m].pc # "idle"
          /\ \A m \in Loops \ {l} : exec'[m] = exec[m]
      BY <2>0, <2>3, Rowless DEF Moves, Busy, At
    <3>2. Owns(l) <=> job[exec[l].job].status = "RUNNING"
      BY <3>1, UploadAssumption DEF Owns, Jobs
    <3>3. \A m \in Loops \ {l} : exec[m].job # exec[l].job BY <2>0
    <3>4. job'[exec[l].job].status \in {"FAILED", "COMPLETED"}
      <4>1. job[exec[l].job].status \in {"NEW", "QUEUED", "RUNNING", "COMPLETED", "FAILED"}
        BY <3>1 DEF TypeInv, TypeOK, JobRow
      <4>2. job[exec[l].job].status # "QUEUED" /\ job[exec[l].job].status # "NEW"
        BY <1>0, <3>1
      <4>. QED BY <2>1, <3>1, <3>2, <4>1, <4>2 DEF OneRow
    <3>5. \A j \in Jobs : job'[j].status = "RUNNING" => \E m \in Loops : exec'[m].job = j
      BY <2>1, <3>1 DEF OneRow
    <3>6. \A j \in Jobs : job'[j].status = "QUEUED" => \A m \in Loops : exec'[m].job # j
      BY <2>1, <3>1 DEF OneRow
    <3>7. \A k, m \in Loops : exec'[k].pc # "idle" /\ exec'[k].job = exec'[m].job => k = m
      BY <3>1 DEF Busy, At
    <3>8. ASSUME NEW m \in Loops, exec'[m].pc = "delete"
          PROVE  job'[exec'[m].job].status \in {"FAILED", "COMPLETED"}
      <4>1. CASE m = l BY <3>1, <3>4, <4>1
      <4>2. CASE m # l
        <5>1. exec'[m] = exec[m] /\ At(m, "delete") BY <3>1, <3>8, <4>2 DEF At
        <5>2. exec[m].job \in Jobs BY <5>1, Rowless DEF Busy, At
        <5>3. job[exec[m].job].status \in {"FAILED", "COMPLETED"} BY <5>1 DEF RowOf
        <5>. QED BY <2>1, <3>3, <4>2, <5>1, <5>2, <5>3 DEF OneRow
      <4>. QED BY <4>1, <4>2
    <3>. QED BY <3>5, <3>6, <3>7, <3>8 DEF Busy, At, RowOf
  <2>. QED BY <1>4, <2>2, <2>3, CompleteDoes
<1>5. ASSUME NEW l \in Loops, Fail(l) PROVE Owners'
  <2>0. Busy(l) BY <1>5 DEF Fail, Busy, At
  <2>. QED BY <1>5, <1>c, <2>0, FailDoes
<1>6. ASSUME NEW l \in Loops, DeleteFile(l) PROVE Owners'
  <2>0. Busy(l) /\ At(l, "delete") BY <1>6 DEF DeleteFile, Busy, At
  <2>1. ~Owns(l) BY <2>0 DEF Owns, RowOf
  <2>. QED BY <1>6, <1>c, <2>0, <2>1, DeleteFileDoes
<1>7. ASSUME NEW l \in Loops, Crash(l) PROVE FALSE BY <1>7, CrashDoes
<1>8. CASE Cleanup \/ RecoverUpload BY <1>8, <1>a, CleanupDoes
<1>9. ASSUME NEW j \in Jobs, RecoverJob(j) PROVE FALSE
  BY <1>9, RecoverJobDoes DEF BusyWith
<1>10. CASE UNCHANGED vars BY <1>10, <1>a DEF vars
<1>. QED BY <1>1, <1>2, <1>3, <1>4, <1>5, <1>6, <1>7, <1>8, <1>9, <1>10 DEF Next, Execute
------------------------------------------------------------------------------
(* What is processed has an active row *)

\* HeldInv without its condition.
SkipsSettled == \A l \in Loops : At(l, "skip") /\ Owns(l) => up.status \in Settled \cup {"GONE"}
Held == up.status \in Processing => \E j \in Jobs : Active(j)

\* Unless it is overwritten, a settled status is left by requests that supersede.
LEMMA SettledStays ==
  ASSUME TypeInv, [Next]_vars, up.status \in Settled \cup {"GONE"}, ~overwrote'
  PROVE  Supersedes \/ up'.status \in Settled \cup {"GONE"}
<1>0. up.status \notin Cancellable /\ up.status \notin FROM_PREVIEW
  BY DEF Settled, Cancellable, Processing, FROM_PREVIEW
<1>1. CASE Request
  <2>1. RequestDoes BY <1>1, RequestStep DEF TypeInv
  <2>. QED BY <2>1 DEF RequestDoes, Settled
<1>2. ASSUME NEW l \in Loops, Mark(l) \/ Meta(l) PROVE up'.status \in Settled \cup {"GONE"}
  BY <1>2, MarkDoes, MetaDoes DEF Settled
<1>3. ASSUME NEW l \in Loops, Claim(l) \/ ReadUpload(l) \/ Preview(l) \/ Import(l)
      PROVE up'.status = up.status
  BY <1>3, ClaimDoes, ReadUploadDoes, PreviewDoes, ImportDoes
<1>4. ASSUME NEW l \in Loops, QueueImport(l) \/ Complete(l) \/ DeleteFile(l) \/ Fail(l) \/ Crash(l)
      PROVE up' = up
  BY <1>0, <1>4, QueueImportDoes, CompleteDoes, DeleteFileDoes, FailDoes, CrashDoes
<1>5. CASE Cleanup \/ RecoverUpload BY <1>5, CleanupDoes DEF Settled
<1>6. ASSUME NEW j \in Jobs, RecoverJob(j) PROVE up' = up BY <1>6, RecoverJobDoes
<1>7. CASE UNCHANGED vars BY <1>7 DEF vars
<1>. QED BY <1>1, <1>2, <1>3, <1>4, <1>5, <1>6, <1>7 DEF Next, Execute

\* Only an executor that has just read the upload starts to skip.
LEMMA SkipsAfterRead ==
  ASSUME TypeInv, [Next]_vars, NEW l \in Loops, exec'[l].pc = "skip"
  PROVE  exec'[l] = exec[l] \/ ReadUpload(l)
<1>1. CASE Request BY <1>1, RequestStep DEF TypeInv, RequestDoes
<1>2. ASSUME NEW m \in Loops, m # l, Execute(m) \/ Crash(m) PROVE exec'[l] = exec[l]
  BY <1>2, ClaimDoes, ReadUploadDoes, MarkDoes, PreviewDoes, QueueImportDoes, ImportDoes,
     MetaDoes,
     CompleteDoes, DeleteFileDoes, FailDoes, CrashDoes DEF Execute, Moves, Ends
<1>3. CASE Execute(l) \/ Crash(l)
  <2>1. Idle.pc # "skip" BY DEF Idle
  <2>. QED BY <1>3, <2>1, ClaimDoes, MarkDoes, PreviewDoes, QueueImportDoes, ImportDoes, MetaDoes,
     CompleteDoes, DeleteFileDoes, FailDoes, CrashDoes DEF Execute, Moves, Ends
<1>4. CASE Cleanup \/ RecoverUpload BY <1>4, CleanupDoes
<1>5. ASSUME NEW j \in Jobs, RecoverJob(j) PROVE exec' = exec BY <1>5, RecoverJobDoes
<1>6. CASE UNCHANGED vars BY <1>6 DEF vars
<1>. QED BY <1>1, <1>2, <1>3, <1>4, <1>5, <1>6 DEF Next

LEMMA SkipsStep ==
  TypeInv /\ OneActiveJob /\ Owners /\ SkipsSettled /\ [Next]_vars /\ ~overwrote' => SkipsSettled'
<1>. SUFFICES ASSUME TypeInv, OneActiveJob, Owners, SkipsSettled, [Next]_vars, ~overwrote',
                     NEW l \in Loops, exec'[l].pc = "skip", Owns(l)'
              PROVE  up'.status \in Settled \cup {"GONE"}
  BY DEF SkipsSettled, At
<1>1. CASE exec'[l] = exec[l]
  <2>1. Busy(l) BY <1>1 DEF Busy, At
  <2>2. exec[l].job \in Jobs BY <2>1, Rowless
  <2>3. job'[exec[l].job].status = "RUNNING" BY <1>1 DEF Owns
  <2>4. job[exec[l].job].status = "RUNNING"
    <3>1. job[exec[l].job].status \in {"NEW", "QUEUED", "RUNNING", "COMPLETED", "FAILED"}
      BY <2>2 DEF TypeInv, TypeOK, JobRow
    <3>2. job[exec[l].job].status # "NEW" BY <2>2, Rowless
    <3>3. job[exec[l].job].status # "QUEUED" BY <2>2 DEF Owners
    <3>4. job[exec[l].job].status \notin {"COMPLETED", "FAILED"} BY <2>2, <2>3, RowsStep, RowsKeep
    <3>. QED BY <3>1, <3>2, <3>3, <3>4
  <2>5. up.status \in Settled \cup {"GONE"}
    BY <1>1, <2>2, <2>4, UploadAssumption DEF SkipsSettled, At, Owns, Jobs
  <2>6. ~Supersedes BY <2>2, <2>3, <2>4 DEF Supersedes, Active
  <2>. QED BY <2>5, <2>6, SettledStays
<1>2. CASE ReadUpload(l)
  <2>1. job' = job /\ up' = up /\ Skipped(l) /\ exec'[l].job = exec[l].job
    BY <1>2, ReadUploadDoes DEF WorkKeeps, Moves
  <2>2. Busy(l) BY <1>2 DEF ReadUpload, Busy, At
  <2>3. exec[l].job \in Jobs BY <2>2, Rowless
  <2>4. job[exec[l].job].status = "RUNNING" BY <2>1 DEF Owns
  <2>5. Has("RUNNING") \ {exec[l].job} = {} BY <2>3, <2>4 DEF OneActiveJob, Active, Has
  <2>. QED BY <2>1, <2>5 DEF Skipped
<1>. QED BY <1>1, <1>2, SkipsAfterRead

LEMMA HeldStep ==
  TypeInv /\ FreshInv /\ ProgressInv /\ Owners /\ SkipsSettled /\ Held /\ [Next]_vars
    /\ count'.fault = 0 /\ ~overwrote' => Held'
<1>. SUFFICES ASSUME TypeInv, FreshInv, ProgressInv, Owners, SkipsSettled, Held, [Next]_vars,
                     count'.fault = 0, ~overwrote', up'.status \in Processing
              PROVE  \E j \in Jobs : Active(j)'
  BY DEF Held, Active
<1>a. ASSUME Supersedes PROVE \E j \in Jobs : Active(j)' BY <1>a DEF Supersedes, Active
<1>b. ASSUME job' = job, up.status \in Processing PROVE \E j \in Jobs : Active(j)'
  BY <1>b DEF Held, Active
<1>c. ASSUME NEW l \in Loops, Busy(l), up.status \in Cancellable PROVE up.status \in Processing
  BY <1>c DEF FreshInv, Cancellable, Busy
<1>0. ~overwrote BY HistoryGrows
<1>1. CASE Request
  <2>1. RequestDoes BY <1>1, RequestStep DEF TypeInv
  <2>2. up'.status # "FAILED" /\ up'.status \in Cancellable BY DEF Processing, Cancellable
  <2>. QED BY <1>a, <1>b, <2>1, <2>2 DEF RequestDoes
<1>2. ASSUME NEW l \in Loops, Claim(l) PROVE \E j \in Jobs : Active(j)'
  BY <1>2, ClaimDoes DEF OneRow, Active
<1>3. ASSUME NEW l \in Loops, ReadUpload(l) \/ Preview(l) \/ Import(l)
      PROVE  \E j \in Jobs : Active(j)'
  BY <1>3, <1>b, ReadUploadDoes, PreviewDoes, ImportDoes DEF WorkKeeps
<1>4. ASSUME NEW l \in Loops, Mark(l) PROVE \E j \in Jobs : Active(j)'
  <2>1. Busy(l) /\ job' = job BY <1>4, MarkDoes DEF Mark, Busy, At, WorkKeeps
  <2>2. up' = up \/ up.status \notin Settled \cup {"GONE"} BY <1>4, MarkDoes
  <2>3. up.status \in Settled \cup Cancellable \cup {"GONE"} BY DEF TypeInv, TypeOK
  <2>. QED BY <1>b, <1>c, <2>1, <2>2, <2>3
<1>5. ASSUME NEW l \in Loops, Meta(l) PROVE \E j \in Jobs : Active(j)'
  <2>1. "COMPLETED" \notin Processing BY DEF Processing
  <2>. QED BY <1>5, <1>b, <2>1, MetaDoes DEF WorkKeeps
<1>6. ASSUME NEW l \in Loops, QueueImport(l) PROVE \E j \in Jobs : Active(j)'
  BY <1>6, <1>a, <1>b, QueueImportDoes
<1>7. ASSUME NEW l \in Loops, Complete(l) PROVE \E j \in Jobs : Active(j)'
  <2>1. up' = up /\ Busy(l) /\ (At(l, "complete") \/ At(l, "skip")) /\ (Owns(l) \/ job' = job)
    BY <1>7, CompleteDoes DEF Busy, At
  <2>2. up.status \notin Settled \cup {"GONE"} BY <2>1 DEF Processing, Settled
  <2>3. CASE Owns(l)
    <3>1. At(l, "complete") BY <2>1, <2>2, <2>3 DEF SkipsSettled
    <3>2. TypeAt(l) \in {"PREVIEW", "IMPORT"} /\ RowOf(l).status = "RUNNING"
      BY <2>1, <2>3, Rowless DEF TypeInv, TypeOK, JobRow, TypeAt, RowOf, Owns
    <3>. QED BY <1>0, <2>2, <3>1, <3>2 DEF ProgressInv, Settled
  <2>. QED BY <1>b, <2>1, <2>3
<1>8. ASSUME NEW l \in Loops, Fail(l) PROVE \E j \in Jobs : Active(j)'
  <2>1. Busy(l) BY <1>8 DEF Fail, Busy, At
  <2>2. "FAILED" \notin Processing /\ Processing \subseteq Cancellable
    BY DEF Processing, Cancellable
  <2>3. up.status \in Cancellable BY <1>8, <2>2, FailDoes
  <2>4. WillRetry(l) BY <1>8, <2>2, <2>3, FailDoes
  <2>5. CASE Owns(l)
    <3>1. exec[l].job \in Jobs /\ OneRow(exec[l].job, "QUEUED")
      BY <1>8, <2>1, <2>4, <2>5, FailDoes, Rowless
    <3>. QED BY <3>1 DEF OneRow, Active
  <2>6. CASE ~Owns(l) BY <1>8, <1>b, <1>c, <2>1, <2>3, <2>6, FailDoes
  <2>. QED BY <2>5, <2>6
<1>9. ASSUME NEW l \in Loops, DeleteFile(l) PROVE \E j \in Jobs : Active(j)'
  BY <1>9, <1>b, DeleteFileDoes
<1>10. ASSUME NEW l \in Loops, Crash(l) PROVE FALSE BY <1>10, CrashDoes
<1>11. CASE Cleanup \/ RecoverUpload
  <2>1. "FAILED" \notin Processing /\ "GONE" \notin Processing BY DEF Processing
  <2>. QED BY <1>11, <1>b, <2>1, CleanupDoes
<1>12. ASSUME NEW j \in Jobs, RecoverJob(j) PROVE FALSE
  BY <1>12, RecoverJobDoes DEF Owners, BusyWith
<1>13. CASE UNCHANGED vars BY <1>13, <1>b DEF vars
<1>. QED BY <1>1, <1>2, <1>3, <1>4, <1>5, <1>6, <1>7, <1>8, <1>9, <1>10, <1>11, <1>12, <1>13
     DEF Next, Execute

\* What holds without a fault, and what holds without an overwritten status too.
Calm == (count.fault = 0 => Owners) /\ (count.fault = 0 /\ ~overwrote => SkipsSettled /\ Held)

LEMMA CalmStep == TypeInv /\ FreshInv /\ OneActiveJob /\ ProgressInv /\ Calm /\ [Next]_vars => Calm'
<1>. SUFFICES ASSUME TypeInv, FreshInv, OneActiveJob, ProgressInv, Calm, [Next]_vars PROVE Calm'
  OBVIOUS
<1>1. ASSUME count'.fault = 0 PROVE Owners'
  BY <1>1, HistoryGrows, OwnersStep DEF Calm
<1>2. ASSUME count'.fault = 0, ~overwrote' PROVE SkipsSettled' /\ Held'
  BY <1>2, HistoryGrows, SkipsStep, HeldStep DEF Calm
<1>. QED BY <1>1, <1>2 DEF Calm

\* The invariant that the theorems below rest on.
THEOREM InvCorrect == Spec => []IInv
<1>. DEFINE Inv == TypeInv /\ FreshInv /\ OneActiveJob /\ ProgressInv /\ SweepInv /\ Calm
<1>1. Init => Inv
  <2>. SUFFICES ASSUME Init PROVE Inv OBVIOUS
  <2>1. TypeInv BY InitTypes
  <2>2. /\ \A j \in Jobs : job[j].status = "NEW"
        /\ \A l \in Loops : exec[l] = Idle
        /\ up.status = "PENDING_UPLOAD" /\ slow = "none"
    BY DEF Init, NoRow
  <2>3. FreshInv /\ OneActiveJob /\ ProgressInv /\ SweepInv
    BY <2>2 DEF FreshInv, OneActiveJob, Active, ProgressInv, SweepInv, At, Idle
  <2>4. Owners /\ SkipsSettled BY <2>2 DEF Owners, SkipsSettled, Busy, At, Idle
  <2>5. Held BY <2>2 DEF Held, Processing
  <2>. QED BY <2>1, <2>3, <2>4, <2>5 DEF Calm
<1>2. Inv /\ [Next]_vars => Inv'
  BY TypeStep, FreshStep, RowsStep, OneActiveStep, ProgressStep, SweepStep, CalmStep
<1>3. Inv => IInv
  BY DEF IInv, Calm, Owners, OwnerInv, HeldInv, SkipsSettled, Held, BusyWith
<1>. QED BY <1>1, <1>2, <1>3, PTL DEF Spec
\* Without a fault and without a settled status overwritten, an upload that is
\* being processed has a row or an executor.
THEOREM NobodyIsStranded == Spec => []NeverStranded
<1>1. TypeInv /\ IInv => NeverStranded
  BY DEF TypeInv, TypeOK, IInv, HeldInv, NeverStranded, Stranded
<1>2. Spec => []TypeInv BY InitTypes, TypeStep, PTL DEF Spec
<1>. QED BY <1>1, <1>2, InvCorrect, PTL

\* Who may take the bytes.
LEMMA FileStep ==
  ASSUME [Next]_vars, file, ~file'
  PROVE  up' = up /\ (SweepFile \/ PurgeFile \/ \E l \in Loops : At(l, "delete"))
<1>1. ASSUME NEW l \in Loops, Execute(l) \/ Crash(l) PROVE up' = up /\ At(l, "delete")
  BY <1>1 DEF Execute, Claim, ReadUpload, Mark, Preview, QueueImport, Import, Meta, Complete,
              DeleteFile, Fail, Crash
<1>2. ~Request
  BY DEF Request, PutStart, PutStore, PutBreaks, Uploaded, Confirm, Retry, RetryFailedList,
         RetryFailed, CancelRead, CancelWrite, CancelAll, DismissFailed, Unraced
<1>3. CASE Cleanup \/ RecoverUpload
  BY <1>3 DEF Cleanup, CancelStale, SweepList, SweepRow, SweepFile, PurgeFile, RecoverUpload
<1>4. ASSUME NEW j \in Jobs, RecoverJob(j) PROVE FALSE BY <1>4 DEF RecoverJob
<1>. QED BY <1>1, <1>2, <1>3, <1>4 DEF Next, vars

\* The original of an upload that is being processed is not deleted.
THEOREM FileIsKept == Spec => FileKept
<1>1. IInv /\ [Next]_vars => ((file /\ ~file' /\ up.status \in Processing) => outlived \/ overwrote)
  <2>. SUFFICES ASSUME IInv, [Next]_vars, file, ~file', up.status \in Processing
                PROVE  outlived \/ overwrote
    OBVIOUS
  <2>1. up.status \notin {"COMPLETED", "GONE"} BY DEF Processing
  <2>2. CASE SweepFile BY <2>1, <2>2 DEF SweepFile, IInv, SweepInv
  <2>3. CASE PurgeFile BY <2>1, <2>3 DEF PurgeFile
  <2>4. ASSUME NEW l \in Loops, At(l, "delete") PROVE overwrote
    BY <2>1, <2>4 DEF IInv, ProgressInv
  <2>. QED BY <2>2, <2>3, <2>4, FileStep
<1>2. IInv /\ [Next]_vars =>
        [(file /\ ~file' /\ up.status \in Processing) => outlived \/ overwrote]_vars
  BY <1>1
<1>. QED BY <1>2, InvCorrect, PTL DEF Spec, FileKept

\* A row that waits is robbed of its upload by nobody but an executor that no
\* longer owns its own row.
THEOREM StraysComeAlone == Spec => StraysAlone
<1>. DEFINE Robbed == /\ up.status \notin Settled /\ up'.status \in Settled
                      /\ \E j \in Jobs : job'[j].status = "QUEUED"
            Stray == \E l \in Loops : ~Owns(l) /\ exec[l].job # None /\ exec'[l] # exec[l]
<1>1. TypeInv /\ IInv /\ [Next]_vars => (Robbed => Stray)
  <2>. SUFFICES ASSUME TypeInv, IInv, [Next]_vars, up.status \notin Settled, up'.status \in Settled,
                       NEW j \in Jobs, job'[j].status = "QUEUED"
                PROVE  Stray
    OBVIOUS
  <2>a. ASSUME NEW l \in Loops, Busy(l), Owns(l), job[j].status = "QUEUED" PROVE FALSE
    <3>1. exec[l].job \in Jobs /\ job[exec[l].job].status = "RUNNING" BY <2>a, Rowless DEF Owns
    <3>. QED BY <2>a, <3>1 DEF IInv, OneActiveJob, Active
  <2>1. CASE Request
    <3>1. RequestDoes BY <2>1, RequestStep DEF TypeInv
    <3>2. ~FailsActive BY DEF FailsActive, Active
    <3>3. up'.status \notin {"QUEUED_PREVIEW", "QUEUED_IMPORT"} BY DEF Settled
    <3>. QED BY <3>1, <3>2, <3>3 DEF RequestDoes
  <2>2. ASSUME NEW l \in Loops, Meta(l) \/ Fail(l) PROVE Stray
    <3>1. Busy(l) /\ exec[l].pc \in {"meta", "fail"} BY <2>2 DEF Meta, Fail, Busy, At
    <3>2. exec[l].job \in Jobs /\ exec[l].job # None BY <3>1, Rowless, UploadAssumption DEF Jobs
    <3>3. exec'[l] # exec[l]
      <4>1. CASE Meta(l)
        <5>1. exec[l].pc = "meta" BY <4>1 DEF Meta, At
        <5>2. exec'[l].pc \in {"fail", "complete"} BY <4>1, MetaDoes DEF Moves
        <5>. QED BY <5>1, <5>2
      <4>2. CASE Fail(l) BY <4>2, FailDoes DEF At, Ends, Idle
      <4>. QED BY <2>2, <4>1, <4>2
    <3>4. ~Owns(l)
      <4>1. CASE Meta(l) BY <2>a, <3>1, <4>1, MetaDoes DEF WorkKeeps
      <4>2. CASE Fail(l)
        <5>1. "RETRYING" \notin Settled BY DEF Settled
        <5>2. ~WillRetry(l) BY <4>2, <5>1, FailDoes
        <5>. QED BY <2>a, <3>1, <4>2, <5>2, FailDoes DEF OneRow
      <4>. QED BY <2>2, <4>1, <4>2
    <3>. QED BY <3>2, <3>3, <3>4
  <2>3. ASSUME NEW l \in Loops, Claim(l) \/ ReadUpload(l) \/ Preview(l) \/ Import(l)
        PROVE  up'.status = up.status
    BY <2>3, ClaimDoes, ReadUploadDoes, PreviewDoes, ImportDoes
  <2>4. ASSUME NEW l \in Loops, Mark(l) \/ QueueImport(l) \/ Complete(l) \/ DeleteFile(l) \/ Crash(l)
        PROVE  up' = up \/ up'.status \notin Settled
    BY <2>4, MarkDoes, QueueImportDoes, CompleteDoes, DeleteFileDoes, CrashDoes DEF Settled
  <2>5. CASE Cleanup \/ RecoverUpload
    <3>1. job' = job BY <2>5, CleanupDoes
    <3>2. up.status # "PENDING_UPLOAD" /\ up.status # "AWAITING_CONFIRMATION" /\ ~Interrupted
      BY <3>1 DEF IInv, FreshInv, Interrupted
    <3>. QED BY <2>5, <3>2, CleanupDoes
  <2>6. ASSUME NEW k \in Jobs, RecoverJob(k) PROVE up' = up BY <2>6, RecoverJobDoes
  <2>7. CASE UNCHANGED vars BY <2>7 DEF vars
  <2>. QED BY <2>1, <2>2, <2>3, <2>4, <2>5, <2>6, <2>7 DEF Next, Execute
<1>2. TypeInv /\ IInv /\ [Next]_vars => [Robbed => Stray]_vars BY <1>1
<1>3. Spec => []TypeInv BY InitTypes, TypeStep, PTL DEF Spec
<1>. QED BY <1>2, <1>3, InvCorrect, PTL DEF Spec, StraysAlone
===============================================================================
