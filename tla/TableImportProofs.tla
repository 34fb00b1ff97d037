--------------------------- MODULE TableImportProofs ---------------------------
(***************************************************************************)
(* Proofs about TableImport, for every set of uploads, every assignment of *)
(* modes, any number of executors and every bound on the faults.           *)
(***************************************************************************)
EXTENDS TableImport, TLAPS

\* A step that only takes runs further: none changes hands or is given up.
Carries ==
  \A l \in Loops : /\ run'[l].mine = run[l].mine /\ run'[l].up = run[l].up
                   /\ run'[l].gone = run[l].gone

LEMMA NoRunType == NoRun \in Run /\ NoCopies \in Copies
BY DEF Run, NoRun, Pcs, Copies, NoCopies

LEMMA RunFacts ==
  ASSUME RunsOK, NEW l \in Loops
  PROVE  run[l] \in Run /\ (run[l].pc # "idle" => run[l].up \in Uploads)
BY DEF RunsOK

\* Loop l takes a step.
LEMMA Update ==
  ASSUME RunsOK, NEW l \in Loops, NEW r \in Run, run' = [run EXCEPT ![l] = r],
         r.pc # "idle" => r.up \in Uploads
  PROVE  RunsOK' /\ run'[l] = r /\ \A m \in Loops \ {l} : run'[m] = run[m]
BY DEF RunsOK

\* Loop l takes a step further.
LEMMA CarryingUpdate ==
  ASSUME RunsOK, NEW l \in Loops, NEW r \in Run, run' = [run EXCEPT ![l] = r],
         run[l].pc # "idle",
         r.up = run[l].up, r.mine = run[l].mine, r.gone = run[l].gone
  PROVE  RunsOK' /\ Carries
<1>1. run[l].up \in Uploads BY RunFacts
<1>2. RunsOK' /\ run'[l] = r /\ \A m \in Loops \ {l} : run'[m] = run[m] BY <1>1, Update
<1>. QED BY <1>2 DEF Carries

\* Its program counter and its error are what it changes, or its program counter.
LEMMA Moving ==
  ASSUME RunsOK, NEW l \in Loops, run[l].pc # "idle", NEW pc \in Pcs,
         GoTo(l, pc) \/ \E e \in {"none", "retryable", "final"} : RaiseTo(l, pc, e)
  PROVE  RunsOK' /\ Carries
<1>1. run[l] \in Run BY RunFacts
<1>2. CASE GoTo(l, pc)
  <2>. DEFINE r == [run[l] EXCEPT !.pc = pc]
  <2>1. run' = [run EXCEPT ![l] = r] BY <1>2 DEF GoTo
  <2>2. r \in Run /\ r.up = run[l].up /\ r.mine = run[l].mine /\ r.gone = run[l].gone
    BY <1>1 DEF Run
  <2>. HIDE DEF r
  <2>. QED BY <2>1, <2>2, CarryingUpdate
<1>3. ASSUME NEW e \in {"none", "retryable", "final"}, RaiseTo(l, pc, e) PROVE RunsOK' /\ Carries
  <2>. DEFINE r == [run[l] EXCEPT !.pc = pc, !.error = e]
  <2>1. run' = [run EXCEPT ![l] = r] BY <1>3 DEF RaiseTo
  <2>2. r \in Run /\ r.up = run[l].up /\ r.mine = run[l].mine /\ r.gone = run[l].gone
    BY <1>1 DEF Run
  <2>. HIDE DEF r
  <2>. QED BY <2>1, <2>2, CarryingUpdate
<1>. QED BY <1>2, <1>3

\* Waiting for the lock, renewing it and releasing it.
LEMMA LockRuns ==
  ASSUME TypeOK, NEW l \in Loops, LockNext(l)
  PROVE  RunsOK' /\ Carries
<1>1. RunsOK /\ run[l] \in Run BY RunFacts DEF TypeOK
<1>2. CASE TryAcquire(l) BY <1>1, <1>2, Moving DEF TryAcquire, At, Pcs, Working
<1>3. CASE WaitTimeout(l) BY <1>1, <1>3, Moving DEF WaitTimeout, At, Pcs, Working
<1>4. CASE Outage(l)
  <2>. DEFINE r == [run[l] EXCEPT !.ok = FALSE]
  <2>1. run' = [run EXCEPT ![l] = r] /\ run[l].pc # "idle" BY <1>4 DEF Outage, Holds, Working
  <2>2. r \in Run /\ r.up = run[l].up /\ r.mine = run[l].mine /\ r.gone = run[l].gone
    BY <1>1 DEF Run
  <2>. HIDE DEF r
  <2>. QED BY <1>1, <2>1, <2>2, CarryingUpdate
<1>5. CASE Renew(l)
  <2>. DEFINE r(lost) == [run[l] EXCEPT !.ok = TRUE, !.lost = lost]
  <2>1. /\ run[l].pc # "idle"
        /\ \E lost \in {"no", "expired", "yes"} : run' = [run EXCEPT ![l] = r(lost)]
    <3>1. run[l].lost \in {"no", "expired", "yes"} BY <1>1 DEF Run
    <3>2. CASE lock.holder = l
      <4>1. run' = [run EXCEPT ![l] = r(IF run[l].lost = "expired" THEN "no" ELSE run[l].lost)]
        BY <1>5, <3>2 DEF Renew
      <4>. QED BY <1>5, <3>1, <4>1 DEF Renew, Holds, Working
    <3>3. CASE lock.holder # l BY <1>5, <3>3 DEF Renew, Holds, Working
    <3>. QED BY <3>2, <3>3
  <2>2. PICK lost \in {"no", "expired", "yes"} : run' = [run EXCEPT ![l] = r(lost)] BY <2>1
  <2>3. /\ r(lost) \in Run
        /\ r(lost).up = run[l].up /\ r(lost).mine = run[l].mine /\ r(lost).gone = run[l].gone
    BY <1>1 DEF Run
  <2>. HIDE DEF r
  <2>. QED BY <1>1, <2>1, <2>2, <2>3, CarryingUpdate
<1>6. CASE Release(l)
  <2>. DEFINE r == [run[l] EXCEPT !.pc = AfterRelease(l), !.ok = TRUE, !.lost = "no"]
  <2>1. run' = [run EXCEPT ![l] = r] /\ run[l].pc # "idle" BY <1>6 DEF Release, At
  <2>2. AfterRelease(l) \in Pcs BY DEF AfterRelease, Pcs
  <2>3. r \in Run /\ r.up = run[l].up /\ r.mine = run[l].mine /\ r.gone = run[l].gone
    BY <1>1, <2>2 DEF Run
  <2>. HIDE DEF r
  <2>. QED BY <1>1, <2>1, <2>3, CarryingUpdate
<1>7. CASE ReleaseFails(l) BY <1>1, <1>7, Moving DEF ReleaseFails, At, Pcs, Working
<1>. QED BY <1>2, <1>3, <1>4, <1>5, <1>6, <1>7 DEF LockNext

\* From the first look at the table to the metadata.
LEMMA ImportRuns ==
  ASSUME TypeOK, NEW l \in Loops, ImportNext(l)
  PROVE  RunsOK' /\ Carries
<1>1. /\ RunsOK /\ run[l] \in Run /\ target \in [exists : BOOLEAN, rows : Copies]
      /\ run[l].pc # "idle" => run[l].up \in Uploads
  BY RunFacts DEF TypeOK
<1>2. CASE Look(l)
  <2>. DEFINE r == [run[l] EXCEPT !.pc = "open", !.found = target.exists, !.applied = AlreadyApplied(Up(l))]
  <2>1. run' = [run EXCEPT ![l] = r] /\ run[l].pc # "idle" BY <1>2 DEF Look, At
  <2>2. AlreadyApplied(Up(l)) \in BOOLEAN BY DEF AlreadyApplied
  <2>3. r \in Run /\ r.up = run[l].up /\ r.mine = run[l].mine /\ r.gone = run[l].gone
    BY <1>1, <2>2 DEF Run, Pcs, Working
  <2>. HIDE DEF r
  <2>. QED BY <1>1, <2>1, <2>3, CarryingUpdate
<1>3. CASE OpenStage(l) \/ Fill(l) \/ Check(l) \/ CheckThrows(l) \/ Refused(l) \/ Throw(l) \/ Meta(l)
  BY <1>1, <1>3, Moving
     DEF OpenStage, Fill, Check, CheckThrows, Refused, Throw, Meta, At, Pcs, Working, Holds
<1>4. CASE Merge(l)
  <2>. DEFINE r == [run[l] EXCEPT !.pc = "swap", !.merged = Merged(Up(l))]
  <2>1. run' = [run EXCEPT ![l] = r] /\ run[l].pc # "idle" BY <1>4 DEF Merge, At
  <2>2. Merged(Up(l)) \in Copies BY <1>1, <2>1 DEF Merged, Copies, Up
  <2>3. r \in Run /\ r.up = run[l].up /\ r.mine = run[l].mine /\ r.gone = run[l].gone
    BY <1>1, <2>2 DEF Run, Pcs, Working
  <2>. HIDE DEF r
  <2>. QED BY <1>1, <2>1, <2>3, CarryingUpdate
<1>5. ASSUME NEW rows, Publish(l, rows), run[l].pc = "swap" PROVE RunsOK' /\ Carries
  <2>. DEFINE r == [run[l] EXCEPT !.pc = "count", !.merged = NoCopies]
  <2>1. run' = [run EXCEPT ![l] = r] BY <1>5 DEF Publish
  <2>2. r \in Run /\ r.up = run[l].up /\ r.mine = run[l].mine /\ r.gone = run[l].gone
    BY <1>1, NoRunType DEF Run, Pcs, Working
  <2>. HIDE DEF r
  <2>. QED BY <1>1, <1>5, <2>1, <2>2, CarryingUpdate
<1>6. CASE SwapFull(l) \/ SwapMerged(l) \/ Append(l)
  BY <1>5, <1>6 DEF SwapFull, SwapMerged, Append, At
<1>7. CASE Count(l)
  <2>1. CASE RaiseTo(l, "release", "retryable")
    BY <1>1, <1>7, <2>1, Moving DEF Count, At, Pcs, Working
  <2>2. CASE run' = [run EXCEPT ![l].pc = "meta", ![l].counted = Counted(Up(l))]
    <3>. DEFINE r == [run[l] EXCEPT !.pc = "meta", !.counted = Counted(Up(l))]
    <3>1. run' = [run EXCEPT ![l] = r] /\ run[l].pc # "idle" BY <1>7, <2>2 DEF Count, At
    <3>2. r \in Run /\ r.up = run[l].up /\ r.mine = run[l].mine /\ r.gone = run[l].gone
      BY <1>1 DEF Run, Pcs, Working, Counted
    <3>. HIDE DEF r
    <3>. QED BY <1>1, <3>1, <3>2, CarryingUpdate
  <2>. QED BY <1>7, <2>1, <2>2 DEF Count
<1>. QED BY <1>2, <1>3, <1>4, <1>6, <1>7 DEF ImportNext

\* A run ends, or its process gives it up: its job is its own no longer.
GivesUp(l) ==
  /\ run'[l].mine = FALSE
  /\ \A m \in Loops \ {l} : run'[m] = run[m]
  /\ \A u \in Uploads : job'[u] # job[u] => run[l].mine /\ u = Up(l)

LEMMA EndingRuns ==
  ASSUME TypeOK, NEW l \in Loops,
         Complete(l) \/ Fail(l) \/ Crash(l) \/ Quit(l) \/ QuitLate(l) \/ Exit(l)
  PROVE  RunsOK' /\ GivesUp(l)
<1>1. RunsOK /\ run[l] \in Run /\ (run[l].pc # "idle" => run[l].up \in Uploads)
  BY RunFacts DEF TypeOK
<1>2. \A status : \A u \in Uploads : u # Up(l) => Settle(Up(l), status)[u] = job[u]
  BY DEF Settle, TypeOK
<1>3. \A u \in Uploads : GivenBack(l)[u] # job[u] => run[l].mine /\ u = Up(l)
  BY DEF GivenBack, TypeOK
<1>4. CASE run' = [run EXCEPT ![l] = NoRun]
  <2>1. RunsOK' /\ run'[l] = NoRun /\ \A m \in Loops \ {l} : run'[m] = run[m]
    BY <1>1, <1>4, NoRunType, Update DEF NoRun
  <2>2. \A u \in Uploads : job'[u] # job[u] => run[l].mine /\ u = Up(l)
    <3>1. CASE Complete(l) BY <1>2, <3>1 DEF Complete
    <3>2. CASE Fail(l)
      <4>1. CASE run[l].mine BY <1>2, <3>2, <4>1 DEF Fail
      <4>2. CASE ~run[l].mine BY <3>2, <4>2 DEF Fail
      <4>. QED BY <4>1, <4>2
    <3>3. CASE Crash(l) \/ Exit(l) BY <3>3 DEF Crash, Exit
    <3>4. CASE Quit(l) \/ QuitLate(l) BY <1>3, <3>4 DEF Quit, QuitLate
    <3>. QED BY <3>1, <3>2, <3>3, <3>4
  <2>. QED BY <2>1, <2>2 DEF GivesUp, NoRun
<1>5. CASE QuitLate(l)
  <2>. DEFINE r == [run[l] EXCEPT !.gone = TRUE, !.mine = FALSE]
  <2>1. run' = [run EXCEPT ![l] = r] BY <1>5 DEF QuitLate
  <2>2. r \in Run /\ r.pc = run[l].pc /\ r.up = run[l].up /\ r.mine = FALSE BY <1>1 DEF Run
  <2>. HIDE DEF r
  <2>3. RunsOK' /\ run'[l] = r /\ \A m \in Loops \ {l} : run'[m] = run[m]
    BY <1>1, <2>1, <2>2, Update
  <2>. QED BY <1>3, <1>5, <2>2, <2>3 DEF GivesUp, QuitLate
<1>. QED BY <1>4, <1>5 DEF Complete, Fail, Crash, Quit, Exit

\* The cleanup and the signal; and the timer of whoever has the lock.
LEMMA OtherRuns ==
  ASSUME TypeOK,
         (\E l \in Loops : Cleanup(l) \/ Terminate(l)) \/ LeaseAges
  PROVE  RunsOK' /\ Carries
<1>1. RunsOK /\ \A l \in Loops : run[l] \in Run BY RunFacts DEF TypeOK
<1>2. ASSUME NEW l \in Loops, Cleanup(l) PROVE RunsOK' /\ Carries
  BY <1>1, <1>2, Moving DEF Cleanup, At, Pcs
<1>3. ASSUME NEW l \in Loops, Terminate(l) PROVE RunsOK' /\ Carries
  <2>. DEFINE r == [run[l] EXCEPT !.leaving = TRUE]
  <2>1. run' = [run EXCEPT ![l] = r] /\ run[l].pc # "idle" BY <1>3 DEF Terminate, At
  <2>2. r \in Run /\ r.up = run[l].up /\ r.mine = run[l].mine /\ r.gone = run[l].gone
    BY <1>1 DEF Run
  <2>. HIDE DEF r
  <2>. QED BY <1>1, <2>1, <2>2, CarryingUpdate
<1>4. CASE LeaseAges /\ lock.holder \notin Loops
  BY <1>1, <1>4 DEF LeaseAges, RunsOK, Carries
<1>5. CASE LeaseAges /\ lock.holder \in Loops
  <2>. DEFINE r(lost) == [run[lock.holder] EXCEPT !.lost = lost]
  <2>1. PICK lost \in {"expired", "yes"} : run' = [run EXCEPT ![lock.holder] = r(lost)]
    BY <1>5 DEF LeaseAges
  <2>2. /\ r(lost) \in Run /\ r(lost).pc = run[lock.holder].pc
        /\ r(lost).up = run[lock.holder].up
        /\ r(lost).mine = run[lock.holder].mine /\ r(lost).gone = run[lock.holder].gone
    BY <1>1, <1>5 DEF Run
  <2>. HIDE DEF r
  <2>3. r(lost).pc # "idle" => r(lost).up \in Uploads BY <1>1, <1>5, <2>2, RunFacts
  <2>4. RunsOK' /\ run'[lock.holder] = r(lost) /\ \A m \in Loops \ {lock.holder} : run'[m] = run[m]
    BY <1>1, <1>5, <2>1, <2>2, <2>3, Update
  <2>. QED BY <2>2, <2>4 DEF Carries
<1>. QED BY <1>2, <1>3, <1>4, <1>5

\* A user takes the job of u from whoever runs it.
LEMMA RetryRuns ==
  ASSUME TypeOK, NEW u \in Uploads, Retry(u)
  PROVE  /\ RunsOK'
         /\ \A l \in Loops :
              /\ run'[l].up = run[l].up /\ run'[l].gone = run[l].gone /\ run'[l].pc = run[l].pc
              /\ run'[l].mine => run[l].mine /\ run[l].up # u
              /\ run'[l] = run[l] \/ run'[l] = [run[l] EXCEPT !.mine = FALSE]
<1>1. RunsOK /\ \A l \in Loops : run[l] \in Run BY RunFacts DEF TypeOK
<1>2. \A l \in Loops :
        run'[l] = IF run[l].up = u THEN [run[l] EXCEPT !.mine = FALSE] ELSE run[l]
  BY DEF Retry, Disowned, Up
<1>3. \A l \in Loops : LET r == [run[l] EXCEPT !.mine = FALSE] IN
        r \in Run /\ r.up = run[l].up /\ r.gone = run[l].gone /\ r.pc = run[l].pc /\ r.mine = FALSE
  BY ZenonT(60), <1>1 DEF Run
<1>4. \A l \in Loops :
        /\ run'[l] \in Run /\ run'[l].up = run[l].up /\ run'[l].gone = run[l].gone
        /\ run'[l].pc = run[l].pc
        /\ run'[l].mine => run[l].mine /\ run[l].up # u
        /\ run'[l] = run[l] \/ run'[l] = [run[l] EXCEPT !.mine = FALSE]
  BY <1>1, <1>2, <1>3
<1>5. run' \in [Loops -> Run]
  <2>1. run' = [l \in Loops |-> IF run[l].up = u THEN [run[l] EXCEPT !.mine = FALSE] ELSE run[l]]
    BY DEF Retry, Disowned, Up
  <2>. QED BY <1>1, <1>3, <2>1
<1>. QED BY <1>1, <1>4, <1>5 DEF RunsOK

LEMMA StartRuns ==
  ASSUME TypeOK, NEW l \in Loops, NEW u \in Uploads, Start(l, u)
  PROVE  /\ RunsOK' /\ \A m \in Loops \ {l} : run'[m] = run[m]
         /\ run'[l].up = u /\ run'[l].mine /\ ~run'[l].gone /\ run'[l].pc = "wait"
<1>. DEFINE last == job[u].attempts + 1 >= MaxAttempts
            r == [NoRun EXCEPT !.pc = "wait", !.up = u, !.mine = TRUE, !.last = last]
<1>1. run' = [run EXCEPT ![l] = r] BY DEF Start
<1>2. last \in BOOLEAN OBVIOUS
<1>. HIDE DEF last
<1>3. r \in Run /\ r.up = u /\ r.mine /\ ~r.gone /\ r.pc = "wait"
  BY <1>2, NoRunType DEF Run, NoRun, Pcs
<1>. HIDE DEF r
<1>4. RunsOK BY DEF TypeOK
<1>5. RunsOK' /\ run'[l] = r /\ \A m \in Loops \ {l} : run'[m] = run[m]
  BY <1>1, <1>3, <1>4, Update
<1>. QED BY <1>3, <1>5

------------------------------------------------------------------------------
(* Types, and who has a job                                                 *)

LEMMA FaultType ==
  ASSUME TypeOK, NEW kind \in {"error", "crash", "outage", "retry", "stop", "late"}, NEW max,
         BumpFault(kind, max)
  PROVE  faults' \in [error : Nat, crash : Nat, outage : Nat, retry : Nat, stop : Nat, late : Nat]
BY DEF TypeOK, BumpFault

LEMMA OwnersCarried == ASSUME OwnersOK, Carries, job' = job PROVE OwnersOK'
BY DEF OwnersOK, Carries, Up

LEMMA OwnersGivenUp == ASSUME TypeOK, OwnersOK, NEW l \in Loops, GivesUp(l) PROVE OwnersOK'
<1>1. ASSUME NEW m \in Loops, run'[m].mine
      PROVE  m # l /\ run[m].mine /\ run'[m] = run[m] /\ Up(m) \in Uploads /\ job'[Up(m)] = job[Up(m)]
  BY <1>1 DEF GivesUp, OwnersOK
<1>. QED BY <1>1 DEF OwnersOK, Up

LEMMA JobTypes ==
  ASSUME TypeOK, NEW u \in Uploads, NEW status \in {"QUEUED", "COMPLETED", "FAILED"}
  PROVE  Settle(u, status) \in [Uploads -> [status : {"QUEUED", "RUNNING", "COMPLETED", "FAILED"}, attempts : Nat]]
BY DEF TypeOK, Settle

LEMMA LockTypes ==
  ASSUME TypeOK, NEW l \in Loops
  PROVE  /\ Released(l) \in [holder : Loops \cup {None, Dead}, fresh : BOOLEAN]
         /\ Orphan(l) \in [holder : Loops \cup {None, Dead}, fresh : BOOLEAN]
         /\ HeldReleased(l) \in [holder : Loops \cup {None, Dead}, fresh : BOOLEAN]
BY DEF TypeOK, Released, Orphan, HeldReleased

LEMMA LockTypeStep ==
  ASSUME TypeOK, NEW l \in Loops, LockNext(l)
  PROVE  TypeOK'
<1>1. RunsOK' BY LockRuns
<1>2. lock' \in [holder : Loops \cup {None, Dead}, fresh : BOOLEAN]
  <2>. DEFINE LockRow == [holder : Loops \cup {None, Dead}, fresh : BOOLEAN]
  <2>1. lock \in LockRow /\ Released(l) \in LockRow /\ Orphan(l) \in LockRow
    BY LockTypes DEF TypeOK
  <2>2. [lock EXCEPT !.fresh = TRUE] \in LockRow /\ [holder |-> l, fresh |-> TRUE] \in LockRow
    BY <2>1
  <2>. HIDE DEF LockRow
  <2>3. lock' \in LockRow
    BY <2>1, <2>2 DEF LockNext, TryAcquire, WaitTimeout, Outage, Renew, Release, ReleaseFails
  <2>. QED BY <2>3 DEF LockRow
<1>3. faults' = faults \/ BumpFault("outage", MaxOutages)
  BY DEF LockNext, TryAcquire, WaitTimeout, Outage, Renew, Release, ReleaseFails
<1>4. UNCHANGED <<job, upload, target, marker, stage, catalog, aged>>
  BY DEF LockNext, TryAcquire, WaitTimeout, Outage, Renew, Release, ReleaseFails
<1>. QED BY <1>1, <1>2, <1>3, <1>4, FaultType DEF TypeOK

LEMMA ImportTypeStep ==
  ASSUME TypeOK, NEW l \in Loops, ImportNext(l)
  PROVE  TypeOK'
<1>1. RunsOK' BY ImportRuns
<1>2. /\ target \in [exists : BOOLEAN, rows : Copies] /\ marker \subseteq Uploads
      /\ stage \in [Uploads -> Nat \cup {None}] /\ run[l] \in Run
      /\ run[l].pc # "idle" => Up(l) \in Uploads
  BY RunFacts DEF TypeOK, Up
<1>3. CASE Look(l) \/ Check(l) \/ CheckThrows(l) \/ Merge(l) \/ Refused(l) \/ Count(l)
  BY <1>1, <1>3 DEF Look, Check, CheckThrows, Merge, Refused, Count, TypeOK
<1>4. CASE OpenStage(l) BY <1>1, <1>2, <1>4 DEF OpenStage, TypeOK
<1>5. CASE Fill(l)
  <2>1. Up(l) \in Uploads /\ stage[Up(l)] \in Nat BY <1>2, <1>5 DEF Fill, At
  <2>. QED BY <1>1, <1>5, <2>1 DEF Fill, TypeOK
<1>6. CASE Meta(l)
  <2>1. run[l].counted \in Copies /\ Up(l) \in Uploads BY <1>2, <1>6 DEF Run, Meta, At
  <2>. QED BY <1>1, <1>6, <2>1 DEF Meta, TypeOK
<1>7. CASE Throw(l) BY <1>1, <1>7, FaultType DEF Throw, TypeOK
<1>8. ASSUME NEW rows \in Copies, Publish(l, rows), marker' \subseteq Uploads PROVE TypeOK'
  BY <1>1, <1>8 DEF Publish, TypeOK
<1>9. At(l, "swap") => /\ Up(l) \in Uploads /\ MarkedBy(Up(l)) \subseteq Uploads
                       /\ stage[Up(l)] \in Nat \cup {None}
  BY <1>2 DEF At, MarkedBy
<1>10. CASE SwapFull(l)
  <2>1. At(l, "swap") /\ stage[Up(l)] \in Nat BY <1>9, <1>10 DEF SwapFull, Swappable
  <2>2. Only(Up(l), stage[Up(l)]) \in Copies BY <2>1 DEF Only, NoCopies, Copies
  <2>. QED BY <1>8, <1>9, <1>10, <2>1, <2>2 DEF SwapFull
<1>11. CASE SwapMerged(l)
  <2>1. run[l].merged \in Copies BY <1>2 DEF Run
  <2>. QED BY <1>2, <1>8, <1>11, <2>1 DEF SwapMerged
<1>12. CASE Append(l)
  <2>1. At(l, "swap") /\ stage[Up(l)] \in Nat BY <1>9, <1>12 DEF Append, Swappable
  <2>2. [target.rows EXCEPT ![Up(l)] = @ + stage[Up(l)]] \in Copies BY <1>2, <1>9, <2>1 DEF Copies
  <2>. QED BY <1>8, <1>9, <1>12, <2>1, <2>2 DEF Append
<1>. QED BY <1>3, <1>4, <1>5, <1>6, <1>7, <1>10, <1>11, <1>12 DEF ImportNext

LEMMA EndTypeStep ==
  ASSUME TypeOK, OwnersOK, NEW l \in Loops, EndNext(l)
  PROVE  TypeOK'
<1>. DEFINE Jobs == [Uploads -> [status : {"QUEUED", "RUNNING", "COMPLETED", "FAILED"}, attempts : Nat]]
            LockRow == [holder : Loops \cup {None, Dead}, fresh : BOOLEAN]
<1>1. RunsOK' BY EndingRuns, OtherRuns DEF EndNext
<1>2. ~At(l, "idle") => Up(l) \in Uploads BY RunFacts DEF TypeOK, At, Up
<1>3. job \in Jobs /\ (\A u \in Uploads : \A s \in {"QUEUED", "COMPLETED", "FAILED"} : Settle(u, s) \in Jobs)
  BY JobTypes DEF TypeOK
<1>4. GivenBack(l) \in Jobs
  <2>1. CASE run[l].mine
    <3>1. Up(l) \in Uploads /\ job[Up(l)].attempts \in Nat \ {0}
      BY <2>1 DEF OwnersOK, TypeOK
    <3>2. [status |-> "QUEUED", attempts |-> job[Up(l)].attempts - 1]
            \in [status : {"QUEUED", "RUNNING", "COMPLETED", "FAILED"}, attempts : Nat]
      BY <3>1
    <3>. QED BY <1>3, <2>1, <3>1, <3>2 DEF GivenBack
  <2>2. CASE ~run[l].mine BY <1>3, <2>2 DEF GivenBack
  <2>. QED BY <2>1, <2>2
<1>5. lock \in LockRow /\ Released(l) \in LockRow /\ Orphan(l) \in LockRow /\ HeldReleased(l) \in LockRow
  BY LockTypes DEF TypeOK
<1>. HIDE DEF Jobs, LockRow
<1>6. job' \in Jobs
  <2>1. CASE Complete(l) BY <1>2, <1>3, <2>1 DEF Complete, At
  <2>2. CASE Fail(l) BY <1>2, <1>3, <2>2 DEF Fail, At
  <2>3. CASE Cleanup(l) \/ Crash(l) \/ Terminate(l) \/ Exit(l)
    BY <1>3, <2>3 DEF Cleanup, Crash, Terminate, Exit
  <2>4. CASE Quit(l) \/ QuitLate(l) BY <1>4, <2>4 DEF Quit, QuitLate
  <2>. QED BY <2>1, <2>2, <2>3, <2>4 DEF EndNext
<1>7. lock' \in LockRow
  BY <1>5 DEF EndNext, Cleanup, Complete, Fail, Crash, Terminate, Quit, QuitLate, Exit
<1>8. upload' \in [Uploads -> {"open", "COMPLETED", "FAILED"}]
  <2>1. CASE Fail(l) BY <2>1 DEF Fail, TypeOK
  <2>2. CASE ~Fail(l)
    BY <2>2 DEF EndNext, Cleanup, Complete, Crash, Terminate, Quit, QuitLate, Exit, TypeOK
  <2>. QED BY <2>1, <2>2
<1>9. stage' \in [Uploads -> Nat \cup {None}]
  <2>1. CASE Cleanup(l) BY <2>1 DEF Cleanup, TypeOK
  <2>2. CASE ~Cleanup(l)
    BY <2>2 DEF EndNext, Complete, Fail, Crash, Terminate, Quit, QuitLate, Exit, TypeOK
  <2>. QED BY <2>1, <2>2
<1>10. faults' \in [error : Nat, crash : Nat, outage : Nat, retry : Nat, stop : Nat, late : Nat]
  <2>1. \/ faults' = faults \/ BumpFault("crash", MaxCrashes) \/ BumpFault("stop", MaxStops)
        \/ BumpFault("late", MaxLate)
    BY DEF EndNext, Cleanup, Complete, Fail, Crash, Terminate, Quit, QuitLate, Exit
  <2>. QED BY <2>1, FaultType DEF TypeOK
<1>11. UNCHANGED <<target, marker, catalog, aged>>
  BY DEF EndNext, Cleanup, Complete, Fail, Crash, Terminate, Quit, QuitLate, Exit
<1>. QED BY <1>1, <1>6, <1>7, <1>8, <1>9, <1>10, <1>11 DEF TypeOK, Jobs, LockRow

LEMMA OtherTypeStep ==
  ASSUME TypeOK, OwnersOK,
         \/ \E l \in Loops, u \in Uploads : Start(l, u) \/ Skip(l, u)
         \/ LeaseAges \/ \E u \in Uploads : RecoverJob(u) \/ Retry(u)
  PROVE  TypeOK'
<1>1. ASSUME NEW l \in Loops, NEW u \in Uploads, Start(l, u) PROVE TypeOK'
  <2>1. RunsOK' BY <1>1, StartRuns
  <2>2. job[u].attempts + 1 \in Nat BY DEF TypeOK
  <2>. QED BY <1>1, <2>1, <2>2 DEF Start, TypeOK
<1>2. ASSUME NEW l \in Loops, NEW u \in Uploads, Skip(l, u) PROVE TypeOK'
  <2>1. job[u].attempts + 1 \in Nat BY DEF TypeOK
  <2>. QED BY <1>2, <2>1 DEF Skip, TypeOK, RunsOK
<1>3. CASE LeaseAges
  <2>1. RunsOK' BY <1>3, OtherRuns
  <2>2. lock' \in [holder : Loops \cup {None, Dead}, fresh : BOOLEAN] /\ aged' \in BOOLEAN
    BY <1>3 DEF LeaseAges, TypeOK
  <2>3. UNCHANGED <<job, upload, target, marker, stage, catalog, faults>> BY <1>3 DEF LeaseAges
  <2>. QED BY <2>1, <2>2, <2>3 DEF TypeOK
<1>4. ASSUME NEW u \in Uploads, RecoverJob(u) PROVE TypeOK'
  <2>1. RunsOK' BY <1>4 DEF RecoverJob, TypeOK, RunsOK
  <2>2. job' \in [Uploads -> [status : {"QUEUED", "RUNNING", "COMPLETED", "FAILED"}, attempts : Nat]]
    BY <1>4, JobTypes DEF RecoverJob
  <2>3. upload' \in [Uploads -> {"open", "COMPLETED", "FAILED"}] BY <1>4 DEF RecoverJob, TypeOK
  <2>4. UNCHANGED <<lock, target, marker, stage, catalog, aged, faults>> BY <1>4 DEF RecoverJob
  <2>. QED BY <2>1, <2>2, <2>3, <2>4 DEF TypeOK
<1>5. ASSUME NEW u \in Uploads, Retry(u) PROVE TypeOK'
  <2>1. RunsOK' BY <1>5, RetryRuns
  <2>2. faults' \in [error : Nat, crash : Nat, outage : Nat, retry : Nat, stop : Nat, late : Nat]
    BY <1>5, FaultType DEF Retry
  <2>. QED BY <1>5, <2>1, <2>2 DEF Retry, TypeOK
<1>. QED BY <1>1, <1>2, <1>3, <1>4, <1>5

\* A job has one run: it is claimed when no run has it, and whoever loses it
\* is never given it again.
LEMMA OwnersStep ==
  ASSUME TypeOK, OwnersOK, Next
  PROVE  OwnersOK'
<1>1. ASSUME NEW l \in Loops, LockNext(l) PROVE OwnersOK'
  <2>1. job' = job
    BY <1>1 DEF LockNext, TryAcquire, WaitTimeout, Outage, Renew, Release, ReleaseFails
  <2>. QED BY <1>1, <2>1, LockRuns, OwnersCarried
<1>2. ASSUME NEW l \in Loops, ImportNext(l) PROVE OwnersOK'
  <2>1. job' = job
    BY <1>2
    DEF ImportNext, Look, OpenStage, Fill, Check, CheckThrows, Merge, SwapFull, SwapMerged,
        Append,
                Publish, Refused, Count, Meta, Throw
  <2>. QED BY <1>2, <2>1, ImportRuns, OwnersCarried
<1>3. ASSUME NEW l \in Loops, EndNext(l) PROVE OwnersOK'
  <2>1. CASE Cleanup(l) \/ Terminate(l)
    <3>1. job' = job BY <2>1 DEF Cleanup, Terminate
    <3>. QED BY <2>1, <3>1, OtherRuns, OwnersCarried
  <2>2. CASE Complete(l) \/ Fail(l) \/ Crash(l) \/ Quit(l) \/ QuitLate(l) \/ Exit(l)
    BY <2>2, EndingRuns, OwnersGivenUp
  <2>. QED BY <1>3, <2>1, <2>2 DEF EndNext
<1>4. CASE LeaseAges
  <2>1. job' = job BY <1>4 DEF LeaseAges
  <2>. QED BY <1>4, <2>1, OtherRuns, OwnersCarried
<1>5. ASSUME NEW l \in Loops, NEW u \in Uploads, Start(l, u) PROVE OwnersOK'
  <2>1. /\ \A m \in Loops \ {l} : run'[m] = run[m]
        /\ run'[l].up = u /\ run'[l].mine
    BY <1>5, StartRuns
  <2>2. \A m \in Loops : run[m].mine => Up(m) # u BY <1>5 DEF Start, OwnersOK
  <2>3. job[u].attempts \in Nat BY DEF TypeOK
  <2>4. /\ job'[u].status = "RUNNING" /\ job'[u].attempts > 0
        /\ \A v \in Uploads \ {u} : job'[v] = job[v]
    BY <1>5, <2>3 DEF Start, TypeOK
  <2>. QED BY <2>1, <2>2, <2>4 DEF OwnersOK, Up
<1>6. ASSUME NEW l \in Loops, NEW u \in Uploads, Skip(l, u) PROVE OwnersOK'
  <2>1. run' = run /\ \A v \in Uploads \ {u} : job'[v] = job[v] BY <1>6 DEF Skip, TypeOK
  <2>2. \A m \in Loops : run[m].mine => Up(m) # u BY <1>6 DEF Skip, OwnersOK
  <2>. QED BY <2>1, <2>2 DEF OwnersOK, Up
<1>7. ASSUME NEW u \in Uploads, RecoverJob(u) PROVE OwnersOK'
  <2>1. run' = run /\ \A v \in Uploads \ {u} : job'[v] = job[v]
    BY <1>7 DEF RecoverJob, Settle, TypeOK
  <2>2. \A m \in Loops : run[m].mine => Up(m) # u BY <1>7 DEF RecoverJob
  <2>. QED BY <2>1, <2>2 DEF OwnersOK, Up
<1>8. ASSUME NEW u \in Uploads, Retry(u) PROVE OwnersOK'
  <2>1. \A l \in Loops : run'[l].up = run[l].up /\ (run'[l].mine => run[l].mine /\ run[l].up # u)
    BY <1>8, RetryRuns
  <2>2. \A v \in Uploads \ {u} : job'[v] = job[v] BY <1>8 DEF Retry, TypeOK
  <2>. QED BY <2>1, <2>2 DEF OwnersOK, Up
<1>. QED BY <1>1, <1>2, <1>3, <1>4, <1>5, <1>6, <1>7, <1>8 DEF Next

LEMMA TypeStep == TypeOK /\ OwnersOK /\ [Next]_vars => TypeOK' /\ OwnersOK'
<1>. SUFFICES ASSUME TypeOK, OwnersOK, [Next]_vars PROVE TypeOK' /\ OwnersOK' OBVIOUS
<1>1. CASE Next
  BY <1>1, OwnersStep, LockTypeStep, ImportTypeStep, EndTypeStep, OtherTypeStep DEF Next
<1>2. CASE UNCHANGED vars BY <1>2 DEF vars, TypeOK, RunsOK, OwnersOK, Up
<1>. QED BY <1>1, <1>2

LEMMA TypesAndOwners == Spec => [](TypeOK /\ OwnersOK)
<1>1. Init => TypeOK /\ OwnersOK
  <2>. SUFFICES ASSUME Init PROVE TypeOK /\ OwnersOK OBVIOUS
  <2>1. RunsOK BY NoRunType DEF Init, RunsOK, NoRun
  <2>2. OwnersOK BY DEF Init, OwnersOK, NoRun
  <2>3. target \in [exists : BOOLEAN, rows : Copies] /\ catalog \in Copies
    BY NoRunType, TableImportAssumption DEF Init
  <2>4. job \in [Uploads -> [status : {"QUEUED", "RUNNING", "COMPLETED", "FAILED"}, attempts : Nat]]
    BY DEF Init
  <2>. QED BY <2>1, <2>2, <2>3, <2>4 DEF Init, TypeOK
<1>. QED BY <1>1, TypeStep, PTL DEF Spec

\* Every variable keeps its type; in particular a process that stops never gives
\* back an attempt that was not counted.
THEOREM TypeCorrect == Spec => []TypeOK
BY TypesAndOwners, PTL

------------------------------------------------------------------------------
(* The lock                                                                 *)

\* What a step that moves a run leaves of it.
Same(l) ==
  /\ run'[l].up = run[l].up /\ run'[l].found = run[l].found /\ run'[l].applied = run[l].applied
  /\ run'[l].merged = run[l].merged /\ run'[l].lost = run[l].lost /\ run'[l].gone = run[l].gone

Others(l) == \A m \in Loops \ {l} : run'[m] = run[m]

LEMMA MoveFields ==
  ASSUME TypeOK, NEW l \in Loops, NEW pc \in Pcs,
         GoTo(l, pc) \/ \E e \in {"none", "retryable", "final"} : RaiseTo(l, pc, e)
  PROVE  run'[l].pc = pc /\ Same(l) /\ Others(l)
<1>1. run \in [Loops -> Run] /\ run[l] \in Run BY DEF TypeOK, RunsOK
<1>2. CASE GoTo(l, pc)
  <2>1. run'[l] = [run[l] EXCEPT !.pc = pc] /\ Others(l) BY <1>1, <1>2 DEF GoTo, Others
  <2>. QED BY <1>1, <2>1 DEF Same, Run
<1>3. ASSUME NEW e \in {"none", "retryable", "final"}, RaiseTo(l, pc, e)
      PROVE  run'[l].pc = pc /\ Same(l) /\ Others(l)
  <2>1. run'[l] = [run[l] EXCEPT !.pc = pc, !.error = e] /\ Others(l)
    BY <1>1, <1>3 DEF RaiseTo, Others
  <2>. QED BY <1>1, <2>1 DEF Same, Run
<1>. QED BY <1>2, <1>3

\* No step takes a fault back.
LEMMA UndisturbedBefore == ASSUME TypeOK, [Next]_vars, Undisturbed' PROVE Undisturbed
<1>1. aged => aged'
  BY ZenonT(60)
  DEF Next, LockNext, ImportNext, EndNext, Start, Skip, TryAcquire, WaitTimeout, Outage, Renew,
      Release,
         ReleaseFails, LeaseAges, Look, OpenStage, Fill, Check, CheckThrows, Merge, SwapFull,
         SwapMerged, Append,
         Publish, Refused, Count, Meta, Throw, Cleanup, Complete, Fail, Crash, Terminate, Quit,
         QuitLate, Exit,
         RecoverJob, Retry, vars
<1>. DEFINE Recorded ==
      \/ faults' = faults \/ BumpFault("error", MaxErrors) \/ BumpFault("crash", MaxCrashes)
      \/ BumpFault("outage", MaxOutages) \/ BumpFault("retry", MaxRetries)
      \/ BumpFault("stop", MaxStops) \/ BumpFault("late", MaxLate)
<1>2. Recorded
  <2>1. ASSUME NEW l \in Loops, LockNext(l) PROVE Recorded
    BY <2>1 DEF LockNext, TryAcquire, WaitTimeout, Outage, Renew, Release, ReleaseFails
  <2>2. ASSUME NEW l \in Loops, ImportNext(l) PROVE Recorded
    BY <2>2
    DEF ImportNext, Look, OpenStage, Fill, Check, CheckThrows, Merge, SwapFull, SwapMerged,
        Append,
                Publish, Refused, Count, Meta, Throw
  <2>3. ASSUME NEW l \in Loops, EndNext(l) PROVE Recorded
    BY <2>3 DEF EndNext, Cleanup, Complete, Fail, Crash, Terminate, Quit, QuitLate, Exit
  <2>4. ASSUME NEW l \in Loops, NEW u \in Uploads, Start(l, u) \/ Skip(l, u) PROVE Recorded
    BY <2>4 DEF Start, Skip
  <2>5. ASSUME NEW u \in Uploads, RecoverJob(u) \/ Retry(u) PROVE Recorded
    BY <2>5 DEF RecoverJob, Retry
  <2>6. CASE LeaseAges BY <2>6 DEF LeaseAges
  <2>7. CASE UNCHANGED vars BY <2>7 DEF vars
  <2>. HIDE DEF Recorded
  <2>. QED BY <2>1, <2>2, <2>3, <2>4, <2>5, <2>6, <2>7 DEF Next
<1>3. faults'.late = 0 => faults.late = 0
  <2>1. faults \in [error : Nat, crash : Nat, outage : Nat, retry : Nat, stop : Nat, late : Nat]
    BY DEF TypeOK
  <2>. QED BY <1>2, <2>1 DEF BumpFault
<1>. QED BY <1>1, <1>3 DEF Undisturbed

LockInv ==
  /\ LockOfWorker /\ HolderOwnsLock
  /\ faults.late = 0 => \A l \in Loops : ~run[l].gone

\* A step that leaves the lock to whom it is of.
LockCalm ==
  /\ lock' = lock /\ faults'.late = faults.late
  /\ \A m \in Loops :
       /\ run'[m].pc \in Working <=> run[m].pc \in Working
       /\ run'[m].lost = run[m].lost \/ run'[m].lost = "no"
       /\ run'[m].pc = "wait" => run[m].pc = "wait" \/ run'[m].lost = "no"
       /\ run'[m].gone => run[m].gone

LEMMA LockCalmStep == ASSUME TypeOK, LockInv, [Next]_vars, LockCalm PROVE LockInv'
<1>1. Undisturbed' => Undisturbed BY UndisturbedBefore
<1>2. LockOfWorker' BY DEF LockInv, LockOfWorker, LockCalm, Holds, At
<1>3. HolderOwnsLock' BY <1>1 DEF LockInv, HolderOwnsLock, LockCalm, Holds
<1>. QED BY <1>2, <1>3 DEF LockInv, LockCalm

LEMMA LateKept ==
  ASSUME TypeOK, NEW kind \in {"error", "crash", "outage", "retry", "stop"}, NEW max, BumpFault(kind, max)
  PROVE  faults'.late = faults.late
BY DEF TypeOK, BumpFault

LEMMA ImportLockCalm ==
  ASSUME TypeOK, NEW l \in Loops, ImportNext(l)
  PROVE  LockCalm
<1>1. run \in [Loops -> Run] /\ run[l] \in Run BY DEF TypeOK, RunsOK
<1>2. lock' = lock
  BY
  DEF ImportNext, Look, OpenStage, Fill, Check, CheckThrows, Merge, SwapFull, SwapMerged, Append,
      Publish,
         Refused, Count, Meta, Throw
<1>3. faults'.late = faults.late
  BY LateKept
  DEF ImportNext, Look, OpenStage, Fill, Check, CheckThrows, Merge, SwapFull, SwapMerged, Append,
                  Publish, Refused, Count, Meta, Throw
<1>4. /\ run[l].pc \in Working /\ run'[l].pc \in Working
      /\ run'[l].lost = run[l].lost /\ run'[l].gone = run[l].gone /\ Others(l)
  <2>1. ASSUME NEW pc \in Working, GoTo(l, pc) \/ \E e \in {"none", "retryable", "final"} : RaiseTo(l, pc, e)
        PROVE  /\ run'[l].pc \in Working
               /\ run'[l].lost = run[l].lost /\ run'[l].gone = run[l].gone /\ Others(l)
    BY <2>1, MoveFields DEF Same, Pcs
  <2>2. CASE OpenStage(l) \/ Fill(l) \/ Check(l) \/ CheckThrows(l) \/ Refused(l) \/ Meta(l) \/ Throw(l)
    BY <2>1, <2>2
    DEF OpenStage, Fill, Check, CheckThrows, Refused, Meta, Throw, At, Working, Holds
  <2>3. CASE Look(l)
    <3>1. run'[l] = [run[l] EXCEPT !.pc = "open", !.found = target.exists, !.applied = AlreadyApplied(Up(l))]
          /\ Others(l)
      BY <1>1, <2>3 DEF Look, Others
    <3>. QED BY <1>1, <2>3, <3>1 DEF Look, At, Run, Working
  <2>4. CASE Merge(l)
    <3>1. run'[l] = [run[l] EXCEPT !.pc = "swap", !.merged = Merged(Up(l))] /\ Others(l)
      BY <1>1, <2>4 DEF Merge, Others
    <3>. QED BY <1>1, <2>4, <3>1 DEF Merge, At, Run, Working
  <2>5. ASSUME NEW rows, Publish(l, rows), At(l, "swap")
        PROVE  /\ run[l].pc \in Working /\ run'[l].pc \in Working
               /\ run'[l].lost = run[l].lost /\ run'[l].gone = run[l].gone /\ Others(l)
    <3>1. run'[l] = [run[l] EXCEPT !.pc = "count", !.merged = NoCopies] /\ Others(l)
      BY <1>1, <2>5 DEF Publish, Others
    <3>. QED BY <1>1, <2>5, <3>1 DEF At, Run, Working
  <2>6. CASE SwapFull(l) \/ SwapMerged(l) \/ Append(l)
    BY <2>5, <2>6 DEF SwapFull, SwapMerged, Append
  <2>7. CASE Count(l)
    <3>1. CASE RaiseTo(l, "release", "retryable") BY <2>1, <2>7, <3>1 DEF Count, At, Working
    <3>2. CASE run' = [run EXCEPT ![l].pc = "meta", ![l].counted = Counted(Up(l))]
      <4>1. run'[l] = [run[l] EXCEPT !.pc = "meta", !.counted = Counted(Up(l))] /\ Others(l)
        BY <1>1, <3>2 DEF Others
      <4>. QED BY <1>1, <2>7, <4>1 DEF Count, At, Run, Working
    <3>. QED BY <2>7, <3>1, <3>2 DEF Count
  <2>. QED BY <2>2, <2>3, <2>4, <2>6, <2>7 DEF ImportNext
<1>. QED BY <1>2, <1>3, <1>4 DEF LockCalm, Others, Working

\* A run that ends as it should, and one that the user or a signal touches.
LEMMA OtherLockCalm ==
  ASSUME TypeOK,
         \/ \E l \in Loops : WaitTimeout(l) \/ Outage(l) \/ Cleanup(l) \/ Complete(l) \/ Fail(l) \/ Terminate(l)
         \/ \E l \in Loops, u \in Uploads : Start(l, u) \/ Skip(l, u)
         \/ \E u \in Uploads : RecoverJob(u) \/ Retry(u)
  PROVE  LockCalm
<1>1. run \in [Loops -> Run] /\ \A l \in Loops : run[l] \in Run BY DEF TypeOK, RunsOK
<1>2. ASSUME NEW l \in Loops, WaitTimeout(l) PROVE LockCalm
  <2>1. run'[l].pc = "cleanup" /\ Same(l) /\ Others(l) BY <1>2, MoveFields DEF WaitTimeout, Pcs
  <2>. QED BY <1>2, <2>1 DEF WaitTimeout, At, LockCalm, Same, Others, Working
<1>3. ASSUME NEW l \in Loops, Outage(l) PROVE LockCalm
  <2>1. run'[l] = [run[l] EXCEPT !.ok = FALSE] /\ Others(l) BY <1>1, <1>3 DEF Outage, Others
  <2>2. run'[l].pc = run[l].pc /\ run'[l].lost = run[l].lost /\ run'[l].gone = run[l].gone
    BY <1>1, <2>1 DEF Run
  <2>3. faults'.late = faults.late BY <1>3, LateKept DEF Outage
  <2>. QED BY <1>3, <2>1, <2>2, <2>3 DEF Outage, LockCalm, Others
<1>4. ASSUME NEW l \in Loops, Cleanup(l) PROVE LockCalm
  <2>1. run'[l].pc = "fail" /\ Same(l) /\ Others(l) BY <1>4, MoveFields DEF Cleanup, Pcs
  <2>. QED BY <1>4, <2>1 DEF Cleanup, At, LockCalm, Same, Others, Working
<1>5. ASSUME NEW l \in Loops, Complete(l) \/ Fail(l) PROVE LockCalm
  <2>1. run'[l] = NoRun /\ Others(l) /\ lock' = lock /\ faults' = faults
    BY <1>1, <1>5 DEF Complete, Fail, Others
  <2>. QED BY <1>5, <2>1 DEF Complete, Fail, At, LockCalm, Others, NoRun, Working
<1>6. ASSUME NEW l \in Loops, Terminate(l) PROVE LockCalm
  <2>1. run'[l] = [run[l] EXCEPT !.leaving = TRUE] /\ Others(l)
    BY <1>1, <1>6 DEF Terminate, Others
  <2>2. run'[l].pc = run[l].pc /\ run'[l].lost = run[l].lost /\ run'[l].gone = run[l].gone
    BY <1>1, <2>1 DEF Run
  <2>3. faults'.late = faults.late BY <1>6, LateKept DEF Terminate
  <2>. QED BY <1>6, <2>1, <2>2, <2>3 DEF Terminate, LockCalm, Others
<1>7. ASSUME NEW l \in Loops, NEW u \in Uploads, Start(l, u) PROVE LockCalm
  <2>1. /\ run'[l].pc = "wait" /\ run'[l].lost = "no" /\ ~run'[l].gone /\ Others(l)
    <3>. DEFINE last == job[u].attempts + 1 >= MaxAttempts
    <3>1. run'[l] = [NoRun EXCEPT !.pc = "wait", !.up = u, !.mine = TRUE, !.last = last] /\ Others(l)
      BY <1>1, <1>7 DEF Start, Others
    <3>. HIDE DEF last
    <3>. QED BY <3>1 DEF NoRun
  <2>. QED BY <1>7, <2>1 DEF Start, At, LockCalm, Others, Working
<1>8. ASSUME NEW l \in Loops, NEW u \in Uploads, Skip(l, u) PROVE LockCalm
  BY <1>8 DEF Skip, LockCalm
<1>9. ASSUME NEW u \in Uploads, RecoverJob(u) PROVE LockCalm
  BY <1>9 DEF RecoverJob, LockCalm
<1>10. ASSUME NEW u \in Uploads, Retry(u) PROVE LockCalm
  <2>1. \A l \in Loops :
          run'[l].pc = run[l].pc /\ run'[l].lost = run[l].lost /\ run'[l].gone = run[l].gone
    <3>1. \A l \in Loops : run'[l] = run[l] \/ run'[l] = [run[l] EXCEPT !.mine = FALSE]
      BY <1>10, RetryRuns
    <3>2. \A l \in Loops : LET r == [run[l] EXCEPT !.mine = FALSE] IN
            r.pc = run[l].pc /\ r.lost = run[l].lost /\ r.gone = run[l].gone
      BY <1>1 DEF Run
    <3>. QED BY <3>1, <3>2
  <2>2. faults'.late = faults.late BY <1>10, LateKept DEF Retry
  <2>. QED BY <1>10, <2>1, <2>2 DEF Retry, LockCalm
<1>. QED BY <1>2, <1>3, <1>4, <1>5, <1>6, <1>7, <1>8, <1>9, <1>10

\* Run l is over, or past its lock, which is not its own any more.
Leaves(l) ==
  /\ run'[l].pc \notin Working \cup {"wait"} /\ (run'[l].gone => run[l].gone) /\ Others(l)
  /\ faults'.late = faults.late
  /\ IF lock.holder = l THEN lock'.holder \notin Loops ELSE lock' = lock

LEMMA LeavingLock ==
  ASSUME TypeOK, LockInv, [Next]_vars, NEW l \in Loops, Leaves(l)
  PROVE  LockInv'
<1>1. Undisturbed' => Undisturbed BY UndisturbedBefore
<1>2. LockOfWorker' BY DEF LockInv, LockOfWorker, Leaves, Others, Holds, At
<1>3. HolderOwnsLock' BY <1>1 DEF LockInv, HolderOwnsLock, Leaves, Others, Holds
<1>. QED BY <1>2, <1>3 DEF LockInv, Leaves, Others

LEMMA EndsLeave ==
  ASSUME TypeOK, LockInv, NEW l \in Loops,
         Release(l) \/ ReleaseFails(l) \/ Crash(l) \/ Quit(l) \/ Exit(l)
  PROVE  Leaves(l)
<1>1. run \in [Loops -> Run] /\ run[l] \in Run /\ None \notin Loops /\ Dead \notin Loops
  BY TableImportAssumption DEF TypeOK, RunsOK
<1>2. (Released(l) = lock /\ Orphan(l) = lock) \/ lock.holder = l BY DEF Released, Orphan
<1>3. lock.holder = l => Released(l).holder = None /\ Orphan(l).holder = Dead
  BY DEF Released, Orphan, TypeOK
<1>4. lock.holder = l => Holds(l) BY DEF LockInv, LockOfWorker
<1>5. HeldReleased(l) = lock \/ lock.holder = l BY <1>2 DEF HeldReleased
<1>6. lock.holder = l => HeldReleased(l).holder = None BY <1>3, <1>4 DEF HeldReleased
<1>7. IF lock.holder = l THEN lock'.holder \notin Loops ELSE lock' = lock
  BY <1>1, <1>2, <1>3, <1>5, <1>6 DEF Release, ReleaseFails, Crash, Quit, Exit
<1>8. faults'.late = faults.late
  BY LateKept DEF Release, ReleaseFails, Crash, Quit, Exit
<1>9. run'[l].pc \notin Working \cup {"wait"} /\ (run'[l].gone => run[l].gone) /\ Others(l)
  <2>1. CASE Release(l)
    <3>1. run'[l] = [run[l] EXCEPT !.pc = AfterRelease(l), !.ok = TRUE, !.lost = "no"] /\ Others(l)
      BY <1>1, <2>1 DEF Release, Others
    <3>2. run'[l].pc = AfterRelease(l) /\ run'[l].gone = run[l].gone BY <1>1, <3>1 DEF Run
    <3>. QED BY <3>1, <3>2 DEF AfterRelease, Working
  <2>2. CASE ReleaseFails(l)
    <3>1. run'[l].pc = "cleanup" /\ Same(l) /\ Others(l) BY <2>2, MoveFields DEF ReleaseFails, Pcs
    <3>. QED BY <3>1 DEF Same, Working
  <2>3. CASE Crash(l) \/ Quit(l) \/ Exit(l)
    <3>1. run'[l] = NoRun /\ Others(l) BY <1>1, <2>3 DEF Crash, Quit, Exit, Others
    <3>. QED BY <3>1 DEF NoRun, Working
  <2>. QED BY <2>1, <2>2, <2>3
<1>. QED BY <1>7, <1>8, <1>9 DEF Leaves

\* The lock is taken when nobody works under it.
LEMMA Acquiring ==
  ASSUME TypeOK, LockInv, [Next]_vars, NEW l \in Loops, TryAcquire(l)
  PROVE  LockInv' /\ run'[l].pc = "look" /\ Same(l) /\ Others(l)
<1>1. Undisturbed' => Undisturbed BY UndisturbedBefore
<1>2. run'[l].pc = "look" /\ Same(l) /\ Others(l) BY MoveFields DEF TryAcquire, Pcs, Working
<1>3. run[l].pc = "wait" /\ run[l].lost = "no" BY DEF LockInv, LockOfWorker, TryAcquire, At
<1>4. lock' = [holder |-> l, fresh |-> TRUE] BY DEF TryAcquire
<1>5. Undisturbed => \A m \in Loops : ~Holds(m)
  BY TableImportAssumption DEF LockInv, HolderOwnsLock, TryAcquire, LockTakeable
<1>6. LockOfWorker'
  BY <1>2, <1>3, <1>4 DEF LockInv, LockOfWorker, Same, Others, Holds, At, Working
<1>7. HolderOwnsLock' BY <1>1, <1>2, <1>3, <1>4, <1>5 DEF HolderOwnsLock, Same, Others, Holds
<1>8. faults' = faults BY DEF TryAcquire
<1>. QED BY <1>2, <1>6, <1>7, <1>8 DEF LockInv, Same, Others

\* A renewal leaves the run where it is.
LEMMA Renewing ==
  ASSUME TypeOK, NEW l \in Loops, Renew(l)
  PROVE  /\ Others(l) /\ run'[l].pc = run[l].pc /\ run'[l].up = run[l].up
         /\ run'[l].found = run[l].found /\ run'[l].applied = run[l].applied
         /\ run'[l].merged = run[l].merged /\ run'[l].gone = run[l].gone
         /\ lock.holder = l => run'[l].lost = run[l].lost \/ run'[l].lost = "no"
<1>1. run \in [Loops -> Run] /\ run[l] \in Run BY DEF TypeOK, RunsOK
<1>2. PICK lost : /\ run' = [run EXCEPT ![l] = [run[l] EXCEPT !.ok = TRUE, !.lost = lost]]
                  /\ lock.holder = l => lost = run[l].lost \/ lost = "no"
  <2>1. CASE lock.holder = l
    <3>1. run' = [run EXCEPT ![l] = [run[l] EXCEPT !.ok = TRUE,
                    !.lost = IF run[l].lost = "expired" THEN "no" ELSE run[l].lost]]
      BY <2>1 DEF Renew
    <3>. QED BY <3>1
  <2>2. CASE lock.holder # l BY <2>2 DEF Renew
  <2>. QED BY <2>1, <2>2
<1>3. run'[l] = [run[l] EXCEPT !.ok = TRUE, !.lost = lost] /\ Others(l) BY <1>1, <1>2 DEF Others
<1>. QED BY <1>1, <1>2, <1>3 DEF Run

LEMMA RenewingLock ==
  ASSUME TypeOK, LockInv, [Next]_vars, NEW l \in Loops, Renew(l)
  PROVE  LockInv'
<1>1. Undisturbed' => Undisturbed BY UndisturbedBefore
<1>2. /\ Others(l) /\ run'[l].pc = run[l].pc /\ run'[l].gone = run[l].gone
      /\ lock.holder = l => run'[l].lost = run[l].lost \/ run'[l].lost = "no"
  BY Renewing
<1>3. Holds(l) /\ run[l].pc # "wait" BY DEF Renew, Holds, Working
<1>4. lock'.holder = lock.holder /\ (lock.fresh => lock'.fresh) BY DEF Renew, TypeOK
<1>5. LockOfWorker' BY <1>2, <1>3, <1>4 DEF LockInv, LockOfWorker, Others, Holds, At
<1>6. HolderOwnsLock' BY <1>1, <1>2, <1>3, <1>4 DEF LockInv, HolderOwnsLock, Others, Holds
<1>7. faults' = faults BY DEF Renew
<1>. QED BY <1>2, <1>5, <1>6, <1>7 DEF LockInv, Others

\* Only the lease of a dead holder ages without a trace.
LEMMA AgingLock ==
  ASSUME TypeOK, LockInv, [Next]_vars, LeaseAges
  PROVE  LockInv'
<1>1. Undisturbed' => Undisturbed BY UndisturbedBefore
<1>2. run \in [Loops -> Run] BY DEF TypeOK, RunsOK
<1>3. lock'.holder = lock.holder /\ faults' = faults BY DEF LeaseAges, TypeOK
<1>4. CASE lock.holder \in Loops
  <2>1. aged' /\ \E lost \in {"expired", "yes"} : run' = [run EXCEPT ![lock.holder].lost = lost]
    BY <1>4 DEF LeaseAges
  <2>2. /\ Others(lock.holder) /\ run'[lock.holder].pc = run[lock.holder].pc
        /\ run'[lock.holder].gone = run[lock.holder].gone
    BY <1>2, <1>4, <2>1 DEF Others, Run
  <2>3. Holds(lock.holder) /\ run[lock.holder].pc # "wait"
    BY <1>4 DEF LockInv, LockOfWorker, Holds, Working
  <2>4. LockOfWorker' BY <1>3, <1>4, <2>2, <2>3 DEF LockInv, LockOfWorker, Others, Holds, At
  <2>5. HolderOwnsLock' BY <2>1 DEF HolderOwnsLock, Undisturbed
  <2>. QED BY <1>3, <1>4, <2>2, <2>4, <2>5 DEF LockInv, Others
<1>5. CASE lock.holder \notin Loops
  <2>1. run' = run BY <1>5 DEF LeaseAges
  <2>2. HolderOwnsLock' BY <1>1, <1>5, <2>1 DEF LockInv, HolderOwnsLock, Holds
  <2>3. LockOfWorker' BY <1>3, <2>1 DEF LockInv, LockOfWorker, Holds, At
  <2>. QED BY <1>3, <2>1, <2>2, <2>3 DEF LockInv
<1>. QED BY <1>4, <1>5

\* A process that goes on after giving up its lock is a disturbance.
LEMMA QuittingLock ==
  ASSUME TypeOK, LockInv, NEW l \in Loops, QuitLate(l)
  PROVE  LockInv' /\ faults'.late # 0
<1>1. run \in [Loops -> Run] /\ run[l] \in Run /\ None \notin Loops
  BY TableImportAssumption DEF TypeOK, RunsOK
<1>2. faults'.late # 0 BY DEF QuitLate, BumpFault, TypeOK
<1>3. run'[l] = [run[l] EXCEPT !.gone = TRUE, !.mine = FALSE] /\ Others(l)
  BY <1>1 DEF QuitLate, Others
<1>4. run'[l].pc = run[l].pc /\ run'[l].lost = run[l].lost BY <1>1, <1>3 DEF Run
<1>5. (lock' = lock /\ lock.holder # l) \/ lock'.holder = None
  BY DEF QuitLate, HeldReleased, Released, LockInv, LockOfWorker
<1>6. LockOfWorker' BY <1>1, <1>3, <1>4, <1>5 DEF LockInv, LockOfWorker, Others, Holds, At
<1>. QED BY <1>2, <1>6 DEF LockInv, HolderOwnsLock, Undisturbed

LEMMA LockStep == ASSUME TypeOK, LockInv, [Next]_vars PROVE LockInv'
<1>1. ASSUME NEW l \in Loops, LockNext(l) PROVE LockInv'
  BY <1>1, Acquiring, RenewingLock, EndsLeave, LeavingLock, OtherLockCalm, LockCalmStep
  DEF LockNext
<1>2. ASSUME NEW l \in Loops, ImportNext(l) PROVE LockInv'
  BY <1>2, ImportLockCalm, LockCalmStep
<1>3. ASSUME NEW l \in Loops, EndNext(l) PROVE LockInv'
  BY <1>3, QuittingLock, EndsLeave, LeavingLock, OtherLockCalm, LockCalmStep DEF EndNext
<1>4. CASE \/ \E l \in Loops, u \in Uploads : Start(l, u) \/ Skip(l, u)
           \/ \E u \in Uploads : RecoverJob(u) \/ Retry(u)
  BY <1>4, OtherLockCalm, LockCalmStep
<1>5. CASE UNCHANGED vars
  <2>1. LockCalm BY <1>5 DEF vars, LockCalm
  <2>. QED BY <2>1, LockCalmStep
<1>. QED BY <1>1, <1>2, <1>3, <1>4, <1>5, AgingLock DEF Next

------------------------------------------------------------------------------
(* The data: the table, its marker and the staging tables                   *)

Reading == {"open", "fill", "check", "merge", "swap"}

DataInv == Undisturbed => ReadIsCurrent /\ StageIsLoad /\ MergeIsCurrent /\ MarkedRows

\* What the invariants say of run m is left alone.
Kept(m) ==
  /\ run'[m].pc = run[m].pc /\ run'[m].up = run[m].up /\ run'[m].found = run[m].found
  /\ run'[m].applied = run[m].applied /\ run'[m].merged = run[m].merged

DataCalm ==
  /\ UNCHANGED <<target, marker, stage>>
  /\ \A m \in Loops : run'[m].pc \in Reading => Kept(m)

LEMMA DataCalmStep == ASSUME TypeOK, DataInv, [Next]_vars, DataCalm PROVE DataInv'
<1>1. Undisturbed' => Undisturbed BY UndisturbedBefore
<1>2. ASSUME NEW m \in Loops, run'[m].pc \in Reading PROVE Kept(m) BY <1>2 DEF DataCalm
<1>3. UNCHANGED <<target, marker, stage>> BY DEF DataCalm
<1>4. ReadIsCurrent => ReadIsCurrent'
  BY <1>2, <1>3 DEF ReadIsCurrent, Kept, Reading, AlreadyApplied, Up
<1>5. StageIsLoad => StageIsLoad' BY <1>2, <1>3 DEF StageIsLoad, Kept, Reading, At, Up
<1>6. MergeIsCurrent => MergeIsCurrent'
  BY <1>2, <1>3 DEF MergeIsCurrent, Kept, Reading, At, Up, FullSwap, Merged
<1>7. MarkedRows => MarkedRows' BY <1>3 DEF MarkedRows
<1>. QED BY <1>1, <1>4, <1>5, <1>6, <1>7 DEF DataInv

\* A run that works under the lock works alone.
LEMMA WorksAlone ==
  ASSUME LockInv, Undisturbed, NEW l \in Loops, Holds(l)
  PROVE  \A m \in Loops \ {l} : run[m].pc \notin Reading
BY DEF LockInv, HolderOwnsLock, Holds, Working, Reading

LEMMA LockDataCalm ==
  ASSUME TypeOK, LockInv, [Next]_vars, NEW l \in Loops, LockNext(l)
  PROVE  DataCalm
<1>1. UNCHANGED <<target, marker, stage>>
  BY DEF LockNext, TryAcquire, WaitTimeout, Outage, Renew, Release, ReleaseFails
<1>2. Others(l) /\ (run'[l].pc \in Reading => Kept(l))
  <2>1. CASE TryAcquire(l) BY <2>1, Acquiring DEF Reading
  <2>2. CASE WaitTimeout(l) \/ ReleaseFails(l)
    BY <2>2, MoveFields DEF WaitTimeout, ReleaseFails, Pcs, Reading
  <2>3. CASE Outage(l)
    <3>1. run \in [Loops -> Run] /\ run[l] \in Run BY DEF TypeOK, RunsOK
    <3>2. run'[l] = [run[l] EXCEPT !.ok = FALSE] /\ Others(l) BY <2>3, <3>1 DEF Outage, Others
    <3>. QED BY <3>1, <3>2 DEF Run, Kept
  <2>4. CASE Renew(l) BY <2>4, Renewing DEF Kept
  <2>5. CASE Release(l) BY <2>5, EndsLeave DEF Leaves, Reading, Working
  <2>. QED BY <2>1, <2>2, <2>3, <2>4, <2>5 DEF LockNext
<1>. QED BY <1>1, <1>2 DEF DataCalm, Others, Kept

LEMMA EndDataCalm ==
  ASSUME TypeOK, LockInv, NEW l \in Loops, EndNext(l), ~Cleanup(l)
  PROVE  DataCalm
<1>1. UNCHANGED <<target, marker, stage>>
  BY DEF EndNext, Complete, Fail, Crash, Terminate, Quit, QuitLate, Exit
<1>2. run \in [Loops -> Run] /\ run[l] \in Run BY DEF TypeOK, RunsOK
<1>3. Others(l) /\ (run'[l].pc \in Reading => Kept(l))
  <2>1. CASE Complete(l) \/ Fail(l) \/ Crash(l) \/ Quit(l) \/ Exit(l)
    <3>1. run'[l] = NoRun /\ Others(l)
      BY <1>2, <2>1 DEF Complete, Fail, Crash, Quit, Exit, Others
    <3>. QED BY <3>1 DEF NoRun, Reading
  <2>2. CASE Terminate(l)
    <3>1. run'[l] = [run[l] EXCEPT !.leaving = TRUE] /\ Others(l)
      BY <1>2, <2>2 DEF Terminate, Others
    <3>. QED BY <1>2, <3>1 DEF Run, Kept
  <2>3. CASE QuitLate(l)
    <3>1. run'[l] = [run[l] EXCEPT !.gone = TRUE, !.mine = FALSE] /\ Others(l)
      BY <1>2, <2>3 DEF QuitLate, Others
    <3>. QED BY <1>2, <3>1 DEF Run, Kept
  <2>. QED BY <2>1, <2>2, <2>3 DEF EndNext
<1>. QED BY <1>1, <1>3 DEF DataCalm, Others, Kept

LEMMA OtherDataCalm ==
  ASSUME TypeOK,
         \/ \E l \in Loops, u \in Uploads : Start(l, u) \/ Skip(l, u)
         \/ LeaseAges
         \/ \E u \in Uploads : RecoverJob(u) \/ Retry(u)
         \/ UNCHANGED vars
  PROVE  DataCalm
<1>1. UNCHANGED <<target, marker, stage>>
  BY DEF Start, Skip, LeaseAges, RecoverJob, Retry, vars
<1>2. run \in [Loops -> Run] /\ \A l \in Loops : run[l] \in Run BY DEF TypeOK, RunsOK
<1>3. ASSUME NEW l \in Loops, NEW u \in Uploads, Start(l, u) PROVE DataCalm
  <2>1. run'[l].pc = "wait" /\ \A m \in Loops \ {l} : run'[m] = run[m] BY <1>3, StartRuns
  <2>. QED BY <1>1, <2>1 DEF DataCalm, Kept, Reading
<1>4. CASE run' = run BY <1>1, <1>4 DEF DataCalm, Kept
<1>5. CASE LeaseAges /\ lock.holder \in Loops
  <2>1. PICK lost : run' = [run EXCEPT ![lock.holder].lost = lost] BY <1>5 DEF LeaseAges
  <2>2. \A m \in Loops : run'[m] = run[m] \/ run'[m] = [run[m] EXCEPT !.lost = lost]
    BY <1>2, <2>1
  <2>3. \A m \in Loops : LET r == [run[m] EXCEPT !.lost = lost] IN
          /\ r.pc = run[m].pc /\ r.up = run[m].up /\ r.found = run[m].found
          /\ r.applied = run[m].applied /\ r.merged = run[m].merged
    BY <1>2 DEF Run
  <2>4. \A m \in Loops : Kept(m) BY <2>2, <2>3 DEF Kept
  <2>. QED BY <1>1, <2>4 DEF DataCalm
<1>6. ASSUME NEW u \in Uploads, Retry(u) PROVE DataCalm
  <2>1. \A m \in Loops : run'[m] = run[m] \/ run'[m] = [run[m] EXCEPT !.mine = FALSE]
    BY <1>6, RetryRuns
  <2>2. \A m \in Loops : LET r == [run[m] EXCEPT !.mine = FALSE] IN
          /\ r.pc = run[m].pc /\ r.up = run[m].up /\ r.found = run[m].found
          /\ r.applied = run[m].applied /\ r.merged = run[m].merged
    BY <1>2 DEF Run
  <2>3. \A m \in Loops : Kept(m) BY <2>1, <2>2 DEF Kept
  <2>. QED BY <1>1, <2>3 DEF DataCalm
<1>. QED BY <1>3, <1>4, <1>5, <1>6 DEF Skip, LeaseAges, RecoverJob, vars

\* What does not come of a staging table, and does not go towards one.
LEMMA ImportDataCalm ==
  ASSUME TypeOK, NEW l \in Loops,
         CheckThrows(l) \/ Refused(l) \/ Count(l) \/ Meta(l) \/ Throw(l)
  PROVE  DataCalm
<1>1. UNCHANGED <<target, marker, stage>> BY DEF CheckThrows, Refused, Count, Meta, Throw
<1>2. run \in [Loops -> Run] /\ run[l] \in Run BY DEF TypeOK, RunsOK
<1>3. Others(l) /\ run'[l].pc \notin Reading
  <2>1. CASE CheckThrows(l) \/ Refused(l) \/ Meta(l) \/ Throw(l)
    BY <2>1, MoveFields DEF CheckThrows, Refused, Meta, Throw, Pcs, Working, Reading
  <2>2. CASE Count(l) /\ RaiseTo(l, "release", "retryable")
    BY <2>2, MoveFields DEF Pcs, Working, Reading
  <2>3. CASE run' = [run EXCEPT ![l].pc = "meta", ![l].counted = Counted(Up(l))]
    <3>1. run'[l] = [run[l] EXCEPT !.pc = "meta", !.counted = Counted(Up(l))] /\ Others(l)
      BY <1>2, <2>3 DEF Others
    <3>. QED BY <1>2, <3>1 DEF Run, Reading
  <2>. QED BY <2>1, <2>2, <2>3 DEF Count
<1>. QED BY <1>1, <1>3 DEF DataCalm, Others, Kept

\* What the invariants say of one run.
ReadOK(l) ==
  run[l].pc \in Reading => run[l].found = target.exists /\ run[l].applied = AlreadyApplied(Up(l))

LoadOK(l) ==
  /\ At(l, "fill") => stage[Up(l)] \in {None, 0}
  /\ run[l].pc \in {"check", "merge", "swap"} =>
       stage[Up(l)] \in {None, IF run[l].applied THEN 0 ELSE 1}

MergeOK(l) ==
  At(l, "swap") /\ ~FullSwap(l) /\ ModeOf[Up(l)] = "upsert" => run[l].merged = Merged(Up(l))

LEMMA OneRunOK ==
  ASSUME ReadIsCurrent, StageIsLoad, MergeIsCurrent, NEW l \in Loops
  PROVE  ReadOK(l) /\ LoadOK(l) /\ MergeOK(l)
BY DEF ReadIsCurrent, StageIsLoad, MergeIsCurrent, ReadOK, LoadOK, MergeOK, Reading

\* A step of the run that has the lock is answerable for that run alone.
LEMMA Alone ==
  ASSUME LockInv, Undisturbed, NEW l \in Loops, Holds(l), Others(l),
         ReadOK(l)', LoadOK(l)', MergeOK(l)'
  PROVE  ReadIsCurrent' /\ StageIsLoad' /\ MergeIsCurrent'
<1>1. \A m \in Loops \ {l} : run'[m].pc \notin Reading BY WorksAlone DEF Others
<1>2. ReadIsCurrent' BY <1>1 DEF ReadOK, ReadIsCurrent, Reading
<1>3. StageIsLoad' BY <1>1 DEF LoadOK, StageIsLoad, Reading, At
<1>4. MergeIsCurrent' BY <1>1 DEF MergeOK, MergeIsCurrent, Reading, At
<1>. QED BY <1>2, <1>3, <1>4

\* Reading the table, and everything up to its publication.
LEMMA LoadStep ==
  ASSUME TypeOK, LockInv, DataInv, [Next]_vars, NEW l \in Loops,
         Look(l) \/ OpenStage(l) \/ Fill(l) \/ Check(l) \/ Merge(l)
  PROVE  DataInv'
<1>. SUFFICES ASSUME Undisturbed' PROVE ReadIsCurrent' /\ StageIsLoad' /\ MergeIsCurrent' /\ MarkedRows'
  BY DEF DataInv
<1>1. Undisturbed BY UndisturbedBefore
<1>2. MarkedRows' BY <1>1 DEF DataInv, MarkedRows, Look, OpenStage, Fill, Check, Merge
<1>3. Holds(l) BY DEF Look, OpenStage, Fill, Check, Merge, At, Holds, Working
<1>4. ReadOK(l) /\ LoadOK(l) /\ MergeOK(l) BY <1>1, OneRunOK DEF DataInv
<1>5. /\ run \in [Loops -> Run] /\ run[l] \in Run /\ Up(l) \in Uploads
      /\ stage \in [Uploads -> Nat \cup {None}]
  BY <1>3, RunFacts DEF TypeOK, RunsOK, Holds, Working, Up
<1>6. Others(l) /\ ReadOK(l)' /\ LoadOK(l)' /\ MergeOK(l)'
  <2>1. CASE Look(l)
    <3>1. run'[l] = [run[l] EXCEPT !.pc = "open", !.found = target.exists, !.applied = AlreadyApplied(Up(l))]
          /\ Others(l)
      BY <1>5, <2>1 DEF Look, Others
    <3>2. /\ run'[l].pc = "open" /\ run'[l].up = run[l].up /\ run'[l].found = target.exists
          /\ run'[l].applied = AlreadyApplied(Up(l))
      BY <1>5, <3>1 DEF Run
    <3>. QED BY <2>1, <3>1, <3>2 DEF Look, ReadOK, LoadOK, MergeOK, At, Up, AlreadyApplied
  <2>2. CASE OpenStage(l)
    <3>1. run'[l].pc = "fill" /\ Same(l) /\ Others(l)
      BY <2>2, MoveFields DEF OpenStage, Pcs, Working
    <3>2. stage'[Up(l)] = 0 BY <1>5, <2>2 DEF OpenStage
    <3>. QED
      BY <1>4, <2>2, <3>1, <3>2
      DEF OpenStage, ReadOK, LoadOK, MergeOK, At, Up, AlreadyApplied, Same, Reading
  <2>3. CASE Fill(l)
    <3>1. run'[l].pc = "check" /\ Same(l) /\ Others(l) BY <2>3, MoveFields DEF Fill, Pcs, Working
    <3>2. stage[Up(l)] = 0 BY <1>4, <2>3 DEF Fill, LoadOK
    <3>3. stage'[Up(l)] = IF run[l].applied THEN 0 ELSE 1 BY <1>5, <2>3, <3>2 DEF Fill
    <3>. QED
      BY <1>4, <2>3, <3>1, <3>3
      DEF Fill, ReadOK, LoadOK, MergeOK, At, Up, AlreadyApplied, Same, Reading
  <2>4. CASE Check(l)
    <3>1. PICK pc \in {"merge", "swap"} : /\ GoTo(l, pc)
                                          /\ pc = "swap" => ~(ModeOf[Up(l)] = "upsert" /\ run[l].found)
      BY <2>4 DEF Check
    <3>2. run'[l].pc = pc /\ Same(l) /\ Others(l) BY <3>1, MoveFields DEF Pcs, Working
    <3>3. UNCHANGED <<target, marker, stage>> /\ run[l].pc = "check" BY <2>4 DEF Check, At
    <3>4. ReadOK(l)' /\ LoadOK(l)'
      BY <1>4, <3>2, <3>3 DEF ReadOK, LoadOK, At, Up, AlreadyApplied, Same, Reading
    <3>5. MergeOK(l)' BY <3>1, <3>2 DEF MergeOK, FullSwap, At, Up, Same
    <3>. QED BY <3>2, <3>4, <3>5
  <2>5. CASE Merge(l)
    <3>1. run'[l] = [run[l] EXCEPT !.pc = "swap", !.merged = Merged(Up(l))] /\ Others(l)
      BY <1>5, <2>5 DEF Merge, Others
    <3>2. /\ run'[l].pc = "swap" /\ run'[l].up = run[l].up /\ run'[l].found = run[l].found
          /\ run'[l].applied = run[l].applied /\ run'[l].merged = Merged(Up(l))
      BY <1>5, <3>1 DEF Run
    <3>3. UNCHANGED <<target, marker, stage>> /\ run[l].pc = "merge" BY <2>5 DEF Merge, At
    <3>. QED BY <1>4, <3>1, <3>2, <3>3
            DEF ReadOK, LoadOK, MergeOK, At, Up, AlreadyApplied, Reading, Merged
  <2>. QED BY <2>1, <2>2, <2>3, <2>4, <2>5
<1>. QED BY <1>1, <1>2, <1>3, <1>6, Alone

\* The three publications leave each file once, and that of an append with its marker.
LEMMA PublishedRows ==
  ASSUME TypeOK, ReadIsCurrent, StageIsLoad, MergeIsCurrent, MarkedRows, NEW l \in Loops,
         SwapFull(l) \/ SwapMerged(l) \/ Append(l)
  PROVE  MarkedRows'
<1>. DEFINE u == Up(l)
<1>1. ReadOK(l) /\ LoadOK(l) /\ MergeOK(l) BY OneRunOK
<1>2. run[l].pc = "swap" BY DEF SwapFull, SwapMerged, Append, At
<1>3. /\ u \in Uploads /\ target.rows \in [Uploads -> Nat] /\ None \notin Nat
      /\ run[l].applied \in BOOLEAN
  BY <1>2, RunFacts, TableImportAssumption DEF TypeOK, Copies, Up, RunsOK, Run
<1>. HIDE DEF u
<1>4. target'.exists BY DEF SwapFull, SwapMerged, Append, Publish
<1>5. marker \subseteq marker' /\ (ModeOf[u] = "append" => u \in marker' \/ SwapMerged(l))
  BY DEF SwapFull, SwapMerged, Append, MarkedBy, u
<1>6. CASE SwapFull(l)
  <2>1. target'.rows = Only(u, stage[u]) BY <1>6 DEF SwapFull, Publish, u
  <2>2. stage[u] \in {0, 1} BY <1>1, <1>2, <1>3, <1>6 DEF SwapFull, Swappable, LoadOK, u
  <2>3. \A v \in Uploads : target'.rows[v] > 0 => v = u /\ target'.rows[v] = 1
    BY <1>3, <2>1, <2>2 DEF Only, NoCopies
  <2>4. ModeOf[u] = "append" => u \in marker' BY <1>6 DEF SwapFull, MarkedBy, u
  <2>. QED BY <1>4, <2>3, <2>4 DEF MarkedRows
<1>7. CASE SwapMerged(l)
  <2>1. target'.rows = Merged(u) /\ ModeOf[u] = "upsert"
    BY <1>1, <1>7 DEF SwapMerged, Publish, MergeOK, u
  <2>2. target'.rows[u] = 1 /\ \A v \in Uploads \ {u} : target'.rows[v] = target.rows[v]
    BY <1>3, <2>1 DEF Merged
  <2>. QED BY <1>4, <1>5, <2>1, <2>2 DEF MarkedRows
<1>8. CASE Append(l)
  <2>1. target'.rows = [target.rows EXCEPT ![u] = @ + stage[u]] /\ ModeOf[u] = "append"
    BY <1>8 DEF Append, Publish, u
  <2>2. target.exists BY <1>1, <1>2, <1>8 DEF Append, Swappable, FullSwap, u
  <2>3. run[l].applied <=> u \in marker
    BY <1>1, <1>2, <1>3, <2>1, <2>2 DEF ReadOK, AlreadyApplied, Reading, u
  <2>4. stage[u] = IF run[l].applied THEN 0 ELSE 1
    BY <1>1, <1>2, <1>8 DEF Append, Swappable, LoadOK, u
  <2>5. ~run[l].applied => target.rows[u] = 0 BY <1>3, <2>1, <2>3 DEF MarkedRows
  <2>6. target'.rows[u] > 0 => target'.rows[u] = 1
    BY <1>3, <2>1, <2>4, <2>5 DEF MarkedRows
  <2>7. \A v \in Uploads \ {u} : target'.rows[v] = target.rows[v] BY <1>3, <2>1
  <2>8. u \in marker' BY <1>8, <2>1 DEF Append, MarkedBy, u
  <2>. QED BY <1>4, <1>5, <2>6, <2>7, <2>8 DEF MarkedRows
<1>. QED BY <1>6, <1>7, <1>8

LEMMA PublishStep ==
  ASSUME TypeOK, LockInv, DataInv, [Next]_vars, NEW l \in Loops,
         SwapFull(l) \/ SwapMerged(l) \/ Append(l)
  PROVE  DataInv'
<1>. SUFFICES ASSUME Undisturbed' PROVE ReadIsCurrent' /\ StageIsLoad' /\ MergeIsCurrent' /\ MarkedRows'
  BY DEF DataInv
<1>1. Undisturbed BY UndisturbedBefore
<1>2. MarkedRows' BY <1>1, PublishedRows DEF DataInv
<1>3. Holds(l) BY DEF SwapFull, SwapMerged, Append, At, Holds, Working
<1>4. run'[l].pc = "count" /\ Others(l)
  <2>1. run \in [Loops -> Run] /\ run[l] \in Run BY DEF TypeOK, RunsOK
  <2>2. run'[l] = [run[l] EXCEPT !.pc = "count", !.merged = NoCopies] /\ Others(l)
    BY <2>1 DEF SwapFull, SwapMerged, Append, Publish, Others
  <2>. QED BY <2>1, <2>2 DEF Run
<1>5. ReadOK(l)' /\ LoadOK(l)' /\ MergeOK(l)' BY <1>4 DEF ReadOK, LoadOK, MergeOK, Reading, At
<1>. QED BY <1>1, <1>2, <1>3, <1>4, <1>5, Alone

\* The staging table that is dropped may be that of another run of the upload.
LEMMA CleanupStep ==
  ASSUME TypeOK, DataInv, [Next]_vars, NEW l \in Loops, Cleanup(l)
  PROVE  DataInv'
<1>1. Undisturbed' => Undisturbed BY UndisturbedBefore
<1>2. run'[l].pc = "fail" /\ Others(l) BY MoveFields DEF Cleanup, Pcs
<1>3. UNCHANGED <<target, marker>> BY DEF Cleanup
<1>4. \A u \in Uploads : stage'[u] = stage[u] \/ stage'[u] = None BY DEF Cleanup, TypeOK
<1>5. \A m \in Loops : run[m].pc \in Reading => Up(m) \in Uploads
  BY RunFacts DEF TypeOK, Reading, Up
<1>6. ReadIsCurrent => ReadIsCurrent'
  BY <1>2, <1>3 DEF ReadIsCurrent, Others, AlreadyApplied, Up
<1>7. StageIsLoad => StageIsLoad'
  BY <1>2, <1>4, <1>5 DEF StageIsLoad, Others, At, Up, Reading
<1>8. MergeIsCurrent => MergeIsCurrent'
  BY <1>2, <1>3 DEF MergeIsCurrent, Others, At, Up, FullSwap, Merged
<1>9. MarkedRows => MarkedRows' BY <1>3 DEF MarkedRows
<1>. QED BY <1>1, <1>6, <1>7, <1>8, <1>9 DEF DataInv

LEMMA DataStep == ASSUME TypeOK, LockInv, DataInv, [Next]_vars PROVE DataInv'
<1>1. ASSUME NEW l \in Loops, LockNext(l) PROVE DataInv' BY <1>1, LockDataCalm, DataCalmStep
<1>2. ASSUME NEW l \in Loops, ImportNext(l) PROVE DataInv'
  BY <1>2, LoadStep, PublishStep, ImportDataCalm, DataCalmStep DEF ImportNext
<1>3. ASSUME NEW l \in Loops, EndNext(l) PROVE DataInv'
  BY <1>3, CleanupStep, EndDataCalm, DataCalmStep
<1>4. CASE \/ \E l \in Loops, u \in Uploads : Start(l, u) \/ Skip(l, u)
           \/ LeaseAges
           \/ \E u \in Uploads : RecoverJob(u) \/ Retry(u)
           \/ UNCHANGED vars
  BY <1>4, OtherDataCalm, DataCalmStep
<1>. QED BY <1>1, <1>2, <1>3, <1>4 DEF Next

------------------------------------------------------------------------------
(* Theorems                                                                 *)

LEMMA IInvParts == IInv <=> OwnersOK /\ LockInv /\ DataInv
BY DEF IInv, LockInv, DataInv

\* The inductive invariant: the queue and the lock say truly who runs what and
\* who works on the table, and what the worker has read of the table still holds.
THEOREM InvCorrect == Spec => []IInv
<1>1. Init => LockInv /\ DataInv
  <2>. SUFFICES ASSUME Init PROVE LockInv /\ DataInv OBVIOUS
  <2>1. \A l \in Loops : run[l].pc = "idle" /\ run[l].lost = "no" /\ ~run[l].gone
    BY DEF Init, NoRun
  <2>2. LockInv
    BY <2>1, TableImportAssumption
       DEF Init, LockInv, LockOfWorker, HolderOwnsLock, Holds, At, Working
  <2>3. MarkedRows BY DEF Init, MarkedRows, NoCopies
  <2>4. ReadIsCurrent /\ StageIsLoad /\ MergeIsCurrent
    BY <2>1 DEF ReadIsCurrent, StageIsLoad, MergeIsCurrent, At
  <2>. QED BY <2>2, <2>3, <2>4 DEF DataInv
<1>2. TypeOK /\ LockInv /\ DataInv /\ [Next]_vars => LockInv' /\ DataInv' BY LockStep, DataStep
<1>3. Spec => [](OwnersOK /\ LockInv /\ DataInv) BY <1>1, <1>2, TypesAndOwners, PTL DEF Spec
<1>4. OwnersOK /\ LockInv /\ DataInv => IInv BY IInvParts
<1>. QED BY <1>3, <1>4, PTL

\* withImportLock: while no lease of a live import expires, two imports never
\* work on the table at once.
THEOREM ImportersExclude == Spec => []OneImporter
<1>1. IInv => OneImporter BY DEF IInv, HolderOwnsLock, OneImporter
<1>. QED BY <1>1, InvCorrect, PTL

\* The marker of an append: its file is in the table at most once, however many
\* runs, crashes, takeovers and retries there are of it.
THEOREM AppendsAreExactlyOnce == Spec => []ExactlyOnce
<1>1. TypeOK /\ IInv => ExactlyOnce
  <2>. SUFFICES ASSUME TypeOK, IInv, Undisturbed, NEW u \in Uploads PROVE target.rows[u] <= 1
    BY DEF ExactlyOnce
  <2>1. target.rows[u] \in Nat BY DEF TypeOK, Copies
  <2>2. target.rows[u] > 0 => target.rows[u] = 1 BY DEF IInv, MarkedRows
  <2>. QED BY <2>1, <2>2
<1>. QED BY <1>1, InvCorrect, TypeCorrect, PTL

\* A merge and an append keep what other imports have published: only a
\* replacement of an existing table takes rows away.
LEMMA PublishKeeps ==
  ASSUME TypeOK, IInv, Undisturbed, NEW l \in Loops, SwapFull(l) \/ SwapMerged(l) \/ Append(l),
         NEW v \in Uploads, target'.rows[v] < target.rows[v]
  PROVE  Replaces(l)
<1>. DEFINE u == Up(l)
<1>1. ReadOK(l) /\ LoadOK(l) /\ MergeOK(l) /\ MarkedRows BY OneRunOK DEF IInv
<1>2. run[l].pc = "swap" BY DEF SwapFull, SwapMerged, Append, At
<1>3. /\ run \in [Loops -> Run] /\ run[l] \in Run /\ u \in Uploads
      /\ target.rows \in [Uploads -> Nat] /\ stage \in [Uploads -> Nat \cup {None}]
  BY <1>2, RunFacts DEF TypeOK, Copies, Up, RunsOK
<1>. HIDE DEF u
<1>4. CASE SwapFull(l)
  <2>1. run'[l] = [run[l] EXCEPT !.pc = "count", !.merged = NoCopies]
    BY <1>3, <1>4 DEF SwapFull, Publish
  <2>2. run'[l].pc = "count" BY <1>3, <2>1 DEF Run
  <2>3. target'.rows = Only(u, stage[u]) /\ stage[u] # None
    BY <1>4 DEF SwapFull, Swappable, Publish, u
  <2>4. target'.rows[v] \in Nat BY <1>3, <2>3 DEF Only, NoCopies
  <2>5. target.rows[v] > 0 BY <1>3, <2>4
  <2>6. run[l].found BY <1>1, <1>2, <2>5 DEF ReadOK, MarkedRows, Reading
  <2>. QED BY <1>4, <2>2, <2>6 DEF SwapFull, Replaces
<1>5. CASE SwapMerged(l)
  <2>1. target'.rows = Merged(u) BY <1>1, <1>5 DEF SwapMerged, Publish, MergeOK, u
  <2>2. v = u /\ target.rows[v] > 1 BY <1>3, <2>1 DEF Merged
  <2>. QED BY <1>1, <1>3, <2>2 DEF MarkedRows
<1>6. CASE Append(l)
  <2>1. target'.rows = [target.rows EXCEPT ![u] = @ + stage[u]] /\ stage[u] \in Nat
    BY <1>3, <1>6 DEF Append, Swappable, Publish, u
  <2>. QED BY <1>3, <2>1
<1>. QED BY <1>4, <1>5, <1>6

THEOREM OthersKeepTheirRows == Spec => OnlyReplaceRemoves
<1>1. ASSUME TypeOK, IInv, [Next]_vars, Undisturbed, NEW v \in Uploads, target'.rows[v] < target.rows[v]
      PROVE  \E l \in Loops : Replaces(l)
  <2>1. target.rows[v] \in Nat BY <1>1 DEF TypeOK, Copies
  <2>2. target' # target BY <1>1, <2>1
  <2>3. \E l \in Loops : SwapFull(l) \/ SwapMerged(l) \/ Append(l)
    BY ZenonT(60), <1>1, <2>2
       DEF Next, LockNext, ImportNext, EndNext, Start, Skip, TryAcquire, WaitTimeout, Outage,
           Renew, Release,
           ReleaseFails, LeaseAges, Look, OpenStage, Fill, Check, CheckThrows, Merge, Refused,
           Count, Meta, Throw,
           Cleanup, Complete, Fail, Crash, Terminate, Quit, QuitLate, Exit, RecoverJob, Retry,
           vars
  <2>. QED BY <1>1, <2>3, PublishKeeps
<1>2. TypeOK /\ IInv /\ [Next]_vars =>
        [Undisturbed => RemovedByReplace]_vars
  BY <1>1 DEF RemovedByReplace
<1>. QED BY <1>2, InvCorrect, TypeCorrect, PTL DEF Spec, OnlyReplaceRemoves
------------------------------------------------------------------------------
(* What is reported: COMPLETED uploads and the count of the catalog          *)

\* A run that may still report its upload COMPLETED.
Early == {"wait"} \cup (Working \ {"release"})

Publishes(m) == SwapFull(m) \/ SwapMerged(m) \/ Append(m)

\* What a step makes of run m: it is left where it is, loses its job, goes on,
\* ends or starts.
Stays(m) ==
  /\ run'[m].pc = run[m].pc /\ run'[m].up = run[m].up /\ run'[m].counted = run[m].counted
  /\ run'[m].mine = run[m].mine \/ faults'.retry # 0 \/ faults'.late # 0

GoesOn(m) ==
  /\ run[m].pc # "idle" /\ run'[m].up = run[m].up /\ run'[m].mine = run[m].mine
  /\ run'[m].pc \in Early => run[m].pc \in Early
  /\ run'[m].pc = "count" => Publishes(m)
  /\ run'[m].pc = "meta" => run[m].pc = "count" /\ run'[m].counted = target.rows /\ target' = target

Starts(m) ==
  /\ run'[m].mine /\ run'[m].pc = "wait"
  /\ run'[m].up \in Uploads /\ upload[run'[m].up] = "open" /\ upload' = upload

RunStep(m) == Stays(m) \/ GoesOn(m) \/ run'[m].pc = "idle" \/ Starts(m)

LEMMA RaisedRun ==
  ASSUME TypeOK, NEW l \in Loops, NEW pc \in Pcs, run[l].pc # "idle", pc # "count" /\ pc # "meta",
         pc \in Early => run[l].pc \in Early,
         GoTo(l, pc) \/ \E e \in {"none", "retryable", "final"} : RaiseTo(l, pc, e)
  PROVE  GoesOn(l) /\ Others(l)
<1>1. RunsOK' /\ Carries BY Moving DEF TypeOK
<1>2. run'[l].pc = pc /\ Others(l) BY MoveFields
<1>. QED BY <1>1, <1>2 DEF Carries, GoesOn

LEMMA UnmovedRuns ==
  ASSUME TypeOK, NEW l \in Loops, Others(l), RunStep(l)
  PROVE  \A m \in Loops : RunStep(m)
BY DEF Others, RunStep, Stays

LEMMA LockRunStep ==
  ASSUME TypeOK, LockInv, [Next]_vars, NEW l \in Loops, LockNext(l)
  PROVE  \A m \in Loops : RunStep(m)
<1>1. run \in [Loops -> Run] /\ run[l] \in Run BY DEF TypeOK, RunsOK
<1>2. CASE TryAcquire(l)
  <2>1. GoesOn(l) /\ Others(l)
    BY <1>2, RaisedRun DEF TryAcquire, At, Pcs, Working, Early
  <2>. QED BY <2>1, UnmovedRuns DEF RunStep
<1>3. CASE WaitTimeout(l) \/ ReleaseFails(l)
  <2>1. GoesOn(l) /\ Others(l)
    BY <1>3, RaisedRun DEF WaitTimeout, ReleaseFails, At, Pcs, Working, Early
  <2>. QED BY <2>1, UnmovedRuns DEF RunStep
<1>4. CASE Outage(l)
  <2>1. run'[l] = [run[l] EXCEPT !.ok = FALSE] /\ Others(l) BY <1>1, <1>4 DEF Outage, Others
  <2>2. Stays(l) BY <1>1, <2>1 DEF Run, Stays
  <2>. QED BY <2>1, <2>2, UnmovedRuns DEF RunStep
<1>5. CASE Renew(l)
  <2>1. PICK lost : run' = [run EXCEPT ![l] = [run[l] EXCEPT !.ok = TRUE, !.lost = lost]]
    <3>1. CASE lock.holder = l
      <4>1. run' = [run EXCEPT ![l] = [run[l] EXCEPT !.ok = TRUE,
                      !.lost = IF run[l].lost = "expired" THEN "no" ELSE run[l].lost]]
        BY <1>5, <3>1 DEF Renew
      <4>. QED BY <4>1
    <3>2. CASE lock.holder # l BY <1>5, <3>2 DEF Renew
    <3>. QED BY <3>1, <3>2
  <2>2. run'[l] = [run[l] EXCEPT !.ok = TRUE, !.lost = lost] /\ Others(l)
    BY <1>1, <2>1 DEF Others
  <2>3. Stays(l) BY <1>1, <2>2 DEF Run, Stays
  <2>. QED BY <2>2, <2>3, UnmovedRuns DEF RunStep
<1>6. CASE Release(l)
  <2>1. run'[l] = [run[l] EXCEPT !.pc = AfterRelease(l), !.ok = TRUE, !.lost = "no"] /\ Others(l)
    BY <1>1, <1>6 DEF Release, Others
  <2>2. run'[l].pc = AfterRelease(l) /\ run'[l].up = run[l].up /\ run'[l].mine = run[l].mine
    BY <1>1, <2>1 DEF Run
  <2>3. GoesOn(l) BY <1>6, <2>2 DEF GoesOn, AfterRelease, Release, At, Early, Working
  <2>. QED BY <2>1, <2>3, UnmovedRuns DEF RunStep
<1>. QED BY <1>2, <1>3, <1>4, <1>5, <1>6 DEF LockNext

LEMMA ImportRunStep ==
  ASSUME TypeOK, NEW l \in Loops, ImportNext(l)
  PROVE  \A m \in Loops : RunStep(m)
<1>1. run \in [Loops -> Run] /\ run[l] \in Run BY DEF TypeOK, RunsOK
<1>2. CASE OpenStage(l) \/ Fill(l) \/ Check(l) \/ CheckThrows(l) \/ Refused(l) \/ Throw(l)
  <2>1. GoesOn(l) /\ Others(l)
    BY <1>2, RaisedRun
       DEF OpenStage, Fill, Check, CheckThrows, Refused, Throw, At, Pcs, Working, Early, Holds
  <2>. QED BY <2>1, UnmovedRuns DEF RunStep
<1>3. CASE Meta(l)
  <2>1. GoesOn(l) /\ Others(l) BY <1>3, RaisedRun DEF Meta, At, Pcs, Working, Early
  <2>. QED BY <2>1, UnmovedRuns DEF RunStep
<1>4. CASE Look(l)
  <2>1. run'[l] = [run[l] EXCEPT !.pc = "open", !.found = target.exists, !.applied = AlreadyApplied(Up(l))]
        /\ Others(l)
    BY <1>1, <1>4 DEF Look, Others
  <2>2. run'[l].pc = "open" /\ run'[l].up = run[l].up /\ run'[l].mine = run[l].mine
    BY <1>1, <2>1 DEF Run
  <2>3. GoesOn(l) BY <1>4, <2>2 DEF Look, At, GoesOn, Early, Working
  <2>. QED BY <2>1, <2>3, UnmovedRuns DEF RunStep
<1>5. CASE Merge(l)
  <2>1. run'[l] = [run[l] EXCEPT !.pc = "swap", !.merged = Merged(Up(l))] /\ Others(l)
    BY <1>1, <1>5 DEF Merge, Others
  <2>2. run'[l].pc = "swap" /\ run'[l].up = run[l].up /\ run'[l].mine = run[l].mine
    BY <1>1, <2>1 DEF Run
  <2>3. GoesOn(l) BY <1>5, <2>2 DEF Merge, At, GoesOn, Early, Working
  <2>. QED BY <2>1, <2>3, UnmovedRuns DEF RunStep
<1>6. CASE Publishes(l)
  <2>1. run'[l] = [run[l] EXCEPT !.pc = "count", !.merged = NoCopies] /\ Others(l) /\ run[l].pc = "swap"
    BY <1>1, <1>6 DEF Publishes, SwapFull, SwapMerged, Append, Publish, Others, At
  <2>2. run'[l].pc = "count" /\ run'[l].up = run[l].up /\ run'[l].mine = run[l].mine
    BY <1>1, <2>1 DEF Run
  <2>3. GoesOn(l) BY <1>6, <2>1, <2>2 DEF GoesOn, Early, Working
  <2>. QED BY <2>1, <2>3, UnmovedRuns DEF RunStep
<1>7. CASE Count(l) /\ RaiseTo(l, "release", "retryable")
  <2>1. GoesOn(l) /\ Others(l) BY <1>7, RaisedRun DEF Count, At, Pcs, Working, Early
  <2>. QED BY <2>1, UnmovedRuns DEF RunStep
<1>8. CASE Count(l) /\ run' = [run EXCEPT ![l].pc = "meta", ![l].counted = Counted(Up(l))]
  <2>1. run'[l] = [run[l] EXCEPT !.pc = "meta", !.counted = Counted(Up(l))] /\ Others(l)
    BY <1>1, <1>8 DEF Others
  <2>2. /\ run'[l].pc = "meta" /\ run'[l].up = run[l].up /\ run'[l].mine = run[l].mine
        /\ run'[l].counted = target.rows
    BY <1>1, <2>1 DEF Run, Counted
  <2>3. run[l].pc = "count" /\ target' = target BY <1>8 DEF Count, At
  <2>4. GoesOn(l) BY <2>2, <2>3 DEF GoesOn, Early, Working
  <2>. QED BY <2>1, <2>4, UnmovedRuns DEF RunStep
<1>9. Count(l) => \/ RaiseTo(l, "release", "retryable")
                  \/ run' = [run EXCEPT ![l].pc = "meta", ![l].counted = Counted(Up(l))]
  BY DEF Count
<1>. QED BY <1>2, <1>3, <1>4, <1>5, <1>6, <1>7, <1>8, <1>9 DEF ImportNext, Publishes

LEMMA EndRunStep ==
  ASSUME TypeOK, LockInv, NEW l \in Loops, EndNext(l)
  PROVE  \A m \in Loops : RunStep(m)
<1>1. run \in [Loops -> Run] /\ run[l] \in Run BY DEF TypeOK, RunsOK
<1>2. CASE Cleanup(l)
  <2>1. GoesOn(l) /\ Others(l) BY <1>2, RaisedRun DEF Cleanup, At, Pcs, Working, Early
  <2>. QED BY <2>1, UnmovedRuns DEF RunStep
<1>3. CASE Complete(l) \/ Fail(l) \/ Crash(l) \/ Quit(l) \/ Exit(l)
  <2>1. run'[l] = NoRun /\ Others(l)
    BY <1>1, <1>3 DEF Complete, Fail, Crash, Quit, Exit, Others
  <2>2. run'[l].pc = "idle" BY <2>1 DEF NoRun
  <2>. QED BY <2>1, <2>2, UnmovedRuns DEF RunStep
<1>4. CASE Terminate(l)
  <2>1. run'[l] = [run[l] EXCEPT !.leaving = TRUE] /\ Others(l)
    BY <1>1, <1>4 DEF Terminate, Others
  <2>2. Stays(l) BY <1>1, <2>1 DEF Run, Stays
  <2>. QED BY <2>1, <2>2, UnmovedRuns DEF RunStep
<1>5. CASE QuitLate(l)
  <2>1. run'[l] = [run[l] EXCEPT !.gone = TRUE, !.mine = FALSE] /\ Others(l)
    BY <1>1, <1>5 DEF QuitLate, Others
  <2>2. faults'.late # 0 BY <1>5, QuittingLock
  <2>3. Stays(l) BY <1>1, <2>1, <2>2 DEF Run, Stays
  <2>. QED BY <2>1, <2>3, UnmovedRuns DEF RunStep
<1>. QED BY <1>2, <1>3, <1>4, <1>5 DEF EndNext

LEMMA OtherRunStep ==
  ASSUME TypeOK,
         \/ \E l \in Loops, u \in Uploads : Start(l, u) \/ Skip(l, u)
         \/ LeaseAges
         \/ \E u \in Uploads : RecoverJob(u) \/ Retry(u)
         \/ UNCHANGED vars
  PROVE  \A m \in Loops : RunStep(m)
<1>1. run \in [Loops -> Run] /\ \A l \in Loops : run[l] \in Run BY DEF TypeOK, RunsOK
<1>2. ASSUME NEW l \in Loops, NEW u \in Uploads, Start(l, u) PROVE \A m \in Loops : RunStep(m)
  <2>1. run'[l].pc = "wait" /\ run'[l].up = u /\ run'[l].mine /\ Others(l)
    BY <1>2, StartRuns DEF Others
  <2>2. Starts(l) BY <1>2, <2>1 DEF Start, Starts
  <2>. QED BY <2>1, <2>2, UnmovedRuns DEF RunStep
<1>3. CASE run' = run BY <1>3 DEF RunStep, Stays
<1>4. CASE LeaseAges /\ lock.holder \in Loops
  <2>1. PICK lost : run' = [run EXCEPT ![lock.holder].lost = lost] BY <1>4 DEF LeaseAges
  <2>2. run'[lock.holder] = [run[lock.holder] EXCEPT !.lost = lost] /\ Others(lock.holder)
    BY <1>1, <1>4, <2>1 DEF Others
  <2>3. Stays(lock.holder) BY <1>1, <1>4, <2>2 DEF Run, Stays
  <2>. QED BY <1>4, <2>2, <2>3, UnmovedRuns DEF RunStep
<1>5. ASSUME NEW u \in Uploads, Retry(u) PROVE \A m \in Loops : RunStep(m)
  <2>1. \A m \in Loops : run'[m] = run[m] \/ run'[m] = [run[m] EXCEPT !.mine = FALSE]
    BY <1>5, RetryRuns
  <2>2. faults'.retry # 0 BY <1>5 DEF Retry, BumpFault, TypeOK
  <2>3. \A m \in Loops : LET r == [run[m] EXCEPT !.mine = FALSE] IN
          r.pc = run[m].pc /\ r.up = run[m].up /\ r.counted = run[m].counted
    BY <1>1 DEF Run
  <2>. QED BY <2>1, <2>2, <2>3 DEF RunStep, Stays
<1>. QED BY <1>2, <1>3, <1>4, <1>5 DEF Skip, LeaseAges, RecoverJob, vars

LEMMA EveryRunStep ==
  ASSUME TypeOK, LockInv, [Next]_vars
  PROVE  \A m \in Loops : RunStep(m)
<1>1. ASSUME NEW l \in Loops, LockNext(l) PROVE \A m \in Loops : RunStep(m) BY <1>1, LockRunStep
<1>2. ASSUME NEW l \in Loops, ImportNext(l) PROVE \A m \in Loops : RunStep(m)
  BY <1>2, ImportRunStep
<1>3. ASSUME NEW l \in Loops, EndNext(l) PROVE \A m \in Loops : RunStep(m) BY <1>3, EndRunStep
<1>. QED BY <1>1, <1>2, <1>3, OtherRunStep DEF Next

\* The file is in the table, or a replacement came after it.
Present(u) ==
  \/ target.rows[u] = 1
  \/ \E v \in Uploads \ {u} : ModeOf[v] = "replace" /\ target.rows[v] > 0

\* A publication leaves its file in the table, but for an append that finds
\* its marker and changes nothing; what was in the table stays or is replaced.
LEMMA PublishedFile ==
  ASSUME TypeOK, ReadIsCurrent, StageIsLoad, MergeIsCurrent, MarkedRows,
         NEW l \in Loops, Publishes(l)
  PROVE  /\ Up(l) \in Uploads
         /\ \/ target'.rows[Up(l)] = 1
            \/ Up(l) \in marker /\ target'.rows = target.rows
         /\ \A v \in Uploads : Present(v) => Present(v)'
         /\ marker' \subseteq marker \cup {Up(l)}
<1>. DEFINE u == Up(l)
<1>1. ReadOK(l) /\ LoadOK(l) /\ MergeOK(l) BY OneRunOK
<1>2. run[l].pc = "swap" BY DEF Publishes, SwapFull, SwapMerged, Append, At
<1>3. u \in Uploads /\ target.rows \in [Uploads -> Nat] /\ run[l].applied \in BOOLEAN
  BY <1>2, RunFacts DEF TypeOK, Copies, Up, RunsOK, Run
<1>m. marker' \subseteq marker \cup {u}
  BY DEF Publishes, SwapFull, SwapMerged, Append, MarkedBy, u
<1>. HIDE DEF u
<1>4. CASE SwapFull(l)
  <2>1. target'.rows = Only(u, stage[u]) /\ (ModeOf[u] = "replace" \/ ~run[l].found)
    BY <1>4 DEF SwapFull, Publish, FullSwap, u
  <2>2. ~run[l].applied
    BY <1>1, <1>2, <1>3, <2>1 DEF ReadOK, AlreadyApplied, Reading, u
  <2>3. stage[u] = 1 BY <1>1, <1>2, <1>4, <2>2 DEF SwapFull, Swappable, LoadOK, u
  <2>4. target'.rows[u] = 1 BY <1>3, <2>1, <2>3 DEF Only, NoCopies
  <2>5. ASSUME NEW v \in Uploads, Present(v) PROVE Present(v)'
    <3>1. CASE v = u BY <2>4, <3>1 DEF Present
    <3>2. CASE v # u /\ ModeOf[u] = "replace" BY <1>3, <2>4, <3>2 DEF Present
    <3>3. CASE ~run[l].found
      <4>1. ~target.exists BY <1>1, <1>2, <3>3 DEF ReadOK, Reading
      <4>2. \A w \in Uploads : target.rows[w] = 0 BY <1>3, <4>1 DEF MarkedRows
      <4>. QED BY <2>5, <4>2 DEF Present
    <3>. QED BY <2>1, <3>1, <3>2, <3>3
  <2>. QED BY <1>3, <1>m, <2>4, <2>5 DEF u
<1>5. CASE SwapMerged(l)
  <2>1. target'.rows = Merged(u) /\ ModeOf[u] = "upsert"
    BY <1>1, <1>5 DEF SwapMerged, Publish, MergeOK, u
  <2>2. target'.rows[u] = 1 /\ \A v \in Uploads \ {u} : target'.rows[v] = target.rows[v]
    BY <1>3, <2>1 DEF Merged
  <2>3. \A v \in Uploads : Present(v) => Present(v)' BY <2>1, <2>2 DEF Present
  <2>. QED BY <1>3, <1>m, <2>2, <2>3 DEF u
<1>6. CASE Append(l)
  <2>1. target'.rows = [target.rows EXCEPT ![u] = @ + stage[u]] /\ ModeOf[u] = "append"
    BY <1>6 DEF Append, Publish, u
  <2>2. target.exists BY <1>1, <1>2, <1>6 DEF Append, Swappable, FullSwap, u
  <2>3. run[l].applied <=> u \in marker
    BY <1>1, <1>2, <1>3, <2>1, <2>2 DEF ReadOK, AlreadyApplied, Reading, u
  <2>4. stage[u] = IF run[l].applied THEN 0 ELSE 1
    BY <1>1, <1>2, <1>6 DEF Append, Swappable, LoadOK, u
  <2>5. CASE run[l].applied
    <3>1. stage[u] = 0 BY <2>4, <2>5
    <3>2. target'.rows = target.rows BY <1>3, <2>1, <3>1
    <3>. QED BY <1>3, <1>m, <2>3, <2>5, <3>2 DEF u, Present
  <2>6. CASE ~run[l].applied
    <3>1. target.rows[u] = 0 BY <1>3, <2>1, <2>3, <2>6 DEF MarkedRows
    <3>2. target'.rows[u] = 1 /\ \A v \in Uploads \ {u} : target'.rows[v] = target.rows[v]
      BY <1>3, <2>1, <2>4, <2>6, <3>1
    <3>3. \A v \in Uploads : Present(v) => Present(v)' BY <2>1, <3>2 DEF Present
    <3>. QED BY <1>3, <1>m, <3>2, <3>3 DEF u
  <2>. QED BY <2>5, <2>6
<1>. QED BY <1>4, <1>5, <1>6 DEF Publishes

\* Only a publication writes the table and its marker.
LEMMA TableWrites ==
  ASSUME [Next]_vars
  PROVE  UNCHANGED <<target, marker>> \/ \E l \in Loops : Publishes(l)
<1>1. ASSUME NEW l \in Loops, ImportNext(l), ~Publishes(l) PROVE UNCHANGED <<target, marker>>
  BY <1>1
  DEF ImportNext, Look, OpenStage, Fill, Check, CheckThrows, Merge, Refused, Count, Meta, Throw,
              Publishes
<1>2. ASSUME NEW l \in Loops, LockNext(l) \/ EndNext(l) PROVE UNCHANGED <<target, marker>>
  BY <1>2 DEF LockNext, TryAcquire, WaitTimeout, Outage, Renew, Release, ReleaseFails,
              EndNext, Cleanup, Complete, Fail, Crash, Terminate, Quit, QuitLate, Exit
<1>3. CASE \/ \E l \in Loops, u \in Uploads : Start(l, u) \/ Skip(l, u)
           \/ LeaseAges
           \/ \E u \in Uploads : RecoverJob(u) \/ Retry(u)
           \/ UNCHANGED vars
  BY <1>3 DEF Start, Skip, LeaseAges, RecoverJob, Retry, vars
<1>. QED BY <1>1, <1>2, <1>3 DEF Next

\* Only a run reports its own upload COMPLETED, with the count that it made.
\* Anyone else who settles it finds no run of the upload's job.
LEMMA UploadWrites ==
  ASSUME TypeOK, [Next]_vars
  PROVE  \/ /\ UNCHANGED <<upload, catalog>>
         \/ \E l \in Loops : /\ Meta(l) /\ catalog' = run[l].counted
                             /\ upload' = [upload EXCEPT ![Up(l)] = "COMPLETED"]
         \/ /\ catalog' = catalog
            /\ \E u \in Uploads :
                 /\ upload[u] = "open" /\ upload' = [upload EXCEPT ![u] = "FAILED"]
                 /\ \/ \E l \in Loops : Fail(l) /\ Up(l) = u
                    \/ ~\E l \in Loops : Up(l) = u /\ run[l].mine
         \/ /\ catalog' = catalog /\ faults'.retry # 0
            /\ \A u \in Uploads : upload'[u] \in {upload[u], "open"}
<1>0. \A l \in Loops : ~At(l, "idle") => Up(l) \in Uploads BY RunFacts DEF TypeOK, At, Up
<1>1. ASSUME NEW l \in Loops, Fail(l), upload' # upload
      PROVE  /\ catalog' = catalog /\ Up(l) \in Uploads
             /\ upload[Up(l)] = "open" /\ upload' = [upload EXCEPT ![Up(l)] = "FAILED"]
  <2>1. Up(l) \in Uploads BY <1>0, <1>1 DEF Fail, At
  <2>2. CASE NoRetry(l) /\ upload[Up(l)] = "open" BY <1>1, <2>1, <2>2 DEF Fail
  <2>3. CASE ~(NoRetry(l) /\ upload[Up(l)] = "open") BY <1>1, <2>3 DEF Fail, TypeOK
  <2>. QED BY <2>2, <2>3
<1>2. ASSUME NEW u \in Uploads, RecoverJob(u), upload' # upload
      PROVE  /\ catalog' = catalog
             /\ upload[u] = "open" /\ upload' = [upload EXCEPT ![u] = "FAILED"]
             /\ ~\E l \in Loops : Up(l) = u /\ run[l].mine
  <2>1. upload' = [upload EXCEPT ![u] = IF upload[u] = "open" THEN "FAILED" ELSE upload[u]]
    BY <1>2 DEF RecoverJob
  <2>2. upload[u] = "open" BY <1>2, <2>1 DEF TypeOK
  <2>. QED BY <1>2, <2>1, <2>2 DEF RecoverJob
<1>3. ASSUME NEW u \in Uploads, Retry(u)
      PROVE  /\ catalog' = catalog /\ faults'.retry # 0
             /\ \A v \in Uploads : upload'[v] \in {upload[v], "open"}
  BY <1>3 DEF Retry, BumpFault, TypeOK
<1>4. ASSUME NEW l \in Loops, Meta(l)
      PROVE  catalog' = run[l].counted /\ upload' = [upload EXCEPT ![Up(l)] = "COMPLETED"]
  BY <1>4 DEF Meta
<1>5. CASE UNCHANGED <<upload, catalog>> BY <1>5
<1>6. ASSUME NEW l \in Loops, LockNext(l) PROVE UNCHANGED <<upload, catalog>>
  BY <1>6 DEF LockNext, TryAcquire, WaitTimeout, Outage, Renew, Release, ReleaseFails
<1>7. ASSUME NEW l \in Loops, ImportNext(l), ~Meta(l) PROVE UNCHANGED <<upload, catalog>>
  BY <1>7
  DEF ImportNext, Look, OpenStage, Fill, Check, CheckThrows, Merge, SwapFull, SwapMerged, Append,
              Publish, Refused, Count, Throw
<1>8. ASSUME NEW l \in Loops, EndNext(l), ~Fail(l) PROVE UNCHANGED <<upload, catalog>>
  BY <1>8 DEF EndNext, Cleanup, Complete, Crash, Terminate, Quit, QuitLate, Exit
<1>9. CASE (\E l \in Loops, u \in Uploads : Start(l, u) \/ Skip(l, u)) \/ LeaseAges \/ UNCHANGED vars
  <2>1. UNCHANGED <<upload, catalog>> BY <1>9 DEF Start, Skip, LeaseAges, vars
  <2>. QED BY <2>1
<1>10. ASSUME NEW l \in Loops, Fail(l), upload' = upload PROVE UNCHANGED <<upload, catalog>>
  BY <1>10 DEF Fail
<1>11. ASSUME NEW u \in Uploads, RecoverJob(u), upload' = upload
       PROVE  UNCHANGED <<upload, catalog>>
  BY <1>11 DEF RecoverJob
<1>. QED
  <2>1. CASE \E l \in Loops : LockNext(l) BY <1>5, <1>6, <2>1
  <2>2. CASE \E l \in Loops : ImportNext(l)
    <3>1. PICK l \in Loops : ImportNext(l) BY <2>2
    <3>2. CASE Meta(l) BY <1>4, <3>2
    <3>3. CASE ~Meta(l) BY <1>5, <1>7, <3>1, <3>3
    <3>. QED BY <3>2, <3>3
  <2>3. CASE \E l \in Loops : EndNext(l)
    <3>1. PICK l \in Loops : EndNext(l) BY <2>3
    <3>2. CASE Fail(l) /\ upload' # upload BY <1>1, <3>2
    <3>3. CASE Fail(l) /\ upload' = upload BY <1>5, <1>10, <3>3
    <3>4. CASE ~Fail(l) BY <1>5, <1>8, <3>1, <3>4
    <3>. QED BY <3>2, <3>3, <3>4
  <2>4. CASE \E u \in Uploads : RecoverJob(u)
    <3>1. PICK u \in Uploads : RecoverJob(u) BY <2>4
    <3>2. CASE upload' # upload BY <1>2, <3>1, <3>2
    <3>3. CASE upload' = upload BY <1>5, <1>11, <3>1, <3>3
    <3>. QED BY <3>2, <3>3
  <2>5. CASE \E u \in Uploads : Retry(u) BY <1>3, <2>5
  <2>. QED BY <1>5, <1>9, <2>1, <2>2, <2>3, <2>4, <2>5 DEF Next

\* What has been reported, what has its marker and what is about to be
\* reported is in the table, or has been replaced.
PresentInv ==
  Undisturbed =>
    /\ \A u \in marker : Present(u)
    /\ \A u \in Uploads : upload[u] = "COMPLETED" => Present(u)
    /\ \A l \in Loops : run[l].pc \in {"count", "meta"} => Present(Up(l))

LEMMA PresentStep ==
  ASSUME TypeOK, LockInv, DataInv, PresentInv, [Next]_vars
  PROVE  PresentInv'
<1>. SUFFICES ASSUME Undisturbed'
     PROVE  /\ \A u \in marker' : Present(u)'
            /\ \A u \in Uploads : upload'[u] = "COMPLETED" => Present(u)'
            /\ \A l \in Loops : run'[l].pc \in {"count", "meta"} => Present(Up(l))'
  BY DEF PresentInv
<1>1. Undisturbed BY UndisturbedBefore
<1>2. ReadIsCurrent /\ StageIsLoad /\ MergeIsCurrent /\ MarkedRows BY <1>1 DEF DataInv
<1>3. /\ \A u \in marker : Present(u)
      /\ \A u \in Uploads : upload[u] = "COMPLETED" => Present(u)
      /\ \A l \in Loops : run[l].pc \in {"count", "meta"} => Present(Up(l))
  BY <1>1 DEF PresentInv
<1>4. \A l \in Loops : run[l].pc # "idle" => Up(l) \in Uploads BY RunFacts DEF TypeOK, Up
<1>5. marker \subseteq Uploads BY DEF TypeOK
<1>6. \A l \in Loops : Publishes(l) => Present(Up(l))'
  <2>. SUFFICES ASSUME NEW l \in Loops, Publishes(l) PROVE Present(Up(l))' OBVIOUS
  <2>1. PICK u : u = Up(l) OBVIOUS
  <2>2. u = Up(l)'
    <3>1. RunStep(l) /\ run[l].pc = "swap"
      BY EveryRunStep DEF Publishes, SwapFull, SwapMerged, Append, At
    <3>2. run'[l].pc = "count"
      <4>1. run \in [Loops -> Run] /\ run[l] \in Run BY DEF TypeOK, RunsOK
      <4>2. run'[l] = [run[l] EXCEPT !.pc = "count", !.merged = NoCopies]
        BY <4>1 DEF Publishes, SwapFull, SwapMerged, Append, Publish
      <4>. QED BY <4>1, <4>2 DEF Run
    <3>. QED BY <2>1, <3>1, <3>2 DEF RunStep, Stays, GoesOn, Starts, Up
  <2>3. u \in Uploads /\ (target'.rows[u] = 1 \/ (u \in marker /\ target'.rows = target.rows))
    BY <1>2, <2>1, PublishedFile
  <2>4. Present(u)'
    BY <1>3, <2>3 DEF Present
  <2>. QED BY <2>2, <2>4 DEF Present
<1>7. ASSUME NEW u \in Uploads, Present(u) PROVE Present(u)'
  <2>1. CASE UNCHANGED <<target, marker>> BY <1>7, <2>1 DEF Present
  <2>2. ASSUME NEW l \in Loops, Publishes(l) PROVE Present(u)' BY <1>2, <1>7, <2>2, PublishedFile
  <2>. QED BY <2>1, <2>2, TableWrites
<1>8. ASSUME NEW l \in Loops, run'[l].pc \in {"count", "meta"} PROVE Present(Up(l))'
  <2>1. RunStep(l) BY EveryRunStep
  <2>2. CASE Publishes(l) BY <1>6, <2>2
  <2>3. CASE ~Publishes(l)
    <3>1. run[l].pc \in {"count", "meta"} /\ run'[l].up = run[l].up
      BY <1>8, <2>1, <2>3 DEF RunStep, Stays, GoesOn, Starts
    <3>2. PICK u \in Uploads : u = Up(l) BY <1>4, <3>1
    <3>3. Present(u)' /\ u = run'[l].up BY <1>3, <1>7, <3>1, <3>2 DEF Up
    <3>. QED BY <3>3 DEF Present, Up
  <2>. QED BY <2>2, <2>3
<1>9. ASSUME NEW u \in marker' PROVE Present(u)'
  <2>1. CASE u \in marker BY <1>3, <1>5, <1>7, <2>1
  <2>2. CASE u \notin marker
    <3>1. PICK l \in Loops : Publishes(l) BY <1>9, <2>2, TableWrites
    <3>2. u = Up(l) /\ u \in Uploads /\ target'.rows[u] = 1
      BY <1>2, <1>9, <2>2, <3>1, PublishedFile
    <3>. QED BY <3>2 DEF Present
  <2>. QED BY <2>1, <2>2
<1>10. ASSUME NEW u \in Uploads, upload'[u] = "COMPLETED" PROVE Present(u)'
  <2>1. CASE upload[u] = "COMPLETED" BY <1>3, <1>7, <2>1
  <2>2. CASE upload[u] # "COMPLETED"
    <3>1. PICK l \in Loops : Meta(l) /\ u = Up(l)
      <4>1. upload \in [Uploads -> {"open", "COMPLETED", "FAILED"}] BY DEF TypeOK
      <4>2. PICK l \in Loops : Meta(l) /\ upload' = [upload EXCEPT ![Up(l)] = "COMPLETED"]
        BY <1>10, <2>2, <4>1, UploadWrites
      <4>. QED BY <1>10, <2>2, <4>1, <4>2
    <3>. QED BY <1>3, <1>7, <3>1 DEF Meta, At
  <2>. QED BY <2>1, <2>2
<1>. QED BY <1>8, <1>9, <1>10

\* An upload reported COMPLETED is in the table, unless a replacement came
\* after it.
THEOREM CompletedIsThere == Spec => []CompletedIsInTable
<1>1. Init => PresentInv
  BY DEF Init, PresentInv, NoRun
<1>2. TypeOK /\ IInv /\ PresentInv /\ [Next]_vars => PresentInv' BY PresentStep, IInvParts
<1>3. PresentInv => CompletedIsInTable BY DEF PresentInv, CompletedIsInTable, Present
<1>. QED BY <1>1, <1>2, <1>3, InvCorrect, TypeCorrect, PTL DEF Spec

LEMMA RetryBefore == ASSUME TypeOK, [Next]_vars, faults'.retry = 0 PROVE faults.retry = 0
<1>1. \/ faults' = faults \/ BumpFault("error", MaxErrors) \/ BumpFault("crash", MaxCrashes)
      \/ BumpFault("outage", MaxOutages) \/ BumpFault("retry", MaxRetries)
      \/ BumpFault("stop", MaxStops) \/ BumpFault("late", MaxLate)
  BY ZenonT(60)
  DEF Next, LockNext, ImportNext, EndNext, Start, Skip, TryAcquire, WaitTimeout, Outage, Renew,
         Release, ReleaseFails, LeaseAges, Look, OpenStage, Fill, Check, CheckThrows, Merge,
         SwapFull, SwapMerged,
         Append, Publish, Refused, Count, Meta, Throw, Cleanup, Complete, Fail, Crash, Terminate,
         Quit, QuitLate,
         Exit, RecoverJob, Retry, vars
<1>2. faults \in [error : Nat, crash : Nat, outage : Nat, retry : Nat, stop : Nat, late : Nat]
  BY DEF TypeOK
<1>. QED BY <1>1, <1>2 DEF BumpFault

\* The catalog has the count of the table, or a file of the table waits to be
\* reported by the run that put it there or by the next one of its upload.
CountInv ==
  Undisturbed /\ faults.retry = 0 =>
    /\ \/ catalog = target.rows
       \/ \E u \in Uploads : target.rows[u] > 0 /\ upload[u] # "COMPLETED"
    /\ \A l \in Loops : run[l].pc # "idle" => run[l].mine
    /\ \A l \in Loops : run[l].pc \in Early => upload[Up(l)] = "open"
    /\ \A l \in Loops : run[l].pc = "meta" => run[l].counted = target.rows

LEMMA CountStep ==
  ASSUME TypeOK, OwnersOK, LockInv, DataInv, CountInv, [Next]_vars
  PROVE  CountInv'
<1>. SUFFICES ASSUME Undisturbed', faults'.retry = 0
     PROVE  /\ \/ catalog' = target'.rows
               \/ \E u \in Uploads : target'.rows[u] > 0 /\ upload'[u] # "COMPLETED"
            /\ \A l \in Loops : run'[l].pc # "idle" => run'[l].mine
            /\ \A l \in Loops : run'[l].pc \in Early => upload'[run'[l].up] = "open"
            /\ \A l \in Loops : run'[l].pc = "meta" => run'[l].counted = target'.rows
  BY DEF CountInv, Up
<1>1. Undisturbed /\ faults.retry = 0 BY UndisturbedBefore, RetryBefore
<1>2. ReadIsCurrent /\ StageIsLoad /\ MergeIsCurrent /\ MarkedRows BY <1>1 DEF DataInv
<1>3. /\ \/ catalog = target.rows
         \/ \E u \in Uploads : target.rows[u] > 0 /\ upload[u] # "COMPLETED"
      /\ \A l \in Loops : run[l].pc # "idle" => run[l].mine
      /\ \A l \in Loops : run[l].pc \in Early => upload[run[l].up] = "open"
      /\ \A l \in Loops : run[l].pc = "meta" => run[l].counted = target.rows
  BY <1>1 DEF CountInv, Up
<1>4. /\ run \in [Loops -> Run] /\ \A l \in Loops : run[l].pc # "idle" => run[l].up \in Uploads
      /\ upload \in [Uploads -> {"open", "COMPLETED", "FAILED"}]
      /\ target.rows \in [Uploads -> Nat]
  BY RunFacts DEF TypeOK, RunsOK, Copies
<1>5. faults'.late = 0 BY DEF Undisturbed
<1>6. \A l \in Loops : RunStep(l) BY EveryRunStep
<1>7. \A l \in Loops : run'[l].pc # "idle" => run'[l].mine
  BY <1>3, <1>5, <1>6 DEF RunStep, Stays, GoesOn, Starts
<1>8. \A l, m \in Loops : run[l].mine /\ run[m].mine /\ run[l].up = run[m].up => l = m
  BY DEF OwnersOK, Up
<1>9. ASSUME NEW l \in Loops, run'[l].pc \in Early PROVE upload'[run'[l].up] = "open"
  <2>1. CASE Starts(l) BY <2>1 DEF Starts
  <2>2. CASE ~Starts(l)
    <3>1. run[l].pc \in Early /\ run'[l].up = run[l].up /\ run'[l].pc # "idle"
      BY <1>6, <1>9, <2>2 DEF RunStep, Stays, GoesOn, Early, Working
    <3>2. upload[run[l].up] = "open" /\ run[l].mine /\ run[l].up \in Uploads
      BY <1>3, <1>4, <3>1 DEF Early, Working
    <3>3. CASE UNCHANGED <<upload, catalog>> BY <3>1, <3>2, <3>3
    <3>4. ASSUME NEW m \in Loops, Meta(m), upload' = [upload EXCEPT ![Up(m)] = "COMPLETED"]
          PROVE  upload'[run'[l].up] = "open"
      <4>1. run[m].mine /\ run[m].up \in Uploads BY <1>3, <1>4, <3>4 DEF Meta, At
      <4>2. run'[m].pc = "release" BY <3>4, MoveFields DEF Meta, Pcs, Working
      <4>3. m # l BY <1>9, <4>2 DEF Early
      <4>4. run[m].up # run[l].up BY <1>8, <3>2, <4>1, <4>3
      <4>. QED BY <1>4, <3>1, <3>2, <3>4, <4>4 DEF Up
    <3>5. ASSUME NEW u \in Uploads, upload' = [upload EXCEPT ![u] = "FAILED"],
                 \/ \E m \in Loops : Fail(m) /\ Up(m) = u
                 \/ ~\E m \in Loops : Up(m) = u /\ run[m].mine
          PROVE  upload'[run'[l].up] = "open"
      <4>1. CASE run[l].up # u BY <1>4, <3>1, <3>2, <3>5, <4>1
      <4>2. CASE run[l].up = u
        <5>1. PICK m \in Loops : Fail(m) /\ run[m].up = u BY <3>2, <3>5, <4>2 DEF Up
        <5>2. run[m].mine /\ run'[m] = NoRun BY <1>3, <1>4, <5>1 DEF Fail, At
        <5>3. m = l BY <1>8, <3>2, <4>2, <5>1, <5>2
        <5>. QED BY <3>1, <5>2, <5>3 DEF NoRun
      <4>. QED BY <4>1, <4>2
    <3>. QED BY <3>3, <3>4, <3>5, UploadWrites
  <2>. QED BY <2>1, <2>2
<1>10. ASSUME NEW l \in Loops, run'[l].pc = "meta" PROVE run'[l].counted = target'.rows
  <2>1. CASE GoesOn(l) BY <1>10, <2>1 DEF GoesOn
  <2>2. CASE Stays(l)
    <3>1. run[l].pc = "meta" /\ run'[l].counted = target.rows BY <1>3, <1>10, <2>2 DEF Stays
    <3>2. ASSUME NEW m \in Loops, Publishes(m) PROVE FALSE
      <4>1. run[m].pc = "swap" BY <3>2 DEF Publishes, SwapFull, SwapMerged, Append, At
      <4>2. Holds(l) /\ Holds(m) BY <3>1, <4>1 DEF Holds, Working
      <4>3. l = m BY <1>1, <4>2 DEF LockInv, HolderOwnsLock
      <4>. QED BY <3>1, <4>1, <4>3
    <3>. QED BY <3>1, <3>2, TableWrites
  <2>. QED BY <1>6, <1>10, <2>1, <2>2 DEF RunStep, Starts
<1>11. \/ catalog' = target'.rows
       \/ \E u \in Uploads : target'.rows[u] > 0 /\ upload'[u] # "COMPLETED"
  <2>1. ASSUME NEW l \in Loops, Meta(l) PROVE catalog' = target'.rows
    BY <1>3, <2>1 DEF Meta, At
  <2>2. CASE ~\E l \in Loops : Meta(l)
    <3>1. catalog' = catalog /\ \A u \in Uploads : upload'[u] = "COMPLETED" => upload[u] = "COMPLETED"
      BY <1>4, <2>2, UploadWrites
    <3>2. CASE target'.rows = target.rows BY <1>3, <3>1, <3>2
    <3>3. CASE target'.rows # target.rows
      <4>1. PICK l \in Loops : Publishes(l) BY <3>3, TableWrites
      <4>2. Up(l) \in Uploads /\ target'.rows[Up(l)] = 1 BY <1>2, <3>3, <4>1, PublishedFile
      <4>3. run[l].pc \in Early
        BY <4>1 DEF Publishes, SwapFull, SwapMerged, Append, At, Early, Working
      <4>4. upload[Up(l)] = "open" BY <1>3, <4>3 DEF Up
      <4>. QED BY <3>1, <4>2, <4>4
    <3>. QED BY <3>2, <3>3
  <2>. QED BY <2>1, <2>2
<1>. QED BY <1>7, <1>9, <1>10, <1>11

\* The catalog has the count of the table once everything in it is reported,
\* whatever errors and crashes came between a publication and its report.
THEOREM CatalogIsCurrent == Spec => []CatalogMatches
<1>1. Init => CountInv
  BY DEF Init, CountInv, NoRun, Early, Working
<1>2. TypeOK /\ IInv /\ CountInv /\ [Next]_vars => CountInv' BY CountStep, IInvParts
<1>3. CountInv => CatalogMatches BY DEF CountInv, CatalogMatches
<1>. QED BY <1>1, <1>2, <1>3, InvCorrect, TypeCorrect, PTL DEF Spec
==============================================================================
