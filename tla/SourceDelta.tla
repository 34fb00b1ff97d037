------------------------------- MODULE SourceDelta -------------------------------
(***************************************************************************)
(* The incremental reading of a source (src/src/server/connections/        *)
(* sources.ts, source-delta.ts, source-guards.ts, source-options.ts): one  *)
(* table of the origin with a key and a time column, the mark up to which  *)
(* it has been read, the detection of deletions by the list of keys and    *)
(* its escalation, reconciliations, and the marker that carries what a     *)
(* person asked to the run that will do it.                                *)
(*                                                                         *)
(* A key stands for a block of Rows[k] rows.  The origin goes on being     *)
(* written while a run reads it: a transaction may commit up to Lag after  *)
(* the time it wrote in the row.  Runs of a source exclude each other      *)
(* (SourceRefresh shows it of the lease); what is written after a run was  *)
(* read, between its statements, is a step of its own here.  A stored mark *)
(* beyond the limit, which versions before the limit could leave, is not.  *)
(***************************************************************************)
EXTENDS Integers, FiniteSetsExt, LoadPolicy

CONSTANTS
  Keys,            \* keys of the origin
  Rows,            \* rows each key stands for
  Detect,          \* detectDeletions
  ReconCron,       \* there is a cron of reconciliations
  Lookback,        \* delta_lookback_minutes
  Tolerance,       \* delta_future_tolerance_hours
  EscalateAfter,   \* keys_skip_escalate_after (0: never)
  Future,          \* how far in the future a value of the column may be
  Lag,             \* the longest time from the value of a row to its commit
  MaxClock, MaxWrites, \* bounds on time and on the writes of the origin
  MaxEvents        \* bound on the rest: faults, requests, edits, changes of structure

ASSUME DeltaAssumption ==
  /\ IsFiniteSet(Keys) /\ Rows \in [Keys -> Nat \ {0}]
  /\ {Detect, ReconCron} \subseteq BOOLEAN
  /\ {Lookback, Tolerance, EscalateAfter, Future, Lag, MaxClock, MaxWrites, MaxEvents} \subseteq Nat

VARIABLES
  clock,   \* the clock of the origin
  src,     \* the rows committed: value of the column (0: null), version (0: no row)
  open,    \* the rows of a transaction that has not committed
  shape,   \* the structure of the origin
  target,  \* the table: structure (0: there is none), versions and deletion marks
  mark,    \* lastDeltaValue (0: null)
  column,  \* the column of the increment, of those the table has
  skips,   \* checks of the keys skipped in a row, as lastError tells it
  marker,  \* source.run.<id>
  job,     \* the job of each kind of round
  run,     \* the round under way
  used     \* what the bounds count

vars == <<clock, src, open, shape, target, mark, column, skips, marker, job, run, used>>

Round == {"inc", "rec"}
NoRow == [delta |-> 0, ver |-> 0]
NoMarker == [for |-> "none", manual |-> FALSE, acceptDrop |-> FALSE, allowDropPct |-> 0]
\* accepted: a person has asked this job to accept a drop (a history).
NoJob == [status |-> "none", manual |-> FALSE, acceptDrop |-> FALSE, accepted |-> FALSE]
NoRun == [pc |-> "none", kind |-> "inc", mark |-> 0, column |-> 0, skips |-> 0, cap |-> 0,
          marker |-> NoMarker, accepted |-> FALSE, merge |-> FALSE, delta |-> FALSE,
          staged |-> [k \in Keys |-> 0], shape |-> 0, newMark |-> -1,
          keys |-> {}, check |-> "none", measured |-> 0]

Weight(S) == Cardinality(UNION {{k} \X (1..Rows[k]) : k \in S})
Live == {k \in Keys : target.rows[k].ver # 0 /\ ~target.rows[k].gone}
Present == {k \in Keys : src[k].ver # 0}

TypeOK ==
  /\ clock \in 1..MaxClock
  /\ src \in [Keys -> [delta : 0..MaxClock + Future, ver : 0..MaxWrites + 1]]
  /\ open.ver \in 0..MaxWrites + 1
  /\ shape \in 1..MaxEvents + 1
  /\ target.shape \in 0..MaxEvents + 1
  /\ target.rows \in [Keys -> [ver : 0..MaxWrites + 1, gone : BOOLEAN]]
  /\ mark \in 0..clock + Tolerance /\ column \in 1..MaxEvents + 1
  /\ skips \in 0..2 * EscalateAfter /\ marker.for \in Round \cup {"none"}
  /\ \A r \in Round : job[r].status \in {"none", "queued", "running"}
  /\ run.pc \in {"none", "begun", "read", "keys", "swapped", "marking", "queueing"}

Init ==
  /\ clock = 1
  /\ src = [k \in Keys |-> [delta |-> 1, ver |-> 1]]
  /\ open = [key |-> {}, ver |-> 0, at |-> 0]
  /\ shape = 1
  /\ target = [shape |-> 0, rows |-> [k \in Keys |-> [ver |-> 0, gone |-> FALSE]]]
  /\ mark = 0 /\ column = 1 /\ skips = 0
  /\ marker = NoMarker
  /\ job = [r \in Round |-> IF r = "inc" THEN [NoJob EXCEPT !.status = "queued"] ELSE NoJob]
  /\ run = NoRun
  /\ used = [writes |-> 0, events |-> 0, cancelled |-> FALSE]

------------------------------------------------------------------------------
(* The origin *)

originUnchanged == UNCHANGED <<clock, src, open, shape>>
roundsUnchanged == UNCHANGED <<target, mark, column, skips, marker, job, run>>

\* A row is written and committed, with the time, a time in the future or null.
Write(k) ==
  /\ used.writes < MaxWrites /\ k \notin open.key
  /\ \E d \in {0} \cup clock..clock + Future :
       src' = [src EXCEPT ![k] = [delta |-> d, ver |-> used.writes + 2]]
  /\ used' = [used EXCEPT !.writes = @ + 1]
  /\ UNCHANGED <<clock, open, shape>> /\ roundsUnchanged

\* A row is written in a transaction that goes on, and the transaction commits.
WriteOpen(k) ==
  /\ used.writes < MaxWrites /\ open.key = {} /\ Lag > 0
  /\ open' = [key |-> {k}, ver |-> used.writes + 2, at |-> clock]
  /\ used' = [used EXCEPT !.writes = @ + 1]
  /\ UNCHANGED <<clock, src, shape>> /\ roundsUnchanged

Commit ==
  /\ open.key # {}
  /\ src' = [k \in Keys |-> IF k \in open.key THEN [delta |-> open.at, ver |-> open.ver]
                            ELSE src[k]]
  /\ open' = [key |-> {}, ver |-> 0, at |-> 0]
  /\ UNCHANGED <<clock, shape, used>> /\ roundsUnchanged

Delete(k) ==
  /\ used.writes < MaxWrites /\ k \in Present \ open.key
  /\ src' = [src EXCEPT ![k] = NoRow]
  /\ used' = [used EXCEPT !.writes = @ + 1]
  /\ UNCHANGED <<clock, open, shape>> /\ roundsUnchanged

\* The structure changes, and with it what every row holds; the column keeps its values.
Reshape ==
  /\ used.events < MaxEvents /\ open.key = {}
  /\ shape' = shape + 1
  /\ used' = [used EXCEPT !.events = @ + 1]
  /\ UNCHANGED <<clock, src, open>> /\ roundsUnchanged

Tick ==
  /\ clock < MaxClock
  /\ open.key # {} => clock < open.at + Lag
  /\ clock' = clock + 1
  /\ UNCHANGED <<src, open, shape, used>> /\ roundsUnchanged

------------------------------------------------------------------------------
(* Requests *)

\* enqueueDue finds the source due; a job of the same kind is not doubled.
Cron(r) ==
  /\ job[r].status = "none"
  /\ r = "rec" => ReconCron
  /\ job' = [job EXCEPT ![r] = [NoJob EXCEPT !.status = "queued"]]
  /\ originUnchanged /\ UNCHANGED <<target, mark, column, skips, marker, run, used>>

\* queueSourceRefresh for a person: the marker is left only for a round to come.
Manual(r) ==
  /\ used.events < MaxEvents
  /\ \E drop \in BOOLEAN :
       /\ job' = [job EXCEPT ![r] =
            CASE @.status = "none" -> [status |-> "queued", manual |-> TRUE,
                                       acceptDrop |-> drop, accepted |-> drop]
              [] @.status = "queued" -> [@ EXCEPT !.accepted = @ \/ drop]
              [] OTHER -> @]
       /\ marker' = IF job[r].status = "running" THEN marker
                    ELSE [for |-> r, manual |-> TRUE, acceptDrop |-> drop, allowDropPct |-> 0]
  /\ used' = [used EXCEPT !.events = @ + 1]
  /\ originUnchanged /\ UNCHANGED <<target, mark, column, skips, run>>

\* action=cancel: the rows of the jobs; a round that runs goes on.
Cancel ==
  /\ used.events < MaxEvents
  /\ \E r \in Round : job[r].status # "none"
  /\ job' = [r \in Round |-> NoJob]
  /\ used' = [used EXCEPT !.events = @ + 1, !.cancelled = TRUE]
  /\ originUnchanged /\ UNCHANGED <<target, mark, column, skips, marker, run>>

\* PATCH of the column of the increment: the mark is cleared (shouldResetDelta).
Edit ==
  /\ used.events < MaxEvents
  /\ column' = column + 1
  /\ mark' = 0
  /\ used' = [used EXCEPT !.events = @ + 1]
  /\ originUnchanged /\ UNCHANGED <<target, skips, marker, job, run>>

------------------------------------------------------------------------------
(* A round *)

\* takeRunMarker: a marker left for the other kind stays; an old one is dropped.
TakenMarker(r, expired) ==
  IF marker.for = r /\ ~expired THEN marker ELSE NoMarker

\* The source is read, the lease is taken over lastError, the marker consumed
\* and joined by what the job carries, and the clock of the origin read.
Start(r) ==
  /\ run.pc = "none" /\ job[r].status = "queued"
  /\ \E expired \in {FALSE} \cup {e \in {TRUE} : marker.for = r /\ used.events < MaxEvents} :
       LET m == TakenMarker(r, expired)
       IN  /\ run' = [NoRun EXCEPT !.pc = "begun", !.kind = r, !.column = column,
                        !.mark = IF r = "inc" THEN mark ELSE 0, !.skips = skips,
                        !.cap = clock + Tolerance, !.accepted = job[r].accepted,
                        !.marker = [m EXCEPT !.manual = @ \/ job[r].manual,
                                             !.acceptDrop = @ \/ job[r].acceptDrop]]
           /\ used' = [used EXCEPT !.events = IF expired THEN @ + 1 ELSE @]
  /\ marker' = IF marker.for = r THEN NoMarker ELSE marker
  /\ job' = [job EXCEPT ![r].status = "running"]
  /\ skips' = 0
  /\ originUnchanged /\ UNCHANGED <<target, mark, column>>

\* A round of the increment with a mark, and the same structure as before.
UseDelta == run.mark # 0 /\ target.shape \in {0, shape}

\* Mutant: the bound of the predicate is strict and without the overlap.
Predicate_Strict(d) == d > run.mark

\* buildDeltaPredicate
Predicate(d) == d # 0 /\ d >= run.mark - Lookback

\* The rows a round reads.
ToRead == {k \in Present : UseDelta => Predicate(src[k].delta)}

\* WatermarkTracker: values beyond the limit do not count; -1: the mark stays.
NewMark(read) ==
  LET values == {src[k].delta : k \in read} \cap 1..run.cap
  IN  IF values = {} THEN -1
      ELSE IF UseDelta /\ Max(values) < run.mark THEN -1 ELSE Max(values)

\* The guard of a load that replaces the whole state.
Verdict(read) ==
  evaluateLoad([fullState |-> TRUE, deltaOnly |-> FALSE, expected |-> 0,
                parsed |-> Weight(read), staged |-> -1, prev |-> Weight(Live),
                retry |-> FALSE, scheduled |-> Scheduled(run.marker, FALSE),
                softEmpty |-> FALSE, unverified |-> FALSE, disagrees |-> FALSE],
               EffectiveSettings(Defaults, [allowEmpty |-> FALSE, maxDropPct |-> 0], run.marker))

Blocked(read) ==
  /\ target.shape # 0
  /\ ~(UseDelta /\ target.shape = shape)
  /\ Verdict(read) = "FAILED"

\* The rows are streamed into the staging table, as one statement sees them.
ReadRows ==
  /\ run.pc = "begun" /\ ~Blocked(ToRead)
  /\ run' = [run EXCEPT !.pc = "read", !.delta = UseDelta, !.shape = shape,
               !.merge = target.shape = shape,
               !.staged = [k \in Keys |-> IF k \in ToRead THEN src[k].ver ELSE 0],
               !.newMark = NewMark(ToRead), !.mark = 0, !.cap = 0, !.marker = NoMarker]
  /\ originUnchanged /\ UNCHANGED <<target, mark, column, skips, marker, job, used>>

\* A load that is blocked is not repeated.
Rejected ==
  /\ run.pc = "begun" /\ Blocked(ToRead)
  /\ run' = NoRun
  /\ job' = [job EXCEPT ![run.kind] = NoJob]
  /\ originUnchanged /\ UNCHANGED <<target, mark, column, skips, marker, used>>

KeysDue == Detect /\ run.merge /\ run.delta

\* The list of the keys is read, and what it would mark is measured.
ReadKeys ==
  /\ run.pc = "read" /\ KeysDue
  /\ LET candidates == Weight(Live \ Present)
         live == Weight(Live)
         unsafe == keysCheckExceeds(candidates, live)
     IN  run' = [run EXCEPT !.pc = "keys", !.keys = Present,
                   !.check = CASE Present = {} -> "empty"
                               [] Present # {} /\ unsafe -> "skipped"
                               [] OTHER -> "applied",
                   !.measured = IF Present # {} /\ live > 0
                                THEN MeasuredDrop(candidates, live) ELSE 0]
  /\ originUnchanged /\ UNCHANGED <<target, mark, column, skips, marker, job, used>>

\* KEYS_READ_FAILED and KEYS_CHECK_FAILED: the round goes on without them.
KeysFail ==
  /\ run.pc = "read" /\ KeysDue /\ used.events < MaxEvents
  /\ run' = [run EXCEPT !.pc = "keys", !.check = "skipped"]
  /\ used' = [used EXCEPT !.events = @ + 1]
  /\ originUnchanged /\ UNCHANGED <<target, mark, column, skips, marker, job>>

\* atomicSwap and carryPlan: a row that was not read keeps what it holds, and is
\* marked or unmarked by what the round knows of the origin.
Swapped(k) ==
  LET old == target.rows[k]
  IN  CASE run.staged[k] # 0 -> [ver |-> run.staged[k], gone |-> FALSE]
        [] run.staged[k] = 0 /\ ~run.merge -> [ver |-> 0, gone |-> FALSE]
        [] OTHER -> [old EXCEPT !.gone =
                       /\ old.ver # 0
                       /\ \/ ~run.delta
                          \/ run.check = "applied" /\ k \notin run.keys
                          \/ run.check # "applied" /\ old.gone]

Swap ==
  /\ run.pc = IF KeysDue THEN "keys" ELSE "read"
  /\ target' = [shape |-> run.shape, rows |-> [k \in Keys |-> Swapped(k)]]
  /\ run' = [NoRun EXCEPT !.pc = "swapped", !.kind = run.kind, !.column = run.column,
               !.skips = run.skips, !.newMark = run.newMark, !.check = run.check,
               !.measured = run.measured]
  /\ originUnchanged /\ UNCHANGED <<mark, column, skips, marker, job, used>>

\* Only the remainder of the count by EscalateAfter matters beyond it.
Counted(n) == IF n >= 2 * EscalateAfter THEN EscalateAfter ELSE n

\* Mutant: the count is not carried from one round to the next.
Skips_Lost == IF run.check = "skipped" THEN 1 ELSE 0

\* The checks skipped in a row.
Skips == IF run.check = "skipped" THEN Counted(run.skips + 1) ELSE 0
Escalates == EscalateAfter > 0 /\ Skips >= EscalateAfter /\ Skips % EscalateAfter = 0

Done == job' = [job EXCEPT ![run.kind] = IF @.status = "running" THEN NoJob ELSE @]

\* The last update of the source, with what was read at its beginning.
Final ==
  /\ run.pc = "swapped"
  /\ mark' = IF run.newMark = -1 THEN mark ELSE run.newMark
  /\ skips' = Skips
  /\ IF Escalates
     THEN run' = [NoRun EXCEPT !.pc = "marking", !.measured = run.measured] /\ UNCHANGED job
     ELSE run' = NoRun /\ Done
  /\ originUnchanged /\ UNCHANGED <<target, column, marker, used>>

\* An escalation leaves a marker and then queues the reconciliation.
EscalateMarks ==
  /\ run.pc = "marking"
  /\ marker' = IF run.measured = 0 THEN marker
               ELSE [NoMarker EXCEPT !.for = "rec", !.allowDropPct = run.measured]
  /\ run' = [run EXCEPT !.pc = "queueing"]
  /\ originUnchanged /\ UNCHANGED <<target, mark, column, skips, job, used>>

EscalateQueues ==
  /\ run.pc = "queueing"
  /\ run' = NoRun
  /\ job' = [job EXCEPT !["rec"] = IF @.status = "none" THEN [NoJob EXCEPT !.status = "queued"] ELSE @,
                        !["inc"] = IF @.status = "running" THEN NoJob ELSE @]
  /\ originUnchanged /\ UNCHANGED <<target, mark, column, skips, marker, used>>

\* The other kind of round holds the lease at every attempt: the job is given up.
GivesUp(r) ==
  /\ run.pc # "none" /\ run.kind # r /\ job[r].status = "queued"
  /\ used.events < MaxEvents
  /\ job' = [job EXCEPT ![r] = NoJob]
  /\ used' = [used EXCEPT !.events = @ + 1, !.cancelled = TRUE]
  /\ originUnchanged /\ UNCHANGED <<target, mark, column, skips, marker, run>>

\* A statement fails or the process dies: the job is retried or given up.
Fails ==
  /\ run.pc # "none" /\ used.events < MaxEvents
  /\ \E again \in BOOLEAN :
       job' = [job EXCEPT ![run.kind] = IF @.status # "running" THEN @
                                        ELSE IF again THEN [@ EXCEPT !.status = "queued"] ELSE NoJob]
  /\ run' = NoRun
  /\ used' = [used EXCEPT !.events = @ + 1]
  /\ originUnchanged /\ UNCHANGED <<target, mark, column, skips, marker>>

------------------------------------------------------------------------------
Origin == \/ \E k \in Keys : Write(k) \/ WriteOpen(k) \/ Delete(k)
          \/ Commit \/ Reshape \/ Tick
Requests == (\E r \in Round : Cron(r) \/ Manual(r)) \/ Cancel \/ Edit
Steps == \/ ReadRows \/ Rejected \/ ReadKeys \/ Swap \/ Final
         \/ EscalateMarks \/ EscalateQueues

Next == \/ Origin \/ Requests \/ Steps \/ KeysFail \/ Fails
        \/ \E r \in Round : Start(r) \/ GivesUp(r)

Spec == Init /\ [][Next]_vars

\* The cron comes round, a queued job is some day started (a reconciliation may
\* find incrementals running whenever it tries, but not for ever), and a round
\* takes its next step.
FairSpec ==
  /\ Spec
  /\ WF_vars(Cron("inc")) /\ WF_vars(Cron("rec"))
  /\ SF_vars(Start("inc")) /\ SF_vars(Start("rec"))
  /\ WF_vars(Steps) /\ WF_vars(Commit)

------------------------------------------------------------------------------
(* What the reading promises *)

InTarget(k) == target.rows[k] = [ver |-> src[k].ver, gone |-> FALSE]

\* Nothing committed is behind the mark: a row the table does not hold as the
\* origin has it will be read by the next incremental round, however late its
\* transaction committed and whatever failed in between (source-delta.ts: ties,
\* late commits and values in the future).  Rows whose column is null are left
\* to reconciliations.
NothingBehind ==
  target.shape = shape =>
    \A k \in Present :
      \/ src[k].delta = 0 \/ InTarget(k)
      \/ mark = 0
      \/ src[k].delta >= mark - Lookback

\* The whole state must be read next, and a scheduled round may not publish it.
Held ==
  /\ mark = 0 \/ target.shape # shape \/ ~Detect
  /\ evaluateLoad([fullState |-> TRUE, deltaOnly |-> FALSE, expected |-> 0,
                   parsed |-> Weight(Present), staged |-> -1, prev |-> Weight(Live),
                   retry |-> FALSE, scheduled |-> TRUE, softEmpty |-> FALSE,
                   unverified |-> FALSE, disagrees |-> FALSE], Defaults) = "FAILED"

\* Once the origin rests, the table comes to show it: what was changed is read,
\* and what was deleted is hidden, even when it is more than the check of the
\* keys may mark (the escalation measures it and its reconciliation may drop as
\* much).  Only the guard against empty and shrunken loads may keep it back.
Converged ==
  \/ Present = {} \/ Held
  \/ \A k \in Keys : IF k \in Present THEN src[k].delta = 0 \/ InTarget(k)
                     ELSE k \notin Live
Converges == <>[]Converged

\* A round that reads the whole state hides the last rows of a table only when a
\* person has asked that round to accept it (policy.ts, EMPTY_REPLACE; the
\* marker is of one use).
Empties == run.pc # "swapped" /\ run'.pc = "swapped" /\ ~run.delta /\ Live # {} /\ Live' = {}
\* The same, as long as no request has been cancelled or given up before its round began.
EmptiedOnRequest == [][Empties => run.accepted \/ used.cancelled]_vars

==============================================================================
