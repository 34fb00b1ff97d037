------------------------------- MODULE LoadPolicy -------------------------------
(***************************************************************************)
(* The integrity policy of a load (src/src/server/integrity/policy.ts),    *)
(* what a source and its run change in it (effectiveIntegrity), and the    *)
(* guard of the list of keys (keysCheckExceeds).  Counts are of rows.      *)
(*                                                                         *)
(* A load is a record of facts: the file or query replaces the whole table *)
(* (fullState) or only a difference was staged (deltaOnly); the rows       *)
(* expected (0: unknown), parsed, staged (-1: not counted) and of the      *)
(* version before; whether it is a retry over the staging of another one,  *)
(* a scheduled load, one that may be empty (softEmpty), and what the       *)
(* server could not count or the client counted differently.               *)
(***************************************************************************)
EXTENDS Integers, FiniteSets

MIN_ROWS_FOR_DROP_CHECK == 50
KEYS_CHECK_RATIO_MIN_LIVE == 50
KEYS_CHECK_MAX_RATIO == 30  \* per cent

ReasonCode == {"ROWS_BELOW_EXPECTED", "ROWS_ABOVE_EXPECTED", "EMPTY_REPLACE", "DROP_GT_PCT",
               "STAGED_MISMATCH", "RETRY_WITHOUT_EXPECTED", "EXPECTED_UNVERIFIED",
               "CLIENT_COUNT_MISMATCH"}

LoadFacts == [fullState : BOOLEAN, deltaOnly : BOOLEAN, expected : Nat, parsed : Nat,
              staged : Nat \cup {-1}, prev : Nat, retry : BOOLEAN, scheduled : BOOLEAN,
              softEmpty : BOOLEAN, unverified : BOOLEAN, disagrees : BOOLEAN]

IntegritySettings == [mode : {"enforce", "warn"}, maxDropPct : 1..99, allowEmpty : BOOLEAN]

Defaults == [mode |-> "enforce", maxDropPct |-> 30, allowEmpty |-> FALSE]

\* The rows a load of the whole state leaves of the version before are too few.
Dropped(f, cfg) ==
  /\ f.prev >= MIN_ROWS_FOR_DROP_CHECK
  /\ f.parsed > 0
  /\ 100 * f.parsed < f.prev * (100 - cfg.maxDropPct)

Emptied(f, cfg) == f.parsed = 0 /\ f.prev > 0 /\ ~cfg.allowEmpty

\* The reasons a load gives, and those of them that block it.
Reasons(f, cfg) ==
  {c \in ReasonCode :
     \/ /\ ~f.deltaOnly
        /\ \/ c = "ROWS_BELOW_EXPECTED" /\ f.expected > 0 /\ f.parsed < f.expected
           \/ c = "ROWS_ABOVE_EXPECTED" /\ f.expected > 0 /\ f.parsed > f.expected
           \/ c = "EXPECTED_UNVERIFIED" /\ f.unverified
           \/ c = "CLIENT_COUNT_MISMATCH" /\ f.disagrees
           \/ c = "RETRY_WITHOUT_EXPECTED" /\ f.retry /\ f.expected = 0
           \/ c = "EMPTY_REPLACE" /\ f.fullState /\ Emptied(f, cfg)
           \/ c = "DROP_GT_PCT" /\ f.fullState /\ Dropped(f, cfg)
     \/ c = "STAGED_MISMATCH" /\ f.staged # -1 /\ f.staged # f.parsed /\ ~f.retry}

Blocking(f) ==
  {c \in {"ROWS_BELOW_EXPECTED", "STAGED_MISMATCH", "EMPTY_REPLACE", "DROP_GT_PCT"} :
     /\ c = "EMPTY_REPLACE" => ~f.softEmpty
     /\ c = "DROP_GT_PCT" => f.scheduled}

evaluateLoad(f, cfg) ==
  CASE Reasons(f, cfg) = {} -> "OK"
    [] Reasons(f, cfg) \cap Blocking(f) # {} /\ cfg.mode = "enforce" -> "FAILED"
    [] OTHER -> "SUSPECT"

------------------------------------------------------------------------------
(* What a source's options and the marker of a run change *)

MaxOf(a, b) == IF a >= b THEN a ELSE b
MinOf(a, b) == IF a <= b THEN a ELSE b

\* Mutant: a manual round may empty the table.
EffectiveSettings_Manual(base, opts, marker) ==
  [base EXCEPT !.allowEmpty = @ \/ opts.allowEmpty \/ marker.manual]

\* opts: allowEmpty, and maxDropPct (0: none).  marker: manual, acceptDrop, and
\* allowDropPct (0: none).
EffectiveSettings(base, opts, marker) ==
  LET own == IF opts.maxDropPct # 0 THEN opts.maxDropPct ELSE base.maxDropPct
      measured == IF marker.allowDropPct # 0 THEN MaxOf(own, MinOf(99, marker.allowDropPct))
                  ELSE own
  IN  [mode |-> base.mode,
       maxDropPct |-> IF marker.acceptDrop THEN 99 ELSE measured,
       allowEmpty |-> base.allowEmpty \/ opts.allowEmpty \/ marker.acceptDrop]

Scheduled(marker, keylessWindow) == ~marker.manual /\ ~keylessWindow

keysCheckExceeds(candidates, live) ==
  /\ candidates > 0
  /\ live >= KEYS_CHECK_RATIO_MIN_LIVE
  /\ 100 * candidates > KEYS_CHECK_MAX_RATIO * live

\* The drop a reconciliation queued by an escalation may make: what the check
\* of the keys measured, rounded up, and two points more.
MeasuredDrop(candidates, live) == (100 * candidates + live - 1) \div live + 2
==============================================================================
