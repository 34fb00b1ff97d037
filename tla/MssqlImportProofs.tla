--------------------------- MODULE MssqlImportProofs ---------------------------
(***************************************************************************)
(* Proofs about MssqlImport: its types, that no import takes away or       *)
(* rounds what it does not name, and that the table shows what is          *)
(* COMPLETED, for any rows, files, types and numbers of attempts.          *)
(*                                                                         *)
(* What a run has decided when it looked at the table still holds when it  *)
(* publishes (RunInv).  A value that a file brings fits the type of its    *)
(* column, a column that accepts this type keeps it, and what is rounded   *)
(* never fits again, for an upsert can only narrow (KeepsValues).          *)
(***************************************************************************)
EXTENDS MssqlImport, TLAPS

\* canonicalAccepts: a column that accepts a type keeps each of its values.
THEOREM AcceptedKeepsValues ==
  ASSUME NEW ex \in ColumnType, NEW inc \in ColumnType, NEW v \in Value,
         Accepts(ex, inc), ~Changes(v, inc)
  PROVE  ~Changes(v, ex)
<1>1. CASE ex = inc BY <1>1
<1>2. CASE ex.name = "TEXT" BY <1>2 DEF Changes
<1>3. CASE ex.name = "DECIMAL" /\ inc.name = "BIGINT"
  <2>1. ex.scale \in Nat
    BY <1>3 DEF ColumnType, PlainTypes, DecimalTypes, Plain, DECIMAL_MAX_PRECISION
  <2>2. v.fraction \in Nat BY DEF Value
  <2>. QED BY <1>3, <2>1, <2>2 DEF Changes
<1>4. CASE ex.name = "DECIMAL" /\ inc.name = "DECIMAL" /\ inc.scale <= ex.scale
  <2>1. ex.scale \in Nat /\ inc.scale \in Nat
    BY <1>4 DEF ColumnType, PlainTypes, DecimalTypes, Plain, DECIMAL_MAX_PRECISION
  <2>2. v.fraction \in Nat BY DEF Value
  <2>. QED BY <1>4, <2>1, <2>2 DEF Changes
<1>5. CASE ex.name = "DATETIME2" BY <1>5 DEF Changes
<1>. QED BY <1>1, <1>2, <1>3, <1>4, <1>5 DEF Accepts

------------------------------------------------------------------------------
(* Types *)

\* A row that waits has an attempt left, and a run is of a row that is not settled.
BudgetInv ==
  \A u \in Uploads :
    /\ upload[u].status = "created" => upload[u].attempts = 0
    /\ upload[u].status = "QUEUED" /\ (At("idle") \/ Up # u) => upload[u].attempts < MaxAttempts
    /\ ~At("idle") /\ Up = u => upload[u].status = "QUEUED"

TypeInv == TypeOK /\ BudgetInv

LEMMA ConstantTypes ==
  /\ MaxAttempts \in Nat /\ MaxAttempts > 0
  /\ File \in [Uploads -> SUBSET Rows]
  /\ TypeOf \in [Uploads -> ColumnType]
BY MssqlImportAssumption

LEMMA NoBareType == NoBare \in [Rows -> Nat] BY DEF NoBare

LEMMA AbsentType == Absent \in Table BY NoBareType DEF Absent, Table

LEMMA AgedType == Aged \in Table
  BY AbsentType, MssqlImportAssumption DEF Aged, Absent, Table

LEMMA IdleType == Idle \in Run BY AbsentType DEF Idle, Run

LEMMA InitTypes == Init => TypeInv
<1>. SUFFICES ASSUME Init PROVE TypeInv OBVIOUS
<1>1. table \in Table BY AbsentType, AgedType DEF Init
<1>2. catalog \in ColumnType \cup {None} BY <1>1 DEF Init, Table
<1>3. upload \in [Uploads -> Upload] BY MssqlImportAssumption DEF Init, Upload
<1>4. run \in Run /\ run.pc = "idle" BY IdleType DEF Init, Idle
<1>5. BudgetInv BY <1>4, MssqlImportAssumption DEF BudgetInv, Init, At
<1>. QED BY <1>1, <1>2, <1>3, <1>4, <1>5 DEF TypeInv, TypeOK, Init

LEMMA FaultsTyped ==
  ASSUME NEW k \in {"error", "crash", "retry"}, NEW m,
         faults \in [error : Nat, crash : Nat, retry : Nat], BumpFault(k, m)
  PROVE  faults' \in [error : Nat, crash : Nat, retry : Nat]
BY DEF BumpFault

\* What a publication may leave: a well-typed table.
LEMMA PublishTypes ==
  ASSUME TypeInv, run.pc \in {"publish", "swap"}, NEW t \in Table, Publish(t), marker' \subseteq Uploads
  PROVE  TypeInv'
<1>. USE DEF TypeInv, TypeOK
<1>1. Up \in Uploads BY DEF Up
<1>2. stage' \in [Uploads -> SUBSET Rows] BY <1>1 DEF Publish
<1>3. run' \in Run /\ run'.up = run.up /\ run'.pc = "meta" BY AbsentType DEF Publish, Run
<1>4. moved' \subseteq Uploads BY DEF Publish
<1>5. TypeOK' BY <1>1, <1>2, <1>3, <1>4 DEF Publish, Up
<1>6. BudgetInv' BY <1>3 DEF Publish, BudgetInv, At, Up
<1>. QED BY <1>5, <1>6

\* The rows and the tables that the model builds are well typed.
LEMMA BuiltTypes ==
  ASSUME TypeOK, NEW u \in Uploads
  PROVE  /\ New(u) \in Table
         /\ [New(u) EXCEPT !.stamped = TRUE] \in Table
         /\ Merged(u) \in Table
         /\ [table EXCEPT !.hashed = (@ \cup stage[u]) \ upload[u].toDelete,
                          !.rounded = @ \cup Rounded(stage[u] \ table.hashed, table.type)] \in Table
         /\ [table EXCEPT !.bare = [r \in Rows |-> @[r] + (IF r \in stage[u] THEN 1 ELSE 0)],
                          !.rounded = @ \cup Rounded(stage[u], table.type)] \in Table
<1>. USE DEF TypeOK
<1>1. stage[u] \in SUBSET Rows /\ TypeOf[u] \in ColumnType BY MssqlImportAssumption
<1>2. New(u) \in Table BY <1>1, AbsentType DEF New, Absent, Table
<1>3. CarriedBare(u) \in [Rows -> Nat] BY DEF CarriedBare, Table
<1>4. CarriedHashed(u) \in SUBSET Rows BY DEF CarriedHashed, Table
<1>5. \A S \in SUBSET Rows : \A t : Rounded(S, t) \in SUBSET Rows BY DEF Rounded
<1>6. Carried(u) \in SUBSET Rows BY <1>4 DEF Carried
<1>7. Merged(u) \in Table BY <1>1, <1>2, <1>3, <1>4, <1>5, <1>6 DEF Merged, Table
<1>8. [New(u) EXCEPT !.stamped = TRUE] \in Table BY <1>2 DEF Table
<1>9. [table EXCEPT !.hashed = (@ \cup stage[u]) \ upload[u].toDelete,
                    !.rounded = @ \cup Rounded(stage[u] \ table.hashed, table.type)] \in Table
  BY <1>1, <1>5 DEF Table
<1>10. [r \in Rows |-> table.bare[r] + (IF r \in stage[u] THEN 1 ELSE 0)] \in [Rows -> Nat]
  BY <1>1 DEF Table
<1>11. [table EXCEPT !.bare = [r \in Rows |-> @[r] + (IF r \in stage[u] THEN 1 ELSE 0)],
                     !.rounded = @ \cup Rounded(stage[u], table.type)] \in Table
  BY <1>1, <1>5, <1>10 DEF Table
<1>. QED BY <1>2, <1>7, <1>8, <1>9, <1>11

LEMMA TypeStep == TypeInv /\ [Next]_vars => TypeInv'
<1>. SUFFICES ASSUME TypeInv, [Next]_vars PROVE TypeInv' OBVIOUS
<1>. USE DEF TypeInv, TypeOK
<1>0. ~At("idle") => Up \in Uploads BY DEF At, Up
<1>1. ASSUME NEW u \in Uploads, ConfirmDifference(u) PROVE TypeInv'
  <2>. DEFINE w == [upload[u] EXCEPT !.status = "QUEUED", !.differs = TRUE,
                                     !.sent = File[u] \ table.hashed, !.toDelete = table.hashed \ File[u]]
  <2>a. upload' = [upload EXCEPT ![u] = w] BY <1>1 DEF ConfirmDifference, Ready
  <2>b. File[u] \ table.hashed \in SUBSET Rows /\ table.hashed \ File[u] \in SUBSET Rows
    BY ConstantTypes DEF Table
  <2>c. w \in Upload BY ZenonT(60), <2>b DEF Upload
  <2>. HIDE DEF w
  <2>1. upload' \in [Uploads -> Upload] BY <2>a, <2>c
  <2>2. BudgetInv' BY <1>1, ConstantTypes DEF ConfirmDifference, Ready, Upload, BudgetInv, At, Up
  <2>. QED BY <1>1, <2>1, <2>2 DEF ConfirmDifference, Ready
<1>2. ASSUME NEW u \in Uploads, Confirm(u) PROVE TypeInv'
  <2>. DEFINE w == [upload[u] EXCEPT !.status = "QUEUED", !.differs = FALSE,
                                     !.sent = File[u], !.toDelete = {}]
  <2>a. upload' = [upload EXCEPT ![u] = w] BY <1>2 DEF Confirm, Ready
  <2>b. File[u] \in SUBSET Rows /\ {} \in SUBSET Rows BY ConstantTypes
  <2>c. w \in Upload BY ZenonT(60), <2>b DEF Upload
  <2>. HIDE DEF w
  <2>1. upload' \in [Uploads -> Upload] BY <2>a, <2>c
  <2>2. BudgetInv' BY <1>2, ConstantTypes DEF Confirm, Ready, Upload, BudgetInv, At, Up
  <2>. QED BY <1>2, <2>1, <2>2 DEF Confirm, Ready
<1>3. ASSUME NEW u \in Uploads, Retry(u) PROVE TypeInv'
  <2>. DEFINE w == [upload[u] EXCEPT !.status = "QUEUED", !.attempts = 0]
  <2>a. upload' = [upload EXCEPT ![u] = w] BY <1>3 DEF Retry
  <2>b. w \in Upload
    <3>1. 0 \in 0..MaxAttempts BY ConstantTypes
    <3>2. upload[u] \in Upload OBVIOUS
    <3>. QED BY <3>1, <3>2 DEF Upload
  <2>. HIDE DEF w
  <2>1. upload' \in [Uploads -> Upload] BY <2>a, <2>b
  <2>2. BudgetInv' BY <1>3, ConstantTypes DEF Retry, Upload, BudgetInv, At, Up
  <2>3. faults' \in [error : Nat, crash : Nat, retry : Nat] BY <1>3, FaultsTyped DEF Retry
  <2>. QED BY <1>3, <2>1, <2>2, <2>3 DEF Retry
<1>4. ASSUME NEW u \in Uploads, Start(u) PROVE TypeInv'
  <2>1. upload' \in [Uploads -> Upload]
    <3>1. upload[u].attempts + 1 \in 0..MaxAttempts
      BY <1>4, ConstantTypes DEF Start, Upload, BudgetInv, At
    <3>. QED BY <1>4, <3>1 DEF Start, Upload
  <2>2. run' \in Run /\ run'.up = u /\ run'.pc = "look" BY <1>4, IdleType DEF Start, Run, Idle
  <2>3. BudgetInv' BY <1>4, <2>2, ConstantTypes DEF Start, Upload, BudgetInv, At, Up
  <2>. QED BY <1>4, <2>1, <2>2, <2>3 DEF Start
<1>5. ASSUME Look PROVE TypeInv'
  <2>1. run' \in Run /\ run'.up = run.up /\ run'.pc # "idle"
    <3>1. Incompatible(Up) \in BOOLEAN /\ table.exists \in BOOLEAN BY DEF Incompatible, Table
    <3>2. AlreadyApplied(Up) \in BOOLEAN BY DEF AlreadyApplied
    <3>3. DeltaReplace(Up) \in BOOLEAN BY DEF DeltaReplace
    <3>4. CASE Incompatible(Up) \/ Outdated(Up)
      <4>1. run' = [run EXCEPT !.pc = "catch", !.final = Incompatible(Up)]
        BY <1>5, <3>4 DEF Look, RaiseTo
      <4>. QED BY <3>1, <4>1 DEF Run
    <3>5. CASE ~(Incompatible(Up) \/ Outdated(Up))
      <4>1. run' = [run EXCEPT !.pc = "open", !.found = table.exists,
                               !.delta = DeltaReplace(Up), !.applied = AlreadyApplied(Up)]
        BY <1>5, <3>5 DEF Look
      <4>. QED BY <3>1, <3>2, <3>3, <4>1 DEF Run
    <3>. QED BY <3>4, <3>5
  <2>2. BudgetInv' BY <1>5, <2>1 DEF Look, BudgetInv, At, Up
  <2>. QED BY <1>5, <1>0, <2>1, <2>2 DEF Look, At, Up
<1>6. ASSUME OpenStage PROVE TypeInv'
  <2>1. run' \in Run /\ run'.up = run.up /\ run'.pc # "idle" BY <1>6 DEF OpenStage, GoTo, Run
  <2>2. BudgetInv' BY <1>6, <2>1 DEF OpenStage, BudgetInv, At, Up
  <2>. QED BY <1>6, <1>0, <2>1, <2>2 DEF OpenStage, At, Up
<1>7. ASSUME LoadBatch PROVE TypeInv'
  <2>1. stage' \in [Uploads -> SUBSET Rows] BY <1>7, <1>0 DEF LoadBatch, Upload, At
  <2>2. BudgetInv' BY <1>7 DEF LoadBatch, BudgetInv, At, Up
  <2>. QED BY <1>7, <2>1, <2>2 DEF LoadBatch
<1>8. ASSUME LoadEnds PROVE TypeInv'
  <2>1. run' \in Run /\ run'.up = run.up /\ run'.pc # "idle" BY <1>8 DEF LoadEnds, GoTo, Run
  <2>2. BudgetInv' BY <1>8, <2>1 DEF LoadEnds, BudgetInv, At, Up
  <2>. QED BY <1>8, <1>0, <2>1, <2>2 DEF LoadEnds, At, Up
<1>9. ASSUME SwapFull \/ Recreate \/ ApplyDifference \/ Append \/ SwapMerged PROVE TypeInv'
  <2>1. Up \in Uploads /\ run.pc \in {"publish", "swap"}
    BY <1>9, <1>0 DEF SwapFull, Recreate, ApplyDifference, Append, SwapMerged, At
  <2>2. marker' \subseteq Uploads
    BY <1>9, <2>1 DEF SwapFull, Recreate, ApplyDifference, Append, SwapMerged, MarkedBy
  <2>3. \E t \in Table : Publish(t)
    BY <1>9, <2>1, BuiltTypes DEF SwapFull, Recreate, ApplyDifference, Append, SwapMerged, Run
  <2>. QED BY <2>1, <2>2, <2>3, PublishTypes
<1>10. ASSUME BuildMerged PROVE TypeInv'
  <2>1. Merged(Up) \in Table BY <1>10, <1>0, BuiltTypes DEF BuildMerged, At
  <2>2. run' \in Run /\ run'.up = run.up /\ run'.pc # "idle" BY <1>10, <2>1 DEF BuildMerged, Run
  <2>3. table' \in Table BY <1>10 DEF BuildMerged, Table
  <2>4. BudgetInv' BY <1>10, <2>2 DEF BuildMerged, BudgetInv, At, Up
  <2>. QED BY <1>10, <1>0, <2>2, <2>3, <2>4 DEF BuildMerged, At, Up
<1>11. ASSUME Meta PROVE TypeInv'
  <2>1. upload' \in [Uploads -> Upload] BY <1>11, <1>0 DEF Meta, Upload, At
  <2>2. run' \in Run /\ run'.pc = "idle" BY <1>11, IdleType DEF Meta, Idle
  <2>3. catalog' \in ColumnType \cup {None} BY <1>11, <1>0, MssqlImportAssumption DEF Meta, At
  <2>4. BudgetInv' BY <1>11, <1>0, <2>2 DEF Meta, BudgetInv, At, Up, Upload
  <2>. QED BY <1>11, <2>1, <2>2, <2>3, <2>4 DEF Meta
<1>12. ASSUME Throw PROVE TypeInv'
  <2>1. run' \in Run /\ run'.up = run.up /\ run'.pc # "idle"
    BY ZenonT(60), <1>12 DEF Throw, RaiseTo, Run
  <2>2. BudgetInv' BY <1>12, <2>1 DEF Throw, BudgetInv, At, Up
  <2>3. faults' \in [error : Nat, crash : Nat, retry : Nat] BY <1>12, FaultsTyped DEF Throw
  <2>. QED BY <1>12, <1>0, <2>1, <2>2, <2>3 DEF Throw, At, Up
<1>13. ASSUME NEW f, Up \in Uploads, ~At("idle"), upload' = Requeued(Up, f)
       PROVE  upload' \in [Uploads -> Upload] /\ (run' = Idle => BudgetInv')
  <2>1. upload' \in [Uploads -> Upload] BY <1>13 DEF Requeued, Upload
  <2>2. ASSUME run' = Idle PROVE BudgetInv'
    <3>1. \A u \in Uploads : upload'[u].attempts = upload[u].attempts BY <1>13 DEF Requeued
    <3>2. \A u \in Uploads \ {Up} : upload'[u] = upload[u] BY <1>13 DEF Requeued
    <3>3. upload'[Up].status \in {"QUEUED", "FAILED"}
          /\ (upload'[Up].status = "QUEUED" => upload[Up].attempts # MaxAttempts)
      BY <1>13 DEF Requeued
    <3>4. upload[Up].attempts \in 0..MaxAttempts BY <1>13 DEF Upload
    <3>5. run'.pc = "idle" BY <2>2 DEF Idle
    <3>6. upload'[Up].status = "QUEUED" => upload'[Up].attempts < MaxAttempts
      <4>. DEFINE a == upload[Up].attempts
      <4>1. upload'[Up].attempts = a BY <1>13, <3>1
      <4>2. a \in Nat /\ a <= MaxAttempts BY <3>4, ConstantTypes
      <4>3. upload'[Up].status = "QUEUED" => a # MaxAttempts BY <3>3
      <4>. HIDE DEF a
      <4>. QED BY <4>1, <4>2, <4>3, ConstantTypes
    <3>7. ASSUME NEW u \in Uploads \ {Up}
          PROVE  /\ upload'[u].status = "created" => upload'[u].attempts = 0
                 /\ upload'[u].status = "QUEUED" => upload'[u].attempts < MaxAttempts
      BY <3>2, <3>7 DEF BudgetInv
    <3>8. \A u \in Uploads :
            /\ upload'[u].status = "created" => upload'[u].attempts = 0
            /\ upload'[u].status = "QUEUED" => upload'[u].attempts < MaxAttempts
      BY <1>13, <3>3, <3>6, <3>7
    <3>. QED BY <3>5, <3>8 DEF BudgetInv, At
  <2>. QED BY <2>1, <2>2
<1>14. ASSUME Catch PROVE TypeInv'
  <2>1. run' \in Run /\ run'.pc = "idle" BY <1>14, IdleType DEF Catch, Idle
  <2>2. stage' \in [Uploads -> SUBSET Rows] BY <1>14, <1>0 DEF Catch, At
  <2>3. upload' \in [Uploads -> Upload] /\ BudgetInv' BY <1>14, <1>0, <1>13 DEF Catch, At
  <2>. QED BY <1>14, <2>1, <2>2, <2>3 DEF Catch
<1>15. ASSUME Crash PROVE TypeInv'
  <2>1. run' \in Run /\ run'.pc = "idle" BY <1>15, IdleType DEF Crash, Idle
  <2>2. faults' \in [error : Nat, crash : Nat, retry : Nat] BY <1>15, FaultsTyped DEF Crash
  <2>3. upload' \in [Uploads -> Upload] /\ BudgetInv' BY <1>15, <1>0, <1>13 DEF Crash
  <2>. QED BY <1>15, <2>1, <2>2, <2>3 DEF Crash
<1>16. CASE UNCHANGED vars BY <1>16 DEF vars, BudgetInv, At, Up
<1>. QED BY <1>1, <1>2, <1>3, <1>4, <1>5, <1>6, <1>7, <1>8, <1>9, <1>10, <1>11, <1>12,
            <1>14, <1>15, <1>16 DEF Next

\* Every state is well typed; attempts stay within max_attempts.
THEOREM TypeCorrect == Spec => []TypeOK
<1>1. Spec => []TypeInv BY InitTypes, TypeStep, PTL DEF Spec
<1>. QED BY <1>1, PTL DEF TypeInv

------------------------------------------------------------------------------
(* The invariant *)

\* A row that is there fits its column or was rounded; what was rounded does not fit.
KeepsValues(t) ==
  /\ t.exists =>
       /\ t.type \in ColumnType
       /\ \A r \in t.rounded : Changes(ValueOf[r], t.type)
       /\ \A r \in Rows \ t.rounded : Copies(t, r) > 0 => ~Changes(ValueOf[r], t.type)
  /\ ~t.exists => t.hashed = {} /\ t.bare = NoBare /\ t.rounded = {}

\* What clients send; a difference makes the table their file until others publish.
ClientInv ==
  \A u \in Uploads :
    /\ upload[u].sent \subseteq File[u] /\ upload[u].toDelete \cap File[u] = {}
    /\ upload[u].differs => ModeOf[u] = "replace" /\ upload[u].status # "created"
    /\ ~upload[u].differs => upload[u].sent = File[u] /\ upload[u].toDelete = {}
    /\ upload[u].differs /\ u \notin moved =>
         (table.hashed \cup upload[u].sent) \ upload[u].toDelete = File[u]

\* The marker says that the rows of an append are in the table, which nobody drops.
MarkerInv ==
  /\ \A u \in marker : ModeOf[u] = "append" /\ table.exists /\ upload[u].status # "created"
  /\ \A u \in Uploads, r \in Rows : ModeOf[u] = "append" /\ r \in File[u] /\ Private(u, r) =>
       /\ Copies(table, r) <= 1
       /\ u \notin marker => Copies(table, r) = 0
       /\ u \in marker /\ u \notin moved => Copies(table, r) = 1

\* What a run has decided still holds, for nobody else touches the table.
RunInv ==
  /\ run.pc \in {"open", "load", "publish", "swap"} =>
       /\ ~Incompatible(Up)
       /\ run.found = table.exists
       /\ run.delta = DeltaReplace(Up)
       /\ upload[Up].differs => run.delta
       /\ run.applied = AlreadyApplied(Up)
  /\ run.pc \in {"load", "publish", "swap"} =>
       /\ stage[Up] \subseteq upload[Up].sent
       /\ run.applied => stage[Up] = {}
  /\ run.pc \in {"publish", "swap"} => Staged(Up)
  /\ run.pc = "swap" => ModeOf[Up] = "upsert" /\ run.merged = Merged(Up)
  /\ run.pc = "meta" /\ ModeOf[Up] = "append" => Up \in marker

IInv == KeepsValues(table) /\ ClientInv /\ MarkerInv /\ RunInv /\ ShowsFile

LEMMA InitInv == Init => IInv
<1>. SUFFICES ASSUME Init PROVE IInv OBVIOUS
<1>1. KeepsValues(table)
  <2>1. CASE table = Absent BY <2>1 DEF KeepsValues, Absent
  <2>2. CASE table = Aged
    <3>1. table.exists /\ table.type = OldType /\ table.rounded = {} /\ table.hashed = {}
          /\ table.bare = [r \in Rows |-> IF r \in Old THEN 1 ELSE 0]
      BY <2>2 DEF Aged, Absent
    <3>2. \A r \in Rows : Copies(table, r) > 0 => r \in Old BY <3>1 DEF Copies
    <3>. QED BY <3>1, <3>2, MssqlImportAssumption DEF KeepsValues
  <2>. QED BY <2>1, <2>2 DEF Init
<1>2. run.pc = "idle" /\ marker = {} BY DEF Init, Idle
<1>3. \A u \in Uploads : /\ upload[u].status = "created" /\ ~upload[u].differs
                         /\ upload[u].sent = File[u] /\ upload[u].toDelete = {}
  BY DEF Init
<1>4. ClientInv BY <1>3 DEF ClientInv
<1>5. \A r \in Rows \ Old : Copies(table, r) = 0
  <2>1. table.hashed = {} /\ \A r \in Rows \ Old : table.bare[r] = 0
    <3>1. CASE table = Absent BY <3>1 DEF Absent, NoBare
    <3>2. CASE table = Aged
      <4>1. table.bare = [r \in Rows |-> IF r \in Old THEN 1 ELSE 0] BY <3>2 DEF Aged, Absent
      <4>2. table.hashed = {} BY <3>2 DEF Aged, Absent
      <4>. QED BY <4>1, <4>2
    <3>. QED BY <3>1, <3>2 DEF Init
  <2>. QED BY <2>1 DEF Copies
<1>6. MarkerInv BY <1>2, <1>5 DEF MarkerInv, Private
<1>7. RunInv BY <1>2 DEF RunInv
<1>8. ShowsFile BY <1>2 DEF ShowsFile, At
<1>. QED BY <1>1, <1>4, <1>6, <1>7, <1>8 DEF IInv

\* Copies are numbers.
LEMMA CopiesType == ASSUME NEW t \in Table, NEW r \in Rows
                    PROVE  Copies(t, r) \in Nat /\ (Copies(t, r) > 0 <=> r \in t.hashed \/ t.bare[r] > 0)
<1>1. t.bare[r] \in Nat BY DEF Table
<1>. QED BY <1>1 DEF Copies

\* What a run has staged are values of its file, which its column keeps.
LEMMA StagedFits ==
  ASSUME TypeInv, IInv, run.pc \in {"publish", "swap"}
  PROVE  /\ Up \in Uploads /\ stage[Up] \subseteq File[Up] /\ upload[Up].sent \subseteq File[Up]
         /\ \A r \in File[Up] : r \in Rows /\ ~Changes(ValueOf[r], TypeOf[Up])
         /\ table.exists /\ (ModeOf[Up] # "replace" \/ run.delta) =>
              /\ Accepts(table.type, TypeOf[Up]) /\ table.type \in ColumnType
              /\ \A r \in File[Up] : ~Changes(ValueOf[r], table.type)
         /\ ~run.applied => stage[Up] = upload[Up].sent
         /\ run.applied => stage[Up] = {} /\ Up \in marker /\ ModeOf[Up] = "append"
         /\ ~upload[Up].differs => upload[Up].sent = File[Up]
<1>1. Up \in Uploads BY DEF TypeInv, TypeOK, Up
<1>2. upload[Up].sent \subseteq File[Up] /\ (~upload[Up].differs => upload[Up].sent = File[Up])
  BY <1>1 DEF IInv, ClientInv
<1>3. stage[Up] \subseteq upload[Up].sent /\ (run.applied => stage[Up] = {}) /\ Staged(Up)
  BY DEF IInv, RunInv
<1>4. \A r \in File[Up] : r \in Rows /\ ~Changes(ValueOf[r], TypeOf[Up])
  BY <1>1, MssqlImportAssumption
<1>5. run.applied => Up \in marker /\ ModeOf[Up] = "append"
  BY DEF IInv, RunInv, AlreadyApplied
<1>6. ASSUME table.exists, ModeOf[Up] # "replace" \/ run.delta
      PROVE  /\ Accepts(table.type, TypeOf[Up]) /\ table.type \in ColumnType
             /\ \A r \in File[Up] : ~Changes(ValueOf[r], table.type)
  <2>1. Accepts(table.type, TypeOf[Up]) BY <1>6 DEF IInv, RunInv, Incompatible, DeltaReplace
  <2>2. table.type \in ColumnType BY <1>6 DEF IInv, KeepsValues
  <2>3. TypeOf[Up] \in ColumnType /\ ValueOf \in [Rows -> Value]
    BY <1>1, MssqlImportAssumption
  <2>. QED BY <1>4, <2>1, <2>2, <2>3, AcceptedKeepsValues
<1>. QED BY <1>1, <1>2, <1>3, <1>4, <1>5, <1>6 DEF Staged

\* Whatever is published is shown by the table it leaves.
LEMMA PublishInv ==
  ASSUME TypeInv, IInv, run.pc \in {"publish", "swap"}, NEW t \in Table, Publish(t),
         marker' = MarkedBy(Up), t.exists, KeepsValues(t),
         t.rounded \cap upload[Up].sent = {},
         ModeOf[Up] = "replace" /\ ~upload[Up].differs => t.hashed = File[Up] /\ t.bare = NoBare,
         upload[Up].differs => t.hashed = (table.hashed \cup stage[Up]) \ upload[Up].toDelete,
         ModeOf[Up] = "upsert" =>
           \A r \in Rows, s \in File[Up] : KeyOf[r] = KeyOf[s] =>
             Copies(t, r) = IF r = s THEN 1 ELSE 0,
         \A r \in Rows \ File[Up] : Copies(t, r) <= Copies(table, r),
         ModeOf[Up] = "append" =>
           \A r \in File[Up] : Private(Up, r) =>
             Copies(t, r) = IF run.applied THEN Copies(table, r) ELSE 1
  PROVE  IInv'
<1>. USE DEF TypeInv, TypeOK
<1>1. Up \in Uploads BY DEF Up
<1>2. table' = t /\ upload' = upload /\ run'.pc = "meta" /\ run'.up = run.up
      /\ moved' = moved \cup {u \in Uploads \ {Up} : upload[u].status # "created"}
      /\ catalog' = catalog
  BY DEF Publish
<1>3. KeepsValues(table)' BY <1>2 DEF KeepsValues, Copies
<1>4. upload[Up].differs => t.hashed = (table.hashed \cup upload[Up].sent) \ upload[Up].toDelete
  BY StagedFits, <1>1 DEF IInv, ClientInv
<1>5. ClientInv'
  <2>. SUFFICES ASSUME NEW u \in Uploads, upload[u].differs, u \notin moved'
                PROVE  (t.hashed \cup upload[u].sent) \ upload[u].toDelete = File[u]
    BY <1>2 DEF IInv, ClientInv
  <2>1. u = Up /\ u \notin moved BY <1>2 DEF IInv, ClientInv
  <2>2. (table.hashed \cup upload[u].sent) \ upload[u].toDelete = File[u]
    BY <2>1 DEF IInv, ClientInv
  <2>. QED BY <1>4, <2>1, <2>2
<1>6. upload[Up].status = "QUEUED"
  <2>1. ~At("idle") BY DEF At
  <2>. QED BY <1>1, <2>1 DEF BudgetInv
<1>7. \A u \in marker' : ModeOf[u] = "append" /\ table'.exists /\ upload'[u].status # "created"
  BY <1>2, <1>6 DEF IInv, MarkerInv, MarkedBy
<1>8. ASSUME NEW u \in Uploads, NEW r \in Rows, ModeOf[u] = "append", r \in File[u], Private(u, r)
      PROVE  /\ Copies(t, r) <= 1
             /\ u \notin marker' => Copies(t, r) = 0
             /\ u \in marker' /\ u \notin moved' => Copies(t, r) = 1
  <2>0. Copies(t, r) \in Nat /\ Copies(table, r) \in Nat BY CopiesType
  <2>1. /\ Copies(table, r) <= 1
        /\ u \notin marker => Copies(table, r) = 0
        /\ u \in marker /\ u \notin moved => Copies(table, r) = 1
    BY <1>8 DEF IInv, MarkerInv
  <2>2. CASE u = Up
    <3>1. Copies(t, r) = IF run.applied THEN Copies(table, r) ELSE 1 BY <1>8, <2>2
    <3>2. u \in marker' BY <1>8, <2>2 DEF MarkedBy
    <3>3. u \notin moved' => u \notin moved BY <1>2
    <3>4. run.applied => u \in marker BY <2>2, StagedFits
    <3>. QED BY <2>0, <2>1, <3>1, <3>2, <3>3, <3>4
  <2>3. CASE u # Up
    <3>1. r \notin File[Up] BY <1>1, <1>8, <2>3 DEF Private
    <3>2. Copies(t, r) <= Copies(table, r) BY <3>1
    <3>3. u \in marker' => u \in marker BY <2>3 DEF MarkedBy
    <3>4. u \in marker => u \in moved' BY <1>2, <2>3 DEF IInv, MarkerInv
    <3>5. u \notin marker' => u \notin marker BY DEF MarkedBy
    <3>. QED BY <2>0, <2>1, <3>2, <3>3, <3>4, <3>5
  <2>. QED BY <2>2, <2>3
<1>9. MarkerInv' BY <1>2, <1>7, <1>8 DEF MarkerInv, Private, Copies
<1>10. RunInv' BY <1>1, <1>2 DEF RunInv, Up, MarkedBy
<1>11. ShowsFile'
  <2>1. Up' = Up BY <1>2 DEF Up
  <2>2. upload[Up].differs /\ Up \notin moved' => t.hashed = File[Up]
    <3>. SUFFICES ASSUME upload[Up].differs, Up \notin moved' PROVE t.hashed = File[Up] OBVIOUS
    <3>1. (table.hashed \cup upload[Up].sent) \ upload[Up].toDelete = File[Up]
      BY <1>1, <1>2 DEF IInv, ClientInv
    <3>. QED BY <1>4, <3>1
  <2>3. ASSUME ModeOf[Up] = "append", NEW r \in File[Up], Private(Up, r)
        PROVE  Copies(t, r) <= 1 /\ (Up \notin moved' => Copies(t, r) = 1)
    <3>1. r \in Rows BY <1>1, ConstantTypes
    <3>2. Up \in marker' BY <2>3 DEF MarkedBy
    <3>. QED BY <1>1, <1>8, <2>3, <3>1, <3>2
  <2>4. \A r : Copies(table', r) = Copies(t, r) BY <1>2 DEF Copies
  <2>. QED BY <1>2, <2>1, <2>2, <2>3, <2>4 DEF ShowsFile, Private, Copies
<1>. QED BY <1>3, <1>5, <1>9, <1>10, <1>11 DEF IInv

------------------------------------------------------------------------------
(* The ways to publish.  Each keeps the invariant, and takes away or       *)
(* rounds only what its import names or narrows.                           *)

\* What OnlyNamedGo asks of a table that takes the place of the old one.
Spares(t) ==
  \A r \in Rows :
    Copies(t, r) < Copies(table, r) \/ r \in t.rounded \ table.rounded => Names(Up, r) \/ Narrows(Up)

\* The staging table as the table: SwapFull and Recreate.
LEMMA NewInv ==
  ASSUME TypeInv, IInv, run.pc = "publish", NEW t \in Table,
         t = New(Up) \/ t = [New(Up) EXCEPT !.stamped = TRUE],
         Publish(t), marker' = MarkedBy(Up), ~upload[Up].differs,
         ModeOf[Up] = "replace" \/ (ModeOf[Up] = "append" /\ ~table.exists)
  PROVE  IInv' /\ Spares(t)
<1>1. /\ t.exists /\ t.type = TypeOf[Up] /\ t.hashed = stage[Up] /\ t.bare = NoBare
      /\ t.rounded = {}
  BY DEF New, Absent
<1>2. ~run.applied
  BY DEF IInv, RunInv, AlreadyApplied
<1>3. stage[Up] = File[Up] /\ Up \in Uploads BY <1>2, StagedFits
<1>4. \A r \in Rows : Copies(t, r) = IF r \in File[Up] THEN 1 ELSE 0
  BY <1>1, <1>3 DEF Copies, NoBare
<1>5. KeepsValues(t)
  <2>1. TypeOf[Up] \in ColumnType BY <1>3, ConstantTypes
  <2>2. \A r \in File[Up] : ~Changes(ValueOf[r], TypeOf[Up]) BY <1>3, MssqlImportAssumption
  <2>. QED BY <1>1, <1>4, <2>1, <2>2 DEF KeepsValues
<1>6. \A r \in Rows : Copies(table, r) \in Nat BY CopiesType DEF TypeInv, TypeOK
<1>7. \A r \in Rows \ File[Up] : Copies(t, r) <= Copies(table, r) BY <1>4, <1>6
<1>8. ModeOf[Up] # "upsert" BY MssqlImportAssumption
<1>9. \A r \in File[Up] : Copies(t, r) = 1 BY <1>3, <1>4, ConstantTypes
<1>10. IInv' BY <1>1, <1>2, <1>3, <1>5, <1>7, <1>8, <1>9, PublishInv
<1>11. Spares(t)
  <2>1. CASE ModeOf[Up] = "replace" BY <2>1 DEF Spares, Names
  <2>2. CASE ~table.exists
    <3>1. \A r \in Rows : Copies(table, r) = 0
      BY <2>2 DEF IInv, KeepsValues, Copies, NoBare
    <3>. QED BY <1>1, <1>4, <3>1 DEF Spares
  <2>. QED BY <2>1, <2>2
<1>. QED BY <1>10, <1>11

LEMMA DifferenceInv ==
  ASSUME TypeInv, IInv, ApplyDifference
  PROVE  IInv' /\ Spares(table')
<1>. DEFINE t == [table EXCEPT !.hashed = (@ \cup stage[Up]) \ upload[Up].toDelete,
                               !.rounded = @ \cup Rounded(stage[Up] \ table.hashed, table.type)]
<1>1. run.pc = "publish" /\ upload[Up].differs /\ Publish(t) /\ marker' = marker
  BY DEF ApplyDifference, At
<1>2. Up \in Uploads /\ ModeOf[Up] = "replace" /\ run.delta
  BY <1>1, StagedFits DEF IInv, RunInv, ClientInv
<1>3. table.exists /\ marker' = MarkedBy(Up)
  BY <1>1, <1>2 DEF IInv, RunInv, DeltaReplace, MarkedBy
<1>4. /\ stage[Up] \subseteq File[Up] /\ table.type \in ColumnType /\ ~run.applied
      /\ \A r \in File[Up] : r \in Rows /\ ~Changes(ValueOf[r], table.type)
  BY <1>1, <1>2, <1>3, StagedFits
<1>5. Rounded(stage[Up] \ table.hashed, table.type) = {} BY <1>4 DEF Rounded
<1>6. /\ t \in Table /\ t.exists /\ t.type = table.type /\ t.bare = table.bare
      /\ t.hashed = (table.hashed \cup stage[Up]) \ upload[Up].toDelete
      /\ t.rounded = table.rounded
  BY ZenonT(60), <1>2, <1>3, <1>5, BuiltTypes DEF TypeInv, TypeOK, Table
<1>. HIDE DEF t
<1>7. table \in Table BY DEF TypeInv, TypeOK
<1>8. \A r \in Rows \ File[Up] : Copies(t, r) <= Copies(table, r)
  <2>. SUFFICES ASSUME NEW r \in Rows \ File[Up] PROVE Copies(t, r) <= Copies(table, r) OBVIOUS
  <2>1. r \in t.hashed => r \in table.hashed BY <1>4, <1>6
  <2>2. table.bare[r] \in Nat BY <1>7 DEF Table
  <2>. QED BY <1>6, <2>1, <2>2 DEF Copies
<1>9. table.rounded \cap File[Up] = {}
  BY <1>3, <1>4 DEF IInv, KeepsValues
<1>10. KeepsValues(t)
  <2>1. \A r \in t.rounded : Changes(ValueOf[r], t.type) BY <1>3, <1>6 DEF IInv, KeepsValues
  <2>2. ASSUME NEW r \in Rows \ t.rounded, Copies(t, r) > 0 PROVE ~Changes(ValueOf[r], t.type)
    <3>1. CASE r \in File[Up] BY <1>4, <1>6, <3>1
    <3>2. CASE r \notin File[Up]
      <4>1. Copies(table, r) > 0 BY <1>6, <1>7, <1>8, <2>2, <3>2, CopiesType
      <4>. QED BY <1>3, <1>6, <2>2, <4>1 DEF IInv, KeepsValues
    <3>. QED BY <3>1, <3>2
  <2>. QED BY <1>4, <1>6, <2>1, <2>2 DEF KeepsValues
<1>11. t.rounded \cap upload[Up].sent = {} BY <1>1, <1>6, <1>9, StagedFits
<1>12. IInv' BY <1>1, <1>2, <1>3, <1>6, <1>8, <1>10, <1>11, PublishInv
<1>13. Spares(t)
  <2>. SUFFICES ASSUME NEW r \in Rows, Copies(t, r) < Copies(table, r)
                PROVE  r \in upload[Up].toDelete
    BY <1>6 DEF Spares, Names
  <2>1. table.bare[r] \in Nat BY <1>7 DEF Table
  <2>2. r \in table.hashed /\ r \notin t.hashed BY <1>6, <2>1 DEF Copies
  <2>. QED BY <1>6, <2>2
<1>14. table' = t BY <1>1 DEF Publish
<1>. QED BY <1>12, <1>13, <1>14

LEMMA AppendInv ==
  ASSUME TypeInv, IInv, Append
  PROVE  IInv' /\ Spares(table')
<1>. DEFINE t == [table EXCEPT !.bare = [r \in Rows |-> @[r] + (IF r \in stage[Up] THEN 1 ELSE 0)],
                               !.rounded = @ \cup Rounded(stage[Up], table.type)]
<1>1. run.pc = "publish" /\ ModeOf[Up] = "append" /\ Publish(t) /\ marker' = MarkedBy(Up) /\ run.found
  BY DEF Append, At
<1>2. Up \in Uploads /\ table.exists BY <1>1, StagedFits DEF IInv, RunInv
<1>3. /\ stage[Up] \subseteq File[Up] /\ table.type \in ColumnType
      /\ \A r \in File[Up] : r \in Rows /\ ~Changes(ValueOf[r], table.type)
  BY <1>1, <1>2, StagedFits
<1>4. Rounded(stage[Up], table.type) = {} BY <1>3 DEF Rounded
<1>5. /\ t \in Table /\ t.exists /\ t.type = table.type /\ t.hashed = table.hashed
      /\ t.rounded = table.rounded
      /\ \A r \in Rows : t.bare[r] = table.bare[r] + (IF r \in stage[Up] THEN 1 ELSE 0)
  BY ZenonT(60), <1>2, <1>4, BuiltTypes DEF TypeInv, TypeOK, Table
<1>. HIDE DEF t
<1>6. table \in Table BY DEF TypeInv, TypeOK
<1>7. \A r \in Rows : Copies(t, r) = Copies(table, r) + (IF r \in stage[Up] THEN 1 ELSE 0)
  <2>. SUFFICES ASSUME NEW r \in Rows
                PROVE  Copies(t, r) = Copies(table, r) + (IF r \in stage[Up] THEN 1 ELSE 0)
    OBVIOUS
  <2>1. table.bare[r] \in Nat BY <1>6 DEF Table
  <2>. QED BY <1>5, <2>1 DEF Copies
<1>8. \A r \in Rows : Copies(table, r) \in Nat BY <1>6, CopiesType
<1>9. table.rounded \cap File[Up] = {} BY <1>2, <1>3 DEF IInv, KeepsValues
<1>10. KeepsValues(t)
  <2>1. \A r \in t.rounded : Changes(ValueOf[r], t.type) BY <1>2, <1>5 DEF IInv, KeepsValues
  <2>2. ASSUME NEW r \in Rows \ t.rounded, Copies(t, r) > 0 PROVE ~Changes(ValueOf[r], t.type)
    <3>1. CASE r \in File[Up] BY <1>3, <1>5, <3>1
    <3>2. CASE r \notin File[Up]
      <4>1. Copies(table, r) > 0 BY <1>3, <1>7, <1>8, <2>2, <3>2
      <4>. QED BY <1>2, <1>5, <2>2, <4>1 DEF IInv, KeepsValues
    <3>. QED BY <3>1, <3>2
  <2>. QED BY <1>3, <1>5, <2>1, <2>2 DEF KeepsValues
<1>11. \A r \in Rows \ File[Up] : Copies(t, r) <= Copies(table, r) BY <1>3, <1>7, <1>8
<1>12. ASSUME NEW r \in File[Up], Private(Up, r)
       PROVE  Copies(t, r) = IF run.applied THEN Copies(table, r) ELSE 1
  <2>1. r \in Rows BY <1>3
  <2>2. CASE run.applied
    <3>1. stage[Up] = {} BY <1>1, <2>2, StagedFits
    <3>. QED BY <1>7, <1>8, <2>1, <2>2, <3>1
  <2>3. CASE ~run.applied
    <3>1. ~upload[Up].differs BY <1>1, <1>2 DEF IInv, ClientInv
    <3>2. stage[Up] = File[Up] BY <1>1, <2>3, <3>1, StagedFits
    <3>3. Up \notin marker BY <1>1, <1>2, <2>3 DEF IInv, RunInv, AlreadyApplied
    <3>4. Copies(table, r) = 0 BY <1>1, <1>2, <1>12, <2>1, <3>3 DEF IInv, MarkerInv
    <3>. QED BY <1>7, <2>1, <2>3, <3>2, <3>4
  <2>. QED BY <2>2, <2>3
<1>13. ~upload[Up].differs /\ ModeOf[Up] # "upsert" /\ ModeOf[Up] # "replace"
  BY <1>1, <1>2 DEF IInv, ClientInv
<1>14. t.rounded \cap upload[Up].sent = {} BY <1>1, <1>5, <1>9, StagedFits
<1>15. IInv' BY <1>1, <1>5, <1>10, <1>11, <1>12, <1>13, <1>14, PublishInv
<1>16. Spares(t) BY <1>5, <1>7, <1>8 DEF Spares
<1>17. table' = t BY <1>1 DEF Publish
<1>. QED BY <1>15, <1>16, <1>17

\* The merged table holds the file in the place of its keys.
LEMMA MergedHolds ==
  ASSUME TypeInv, IInv, run.pc \in {"publish", "swap"}, ModeOf[Up] = "upsert"
  PROVE  /\ Merged(Up) \in Table /\ Merged(Up).exists /\ Merged(Up).type = TypeOf[Up]
         /\ \A r \in Rows : r \in Kept(Up) <=> \A s \in File[Up] : KeyOf[s] # KeyOf[r]
         /\ \A r \in Rows : Copies(Merged(Up), r) =
              IF r \in File[Up] THEN 1 ELSE IF r \in Kept(Up) THEN Copies(table, r) ELSE 0
         /\ \A r \in Rows : r \in Merged(Up).rounded <=>
              /\ r \in Kept(Up)
              /\ \/ r \in table.rounded
                 \/ (Copies(table, r) > 0 /\ Changes(ValueOf[r], TypeOf[Up]))
<1>1. Up \in Uploads /\ table \in Table BY StagedFits DEF TypeInv, TypeOK
<1>2. stage[Up] = File[Up] /\ File[Up] \subseteq Rows
  BY <1>1, StagedFits, ConstantTypes DEF IInv, ClientInv
<1>3. \A r \in Rows : r \in Kept(Up) <=> \A s \in File[Up] : KeyOf[s] # KeyOf[r]
  BY <1>2 DEF Kept
<1>4. Merged(Up) \in Table BY <1>1, BuiltTypes DEF TypeInv
<1>5. /\ Merged(Up).exists /\ Merged(Up).type = TypeOf[Up]
      /\ Merged(Up).hashed = File[Up] \cup (table.hashed \cap Kept(Up))
      /\ Merged(Up).bare = CarriedBare(Up)
      /\ Merged(Up).rounded = (table.rounded \cap Kept(Up)) \cup Rounded(Carried(Up), TypeOf[Up])
  BY <1>2 DEF Merged, New, Absent, CarriedHashed
<1>6. \A r \in Rows : CarriedBare(Up)[r] = IF r \in Kept(Up) THEN table.bare[r] ELSE 0
  BY DEF CarriedBare
<1>7. \A r \in File[Up] : r \notin Kept(Up) BY <1>2 DEF Kept
<1>8. ASSUME NEW r \in Rows
      PROVE  Copies(Merged(Up), r) =
               IF r \in File[Up] THEN 1 ELSE IF r \in Kept(Up) THEN Copies(table, r) ELSE 0
  <2>1. table.bare[r] \in Nat BY <1>1 DEF Table
  <2>2. CASE r \in File[Up] BY <1>5, <1>6, <1>7, <2>2 DEF Copies
  <2>3. CASE r \notin File[Up] BY <1>5, <1>6, <2>1, <2>3 DEF Copies
  <2>. QED BY <2>2, <2>3
<1>9. ASSUME NEW r \in Rows PROVE r \in Carried(Up) <=> r \in Kept(Up) /\ Copies(table, r) > 0
  <2>1. Copies(table, r) > 0 <=> r \in table.hashed \/ table.bare[r] > 0 BY <1>1, CopiesType
  <2>. QED BY <1>6, <2>1 DEF Carried, CarriedHashed
<1>10. ASSUME NEW r \in Rows
       PROVE  r \in Rounded(Carried(Up), TypeOf[Up]) <=>
                r \in Carried(Up) /\ Changes(ValueOf[r], TypeOf[Up])
  BY DEF Rounded
<1>. QED BY <1>3, <1>4, <1>5, <1>8, <1>9, <1>10

LEMMA MergedInv ==
  ASSUME TypeInv, IInv, SwapMerged
  PROVE  IInv' /\ Spares(table')
<1>. DEFINE t == Merged(Up)
<1>1. run.pc = "swap" /\ ModeOf[Up] = "upsert" /\ Publish(t) /\ marker' = marker
  BY DEF SwapMerged, At, IInv, RunInv
<1>2. Up \in Uploads /\ marker' = MarkedBy(Up) /\ TypeOf[Up] \in ColumnType
      /\ table \in Table /\ ValueOf \in [Rows -> Value]
  BY <1>1, StagedFits, ConstantTypes, MssqlImportAssumption DEF MarkedBy, TypeInv, TypeOK
<1>3. /\ t \in Table /\ t.exists /\ t.type = TypeOf[Up]
      /\ \A r \in Rows : r \in Kept(Up) <=> \A s \in File[Up] : KeyOf[s] # KeyOf[r]
      /\ \A r \in Rows : Copies(t, r) =
           IF r \in File[Up] THEN 1 ELSE IF r \in Kept(Up) THEN Copies(table, r) ELSE 0
      /\ \A r \in Rows : r \in t.rounded <=>
           /\ r \in Kept(Up)
           /\ \/ r \in table.rounded
              \/ (Copies(table, r) > 0 /\ Changes(ValueOf[r], TypeOf[Up]))
  BY <1>1, MergedHolds
<1>. HIDE DEF t
<1>4. \A r \in Rows : Copies(table, r) \in Nat BY <1>2, CopiesType
<1>5. \A r \in File[Up] : r \in Rows /\ r \notin Kept(Up) /\ ~Changes(ValueOf[r], TypeOf[Up])
  BY <1>1, <1>3, StagedFits
<1>6. t.rounded \subseteq Rows BY <1>3 DEF Table
<1>7. KeepsValues(t)
  <2>1. ASSUME NEW r \in t.rounded PROVE Changes(ValueOf[r], t.type)
    <3>1. CASE r \in table.rounded
      <4>1. table.exists /\ Changes(ValueOf[r], table.type) /\ table.type \in ColumnType
        BY <3>1 DEF IInv, KeepsValues
      <4>2. Accepts(table.type, TypeOf[Up]) BY <1>1, <4>1, StagedFits
      <4>3. ValueOf[r] \in Value BY <1>2, <1>6
      <4>. QED BY <1>2, <1>3, <4>1, <4>2, <4>3, AcceptedKeepsValues
    <3>. QED BY <1>3, <1>6, <3>1
  <2>2. ASSUME NEW r \in Rows \ t.rounded, Copies(t, r) > 0 PROVE ~Changes(ValueOf[r], t.type)
    BY <1>3, <1>5, <2>2
  <2>. QED BY <1>2, <1>3, <2>1, <2>2 DEF KeepsValues
<1>8. \A r \in Rows \ File[Up] : Copies(t, r) <= Copies(table, r) BY <1>3, <1>4
<1>9. ASSUME NEW r \in Rows, NEW s \in File[Up], KeyOf[r] = KeyOf[s]
      PROVE  Copies(t, r) = IF r = s THEN 1 ELSE 0
  <2>1. r \notin Kept(Up) BY <1>3, <1>9
  <2>2. r \in File[Up] => r = s BY <1>2, <1>9, MssqlImportAssumption
  <2>. QED BY <1>3, <2>1, <2>2
<1>10. t.rounded \cap upload[Up].sent = {} BY <1>1, <1>3, <1>5, <1>6, StagedFits
<1>11. ~upload[Up].differs /\ ModeOf[Up] # "append" /\ ModeOf[Up] # "replace"
  BY <1>1, <1>2 DEF IInv, ClientInv
<1>12. IInv' BY <1>1, <1>2, <1>3, <1>7, <1>8, <1>9, <1>10, <1>11, PublishInv
<1>13. Spares(t)
  <2>1. ASSUME NEW r \in Rows, Copies(t, r) < Copies(table, r) PROVE Names(Up, r)
    <3>1. r \notin Kept(Up) \/ r \in File[Up] BY <1>3, <1>4, <2>1
    <3>2. \E s \in File[Up] : KeyOf[s] = KeyOf[r] BY <1>3, <3>1
    <3>. QED BY <1>1, <3>2 DEF Names
  <2>2. ASSUME NEW r \in Rows, r \in t.rounded \ table.rounded PROVE Narrows(Up)
    <3>1. Copies(table, r) > 0 /\ Changes(ValueOf[r], TypeOf[Up]) BY <1>3, <2>2
    <3>2. table.exists BY <3>1 DEF IInv, KeepsValues, Copies, NoBare
    <3>3. table.type \in ColumnType /\ ~Changes(ValueOf[r], table.type)
      BY <2>2, <3>1, <3>2 DEF IInv, KeepsValues
    <3>4. ~Accepts(TypeOf[Up], table.type) BY <1>2, <3>1, <3>3, AcceptedKeepsValues
    <3>. QED BY <1>1, <3>4 DEF Narrows
  <2>. QED BY <2>1, <2>2 DEF Spares
<1>14. table' = t BY <1>1 DEF Publish
<1>. QED BY <1>12, <1>13, <1>14

------------------------------------------------------------------------------
(* The other steps *)

\* A step that publishes nothing and changes nothing that a client sends.
LEMMA QuietStep ==
  ASSUME TypeInv, IInv, marker' = marker, moved' = moved,
         table'.exists = table.exists, table'.type = table.type, table'.hashed = table.hashed,
         table'.bare = table.bare, table'.rounded = table.rounded,
         \A u \in Uploads :
           /\ upload'[u].differs = upload[u].differs /\ upload'[u].sent = upload[u].sent
           /\ upload'[u].toDelete = upload[u].toDelete
           /\ upload'[u].status = "created" <=> upload[u].status = "created"
  PROVE  KeepsValues(table)' /\ ClientInv' /\ MarkerInv'
<1>1. \A r : Copies(table', r) = Copies(table, r) BY DEF Copies
<1>2. KeepsValues(table') BY <1>1 DEF IInv, KeepsValues
<1>3. ClientInv' BY DEF IInv, ClientInv
<1>4. MarkerInv'
  <2>1. \A r \in Rows : Copies(table, r)' = Copies(table, r) BY <1>1 DEF Copies
  <2>2. \A u, r : Private(u, r)' = Private(u, r) BY DEF Private
  <2>. QED BY <2>1, <2>2 DEF IInv, MarkerInv, TypeInv, TypeOK
<1>. QED BY <1>2, <1>3, <1>4 DEF KeepsValues, Copies

\* The run, when a client's upload changes that it is not of.
LEMMA ClientStep ==
  ASSUME TypeInv, IInv, NEW u \in Uploads, At("idle") \/ Up # u,
         \A v \in Uploads \ {u} : upload'[v] = upload[v],
         UNCHANGED <<table, marker, stage, catalog, run, moved>>
  PROVE  RunInv' /\ ShowsFile'
<1>1. CASE At("idle") BY <1>1 DEF At, RunInv, ShowsFile
<1>2. CASE ~At("idle")
  <2>1. Up \in Uploads \ {u} BY <1>2 DEF TypeInv, TypeOK, Up, At
  <2>2. upload'[Up] = upload[Up] /\ Up' = Up BY <2>1 DEF Up
  <2>. USE DEF IInv
  <2>3. RunInv'
    <3>1. RunInv OBVIOUS
    <3>2. /\ Incompatible(Up)' = Incompatible(Up) /\ DeltaReplace(Up)' = DeltaReplace(Up)
          /\ AlreadyApplied(Up)' = AlreadyApplied(Up) /\ Staged(Up)' = Staged(Up)
          /\ Merged(Up)' = Merged(Up)
      BY <2>2 DEF Incompatible, DeltaReplace, AlreadyApplied, Staged, Merged, New, Carried,
                  CarriedHashed, CarriedBare, Kept, Rounded
    <3>. QED BY <2>2, <3>1, <3>2 DEF RunInv
  <2>4. ShowsFile' BY <2>2 DEF ShowsFile, At, Copies, Private
  <2>. QED BY <2>3, <2>4
<1>. QED BY <1>1, <1>2

LEMMA InvStep == TypeInv /\ IInv /\ [Next]_vars => IInv' /\ (Spares(table') \/ UNCHANGED vars)
<1>. SUFFICES ASSUME TypeInv, IInv, [Next]_vars PROVE IInv' /\ (Spares(table') \/ UNCHANGED vars)
  OBVIOUS
<1>0. ~At("idle") => Up \in Uploads /\ upload[Up].status = "QUEUED"
  BY DEF At, Up, TypeInv, TypeOK, BudgetInv
<1>a. ASSUME \A r \in Rows : Copies(table', r) = Copies(table, r), table'.rounded = table.rounded
      PROVE  Spares(table')
  <2>1. \A r \in Rows : Copies(table, r) \in Nat BY CopiesType DEF TypeInv, TypeOK
  <2>. QED BY <1>a, <2>1 DEF Spares
<1>b. table' = table => Spares(table') BY <1>a
<1>1. ASSUME NEW u \in Uploads, ConfirmDifference(u) PROVE IInv' /\ table' = table
  <2>. DEFINE w == [upload[u] EXCEPT !.status = "QUEUED", !.differs = TRUE,
                                     !.sent = File[u] \ table.hashed, !.toDelete = table.hashed \ File[u]]
  <2>1. /\ upload' = [upload EXCEPT ![u] = w] /\ upload[u].status = "created" /\ u \in Differs
        /\ UNCHANGED <<table, marker, stage, catalog, run, moved>>
    BY <1>1 DEF ConfirmDifference, Ready
  <2>2. /\ w.status = "QUEUED" /\ w.differs /\ w.sent = File[u] \ table.hashed
        /\ w.toDelete = table.hashed \ File[u]
    BY DEF TypeInv, TypeOK, Upload
  <2>. HIDE DEF w
  <2>3. upload'[u] = w /\ \A v \in Uploads \ {u} : upload'[v] = upload[v]
    BY <2>1 DEF TypeInv, TypeOK
  <2>4. At("idle") \/ Up # u BY <1>0, <2>1
  <2>5. RunInv' /\ ShowsFile' BY <2>1, <2>3, <2>4, ClientStep
  <2>6. ModeOf[u] = "replace" BY <2>1, MssqlImportAssumption
  <2>7. ClientInv'
    <3>. SUFFICES ASSUME NEW v \in Uploads
                  PROVE  /\ upload'[v].sent \subseteq File[v] /\ upload'[v].toDelete \cap File[v] = {}
                         /\ upload'[v].differs => ModeOf[v] = "replace" /\ upload'[v].status # "created"
                         /\ ~upload'[v].differs => upload'[v].sent = File[v] /\ upload'[v].toDelete = {}
                         /\ upload'[v].differs /\ v \notin moved' =>
                              (table'.hashed \cup upload'[v].sent) \ upload'[v].toDelete = File[v]
      BY DEF ClientInv
    <3>1. CASE v = u BY <2>1, <2>2, <2>3, <2>6, <3>1
    <3>2. CASE v # u BY <2>1, <2>3, <3>2 DEF IInv, ClientInv
    <3>. QED BY <3>1, <3>2
  <2>8. MarkerInv' BY <2>1, <2>2, <2>3 DEF IInv, MarkerInv, Copies, Private
  <2>9. KeepsValues(table)' BY <2>1 DEF IInv, KeepsValues, Copies
  <2>. QED BY <2>1, <2>5, <2>7, <2>8, <2>9 DEF IInv
<1>2. ASSUME NEW u \in Uploads, Confirm(u) PROVE IInv' /\ table' = table
  <2>. DEFINE w == [upload[u] EXCEPT !.status = "QUEUED", !.differs = FALSE,
                                     !.sent = File[u], !.toDelete = {}]
  <2>1. /\ upload' = [upload EXCEPT ![u] = w] /\ upload[u].status = "created"
        /\ UNCHANGED <<table, marker, stage, catalog, run, moved>>
    BY <1>2 DEF Confirm, Ready
  <2>2. w.status = "QUEUED" /\ ~w.differs /\ w.sent = File[u] /\ w.toDelete = {}
    BY DEF TypeInv, TypeOK, Upload
  <2>. HIDE DEF w
  <2>3. upload'[u] = w /\ \A v \in Uploads \ {u} : upload'[v] = upload[v]
    BY <2>1 DEF TypeInv, TypeOK
  <2>4. At("idle") \/ Up # u BY <1>0, <2>1
  <2>5. RunInv' /\ ShowsFile' BY <2>1, <2>3, <2>4, ClientStep
  <2>6. ClientInv' BY <2>1, <2>2, <2>3 DEF IInv, ClientInv
  <2>7. MarkerInv' BY <2>1, <2>2, <2>3 DEF IInv, MarkerInv, Copies, Private
  <2>8. KeepsValues(table)' BY <2>1 DEF IInv, KeepsValues, Copies
  <2>. QED BY <2>1, <2>5, <2>6, <2>7, <2>8 DEF IInv
<1>3. ASSUME NEW u \in Uploads, Retry(u) PROVE IInv' /\ table' = table
  <2>1. /\ upload[u].status = "FAILED" /\ \A v \in Uploads \ {u} : upload'[v] = upload[v]
        /\ UNCHANGED <<table, marker, stage, catalog, run, moved>>
    BY <1>3 DEF Retry, TypeInv, TypeOK
  <2>2. /\ upload'[u].differs = upload[u].differs /\ upload'[u].sent = upload[u].sent
        /\ upload'[u].toDelete = upload[u].toDelete /\ upload'[u].status = "QUEUED"
    BY <1>3 DEF Retry, TypeInv, TypeOK, Upload
  <2>3. RunInv' /\ ShowsFile' BY <1>0, <2>1, ClientStep
  <2>. QED BY <2>1, <2>2, <2>3, QuietStep DEF IInv
<1>4. ASSUME NEW u \in Uploads, Start(u) PROVE IInv' /\ table' = table
  <2>1. run'.pc = "look" BY <1>4 DEF Start, Idle
  <2>2. \A v \in Uploads : /\ upload'[v].differs = upload[v].differs /\ upload'[v].sent = upload[v].sent
                           /\ upload'[v].toDelete = upload[v].toDelete
                           /\ upload'[v].status = upload[v].status
    BY <1>4 DEF Start, TypeInv, TypeOK, Upload
  <2>3. RunInv' /\ ShowsFile' BY <2>1 DEF RunInv, ShowsFile, At
  <2>. QED BY <1>4, <2>2, <2>3, QuietStep DEF Start, IInv
<1>5. ASSUME Look PROVE IInv' /\ table' = table
  <2>1. UNCHANGED <<table, marker, stage, catalog, upload, moved>> /\ At("look") BY <1>5 DEF Look
  <2>2. ShowsFile' /\ RunInv'
    <3>1. CASE Incompatible(Up) \/ Outdated(Up)
      <4>1. run'.pc = "catch" BY <1>5, <3>1 DEF Look, RaiseTo, TypeInv, TypeOK, Run
      <4>. QED BY <4>1 DEF ShowsFile, RunInv, At
    <3>2. CASE ~(Incompatible(Up) \/ Outdated(Up))
      <4>1. /\ run'.pc = "open" /\ run'.up = run.up /\ run'.found = table.exists
            /\ run'.delta = DeltaReplace(Up) /\ run'.applied = AlreadyApplied(Up)
        BY <1>5, <3>2 DEF Look, TypeInv, TypeOK, Run
      <4>2. Up' = Up BY <4>1 DEF Up
      <4>3. upload[Up].differs => DeltaReplace(Up) BY <3>2 DEF Outdated
      <4>. QED BY <2>1, <3>2, <4>1, <4>2, <4>3
           DEF ShowsFile, RunInv, At, Incompatible, DeltaReplace, AlreadyApplied
    <3>. QED BY <3>1, <3>2
  <2>. QED BY <2>1, <2>2, QuietStep DEF IInv
<1>6. ASSUME OpenStage PROVE IInv' /\ table' = table
  <2>1. UNCHANGED <<table, marker, catalog, upload, moved>> /\ run.pc = "open"
        /\ run' = [run EXCEPT !.pc = "load"] /\ stage'[Up] = {}
    BY <1>0, <1>6 DEF OpenStage, At, GoTo, TypeInv, TypeOK
  <2>2. run'.pc = "load" /\ run'.up = run.up /\ run'.found = run.found /\ run'.delta = run.delta
        /\ run'.applied = run.applied /\ Up' = Up
    BY <2>1 DEF TypeInv, TypeOK, Run, Up
  <2>3. ShowsFile' /\ RunInv'
    BY <2>1, <2>2 DEF IInv, ShowsFile, RunInv, At, Incompatible, DeltaReplace, AlreadyApplied
  <2>. QED BY <2>1, <2>3, QuietStep DEF IInv
<1>7. ASSUME LoadBatch PROVE IInv' /\ table' = table
  <2>1. UNCHANGED <<table, marker, catalog, upload, run, moved>> /\ run.pc = "load" /\ ~run.applied
    BY <1>7 DEF LoadBatch, At
  <2>2. stage'[Up] \subseteq upload[Up].sent
    BY <1>0, <1>7 DEF LoadBatch, At, TypeInv, TypeOK, IInv, RunInv
  <2>3. ShowsFile' /\ RunInv'
    BY <2>1, <2>2 DEF IInv, ShowsFile, RunInv, At, Incompatible, DeltaReplace, AlreadyApplied, Up
  <2>. QED BY <2>1, <2>3, QuietStep DEF IInv
<1>8. ASSUME LoadEnds PROVE IInv' /\ table' = table
  <2>1. UNCHANGED <<table, marker, stage, catalog, upload, moved>> /\ run.pc = "load" /\ Staged(Up)
        /\ run' = [run EXCEPT !.pc = "publish"]
    BY <1>8 DEF LoadEnds, At, GoTo
  <2>2. run'.pc = "publish" /\ run'.up = run.up /\ run'.found = run.found /\ run'.delta = run.delta
        /\ run'.applied = run.applied /\ Up' = Up
    BY <2>1 DEF TypeInv, TypeOK, Run, Up
  <2>3. ShowsFile' /\ RunInv'
    BY <2>1, <2>2
    DEF IInv, ShowsFile, RunInv, At, Incompatible, DeltaReplace, AlreadyApplied, Staged
  <2>. QED BY <2>1, <2>3, QuietStep DEF IInv
<1>9. ASSUME SwapFull \/ Recreate PROVE IInv' /\ Spares(table')
  <2>1. PICK t : (t = New(Up) \/ t = [New(Up) EXCEPT !.stamped = TRUE]) /\ Publish(t)
    BY <1>9 DEF SwapFull, Recreate
  <2>2. run.pc = "publish" BY <1>9 DEF SwapFull, Recreate, At
  <2>3. Up \in Uploads BY <1>0, <2>2 DEF At
  <2>4. t \in Table BY <2>1, <2>3, BuiltTypes DEF TypeInv
  <2>5. ModeOf[Up] = "replace" \/ (ModeOf[Up] = "append" /\ ~table.exists)
    BY <1>9, <2>2, <2>3, MssqlImportAssumption DEF SwapFull, Recreate, IInv, RunInv, DeltaReplace
  <2>6. ~upload[Up].differs BY <1>9, <2>2 DEF SwapFull, Recreate, IInv, RunInv
  <2>7. marker' = MarkedBy(Up)
    <3>1. CASE SwapFull
      <4>1. ModeOf[Up] = "replace" BY <3>1, <2>2 DEF SwapFull, IInv, RunInv, DeltaReplace
      <4>. QED BY <3>1, <4>1 DEF SwapFull, MarkedBy
    <3>. QED BY <1>9, <3>1 DEF Recreate
  <2>8. table' = t BY <2>1 DEF Publish
  <2>. QED BY <2>1, <2>2, <2>4, <2>5, <2>6, <2>7, <2>8, NewInv
<1>10. ASSUME BuildMerged PROVE IInv' /\ Spares(table')
  <2>1. UNCHANGED <<marker, stage, catalog, upload, moved>> /\ run.pc = "publish"
        /\ ModeOf[Up] = "upsert" /\ run' = [run EXCEPT !.pc = "swap", !.merged = Merged(Up)]
        /\ table' = [table EXCEPT !.stamped = table.exists]
    BY <1>10 DEF BuildMerged, At
  <2>2. run'.pc = "swap" /\ run'.up = run.up /\ run'.found = run.found /\ run'.delta = run.delta
        /\ run'.applied = run.applied /\ run'.merged = Merged(Up) /\ Up' = Up
    BY <2>1 DEF TypeInv, TypeOK, Run, Up
  <2>3. /\ table'.exists = table.exists /\ table'.type = table.type /\ table'.hash = table.hash
        /\ table'.hashed = table.hashed /\ table'.bare = table.bare /\ table'.rounded = table.rounded
    BY <2>1 DEF TypeInv, TypeOK, Table
  <2>4. Merged(Up)' = Merged(Up)
    BY <2>1, <2>2, <2>3 DEF Merged, New, Carried, CarriedHashed, CarriedBare, Kept, Rounded
  <2>5. ShowsFile' /\ RunInv'
    BY <2>1, <2>2, <2>3, <2>4
    DEF IInv, ShowsFile, RunInv, At, Incompatible, DeltaReplace, AlreadyApplied, Staged
  <2>6. Spares(table') BY <1>a, <2>3 DEF Copies
  <2>. QED BY <2>1, <2>3, <2>5, <2>6, QuietStep DEF IInv
<1>11. ASSUME NEW f, ~At("idle"), upload' = Requeued(Up, f)
       PROVE  \A u \in Uploads :
                /\ upload'[u].differs = upload[u].differs /\ upload'[u].sent = upload[u].sent
                /\ upload'[u].toDelete = upload[u].toDelete
                /\ upload'[u].status = "created" <=> upload[u].status = "created"
  BY <1>0, <1>11 DEF Requeued, TypeInv, TypeOK, Upload
<1>12. ASSUME Meta PROVE IInv' /\ table' = table
  <2>1. ~At("idle") BY <1>12 DEF Meta, At
  <2>2. \A u \in Uploads :
          /\ upload'[u].differs = upload[u].differs /\ upload'[u].sent = upload[u].sent
          /\ upload'[u].toDelete = upload[u].toDelete
          /\ upload'[u].status = "created" <=> upload[u].status = "created"
    BY <1>0, <1>12, <2>1 DEF Meta, TypeInv, TypeOK, Upload
  <2>3. run'.pc = "idle" BY <1>12 DEF Meta, Idle
  <2>4. RunInv' /\ ShowsFile' BY <2>3 DEF RunInv, ShowsFile, At
  <2>. QED BY <1>12, <2>2, <2>4, QuietStep DEF Meta, IInv
<1>13. ASSUME Throw PROVE IInv' /\ table' = table
  <2>1. run'.pc = "catch" BY <1>13 DEF Throw, RaiseTo, TypeInv, TypeOK, Run
  <2>2. RunInv' /\ ShowsFile' BY <2>1 DEF RunInv, ShowsFile, At
  <2>. QED BY <1>13, <2>2, QuietStep DEF Throw, IInv
<1>14. ASSUME Catch \/ Crash PROVE IInv' /\ table' = table
  <2>1. ~At("idle") /\ run'.pc = "idle"
    <3>1. CASE Catch BY <3>1 DEF Catch, Idle, At
    <3>2. CASE Crash BY <3>2 DEF Crash, Idle
    <3>. QED BY <1>14, <3>1, <3>2
  <2>2. \E f : upload' = Requeued(Up, f) BY <1>14 DEF Catch, Crash
  <2>3. RunInv' /\ ShowsFile' BY <2>1 DEF RunInv, ShowsFile, At
  <2>4. UNCHANGED <<table, marker, moved>> BY <1>14 DEF Catch, Crash
  <2>. QED BY <1>11, <2>1, <2>2, <2>3, <2>4, QuietStep DEF IInv
<1>15. CASE UNCHANGED vars
  <2>1. KeepsValues(table)' /\ ClientInv' /\ MarkerInv' BY <1>15, QuietStep DEF vars
  <2>2. RunInv' /\ ShowsFile'
    <3>1. CASE At("idle") BY <1>15, <3>1 DEF vars, RunInv, ShowsFile, At
    <3>2. CASE ~At("idle")
      <4>. QED
        BY <1>15, <3>2 DEF vars, IInv, RunInv, ShowsFile, At, Up, Incompatible, DeltaReplace,
             AlreadyApplied, Staged, Merged, New, Carried, CarriedHashed, CarriedBare, Kept,
             Rounded,
             Copies, Private
    <3>. QED BY <3>1, <3>2
  <2>. QED BY <1>15, <2>1, <2>2 DEF IInv
<1>16. CASE ApplyDifference BY <1>16, DifferenceInv
<1>17. CASE Append BY <1>17, AppendInv
<1>18. CASE SwapMerged BY <1>18, MergedInv
<1>. QED BY <1>b, <1>1, <1>2, <1>3, <1>4, <1>5, <1>6, <1>7, <1>8, <1>9, <1>10, <1>12, <1>13,
            <1>14, <1>15, <1>16, <1>17, <1>18 DEF Next

\* IInv holds of every state.
THEOREM InvCorrect == Spec => []IInv
<1>1. Spec => [](TypeInv /\ IInv) BY InitTypes, InitInv, TypeStep, InvStep, PTL DEF Spec
<1>. QED BY <1>1, PTL

\* When an import comes to write COMPLETED, the table has what its mode promises.
THEOREM CompletedIsShown == Spec => []ShowsFile
<1>1. IInv => ShowsFile BY DEF IInv
<1>. QED BY <1>1, InvCorrect, PTL

\* No import takes away or rounds a row it does not name, but an upsert that narrows.
THEOREM OnlyTheNamedGo == Spec => OnlyNamedGo
<1>1. TypeInv /\ IInv /\ [Next]_vars =>
        [\A r \in Rows :
           Copies(table', r) < Copies(table, r) \/ r \in table'.rounded \ table.rounded =>
             Names(Up, r) \/ Narrows(Up)]_vars
  BY InvStep DEF Spares
<1>2. Spec => [](TypeInv /\ IInv) BY InitTypes, InitInv, TypeStep, InvStep, PTL DEF Spec
<1>. QED BY <1>1, <1>2, PTL DEF Spec, OnlyNamedGo
=============================================================================
