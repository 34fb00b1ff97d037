------------------------------ MODULE MssqlImport ------------------------------
(***************************************************************************)
(* Imports of uploads into one table of a SQL Server storage               *)
(* (importUpload in src/src/server/uploads/importer.ts, atomicSwap of      *)
(* MssqlStorageConnection), and the protocol of differences: a client asks *)
(* delta-prep for the hashes of the table's rows, and uploads only the     *)
(* rows it does not have with the hashes of those that are to go.          *)
(*                                                                         *)
(* Imports of a table exclude each other (TableImport), so that there is   *)
(* one run at most; between two attempts of an upload others may publish.  *)
(* A file has no row and no key twice.  An append does not write the hash  *)
(* column of its rows: such rows are bare.                                 *)
(***************************************************************************)
EXTENDS Integers, FiniteSets, ColumnTypes

CONSTANTS
  Rows, KeyOf,   \* rows and their keys
  ValueOf,       \* the value of their typed column, as their file's staging table has it
  Uploads,
  ModeOf,        \* [Uploads -> {"replace", "append", "upsert"}]
  Differs,       \* the uploads whose client asks delta-prep first
  File,          \* [Uploads -> SUBSET Rows]
  TypeOf,        \* type of the column in each file
  Old, OldType,  \* rows and type of the table at the start, if there is one
  MaxAttempts,   \* max_attempts of an import (5 in the code)
  MaxErrors, MaxCrashes, MaxRetries,   \* bounds on faults and on retries by users
  None

ASSUME MssqlImportAssumption ==
  /\ ModeOf \in [Uploads -> {"replace", "append", "upsert"}]
  /\ Differs \subseteq {u \in Uploads : ModeOf[u] = "replace"}
  /\ File \in [Uploads -> SUBSET Rows] /\ Old \subseteq Rows
  /\ OldType \in ColumnType /\ TypeOf \in [Uploads -> ColumnType]
  /\ ValueOf \in [Rows -> Value]
  /\ \A u \in Uploads : \A q, r \in File[u] : KeyOf[q] = KeyOf[r] => q = r
  /\ \A u \in Uploads : \A r \in File[u] : ~Changes(ValueOf[r], TypeOf[u])
  /\ \A r \in Old : ~Changes(ValueOf[r], OldType)
  /\ None \notin Uploads /\ None \notin ColumnType
  /\ MaxAttempts \in Nat \ {0} /\ MaxErrors \in Nat /\ MaxCrashes \in Nat /\ MaxRetries \in Nat

VARIABLES
  table,    \* the table: exists, the type of its column, whether it has the columns
            \* _cw_rh ("hash") and cw_synced_at ("stamped"), the rows that have a hash,
            \* the copies of bare ones, and those whose value was rounded
  marker,   \* uploads in cw_internal.applied_uploads
  stage,    \* the rows in the staging table of each upload
  catalog,  \* type of the column in the catalog (None: the table is not in it)
  upload,   \* each upload: status, attempts of its job, what its client sends
  run,      \* the import that is under way
  moved,    \* history: uploads that were ready before another one published
  faults    \* history: faults so far

vars == <<table, marker, stage, catalog, upload, run, moved, faults>>

NoBare == [r \in Rows |-> 0]
Absent == [exists |-> FALSE, type |-> None, hash |-> FALSE, stamped |-> FALSE,
           hashed |-> {}, bare |-> NoBare, rounded |-> {}]
\* A table that predates the column of hashes.
Aged == [Absent EXCEPT !.exists = TRUE, !.type = OldType,
                       !.bare = [r \in Rows |-> IF r \in Old THEN 1 ELSE 0]]

\* delta: deltaReplace; applied: alreadyApplied; final: the error is not retried.
Idle == [pc |-> "idle", up |-> None, found |-> FALSE, delta |-> FALSE, applied |-> FALSE,
         merged |-> Absent, final |-> FALSE]

Table == [exists : BOOLEAN, type : ColumnType \cup {None}, hash : BOOLEAN, stamped : BOOLEAN,
          hashed : SUBSET Rows, bare : [Rows -> Nat], rounded : SUBSET Rows]

Upload == [status : {"created", "QUEUED", "COMPLETED", "FAILED"}, attempts : 0..MaxAttempts,
           differs : BOOLEAN, sent : SUBSET Rows, toDelete : SUBSET Rows]

Run == [pc : {"idle", "look", "open", "load", "publish", "swap", "meta", "catch"},
        up : Uploads \cup {None}, found : BOOLEAN, delta : BOOLEAN, applied : BOOLEAN,
        merged : Table, final : BOOLEAN]

TypeOK ==
  /\ table \in Table
  /\ marker \subseteq Uploads
  /\ stage \in [Uploads -> SUBSET Rows]
  /\ catalog \in ColumnType \cup {None}
  /\ upload \in [Uploads -> Upload]
  /\ run \in Run /\ (run.pc # "idle" => run.up \in Uploads)
  /\ moved \subseteq Uploads
  /\ faults \in [error : Nat, crash : Nat, retry : Nat]

Init ==
  /\ table \in {Absent, Aged}
  /\ marker = {} /\ moved = {}
  /\ stage = [u \in Uploads |-> {}]
  /\ catalog = table.type
  /\ upload = [u \in Uploads |-> [status |-> "created", attempts |-> 0, differs |-> FALSE,
                                  sent |-> File[u], toDelete |-> {}]]
  /\ run = Idle
  /\ faults = [error |-> 0, crash |-> 0, retry |-> 0]

------------------------------------------------------------------------------
At(pc) == run.pc = pc
GoTo(pc) == run' = [run EXCEPT !.pc = pc]
Up == run.up

BumpFault(kind, max) ==
  /\ faults[kind] < max
  /\ faults' = [faults EXCEPT ![kind] = @ + 1]

------------------------------------------------------------------------------
(* The client *)

\* physicalTypeMatches of delta-prep knows one decimal only.
AsInCatalog(t) ==
  IF catalog.name = "DECIMAL" THEN t = Decimal(18, 4) ELSE t.name = catalog.name

\* delta-prep answers only for a table as a replace has left it, not all of text, the
\* columns of which are those of the catalog: no swap has added cw_synced_at since.
Capable ==
  /\ table.exists /\ table.hash /\ ~table.stamped
  /\ catalog # None /\ catalog # Plain("TEXT") /\ AsInCatalog(table.type)

Ready(u, sent, toDelete, differs) ==
  /\ upload[u].status = "created"
  /\ upload' = [upload EXCEPT ![u] = [@ EXCEPT !.status = "QUEUED", !.differs = differs,
                                              !.sent = sent, !.toDelete = toDelete]]
  /\ UNCHANGED <<table, marker, stage, catalog, run, moved, faults>>

\* The client has the hashes of the table and confirms with the difference.
ConfirmDifference(u) ==
  /\ u \in Differs /\ Capable
  /\ Ready(u, File[u] \ table.hashed, table.hashed \ File[u], TRUE)

Confirm(u) ==
  /\ u \notin Differs \/ ~Capable
  /\ Ready(u, File[u], {}, FALSE)

\* A user retries an upload that FAILED; deltaJson stays as it is.
Retry(u) ==
  /\ upload[u].status = "FAILED" /\ BumpFault("retry", MaxRetries)
  /\ upload' = [upload EXCEPT ![u].status = "QUEUED", ![u].attempts = 0]
  /\ UNCHANGED <<table, marker, stage, catalog, run, moved>>

------------------------------------------------------------------------------
(* importUploadForTable, under the lock of the table *)

Start(u) ==
  /\ At("idle") /\ upload[u].status = "QUEUED"
  /\ upload' = [upload EXCEPT ![u].attempts = @ + 1]
  /\ run' = [Idle EXCEPT !.pc = "look", !.up = u]
  /\ UNCHANGED <<table, marker, stage, catalog, moved, faults>>

RaiseTo(final) == run' = [run EXCEPT !.pc = "catch", !.final = final]

\* assertCompatible throws for good.
Incompatible(u) == ModeOf[u] # "replace" /\ table.exists /\ ~Accepts(table.type, TypeOf[u])

\* deltaReplace: the table has its hashes and takes the file as it is.
DeltaReplace(u) ==
  ModeOf[u] = "replace" /\ table.exists /\ table.hash /\ Accepts(table.type, TypeOf[u])

\* Mutant: a difference for a table that has changed is loaded as a file.
Outdated_Never(u) == FALSE

\* A difference is refused when the table cannot take it as such any more.
Outdated(u) == upload[u].differs /\ ~DeltaReplace(u)

\* Mutant: the marker is not looked for.
AlreadyApplied_Never(u) == FALSE

\* alreadyAppliedRows: the marker without the table does not count.
AlreadyApplied(u) == ModeOf[u] = "append" /\ u \in marker /\ table.exists

Look ==
  /\ At("look")
  /\ IF Incompatible(Up) \/ Outdated(Up)
     THEN RaiseTo(Incompatible(Up))
     ELSE run' = [run EXCEPT !.pc = "open", !.found = table.exists,
                             !.delta = DeltaReplace(Up), !.applied = AlreadyApplied(Up)]
  /\ UNCHANGED <<table, marker, stage, catalog, upload, moved, faults>>

\* A new staging table, whatever an earlier attempt has left.
OpenStage ==
  /\ At("open")
  /\ stage' = [stage EXCEPT ![Up] = {}]
  /\ GoTo("load")
  /\ UNCHANGED <<table, marker, catalog, upload, moved, faults>>

\* tdsBulkCopy, a batch at a time.
LoadBatch ==
  /\ At("load") /\ ~run.applied
  /\ \E r \in upload[Up].sent \ stage[Up] : stage' = [stage EXCEPT ![Up] = @ \cup {r}]
  /\ UNCHANGED <<table, marker, catalog, upload, run, moved, faults>>

\* The whole file is staged, or nothing if it is to add nothing.
Staged(u) == run.applied \/ stage[u] = upload[u].sent

\* The gate of evaluateLoad and lease.assert() may throw here (Throw).
LoadEnds ==
  /\ At("load") /\ Staged(Up)
  /\ GoTo("publish")
  /\ UNCHANGED <<table, marker, stage, catalog, upload, moved, faults>>

\* The values that a column of the type t cannot hold.
Rounded(rows, t) == {r \in rows : Changes(ValueOf[r], t)}

Publish(t) ==
  /\ table' = t
  /\ stage' = [stage EXCEPT ![Up] = {}]
  /\ moved' = moved \cup {u \in Uploads \ {Up} : upload[u].status # "created"}
  /\ run' = [run EXCEPT !.pc = "meta", !.merged = Absent]
  /\ UNCHANGED <<catalog, upload, faults>>

New(u) == [Absent EXCEPT !.exists = TRUE, !.type = TypeOf[u], !.hash = TRUE, !.hashed = stage[u]]

\* atomicSwap without a key: the staging table becomes the table.
SwapFull ==
  /\ At("publish") /\ run.delta /\ ~upload[Up].differs
  /\ Publish([New(Up) EXCEPT !.stamped = TRUE])
  /\ UNCHANGED marker

MarkedBy(u) == IF ModeOf[u] = "append" THEN marker \cup {u} ELSE marker

\* One transaction: DROP, CREATE, INSERT, and the marker of an append.
Recreate ==
  /\ At("publish") /\ ModeOf[Up] # "upsert" /\ ~run.delta
  /\ ModeOf[Up] = "replace" \/ ~run.found
  /\ Publish(New(Up))
  /\ marker' = MarkedBy(Up)

\* One transaction: the rows whose hash is not there, then the hashes to delete.
ApplyDifference ==
  /\ At("publish") /\ upload[Up].differs
  /\ Publish([table EXCEPT !.hashed = (@ \cup stage[Up]) \ upload[Up].toDelete,
                           !.rounded = @ \cup Rounded(stage[Up] \ table.hashed, table.type)])
  /\ UNCHANGED marker

\* One transaction: the rows, without their hashes, and the marker.
Append ==
  /\ At("publish") /\ ModeOf[Up] = "append" /\ run.found
  /\ Publish([table EXCEPT !.bare = [r \in Rows |-> @[r] + (IF r \in stage[Up] THEN 1 ELSE 0)],
                           !.rounded = @ \cup Rounded(stage[Up], table.type)])
  /\ marker' = MarkedBy(Up)

\* The rows whose key the file does not have.
Kept(u) == {r \in Rows : \A s \in stage[u] : KeyOf[s] # KeyOf[r]}
CarriedHashed(u) == table.hashed \cap Kept(u)
CarriedBare(u) == [r \in Rows |-> IF r \in Kept(u) THEN table.bare[r] ELSE 0]
Carried(u) == CarriedHashed(u) \cup {r \in Rows : CarriedBare(u)[r] > 0}

\* The merged table has the types of the file.
Merged(u) ==
  [New(u) EXCEPT !.stamped = TRUE, !.hashed = @ \cup CarriedHashed(u), !.bare = CarriedBare(u),
                 !.rounded = (table.rounded \cap Kept(u)) \cup Rounded(Carried(u), TypeOf[u])]

\* atomicSwap with a key: the table gets the columns of stamps, if it has none.
BuildMerged ==
  /\ At("publish") /\ ModeOf[Up] = "upsert"
  /\ run' = [run EXCEPT !.pc = "swap", !.merged = Merged(Up)]
  /\ table' = [table EXCEPT !.stamped = table.exists]
  /\ UNCHANGED <<marker, stage, catalog, upload, moved, faults>>

SwapMerged ==
  /\ At("swap")
  /\ Publish(run.merged)
  /\ UNCHANGED marker

\* One transaction: the columns in the catalog, the version and the upload.
Meta ==
  /\ At("meta")
  /\ catalog' = TypeOf[Up]
  /\ upload' = [upload EXCEPT ![Up].status = "COMPLETED"]
  /\ run' = Idle
  /\ UNCHANGED <<table, marker, stage, moved, faults>>

------------------------------------------------------------------------------
(* The end of a run *)

\* Any other error: a statement, the gate, the lease.
Throw ==
  /\ run.pc \notin {"idle", "catch"} /\ BumpFault("error", MaxErrors)
  /\ \E final \in BOOLEAN : RaiseTo(final)
  /\ UNCHANGED <<table, marker, stage, catalog, upload, moved>>

Requeued(u, final) ==
  [upload EXCEPT ![u].status = IF final \/ upload[u].attempts = MaxAttempts THEN "FAILED" ELSE "QUEUED"]

\* The staging table is dropped, still under the lock; fail() takes over.
Catch ==
  /\ At("catch")
  /\ stage' = [stage EXCEPT ![Up] = {}]
  /\ upload' = Requeued(Up, run.final)
  /\ run' = Idle
  /\ UNCHANGED <<table, marker, catalog, moved, faults>>

\* The process dies; its lock expires and recoverStale sees to its job.
Crash ==
  /\ ~At("idle") /\ BumpFault("crash", MaxCrashes)
  /\ upload' = Requeued(Up, FALSE)
  /\ run' = Idle
  /\ UNCHANGED <<table, marker, stage, catalog, moved>>

------------------------------------------------------------------------------
Next ==
  \/ \E u \in Uploads : ConfirmDifference(u) \/ Confirm(u) \/ Retry(u) \/ Start(u)
  \/ Look \/ OpenStage \/ LoadBatch \/ LoadEnds
  \/ SwapFull \/ Recreate \/ ApplyDifference \/ Append \/ BuildMerged \/ SwapMerged
  \/ Meta \/ Throw \/ Catch \/ Crash

Spec == Init /\ [][Next]_vars

------------------------------------------------------------------------------
(* Properties *)

Copies(t, r) == (IF r \in t.hashed THEN 1 ELSE 0) + t.bare[r]

\* No other file and no row of the start says anything of the row.
Private(u, r) ==
  /\ \A v \in Uploads \ {u} : r \notin File[v]
  /\ r \notin Old

\* When an import comes to write COMPLETED, the table has what its mode promises,
\* whatever attempts, crashes and other imports came before: a replace the file and
\* nothing else, and so does a difference if nobody has published since it was
\* computed and no append has left rows without a hash; an upsert its rows in the
\* place of their keys; an append its rows once.  No value of the file is rounded.
ShowsFile ==
  At("meta") =>
    /\ table.rounded \cap upload[Up].sent = {}
    /\ ModeOf[Up] = "replace" /\ ~upload[Up].differs => table.hashed = File[Up] /\ table.bare = NoBare
    /\ upload[Up].differs /\ Up \notin moved /\ table.bare = NoBare => table.hashed = File[Up]
    /\ ModeOf[Up] = "upsert" =>
         \A r \in Rows, s \in File[Up] : KeyOf[r] = KeyOf[s] =>
           Copies(table, r) = IF r = s THEN 1 ELSE 0
    /\ ModeOf[Up] = "append" =>
         \A r \in File[Up] : Private(Up, r) =>
           /\ Copies(table, r) <= 1
           /\ Up \notin moved => Copies(table, r) = 1

\* What an import may take away: a replace every row, a difference those it names,
\* an upsert those of its keys.
Names(u, r) ==
  \/ ModeOf[u] = "replace" /\ ~upload[u].differs
  \/ r \in upload[u].toDelete
  \/ ModeOf[u] = "upsert" /\ \E s \in File[u] : KeyOf[s] = KeyOf[r]

\* An upsert of a file whose type is narrower than the column recreates the column
\* with it: type-compat.ts rules out the other direction only.
Narrows(u) == ModeOf[u] = "upsert" /\ ~Accepts(TypeOf[u], table.type)

\* A file that is only a difference never passes for the whole table, and no import
\* takes away or rounds a row it does not name, but for an upsert that narrows.
OnlyNamedGo ==
  [][\A r \in Rows :
       Copies(table', r) < Copies(table, r) \/ r \in table'.rounded \ table.rounded =>
         Names(Up, r) \/ Narrows(Up)]_vars
==============================================================================
