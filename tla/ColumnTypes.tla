------------------------------ MODULE ColumnTypes ------------------------------
(***************************************************************************)
(* The canonical types of a column and which file a column takes           *)
(* (canonicalAccepts in src/src/server/uploads/type-compat.ts).            *)
(*                                                                         *)
(* "TEXT" stands for every text type.  Of a value only what a conversion   *)
(* may drop without an error is kept: the digits after the point of a      *)
(* number, and whether a date comes with a time of day.                    *)
(***************************************************************************)
EXTENDS Integers

DECIMAL_MAX_PRECISION == 38

Plain(name) == [name |-> name, precision |-> 0, scale |-> 0]
Decimal(p, s) == [name |-> "DECIMAL", precision |-> p, scale |-> s]

DecimalTypes == {t \in [name : {"DECIMAL"}, precision : 1..DECIMAL_MAX_PRECISION, scale : 0..DECIMAL_MAX_PRECISION] :
                   t.scale <= t.precision}
PlainTypes == {Plain(n) : n \in {"BIGINT", "TEXT", "DATE", "DATETIME2", "TIME"}}
ColumnType == PlainTypes \cup DecimalTypes

Whole(t) == t.precision - t.scale

\* canonicalAccepts: a column takes values of its type and of a narrower one.
Accepts(existing, incoming) ==
  \/ existing = incoming
  \/ existing.name = "TEXT"
  \/ /\ existing.name = "DECIMAL"
     /\ \/ incoming.name = "BIGINT"
        \/ /\ incoming.name = "DECIMAL"
           /\ incoming.scale <= existing.scale
           /\ Whole(incoming) <= Whole(existing)
  \/ existing.name = "DATETIME2" /\ incoming.name = "DATE"

Value == [kind : {"number", "day", "text"}, fraction : Nat, timed : BOOLEAN]

\* What the databases do to a value of a column of another type: they round the
\* digits there is no place for and drop the time of day.
Changes(v, t) ==
  \/ v.kind = "number" /\ t.name = "BIGINT" /\ v.fraction > 0
  \/ v.kind = "number" /\ t.name = "DECIMAL" /\ v.fraction > t.scale
  \/ v.kind = "day" /\ t.name = "DATE" /\ v.timed
==============================================================================
