---------------------------- MODULE MCMssqlImport ----------------------------
(* Two files of differences, an append and an upsert, of few rows.            *)
EXTENDS MssqlImport, TLC

CONSTANTS d1, d2, a1, m1, r1, r2, r3, r4

\* r1 and r2 are versions of one row.
MCKeyOf == [r \in Rows |-> IF r = r2 THEN r1 ELSE r]

\* r3 has a fraction.
MCValueOf == [r \in Rows |-> [kind |-> "number", fraction |-> IF r = r3 THEN 1 ELSE 0, timed |-> FALSE]]

MCModeOf == [u \in Uploads |-> CASE u = a1 -> "append" [] u = m1 -> "upsert" [] OTHER -> "replace"]

MCFile == [u \in Uploads |-> CASE u = a1 -> {r4} [] u = m1 -> {r2} [] u = d1 -> {r1, r3} [] OTHER -> {r2}]

\* The files of d1 and d2 have fractions, those of a1 and m1 are taken for integers.
MCTypeOf == [u \in Uploads |-> IF u \in {d1, d2} THEN Decimal(18, 4) ELSE Plain("BIGINT")]

MCOldType == Plain("BIGINT")
==============================================================================
