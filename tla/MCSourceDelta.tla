------------------------------ MODULE MCSourceDelta ------------------------------
EXTENDS SourceDelta, TLC

\* Two blocks of rows: without the first a table has lost most of its rows,
\* without the second a fifth of them.
MCRows == [k \in Keys |-> IF k = 1 THEN 80 ELSE 20]
==============================================================================
