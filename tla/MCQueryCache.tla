------------------------------ MODULE MCQueryCache ------------------------------
EXTENDS QueryCache, TLC

CONSTANTS t1, t2

\* One table, and both.
MCScopes == {{t1}, {t1, t2}}
Symmetry == Permutations(Requests)
==============================================================================
