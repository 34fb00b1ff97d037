--------------------------- MODULE MCStorageMigration ---------------------------
EXTENDS StorageMigration, TLC

Symmetry == Permutations(Executors)
==============================================================================
