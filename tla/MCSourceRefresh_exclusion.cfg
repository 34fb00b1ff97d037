SPECIFICATION FairSpec
CONSTANTS
  i1 = i1
  r1 = r1
  incremental = incremental
  reconciliation = reconciliation
  None = None
  Jobs = {i1, r1}
  Kinds = {incremental, reconciliation}
  KindOf <- MCKindOf
  Loops = {l1, l2}
  Producers = {w1}
  Leases = {t1, t2, t3, t4, t5, t6}
  MaxAttempts = 1
  Batches = 1
  MaxCancels = 1
  MaxCrashes = 1
  MaxStalls = 1
  MaxBeatFailures = 1
CONSTRAINT OneFault
CHECK_DEADLOCK FALSE
INVARIANTS OneHolder
PROPERTIES PublishesOwnRead SourceFreed
