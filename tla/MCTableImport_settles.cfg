SPECIFICATION FairSpec
CONSTANTS
  a1 = a1
  m1 = m1
  None = None
  Dead = Dead
  Uploads = {a1, m1}
  ModeOf <- MCModeOf
  Loops = {l1, l2}
  MaxAttempts = 2
  TableExists = FALSE
  MaxErrors = 1
  MaxCrashes = 1
  MaxOutages = 1
  MaxRetries = 1
  MaxStops = 1
  MaxLate = 1
CONSTRAINT FewFaults
CHECK_DEADLOCK FALSE
INVARIANTS CompletedIsInTable ExactlyOnce CatalogMatches
PROPERTIES OnlyReplaceRemoves EveryImportSettles
