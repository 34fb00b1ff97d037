SPECIFICATION DerivedFairSpec
CONSTANTS
  e1 = e1
  e2 = e2
  Executors = {e1, e2}
  Counts = {0, 60}
  Adopted = 0
  Attempts = 2
  MaxRequests = 2
  MaxEdits = 1
  MaxFaults = 1
CHECK_DEADLOCK FALSE
INVARIANTS OkMeansCurrent
PROPERTIES EmptiesUnseen 
