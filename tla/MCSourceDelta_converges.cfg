SPECIFICATION FairSpec
CONSTANTS
  Keys = {1, 2}
  Rows <- MCRows
  Detect = TRUE
  ReconCron = FALSE
  Lookback = 1
  Tolerance = 0
  EscalateAfter = 2
  Future = 1
  Lag = 1
  MaxClock = 3
  MaxWrites = 2
  MaxEvents = 1
CHECK_DEADLOCK FALSE
INVARIANT NothingBehind
PROPERTIES Converges EmptiedOnRequest
