SPECIFICATION SinceSpec
CONSTANTS
  Keys = {1, 2, 3}
  Keyed = TRUE
  Limit = 1
  TIE_CAP = 2
  REMOVED_CAP = 3
  Window = 3
  DeletesFirst = TRUE
  Horizon = 5
  Loads = 2
  MaxLoad = 1
  MaxCall = 1
CHECK_DEADLOCK FALSE
INVARIANTS NothingLost
PROPERTIES DeliveredOnce
