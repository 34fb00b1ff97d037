SPECIFICATION FairSpec
CONSTANTS
  p1 = p1
  p2 = p2
  l1 = l1
  l2 = l2
  j1 = j1
  j2 = j2
  j3 = j3
  s1 = s1
  None = None
  Jobs = {j1, j2}
  Profiles = {p1, p2}
  Loops = {l1, l2}
  ProfileOf <- MCProfileOf
  Lane <- MCLane
  Weight <- MCWeight
  StorageOf <- MCStorageOf
  Cancellable <- MCCancellable
  MaxAttempts <- MCMaxAttempts
  MaxHeavy = 1
  MaxPerStorage = 1
  MaxCrashes = 1
  MaxStops = 1
  MaxZombies = 1
CHECK_DEADLOCK FALSE
CONSTRAINT FewFaults
INVARIANTS SingleExecutor RunningIsRecoverable CapsHoldSerially
PROPERTIES SettledStaysSettled ContractSpec EverySettles
