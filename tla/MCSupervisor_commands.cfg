SPECIFICATION SupervisorFairSpec
CONSTANTS
  Nothing = Nothing
  ProfileIds = {p1}
  Commands = {c1, c2}
  c1 = c1
  Modes <- MCModes
  MaxPatches = 1
  MaxFaults = 1
CHECK_DEADLOCK FALSE
PROPERTIES CommandStates CommandSettles ProfileObeyed
