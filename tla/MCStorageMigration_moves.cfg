SPECIFICATION Spec
SYMMETRY Symmetry
CONSTANTS
  d1 = d1
  d2 = d2
  s1 = s1
  s2 = s2
  e1 = e1
  e2 = e2
  Nowhere = Nowhere
  Project = Project
  Datasets = {d1, d2}
  Servers = {s1, s2}
  Home = s1
  Executors = {e1, e2}
  Requested = {Project, d1}
  MaxJobs = 2
  MaxLoads = 1
  MaxAttempts = 2
  MaxChanges = 1
  MaxFaults = 1
CHECK_DEADLOCK FALSE
INVARIANTS OnePerScope Together
PROPERTIES MoveKeeps
