SPECIFICATION FilesFairSpec
CONSTANTS
  s1 = s1
  s2 = s2
  None = None
  Sources = {s1, s2}
  Dirs = {1, 2, 3, 4, 5, 6}
  MaxVersion = 2
  MaxExpiries = 1
  MaxFaults = 1
CONSTRAINT FewFaults
CHECK_DEADLOCK FALSE
INVARIANTS FreshEnough PurgeSparesReaders
PROPERTIES VersionArrives
