SPECIFICATION Spec
CONSTANTS
  t1 = t1
  t2 = t2
  r1 = r1
  r2 = r2
  Tables = {t1, t2}
  Scopes <- MCScopes
  Requests = {r1, r2}
  MaxQueries = 1
  MaxPages = 1
  MaxEntries = 1
  MaxClock = 3
  MaxLoads = 1
INVARIANTS AnswersFresh SlotsExact
SYMMETRY Symmetry
