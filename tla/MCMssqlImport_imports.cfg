SPECIFICATION Spec
CONSTANTS
  d1 = d1
  d2 = d2
  a1 = a1
  m1 = m1
  r1 = r1
  r2 = r2
  r3 = r3
  r4 = r4
  None = None
  Rows = {r1, r2, r3, r4}
  KeyOf <- MCKeyOf
  ValueOf <- MCValueOf
  Uploads = {d1, d2, a1, m1}
  ModeOf <- MCModeOf
  Differs = {d1, d2}
  File <- MCFile
  TypeOf <- MCTypeOf
  Old = {r1}
  OldType <- MCOldType
  MaxAttempts = 2
  MaxErrors = 1
  MaxCrashes = 1
  MaxRetries = 1
CHECK_DEADLOCK FALSE
INVARIANT ShowsFile
PROPERTY OnlyNamedGo
