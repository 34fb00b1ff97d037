SPECIFICATION FairSpec
CONSTANTS
  None = None
  Loops = {l1, l2}
  MaxJobs = 4
  PreviewAttempts = 1
  ImportAttempts = 2
  MaxAttempts <- MCMaxAttempts
  KeepFiles = FALSE
  MaxRequests = 2
  MaxDisturbances = 1
  Created <- MCCreated
CHECK_DEADLOCK FALSE
INVARIANTS  NeverStranded
PROPERTIES  FileKept UploadSettles
