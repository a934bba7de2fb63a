CONSTANTS
  NoDir = NoDir
  Files = 2
  Instances = 1
  RecoveryTries = 1
  WipeMayFail = FALSE
  Exceptions = FALSE
  MaxRuns = 4
  MaxFaults = 4
SPECIFICATION Spec
INVARIANTS FilesComplete
PROPERTY RunLogsDistinct
CHECK_DEADLOCK FALSE
