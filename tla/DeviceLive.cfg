CONSTANTS
  NoDir = NoDir
  Files = 1
  Instances = 2
  RecoveryTries = 1
  WipeMayFail = TRUE
  Exceptions = TRUE
  MaxRuns = 2
  MaxFaults = 3
SPECIFICATION FairSpec
PROPERTIES MonitorGoesOn OverstartCorrected SuppliedFuzzersRun
CHECK_DEADLOCK FALSE
