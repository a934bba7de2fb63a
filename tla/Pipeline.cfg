CONSTANTS
  Files <- MCFiles
  Functions <- MCFunctions
  Raws <- MCRaws
  FileOf <- MCFileOf
  Kind <- MCKind
  Last <- MCLast
  Ending <- MCWithin
  Passing <- MCWithin
  Alike <- MCWithin
  Calls <- MCCalls
  Reads <- MCReads
  Fields <- MCFields
  MaxCrashes = 3
SPECIFICATION Spec
  
PROPERTY RoundsEnd
CHECK_DEADLOCK FALSE
