SPECIFICATION LibraryFileSpec
CONSTANTS
  Current = 23
  LegacyRows = {1}
  MaxFileCrashes = 1
  MaxFileFaults = 0
INVARIANTS SessionSurvives
CHECK_DEADLOCK FALSE
