SPECIFICATION FairSpec
CONSTANTS
  Playbacks = {1, 2}
  Silent = {}
  MaxQueue = 1
  MaxFaults = 1
  MaxTimeouts = 1
INVARIANTS ReportsAreClosed
PROPERTIES HealthyMpvStays SessionsInOrder PlayerComesBack
CHECK_DEADLOCK FALSE
