SPECIFICATION Spec
CONSTANTS
  Playbacks = {1, 2}
  Silent = {}
  MaxQueue = 1
  MaxFaults = 0
  MaxTimeouts = 0
PROPERTIES OldEofSpares
CHECK_DEADLOCK FALSE
