SPECIFICATION FairSpec
CONSTANTS
  Playbacks = {1}
  Silent = {}
  MaxQueue = 1
  MaxFaults = 1
  MaxTimeouts = 0
PROPERTIES LostPlaybackEnds
CHECK_DEADLOCK FALSE
