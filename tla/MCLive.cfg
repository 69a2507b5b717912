SPECIFICATION Spec
CONSTANTS
  MaxTitle = 2
  Date <- MCDate
  Libs = {l1}
  LibOf <- MCLibOf
  PageSize = 1
  IdPageSize = 1
  MaxBootPages = 1
  MaxIncrementalPages = 2
  MaxIdPages = 4
  ConfirmGap = 0
  ConfirmAge = 2
  MaxNow = 0
  MaxFaults = 1
  Accounts = {a1}
  Threads = {t1, t2}
  t1 = t1
  t2 = t2
  None = None
  MaxTokens = 2
  MaxGen = 2
PROPERTIES Settles ExpiryReachesUi
CHECK_DEADLOCK FALSE
