SPECIFICATION LargerSpec
CONSTANTS
  MaxTitle = 3
  Date <- MCDate
  Libs = {l1}
  LibOf <- MCLibOf
  PageSize = 1
  IdPageSize = 1
  MaxBootPages = 2
  MaxIncrementalPages = 10
  MaxIdPages = 10
  ConfirmGap = 1
  ConfirmAge = 2
  MaxNow = 0
  MaxFaults = 1
PROPERTIES FinishedBootstrapCovers
