SPECIFICATION MCSpec
CONSTANTS
  MaxTitle = 3
  Date <- MCDate
  Libs = {l1}
  LibOf <- MCLibOf
  PageSize = 1
  IdPageSize = 1
  MaxBootPages = 2
  MaxIncrementalPages = 2
  MaxIdPages = 2
  ConfirmGap = 1
  ConfirmAge = 2
  MaxNow = 2
  MaxFaults = 1
INVARIANTS TypeOK Accounted
PROPERTIES SweepsAreTrue EmptyIsConfirmed
