SPECIFICATION Spec
CONSTANTS
  Lengths <- MCLongLengths
  PageSizes <- MCLongPageSizes
  MaxVersion = 1
  NoVersion = NoVersion
  MaxFaults = 2
INVARIANTS
  WithinLimitReadsInOrder
CHECK_DEADLOCK FALSE
