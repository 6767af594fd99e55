SPECIFICATION FairSpec
CONSTANTS
  Lengths <- MCLengths
  PageSizes <- MCPageSizes
  MaxVersion = 1
  NoVersion = NoVersion
  MaxFaults = 2
INVARIANTS
  TypeOK
  ReadsWhole
PROPERTIES
  ReadingEnds
CHECK_DEADLOCK FALSE
