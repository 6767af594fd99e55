SPECIFICATION FairSpec
CONSTANTS
  a = a
  b = b
  c = c
  Records = {a, b, c}
  CloseTime <- MCCloseTime
  ShortRunID <- MCShortRunID
  Statuses = {"Completed", "Failed", "Terminated"}
  AllowedStatuses = {"Completed", "Failed"}
  BatchFactor = 1
  FilterFactor = 1
  MinBatchSize = 1
  UnknownStatus = "Open"
  None = None
  PageSizes = {1, 2}
  MaxFaults = 1
INVARIANTS
  TypeOK
  AckedIsListed
  CompleteIfOnePage
PROPERTIES
  QueryEnds
  ImplementsListing
CHECK_DEADLOCK FALSE
