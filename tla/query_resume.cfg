SPECIFICATION Spec
CONSTANTS
  a = a
  b = b
  c = c
  Records = {a, b, c}
  CloseTime <- MCCloseTime
  ShortRunID <- MCShortRunID
  Statuses = {"Completed", "Failed", "Terminated"}
  AllowedStatuses = {"Completed", "Failed"}
  BatchFactor = 2
  FilterFactor = 5
  MinBatchSize = 50
  UnknownStatus = "Open"
  None = None
  PageSizes = {1, 2}
  MaxFaults = 1
INVARIANTS
  ResumesWhereItStopped
CHECK_DEADLOCK FALSE
