SPECIFICATION Spec
CONSTANTS
  t1 = t1
  t2 = t2
  r1 = r1
  r2 = r2
  Tasks = {t1, t2}
  Runs = {r1, r2}
  RunOf <- MCSeparate
  Statuses = {"Completed", "Failed"}
  AllowedStatuses = {"Failed"}
  OtherEvent = "Other"
  HasProgressManager = TRUE
  MaxLen = 2
  MaxVersion = 1
  MaxFaults = 2
INVARIANTS
  NothingLost
CHECK_DEADLOCK FALSE
