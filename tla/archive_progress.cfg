SPECIFICATION Spec
CONSTANTS
  t1 = t1
  t2 = t2
  r1 = r1
  r2 = r2
  Tasks = {t1, t2}
  Runs = {r1}
  RunOf <- MCDuplicate
  Statuses = {"Completed", "Failed"}
  AllowedStatuses = {"Failed"}
  OtherEvent = "Other"
  HasProgressManager = TRUE
  MaxLen = 3
  MaxVersion = 1
  MaxFaults = 1
SYMMETRY MCSymmetry
INVARIANTS
  StoredEndsAsAsked
CHECK_DEADLOCK FALSE
