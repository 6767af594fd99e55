SPECIFICATION ToolsSpec
CONSTANTS
  Callbacks = {"login", "reload", "other", "empty"}
  KindOf <- MCKindOf
  NoCallback = "none"
  Interval = 2
  Timeout = 5
INVARIANTS
  LoginTypeOK
  TokenIsOurs
  FailureHasReason
  PollerTypeOK
  PolledInTime
  StopsAtOnce
PROPERTIES
  LoginEnds
  PollsUntilStopped
CHECK_DEADLOCK FALSE
