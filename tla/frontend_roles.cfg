SPECIFICATION Spec
CONSTANTS
  p1 = p1
  p2 = p2
  Pods = {p1, p2}
  Namespaces = {"default", "payments"}
  TaskQueues = {"orders", "invoices"}
  Emails = {"Admin@Temporal.io", "admin@temporal.io", "dev@example.com"}
  ToLower <- MCToLower
  NoQueue = NoQueue
  NoToken = NoToken
  Environments <- MCEnvironments
  Calls <- MCCalls
  Users <- MCUsers
  NoCall = NoCall
  MaxRollouts = 1
  MaxKeys = 2
  MaxFaults = 1
INVARIANTS
  DocumentedRoles
CHECK_DEADLOCK FALSE
