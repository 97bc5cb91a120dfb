SPECIFICATION HandlerSpec
CONSTANTS
  p1 = p1
  p2 = p2
  r1 = r1
  r2 = r2
  e1 = e1
  periodic = periodic
  Provider = {p1, p2}
  Flaky = {p1}
  Request = {r1, r2}
  Checker = {r1, r2}
  Hard = {r2}
  e2 = e2
  Error = {e1, e2}
  Periodic = periodic
  NoProvider = NoProvider
  MaxFailures = 2
  MAX_RETRIES = 4
  MAX_MULTIPLE_SAME_ERROR = 2
  Workloads <- MCWorkloads
  MaxHead = 1
SYMMETRY ErrorSymmetry
INVARIANTS Failover RepliesAreTheirs RepliesAreCurrent
PROPERTIES DemotedForCause
CHECK_DEADLOCK FALSE
