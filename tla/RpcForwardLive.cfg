SPECIFICATION ForwardFairSpec
CONSTANTS
  p1 = p1
  p2 = p2
  r1 = r1
  e1 = e1
  periodic = periodic
  Provider = {p1, p2}
  Flaky = {p1, p2}
  Request = {r1}
  Checker = {r1, periodic}
  Hard = {r1}
  Error = {e1}
  Periodic = periodic
  NoProvider = NoProvider
  MaxFailures = 2
  MAX_RETRIES = 2
  MAX_MULTIPLE_SAME_ERROR = 2
PROPERTIES RecoversAndAnswers
CHECK_DEADLOCK FALSE
