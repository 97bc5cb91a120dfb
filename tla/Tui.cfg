SPECIFICATION FairSpec
CONSTANTS
  a = a
  Recordings <- MCRecordings
  Locations <- MCLocations
  Conditions = {"c"}
  MaxBreakpoints = 1
  Sessions <- MCSessions
INVARIANTS CachedCallsAreTrue WaitsWhereItAsked
PROPERTIES StopsAtBreakpoints WaitEnds
CHECK_DEADLOCK FALSE
