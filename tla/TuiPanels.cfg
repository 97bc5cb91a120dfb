SPECIFICATION FairTuiSpec
CONSTANTS
  a = a
  b = b
  Recordings <- MCRecordings
  CodeOf <- MCCodeOf
  Trace <- MCTrace
  Locations = {}
  Conditions = {"x > 0"}
  MaxBreakpoints = 1
  PanelArea = 4
  MaxInput = 1
  MaxTyped = 1
  MaxLines = 5
  MaxHistory = 1
  Sessions <- MCSessions
PROPERTIES PanelsSettle
CHECK_DEADLOCK FALSE
