SPECIFICATION PrepareSpec
CONSTANTS
  SearchRange = 9
  MaxTransactions = 3
  Function = {f, g}
  Modifier = {m}
  Free = {g}
  MaxCalls = 2
  LastStep = 5
  Many = Many
  None = None
INVARIANTS RunsInstrumentedCode EveryStepLinked StepsNest
CHECK_DEADLOCK FALSE
