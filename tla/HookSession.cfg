SPECIFICATION HookSpec
CONSTANTS
  Unencodable = {"slot"}
  Programs <- MCPrograms
  MaxTurns = 2
  MaxCalls = 1
  None = None
  ByteBits = 2
  WordBytes = 2
  AddressBytes = 1
  UsizeMax = 7
  NoAddress = 9
  BlockNumber = 9
  BlockTimestamp = 12
  Trace <- MCTrace
  Taken <- MCTaken
  Contracts <- MCContracts
  Fallback <- MCFallback
  Cached <- MCCached
  Fork <- MCFork
  Expressions <- MCExpressions
INVARIANTS SameProgram HooksAreFollowed SnapshotsShowValues AgreesWithSolidity AnswersAgree AnalysisIsOfSource ValuesComeBack
CHECK_DEADLOCK FALSE
