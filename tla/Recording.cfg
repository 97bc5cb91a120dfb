SPECIFICATION ContentsSpec
CONSTANTS
  MaxEntries = 3
  MaxSnapshots = 4
  None = None
INVARIANTS FramesAgree MergedInExecutionOrder StepsLinkForward  SnapshotsHoldTheState
CHECK_DEADLOCK FALSE
