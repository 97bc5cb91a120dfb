SPECIFICATION LifecycleFairSpec
CONSTANTS
  Pid = {1, 2}
  Timeout = 3
  Grace = 3
  None = None
INVARIANT MembersStayRegistered
PROPERTIES NoShutdownWhileRegistered DeadAreRemoved NoProxyLeftBehind
CHECK_DEADLOCK FALSE
