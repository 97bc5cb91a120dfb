SPECIFICATION MonitorFairSpec
CONSTANTS
  t1 = t1
  t2 = t2
  eth_call = eth_call
  p1 = p1
  Task = {t1, t2}
  MethodName = {eth_call}
  Provider = {p1}
  MaxRecords = 2
  MaxRestarts = 1
  Asked = {"edb_cache_metrics", "edb_info"}
INVARIANTS MetricsAgree
PROPERTIES MonitorCatchesUp
CHECK_DEADLOCK FALSE
