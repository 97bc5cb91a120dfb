SPECIFICATION Spec
CONSTANTS
  Client = {c1, c2, c3}
  Tx = {t1, t2}
  Port = {p1, p2}
  Worker = worker
  NoClient = NoClient
  NoCaller = NoCaller
  NoTx = NoTx
  NoPort = NoPort
  Unwinds = TRUE
INVARIANTS NothingStranded ServedUntilAClose CountsConnections
CHECK_DEADLOCK FALSE
