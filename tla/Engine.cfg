SPECIFICATION FairSpec
CONSTANTS
  Caller = {c1, c2, c3}
  Tx = {t1, t2}
  Port = {p1, p2}
  NoCaller = NoCaller
  NoTx = NoTx
  NoPort = NoPort
INVARIANTS PublishedIsServed NoLostServer
PROPERTIES AnalysedOnce PrepareEnds
