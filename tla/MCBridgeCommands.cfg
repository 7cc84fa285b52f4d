\* Commands from a client and an HTTP request, over a reader that may fail,
\* under the fairness of the server's scheduling.
CONSTANTS
  MaxChunks = 1
  StdinCap = 1
  ExitCodes <- MCExitCodes
  Sizes <- TwoSizes
  DefaultSize <- MCDefaultSize
  ReaderMayFail = TRUE
  Conns = {c1}
  Requests = {r1}
  MaxInFlight = 1
SPECIFICATION FairSpec
INVARIANTS
  SessMirrorsPty
  LockIsExclusive
  ExitHasCause
PROPERTIES
  ExitFreezesSession
  ExitStopsOutputPumps
  EofIsNoticed
  StopTakesEffect
CHECK_DEADLOCK FALSE
