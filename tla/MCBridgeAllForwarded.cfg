\* architecture.md:294: all bytes are forwarded.
CONSTANTS
  MaxChunks = 2
  StdinCap = 1
  ExitCodes <- MCExitCodes
  Sizes <- MCSizes
  DefaultSize <- MCDefaultSize
  ReaderMayFail = FALSE
  Conns = {c1}
  Requests = {}
  MaxInFlight = 1
SPECIFICATION Spec
INVARIANT AllForwarded
CHECK_DEADLOCK FALSE
