\* registry.rs:16: output is broadcast to all connected clients.
CONSTANTS
  MaxChunks = 3
  StdinCap = 1
  ExitCodes <- MCExitCodes
  Sizes <- MCSizes
  DefaultSize <- MCDefaultSize
  ReaderMayFail = FALSE
  Conns = {c1, c2}
  Requests = {}
  MaxInFlight = 1
SPECIFICATION Spec
INVARIANT OutputIsBroadcast
CHECK_DEADLOCK FALSE
