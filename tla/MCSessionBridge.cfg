\* The output path: two clients of one session.
CONSTANTS
  MaxChunks = 2
  StdinCap = 1
  ExitCodes <- MCExitCodes
  Sizes <- MCSizes
  DefaultSize <- MCDefaultSize
  ReaderMayFail = FALSE
  Conns = {c1, c2}
  Requests = {}
  MaxInFlight = 1
SPECIFICATION Spec
SYMMETRY ConnSymmetry
INVARIANTS
  TypeOK
  AtMostOnce
  LossHasCause
  EofComesLast
PROPERTIES
  InOrder
  ImplementsStream
CHECK_DEADLOCK FALSE
