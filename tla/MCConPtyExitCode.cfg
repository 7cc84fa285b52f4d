\* conpty.rs:8: exits are found through the child handle.
CONSTANTS
  MaxChunks = 3
  StdinCap = 2
  ExitCodes <- MCExitCodes
  Sizes <- MCSizes
  DefaultSize <- MCDefaultSize
  ReaderMayFail = FALSE
SPECIFICATION PtySpec
INVARIANT ExitCodeIsChilds
CHECK_DEADLOCK FALSE
