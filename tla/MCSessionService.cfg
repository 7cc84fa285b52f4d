CONSTANTS
  Sessions = {s1, s2}
  TtyCap = 1
SPECIFICATION FairSpec
INVARIANTS TypeOK RuntimeMirrorsPty OverMeansReaped EofLosesNothing
PROPERTIES OverIsFinal StopReturns PollReturns
CHECK_DEADLOCK FALSE
