CONSTANTS
  Sids = {s1, s2}
  Socks = {k1, k2}
  MaxPosts = 2
  MaxStops = 2
SPECIFICATION FairSpec
INVARIANTS TypeOK NeverStranded OfflineIsClean
PROPERTIES Reconnected ExitIsLearned
CHECK_DEADLOCK FALSE
