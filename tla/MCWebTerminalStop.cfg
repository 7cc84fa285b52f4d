CONSTANTS
  Sids = {s1, s2}
  Socks = {k1, k2}
  MaxPosts = 2
  MaxStops = 2
SPECIFICATION Spec
INVARIANT StoppedStaysOffline
CHECK_DEADLOCK FALSE
