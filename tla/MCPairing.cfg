CONSTANTS
  Ids = {i1, i2}
  Codes = {c1, c2}
  Devices = {d1, d2}
  TTL = 1
  MaxTime = 2
SPECIFICATION Spec
INVARIANTS TypeOK TokenHasOwner GrantedStaysValid OneTokenPerRequest GrantedOrDenied
PROPERTIES StatusSettles
SYMMETRY Symmetry
CHECK_DEADLOCK FALSE
