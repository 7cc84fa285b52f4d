\* Every combination of a few sources of variables.
CONSTANTS
  Keys <- MCKeys
  Configs <- MCConfigs
SPECIFICATION Spec
INVARIANTS
  LastLayerWins
  CleanIsClosed
CHECK_DEADLOCK FALSE
