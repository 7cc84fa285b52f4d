\* Does QuotedAsDocumented hold?
CONSTANTS
  Keys <- MCKeys
  Configs <- MCConfigs
SPECIFICATION Spec
INVARIANT
  QuotedAsDocumented
CHECK_DEADLOCK FALSE
