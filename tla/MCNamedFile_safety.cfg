\* One client and a file that changes up to twice.
SPECIFICATION Spec
CONSTANTS
  MaxSize = 2
  MinTime    <- MCMinTime
  MaxTime = 2
  MaxVersions = 3
  Second  = 2
  U64     = 16
  Headers    <- MCHeaders
  Conditions <- MCConditions
  Configs    <- MCConfigs
INVARIANTS
  TypeOK
  NotModifiedIsCurrent
  PanicsOnlyAtEdges
PROPERTIES
  PartsFitTogether
