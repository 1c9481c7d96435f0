SPECIFICATION Spec
CONSTANTS
  s1 = s1
  s2 = s2
  None = None
  Cap = 2
  Kills = TRUE
  NetFaults = FALSE
  Order = 5
  Base = 1
  MaskA = 2
  MaskB = 3
  Add <- MCAdd
  Mult <- MCMult
  Point <- MCPoint
  Secret <- MCSecret
  Code <- MCCode
  Salt <- MCSalt
  Hosts <- MCHosts
INVARIANTS
  BlamesTheCodeRightly
CHECK_DEADLOCK FALSE
