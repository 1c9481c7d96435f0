SPECIFICATION FairSpec
CONSTANTS
  s1 = s1
  s2 = s2
  None = None
  Cap = 2
  Kills = TRUE
  NetFaults = TRUE
  Order = 5
  Base = 1
  MaskA = 2
  MaskB = 3
  Add <- MCAdd
  Mult <- MCMult
  Point <- MCPoint
  Secret <- MCSecret
  Code <- MCCode
  Salt <- MCSalt
  Hosts <- MCHosts
INVARIANTS
  TypeOK
  ReadyMeansAgreed
PROPERTIES
  SameCodeConnects
  MistypedCodeIsReported
  HandshakeEnds
CHECK_DEADLOCK FALSE
