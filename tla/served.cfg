SPECIFICATION FairSpec
CONSTANTS
  Setups <- MCSetups
  PipeCap = 1
  NFiles = 2
  FileSizes <- MCFileSizes
  MaxChanges = 1
  MaxAsks = 2
  None = None
INVARIANTS
  TypeOK
  NoOrphan
  ResumedIsCoherent
  
PROPERTIES
  LogDrained
  StartsOrEnds
  DialEnds
  OwnConnectionHolds
