SPECIFICATION Spec
CONSTANTS
  Setups <- MCSetups
  PipeCap = 1
  NFiles = 2
  FileSizes <- MCFileSizes
  MaxChanges = 1
  MaxAsks = 2
  None = None
INVARIANTS
  CompleteOpens
