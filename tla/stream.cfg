SPECIFICATION FairSpec
CONSTANTS
  MaxMessage = 65536
  MaxFrame = 131072
  CopyBuffer = 32768
  Buffer = 1
  Messages = 2
  Quirks = 1
  Sizes <- MCSizes
  Cuts <- MCCuts
INVARIANTS
  TypeOK
  LengthsAgree
  LimitsAgree
PROPERTIES
  Implements
  Arrives
  EndSpreads
