SPECIFICATION FairSpec
CONSTANTS
  x = x
  y = y
  p1 = p1
  p2 = p2
  up = up
  Absent = Absent
  N = 2
  Cap = 2
  MaxEdits = 1
  Overwrite = FALSE
  Kills = TRUE
  NetFaults = TRUE
  DiskFaults = TRUE
  Outsiders = FALSE
  Hosts <- MCHosts
  Block <- MCBlock
  Contents <- MCContents
  Existing <- MCExisting
  Path <- MCPath
  Unsafe <- MCUnsafe
INVARIANTS
  TypeOK
  Consent
  CompleteMeansDelivered
  PrefixDelivered
  InStep
  NoPanicWithoutEdits
PROPERTIES
  ExistingKept
  Implements
  Termination
