SPECIFICATION Spec
CONSTANTS
  x = x
  y = y
  p1 = p1
  p2 = p2
  up = up
  Absent = Absent
  N = 2
  Cap = 2
  MaxEdits = 0
  Overwrite = TRUE
  Kills = FALSE
  NetFaults = FALSE
  DiskFaults = FALSE
  Outsiders = FALSE
  Hosts <- MCHosts
  Block <- MCBlock
  Contents <- MCContents
  Existing <- MCExisting
  Path <- MCPath
  Unsafe <- MCUnsafe
INVARIANTS
  CompleteMeansAllDelivered
