SPECIFICATION FairSpec
CONSTANTS
  c1 = c1
  c2 = c2
  c3 = c3
  r1 = r1
  r2 = r2
  None = None
  Conn <- MCTwoConn
  Room <- MCRoom
PROPERTIES
  Settled
  Released
  HangUpSpreads
