CONSTANTS
  Sockets = {w1, w2, w3}
  None = None
  MaxWaits = 2
  MaxFaults = 1
  MaxKeys = 0
SPECIFICATION FairSpec
PROPERTY Settles
CHECK_DEADLOCK FALSE
