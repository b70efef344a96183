CONSTANTS
  Sockets = {w1, w2, w3}
  None = None
  MaxWaits = 2
  MaxFaults = 2
  MaxKeys = 2
SPECIFICATION FairSpec
PROPERTY PauseHolds
PROPERTY ComesBack
PROPERTY SilenceNoticed
CHECK_DEADLOCK FALSE
