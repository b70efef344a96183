CONSTANTS
  IdMod = 6
  Requests = {1, 2}
  None = None
  Bodies = {0, 1, 2, 3}
  QCap = 1
  MaxBody = 0
  MaxPeerFrames = 2
  PeerTypes = {"data", "goaway"}
  FirstIds = {2}
SPECIFICATION FairSpec
INVARIANTS DeliveredInOrder NeverClosedTwice
PROPERTIES RequestsFinish LossClosesTunnel
CONSTRAINT InTurn
CHECK_DEADLOCK FALSE
