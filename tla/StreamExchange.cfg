CONSTANTS
  IdMod = 4
  Requests = {r1, r2}
  None = None
  Bodies <- ExBodies
  QCap = 1
  MaxBody = 1
  MaxChunks = 1
  MaxPeerFrames = 0
  PeerTypes = {}
  FirstIds = {2}
SPECIFICATION ExSpec
SYMMETRY Symmetric
INVARIANTS EntryHasOwner OwnResponse CompleteMeansEnd CompleteIsWhole UploadIntact PanicNeedsEarlyEnd
CHECK_DEADLOCK FALSE
