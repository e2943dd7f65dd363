\* Starts fail and the firmware hangs; one buffer for each node.
SPECIFICATION FairSpec
CONSTANTS
  Node = {n1, n2}
  NoNode = NoNode
  BufsPerNode = 1
  DeepNode = {}
  Restarts = "whenAllStopped"
  ConcurrentIoctls = FALSE
  MaxCount = 2
  FailingStarts = {"stream"}
  MsgMayRunOut = FALSE
  SendMayFail = FALSE
  FwMayHang = TRUE
INVARIANT FirmwareBuffersActive
PROPERTY StopsEnd
