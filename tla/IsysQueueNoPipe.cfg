\* A buffer is queued in one thread while another one stops the node.
SPECIFICATION Spec
CONSTANTS
  Node = {n1, n2}
  NoNode = NoNode
  BufsPerNode = 2
  DeepNode = {}
  Restarts = "whenAllStopped"
  ConcurrentIoctls = TRUE
  MaxCount = 2
  FailingStarts = {}
  MsgMayRunOut = FALSE
  SendMayFail = FALSE
  FwMayHang = FALSE
SYMMETRY NodeSymmetry
INVARIANT NoPipelineIsSeen
