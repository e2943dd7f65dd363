\* Two nodes with two buffers each; every node has a thread that queues buffers
\* and one that starts and stops.  Nothing fails.
SPECIFICATION Spec
CONSTANTS
  Node = {n1, n2}
  NoNode = NoNode
  BufsPerNode = 2
  DeepNode = {}
  Restarts = "whenAllStopped"
  ConcurrentIoctls = TRUE
  MaxCount = 2
  FailingStarts = {}
  MsgMayRunOut = FALSE
  SendMayFail = FALSE
  FwMayHang = FALSE
SYMMETRY NodeSymmetry
INVARIANTS FifoOrder NoStalledFrame
