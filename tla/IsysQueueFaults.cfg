\* Captures are refused, messages run out, and nodes are stopped and started again
\* while others stream.  The bound MaxCount can stop the last start.  One node has two
\* buffers, so that filling the firmware can fail half way.
SPECIFICATION Spec
CONSTANTS
  Node = {n1, n2}
  NoNode = NoNode
  BufsPerNode = 1
  DeepNode = {n2}
  Restarts = "oneAtATime"
  ConcurrentIoctls = FALSE
  MaxCount = 2
  FailingStarts = {}
  MsgMayRunOut = TRUE
  SendMayFail = TRUE
  FwMayHang = FALSE
INVARIANT BufferInOnePlace
CHECK_DEADLOCK FALSE
