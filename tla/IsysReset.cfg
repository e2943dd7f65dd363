\* Two nodes, each the whole of its pipeline.  One has two buffers: one can be in the
\* firmware while the other is queued.  The firmware hangs, streams do not start again.
SPECIFICATION FairSpec
CONSTANTS
  Nodes = 2
  DeepNode = {2}
  Faults = {"hang", "restartFails"}
INVARIANTS BufferInOnePlace StreamsComeBack NoBufferStalls
PROPERTY CallsEnd
