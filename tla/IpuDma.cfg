\* Two clients with buffers of one or two pages; an L2 table has two entries, so
\* that buffers lie across tables.
SPECIFICATION Spec
CONSTANTS
  Client = {c1, c2}
  Page = {p1, p2, p3}
  NoPage = NoPage
  TrashPage = TrashPage
  NumIova = 3
  PerTable = 2
  TrashSize = 1
  BufPages = 2
SYMMETRY DmaSymmetry
INVARIANTS DeviceReachesBuffers PageTablesMatchBuffers NoStaleTranslation NothingElseLeaks
