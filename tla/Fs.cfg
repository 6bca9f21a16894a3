SPECIFICATION FairSpec
CONSTANTS
  File = File
  READ_BUFS_NUM = 2
  FileSize = 2
  MaxFileOpens = 2
  MaxBlocks = 1
  Overlaps = FALSE
  Dir = Dir
  DirSize = 2
  MaxDirOpens = 2
  DirOverlaps = FALSE
  Names = {a, b}
  Depth = 2
  MaxEntries = 3
  MaxMakers = 2
  MaxTreeCalls = 2
  Cancelled = FALSE
  MaxRequests = 2
INVARIANTS
  ChunksInOrder
  OutlivesRequests
  TreeAsReported
PROPERTIES
  Completes
CHECK_DEADLOCK FALSE
