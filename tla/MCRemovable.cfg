SPECIFICATION MCFairSpec
CONSTANTS
  RemoveCallbacks = {f, g, h}
  NoCallback = NoCallback
  MaxRemovals = 2
  MaxRefs = 4
  Lengths = {0, 1, 3}
  MaxStarts = 3
  MaxCalls = 3
INVARIANTS
  StopsAndCounts
  DeletedOnce
PROPERTIES
  CallbackAlive
  EveryTimeoutFires
  ReleasedIsDeleted
