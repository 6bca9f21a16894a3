SPECIFICATION MCSpec
CONSTANTS
  Sizes = {0, 1, 127, 128, 130, 131}
  SenderMax = 130
  ReceiverMax = 128
  ChunkSizes = {1, 2, 128}
  MaxMessages = 2
  MaxConnections = 2
  CutsMessages = FALSE
  MaxLength = 7
  MaxBase = 3
INVARIANTS
  DeliveredInOrder
  RoundTrip
  PathLaws
CHECK_DEADLOCK FALSE
