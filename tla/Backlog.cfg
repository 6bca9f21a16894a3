SPECIFICATION Spec
CONSTANTS
  Items = {x, y}
  EntityTimeoutMs = 8
  TicksPerMs = 2
  AddAges = {0, 5, 9, 15, 16}
  Lag = 1
  MaxNow = 22
  RemovesScanned = FALSE
SYMMETRY Symmetry
INVARIANTS
  ItemsAccounted
  BoundedLateness
