SPECIFICATION MCSpec
CONSTANTS
  Callbacks = {c1, c2}
  Threads = {t1}
  CycleHandles = {}
  Signals = {}
  MaxBlock = 0
SYMMETRY Symmetry
INVARIANTS
  ReturnsOnlyWhenIdle
