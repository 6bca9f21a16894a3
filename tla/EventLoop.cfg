SPECIFICATION MCFairSpec
CONSTANTS
  Callbacks = {c1, c2}
  Threads = {t1}
  CycleHandles = {h1}
  Signals = {HUP}
  MaxBlock = 1
INVARIANTS
  NoLostWakeup
  ExecutorArmed
  ReturnsIdleUnlessLate
PROPERTIES
  CallbacksInOrder
  PostedIsCalled
  ExitsWhenIdle
