SPECIFICATION FairSpec
CONSTANTS
  Works = {w1, w2, w3}
  Workers = {k1, k2}
  NoWork = NoWork
INVARIANTS
  DoneOnce
  WorkOutlivesOnWork
  CancelOkIsHonoured
PROPERTIES
  WorkIsDone
