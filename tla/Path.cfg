SPECIFICATION PathSpec
CONSTANTS
  MaxLength = 5
  MaxBase = 0
INVARIANTS
  BeginsAtStart
CHECK_DEADLOCK FALSE
