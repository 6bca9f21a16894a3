SPECIFICATION FairSpec
CONSTANTS
  MaxConnects = 2
  Anytime = FALSE
INVARIANTS
  ReportedOnce
  StreamKept
  DeletedLast
PROPERTIES
  Completes
