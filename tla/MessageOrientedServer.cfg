SPECIFICATION FramedSpec
CONSTANTS
  Clients = {c1, c2}
  Server = Server
  MaxListens = 2
  MaxCloses = 2
  MaxWrites = 1
  CallsWhileClosing = FALSE
  SendsWithCallbacks = FALSE
INVARIANTS
  CloseReportedOnce
  ServerOutlivesUse
  WrapperOutlivesUse
PROPERTIES
  Completes
