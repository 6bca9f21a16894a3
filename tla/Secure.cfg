SPECIFICATION FairSpec
CONSTANTS
  Conns = {c1}
  Server = Server
  Rounds = 2
  MaxData = 1
  MaxJunk = 1
  MaxSends = 2
  MaxRefused = 1
  EndsWhileSending = FALSE
  CallsWhileClosing = FALSE
  AnyExpiry = FALSE
INVARIANTS
  HandshakeThenData
  
  OutlivesTransport
PROPERTIES
  Completes
