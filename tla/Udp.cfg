SPECIFICATION FairSpec
CONSTANTS
  Peers = {p1}
  Server = Server
  Client = Client
  MaxPeers = 2
  MaxSends = 1
  MaxStarts = 2
  ClosesInCallbacks = FALSE
  MaxRequests = 1
  MaxDestinations = 2
INVARIANTS
  RefsExact
  TrackedMeansTimed
  NoUseAfterDelete
PROPERTIES
  Completes
