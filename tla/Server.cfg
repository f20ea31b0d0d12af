SPECIFICATION FairSpec
CONSTANTS
  Clients = {c1, c2, c3}
  Handles = {h1, h2}
  Backlog = 2
  MaxRequests = 2
INVARIANTS EventsReachTheirConnection NobodyWaitsInVain
PROPERTIES ServesConnections SessionsEnd RequestsAreHandled
CHECK_DEADLOCK FALSE
