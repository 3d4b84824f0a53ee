SPECIFICATION Spec
CONSTANTS
  NumClients = 2
  MAX_PENDING_REQUESTS = 3
  Unstamped = TRUE
  MaxRequests = 4
INVARIANTS PublishedOnce OvertakenWithinARound
PROPERTY EveryRequestPublished
