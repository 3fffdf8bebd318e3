SPECIFICATION FairRedisSpec
CONSTANTS
  Client = {c1, c2}
  Key = {k1, k2}
  MaxRequests = 3
  MaxFailures = 2
INVARIANTS InOrderAtMostOnce CachedIsAnnounced
PROPERTIES QueuedIsHandled
CHECK_DEADLOCK FALSE
