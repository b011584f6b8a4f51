SPECIFICATION FairSpec
CONSTANTS
  Credentials = {"c1", "c2"}
  Threads <- MCThreads
  Client <- MCClient
  Owner <- MCOwner
  Requests = 1
  Flaky = {"d1"}
  MaxRetries = 1
  MaxExpired = 1
  Crashes = TRUE
INVARIANTS
  CacheIsCurrent
  RefreshIsUsed
PROPERTIES
  EveryRequestEnds
CHECK_DEADLOCK FALSE
