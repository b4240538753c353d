SPECIFICATION FairSpec
CONSTANTS
  s1 = s1
  s2 = s2
  NoServer = NoServer
  Ids = {1, 2}
  Servers = {s1, s2}
  BatchSize = 2
  ClaimLease = 2
  RetryBase = 1
  MaxRetry = 2
  PublishedRetain = 1
  Horizon = 1
INVARIANTS RowTypeOK NoHintLost LeaseExcludes
PROPERTIES EveryHintPublished
CHECK_DEADLOCK FALSE
