CONSTANTS
  Modules = {"Lifecycle", "ConfigFile", "Subscriptions", "DialogMonitor", "RetryOperations"}
  tMaxTime = 1
  tMaxRecords = 1
  tMaxFiles = 1
  wMaxTime = 3
  wMaxChanges = 1
  cMaxWrites = 2
  cMaxRevision = 3
  fMaxRevision = 2
  eRetentions = {1, 2}
  eMaxBatch = 2
  eMaxEvents = 6
  eMaxFaults = 2
  aRetention = 2
  aMaxEvents = 7
  aMaxFaults = 2
  dWindows = {"window"}
  dRequests = {"r1", "r2"}
  dMaxEvents = 4
  pLimit = 1023
  pDelays = {0, 20, 200}
  pAttempts = 12
SPECIFICATION FairSpec
PROPERTIES
  MembershipFollowsActivity
  
  EventuallyTold
  
  OperationsSettle
CHECK_DEADLOCK FALSE
