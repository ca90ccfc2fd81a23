CONSTANTS
  Modules = {"Transcript", "Lifecycle", "ConfigFile", "Policies", "Subscriptions", "EventLog",
             "DialogLog", "DialogMonitor"}
  tMaxTime = 2
  tMaxRecords = 2
  tMaxFiles = 2
  wMaxTime = 4
  wMaxChanges = 3
  cMaxWrites = 3
  cMaxRevision = 4
  fMaxRevision = 3
  eRetentions = {1, 2}
  eMaxBatch = 2
  eMaxEvents = 6
  eMaxFaults = 2
  aRetention = 2
  aMaxEvents = 7
  aMaxFaults = 2
  dWindows = {"window"}
  dRequests = {"r1", "r2"}
  dMaxEvents = 5
  pLimit = 1023
  pDelays = {0, 20, 200}
  pAttempts = 12
SPECIFICATION Spec
INVARIANTS
  TypeOK
  RevisionIsOneConfiguration
  DelaysSound
  NothingSkipped
  
PROPERTIES
  ActivityNotMissed
  OnlyInactiveExpire
  EngineScansWhatStays
  SettingsNeverGoBack
  HistoryKept
  PressedOnce
CHECK_DEADLOCK FALSE
