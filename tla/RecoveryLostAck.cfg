CONSTANTS
  MaxTurns = 3
  MaxTime = 3
  InitialDelay = 1
  MaxDelay = 2
  Window = 1
  MaxAttempts = 1
  PendingMaxAge = 3
  OrphanMaxAge = 2
  MaxObservationFailures = 1
  PruneAge = 4
  Policies = {"retry"}
  Faults = {"ack"}
SPECIFICATION Spec
PROPERTY RetriesBounded
