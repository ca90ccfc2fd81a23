CONSTANTS
  MaxTurns = 3
  MaxTime = 3
  InitialDelay = 1
  MaxDelay = 1
  Window = 1
  MaxAttempts = 2
  PendingMaxAge = 2
  OrphanMaxAge = 1
  MaxObservationFailures = 1
  PruneAge = 1
  Policies = {"retry"}
  Faults = {"ack", "crash"}
SPECIFICATION Spec
INVARIANTS
  TypeOK
  RecoveredAtMostOnce
  OutcomesTruthful
PROPERTIES
  AutomaticSendsSpaced
  UncertainNeverResent
