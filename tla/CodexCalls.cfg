CONSTANTS
  Faults = {"exit", "stall", "link", "error", "noid"}
  MaxFaults = 3
SPECIFICATION FairSpec
INVARIANTS
  DeliveredAtMostOnce
  HandshakeFirst
PROPERTIES
  ImplementsContract
  EventuallyServing
