CONSTANTS
  Faults = {"exit"}
  MaxFaults = 1
SPECIFICATION Spec
PROPERTY ResumeKeepsContract
