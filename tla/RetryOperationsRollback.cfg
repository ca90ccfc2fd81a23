CONSTANTS
  Sessions = {s1}
  Keys = {k1}
  Ids = {i1}
  Conns = {c1, c2}
  None = None
  MaxPending = 1
  MaxOperations = 2
  Faults = {}
SPECIFICATION Spec
PROPERTY ToldIsDurable
