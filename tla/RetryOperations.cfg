CONSTANTS
  Sessions = {s1, s2}
  Keys = {k1, k2}
  Ids = {i1, i2, i3, i4}
  Conns = {c1, c2}
  None = None
  MaxPending = 2
  MaxOperations = 3
  Faults = {"save", "crash"}
SPECIFICATION Spec
SYMMETRY Symmetry
INVARIANTS
  TypeOK
  ResultsHonest
  OneCallPerKey
  RegistryBounded
