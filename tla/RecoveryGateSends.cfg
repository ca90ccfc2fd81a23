CONSTANTS
  Sessions = {s1, s2}
  Ops = {o1}
  Conns = {c1}
  Reconciler = reconciler
  None = None
  MaxRevision = 2
  SaveMayFail = TRUE
SPECIFICATION Spec
SYMMETRY Symmetry
INVARIANTS
  SendOnlyWatched
  SendsExcludeRevocations
  QuietOnceClosed
PROPERTIES
  SendUnderCurrentPolicy
  CommitOnlyAsPlanned
  ExclusionSticks
