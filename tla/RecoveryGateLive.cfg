CONSTANTS
  Sessions = {s1}
  Ops = {o1}
  Conns = {c1}
  Reconciler = reconciler
  None = None
  MaxRevision = 2
  SaveMayFail = FALSE
SPECIFICATION FairSpec
INVARIANTS
  TypeOK
  RevisionNamesState
PROPERTIES
  RequestsAnswered
  StopCompletes
