CONSTANTS
  Sessions = {s1}
  Ops = {o1}
  Conns = {}
  Reconciler = reconciler
  None = None
  MaxRevision = 2
  SaveMayFail = FALSE
SPECIFICATION Spec
PROPERTY NoSendAfterRevocation
