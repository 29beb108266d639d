SPECIFICATION Spec
CONSTANTS
  MaxInvocations = 1
  MaxParts = 1
  Statuses = {201}
  Results = {0, 503}
  IntBits = 11
  ReqMax = 0
  HasInit = FALSE
  HasPre = FALSE
  HasPost = FALSE
  Raw = FALSE
  Diagnostic = FALSE
INVARIANTS
  ErrorStatusSent
CHECK_DEADLOCK FALSE
