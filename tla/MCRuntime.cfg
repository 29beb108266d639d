SPECIFICATION Spec
CONSTANTS
  MaxInvocations = 4
  MaxParts = 2
  Statuses = {201}
  Results <- MCResults
  IntBits = 11
  ReqMax = 2
  HasInit = TRUE
  HasPre = TRUE
  HasPost = TRUE
  Raw = FALSE
  Diagnostic = TRUE
INVARIANTS
  TypeOK
  AnsweredBeforePoll
  NothingAfterAck
  HandleFree
  OwnOutputOnly
  CleanSlate
  StreamedHeadIsFinal
  ErrorReplacesBody
  ClosedBeforeReuse
  InitOncePerState
  ReqMaxRespected
PROPERTIES
  ClosedForCause
  HandledIsAnswered
  Settled
  ImplementsProtocol
CHECK_DEADLOCK FALSE
