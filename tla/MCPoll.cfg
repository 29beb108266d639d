SPECIFICATION Spec
CONSTANTS
  Fds <- MCFds
INVARIANTS
  TypeOK
  AtMostOneLate
PROPERTIES
  CancelledPollEnds
  TermEndsBusy
CHECK_DEADLOCK FALSE
