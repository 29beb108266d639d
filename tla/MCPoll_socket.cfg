SPECIFICATION Spec
CONSTANTS
  Fds <- MCFds
INVARIANTS
  ClosesOnlyPollSocket
CHECK_DEADLOCK FALSE
