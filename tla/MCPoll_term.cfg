SPECIFICATION Spec
CONSTANTS
  Fds <- MCFds
PROPERTIES
  SigtermEndsPoll
CHECK_DEADLOCK FALSE
