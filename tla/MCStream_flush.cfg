SPECIFICATION Spec
CONSTANTS
  PreludeLen = 1
  SeparatorLen = 1
  MaxRoom = 3
  MaxWrites = 3
  MaxRequests = 1
PROPERTIES
  FlushSendsWritten
\* the process exits
CHECK_DEADLOCK FALSE
