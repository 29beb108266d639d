SPECIFICATION Spec
CONSTANTS
  PreludeLen = 2
  SeparatorLen = 3
  MaxRoom = 3
  MaxWrites = 5
  MaxRequests = 2
INVARIANTS TypeOK WireInOrder CompleteWhenAcked
PROPERTIES FlushDrains DrivingEnds
\* the process exits
CHECK_DEADLOCK FALSE
