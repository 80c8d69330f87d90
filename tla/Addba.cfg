CONSTANTS
  NumTids = 2
  UseAggr = {0, 1}
  PeerTids = {1}
  MaxAggr = 1
  MaxReord = 1
  MaxRejects = 2
  InvalidTag = 2
  MaxEarly = 1
  MaxTasks = 1
  MaxStarts = 1
SPECIFICATION Spec
CHECK_DEADLOCK FALSE
INVARIANTS
  TypeOK
  References
  Agreement
PROPERTY
  OpenedOnAnswer
