CONSTANTS
  NULL = NULL
  Limit = 8
  Windows = {2, 3}
  BufSize = 4
  Age = 3
  FirstSeq = 5
  MaxSent = 11
SPECIFICATION Spec
CHECK_DEADLOCK FALSE
PROPERTY
  ImplementsReorderingAlways
