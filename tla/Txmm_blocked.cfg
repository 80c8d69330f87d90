CONSTANTS
  None = None
  Blocks = {b1, b2}
  Slots = {s1}
  Async = {}
  Timed = {}
  BlockedMsgs = {k1, k2}
  Resend = {}
SPECIFICATION FairSpec
CHECK_DEADLOCK FALSE
INVARIANTS
  TypeOK
  CleanupWaits
PROPERTY
  WaitsEnd
