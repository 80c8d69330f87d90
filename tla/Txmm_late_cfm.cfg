CONSTANTS
  None = None
  Blocks = {b1, b2}
  Slots = {s1, s2}
  Async = {}
  Timed = {}
  BlockedMsgs = {k1, k2}
  Resend = {}
SPECIFICATION Spec
CHECK_DEADLOCK FALSE
INVARIANT
  BlockedOkConfirmed
