CONSTANTS
  None = None
  Blocks = {b1, b2}
  Slots = {s1}
  Async = {a1}
  Timed = {t1}
  BlockedMsgs = {}
  Resend = {}
SPECIFICATION Spec
CHECK_DEADLOCK FALSE
INVARIANT
  CancelSafe
