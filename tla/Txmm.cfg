\* Two messages without a time-out and one with: all three blocks may wait in
\* QUEUED behind a slot that an earlier message still holds.
CONSTANTS
  None = None
  Blocks = {b1, b2, b3}
  Slots = {s1}
  Async = {a1, a2}
  Timed = {t1}
  BlockedMsgs = {}
  Resend = {a1}
SPECIFICATION FairSpec
CHECK_DEADLOCK FALSE
INVARIANTS
  Linked
  SlotOwnership
PROPERTIES
  FifoKept
  TimedAnswered
  QueuedLeaves
