CONSTANTS
  NoCmd = NoCmd
  Heap = {h1, h2}
  Blocked = {b1}
  NumPriorities = 2
SPECIFICATION FairSpec
INVARIANTS
  TypeOK
  QueuedOnce
  RefCounts
  Drained
  StoppedIsQuiet
  CompletedOnce
  BlockedOutcome
  PriorityRespected
PROPERTIES
  NoLostWakeup
  BlockedReturns
  StopReturns
