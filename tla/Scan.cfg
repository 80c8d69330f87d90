\* Two bands, each of one request and one more for a hidden BSS.
CONSTANTS
  MaxChunks = 1
SPECIFICATION FairSpec
INVARIANTS
  TypeOK
  FlowHeld
  ServiceRestored
  CompletedOnce
PROPERTIES
  ScanCompletes
  PrepareStopEnds
\* The driver is unloaded in the end.
CHECK_DEADLOCK FALSE
