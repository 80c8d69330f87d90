CONSTANTS
  s1 = s1
  v1 = v1
  Stations = {s1}
  Broadcast = Broadcast
  Vaps = {v1}
  VapOf <- OneVap
  Scanner = Scanner
  Senders = {c1}
  NACs = 2
  PoolSize = 2
  LimitCfg = 2
  PmLimit = 1
  GlobalLimit = 2
  PeerLimit = 1
  MaxPackets = 2
  MaxRequests = 2
  NULL = NULL
SPECIFICATION Spec
INVARIANTS TypeOK InFlight SizeMatches KeyAfterConfirmed Served
CHECK_DEADLOCK FALSE
