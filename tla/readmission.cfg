SPECIFICATION HistorySpec
CONSTANTS
  NodeId = {a, b}
  NoNode = NoNode
  CacheSize = 2
  HeartbeatScore = 3
  Ops = {"Heartbeat", "StateUpdate"}
  Bit = {b1}
  NoPayload = NoPayload
  NoMsg = NoMsg
  GossipCap = 0
  GossipTtl = 0
  Hazard = {}
  MaxTime = 0
  HasWal = FALSE
  WalFaults = {}
  WalBound = 0
INVARIANTS NoConvictReadmitted
