SPECIFICATION Spec
CONSTANTS
  NodeId = {a, b}
  NoNode = NoNode
  CacheSize = 1
  HeartbeatScore = 2
  Ops = {"Heartbeat", "SpatialGossip", "StateUpdate", "StdBytecodeDispatch", "TaskFailed",
         "VmScriptDispatch"}
  Bit = {b1}
  NoPayload = NoPayload
  NoMsg = NoMsg
  GossipCap = 1
  GossipTtl = 1
  Hazard = {0, 1}
  MaxTime = 2
  HasWal = TRUE
  WalFaults = {"torn"}
  WalBound = 4
  Steady = {a, b}
SYMMETRY Symmetry
INVARIANTS StateIsReplay
