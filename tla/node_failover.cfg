SPECIFICATION FairSpec
CONSTANTS
  NodeId = {a, b, c}
  NoNode = NoNode
  CacheSize = 2
  HeartbeatScore = 4
  Ops = {"Heartbeat", "TaskDispatch", "StateUpdate"}
  Bit = {b1}
  NoPayload = NoPayload
  NoMsg = NoMsg
  GossipCap = 0
  GossipTtl = 0
  Hazard = {}
  MaxTime = 0
  HasWal = FALSE
  WalFaults = {}
  WalBound = 0
  Steady = {a, b}
INVARIANTS TypeOK OneSlotEachNoTies SafeModeMotorStopped LeaderTrust
PROPERTIES LosingTheLeaderStops NoUpdateIntoSafeMode ImplementsLease SafeModeHeals
