SPECIFICATION HistorySpec
CONSTANTS
  Frame <- MCFrame
  NoFrame = NoFrame
  Archive <- MCArchive
  KnownOp = {4, 32}
  Heartbeat = 4
  MaxLine = 14
  MaxFrames = 3
INVARIANTS TypeOK OneLookIsEnough InOrderAtMostOnce
PROPERTY OwedIsForwarded
