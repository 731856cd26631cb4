SPECIFICATION HistorySpec
CONSTANTS
  Node = {a, b, c}
  Listener = {c}
  Speaker = {a, b}
  Ptp = TRUE
  Wrap = 64
  Skew = 1
  MaxWait = 1
  Ttl = 2
  TableCap = 2
  Score = {1, 2, 3}
  Threshold = 0
  High = 2
  Window = 1
  K = {2}
  NoAlarm = NoAlarm
  NoScript = NoScript
  Boot = 1
  MaxTime = 5
  MaxSent = 2
SYMMETRY Symmetry
INVARIANTS TypeOK NoWitnessForgotten PruningKeepsTime
PROPERTIES ImplementsPromise
