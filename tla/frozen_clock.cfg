SPECIFICATION Spec
CONSTANTS
  Node = {a, b, c}
  Listener = {c}
  Speaker = {a, b}
  Ptp = TRUE
  Wrap = 64
  Skew = 0
  MaxWait = 2
  Ttl = 2
  TableCap = 2
  Score = {1, 2, 3}
  Threshold = 0
  High = 2
  Window = 1
  K = {1, 2}
  NoAlarm = NoAlarm
  NoScript = NoScript
  Boot = 1
  MaxTime = 5
  MaxSent = 2
INVARIANTS AlarmIsRecent
