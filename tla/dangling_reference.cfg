SPECIFICATION BorrowSpec
CONSTANTS
  Handle = {h1, h2}
  N = 1
  Value = {v, w}
  NoValue = NoValue
  Wrap = 3
  NoRef = NoRef
INVARIANTS BorrowedStays
