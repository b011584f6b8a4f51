SPECIFICATION Spec
CONSTANTS
  Batch <- MCBatch2
  Prices = {p1}
  Qty = 2
  MaxClock = 0
  NoRow = NoRow
  NoOrder = NoOrder
  NoQty = NoQty
  Passes = {c1, c2}
  ByAmount = {"dca:SHY"}
  Bracketed = {"dca:QQQ", "dca:SHY"}
  MaxOpen = 1
  Crashes = TRUE
  Repeats = FALSE
SYMMETRY PassSymmetry
INVARIANTS
  FillsAddUp
  SettledIsTrue
  BracketWithinFill
PROPERTY RowsOnlyAdvance
CHECK_DEADLOCK FALSE
