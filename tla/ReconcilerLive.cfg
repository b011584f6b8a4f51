SPECIFICATION ReadableSpec
CONSTANTS
  Batch <- MCBatch2
  Prices = {p1}
  Qty = 2
  MaxClock = 0
  NoRow = NoRow
  NoOrder = NoOrder
  NoQty = NoQty
  Passes = {c1}
  ByAmount = {"dca:SHY"}
  Bracketed = {"dca:QQQ"}
  MaxOpen = 1
  Crashes = FALSE
  Repeats = TRUE
PROPERTIES
  FilledIsRecorded
  AnomalyHoldsTrading
CHECK_DEADLOCK FALSE
