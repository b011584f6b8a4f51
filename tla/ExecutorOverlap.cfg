SPECIFICATION Spec
CONSTANTS
  Batch <- MCBatch1
  Prices = {p1, p2}
  Qty = 1
  MaxClock = 1
  NoRow = NoRow
  NoOrder = NoOrder
  Runs = {r1, r2}
  MaxRetries = 1
  MaxOrders = 3
  Overlap = TRUE
SYMMETRY RunSymmetry
INVARIANTS
  SubmittedIsHeld
PROPERTY ActsAsAsked
CHECK_DEADLOCK FALSE
