SPECIFICATION FairSpec
CONSTANTS
  Batch <- MCBatch3
  Prices = {p1}
  Qty = 1
  MaxClock = 0
  NoRow = NoRow
  NoOrder = NoOrder
  Runs = {r1, r2}
  MaxRetries = 1
  MaxOrders = 2
  Overlap = FALSE
INVARIANTS
  RecordedBeforeSent
  HeldOrdersAreLive
  DailyLimit
PROPERTIES
  ActsAsAsked
  TroubleEngagesSwitch
  EveryRunEnds
CHECK_DEADLOCK FALSE
