SPECIFICATION Spec
CONSTANTS
  Symbols <- MCSymbols
  Order <- MCOrder
  Bucket <- MCBucket
  Buckets = {"safe", "core", "growth"}
  SAFE = "safe"
  Leveraged = {"QLD"}
  MaxWeight <- MCMaxWeight
  Weight <- MCWeight
  Slots <- MCSlots
  Whole = 200
  ParamSets <- MCParams
  Portfolios <- MCPortfolios
  Readings <- MCReadings
  Reserve = 5
  MinOrder = 3
  UsdCap = 60
  PctCap = 20
  Multiple = 2
  Deposit = 100
  NoMargin = NoMargin
  Movers = {"AAA"}
  MaxRefused = 1
  MaxRuns = 2
INVARIANTS
  BuysKeepTheirLimits
  NoRoundTrip
  RosterWithinSlots
CHECK_DEADLOCK FALSE
