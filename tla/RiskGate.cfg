SPECIFICATION Spec
CONSTANTS
  Symbols <- MCSymbols
  Currencies <- MCCurrencies
  Currency <- MCCurrency
  KRW = "KRW"
  USD = "USD"
  Signals <- MCSignals
  Worlds <- MCWorlds
  MaxBatch = 4
  Lot = 2
  MaxOrders = 4
  MaxNotional = 44
  Cap <- MCCap
  MinEquity = 30
  HighValue = 40
  AllowHigh = FALSE
  Unknown = Unknown
INVARIANTS
  DailyLimitsHold
  FundsCoverTheBatch
  WeightHolds
  CommitmentIsExact
CHECK_DEADLOCK FALSE
