SPECIFICATION BacktestSpec
CONSTANTS
  Universe = {"TQQQ", "GLD"}
  Safe = {"GLD"}
  Signals <- MCSignals
  Quotes <- MCQuotes
  NoBar = NoBar
  MaxBatch = 2
  MaxSessions = 4
  MaxGap = 2
  SlipPct = 5
  FeePct = 5
  StopPct = 20
  Seed = 140
  Monthly = 40
  DueDay = 2
  MonthDays = 3
  YearMonths = 2
  TaxFree = 10
  TaxPct = 50
  MaxOrders = 3
  MaxNotional = 200
  WeightCap <- MCCap
  MinEquity = 0
  HighValue = 200
  AllowHigh = FALSE
  Unknown = Unknown
INVARIANTS
  BooksBalance
  NothingSpentTwice
  YearsAndMonthsOnce
CHECK_DEADLOCK FALSE
