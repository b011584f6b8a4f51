SPECIFICATION FairSpec
CONSTANTS
  Threads = {w1, w2}
  TtlPortfolio = 2
  TtlStatus = 1
  TtlBars = 3
  Whole = 2
  FirstLimit = 2
  Limits = {1, 2}
  MaxRequests = 3
  MaxRenames = 1
  None = None
INVARIANTS
  BudgetKept
PROPERTIES
  RenameShows
  StaleIsFlagged
  EveryPageEnds
