SPECIFICATION Spec
CONSTANTS
  a = a
  b = b
  c = c
  x = x
  y = y
  z = z
  cap = cap
  Symbols <- MCSymbols
  Limits <- MCLimits
  Settings <- MCSettings
  First <- MCFirst
  VetoReplies <- MCVetoReplies
  IdeaReplies <- MCIdeaReplies
  Excluded = {z}
  MaxVetoes = 2
  MaxCandidates = 2
  MaxGrowth = 1
  Reports = {m1, m2}
  Trades = {t1}
  Lifts = {d1}
  Ttl = 1
  MaxEdits = 2
  MaxDay = 1
  MaxFailures = 1
  None = None
SYMMETRY ReportSymmetry
INVARIANTS
  NothingUnlogged
  ChangesAreAChain
  ReviewKeepsToItsPowers
PROPERTIES
  RunsHonourTheLog
CHECK_DEADLOCK FALSE
