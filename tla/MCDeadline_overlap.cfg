SPECIFICATION FairDeadlineSpec
CONSTANTS
  d1 = d1
  d2 = d2
  h1 = h1
  s1 = s1
  s2 = s2
  NoRow = NoRow
  Disputes <- TwoDisputes
  Events <- TwoLives
  Handlers = {h1}
  Scanners = {s1, s2}
  Times = {0, 70}
  Watched = {}
  Overlap = TRUE
  MaxHistory = 2
INVARIANTS
  DeadlineTypeOK
  RetiredWithCause
PROPERTIES
  FirstFlagStands
  ScanComplete
  FlagsSettle
CHECK_DEADLOCK FALSE
