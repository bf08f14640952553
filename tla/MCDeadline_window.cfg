SPECIFICATION DeadlineSpec
CONSTANTS
  d1 = d1
  d2 = d2
  h1 = h1
  s1 = s1
  s2 = s2
  NoRow = NoRow
  Disputes <- OneDispute
  Events <- Moving
  Handlers = {h1}
  Scanners = {s1}
  Times = {0, 10, 60, 120}
  Watched = {}
  Overlap = FALSE
  MaxHistory = 2
PROPERTY ActiveFlagsUrgent
CHECK_DEADLOCK FALSE
