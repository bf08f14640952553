SPECIFICATION Spec
CONSTANTS
  d1 = d1
  h1 = h1
  h2 = h2
  NoRow = NoRow
  Disputes <- MCDisputes
  Events <- RaceEvents
  Handlers = {h1, h2}
  Watched = {}
  Overlap = TRUE
  MaxHistory = 4
INVARIANTS
  CountersBacked
  ReopenHasTerminalPast
PROPERTIES
  TrailOnlyGrows
SYMMETRY HandlerSymmetry
CHECK_DEADLOCK FALSE
