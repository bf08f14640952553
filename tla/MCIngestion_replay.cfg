SPECIFICATION Spec
CONSTANTS
  d1 = d1
  h1 = h1
  h2 = h2
  NoRow = NoRow
  Disputes <- MCDisputes
  Events <- ReplayEvents
  Handlers = {h1}
  Watched <- ReplayEvents
  Overlap = FALSE
  MaxHistory = 4
PROPERTY ReplayNeverMutates
CHECK_DEADLOCK FALSE
