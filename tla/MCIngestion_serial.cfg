SPECIFICATION Spec
CONSTANTS
  d1 = d1
  h1 = h1
  h2 = h2
  NoRow = NoRow
  Disputes <- MCDisputes
  Events <- AllEvents
  Handlers = {h1}
  Watched = {}
  Overlap = FALSE
  MaxHistory = 5
INVARIANTS
  TypeOK
  TrailExplainsCase
  EventIdAppliedOnce
PROPERTIES
  NeverRollsBack
  ImplementsLedger
CHECK_DEADLOCK FALSE
