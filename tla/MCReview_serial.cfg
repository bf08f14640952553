SPECIFICATION ReviewSpec
CONSTANTS
  d1 = d1
  h1 = h1
  w1 = w1
  w2 = w2
  r1 = r1
  r2 = r2
  NoRow = NoRow
  Disputes <- MCDisputes
  Events <- LateLife
  Handlers = {h1}
  Scorers = {w1}
  Reviewers = {r1}
  Bundles <- OneBundle
  RiskFactors = {100}
  Requests <- Careless
  Watched = {}
  Overlap = FALSE
  MaxHistory = 3
  MaxDecisions = 2
  MaxNow = 1
INVARIANTS
  ReviewTypeOK
  DraftsUngated
  GenerationsAdvance
  ReopenedDispatchCurrent
PROPERTIES
  ReviewKeepsVerdicts
CHECK_DEADLOCK FALSE
