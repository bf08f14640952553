SPECIFICATION ReviewSpec
CONSTANTS
  d1 = d1
  h1 = h1
  w1 = w1
  w2 = w2
  r1 = r1
  r2 = r2
  NoRow = NoRow
  Disputes <- MCDisputes
  Events <- Reopening
  Handlers = {h1}
  Scorers = {w1, w2}
  Reviewers = {r1}
  Bundles <- OneBundle
  RiskFactors = {}
  Requests <- Closing
  Watched = {}
  Overlap = TRUE
  MaxHistory = 2
  MaxDecisions = 2
  MaxNow = 0
INVARIANTS
  DispatchedIffSubmitted
  OneLiveGeneration
  OutcomesBacked
SYMMETRY WorkerSymmetry
CHECK_DEADLOCK FALSE
