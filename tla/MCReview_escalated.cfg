SPECIFICATION ReviewSpec
CONSTANTS
  d1 = d1
  h1 = h1
  w1 = w1
  w2 = w2
  r1 = r1
  r2 = r2
  NoRow = NoRow
  Disputes <- MCDisputes
  Events <- FullLife
  Handlers = {h1}
  Scorers = {w1}
  Reviewers = {r1}
  Bundles <- TwoBundles
  RiskFactors = {100}
  Requests <- Plain
  Watched = {}
  Overlap = FALSE
  MaxHistory = 4
  MaxDecisions = 2
  MaxNow = 0
INVARIANT EscalatedDispatchCurrent
CHECK_DEADLOCK FALSE
