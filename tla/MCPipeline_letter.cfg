SPECIFICATION PipelineSpec
CONSTANTS
  d1 = d1
  h1 = h1
  w1 = w1
  r1 = r1
  NoRow = NoRow
  Disputes <- MCDisputes
  Events <- JustOpened
  Handlers = {h1}
  Scorers = {w1}
  Reviewers = {r1}
  Bundles <- MCBundles
  RiskFactors = {100}
  Requests <- Submit
  Records <- MCRecords
  Answers <- MCAnswers
  Watched = {}
  Overlap = FALSE
  MaxHistory = 3
  MaxDecisions = 1
  MaxNow = 0
INVARIANT TemplateTellsAll
CHECK_DEADLOCK FALSE
