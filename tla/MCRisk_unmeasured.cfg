SPECIFICATION RiskSpec
CONSTANTS
  acc = acc
  shopA = shopA
  shopB = shopB
  thin = thin
  payer = payer
  b1 = b1
  b2 = b2
  none = none
  Nightly = b1
  NoRow = NoRow
  Nothing = none
  Stored <- StoreNumbered
  Accounts <- Everyone
  PageRank <- FirstRank
  Corpora <- SomeCorpora
  Revisions = {}
  Batches = {b1}
INVARIANT UnmeasuredNotTrusted
