SPECIFICATION FairSpec
CONSTANTS
  s1 = s1
  s2 = s2
  x1 = x1
  x2 = x2
  r1 = r1
  r2 = r2
  r3 = r3
  NoRef = NoRef
  NoRequest = NoRequest
  f1 = f1
  Schools = {s1, s2}
  Captured = {x1, x2}
  PaidTo <- OneEach
  Requests = {r1, r2}
  Fallbacks = {f1}
  RequestTx = TRUE
  MaxRetries = 2
  MaxFaults = 1
  MaxCollected = 4
INVARIANTS
  ReceiptsDistinct
  Gapless
PROPERTIES
  CollectionEnds
  NeverRecordedAgain
