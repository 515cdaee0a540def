SPECIFICATION PersistentSpec
CONSTANTS
  s1 = s1
  s2 = s2
  x1 = x1
  x2 = x2
  r1 = r1
  r2 = r2
  r3 = r3
  NoRef = NoRef
  NoRequest = NoRequest
  f1 = f1
  Schools = {s1, s2}
  Captured = {}
  PaidTo <- SameSchool
  Requests = {r1}
  Fallbacks = {f1}
  RequestTx = TRUE
  MaxRetries = 2
  MaxFaults = 0
  MaxCollected = 3
PROPERTIES
  SchoolCollects
