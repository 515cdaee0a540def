SPECIFICATION FairSpec
CONSTANTS
  y1 = y1
  y2 = y2
  s1 = s1
  s2 = s2
  a = a
  b = b
  c = c
  p1 = p1
  r1 = r1
  r2 = r2
  Years = {y1, y2}
  FirstYear = y1
  Students = {s1, s2}
  Sections = {a, b, c}
  YearOf <- MCYearOf
  Requests = {r1, r2}
  NoRequest = NoRequest
  NoItem = NoItem
  MaxBatch = 2
  MaxAborts = 1
  Processes = {p1}
  Redis = Redis
  NoYear = NoYear
  Missed = Missed
INVARIANTS
  TypeOK
  ExactlyOneActiveYear
  OneActiveEnrollment
PROPERTIES
  PromotedTogether
  RequestsEnd
  StaleEnds
CONSTRAINT OneFamily
ACTION_CONSTRAINT SlotsInOrder
CHECK_DEADLOCK FALSE
