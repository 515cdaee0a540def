SPECIFICATION FairSpec
CONSTANTS
  u1 = u1
  u2 = u2
  s1 = s1
  r1 = r1
  r2 = r2
  Admins = {u1, u2}
  Schools = {s1}
  Platform = Platform
  Requests = {r1, r2}
  Cron = Cron
  NoRequest = NoRequest
  NoGrant = NoGrant
  Chains <- MCChains
  Subjects <- MCSubjects
  Values <- MCValues
  Retention = 0
  MaxTime = 1
  MaxGrants = 2
  MaxEntries = 9
  MaxAborts = 1
  MaxIds = 9
  MaxTroubled = 4
INVARIANTS
  TypeOK
  OneOpenGrant
  TrailTellsStatus
  ChainIsLine
PROPERTIES
  OpenedOnce
  RequestsEnd
  ElapsedGrantEnds
CONSTRAINT Named
CHECK_DEADLOCK FALSE
