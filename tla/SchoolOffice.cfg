SPECIFICATION FairSpec
CONSTANTS
  m1 = m1
  s1 = s1
  s2 = s2
  d1 = d1
  d2 = d2
  t1 = t1
  h1 = h1
  p1 = p1
  p2 = p2
  b1 = b1
  b2 = b2
  b3 = b3
  c1 = c1
  c2 = c2
  r1 = r1
  r2 = r2
  Requests = {r1, r2}
  NoRequest = NoRequest
  NoRow = NoRow
  Nothing = Nothing
  MaxAborts = 1
  Months = {m1}
  Staff = {s1, s2}
  Nets = {1, 2}
  MaxRuns = 3
  MaxApplications = 2
  MaxStudents = 2
  ByHand = {0, 2}
  NoStudent = NoStudent
  Docs = {d1, d2}
  Retention = 1
  MaxTime = 2
  Take = 1
  Teachers = {t1}
  Times = {h1}
  Pupils = {p1, p2}
  Nobody = Nobody
  Types = {b1, b2, b3}
  Transfer = b1
  Learners = {p1, p2}
  MaxCertificates = 4
  Callers = {c1, c2}
  FailureThreshold = 2
  MaxRetries = 1
INVARIANTS
  CycleMatchesSlips
  OneStudentEach
  AdmissionsContinuous
  PurgeIsExclusive
  DeletedHasNoFile
  CertificatesContinuous
PROPERTIES
  ElapsedIsPurged
  BreakerRecovers
  RequestsEnd
CONSTRAINT OneFamily
ACTION_CONSTRAINT SlotsInOrder
CHECK_DEADLOCK FALSE
