SPECIFICATION InsistentSpec
CONSTANTS
  u1 = u1
  u2 = u2
  leaveX = leaveX
  essay = essay
  note1 = note1
  note2 = note2
  digest = digest
  cover = cover
  k1 = k1
  r1 = r1
  r2 = r2
  NoKey = NoKey
  NoInfo = NoInfo
  NoRequest = NoRequest
  Users = {u1}
  Ops = {leaveX, essay, note1, note2, digest}
  Keys = {k1}
  Requests = {r1, r2}
  MaxActions = 2
  MaxAborts = 1
  Tool <- MCTool
  Target <- OwnTarget
  InitialRole <- AllPrincipals
  RequestTx = FALSE
  Sweeper = FALSE
CONSTRAINT OneFamilyAuto
INVARIANTS
  TypeOK
  OneExecutor
  SucceededIsRecorded
PROPERTIES
  NeverReopened
  SlotReleased
  InterruptedIsSettled
