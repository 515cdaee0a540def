SPECIFICATION InsistentSpec
CONSTANTS
  u1 = u1
  u2 = u2
  leaveX = leaveX
  essay = essay
  note1 = note1
  note2 = note2
  digest = digest
  cover = cover
  k1 = k1
  r1 = r1
  r2 = r2
  NoKey = NoKey
  NoInfo = NoInfo
  NoRequest = NoRequest
  Users = {u1}
  Ops = {essay}
  Keys = {}
  Requests = {r1, r2}
  MaxActions = 1
  MaxAborts = 0
  Tool <- MCTool
  Target <- OwnTarget
  InitialRole <- AllPrincipals
  RequestTx = TRUE
  Sweeper = FALSE
PROPERTIES
  SlotReleased
