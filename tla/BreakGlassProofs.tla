-------------------------- MODULE BreakGlassProofs --------------------------
(***************************************************************************)
(* Proofs about BreakGlass and the audit chains it writes.                 *)
(***************************************************************************)
EXTENDS BreakGlass, TLAPS

---------------------------------------------------------------------------
(***************************************************************************)
(* Invariants.                                                             *)
(***************************************************************************)
AtRow == {"load", "claim", "revoke", "expire", "auditSchool"}

(* What makes the type invariant inductive: whoever is about to touch a    *)
(* row has one at hand, and whoever is about to audit a change has made it.*)
Shape ==
  /\ TypeOK
  /\ \A g \in Grants : status[g] # "NONE" => info[g] # NoGrant
  /\ \A r \in Requests : pc[r] # "idle" => req[r] \in ReqType
  /\ \A r \in Slots : pc[r] \in AtRow => grant[r] \in Grants /\ info[grant[r]] # NoGrant
  /\ \A r \in Slots : pc[r] = "auditSchool" => draft[r][grant[r]] # "CLEAN"
  /\ \A g \in Grants : draft[Cron][g] \in {"CLEAN", "EXPIRED"}
  /\ \A g \in todo : info[g] # NoGrant
  /\ \A r \in Slots, g \in Grants : draft[r][g] # "CLEAN" => info[g] # NoGrant

(* An advisory lock has one holder.                                        *)
LocksApart ==
  \A r, q \in Slots : \A l \in locks[r] \cap locks[q] : r = q

Pair(g) == <<info[g].requester, info[g].school>>

(* A grant that is read, listed or changed exists; a request changes       *)
(* nothing before it has checked what it must.                             *)
Place ==
  /\ \A r \in Slots : pc[r] \in AtRow \ {"auditSchool"} => status[grant[r]] # "NONE"
  /\ \A g \in todo : status[g] # "NONE"
  /\ \A r \in Requests : pc[r] \in {"idle", "request", "load", "claim", "revoke"} =>
       \A g \in Grants : draft[r][g] = "CLEAN"
  /\ \A r \in Slots, g \in Grants : draft[r][g] # "NONE"

(* A row has one uncommitted change; an opening starts from a pending row, *)
(* and an insertion holds the lock of its pair, which has no open grant.   *)
Rows ==
  /\ LocksApart
  /\ \A r, q \in Slots, g \in Grants :
       draft[r][g] # "CLEAN" /\ draft[q][g] # "CLEAN" => r = q
  /\ \A r \in Slots, g \in Grants : draft[r][g] = "ACTIVE" => status[g] = "PENDING"
  /\ \A r \in Slots, g \in Grants : draft[r][g] = "PENDING" =>
       /\ status[g] = "NONE" /\ Pair(g) \in locks[r]
       /\ \A h \in Grants : status[h] \in Open => info[h] # info[g]
       /\ \A h \in Grants : draft[r][h] = "PENDING" => h = g
  /\ OneOpenGrant

(* Who approves is not who asked.                                          *)
Dual ==
  \A r \in Requests :
    /\ pc[r] = "claim" => info[grant[r]].requester # req[r].admin
    /\ \A g \in Grants : draft[r][g] = "ACTIVE" => info[g].requester # req[r].admin

(* Nothing is newer than the clock and the counter of ids; an uncommitted  *)
(* entry holds the lock of its chain and is newer than what is committed   *)
(* of it; and every transaction sees one line, which it extends.           *)
Chained ==
  /\ LocksApart
  /\ \A e \in log : e.no <= issued /\ e.time <= now
  /\ \A r \in Slots : \A e \in entries[r] :
       /\ e.no <= issued /\ e.time <= now /\ e.chain \in locks[r]
       /\ \A f \in log : f.chain = e.chain => Earlier(f, e)
  /\ Line(log)
  /\ \A r \in Slots : Line(log \cup entries[r])

---------------------------------------------------------------------------
(***************************************************************************)
(* Shape.                                                                  *)
(***************************************************************************)
LEMMA ShapeInit == Init => Shape
BY ConstantsAssumption, TrailAssumption
   DEF Init, Shape, TypeOK, TrailInit, TrailTypeOK, AllClean, Labels, Slots, AtRow,
       Statuses, Grants

LEMMA ShapeFinish ==
  ASSUME Shape, NEW r \in Slots, Finish(r), UNCHANGED <<trail, row>>,
         aborts' \in 0..MaxAborts
  PROVE  Shape'
BY ConstantsAssumption
   DEF Shape, TypeOK, TrailTypeOK, Finish, Goto, AllClean, Labels, Slots, AtRow,
       Statuses, trail, row

(* A transaction that goes on with its row, or without one.                *)
LEMMA ShapeBranch ==
  ASSUME Shape, NEW r \in Slots, NEW l \in Labels, Branch(r, l),
         r \in Requests => pc[r] # "idle", l \notin AtRow
  PROVE  Shape'
BY ConstantsAssumption
   DEF Shape, TypeOK, TrailTypeOK, Branch, Goto, Slots, AtRow, trail, row, txn, loc

LEMMA ShapeChange ==
  ASSUME Shape, NEW r \in Slots, NEW st \in Statuses, Change(r, grant[r], st, "auditSchool"),
         pc[r] \in AtRow, r = Cron => st = "EXPIRED"
  PROVE  Shape'
<1>1. grant[r] \in Grants /\ info[grant[r]] # NoGrant
  BY DEF Shape
<1>2. draft' \in [Slots -> [Grants -> Statuses \cup {"CLEAN"}]]
  BY <1>1 DEF Shape, TypeOK, Change
<1>3. draft'[r][grant[r]] = st /\ st # "CLEAN"
  BY <1>1 DEF Shape, TypeOK, Change, Statuses
<1>4. \A g \in Grants : draft'[Cron][g] \in {"CLEAN", "EXPIRED"}
  BY <1>1 DEF Shape, TypeOK, Change, Slots
<1>5. TypeOK'
  BY <1>2 DEF Shape, TypeOK, TrailTypeOK, Change, Goto, Labels, trail, row, loc
<1>6. \A q \in Slots : q # r => draft'[q] = draft[q] /\ pc'[q] = pc[q]
  BY DEF Shape, TypeOK, Change, Goto
<1>7. pc'[r] = "auditSchool" /\ pc[r] # "idle"
  BY DEF Shape, TypeOK, Change, Goto, AtRow
<1>8. UNCHANGED <<status, info, req, grant, todo>>
  BY DEF Change, row, loc
<1>9. \A q \in Requests : pc'[q] # "idle" => req'[q] \in ReqType
  BY <1>6, <1>7, <1>8 DEF Shape, Slots
<1>10. \A q \in Slots : pc'[q] \in AtRow => grant'[q] \in Grants /\ info'[grant'[q]] # NoGrant
  BY <1>1, <1>6, <1>8 DEF Shape
<1>11. \A q \in Slots : pc'[q] = "auditSchool" => draft'[q][grant'[q]] # "CLEAN"
  BY <1>3, <1>6, <1>8 DEF Shape
<1>12. \A q \in Slots, g \in Grants : draft'[q][g] # "CLEAN" => info'[g] # NoGrant
  <2>1. \A g \in Grants : g # grant[r] => draft'[r][g] = draft[r][g]
    BY <1>1 DEF Change, Shape, TypeOK
  <2> QED BY <1>1, <1>6, <1>8, <2>1 DEF Shape
<1> QED BY <1>4, <1>5, <1>8, <1>9, <1>10, <1>11, <1>12 DEF Shape

LEMMA ShapeArrival ==
  ASSUME Shape, NEW r \in Requests, Arrival(r)
  PROVE  Shape'
<1>1. PICK k \in Kinds, u \in Admins, s \in Schools, g \in Grants \cup {0},
           l \in {"request", "load"} :
        Start(r, k, u, s, g, l) /\ (l = "load" => g \in Grants /\ info[g] # NoGrant)
  <2>1. CASE \E u \in Admins, s \in Schools : StartRequest(r, u, s)
    BY <2>1 DEF StartRequest, Kinds
  <2>2. CASE \E u \in Admins, g \in Grants : StartApprove(r, u, g) \/ StartRevoke(r, u, g)
    <3>1. PICK u \in Admins, g \in Grants : StartApprove(r, u, g) \/ StartRevoke(r, u, g)
      BY <2>2
    <3>2. info[g] \in GrantType /\ info[g] # NoGrant
      BY <3>1 DEF StartApprove, StartRevoke, Shape, TypeOK
    <3> QED BY <3>1, <3>2 DEF StartApprove, StartRevoke, Kinds, GrantType
  <2> QED BY <2>1, <2>2 DEF Arrival
<1>2. [kind |-> k, admin |-> u, school |-> s] \in ReqType
  BY DEF ReqType
<1> QED BY <1>1, <1>2, ConstantsAssumption
  DEF Start, Goto, Shape, TypeOK, TrailTypeOK, Slots, Labels, AtRow, trail, row, txn

LEMMA ShapeRequestAccess ==
  ASSUME Shape, NEW r \in Requests, RequestAccess(r)
  PROVE  Shape'
<1>1. r \in Slots /\ r # Cron /\ req[r] \in ReqType /\ pc[r] = "request"
  BY ConstantsAssumption DEF Shape, RequestAccess, Slots
<1>2. CASE Throw(r)
  BY <1>1, <1>2, ShapeFinish DEF Throw, Shape, TypeOK
<1>3. CASE Insert(r, {PairLock(r)})
  <2>1. PICK g \in FreeGrants :
          /\ info' = [info EXCEPT ![g] = [requester |-> req[r].admin,
                                          school |-> req[r].school]]
          /\ grant' = [grant EXCEPT ![r] = g]
          /\ draft' = [draft EXCEPT ![r][g] = "PENDING"]
    BY <1>3 DEF Insert
  <2>2. g \in Grants /\ info[g] = NoGrant
    BY DEF FreeGrants
  <2>3. [requester |-> req[r].admin, school |-> req[r].school] \in GrantType
    BY <1>1 DEF ReqType, GrantType
  <2>4. info' \in [Grants -> GrantType \cup {NoGrant}] /\ grant' \in [Slots -> Grants \cup {0}]
    BY <1>1, <2>1, <2>2, <2>3 DEF Shape, TypeOK
  <2>5. draft' \in [Slots -> [Grants -> Statuses \cup {"CLEAN"}]]
    BY <1>1, <2>1, <2>2 DEF Shape, TypeOK, Statuses
  <2>6. PairLock(r) \in LockNames
    BY <1>1 DEF PairLock, LockNames, ReqType
  <2>7. locks' \in [Slots -> SUBSET LockNames]
    BY <1>1, <1>3, <2>6 DEF Insert, Shape, TypeOK
  <2>8. TypeOK'
    BY <1>3, <2>4, <2>5, <2>7 DEF Insert, Goto, Shape, TypeOK, TrailTypeOK, Labels, trail
  <2>9. \A h \in Grants : info[h] # NoGrant => info'[h] # NoGrant
    BY <2>1, <2>2 DEF Shape, TypeOK
  <2>10. info'[g] # NoGrant /\ draft'[r][g] = "PENDING" /\ grant'[r] = g
    BY <1>1, <2>1, <2>2, <2>3, ConstantsAssumption DEF Shape, TypeOK
  <2>11. \A q \in Slots : q # r => /\ draft'[q] = draft[q] /\ grant'[q] = grant[q]
                                   /\ pc'[q] = pc[q]
    BY <1>1, <1>3, <2>1 DEF Insert, Goto, Shape, TypeOK
  <2>12. pc'[r] = "auditSchool" /\ UNCHANGED <<status, req, todo>>
    BY <1>1, <1>3 DEF Insert, Goto, Shape, TypeOK
  <2>13. \A q \in Requests : pc'[q] # "idle" => req'[q] \in ReqType
    BY <1>1, <2>11, <2>12 DEF Shape, Slots
  <2>14. \A q \in Slots : pc'[q] \in AtRow => grant'[q] \in Grants /\ info'[grant'[q]] # NoGrant
    BY <2>2, <2>9, <2>10, <2>11 DEF Shape
  <2>15. \A q \in Slots : pc'[q] = "auditSchool" => draft'[q][grant'[q]] # "CLEAN"
    BY <2>10, <2>11 DEF Shape
  <2>16. \A h \in Grants : draft'[Cron][h] \in {"CLEAN", "EXPIRED"}
    BY <1>1, <2>11 DEF Shape, Slots
  <2>17. \A h \in todo' : info'[h] # NoGrant
    BY <2>9, <2>12 DEF Shape, TypeOK
  <2>18. \A q \in Slots, h \in Grants : draft'[q][h] # "CLEAN" => info'[h] # NoGrant
    <3>1. \A h \in Grants : h # g => draft'[r][h] = draft[r][h]
      BY <1>1, <2>1, <2>2 DEF Shape, TypeOK
    <3> QED BY <2>9, <2>10, <2>11, <3>1 DEF Shape
  <2> QED BY <2>8, <2>9, <2>12, <2>13, <2>14, <2>15, <2>16, <2>17, <2>18 DEF Shape
<1> QED BY <1>2, <1>3 DEF RequestAccess

LEMMA ShapeLoad ==
  ASSUME Shape, NEW r \in Requests, Load(r)
  PROVE  Shape'
<1>1. r \in Slots /\ pc[r] = "load" /\ grant[r] \in Grants
  BY DEF Load, Shape, Slots, AtRow
<1>2. CASE Throw(r)
  BY <1>1, <1>2, ShapeFinish DEF Throw, Shape, TypeOK
<1>3. CASE /\ \E l \in {"claim", "revoke"} : Goto(r, l)
           /\ seen' = [seen EXCEPT ![r] = status[grant[r]]]
           /\ UNCHANGED <<trail, row, txn, req, grant, todo, aborts>>
  <2>1. seen' \in [Slots -> Statuses]
    BY <1>1, <1>3 DEF Shape, TypeOK
  <2> QED BY <1>1, <1>3, <2>1
      DEF Goto, Shape, TypeOK, TrailTypeOK, Slots, Labels, AtRow, trail, row, txn
<1> QED BY <1>2, <1>3 DEF Load

LEMMA ShapeClaimRevoke ==
  ASSUME Shape, NEW r \in Requests, Claim(r) \/ Revoke(r)
  PROVE  Shape'
<1>1. r \in Slots /\ pc[r] \in AtRow /\ r # Cron
  BY ConstantsAssumption DEF Claim, Revoke, Slots, AtRow
<1>2. CASE Throw(r)
  BY <1>1, <1>2, ShapeFinish DEF Throw, Shape, TypeOK
<1>3. CASE \E st \in {"ACTIVE", "REVOKED"} : Change(r, grant[r], st, "auditSchool")
  BY <1>1, <1>3, ShapeChange DEF Statuses
<1> QED BY <1>2, <1>3 DEF Claim, Revoke

LEMMA ShapeSweep ==
  ASSUME Shape, List \/ NextGrant \/ ExpireGrant
  PROVE  Shape'
<1>0. Cron \in Slots
  BY DEF Slots
<1>1. CASE List
  <2>1. \A g \in todo' : g \in Grants /\ info[g] # NoGrant
    BY <1>1 DEF List, Shape, TypeOK
  <2> QED BY <1>0, <1>1, <2>1, ConstantsAssumption
      DEF List, Goto, Shape, TypeOK, TrailTypeOK, Slots, Labels, AtRow, trail, row, txn
<1>2. CASE NextGrant
  <2>1. CASE todo = {} /\ Branch(Cron, "commit")
    BY <1>0, <2>1, ConstantsAssumption, ShapeBranch DEF Labels, AtRow
  <2>2. CASE \E g \in todo :
               /\ grant' = [grant EXCEPT ![Cron] = g]
               /\ todo' = todo \ {g}
               /\ seen' = [seen EXCEPT ![Cron] = "ACTIVE"]
               /\ Goto(Cron, "expire")
               /\ UNCHANGED <<trail, row, txn, req, aborts>>
    <3>1. PICK g \in todo :
            /\ grant' = [grant EXCEPT ![Cron] = g] /\ todo' = todo \ {g}
            /\ seen' = [seen EXCEPT ![Cron] = "ACTIVE"]
            /\ Goto(Cron, "expire") /\ UNCHANGED <<trail, row, txn, req, aborts>>
      BY <2>2
    <3>2. g \in Grants /\ info[g] # NoGrant
      BY DEF Shape, TypeOK
    <3>3. TypeOK'
      BY <1>0, <3>1, <3>2
         DEF Goto, Shape, TypeOK, TrailTypeOK, Labels, Statuses, trail, row, txn
    <3>4. \A q \in Slots : q # Cron => pc'[q] = pc[q] /\ grant'[q] = grant[q]
      BY <1>0, <3>1 DEF Goto, Shape, TypeOK
    <3>5. pc'[Cron] = "expire" /\ grant'[Cron] = g
      BY <1>0, <3>1, <3>2 DEF Goto, Shape, TypeOK
    <3>6. \A q \in Slots : pc'[q] \in AtRow => grant'[q] \in Grants /\ info[grant'[q]] # NoGrant
      BY <3>2, <3>4, <3>5 DEF Shape
    <3>7. \A q \in Slots : pc'[q] = "auditSchool" => draft[q][grant'[q]] # "CLEAN"
      BY <3>4, <3>5 DEF Shape
    <3>8. \A q \in Requests : pc'[q] # "idle" => req[q] \in ReqType
      BY <3>4, ConstantsAssumption DEF Shape, Slots
    <3> QED BY <3>1, <3>3, <3>6, <3>7, <3>8 DEF Shape, row, txn
  <2> QED BY <1>2, <2>1, <2>2 DEF NextGrant
<1>3. CASE ExpireGrant
  <2>1. pc[Cron] = "expire" /\ Cron \notin Requests
    BY <1>3, ConstantsAssumption DEF ExpireGrant
  <2>2. CASE Branch(Cron, "next")
    BY <1>0, <2>1, <2>2, ShapeBranch DEF Labels, AtRow
  <2>3. CASE Change(Cron, grant[Cron], "EXPIRED", "auditSchool")
    BY <1>0, <2>1, <2>3, ShapeChange DEF AtRow, Statuses
  <2> QED BY <1>3, <2>2, <2>3 DEF ExpireGrant
<1> QED BY <1>1, <1>2, <1>3

LEMMA ShapeRecord ==
  ASSUME Shape, NEW r \in Slots, NEW c \in Chains, NEW g \in Subjects,
         NEW b \in Values, NEW a \in Values,
         NEW l \in Labels \ AtRow, Record(r, c, g, b, a, {c}, l),
         pc[r] # "idle"
  PROVE  Shape'
<1>1. PICK n \in 0..issued :
        entries' = [entries EXCEPT ![r] = @ \cup {Entry(c, n, g, b, a)}]
  BY DEF Record
<1>2. Entry(c, n, g, b, a) \in EntryType
  BY DEF Entry, EntryType, Shape, TypeOK, TrailTypeOK
<1>3. entries' \in [Slots -> SUBSET EntryType]
  BY <1>1, <1>2 DEF Shape, TypeOK
<1>4. locks' \in [Slots -> SUBSET LockNames] /\ issued' \in Nat
  BY DEF Record, Shape, TypeOK, TrailTypeOK, LockNames
<1>5. TypeOK'
  BY <1>3, <1>4 DEF Record, Goto, Shape, TypeOK, TrailTypeOK, row, loc
<1> QED BY <1>5 DEF Record, Goto, Shape, TypeOK, Slots, AtRow, row, loc

LEMMA ShapeAudit ==
  ASSUME Shape, NEW r \in Slots, AuditSchool(r) \/ (r \in Requests /\ AuditPlatform(r))
  PROVE  Shape'
<1>1. CASE AuditSchool(r)
  <2>1. grant[r] \in Grants /\ info[grant[r]] \in GrantType /\ pc[r] # "idle"
    BY <1>1 DEF AuditSchool, Shape, TypeOK, AtRow
  <2>2. School(r) \in Chains /\ grant[r] \in Subjects
    BY <2>1, ConstantsAssumption DEF School, GrantType
  <2>3. seen[r] \in Values /\ draft[r][grant[r]] \in Values
    BY <1>1, <2>1, ConstantsAssumption DEF AuditSchool, Shape, TypeOK
  <2>4. AfterSchool(r) \in Labels \ AtRow
    BY DEF AfterSchool, Labels, AtRow
  <2> QED BY <1>1, <2>1, <2>2, <2>3, <2>4, ShapeRecord DEF AuditSchool
<1>2. CASE r \in Requests /\ AuditPlatform(r)
  <2>1. Platform \in Chains /\ 0 \in Subjects /\ "NONE" \in Values
    BY ConstantsAssumption DEF Statuses
  <2>2. "commit" \in Labels \ AtRow
    BY DEF Labels, AtRow
  <2> QED BY <1>2, <2>1, <2>2, ShapeRecord DEF AuditPlatform
<1> QED BY <1>1, <1>2

LEMMA ShapeCommit ==
  ASSUME Shape, NEW r \in Slots, Commit(r)
  PROVE  Shape'
<1>1. status' \in [Grants -> Statuses]
  BY DEF Commit, Shape, TypeOK
<1>2. \A g \in Grants : draft[r][g] = "ACTIVE" => req[r].admin \in Admins
  BY DEF Commit, Shape, Slots, ReqType
<1>3. approver' \in [Grants -> SUBSET Admins]
  BY <1>2 DEF Commit, Shape, TypeOK
<1>4. log' \subseteq EntryType
  BY DEF Commit, Shape, TypeOK, TrailTypeOK
<1>5. TypeOK'
  BY <1>1, <1>3, <1>4, ConstantsAssumption
     DEF Commit, Finish, Goto, AllClean, Shape, TypeOK, TrailTypeOK, Labels, Statuses
<1>6. \A g \in Grants : status'[g] # "NONE" => info'[g] # NoGrant
  BY DEF Commit, Shape, TypeOK
<1>7. /\ pc'[r] = "idle" /\ \A g \in Grants : draft'[r][g] = "CLEAN"
      /\ \A q \in Slots : q # r => /\ pc'[q] = pc[q] /\ req'[q] = req[q]
                                  /\ grant'[q] = grant[q] /\ draft'[q] = draft[q]
  BY DEF Commit, Finish, Goto, AllClean, Shape, TypeOK
<1>8. info' = info /\ todo' \subseteq todo
  BY DEF Commit, Finish
<1> QED BY <1>5, <1>6, <1>7, <1>8 DEF Shape, Slots, AtRow

LEMMA ShapeStep == Shape /\ [Next]_vars => Shape'
<1> SUFFICES ASSUME Shape, [Next]_vars PROVE Shape'
  OBVIOUS
<1>1. ASSUME NEW r \in Requests, Arrival(r) \/ RequestStep(r) PROVE Shape'
  BY <1>1, ShapeArrival, ShapeRequestAccess, ShapeLoad, ShapeClaimRevoke, ShapeAudit
     DEF RequestStep, Slots
<1>2. CASE List \/ SweepStep
  BY <1>2, ShapeSweep DEF SweepStep
<1>3. ASSUME NEW r \in Slots, AuditStep(r) PROVE Shape'
  BY <1>3, ShapeAudit, ShapeCommit DEF AuditStep
<1>4. ASSUME NEW r \in Slots, Abort(r) \/ DeadlockVictim(r) PROVE Shape'
  <2>1. aborts' \in 0..MaxAborts /\ Finish(r) /\ UNCHANGED <<trail, row>>
    BY <1>4, ConstantsAssumption DEF Abort, DeadlockVictim, Throw, Shape, TypeOK
  <2> QED BY <2>1, ShapeFinish
<1>5. ASSUME NEW g \in Grants, Elapse(g) PROVE Shape'
  BY <1>5 DEF Elapse, Shape, TypeOK, TrailTypeOK, trail, txn, loc
<1>6. CASE Clock
  <2>1. log' \subseteq log /\ issued' = issued /\ now' \in Nat
    BY <1>6 DEF Clock, Tick, Purge, Shape, TypeOK, TrailTypeOK
  <2> QED BY <1>6, <2>1 DEF Clock, Shape, TypeOK, TrailTypeOK, row, txn, loc
<1>7. CASE UNCHANGED vars
  BY <1>7 DEF vars, trail, row, txn, loc, Shape, TypeOK, TrailTypeOK
<1> QED BY <1>1, <1>2, <1>3, <1>4, <1>5, <1>6, <1>7 DEF Next

THEOREM ShapeHolds == Spec => []Shape
BY ShapeInit, ShapeStep, PTL DEF Spec

(* In every reachable state, for any administrators, schools, request slots*)
(* and bounds, every variable holds a value of its kind.                   *)
THEOREM TypeCorrect == Spec => []TypeOK
<1>1. Shape => TypeOK
  BY DEF Shape
<1> QED BY <1>1, ShapeHolds, PTL

---------------------------------------------------------------------------
(***************************************************************************)
(* Locks.                                                                  *)
(***************************************************************************)
LEMMA LocksInit == Init => LocksApart
BY DEF Init, LocksApart

(* A holder lets go of everything, or takes one that is free.              *)
LEMMA LocksStep == Shape /\ LocksApart /\ [Next]_vars => LocksApart'
<1> SUFFICES ASSUME Shape, LocksApart, [Next]_vars PROVE LocksApart'
  OBVIOUS
<1>1. locks \in [Slots -> SUBSET LockNames]
  BY DEF Shape, TypeOK
<1>2. ASSUME NEW r \in Slots, locks' = [locks EXCEPT ![r] = {}] PROVE LocksApart'
  BY <1>1, <1>2 DEF LocksApart
<1>3. ASSUME NEW r \in Slots, NEW l, Free(r, l), locks' = [locks EXCEPT ![r] = @ \cup {l}]
      PROVE  LocksApart'
  BY <1>1, <1>3 DEF LocksApart, Free
<1>4. ASSUME UNCHANGED locks PROVE LocksApart'
  BY <1>4 DEF LocksApart
<1>5. ASSUME NEW r \in Requests, Arrival(r) PROVE LocksApart'
  BY <1>4, <1>5 DEF Arrival, StartRequest, StartApprove, StartRevoke, Start, txn
<1>6. ASSUME NEW r \in Requests, RequestStep(r) PROVE LocksApart'
  <2>1. r \in Slots
    BY DEF Slots
  <2>2. CASE RequestAccess(r)
    BY <1>2, <1>3, <2>1, <2>2 DEF RequestAccess, Throw, Finish, Insert
  <2>3. CASE Load(r) \/ Claim(r) \/ Revoke(r)
    BY <1>2, <1>4, <2>1, <2>3 DEF Load, Claim, Revoke, Change, Throw, Finish, txn
  <2>4. CASE AuditPlatform(r)
    BY <1>3, <2>1, <2>4 DEF AuditPlatform, Record
  <2> QED BY <1>6, <2>2, <2>3, <2>4 DEF RequestStep
<1>7. CASE List \/ SweepStep
  BY <1>4, <1>7 DEF List, SweepStep, NextGrant, ExpireGrant, Branch, Change, txn
<1>8. ASSUME NEW r \in Slots, AuditStep(r) PROVE LocksApart'
  BY <1>2, <1>3, <1>8 DEF AuditStep, AuditSchool, Record, Commit, Finish
<1>9. ASSUME NEW r \in Slots, Abort(r) \/ DeadlockVictim(r) PROVE LocksApart'
  BY <1>2, <1>9 DEF Abort, DeadlockVictim, Throw, Finish
<1>10. CASE (\E g \in Grants : Elapse(g)) \/ Clock \/ UNCHANGED vars
  BY <1>4, <1>10 DEF Elapse, Clock, vars, txn
<1> QED BY <1>5, <1>6, <1>7, <1>8, <1>9, <1>10 DEF Next

---------------------------------------------------------------------------
(***************************************************************************)
(* The chains.                                                             *)
(***************************************************************************)
(* An entry that is newer than all of S and refers to the newest of its    *)
(* chain in S continues the line.                                          *)
LEMMA LineGrows ==
  ASSUME NEW S \in SUBSET EntryType, NEW x \in EntryType,
         \A e \in S : e.chain = x.chain => Earlier(e, x),
         IsNewest(S, x.chain, x.prev), Line(S)
  PROVE  Line(S \cup {x})
<1>1. \A e, f \in EntryType : Earlier(e, f) => ~Earlier(f, e)
  BY DEF Earlier, EntryType
<1> SUFFICES ASSUME NEW e \in S \cup {x}, NEW f \in S \cup {x},
                    e.chain = f.chain, Earlier(f, e),
                    \A g \in OfChain(S \cup {x}, e.chain) : ~(Earlier(f, g) /\ Earlier(g, e))
             PROVE  e.prev = f.no
  BY DEF Line
<1>2. \A g \in OfChain(S, e.chain) : ~(Earlier(f, g) /\ Earlier(g, e))
  BY DEF OfChain
<1>3. CASE e \in S /\ f \in S
  BY <1>2, <1>3 DEF Line
<1>4. CASE f = x
  BY <1>1, <1>4
<1>5. CASE e = x /\ f \in S
  <2>1. f \in OfChain(S, x.chain)
    BY <1>5 DEF OfChain
  <2>2. PICK h \in OfChain(S, x.chain) :
          x.prev = h.no /\ \A g \in OfChain(S, x.chain) \ {h} : Earlier(g, h)
    BY <2>1 DEF IsNewest
  <2>3. Earlier(h, x)
    BY <2>2 DEF OfChain
  <2>4. f = h
    BY <1>2, <1>5, <2>1, <2>2, <2>3
  <2> QED BY <1>5, <2>2, <2>4
<1> QED BY <1>3, <1>4, <1>5

(* Two extensions of one log in different chains do not see one another.   *)
LEMMA LineMerges ==
  ASSUME NEW S, NEW A, NEW B, Line(S \cup A), Line(S \cup B),
         \A a \in A, b \in B : a.chain # b.chain
  PROVE  Line(S \cup A \cup B)
<1> SUFFICES ASSUME NEW e \in S \cup A \cup B, NEW f \in S \cup A \cup B,
                    e.chain = f.chain, Earlier(f, e),
                    \A g \in OfChain(S \cup A \cup B, e.chain) :
                      ~(Earlier(f, g) /\ Earlier(g, e))
             PROVE  e.prev = f.no
  BY DEF Line
<1>1. CASE e \in S \cup A /\ f \in S \cup A
  <2>1. \A g \in OfChain(S \cup A, e.chain) : ~(Earlier(f, g) /\ Earlier(g, e))
    BY DEF OfChain
  <2> QED BY <1>1, <2>1 DEF Line
<1>2. CASE e \in S \cup B /\ f \in S \cup B
  <2>1. \A g \in OfChain(S \cup B, e.chain) : ~(Earlier(f, g) /\ Earlier(g, e))
    BY DEF OfChain
  <2> QED BY <1>2, <2>1 DEF Line
<1> QED BY <1>1, <1>2

(* The purge takes the older part of every chain.                          *)
LEMMA LineSurvivesPurge ==
  ASSUME NEW S \in SUBSET EntryType, NEW A \in SUBSET EntryType, NEW t \in Nat,
         \A a \in A, e \in S : e.chain = a.chain => Earlier(e, a), Line(S \cup A)
  PROVE  Line({e \in S : e.time + Retention >= t} \cup A)
<1> DEFINE K == {e \in S : e.time + Retention >= t}
<1> SUFFICES ASSUME NEW e \in K \cup A, NEW f \in K \cup A,
                    e.chain = f.chain, Earlier(f, e),
                    \A g \in OfChain(K \cup A, e.chain) : ~(Earlier(f, g) /\ Earlier(g, e))
             PROVE  e.prev = f.no
  BY DEF Line
<1>1. ASSUME NEW g \in S \ K, g.chain = f.chain PROVE ~Earlier(f, g)
  <2>1. CASE f \in K
    BY <1>1, <2>1, TrailAssumption DEF Earlier, EntryType
  <2>2. CASE f \in A
    BY <1>1, <2>2 DEF Earlier, EntryType
  <2> QED BY <2>1, <2>2
<1>2. \A g \in OfChain(S \cup A, e.chain) : ~(Earlier(f, g) /\ Earlier(g, e))
  BY <1>1 DEF OfChain
<1> QED BY <1>2 DEF Line

LEMMA ChainedInit == Init => Chained
BY LocksInit DEF Init, TrailInit, Chained, Line

LEMMA ChainedQuiet ==
  ASSUME Shape, Chained, LocksApart', UNCHANGED <<trail, entries>>,
         \A r \in Slots : locks[r] \subseteq locks'[r]
  PROVE  Chained'
BY DEF Chained, trail, Line, OfChain, Earlier

LEMMA ChainedFinish ==
  ASSUME Shape, Chained, LocksApart', UNCHANGED trail, NEW r \in Slots, Finish(r)
  PROVE  Chained'
<1>1. entries'[r] = {} /\ \A q \in Slots : q # r => entries'[q] = entries[q] /\ locks'[q] = locks[q]
  BY DEF Finish, Shape, TypeOK
<1>2. log \cup {} = log
  OBVIOUS
<1>3. \A q \in Slots : Line(log \cup entries'[q])
  BY <1>1, <1>2 DEF Chained
<1>4. \A q \in Slots : Line(log' \cup entries'[q])
  BY <1>3 DEF trail
<1>5. Line(log')
  BY DEF Chained, trail
<1> QED BY <1>1, <1>4, <1>5 DEF Chained, trail, Earlier

LEMMA ChainedRecord ==
  ASSUME Shape, Shape', Chained, LocksApart', NEW r \in Slots,
         NEW c, NEW g, NEW b, NEW a, NEW l, Record(r, c, g, b, a, {c}, l)
  PROVE  Chained'
<1>1. PICK n \in 0..issued :
        /\ IsNewest(log \cup entries[r], c, n)
        /\ entries' = [entries EXCEPT ![r] = @ \cup {Entry(c, n, g, b, a)}]
  BY DEF Record
<1> DEFINE x == Entry(c, n, g, b, a)
<1>2. /\ x.no = issued + 1 /\ x.time = now /\ x.chain = c /\ x.prev = n
      /\ issued \in Nat /\ now \in Nat
  BY DEF Entry, Shape, TypeOK, TrailTypeOK
<1>3. /\ entries'[r] = entries[r] \cup {x}
      /\ \A q \in Slots : q # r => entries'[q] = entries[q]
      /\ \A q \in Slots : locks[q] \subseteq locks'[q]
      /\ c \in locks'[r] /\ log' = log /\ issued' = issued + 1 /\ now' = now
  BY <1>1 DEF Record, Shape, TypeOK
<1>4. x \in EntryType /\ log \cup entries[r] \in SUBSET EntryType
  BY <1>3 DEF Shape, TypeOK, TrailTypeOK
<1>5. \A e \in log \cup entries[r] : Earlier(e, x)
  <2> SUFFICES ASSUME NEW e \in log \cup entries[r] PROVE Earlier(e, x)
    OBVIOUS
  <2>1. e.no \in Nat /\ e.time \in Nat /\ e.no <= issued /\ e.time <= now
    BY <1>4 DEF Chained, EntryType
  <2> QED BY <1>2, <2>1 DEF Earlier
<1>6. Line(log \cup entries[r] \cup {x})
  <2>1. Line(log \cup entries[r])
    BY DEF Chained
  <2> QED BY <1>1, <1>2, <1>4, <1>5, <2>1, LineGrows
<1>7. \A q \in Slots : Line(log' \cup entries'[q])
  <2> SUFFICES ASSUME NEW q \in Slots PROVE Line(log \cup entries'[q])
    BY <1>3
  <2>1. CASE q = r
    <3>1. log \cup entries'[q] = log \cup entries[r] \cup {x}
      BY <1>3, <2>1
    <3> QED BY <1>6, <3>1
  <2>2. CASE q # r
    BY <1>3, <2>2 DEF Chained
  <2> QED BY <2>1, <2>2
<1>8. \A q \in Slots : \A e \in entries'[q] :
        /\ e.no <= issued' /\ e.time <= now' /\ e.chain \in locks'[q]
        /\ \A f \in log' : f.chain = e.chain => Earlier(f, e)
  <2> SUFFICES ASSUME NEW q \in Slots, NEW e \in entries'[q]
               PROVE  /\ e.no <= issued' /\ e.time <= now' /\ e.chain \in locks'[q]
                      /\ \A f \in log : f.chain = e.chain => Earlier(f, e)
    BY <1>3
  <2>1. CASE e \in entries[q]
    <3>1. e \in EntryType
      BY <2>1 DEF Shape, TypeOK
    <3> QED BY <1>2, <1>3, <2>1, <3>1 DEF Chained, EntryType
  <2>2. CASE q = r /\ e = x
    BY <1>2, <1>3, <1>5, <2>2
  <2> QED BY <1>3, <2>1, <2>2
<1>9. \A e \in log' : e.no <= issued' /\ e.time <= now'
  BY <1>2, <1>3 DEF Chained, Shape, TypeOK, TrailTypeOK, EntryType
<1>10. Line(log')
  BY <1>3 DEF Chained
<1> QED BY <1>7, <1>8, <1>9, <1>10 DEF Chained

LEMMA ChainedCommit ==
  ASSUME Shape, Chained, LocksApart', NEW r \in Slots, Commit(r)
  PROVE  Chained'
<1>1. /\ log' = log \cup entries[r] /\ issued' = issued /\ now' = now
      /\ entries'[r] = {}
      /\ \A q \in Slots : q # r => entries'[q] = entries[q] /\ locks'[q] = locks[q]
  BY DEF Commit, Finish, Shape, TypeOK
<1>2. \A q \in Slots : q # r => \A e \in entries[r], f \in entries[q] : e.chain # f.chain
  BY DEF Chained, LocksApart
<1>3. Line(log')
  BY <1>1 DEF Chained
<1>4. \A q \in Slots : Line(log' \cup entries'[q])
  <2> SUFFICES ASSUME NEW q \in Slots PROVE Line(log' \cup entries'[q])
    OBVIOUS
  <2>1. CASE q = r
    <3>1. log' \cup entries'[q] = log'
      BY <1>1, <2>1
    <3> QED BY <1>3, <3>1
  <2>2. CASE q # r
    <3>1. Line(log \cup entries[r] \cup entries[q])
      BY <1>2, <2>2, LineMerges DEF Chained
    <3> QED BY <1>1, <2>2, <3>1
  <2> QED BY <2>1, <2>2
<1>5. \A e \in log' : e.no <= issued' /\ e.time <= now'
  BY <1>1 DEF Chained
<1>6. \A q \in Slots : \A e \in entries'[q] :
        /\ e.no <= issued' /\ e.time <= now' /\ e.chain \in locks'[q]
        /\ \A f \in log' : f.chain = e.chain => Earlier(f, e)
  BY <1>1, <1>2 DEF Chained
<1> QED BY <1>3, <1>4, <1>5, <1>6 DEF Chained

LEMMA ChainedClock ==
  ASSUME Shape, Chained, LocksApart', Clock
  PROVE  Chained'
<1>1. UNCHANGED <<entries, locks, issued>>
  BY DEF Clock, Tick, Purge, txn
<1>2. log \in SUBSET EntryType /\ now \in Nat /\ issued \in Nat
      /\ \A q \in Slots : entries[q] \in SUBSET EntryType
  BY DEF Shape, TypeOK, TrailTypeOK
<1>3. CASE Tick
  <2>1. log' = log /\ now' = now + 1
    BY <1>3 DEF Tick
  <2>2. \A e \in EntryType : e.time <= now => e.time <= now'
    BY <1>2, <2>1 DEF EntryType
  <2>3. \A q \in Slots : Line(log' \cup entries'[q])
    BY <1>1, <2>1 DEF Chained
  <2>4. Line(log')
    BY <2>1 DEF Chained
  <2>5. \A e \in log' : e.no <= issued' /\ e.time <= now'
    BY <1>1, <1>2, <2>1, <2>2 DEF Chained
  <2>6. \A q \in Slots : \A e \in entries'[q] :
          /\ e.no <= issued' /\ e.time <= now' /\ e.chain \in locks'[q]
          /\ \A f \in log' : f.chain = e.chain => Earlier(f, e)
    BY <1>1, <1>2, <2>1, <2>2 DEF Chained
  <2> QED BY <2>3, <2>4, <2>5, <2>6 DEF Chained
<1>4. CASE Purge
  <2>1. log' = {e \in log : e.time + Retention >= now} /\ now' = now
    BY <1>4 DEF Purge
  <2>2. \A q \in Slots : Line(log' \cup entries'[q])
    BY <1>1, <1>2, <2>1, LineSurvivesPurge DEF Chained
  <2>3. Line(log')
    <3>1. {} \in SUBSET EntryType /\ log \cup {} = log /\ log' \cup {} = log'
      OBVIOUS
    <3>2. Line(log \cup {})
      BY <3>1 DEF Chained
    <3>3. Line(log' \cup {})
      BY <1>2, <2>1, <3>1, <3>2, LineSurvivesPurge
    <3> QED BY <3>1, <3>3
  <2>4. log' \subseteq log
    BY <2>1
  <2>5. \A e \in log' : e.no <= issued' /\ e.time <= now'
    BY <1>1, <2>1, <2>4 DEF Chained
  <2>6. \A q \in Slots : \A e \in entries'[q] :
          /\ e.no <= issued' /\ e.time <= now' /\ e.chain \in locks'[q]
          /\ \A f \in log' : f.chain = e.chain => Earlier(f, e)
    BY <1>1, <2>1, <2>4 DEF Chained
  <2> QED BY <2>2, <2>3, <2>5, <2>6 DEF Chained
<1> QED BY <1>3, <1>4 DEF Clock

LEMMA ChainedStep == Shape /\ Shape' /\ Chained /\ [Next]_vars => Chained'
<1> SUFFICES ASSUME Shape, Shape', Chained, [Next]_vars PROVE Chained'
  OBVIOUS
<1>1. LocksApart'
  BY LocksStep DEF Chained
<1>2. ASSUME UNCHANGED <<trail, txn>> PROVE Chained'
  BY <1>1, <1>2, ChainedQuiet DEF txn
<1>3. ASSUME NEW r \in Slots, Finish(r), UNCHANGED trail PROVE Chained'
  BY <1>1, <1>3, ChainedFinish
<1>4. ASSUME UNCHANGED <<trail, entries, locks>> PROVE Chained'
  BY <1>1, <1>4, ChainedQuiet
<1>5. ASSUME NEW r \in Requests, Arrival(r) PROVE Chained'
  BY <1>2, <1>5 DEF Arrival, StartRequest, StartApprove, StartRevoke, Start
<1>6. ASSUME NEW r \in Requests, RequestStep(r) PROVE Chained'
  <2>1. r \in Slots
    BY DEF Slots
  <2>2. CASE RequestAccess(r)
    <3>1. CASE Throw(r)
      BY <1>3, <2>1, <3>1 DEF Throw
    <3>2. CASE Insert(r, {PairLock(r)})
      <4>1. \A q \in Slots : locks[q] \subseteq locks'[q]
        BY <2>1, <3>2 DEF Insert, Shape, TypeOK
      <4> QED BY <1>1, <3>2, <4>1, ChainedQuiet DEF Insert
    <3> QED BY <2>2, <3>1, <3>2 DEF RequestAccess
  <2>3. CASE Load(r) \/ Claim(r) \/ Revoke(r)
    BY <1>3, <1>4, <2>1, <2>3 DEF Load, Claim, Revoke, Change, Throw, txn
  <2>4. CASE AuditPlatform(r)
    BY <1>1, <2>1, <2>4, ChainedRecord DEF AuditPlatform
  <2> QED BY <1>6, <2>2, <2>3, <2>4 DEF RequestStep
<1>7. CASE List \/ SweepStep
  BY <1>4, <1>7 DEF List, SweepStep, NextGrant, ExpireGrant, Branch, Change, txn
<1>8. ASSUME NEW r \in Slots, AuditStep(r) PROVE Chained'
  BY <1>1, <1>8, ChainedRecord, ChainedCommit DEF AuditStep, AuditSchool
<1>9. ASSUME NEW r \in Slots, Abort(r) \/ DeadlockVictim(r) PROVE Chained'
  BY <1>3, <1>9 DEF Abort, DeadlockVictim, Throw
<1>10. CASE (\E g \in Grants : Elapse(g)) \/ UNCHANGED vars
  BY <1>2, <1>10 DEF Elapse, vars
<1>11. CASE Clock
  BY <1>1, <1>11, ChainedClock
<1> QED BY <1>5, <1>6, <1>7, <1>8, <1>9, <1>10, <1>11 DEF Next

(* For any number of writers, schools and purges, and whatever is rolled   *)
(* back, every audit chain stays one line.                                 *)
THEOREM ChainIsLineHolds == Spec => []ChainIsLine
<1>1. Chained => ChainIsLine
  BY DEF Chained, ChainIsLine
<1> QED BY <1>1, ChainedInit, ChainedStep, ShapeHolds, PTL DEF Spec

---------------------------------------------------------------------------
(***************************************************************************)
(* The rows.                                                               *)
(***************************************************************************)
LEMMA PlaceInit == Init => Place
BY DEF Init, Place, AtRow, AllClean, Slots

(* The end of a transaction, whether or not it leaves something behind.    *)
LEMMA PlaceFinish ==
  ASSUME Shape, Place, NEW r \in Slots, Finish(r),
         \A g \in Grants : status[g] # "NONE" => status'[g] # "NONE"
  PROVE  Place'
<1>1. pc'[r] = "idle" /\ (\A g \in Grants : draft'[r][g] = "CLEAN") /\ todo' \subseteq todo
  BY DEF Finish, Goto, AllClean, Shape, TypeOK
<1>2. \A q \in Slots : q # r => pc'[q] = pc[q] /\ grant'[q] = grant[q] /\ draft'[q] = draft[q]
  BY DEF Finish, Goto, Shape, TypeOK
<1>3. \A q \in Slots : pc'[q] \in AtRow \ {"auditSchool"} => status'[grant'[q]] # "NONE"
  BY <1>1, <1>2 DEF Place, Shape, AtRow
<1>4. todo \subseteq Grants
  BY DEF Shape, TypeOK
<1> QED BY <1>1, <1>2, <1>3, <1>4 DEF Place, Slots

(* A change of the row at hand, or a step that changes no row.             *)
LEMMA PlaceChange ==
  ASSUME Shape, Place, NEW r \in Slots, NEW st \in Statuses \ {"NONE"},
         pc[r] \in AtRow, Change(r, grant[r], st, "auditSchool")
  PROVE  Place'
<1>1. /\ pc'[r] = "auditSchool" /\ UNCHANGED <<status, grant, todo>>
      /\ \A q \in Slots : q # r => pc'[q] = pc[q] /\ draft'[q] = draft[q]
  BY DEF Change, Goto, Shape, TypeOK, row, loc
<1>2. \A g \in Grants : draft'[r][g] # "NONE"
  BY DEF Change, Shape, TypeOK, Place
<1> QED BY <1>1, <1>2 DEF Place, AtRow, Slots

LEMMA PlaceGoto ==
  ASSUME Shape, Place, NEW r \in Slots, NEW l, Goto(r, l),
         l \notin AtRow \cup {"idle", "request"}, UNCHANGED <<status, draft, grant, todo>>
  PROVE  Place'
<1>1. pc'[r] = l /\ \A q \in Slots : q # r => pc'[q] = pc[q]
  BY DEF Goto, Shape, TypeOK
<1> QED BY <1>1 DEF Place, AtRow, Slots

LEMMA PlaceRequest ==
  ASSUME Shape, Place, NEW r \in Requests, Arrival(r) \/ RequestAccess(r) \/ Load(r)
  PROVE  Place'
<1>0. r \in Slots /\ r # Cron
  BY ConstantsAssumption DEF Slots
<1>1. CASE Arrival(r)
  <2>1. PICK g \in Grants \cup {0}, l \in {"request", "load"} :
          /\ pc[r] = "idle" /\ Goto(r, l) /\ grant' = [grant EXCEPT ![r] = g]
          /\ l = "load" => status[g] # "NONE"
          /\ UNCHANGED <<status, draft, todo>>
    BY <1>1 DEF Arrival, StartRequest, StartApprove, StartRevoke, Start, row, txn
  <2>2. /\ pc'[r] = l /\ grant'[r] = g
        /\ \A q \in Slots : q # r => pc'[q] = pc[q] /\ grant'[q] = grant[q]
    BY <1>0, <2>1 DEF Goto, Shape, TypeOK
  <2> QED BY <1>0, <2>1, <2>2 DEF Place, AtRow, Slots
<1>2. CASE RequestAccess(r)
  <2>1. CASE Throw(r)
    BY <1>0, <2>1, PlaceFinish DEF Throw, row
  <2>2. CASE Insert(r, {PairLock(r)})
    <3>1. PICK g \in FreeGrants : draft' = [draft EXCEPT ![r][g] = "PENDING"]
                                 /\ grant' = [grant EXCEPT ![r] = g]
      BY <2>2 DEF Insert
    <3>2. /\ pc'[r] = "auditSchool" /\ UNCHANGED <<status, todo>>
          /\ \A q \in Slots : q # r => /\ pc'[q] = pc[q] /\ draft'[q] = draft[q]
                                      /\ grant'[q] = grant[q]
      BY <1>0, <2>2, <3>1 DEF Insert, Goto, Shape, TypeOK
    <3>3. \A h \in Grants \cup {0} : draft'[r][h] # "NONE" \/ h = 0
      BY <1>0, <3>1 DEF Place, Shape, TypeOK
    <3>4. \A h \in Grants : draft'[r][h] # "NONE"
      BY <3>3 DEF Grants
    <3> QED BY <3>2, <3>4 DEF Place, AtRow, Slots
  <2> QED BY <1>2, <2>1, <2>2 DEF RequestAccess
<1>3. CASE Load(r)
  <2>1. CASE Throw(r)
    BY <1>0, <2>1, PlaceFinish DEF Throw, row
  <2>2. CASE /\ \E l \in {"claim", "revoke"} : Goto(r, l)
             /\ UNCHANGED <<row, txn, grant, todo>>
    <3>1. PICK l \in {"claim", "revoke"} : pc'[r] = l
      BY <1>0, <2>2 DEF Goto, Shape, TypeOK
    <3>2. \A q \in Slots : q # r => pc'[q] = pc[q]
      BY <2>2 DEF Goto, Shape, TypeOK
    <3>3. pc[r] = "load"
      BY <1>3 DEF Load
    <3> QED BY <1>0, <2>2, <3>1, <3>2, <3>3 DEF Place, AtRow, Slots, row, txn
  <2> QED BY <1>3, <2>1, <2>2 DEF Load
<1> QED BY <1>1, <1>2, <1>3

LEMMA PlaceSweep ==
  ASSUME Shape, Place, List \/ NextGrant
  PROVE  Place'
<1>0. Cron \in Slots /\ Cron \notin Requests
  BY ConstantsAssumption DEF Slots
<1>1. CASE List
  <2>1. \A g \in todo' : status[g] # "NONE"
    BY <1>1 DEF List
  <2>2. /\ pc'[Cron] = "next" /\ UNCHANGED <<status, draft, grant>>
        /\ \A q \in Slots : q # Cron => pc'[q] = pc[q]
    BY <1>0, <1>1 DEF List, Goto, Shape, TypeOK, row, txn
  <2> QED BY <1>0, <2>1, <2>2 DEF Place, AtRow, Slots
<1>2. CASE todo = {} /\ Branch(Cron, "commit")
  BY <1>0, <1>2, PlaceGoto DEF Branch, AtRow, row, txn, loc
<1>3. ASSUME NEW g \in todo, grant' = [grant EXCEPT ![Cron] = g], todo' = todo \ {g},
             Goto(Cron, "expire"), UNCHANGED <<row, txn>>
      PROVE  Place'
  <2>1. /\ pc'[Cron] = "expire" /\ grant'[Cron] = g
        /\ \A q \in Slots : q # Cron => pc'[q] = pc[q] /\ grant'[q] = grant[q]
    BY <1>0, <1>3 DEF Goto, Shape, TypeOK
  <2> QED BY <1>0, <1>3, <2>1 DEF Place, AtRow, Slots, row, txn
<1> QED BY <1>1, <1>2, <1>3 DEF NextGrant

LEMMA PlaceStep == Shape /\ Place /\ [Next]_vars => Place'
<1> SUFFICES ASSUME Shape, Place, [Next]_vars PROVE Place'
  OBVIOUS
<1>1. ASSUME NEW r \in Slots, Claim(r) \/ Revoke(r) \/ (r = Cron /\ ExpireGrant) PROVE Place'
  <2>1. CASE Throw(r)
    BY <2>1, PlaceFinish DEF Throw, row
  <2>2. CASE r = Cron /\ Branch(r, "next")
    BY <2>2, PlaceGoto DEF Branch, AtRow, row, txn, loc
  <2>3. CASE \E st \in {"ACTIVE", "REVOKED", "EXPIRED"} : Change(r, grant[r], st, "auditSchool")
    <3>1. pc[r] \in AtRow
      BY <1>1 DEF Claim, Revoke, ExpireGrant, AtRow
    <3> QED BY <2>3, <3>1, PlaceChange DEF Statuses
  <2> QED BY <1>1, <2>1, <2>2, <2>3 DEF Claim, Revoke, ExpireGrant
<1>2. ASSUME NEW r \in Slots, AuditSchool(r) \/ AuditPlatform(r) PROVE Place'
  <2>1. PICK l \in {"next", "auditPlatform", "commit"} : Goto(r, l)
    BY <1>2 DEF AuditSchool, AuditPlatform, AfterSchool, Record
  <2>2. UNCHANGED <<status, draft, grant, todo>>
    BY <1>2 DEF AuditSchool, AuditPlatform, Record, row, loc
  <2> QED BY <2>1, <2>2, PlaceGoto DEF AtRow
<1>3. ASSUME NEW r \in Slots, Commit(r) PROVE Place'
  <2>1. \A g \in Grants : status[g] # "NONE" => status'[g] # "NONE"
    BY <1>3 DEF Commit, Place
  <2> QED BY <1>3, <2>1, PlaceFinish DEF Commit
<1>4. ASSUME NEW r \in Slots, Abort(r) \/ DeadlockVictim(r) PROVE Place'
  BY <1>4, PlaceFinish DEF Abort, DeadlockVictim, Throw, row
<1>5. CASE (\E g \in Grants : Elapse(g)) \/ Clock \/ UNCHANGED vars
  BY <1>5 DEF Elapse, Clock, vars, row, txn, loc, Place
<1>6. CASE \E r \in Requests : Arrival(r) \/ RequestStep(r)
  BY <1>1, <1>2, <1>6, PlaceRequest DEF RequestStep, Slots
<1>7. CASE List \/ SweepStep
  BY <1>1, <1>7, PlaceSweep DEF SweepStep, Slots
<1> QED BY <1>2, <1>3, <1>4, <1>5, <1>6, <1>7 DEF Next, AuditStep

LEMMA RowsInit == Init => Rows
BY LocksInit DEF Init, Rows, AllClean, OneOpenGrant, Open

LEMMA RowsQuiet ==
  ASSUME Shape, Rows, LocksApart', UNCHANGED <<status, info, draft>>,
         \A r \in Slots : locks[r] \subseteq locks'[r]
  PROVE  Rows'
BY DEF Rows, Pair, OneOpenGrant

LEMMA RowsFinish ==
  ASSUME Shape, Rows, LocksApart', UNCHANGED row, NEW r \in Slots, Finish(r)
  PROVE  Rows'
<1>1. /\ \A g \in Grants : draft'[r][g] = "CLEAN"
      /\ \A q \in Slots : q # r => draft'[q] = draft[q] /\ locks'[q] = locks[q]
  BY DEF Finish, AllClean, Shape, TypeOK
<1> QED BY <1>1 DEF Rows, Pair, OneOpenGrant, row

LEMMA RowsChange ==
  ASSUME Shape, Rows, NEW r \in Slots, NEW st \in {"ACTIVE", "REVOKED", "EXPIRED"},
         pc[r] \in AtRow, Unlocked(r, grant[r]), Change(r, grant[r], st, "auditSchool"),
         st = "ACTIVE" => status[grant[r]] = "PENDING"
  PROVE  Rows'
<1> DEFINE g == grant[r]
<1>1. g \in Grants
  BY DEF Shape
<1>2. /\ UNCHANGED <<status, info, locks>> /\ draft'[r][g] = st
      /\ \A h \in Grants : h # g => draft'[r][h] = draft[r][h]
      /\ \A q \in Slots : q # r => draft'[q] = draft[q]
  BY <1>1 DEF Change, Shape, TypeOK, row
<1>3. \A q, p \in Slots, h \in Grants :
        draft'[q][h] # "CLEAN" /\ draft'[p][h] # "CLEAN" => q = p
  BY <1>2 DEF Rows, Unlocked
<1>4. \A q \in Slots, h \in Grants : draft'[q][h] = "ACTIVE" => status[h] = "PENDING"
  BY <1>2 DEF Rows
<1>5. \A q \in Slots, h \in Grants : draft'[q][h] = "PENDING" => draft[q][h] = "PENDING"
  BY <1>2
<1> QED BY <1>2, <1>3, <1>4, <1>5 DEF Rows, Pair, OneOpenGrant, LocksApart

LEMMA RowsInsert ==
  ASSUME Shape, Place, Rows, LocksApart', NEW r \in Requests, pc[r] = "request",
         Mine(r) = {}, Insert(r, {PairLock(r)})
  PROVE  Rows'
<1>1. r \in Slots /\ req[r] \in ReqType
  BY DEF Shape, Slots
<1>2. PICK g \in FreeGrants :
        /\ info' = [info EXCEPT ![g] = [requester |-> req[r].admin, school |-> req[r].school]]
        /\ draft' = [draft EXCEPT ![r][g] = "PENDING"]
  BY DEF Insert
<1>3. /\ g \in Grants /\ info[g] = NoGrant /\ status[g] = "NONE"
      /\ \A q \in Slots : draft[q][g] = "CLEAN"
  BY DEF FreeGrants, Shape
<1>4. /\ status' = status
      /\ info'[g] = [requester |-> req[r].admin, school |-> req[r].school]
      /\ \A h \in Grants : h # g => info'[h] = info[h] /\ draft'[r][h] = draft[r][h]
      /\ draft'[r][g] = "PENDING"
      /\ \A q \in Slots : q # r => draft'[q] = draft[q]
      /\ locks'[r] = locks[r] \cup {PairLock(r)}
      /\ \A q \in Slots : locks[q] \subseteq locks'[q]
  BY <1>1, <1>2, <1>3 DEF Insert, Shape, TypeOK
<1>5. \A h \in Grants : draft[r][h] = "CLEAN"
  BY DEF Place
<1>6. \A q, p \in Slots, h \in Grants :
        draft'[q][h] # "CLEAN" /\ draft'[p][h] # "CLEAN" => q = p
  BY <1>3, <1>4 DEF Rows
<1>7. \A q \in Slots, h \in Grants : draft'[q][h] = "ACTIVE" => status'[h] = "PENDING"
  BY <1>3, <1>4 DEF Rows
<1>8. \A h \in Grants : status[h] \in Open => h # g /\ info'[h] = info[h] /\ info[h] \in GrantType
  BY <1>3, <1>4 DEF Shape, TypeOK, Open
<1>9. \A h \in Grants : status[h] \in Open => info'[h] # info'[g]
  <2> SUFFICES ASSUME NEW h \in Grants, status[h] \in Open, info'[h] = info'[g] PROVE FALSE
    OBVIOUS
  <2>1. info[h].requester = req[r].admin /\ info[h].school = req[r].school
    BY <1>4, <1>8
  <2> QED BY <2>1 DEF Mine
<1>10. Pair(g)' \in locks'[r]
  BY <1>4 DEF Pair, PairLock
<1>11. \A h \in Grants : draft'[r][h] = "PENDING" => h = g
  BY <1>4, <1>5
<1>12. \A q \in Slots, h \in Grants : q # r /\ draft'[q][h] = "PENDING" =>
         /\ h # g /\ status'[h] = "NONE" /\ Pair(h)' \in locks'[q]
         /\ \A k \in Grants : status'[k] \in Open => info'[k] # info'[h]
         /\ \A k \in Grants : draft'[q][k] = "PENDING" => k = h
  <2> SUFFICES ASSUME NEW q \in Slots, NEW h \in Grants, q # r, draft[q][h] = "PENDING"
               PROVE  /\ h # g /\ status[h] = "NONE" /\ Pair(h)' \in locks'[q]
                      /\ \A k \in Grants : status[k] \in Open => info'[k] # info'[h]
                      /\ \A k \in Grants : draft[q][k] = "PENDING" => k = h
    BY <1>4
  <2>1. h # g
    BY <1>3
  <2>2. Pair(h)' = Pair(h)
    BY <1>4, <2>1 DEF Pair
  <2> QED BY <1>4, <1>8, <2>1, <2>2 DEF Rows
<1>13. OneOpenGrant'
  BY <1>4, <1>8 DEF Rows, OneOpenGrant
<1> QED BY <1>3, <1>4, <1>6, <1>7, <1>9, <1>10, <1>11, <1>12, <1>13 DEF Rows

LEMMA RowsCommit ==
  ASSUME Shape, Place, Rows, LocksApart', NEW r \in Slots, Commit(r)
  PROVE  Rows'
<1>1. /\ info' = info /\ \A g \in Grants : draft'[r][g] = "CLEAN"
      /\ \A q \in Slots : q # r => draft'[q] = draft[q] /\ locks'[q] = locks[q]
  BY DEF Commit, Finish, AllClean, Shape, TypeOK
<1>2. \A g \in Grants : status'[g] = IF draft[r][g] = "CLEAN" THEN status[g] ELSE draft[r][g]
  BY DEF Commit
<1>3. \A g \in Grants : status'[g] \in Open => status[g] \in Open \/ draft[r][g] = "PENDING"
  BY <1>2 DEF Open, Rows
<1>4. \A q \in Slots, g \in Grants : q # r /\ draft[q][g] # "CLEAN" => status'[g] = status[g]
  BY <1>2 DEF Rows
<1>5. \A q \in Slots, g \in Grants : draft'[q][g] = "ACTIVE" => status'[g] = "PENDING"
  BY <1>1, <1>4 DEF Rows
<1>6. \A q \in Slots, g \in Grants : draft'[q][g] = "PENDING" =>
        /\ status'[g] = "NONE" /\ Pair(g)' \in locks'[q]
        /\ \A h \in Grants : status'[h] \in Open => info'[h] # info'[g]
        /\ \A h \in Grants : draft'[q][h] = "PENDING" => h = g
  <2> SUFFICES ASSUME NEW q \in Slots, NEW g \in Grants, q # r, draft[q][g] = "PENDING"
               PROVE  /\ status'[g] = "NONE" /\ Pair(g) \in locks[q]
                      /\ \A h \in Grants : status'[h] \in Open => info[h] # info[g]
                      /\ \A h \in Grants : draft[q][h] = "PENDING" => h = g
    BY <1>1 DEF Pair
  <2>1. \A h \in Grants : draft[r][h] = "PENDING" => info[h] # info[g]
    <3> SUFFICES ASSUME NEW h \in Grants, draft[r][h] = "PENDING", info[h] = info[g]
                 PROVE  FALSE
      OBVIOUS
    <3>1. Pair(g) \in locks[q] /\ Pair(h) \in locks[r]
      BY DEF Rows
    <3>2. Pair(h) = Pair(g)
      BY DEF Pair
    <3> QED BY <3>1, <3>2 DEF Rows, LocksApart
  <2> QED BY <1>3, <1>4, <2>1 DEF Rows
<1>7. OneOpenGrant'
  <2> SUFFICES ASSUME NEW g \in Grants, NEW h \in Grants,
                      status'[g] \in Open, status'[h] \in Open, info[g] = info[h]
               PROVE  g = h
    BY <1>1 DEF OneOpenGrant
  <2> QED BY <1>3 DEF Rows, OneOpenGrant
<1>8. \A q, p \in Slots, g \in Grants :
        draft'[q][g] # "CLEAN" /\ draft'[p][g] # "CLEAN" => q = p
  BY <1>1 DEF Rows
<1> QED BY <1>5, <1>6, <1>7, <1>8 DEF Rows

LEMMA RowsStep == Shape /\ Place /\ Rows /\ [Next]_vars => Rows'
<1> SUFFICES ASSUME Shape, Place, Rows, [Next]_vars PROVE Rows'
  OBVIOUS
<1>1. LocksApart'
  BY LocksStep DEF Rows
<1>2. ASSUME UNCHANGED <<row, draft, locks>> PROVE Rows'
  BY <1>1, <1>2, RowsQuiet DEF row
<1>3. ASSUME NEW r \in Slots, Throw(r) \/ Abort(r) \/ DeadlockVictim(r) PROVE Rows'
  BY <1>1, <1>3, RowsFinish DEF Throw, Abort, DeadlockVictim
<1>4. ASSUME NEW r \in Slots, NEW l, Branch(r, l) PROVE Rows'
  BY <1>2, <1>4 DEF Branch, txn
<1>5. ASSUME NEW r \in Requests, Arrival(r) PROVE Rows'
  BY <1>2, <1>5 DEF Arrival, StartRequest, StartApprove, StartRevoke, Start, txn
<1>6. ASSUME NEW r \in Requests, RequestAccess(r) \/ Load(r) PROVE Rows'
  <2>1. r \in Slots
    BY DEF Slots
  <2>2. CASE RequestAccess(r)
    BY <1>1, <1>3, <2>1, <2>2, RowsInsert DEF RequestAccess
  <2>3. CASE Load(r)
    BY <1>2, <1>3, <2>1, <2>3 DEF Load, txn
  <2> QED BY <1>6, <2>2, <2>3
<1>7. ASSUME NEW r \in Slots, Claim(r) \/ Revoke(r) \/ (r = Cron /\ ExpireGrant) PROVE Rows'
  <2>1. pc[r] \in AtRow
    BY <1>7 DEF Claim, Revoke, ExpireGrant, AtRow
  <2>2. CASE Throw(r) \/ (r = Cron /\ Branch(r, "next"))
    BY <1>3, <1>4, <2>2
  <2>3. CASE /\ Unlocked(r, grant[r])
             /\ \E st \in {"ACTIVE", "REVOKED", "EXPIRED"} :
                  /\ Change(r, grant[r], st, "auditSchool")
                  /\ st = "ACTIVE" => status[grant[r]] = "PENDING"
    BY <2>1, <2>3, RowsChange
  <2> QED BY <1>7, <2>2, <2>3 DEF Claim, Revoke, ExpireGrant
<1>8. CASE List \/ NextGrant
  BY <1>2, <1>4, <1>8 DEF List, NextGrant, txn, Slots
<1>9. ASSUME NEW r \in Slots, AuditSchool(r) \/ AuditPlatform(r) PROVE Rows'
  <2>1. /\ UNCHANGED <<row, draft>>
        /\ \E l : locks' = [locks EXCEPT ![r] = @ \cup {l}]
    BY <1>9 DEF AuditSchool, AuditPlatform, Record
  <2>2. \A q \in Slots : locks[q] \subseteq locks'[q]
    BY <2>1 DEF Shape, TypeOK
  <2> QED BY <1>1, <2>1, <2>2, RowsQuiet DEF row
<1>10. ASSUME NEW r \in Slots, Commit(r) PROVE Rows'
  BY <1>1, <1>10, RowsCommit
<1>11. CASE (\E g \in Grants : Elapse(g)) \/ Clock \/ UNCHANGED vars
  <2>1. UNCHANGED <<status, info, draft, locks>>
    BY <1>11 DEF Elapse, Clock, vars, row, txn
  <2> QED BY <1>1, <2>1, RowsQuiet
<1> QED BY <1>3, <1>5, <1>6, <1>7, <1>8, <1>9, <1>10, <1>11
    DEF Next, RequestStep, SweepStep, AuditStep, Slots

LEMMA RowsHold == Spec => [](Shape /\ Place /\ Rows)
BY ShapeInit, ShapeStep, PlaceInit, PlaceStep, RowsInit, RowsStep, PTL DEF Spec

(* The advisory lock of the pair, held to the end of the transaction, and  *)
(* the look-up under it leave an administrator one open grant for a school,*)
(* for any number of concurrent requests.                                  *)
THEOREM OneOpenGrantHolds == Spec => []OneOpenGrant
<1>1. Rows => OneOpenGrant
  BY DEF Rows
<1> QED BY <1>1, RowsHold, PTL

---------------------------------------------------------------------------
(***************************************************************************)
(* Dual control.                                                           *)
(***************************************************************************)
LEMMA DualInit == Init => Dual
BY DEF Init, Dual, AllClean, Slots

(* What keeps the two persons apart, wherever nobody becomes an approver.  *)
LEMMA DualKept ==
  ASSUME Shape, Dual,
         \A g \in Grants : info[g] # NoGrant => info'[g] = info[g],
         \A r \in Requests :
           \/ /\ pc'[r] = "claim" => pc[r] = "claim" /\ grant'[r] = grant[r]
              /\ \A g \in Grants : draft'[r][g] = "ACTIVE" => draft[r][g] = "ACTIVE"
              /\ req'[r] = req[r]
           \/ pc'[r] # "claim" /\ \A g \in Grants : draft'[r][g] = "CLEAN"
  PROVE  Dual'
<1> SUFFICES ASSUME NEW r \in Requests
             PROVE  /\ pc'[r] = "claim" => info'[grant'[r]].requester # req'[r].admin
                    /\ \A g \in Grants : draft'[r][g] = "ACTIVE" =>
                                           info'[g].requester # req'[r].admin
  BY DEF Dual
<1>1. r \in Slots
  BY DEF Slots
<1>2. CASE /\ pc'[r] = "claim" => pc[r] = "claim" /\ grant'[r] = grant[r]
           /\ \A g \in Grants : draft'[r][g] = "ACTIVE" => draft[r][g] = "ACTIVE"
           /\ req'[r] = req[r]
  BY <1>1, <1>2 DEF Dual, Shape, AtRow
<1>3. CASE pc'[r] # "claim" /\ \A g \in Grants : draft'[r][g] = "CLEAN"
  BY <1>3
<1> QED BY <1>2, <1>3

LEMMA DualStep == Shape /\ Place /\ Dual /\ [Next]_vars => Dual'
<1> SUFFICES ASSUME Shape, Place, Dual, [Next]_vars PROVE Dual'
  OBVIOUS
<1> USE DEF Slots
<1>1. ASSUME NEW q \in Slots, Finish(q), UNCHANGED info PROVE Dual'
  <2>1. pc'[q] # "claim" /\ \A g \in Grants : draft'[q][g] = "CLEAN"
    BY <1>1 DEF Finish, Goto, AllClean, Shape, TypeOK
  <2>2. \A r \in Requests : r # q => /\ pc'[r] = pc[r] /\ grant'[r] = grant[r]
                                   /\ draft'[r] = draft[r] /\ req'[r] = req[r]
    BY <1>1 DEF Finish, Goto, Shape, TypeOK
  <2> QED BY <1>1, <2>1, <2>2, DualKept
<1>2. ASSUME NEW q \in Slots, NEW l, Goto(q, l), l # "claim",
             UNCHANGED <<info, draft, req>>,
             \A r \in Requests : r # q => grant'[r] = grant[r]
      PROVE  Dual'
  <2>1. \A r \in Requests : pc'[r] = "claim" => pc[r] = "claim" /\ grant'[r] = grant[r]
    BY <1>2 DEF Goto, Shape, TypeOK
  <2> QED BY <1>2, <2>1, DualKept
<1>3. ASSUME NEW r \in Requests, Arrival(r) PROVE Dual'
  <2>1. PICK l \in {"request", "load"} : pc[r] = "idle" /\ Goto(r, l)
    BY <1>3 DEF Arrival, StartRequest, StartApprove, StartRevoke, Start
  <2>2. /\ UNCHANGED <<info, draft>>
        /\ \A q \in Requests : q # r => grant'[q] = grant[q] /\ req'[q] = req[q]
    BY <1>3 DEF Arrival, StartRequest, StartApprove, StartRevoke, Start, row, txn, Shape, TypeOK
  <2>3. \A g \in Grants : draft[r][g] = "CLEAN"
    BY <2>1 DEF Place
  <2>4. /\ pc'[r] # "claim"
        /\ \A q \in Requests : q # r => pc'[q] = pc[q]
    BY <2>1 DEF Goto, Shape, TypeOK
  <2> QED BY <2>2, <2>3, <2>4, DualKept
<1>4. ASSUME NEW r \in Requests, RequestAccess(r) PROVE Dual'
  <2>1. CASE Throw(r)
    BY <1>1, <2>1 DEF Throw, row
  <2>2. CASE Insert(r, {PairLock(r)})
    <3>1. PICK g \in FreeGrants :
            /\ info' = [info EXCEPT ![g] = [requester |-> req[r].admin, school |-> req[r].school]]
            /\ grant' = [grant EXCEPT ![r] = g]
            /\ draft' = [draft EXCEPT ![r][g] = "PENDING"]
      BY <2>2 DEF Insert
    <3>2. \A h \in Grants : info[h] # NoGrant => info'[h] = info[h]
      BY <3>1 DEF FreeGrants, Shape, TypeOK
    <3>3. pc'[r] = "auditSchool" /\ req' = req
          /\ \A q \in Requests : q # r => /\ pc'[q] = pc[q] /\ grant'[q] = grant[q]
                                         /\ draft'[q] = draft[q]
      BY <2>2, <3>1 DEF Insert, Goto, Shape, TypeOK
    <3>4. \A h \in Grants : draft'[r][h] = "ACTIVE" => draft[r][h] = "ACTIVE"
      BY <3>1 DEF Shape, TypeOK
    <3> QED BY <3>2, <3>3, <3>4, DualKept
  <2> QED BY <1>4, <2>1, <2>2 DEF RequestAccess
<1>5. ASSUME NEW r \in Requests, Load(r) PROVE Dual'
  <2>1. CASE Throw(r)
    BY <1>1, <2>1 DEF Throw, row
  <2>2. CASE ~Throw(r)
    <3>1. /\ req[r].kind = "approve" => info[grant[r]].requester # req[r].admin
          /\ Goto(r, IF req[r].kind = "approve" THEN "claim" ELSE "revoke")
          /\ UNCHANGED <<info, draft, req, grant>>
      BY <1>5, <2>2 DEF Load, row, txn
    <3>2. CASE req[r].kind # "approve"
      BY <1>2, <3>1, <3>2
    <3>3. CASE req[r].kind = "approve"
      <4>1. \A q \in Requests : pc'[q] = "claim" => pc[q] = "claim" \/ q = r
        BY <3>1, <3>3 DEF Goto, Shape, TypeOK
      <4> QED BY <3>1, <3>3, <4>1 DEF Dual
    <3> QED BY <3>2, <3>3
  <2> QED BY <2>1, <2>2
<1>6. ASSUME NEW q \in Slots, NEW st \in {"ACTIVE", "REVOKED", "EXPIRED"},
             pc[q] \in AtRow, Change(q, grant[q], st, "auditSchool"),
             st = "ACTIVE" => q \in Requests /\ pc[q] = "claim"
      PROVE  Dual'
  <2>1. grant[q] \in Grants
    BY <1>6 DEF Shape
  <2>2. /\ UNCHANGED <<info, req, grant>> /\ pc'[q] = "auditSchool"
        /\ \A r \in Requests : r # q => pc'[r] = pc[r] /\ draft'[r] = draft[r]
        /\ \A g \in Grants : draft'[q][g] = IF g = grant[q] THEN st ELSE draft[q][g]
    BY <1>6, <2>1 DEF Change, Goto, Shape, TypeOK, row, loc
  <2> QED BY <1>6, <2>2 DEF Dual
<1>7. ASSUME NEW r \in Requests, Claim(r) \/ Revoke(r) PROVE Dual'
  <2>1. CASE Throw(r)
    BY <1>1, <2>1 DEF Throw, row
  <2>2. CASE \E st \in {"ACTIVE", "REVOKED"} :
               /\ Change(r, grant[r], st, "auditSchool")
               /\ st = "ACTIVE" => pc[r] = "claim"
    <3>1. pc[r] \in AtRow
      BY <1>7 DEF Claim, Revoke, AtRow
    <3> QED BY <1>6, <2>2, <3>1
  <2> QED BY <1>7, <2>1, <2>2 DEF Claim, Revoke
<1>8. CASE List \/ SweepStep
  <2>1. CASE List
    BY <1>2, <2>1 DEF List, row, txn
  <2>2. CASE NextGrant
    <3>1. \A r \in Requests : grant'[r] = grant[r]
      BY <2>2, ConstantsAssumption DEF NextGrant, Branch, loc, Shape, TypeOK
    <3> QED BY <1>2, <2>2, <3>1 DEF NextGrant, Branch, row, txn, loc
  <2>3. CASE ExpireGrant
    <3>1. pc[Cron] \in AtRow
      BY <2>3 DEF ExpireGrant, AtRow
    <3>2. CASE Branch(Cron, "next")
      BY <1>2, <3>2 DEF Branch, row, txn, loc
    <3>3. CASE Change(Cron, grant[Cron], "EXPIRED", "auditSchool")
      BY <1>6, <3>1, <3>3
    <3> QED BY <2>3, <3>2, <3>3 DEF ExpireGrant
  <2> QED BY <1>8, <2>1, <2>2, <2>3 DEF SweepStep
<1>9. ASSUME NEW q \in Slots, AuditSchool(q) \/ AuditPlatform(q) PROVE Dual'
  <2>1. PICK l \in {"next", "auditPlatform", "commit"} : Goto(q, l)
    BY <1>9 DEF AuditSchool, AuditPlatform, AfterSchool, Record
  <2>2. UNCHANGED <<info, draft, req, grant>>
    BY <1>9 DEF AuditSchool, AuditPlatform, Record, row, loc
  <2> QED BY <1>2, <2>1, <2>2
<1>10. ASSUME NEW q \in Slots, Commit(q) \/ Abort(q) \/ DeadlockVictim(q) PROVE Dual'
  BY <1>1, <1>10 DEF Commit, Abort, DeadlockVictim, Throw, row
<1>11. CASE (\E g \in Grants : Elapse(g)) \/ Clock \/ UNCHANGED vars
  <2>1. UNCHANGED <<info, draft, pc, req, grant>>
    BY <1>11 DEF Elapse, Clock, vars, row, txn, loc
  <2> QED BY <2>1, DualKept
<1> QED BY <1>3, <1>4, <1>5, <1>7, <1>8, <1>9, <1>10, <1>11
    DEF Next, RequestStep, AuditStep

LEMMA OpeningStep ==
  ASSUME Shape, Rows, Dual, [Next]_vars, NEW g \in Grants,
         status'[g] = "ACTIVE", status[g] # "ACTIVE"
  PROVE  status[g] = "PENDING" /\ info[g].requester \notin approver'[g]
<1>1. CASE UNCHANGED status
  BY <1>1
<1>2. ASSUME NEW r \in Slots, Commit(r)
      PROVE  status[g] = "PENDING" /\ info[g].requester \notin approver'[g]
  <2>1. draft[r][g] = "ACTIVE"
    BY <1>2 DEF Commit
  <2>2. r \in Requests
    BY <2>1 DEF Shape, Slots
  <2>3. approver'[g] = {req[r].admin}
    BY <1>2, <2>1 DEF Commit
  <2> QED BY <2>1, <2>2, <2>3 DEF Rows, Dual
<1>3. UNCHANGED status \/ \E r \in Slots : Commit(r)
  <2>1. ASSUME NEW r \in Requests, Arrival(r) \/ RequestStep(r) PROVE UNCHANGED status
    BY <2>1 DEF Arrival, StartRequest, StartApprove, StartRevoke, Start, RequestStep,
       RequestAccess, Insert, Load, Claim, Revoke, AuditPlatform, Record, Change, Throw, row
  <2>2. CASE List \/ SweepStep
    BY <2>2 DEF List, SweepStep, NextGrant, ExpireGrant, Branch, Change, row
  <2>3. ASSUME NEW r \in Slots, AuditSchool(r) \/ Abort(r) \/ DeadlockVictim(r)
        PROVE  UNCHANGED status
    BY <2>3 DEF AuditSchool, Record, Abort, DeadlockVictim, Throw, row
  <2>4. CASE (\E h \in Grants : Elapse(h)) \/ Clock \/ UNCHANGED vars
    BY <2>4 DEF Elapse, Clock, vars, row
  <2> QED BY <2>1, <2>2, <2>3, <2>4 DEF Next, AuditStep
<1> QED BY <1>1, <1>2, <1>3

(* The conditional update opens a grant at most once, from a request that  *)
(* is still pending, and for an approver who did not make it.              *)
THEOREM OpenedOnceHolds == Spec => OpenedOnce
<1>1. Shape /\ Rows /\ Dual /\ [Next]_vars =>
        [\A g \in Grants :
           status'[g] = "ACTIVE" /\ status[g] # "ACTIVE" =>
             status[g] = "PENDING" /\ info[g].requester \notin approver'[g]]_vars
  BY OpeningStep
<1> QED BY <1>1, DualInit, DualStep, RowsHold, PTL DEF Spec, OpenedOnce
---------------------------------------------------------------------------
(***************************************************************************)
(* The trail of a grant.                                                   *)
(***************************************************************************)
(* What a transaction has entered of a grant is what it is about to make   *)
(* of it, in the chain of the grant's school; what it has not entered is   *)
(* the change it comes to enter next.                                      *)
Told(r) ==
  /\ \A e \in entries[r] : e.about \in Grants =>
       /\ draft[r][e.about] # "CLEAN" /\ e.after = draft[r][e.about]
       /\ e.chain = info[e.about].school
  /\ \A g \in Grants : draft[r][g] # "CLEAN" =>
       \/ pc[r] = "auditSchool" /\ grant[r] = g
       \/ \E e \in entries[r] : e.about = g

(* The entries of a grant are in one chain.                                *)
Filed ==
  \A e \in log : e.about \in Grants =>
    info[e.about] # NoGrant /\ e.chain = info[e.about].school

ToldInv == (\A r \in Slots : Told(r)) /\ Filed /\ TrailTellsStatus

LEMMA ToldInit == Init => ToldInv
BY DEF Init, TrailInit, ToldInv, Told, Filed, TrailTellsStatus, AllClean

LEMMA StatusStays ==
  ASSUME ToldInv, UNCHANGED <<log, status>>,
         \A g \in Grants : info[g] # NoGrant => info'[g] = info[g]
  PROVE  Filed' /\ TrailTellsStatus'
BY DEF ToldInv, Filed, TrailTellsStatus, Earlier

LEMMA ToldStays ==
  ASSUME Shape, NEW r \in Slots, Told(r),
         \A g \in Grants : info[g] # NoGrant => info'[g] = info[g],
         draft'[r] = draft[r], entries'[r] = entries[r],
         pc[r] = "auditSchool" => pc'[r] = "auditSchool" /\ grant'[r] = grant[r]
  PROVE  Told(r)'
BY DEF Shape, Told

LEMMA ToldFinish ==
  ASSUME Shape, ToldInv, NEW r \in Slots, Finish(r), UNCHANGED info
  PROVE  \A q \in Slots : Told(q)'
<1>1. (\A g \in Grants : draft'[r][g] = "CLEAN") /\ entries'[r] = {}
  BY DEF Finish, AllClean, Shape, TypeOK
<1>2. Told(r)'
  BY <1>1 DEF Told
<1>3. ASSUME NEW q \in Slots, q # r PROVE Told(q)'
  <2>1. /\ draft'[q] = draft[q] /\ entries'[q] = entries[q] /\ pc'[q] = pc[q]
        /\ grant'[q] = grant[q]
    BY <1>3 DEF Finish, Goto, Shape, TypeOK
  <2> QED BY <2>1, ToldStays DEF ToldInv
<1> QED BY <1>2, <1>3

(* A step of slot r that changes neither rows nor trail.                   *)
LEMMA ToldMove ==
  ASSUME Shape, ToldInv, NEW r \in Slots, NEW l, Goto(r, l), pc[r] # "auditSchool",
         UNCHANGED <<log, status, info, draft, entries>>,
         \A q \in Slots : q # r => grant'[q] = grant[q]
  PROVE  ToldInv'
<1>1. \A q \in Slots : q # r => pc'[q] = pc[q]
  BY DEF Goto, Shape, TypeOK
<1>2. \A q \in Slots : Told(q)'
  BY <1>1, ToldStays DEF ToldInv
<1> QED BY <1>2, StatusStays DEF ToldInv

(* A change comes to be entered next; what was entered before is about     *)
(* other grants, or says the same.                                         *)
LEMMA ToldChange ==
  ASSUME Shape, ToldInv, NEW r \in Slots, NEW st \in Statuses, pc[r] \in AtRow \ {"auditSchool"},
         Change(r, grant[r], st, "auditSchool"),
         draft[r][grant[r]] \in {"CLEAN", st}
  PROVE  ToldInv'
<1>1. grant[r] \in Grants
  BY DEF Shape
<1>2. /\ UNCHANGED <<log, status, info, entries, grant>> /\ pc'[r] = "auditSchool"
      /\ \A q \in Slots : q # r => pc'[q] = pc[q] /\ draft'[q] = draft[q]
      /\ \A g \in Grants : draft'[r][g] = IF g = grant[r] THEN st ELSE draft[r][g]
  BY <1>1 DEF Change, Goto, Shape, TypeOK, trail, row, loc
<1>3. st # "CLEAN"
  BY DEF Statuses
<1>4. Told(r)'
  BY <1>1, <1>2, <1>3 DEF ToldInv, Told
<1>5. \A q \in Slots : q # r => Told(q)'
  BY <1>2, ToldStays DEF ToldInv
<1> QED BY <1>2, <1>4, <1>5, StatusStays DEF ToldInv

LEMMA ToldInsert ==
  ASSUME Shape, Place, ToldInv, NEW r \in Requests, pc[r] = "request",
         Insert(r, {PairLock(r)})
  PROVE  ToldInv'
<1>1. PICK g \in FreeGrants :
        /\ info' = [info EXCEPT ![g] = [requester |-> req[r].admin, school |-> req[r].school]]
        /\ grant' = [grant EXCEPT ![r] = g]
        /\ draft' = [draft EXCEPT ![r][g] = "PENDING"]
  BY DEF Insert
<1>2. r \in Slots /\ g \in Grants /\ info[g] = NoGrant
  BY DEF FreeGrants, Slots
<1>3. /\ \A h \in Grants : info[h] # NoGrant => info'[h] = info[h]
      /\ UNCHANGED <<log, status, entries>> /\ pc'[r] = "auditSchool" /\ grant'[r] = g
      /\ \A q \in Slots : q # r => /\ pc'[q] = pc[q] /\ draft'[q] = draft[q]
                                   /\ grant'[q] = grant[q]
      /\ \A h \in Grants : draft'[r][h] # "CLEAN" => h = g
  BY <1>1, <1>2 DEF Insert, Goto, Shape, TypeOK, Place, trail
<1>4. \A e \in entries[r] : e.about \notin Grants
  BY <1>2 DEF ToldInv, Told, Place
<1>5. Told(r)'
  BY <1>3, <1>4 DEF Told
<1>6. \A q \in Slots : q # r => Told(q)'
  BY <1>3, ToldStays DEF ToldInv
<1> QED BY <1>3, <1>5, <1>6, StatusStays DEF ToldInv

LEMMA ToldRecord ==
  ASSUME Shape, ToldInv, NEW r \in Slots, NEW c, NEW g, NEW b, NEW a, NEW h, NEW l,
         Record(r, c, g, b, a, h, l),
         g \in Grants => draft[r][g] # "CLEAN" /\ a = draft[r][g] /\ c = info[g].school,
         pc[r] = "auditSchool" => g = grant[r]
  PROVE  ToldInv'
<1>1. PICK n \in 0..issued :
        entries' = [entries EXCEPT ![r] = @ \cup {Entry(c, n, g, b, a)}]
  BY DEF Record
<1> DEFINE x == Entry(c, n, g, b, a)
<1>2. x.chain = c /\ x.about = g /\ x.after = a
  BY DEF Entry
<1>3. /\ entries'[r] = entries[r] \cup {x}
      /\ \A q \in Slots : q # r => entries'[q] = entries[q] /\ pc'[q] = pc[q]
      /\ UNCHANGED <<log, status, info, draft, grant>>
  BY <1>1 DEF Record, Goto, Shape, TypeOK, row, loc
<1> HIDE DEF x
<1>4. Told(r)'
  <2>1. ASSUME NEW k \in Grants, draft[r][k] # "CLEAN"
        PROVE  \E e \in entries'[r] : e.about = k
    BY <1>2, <1>3, <2>1 DEF ToldInv, Told
  <2>2. ASSUME NEW e \in entries'[r], e.about \in Grants
        PROVE  /\ draft[r][e.about] # "CLEAN" /\ e.after = draft[r][e.about]
               /\ e.chain = info[e.about].school
    BY <1>2, <1>3, <2>2 DEF ToldInv, Told
  <2> QED BY <1>3, <2>1, <2>2 DEF Told
<1>5. \A q \in Slots : q # r => Told(q)'
  BY <1>3, ToldStays DEF ToldInv
<1> QED BY <1>3, <1>4, <1>5, StatusStays DEF ToldInv

(* A commit brings a grant and its newest entry together.                  *)
LEMMA ToldCommit ==
  ASSUME Shape, Chained, ToldInv, NEW r \in Slots, Commit(r)
  PROVE  ToldInv'
<1>1. /\ log' = log \cup entries[r] /\ info' = info /\ Finish(r) /\ Told(r)
      /\ pc[r] = "commit"
      /\ \A g \in Grants : status'[g] = IF draft[r][g] = "CLEAN" THEN status[g]
                                        ELSE draft[r][g]
  BY DEF Commit, ToldInv
<1>2. \A q \in Slots : Told(q)'
  BY <1>1, ToldFinish
<1>3. Filed'
  BY <1>1 DEF ToldInv, Filed, Told, Shape
<1>4. \A e, f \in EntryType : Earlier(e, f) => ~Earlier(f, e) /\ e # f
  BY DEF Earlier, EntryType
<1>5. log \subseteq EntryType /\ entries[r] \subseteq EntryType
  BY DEF Shape, TypeOK, TrailTypeOK
<1>6. ASSUME NEW e \in log', e.about \in Grants,
             \A f \in log' : f.about = e.about => f = e \/ Earlier(f, e)
      PROVE  status'[e.about] = e.after
  <2> DEFINE g == e.about
  <2>1. CASE draft[r][g] = "CLEAN"
    <3>1. e \in log /\ status'[g] = status[g]
      BY <1>1, <1>6, <2>1 DEF Told
    <3>2. \A f \in log : f.about = g => f = e \/ Earlier(f, e)
      BY <1>1, <1>6
    <3> QED BY <1>6, <3>1, <3>2 DEF ToldInv, TrailTellsStatus
  <2>2. CASE draft[r][g] # "CLEAN"
    <3>1. PICK f \in entries[r] : f.about = g /\ f.after = draft[r][g] /\ f.chain = info[g].school
      BY <1>1, <1>6, <2>2 DEF Told
    <3>2. f = e \/ Earlier(f, e)
      BY <1>1, <1>6, <3>1
    <3>3. e \notin log
      <4> SUFFICES ASSUME e \in log PROVE FALSE
        OBVIOUS
      <4>1. e.chain = f.chain
        BY <1>6, <3>1 DEF ToldInv, Filed
      <4>2. Earlier(e, f)
        BY <3>1, <4>1 DEF Chained
      <4> QED BY <1>4, <1>5, <3>1, <3>2, <4>2
    <3>4. e \in entries[r] /\ e.after = draft[r][g]
      BY <1>1, <1>6, <3>3 DEF Told
    <3> QED BY <1>1, <1>6, <2>2, <3>4
  <2> QED BY <2>1, <2>2
<1>7. TrailTellsStatus'
  BY <1>6 DEF TrailTellsStatus, Earlier
<1> QED BY <1>2, <1>3, <1>7 DEF ToldInv

(* The purge keeps the newest entry of a grant, if it keeps one.           *)
LEMMA ToldClock ==
  ASSUME Shape, ToldInv, Clock
  PROVE  ToldInv'
<1>1. UNCHANGED <<status, info, draft, entries, pc, grant>>
  BY DEF Clock, row, txn, loc
<1>2. \A q \in Slots : Told(q)'
  BY <1>1, ToldStays DEF ToldInv
<1>3. CASE Tick
  BY <1>1, <1>2, <1>3, StatusStays DEF Tick, ToldInv
<1>4. CASE Purge
  <2>1. log' = {e \in log : e.time + Retention >= now} /\ log \subseteq EntryType /\ now \in Nat
    BY <1>4 DEF Purge, Shape, TypeOK, TrailTypeOK
  <2>2. \A e \in log', f \in log \ log' : Earlier(f, e)
    BY <2>1, TrailAssumption DEF Earlier, EntryType
  <2>3. TrailTellsStatus'
    BY <1>1, <2>1, <2>2 DEF ToldInv, TrailTellsStatus, Earlier
  <2>4. Filed'
    BY <1>1, <2>1 DEF ToldInv, Filed
  <2> QED BY <1>2, <2>3, <2>4 DEF ToldInv
<1> QED BY <1>3, <1>4 DEF Clock

LEMMA ToldStep == Shape /\ Place /\ Chained /\ ToldInv /\ [Next]_vars => ToldInv'
<1> SUFFICES ASSUME Shape, Place, Chained, ToldInv, [Next]_vars PROVE ToldInv'
  OBVIOUS
<1>1. ASSUME NEW r \in Slots, Throw(r) \/ Abort(r) \/ DeadlockVictim(r) PROVE ToldInv'
  <2>1. Finish(r) /\ UNCHANGED <<log, status, info>>
    BY <1>1 DEF Throw, Abort, DeadlockVictim, trail, row
  <2> QED BY <2>1, ToldFinish, StatusStays DEF ToldInv
<1>2. ASSUME NEW r \in Slots, NEW l, Branch(r, l), pc[r] # "auditSchool" PROVE ToldInv'
  BY <1>2, ToldMove DEF Branch, trail, row, txn, loc
<1>3. ASSUME NEW r \in Requests, Arrival(r) PROVE ToldInv'
  <2>1. PICK l, g : /\ pc[r] = "idle" /\ Goto(r, l) /\ grant' = [grant EXCEPT ![r] = g]
                    /\ UNCHANGED <<log, status, info, draft, entries>>
    BY <1>3 DEF Arrival, StartRequest, StartApprove, StartRevoke, Start, trail, row, txn
  <2>2. r \in Slots /\ \A q \in Slots : q # r => grant'[q] = grant[q]
    BY <2>1 DEF Slots, Shape, TypeOK
  <2> QED BY <2>1, <2>2, ToldMove
<1>4. ASSUME NEW r \in Requests, RequestStep(r) PROVE ToldInv'
  <2>1. r \in Slots
    BY DEF Slots
  <2>2. CASE RequestAccess(r)
    BY <1>1, <2>1, <2>2, ToldInsert DEF RequestAccess
  <2>3. CASE Load(r)
    <3>1. CASE Throw(r)
      BY <1>1, <2>1, <3>1
    <3>2. CASE ~Throw(r)
      BY <2>1, <2>3, <3>2, ToldMove DEF Load, trail, row, txn
    <3> QED BY <3>1, <3>2
  <2>4. CASE Claim(r) \/ Revoke(r)
    <3>1. pc[r] \in {"claim", "revoke"} /\ grant[r] \in Grants
      BY <2>1, <2>4 DEF Claim, Revoke, Shape, AtRow
    <3>2. draft[r][grant[r]] = "CLEAN"
      BY <3>1 DEF Place
    <3>3. Throw(r) \/ \E st \in {"ACTIVE", "REVOKED"} : Change(r, grant[r], st, "auditSchool")
      BY <2>4 DEF Claim, Revoke
    <3> QED BY <1>1, <2>1, <3>1, <3>2, <3>3, ToldChange DEF AtRow, Statuses
  <2>5. CASE AuditPlatform(r)
    BY <2>1, <2>5, ToldRecord DEF AuditPlatform, Grants
  <2> QED BY <1>4, <2>2, <2>3, <2>4, <2>5 DEF RequestStep
<1>5. CASE List \/ SweepStep
  <2>1. Cron \in Slots
    BY DEF Slots
  <2>2. CASE List
    BY <2>1, <2>2, ToldMove DEF List, trail, row, txn
  <2>3. CASE NextGrant
    <3>1. CASE Branch(Cron, "commit")
      BY <1>2, <2>1, <2>3, <3>1 DEF NextGrant
    <3>2. CASE ~Branch(Cron, "commit")
      <4>1. \A q \in Slots : q # Cron => grant'[q] = grant[q]
        BY <2>3, <3>2 DEF NextGrant, Shape, TypeOK
      <4> QED BY <2>1, <2>3, <3>2, <4>1, ToldMove DEF NextGrant, trail, row, txn
    <3> QED BY <3>1, <3>2
  <2>4. CASE ExpireGrant
    <3>1. pc[Cron] = "expire" /\ grant[Cron] \in Grants
      BY <2>1, <2>4 DEF ExpireGrant, Shape, AtRow
    <3>2. draft[Cron][grant[Cron]] \in {"CLEAN", "EXPIRED"}
      BY <3>1 DEF Shape
    <3> QED BY <1>2, <2>1, <2>4, <3>1, <3>2, ToldChange DEF ExpireGrant, AtRow, Statuses
  <2> QED BY <1>5, <2>2, <2>3, <2>4 DEF SweepStep
<1>6. ASSUME NEW r \in Slots, AuditStep(r) PROVE ToldInv'
  <2>1. CASE AuditSchool(r)
    <3>1. pc[r] = "auditSchool" /\ grant[r] \in Grants /\ draft[r][grant[r]] # "CLEAN"
      BY <2>1 DEF AuditSchool, Shape, AtRow
    <3> QED BY <2>1, <3>1, ToldRecord DEF AuditSchool, School
  <2> QED BY <1>6, <2>1, ToldCommit DEF AuditStep
<1>7. CASE (\E g \in Grants : Elapse(g)) \/ UNCHANGED vars
  <2>1. UNCHANGED <<log, status, info, draft, entries, pc, grant>>
    BY <1>7 DEF Elapse, vars, trail, row, txn, loc
  <2> QED BY <2>1, ToldStays, StatusStays DEF ToldInv
<1> QED BY <1>1, <1>3, <1>4, <1>5, <1>6, <1>7, ToldClock DEF Next

(* What is kept of the trail of a grant ends with the status the grant     *)
(* has, for any number of administrators, schools, requests and sweeps,    *)
(* whatever is rolled back and purged.                                     *)
THEOREM TrailTellsStatusHolds == Spec => []TrailTellsStatus
<1>1. ToldInv => TrailTellsStatus
  BY DEF ToldInv
<1> QED BY <1>1, ToldInit, ToldStep, ChainedInit, ChainedStep, RowsHold, ShapeHolds, PTL DEF Spec
=============================================================================
