----------------------- MODULE AgentControlPlaneProofs -----------------------
(***************************************************************************)
(* Theorems about the agent control plane, for every number of users,      *)
(* operations, requests and actions, and in both transaction modes.        *)
(***************************************************************************)
EXTENDS AgentControlPlane, TLAPS

(* The labels at which a request has an action at hand.                    *)
ActingLabels == ConfirmLabels \cup RunLabels \cup SettleLabels

(* Where a request has arguments, and an existing action.                  *)
Located ==
  /\ \A r \in Requests : pc[r] # "idle" => req[r] \in ReqType
  /\ \A r \in Requests : pc[r] \in ActingLabels =>
       act[r] \in ActionIds /\ info[act[r]] \in InfoType

(* A row has its fixed columns before any transaction has its status.      *)
Backed ==
  /\ \A a \in ActionIds : status[a] # "ABSENT" => info[a] \in InfoType
  /\ \A r \in Requests, a \in ActionIds : draft[r][a] # "CLEAN" => info[a] \in InfoType

TypeInv == TypeOK /\ Located /\ Backed

LEMMA InitialStatusType ==
  ASSUME NEW t PROVE InitialStatus(t) \in Claimable
BY DEF InitialStatus, Claimable

LEMMA TypeInit == Init => TypeInv
BY ConstantsAssumption
   DEF Init, TypeInv, TypeOK, Located, Backed, AllClean, Statuses, LeaveStates, Labels,
       ActingLabels, ConfirmLabels, RunLabels, SettleLabels

(* A step that only moves the program counter.                             *)
LEMMA TypeBranch ==
  ASSUME TypeInv, NEW r \in Requests, NEW l \in Labels, Branch(r, l),
         pc[r] # "idle", pc[r] \in ActingLabels \/ l \notin ActingLabels
  PROVE  TypeInv'
BY DEF TypeInv, TypeOK, Located, Backed, Branch, Goto, db, txn, loc, env

(* A step that ends the request.                                           *)
LEMMA TypeThrow ==
  ASSUME TypeInv, NEW r \in Requests, Throw(r)
  PROVE  TypeInv'
<1>1. TypeOK'
  BY DEF TypeInv, TypeOK, Throw, Finish, Goto, db, env, AllClean, Labels
<1>2. Located' /\ Backed'
  BY DEF TypeInv, TypeOK, Located, Backed, Throw, Finish, Goto, db, env, AllClean,
         ActingLabels, ConfirmLabels, RunLabels, SettleLabels
<1> QED BY <1>1, <1>2 DEF TypeInv

(* A read that also notes which action it found.                           *)
LEMMA TypeBranchWith ==
  ASSUME TypeInv, NEW r \in Requests, pc[r] # "idle",
         NEW l \in SettleLabels, NEW m \in {"create", "reply"},
         NEW a \in ActionIds, info[a] \in InfoType, BranchWith(r, l, a, m)
  PROVE  TypeInv'
<1>1. req[r] \in ReqType
  BY DEF TypeInv, Located
<1>2. [req[r] EXCEPT !.ifMissed = m] \in ReqType
  BY <1>1 DEF ReqType
<1>3. req' = [req EXCEPT ![r] = [req[r] EXCEPT !.ifMissed = m]]
  BY DEF BranchWith
<1>4. TypeOK'
  BY <1>2, <1>3 DEF TypeInv, TypeOK, BranchWith, Goto, db, txn, env, Labels
<1>5. Located' /\ Backed'
  BY <1>2, <1>3 DEF TypeInv, TypeOK, Located, Backed, BranchWith, Goto, db, txn, env
<1> QED BY <1>4, <1>5 DEF TypeInv

(* What a status write does to the committed rows and to the drafts.       *)
LEMMA SetStatusEffect ==
  ASSUME TypeOK, NEW r \in Requests, NEW a \in ActionIds, NEW s \in Statuses,
         SetStatus(r, a, s)
  PROVE  /\ status' \in [ActionIds -> Statuses \cup {"ABSENT"}]
         /\ draft' \in [Requests -> [ActionIds -> Statuses \cup {"CLEAN"}]]
         /\ RequestTx => status' = status
         /\ ~RequestTx => draft' = draft
         /\ \A b \in ActionIds :
              status'[b] = IF ~RequestTx /\ b = a THEN s ELSE status[b]
         /\ \A q \in Requests, b \in ActionIds :
              draft'[q][b] = IF RequestTx /\ q = r /\ b = a THEN s ELSE draft[q][b]
<1>1. CASE RequestTx
  <2>1. draft' = [draft EXCEPT ![r][a] = s] /\ status' = status
    BY <1>1 DEF SetStatus
  <2>2. draft[r] \in [ActionIds -> Statuses \cup {"CLEAN"}]
    BY DEF TypeOK
  <2>3. [draft[r] EXCEPT ![a] = s] \in [ActionIds -> Statuses \cup {"CLEAN"}]
    BY <2>2
  <2>4. draft' = [draft EXCEPT ![r] = [draft[r] EXCEPT ![a] = s]]
    BY <2>1
  <2> QED BY <1>1, <2>1, <2>2, <2>3, <2>4 DEF TypeOK
<1>2. CASE ~RequestTx
  BY <1>2 DEF TypeOK, SetStatus
<1> QED BY <1>1, <1>2

(* A statement that writes the status of an existing row.                  *)
LEMMA TypeSetStatus ==
  ASSUME TypeInv, NEW r \in Requests, pc[r] # "idle", pc[r] \in ActingLabels,
         NEW s \in Statuses, NEW l \in Labels, SetStatus(r, act[r], s), Goto(r, l),
         UNCHANGED <<info, effects, leave, staged, loc, env>>
  PROVE  TypeInv'
<1>1. act[r] \in ActionIds /\ info[act[r]] \in InfoType
  BY DEF TypeInv, Located
<1>2. TypeOK'
  BY <1>1, SetStatusEffect DEF TypeInv, TypeOK, Goto, loc, env
<1>3. Located' /\ Backed'
  BY <1>1, SetStatusEffect DEF TypeInv, TypeOK, Located, Backed, Goto, loc, env
<1> QED BY <1>2, <1>3 DEF TypeInv

LEMMA TypePropose ==
  ASSUME TypeInv, NEW r \in Requests, StartPropose(r)
  PROVE  TypeInv'
<1>1. PICK u \in Users, o \in Ops, k \in Keys \cup {NoKey} :
        /\ req' = [req EXCEPT ![r] = [user |-> u, op |-> o, key |-> k,
                                      ifMissed |-> "reply", seen |-> "ABSENT",
                                      inTime |-> FALSE, barred |-> FALSE]]
        /\ Goto(r, IF k = NoKey THEN "resolve" ELSE "byKey")
  BY DEF StartPropose
<1>2. [user |-> u, op |-> o, key |-> k, ifMissed |-> "reply", seen |-> "ABSENT",
       inTime |-> FALSE, barred |-> FALSE] \in ReqType
  BY DEF ReqType
<1>3. TypeOK'
  BY <1>1, <1>2 DEF TypeInv, TypeOK, StartPropose, Goto, db, txn, env, Labels, ProposeLabels
<1>4. Located' /\ Backed'
  BY <1>1, <1>2 DEF TypeInv, TypeOK, Located, Backed, StartPropose, Goto, db, txn, env,
       ActingLabels, ConfirmLabels, RunLabels, SettleLabels
<1> QED BY <1>3, <1>4 DEF TypeInv

LEMMA KeyRowsExist ==
  ASSUME TypeInv, NEW r \in Requests, NEW a \in ActionIds, View(r, a) # "ABSENT"
  PROVE  info[a] \in InfoType
BY DEF TypeInv, TypeOK, Backed, View

LEMMA TypeLookups ==
  ASSUME TypeInv, NEW r \in Requests,
         LookupKey(r) \/ ResolveIdentity(r) \/ LookupOperation(r)
           \/ RaceOnKey(r) \/ RaceOnOperation(r)
  PROVE  TypeInv'
<1> USE DEF Labels, ProposeLabels, ActingLabels, ConfirmLabels, RunLabels, SettleLabels
<1>1. CASE LookupKey(r)
  BY <1>1, TypeBranch, TypeThrow, TypeBranchWith, KeyRowsExist DEF LookupKey, KeyRows
<1>2. CASE ResolveIdentity(r)
  BY <1>2, TypeBranch, TypeThrow DEF ResolveIdentity
<1>3. CASE LookupOperation(r)
  BY <1>3, TypeBranch, TypeThrow, TypeBranchWith, KeyRowsExist
     DEF LookupOperation, Newest, Rivals
<1>4. CASE RaceOnKey(r)
  BY <1>4, TypeBranch, TypeThrow, TypeBranchWith, KeyRowsExist DEF RaceOnKey, KeyRows
<1>5. CASE RaceOnOperation(r)
  BY <1>5, TypeBranch, TypeThrow, TypeBranchWith, KeyRowsExist
     DEF RaceOnOperation, Newest, Rivals
<1> QED BY <1>1, <1>2, <1>3, <1>4, <1>5

LEMMA TypeCreate ==
  ASSUME TypeInv, NEW r \in Requests, CreateAction(r)
  PROVE  TypeInv'
<1>1. CASE ~Collides(r) /\ Insert(r) /\ Goto(r, "reply")
            /\ UNCHANGED <<effects, leave, staged, req, env>>
  <2>1. req[r] \in ReqType /\ pc[r] = "create"
    BY DEF TypeInv, Located, CreateAction
  <2> DEFINE row == [user |-> req[r].user, op |-> req[r].op, key |-> req[r].key]
             s   == InitialStatus(Tool[req[r].op])
  <2>2. row \in InfoType /\ s \in Statuses
    BY <2>1, InitialStatusType DEF ReqType, InfoType, Claimable, Statuses
  <2>3. PICK a \in ActionIds :
          /\ SetStatus(r, a, s)
          /\ info' = [info EXCEPT ![a] = row]
          /\ act' = [act EXCEPT ![r] = a]
    BY <1>1 DEF Insert
  <2> HIDE DEF row, s
  <2>4. info' \in [ActionIds -> InfoType \cup {NoInfo}]
    BY <2>2, <2>3 DEF TypeInv, TypeOK
  <2>5. \A b \in ActionIds : info[b] \in InfoType \/ b = a => info'[b] \in InfoType
    BY <2>2, <2>3 DEF TypeInv, TypeOK
  <2>6. /\ status' \in [ActionIds -> Statuses \cup {"ABSENT"}]
        /\ draft' \in [Requests -> [ActionIds -> Statuses \cup {"CLEAN"}]]
        /\ ~RequestTx => draft' = draft
    BY <2>2, <2>3, SetStatusEffect DEF TypeInv
  <2>7. TypeOK'
    BY <1>1, <2>3, <2>4, <2>6 DEF TypeInv, TypeOK, Goto, env, Labels, SettleLabels
  <2>8. Located'
    BY <1>1, <2>1, <2>3, <2>5 DEF TypeInv, TypeOK, Located, Goto
  <2>9. Backed'
    BY <2>2, <2>3, <2>5, SetStatusEffect, <1>1 DEF TypeInv, TypeOK, Backed
  <2> QED BY <2>7, <2>8, <2>9 DEF TypeInv
<1>2. CASE Collides(r) /\ ~RequestTx /\ Branch(r, "raceKey")
  BY <1>2, TypeBranch DEF CreateAction, Labels, ProposeLabels, ActingLabels, ConfirmLabels,
     RunLabels, SettleLabels
<1>3. CASE Collides(r) /\ RequestTx /\ Throw(r)
  BY <1>3, TypeThrow
<1> QED BY <1>1, <1>2, <1>3 DEF CreateAction

LEMMA TypeReply ==
  ASSUME TypeInv, NEW r \in Requests, Reply(r)
  PROVE  TypeInv'
<1>1. \A a \in ActionIds : View(r, a) \in Statuses \cup {"ABSENT"}
  BY DEF TypeInv, TypeOK, View
<1>2. \A a \in ActionIds : View(r, a) # "ABSENT" => info[a] \in InfoType
  BY DEF TypeInv, TypeOK, Backed, View
<1>3. \A o \in Ops : LeaveView(r, o) \in LeaveStates
  BY DEF TypeInv, TypeOK, LeaveView, LeaveStates
<1>4. Written(r) \in SUBSET ActionIds
  BY DEF TypeInv, TypeOK, Written
<1>5. TypeOK'
  BY <1>1, <1>3, <1>4 DEF TypeInv, TypeOK, Reply, Finish, Goto, env, AllClean, Labels
<1>6. Located' /\ Backed'
  BY <1>2 DEF TypeInv, TypeOK, Located, Backed, Reply, Finish, Goto, env, AllClean,
       ActingLabels, ConfirmLabels, RunLabels, SettleLabels
<1> QED BY <1>5, <1>6 DEF TypeInv

LEMMA TypeStartConfirm ==
  ASSUME TypeInv, NEW r \in Requests, NEW u \in Users, NEW a \in ActionIds,
         StartConfirm(r, u, a)
  PROVE  TypeInv'
<1>1. info[a] \in InfoType
  BY DEF TypeInv, Backed, StartConfirm
<1> DEFINE new == [user |-> u, op |-> info[a].op, key |-> NoKey,
                   ifMissed |-> "reply", seen |-> "ABSENT", inTime |-> FALSE,
                   barred |-> ~Permitted(u, info[a].op)]
<1>2. new \in ReqType
  BY <1>1 DEF ReqType, InfoType, Permitted
<1>3. /\ req' = [req EXCEPT ![r] = new]
      /\ Goto(r, "load")
      /\ act' = [act EXCEPT ![r] = a]
      /\ UNCHANGED <<db, txn, env>>
  BY DEF StartConfirm
<1> HIDE DEF new
<1>4. TypeOK'
  BY <1>2, <1>3 DEF TypeInv, TypeOK, Goto, db, txn, env, Labels, ConfirmLabels
<1>5. Located' /\ Backed'
  BY <1>1, <1>2, <1>3 DEF TypeInv, TypeOK, Located, Backed, Goto, db, txn, env
<1> QED BY <1>4, <1>5 DEF TypeInv

(* A read whose answer the request keeps.                                  *)
LEMMA TypeRemember ==
  ASSUME TypeInv, NEW r \in Requests, NEW l \in ConfirmLabels, NEW new \in ReqType,
         pc[r] \in ActingLabels, Goto(r, l), req' = [req EXCEPT ![r] = new],
         UNCHANGED <<db, txn, act, env>>
  PROVE  TypeInv'
<1>1. TypeOK'
  BY DEF TypeInv, TypeOK, Goto, db, txn, env, Labels
<1>2. Located' /\ Backed'
  BY DEF TypeInv, TypeOK, Located, Backed, Goto, db, txn, env
<1> QED BY <1>1, <1>2 DEF TypeInv

LEMMA ReqUpdate ==
  ASSUME NEW q \in ReqType, NEW s \in Statuses \cup {"ABSENT"}, NEW b \in BOOLEAN
  PROVE  [q EXCEPT !.seen = s] \in ReqType /\ [q EXCEPT !.inTime = b] \in ReqType
BY DEF ReqType

LEMMA TypeConfirmReads ==
  ASSUME TypeInv, NEW r \in Requests,
         LoadAction(r) \/ CheckAction(r) \/ RecheckUser(r) \/ RereadAfterClaim(r)
           \/ HandlerRefuses(r) \/ HandlerIdles(r) \/ Verify(r) \/ Reconcile(r)
  PROVE  TypeInv'
<1> USE DEF Labels, ActingLabels, ConfirmLabels, RunLabels, SettleLabels
<1>1. CASE LoadAction(r)
  <2>1. CASE Throw(r)
    BY <2>1, TypeThrow
  <2>2. CASE /\ Goto(r, "check")
             /\ req' = [req EXCEPT ![r].seen = View(r, act[r])]
             /\ UNCHANGED <<db, txn, act, env>>
    <3>1. req[r] \in ReqType /\ act[r] \in ActionIds
      BY <1>1 DEF LoadAction, TypeInv, Located
    <3>2. View(r, act[r]) \in Statuses \cup {"ABSENT"}
      BY <3>1 DEF TypeInv, TypeOK, View
    <3>3. [req[r] EXCEPT !.seen = View(r, act[r])] \in ReqType
      BY <3>1, <3>2, ReqUpdate
    <3>4. req' = [req EXCEPT ![r] = [req[r] EXCEPT !.seen = View(r, act[r])]]
      BY <2>2
    <3> QED BY <1>1, <2>2, <3>3, <3>4, TypeRemember DEF LoadAction
  <2> QED BY <1>1, <2>1, <2>2 DEF LoadAction
<1>2. CASE CheckAction(r)
  BY <1>2, TypeBranch, TypeThrow DEF CheckAction
<1>3. CASE RecheckUser(r)
  <2>1. CASE Throw(r)
    BY <2>1, TypeThrow
  <2>2. CASE Branch(r, "reconcile")
    BY <1>3, <2>2, TypeBranch DEF RecheckUser
  <2>3. CASE /\ Goto(r, "claim")
             /\ req' = [req EXCEPT ![r].inTime = act[r] \notin elapsed]
             /\ UNCHANGED <<db, txn, act, env>>
    <3>1. req[r] \in ReqType
      BY <1>3 DEF RecheckUser, TypeInv, Located
    <3>2. [req[r] EXCEPT !.inTime = act[r] \notin elapsed] \in ReqType
      BY <3>1, ReqUpdate
    <3>3. req' = [req EXCEPT ![r] = [req[r] EXCEPT !.inTime = act[r] \notin elapsed]]
      BY <2>3
    <3> QED BY <1>3, <2>3, <3>2, <3>3, TypeRemember DEF RecheckUser
  <2> QED BY <1>3, <2>1, <2>2, <2>3 DEF RecheckUser
<1>4. CASE RereadAfterClaim(r)
  BY <1>4, TypeBranch, TypeThrow DEF RereadAfterClaim
<1>5. CASE HandlerRefuses(r) \/ HandlerIdles(r)
  BY <1>5, TypeBranch DEF HandlerRefuses, HandlerIdles
<1>6. CASE Verify(r)
  BY <1>6, TypeBranch DEF Verify
<1>7. CASE Reconcile(r)
  BY <1>7, TypeBranch, TypeThrow DEF Reconcile
<1> QED BY <1>1, <1>2, <1>3, <1>4, <1>5, <1>6, <1>7

LEMMA TypeConfirmWrites ==
  ASSUME TypeInv, NEW r \in Requests,
         Claim(r) \/ MarkSucceeded(r) \/ MarkFailed(r) \/ SettleApplied(r) \/ SettleMissed(r)
  PROVE  TypeInv'
<1> USE DEF Labels, ActingLabels, ConfirmLabels, RunLabels, SettleLabels, ProposeLabels, Statuses
<1>1. CASE Claim(r)
  BY <1>1, TypeSetStatus, TypeBranch DEF Claim
<1>2. CASE MarkSucceeded(r)
  BY <1>2, TypeSetStatus, TypeBranch DEF MarkSucceeded
<1>3. CASE MarkFailed(r)
  BY <1>3, TypeSetStatus DEF MarkFailed
<1>4. CASE SettleApplied(r)
  BY <1>4, TypeSetStatus, TypeThrow DEF SettleApplied
<1>5. CASE SettleMissed(r)
  <2>1. req[r].ifMissed \in {"create", "reply"}
    BY <1>5 DEF SettleMissed, TypeInv, Located, ReqType
  <2> QED BY <1>5, <2>1, TypeSetStatus DEF SettleMissed
<1> QED BY <1>1, <1>2, <1>3, <1>4, <1>5

LEMMA TypeExpire ==
  ASSUME TypeInv, NEW r \in Requests, ExpireOnConfirm(r)
  PROVE  TypeInv'
<1>1. act[r] \in ActionIds /\ info[act[r]] \in InfoType
  BY DEF TypeInv, Located, ExpireOnConfirm, ActingLabels, ConfirmLabels
<1>2. status' \in [ActionIds -> Statuses \cup {"ABSENT"}]
  BY <1>1 DEF TypeInv, TypeOK, ExpireOnConfirm, Statuses
<1>3. /\ draft' \in [Requests -> [ActionIds -> Statuses \cup {"CLEAN"}]]
      /\ staged' \in [Requests -> SUBSET ActionIds]
      /\ req' \in [Requests -> ReqType \cup {NoRequest}]
      /\ act' \in [Requests -> ActionIds \cup {0}]
      /\ pc' \in [Requests -> Labels]
  BY DEF TypeInv, TypeOK, ExpireOnConfirm, Finish, Goto, AllClean, Labels
<1>4. ~RequestTx => /\ draft' = [q \in Requests |-> AllClean]
                    /\ staged' = [q \in Requests |-> {}]
  BY DEF TypeInv, TypeOK, ExpireOnConfirm, Finish
<1>5. TypeOK'
  BY <1>2, <1>3, <1>4 DEF TypeInv, TypeOK, ExpireOnConfirm, env
<1>6. Located' /\ Backed'
  BY <1>1 DEF TypeInv, TypeOK, Located, Backed, ExpireOnConfirm, Finish, Goto, env, AllClean,
       ActingLabels, ConfirmLabels, RunLabels, SettleLabels
<1> QED BY <1>5, <1>6 DEF TypeInv

LEMMA TypeHandlerWrites ==
  ASSUME TypeInv, NEW r \in Requests, HandlerWrites(r)
  PROVE  TypeInv'
<1>1. act[r] \in ActionIds
  BY DEF TypeInv, Located, HandlerWrites, ActingLabels, RunLabels
<1>2. leave' \in [Ops -> LeaveStates]
  BY DEF TypeInv, TypeOK, HandlerWrites, LeaveStates
<1>3. /\ effects' \in SUBSET ActionIds
      /\ staged' \in [Requests -> SUBSET ActionIds]
      /\ ~RequestTx => staged' = staged
  BY <1>1 DEF TypeInv, TypeOK, HandlerWrites
<1>4. TypeOK'
  BY <1>2, <1>3 DEF TypeInv, TypeOK, HandlerWrites, Goto, loc, env, Labels, RunLabels
<1>5. Located' /\ Backed'
  BY DEF TypeInv, TypeOK, Located, Backed, HandlerWrites, Goto, loc, env, ActingLabels, RunLabels
<1> QED BY <1>4, <1>5 DEF TypeInv

LEMMA TypeAbort ==
  ASSUME TypeInv, NEW r \in Requests, Abort(r)
  PROVE  TypeInv'
<1>1. aborts' \in 0..MaxAborts
  BY ConstantsAssumption DEF TypeInv, TypeOK, Abort
<1>2. TypeOK'
  BY <1>1 DEF TypeInv, TypeOK, Abort, Finish, Goto, db, AllClean, Labels
<1>3. Located' /\ Backed'
  BY DEF TypeInv, TypeOK, Located, Backed, Abort, Finish, Goto, db, AllClean,
       ActingLabels, ConfirmLabels, RunLabels, SettleLabels
<1> QED BY <1>2, <1>3 DEF TypeInv

LEMMA TypeEnvironment ==
  ASSUME TypeInv, Environment
  PROVE  TypeInv'
<1>1. CASE \E a \in ActionIds : Elapse(a)
  BY <1>1 DEF TypeInv, TypeOK, Located, Backed, Elapse, db, txn, loc
<1>2. CASE \E u \in Users : Demote(u) \/ Deactivate(u)
  BY <1>2 DEF TypeInv, TypeOK, Located, Backed, Demote, Deactivate, db, txn, loc, Roles
<1>3. CASE \E o \in Ops, x \in {"APPROVED_BY_HR", "CLOSED"} : HrRead(o, x) \/ HrWrite(o, x)
  <2> PICK o \in Ops, x \in {"APPROVED_BY_HR", "CLOSED"} : HrRead(o, x) \/ HrWrite(o, x)
    BY <1>3
  <2>1. hrReading' \in SUBSET (Ops \X {"APPROVED_BY_HR", "CLOSED"})
    BY DEF TypeInv, TypeOK, HrRead, HrWrite
  <2>2. leave' \in [Ops -> LeaveStates] /\ hrApproved' \in SUBSET Ops
    <3>1. CASE HrRead(o, x)
      BY <3>1 DEF TypeInv, TypeOK, HrRead, db
    <3>2. CASE HrWrite(o, x)
      <4>1. x \in LeaveStates
        BY DEF LeaveStates
      <4>2. leave' = [leave EXCEPT ![o] = x]
        BY <3>2 DEF HrWrite
      <4>3. hrApproved' \in {hrApproved, hrApproved \cup {o}}
        BY <3>2 DEF HrWrite
      <4> QED BY <4>1, <4>2, <4>3 DEF TypeInv, TypeOK
    <3> QED BY <3>1, <3>2
  <2>3. UNCHANGED <<status, info, effects, txn, pc, loc, elapsed, role, active, aborts>>
    BY DEF HrRead, HrWrite, db
  <2>4. TypeOK'
    BY <2>1, <2>2, <2>3 DEF TypeInv, TypeOK, txn, loc
  <2>5. Located' /\ Backed'
    BY <2>3 DEF TypeInv, Located, Backed, txn, loc
  <2> QED BY <2>4, <2>5 DEF TypeInv
<1>4. CASE ExpireStaleActions
  <2>1. \A a \in ActionIds : Stale(a) => status[a] # "ABSENT"
    BY DEF Stale, Claimable
  <2>2. status' \in [ActionIds -> Statuses \cup {"ABSENT"}]
    BY <1>4 DEF TypeInv, TypeOK, ExpireStaleActions, Statuses
  <2>3. \A a \in ActionIds : status'[a] # "ABSENT" => status[a] # "ABSENT"
    BY <1>4, <2>1 DEF ExpireStaleActions
  <2> QED BY <1>4, <2>2, <2>3
          DEF TypeInv, TypeOK, Located, Backed, ExpireStaleActions, txn, loc, env
<1> QED BY <1>1, <1>2, <1>3, <1>4 DEF Environment

LEMMA TypeNext == TypeInv /\ [Next]_vars => TypeInv'
<1> SUFFICES ASSUME TypeInv, [Next]_vars PROVE TypeInv'
  OBVIOUS
<1>1. ASSUME NEW r \in Requests, Step(r) PROVE TypeInv'
  BY <1>1, TypeLookups, TypeCreate, TypeConfirmReads, TypeConfirmWrites, TypeExpire,
     TypeHandlerWrites, TypeReply
     DEF Step, ProposeStep, ConfirmStep, SettleStep
<1>2. ASSUME NEW r \in Requests,
             StartPropose(r) \/ \E u \in Users, a \in ActionIds : StartConfirm(r, u, a)
      PROVE  TypeInv'
  BY <1>2, TypePropose, TypeStartConfirm
<1>3. ASSUME NEW r \in Requests, Abort(r) PROVE TypeInv'
  BY <1>3, TypeAbort
<1>4. CASE UNCHANGED vars
  BY <1>4 DEF vars, db, txn, loc, env, TypeInv, TypeOK, Located, Backed
<1> QED BY <1>1, <1>2, <1>3, <1>4, TypeEnvironment DEF Next, Rest

(* Every variable of the control plane stays within its type, a request    *)
(* always has the arguments and the action its next statement uses, and    *)
(* without request transactions nothing is ever left uncommitted.          *)
THEOREM TypeCorrect == Spec => []TypeOK
<1>1. Init => TypeInv
  BY TypeInit
<1>2. TypeInv /\ [Next]_vars => TypeInv'
  BY TypeNext
<1>3. TypeInv => TypeOK
  BY DEF TypeInv
<1> QED BY <1>1, <1>2, <1>3, PTL DEF Spec
---------------------------------------------------------------------------
(***************************************************************************)
(* One executor per action.  The claim is a compare-and-set: the argument  *)
(* is that a row which is being run can be seen as claimable by nobody.    *)
(***************************************************************************)
(* Row locks: only one open transaction has an uncommitted status.         *)
OneWriter ==
  \A r, q \in Requests, a \in ActionIds :
    r # q => draft[r][a] = "CLEAN" \/ draft[q][a] = "CLEAN"

(* A request that runs an action holds it, and has moved it on.            *)
RunsClaimed ==
  \A r \in Requests : pc[r] \in RunLabels =>
    /\ View(r, act[r]) \notin Claimable \cup {"ABSENT"}
    /\ RequestTx => draft[r][act[r]] # "CLEAN"

(* A claimable status is uncommitted only on a row that is itself new.     *)
DraftsAreNew ==
  \A r \in Requests, a \in ActionIds :
    draft[r][a] \in Claimable => status[a] = "ABSENT"

ClaimInv == TypeInv /\ OneWriter /\ RunsClaimed /\ DraftsAreNew /\ OneExecutor

(* The action part of NeverReopened.                                       *)
NoReopen ==
  \A a \in ActionIds :
    status[a] \notin Claimable \cup {"ABSENT"} => status'[a] \notin Claimable

LEMMA ClaimInit == Init => ClaimInv
<1> SUFFICES ASSUME Init PROVE ClaimInv
  OBVIOUS
<1>1. TypeInv
  BY TypeInit
<1>2. OneWriter /\ RunsClaimed /\ DraftsAreNew /\ OneExecutor
  BY DEF Init, AllClean, OneWriter, RunsClaimed, DraftsAreNew, OneExecutor, RunLabels, Claimable
<1> QED BY <1>1, <1>2 DEF ClaimInv

(* Without request transactions a request sees the committed row.          *)
LEMMA AutocommitView ==
  ASSUME TypeOK, ~RequestTx, NEW r \in Requests, NEW a \in ActionIds
  PROVE  draft[r][a] = "CLEAN" /\ View(r, a) = status[a]
BY DEF TypeOK, View, AllClean

(* A step of r that writes no status, and does not bring r into the run.   *)
LEMMA ClaimQuiet ==
  ASSUME ClaimInv, TypeInv', NEW r \in Requests, UNCHANGED <<status, draft>>,
         \A q \in Requests \ {r} : pc'[q] = pc[q] /\ act'[q] = act[q],
         pc'[r] \notin RunLabels \/ (pc[r] \in RunLabels /\ act'[r] = act[r])
  PROVE  ClaimInv' /\ NoReopen
<1>1. OneWriter' /\ DraftsAreNew'
  BY DEF ClaimInv, OneWriter, DraftsAreNew
<1>2. \A q \in Requests : pc'[q] \in RunLabels => pc[q] \in RunLabels /\ act'[q] = act[q]
  OBVIOUS
<1>3. RunsClaimed'
  BY <1>2 DEF ClaimInv, RunsClaimed, View
<1>4. OneExecutor'
  BY <1>2 DEF ClaimInv, OneExecutor
<1>5. NoReopen
  BY DEF NoReopen
<1> QED BY <1>1, <1>3, <1>4, <1>5 DEF ClaimInv

(* A step that ends request r without a write to the table.                *)
LEMMA ClaimEnd ==
  ASSUME ClaimInv, TypeInv', NEW r \in Requests, Finish(r), UNCHANGED status
  PROVE  ClaimInv' /\ NoReopen
<1>1. \A q \in Requests : pc'[q] \in RunLabels =>
        q # r /\ pc[q] \in RunLabels /\ act'[q] = act[q] /\ draft'[q] = draft[q]
  BY DEF ClaimInv, TypeInv, TypeOK, Finish, Goto, RunLabels
<1>2. \A q \in Requests, a \in ActionIds : draft'[q][a] \in {"CLEAN", draft[q][a]}
  BY DEF ClaimInv, TypeInv, TypeOK, Finish, AllClean
<1>3. OneWriter'
  BY <1>2 DEF ClaimInv, OneWriter
<1>4. RunsClaimed'
  BY <1>1 DEF ClaimInv, RunsClaimed, View
<1>5. DraftsAreNew'
  BY <1>2 DEF ClaimInv, DraftsAreNew, Claimable
<1>6. OneExecutor'
  BY <1>1 DEF ClaimInv, OneExecutor
<1>7. NoReopen
  BY DEF NoReopen
<1> QED BY <1>3, <1>4, <1>5, <1>6, <1>7 DEF ClaimInv

(* A write of a status that cannot be claimed.  It may lead into the run   *)
(* only from a claimable row: this is the compare-and-set.                 *)
LEMMA ClaimWrite ==
  ASSUME ClaimInv, TypeInv', NEW r \in Requests, pc[r] \in ActingLabels,
         NEW s \in Statuses \ Claimable, NEW l \in Labels,
         SetStatus(r, act[r], s), Goto(r, l), UNCHANGED act,
         l \notin RunLabels \/ View(r, act[r]) \in Claimable
  PROVE  ClaimInv' /\ NoReopen
<1> DEFINE a == act[r]
<1>1. TypeOK /\ a \in ActionIds /\ "CLEAN" \notin Statuses /\ "ABSENT" \notin Statuses
  BY DEF ClaimInv, TypeInv, Located, Statuses
<1>2. /\ \A b \in ActionIds :
           status'[b] = IF ~RequestTx /\ b = a THEN s ELSE status[b]
      /\ \A q \in Requests, b \in ActionIds :
           draft'[q][b] = IF RequestTx /\ q = r /\ b = a THEN s ELSE draft[q][b]
  BY <1>1, SetStatusEffect
<1>3. \A q \in Requests \ {r} : draft[q][a] = "CLEAN"
  BY DEF SetStatus, Unlocked
<1>4. \A q \in Requests : pc'[q] = IF q = r THEN l ELSE pc[q]
  BY <1>1 DEF TypeOK, Goto
<1>5. \A q \in Requests : pc'[q] \in RunLabels /\ q # r =>
        pc[q] \in RunLabels /\ act[q] \in ActionIds
  BY <1>4 DEF ClaimInv, TypeInv, Located, ActingLabels
<1> HIDE DEF a
<1>6. OneWriter'
  BY <1>1, <1>2, <1>3 DEF ClaimInv, OneWriter
<1>7. DraftsAreNew'
  BY <1>1, <1>2, AutocommitView DEF ClaimInv, DraftsAreNew, Claimable
<1>8. NoReopen
  BY <1>2 DEF NoReopen
<1>9. RunsClaimed'
  <2> SUFFICES ASSUME NEW q \in Requests, pc'[q] \in RunLabels
               PROVE  /\ View(q, act[q])' \notin Claimable \cup {"ABSENT"}
                      /\ RequestTx => draft'[q][act[q]] # "CLEAN"
    BY DEF RunsClaimed
  <2>1. CASE q = r
    BY <1>1, <1>2, <2>1, AutocommitView DEF View, a
  <2>2. CASE q # r
    BY <1>1, <1>2, <1>5, <2>2 DEF ClaimInv, RunsClaimed, View
  <2> QED BY <2>1, <2>2
<1>10. ASSUME NEW q \in Requests \ {r}, pc'[q] \in RunLabels, l \in RunLabels
       PROVE  act[q] # a
  <2>1. SUFFICES ASSUME act[q] = a PROVE FALSE
    OBVIOUS
  <2>2. View(r, a) \in Claimable
    BY <1>10 DEF a
  <2>3. /\ View(q, a) \notin Claimable
        /\ RequestTx => draft[q][a] # "CLEAN"
    BY <1>5, <1>10, <2>1 DEF ClaimInv, RunsClaimed
  <2> QED BY <1>1, <1>3, <2>2, <2>3, AutocommitView
<1>11. OneExecutor'
  BY <1>4, <1>10 DEF ClaimInv, OneExecutor, a
<1> QED BY <1>6, <1>7, <1>8, <1>9, <1>11 DEF ClaimInv

(* The INSERT takes a row that nobody has seen.                            *)
LEMMA ClaimCreate ==
  ASSUME ClaimInv, TypeInv', NEW r \in Requests, CreateAction(r)
  PROVE  ClaimInv' /\ NoReopen
<1> USE DEF RunLabels
<1>1. CASE Branch(r, "raceKey")
  BY <1>1, ClaimQuiet DEF ClaimInv, TypeInv, TypeOK, Branch, Goto, db, txn, loc
<1>2. CASE Throw(r)
  BY <1>2, ClaimEnd DEF Throw, db
<1>3. CASE Insert(r) /\ Goto(r, "reply")
  <2> DEFINE s == InitialStatus(Tool[req[r].op])
  <2>1. s \in Claimable /\ s \in Statuses
    BY InitialStatusType DEF Claimable, Statuses
  <2>2. PICK a \in ActionIds :
          /\ info[a] = NoInfo
          /\ SetStatus(r, a, s)
          /\ act' = [act EXCEPT ![r] = a]
    BY <1>3 DEF Insert
  <2> HIDE DEF s
  <2>3. /\ status[a] = "ABSENT"
        /\ \A q \in Requests : draft[q][a] = "CLEAN"
        /\ \A q \in Requests : pc[q] \in RunLabels => act[q] \in ActionIds \ {a}
    BY <2>2, ConstantsAssumption
       DEF ClaimInv, TypeInv, TypeOK, Located, Backed, ActingLabels
  <2>4. /\ \A b \in ActionIds :
             status'[b] = IF ~RequestTx /\ b = a THEN s ELSE status[b]
        /\ \A q \in Requests, b \in ActionIds :
             draft'[q][b] = IF RequestTx /\ q = r /\ b = a THEN s ELSE draft[q][b]
    BY <2>1, <2>2, SetStatusEffect DEF ClaimInv, TypeInv
  <2>5. \A q \in Requests : pc'[q] \in RunLabels =>
          pc[q] \in RunLabels /\ act'[q] = act[q]
    BY <1>3, <2>2 DEF ClaimInv, TypeInv, TypeOK, Goto
  <2>6. OneWriter'
    BY <2>3, <2>4 DEF ClaimInv, OneWriter
  <2>7. RunsClaimed'
    <3> SUFFICES ASSUME NEW q \in Requests, pc'[q] \in RunLabels
                 PROVE  /\ View(q, act[q])' \notin Claimable \cup {"ABSENT"}
                        /\ RequestTx => draft'[q][act'[q]] # "CLEAN"
      BY DEF RunsClaimed
    <3>1. act'[q] = act[q] /\ act[q] \in ActionIds \ {a}
      BY <2>3, <2>5
    <3>2. draft'[q][act[q]] = draft[q][act[q]] /\ status'[act[q]] = status[act[q]]
      BY <2>4, <3>1
    <3> QED BY <2>5, <3>1, <3>2 DEF ClaimInv, RunsClaimed, View
  <2>8. DraftsAreNew'
    BY <2>3, <2>4, AutocommitView DEF ClaimInv, TypeInv, DraftsAreNew, Claimable
  <2>9. OneExecutor'
    BY <2>5 DEF ClaimInv, OneExecutor
  <2>10. NoReopen
    BY <2>3, <2>4 DEF NoReopen
  <2> QED BY <2>6, <2>7, <2>8, <2>9, <2>10 DEF ClaimInv
<1> QED BY <1>1, <1>2, <1>3 DEF CreateAction

(* The commit publishes statuses that only the request itself had written. *)
LEMMA ClaimReply ==
  ASSUME ClaimInv, TypeInv', NEW r \in Requests, Reply(r)
  PROVE  ClaimInv' /\ NoReopen
<1>1. \A q \in Requests : pc'[q] \in RunLabels =>
        q # r /\ pc[q] \in RunLabels /\ act'[q] = act[q] /\ act[q] \in ActionIds
  BY DEF ClaimInv, TypeInv, TypeOK, Located, ActingLabels, Reply, Finish, Goto, RunLabels
<1>2. \A q \in Requests, b \in ActionIds :
        draft'[q][b] = IF q = r THEN "CLEAN" ELSE draft[q][b]
  BY DEF ClaimInv, TypeInv, TypeOK, Reply, Finish, AllClean
<1>3. \A b \in ActionIds : status'[b] = View(r, b)
  BY DEF Reply
<1>4. OneWriter'
  BY <1>2 DEF ClaimInv, OneWriter
<1>5. RunsClaimed'
  BY <1>1, <1>2, <1>3, AutocommitView DEF ClaimInv, TypeInv, RunsClaimed, View
<1>6. DraftsAreNew'
  BY <1>2, <1>3 DEF ClaimInv, OneWriter, DraftsAreNew, View, Claimable
<1>7. OneExecutor'
  BY <1>1 DEF ClaimInv, OneExecutor
<1>8. NoReopen
  BY <1>3 DEF ClaimInv, DraftsAreNew, NoReopen, View
<1> QED BY <1>4, <1>5, <1>6, <1>7, <1>8 DEF ClaimInv

LEMMA ClaimExpire ==
  ASSUME ClaimInv, TypeInv', NEW r \in Requests, ExpireOnConfirm(r)
  PROVE  ClaimInv' /\ NoReopen
<1>1. CASE RequestTx
  BY <1>1, ClaimEnd DEF ExpireOnConfirm
<1>2. CASE ~RequestTx
  <2>1. act[r] \in ActionIds /\ status' = [status EXCEPT ![act[r]] = "EXPIRED"]
    BY <1>2 DEF ClaimInv, TypeInv, Located, ActingLabels, ConfirmLabels, ExpireOnConfirm
  <2>2. \A b \in ActionIds : status'[b] \in {"EXPIRED", status[b]}
    BY <2>1 DEF ClaimInv, TypeInv, TypeOK
  <2>3. \A q \in Requests : pc'[q] \in RunLabels =>
          q # r /\ pc[q] \in RunLabels /\ act'[q] = act[q] /\ act[q] \in ActionIds
    BY DEF ClaimInv, TypeInv, TypeOK, Located, ActingLabels, ExpireOnConfirm, Finish, Goto,
           RunLabels
  <2>4. \A q \in Requests, b \in ActionIds : draft[q][b] = "CLEAN" /\ draft'[q][b] = "CLEAN"
    BY <1>2 DEF ClaimInv, TypeInv, TypeOK, AllClean
  <2>5. OneWriter' /\ DraftsAreNew'
    BY <2>4 DEF OneWriter, DraftsAreNew, Claimable
  <2>6. RunsClaimed'
    BY <1>2, <2>2, <2>3, <2>4 DEF ClaimInv, RunsClaimed, View, Claimable
  <2>7. OneExecutor'
    BY <2>3 DEF ClaimInv, OneExecutor
  <2>8. NoReopen
    BY <2>2 DEF NoReopen, Claimable
  <2> QED BY <2>5, <2>6, <2>7, <2>8 DEF ClaimInv
<1> QED BY <1>1, <1>2

LEMMA ClaimSweep ==
  ASSUME ClaimInv, TypeInv', ExpireStaleActions
  PROVE  ClaimInv' /\ NoReopen
<1>1. \A b \in ActionIds :
        /\ status'[b] \in {"EXPIRED", status[b]}
        /\ status[b] = "ABSENT" => status'[b] = "ABSENT"
  BY DEF ExpireStaleActions, Stale, Claimable
<1>2. UNCHANGED <<draft, pc, act>>
  BY DEF ExpireStaleActions, txn, loc
<1>3. OneWriter' /\ DraftsAreNew' /\ OneExecutor'
  BY <1>1, <1>2 DEF ClaimInv, OneWriter, DraftsAreNew, OneExecutor
<1>4. RunsClaimed'
  <2> SUFFICES ASSUME NEW q \in Requests, pc[q] \in RunLabels
               PROVE  /\ View(q, act[q])' \notin Claimable \cup {"ABSENT"}
                      /\ RequestTx => draft[q][act[q]] # "CLEAN"
    BY <1>2 DEF RunsClaimed
  <2>1. act[q] \in ActionIds
    BY DEF ClaimInv, TypeInv, Located, ActingLabels
  <2> QED BY <1>1, <1>2, <2>1 DEF ClaimInv, RunsClaimed, View, Claimable
<1>5. NoReopen
  BY <1>1 DEF NoReopen, Claimable
<1> QED BY <1>3, <1>4, <1>5 DEF ClaimInv

(* The steps that write a status to the row at hand.                       *)
LEMMA ClaimWrites ==
  ASSUME ClaimInv, TypeInv', NEW r \in Requests,
         Claim(r) \/ MarkSucceeded(r) \/ MarkFailed(r) \/ SettleApplied(r) \/ SettleMissed(r)
  PROVE  ClaimInv' /\ NoReopen
<1> USE DEF Labels, ActingLabels, ConfirmLabels, RunLabels, SettleLabels, ProposeLabels,
            Statuses, Claimable
<1>1. ASSUME NEW l, Branch(r, l), l \notin RunLabels \/ pc[r] \in RunLabels
      PROVE  ClaimInv' /\ NoReopen
  BY <1>1, ClaimQuiet DEF Branch, Goto, db, txn, loc, ClaimInv, TypeInv, TypeOK
<1>2. ASSUME Throw(r) PROVE ClaimInv' /\ NoReopen
  BY <1>2, ClaimEnd DEF Throw, db
<1>3. CASE Claim(r)
  BY <1>1, <1>3, ClaimWrite DEF Claim, MayClaim, loc
<1>4. CASE MarkSucceeded(r)
  BY <1>1, <1>4, ClaimWrite DEF MarkSucceeded, loc
<1>5. CASE MarkFailed(r)
  BY <1>5, ClaimWrite DEF MarkFailed, loc
<1>6. CASE SettleApplied(r)
  BY <1>2, <1>6, ClaimWrite DEF SettleApplied, loc
<1>7. CASE SettleMissed(r)
  <2>1. req[r].ifMissed \in {"create", "reply"}
    BY <1>7 DEF SettleMissed, ClaimInv, TypeInv, Located, ReqType
  <2> QED BY <1>7, <2>1, ClaimWrite DEF SettleMissed, loc
<1> QED BY <1>3, <1>4, <1>5, <1>6, <1>7

(* The steps of a request that only read, and those that start or end it.  *)
LEMMA ClaimReads ==
  ASSUME ClaimInv, TypeInv', NEW r \in Requests,
         \/ LookupKey(r) \/ ResolveIdentity(r) \/ LookupOperation(r)
         \/ RaceOnKey(r) \/ RaceOnOperation(r)
         \/ LoadAction(r) \/ CheckAction(r) \/ RecheckUser(r) \/ RereadAfterClaim(r)
         \/ HandlerWrites(r) \/ HandlerRefuses(r) \/ HandlerIdles(r) \/ Verify(r) \/ Reconcile(r)
         \/ StartPropose(r) \/ \E u \in Users, a \in ActionIds : StartConfirm(r, u, a)
  PROVE  ClaimInv' /\ NoReopen
<1> USE DEF ConfirmLabels, RunLabels, SettleLabels
<1>1. CASE Throw(r)
  BY <1>1, ClaimEnd DEF Throw, db
<1>2. ASSUME NEW l, Goto(r, l), UNCHANGED <<status, draft>>,
             \A q \in Requests \ {r} : act'[q] = act[q],
             l \notin RunLabels \/ (pc[r] \in RunLabels /\ UNCHANGED act)
      PROVE  ClaimInv' /\ NoReopen
  BY <1>2, ClaimQuiet DEF Goto, ClaimInv, TypeInv, TypeOK
<1>3. ASSUME NEW l, Branch(r, l), l \notin RunLabels \/ pc[r] \in RunLabels
      PROVE  ClaimInv' /\ NoReopen
  BY <1>2, <1>3 DEF Branch, db, txn, loc
<1>4. ASSUME NEW l \in SettleLabels, NEW a, NEW m, BranchWith(r, l, a, m)
      PROVE  ClaimInv' /\ NoReopen
  BY <1>2, <1>4 DEF BranchWith, db, txn, ClaimInv, TypeInv, TypeOK
<1>5. CASE LookupKey(r) \/ LookupOperation(r) \/ RaceOnKey(r) \/ RaceOnOperation(r)
  BY <1>1, <1>3, <1>4, <1>5 DEF LookupKey, LookupOperation, RaceOnKey, RaceOnOperation
<1>6. CASE ResolveIdentity(r) \/ CheckAction(r) \/ RereadAfterClaim(r)
  BY <1>1, <1>3, <1>6 DEF ResolveIdentity, CheckAction, RereadAfterClaim
<1>7. CASE LoadAction(r) \/ RecheckUser(r)
  BY <1>1, <1>2, <1>3, <1>7 DEF LoadAction, RecheckUser, db, txn
<1>8. CASE HandlerRefuses(r) \/ HandlerIdles(r) \/ Verify(r) \/ Reconcile(r)
  BY <1>1, <1>3, <1>8 DEF HandlerRefuses, HandlerIdles, Verify, Reconcile
<1>9. CASE HandlerWrites(r)
  BY <1>2, <1>9 DEF HandlerWrites, loc
<1>10. CASE StartPropose(r)
  <2>1. PICK l \in {"resolve", "byKey"} : Goto(r, l)
    BY <1>10 DEF StartPropose
  <2> QED BY <1>2, <1>10, <2>1 DEF StartPropose, db, txn, ClaimInv, TypeInv, TypeOK
<1>11. CASE \E u \in Users, a \in ActionIds : StartConfirm(r, u, a)
  BY <1>2, <1>11 DEF StartConfirm, db, txn, ClaimInv, TypeInv, TypeOK
<1> QED BY <1>5, <1>6, <1>7, <1>8, <1>9, <1>10, <1>11

LEMMA ClaimNext == ClaimInv /\ [Next]_vars => ClaimInv' /\ NoReopen
<1> SUFFICES ASSUME ClaimInv, [Next]_vars PROVE ClaimInv' /\ NoReopen
  OBVIOUS
<1>1. TypeInv'
  BY TypeNext DEF ClaimInv
<1>2. ASSUME NEW r \in Requests, Step(r) PROVE ClaimInv' /\ NoReopen
  BY <1>1, <1>2, ClaimReads, ClaimWrites, ClaimCreate, ClaimReply, ClaimExpire
     DEF Step, ProposeStep, ConfirmStep, SettleStep
<1>3. ASSUME NEW r \in Requests,
             StartPropose(r) \/ \E u \in Users, a \in ActionIds : StartConfirm(r, u, a)
      PROVE  ClaimInv' /\ NoReopen
  BY <1>1, <1>3, ClaimReads
<1>4. ASSUME NEW r \in Requests, Abort(r) PROVE ClaimInv' /\ NoReopen
  BY <1>1, <1>4, ClaimEnd DEF Abort, db
<1>5. ASSUME UNCHANGED <<status, draft, pc, act>> PROVE ClaimInv' /\ NoReopen
  BY <1>1, <1>5 DEF ClaimInv, OneWriter, RunsClaimed, DraftsAreNew, OneExecutor, View, NoReopen
<1>6. CASE Environment
  BY <1>1, <1>5, <1>6, ClaimSweep
     DEF Environment, Elapse, Demote, Deactivate, HrRead, HrWrite, db, txn, loc
<1>7. CASE UNCHANGED vars
  BY <1>5, <1>7 DEF vars, db, txn, loc
<1> QED BY <1>2, <1>3, <1>4, <1>6, <1>7 DEF Next, Rest

(* At most one request at a time runs the handler of an action: the        *)
(* compare-and-set of confirmAndExecute is enough for it, with one         *)
(* transaction per request or one per statement.                           *)
THEOREM OneExecutorHolds == Spec => []OneExecutor
<1>1. Init => ClaimInv
  BY ClaimInit
<1>2. ClaimInv /\ [Next]_vars => ClaimInv'
  BY ClaimNext
<1>3. ClaimInv => OneExecutor
  BY DEF ClaimInv
<1> QED BY <1>1, <1>2, <1>3, PTL DEF Spec

(* An action that was claimed, settled or expired never becomes claimable  *)
(* again, so it is dispatched at most once.                                *)
THEOREM NeverReopenedHolds == Spec => NeverReopened
<1>1. Init => ClaimInv
  BY ClaimInit
<1>2. ClaimInv /\ [Next]_vars => ClaimInv'
  BY ClaimNext
<1>3. ClaimInv /\ [Next]_vars => [NoReopen]_vars
  BY ClaimNext
<1>4. Spec => [][NoReopen]_vars
  BY <1>1, <1>2, <1>3, PTL DEF Spec
<1> QED BY <1>4 DEF NeverReopened, NoReopen
=============================================================================
