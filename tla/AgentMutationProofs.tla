------------------------- MODULE AgentMutationProofs -------------------------
(***************************************************************************)
(* More theorems about the agent control plane: who may have an action     *)
(* run, and how often what it does is done.  They rest on the invariant of *)
(* the claim.                                                              *)
(***************************************************************************)
EXTENDS AgentControlPlaneProofs

---------------------------------------------------------------------------
(***************************************************************************)
(* What every step of a request leaves alone.                              *)
(***************************************************************************)
(* Other requests go on where they are, and rows keep their columns.       *)
Alone(r) ==
  /\ \A q \in Requests \ {r} :
       /\ pc'[q] = pc[q] /\ req'[q] = req[q] /\ act'[q] = act[q]
       /\ draft'[q] = draft[q] /\ staged'[q] = staged[q]
  /\ \A a \in ActionIds : info[a] \in InfoType => info'[a] = info[a]

LEMMA StatusAlone ==
  ASSUME TypeOK, NEW r \in Requests, NEW a, NEW s, SetStatus(r, a, s)
  PROVE  \A q \in Requests \ {r} : draft'[q] = draft[q]
BY DEF TypeOK, SetStatus

LEMMA StepAlone ==
  ASSUME TypeInv, NEW r \in Requests,
         \/ Step(r) \/ StartPropose(r) \/ Abort(r)
         \/ \E u \in Users, a \in ActionIds : StartConfirm(r, u, a)
  PROVE  Alone(r) /\ UNCHANGED <<role, active>>
<1> USE DEF TypeInv, TypeOK, Alone, db, txn, loc, env
<1>1. ASSUME NEW l, Branch(r, l) PROVE Alone(r) /\ UNCHANGED <<role, active>>
  BY <1>1 DEF Branch, Goto
<1>2. ASSUME NEW l, NEW a, NEW m, BranchWith(r, l, a, m)
      PROVE  Alone(r) /\ UNCHANGED <<role, active>>
  BY <1>2 DEF BranchWith, Goto
<1>3. ASSUME Finish(r), UNCHANGED <<info, role, active>>
      PROVE  Alone(r) /\ UNCHANGED <<role, active>>
  BY <1>3 DEF Finish, Goto
<1>4. CASE Throw(r) \/ Reply(r) \/ ExpireOnConfirm(r) \/ Abort(r)
  BY <1>3, <1>4 DEF Throw, Reply, ExpireOnConfirm, Abort
<1>5. ASSUME NEW l, NEW a, NEW s, SetStatus(r, a, s), Goto(r, l),
             UNCHANGED <<info, effects, leave, staged, loc, env>>
      PROVE  Alone(r) /\ UNCHANGED <<role, active>>
  BY <1>5, StatusAlone DEF Goto
<1>6. CASE ProposeStep(r)
  <2>1. CASE CreateAction(r) /\ Insert(r) /\ Goto(r, "reply")
              /\ UNCHANGED <<effects, leave, staged, req, env>>
    <3>1. PICK a \in ActionIds :
            /\ info[a] = NoInfo
            /\ SetStatus(r, a, InitialStatus(Tool[req[r].op]))
            /\ info' = [info EXCEPT ![a] = [user |-> req[r].user, op |-> req[r].op,
                                            key |-> req[r].key]]
            /\ act' = [act EXCEPT ![r] = a]
      BY <2>1 DEF Insert
    <3> QED BY <2>1, <3>1, StatusAlone, ConstantsAssumption DEF Goto
  <2>2. CASE CreateAction(r) /\ ~Insert(r)
    BY <1>1, <1>4, <2>2 DEF CreateAction
  <2>3. CASE ~CreateAction(r)
    BY <1>1, <1>2, <1>4, <1>6, <2>3
       DEF ProposeStep, LookupKey, ResolveIdentity, LookupOperation, RaceOnKey, RaceOnOperation
  <2> QED BY <1>1, <1>4, <2>1, <2>2, <2>3 DEF CreateAction
<1>7. CASE Claim(r) \/ MarkSucceeded(r) \/ MarkFailed(r) \/ SettleApplied(r) \/ SettleMissed(r)
  BY <1>1, <1>4, <1>5, <1>7 DEF Claim, MarkSucceeded, MarkFailed, SettleApplied, SettleMissed
<1>8. CASE LoadAction(r) \/ CheckAction(r) \/ RecheckUser(r) \/ RereadAfterClaim(r)
  BY <1>1, <1>4, <1>8 DEF LoadAction, CheckAction, RecheckUser, RereadAfterClaim, Goto
<1>9. CASE HandlerWrites(r) \/ HandlerRefuses(r) \/ HandlerIdles(r) \/ Verify(r) \/ Reconcile(r)
  BY <1>1, <1>4, <1>9 DEF HandlerWrites, HandlerRefuses, HandlerIdles, Verify, Reconcile, Goto
<1>10. CASE StartPropose(r) \/ \E u \in Users, a \in ActionIds : StartConfirm(r, u, a)
  BY <1>10 DEF StartPropose, StartConfirm, Goto
<1> QED BY <1>4, <1>6, <1>7, <1>8, <1>9, <1>10 DEF Step, ConfirmStep, SettleStep

---------------------------------------------------------------------------
(***************************************************************************)
(* Who may have an action run.                                             *)
(***************************************************************************)
(* A request of a caller without the right may read and settle, and the    *)
(* caller does not get the right back.                                     *)
Barred(r) ==
  pc[r] # "idle" /\ req[r].barred =>
    /\ pc[r] \in {"load", "check", "expire", "user"} \cup SettleLabels
    /\ req[r].ifMissed = "reply"
    /\ ~Permitted(req[r].user, info[act[r]].op)

BarredInv == TypeInv /\ \A r \in Requests : Barred(r)

(* No change of a user grants an action that was denied.                   *)
LEMMA RightsShrink ==
  ASSUME TypeInv, Environment, NEW u \in Users, NEW o \in Ops, Permitted(u, o)'
  PROVE  Permitted(u, o)
<1>1. CASE UNCHANGED <<role, active>>
  BY <1>1 DEF Permitted
<1>2. CASE \E v \in Users : Deactivate(v)
  BY <1>2 DEF Deactivate, Permitted
<1>3. CASE \E v \in Users : Demote(v)
  <2>1. role[u] \in Roles /\ role'[u] \in {role[u], "TEACHER"} /\ active' = active
    BY <1>3 DEF Demote, TypeInv, TypeOK
  <2> QED BY <2>1 DEF Permitted, AllowedRoles, Roles
<1> QED BY <1>1, <1>2, <1>3
        DEF Environment, Elapse, HrRead, HrWrite, ExpireStaleActions, env

LEMMA BarredOthers ==
  ASSUME BarredInv, NEW r \in Requests, Alone(r), UNCHANGED <<role, active>>,
         NEW q \in Requests \ {r}
  PROVE  Barred(q)'
<1> SUFFICES ASSUME pc[q] # "idle", req[q].barred
             PROVE  /\ pc[q] \in {"load", "check", "expire", "user"} \cup SettleLabels
                    /\ req[q].ifMissed = "reply"
                    /\ ~Permitted(req[q].user, info[act[q]].op)'
  BY DEF Alone, Barred
<1>1. Barred(q) /\ pc[q] \in ActingLabels
  BY DEF BarredInv, Barred, ActingLabels, ConfirmLabels
<1>2. info'[act[q]] = info[act[q]] /\ req'[q] = req[q] /\ act'[q] = act[q]
  BY <1>1 DEF BarredInv, TypeInv, Located, Alone
<1> QED BY <1>1, <1>2 DEF Barred, Permitted

LEMMA BarredSelf ==
  ASSUME BarredInv, NEW r \in Requests,
         \/ Step(r) \/ StartPropose(r) \/ Abort(r)
         \/ \E u \in Users, a \in ActionIds : StartConfirm(r, u, a)
  PROVE  Barred(r)'
<1> USE DEF BarredInv, TypeInv, TypeOK, SettleLabels
<1>1. ASSUME Finish(r) PROVE Barred(r)'
  BY <1>1 DEF Finish, Goto, Barred
<1>2. CASE Throw(r) \/ Reply(r) \/ ExpireOnConfirm(r) \/ Abort(r)
  BY <1>1, <1>2 DEF Throw, Reply, ExpireOnConfirm, Abort
<1>3. ASSUME NEW l, Goto(r, l), req' = req, act' = act, info' = info,
             role' = role, active' = active,
             req[r].barred =>
               l \in {"idle", "load", "check", "expire", "user"} \cup SettleLabels,
             pc[r] # "idle"
      PROVE  Barred(r)'
  BY <1>3 DEF Goto, Barred, Permitted
<1>4. ASSUME NEW l, Branch(r, l), pc[r] # "idle",
             req[r].barred =>
               l \in {"idle", "load", "check", "expire", "user"} \cup SettleLabels
      PROVE  Barred(r)'
  BY <1>3, <1>4 DEF Branch, db, loc, env
<1>5. CASE pc[r] \in ProposeLabels /\ ProposeStep(r)
  <2>1. req[r] \in ReqType /\ ~req[r].barred
    BY <1>5 DEF Barred, ProposeLabels, Located
  <2>2. CASE pc'[r] = "idle" \/ ~req'[r].barred
    BY <2>2 DEF Barred
  <2>3. ASSUME NEW l, NEW a, NEW m, BranchWith(r, l, a, m) PROVE ~req'[r].barred
    BY <2>1, <2>3 DEF BranchWith, ReqType
  <2>4. req'[r] = req[r] \/ ~req'[r].barred \/ pc'[r] = "idle"
    BY <1>5, <2>3 DEF ProposeStep, LookupKey, ResolveIdentity, LookupOperation, CreateAction,
       RaceOnKey, RaceOnOperation, Branch, Throw, Finish, Goto, loc
  <2> QED BY <2>1, <2>2, <2>4
<1>6. CASE LoadAction(r)
  <2>1. req[r] \in ReqType
    BY <1>6 DEF LoadAction, Located
  <2>2. CASE /\ Goto(r, "check") /\ req' = [req EXCEPT ![r].seen = View(r, act[r])]
             /\ UNCHANGED <<db, txn, act, env>>
    <3>1. /\ req'[r].barred = req[r].barred /\ req'[r].user = req[r].user
          /\ req'[r].ifMissed = req[r].ifMissed
      BY <2>1, <2>2 DEF ReqType
    <3> QED BY <1>6, <2>2, <3>1 DEF LoadAction, Goto, Barred, Permitted, db, env
  <2> QED BY <1>2, <1>6, <2>2 DEF LoadAction
<1>7. CASE CheckAction(r)
  BY <1>2, <1>4, <1>7 DEF CheckAction
<1>8. CASE RecheckUser(r)
  <2>1. CASE req[r].seen # "EXECUTING" /\ Permitted(req[r].user, info[act[r]].op)
             /\ req' = [req EXCEPT ![r].inTime = act[r] \notin elapsed]
    <3>1. req[r] \in ReqType /\ ~req[r].barred
      BY <1>8, <2>1 DEF RecheckUser, Located, Barred
    <3>2. ~req'[r].barred
      BY <2>1, <3>1 DEF ReqType
    <3> QED BY <3>2 DEF Barred
  <2> QED BY <1>2, <1>4, <1>8, <2>1 DEF RecheckUser
<1>9. CASE \/ Claim(r) \/ RereadAfterClaim(r) \/ HandlerWrites(r) \/ HandlerRefuses(r)
           \/ HandlerIdles(r)
           \/ Verify(r) \/ MarkSucceeded(r) \/ MarkFailed(r)
  <2>1. pc[r] \in {"claim", "reread"} \cup RunLabels
    BY <1>9 DEF Claim, RereadAfterClaim, HandlerWrites, HandlerRefuses, HandlerIdles, Verify,
       MarkSucceeded,
       MarkFailed, RunLabels
  <2>2. ~req[r].barred
    BY <2>1 DEF Barred, RunLabels
  <2>3. req'[r] = req[r] \/ pc'[r] = "idle"
    BY <1>9 DEF Claim, RereadAfterClaim, HandlerWrites, HandlerRefuses, HandlerIdles, Verify,
       MarkSucceeded,
       MarkFailed, Branch, Throw, Finish, Goto, loc
  <2> QED BY <2>2, <2>3 DEF Barred
<1>10. CASE Reconcile(r)
  BY <1>2, <1>4, <1>10 DEF Reconcile
<1>11. CASE SettleApplied(r) \/ SettleMissed(r)
  <2>1. CASE Throw(r)
    BY <1>2, <2>1
  <2>2. CASE /\ \E l \in {"reply", req[r].ifMissed} : Goto(r, l)
             /\ UNCHANGED <<info, effects, leave, staged, loc, env>>
    BY <1>3, <1>11, <2>2 DEF SettleApplied, SettleMissed, Barred, loc, env
  <2> QED BY <1>11, <2>1, <2>2 DEF SettleApplied, SettleMissed
<1>12. CASE StartPropose(r)
  <2>1. ~req'[r].barred
    BY <1>12 DEF StartPropose
  <2> QED BY <2>1 DEF Barred
<1>13. CASE \E u \in Users, a \in ActionIds : StartConfirm(r, u, a)
  <2>1. PICK u \in Users, a \in ActionIds : StartConfirm(r, u, a)
    BY <1>13
  <2>2. /\ pc'[r] = "load" /\ act'[r] = a /\ req'[r].ifMissed = "reply"
        /\ req'[r].user = u /\ req'[r].barred = ~Permitted(u, info[a].op)
    BY <2>1 DEF StartConfirm, Goto
  <2>3. info' = info /\ Permitted(u, info[a].op)' = Permitted(u, info[a].op)
    BY <2>1 DEF StartConfirm, db, env, Permitted
  <2>4. CASE Permitted(u, info[a].op)
    BY <2>2, <2>4 DEF Barred
  <2>5. CASE ~Permitted(u, info[a].op)
    <3>1. ~Permitted(req[r].user, info[act[r]].op)'
      BY <2>2, <2>3, <2>5 DEF Permitted
    <3> QED BY <2>2, <3>1 DEF Barred
  <2> QED BY <2>4, <2>5
<1>14. ProposeStep(r) => pc[r] \in ProposeLabels
  BY DEF ProposeStep, LookupKey, ResolveIdentity, LookupOperation, CreateAction,
         RaceOnKey, RaceOnOperation, ProposeLabels
<1> QED
  BY <1>2, <1>5, <1>6, <1>7, <1>8, <1>9, <1>10, <1>11, <1>12, <1>13, <1>14
     DEF Step, ConfirmStep, SettleStep

LEMMA BarredNext == BarredInv /\ [Next]_vars => BarredInv'
<1> SUFFICES ASSUME BarredInv, [Next]_vars PROVE BarredInv'
  OBVIOUS
<1>1. TypeInv /\ TypeInv'
  BY TypeNext DEF BarredInv
<1>2. ASSUME NEW r \in Requests,
             \/ Step(r) \/ StartPropose(r) \/ Abort(r)
             \/ \E u \in Users, a \in ActionIds : StartConfirm(r, u, a)
      PROVE  BarredInv'
  BY <1>1, <1>2, StepAlone, BarredOthers, BarredSelf DEF BarredInv
<1>3. CASE Environment
  <2>1. UNCHANGED <<pc, req, act, info>>
    BY <1>3 DEF Environment, Elapse, Demote, Deactivate, HrRead, HrWrite, ExpireStaleActions,
       db, loc
  <2> SUFFICES ASSUME NEW r \in Requests, pc[r] # "idle", req[r].barred
               PROVE  /\ pc[r] \in {"load", "check", "expire", "user"} \cup SettleLabels
                      /\ req[r].ifMissed = "reply"
                      /\ ~Permitted(req[r].user, info[act[r]].op)'
    BY <1>1, <2>1 DEF BarredInv, Barred
  <2>2. Barred(r) /\ pc[r] \in ActingLabels
    BY DEF BarredInv, Barred, ActingLabels, ConfirmLabels
  <2>3. req[r].user \in Users /\ info[act[r]].op \in Ops
    BY <1>1, <2>2 DEF TypeInv, Located, ReqType, InfoType
  <2>4. Permitted(req[r].user, info[act[r]].op)' = Permitted(req[r].user, info[act[r]].op)
          \/ ~Permitted(req[r].user, info[act[r]].op)'
    BY <1>1, <1>3, <2>1, <2>3, RightsShrink DEF Permitted
  <2> QED BY <2>2, <2>4 DEF Barred
<1>4. CASE UNCHANGED vars
  BY <1>1, <1>4 DEF vars, db, loc, env, BarredInv, Barred, Permitted
<1> QED BY <1>2, <1>3, <1>4 DEF Next, Rest

(* Who has lost the right to run an action before asking for it never gets *)
(* it run, wherever the change falls between the statements of the         *)
(* confirmation, and however many requests and changes there are.          *)
THEOREM NoBarredExecutionHolds == Spec => []NoBarredExecution
<1>1. Init => BarredInv
  BY TypeInit DEF Init, BarredInv, Barred
<1>2. BarredInv /\ [Next]_vars => BarredInv'
  BY BarredNext
<1>3. BarredInv => NoBarredExecution
  BY DEF BarredInv, Barred, NoBarredExecution, RunLabels, SettleLabels
<1> QED BY <1>1, <1>2, <1>3, PTL DEF Spec
---------------------------------------------------------------------------
(***************************************************************************)
(* An Idempotency-Key stands for one action, in both transaction modes.    *)
(***************************************************************************)

(* A request has seen, or inserted, the row it works on.                   *)
Seen(r) == pc[r] \in ActingLabels => View(r, act[r]) # "ABSENT"

SeenInv == TypeInv /\ \A r \in Requests : Seen(r)

LEMMA ViewOfRow ==
  ASSUME TypeOK, NEW r \in Requests, NEW a \in ActionIds
  PROVE  View(r, a) = "ABSENT" <=> status[a] = "ABSENT" /\ draft[r][a] = "CLEAN"
<1>1. draft[r][a] \in Statuses \cup {"CLEAN"}
  BY DEF TypeOK
<1> QED BY <1>1 DEF View, Statuses

(* A committed row is never deleted.                                       *)
LEMMA RowsStay ==
  ASSUME SeenInv, [Next]_vars, NEW a \in ActionIds, status[a] # "ABSENT"
  PROVE  status'[a] # "ABSENT"
<1> USE DEF SeenInv, TypeInv, db
<1>1. ASSUME NEW r \in Requests, NEW b \in ActionIds, NEW s \in Statuses, SetStatus(r, b, s)
      PROVE  status'[a] # "ABSENT"
  <2>1. status'[a] \in {s, status[a]}
    BY <1>1, SetStatusEffect
  <2> QED BY <2>1 DEF Statuses
<1>2. ASSUME NEW r \in Requests,
             \/ Claim(r) \/ MarkSucceeded(r) \/ MarkFailed(r)
             \/ SettleApplied(r) \/ SettleMissed(r)
      PROVE  status'[a] # "ABSENT"
  <2>1. act[r] \in ActionIds
    BY <1>2 DEF Claim, MarkSucceeded, MarkFailed, SettleApplied, SettleMissed, Located,
       ActingLabels, ConfirmLabels, RunLabels, SettleLabels
  <2> QED BY <1>1, <1>2, <2>1
          DEF Claim, MarkSucceeded, MarkFailed, SettleApplied, SettleMissed, Branch, Throw,
              Statuses
<1>3. ASSUME NEW r \in Requests, CreateAction(r) PROVE status'[a] # "ABSENT"
  <2>1. InitialStatus(Tool[req[r].op]) \in Statuses
    BY InitialStatusType DEF Claimable, Statuses
  <2> QED BY <1>1, <1>3, <2>1 DEF CreateAction, Insert, Branch, Throw
<1>4. ASSUME NEW r \in Requests, Reply(r) PROVE status'[a] # "ABSENT"
  BY <1>4, ViewOfRow DEF Reply
<1>5. ASSUME NEW r \in Requests, ExpireOnConfirm(r) PROVE status'[a] # "ABSENT"
  BY <1>5 DEF ExpireOnConfirm, TypeOK
<1>6. ASSUME NEW r \in Requests,
             \/ LookupKey(r) \/ ResolveIdentity(r) \/ LookupOperation(r)
             \/ RaceOnKey(r) \/ RaceOnOperation(r)
             \/ LoadAction(r) \/ CheckAction(r) \/ RecheckUser(r) \/ RereadAfterClaim(r)
             \/ HandlerWrites(r) \/ HandlerRefuses(r)
             \/ HandlerIdles(r) \/ Verify(r) \/ Reconcile(r)
      PROVE  status' = status
  BY <1>6 DEF LookupKey, ResolveIdentity, LookupOperation, RaceOnKey, RaceOnOperation,
     LoadAction, CheckAction, RecheckUser, RereadAfterClaim, HandlerWrites, HandlerRefuses,
        HandlerIdles,
     Verify, Reconcile, Branch, BranchWith, Throw
<1>7. ASSUME NEW r \in Requests,
             \/ StartPropose(r) \/ \E u \in Users, b \in ActionIds : StartConfirm(r, u, b)
             \/ Abort(r)
      PROVE  status' = status
  BY <1>7 DEF StartPropose, StartConfirm, Abort
<1>8. ASSUME Environment PROVE status'[a] # "ABSENT"
  BY <1>8 DEF Environment, Elapse, Demote, Deactivate, HrRead, HrWrite, ExpireStaleActions
<1>9. ASSUME NEW r \in Requests, Step(r) PROVE status'[a] # "ABSENT"
  BY <1>2, <1>3, <1>4, <1>5, <1>6, <1>9 DEF Step, ProposeStep, ConfirmStep, SettleStep
<1> QED BY <1>7, <1>8, <1>9 DEF Next, Rest, vars

LEMMA SeenOthers ==
  ASSUME SeenInv, [Next]_vars, NEW q \in Requests,
         pc'[q] = pc[q], act'[q] = act[q], draft'[q] = draft[q]
  PROVE  Seen(q)'
BY RowsStay DEF SeenInv, TypeInv, Located, Seen, View

LEMMA SeenSelf ==
  ASSUME SeenInv, TypeInv', [Next]_vars, NEW r \in Requests,
         \/ Step(r) \/ StartPropose(r) \/ Abort(r)
         \/ \E u \in Users, a \in ActionIds : StartConfirm(r, u, a)
  PROVE  Seen(r)'
<1> USE DEF SeenInv, TypeInv, ActingLabels, ConfirmLabels, RunLabels, SettleLabels,
            db, txn, loc
<1>1. ASSUME Finish(r) PROVE Seen(r)'
  BY <1>1 DEF Finish, Goto, TypeOK, Seen
<1>2. CASE Throw(r) \/ Reply(r) \/ ExpireOnConfirm(r) \/ Abort(r)
  BY <1>1, <1>2 DEF Throw, Reply, ExpireOnConfirm, Abort
<1>3. ASSUME UNCHANGED <<status, draft, act>>,
             pc'[r] \notin ActingLabels \/ pc[r] \in ActingLabels
      PROVE  Seen(r)'
  BY <1>3 DEF Seen, View
<1>4. ASSUME NEW l, Branch(r, l), l \notin ActingLabels \/ pc[r] \in ActingLabels
      PROVE  Seen(r)'
  BY <1>3, <1>4 DEF Branch, Goto, TypeOK
<1>5. ASSUME NEW l, NEW a, NEW m, BranchWith(r, l, a, m), View(r, a) # "ABSENT"
      PROVE  Seen(r)'
  BY <1>5 DEF BranchWith, Seen, View, TypeOK
<1>6. CASE LookupKey(r) \/ ResolveIdentity(r) \/ LookupOperation(r)
             \/ RaceOnKey(r) \/ RaceOnOperation(r)
  BY <1>2, <1>4, <1>5, <1>6
     DEF LookupKey, ResolveIdentity, LookupOperation, RaceOnKey, RaceOnOperation, KeyRows,
         Newest, Rivals
<1>7. ASSUME NEW a \in ActionIds, NEW s \in Statuses, SetStatus(r, a, s), act'[r] = a
      PROVE  Seen(r)'
  <2>1. status'[a] = s \/ draft'[r][a] = s
    BY <1>7, SetStatusEffect
  <2>2. s # "ABSENT" /\ s # "CLEAN" /\ draft'[r][a] # "ABSENT"
    <3>1. draft'[r][a] \in Statuses \cup {"CLEAN"}
      BY DEF TypeOK
    <3> QED BY <3>1 DEF Statuses
  <2>3. View(r, a)' # "ABSENT"
    BY <2>1, <2>2 DEF View
  <2> QED BY <1>7, <2>3 DEF Seen, View
<1>8. CASE CreateAction(r)
  <2>1. InitialStatus(Tool[req[r].op]) \in Statuses
    BY InitialStatusType DEF Claimable, Statuses
  <2>2. CASE Insert(r)
    <3>1. PICK a \in ActionIds :
            /\ SetStatus(r, a, InitialStatus(Tool[req[r].op]))
            /\ act' = [act EXCEPT ![r] = a]
      BY <2>2 DEF Insert
    <3> QED BY <1>7, <2>1, <3>1 DEF TypeOK
  <2> QED BY <1>2, <1>4, <1>8, <2>2 DEF CreateAction
<1>9. CASE Claim(r) \/ MarkSucceeded(r) \/ MarkFailed(r) \/ SettleApplied(r) \/ SettleMissed(r)
  <2>1. act[r] \in ActionIds /\ pc[r] \in ActingLabels
    BY <1>9 DEF Claim, MarkSucceeded, MarkFailed, SettleApplied, SettleMissed, Located
  <2> QED BY <1>2, <1>4, <1>7, <1>9, <2>1
          DEF Claim, MarkSucceeded, MarkFailed, SettleApplied, SettleMissed, Statuses
<1>10. CASE \/ LoadAction(r) \/ CheckAction(r) \/ RecheckUser(r) \/ RereadAfterClaim(r)
            \/ HandlerWrites(r) \/ HandlerRefuses(r)
            \/ HandlerIdles(r) \/ Verify(r) \/ Reconcile(r)
  BY <1>2, <1>3, <1>4, <1>10 DEF LoadAction, CheckAction, RecheckUser, RereadAfterClaim,
     HandlerWrites, HandlerRefuses, HandlerIdles, Verify, Reconcile
<1>11. CASE StartPropose(r)
  BY <1>11 DEF StartPropose, Goto, TypeOK, Seen
<1>12. CASE \E u \in Users, a \in ActionIds : StartConfirm(r, u, a)
  <2>1. PICK u \in Users, a \in ActionIds : StartConfirm(r, u, a)
    BY <1>12
  <2>2. View(r, a) # "ABSENT" /\ act'[r] = a /\ UNCHANGED <<status, draft>>
    BY <2>1, ViewOfRow DEF StartConfirm, TypeOK
  <2> QED BY <2>2 DEF Seen, View
<1> QED
  BY <1>2, <1>6, <1>8, <1>9, <1>10, <1>11, <1>12 DEF Step, ProposeStep, ConfirmStep, SettleStep

LEMMA SeenNext == SeenInv /\ [Next]_vars => SeenInv'
<1> SUFFICES ASSUME SeenInv, [Next]_vars PROVE SeenInv'
  OBVIOUS
<1>1. TypeInv /\ TypeInv'
  BY TypeNext DEF SeenInv
<1>2. ASSUME NEW r \in Requests,
             \/ Step(r) \/ StartPropose(r) \/ Abort(r)
             \/ \E u \in Users, a \in ActionIds : StartConfirm(r, u, a)
      PROVE  SeenInv'
  BY <1>1, <1>2, StepAlone, SeenOthers, SeenSelf DEF SeenInv, Alone
<1>3. CASE Environment \/ UNCHANGED vars
  <2>1. UNCHANGED <<pc, act, draft>>
    BY <1>3 DEF Environment, Elapse, Demote, Deactivate, HrRead, HrWrite, ExpireStaleActions,
       vars, txn, loc
  <2> QED BY <1>1, <2>1, SeenOthers DEF SeenInv
<1> QED BY <1>2, <1>3 DEF Next, Rest

(* The row is there, if only for the request that inserts it.              *)
Exists(a) == status[a] # "ABSENT" \/ \E r \in Requests : draft[r][a] # "CLEAN"

SameKey(a, b) ==
  /\ info[a].key # NoKey /\ info[a].key = info[b].key
  /\ info[a].user = info[b].user /\ Tool[info[a].op] = Tool[info[b].op]

KeysOnce == \A a, b \in ActionIds : Exists(a) /\ Exists(b) /\ SameKey(a, b) => a = b

(* Only rows that are there have written to the domain.                    *)
Rooted ==
  /\ \A a \in effects : status[a] # "ABSENT"
  /\ \A r \in Requests : \A a \in staged[r] : View(r, a) # "ABSENT"

KeyInv == ClaimInv /\ KeysOnce /\ Rooted

LEMMA ExistsTyped ==
  ASSUME TypeInv, NEW a \in ActionIds, Exists(a)
  PROVE  info[a] \in InfoType
BY DEF TypeInv, Backed, Exists

(* A step that inserts no row and writes nothing to the domain.            *)
LEMMA KeyQuiet ==
  ASSUME KeyInv, ClaimInv', info' = info,
         \A a \in ActionIds : Exists(a)' => Exists(a), Rooted'
  PROVE  KeyInv'
<1>1. KeysOnce'
  BY DEF KeyInv, KeysOnce, SameKey
<1> QED BY <1>1 DEF KeyInv

(* Statuses that are read, or written to rows that are there.              *)
LEMMA KeyStatus ==
  ASSUME KeyInv, ClaimInv', NEW r \in Requests, NEW a \in ActionIds, NEW s \in Statuses,
         Exists(a), SetStatus(r, a, s), UNCHANGED <<info, effects, staged>>
  PROVE  KeyInv'
<1>1. /\ \A b \in ActionIds :
           status'[b] = IF ~RequestTx /\ b = a THEN s ELSE status[b]
      /\ \A q \in Requests, b \in ActionIds :
           draft'[q][b] = IF RequestTx /\ q = r /\ b = a THEN s ELSE draft[q][b]
  BY SetStatusEffect DEF KeyInv, ClaimInv, TypeInv
<1>2. s # "ABSENT" /\ s # "CLEAN"
  BY DEF Statuses
<1>3. effects \in SUBSET ActionIds /\ \A q \in Requests : staged[q] \in SUBSET ActionIds
  BY DEF KeyInv, ClaimInv, TypeInv, TypeOK
<1>4. \A b \in ActionIds : Exists(b)' => Exists(b)
  BY <1>1 DEF Exists
<1>5. Rooted'
  BY <1>1, <1>2, <1>3 DEF KeyInv, Rooted, View
<1> QED BY <1>4, <1>5, KeyQuiet

LEMMA KeySame ==
  ASSUME KeyInv, ClaimInv', UNCHANGED <<status, info, draft, effects, staged>>
  PROVE  KeyInv'
<1>1. Rooted' /\ \A a \in ActionIds : Exists(a)' => Exists(a)
  BY DEF KeyInv, Rooted, View, Exists
<1> QED BY <1>1, KeyQuiet

LEMMA KeyFinish ==
  ASSUME KeyInv, ClaimInv', NEW r \in Requests, Finish(r), info' = info,
         \A a \in ActionIds : /\ status'[a] # "ABSENT" => View(r, a) # "ABSENT"
                              /\ status[a] # "ABSENT" => status'[a] # "ABSENT",
         \A a \in effects' :
           a \in effects \/ (a \in staged[r] /\ status'[a] # "ABSENT")
  PROVE  KeyInv'
<1>1. TypeOK /\ TypeOK'
  BY DEF KeyInv, ClaimInv, TypeInv
<1>2. /\ \A q \in Requests, b \in ActionIds : draft'[q][b] \in {"CLEAN", draft[q][b]}
      /\ \A q \in Requests \ {r} : draft'[q] = draft[q] /\ staged'[q] = staged[q]
      /\ staged'[r] = {}
  BY <1>1 DEF TypeOK, Finish, AllClean
<1>3. \A b \in ActionIds : View(r, b) # "ABSENT" => Exists(b)
  BY DEF View, Exists
<1>4. \A b \in ActionIds : Exists(b)' => Exists(b)
  BY <1>2, <1>3 DEF Exists
<1>5. \A b \in effects' : status'[b] # "ABSENT"
  BY <1>1 DEF KeyInv, Rooted, TypeOK
<1>6. ASSUME NEW q \in Requests, NEW b \in staged'[q]
      PROVE  View(q, b)' # "ABSENT"
  <2>1. q # r /\ b \in staged[q] /\ b \in ActionIds
    BY <1>1, <1>2, <1>6 DEF TypeOK
  <2> QED BY <1>2, <2>1 DEF KeyInv, Rooted, View
<1> QED BY <1>4, <1>5, <1>6, KeyQuiet DEF Rooted

LEMMA KeyCreate ==
  ASSUME KeyInv, ClaimInv', NEW r \in Requests, CreateAction(r)
  PROVE  KeyInv'
<1>1. CASE Branch(r, "raceKey")
  BY <1>1, KeySame DEF Branch, db, txn
<1>2. CASE Throw(r)
  BY <1>2, KeyFinish, ViewOfRow DEF Throw, db, KeyInv, ClaimInv, TypeInv
<1>3. CASE ~Collides(r) /\ Insert(r) /\ Goto(r, "reply")
             /\ UNCHANGED <<effects, leave, staged, req, env>>
  <2>1. TypeInv /\ TypeInv' /\ req[r] \in ReqType
    BY DEF KeyInv, ClaimInv, CreateAction, TypeInv, Located
  <2> DEFINE row == [user |-> req[r].user, op |-> req[r].op, key |-> req[r].key]
             s   == InitialStatus(Tool[req[r].op])
  <2>2. s \in Statuses /\ s # "ABSENT" /\ s # "CLEAN"
    BY InitialStatusType DEF Claimable, Statuses
  <2>3. PICK a \in ActionIds :
          /\ info[a] = NoInfo /\ SetStatus(r, a, s)
          /\ info' = [info EXCEPT ![a] = row]
    BY <1>3 DEF Insert
  <2>4. /\ info'[a].user = req[r].user /\ info'[a].op = req[r].op /\ info'[a].key = req[r].key
        /\ \A b \in ActionIds \ {a} : info'[b] = info[b]
    BY <2>1, <2>3 DEF TypeInv, TypeOK
  <2> HIDE DEF row, s
  <2>5. /\ \A b \in ActionIds :
             status'[b] = IF ~RequestTx /\ b = a THEN s ELSE status[b]
        /\ \A q \in Requests, b \in ActionIds :
             draft'[q][b] = IF RequestTx /\ q = r /\ b = a THEN s ELSE draft[q][b]
    BY <2>1, <2>2, <2>3, SetStatusEffect DEF TypeInv
  <2>6. ~Exists(a)
    BY <2>1, <2>3, ExistsTyped, ConstantsAssumption
  <2>7. \A b \in ActionIds \ {a} : Exists(b)' => Exists(b)
    BY <2>5 DEF Exists
  <2>8. ASSUME NEW b \in ActionIds \ {a}, Exists(b), req[r].key # NoKey,
               info[b].user = req[r].user, Tool[info[b].op] = Tool[req[r].op],
               info[b].key = req[r].key
        PROVE  FALSE
    <3>1. View(r, b) = "ABSENT"
      BY <1>3, <2>8 DEF Collides, KeyRows
    <3>2. draft[r][b] = "CLEAN" /\ status[b] = "ABSENT"
      BY <2>1, <3>1, ViewOfRow DEF TypeInv
    <3>3. PICK q \in Requests \ {r} : draft[q][b] # "CLEAN"
      BY <2>8, <3>2 DEF Exists
    <3> QED BY <2>8, <3>3 DEF CreateAction, InsertWaits
  <2>9. KeysOnce'
    <3> SUFFICES ASSUME NEW b \in ActionIds, NEW c \in ActionIds,
                        Exists(b)', Exists(c)', SameKey(b, c)'
                 PROVE  b = c
      BY DEF KeysOnce
    <3>1. CASE b = a /\ c # a
      BY <2>4, <2>7, <2>8, <3>1 DEF SameKey
    <3>2. CASE b # a /\ c = a
      BY <2>4, <2>7, <2>8, <3>2 DEF SameKey
    <3>3. CASE b # a /\ c # a
      BY <2>4, <2>7, <3>3 DEF SameKey, KeyInv, KeysOnce
    <3> QED BY <3>1, <3>2, <3>3
  <2>10. Rooted'
    <3>1. effects \in SUBSET ActionIds /\ \A q \in Requests : staged[q] \in SUBSET ActionIds
      BY <2>1 DEF TypeInv, TypeOK
    <3> QED BY <1>3, <2>2, <2>5, <3>1 DEF KeyInv, Rooted, View
  <2> QED BY <2>9, <2>10 DEF KeyInv
<1> QED BY <1>1, <1>2, <1>3 DEF CreateAction

(* The handler writes for a row that its request sees.                     *)
LEMMA KeyHandler ==
  ASSUME KeyInv, ClaimInv', NEW r \in Requests, HandlerWrites(r)
  PROVE  KeyInv'
<1>1. /\ pc[r] \in RunLabels /\ act[r] \in ActionIds
      /\ UNCHANGED <<status, info, draft>>
  BY DEF KeyInv, ClaimInv, TypeInv, Located, HandlerWrites, RunLabels, ActingLabels
<1>2. View(r, act[r]) # "ABSENT"
  BY <1>1 DEF KeyInv, ClaimInv, RunsClaimed
<1>3. \A a \in ActionIds : Exists(a)' => Exists(a)
  BY <1>1 DEF Exists
<1>4. CASE RequestTx
  <2>1. effects' = effects /\ staged' = [staged EXCEPT ![r] = @ \cup {act[r]}]
    BY <1>4 DEF HandlerWrites
  <2>2. \A q \in Requests : \A a \in staged'[q] : a \in staged[q] \/ (q = r /\ a = act[r])
    BY <2>1 DEF KeyInv, ClaimInv, TypeInv, TypeOK
  <2>3. Rooted'
    BY <1>1, <1>2, <2>1, <2>2 DEF KeyInv, Rooted, View
  <2> QED BY <1>1, <1>3, <2>3, KeyQuiet
<1>5. CASE ~RequestTx
  <2>1. staged' = staged /\ effects' = effects \cup {act[r]}
    BY <1>5 DEF HandlerWrites
  <2>2. status[act[r]] # "ABSENT"
    BY <1>1, <1>2, <1>5, AutocommitView DEF KeyInv, ClaimInv, TypeInv
  <2>3. Rooted'
    BY <1>1, <2>1, <2>2 DEF KeyInv, Rooted, View
  <2> QED BY <1>1, <1>3, <2>3, KeyQuiet
<1> QED BY <1>4, <1>5

LEMMA ActingExists ==
  ASSUME SeenInv, NEW r \in Requests, pc[r] \in ActingLabels
  PROVE  Exists(act[r])
BY DEF SeenInv, Seen, View, Exists

LEMMA KeyStep ==
  ASSUME SeenInv, KeyInv, ClaimInv', NEW r \in Requests,
         \/ Step(r) \/ StartPropose(r) \/ Abort(r)
         \/ \E u \in Users, a \in ActionIds : StartConfirm(r, u, a)
  PROVE  KeyInv'
<1>1. TypeInv
  BY DEF KeyInv, ClaimInv
<1>2. ASSUME NEW l, Branch(r, l) PROVE KeyInv'
  BY <1>2, KeySame DEF Branch, db, txn
<1>3. ASSUME NEW l, NEW a, NEW m, BranchWith(r, l, a, m) PROVE KeyInv'
  BY <1>3, KeySame DEF BranchWith, db, txn
<1>4. CASE Throw(r) \/ Abort(r)
  BY <1>1, <1>4, KeyFinish, ViewOfRow DEF Throw, Abort, db, TypeInv
<1>5. CASE Reply(r)
  <2>1. \A a \in ActionIds : status'[a] = View(r, a)
    BY <1>5 DEF Reply
  <2>2. \A a \in ActionIds : status[a] # "ABSENT" => View(r, a) # "ABSENT"
    BY <1>1, ViewOfRow DEF TypeInv
  <2>3. staged[r] \in SUBSET ActionIds
    BY <1>1 DEF TypeInv, TypeOK
  <2> QED BY <1>5, <2>1, <2>2, <2>3, KeyFinish DEF Reply, Written, KeyInv, Rooted
<1>6. CASE ExpireOnConfirm(r)
  <2>1. Exists(act[r])
    BY <1>6, ActingExists DEF ExpireOnConfirm, ActingLabels, ConfirmLabels
  <2>2. \A a \in ActionIds : /\ status'[a] # "ABSENT" => View(r, a) # "ABSENT"
                             /\ status[a] # "ABSENT" => status'[a] # "ABSENT"
    <3>1. CASE RequestTx
      BY <1>1, <1>6, <3>1, ViewOfRow DEF ExpireOnConfirm, TypeInv
    <3>2. CASE ~RequestTx
      <4>1. \A b \in ActionIds : View(r, b) = status[b]
        BY <1>1, <3>2, AutocommitView DEF TypeInv
      <4>2. View(r, act[r]) # "ABSENT" /\ status' = [status EXCEPT ![act[r]] = "EXPIRED"]
        BY <1>6, <3>2 DEF ExpireOnConfirm, SeenInv, Seen, ActingLabels, ConfirmLabels
      <4> QED BY <1>1, <4>1, <4>2 DEF TypeInv, TypeOK
    <3> QED BY <3>1, <3>2
  <2> QED BY <1>6, <2>2, KeyFinish DEF ExpireOnConfirm
<1>7. CASE Claim(r) \/ MarkSucceeded(r) \/ MarkFailed(r) \/ SettleApplied(r) \/ SettleMissed(r)
  <2>1. pc[r] \in ActingLabels
    BY <1>7 DEF Claim, MarkSucceeded, MarkFailed, SettleApplied, SettleMissed, ActingLabels,
       ConfirmLabels, RunLabels, SettleLabels
  <2>2. act[r] \in ActionIds /\ Exists(act[r])
    BY <1>1, <2>1, ActingExists DEF TypeInv, Located
  <2> QED BY <1>2, <1>4, <1>7, <2>2, KeyStatus
          DEF Claim, MarkSucceeded, MarkFailed, SettleApplied, SettleMissed, Statuses
<1>8. CASE LookupKey(r) \/ ResolveIdentity(r) \/ LookupOperation(r)
             \/ RaceOnKey(r) \/ RaceOnOperation(r)
  BY <1>2, <1>3, <1>4, <1>8
     DEF LookupKey, ResolveIdentity, LookupOperation, RaceOnKey, RaceOnOperation
<1>9. CASE \/ LoadAction(r) \/ CheckAction(r) \/ RecheckUser(r) \/ RereadAfterClaim(r)
           \/ HandlerRefuses(r) \/ HandlerIdles(r) \/ Verify(r) \/ Reconcile(r)
           \/ StartPropose(r) \/ \E u \in Users, a \in ActionIds : StartConfirm(r, u, a)
  BY <1>2, <1>4, <1>9, KeySame
     DEF LoadAction, CheckAction, RecheckUser, RereadAfterClaim, HandlerRefuses, HandlerIdles,
        Verify,
         Reconcile, StartPropose, StartConfirm, db, txn
<1> QED BY <1>4, <1>5, <1>6, <1>7, <1>8, <1>9, KeyCreate, KeyHandler
        DEF Step, ProposeStep, ConfirmStep, SettleStep

LEMMA KeyNext == SeenInv /\ KeyInv /\ [Next]_vars => KeyInv'
<1> SUFFICES ASSUME SeenInv, KeyInv, [Next]_vars PROVE KeyInv'
  OBVIOUS
<1>1. ClaimInv'
  BY ClaimNext DEF KeyInv
<1>2. ASSUME NEW r \in Requests,
             \/ Step(r) \/ StartPropose(r) \/ Abort(r)
             \/ \E u \in Users, a \in ActionIds : StartConfirm(r, u, a)
      PROVE  KeyInv'
  BY <1>1, <1>2, KeyStep
<1>3. CASE ExpireStaleActions
  <2>1. \A a \in ActionIds : status'[a] # "ABSENT" <=> status[a] # "ABSENT"
    BY <1>3 DEF ExpireStaleActions, Stale, Claimable
  <2>2. UNCHANGED <<info, effects, staged, draft>>
    BY <1>3 DEF ExpireStaleActions, txn
  <2>3. effects \in SUBSET ActionIds /\ \A q \in Requests : staged[q] \in SUBSET ActionIds
    BY DEF KeyInv, ClaimInv, TypeInv, TypeOK
  <2> QED BY <1>1, <2>1, <2>2, <2>3, KeyQuiet DEF KeyInv, Rooted, View, Exists
<1>4. CASE (Environment /\ ~ExpireStaleActions) \/ UNCHANGED vars
  BY <1>1, <1>4, KeySame
     DEF Environment, Elapse, Demote, Deactivate, HrRead, HrWrite, vars, db, txn
<1> QED BY <1>2, <1>3, <1>4 DEF Next, Rest

(* Within one user and tool, a mutation asked for with an Idempotency-Key  *)
(* is made at most once, however many requests carry the key: the look-ups *)
(* of proposeAction only choose the answer, the unique index decides.      *)
THEOREM KeyMadeOnceHolds == Spec => []KeyMadeOnce
<1>1. Init => SeenInv /\ KeyInv
  BY TypeInit, ClaimInit
     DEF Init, SeenInv, Seen, KeyInv, KeysOnce, Exists, Rooted, AllClean, ActingLabels,
         ConfirmLabels, RunLabels, SettleLabels
<1>2. SeenInv /\ KeyInv /\ [Next]_vars => (SeenInv /\ KeyInv)'
  BY SeenNext, KeyNext
<1>3. KeyInv => KeyMadeOnce
  BY DEF KeyInv, ClaimInv, TypeInv, TypeOK, KeysOnce, SameKey, Exists, Rooted, KeyMadeOnce
<1> QED BY <1>1, <1>2, <1>3, PTL DEF Spec

---------------------------------------------------------------------------
(***************************************************************************)
(* With one transaction per request, a logical mutation is made at most    *)
(* once.                                                                   *)
(***************************************************************************)
Same(a, b) == SameMutation(info[a].op, info[a].user, info[b].op, info[b].user)

Single(a) == ~SeveralItems(Tool[info[a].op])

Idle(a) == MayDoNothing(Tool[info[a].op])

(* The index holds the row, for everybody or for its transaction.          *)
Live(a) == status[a] \in Indexed \/ \E r \in Requests : draft[r][a] \in Indexed

(* The committed rows: none is being run, as a claim is committed with its *)
(* outcome; the index holds one for a mutation; only new or open ones are  *)
(* changed; what was made is reported so.                                  *)
Committed ==
  /\ \A a \in ActionIds : status[a] # "EXECUTING"
  /\ \A a, b \in ActionIds : Live(a) /\ Live(b) /\ Same(a, b) => a = b
  /\ \A r \in Requests, a \in ActionIds :
       draft[r][a] # "CLEAN" => status[a] \in Claimable \cup {"ABSENT"}
  /\ \A a \in effects : Single(a) => status[a] = "SUCCEEDED"

(* What a request has in its transaction at each statement.                *)
Transaction(r) ==
  /\ pc[r] # "idle" => req[r].seen # "EXECUTING"
  /\ pc[r] \notin {"reconcile", "applied", "missed"}
  /\ pc[r] \notin RunLabels \cup {"reply"} =>
       /\ \A a \in ActionIds : draft[r][a] = "CLEAN"
       /\ staged[r] = {}
  /\ pc[r] \in RunLabels =>
       /\ draft[r][act[r]] = "EXECUTING"
       /\ \A a \in ActionIds \ {act[r]} : draft[r][a] = "CLEAN"
  /\ pc[r] = "execute" => staged[r] = {}
  /\ pc[r] = "verify" => staged[r] = {act[r]}
  /\ pc[r] = "succeed" => staged[r] = {act[r]} \/ (staged[r] = {} /\ Idle(act[r]))
  /\ pc[r] = "fail" => \A a \in staged[r] : ~Single(a)
  /\ pc[r] = "reply" =>
       /\ \A a \in ActionIds : draft[r][a] # "EXECUTING"
       /\ \A a \in staged[r] : Single(a) => draft[r][a] = "SUCCEEDED"

MutationInv == SeenInv /\ KeyInv /\ Committed /\ \A r \in Requests : Transaction(r)

LEMMA MutationTyped ==
  ASSUME MutationInv
  PROVE  /\ TypeInv /\ TypeOK /\ ClaimInv
         /\ \A r \in Requests : staged[r] \in SUBSET ActionIds
         /\ effects \in SUBSET ActionIds
         /\ \A r \in Requests : \A a \in staged[r] : info[a] \in InfoType
         /\ \A a \in effects : info[a] \in InfoType
         /\ \A a \in ActionIds : Live(a) => info[a] \in InfoType
<1>1. TypeInv /\ TypeOK /\ ClaimInv
  BY DEF MutationInv, KeyInv, ClaimInv, TypeInv
<1>2. effects \in SUBSET ActionIds /\ \A r \in Requests : staged[r] \in SUBSET ActionIds
  BY <1>1 DEF TypeOK
<1>3. \A r \in Requests : \A a \in staged[r] : info[a] \in InfoType
  BY <1>1, <1>2, KeyRowsExist DEF MutationInv, KeyInv, Rooted
<1>4. \A a \in effects : info[a] \in InfoType
  BY <1>1, <1>2 DEF MutationInv, KeyInv, Rooted, TypeInv, Backed
<1>5. \A a \in ActionIds : Live(a) => info[a] \in InfoType
  BY <1>1 DEF Live, TypeInv, Backed, Indexed
<1> QED BY <1>1, <1>2, <1>3, <1>4, <1>5

(* A step that commits nothing and at most drops what was not committed.   *)
LEMMA CommittedKept ==
  ASSUME MutationInv, UNCHANGED <<status, effects, info>>,
         \A q \in Requests, a \in ActionIds : draft'[q][a] \in {"CLEAN", draft[q][a]}
  PROVE  Committed'
<1>1. \A a \in ActionIds : Live(a)' => Live(a)
  BY DEF Live, Indexed
<1> QED BY <1>1 DEF MutationInv, Committed, Same, Single

LEMMA OtherTransactions ==
  ASSUME MutationInv, NEW r \in Requests, Alone(r), NEW q \in Requests \ {r}
  PROVE  Transaction(q)'
<1>1. \A a \in staged[q] : info'[a] = info[a]
  BY MutationTyped DEF Alone
<1>2. /\ pc'[q] = pc[q] /\ req'[q] = req[q] /\ act'[q] = act[q]
      /\ draft'[q] = draft[q] /\ staged'[q] = staged[q]
  BY DEF Alone
<1>3. Transaction(q)
  BY DEF MutationInv
<1>4. pc[q] \in RunLabels => info'[act[q]] = info[act[q]]
  BY MutationTyped DEF Alone, TypeInv, Located, ActingLabels
<1> QED BY <1>1, <1>2, <1>3, <1>4 DEF Transaction, Single, Idle, RunLabels

(* A step that ends the request, or moves it on without a write.           *)
LEMMA MutationEnd ==
  ASSUME MutationInv, NEW r \in Requests, Finish(r), UNCHANGED <<status, effects, info>>
  PROVE  Committed' /\ Transaction(r)'
<1>1. /\ \A q \in Requests, a \in ActionIds : draft'[q][a] \in {"CLEAN", draft[q][a]}
      /\ \A a \in ActionIds : draft'[r][a] = "CLEAN"
      /\ staged'[r] = {} /\ pc'[r] = "idle"
  BY MutationTyped DEF TypeOK, Finish, Goto, AllClean
<1> QED BY <1>1, CommittedKept DEF Transaction, RunLabels

LEMMA MutationMove ==
  ASSUME MutationInv, NEW r \in Requests, NEW l, Goto(r, l), UNCHANGED <<db, txn>>,
         req'[r].seen # "EXECUTING" \/ req'[r] = req[r],
         pc[r] # "idle" \/ req'[r].seen # "EXECUTING",
         pc[r] \notin RunLabels \cup {"reply"},
         l \notin RunLabels \cup {"reconcile", "applied", "missed"}
  PROVE  Committed' /\ Transaction(r)'
<1>1. Committed'
  BY CommittedKept DEF db, txn
<1>2. pc'[r] = l /\ Transaction(r) /\ UNCHANGED <<draft, staged, info>>
  BY MutationTyped DEF TypeOK, Goto, MutationInv, db, txn
<1> QED BY <1>1, <1>2 DEF Transaction, RunLabels

(* The steps that only read: nobody sees an action being run, so there is  *)
(* nothing to reconcile.                                                   *)
LEMMA SeesNoRun ==
  ASSUME MutationInv, NEW r \in Requests, NEW a \in ActionIds,
         pc[r] \notin RunLabels \cup {"reply"}
  PROVE  View(r, a) # "EXECUTING"
BY DEF MutationInv, Committed, Transaction, View

LEMMA MutationReads ==
  ASSUME MutationInv, RequestTx, NEW r \in Requests,
         \/ LookupKey(r) \/ ResolveIdentity(r) \/ LookupOperation(r)
         \/ RaceOnKey(r) \/ RaceOnOperation(r)
         \/ LoadAction(r) \/ CheckAction(r) \/ RecheckUser(r) \/ RereadAfterClaim(r)
         \/ StartPropose(r) \/ \E u \in Users, a \in ActionIds : StartConfirm(r, u, a)
  PROVE  Committed' /\ Transaction(r)'
<1> USE DEF RunLabels, db, txn, loc
<1>1. CASE Throw(r)
  BY <1>1, MutationEnd DEF Throw
<1>2. ASSUME NEW l, Branch(r, l), pc[r] \notin RunLabels \cup {"reply", "idle"},
             l \notin RunLabels \cup {"reconcile", "applied", "missed"}
      PROVE  Committed' /\ Transaction(r)'
  BY <1>2, MutationMove DEF Branch
<1>3. ASSUME NEW a, NEW m, BranchWith(r, "reply", a, m),
             pc[r] \notin RunLabels \cup {"reply", "idle"}
      PROVE  Committed' /\ Transaction(r)'
  <2>1. req[r] \in ReqType
    BY <1>3, MutationTyped DEF TypeInv, Located
  <2>2. req'[r].seen = req[r].seen
    BY <1>3, <2>1, MutationTyped DEF BranchWith, TypeOK, ReqType
  <2>3. req[r].seen # "EXECUTING"
    BY <1>3 DEF MutationInv, Transaction
  <2> QED BY <1>3, <2>2, <2>3, MutationMove DEF BranchWith
<1>4. CASE LookupKey(r)
  BY <1>1, <1>2, <1>3, <1>4, SeesNoRun DEF LookupKey, KeyRows
<1>5. CASE ResolveIdentity(r) \/ RaceOnKey(r) \/ RaceOnOperation(r)
  BY <1>1, <1>2, <1>3, <1>5 DEF ResolveIdentity, RaceOnKey, RaceOnOperation
<1>6. CASE LookupOperation(r)
  BY <1>1, <1>2, <1>3, <1>6, SeesNoRun DEF LookupOperation
<1>7. CASE LoadAction(r)
  <2>1. CASE /\ Goto(r, "check") /\ req' = [req EXCEPT ![r].seen = View(r, act[r])]
             /\ UNCHANGED <<db, txn, act, env>>
    <3>1. req[r] \in ReqType /\ act[r] \in ActionIds
      BY <1>7, MutationTyped
         DEF LoadAction, TypeInv, Located, ActingLabels, ConfirmLabels
    <3>2. req'[r].seen = View(r, act[r])
      BY <2>1, <3>1, MutationTyped DEF TypeOK, ReqType
    <3>3. View(r, act[r]) # "EXECUTING"
      BY <1>7, <3>1, SeesNoRun DEF LoadAction
    <3> QED BY <1>7, <2>1, <3>2, <3>3, MutationMove DEF LoadAction
  <2> QED BY <1>1, <1>7, <2>1 DEF LoadAction
<1>8. CASE CheckAction(r)
  BY <1>1, <1>2, <1>8 DEF CheckAction
<1>9. CASE RecheckUser(r)
  <2>1. req[r] \in ReqType /\ req[r].seen # "EXECUTING"
    BY <1>9, MutationTyped DEF RecheckUser, TypeInv, Located, MutationInv, Transaction
  <2>2. CASE /\ Goto(r, "claim")
             /\ req' = [req EXCEPT ![r].inTime = act[r] \notin elapsed]
             /\ UNCHANGED <<db, txn, act, env>>
    <3>1. req'[r].seen = req[r].seen
      <4> DEFINE b == act[r] \notin elapsed
      <4>1. req' = [req EXCEPT ![r].inTime = b]
        BY <2>2
      <4> HIDE DEF b
      <4> QED BY <2>1, <4>1, MutationTyped DEF TypeOK, ReqType
    <3> QED BY <1>9, <2>1, <2>2, <3>1, MutationMove DEF RecheckUser
  <2> QED BY <1>1, <1>9, <2>1, <2>2 DEF RecheckUser
<1>10. CASE RereadAfterClaim(r)
  <2>1. act[r] \in ActionIds
    BY <1>10, MutationTyped DEF RereadAfterClaim, TypeInv, Located, ActingLabels, ConfirmLabels
  <2> QED BY <1>1, <1>2, <1>10, <2>1, SeesNoRun DEF RereadAfterClaim
<1>11. CASE StartPropose(r)
  <2>1. req'[r].seen = "ABSENT" /\ \E l \in {"resolve", "byKey"} : Goto(r, l)
    BY <1>11, MutationTyped DEF StartPropose, TypeOK
  <2> QED BY <1>11, <2>1, MutationMove DEF StartPropose
<1>12. CASE \E u \in Users, a \in ActionIds : StartConfirm(r, u, a)
  <2>1. req'[r].seen = "ABSENT" /\ Goto(r, "load") /\ UNCHANGED <<db, txn>> /\ pc[r] = "idle"
    BY <1>12, MutationTyped DEF StartConfirm, TypeOK
  <2> QED BY <2>1, MutationMove
<1> QED BY <1>4, <1>5, <1>6, <1>7, <1>8, <1>9, <1>10, <1>11, <1>12

(* The handler and its verification: of a mutation with one item, what the *)
(* handler has written it finds again.                                     *)
LEMMA MutationRuns ==
  ASSUME MutationInv, RequestTx, NEW r \in Requests,
         HandlerWrites(r) \/ HandlerRefuses(r) \/ HandlerIdles(r) \/ Verify(r)
  PROVE  Committed' /\ Transaction(r)'
<1> USE DEF RunLabels, db, txn, loc
<1>1. Committed'
  BY CommittedKept
     DEF HandlerWrites, HandlerRefuses, HandlerIdles, Verify, Branch
<1>2. /\ Transaction(r) /\ UNCHANGED <<draft, req, act, info>>
      /\ pc[r] \in RunLabels
  BY DEF MutationInv, HandlerWrites, HandlerRefuses, HandlerIdles, Verify, Branch
<1>3. CASE HandlerWrites(r)
  <2>1. pc[r] = "execute" /\ pc'[r] = "verify" /\ staged'[r] = staged[r] \cup {act[r]}
    BY <1>3, MutationTyped DEF HandlerWrites, Goto, TypeOK
  <2> QED BY <1>1, <1>2, <2>1 DEF Transaction
<1>4. CASE HandlerRefuses(r)
  <2>1. pc[r] = "execute" /\ pc'[r] = "fail" /\ staged' = staged
    BY <1>4, MutationTyped DEF HandlerRefuses, Branch, Goto, TypeOK
  <2> QED BY <1>1, <1>2, <2>1 DEF Transaction
<1>6. CASE HandlerIdles(r)
  <2>1. pc[r] = "execute" /\ pc'[r] = "succeed" /\ staged' = staged /\ Idle(act[r])
    BY <1>6, MutationTyped DEF HandlerIdles, Branch, Goto, TypeOK, Idle
  <2> QED BY <1>1, <1>2, <2>1 DEF Transaction, Idle
<1>5. CASE Verify(r)
  <2>1. staged[r] = {act[r]} /\ pc[r] = "verify" /\ staged' = staged
    BY <1>2, <1>5 DEF Verify, Transaction, Branch
  <2>2. IsLeave(info[act[r]].op) => LeaveView(r, info[act[r]].op) = "APPROVED_BY_AGENT"
    BY <2>1 DEF LeaveView
  <2>3. pc'[r] = "succeed" \/ (pc'[r] = "fail" /\ ~Single(act[r]))
    BY <1>5, <2>2, MutationTyped DEF Verify, Branch, Goto, TypeOK, Single
  <2> QED BY <1>1, <1>2, <2>1, <2>3 DEF Transaction, Single
<1> QED BY <1>3, <1>4, <1>5, <1>6

(* The row at hand gets another status, and stays where the index has it   *)
(* or leaves the index.                                                    *)
LEMMA MutationStatus ==
  ASSUME MutationInv, RequestTx, NEW r \in Requests, NEW s \in Statuses,
         act[r] \in ActionIds, SetStatus(r, act[r], s),
         UNCHANGED <<info, effects, staged>>,
         s \in Indexed => Live(act[r]),
         status[act[r]] \in Claimable \cup {"ABSENT"}
  PROVE  /\ Committed'
         /\ draft'[r][act[r]] = s
         /\ \A a \in ActionIds \ {act[r]} : draft'[r][a] = draft[r][a]
<1> DEFINE a == act[r]
<1>1. /\ status' = status
      /\ \A q \in Requests, b \in ActionIds :
           draft'[q][b] = IF q = r /\ b = a THEN s ELSE draft[q][b]
  BY MutationTyped, SetStatusEffect
<1> HIDE DEF a
<1>2. \A b \in ActionIds : Live(b)' => Live(b)
  BY <1>1 DEF Live, a
<1>3. Committed'
  BY <1>1, <1>2 DEF MutationInv, Committed, Same, Single, a
<1> QED BY <1>1, <1>3 DEF a

LEMMA MutationWrites ==
  ASSUME MutationInv, RequestTx, NEW r \in Requests,
         Claim(r) \/ MarkSucceeded(r) \/ MarkFailed(r)
  PROVE  Committed' /\ Transaction(r)'
<1> USE DEF RunLabels, loc
<1>1. /\ Transaction(r) /\ act[r] \in ActionIds /\ pc[r] \in {"claim", "succeed", "fail"}
      /\ UNCHANGED <<info, req, act, staged>>
  BY MutationTyped DEF MutationInv, Claim, MarkSucceeded, MarkFailed, Branch, db, txn,
     TypeInv, Located, ActingLabels, ConfirmLabels
<1>2. CASE Claim(r)
  <2>1. CASE MayClaim(r) /\ SetStatus(r, act[r], "EXECUTING") /\ Goto(r, "execute")
    <3>1. draft[r][act[r]] = "CLEAN" /\ staged[r] = {} /\ pc'[r] = "execute"
          /\ \A a \in ActionIds : draft[r][a] = "CLEAN"
      BY <1>1, <1>2, <2>1, MutationTyped DEF Claim, Transaction, Goto, TypeOK
    <3>2. status[act[r]] \in Claimable
      BY <2>1, <3>1 DEF MayClaim, View
    <3>3. Live(act[r]) /\ "EXECUTING" \in Statuses
      BY <3>2 DEF Live, Claimable, Indexed, Statuses
    <3>4. UNCHANGED <<info, effects, staged>>
      BY <1>1, <1>2 DEF Claim, Branch, db
    <3> QED BY <1>1, <2>1, <3>1, <3>2, <3>3, <3>4, MutationStatus DEF Transaction
  <2>2. CASE Branch(r, "reread")
    BY <1>2, <2>2, MutationMove DEF Branch, Claim
  <2> QED BY <1>2, <2>1, <2>2 DEF Claim
<1>3. ASSUME pc[r] \in {"succeed", "fail"}
      PROVE  /\ draft[r][act[r]] = "EXECUTING"
             /\ \A a \in ActionIds \ {act[r]} : draft[r][a] = "CLEAN"
             /\ Live(act[r]) /\ status[act[r]] \in Claimable \cup {"ABSENT"}
  <2>1. /\ draft[r][act[r]] = "EXECUTING"
        /\ \A a \in ActionIds \ {act[r]} : draft[r][a] = "CLEAN"
    BY <1>1, <1>3 DEF Transaction
  <2> QED BY <1>1, <2>1 DEF Live, Indexed, MutationInv, Committed
<1>4. CASE MarkFailed(r)
  <2>1. pc[r] = "fail" /\ pc'[r] = "reply" /\ SetStatus(r, act[r], "FAILED")
        /\ UNCHANGED <<info, effects, staged>>
    BY <1>4, MutationTyped DEF MarkFailed, Goto, TypeOK
  <2>2. "FAILED" \in Statuses \ Indexed
    BY DEF Statuses, Indexed
  <2> QED BY <1>1, <1>3, <2>1, <2>2, MutationStatus DEF Transaction, Single
<1>5. CASE MarkSucceeded(r)
  <2>1. pc[r] = "succeed" /\ staged[r] \subseteq {act[r]}
    BY <1>1, <1>5 DEF MarkSucceeded, Transaction
  <2>2. IndexAllows(r, act[r], "SUCCEEDED")
    <3>1. \A b \in ActionIds : View(r, b) \in Indexed => Live(b)
      BY DEF View, Live
    <3> QED BY <1>1, <1>3, <2>1, <3>1 DEF IndexAllows, MutationInv, Committed, Same
  <2>3. pc'[r] = "reply" /\ SetStatus(r, act[r], "SUCCEEDED")
        /\ UNCHANGED <<info, effects, staged>>
    BY <1>5, <2>2, MutationTyped DEF MarkSucceeded, Goto, TypeOK
  <2>4. "SUCCEEDED" \in Statuses
    BY DEF Statuses
  <2> QED BY <1>1, <1>3, <2>1, <2>3, <2>4, MutationStatus DEF Transaction
<1> QED BY <1>2, <1>4, <1>5

(* The index and its waiting: a new row has no live rival.                 *)
LEMMA MutationCreate ==
  ASSUME MutationInv, RequestTx, NEW r \in Requests, CreateAction(r)
  PROVE  Committed' /\ Transaction(r)'
<1> USE DEF RunLabels
<1>1. CASE Throw(r)
  BY <1>1, MutationEnd DEF Throw, db
<1>2. CASE ~Collides(r) /\ Insert(r) /\ Goto(r, "reply")
             /\ UNCHANGED <<effects, leave, staged, req, env>>
  <2>1. TypeInv /\ TypeOK /\ req[r] \in ReqType /\ pc[r] = "create"
    BY MutationTyped DEF CreateAction, TypeInv, Located
  <2>2. /\ \A b \in ActionIds : draft[r][b] = "CLEAN"
        /\ staged[r] = {} /\ req[r].seen # "EXECUTING" /\ pc'[r] = "reply"
        /\ staged' = staged /\ req' = req
    BY <1>2, <2>1 DEF MutationInv, Transaction, TypeOK, Goto
  <2> DEFINE row == [user |-> req[r].user, op |-> req[r].op, key |-> req[r].key]
             s   == InitialStatus(Tool[req[r].op])
  <2>3. s \in Statuses /\ s \in Claimable
    BY InitialStatusType DEF Claimable, Statuses
  <2>4. PICK a \in ActionIds :
          /\ info[a] = NoInfo /\ SetStatus(r, a, s)
          /\ info' = [info EXCEPT ![a] = row]
    BY <1>2 DEF Insert
  <2>5. /\ info'[a].user = req[r].user /\ info'[a].op = req[r].op
        /\ \A b \in ActionIds \ {a} : info'[b] = info[b]
    BY <2>1, <2>4 DEF TypeOK
  <2> HIDE DEF row, s
  <2>6. /\ status' = status
        /\ \A q \in Requests, b \in ActionIds :
             draft'[q][b] = IF q = r /\ b = a THEN s ELSE draft[q][b]
    BY <2>1, <2>3, <2>4, SetStatusEffect
  <2>7. ~Live(a) /\ status[a] = "ABSENT" /\ a \notin effects
    BY <2>1, <2>4, MutationTyped, ConstantsAssumption DEF TypeInv, Backed
  <2>8. \A b \in ActionIds \ {a} : Live(b)' => Live(b)
    BY <2>6 DEF Live
  <2>9. ASSUME NEW b \in ActionIds \ {a}, Live(b),
               SameMutation(info[b].op, info[b].user, req[r].op, req[r].user)
        PROVE  FALSE
    <3>1. CASE status[b] \in Indexed
      <4>1. View(r, b) = status[b] /\ View(r, b) # "ABSENT"
        BY <2>2, <3>1 DEF View, Indexed
      <4> QED BY <1>2, <2>9, <3>1, <4>1 DEF Collides, Rivals
    <3>2. CASE status[b] \notin Indexed
      <4>1. PICK q \in Requests : draft[q][b] \in Indexed
        BY <2>9, <3>2 DEF Live
      <4>2. q # r /\ draft[q][b] # "CLEAN"
        BY <2>2, <4>1 DEF Indexed
      <4> QED BY <2>9, <4>2 DEF CreateAction, InsertWaits
    <3> QED BY <3>1, <3>2
  <2>10. ASSUME NEW b \in ActionIds, NEW c \in ActionIds, Live(b)', Live(c)', Same(b, c)'
         PROVE  b = c
    <3>1. CASE b = a /\ c # a
      <4>1. SameMutation(req[r].op, req[r].user, info[c].op, info[c].user)
        BY <2>5, <2>10, <3>1 DEF Same
      <4>2. SameMutation(info[c].op, info[c].user, req[r].op, req[r].user)
        BY <4>1 DEF SameMutation
      <4> QED BY <2>8, <2>9, <2>10, <3>1, <4>2
    <3>2. CASE b # a /\ c = a
      BY <2>5, <2>8, <2>9, <2>10, <3>2 DEF Same
    <3>3. CASE b # a /\ c # a
      BY <2>5, <2>8, <2>10, <3>3 DEF Same, MutationInv, Committed
    <3> QED BY <3>1, <3>2, <3>3
  <2>11. \A b \in effects : info'[b] = info[b]
    BY <2>5, <2>7, MutationTyped
  <2>12. Committed'
    BY <1>2, <2>3, <2>6, <2>7, <2>10, <2>11 DEF MutationInv, Committed, Single
  <2>13. Transaction(r)'
    BY <2>2, <2>3, <2>6 DEF Transaction, Claimable
  <2> QED BY <2>12, <2>13
<1> QED BY <1>1, <1>2 DEF CreateAction

(* The commit: of rows that were new or open, by the one who changed them. *)
LEMMA MutationReply ==
  ASSUME MutationInv, RequestTx, NEW r \in Requests, Reply(r)
  PROVE  Committed' /\ Transaction(r)'
<1>1. /\ \A a \in ActionIds : status'[a] = View(r, a)
      /\ effects' = effects \cup staged[r] /\ info' = info
      /\ pc[r] = "reply" /\ Transaction(r) /\ Committed
  BY DEF Reply, Written, MutationInv
<1>2. /\ \A q \in Requests, a \in ActionIds :
           draft'[q][a] = IF q = r THEN "CLEAN" ELSE draft[q][a]
      /\ staged'[r] = {} /\ pc'[r] = "idle"
  BY MutationTyped DEF Reply, Finish, Goto, TypeOK, AllClean
<1>3. Transaction(r)'
  BY <1>2 DEF Transaction, RunLabels
<1>4. \A a \in ActionIds : status'[a] # "EXECUTING"
  BY <1>1 DEF Transaction, Committed, View
<1>5. \A a \in ActionIds : Live(a)' => Live(a)
  BY <1>1, <1>2 DEF Live, View, Indexed
<1>6. \A q \in Requests, a \in ActionIds :
        draft'[q][a] # "CLEAN" => status'[a] \in Claimable \cup {"ABSENT"}
  BY <1>1, <1>2, MutationTyped DEF ClaimInv, OneWriter, Committed, View
<1>7. ASSUME NEW a \in effects', Single(a)
      PROVE  status'[a] = "SUCCEEDED"
  <2>1. CASE a \in staged[r]
    BY <1>1, <1>7, <2>1, MutationTyped DEF Transaction, View
  <2>2. CASE a \in effects
    <3>1. status[a] = "SUCCEEDED" /\ a \in ActionIds
      BY <1>1, <1>7, <2>2, MutationTyped DEF Committed
    <3>2. draft[r][a] = "CLEAN"
      BY <1>1, <3>1 DEF Committed, Claimable
    <3> QED BY <1>1, <3>1, <3>2 DEF View
  <2> QED BY <1>1, <1>7, <2>1, <2>2
<1>8. Committed'
  BY <1>1, <1>4, <1>5, <1>6, <1>7 DEF Committed, Same, Single
<1> QED BY <1>3, <1>8

LEMMA MutationStep ==
  ASSUME MutationInv, RequestTx, NEW r \in Requests,
         \/ Step(r) \/ StartPropose(r) \/ Abort(r)
         \/ \E u \in Users, a \in ActionIds : StartConfirm(r, u, a)
  PROVE  Committed' /\ Transaction(r)'
<1>1. CASE ExpireOnConfirm(r) \/ Abort(r)
  BY <1>1, MutationEnd DEF ExpireOnConfirm, Abort, db
<1>2. ~(Reconcile(r) \/ SettleApplied(r) \/ SettleMissed(r))
  BY DEF MutationInv, Transaction, Reconcile, SettleApplied, SettleMissed
<1> QED
  BY <1>1, <1>2, MutationReads, MutationRuns, MutationWrites, MutationCreate, MutationReply
     DEF Step, ProposeStep, ConfirmStep, SettleStep

LEMMA MutationNext ==
  ASSUME RequestTx
  PROVE  MutationInv /\ [Next]_vars => MutationInv'
<1> SUFFICES ASSUME MutationInv, [Next]_vars PROVE MutationInv'
  OBVIOUS
<1>1. SeenInv' /\ KeyInv'
  BY SeenNext, KeyNext DEF MutationInv
<1>2. ASSUME NEW r \in Requests,
             \/ Step(r) \/ StartPropose(r) \/ Abort(r)
             \/ \E u \in Users, a \in ActionIds : StartConfirm(r, u, a)
      PROVE  MutationInv'
  <2>1. Alone(r)
    BY <1>2, MutationTyped, StepAlone
  <2> QED BY <1>1, <1>2, <2>1, OtherTransactions, MutationStep DEF MutationInv
<1>3. ASSUME UNCHANGED <<draft, staged, pc, req, act, info, effects>>
      PROVE  \A r \in Requests : Transaction(r)'
  BY <1>3 DEF MutationInv, Transaction, Single, Idle
<1>4. CASE ExpireStaleActions
  <2>1. UNCHANGED <<draft, staged, pc, req, act, info, effects>>
    BY <1>4 DEF ExpireStaleActions, txn, loc
  <2>2. \A a \in ActionIds :
          \/ status'[a] = status[a]
          \/ status'[a] = "EXPIRED" /\ status[a] \in Claimable
             /\ \A r \in Requests : draft[r][a] = "CLEAN"
    BY <1>4 DEF ExpireStaleActions, Stale
  <2>3. \A a \in ActionIds : Live(a)' => Live(a)
    BY <2>1, <2>2 DEF Live, Indexed
  <2>4. \A a \in ActionIds : status'[a] # "EXECUTING"
    BY <2>2 DEF MutationInv, Committed
  <2>5. \A a \in effects : Single(a) => status'[a] = "SUCCEEDED"
    BY <2>2, MutationTyped DEF MutationInv, Committed, Claimable
  <2>6. \A r \in Requests, a \in ActionIds :
          draft[r][a] # "CLEAN" => status'[a] \in Claimable \cup {"ABSENT"}
    BY <2>2 DEF MutationInv, Committed
  <2>7. Committed'
    BY <2>1, <2>3, <2>4, <2>5, <2>6 DEF MutationInv, Committed, Same, Single
  <2> QED BY <1>1, <1>3, <2>1, <2>7 DEF MutationInv
<1>5. CASE (Environment /\ ~ExpireStaleActions) \/ UNCHANGED vars
  <2>1. UNCHANGED <<status, draft, staged, pc, req, act, info, effects>>
    BY <1>5 DEF Environment, Elapse, Demote, Deactivate, HrRead, HrWrite, vars, db, txn, loc
  <2> QED BY <1>1, <1>3, <2>1, CommittedKept DEF MutationInv
<1> QED BY <1>2, <1>4, <1>5 DEF Next, Rest

LEMMA MutationInit == Init => MutationInv
<1> SUFFICES ASSUME Init PROVE MutationInv
  OBVIOUS
<1>1. SeenInv /\ KeyInv
  BY TypeInit, ClaimInit
     DEF Init, SeenInv, Seen, KeyInv, KeysOnce, Exists, Rooted, AllClean, ActingLabels,
         ConfirmLabels, RunLabels, SettleLabels
<1>2. Committed /\ \A r \in Requests : Transaction(r)
  BY DEF Init, Committed, Live, Indexed, AllClean, Transaction, RunLabels
<1> QED BY <1>1, <1>2 DEF MutationInv

(* With one transaction per request, a logical mutation is made at most    *)
(* once, by whichever of its proposals and confirmations, with any number  *)
(* of them at once and any number of failures.  With one transaction per   *)
(* statement it is not: what a handler wrote stays when it is then found   *)
(* to have failed.                                                         *)
THEOREM AppliedOnceHolds == ASSUME RequestTx PROVE Spec => []AppliedOnce
<1>1. Init => MutationInv
  BY MutationInit
<1>2. MutationInv /\ [Next]_vars => MutationInv'
  BY MutationNext
<1>3. MutationInv => AppliedOnce
  <2> SUFFICES ASSUME MutationInv, NEW a \in effects, NEW b \in effects, Single(a), Same(a, b)
               PROVE  a = b
    BY DEF AppliedOnce, Same, Single
  <2>1. Single(b)
    BY DEF Same, SameMutation, Single
  <2>2. a \in ActionIds /\ b \in ActionIds
    BY MutationTyped
  <2>3. Live(a) /\ Live(b)
    BY <2>1 DEF MutationInv, Committed, Live, Indexed
  <2> QED BY <2>2, <2>3 DEF MutationInv, Committed
<1> QED BY <1>1, <1>2, <1>3, PTL DEF Spec

---------------------------------------------------------------------------
(***************************************************************************)
(* With one transaction per request the control plane implements the       *)
(* lifecycle: each commit is one step of it.                               *)
(***************************************************************************)
(* What a transaction will commit: nothing, a new row, or the outcome of a *)
(* row that was open.                                                      *)
Outcome(r) ==
  /\ pc[r] \in RunLabels =>
       status[act[r]] \in Claimable /\ staged[r] \subseteq {act[r]}
  /\ pc[r] = "reply" =>
       /\ \A a \in ActionIds \ {act[r]} : draft[r][a] = "CLEAN"
       /\ \/ draft[r][act[r]] = "CLEAN" /\ staged[r] = {}
          \/ /\ draft[r][act[r]] \in Claimable /\ status[act[r]] = "ABSENT"
             /\ staged[r] = {}
          \/ /\ draft[r][act[r]] = "SUCCEEDED" /\ status[act[r]] \in Claimable
             /\ staged[r] = {act[r]} \/ (staged[r] = {} /\ Idle(act[r]))
          \/ /\ draft[r][act[r]] = "FAILED" /\ status[act[r]] \in Claimable
             /\ staged[r] \subseteq {act[r]}

(* The statuses that are reached.                                          *)
Reached == {"ABSENT", "SUCCEEDED", "FAILED", "EXPIRED"} \cup Claimable

LifeInv ==
  /\ MutationInv
  /\ \A a \in ActionIds : status[a] \in Reached
  /\ \A r \in Requests : Outcome(r)

(* Only a commit and the sweep change committed rows.                      *)
LEMMA StatusCommits ==
  ASSUME MutationInv, RequestTx, NEW r \in Requests,
         \/ Step(r) \/ StartPropose(r) \/ Abort(r)
         \/ \E u \in Users, a \in ActionIds : StartConfirm(r, u, a)
  PROVE  Reply(r) \/ UNCHANGED <<status, effects>>
<1> USE DEF db
<1>1. ASSUME NEW a, NEW s, SetStatus(r, a, s) PROVE status' = status
  BY <1>1 DEF SetStatus
<1>2. CASE ProposeStep(r)
  BY <1>1, <1>2 DEF ProposeStep, LookupKey, ResolveIdentity, LookupOperation, CreateAction,
     RaceOnKey, RaceOnOperation, Insert, Branch, BranchWith, Throw
<1>3. CASE ConfirmStep(r)
  BY <1>1, <1>3 DEF ConfirmStep, LoadAction, CheckAction, ExpireOnConfirm, RecheckUser, Claim,
     RereadAfterClaim, HandlerWrites, HandlerRefuses, HandlerIdles, Verify, MarkSucceeded,
        MarkFailed,
     Branch, Throw
<1>4. CASE SettleStep(r)
  BY <1>1, <1>4 DEF SettleStep, Reconcile, SettleApplied, SettleMissed, Branch, Throw
<1>5. CASE StartPropose(r) \/ Abort(r)
             \/ \E u \in Users, a \in ActionIds : StartConfirm(r, u, a)
  BY <1>5 DEF StartPropose, Abort, StartConfirm
<1> QED BY <1>2, <1>3, <1>4, <1>5 DEF Step

(* A row with an uncommitted change is committed by nobody else.           *)
LEMMA StatusHeld ==
  ASSUME MutationInv, RequestTx, NEW r \in Requests, NEW q \in Requests \ {r},
         \/ Step(r) \/ StartPropose(r) \/ Abort(r)
         \/ \E u \in Users, a \in ActionIds : StartConfirm(r, u, a),
         NEW a \in ActionIds, draft[q][a] # "CLEAN"
  PROVE  status'[a] = status[a]
<1>1. draft[r][a] = "CLEAN"
  BY MutationTyped DEF ClaimInv, OneWriter
<1>2. CASE Reply(r)
  BY <1>1, <1>2 DEF Reply, View
<1> QED BY <1>2, StatusCommits

LEMMA OtherOutcomes ==
  ASSUME LifeInv, RequestTx, NEW r \in Requests, NEW q \in Requests \ {r}, Alone(r),
         \/ Step(r) \/ StartPropose(r) \/ Abort(r)
         \/ \E u \in Users, a \in ActionIds : StartConfirm(r, u, a)
  PROVE  Outcome(q)'
<1>1. /\ pc'[q] = pc[q] /\ act'[q] = act[q]
      /\ draft'[q] = draft[q] /\ staged'[q] = staged[q]
  BY DEF Alone
<1>2. Outcome(q) /\ Transaction(q) /\ MutationInv
  BY DEF LifeInv, MutationInv
<1>3. pc[q] \in RunLabels \cup {"reply"} => act[q] \in ActionIds
  BY <1>2, MutationTyped DEF TypeInv, Located, ActingLabels, SettleLabels
<1>4. pc[q] \in RunLabels => status'[act[q]] = status[act[q]]
  BY <1>2, <1>3, StatusHeld DEF Transaction
<1>5. pc[q] = "reply" /\ draft[q][act[q]] # "CLEAN" => status'[act[q]] = status[act[q]]
  BY <1>2, <1>3, StatusHeld
<1>6. pc[q] = "reply" => info'[act[q]] = info[act[q]]
  BY <1>2, MutationTyped DEF Alone, TypeInv, Located, ActingLabels, SettleLabels
<1> QED BY <1>1, <1>2, <1>4, <1>5, <1>6 DEF Outcome, Claimable, Idle

(* The request itself.                                                     *)
LEMMA OwnOutcome ==
  ASSUME LifeInv, RequestTx, NEW r \in Requests,
         \/ Step(r) \/ StartPropose(r) \/ Abort(r)
         \/ \E u \in Users, a \in ActionIds : StartConfirm(r, u, a)
  PROVE  Outcome(r)'
<1> USE DEF RunLabels, db, txn, loc
<1>1. /\ MutationInv /\ Transaction(r) /\ Outcome(r) /\ TypeOK /\ Committed
      /\ pc[r] \in ActingLabels => act[r] \in ActionIds
  BY MutationTyped DEF LifeInv, MutationInv, TypeInv, Located
<1>2. CASE Throw(r) \/ Abort(r) \/ ExpireOnConfirm(r) \/ Reply(r)
  BY <1>1, <1>2 DEF Throw, Abort, ExpireOnConfirm, Reply, Finish, Goto, TypeOK, Outcome
<1>3. ASSUME NEW l, Branch(r, l), l \notin RunLabels, pc[r] \notin RunLabels \cup {"reply"},
             l # "reply" \/ pc[r] \in ActingLabels
      PROVE  Outcome(r)'
  BY <1>1, <1>3 DEF Branch, Goto, TypeOK, Transaction, Outcome
<1>4. ASSUME NEW l, NEW a \in ActionIds, NEW m, BranchWith(r, l, a, m), l \notin RunLabels,
             pc[r] \notin RunLabels \cup {"reply"}
      PROVE  Outcome(r)'
  BY <1>1, <1>4 DEF BranchWith, Goto, TypeOK, Transaction, Outcome
<1>5. CASE LookupKey(r) \/ ResolveIdentity(r) \/ LookupOperation(r)
             \/ RaceOnKey(r) \/ RaceOnOperation(r)
  BY <1>2, <1>3, <1>4, <1>5
     DEF LookupKey, ResolveIdentity, LookupOperation, RaceOnKey, RaceOnOperation, KeyRows
<1>6. CASE CreateAction(r) /\ Insert(r) /\ Goto(r, "reply")
             /\ UNCHANGED <<effects, leave, staged, req, env>>
  <2>1. InitialStatus(Tool[req[r].op]) \in Statuses \cap Claimable
    BY InitialStatusType DEF Claimable, Statuses
  <2>2. PICK a \in ActionIds :
          /\ info[a] = NoInfo
          /\ SetStatus(r, a, InitialStatus(Tool[req[r].op]))
          /\ act' = [act EXCEPT ![r] = a]
    BY <1>6 DEF Insert
  <2>3. status' = status /\ status[a] = "ABSENT"
    BY <1>1, <2>1, <2>2, SetStatusEffect, MutationTyped, ConstantsAssumption DEF TypeInv, Backed
  <2>4. /\ draft'[r][a] \in Claimable
        /\ \A b \in ActionIds \ {a} : draft'[r][b] = draft[r][b]
    BY <1>1, <2>1, <2>2, SetStatusEffect
  <2>5. act'[r] = a /\ pc'[r] = "reply" /\ staged'[r] = {}
        /\ \A b \in ActionIds : draft[r][b] = "CLEAN"
    BY <1>1, <1>6, <2>2 DEF TypeOK, Goto, CreateAction, Transaction
  <2> QED BY <2>3, <2>4, <2>5 DEF Outcome
<1>7. CASE CreateAction(r) /\ ~Insert(r)
  BY <1>2, <1>3, <1>7 DEF CreateAction
<1>8. CASE LoadAction(r) \/ RecheckUser(r) \/ StartPropose(r)
             \/ \E u \in Users, a \in ActionIds : StartConfirm(r, u, a)
  <2>1. CASE pc'[r] \notin RunLabels \cup {"reply"}
    BY <2>1 DEF Outcome
  <2>2. pc'[r] \notin RunLabels \cup {"reply"}
    BY <1>1, <1>8
       DEF LoadAction, RecheckUser, StartPropose, StartConfirm, Branch, Throw, Finish, Goto,
           TypeOK
  <2> QED BY <2>1, <2>2
<1>9. CASE CheckAction(r) \/ RereadAfterClaim(r)
  BY <1>2, <1>3, <1>9 DEF CheckAction, RereadAfterClaim, ActingLabels, ConfirmLabels
<1>10. CASE Claim(r)
  <2>1. CASE MayClaim(r) /\ SetStatus(r, act[r], "EXECUTING") /\ Goto(r, "execute")
    <3>1. status' = status /\ status[act[r]] \in Claimable
      BY <1>1, <1>10, <2>1 DEF Claim, MayClaim, View, Transaction, SetStatus, ActingLabels,
         ConfirmLabels
    <3>2. pc'[r] = "execute" /\ act' = act /\ staged' = staged /\ staged[r] = {}
      BY <1>1, <1>10, <2>1 DEF Claim, Goto, TypeOK, Transaction, Branch
    <3> QED BY <3>1, <3>2 DEF Outcome
  <2> QED BY <1>3, <1>10, <2>1 DEF Claim
<1>11. CASE HandlerWrites(r) \/ HandlerRefuses(r) \/ HandlerIdles(r) \/ Verify(r)
  <2>1. /\ pc[r] \in RunLabels /\ pc'[r] \in RunLabels
        /\ UNCHANGED <<status, act>> /\ staged'[r] \subseteq staged[r] \cup {act[r]}
    BY <1>1, <1>11 DEF HandlerWrites, HandlerRefuses, HandlerIdles, Verify, Branch, Goto, TypeOK
  <2> QED BY <1>1, <2>1 DEF Outcome
<1>12. CASE MarkFailed(r)
  <2>1. /\ pc[r] = "fail" /\ pc'[r] = "reply" /\ SetStatus(r, act[r], "FAILED")
        /\ UNCHANGED <<act, staged>> /\ act[r] \in ActionIds
    BY <1>1, <1>12 DEF MarkFailed, Goto, TypeOK, ActingLabels
  <2>2. /\ status' = status /\ draft'[r][act[r]] = "FAILED"
        /\ \A b \in ActionIds \ {act[r]} : draft'[r][b] = draft[r][b]
    BY <1>1, <2>1, SetStatusEffect DEF Statuses
  <2> QED BY <1>1, <2>1, <2>2 DEF Outcome, Transaction
<1>13. CASE MarkSucceeded(r)
  <2>1. CASE SetStatus(r, act[r], "SUCCEEDED") /\ Goto(r, "reply")
    <3>1. /\ pc[r] = "succeed" /\ pc'[r] = "reply"
          /\ UNCHANGED <<act, staged, info>> /\ act[r] \in ActionIds
      BY <1>1, <1>13, <2>1 DEF MarkSucceeded, Goto, TypeOK, ActingLabels, Branch, db
    <3>2. /\ status' = status /\ draft'[r][act[r]] = "SUCCEEDED"
          /\ \A b \in ActionIds \ {act[r]} : draft'[r][b] = draft[r][b]
      BY <1>1, <2>1, <3>1, SetStatusEffect DEF Statuses
    <3> QED BY <1>1, <3>1, <3>2 DEF Outcome, Transaction, Idle
  <2>2. CASE Branch(r, "fail")
    BY <1>1, <1>13, <2>2 DEF MarkSucceeded, Branch, Goto, TypeOK, Outcome
  <2> QED BY <1>13, <2>1, <2>2 DEF MarkSucceeded
<1>14. ~(Reconcile(r) \/ SettleApplied(r) \/ SettleMissed(r))
  BY <1>1 DEF Transaction, Reconcile, SettleApplied, SettleMissed
<1> QED
  BY <1>2, <1>5, <1>6, <1>7, <1>8, <1>9, <1>10, <1>11, <1>12, <1>13, <1>14
     DEF Step, ProposeStep, ConfirmStep, SettleStep, CreateAction

LEMMA LifeNext ==
  ASSUME RequestTx
  PROVE  LifeInv /\ [Next]_vars => LifeInv'
<1> SUFFICES ASSUME LifeInv, [Next]_vars PROVE LifeInv'
  OBVIOUS
<1>1. MutationInv /\ MutationInv'
  BY MutationNext DEF LifeInv
<1>2. ASSUME NEW r \in Requests,
             \/ Step(r) \/ StartPropose(r) \/ Abort(r)
             \/ \E u \in Users, a \in ActionIds : StartConfirm(r, u, a)
      PROVE  LifeInv'
  <2>1. Alone(r)
    BY <1>1, <1>2, MutationTyped, StepAlone
  <2>2. \A q \in Requests : Outcome(q)'
    BY <1>2, <2>1, OtherOutcomes, OwnOutcome
  <2>3. \A a \in ActionIds : status'[a] \in Reached
    <3>1. CASE Reply(r)
      <4>1. Outcome(r) /\ pc[r] = "reply" /\ \A a \in ActionIds : status'[a] = View(r, a)
        BY <3>1 DEF LifeInv, Reply
      <4> QED BY <4>1 DEF Outcome, View, LifeInv, Reached
    <3>2. CASE status' = status
      BY <3>2 DEF LifeInv
    <3> QED BY <1>1, <1>2, <3>1, <3>2, StatusCommits
  <2> QED BY <1>1, <2>2, <2>3 DEF LifeInv
<1>3. CASE ExpireStaleActions
  <2>1. UNCHANGED <<draft, staged, pc, act, info>>
    BY <1>3 DEF ExpireStaleActions, txn, loc
  <2>2. \A a \in ActionIds :
          \/ status'[a] = status[a]
          \/ status'[a] = "EXPIRED" /\ \A r \in Requests : draft[r][a] = "CLEAN"
    BY <1>3 DEF ExpireStaleActions, Stale
  <2>3. ASSUME NEW r \in Requests PROVE Outcome(r)'
    <3>1. Outcome(r) /\ Transaction(r)
      BY <1>1 DEF LifeInv, MutationInv
    <3>2. pc[r] \in RunLabels \cup {"reply"} => act[r] \in ActionIds
      BY <1>1, MutationTyped DEF TypeInv, Located, ActingLabels, SettleLabels
    <3> QED BY <2>1, <2>2, <3>1, <3>2 DEF Outcome, Transaction, Claimable, Idle
  <2> QED BY <1>1, <2>2, <2>3 DEF LifeInv, Reached
<1>4. CASE (Environment /\ ~ExpireStaleActions) \/ UNCHANGED vars
  <2>1. UNCHANGED <<status, draft, staged, pc, act, info>>
    BY <1>4 DEF Environment, Elapse, Demote, Deactivate, HrRead, HrWrite, vars, db, txn, loc
  <2> QED BY <1>1, <2>1 DEF LifeInv, Outcome, Idle
<1> QED BY <1>2, <1>3, <1>4 DEF Next, Rest

(***************************************************************************)
(* The refinement mapping.                                                 *)
(***************************************************************************)
LifeOf == [a \in ActionIds |-> StageOf(status[a])]
WhatOf == [a \in ActionIds |-> IF status[a] = "ABSENT" THEN {} ELSE {MutationOf(a)}]
MadeOf == {a \in effects : SeveralItems(Tool[info[a].op]) => status[a] = "SUCCEEDED"}

LEMMA StageFacts ==
  /\ StageOf("ABSENT") = "none" /\ StageOf("SUCCEEDED") = "done"
  /\ StageOf("FAILED") = "failed" /\ StageOf("EXPIRED") = "expired"
  /\ \A s \in Claimable : StageOf(s) = "pending"
BY DEF StageOf, Claimable

(* Two rows have the same identity only if they are for one mutation.      *)
LEMMA MutationFacts ==
  ASSUME NEW a \in ActionIds, info[a] \in InfoType
  PROVE  /\ MutationOf(a) \in ({"request"} \X ActionIds) \cup ({"shared"} \X Ops)
                                \cup ({"own"} \X Ops \X Users)
         /\ \A b \in ActionIds : info[b] \in InfoType /\ MutationOf(a) = MutationOf(b) =>
              a = b \/ Same(a, b)
<1>1. ASSUME NEW c \in ActionIds, info[c] \in InfoType
      PROVE  /\ info[c].op \in Ops /\ info[c].user \in Users
             /\ \/ MutationOf(c) = <<"request", c>>
                \/ /\ MutationOf(c) = <<"shared", info[c].op>>
                   /\ IdempotencyStrategy(Tool[info[c].op]) # "REQUEST_KEY"
                   /\ ActorIndependent(Tool[info[c].op])
                \/ /\ MutationOf(c) = <<"own", info[c].op, info[c].user>>
                   /\ IdempotencyStrategy(Tool[info[c].op]) # "REQUEST_KEY"
  <2>1. info[c].op \in Ops /\ info[c].user \in Users
    BY <1>1 DEF InfoType
  <2> DEFINE t == Tool[info[c].op]
  <2> HIDE DEF t
  <2>2. CASE IdempotencyStrategy(t) = "REQUEST_KEY"
    <3>1. t = "send_announcement"
      BY <2>2 DEF IdempotencyStrategy
    <3>2. ~ActorIndependent(t)
      BY <3>1 DEF ActorIndependent
    <3> QED BY <2>1, <2>2, <3>2 DEF MutationOf, t
  <2>3. CASE IdempotencyStrategy(t) # "REQUEST_KEY" /\ ActorIndependent(t)
    BY <2>1, <2>3 DEF MutationOf, t
  <2>4. CASE IdempotencyStrategy(t) # "REQUEST_KEY" /\ ~ActorIndependent(t)
    BY <2>1, <2>4 DEF MutationOf, t
  <2> QED BY <2>1, <2>2, <2>3, <2>4 DEF t
<1>2. MutationOf(a) \in ({"request"} \X ActionIds) \cup ({"shared"} \X Ops)
                          \cup ({"own"} \X Ops \X Users)
  BY <1>1
<1>3. ASSUME NEW b \in ActionIds, info[b] \in InfoType, MutationOf(a) = MutationOf(b)
      PROVE  a = b \/ Same(a, b)
  <2>1. MutationOf(a)[1] = MutationOf(b)[1] /\ MutationOf(a)[2] = MutationOf(b)[2]
    BY <1>3
  <2>2. CASE MutationOf(a)[1] = "request"
    <3>1. MutationOf(a) = <<"request", a>> /\ MutationOf(b) = <<"request", b>>
      BY <1>1, <1>3, <2>1, <2>2
    <3> QED BY <2>1, <3>1
  <2>3. CASE MutationOf(a)[1] = "shared"
    <3>1. /\ MutationOf(a) = <<"shared", info[a].op>> /\ MutationOf(b) = <<"shared", info[b].op>>
          /\ IdempotencyStrategy(Tool[info[a].op]) # "REQUEST_KEY"
          /\ ActorIndependent(Tool[info[a].op])
      BY <1>1, <1>3, <2>1, <2>3
    <3> QED BY <2>1, <3>1 DEF Same, SameMutation
  <2>4. CASE MutationOf(a)[1] = "own"
    <3>1. /\ MutationOf(a) = <<"own", info[a].op, info[a].user>>
          /\ MutationOf(b) = <<"own", info[b].op, info[b].user>>
          /\ IdempotencyStrategy(Tool[info[a].op]) # "REQUEST_KEY"
      BY <1>1, <1>3, <2>1, <2>4
    <3>2. MutationOf(a)[3] = MutationOf(b)[3]
      BY <1>3
    <3> QED BY <2>1, <3>1, <3>2 DEF Same, SameMutation
  <2> QED BY <1>1, <2>2, <2>3, <2>4
<1> QED BY <1>2, <1>3

(* A mutation that may turn out to be empty is one of its owner's.         *)
LEMMA EmptyFacts ==
  ASSUME NEW a \in ActionIds, info[a] \in InfoType, Idle(a)
  PROVE  {MutationOf(a)} \subseteq {m \in OwnMutations : MayDoNothing(Tool[m[2]])}
<1> DEFINE t == Tool[info[a].op]
<1>1. info[a].op \in Ops /\ info[a].user \in Users
  BY DEF InfoType
<1>2. MayDoNothing(t)
  BY DEF Idle
<1> HIDE DEF t
<1>3. IdempotencyStrategy(t) # "REQUEST_KEY" /\ ~ActorIndependent(t)
  BY <1>2 DEF MayDoNothing, MessageTools, IdempotencyStrategy, ActorIndependent
<1>4. MutationOf(a) = <<"own", info[a].op, info[a].user>>
  BY <1>3 DEF MutationOf, t
<1> QED BY <1>1, <1>2, <1>4 DEF OwnMutations, t

(* Rows that are there keep their identity.                                *)
LEMMA MappedKept ==
  ASSUME MutationInv, \A a \in ActionIds : info[a] \in InfoType => info'[a] = info[a]
  PROVE  /\ \A a \in ActionIds : status[a] # "ABSENT" => MutationOf(a)' = MutationOf(a)
         /\ \A a \in effects : info'[a] = info[a]
<1>1. \A a \in ActionIds : info'[a] = info[a] => MutationOf(a)' = MutationOf(a)
  BY DEF MutationOf
<1> QED BY <1>1, MutationTyped DEF TypeInv, Backed

LEMMA Stutters ==
  ASSUME MutationInv, \A a \in ActionIds : info[a] \in InfoType => info'[a] = info[a],
         UNCHANGED <<status, effects>>
  PROVE  UNCHANGED <<LifeOf, WhatOf, MadeOf>>
<1>1. LifeOf' = LifeOf
  BY DEF LifeOf, StageOf
<1>2. WhatOf' = WhatOf
  BY MappedKept DEF WhatOf
<1>3. MadeOf' = MadeOf
  BY MappedKept DEF MadeOf
<1> QED BY <1>1, <1>2, <1>3

(* A commit is the step of the lifecycle that its outcome says.            *)
LEMMA ReplySimulates ==
  ASSUME LifeInv, LifeInv', RequestTx, NEW r \in Requests, Reply(r)
  PROVE  [Lifecycle!LifecycleNext]_(Lifecycle!lvars)
<1> PICK a : a = act[r]
  OBVIOUS
<1>1. /\ a = act[r] /\ MutationInv /\ TypeInv /\ TypeOK /\ Outcome(r) /\ pc[r] = "reply"
      /\ a \in ActionIds /\ info[a] \in InfoType
  BY MutationTyped DEF LifeInv, Reply, TypeInv, Located, ActingLabels, SettleLabels
<1>2. /\ \A b \in ActionIds : status'[b] = View(r, b)
      /\ effects' = effects \cup staged[r] /\ info' = info
      /\ status' \in [ActionIds -> Statuses \cup {"ABSENT"}]
      /\ status \in [ActionIds -> Statuses \cup {"ABSENT"}]
  BY <1>1 DEF Reply, Written, LifeInv, MutationInv, SeenInv, TypeInv, TypeOK
<1>3. \A b \in ActionIds \ {a} : status'[b] = status[b]
  BY <1>1, <1>2 DEF Outcome, View
<1>4. \A b \in ActionIds : info'[b] = info[b] /\ MutationOf(b)' = MutationOf(b)
  BY <1>2 DEF MutationOf
<1>5. LifeOf' = [LifeOf EXCEPT ![a] = StageOf(status'[a])]
  BY <1>1, <1>3 DEF LifeOf
<1>6. CASE draft[r][a] = "CLEAN" /\ staged[r] = {}
  <2>1. status' = status /\ effects' = effects
    BY <1>1, <1>2, <1>3, <1>6 DEF View
  <2>2. UNCHANGED <<LifeOf, WhatOf, MadeOf>>
    BY <1>1, <1>4, <2>1, Stutters
  <2> QED BY <2>2 DEF Lifecycle!lvars, LifeOf, WhatOf, MadeOf
<1>7. status'[a] # status[a] => LifeOf' # LifeOf
  <2>1. status[a] \in Reached /\ status'[a] \in Reached
    BY <1>1 DEF LifeInv
  <2>2. CASE status[a] \in Claimable \cup {"ABSENT"} /\ status'[a] \in {"SUCCEEDED", "FAILED"}
    BY <1>1, <2>2, StageFacts DEF LifeOf
  <2>3. CASE status[a] = "ABSENT" /\ status'[a] \in Claimable
    BY <1>1, <2>3, StageFacts DEF LifeOf
  <2>4. CASE status'[a] = status[a]
    BY <2>4
  <2> QED BY <1>1, <1>2, <2>2, <2>3, <2>4 DEF Outcome, View, Claimable
<1>8. CASE draft[r][a] \in Claimable /\ status[a] = "ABSENT" /\ staged[r] = {}
  <2>1. status'[a] \in Claimable /\ status'[a] # "ABSENT" /\ effects' = effects
    BY <1>1, <1>2, <1>8 DEF View, Claimable
  <2>2. LifeOf[a] = "none" /\ LifeOf' = [LifeOf EXCEPT ![a] = "pending"] /\ LifeOf' # LifeOf
    BY <1>1, <1>5, <1>7, <1>8, <2>1, StageFacts DEF LifeOf
  <2>3. WhatOf' = [WhatOf EXCEPT ![a] = {MutationOf(a)}]
    BY <1>1, <1>3, <1>4, <2>1 DEF WhatOf
  <2>4. a \notin effects
    BY <1>8 DEF LifeInv, MutationInv, KeyInv, Rooted
  <2>5. MadeOf' = MadeOf
    BY <1>1, <1>3, <1>4, <2>1, <2>4, MutationTyped DEF MadeOf
  <2>6. ASSUME NEW b \in ActionIds, LifeOf[b] \in {"pending", "done"},
               MutationOf(a) \in WhatOf[b]
        PROVE  FALSE
    <3>1. status[b] # "ABSENT" /\ MutationOf(a) = MutationOf(b) /\ b # a
      BY <1>8, <2>6 DEF WhatOf
    <3>2. info[b] \in InfoType
      BY <1>1, <3>1 DEF TypeInv, Backed
    <3>3. status[b] \in Claimable \cup {"SUCCEEDED"}
      BY <2>6, <3>1, StageFacts DEF LifeOf, LifeInv, Reached
    <3>4. Live(a) /\ Live(b)
      BY <1>8, <3>3 DEF Live, Claimable, Indexed
    <3>5. ~Same(a, b)
      BY <1>1, <3>1, <3>4 DEF MutationInv, Committed
    <3> QED BY <1>1, <3>1, <3>2, <3>5, MutationFacts
  <2>7. MutationOf(a) \in ({"request"} \X ActionIds) \cup ({"shared"} \X Ops)
                            \cup ({"own"} \X Ops \X Users)
    BY <1>1, MutationFacts
  <2>8. Lifecycle!Propose(a)
    BY <1>1, <2>2, <2>3, <2>5, <2>6, <2>7
       DEF Lifecycle!Propose, LifeOf, WhatOf, MadeOf, OwnMutations
  <2>9. \E b \in ActionIds :
         \/ Lifecycle!Propose(b) \/ Lifecycle!Succeed(b)
         \/ Lifecycle!SucceedEmpty(b) \/ Lifecycle!Fail(b)
    BY <1>1, <2>8
  <2>10. Lifecycle!LifecycleNext
    BY <2>2, <2>9 DEF Lifecycle!LifecycleNext, LifeOf
  <2> QED BY <2>10
<1>9. CASE draft[r][a] = "SUCCEEDED" /\ status[a] \in Claimable
             /\ (staged[r] = {a} \/ (staged[r] = {} /\ Idle(a)))
  <2>1. /\ status'[a] = "SUCCEEDED" /\ status[a] # "ABSENT"
        /\ effects' = effects \cup {a} \/ (effects' = effects /\ Idle(a))
    BY <1>1, <1>2, <1>9 DEF View, Claimable
  <2>2. LifeOf[a] = "pending" /\ LifeOf' = [LifeOf EXCEPT ![a] = "done"] /\ LifeOf' # LifeOf
    BY <1>1, <1>5, <1>7, <1>9, <2>1, StageFacts DEF LifeOf, Claimable
  <2>3. WhatOf' = WhatOf
    BY <1>3, <1>4, <2>1 DEF WhatOf
  <2>4. ASSUME a \in effects' PROVE Lifecycle!Succeed(a)
    <3>1. MadeOf' = MadeOf \cup {a}
      BY <1>1, <1>3, <1>4, <2>1, <2>4, MutationTyped DEF MadeOf
    <3> QED BY <2>2, <2>3, <3>1
            DEF Lifecycle!Succeed, Lifecycle!Settle, LifeOf, WhatOf, MadeOf
  <2>5. ASSUME a \notin effects' PROVE Lifecycle!SucceedEmpty(a)
    <3>1. MadeOf' = MadeOf
      BY <1>1, <1>3, <1>4, <2>1, <2>5, MutationTyped DEF MadeOf
    <3>2. WhatOf[a] \subseteq {m \in OwnMutations : MayDoNothing(Tool[m[2]])}
      BY <1>1, <2>1, <2>5, EmptyFacts DEF WhatOf
    <3> QED BY <2>2, <2>3, <3>1, <3>2
            DEF Lifecycle!SucceedEmpty, Lifecycle!Settle, LifeOf, WhatOf, MadeOf
  <2>6. \E b \in ActionIds :
         \/ Lifecycle!Propose(b) \/ Lifecycle!Succeed(b)
         \/ Lifecycle!SucceedEmpty(b) \/ Lifecycle!Fail(b)
    BY <1>1, <2>4, <2>5
  <2>7. Lifecycle!LifecycleNext
    BY <2>2, <2>6 DEF Lifecycle!LifecycleNext, LifeOf
  <2> QED BY <2>7
<1>10. CASE draft[r][a] = "FAILED" /\ status[a] \in Claimable /\ staged[r] \subseteq {a}
  <2>1. status'[a] = "FAILED" /\ status[a] # "ABSENT"
    BY <1>1, <1>2, <1>10 DEF View, Claimable
  <2>2. LifeOf[a] = "pending" /\ LifeOf' = [LifeOf EXCEPT ![a] = "failed"] /\ LifeOf' # LifeOf
    BY <1>1, <1>5, <1>7, <1>10, <2>1, StageFacts DEF LifeOf, Claimable
  <2>3. WhatOf' = WhatOf
    BY <1>3, <1>4, <2>1 DEF WhatOf
  <2>4. a \in effects' => SeveralItems(Tool[info'[a].op])
    BY <2>1 DEF LifeInv, MutationInv, Committed, Single
  <2>5. a \notin MadeOf' /\ a \notin MadeOf
    BY <1>1, <1>2, <1>4, <1>10, <2>1, <2>4 DEF MadeOf, Claimable
  <2>6. MadeOf' = MadeOf
    BY <1>1, <1>2, <1>3, <1>4, <1>10, <2>5, MutationTyped DEF MadeOf
  <2>7. Lifecycle!Fail(a)
    BY <2>2, <2>3, <2>6
       DEF Lifecycle!Fail, Lifecycle!Settle, LifeOf, WhatOf, MadeOf
  <2>8. \E b \in ActionIds :
         \/ Lifecycle!Propose(b) \/ Lifecycle!Succeed(b)
         \/ Lifecycle!SucceedEmpty(b) \/ Lifecycle!Fail(b)
    BY <1>1, <2>7
  <2>9. Lifecycle!LifecycleNext
    BY <2>2, <2>8 DEF Lifecycle!LifecycleNext, LifeOf
  <2> QED BY <2>9
<1> QED BY <1>1, <1>6, <1>8, <1>9, <1>10 DEF Outcome

LEMMA SweepSimulates ==
  ASSUME LifeInv, RequestTx, ExpireStaleActions
  PROVE  [Lifecycle!LifecycleNext]_(Lifecycle!lvars)
<1> DEFINE S == {a \in ActionIds : Stale(a)}
<1>1. /\ \A a \in ActionIds : status'[a] = IF a \in S THEN "EXPIRED" ELSE status[a]
      /\ UNCHANGED <<info, effects>> /\ S # {}
  BY DEF ExpireStaleActions
<1>2. \A a \in S : status[a] \in Claimable
  BY DEF Stale
<1>3. S \in SUBSET {a \in ActionIds : LifeOf[a] = "pending"}
  BY <1>2, StageFacts DEF LifeOf
<1> HIDE DEF S
<1>4. LifeOf' = [a \in ActionIds |-> IF a \in S THEN "expired" ELSE LifeOf[a]]
  BY <1>1, StageFacts DEF LifeOf
<1>5. LifeOf' # LifeOf
  <2>1. PICK a \in S : TRUE
    BY <1>1
  <2>2. a \in ActionIds /\ LifeOf[a] = "pending"
    BY <1>3
  <2> QED BY <1>4, <2>1, <2>2
<1>6. \A a \in ActionIds : /\ MutationOf(a)' = MutationOf(a)
                           /\ status'[a] = "ABSENT" <=> status[a] = "ABSENT"
                           /\ status'[a] = "SUCCEEDED" <=> status[a] = "SUCCEEDED"
  BY <1>1, <1>2 DEF MutationOf, Claimable
<1>7. WhatOf' = WhatOf
  BY <1>6 DEF WhatOf
<1>8. MadeOf' = MadeOf
  BY <1>1, <1>6, MutationTyped DEF MadeOf, LifeInv
<1>9. Lifecycle!Expire
  BY <1>3, <1>4, <1>7, <1>8 DEF Lifecycle!Expire, LifeOf, WhatOf, MadeOf
<1> QED BY <1>5, <1>9 DEF Lifecycle!LifecycleNext, LifeOf

LEMMA StepSimulates ==
  ASSUME LifeInv, LifeInv', RequestTx, [Next]_vars
  PROVE  [Lifecycle!LifecycleNext]_(Lifecycle!lvars)
<1>1. MutationInv /\ TypeInv
  BY MutationTyped DEF LifeInv
<1>2. ASSUME UNCHANGED <<status, effects>>,
             \A a \in ActionIds : info[a] \in InfoType => info'[a] = info[a]
      PROVE  UNCHANGED Lifecycle!lvars
  BY <1>1, <1>2, Stutters DEF Lifecycle!lvars, LifeOf, WhatOf, MadeOf
<1>3. ASSUME NEW r \in Requests,
             \/ Step(r) \/ StartPropose(r) \/ Abort(r)
             \/ \E u \in Users, a \in ActionIds : StartConfirm(r, u, a)
      PROVE  [Lifecycle!LifecycleNext]_(Lifecycle!lvars)
  BY <1>1, <1>2, <1>3, StepAlone, StatusCommits, ReplySimulates DEF Alone
<1>4. CASE ExpireStaleActions
  BY <1>4, SweepSimulates
<1>5. CASE (Environment /\ ~ExpireStaleActions) \/ UNCHANGED vars
  <2>1. UNCHANGED <<status, effects, info>>
    BY <1>5 DEF Environment, Elapse, Demote, Deactivate, HrRead, HrWrite, vars, db
  <2> QED BY <1>2, <2>1
<1> QED BY <1>3, <1>4, <1>5 DEF Next, Rest

(* With one transaction per request, each commit of the control plane is   *)
(* one step of the lifecycle: an action is proposed for a mutation that no *)
(* other open or completed action is about, and is then settled once, with *)
(* its mutation made exactly if it succeeds, unless it is one that may turn*)
(* out to be empty: that one may succeed with nothing made.                *)
THEOREM ImplementsLifecycleHolds == ASSUME RequestTx PROVE Spec => ImplementsLifecycle
<1>1. Init => LifeInv
  <2>1. Init => \A a \in ActionIds : status[a] \in Reached
    BY DEF Init, Reached
  <2>2. Init => \A r \in Requests : Outcome(r)
    BY DEF Init, Outcome, RunLabels
  <2> QED BY <2>1, <2>2, MutationInit DEF LifeInv
<1>2. LifeInv /\ [Next]_vars => LifeInv'
  BY LifeNext
<1>3. Init => Lifecycle!LifecycleInit
  BY StageFacts DEF Init, Lifecycle!LifecycleInit
<1>4. LifeInv /\ LifeInv' /\ [Next]_vars => [Lifecycle!LifecycleNext]_(Lifecycle!lvars)
  BY StepSimulates
<1> QED BY <1>1, <1>2, <1>3, <1>4, PTL DEF Spec, ImplementsLifecycle, Lifecycle!LifecycleSpec
---------------------------------------------------------------------------
(***************************************************************************)
(* What is reported SUCCEEDED is in the domain.                            *)
(***************************************************************************)
(* What an approved leave says of the domain, and what a request knows     *)
(* between its handler or its reconcile query and its UPDATE.              *)
LeaveTold ==
  \A o \in Ops :
    /\ leave[o] = "APPROVED_BY_AGENT" => \E b \in effects : info[b].op = o
    /\ leave[o] = "APPROVED_BY_HR" => o \in hrApproved

Knows(r) ==
  /\ pc[r] = "verify" => act[r] \in effects
  /\ pc[r] = "succeed" => act[r] \in effects \/ Idle(act[r])
  /\ pc[r] = "applied" => Recorded(act[r])

SuccInv ==
  /\ SeenInv /\ KeyInv /\ LeaveTold
  /\ \A r \in Requests : Knows(r)
  /\ SucceededIsRecorded

LEMMA SuccTyped ==
  ASSUME SeenInv, KeyInv
  PROVE  /\ TypeInv /\ TypeOK /\ effects \in SUBSET ActionIds
         /\ \A a \in effects : info[a] \in InfoType
         /\ \A a \in ActionIds : status[a] # "ABSENT" => info[a] \in InfoType
         /\ \A r \in Requests : pc[r] \in ActingLabels =>
              act[r] \in ActionIds /\ info[act[r]] \in InfoType
BY DEF SeenInv, KeyInv, Rooted, TypeInv, TypeOK, Backed, Located

(* The domain is never rolled back, and HR's approvals are remembered.     *)
LEMMA DomainGrows ==
  ASSUME [Next]_vars
  PROVE  effects \subseteq effects' /\ hrApproved \subseteq hrApproved'
<1> USE DEF db, env, Branch, BranchWith, Throw
<1>1. ASSUME NEW r \in Requests,
             \/ Step(r) \/ StartPropose(r) \/ Abort(r)
             \/ \E u \in Users, a \in ActionIds : StartConfirm(r, u, a)
      PROVE  effects \subseteq effects' /\ hrApproved' = hrApproved
  <2>1. CASE ProposeStep(r)
    BY <2>1 DEF ProposeStep, LookupKey, ResolveIdentity, LookupOperation, CreateAction,
       RaceOnKey, RaceOnOperation
  <2>2. CASE ConfirmStep(r) \/ SettleStep(r)
    BY <2>2 DEF ConfirmStep, LoadAction, CheckAction, ExpireOnConfirm, RecheckUser, Claim,
       RereadAfterClaim, HandlerWrites, HandlerRefuses, HandlerIdles, Verify, MarkSucceeded,
          MarkFailed,
       SettleStep, Reconcile, SettleApplied, SettleMissed, Reply, Written
  <2> QED BY <1>1, <2>1, <2>2 DEF Step, StartPropose, Abort, StartConfirm
<1>2. CASE Environment \/ UNCHANGED vars
  BY <1>2 DEF Environment, Elapse, Demote, Deactivate, HrRead, HrWrite, ExpireStaleActions, vars
<1> QED BY <1>1, <1>2 DEF Next, Rest

LEMMA RecordedStays ==
  ASSUME SeenInv, KeyInv, [Next]_vars,
         \A b \in ActionIds : info[b] \in InfoType => info'[b] = info[b],
         NEW a \in ActionIds, info[a] \in InfoType, Recorded(a)
  PROVE  Recorded(a)'
<1>1. info'[a] = info[a] /\ \A b \in effects : b \in effects' /\ info'[b] = info[b]
  BY DomainGrows, SuccTyped
<1> QED BY <1>1, DomainGrows DEF Recorded

(* A reconcile query that answers APPLIED has found the mutation.          *)
LEMMA VerdictSound ==
  ASSUME SeenInv, KeyInv, LeaveTold, ~RequestTx, NEW r \in Requests, NEW a \in ActionIds,
         info[a] \in InfoType, "APPLIED" \in Verdicts(r, a)
  PROVE  Recorded(a)
<1>1. Found(r, a)
  BY DEF Verdicts, MissVerdict
<1>2. staged[r] = {}
  BY SuccTyped DEF TypeOK
<1>3. info[a].op \in Ops
  BY DEF InfoType
<1>4. CASE IsLeave(info[a].op)
  <2>1. ~ActorScoped(Tool[info[a].op])
    BY <1>4 DEF IsLeave, ActorScoped, MessageTools
  <2>2. leave[info[a].op] \in {"APPROVED_BY_AGENT", "APPROVED_BY_HR"}
    BY <1>1, <1>2, <1>4 DEF Found, LeaveView
  <2> QED BY <1>3, <2>1, <2>2 DEF LeaveTold, Recorded
<1>5. CASE ~IsLeave(info[a].op)
  BY <1>1, <1>2, <1>5 DEF Found, Written, Recorded
<1> QED BY <1>4, <1>5

(* Only two statements report success.                                     *)
LEMMA SuccessBy ==
  ASSUME TypeInv, ~RequestTx, NEW r \in Requests,
         \/ Step(r) \/ StartPropose(r) \/ Abort(r)
         \/ \E u \in Users, a \in ActionIds : StartConfirm(r, u, a),
         NEW a \in ActionIds, status'[a] = "SUCCEEDED", status[a] # "SUCCEEDED"
  PROVE  pc[r] \in {"succeed", "applied"} /\ a = act[r]
<1> USE DEF TypeInv
<1>1. ASSUME NEW b \in ActionIds, NEW s \in Statuses, SetStatus(r, b, s)
      PROVE  a = b /\ s = "SUCCEEDED"
  BY <1>1, SetStatusEffect
<1>2. pc[r] \in ActingLabels => act[r] \in ActionIds
  BY DEF Located
<1>3. CASE Claim(r) \/ MarkSucceeded(r) \/ MarkFailed(r) \/ SettleApplied(r) \/ SettleMissed(r)
  <2>1. act[r] \in ActionIds
    BY <1>2, <1>3 DEF Claim, MarkSucceeded, MarkFailed, SettleApplied, SettleMissed,
       ActingLabels, ConfirmLabels, RunLabels, SettleLabels
  <2>2. \E s \in Statuses : SetStatus(r, act[r], s)
    BY <1>3 DEF Claim, MarkSucceeded, MarkFailed, SettleApplied, SettleMissed, Branch, Throw,
       db, Statuses
  <2>3. a = act[r] /\ SetStatus(r, act[r], "SUCCEEDED")
    BY <1>1, <2>1, <2>2
  <2>4. ASSUME SetStatus(r, act[r], "EXECUTING") \/ SetStatus(r, act[r], "FAILED")
        PROVE  FALSE
    BY <1>1, <2>1, <2>4 DEF Statuses
  <2> QED BY <1>3, <2>3, <2>4 DEF Claim, MarkSucceeded, MarkFailed, SettleApplied,
             SettleMissed, Branch, Throw, db
<1>4. CASE CreateAction(r)
  <2>1. InitialStatus(Tool[req[r].op]) \in Statuses
        /\ InitialStatus(Tool[req[r].op]) # "SUCCEEDED"
    BY InitialStatusType DEF Claimable, Statuses
  <2> QED BY <1>1, <1>4, <2>1 DEF CreateAction, Insert, Branch, Throw, db
<1>5. CASE Reply(r)
  BY <1>5, AutocommitView DEF Reply
<1>6. CASE ExpireOnConfirm(r)
  BY <1>6 DEF ExpireOnConfirm, TypeOK
<1>7. CASE \/ LookupKey(r) \/ ResolveIdentity(r) \/ LookupOperation(r)
           \/ RaceOnKey(r) \/ RaceOnOperation(r)
           \/ LoadAction(r) \/ CheckAction(r) \/ RecheckUser(r) \/ RereadAfterClaim(r)
           \/ HandlerWrites(r) \/ HandlerRefuses(r)
           \/ HandlerIdles(r) \/ Verify(r) \/ Reconcile(r)
  BY <1>7 DEF LookupKey, ResolveIdentity, LookupOperation, RaceOnKey, RaceOnOperation,
     LoadAction, CheckAction, RecheckUser, RereadAfterClaim, HandlerWrites, HandlerRefuses,
        HandlerIdles,
     Verify, Reconcile, Branch, BranchWith, Throw, db
<1>8. CASE StartPropose(r) \/ Abort(r)
             \/ \E u \in Users, b \in ActionIds : StartConfirm(r, u, b)
  BY <1>8 DEF StartPropose, Abort, StartConfirm, db
<1> QED BY <1>3, <1>4, <1>5, <1>6, <1>7, <1>8 DEF Step, ProposeStep, ConfirmStep, SettleStep

(* How a request comes to the statements that report success.              *)
LEMMA ComesToReport ==
  ASSUME TypeInv, NEW r \in Requests,
         \/ Step(r) \/ StartPropose(r) \/ Abort(r)
         \/ \E u \in Users, a \in ActionIds : StartConfirm(r, u, a)
  PROVE  /\ pc'[r] = "verify" => HandlerWrites(r)
         /\ pc'[r] = "succeed" =>
              pc[r] = "verify" \/ HandlerIdles(r)
         /\ pc'[r] = "succeed" => pc[r] \in RunLabels /\ UNCHANGED <<act, info>>
         /\ pc'[r] = "applied" => Reconcile(r) /\ Branch(r, "applied")
<1> USE DEF TypeInv, TypeOK, Goto, loc
<1>1. ASSUME Finish(r) PROVE pc'[r] = "idle"
  BY <1>1 DEF Finish
<1>2. CASE ProposeStep(r)
  BY <1>1, <1>2 DEF ProposeStep, LookupKey, ResolveIdentity, LookupOperation, CreateAction,
     RaceOnKey, RaceOnOperation, Branch, BranchWith, Throw
<1>3. CASE \/ LoadAction(r) \/ CheckAction(r) \/ ExpireOnConfirm(r) \/ RecheckUser(r)
           \/ Claim(r) \/ RereadAfterClaim(r)
  BY <1>1, <1>3 DEF LoadAction, CheckAction, ExpireOnConfirm, RecheckUser, Claim,
     RereadAfterClaim, Branch, Throw
<1>4. CASE \/ HandlerWrites(r) \/ HandlerRefuses(r) \/ HandlerIdles(r) \/ Verify(r)
           \/ MarkSucceeded(r) \/ MarkFailed(r)
  BY <1>4 DEF HandlerWrites, HandlerRefuses, HandlerIdles, Verify, MarkSucceeded, MarkFailed,
     Branch, db, RunLabels
<1>5. CASE SettleApplied(r) \/ SettleMissed(r) \/ Reply(r)
  <2>1. CASE SettleMissed(r)
    <3>1. req[r].ifMissed \in {"create", "reply"}
      BY <2>1 DEF SettleMissed, Located, ReqType
    <3> QED BY <2>1, <3>1 DEF SettleMissed
  <2> QED BY <1>1, <1>5, <2>1 DEF SettleApplied, Reply, Throw
<1>6. CASE Reconcile(r)
  BY <1>1, <1>6 DEF Reconcile, Branch, Throw
<1>7. CASE StartPropose(r) \/ Abort(r)
             \/ \E u \in Users, a \in ActionIds : StartConfirm(r, u, a)
  BY <1>1, <1>7 DEF StartPropose, Abort, StartConfirm
<1> QED BY <1>2, <1>3, <1>4, <1>5, <1>6, <1>7 DEF Step, ConfirmStep, SettleStep

(* Leaves change in two ways only.                                         *)
LEMMA LeaveBy ==
  ASSUME TypeInv, ~RequestTx, NEW r \in Requests,
         \/ Step(r) \/ StartPropose(r) \/ Abort(r)
         \/ \E u \in Users, a \in ActionIds : StartConfirm(r, u, a)
  PROVE  HandlerWrites(r) \/ \A o \in Ops : leave'[o] = leave[o]
<1> USE DEF Branch, BranchWith, Throw, db
<1>1. CASE ProposeStep(r)
  BY <1>1 DEF ProposeStep, LookupKey, ResolveIdentity, LookupOperation, CreateAction,
     RaceOnKey, RaceOnOperation
<1>2. CASE ConfirmStep(r)
  BY <1>2 DEF ConfirmStep, LoadAction, CheckAction, ExpireOnConfirm, RecheckUser, Claim,
     RereadAfterClaim, HandlerRefuses, HandlerIdles, Verify, MarkSucceeded, MarkFailed
<1>3. CASE Reconcile(r) \/ SettleApplied(r) \/ SettleMissed(r)
  BY <1>3 DEF Reconcile, SettleApplied, SettleMissed
<1>4. CASE Reply(r)
  BY <1>4 DEF Reply, LeaveView, TypeInv, TypeOK
<1>5. CASE StartPropose(r) \/ Abort(r)
             \/ \E u \in Users, a \in ActionIds : StartConfirm(r, u, a)
  BY <1>5 DEF StartPropose, Abort, StartConfirm
<1> QED BY <1>1, <1>2, <1>3, <1>4, <1>5 DEF Step, SettleStep

LEMMA SuccNext ==
  ASSUME ~RequestTx
  PROVE  SuccInv /\ [Next]_vars => SuccInv'
<1> SUFFICES ASSUME SuccInv, [Next]_vars PROVE SuccInv'
  OBVIOUS
<1>1. SeenInv /\ SeenInv' /\ KeyInv /\ KeyInv' /\ LeaveTold /\ TypeInv /\ TypeInv'
  BY SeenNext, KeyNext, SuccTyped DEF SuccInv, SeenInv
<1>2. ASSUME NEW r \in Requests,
             \/ Step(r) \/ StartPropose(r) \/ Abort(r)
             \/ \E u \in Users, a \in ActionIds : StartConfirm(r, u, a)
      PROVE  SuccInv'
  <2>1. Alone(r) /\ \A b \in ActionIds : info[b] \in InfoType => info'[b] = info[b]
    BY <1>1, <1>2, StepAlone DEF Alone
  <2>2. effects \subseteq effects' /\ hrApproved \subseteq hrApproved'
        /\ \A b \in effects : info'[b] = info[b] /\ info[b] \in InfoType
    BY <1>1, <2>1, DomainGrows, SuccTyped
  <2>3. ASSUME NEW q \in Requests \ {r} PROVE Knows(q)'
    <3>1. pc'[q] = pc[q] /\ act'[q] = act[q] /\ Knows(q)
      BY <2>1 DEF Alone, SuccInv
    <3>2. pc[q] = "applied" => /\ act[q] \in ActionIds /\ info[act[q]] \in InfoType
                               /\ Recorded(act[q])
      BY <1>1, <3>1, SuccTyped DEF Knows, ActingLabels, SettleLabels
    <3>3. pc[q] = "applied" => Recorded(act[q])'
      BY <2>1, <2>2, <3>1, <3>2 DEF Recorded
    <3>4. pc[q] = "succeed" => info'[act[q]] = info[act[q]]
      BY <1>1, <2>1, SuccTyped DEF ActingLabels, RunLabels
    <3> QED BY <2>2, <3>1, <3>3, <3>4 DEF Knows, Idle
  <2>4. CASE HandlerWrites(r)
    <3>1. act[r] \in ActionIds /\ info[act[r]] \in InfoType
      BY <1>1, <2>4, SuccTyped DEF HandlerWrites, ActingLabels, RunLabels
    <3>2. /\ effects' = effects \cup {act[r]} /\ UNCHANGED <<status, act, info>>
          /\ \/ leave' = leave
             \/ leave' = [leave EXCEPT ![info[act[r]].op] = "APPROVED_BY_AGENT"]
      BY <2>4 DEF HandlerWrites, loc
    <3>3. \A o \in Ops : \/ leave'[o] = leave[o]
                         \/ leave'[o] = "APPROVED_BY_AGENT" /\ o = info[act[r]].op
      BY <1>1, <3>2 DEF TypeInv, TypeOK
    <3>4. LeaveTold'
      BY <1>1, <2>2, <3>1, <3>2, <3>3 DEF LeaveTold
    <3>5. Knows(r)'
      BY <1>1, <2>4, <3>2 DEF HandlerWrites, Goto, TypeInv, TypeOK, Knows
    <3>6. SucceededIsRecorded'
      BY <1>1, <2>1, <3>2, RecordedStays, SuccTyped DEF SuccInv, SucceededIsRecorded
    <3> QED BY <1>1, <2>3, <3>4, <3>5, <3>6 DEF SuccInv
  <2>5. CASE ~HandlerWrites(r)
    <3>1. LeaveTold'
      BY <1>1, <1>2, <2>2, <2>5, LeaveBy DEF LeaveTold
    <3>2. Knows(r)'
      <4>1. pc'[r] # "verify"
        BY <1>1, <1>2, <2>5, ComesToReport
      <4>2. pc'[r] = "succeed" => act'[r] \in effects' \/ Idle(act[r])'
        BY <1>1, <1>2, <2>2, ComesToReport DEF SuccInv, Knows, HandlerIdles, Idle
      <4>3. ASSUME pc'[r] = "applied" PROVE Recorded(act[r])' /\ act' = act
        <5>1. Reconcile(r) /\ Branch(r, "applied")
          BY <1>1, <1>2, <4>3, ComesToReport
        <5>2. "APPLIED" \in Verdicts(r, act[r]) /\ pc[r] = "reconcile"
          <6>1. pc'[r] = "applied" /\ "missed" # "applied" /\ "idle" # "applied"
            BY <4>3
          <6>2. ~Branch(r, "missed") /\ ~Throw(r)
            BY <1>1, <6>1 DEF Branch, Throw, Finish, Goto, TypeInv, TypeOK
          <6> QED BY <5>1, <6>2 DEF Reconcile
        <5>3. act[r] \in ActionIds /\ info[act[r]] \in InfoType
          BY <1>1, <5>2, SuccTyped DEF ActingLabels, SettleLabels
        <5>4. Recorded(act[r])
          BY <1>1, <5>2, <5>3, VerdictSound
        <5>5. UNCHANGED <<act, info, effects, hrApproved>>
          BY <5>1 DEF Branch, db, loc, env
        <5> QED BY <5>4, <5>5 DEF Recorded
      <4> QED BY <4>1, <4>2, <4>3 DEF Knows
    <3>3. ASSUME NEW a \in ActionIds, status'[a] = "SUCCEEDED"
          PROVE  Recorded(a)' \/ Idle(a)'
      <4>1. CASE status[a] = "SUCCEEDED"
        <5>1. info[a] \in InfoType /\ info'[a] = info[a] /\ (Recorded(a) \/ Idle(a))
          BY <1>1, <2>1, <4>1, SuccTyped DEF SuccInv, SucceededIsRecorded, Idle
        <5> QED BY <1>1, <2>1, <5>1, RecordedStays DEF Idle
      <4>2. CASE status[a] # "SUCCEEDED"
        <5>1. pc[r] \in {"succeed", "applied"} /\ a = act[r]
          BY <1>1, <1>2, <3>3, <4>2, SuccessBy
        <5>2. info[a] \in InfoType
          BY <1>1, <5>1, SuccTyped DEF ActingLabels, RunLabels, SettleLabels
        <5>3. Recorded(a) \/ Idle(a)
          BY <5>1 DEF SuccInv, Knows, Recorded
        <5> QED BY <1>1, <2>1, <5>2, <5>3, RecordedStays DEF Idle
      <4> QED BY <4>1, <4>2
    <3> QED BY <1>1, <2>3, <3>1, <3>2, <3>3 DEF SuccInv, SucceededIsRecorded, Idle
  <2> QED BY <2>4, <2>5
<1>3. CASE Environment \/ UNCHANGED vars
  <2>1. UNCHANGED <<pc, act, info, effects>>
    BY <1>3 DEF Environment, Elapse, Demote, Deactivate, HrRead, HrWrite, ExpireStaleActions,
       vars, db, loc
  <2>2. /\ hrApproved \subseteq hrApproved'
        /\ \A a \in ActionIds : Recorded(a) => Recorded(a)'
    BY <2>1, DomainGrows DEF Recorded
  <2>3. \A r \in Requests : Knows(r)'
    <3> SUFFICES ASSUME NEW r \in Requests PROVE Knows(r)'
      OBVIOUS
    <3>1. Knows(r) /\ (pc[r] = "applied" => act[r] \in ActionIds)
      BY <1>1, SuccTyped DEF SuccInv, ActingLabels, SettleLabels
    <3> QED BY <2>1, <2>2, <3>1 DEF Knows, Recorded, Idle
  <2>4. \A a \in ActionIds : status'[a] = "SUCCEEDED" => status[a] = "SUCCEEDED"
    BY <1>3 DEF Environment, Elapse, Demote, Deactivate, HrRead, HrWrite, ExpireStaleActions,
       vars, db
  <2>5. \A o \in Ops : \/ leave'[o] = leave[o]
                       \/ leave'[o] = "CLOSED"
                       \/ leave'[o] = "APPROVED_BY_HR" /\ o \in hrApproved'
    BY <1>1, <1>3 DEF Environment, Elapse, Demote, Deactivate, HrRead, HrWrite,
       ExpireStaleActions, vars, db, TypeInv, TypeOK
  <2>6. LeaveTold'
    BY <1>1, <2>1, <2>2, <2>5 DEF LeaveTold
  <2>7. SucceededIsRecorded'
    BY <1>1, <2>1, <2>2, <2>4 DEF SuccInv, SucceededIsRecorded
  <2> QED BY <1>1, <2>3, <2>6, <2>7 DEF SuccInv
<1> QED BY <1>2, <1>3 DEF Next, Rest

(* In one transaction per request, the record is that of the action.       *)
OwnRecord ==
  \A a \in ActionIds : status[a] = "SUCCEEDED" => a \in effects \/ Idle(a)

LEMMA OwnRecordNext ==
  ASSUME RequestTx
  PROVE  LifeInv /\ OwnRecord /\ [Next]_vars => OwnRecord'
<1> SUFFICES ASSUME LifeInv, OwnRecord, [Next]_vars PROVE OwnRecord'
  OBVIOUS
<1>1. MutationInv /\ TypeInv /\ effects \subseteq effects'
  BY DomainGrows, MutationTyped DEF LifeInv
<1>2. ASSUME NEW r \in Requests,
             \/ Step(r) \/ StartPropose(r) \/ Abort(r)
             \/ \E u \in Users, a \in ActionIds : StartConfirm(r, u, a)
      PROVE  OwnRecord'
  <2>1. CASE Reply(r)
    <3>1. /\ pc[r] = "reply" /\ Outcome(r) /\ effects' = effects \cup staged[r]
          /\ info' = info /\ \A a \in ActionIds : status'[a] = View(r, a)
      BY <2>1 DEF Reply, Written, LifeInv
    <3> QED BY <1>1, <3>1 DEF Outcome, View, OwnRecord, Claimable, Idle
  <2>2. CASE UNCHANGED <<status, effects>>
    <3>1. \A a \in ActionIds : status[a] = "SUCCEEDED" => info'[a] = info[a]
      BY <1>1, <1>2, StepAlone DEF Alone, TypeInv, Backed
    <3> QED BY <2>2, <3>1 DEF OwnRecord, Idle
  <2> QED BY <1>1, <1>2, <2>1, <2>2, StatusCommits
<1>3. CASE Environment \/ UNCHANGED vars
  <2>1. /\ info' = info
        /\ \A a \in ActionIds : status'[a] = "SUCCEEDED" => status[a] = "SUCCEEDED"
    BY <1>3 DEF Environment, Elapse, Demote, Deactivate, HrRead, HrWrite, ExpireStaleActions,
       vars, db
  <2> QED BY <1>1, <2>1 DEF OwnRecord, Idle
<1> QED BY <1>2, <1>3 DEF Next, Rest

(* With one transaction per request, an action reported SUCCEEDED has been *)
(* made by its own handler, unless its tool may find nothing to do: what   *)
(* others have made, or HR has approved, is never reported as its success. *)
THEOREM OwnRecordHolds == ASSUME RequestTx PROVE Spec => []OwnRecord
<1>1. Init => LifeInv /\ OwnRecord
  <2>1. Init => /\ \A a \in ActionIds : status[a] \in Reached
                /\ \A r \in Requests : Outcome(r)
                /\ OwnRecord
    BY DEF Init, Outcome, RunLabels, Reached, OwnRecord
  <2> QED BY <2>1, MutationInit DEF LifeInv
<1>2. LifeInv /\ OwnRecord /\ [Next]_vars => (LifeInv /\ OwnRecord)'
  BY LifeNext, OwnRecordNext
<1> QED BY <1>1, <1>2, PTL DEF Spec

(* An action reported SUCCEEDED is in the domain as far as the reconcile   *)
(* query of its tool can tell, or is of a tool that may find nothing to do:*)
(* in both transaction modes, across crashes between any two statements    *)
(* and whatever HR does about a leave meanwhile.                           *)
THEOREM SucceededIsRecordedHolds == Spec => []SucceededIsRecorded
<1>1. CASE RequestTx
  <2>1. OwnRecord => SucceededIsRecorded
    BY DEF OwnRecord, SucceededIsRecorded, Recorded, Idle
  <2> QED BY <1>1, <2>1, OwnRecordHolds, PTL
<1>2. CASE ~RequestTx
  <2>1. Init => SuccInv
    BY TypeInit, ClaimInit
       DEF Init, SuccInv, SeenInv, Seen, KeyInv, KeysOnce, Exists, Rooted, AllClean,
           ActingLabels, ConfirmLabels, RunLabels, SettleLabels, LeaveTold, Knows,
           SucceededIsRecorded
  <2>2. SuccInv /\ [Next]_vars => SuccInv'
    BY <1>2, SuccNext
  <2>3. SuccInv => SucceededIsRecorded
    BY DEF SuccInv
  <2> QED BY <2>1, <2>2, <2>3, PTL DEF Spec
<1> QED BY <1>1, <1>2
=============================================================================
