------------------------- MODULE AgentControlPlane -------------------------
(***************************************************************************)
(* The two-phase control plane of the AI agent: proposeAction persists a   *)
(* pending action, confirmAndExecute claims it, runs the domain handler    *)
(* and settles its status; an action found EXECUTING is reconciled with    *)
(* the domain.  HTTP requests run concurrently, and one database call is   *)
(* one step of a request.                                                  *)
(*                                                                         *)
(* The same code runs in two ways.  With row level security off            *)
(* (RequestTx = FALSE) every Prisma call commits by itself.  With it on,   *)
(* and always in production (RequestTx = TRUE), TenantDatabaseInterceptor  *)
(* wraps the request in one READ COMMITTED transaction: its writes stay    *)
(* in `draft' and `staged', hold row locks against other writers, and are  *)
(* committed by a normal response and dropped by a thrown exception.       *)
(***************************************************************************)
EXTENDS Naturals, FiniteSets, AgentToolRegistry

CONSTANTS
  Users, Ops,        \* a member of Ops: a tool with its resolved arguments
  Keys, NoKey,       \* Idempotency-Key values; no key was sent
  Requests,          \* slots for HTTP requests in flight; each is reused
  MaxActions,        \* bound: rows of agent_actions
  MaxAborts,         \* bound: crashes, database errors and timeouts
  Tool,              \* the tool of an operation
  Target,            \* what the handler's reconcile query selects on
  InitialRole,
  RequestTx,         \* one transaction per request / one per statement
  Sweeper,           \* does anything call expireStaleActions
  NoInfo,            \* the row does not exist
  NoRequest          \* the slot is idle

ActionIds == 1..MaxActions     \* in the order of createdAt

InfoType == [user : Users, op : Ops, key : Keys \cup {NoKey}]

ReqType == [user : Users, op : Ops, key : Keys \cup {NoKey},
            ifMissed : {"create", "reply"}, seen : Statuses \cup {"ABSENT"},
            inTime : BOOLEAN, barred : BOOLEAN]

ASSUME ConstantsAssumption ==
  /\ MaxActions \in Nat /\ MaxAborts \in Nat
  /\ NoKey \notin Keys /\ NoInfo \notin InfoType /\ NoRequest \notin ReqType
  /\ Tool \in [Ops -> Tools] /\ InitialRole \in [Users -> Roles]
  /\ RequestTx \in BOOLEAN /\ Sweeper \in BOOLEAN

VARIABLES
  status,    \* committed status of each row, "ABSENT" before it is inserted
  info,      \* the columns fixed at insertion: owner, operation, client key
  effects,   \* the actions whose handler has written to the domain
  leave,     \* the leave request an approve_leave operation is about
  draft,     \* per request: uncommitted statuses, "CLEAN" where none
  staged,    \* per request: uncommitted handler writes
  pc, req, act,   \* per request: next statement, arguments, action at hand
  elapsed,   \* actions whose expiresAt has passed
  role, active,   \* users as the database has them
  hrReading, \* reviewLeave and cancelLeave calls between read and update
  aborts,
  hrApproved \* history: leaves ever approved through HR

db  == <<status, info, effects, leave>>
txn == <<draft, staged>>
loc == <<req, act>>
env == <<elapsed, role, active, hrReading, aborts, hrApproved>>
vars == <<db, txn, pc, loc, env>>

LeaveStates == {"PENDING", "APPROVED_BY_AGENT", "APPROVED_BY_HR", "CLOSED"}

ProposeLabels == {"byKey", "resolve", "byOperation", "create", "raceKey", "raceOperation"}
ConfirmLabels == {"load", "check", "expire", "user", "claim", "reread"}
RunLabels     == {"execute", "verify", "succeed", "fail"}
SettleLabels  == {"reconcile", "applied", "missed", "reply"}
Labels == ProposeLabels \cup ConfirmLabels \cup RunLabels \cup SettleLabels \cup {"idle"}

AllClean == [a \in ActionIds |-> "CLEAN"]

Permitted(u, o) == u \in active /\ role[u] \in AllowedRoles(Tool[o])

(***************************************************************************)
(* The database as request r sees it, and what it may write.               *)
(***************************************************************************)
View(r, a) == IF draft[r][a] # "CLEAN" THEN draft[r][a] ELSE status[a]

Written(r) == effects \cup staged[r]

IsLeave(o) == Tool[o] = "approve_leave"

LeaveView(r, o) ==
  IF IsLeave(o) /\ \E a \in staged[r] : info[a].op = o
  THEN "APPROVED_BY_AGENT" ELSE leave[o]

Unlocked(r, a) == \A q \in Requests \ {r} : draft[q][a] = "CLEAN"

LeaveUnlocked(r, o) ==
  \A q \in Requests \ {r} : \A a \in staged[q] : IsLeave(o) => info[a].op # o

SameMutation(o1, u1, o2, u2) ==
  /\ IdempotencyStrategy(Tool[o1]) # "REQUEST_KEY"
  /\ o1 = o2
  /\ ActorIndependent(Tool[o1]) \/ u1 = u2

(* Rows with the fingerprint of request r's operation, and the newest.     *)
Rivals(r) ==
  {b \in ActionIds : /\ View(r, b) # "ABSENT"
                     /\ SameMutation(info[b].op, info[b].user, req[r].op, req[r].user)}

Newest(r, b) == b \in Rivals(r) /\ \A c \in Rivals(r) : c <= b

(* Mutant: a key is looked up together with the payload it came with.      *)
KeyRowsOfPayload(r) ==
  {b \in ActionIds : /\ req[r].key # NoKey
                     /\ View(r, b) # "ABSENT"
                     /\ info[b].user = req[r].user
                     /\ info[b].op = req[r].op
                     /\ info[b].key = req[r].key}

(* Rows in the scope school:user:tool that carry request r's client key.   *)
KeyRows(r) ==
  {b \in ActionIds : /\ req[r].key # NoKey
                     /\ View(r, b) # "ABSENT"
                     /\ info[b].user = req[r].user
                     /\ Tool[info[b].op] = Tool[req[r].op]
                     /\ info[b].key = req[r].key}

(* Mutant: the unique index on the fingerprint was never created.          *)
CollidesOnKeyOnly(r) == KeyRows(r) # {}

Collides(r) ==
  KeyRows(r) # {} \/ \E b \in Rivals(r) : View(r, b) \in Indexed

(* Another transaction has an uncommitted row with r's fingerprint or key: *)
(* the INSERT waits for it to end.                                         *)
InsertWaits(r) ==
  \E q \in Requests \ {r}, b \in ActionIds :
    /\ draft[q][b] # "CLEAN"
    /\ \/ SameMutation(info[b].op, info[b].user, req[r].op, req[r].user)
       \/ /\ req[r].key # NoKey
          /\ info[b].user = req[r].user
          /\ Tool[info[b].op] = Tool[req[r].op]
          /\ info[b].key = req[r].key

(* The partial unique index also refuses an UPDATE that brings a row back. *)
IndexAllows(r, a, s) ==
  s \in Indexed =>
    \A b \in ActionIds \ {a} :
      View(r, b) \in Indexed =>
        ~SameMutation(info[a].op, info[a].user, info[b].op, info[b].user)

(* Mutant: writes wait for a commit that autocommit mode never makes.      *)
SetStatusDeferred(r, a, s) ==
  Unlocked(r, a) /\ draft' = [draft EXCEPT ![r][a] = s] /\ UNCHANGED status

SetStatus(r, a, s) ==
  /\ Unlocked(r, a)
  /\ \/ RequestTx /\ draft' = [draft EXCEPT ![r][a] = s] /\ UNCHANGED status
     \/ ~RequestTx /\ status' = [status EXCEPT ![a] = s] /\ UNCHANGED draft

Goto(r, label) == pc' = [pc EXCEPT ![r] = label]

(* The request and its transaction are over.                              *)
Finish(r) ==
  /\ Goto(r, "idle")
  /\ req' = [req EXCEPT ![r] = NoRequest]
  /\ act' = [act EXCEPT ![r] = 0]
  /\ draft' = [draft EXCEPT ![r] = AllClean]
  /\ staged' = [staged EXCEPT ![r] = {}]

(* The handler of the route threw: the request's transaction is undone.    *)
Throw(r) == Finish(r) /\ UNCHANGED <<db, env>>

(* A step that only reads.                                                 *)
Branch(r, label) == Goto(r, label) /\ UNCHANGED <<db, txn, loc, env>>

(* A read that ends in a decision about row a.                             *)
BranchWith(r, label, a, onMiss) ==
  /\ Goto(r, label)
  /\ act' = [act EXCEPT ![r] = a]
  /\ req' = [req EXCEPT ![r].ifMissed = onMiss]
  /\ UNCHANGED <<db, txn, env>>
---------------------------------------------------------------------------
(***************************************************************************)
(* proposeAction.  A request the policy denies writes nothing and is not   *)
(* started.  The bound keeps an id free for every proposal in flight.      *)
(***************************************************************************)
Proposing == {r \in Requests : pc[r] \in ProposeLabels \cup {"reconcile", "missed"}}

Room == Cardinality({a \in ActionIds : info[a] # NoInfo}) + Cardinality(Proposing)
          < MaxActions

StartPropose(r) ==
  /\ pc[r] = "idle" /\ Room
  /\ \E u \in Users, o \in Ops, k \in Keys \cup {NoKey} :
       /\ Permitted(u, o)
       /\ req' = [req EXCEPT ![r] = [user |-> u, op |-> o, key |-> k,
                                     ifMissed |-> "reply", seen |-> "ABSENT",
                                     inTime |-> FALSE, barred |-> FALSE]]
       /\ Goto(r, IF k = NoKey THEN "resolve" ELSE "byKey")
  /\ act' = [act EXCEPT ![r] = 0]
  /\ UNCHANGED <<db, txn, env>>

(* 7. The client key was used before: same payload, same answer.           *)
LookupKey(r) ==
  /\ pc[r] = "byKey"
  /\ \/ KeyRows(r) = {} /\ Branch(r, "resolve")
     \/ \E a \in KeyRows(r) : info[a].op # req[r].op /\ Throw(r)
     \/ \E a \in KeyRows(r) :
          /\ info[a].op = req[r].op
          /\ BranchWith(r, IF View(r, a) = "EXECUTING" THEN "reconcile" ELSE "reply",
                        a, "reply")

(* 8. approve_leave needs its one pending leave; a class, session or       *)
(* subject that does not resolve ends a create_assignment.                 *)
ResolveIdentity(r) ==
  /\ pc[r] = "resolve"
  /\ \/ /\ IsLeave(req[r].op) => LeaveView(r, req[r].op) = "PENDING"
        /\ Branch(r, "byOperation")
     \/ /\ IsLeave(req[r].op) /\ LeaveView(r, req[r].op) # "PENDING"
        /\ Throw(r)
     \/ Tool[req[r].op] = "create_assignment" /\ Throw(r)

(* 10. The newest row with the same fingerprint decides.                   *)
LookupOperation(r) ==
  /\ pc[r] = "byOperation"
  /\ \/ /\ \A a \in ActionIds : Newest(r, a) => View(r, a) \notin Indexed
        /\ Branch(r, "create")
     \/ \E a \in ActionIds :
          /\ Newest(r, a)
          /\ View(r, a) \in {"SUCCEEDED", "AWAITING_CONFIRMATION", "CONFIRMED"}
          /\ BranchWith(r, "reply", a, "reply")
     \/ \E a \in ActionIds :
          /\ Newest(r, a) /\ View(r, a) = "EXECUTING"
          /\ BranchWith(r, "reconcile", a, "create")

Insert(r) ==
  \E a \in ActionIds :
    /\ info[a] = NoInfo /\ \A b \in ActionIds : info[b] = NoInfo => a <= b
    /\ SetStatus(r, a, InitialStatus(Tool[req[r].op]))
    /\ info' = [info EXCEPT ![a] = [user |-> req[r].user, op |-> req[r].op,
                                    key |-> req[r].key]]
    /\ act' = [act EXCEPT ![r] = a]

(* 14. The INSERT.  On P2002 the code reads again; inside a request        *)
(* transaction the failed INSERT has aborted it, so that read throws.      *)
CreateAction(r) ==
  /\ pc[r] = "create" /\ ~InsertWaits(r)
  /\ \/ /\ ~Collides(r) /\ Insert(r) /\ Goto(r, "reply")
        /\ UNCHANGED <<effects, leave, staged, req, env>>
     \/ Collides(r) /\ ~RequestTx /\ Branch(r, "raceKey")
     \/ Collides(r) /\ RequestTx /\ Throw(r)

RaceOnKey(r) ==
  /\ pc[r] = "raceKey"
  /\ \/ KeyRows(r) = {} /\ Branch(r, "raceOperation")
     \/ \E a \in KeyRows(r) : info[a].op # req[r].op /\ Throw(r)
     \/ \E a \in KeyRows(r) : info[a].op = req[r].op /\ BranchWith(r, "reply", a, "reply")

RaceOnOperation(r) ==
  /\ pc[r] = "raceOperation"
  /\ \/ \E a \in ActionIds :
          /\ Newest(r, a)
          /\ View(r, a) \in {"SUCCEEDED", "AWAITING_CONFIRMATION", "CONFIRMED"}
          /\ BranchWith(r, "reply", a, "reply")
     \/ /\ \A a \in ActionIds : Newest(r, a) =>
             View(r, a) \notin {"SUCCEEDED", "AWAITING_CONFIRMATION", "CONFIRMED"}
        /\ Throw(r)

(* The response: the request's transaction commits.                        *)
Reply(r) ==
  /\ pc[r] = "reply"
  /\ status' = [a \in ActionIds |-> View(r, a)]
  /\ effects' = Written(r)
  /\ leave' = [o \in Ops |-> LeaveView(r, o)]
  /\ Finish(r)
  /\ UNCHANGED <<info, env>>

---------------------------------------------------------------------------
(***************************************************************************)
(* confirmAndExecute.  `barred' records whether the caller was already     *)
(* without the right to run the action when the request came in.           *)
(***************************************************************************)
StartConfirm(r, u, a) ==
  /\ pc[r] = "idle" /\ u \in active /\ status[a] # "ABSENT"
  /\ Goto(r, "load")
  /\ act' = [act EXCEPT ![r] = a]
  /\ req' = [req EXCEPT ![r] = [user |-> u, op |-> info[a].op, key |-> NoKey,
                                ifMissed |-> "reply", seen |-> "ABSENT",
                                inTime |-> FALSE,
                                barred |-> ~Permitted(u, info[a].op)]]
  /\ UNCHANGED <<db, txn, env>>

(* 1-2. The row is read, and must belong to the caller.                    *)
LoadAction(r) ==
  /\ pc[r] = "load"
  /\ \/ info[act[r]].user # req[r].user /\ Throw(r)
     \/ /\ info[act[r]].user = req[r].user
        /\ Goto(r, "check")
        /\ req' = [req EXCEPT ![r].seen = View(r, act[r])]
        /\ UNCHANGED <<db, txn, act, env>>

(* Mutant: an EXECUTING row is refused like any other that cannot run.     *)
CheckActionStrictly(r) ==
  LET s == req[r].seen IN
  /\ pc[r] = "check"
  /\ \/ s # "EXPIRED" /\ s # "EXECUTING" /\ act[r] \in elapsed /\ Branch(r, "expire")
     \/ act[r] \notin elapsed /\ s \in Claimable /\ Branch(r, "user")
     \/ s \in {"EXECUTING", "EXPIRED"} /\ Throw(r)
     \/ act[r] \notin elapsed /\ s \notin Claimable /\ Throw(r)

(* 3-4. Expiry, by the clock of the moment, and the state machine, both on *)
(* the row as it was read; an EXECUTING row goes on to be reconciled.      *)
CheckAction(r) ==
  LET s == req[r].seen IN
  /\ pc[r] = "check"
  /\ \/ s = "EXECUTING" /\ Branch(r, "user")
     \/ s = "EXPIRED" /\ Throw(r)
     \/ s \notin {"EXECUTING", "EXPIRED"} /\ act[r] \in elapsed /\ Branch(r, "expire")
     \/ /\ s # "EXPIRED" /\ act[r] \notin elapsed
        /\ "EXECUTING" \in AllowedTransitions(s) /\ Branch(r, "user")
     \/ /\ s \notin {"EXECUTING", "EXPIRED"} /\ act[r] \notin elapsed
        /\ "EXECUTING" \notin AllowedTransitions(s) /\ Throw(r)

(* Mutant: ACTION_EXPIRED is thrown without a mark on the row.             *)
ExpireOnConfirmUnmarked(r) == pc[r] = "expire" /\ Throw(r)

(* 3. The row is marked EXPIRED whatever it is by now, and then            *)
(* ACTION_EXPIRED is thrown, which takes the mark back in a transaction.   *)
ExpireOnConfirm(r) ==
  /\ pc[r] = "expire"
  /\ Unlocked(r, act[r])
  /\ \/ RequestTx /\ UNCHANGED status
     \/ ~RequestTx /\ status' = [status EXCEPT ![act[r]] = "EXPIRED"]
  /\ Finish(r)
  /\ UNCHANGED <<info, effects, leave, env>>

(* Mutant: the policy is trusted to be what it was at the proposal.        *)
RecheckUserActiveOnly(r) ==
  /\ pc[r] = "user"
  /\ \/ /\ req[r].user \in active /\ req[r].seen = "EXECUTING"
        /\ Branch(r, "reconcile")
     \/ /\ req[r].user \in active /\ req[r].seen # "EXECUTING"
        /\ Goto(r, "claim")
        /\ req' = [req EXCEPT ![r].inTime = act[r] \notin elapsed]
        /\ UNCHANGED <<db, txn, act, env>>
     \/ req[r].user \notin active /\ Throw(r)

(* 6-8. The user is read again.  An EXECUTING row only needs the caller to *)
(* be active; otherwise the policy is evaluated with the current role, and *)
(* the clock is read for the compare-and-set that comes next.              *)
RecheckUser(r) ==
  /\ pc[r] = "user"
  /\ \/ /\ req[r].seen = "EXECUTING" /\ req[r].user \in active
        /\ Branch(r, "reconcile")
     \/ /\ req[r].seen # "EXECUTING" /\ Permitted(req[r].user, info[act[r]].op)
        /\ Goto(r, "claim")
        /\ req' = [req EXCEPT ![r].inTime = act[r] \notin elapsed]
        /\ UNCHANGED <<db, txn, act, env>>
     \/ /\ \/ req[r].user \notin active
           \/ req[r].seen # "EXECUTING" /\ ~Permitted(req[r].user, info[act[r]].op)
        /\ Throw(r)

(* Mutant: the claim tests the expiry and forgets the status.              *)
MayClaimInTime(r) == req[r].inTime

(* 9. The compare-and-set.  In a transaction it waits for the row lock and *)
(* then looks at the row as it was committed.                              *)
MayClaim(r) == View(r, act[r]) \in Claimable /\ req[r].inTime

Claim(r) ==
  /\ pc[r] = "claim"
  /\ Unlocked(r, act[r])
  /\ \/ /\ MayClaim(r)
        /\ SetStatus(r, act[r], "EXECUTING") /\ Goto(r, "execute")
        /\ UNCHANGED <<info, effects, leave, staged, loc, env>>
     \/ ~MayClaim(r) /\ Branch(r, "reread")

(* Mutant: a lost claim is tried again until it is won.                    *)
RetryAfterClaim(r) ==
  /\ pc[r] = "reread"
  /\ \/ View(r, act[r]) = "SUCCEEDED" /\ Branch(r, "reply")
     \/ View(r, act[r]) # "SUCCEEDED" /\ Branch(r, "claim")

(* The claim was lost: report what the winner made of the action.          *)
RereadAfterClaim(r) ==
  /\ pc[r] = "reread"
  /\ \/ View(r, act[r]) = "SUCCEEDED" /\ Branch(r, "reply")
     \/ View(r, act[r]) = "EXECUTING" /\ Branch(r, "reconcile")
     \/ View(r, act[r]) \notin {"SUCCEEDED", "EXECUTING"} /\ Throw(r)

(* 10. handler.execute.  Approving a leave is itself conditional on the    *)
(* leave being PENDING; the other tools insert what they are asked for.    *)
HandlerWrites(r) ==
  LET a == act[r]
      o == info[a].op
  IN /\ pc[r] = "execute"
     /\ LeaveUnlocked(r, o)
     /\ IsLeave(o) => LeaveView(r, o) = "PENDING"
     /\ Goto(r, "verify")
     /\ \/ /\ RequestTx
           /\ staged' = [staged EXCEPT ![r] = @ \cup {a}]
           /\ UNCHANGED <<effects, leave>>
        \/ /\ ~RequestTx
           /\ effects' = effects \cup {a}
           /\ leave' = IF IsLeave(o) THEN [leave EXCEPT ![o] = "APPROVED_BY_AGENT"]
                        ELSE leave
           /\ UNCHANGED staged
     /\ UNCHANGED <<status, info, draft, loc, env>>

(* The handler throws before it writes: a leave that is no longer pending, *)
(* a missing staff profile, no recipient.                                  *)
HandlerRefuses(r) ==
  /\ pc[r] = "execute"
  /\ LeaveUnlocked(r, info[act[r]].op)
  /\ IsLeave(info[act[r]].op) => LeaveView(r, info[act[r]].op) # "PENDING"
  /\ Branch(r, "fail")

(* The handler ends normally and has written nothing.  Its verify then has *)
(* nothing to look for, and the action goes on to be marked SUCCEEDED.     *)
HandlerIdles(r) ==
  pc[r] = "execute" /\ MayDoNothing(Tool[info[act[r]].op]) /\ Branch(r, "succeed")

(* Mutant: a verification that misses a write it should have found.        *)
VerifyBlindly(r) ==
  pc[r] = "verify" /\ \E label \in {"succeed", "fail"} : Branch(r, label)

(* 11. handler.verify.  It can also throw after the write was made: on a   *)
(* failed call when calls commit alone, on a missing item of several.      *)
Verify(r) ==
  LET o == info[act[r]].op
      ok == IsLeave(o) => LeaveView(r, o) = "APPROVED_BY_AGENT"
  IN /\ pc[r] = "verify"
     /\ \/ ok /\ Branch(r, "succeed")
        \/ /\ ~ok \/ ~RequestTx \/ SeveralItems(Tool[o])
           /\ Branch(r, "fail")

(* 12. The UPDATE to SUCCEEDED names the row by id only; refused by the    *)
(* index, it is an error like the others and the row is marked FAILED.     *)
(* (A row claimed in an open transaction stays indexed to its end, so that *)
(* only calls that commit alone can be refused here.)                      *)
MarkSucceeded(r) ==
  /\ pc[r] = "succeed"
  /\ \/ /\ IndexAllows(r, act[r], "SUCCEEDED")
        /\ SetStatus(r, act[r], "SUCCEEDED") /\ Goto(r, "reply")
        /\ UNCHANGED <<info, effects, leave, staged, loc, env>>
     \/ ~IndexAllows(r, act[r], "SUCCEEDED") /\ Branch(r, "fail")

MarkFailed(r) ==
  /\ pc[r] = "fail"
  /\ SetStatus(r, act[r], "FAILED") /\ Goto(r, "reply")
  /\ UNCHANGED <<info, effects, leave, staged, loc, env>>

---------------------------------------------------------------------------
(***************************************************************************)
(* reconcileAction, on an action found EXECUTING: ask the handler whether  *)
(* the mutation is in the domain, then settle the row by id.               *)
(***************************************************************************)
(* Mutant: any leave that is no longer pending counts as approved.         *)
FoundNotPending(r, a) == IsLeave(info[a].op) /\ LeaveView(r, info[a].op) # "PENDING"

(* The reconcile query matches on the target, and on the acting user where *)
(* the rows it looks for carry one; a leave is judged by its status.       *)
Found(r, a) ==
  IF IsLeave(info[a].op)
  THEN LeaveView(r, info[a].op) \in {"APPROVED_BY_AGENT", "APPROVED_BY_HR"}
  ELSE \E b \in Written(r) :
         /\ Target[info[b].op] = Target[info[a].op]
         /\ ActorScoped(Tool[info[a].op]) => info[b].user = info[a].user

Verdicts(r, a) ==
  CASE Found(r, a) /\ SeveralItems(Tool[info[a].op]) -> {"APPLIED", "NOT_APPLIED"}
    [] Found(r, a)  -> {"APPLIED"}
    [] ~Found(r, a) /\ IsLeave(info[a].op) /\ LeaveView(r, info[a].op) # "PENDING"
                    -> {"UNKNOWN"}
    [] OTHER        -> {MissVerdict(Tool[info[a].op])}

Reconcile(r) ==
  /\ pc[r] = "reconcile"
  /\ \/ "APPLIED" \in Verdicts(r, act[r]) /\ Branch(r, "applied")
     \/ "NOT_APPLIED" \in Verdicts(r, act[r]) /\ Branch(r, "missed")
     \/ "UNKNOWN" \in Verdicts(r, act[r]) /\ Throw(r)

SettleApplied(r) ==
  /\ pc[r] = "applied"
  /\ \/ /\ IndexAllows(r, act[r], "SUCCEEDED")
        /\ SetStatus(r, act[r], "SUCCEEDED") /\ Goto(r, "reply")
        /\ UNCHANGED <<info, effects, leave, staged, loc, env>>
     \/ ~IndexAllows(r, act[r], "SUCCEEDED") /\ Throw(r)

(* Mutant: the action goes back to be confirmed a second time.             *)
SettleMissedForRetry(r) ==
  /\ pc[r] = "missed"
  /\ SetStatus(r, act[r], "AWAITING_CONFIRMATION") /\ Goto(r, "reply")
  /\ UNCHANGED <<info, effects, leave, staged, loc, env>>

(* A proposal that met the row by its fingerprint then inserts a new one.  *)
SettleMissed(r) ==
  /\ pc[r] = "missed"
  /\ SetStatus(r, act[r], "FAILED") /\ Goto(r, req[r].ifMissed)
  /\ UNCHANGED <<info, effects, leave, staged, loc, env>>

---------------------------------------------------------------------------
(***************************************************************************)
(* What happens around the requests.                                       *)
(***************************************************************************)
(* A crash, a lost connection, the 15 s transaction timeout: the request   *)
(* ends where it is, and what it has not committed is gone.                *)
Abort(r) ==
  /\ pc[r] # "idle" /\ aborts < MaxAborts
  /\ aborts' = aborts + 1
  /\ Finish(r)
  /\ UNCHANGED <<db, elapsed, role, active, hrReading, hrApproved>>

Elapse(a) ==
  /\ info[a] # NoInfo /\ a \notin elapsed
  /\ elapsed' = elapsed \cup {a}
  /\ UNCHANGED <<db, txn, pc, loc, role, active, hrReading, aborts, hrApproved>>

(* expireStaleActions: one conditional UPDATE over all stale rows.         *)
Stale(a) == status[a] \in Claimable /\ a \in elapsed

ExpireStaleActions ==
  /\ Sweeper
  /\ \E a \in ActionIds : Stale(a)
  /\ \A a \in ActionIds, r \in Requests : Stale(a) => draft[r][a] = "CLEAN"
  /\ status' = [a \in ActionIds |-> IF Stale(a) THEN "EXPIRED" ELSE status[a]]
  /\ UNCHANGED <<info, effects, leave, txn, pc, loc, env>>

Demote(u) ==
  /\ role[u] # "TEACHER"
  /\ role' = [role EXCEPT ![u] = "TEACHER"]
  /\ UNCHANGED <<db, txn, pc, loc, elapsed, active, hrReading, aborts, hrApproved>>

Deactivate(u) ==
  /\ u \in active /\ active' = active \ {u}
  /\ UNCHANGED <<db, txn, pc, loc, elapsed, role, hrReading, aborts, hrApproved>>

(* reviewLeave and cancelLeave read the leave, require PENDING, and then   *)
(* update it by id.                                                        *)
HrRead(o, outcome) ==
  /\ IsLeave(o) /\ leave[o] = "PENDING" /\ <<o, outcome>> \notin hrReading
  /\ hrReading' = hrReading \cup {<<o, outcome>>}
  /\ UNCHANGED <<db, txn, pc, loc, elapsed, role, active, aborts, hrApproved>>

HrWrite(o, outcome) ==
  /\ <<o, outcome>> \in hrReading
  /\ \A q \in Requests : \A a \in staged[q] : info[a].op # o
  /\ hrReading' = hrReading \ {<<o, outcome>>}
  /\ leave' = [leave EXCEPT ![o] = outcome]
  /\ hrApproved' = IF outcome = "APPROVED_BY_HR" THEN hrApproved \cup {o} ELSE hrApproved
  /\ UNCHANGED <<status, info, effects, txn, pc, loc, elapsed, role, active, aborts>>

---------------------------------------------------------------------------
Init ==
  /\ status = [a \in ActionIds |-> "ABSENT"]
  /\ info = [a \in ActionIds |-> NoInfo]
  /\ effects = {}
  /\ leave = [o \in Ops |-> "PENDING"]
  /\ draft = [r \in Requests |-> AllClean]
  /\ staged = [r \in Requests |-> {}]
  /\ pc = [r \in Requests |-> "idle"]
  /\ req = [r \in Requests |-> NoRequest]
  /\ act = [r \in Requests |-> 0]
  /\ elapsed = {} /\ role = InitialRole /\ active = Users
  /\ hrReading = {} /\ aborts = 0 /\ hrApproved = {}

ProposeStep(r) ==
  \/ LookupKey(r) \/ ResolveIdentity(r) \/ LookupOperation(r)
  \/ CreateAction(r) \/ RaceOnKey(r) \/ RaceOnOperation(r)

ConfirmStep(r) ==
  \/ LoadAction(r) \/ CheckAction(r) \/ ExpireOnConfirm(r) \/ RecheckUser(r)
  \/ Claim(r) \/ RereadAfterClaim(r)
  \/ HandlerWrites(r) \/ HandlerRefuses(r) \/ HandlerIdles(r) \/ Verify(r)
  \/ MarkSucceeded(r) \/ MarkFailed(r)

SettleStep(r) == Reconcile(r) \/ SettleApplied(r) \/ SettleMissed(r) \/ Reply(r)

Step(r) == ProposeStep(r) \/ ConfirmStep(r) \/ SettleStep(r)

Environment ==
  \/ \E a \in ActionIds : Elapse(a)
  \/ \E u \in Users : Demote(u) \/ Deactivate(u)
  \/ \E o \in Ops, outcome \in {"APPROVED_BY_HR", "CLOSED"} :
       HrRead(o, outcome) \/ HrWrite(o, outcome)
  \/ ExpireStaleActions

(* Nothing in flight: the system may rest here, and only here.             *)
Rest == (\A r \in Requests : pc[r] = "idle") /\ UNCHANGED vars

Next ==
  \/ \E r \in Requests :
       \/ StartPropose(r)
       \/ \E u \in Users, a \in ActionIds : StartConfirm(r, u, a)
       \/ Step(r)
       \/ Abort(r)
  \/ Environment
  \/ Rest

Spec == Init /\ [][Next]_vars

(* Every request runs on until it ends.  A statement that waits for a row  *)
(* lock is queued by the database.                                         *)
FairSpec == Spec /\ \A r \in Requests : WF_vars(Step(r))

(* The owner of an action keeps asking for it.                             *)
OwnerConfirms(a) ==
  info[a] # NoInfo /\ \E r \in Requests : StartConfirm(r, info[a].user, a)

InsistentSpec == FairSpec /\ \A a \in ActionIds : SF_vars(OwnerConfirms(a))

---------------------------------------------------------------------------
(***************************************************************************)
(* Properties.                                                             *)
(***************************************************************************)
(* Every variable holds a value of its kind; in autocommit mode nothing is *)
(* ever uncommitted.                                                       *)
TypeOK ==
  /\ status \in [ActionIds -> Statuses \cup {"ABSENT"}]
  /\ info \in [ActionIds -> InfoType \cup {NoInfo}]
  /\ effects \in SUBSET ActionIds
  /\ leave \in [Ops -> LeaveStates]
  /\ draft \in [Requests -> [ActionIds -> Statuses \cup {"CLEAN"}]]
  /\ staged \in [Requests -> SUBSET ActionIds]
  /\ pc \in [Requests -> Labels]
  /\ req \in [Requests -> ReqType \cup {NoRequest}]
  /\ act \in [Requests -> ActionIds \cup {0}]
  /\ elapsed \in SUBSET ActionIds
  /\ role \in [Users -> Roles] /\ active \in SUBSET Users
  /\ hrReading \in SUBSET (Ops \X {"APPROVED_BY_HR", "CLOSED"})
  /\ aborts \in 0..MaxAborts /\ hrApproved \in SUBSET Ops
  /\ ~RequestTx => /\ draft = [r \in Requests |-> AllClean]
                   /\ staged = [r \in Requests |-> {}]

(* At most one request at a time runs the handler of an action, whatever   *)
(* confirmations, retries and reconciliations meet on it.                  *)
OneExecutor ==
  \A r, q \in Requests :
    r # q /\ pc[r] \in RunLabels /\ pc[q] \in RunLabels => act[r] # act[q]

(* An action once claimed, settled or expired can never be claimed again:  *)
(* with the compare-and-set, it is dispatched at most once in its life.    *)
NeverReopened ==
  [][\A a \in ActionIds :
       status[a] \notin Claimable \cup {"ABSENT"} => status'[a] \notin Claimable]_vars

(* A logical mutation is made at most once, however often it is proposed   *)
(* and confirmed, by whomever, across failures and retries.                *)
AppliedOnce ==
  \A a, b \in effects :
    /\ ~SeveralItems(Tool[info[a].op])
    /\ SameMutation(info[a].op, info[a].user, info[b].op, info[b].user)
    => a = b

(* Within one user and tool, an Idempotency-Key stands for one action: the *)
(* mutation asked for with it is made at most once.                        *)
KeyMadeOnce ==
  \A a, b \in effects :
    /\ info[a].key # NoKey /\ info[a].key = info[b].key
    /\ info[a].user = info[b].user /\ Tool[info[a].op] = Tool[info[b].op]
    => a = b

(* The domain holds what the reconcile query of the action's tool selects, *)
(* or the leave was approved through HR.                                   *)
Recorded(a) ==
  \/ info[a].op \in hrApproved
  \/ \E b \in effects : /\ Target[info[b].op] = Target[info[a].op]
                        /\ ActorScoped(Tool[info[a].op]) => info[b].user = info[a].user

(* An action reported SUCCEEDED, by its own run or by a reconciliation     *)
(* after a crash, is in the domain as far as its tool can tell; only tools *)
(* that may find nothing to do succeed with nothing done.                  *)
SucceededIsRecorded ==
  \A a \in ActionIds :
    status[a] = "SUCCEEDED" => Recorded(a) \/ MayDoNothing(Tool[info[a].op])

(* A user who had lost the right to run an action before asking for it     *)
(* never gets it run, however the request interleaves with the change.     *)
NoBarredExecution ==
  \A r \in Requests : pc[r] \in RunLabels => ~req[r].barred

(* No request waits for ever, for a row lock or for another request.       *)
RequestsEnd == \A r \in Requests : pc[r] # "idle" ~> pc[r] = "idle"

(* An action past its expiry does not stay open, and so does not keep its  *)
(* fingerprint from new proposals, while its owner is there to confirm it. *)
SlotReleased ==
  \A a \in ActionIds : Stale(a) ~> (~Stale(a) \/ info[a].user \notin active)

(* What no reconciliation can tell: whether a digest was sent, and whether *)
(* a leave that HR has closed had been approved before.                    *)
CannotTell(a) ==
  \/ MissVerdict(Tool[info[a].op]) = "UNKNOWN"
  \/ IsLeave(info[a].op) /\ leave[info[a].op] = "CLOSED"

(* An action whose execution was cut short is settled in the end, while    *)
(* its owner is there to confirm it and the domain tells what became of it.*)
InterruptedIsSettled ==
  \A a \in ActionIds :
    status[a] = "EXECUTING" ~>
      (status[a] # "EXECUTING" \/ info[a].user \notin active \/ CannotTell(a))

---------------------------------------------------------------------------
(***************************************************************************)
(* In one transaction per request the committed database implements the    *)
(* lifecycle.                                                              *)
(***************************************************************************)
StageOf(s) ==
  CASE s = "ABSENT"    -> "none"
    [] s = "SUCCEEDED" -> "done"
    [] s = "FAILED"    -> "failed"
    [] s = "EXPIRED"   -> "expired"
    [] OTHER           -> "pending"

MutationOf(a) ==
  CASE IdempotencyStrategy(Tool[info[a].op]) = "REQUEST_KEY" -> <<"request", a>>
    [] ActorIndependent(Tool[info[a].op]) -> <<"shared", info[a].op>>
    [] OTHER -> <<"own", info[a].op, info[a].user>>

OwnMutations == {"own"} \X Ops \X Users

Lifecycle == INSTANCE AgentActionLifecycle WITH
  Actions    <- ActionIds,
  Mutations  <- ({"request"} \X ActionIds) \cup ({"shared"} \X Ops) \cup OwnMutations,
  MayBeEmpty <- {m \in OwnMutations : MayDoNothing(Tool[m[2]])},
  life <- [a \in ActionIds |-> StageOf(status[a])],
  what <- [a \in ActionIds |-> IF status[a] = "ABSENT" THEN {} ELSE {MutationOf(a)}],
  made <- {a \in effects : SeveralItems(Tool[info[a].op]) => status[a] = "SUCCEEDED"}

(* Every commit is one step of the lifecycle.  Of several items, some of   *)
(* which were written before the action was reported FAILED, nothing       *)
(* counts as made.                                                         *)
ImplementsLifecycle == Lifecycle!LifecycleSpec
=============================================================================
