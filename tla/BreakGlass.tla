----------------------------- MODULE BreakGlass -----------------------------
(***************************************************************************)
(* Emergency access grants.  A platform administrator requests access to a *)
(* school, another one approves it for a time, anyone of them revokes it,  *)
(* and a scheduled sweep expires what has run out; every change leaves an  *)
(* entry in the school's audit chain, and every HTTP request one more in   *)
(* the platform's.                                                         *)
(*                                                                         *)
(* Production: a request, and the whole sweep, is one READ COMMITTED       *)
(* transaction.  It sees committed rows and its own, its row and advisory  *)
(* locks last to its end, and an exception undoes it.                      *)
(***************************************************************************)
EXTENDS AuditTrail

CONSTANTS
  Admins, Schools, Platform,
  Requests,      \* slots for HTTP requests in flight; each is reused
  Cron,          \* the slot of the sweep, which does not overlap itself
  NoRequest,     \* the slot is idle
  NoGrant,       \* the row does not exist
  MaxGrants,     \* bound: rows of break_glass_grants
  MaxEntries,    \* bound: entries issued before HTTP requests stop coming
  MaxAborts      \* bound: crashes, database errors and timeouts

Grants == 1..MaxGrants

GrantType == [requester : Admins, school : Schools]

Statuses == {"NONE", "PENDING", "ACTIVE", "REVOKED", "EXPIRED"}

Open == {"PENDING", "ACTIVE"}

Kinds == {"request", "approve", "revoke"}

ReqType == [kind : Kinds, admin : Admins, school : Schools]

Slots == Requests \cup {Cron}

ASSUME ConstantsAssumption ==
  /\ MaxGrants \in Nat /\ MaxEntries \in Nat /\ MaxAborts \in Nat
  /\ NoRequest \notin ReqType /\ NoGrant \notin GrantType
  /\ Platform \notin Schools /\ Cron \notin Requests
  /\ Chains = Schools \cup {Platform}
  /\ Subjects = Grants \cup {0} /\ Values = Statuses

VARIABLES
  status,     \* committed status of each grant, "NONE" before it is inserted
  info,       \* the columns fixed at insertion
  approver,   \* who approved the grant, {} before
  elapsed,    \* grants whose expiresAt has passed
  draft,      \* per slot: uncommitted statuses, "CLEAN" where none
  entries,    \* per slot: uncommitted audit entries
  pc, req,    \* per slot: next statement, arguments
  grant,      \* per slot: the grant at hand, 0 when there is none
  seen,       \* per slot: its status as it was read
  todo,       \* the grants the sweep has listed and not come to
  locks,      \* per slot: the advisory locks it holds
  aborts

row  == <<status, info, approver, elapsed>>
txn  == <<draft, entries, locks>>
loc  == <<req, grant, seen, todo>>
vars == <<trail, row, txn, pc, loc, aborts>>

Labels == {"idle", "request", "load", "claim", "revoke", "next", "expire",
           "auditSchool", "auditPlatform", "commit"}

AllClean == [g \in Grants |-> "CLEAN"]

PairLock(r) == <<req[r].admin, req[r].school>>

LockNames == Chains \cup (Admins \X Schools)

Free(r, l) == \A q \in Slots \ {r} : l \notin locks[q]

Unlocked(r, g) == \A q \in Slots \ {r} : draft[q][g] = "CLEAN"

Goto(r, label) == pc' = [pc EXCEPT ![r] = label]

Branch(r, label) == Goto(r, label) /\ UNCHANGED <<trail, row, txn, loc, aborts>>

(* Mutant: the locks are of the session, and outlive the transaction.      *)
FinishSession(r) ==
  /\ Goto(r, "idle")
  /\ req' = [req EXCEPT ![r] = NoRequest]
  /\ grant' = [grant EXCEPT ![r] = 0]
  /\ seen' = [seen EXCEPT ![r] = "NONE"]
  /\ todo' = IF r = Cron THEN {} ELSE todo
  /\ draft' = [draft EXCEPT ![r] = AllClean]
  /\ entries' = [entries EXCEPT ![r] = {}]
  /\ UNCHANGED locks

Finish(r) ==
  /\ Goto(r, "idle")
  /\ req' = [req EXCEPT ![r] = NoRequest]
  /\ grant' = [grant EXCEPT ![r] = 0]
  /\ seen' = [seen EXCEPT ![r] = "NONE"]
  /\ todo' = IF r = Cron THEN {} ELSE todo
  /\ draft' = [draft EXCEPT ![r] = AllClean]
  /\ entries' = [entries EXCEPT ![r] = {}]
  /\ locks' = [locks EXCEPT ![r] = {}]

Throw(r) == Finish(r) /\ UNCHANGED <<trail, row, aborts>>

Change(r, g, s, label) ==
  /\ draft' = [draft EXCEPT ![r][g] = s]
  /\ Goto(r, label)
  /\ UNCHANGED <<trail, row, entries, locks, loc, aborts>>

---------------------------------------------------------------------------
Room ==
  /\ issued + 2 * Cardinality({r \in Requests : pc[r] # "idle"}) < MaxEntries

Start(r, kind, u, s, g, label) ==
  /\ pc[r] = "idle" /\ Room
  /\ Goto(r, label)
  /\ req' = [req EXCEPT ![r] = [kind |-> kind, admin |-> u, school |-> s]]
  /\ grant' = [grant EXCEPT ![r] = g]
  /\ UNCHANGED <<trail, row, txn, seen, todo, aborts>>

FreeGrants == {g \in Grants : info[g] = NoGrant}

StartRequest(r, u, s) ==
  /\ Cardinality({q \in Requests : pc[q] = "request"}) < Cardinality(FreeGrants)
  /\ Start(r, "request", u, s, 0, "request")

StartApprove(r, u, g) ==
  status[g] # "NONE" /\ Start(r, "approve", u, info[g].school, g, "load")

StartRevoke(r, u, g) ==
  status[g] # "NONE" /\ Start(r, "revoke", u, info[g].school, g, "load")

---------------------------------------------------------------------------
(***************************************************************************)
(* request                                                                 *)
(***************************************************************************)
Mine(r) == {g \in Grants : /\ status[g] \in Open
                           /\ info[g].requester = req[r].admin
                           /\ info[g].school = req[r].school}

(* The row is inserted at the lowest number that has not been used.        *)
Insert(r, held) ==
  /\ \E g \in FreeGrants :
       /\ \A h \in FreeGrants : g <= h
       /\ info' = [info EXCEPT ![g] = [requester |-> req[r].admin,
                                       school |-> req[r].school]]
       /\ grant' = [grant EXCEPT ![r] = g]
       /\ draft' = [draft EXCEPT ![r][g] = "PENDING"]
  /\ locks' = [locks EXCEPT ![r] = @ \cup held]
  /\ Goto(r, "auditSchool")
  /\ UNCHANGED <<trail, status, approver, elapsed, entries, req, seen, todo, aborts>>

(* Mutant: the lock is gone before the row is committed.                   *)
RequestAccessUnlocked(r) ==
  /\ pc[r] = "request"
  /\ \/ Mine(r) # {} /\ Throw(r)
     \/ Mine(r) = {} /\ Insert(r, {})

(* The statements that follow the lock see what they saw if they were one: *)
(* nobody else inserts a grant of the pair.                                *)
RequestAccess(r) ==
  /\ pc[r] = "request" /\ Free(r, PairLock(r))
  /\ \/ Mine(r) # {} /\ Throw(r)
     \/ Mine(r) = {} /\ Insert(r, {PairLock(r)})

---------------------------------------------------------------------------
(***************************************************************************)
(* approve, revoke                                                         *)
(***************************************************************************)
(* approve wants a pending request of somebody else; revoke any grant.     *)
Load(r) ==
  LET s == status[grant[r]] IN
  /\ pc[r] = "load"
  /\ \/ /\ req[r].kind = "approve"
        /\ s # "PENDING" \/ info[grant[r]].requester = req[r].admin
        /\ Throw(r)
     \/ /\ req[r].kind = "approve" => /\ s = "PENDING"
                                      /\ info[grant[r]].requester # req[r].admin
        /\ Goto(r, IF req[r].kind = "approve" THEN "claim" ELSE "revoke")
        /\ seen' = [seen EXCEPT ![r] = s]
        /\ UNCHANGED <<trail, row, txn, req, grant, todo, aborts>>

(* Mutant: approve updates by id.                                          *)
ClaimById(r) ==
  pc[r] = "claim" /\ Unlocked(r, grant[r]) /\ Change(r, grant[r], "ACTIVE", "auditSchool")

(* The compare-and-set of approve.                                         *)
Claim(r) ==
  /\ pc[r] = "claim" /\ Unlocked(r, grant[r])
  /\ \/ status[grant[r]] = "PENDING" /\ Change(r, grant[r], "ACTIVE", "auditSchool")
     \/ status[grant[r]] # "PENDING" /\ Throw(r)

(* The update of revoke is by id.                                          *)
Revoke(r) ==
  /\ pc[r] = "revoke" /\ Unlocked(r, grant[r])
  /\ Change(r, grant[r], "REVOKED", "auditSchool")

---------------------------------------------------------------------------
(***************************************************************************)
(* expireElapsedGrants                                                     *)
(***************************************************************************)
List ==
  /\ pc[Cron] = "idle"
  /\ todo' = {g \in elapsed : status[g] = "ACTIVE"}
  /\ todo' # {}
  /\ Goto(Cron, "next")
  /\ UNCHANGED <<trail, row, txn, req, grant, seen, aborts>>

(* In the order of the list, which the query leaves open.                  *)
NextGrant ==
  /\ pc[Cron] = "next"
  /\ \/ todo = {} /\ Branch(Cron, "commit")
     \/ \E g \in todo :
          /\ grant' = [grant EXCEPT ![Cron] = g]
          /\ todo' = todo \ {g}
          /\ seen' = [seen EXCEPT ![Cron] = "ACTIVE"]
          /\ Goto(Cron, "expire")
          /\ UNCHANGED <<trail, row, txn, req, aborts>>

(* Mutant: the sweep expires requests that nobody has approved.            *)
ExpireGrantPending ==
  /\ pc[Cron] = "expire" /\ Unlocked(Cron, grant[Cron])
  /\ \/ status[grant[Cron]] = "PENDING" /\ Change(Cron, grant[Cron], "EXPIRED", "auditSchool")
     \/ status[grant[Cron]] # "PENDING" /\ Branch(Cron, "next")

(* Mutant: the entry is written whether or not the update found the row.   *)
ExpireGrantUnchecked ==
  /\ pc[Cron] = "expire" /\ Unlocked(Cron, grant[Cron])
  /\ \/ status[grant[Cron]] = "ACTIVE" /\ Change(Cron, grant[Cron], "EXPIRED", "auditSchool")
     \/ status[grant[Cron]] # "ACTIVE" /\ Branch(Cron, "auditSchool")

(* Conditional on ACTIVE; a grant that was revoked meanwhile is skipped.   *)
ExpireGrant ==
  /\ pc[Cron] = "expire" /\ Unlocked(Cron, grant[Cron])
  /\ \/ status[grant[Cron]] = "ACTIVE" /\ Change(Cron, grant[Cron], "EXPIRED", "auditSchool")
     \/ status[grant[Cron]] # "ACTIVE" /\ Branch(Cron, "next")

---------------------------------------------------------------------------
(***************************************************************************)
(* recordMutation, and the end of the transaction.                         *)
(***************************************************************************)
School(r) == info[grant[r]].school

(* Mutant: the entry is written on a connection of its own.                *)
AuditSchoolOutside(r) ==
  /\ pc[r] = "auditSchool" /\ Free(r, School(r))
  /\ \E n \in 0..issued :
       /\ IsNewest(log, School(r), n)
       /\ log' = log \cup {Entry(School(r), n, grant[r], seen[r], draft[r][grant[r]])}
  /\ issued' = issued + 1
  /\ Goto(r, IF r = Cron THEN "next" ELSE "auditPlatform")
  /\ UNCHANGED <<entries, now, row, draft, locks, loc, aborts>>

(* recordMutation: whoever holds the lock of the chain is the only one to  *)
(* read its newest entry and to insert one, to the end of the transaction. *)
Record(r, c, about, before, after, held, label) ==
  /\ \E n \in 0..issued :
       /\ IsNewest(log \cup entries[r], c, n)
       /\ entries' = [entries EXCEPT ![r] = @ \cup {Entry(c, n, about, before, after)}]
  /\ issued' = issued + 1
  /\ locks' = [locks EXCEPT ![r] = @ \cup held]
  /\ Goto(r, label)
  /\ UNCHANGED <<log, now, row, draft, loc, aborts>>

AfterSchool(r) == IF r = Cron THEN "next" ELSE "auditPlatform"

(* Mutant: the lock is not held to the end of the transaction.             *)
AuditSchoolUnlocked(r) ==
  /\ pc[r] = "auditSchool" /\ Free(r, School(r))
  /\ Record(r, School(r), grant[r], seen[r], draft[r][grant[r]], {}, AfterSchool(r))

(* The entry of the service, with the grant before and after.              *)
AuditSchool(r) ==
  /\ pc[r] = "auditSchool" /\ Free(r, School(r))
  /\ Record(r, School(r), grant[r], seen[r], draft[r][grant[r]], {School(r)},
            AfterSchool(r))

(* The entry of AuditLogInterceptor, about the request as such.            *)
AuditPlatform(r) ==
  /\ pc[r] = "auditPlatform" /\ Free(r, Platform)
  /\ Record(r, Platform, 0, "NONE", "NONE", {Platform}, "commit")

Commit(r) ==
  /\ pc[r] = "commit"
  /\ status' = [g \in Grants |-> IF draft[r][g] = "CLEAN" THEN status[g] ELSE draft[r][g]]
  /\ approver' = [g \in Grants |->
                    IF draft[r][g] = "ACTIVE" THEN {req[r].admin} ELSE approver[g]]
  /\ log' = log \cup entries[r]
  /\ Finish(r)
  /\ UNCHANGED <<issued, now, info, elapsed, aborts>>

---------------------------------------------------------------------------
(***************************************************************************)
(* What happens around the requests.                                       *)
(***************************************************************************)
Elapse(g) ==
  /\ status[g] = "ACTIVE" /\ g \notin elapsed
  /\ elapsed' = elapsed \cup {g}
  /\ UNCHANGED <<trail, status, info, approver, txn, pc, loc, aborts>>

Abort(r) ==
  /\ pc[r] # "idle" /\ aborts < MaxAborts
  /\ aborts' = aborts + 1
  /\ Finish(r)
  /\ UNCHANGED <<trail, row>>

Wants(r) ==
  CASE pc[r] = "request"       -> {PairLock(r)}
    [] pc[r] = "auditSchool"   -> {School(r)}
    [] pc[r] = "auditPlatform" -> {Platform}
    [] OTHER                   -> {}

WaitsFor(r, q) ==
  /\ q # r
  /\ \/ Wants(r) \cap locks[q] # {}
     \/ pc[r] \in {"claim", "revoke", "expire"} /\ draft[q][grant[r]] # "CLEAN"

Deadlocked(S) == \A r \in S : \E q \in S : WaitsFor(r, q)

(* The database finds a cycle of transactions that wait for one another,   *)
(* and fails one of them.                                                  *)
DeadlockVictim(r) ==
  /\ \E S \in SUBSET Slots :
       /\ r \in S /\ Deadlocked(S)
       /\ \A T \in SUBSET S : T # {} /\ T # S => ~Deadlocked(T)
  /\ Throw(r)

---------------------------------------------------------------------------
Init ==
  /\ TrailInit
  /\ status = [g \in Grants |-> "NONE"] /\ info = [g \in Grants |-> NoGrant]
  /\ approver = [g \in Grants |-> {}] /\ elapsed = {}
  /\ draft = [r \in Slots |-> AllClean] /\ entries = [r \in Slots |-> {}]
  /\ pc = [r \in Slots |-> "idle"] /\ req = [r \in Slots |-> NoRequest]
  /\ grant = [r \in Slots |-> 0] /\ seen = [r \in Slots |-> "NONE"]
  /\ todo = {} /\ locks = [r \in Slots |-> {}] /\ aborts = 0

Arrival(r) ==
  \/ \E u \in Admins, s \in Schools : StartRequest(r, u, s)
  \/ \E u \in Admins, g \in Grants : StartApprove(r, u, g) \/ StartRevoke(r, u, g)

RequestStep(r) ==
  RequestAccess(r) \/ Load(r) \/ Claim(r) \/ Revoke(r) \/ AuditPlatform(r)

SweepStep == NextGrant \/ ExpireGrant

AuditStep(r) == AuditSchool(r) \/ Commit(r)

Clock == (Tick \/ Purge) /\ UNCHANGED <<row, txn, pc, loc, aborts>>

Next ==
  \/ \E r \in Requests : Arrival(r) \/ RequestStep(r)
  \/ List \/ SweepStep
  \/ \E r \in Slots : AuditStep(r) \/ Abort(r) \/ DeadlockVictim(r)
  \/ \E g \in Grants : Elapse(g)
  \/ Clock

Spec == Init /\ [][Next]_vars

(* Requests and the sweep run on, the sweep is started again and again,    *)
(* locks are granted in the order they are asked for, and the database     *)
(* resolves deadlocks.                                                     *)
FairSpec ==
  /\ Spec
  /\ \A r \in Requests : SF_vars(RequestStep(r) \/ AuditStep(r))
  /\ SF_vars(SweepStep \/ AuditStep(Cron)) /\ WF_vars(List)
  /\ WF_vars(\E r \in Slots : DeadlockVictim(r))

---------------------------------------------------------------------------
(***************************************************************************)
(* Properties.                                                             *)
(***************************************************************************)
(* Every variable holds a value of its kind.                               *)
TypeOK ==
  /\ TrailTypeOK
  /\ status \in [Grants -> Statuses] /\ info \in [Grants -> GrantType \cup {NoGrant}]
  /\ approver \in [Grants -> SUBSET Admins] /\ elapsed \in SUBSET Grants
  /\ draft \in [Slots -> [Grants -> Statuses \cup {"CLEAN"}]]
  /\ entries \in [Slots -> SUBSET EntryType]
  /\ pc \in [Slots -> Labels] /\ req \in [Slots -> ReqType \cup {NoRequest}]
  /\ grant \in [Slots -> Grants \cup {0}] /\ seen \in [Slots -> Statuses]
  /\ todo \in SUBSET Grants /\ locks \in [Slots -> SUBSET LockNames]
  /\ aborts \in 0..MaxAborts

(* An administrator has at most one pending or active grant for a school,  *)
(* however many requests are made at once.                                 *)
OneOpenGrant ==
  \A g, h \in Grants :
    status[g] \in Open /\ status[h] \in Open /\ info[g] = info[h] => g = h

(* Access is opened once, by a second person, from a request that is still *)
(* pending: what was revoked or has expired is never opened again.         *)
OpenedOnce ==
  [][\A g \in Grants :
       status'[g] = "ACTIVE" /\ status[g] # "ACTIVE" =>
         status[g] = "PENDING" /\ info[g].requester \notin approver'[g]]_vars

(* The trail of a grant, as far as it is kept, ends with the status the    *)
(* grant has: no change without its entry, and no entry without a change.  *)
TrailTellsStatus ==
  \A e \in log :
    /\ e.about \in Grants
    /\ \A f \in log : f.about = e.about => f = e \/ Earlier(f, e)
    => status[e.about] = e.after

(* No request waits for ever, for a lock of another or of the sweep.        *)
RequestsEnd == \A r \in Requests : pc[r] # "idle" ~> pc[r] = "idle"

(* A grant does not stay active past its end.                              *)
ElapsedGrantEnds ==
  \A g \in Grants : status[g] = "ACTIVE" /\ g \in elapsed ~> status[g] # "ACTIVE"
=============================================================================
