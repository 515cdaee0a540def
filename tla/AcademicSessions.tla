-------------------------- MODULE AcademicSessions --------------------------
(***************************************************************************)
(* The academic years of a school and the enrolment of its students.       *)
(* Administrators create and activate years through two services, enrol,   *)
(* change, remove and promote students, and close and reopen accounts.     *)
(* Two partial unique indexes stand behind all of them: one active year,   *)
(* and one active enrolment of a student in a year.                        *)
(*                                                                         *)
(* Production: a request is one READ COMMITTED transaction.  It sees       *)
(* committed rows and its own, its row locks last to its end, and an       *)
(* exception undoes it.                                                    *)
(***************************************************************************)
EXTENDS Naturals, Sequences, FiniteSets, YearCache

CONSTANTS
  Years, FirstYear,     \* the year a school is created with
  Students, Sections,
  YearOf,               \* the year of a section's class
  Requests,             \* slots for HTTP requests in flight; each is reused
  NoRequest, NoItem,
  MaxBatch,             \* bound: students in one promotion
  MaxAborts             \* bound: crashes, database errors and timeouts

Enrolments == Students \X Sections

(* What is kept of a row: a year, a student's account, an enrolment.       *)
Items == Years \cup Students \cup Enrolments

(* off: an inactive year or account, an enrolment with any other status.   *)
States == {"absent", "off", "on"}

Batches == UNION {[1..n -> Students] : n \in 1..MaxBatch}

ReqType ==
  [kind : {"newYear", "addYear", "activate"}, item : Years] \cup
  [kind : {"enroll", "activateRow", "closeRow", "delete"}, item : Enrolments] \cup
  [kind : {"open", "close"}, item : Students] \cup
  [kind : {"promote"}, from : Sections, to : Sections \cup {NoItem}, students : Batches]

ASSUME SessionsAssumption ==
  /\ FirstYear \in Years
  /\ YearOf \in [Sections -> Years]
  /\ Years \cap Students = {} /\ Years \cap Enrolments = {}
  /\ Students \cap Enrolments = {}
  /\ NoRequest \notin ReqType /\ NoItem \notin Items \cup Sections
  /\ MaxBatch \in Nat \ {0} /\ MaxAborts \in Nat
  /\ NoYear \notin Years /\ Missed \notin Years /\ NoYear # Missed
  /\ Redis \notin Processes

VARIABLES
  db,        \* the committed state of each row
  locked,    \* the years that are locked
  draft,     \* per request: uncommitted states, "clean" where none
  pc, req,   \* per request: next statement, arguments
  rows,      \* per request: rows it has found and will write by their ids
  batch,     \* per request: the students a promotion has still to come to
  aborts

store == <<db, locked, cached>>
loc   == <<req, rows, batch>>
rest  == <<db, locked, draft, pc, loc, aborts>>
vars  == <<rest, cached>>

Labels == {"idle", "look", "insert", "insertOff", "find", "off", "student", "year",
           "existing", "read", "conflict", "switchOn", "switchOff", "delete",
           "join", "next", "account", "latest", "commit"}

AllClean == [i \in Items |-> "clean"]

---------------------------------------------------------------------------
(***************************************************************************)
(* The database.                                                           *)
(***************************************************************************)
View(r, i) == IF draft[r][i] # "clean" THEN draft[r][i] ELSE db[i]

Others(r) == Requests \ {r}

Unlocked(r, i) == \A q \in Others(r) : draft[q][i] = "clean"

(* Rows that one of the partial unique indexes sets against each other.    *)
Peers(i, j) ==
  /\ i # j
  /\ \/ i \in Years /\ j \in Years
     \/ /\ i \in Enrolments /\ j \in Enrolments
        /\ i[1] = j[1] /\ YearOf[i[2]] = YearOf[j[2]]

PeersOf(i) == {j \in Items : Peers(i, j)}

(* An index entry of q may come or go: whoever adds one waits for q's end. *)
HoldsPeer(q, i) ==
  \E j \in PeersOf(i) : draft[q][j] # "clean" /\ "on" \in {db[j], draft[q][j]}

(* Mutant: there is no index on the active enrolment.                      *)
RefusedYear(r, i) == i \in Years /\ \E j \in PeersOf(i) : View(r, j) = "on"

(* Mutant: there is no index on the active year.                           *)
RefusedEnrolment(r, i) == i \in Enrolments /\ \E j \in PeersOf(i) : View(r, j) = "on"

Refused(r, i) == \E j \in PeersOf(i) : View(r, j) = "on"

Goto(r, label) == pc' = [pc EXCEPT ![r] = label]

Branch(r, label) == Goto(r, label) /\ UNCHANGED <<store, draft, loc, aborts>>

(* Mutant: the connection goes back to the pool with its transaction open. *)
FinishOpen(r) ==
  /\ Goto(r, "idle")
  /\ req' = [req EXCEPT ![r] = NoRequest]
  /\ batch' = [batch EXCEPT ![r] = <<>>]
  /\ UNCHANGED draft

Finish(r) ==
  /\ Goto(r, "idle")
  /\ req' = [req EXCEPT ![r] = NoRequest]
  /\ batch' = [batch EXCEPT ![r] = <<>>]
  /\ draft' = [draft EXCEPT ![r] = AllClean]

Undo(r) == Finish(r) /\ rows' = [rows EXCEPT ![r] = {}] /\ UNCHANGED store

Throw(r) == Undo(r) /\ UNCHANGED aborts

(* One row is written by its key.                                          *)
Write(r, i, state, label) ==
  /\ Unlocked(r, i)
  /\ draft' = [draft EXCEPT ![r][i] = state]
  /\ Goto(r, label)
  /\ UNCHANGED <<store, loc, aborts>>

(* Mutant: a student whom the index refuses is passed over.                *)
SetOnSkipping(r, i, label) ==
  /\ Unlocked(r, i) /\ \A q \in Others(r) : ~HoldsPeer(q, i)
  /\ \/ ~Refused(r, i) /\ Write(r, i, "on", label)
     \/ Refused(r, i) /\ Branch(r, label)

(* A row is made active, unless the index refuses it.                      *)
SetOn(r, i, label) ==
  /\ Unlocked(r, i) /\ \A q \in Others(r) : ~HoldsPeer(q, i)
  /\ \/ ~Refused(r, i) /\ Write(r, i, "on", label)
     \/ Refused(r, i) /\ Throw(r)

---------------------------------------------------------------------------
(***************************************************************************)
(* updateMany over active rows: of the years, of a student's enrolments,   *)
(* of a student's enrolment in the section a promotion leaves.             *)
(***************************************************************************)
Leaving(r) == <<Head(batch[r]), req[r].from>>
Joining(r) == <<Head(batch[r]), req[r].to>>

Scope(r) ==
  CASE req[r].kind \in {"newYear", "activate"} -> Years
    [] req[r].kind = "close"   -> {e \in Enrolments : e[1] = req[r].item}
    [] req[r].kind = "promote" -> {Leaving(r)}

AfterOff(r) ==
  CASE req[r].kind = "newYear"  -> "insert"
    [] req[r].kind = "activate" -> "switchOn"
    [] req[r].kind = "close"    -> "commit"
    [] req[r].kind = "promote"  -> IF req[r].to = NoItem THEN "next" ELSE "join"

(* The rows are those that are active when the statement begins ...        *)
FindActive(r) ==
  /\ pc[r] = "find"
  /\ rows' = [rows EXCEPT ![r] = {i \in Scope(r) : View(r, i) = "on"}]
  /\ Goto(r, IF rows'[r] = {} THEN AfterOff(r) ELSE "off")
  /\ UNCHANGED <<store, draft, req, batch, aborts>>

(* Mutant: the years are deactivated on a connection of their own.         *)
SwitchOffOutside(r) ==
  /\ pc[r] = "off" /\ \A i \in rows[r] : Unlocked(r, i)
  /\ db' = [i \in Items |-> IF i \in rows[r] /\ db[i] = "on" THEN "off" ELSE db[i]]
  /\ rows' = [rows EXCEPT ![r] = {}]
  /\ Goto(r, AfterOff(r))
  /\ UNCHANGED <<locked, cached, draft, req, batch, aborts>>

(* ... and each that another transaction holds is waited for, and left     *)
(* alone if it is active no more.                                          *)
SwitchOff(r) ==
  /\ pc[r] = "off"
  /\ \/ rows[r] = {} /\ Branch(r, AfterOff(r))
     \/ \E i \in rows[r] :
          /\ Unlocked(r, i)
          /\ draft' = IF View(r, i) = "on" THEN [draft EXCEPT ![r][i] = "off"] ELSE draft
          /\ rows' = [rows EXCEPT ![r] = @ \ {i}]
          /\ Goto(r, IF rows[r] = {i} THEN AfterOff(r) ELSE "off")
          /\ UNCHANGED <<store, req, batch, aborts>>

---------------------------------------------------------------------------
Start(r, arguments, students, label) ==
  /\ pc[r] = "idle"
  /\ Goto(r, label)
  /\ req' = [req EXCEPT ![r] = arguments]
  /\ batch' = [batch EXCEPT ![r] = students]
  /\ UNCHANGED <<store, draft, rows, aborts>>

StartItem(r, kind, i, label) == Start(r, [kind |-> kind, item |-> i], <<>>, label)

StartYear(r, y) ==
  \/ StartItem(r, "addYear", y, "look")
  \/ StartItem(r, "newYear", y, "find")
  \/ StartItem(r, "activate", y, "read")

(* A section belongs to a year that exists.                                *)
StartEnrolment(r, e) ==
  /\ db[YearOf[e[2]]] # "absent"
  /\ \/ StartItem(r, "enroll", e, "student")
     \/ \E kind \in {"activateRow", "closeRow", "delete"} : StartItem(r, kind, e, "read")

StartAccount(r, s) == \E kind \in {"open", "close"} : StartItem(r, kind, s, "account")

StartPromotion(r, from, to, students) ==
  /\ db[YearOf[from]] # "absent" /\ (to # NoItem => db[YearOf[to]] # "absent")
  /\ Start(r, [kind |-> "promote", from |-> from, to |-> to, students |-> students],
           students, "find")

---------------------------------------------------------------------------
(***************************************************************************)
(* Years: AcademicYearsService and SchoolsService.                         *)
(***************************************************************************)
(* addYear: a year under a new name, active if no other year is.           *)
LookForActive(r) ==
  /\ pc[r] = "look"
  /\ \/ db[req[r].item] # "absent" /\ Throw(r)
     \/ /\ db[req[r].item] = "absent"
        /\ Branch(r, IF \E y \in Years : db[y] = "on" THEN "insertOff" ELSE "insert")

(* One update, that waits for whoever has activated the year, or has not   *)
(* finished to.                                                            *)
SetLock(y) ==
  /\ db[y] # "absent" /\ \A r \in Requests : draft[r][y] = "clean"
  /\ locked' = IF y \in locked THEN locked \ {y} ELSE locked \cup {y}
  /\ UNCHANGED <<db, draft, pc, loc, aborts, cached>>

---------------------------------------------------------------------------
(***************************************************************************)
(* Enrolments: StudentEnrollmentService.                                   *)
(***************************************************************************)
(* The student is read, then the year, then the active enrolment.          *)
CheckStudent(r) ==
  /\ pc[r] = "student"
  /\ \/ db[req[r].item[1]] = "off" /\ Throw(r)
     \/ db[req[r].item[1]] = "on" /\ Branch(r, "year")

InLockedYear(i) == i \in Enrolments /\ YearOf[i[2]] \in locked

CheckYear(r) ==
  /\ pc[r] = "year"
  /\ \/ InLockedYear(req[r].item) /\ Throw(r)
     \/ ~InLockedYear(req[r].item) /\ Branch(r, "existing")

CheckExisting(r) ==
  LET active == {j \in PeersOf(req[r].item) \cup {req[r].item} : db[j] = "on"} IN
  /\ pc[r] = "existing"
  /\ \/ active # {} /\ Throw(r)
     \/ active = {} /\ Branch(r, "insert")

(* A year or an enrolment is inserted: its name, or its student and        *)
(* section, must be new.                                                   *)
Insert(r) ==
  /\ pc[r] \in {"insert", "insertOff"} /\ Unlocked(r, req[r].item)
  /\ \/ db[req[r].item] # "absent" /\ Throw(r)
     \/ /\ db[req[r].item] = "absent"
        /\ \/ pc[r] = "insert" /\ SetOn(r, req[r].item, "commit")
           \/ pc[r] = "insertOff" /\ Write(r, req[r].item, "off", "commit")

AfterRead(r) ==
  CASE req[r].kind = "activate"    -> "find"
    [] req[r].kind = "activateRow" ->
         IF db[req[r].item] = "on" THEN "switchOn" ELSE "conflict"
    [] req[r].kind = "closeRow"    -> "switchOff"
    [] req[r].kind = "delete"      -> "delete"

(* The row that a request names by its id.                                 *)
Read(r) ==
  LET i == req[r].item
      found == db[i] # "absent" /\ ~InLockedYear(i) IN
  /\ pc[r] = "read"
  /\ \/ ~found /\ Throw(r)
     \/ /\ found
        /\ rows' = [rows EXCEPT ![r] = {i}]
        /\ Goto(r, AfterRead(r))
        /\ UNCHANGED <<store, draft, req, batch, aborts>>

CheckConflict(r) ==
  LET active == {j \in PeersOf(req[r].item) : db[j] = "on"} IN
  /\ pc[r] = "conflict"
  /\ \/ active # {} /\ Throw(r)
     \/ active = {} /\ Branch(r, "switchOn")

(* A year is never deleted, and keeps its id.                              *)
ById(r) == IF req[r].kind = "activate" THEN {req[r].item} ELSE rows[r]

(* Writes by id: the row may have been deleted since it was found.         *)
WriteById(r) ==
  /\ pc[r] \in {"switchOn", "switchOff", "delete"}
  /\ \/ ById(r) = {} /\ Throw(r)
     \/ \E i \in ById(r) :
          \/ pc[r] = "switchOn" /\ SetOn(r, i, "commit")
          \/ pc[r] = "switchOff" /\ Write(r, i, "off", "commit")
          \/ pc[r] = "delete" /\ Write(r, i, "absent", "commit")

---------------------------------------------------------------------------
(***************************************************************************)
(* Students: promoteStudents, updateStudentStatus.                         *)
(***************************************************************************)
(* The upsert of the enrolment in the section that is joined.              *)
Join(r) == pc[r] = "join" /\ SetOn(r, Joining(r), "next")

(* The promotion is logged, and the next student's turn comes.             *)
NextStudent(r) ==
  /\ pc[r] = "next"
  /\ batch' = [batch EXCEPT ![r] = Tail(@)]
  /\ Goto(r, IF Len(batch[r]) = 1 THEN "commit" ELSE "find")
  /\ UNCHANGED <<store, draft, req, rows, aborts>>

(* The account is closed, with its active enrolments, or reopened.         *)
SetAccount(r) ==
  /\ pc[r] = "account"
  /\ \/ req[r].kind = "close" /\ Write(r, req[r].item, "off", "find")
     \/ req[r].kind = "open" /\ Write(r, req[r].item, "on", "latest")

(* The enrolment of the latest joinedAt, an order that is left open here.  *)
FindLatest(r) ==
  LET S == {e \in Enrolments : e[1] = req[r].item /\ View(r, e) # "absent"} IN
  /\ pc[r] = "latest"
  /\ \/ S = {} /\ Branch(r, "commit")
     \/ \E e \in S :
          /\ rows' = [rows EXCEPT ![r] = {e}]
          /\ Goto(r, "switchOn")
          /\ UNCHANGED <<store, draft, req, batch, aborts>>

---------------------------------------------------------------------------
(***************************************************************************)
(* The end of a transaction.                                               *)
(***************************************************************************)
(* Whoever has found a row that is now deleted finds it no more.           *)
Commit(r) ==
  /\ pc[r] = "commit"
  /\ db' = [i \in Items |-> View(r, i)]
  /\ rows' = [q \in Requests |->
                 IF q = r THEN {} ELSE {i \in rows[q] : draft[r][i] # "absent"}]
  /\ Finish(r)
  /\ UNCHANGED <<locked, aborts, cached>>

Abort(r) ==
  /\ pc[r] # "idle" /\ aborts < MaxAborts
  /\ aborts' = aborts + 1
  /\ Undo(r)

Wants(r) ==
  CASE pc[r] = "off"     -> rows[r]
    [] pc[r] = "join"    -> {Joining(r)}
    [] pc[r] = "account" -> {req[r].item}
    [] pc[r] \in {"insert", "insertOff"} -> {req[r].item}
    [] pc[r] \in {"switchOn", "switchOff", "delete"} -> ById(r)
    [] OTHER             -> {}

Holds(q, r, i) ==
  \/ draft[q][i] # "clean"
  \/ pc[r] \in {"insert", "switchOn", "join"} /\ HoldsPeer(q, i)

WaitsFor(r, q) ==
  /\ Wants(r) # {} /\ \A i \in Wants(r) : \E p \in Others(r) : Holds(p, r, i)
  /\ q # r /\ \E i \in Wants(r) : Holds(q, r, i)

Deadlocked(S) == S # {} /\ \A r \in S : \E q \in S : WaitsFor(r, q)

(* The database finds a cycle of transactions that wait for one another,   *)
(* and fails one of them.                                                  *)
DeadlockVictim(r) ==
  /\ \E S \in SUBSET Requests :
       /\ r \in S /\ Deadlocked(S)
       /\ \A T \in SUBSET S : T # S => ~Deadlocked(T)
  /\ Throw(r)

---------------------------------------------------------------------------
(* The active year, or any if none is.                                     *)
Resolvable ==
  LET existing == {y \in Years : db[y] # "absent"}
      active   == {y \in Years : db[y] = "on"} IN
  IF active # {} THEN active ELSE existing

ResolutionStep(p) ==
  \/ \E y \in Resolvable : ReadYear(p, y) /\ UNCHANGED rest
  \/ Fill(p) /\ UNCHANGED rest

Resolve(p) ==
  \/ Miss(p) /\ UNCHANGED rest
  \/ ResolutionStep(p)

Init ==
  /\ CacheInit
  /\ db = [i \in Items |->
             IF i \in Students \cup {FirstYear} THEN "on" ELSE "absent"]
  /\ locked = {}
  /\ draft = [r \in Requests |-> AllClean]
  /\ pc = [r \in Requests |-> "idle"] /\ req = [r \in Requests |-> NoRequest]
  /\ rows = [r \in Requests |-> {}] /\ batch = [r \in Requests |-> <<>>]
  /\ aborts = 0

Arrival(r) ==
  \/ \E y \in Years : StartYear(r, y)
  \/ \E e \in Enrolments : StartEnrolment(r, e)
  \/ \E s \in Students : StartAccount(r, s)
  \/ \E from \in Sections, to \in Sections \cup {NoItem}, students \in Batches :
       StartPromotion(r, from, to, students)

RequestStep(r) ==
  \/ LookForActive(r) \/ FindActive(r) \/ SwitchOff(r) \/ Insert(r)
  \/ CheckStudent(r) \/ CheckYear(r) \/ CheckExisting(r)
  \/ Read(r) \/ CheckConflict(r) \/ WriteById(r)
  \/ Join(r) \/ NextStudent(r) \/ SetAccount(r) \/ FindLatest(r)
  \/ Commit(r)

Next ==
  \/ \E r \in Requests : Arrival(r) \/ RequestStep(r) \/ Abort(r) \/ DeadlockVictim(r)
  \/ \E y \in Years : SetLock(y)
  \/ \E p \in Processes : Resolve(p)
  \/ \E p \in Processes : Switch(p) /\ UNCHANGED rest
  \/ \E st \in Stores : Lapse(st) /\ UNCHANGED rest

Spec == Init /\ [][Next]_vars

(* Requests run on, locks are granted in the order they are asked for, the *)
(* database resolves deadlocks, a resolution that has begun ends, and an   *)
(* entry of the cache grows old.                                           *)
FairSpec ==
  /\ Spec
  /\ \A r \in Requests : SF_vars(RequestStep(r))
  /\ WF_vars(\E r \in Requests : DeadlockVictim(r))
  /\ \A p \in Processes : WF_vars(ResolutionStep(p))
  /\ \A st \in Stores : WF_vars(Lapse(st) /\ UNCHANGED rest)

---------------------------------------------------------------------------
(***************************************************************************)
(* Properties.                                                             *)
(***************************************************************************)
(* Every variable holds a value of its kind, and an idle slot has neither  *)
(* arguments nor an open transaction.                                      *)
TypeOK ==
  /\ db \in [Items -> States] /\ locked \in SUBSET Years
  /\ draft \in [Requests -> [Items -> States \cup {"clean"}]]
  /\ pc \in [Requests -> Labels] /\ req \in [Requests -> ReqType \cup {NoRequest}]
  /\ rows \in [Requests -> SUBSET Items]
  /\ batch \in [Requests -> Batches \cup {<<>>}] /\ aborts \in 0..MaxAborts
  /\ cache \in [Stores -> Years \cup {NoYear}] /\ connected \in SUBSET Processes
  /\ resolving \in [Processes -> Years \cup {NoYear, Missed}]
  /\ \A r \in Requests :
       pc[r] = "idle" => req[r] = NoRequest /\ draft[r] = AllClean /\ rows[r] = {}

(* A school has exactly one active year, however the two services that     *)
(* create and activate years run into each other or fail between the       *)
(* statement that deactivates and the one that activates.                  *)
ExactlyOneActiveYear == Cardinality({y \in Years : db[y] = "on"}) = 1

(* A student has at most one active enrolment in a year, whichever of      *)
(* createEnrollment, updateEnrollmentStatus, promoteStudents and           *)
(* updateStudentStatus made it active.                                     *)
OneActiveEnrollment ==
  \A e, f \in Enrolments : db[e] = "on" /\ db[f] = "on" => ~Peers(e, f)

(* A promotion that is committed has brought every student of its batch    *)
(* into the section it names: it is never committed for some of them.      *)
PromotedTogether ==
  [][\A r \in Requests :
       /\ pc[r] = "commit" /\ pc'[r] = "idle" /\ db' # db
       /\ req[r].kind = "promote" /\ req[r].to # NoItem
       =>
         \A n \in DOMAIN req[r].students :
           db'[<<req[r].students[n], req[r].to>>] = "on"]_vars

(* Every request ends, promotions of the same students in another order    *)
(* included.                                                               *)
RequestsEnd == \A r \in Requests : pc[r] # "idle" ~> pc[r] = "idle"

(* When the active year stays the same, every store comes to hold that     *)
(* year or none: invalidateActiveYear has no caller, and an entry that is  *)
(* wrong lasts for as long as it lives, but no longer.                     *)
StaleEnds ==
  \A y \in Years :
    <>[](db[y] = "on") => <>[](\A st \in Stores : cache[st] \in {NoYear, y})
=============================================================================
