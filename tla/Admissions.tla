----------------------------- MODULE Admissions -----------------------------
(***************************************************************************)
(* AdmissionsService: applications are submitted, moved between statuses,  *)
(* rejected, and converted into students.  Application and admission       *)
(* numbers both come from generateNextSequence, inside of the transaction  *)
(* that uses them.  StudentsService makes students too, with admission     *)
(* numbers of the caller's choice, and changes numbers and addresses.      *)
(***************************************************************************)
EXTENDS RequestTransactions, FiniteSetsExt

CONSTANTS
  MaxApplications, MaxStudents,   \* bounds
  ByHand,      \* admission numbers that are entered; 0 is of no pattern known
  NoStudent    \* an application that has not been converted

AdmissionStatus == {"SUBMITTED", "ACCEPTED", "REJECTED"}

ApplicationRow == [status : AdmissionStatus, student : Nat \cup {NoStudent}]
StudentRow == [id : Nat, drawn : BOOLEAN]

ASSUME AdmissionsAssumption ==
  /\ MaxApplications \in Nat /\ MaxStudents \in Nat
  /\ ByHand \subseteq Nat /\ NoStudent \notin Nat
  /\ NoRow \notin Nat \cup ApplicationRow \cup StudentRow

Application(n) == <<"application", n>>
Counter(prefix) == <<"counter", prefix>>

(* A student has a number, unique in the school, that may change, and an   *)
(* account, here under the id of the student.                              *)
Student(n) == <<"student", n>>
Account(i) == <<"account", i>>

(* The address of an account: made from the number of an application, or   *)
(* any other.  UserOf is the unique index of the former.                   *)
OtherAddress == 0
UserOf(n) == <<"user", n>>

Prefix(r) == IF req[r].kind = "apply" THEN "APP" ELSE "ADM"
NumberKey(r, n) == IF Prefix(r) = "APP" THEN Application(n) ELSE Student(n)

(* Numbers that a row r can see bears.                                     *)
Taken(r) ==
  {k[2] : k \in Found(r, {x \in DOMAIN rows \cup DOMAIN draft[r] : x = NumberKey(r, x[2])})}

ThisApplication(r) == Application(req[r].number)

(* A new id is the next one that no account has.                           *)
Accounts == {i \in 1..MaxStudents : Row(rows, Account(i)) # NoRow}
NewAccounts == {i \in 1..MaxStudents : \E r \in Requests : Account(i) \in DOMAIN draft[r]}

NewId(i) == i \notin Accounts \cup NewAccounts /\ 1..(i - 1) \subseteq Accounts \cup NewAccounts
---------------------------------------------------------------------------
Applications == {n \in 1..MaxApplications : Row(rows, Application(n)) # NoRow}

Applying == {r \in Requests : pc[r] # "idle" /\ req[r].kind = "apply"}

StartApply(r) ==
  /\ Cardinality(Applications) + Cardinality(Applying) < MaxApplications
  /\ Start(r, [kind |-> "apply"], "yearRead")

StartStatus(r, n, status) ==
  Start(r, [kind |-> "status", number |-> n, status |-> status], "statusRead")

StartReject(r, n) ==
  Start(r, [kind |-> "reject", number |-> n, status |-> "REJECTED"], "rejectRead")

Admitting == {r \in Requests : pc[r] # "idle" /\ req[r].kind \in {"convert", "enter"}}
RoomForOne == Cardinality(Accounts) + Cardinality(Admitting) < MaxStudents

StartConvert(r, n) ==
  RoomForOne /\ Start(r, [kind |-> "convert", number |-> n], "applicationRead")

StartEnter(r, n) == RoomForOne /\ Start(r, [kind |-> "enter", number |-> n], "numberRead")

(* A student is named by id; the address changes, the number, or both.     *)
StartUpdate(r, i, address, number) ==
  /\ i \in Accounts /\ (address \/ number # Nothing)
  /\ Start(r, [kind |-> "update", id |-> i, address |-> address, number |-> number], "profileRead")

---------------------------------------------------------------------------
(* createApplication needs an active year.                                 *)
ReadActiveYear(r) ==
  /\ pc[r] = "yearRead"
  /\ \/ Throw(r)
     \/ Branch(r, "sequence")

(***************************************************************************)
(* generateNextSequence.                                                   *)
(***************************************************************************)
ReadCounter(r) ==
  LET counter == Row(rows, Counter(Prefix(r))) IN
  /\ pc[r] = "sequence"
  /\ \/ counter # NoRow /\ Read(r, counter + 1, "probe")
     \/ counter = NoRow /\ Branch(r, "baseline")

(* Without a counter: the highest admission number, or how many there are. *)
Baseline(r) ==
  IF Prefix(r) = "APP" \/ Taken(r) \subseteq {0} THEN Cardinality(Taken(r)) ELSE Max(Taken(r))

ReadBaseline(r) == pc[r] = "baseline" /\ Read(r, Baseline(r) + 1, "probe")

Probe(r) ==
  LET exists == View(r, NumberKey(r, seen[r])) # NoRow IN
  /\ pc[r] = "probe"
  /\ \/ exists /\ Read(r, seen[r] + 1, "probe")
     \/ ~exists /\ Branch(r, "counterSave")

AfterSequence(r) == IF Prefix(r) = "APP" THEN "applicationInsert" ELSE "studentInsert"

(* Mutant: the counter is saved on a connection of its own, outside of the *)
(* transaction of the conversion.                                          *)
SaveCounterOutside(r) ==
  /\ pc[r] = "counterSave"
  /\ Unlocked(r, Counter(Prefix(r)))
  /\ rows' = Put(rows, Counter(Prefix(r)), seen[r])
  /\ Goto(r, AfterSequence(r))
  /\ UNCHANGED <<draft, req, seen, aborts>>

(* The upsert: the counter is set to the candidate, whatever it is by now. *)
SaveCounter(r) ==
  /\ pc[r] = "counterSave"
  /\ Write(r, Counter(Prefix(r)), seen[r], AfterSequence(r))

InsertApplication(r) ==
  /\ pc[r] = "applicationInsert"
  /\ Insert(r, Application(seen[r]), [status |-> "SUBMITTED", student |-> NoStudent], "commit")

---------------------------------------------------------------------------
(***************************************************************************)
(* updateApplicationStatus, rejectApplication.                             *)
(***************************************************************************)
ReadForStatus(r) ==
  LET there == Row(rows, ThisApplication(r)) # NoRow IN
  /\ pc[r] = "statusRead"
  /\ \/ ~there /\ Throw(r)
     \/ there /\ Branch(r, "statusWrite")

ReadForReject(r) ==
  LET row == Row(rows, ThisApplication(r)) IN
  /\ pc[r] = "rejectRead"
  /\ \/ row = NoRow /\ Throw(r)
     \/ row # NoRow /\ row.student # NoStudent /\ Throw(r)
     \/ row # NoRow /\ row.student = NoStudent /\ Branch(r, "statusWrite")

(* From any status to any other: also of an application that has been      *)
(* converted since it was read.                                            *)
WriteStatus(r) ==
  /\ pc[r] = "statusWrite"
  /\ Write(r, ThisApplication(r),
           [View(r, ThisApplication(r)) EXCEPT !.status = req[r].status], "commit")

---------------------------------------------------------------------------
(***************************************************************************)
(* convertApplicationToStudent.                                            *)
(***************************************************************************)
ReadForConvert(r) ==
  LET row == Row(rows, ThisApplication(r))
      convertible == row # NoRow /\ row.status = "ACCEPTED" /\ row.student = NoStudent IN
  /\ pc[r] = "applicationRead"
  /\ \/ ~convertible /\ Throw(r)
     \/ convertible /\ Branch(r, "userInsert")

(* The account is new, and so must be its address.                         *)
OpenAccount(r, i) ==
  draft' = [draft EXCEPT ![r] = Put(Put(@, Account(i), req[r].number), UserOf(req[r].number), i)]

(* Mutant: the e-mail address is not unique.                               *)
InsertUserAnyhow(r) ==
  /\ pc[r] = "userInsert" /\ Unlocked(r, UserOf(req[r].number))
  /\ \E i \in 1..MaxStudents : NewId(i) /\ OpenAccount(r, i)
  /\ Goto(r, "sequence") /\ UNCHANGED <<rows, req, seen, aborts>>

InsertUser(r) ==
  /\ pc[r] = "userInsert" /\ Unlocked(r, UserOf(req[r].number))
  /\ \/ View(r, UserOf(req[r].number)) # NoRow /\ Throw(r)
     \/ /\ View(r, UserOf(req[r].number)) = NoRow
        /\ \E i \in 1..MaxStudents : NewId(i) /\ OpenAccount(r, i)
        /\ Goto(r, "sequence") /\ UNCHANGED <<rows, req, seen, aborts>>

OwnId(r) == View(r, UserOf(req[r].number))

(* With the student go enrolment and guardian, rows that are new with it.  *)
InsertStudent(r) ==
  /\ pc[r] = "studentInsert"
  /\ Insert(r, Student(seen[r]), [id |-> OwnId(r), drawn |-> TRUE], "applicationWrite")

MarkConverted(r) ==
  /\ pc[r] = "applicationWrite"
  /\ Write(r, ThisApplication(r), [status |-> "ACCEPTED", student |-> OwnId(r)], "commit")

---------------------------------------------------------------------------
(***************************************************************************)
(* StudentsService.createStudent and updateStudent.  Each looks whether    *)
(* another has the address, or the number, before it begins.               *)
(***************************************************************************)
LookForNumber(r, label) ==
  \/ Throw(r)
  \/ Row(rows, Student(req[r].number)) = NoRow /\ Branch(r, label)

ReadForEnter(r) == pc[r] = "numberRead" /\ LookForNumber(r, "studentEnter")

(* User and student, the address being another one.                        *)
EnterStudent(r) ==
  LET k == Student(req[r].number) IN
  /\ pc[r] = "studentEnter" /\ Unlocked(r, k)
  /\ \/ View(r, k) # NoRow /\ Throw(r)
     \/ /\ View(r, k) = NoRow
        /\ \E i \in 1..MaxStudents :
             /\ NewId(i)
             /\ draft' = [draft EXCEPT ![r] = Put(Put(@, Account(i), OtherAddress),
                                                  k, [id |-> i, drawn |-> FALSE])]
        /\ Goto(r, "commit") /\ UNCHANGED <<rows, req, seen, aborts>>

ReadForUpdate(r) ==
  /\ pc[r] = "profileRead"
  /\ LookForNumber(r, IF req[r].address THEN "addressWrite" ELSE "numberFree")

ThisAccount(r) == Account(req[r].id)

(* Another address: that of an application, if it was one, is free.        *)
ChangeAddress(r) ==
  LET old == View(r, ThisAccount(r)) IN
  /\ pc[r] = "addressWrite" /\ Unlocked(r, ThisAccount(r)) /\ Unlocked(r, UserOf(old))
  /\ draft' = [draft EXCEPT ![r] =
                 LET changed == Put(@, ThisAccount(r), OtherAddress) IN
                 IF old = OtherAddress THEN changed ELSE Put(changed, UserOf(old), NoRow)]
  /\ Goto(r, IF req[r].number = Nothing THEN "commit" ELSE "numberFree")
  /\ UNCHANGED <<rows, req, seen, aborts>>

(* The row of the student is locked, and bears its number no more; the new *)
(* number must be free.                                                    *)
Bearing(r) ==
  {k \in DOMAIN rows : k = Student(k[2]) /\ rows[k].id = req[r].id}

FreeNumber(r) ==
  /\ pc[r] = "numberFree"
  /\ \E k \in Bearing(r) : Write(r, k, NoRow, "numberWrite")

WriteNumber(r) ==
  /\ pc[r] = "numberWrite"
  /\ Insert(r, Student(req[r].number), [id |-> req[r].id, drawn |-> FALSE], "commit")

---------------------------------------------------------------------------
AdmissionsArrival(r) ==
  \/ StartApply(r)
  \/ \E n \in 1..MaxApplications :
       \/ \E status \in AdmissionStatus : StartStatus(r, n, status)
       \/ StartReject(r, n)
       \/ StartConvert(r, n)
  \/ \E n \in ByHand : StartEnter(r, n)
  \/ \E i \in 1..MaxStudents, address \in BOOLEAN, number \in ByHand \cup {Nothing} :
       StartUpdate(r, i, address, number)

AdmissionsStep(r) ==
  \/ ReadActiveYear(r) \/ ReadCounter(r) \/ ReadBaseline(r) \/ Probe(r) \/ SaveCounter(r)
  \/ InsertApplication(r) \/ ReadForStatus(r) \/ ReadForReject(r) \/ WriteStatus(r)
  \/ ReadForConvert(r) \/ InsertUser(r) \/ InsertStudent(r) \/ MarkConverted(r)
  \/ ReadForEnter(r) \/ EnterStudent(r)
  \/ ReadForUpdate(r) \/ ChangeAddress(r) \/ FreeNumber(r) \/ WriteNumber(r)

AdmissionsWants(r) ==
  CASE pc[r] = "counterSave"       -> {Counter(Prefix(r))}
    [] pc[r] = "applicationInsert" -> {Application(seen[r])}
    [] pc[r] \in {"statusWrite", "applicationWrite"} -> {ThisApplication(r)}
    [] pc[r] = "userInsert"        -> {UserOf(req[r].number)}
    [] pc[r] = "studentInsert"     -> {Student(seen[r])}
    [] pc[r] \in {"studentEnter", "numberWrite"} -> {Student(req[r].number)}
    [] pc[r] = "addressWrite"      -> {ThisAccount(r)}
    [] pc[r] = "numberFree"        -> Bearing(r)
    [] OTHER                       -> {}

---------------------------------------------------------------------------
Students == {k \in DOMAIN rows : k = Student(k[2])}

(* The account whose address was made from an application is that of the   *)
(* student whom the application names, and no other application names: so  *)
(* conversions of one application that all read it as unconverted make one *)
(* student, until the address is changed.  Numbers may be changed.         *)
OneStudentEach ==
  /\ \A i \in Accounts :
       LET a == rows[Account(i)] IN
       a # OtherAddress => a \in Applications /\ rows[Application(a)].student = i
  /\ \A a \in Applications :
       LET i == rows[Application(a)].student IN
       i # NoStudent =>
         /\ \E k \in Students : rows[k].id = i
         /\ \A b \in Applications \ {a} : rows[Application(b)].student # i

(* "Continuous sequential" admission numbers, in a school where each       *)
(* number has been drawn and none entered or changed: as many students, so *)
(* many numbers, and the counter is at the last of them, whatever          *)
(* conversions have failed after they had drawn one, and whatever entries  *)
(* and changes have failed.                                                *)
AdmissionsContinuous ==
  Students # {} /\ (\A k \in Students : rows[k].drawn) =>
    LET last == Cardinality(Students) IN
    Students = {Student(n) : n \in 1..last} /\ rows[Counter("ADM")] = last
=============================================================================
