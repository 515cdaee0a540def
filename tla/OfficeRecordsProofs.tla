------------------------ MODULE OfficeRecordsProofs ------------------------
(***************************************************************************)
(* Proofs about the records the school office keeps apart from documents:  *)
(* certificates and admissions, for any number of requests, beside all     *)
(* that the other requests of the office do.                               *)
(***************************************************************************)
EXTENDS SchoolOfficeProofs, FiniteSetTheorems

---------------------------------------------------------------------------
(***************************************************************************)
(* The parts of the office share the slots and the database, but no table. *)
(* A part is given by its tables and by the statements of its requests.    *)
(***************************************************************************)
PayrollTables      == {"cycle", "slip"}
AdmissionsTables   == {"application", "student", "account", "user", "counter"}
PtmTables          == {"slot"}
CertificatesTables == {"certificate"}
DocumentsTables    == {"document"}

PayrollLabels ==
  {"cycleLook", "cycleInsert", "cycleRead", "staffRead", "slipsFind", "slipsDelete",
   "slipCreate", "cycleApprove", "slipRead", "slipPay", "slipCount", "cyclePay"}

AdmissionsLabels ==
  {"yearRead", "sequence", "baseline", "probe", "counterSave", "applicationInsert",
   "statusRead", "rejectRead", "statusWrite", "applicationRead", "userInsert",
   "studentInsert", "applicationWrite", "numberRead", "studentEnter", "profileRead",
   "addressWrite", "numberFree", "numberWrite"}

PtmLabels ==
  {"sessionInsert", "bookRead", "teacherCheck", "timeCheck", "slotBook", "cancelRead",
   "slotCancel", "completeRead", "slotComplete"}

CertificatesLabels ==
  {"learnerNext", "certificatesCount", "certificateInsert", "certificateRead",
   "certificateRevoke"}

(* What r has written since it began is in the tables T.                   *)
Only(r, T) ==
  \A k \in DOMAIN draft'[r] :
    k[1] \in T \/ (k \in DOMAIN draft[r] /\ draft'[r][k] = draft[r][k])

(* A step of a request of the part with the tables T and statements L.     *)
Within(r, T, L) ==
  /\ Footprint(r) /\ Only(r, T)
  /\ pc[r] \in L \cup {"idle"} /\ pc'[r] \in L \cup {"commit", "idle"}
  /\ rows' = rows \/ pc[r] = "sweepCommit"
  /\ pc'[r] = "idle" => DOMAIN draft'[r] = {}

(* Uncommitted rows of a part are those of its requests.                   *)
Confined(T, L) ==
  \A r \in Requests : \A k \in DOMAIN draft[r] : k[1] \in T => pc[r] \in L \cup {"commit"}

(* A step of r after which it has nothing to do with a part.               *)
Leaves(r, T, L) ==
  /\ Footprint(r) /\ pc'[r] \notin L
  /\ \A k : k[1] \in T => k \notin DOMAIN draft'[r] /\ Row(rows', k) = Row(rows, k)

LEMMA WithinOther ==
  ASSUME Domains, NEW r \in Requests, NEW T, NEW L, NEW U, NEW M, Confined(T, L),
         Within(r, U, M), T \cap U = {}, L \cap M = {}, "idle" \notin L,
         "commit" \notin L, "commit" \notin M
  PROVE  Leaves(r, T, L)
<1>1. \A k \in DOMAIN draft[r] : k[1] \notin T
  BY DEF Confined, Within
<1>2. \A k \in DOMAIN draft'[r] : k[1] \notin T
  BY <1>1 DEF Within, Only
<1>3. ASSUME NEW k, k[1] \in T PROVE Row(rows', k) = Row(rows, k)
  <2>1. CASE rows' = Merged(r)
    <3>1. Row(rows', k) = View(r, k)
      BY <2>1, RowOfMerged
    <3> QED
      BY <1>1, <1>3, <3>1 DEF View
  <2> QED
    BY <2>1 DEF Within, Footprint
<1> QED
  BY <1>2, <1>3 DEF Leaves, Within

LEMMA EndLeaves ==
  ASSUME Domains, NEW r \in Requests, NEW T, NEW L, Finish(r), rows' = rows, "idle" \notin L
  PROVE  Leaves(r, T, L)
BY FinishFacts DEF Leaves, Footprint

LEMMA BranchWithin ==
  ASSUME Domains, NEW r \in Requests, NEW T, NEW L, NEW l \in L \cup {"commit"}, pc[r] \in L,
         Branch(r, l), "idle" \notin L
  PROVE  Within(r, T, L)
BY BranchFacts DEF Within, Quiet, Only

LEMMA ReadWithin ==
  ASSUME Domains, NEW r \in Requests, NEW T, NEW L, NEW x, NEW l \in L, pc[r] \in L,
         Read(r, x, l), "idle" \notin L
  PROVE  Within(r, T, L)
BY ReadFacts DEF Within, Quiet, Only

LEMMA StartWithin ==
  ASSUME Domains, NEW r \in Requests, NEW T, NEW L, NEW x, NEW l \in L,
         Start(r, x, l), "idle" \notin L
  PROVE  Within(r, T, L)
BY StartFacts DEF Within, Quiet, Only

LEMMA ThrowWithin ==
  ASSUME Domains, NEW r \in Requests, NEW T, NEW L, pc[r] \in L, Throw(r)
  PROVE  Within(r, T, L)
BY ThrowFacts DEF Within, Quiet, Only

LEMMA WriteWithin ==
  ASSUME Domains, NEW r \in Requests, NEW T, NEW L, NEW k, NEW row, NEW l \in L \cup {"commit"},
         pc[r] \in L, Write(r, k, row, l), k[1] \in T, "idle" \notin L
  PROVE  Within(r, T, L)
<1>1. /\ Footprint(r) /\ rows' = rows /\ pc'[r] = l /\ draft'[r] = Put(draft[r], k, row)
  BY WriteFacts
<1>2. Only(r, T)
  BY <1>1 DEF Only, Put
<1>3. pc'[r] # "idle"
  <2>1. "idle" \notin L \cup {"commit"}
    OBVIOUS
  <2> QED BY <1>1, <2>1
<1> QED
  BY <1>1, <1>2, <1>3 DEF Within

LEMMA InsertWithin ==
  ASSUME Domains, NEW r \in Requests, NEW T, NEW L, NEW k, NEW row, NEW l \in L \cup {"commit"},
         pc[r] \in L, Insert(r, k, row, l), k[1] \in T, "idle" \notin L
  PROVE  Within(r, T, L)
BY WriteWithin, ThrowWithin DEF Insert

LEMMA UpdateWithin ==
  ASSUME Domains, NEW r \in Requests, NEW T, NEW L, NEW k, NEW b, NEW row,
         NEW l \in L \cup {"commit"},
         pc[r] \in L, Update(r, k, b, row, l), k[1] \in T, "idle" \notin L
  PROVE  Within(r, T, L)
BY WriteWithin, ThrowWithin DEF Update

LEMMA TablesOfKeys ==
  /\ \A m : Cycle(m)[1] = "cycle" /\ Counter(m)[1] = "counter" /\ Doc(m)[1] = "document"
  /\ \A m, s : Slip(m, s)[1] = "slip" /\ Certificate(m, s)[1] = "certificate"
  /\ \A n : /\ Application(n)[1] = "application" /\ Student(n)[1] = "student"
            /\ Account(n)[1] = "account" /\ UserOf(n)[1] = "user"
  /\ \A s : PtmSlot(s)[1] = "slot"
BY DEF Doc, Cycle, Counter, Slip, Certificate, Application, Student, Account, UserOf, PtmSlot

LEMMA PayrollWithin ==
  ASSUME Domains, NEW r \in Requests, Keys(r), PayrollStep(r)
  PROVE  Within(r, PayrollTables, PayrollLabels)
<1> USE BranchWithin, ReadWithin, ThrowWithin, TablesOfKeys
    DEF PayrollTables, PayrollLabels
<1>1. CASE ComputePayslips(r)
  <2>1. PICK n, i : Read(r, [id |-> i, net |-> n, left |-> {}], "slipsFind")
    BY <1>1 DEF ComputePayslips
  <2> QED
    BY <1>1, <2>1 DEF ComputePayslips
<1>2. CASE LookForCycle(r) \/ ReadCycle(r) \/ RefuseNoStaff(r)
  BY <1>2 DEF LookForCycle, ReadCycle, RefuseNoStaff
<1>3. CASE InsertCycle(r)
  BY <1>3, InsertWithin DEF InsertCycle
<1>4. CASE FindSlips(r)
  BY <1>4 DEF FindSlips
<1>5. CASE DeleteSlips(r)
  <2>1. CASE Branch(r, "slipCreate")
    BY <1>5, <2>1 DEF DeleteSlips
  <2>2. CASE ~Branch(r, "slipCreate")
    <3>1. PICK f \in seen[r].left :
            /\ Unlocked(r, f[1])
            /\ draft' \in {[draft EXCEPT ![r] = Put(@, f[1], NoRow)], draft}
            /\ seen' = [seen EXCEPT ![r].left = @ \ {f}]
            /\ UNCHANGED <<rows, pc, req>>
      BY <1>5, <2>2 DEF DeleteSlips
    <3>2. pc[r] = "slipsDelete" /\ \E m, s : f[1] = Slip(m, s)
      BY <1>5 DEF DeleteSlips, Keys, SlipLabels
    <3>3. PICK x : seen' = [seen EXCEPT ![r] = x]
      BY <3>1
    <3> QED
      BY <3>1, <3>2, <3>3 DEF Domains, Within, Only, Footprint, Alone, Put
  <2> QED BY <2>1, <2>2
<1>6. CASE CreateSlip(r)
  BY <1>6, InsertWithin DEF CreateSlip
<1>7. CASE ApproveCycle(r) \/ PayCycle(r)
  BY <1>7, WriteWithin DEF ApproveCycle, PayCycle
<1>8. CASE ReadSlip(r) \/ CountPending(r)
  BY <1>8 DEF ReadSlip, CountPending
<1>9. CASE PaySlip(r)
  BY <1>9, UpdateWithin DEF PaySlip, ThisSlip
<1> QED
  BY PayrollStep(r), <1>1, <1>2, <1>3, <1>4, <1>5, <1>6, <1>7, <1>8, <1>9 DEF PayrollStep

LEMMA AdmissionsWithin ==
  ASSUME Domains, NEW r \in Requests, AdmissionsStep(r)
  PROVE  Within(r, AdmissionsTables, AdmissionsLabels)
<1> USE BranchWithin, ReadWithin, ThrowWithin, TablesOfKeys
    DEF AdmissionsTables, AdmissionsLabels
<1>1. CASE ReadActiveYear(r) \/ ReadForStatus(r) \/ ReadForReject(r) \/ ReadForConvert(r)
  BY <1>1 DEF ReadActiveYear, ReadForStatus, ReadForReject, ReadForConvert
<1>2. CASE ReadCounter(r) \/ ReadBaseline(r) \/ Probe(r)
  BY <1>2 DEF ReadCounter, ReadBaseline, Probe
<1>3. CASE SaveCounter(r)
  BY <1>3, WriteWithin DEF SaveCounter, AfterSequence
<1>4. CASE InsertApplication(r) \/ InsertStudent(r) \/ WriteNumber(r)
  BY <1>4, InsertWithin DEF InsertApplication, InsertStudent, WriteNumber
<1>5. CASE WriteStatus(r) \/ MarkConverted(r)
  BY <1>5, WriteWithin DEF WriteStatus, MarkConverted, ThisApplication
<1>6. CASE ReadForEnter(r) \/ ReadForUpdate(r)
  BY <1>6 DEF ReadForEnter, ReadForUpdate, LookForNumber
<1>7. CASE InsertUser(r) \/ EnterStudent(r)
  <2>1. CASE Throw(r)
    BY <1>7, <2>1 DEF InsertUser, EnterStudent
  <2>2. CASE ~Throw(r)
    <3>1. PICK i \in 1..MaxStudents :
            /\ NewId(i)
            /\ \/ OpenAccount(r, i) /\ Unlocked(r, UserOf(req[r].number))
               \/ /\ Unlocked(r, Student(req[r].number))
                  /\ draft' = [draft EXCEPT ![r] = Put(Put(@, Account(i), OtherAddress),
                                                      Student(req[r].number),
                                                      [id |-> i, drawn |-> FALSE])]
      BY <1>7, <2>2 DEF InsertUser, EnterStudent
    <3>2. PICK j, x, y :
            /\ Unlocked(r, j) /\ j[1] \in AdmissionsTables
            /\ draft' = [draft EXCEPT ![r] = Put(Put(@, Account(i), x), j, y)]
      BY <3>1 DEF OpenAccount
    <3>3. Unlocked(r, Account(i)) /\ Account(i)[1] \in AdmissionsTables
      BY <3>1, NewIdFree DEF Unlocked
    <3>4. /\ pc[r] \in {"userInsert", "studentEnter"} /\ UNCHANGED <<rows, req, seen>>
          /\ Goto(r, "sequence") \/ Goto(r, "commit")
      BY <1>7, <2>2 DEF InsertUser, EnterStudent
    <3> QED
      BY <3>2, <3>3, <3>4 DEF Domains, Within, Only, Footprint, Alone, Put, Goto
  <2> QED BY <2>1, <2>2
<1>8. CASE ChangeAddress(r)
  <2>1. /\ pc[r] = "addressWrite" /\ UNCHANGED <<rows, req, seen>>
        /\ Goto(r, "commit") \/ Goto(r, "numberFree")
        /\ Unlocked(r, Account(req[r].id))
    BY <1>8 DEF ChangeAddress, ThisAccount
  <2>2. PICK old, changed :
          /\ draft' = [draft EXCEPT ![r] = changed] /\ Unlocked(r, UserOf(old))
          /\ \/ changed = Put(draft[r], Account(req[r].id), OtherAddress)
             \/ changed = Put(Put(draft[r], Account(req[r].id), OtherAddress), UserOf(old), NoRow)
    BY <1>8 DEF ChangeAddress, ThisAccount
  <2>3. ASSUME NEW k \in DOMAIN changed
        PROVE  \/ k[1] \in AdmissionsTables /\ Unlocked(r, k)
               \/ k \in DOMAIN draft[r] /\ changed[k] = draft[r][k]
    <3>1. CASE k \in {Account(req[r].id), UserOf(old)}
      BY <2>1, <2>2, <3>1
    <3>2. CASE k \notin {Account(req[r].id), UserOf(old)}
      BY <2>2, <2>3, <3>2 DEF Put
    <3> QED BY <3>1, <3>2
  <2>4. Only(r, AdmissionsTables) /\ Footprint(r)
    <3>1. draft'[r] = changed /\ Domains' /\ Alone(r)
      BY <2>1, <2>2 DEF Domains, Alone, Goto
    <3> QED
      BY <2>1, <2>3, <3>1 DEF Only, Footprint
  <2> QED
    BY <2>1, <2>4 DEF Domains, Within, Goto
<1>9. CASE FreeNumber(r)
  <2>1. PICK k \in Bearing(r) : Write(r, k, NoRow, "numberWrite")
    BY <1>9 DEF FreeNumber
  <2>2. k[1] \in AdmissionsTables
    BY <2>1 DEF Bearing
  <2> QED
    BY <1>9, <2>1, <2>2, WriteWithin DEF FreeNumber
<1> QED
  BY AdmissionsStep(r), <1>1, <1>2, <1>3, <1>4, <1>5, <1>6, <1>7, <1>8, <1>9 DEF AdmissionsStep

LEMMA PtmWithin ==
  ASSUME Domains, NEW r \in Requests, PtmStep(r)
  PROVE  Within(r, PtmTables, PtmLabels)
<1> USE BranchWithin, ReadWithin, ThrowWithin, TablesOfKeys DEF PtmTables, PtmLabels
<1>1. CASE InsertSession(r)
  BY <1>1 DEF InsertSession, Domains, Within, Only, Footprint, Alone, Goto
<1>2. CASE ReadForBook(r) \/ CheckTeacher(r) \/ CheckTime(r)
  BY <1>2 DEF ReadForBook, CheckTeacher, CheckTime
<1>3. CASE ReadForCancel(r) \/ ReadForComplete(r)
  BY <1>3 DEF ReadForCancel, ReadForComplete
<1>4. CASE Book(r) \/ Cancel(r) \/ Complete(r)
  BY <1>4, WriteWithin DEF Book, Cancel, Complete, ThisSlot
<1> QED
  BY PtmStep(r), <1>1, <1>2, <1>3, <1>4 DEF PtmStep

LEMMA CertificatesWithin ==
  ASSUME Domains, NEW r \in Requests, Keys(r), CertificatesStep(r)
  PROVE  Within(r, CertificatesTables, CertificatesLabels)
<1> USE BranchWithin, ReadWithin, ThrowWithin, TablesOfKeys
    DEF CertificatesTables, CertificatesLabels
<1>1. CASE NextLearner(r)
  <2>1. CASE Branch(r, "commit")
    BY <1>1, <2>1 DEF NextLearner
  <2>2. CASE ~Branch(r, "commit")
    <3>1. /\ pc[r] = "learnerNext"
          /\ Goto(r, "certificatesCount") \/ Goto(r, "learnerNext")
          /\ \E x : req' = [req EXCEPT ![r] = x]
          /\ UNCHANGED <<rows, draft, seen>>
      BY <1>1, <2>2 DEF NextLearner
    <3> QED
      BY <3>1 DEF Domains, Within, Only, Footprint, Alone, Goto
  <2> QED BY <2>1, <2>2
<1>2. CASE CountCertificates(r) \/ ReadForRevoke(r)
  BY <1>2 DEF CountCertificates, ReadForRevoke
<1>3. CASE InsertCertificate(r)
  BY <1>3, InsertWithin DEF InsertCertificate
<1>4. CASE RevokeCertificate(r)
  <2>1. req[r].certificate[1] = "certificate"
    BY <1>4 DEF RevokeCertificate, Keys, RevokeLabels
  <2> QED
    BY <1>4, <2>1, WriteWithin DEF RevokeCertificate
<1> QED
  BY CertificatesStep(r), <1>1, <1>2, <1>3, <1>4 DEF CertificatesStep

LEMMA DocLabelled ==
  DocLabels = {"scan", "fileStore", "documentInsert", "policyLock", "policyWrite", "rescanRead",
               "fileRead", "rescanLock", "rescanWrite", "fileDelete", "documentMark",
               "sweepCommit", "sweepList", "sweepNext", "deleteRead"}
BY DEF DocLabels, UploadLabels, PolicyLabels, RescanLabels, PurgeLabels, SweepLabels

(* The transaction of one document ends, and the job goes on.              *)
LEMMA NextTransactionWithin ==
  ASSUME Domains, NEW r \in Requests, NextTransaction(r), pc[r] \in DocLabels,
         rows' = rows \/ (rows' = Merged(r) /\ pc[r] = "sweepCommit")
  PROVE  Within(r, DocumentsTables, DocLabels)
<1>1. PICK x : seen' = [seen EXCEPT ![r] = x]
  BY DEF NextTransaction
<1>2. /\ Domains' /\ Alone(r) /\ pc'[r] = "sweepNext"
      /\ draft'[r] = NoRows /\ DOMAIN draft'[r] = {}
  BY <1>1 DEF NextTransaction, Goto, Domains, Alone, NoRows
<1> QED
  BY <1>2, DocLabelled DEF Within, Footprint, Only

LEMMA DocumentsWithin ==
  ASSUME Domains, NEW r \in Requests, DocumentsStep(r)
  PROVE  Within(r, DocumentsTables, DocLabels)
<1> USE BranchWithin, ReadWithin, ThrowWithin, WriteWithin, TablesOfKeys, DocLabelled
    DEF DocumentsTables
<1>1. CASE ScanUpload(r) \/ StoreFile(r) \/ DeleteFile(r) \/ ReadForRescan(r) \/ ScanFile(r)
           \/ ReadForDelete(r)
  BY <1>1 DEF ScanUpload, StoreFile, DeleteFile, ReadForRescan, ScanFile, ReadForDelete
<1>2. CASE InsertDocument(r)
  BY <1>2, InsertWithin DEF InsertDocument
<1>3. CASE LockForPolicy(r) \/ LockForRescan(r)
  BY <1>3 DEF LockForPolicy, LockForRescan, LockDocument
<1>4. CASE WritePolicy(r) \/ WriteVerdict(r) \/ MarkDeleted(r)
  BY <1>4 DEF WritePolicy, WriteVerdict, MarkDeleted
<1>5. CASE ListDue(r)
  BY <1>5 DEF ListDue, ListOf
<1>6. CASE NextDocument(r)
  <2>1. CASE Throw(r)
    BY <1>6, <2>1 DEF NextDocument
  <2>2. CASE ~Throw(r)
    <3>1. PICK d : /\ UNCHANGED <<rows, req>>
                   /\ \/ /\ Lockable(r, d)
                         /\ draft' = [draft EXCEPT ![r] = Put(@, Doc(d), rows[Doc(d)])]
                         /\ Goto(r, "fileDelete")
                      \/ UNCHANGED <<draft, pc>>
                   /\ \E x : seen' = [seen EXCEPT ![r] = x]
      BY <1>6, <2>2 DEF NextDocument
    <3>2. pc[r] = "sweepNext"
      BY <1>6 DEF NextDocument
    <3> QED
      BY <3>1, <3>2 DEF Lockable, Goto, Domains, Within, Only, Footprint, Alone, Put
  <2> QED BY <2>1, <2>2
<1>7. CASE CommitPurge(r)
  BY <1>7, NextTransactionWithin DEF CommitPurge
<1> QED
  BY DocumentsStep(r), <1>1, <1>2, <1>3, <1>4, <1>5, <1>6, <1>7 DEF DocumentsStep

LEMMA ArrivalsWithin ==
  ASSUME Domains, NEW r \in Requests
  PROVE  /\ PayrollArrival(r) => Within(r, PayrollTables, PayrollLabels)
         /\ AdmissionsArrival(r) => Within(r, AdmissionsTables, AdmissionsLabels)
         /\ PtmArrival(r) => Within(r, PtmTables, PtmLabels)
         /\ CertificatesArrival(r) => Within(r, CertificatesTables, CertificatesLabels)
         /\ DocumentsArrival(r) => Within(r, DocumentsTables, DocLabels)
<1> USE StartWithin
<1>1. ASSUME PayrollArrival(r) PROVE Within(r, PayrollTables, PayrollLabels)
  <2>1. PICK l \in {"cycleLook", "cycleRead", "slipRead"} : \E x : Start(r, x, l)
    BY <1>1 DEF PayrollArrival, StartCycle, StartProcess, StartMark
  <2> QED BY <2>1 DEF PayrollLabels
<1>2. ASSUME AdmissionsArrival(r) PROVE Within(r, AdmissionsTables, AdmissionsLabels)
  <2>1. PICK l \in {"yearRead", "statusRead", "rejectRead", "applicationRead", "numberRead",
                    "profileRead"} : \E x : Start(r, x, l)
    BY <1>2 DEF AdmissionsArrival, StartApply, StartStatus, StartReject, StartConvert, StartEnter,
                StartUpdate
  <2> QED BY <2>1 DEF AdmissionsLabels
<1>3. ASSUME PtmArrival(r) PROVE Within(r, PtmTables, PtmLabels)
  <2>1. PICK l \in {"sessionInsert", "bookRead", "cancelRead", "completeRead"} : \E x : Start(r, x, l)
    BY <1>3 DEF PtmArrival, StartSession, StartBook, StartCancel, StartComplete
  <2> QED BY <2>1 DEF PtmLabels
<1>4. ASSUME CertificatesArrival(r) PROVE Within(r, CertificatesTables, CertificatesLabels)
  <2>1. PICK l \in {"learnerNext", "certificateRead"} : \E x : Start(r, x, l)
    BY <1>4 DEF CertificatesArrival, StartIssue, StartRevoke
  <2> QED BY <2>1 DEF CertificatesLabels
<1>5. ASSUME DocumentsArrival(r) PROVE Within(r, DocumentsTables, DocLabels)
  <2>1. PICK l \in {"scan", "policyLock", "deleteRead", "rescanRead", "sweepList"} :
          \E x : Start(r, x, l)
    BY <1>5 DEF DocumentsArrival, StartUpload, StartPolicy, StartDelete, StartRescan, StartSweep
  <2> QED BY <2>1, DocLabelled
<1> QED
  BY <1>1, <1>2, <1>3, <1>4, <1>5

LEMMA PartsApart ==
  /\ CertificatesTables \cap PayrollTables = {} /\ CertificatesTables \cap AdmissionsTables = {}
  /\ CertificatesTables \cap PtmTables = {} /\ CertificatesTables \cap DocumentsTables = {}
  /\ AdmissionsTables \cap PayrollTables = {} /\ AdmissionsTables \cap CertificatesTables = {}
  /\ AdmissionsTables \cap PtmTables = {} /\ AdmissionsTables \cap DocumentsTables = {}
  /\ PayrollTables \cap CertificatesTables = {} /\ PayrollTables \cap AdmissionsTables = {}
  /\ PayrollTables \cap PtmTables = {} /\ PayrollTables \cap DocumentsTables = {}
  /\ CertificatesLabels \cap PayrollLabels = {} /\ CertificatesLabels \cap AdmissionsLabels = {}
  /\ CertificatesLabels \cap PtmLabels = {} /\ CertificatesLabels \cap DocLabels = {}
  /\ AdmissionsLabels \cap PayrollLabels = {} /\ AdmissionsLabels \cap CertificatesLabels = {}
  /\ AdmissionsLabels \cap PtmLabels = {} /\ AdmissionsLabels \cap DocLabels = {}
  /\ PayrollLabels \cap CertificatesLabels = {} /\ PayrollLabels \cap AdmissionsLabels = {}
  /\ PayrollLabels \cap PtmLabels = {} /\ PayrollLabels \cap DocLabels = {}
  /\ {"commit", "idle"} \cap (PayrollLabels \cup AdmissionsLabels \cup PtmLabels
                                \cup CertificatesLabels \cup DocLabels) = {}
BY DocLabelled
   DEF PayrollTables, AdmissionsTables, PtmTables, CertificatesTables, DocumentsTables,
       PayrollLabels, AdmissionsLabels, PtmLabels, CertificatesLabels

(* A step that is not one of the database's.                               *)
Aside == UNCHANGED <<rows, draft, pc, req, seen, runs>>

(* What the rest of the office does, seen from one part.                   *)
LEMMA PayrollLeaves ==
  ASSUME DocumentsInv, NEW r \in Requests, NEW T, NEW L, Confined(T, L),
         T \cap PayrollTables = {}, L \cap PayrollLabels = {}, {"commit", "idle"} \cap L = {},
         PayrollArrival(r) \/ PayrollStep(r)
  PROVE  Leaves(r, T, L)
BY PayrollWithin, ArrivalsWithin, WithinOther, PartsApart DEF DocumentsInv, Own

LEMMA AdmissionsLeaves ==
  ASSUME DocumentsInv, NEW r \in Requests, NEW T, NEW L, Confined(T, L),
         T \cap AdmissionsTables = {}, L \cap AdmissionsLabels = {},
         {"commit", "idle"} \cap L = {}, AdmissionsArrival(r) \/ AdmissionsStep(r)
  PROVE  Leaves(r, T, L)
BY AdmissionsWithin, ArrivalsWithin, WithinOther, PartsApart DEF DocumentsInv, Own

LEMMA CertificatesLeaves ==
  ASSUME DocumentsInv, NEW r \in Requests, NEW T, NEW L, Confined(T, L),
         T \cap CertificatesTables = {}, L \cap CertificatesLabels = {},
         {"commit", "idle"} \cap L = {}, CertificatesArrival(r) \/ CertificatesStep(r)
  PROVE  Leaves(r, T, L)
BY CertificatesWithin, ArrivalsWithin, WithinOther, PartsApart DEF DocumentsInv, Own

LEMMA PtmAndDocumentsLeave ==
  ASSUME DocumentsInv, NEW r \in Requests, NEW T, NEW L, Confined(T, L),
         T \cap (PtmTables \cup DocumentsTables) = {}, L \cap (PtmLabels \cup DocLabels) = {},
         {"commit", "idle"} \cap L = {},
         PtmArrival(r) \/ PtmStep(r) \/ DocumentsArrival(r) \/ DocumentsStep(r)
  PROVE  Leaves(r, T, L)
<1>1. T \cap PtmTables = {} /\ T \cap DocumentsTables = {}
  OBVIOUS
<1>2. L \cap PtmLabels = {} /\ L \cap DocLabels = {} /\ "commit" \notin L /\ "idle" \notin L
  OBVIOUS
<1> QED
  BY <1>1, <1>2, PtmWithin, DocumentsWithin, ArrivalsWithin, WithinOther, PartsApart
     DEF DocumentsInv

LEMMA FailuresLeave ==
  ASSUME DocumentsInv, NEW r \in Requests, NEW T, NEW L, Confined(T, L),
         T \cap DocumentsTables = {}, L \cap DocLabels = {}, {"commit", "idle"} \cap L = {},
         Fails(r) \/ DeadlockVictim(r)
  PROVE  Leaves(r, T, L)
<1>1. CASE AbortDocument(r) \/ DeadlockVictim(r)
  BY <1>1, EndLeaves DEF AbortDocument, Abort, DeadlockVictim, Victim, Throw, DocumentsInv
<1>2. CASE PurgeFails(r)
  <2>1. Within(r, DocumentsTables, DocLabels)
    BY <1>2, NextTransactionWithin, DocLabelled DEF PurgeFails, DocumentsInv
  <2> QED
    BY <2>1, WithinOther, PartsApart DEF DocumentsInv
<1> QED
  BY <1>1, <1>2 DEF Fails

LEMMA OutsideAside ==
  ASSUME Outside \/ UNCHANGED vars
  PROVE  Aside
BY DEF Outside, Tick, LateDeletion, CircuitNext, vars, dbVars, Aside

LEMMA ConfinedKept ==
  ASSUME NEW T, NEW L, Confined(T, L), NEW r \in Requests, Alone(r),
         \/ \A k \in DOMAIN draft'[r] : k[1] \in T => pc'[r] \in L \cup {"commit"}
         \/ Leaves(r, T, L) \/ Within(r, T, L)
  PROVE  Confined(T, L)'
<1>1. \A q \in Requests \ {r} : draft'[q] = draft[q] /\ pc'[q] = pc[q]
  BY DEF Alone
<1>2. \A k \in DOMAIN draft'[r] : k[1] \in T => pc'[r] \in L \cup {"commit"}
  BY DEF Leaves, Within
<1> QED
  BY <1>1, <1>2 DEF Confined

---------------------------------------------------------------------------
(***************************************************************************)
(* Certificates.  What a request sees of a prefix is numbered from 1 on,   *)
(* and a number it is about to insert follows one that it sees.            *)
(***************************************************************************)
IssueLabels == {"learnerNext", "certificatesCount", "certificateInsert"}

CertificateRow == [type : Types, revoked : BOOLEAN]

Prefixes == {"TC", "CERT"}

Shown(r, prefix) == {n \in CertificateNumbers : View(r, Certificate(prefix, n)) # NoRow}

Stretch(S) == \E k \in 0..MaxCertificates : S = 1..k

Certified ==
  \A k : k[1] = "certificate" => Row(rows, k) \in CertificateRow \cup {NoRow}

CertificateDrafts(r) ==
  \A k \in DOMAIN draft[r] : k[1] = "certificate" => draft[r][k] \in CertificateRow

Issuer(r) == pc[r] \in IssueLabels => "type" \in DOMAIN req[r] /\ req[r].type \in Types

Revoker(r) == pc[r] \in RevokeLabels => Row(rows, req[r].certificate) # NoRow

Counted(r) ==
  pc[r] = "certificateInsert" =>
    /\ seen[r] \in Nat \ {0}
    /\ \A n \in CertificateNumbers : n < seen[r] => n \in Shown(r, PrefixOf(req[r].type))

Certifying(r) ==
  /\ CertificateDrafts(r) /\ Issuer(r) /\ Revoker(r) /\ Counted(r)
  /\ \A prefix \in Prefixes : Stretch(Shown(r, prefix))

CertificatesInv ==
  /\ Confined(CertificatesTables, CertificatesLabels) /\ Certified
  /\ \A prefix \in Prefixes : Stretch(Issued(prefix))
  /\ \A r \in Requests : Certifying(r)

LEMMA CertificateKeys ==
  /\ \A prefix, n : Certificate(prefix, n)[1] = "certificate"
  /\ \A p, n, q, m : Certificate(p, n) = Certificate(q, m) => p = q /\ n = m
  /\ \A k : k[1] = "certificate" <=> k[1] \in CertificatesTables
BY DEF Certificate, CertificatesTables

(* The certificates that others see, when none is committed.               *)
LEMMA OtherCertificates ==
  ASSUME DocumentsInv, CertificatesInv, NEW r \in Requests, Alone(r),
         \A k : k[1] = "certificate" => Row(rows', k) = Row(rows, k)
  PROVE  /\ Certified' /\ \A prefix \in Prefixes : Stretch(Issued(prefix))'
         /\ \A q \in Requests \ {r} : Certifying(q)'
<1>1. Certified'
  BY DEF CertificatesInv, Certified
<1>2. \A prefix : Issued(prefix)' = Issued(prefix)
  BY CertificateKeys DEF Issued
<1>3. ASSUME NEW q \in Requests \ {r}
      PROVE  Certifying(q)'
  <2>1. draft'[q] = draft[q] /\ pc'[q] = pc[q] /\ req'[q] = req[q] /\ seen'[q] = seen[q]
    BY <1>3 DEF Alone
  <2>2. \A prefix : Shown(q, prefix)' = Shown(q, prefix)
    BY <2>1, CertificateKeys DEF Shown, View
  <2>3. Certifying(q) /\ Keys(q)
    BY <1>3 DEF CertificatesInv, DocumentsInv, Own
  <2>4. Revoker(q)'
    BY <2>1, <2>3, CertificateKeys DEF Certifying, Revoker, Keys
  <2>5. CertificateDrafts(q)' /\ Issuer(q)'
    BY <2>1, <2>3 DEF Certifying, CertificateDrafts, Issuer
  <2>6. Counted(q)'
    BY <2>1, <2>2, <2>3 DEF Certifying, Counted
  <2>7. \A prefix \in Prefixes : Stretch(Shown(q, prefix))'
    BY <2>2, <2>3 DEF Certifying
  <2> QED
    BY <2>4, <2>5, <2>6, <2>7 DEF Certifying
<1> QED
  BY <1>1, <1>2, <1>3 DEF CertificatesInv

LEMMA LeavingCertificates ==
  ASSUME DocumentsInv, CertificatesInv, NEW r \in Requests,
         Leaves(r, CertificatesTables, CertificatesLabels)
  PROVE  CertificatesInv'
<1>1. Alone(r) /\ pc'[r] \notin CertificatesLabels
  BY DEF Leaves, Footprint
<1>2. \A k : k[1] = "certificate" => k \notin DOMAIN draft'[r] /\ Row(rows', k) = Row(rows, k)
  BY CertificateKeys DEF Leaves
<1>3. /\ Certified' /\ \A prefix \in Prefixes : Stretch(Issued(prefix))'
      /\ \A q \in Requests \ {r} : Certifying(q)'
  BY <1>1, <1>2, OtherCertificates
<1>4. \A prefix \in Prefixes : Shown(r, prefix)' = Issued(prefix)'
  BY <1>2, CertificateKeys DEF Shown, Issued, View
<1>5. CertificateDrafts(r)' /\ Issuer(r)' /\ Revoker(r)' /\ Counted(r)'
  BY <1>1, <1>2
     DEF CertificateDrafts, Issuer, Revoker, Counted, CertificatesLabels, IssueLabels,
         RevokeLabels
<1>6. Certifying(r)'
  BY <1>3, <1>4, <1>5 DEF Certifying
<1>7. Confined(CertificatesTables, CertificatesLabels)'
  BY <1>1, ConfinedKept DEF CertificatesInv
<1> QED
  BY <1>3, <1>6, <1>7 DEF CertificatesInv

(* A step that writes nothing.                                             *)
LEMMA ReadingCertificates ==
  ASSUME DocumentsInv, CertificatesInv, NEW r \in Requests, Alone(r),
         Within(r, CertificatesTables, CertificatesLabels),
         rows' = rows, draft'[r] = draft[r], Issuer(r)', Revoker(r)', Counted(r)'
  PROVE  CertificatesInv'
<1>1. /\ Certified' /\ \A prefix \in Prefixes : Stretch(Issued(prefix))'
      /\ \A q \in Requests \ {r} : Certifying(q)'
  BY OtherCertificates
<1>2. \A prefix : Shown(r, prefix)' = Shown(r, prefix)
  BY DEF Shown, View
<1>3. Certifying(r)'
  BY <1>2 DEF CertificatesInv, Certifying, CertificateDrafts
<1>4. Confined(CertificatesTables, CertificatesLabels)'
  BY ConfinedKept DEF CertificatesInv
<1> QED
  BY <1>1, <1>3, <1>4 DEF CertificatesInv

LEMMA WritingCertificates ==
  ASSUME DocumentsInv, CertificatesInv, NEW r \in Requests, NEW k, NEW row \in CertificateRow,
         NEW l \in {"learnerNext", "commit"}, pc[r] \in CertificatesLabels,
         Write(r, k, row, l), k[1] = "certificate", l = "learnerNext" => Issuer(r)',
         \A prefix \in Prefixes, n \in CertificateNumbers :
           k = Certificate(prefix, n) /\ n \notin Shown(r, prefix)
             => \A m \in CertificateNumbers : m < n => m \in Shown(r, prefix)
  PROVE  CertificatesInv'
<1>1. /\ Alone(r) /\ rows' = rows /\ pc'[r] = l /\ draft'[r] = Put(draft[r], k, row)
  BY WriteFacts DEF DocumentsInv, Footprint
<1>2. row # NoRow
  BY CertificatesAssumption DEF CertificateRow
<1>3. /\ Certified' /\ \A prefix \in Prefixes : Stretch(Issued(prefix))'
      /\ \A q \in Requests \ {r} : Certifying(q)'
  BY <1>1, OtherCertificates
<1>4. \A prefix : Shown(r, prefix)' =
        Shown(r, prefix) \cup {n \in CertificateNumbers : k = Certificate(prefix, n)}
  BY <1>1, <1>2 DEF Shown, View, Put
<1>5. ASSUME NEW prefix \in Prefixes
      PROVE  Stretch(Shown(r, prefix))'
  <2>1. PICK a \in 0..MaxCertificates : Shown(r, prefix) = 1..a
    BY DEF CertificatesInv, Certifying, Stretch
  <2>2. CASE \E n \in CertificateNumbers : k = Certificate(prefix, n) /\ n \notin Shown(r, prefix)
    <3>1. PICK n \in CertificateNumbers : k = Certificate(prefix, n) /\ n \notin 1..a
      BY <2>1, <2>2
    <3>2. \A m \in CertificateNumbers : m < n => m \in 1..a
      BY <2>1, <3>1
    <3>3. MaxCertificates \in Nat /\ n \in 1..MaxCertificates
      BY <3>1, CertificatesAssumption DEF CertificateNumbers
    <3>4. n = a + 1
      <4>1. n > a
        BY <3>1, <3>3
      <4>2. CASE n > a + 1
        <5>1. a + 1 \in CertificateNumbers /\ a + 1 < n /\ a + 1 \notin 1..a
          BY <3>3, <4>2 DEF CertificateNumbers
        <5> QED BY <3>2, <5>1
      <4> QED BY <3>3, <4>1, <4>2
    <3>5. {m \in CertificateNumbers : k = Certificate(prefix, m)} = {n}
      BY <3>1, CertificateKeys
    <3>6. Shown(r, prefix)' = (1..a) \cup {n}
      BY <1>4, <2>1, <3>5
    <3>7. (1..a) \cup {n} = 1..n
      BY <3>3, <3>4
    <3> QED
      BY <3>3, <3>6, <3>7 DEF Stretch
  <2>3. CASE ~ \E n \in CertificateNumbers :
                 k = Certificate(prefix, n) /\ n \notin Shown(r, prefix)
    <3>1. Shown(r, prefix)' = Shown(r, prefix)
      BY <1>4, <2>3
    <3> QED
      BY <3>1 DEF CertificatesInv, Certifying
  <2> QED BY <2>2, <2>3
<1>6. CertificateDrafts(r)'
  BY <1>1 DEF CertificatesInv, Certifying, CertificateDrafts, Put
<1>7. Issuer(r)' /\ Revoker(r)' /\ Counted(r)'
  BY <1>1 DEF Issuer, Revoker, Counted, RevokeLabels, IssueLabels
<1>8. Confined(CertificatesTables, CertificatesLabels)'
  <2>1. pc'[r] \in CertificatesLabels \cup {"commit"}
    BY <1>1 DEF CertificatesLabels
  <2> QED
    BY <1>1, <2>1, ConfinedKept DEF CertificatesInv
<1> QED
  BY <1>3, <1>5, <1>6, <1>7, <1>8 DEF CertificatesInv, Certifying

LEMMA CertificatesStepKeeps ==
  ASSUME DocumentsInv, CertificatesInv, NEW r \in Requests, CertificatesStep(r)
  PROVE  CertificatesInv'
<1>1. Domains /\ Keys(r) /\ Certifying(r)
  BY DEF DocumentsInv, Own, CertificatesInv
<1>2. Within(r, CertificatesTables, CertificatesLabels) /\ Alone(r)
  BY <1>1, CertificatesWithin DEF Within, Footprint
<1>3. CASE NextLearner(r)
  <2>1. pc[r] = "learnerNext" /\ Issuer(r)
    BY <1>1, <1>3 DEF NextLearner, Certifying
  <2>2. "type" \in DOMAIN req[r] /\ req[r].type \in Types
    BY <2>1 DEF Issuer, IssueLabels
  <2>3. CASE Branch(r, "commit")
    <3>1. rows' = rows /\ pc'[r] = "commit" /\ draft'[r] = draft[r]
      BY <1>1, <2>3, BranchFacts DEF Quiet
    <3> QED
      BY <1>2, <3>1, ReadingCertificates
         DEF Issuer, Revoker, Counted, IssueLabels, RevokeLabels
  <2>4. CASE ~Branch(r, "commit")
    <3>1. PICK p \in req[r].students :
            /\ Goto(r, "certificatesCount") \/ Goto(r, "learnerNext")
            /\ req' = [req EXCEPT ![r].students = @ \ {p}]
            /\ UNCHANGED <<rows, draft, seen>>
      BY <1>3, <2>4 DEF NextLearner
    <3>2. /\ rows' = rows /\ draft'[r] = draft[r]
          /\ pc'[r] \in {"certificatesCount", "learnerNext"}
      BY <1>1, <3>1 DEF Goto, Domains
    <3>3. "type" \in DOMAIN req'[r] /\ req'[r].type = req[r].type
      BY <1>1, <2>2, <3>1 DEF Domains
    <3> QED
      BY <1>2, <2>2, <3>2, <3>3, ReadingCertificates
         DEF Issuer, Revoker, Counted, IssueLabels, RevokeLabels
  <2> QED BY <2>3, <2>4
<1>4. CASE CountCertificates(r)
  <2> DEFINE prefix == PrefixOf(req[r].type)
             count == Cardinality(OfType(r, req[r].type))
  <2>1. Read(r, count + 1, "certificateInsert") /\ pc[r] = "certificatesCount"
    BY <1>4 DEF CountCertificates
  <2>2. /\ rows' = rows /\ draft'[r] = draft[r] /\ req'[r] = req[r]
        /\ pc'[r] = "certificateInsert" /\ seen'[r] = count + 1
    BY <1>1, <2>1, ReadFacts DEF Quiet
  <2>3. Issuer(r)' /\ Revoker(r)'
    BY <1>1, <2>1, <2>2 DEF Certifying, Issuer, Revoker, IssueLabels, RevokeLabels
  <2>4. prefix \in Prefixes
    BY DEF PrefixOf, Prefixes
  <2>5. PICK a \in 0..MaxCertificates : Shown(r, prefix) = 1..a
    BY <1>1, <2>4 DEF Certifying, Stretch
  <2>6. OfType(r, req[r].type) \in SUBSET (1..a)
    BY <2>5 DEF OfType, Shown
  <2>7. a \in Nat /\ MaxCertificates \in Nat
    BY CertificatesAssumption
  <2>8. IsFiniteSet(1..a) /\ Cardinality(1..a) = a
    BY <2>7, FS_Interval
  <2>9. count \in Nat /\ count <= a
    BY <2>6, <2>8, FS_Subset, FS_CardinalityType
  <2> HIDE DEF count
  <2>11. ASSUME NEW n \in CertificateNumbers, n < count + 1
         PROVE  n \in Shown(r, prefix)
    BY <2>5, <2>7, <2>9, <2>11 DEF CertificateNumbers
  <2>12. Counted(r)'
    BY <2>2, <2>9, <2>11 DEF Counted, Shown, View
  <2> QED
    BY <1>2, <2>2, <2>3, <2>12, ReadingCertificates
<1>5. CASE InsertCertificate(r)
  <2> DEFINE prefix == PrefixOf(req[r].type)
             k == Certificate(prefix, seen[r])
             row == [type |-> req[r].type, revoked |-> FALSE]
  <2>1. pc[r] = "certificateInsert" /\ Insert(r, k, row, "learnerNext")
    BY <1>5 DEF InsertCertificate
  <2>2. CASE Throw(r)
    <3>1. Leaves(r, CertificatesTables, CertificatesLabels)
      BY <1>1, <2>2, EndLeaves DEF Throw, CertificatesLabels
    <3> QED BY <3>1, LeavingCertificates
  <2>3. CASE Write(r, k, row, "learnerNext")
    <3>1. Issuer(r) /\ Counted(r) /\ req'[r] = req[r]
      BY <1>1, <2>3, WriteFacts DEF Certifying
    <3>2. Issuer(r)' /\ row \in CertificateRow
      BY <2>1, <3>1 DEF Issuer, IssueLabels, CertificateRow
    <3>3. ASSUME NEW p \in Prefixes, NEW n \in CertificateNumbers, k = Certificate(p, n),
                 NEW m \in CertificateNumbers, m < n
          PROVE  m \in Shown(r, p)
      <4>1. p = prefix /\ n = seen[r]
        BY <3>3, CertificateKeys
      <4> QED
        BY <2>1, <3>1, <3>3, <4>1 DEF Counted
    <3>4. k[1] = "certificate" /\ pc[r] \in CertificatesLabels
      BY <2>1, CertificateKeys DEF CertificatesLabels
    <3> HIDE DEF k, row
    <3> QED
      BY <2>3, <3>2, <3>3, <3>4, WritingCertificates
  <2> QED
    BY <2>1, <2>2, <2>3 DEF Insert
<1>6. CASE ReadForRevoke(r)
  <2>1. pc[r] = "certificateRead" /\ Branch(r, "certificateRevoke")
    BY <1>6 DEF ReadForRevoke
  <2>2. /\ rows' = rows /\ draft'[r] = draft[r] /\ req'[r] = req[r]
        /\ pc'[r] = "certificateRevoke"
    BY <1>1, <2>1, BranchFacts DEF Quiet
  <2>3. Issuer(r)' /\ Revoker(r)' /\ Counted(r)'
    BY <1>1, <2>1, <2>2
       DEF Certifying, Issuer, Revoker, Counted, IssueLabels, RevokeLabels
  <2> QED
    BY <1>2, <2>2, <2>3, ReadingCertificates
<1>7. CASE RevokeCertificate(r)
  <2> DEFINE k == req[r].certificate
             row == [View(r, k) EXCEPT !.revoked = TRUE]
  <2>1. pc[r] = "certificateRevoke" /\ Write(r, k, row, "commit")
    BY <1>7 DEF RevokeCertificate
  <2>2. Row(rows, k) # NoRow /\ k[1] = "certificate"
    BY <1>1, <2>1, CertificateKeys DEF Certifying, Revoker, Keys, RevokeLabels
  <2>3. View(r, k) \in CertificateRow
    BY <1>1, <2>2 DEF CertificatesInv, Certified, Certifying, CertificateDrafts, View
  <2>4. row \in CertificateRow
    BY <2>3 DEF CertificateRow
  <2>5. View(r, k) # NoRow
    BY <2>3, CertificatesAssumption DEF CertificateRow
  <2>6. \A prefix \in Prefixes, n \in CertificateNumbers :
          k = Certificate(prefix, n) => n \in Shown(r, prefix)
    BY <2>5 DEF Shown
  <2>7. pc[r] \in CertificatesLabels
    BY <2>1 DEF CertificatesLabels
  <2> HIDE DEF k, row
  <2> QED
    BY <2>1, <2>2, <2>4, <2>6, <2>7, WritingCertificates
<1> QED
  BY <1>3, <1>4, <1>5, <1>6, <1>7 DEF CertificatesStep

LEMMA CertificatesArrivalKeeps ==
  ASSUME DocumentsInv, CertificatesInv, NEW r \in Requests, CertificatesArrival(r)
  PROVE  CertificatesInv'
<1>1. Domains
  BY DEF DocumentsInv
<1>2. Within(r, CertificatesTables, CertificatesLabels) /\ Alone(r)
  BY <1>1, ArrivalsWithin DEF Within, Footprint
<1>3. CASE \E type \in Types, students \in (SUBSET Learners) \ {{}} :
             StartIssue(r, type, students)
  <2>0. PICK type \in Types : \E students : StartIssue(r, type, students)
    BY <1>3
  <2>1. PICK students : StartIssue(r, type, students)
    BY <2>0
  <2>2. Start(r, [kind |-> "issue", type |-> type, students |-> students], "learnerNext")
    BY <2>1 DEF StartIssue
  <2>3. /\ rows' = rows /\ draft'[r] = draft[r] /\ pc'[r] = "learnerNext"
        /\ req'[r] = [kind |-> "issue", type |-> type, students |-> students]
    BY <1>1, <2>2, StartFacts DEF Quiet
  <2>4. Issuer(r)' /\ Revoker(r)' /\ Counted(r)'
    BY <2>3 DEF Issuer, Revoker, Counted, RevokeLabels
  <2> QED
    BY <1>2, <2>3, <2>4, ReadingCertificates
<1>4. CASE \E prefix \in {"TC", "CERT"}, n \in CertificateNumbers :
             StartRevoke(r, Certificate(prefix, n))
  <2>1. PICK k : StartRevoke(r, k)
    BY <1>4
  <2>2. /\ Row(rows, k) # NoRow
        /\ Start(r, [kind |-> "revoke", certificate |-> k], "certificateRead")
    BY <2>1 DEF StartRevoke
  <2>3. /\ rows' = rows /\ draft'[r] = draft[r] /\ pc'[r] = "certificateRead"
        /\ req'[r] = [kind |-> "revoke", certificate |-> k]
    BY <1>1, <2>2, StartFacts DEF Quiet
  <2>4. Issuer(r)' /\ Revoker(r)' /\ Counted(r)'
    BY <2>2, <2>3 DEF Issuer, Revoker, Counted, IssueLabels
  <2> QED
    BY <1>2, <2>3, <2>4, ReadingCertificates
<1> QED
  BY <1>3, <1>4 DEF CertificatesArrival

(* Two requests cannot both see a number that is not yet given: they would *)
(* both hold the first one.                                                *)
LEMMA OneAhead ==
  ASSUME DocumentsInv, CertificatesInv, NEW r \in Requests, NEW q \in Requests, q # r,
         NEW prefix \in Prefixes
  PROVE  Shown(r, prefix) = Issued(prefix) \/ Shown(q, prefix) = Issued(prefix)
<1>1. PICK c \in 0..MaxCertificates : Issued(prefix) = 1..c
  BY DEF CertificatesInv, Stretch
<1>2. PICK a \in 0..MaxCertificates : Shown(r, prefix) = 1..a
  BY DEF CertificatesInv, Certifying, Stretch
<1>3. PICK b \in 0..MaxCertificates : Shown(q, prefix) = 1..b
  BY DEF CertificatesInv, Certifying, Stretch
<1>4. MaxCertificates \in Nat
  BY CertificatesAssumption
<1>5. ASSUME NEW s \in Requests, NEW n \in Issued(prefix)
      PROVE  n \in Shown(s, prefix)
  <2>1. View(s, Certificate(prefix, n)) # NoRow
    BY <1>5, CertificateKeys, CertificatesAssumption
       DEF Issued, View, CertificatesInv, Certifying, CertificateDrafts, CertificateRow
  <2> QED
    BY <1>5, <2>1 DEF Issued, Shown
<1>6. c <= a /\ c <= b
  <2>1. CASE c > 0
    <3>1. c \in Issued(prefix)
      BY <1>1, <1>4, <2>1
    <3>2. c \in Shown(r, prefix) /\ c \in Shown(q, prefix)
      BY <1>5, <3>1
    <3> QED BY <1>2, <1>3, <1>4, <3>2
  <2> QED BY <1>4, <2>1
<1>7. ASSUME a > c, b > c
      PROVE  FALSE
  <2> DEFINE k == Certificate(prefix, c + 1)
  <2>1. c + 1 \in Shown(r, prefix) /\ c + 1 \in Shown(q, prefix) /\ c + 1 \notin Issued(prefix)
    BY <1>1, <1>2, <1>3, <1>4, <1>7
  <2>2. View(r, k) # NoRow /\ View(q, k) # NoRow /\ Row(rows, k) = NoRow
    BY <2>1 DEF Shown, Issued
  <2>3. k \in DOMAIN draft[r] /\ k \in DOMAIN draft[q]
    BY <2>2 DEF View
  <2> QED
    BY <2>3 DEF DocumentsInv, Exclusive
<1>8. a = c \/ b = c
  BY <1>4, <1>6, <1>7
<1> QED
  BY <1>1, <1>2, <1>3, <1>8

LEMMA CommittingCertificates ==
  ASSUME DocumentsInv, CertificatesInv, NEW r \in Requests, Commit(r)
  PROVE  CertificatesInv'
<1>1. /\ rows' = Merged(r) /\ Alone(r) /\ pc'[r] = "idle" /\ DOMAIN draft'[r] = {}
  BY FinishFacts DEF Commit, DocumentsInv
<1>2. \A k : Row(rows', k) = View(r, k)
  BY <1>1, RowOfMerged
<1>3. NoRow \notin CertificateRow
  BY CertificatesAssumption DEF CertificateRow
<1>4. \A k : k[1] = "certificate" =>
        /\ View(r, k) \in CertificateRow \cup {NoRow}
        /\ Row(rows, k) # NoRow => View(r, k) # NoRow
  BY <1>3 DEF CertificatesInv, Certified, Certifying, CertificateDrafts, View
<1>5. Certified'
  BY <1>2, <1>4 DEF Certified
<1>6. \A prefix : Issued(prefix)' = Shown(r, prefix)
  BY <1>2 DEF Issued, Shown
<1>7. \A prefix \in Prefixes : Stretch(Issued(prefix))'
  BY <1>6 DEF CertificatesInv, Certifying
<1>8. Certifying(r)'
  <2>1. \A prefix : Shown(r, prefix)' = Issued(prefix)'
    BY <1>1 DEF Shown, Issued, View
  <2> QED
    BY <1>1, <1>7, <2>1
       DEF Certifying, CertificateDrafts, Issuer, Revoker, Counted, IssueLabels, RevokeLabels
<1>9. ASSUME NEW q \in Requests \ {r}
      PROVE  Certifying(q)'
  <2>1. draft'[q] = draft[q] /\ pc'[q] = pc[q] /\ req'[q] = req[q] /\ seen'[q] = seen[q]
    BY <1>1 DEF Alone
  <2>2. Certifying(q) /\ Keys(q)
    BY DEF CertificatesInv, DocumentsInv, Own
  <2>3. CertificateDrafts(q)' /\ Issuer(q)'
    BY <2>1, <2>2 DEF Certifying, CertificateDrafts, Issuer
  <2>4. Revoker(q)'
    BY <1>2, <1>4, <2>1, <2>2, CertificateKeys DEF Certifying, Revoker, Keys
  <2>5. ASSUME NEW prefix
        PROVE  Shown(q, prefix)' = Shown(q, prefix) \cup Shown(r, prefix)
    <3>1. ASSUME NEW n \in CertificateNumbers
          PROVE  View(q, Certificate(prefix, n))' # NoRow <=>
                   \/ View(q, Certificate(prefix, n)) # NoRow
                   \/ View(r, Certificate(prefix, n)) # NoRow
      <4> DEFINE k == Certificate(prefix, n)
      <4>1. k[1] = "certificate"
        BY CertificateKeys
      <4>2. CASE k \in DOMAIN draft[q]
        BY <1>3, <2>1, <2>2, <4>1, <4>2 DEF View, Certifying, CertificateDrafts
      <4>3. CASE k \notin DOMAIN draft[q]
        BY <1>2, <1>4, <2>1, <4>1, <4>3 DEF View
      <4> QED BY <4>2, <4>3
    <3> QED
      BY <3>1 DEF Shown
  <2>6. Counted(q)'
    BY <2>1, <2>2, <2>5 DEF Certifying, Counted
  <2>7. ASSUME NEW prefix \in Prefixes
        PROVE  Stretch(Shown(q, prefix))'
    <3>1. Issued(prefix) \subseteq Shown(q, prefix) /\ Issued(prefix) \subseteq Shown(r, prefix)
      BY <1>3, <2>2, CertificateKeys
         DEF CertificatesInv, Certifying, CertificateDrafts, Issued, Shown, View
    <3>2. Shown(q, prefix)' \in {Shown(q, prefix), Shown(r, prefix)}
      BY <2>5, <3>1, OneAhead
    <3> QED
      BY <3>2 DEF CertificatesInv, Certifying
  <2> QED
    BY <2>3, <2>4, <2>6, <2>7 DEF Certifying
<1>10. Confined(CertificatesTables, CertificatesLabels)'
  BY <1>1, ConfinedKept DEF CertificatesInv
<1> QED
  BY <1>5, <1>7, <1>8, <1>9, <1>10 DEF CertificatesInv

LEMMA CertificatesInit == Init => CertificatesInv
<1> SUFFICES ASSUME Init
             PROVE  CertificatesInv
  OBVIOUS
<1>1. DOMAIN rows = {} /\ \A r \in Requests : DOMAIN draft[r] = {} /\ pc[r] = "idle"
  BY DEF Init, DbInit, NoRows
<1>2. \A prefix : Issued(prefix) = 1..0 /\ \A r \in Requests : Shown(r, prefix) = 1..0
  BY <1>1 DEF Issued, Shown, View, Row
<1>3. 0 \in 0..MaxCertificates
  BY CertificatesAssumption
<1>4. \A r \in Requests : Certifying(r)
  BY <1>1, <1>2, <1>3
     DEF Certifying, CertificateDrafts, Issuer, Revoker, Counted, Stretch, IssueLabels,
         RevokeLabels
<1> QED
  BY <1>1, <1>2, <1>3, <1>4 DEF CertificatesInv, Confined, Certified, Stretch, Row

LEMMA CertificatesNext == DocumentsInv /\ CertificatesInv /\ [Next]_vars => CertificatesInv'
<1> SUFFICES ASSUME DocumentsInv, CertificatesInv, [Next]_vars
             PROVE  CertificatesInv'
  OBVIOUS
<1>1. CASE Outside \/ UNCHANGED vars
  <2>1. UNCHANGED <<rows, draft, pc, req, seen>>
    BY <1>1, OutsideAside DEF Aside
  <2> QED
    BY <2>1 DEF CertificatesInv, Confined, Certified, Certifying, CertificateDrafts, Issuer,
                Revoker, Counted, Stretch, Issued, Shown, View
<1>2. ASSUME NEW r \in Requests, Arrival(r) \/ RequestStep(r) \/ Fails(r) \/ DeadlockVictim(r)
      PROVE  CertificatesInv'
  <2>1. \/ CertificatesArrival(r) \/ CertificatesStep(r) \/ Commit(r)
        \/ PayrollArrival(r) \/ PayrollStep(r) \/ AdmissionsArrival(r) \/ AdmissionsStep(r)
        \/ PtmArrival(r) \/ PtmStep(r) \/ DocumentsArrival(r) \/ DocumentsStep(r)
        \/ Fails(r) \/ DeadlockVictim(r)
    BY <1>2 DEF Arrival, RequestStep
  <2>2. CASE CertificatesArrival(r) \/ CertificatesStep(r) \/ Commit(r)
    BY <2>2, CertificatesArrivalKeeps, CertificatesStepKeeps, CommittingCertificates
  <2>3. CASE ~(CertificatesArrival(r) \/ CertificatesStep(r) \/ Commit(r))
    <3>1. Confined(CertificatesTables, CertificatesLabels)
      BY DEF CertificatesInv
    <3>2. /\ CertificatesTables \cap (PtmTables \cup DocumentsTables) = {}
          /\ CertificatesLabels \cap (PtmLabels \cup DocLabels) = {}
          /\ {"commit", "idle"} \cap CertificatesLabels = {}
      BY PartsApart
    <3>3. Leaves(r, CertificatesTables, CertificatesLabels)
      BY <2>1, <2>3, <3>1, <3>2, PartsApart, PayrollLeaves, AdmissionsLeaves,
         PtmAndDocumentsLeave, FailuresLeave
    <3> QED
      BY <3>3, LeavingCertificates
  <2> QED BY <2>2, <2>3
<1> QED
  BY <1>1, <1>2 DEF Next

THEOREM CertificatesInvHolds == Spec => []CertificatesInv
BY CertificatesInit, CertificatesNext, DocumentsInvHolds, PTL DEF Spec

(***************************************************************************)
(* The certificates of each prefix are numbered from 1 on without a gap,   *)
(* whichever requests count and insert in between one another and          *)
(* whichever of them is undone half way through its list.                  *)
(***************************************************************************)
THEOREM CertificatesContinuousHolds == Spec => []CertificatesContinuous
<1>1. CertificatesInv => CertificatesContinuous
  <2> SUFFICES ASSUME CertificatesInv, NEW prefix \in Prefixes
               PROVE  Issued(prefix) = 1..Cardinality(Issued(prefix))
    BY DEF CertificatesContinuous, Prefixes
  <2>1. PICK c \in 0..MaxCertificates : Issued(prefix) = 1..c
    BY DEF CertificatesInv, Stretch
  <2>2. c \in Nat
    BY CertificatesAssumption
  <2>3. Cardinality(1..c) = c
    BY <2>2, FS_Interval
  <2> QED
    BY <2>1, <2>3
<1> QED
  BY <1>1, CertificatesInvHolds, PTL

---------------------------------------------------------------------------
(***************************************************************************)
(* Admissions.  Students are made by conversions and by hand, and get      *)
(* other addresses and numbers.  The counters do not matter here.          *)
(***************************************************************************)
Records == {"application", "student", "account", "user"}

(* What r has written of the records.                                      *)
Written(r) == {k \in DOMAIN draft[r] : k[1] \in Records}

IsApplication(a) == Row(rows, Application(a)) # NoRow

Names(a, i) == IsApplication(a) /\ Row(rows, Application(a)).student = i

IsStudent(i) == \E n : Row(rows, Student(n)) # NoRow /\ Row(rows, Student(n)).id = i

(* The unique index holds every address that was made from an application. *)
AppliedAs(i, a) ==
  a \in 1..MaxApplications /\ i \in Nat /\ Names(a, i) /\ Row(rows, UserOf(a)) = i

Admitted ==
  /\ \A a : Row(rows, Application(a)) \in ApplicationRow \cup {NoRow}
  /\ \A i, a : Row(rows, Account(i)) = a /\ a \notin {NoRow, OtherAddress} => AppliedAs(i, a)
  /\ \A a, i : Names(a, i) /\ i # NoStudent =>
       /\ IsStudent(i) /\ Row(rows, Account(i)) # NoRow
       /\ \A b : Names(b, i) => b = a

Changes(r) == req[r].kind \in {"status", "reject"} /\ req[r].status \in AdmissionStatus

Converts(r) == req[r].kind = "convert" /\ req[r].number \in 1..MaxApplications

IsThere(r) == IsApplication(req[r].number)

(* A conversion: an account under a new id, with an address nobody has,    *)
(* then the student, then the application.                                 *)
Opened(r, i) ==
  /\ Converts(r) /\ i \in Nat
  /\ {Account(i), UserOf(req[r].number)} \subseteq Written(r)
  /\ Row(rows, Account(i)) = NoRow /\ Row(rows, UserOf(req[r].number)) = NoRow
  /\ draft[r][Account(i)] = req[r].number /\ draft[r][UserOf(req[r].number)] = i

Opening(r) ==
  \E i : Opened(r, i) /\ Written(r) = {Account(i), UserOf(req[r].number)}

Enrolled(r, i, n) ==
  /\ Opened(r, i) /\ Student(n) \in Written(r) /\ Row(rows, Student(n)) = NoRow
  /\ draft[r][Student(n)] = [id |-> i, drawn |-> TRUE]

Inserted(r) ==
  \E i, n : /\ Enrolled(r, i, n)
            /\ Written(r) = {Account(i), UserOf(req[r].number), Student(n)}

Converted(r) ==
  \E i, n : /\ Enrolled(r, i, n)
            /\ Written(r) = {Account(i), UserOf(req[r].number), Student(n), ThisApplication(r)}
            /\ draft[r][ThisApplication(r)] = [status |-> "ACCEPTED", student |-> i]

(* A student entered by hand.                                              *)
ByHandEntered(r) ==
  \E i, n : /\ Written(r) = {Account(i), Student(n)}
            /\ Row(rows, Account(i)) = NoRow /\ Row(rows, Student(n)) = NoRow
            /\ draft[r][Account(i)] = OtherAddress

(* A student who gets another address, another number or both.             *)
Moving(r) ==
  \A k \in Written(r) :
    \/ k = Account(req[r].id) /\ draft[r][k] = OtherAddress
    \/ \E a : /\ k = UserOf(a) /\ Row(rows, Account(req[r].id)) = a
              /\ Account(req[r].id) \in Written(r)
    \/ \E n : /\ k = Student(n)
              /\ Row(rows, k) = NoRow \/ Row(rows, k).id = req[r].id

NumberHeld(r) ==
  \E n : Student(n) \in Written(r) /\ draft[r][Student(n)] = [id |-> req[r].id, drawn |-> FALSE]

Numberless(r) == \A n : Student(n) \notin Written(r)

Moved(r) == Moving(r) /\ (Numberless(r) \/ NumberHeld(r))

NewApplication(r) ==
  \E n : /\ Written(r) = {Application(n)} /\ ~IsApplication(n)
         /\ draft[r][Application(n)] = [status |-> "SUBMITTED", student |-> NoStudent]

NewStatus(r) ==
  /\ Written(r) = {ThisApplication(r)} /\ IsThere(r)
  /\ draft[r][ThisApplication(r)] \in ApplicationRow
  /\ draft[r][ThisApplication(r)].student = Row(rows, ThisApplication(r)).student

Drawing == {"sequence", "baseline", "probe", "counterSave"}

Stage(r) ==
  /\ pc[r] \in {"yearRead", "applicationInsert", "statusRead", "rejectRead", "statusWrite",
                "applicationRead", "userInsert", "numberRead", "studentEnter", "profileRead",
                "addressWrite"} => Written(r) = {}
  /\ pc[r] = "yearRead" => req[r].kind = "apply"
  /\ pc[r] \in {"statusRead", "rejectRead", "statusWrite"} => Changes(r)
  /\ pc[r] = "statusWrite" => IsThere(r)
  /\ pc[r] \in {"applicationRead", "userInsert"} => Converts(r)
  /\ pc[r] \in Drawing => (req[r].kind = "apply" /\ Written(r) = {}) \/ Opening(r)
  /\ pc[r] = "studentInsert" => Opening(r)
  /\ pc[r] = "applicationWrite" => Inserted(r)
  /\ pc[r] \in {"numberFree", "numberWrite"} => Moving(r)
  /\ pc[r] = "numberFree" => Numberless(r)
  /\ pc[r] = "commit" =>
       \/ Written(r) = {} \/ NewApplication(r) \/ NewStatus(r)
       \/ Converted(r) \/ ByHandEntered(r) \/ Moved(r)

AdmissionsInv ==
  /\ Confined(AdmissionsTables, AdmissionsLabels) /\ Admitted
  /\ \A r \in Requests : Stage(r)

LEMMA AdmissionKeys ==
  /\ \A n : /\ Application(n)[1] = "application" /\ Student(n)[1] = "student"
            /\ Account(n)[1] = "account" /\ UserOf(n)[1] = "user" /\ Counter(n)[1] = "counter"
  /\ \A n, m : /\ Application(n) = Application(m) => n = m
               /\ Student(n) = Student(m) => n = m
               /\ Account(n) = Account(m) => n = m
               /\ UserOf(n) = UserOf(m) => n = m
BY DEF Application, Student, Account, UserOf, Counter

LEMMA RecordsInTables == \A k : k[1] \in Records => k[1] \in AdmissionsTables
BY DEF Records, AdmissionsTables

(* What is known of a request rests on the rows it holds, and on           *)
(* applications that are there.                                            *)
LEMMA Undisturbed ==
  ASSUME AdmissionsInv, NEW q \in Requests,
         draft'[q] = draft[q], pc'[q] = pc[q], req'[q] = req[q],
         \A k \in Written(q) : Row(rows', k) = Row(rows, k),
         \A a : IsApplication(a) => IsApplication(a)'
  PROVE  Stage(q)'
<1>1. Stage(q) /\ Written(q)' = Written(q)
  BY DEF AdmissionsInv, Written
<1>2. /\ Changes(q)' = Changes(q) /\ Converts(q)' = Converts(q) /\ (IsThere(q) => IsThere(q)')
      /\ ThisApplication(q)' = ThisApplication(q)
  BY DEF Changes, Converts, IsThere, ThisApplication
<1>3. \A i : Opened(q, i) => Opened(q, i)'
  BY <1>1, <1>2 DEF Opened
<1>4. Opening(q) => Opening(q)'
  BY <1>1, <1>3 DEF Opening
<1>5. \A i, n : Enrolled(q, i, n) => Enrolled(q, i, n)'
  BY <1>1, <1>3 DEF Enrolled
<1>6. /\ Inserted(q) => Inserted(q)'
      /\ Converted(q) => Converted(q)'
  BY <1>1, <1>2, <1>5 DEF Inserted, Converted
<1>7. /\ ByHandEntered(q) => ByHandEntered(q)'
      /\ Numberless(q) => Numberless(q)'
      /\ NumberHeld(q) => NumberHeld(q)'
  BY <1>1 DEF ByHandEntered, Numberless, NumberHeld
<1>8. Moving(q) => Moving(q)'
  BY <1>1 DEF Moving
<1>9. NewApplication(q) => NewApplication(q)'
  <2> SUFFICES ASSUME NEW n, Written(q) = {Application(n)}, ~IsApplication(n),
                      draft[q][Application(n)] = [status |-> "SUBMITTED", student |-> NoStudent]
               PROVE  NewApplication(q)'
    BY DEF NewApplication
  <2>1. ~IsApplication(n)'
    BY DEF IsApplication
  <2> QED
    BY <1>1, <2>1 DEF NewApplication
<1>10. NewStatus(q) => NewStatus(q)'
  BY <1>1, <1>2 DEF NewStatus
<1> QED
  BY <1>1, <1>2, <1>4, <1>6, <1>7, <1>8, <1>9, <1>10 DEF Stage, Moved

LEMMA SameRecords ==
  ASSUME AdmissionsInv, \A k : k[1] \in Records => Row(rows', k) = Row(rows, k)
  PROVE  Admitted' /\ \A a : IsApplication(a) => IsApplication(a)'
<1>1. \A n : /\ Row(rows', Application(n)) = Row(rows, Application(n))
             /\ Row(rows', Student(n)) = Row(rows, Student(n))
             /\ Row(rows', Account(n)) = Row(rows, Account(n))
             /\ Row(rows', UserOf(n)) = Row(rows, UserOf(n))
  BY AdmissionKeys DEF Records
<1>2. /\ \A a : IsApplication(a)' <=> IsApplication(a)
      /\ \A a, i : Names(a, i)' <=> Names(a, i)
  BY <1>1 DEF IsApplication, Names
<1>3. \A i : IsStudent(i)' <=> IsStudent(i)
  BY <1>1 DEF IsStudent
<1>4. Admitted
  BY DEF AdmissionsInv
<1> QED
  BY <1>1, <1>2, <1>3, <1>4 DEF Admitted, AppliedAs

LEMMA LeavingAdmissions ==
  ASSUME DocumentsInv, AdmissionsInv, NEW r \in Requests,
         Leaves(r, AdmissionsTables, AdmissionsLabels)
  PROVE  AdmissionsInv'
<1>1. Alone(r) /\ pc'[r] \notin AdmissionsLabels
  BY DEF Leaves, Footprint
<1>2. \A k : k[1] \in Records => k \notin DOMAIN draft'[r] /\ Row(rows', k) = Row(rows, k)
  BY RecordsInTables DEF Leaves
<1>3. Admitted' /\ \A a : IsApplication(a) => IsApplication(a)'
  BY <1>2, SameRecords
<1>4. Stage(r)'
  BY <1>1, <1>2 DEF Written, Stage, Drawing, AdmissionsLabels
<1>5. \A q \in Requests \ {r} : Stage(q)'
  BY <1>1, <1>2, <1>3, Undisturbed DEF Alone, Written
<1>6. Confined(AdmissionsTables, AdmissionsLabels)'
  BY <1>1, ConfinedKept DEF AdmissionsInv
<1> QED
  BY <1>3, <1>4, <1>5, <1>6 DEF AdmissionsInv

LEMMA AdmissionsStays ==
  ASSUME DocumentsInv, AdmissionsInv, NEW r \in Requests,
         Within(r, AdmissionsTables, AdmissionsLabels), rows' = rows, Stage(r)'
  PROVE  AdmissionsInv'
<1>1. Alone(r)
  BY DEF Within, Footprint
<1>2. Admitted' /\ \A a : IsApplication(a) => IsApplication(a)'
  BY SameRecords
<1>3. \A q \in Requests \ {r} : Stage(q)'
  BY <1>1, <1>2, Undisturbed DEF Alone
<1>4. Confined(AdmissionsTables, AdmissionsLabels)'
  BY <1>1, ConfinedKept DEF AdmissionsInv
<1> QED
  BY <1>2, <1>3, <1>4 DEF AdmissionsInv

LEMMA AdmissionThrows ==
  ASSUME DocumentsInv, AdmissionsInv, NEW r \in Requests, Throw(r)
  PROVE  AdmissionsInv'
<1>1. Leaves(r, AdmissionsTables, AdmissionsLabels)
  BY EndLeaves DEF Throw, DocumentsInv, AdmissionsLabels
<1> QED
  BY <1>1, LeavingAdmissions

(* A statement that writes no record.                                      *)
LEMMA KeepsWritten ==
  ASSUME NEW r \in Requests, rows' = rows, req'[r] = req[r], Written(r)' = Written(r),
         \A k \in Written(r) : draft'[r][k] = draft[r][k]
  PROVE  /\ (Changes(r) => Changes(r)')
         /\ (Converts(r) => Converts(r)') /\ (IsThere(r) => IsThere(r)')
         /\ (Opening(r) => Opening(r)') /\ (Moving(r) => Moving(r)')
         /\ (Numberless(r) => Numberless(r)')
<1>1. /\ Changes(r) => Changes(r)'
      /\ Converts(r) => Converts(r)'
      /\ IsThere(r) => IsThere(r)'
  BY DEF Changes, Converts, IsThere, IsApplication
<1>2. \A i : Opened(r, i) => Opened(r, i)'
  BY <1>1 DEF Opened
<1>3. /\ Opening(r) => Opening(r)'
      /\ Moving(r) => Moving(r)'
      /\ Numberless(r) => Numberless(r)'
  BY <1>2 DEF Opening, Moving, Numberless
<1> QED
  BY <1>1, <1>3

LEMMA AdmissionsArrivalKeeps ==
  ASSUME DocumentsInv, AdmissionsInv, NEW r \in Requests, AdmissionsArrival(r)
  PROVE  AdmissionsInv'
<1>1. Domains /\ Within(r, AdmissionsTables, AdmissionsLabels)
  BY ArrivalsWithin DEF DocumentsInv
<1>2. PICK x, l :
        /\ Start(r, x, l)
        /\ \/ l = "yearRead" /\ x = [kind |-> "apply"]
           \/ \E n \in 1..MaxApplications, status \in AdmissionStatus :
                \/ /\ l = "statusRead"
                   /\ x = [kind |-> "status", number |-> n, status |-> status]
                \/ /\ l = "rejectRead"
                   /\ x = [kind |-> "reject", number |-> n, status |-> status]
                \/ l = "applicationRead" /\ x = [kind |-> "convert", number |-> n]
           \/ l \in {"numberRead", "profileRead"}
  <2>1. CASE StartApply(r)
    BY <2>1 DEF StartApply
  <2>2. CASE \E n \in 1..MaxApplications : \E status \in AdmissionStatus :
               StartStatus(r, n, status)
    BY <2>2 DEF StartStatus
  <2>3. CASE \E n \in 1..MaxApplications : StartReject(r, n)
    BY <2>3 DEF StartReject, AdmissionStatus
  <2>4. CASE \E n \in 1..MaxApplications : StartConvert(r, n)
    BY <2>4 DEF StartConvert, AdmissionStatus
  <2>5. CASE \E n \in ByHand : StartEnter(r, n)
    BY <2>5 DEF StartEnter
  <2>6. CASE \E i, address, number : StartUpdate(r, i, address, number)
    BY <2>6 DEF StartUpdate
  <2> QED
    BY <2>1, <2>2, <2>3, <2>4, <2>5, <2>6 DEF AdmissionsArrival
<1>3. /\ rows' = rows /\ draft'[r] = draft[r] /\ pc[r] = "idle" /\ pc'[r] = l /\ req'[r] = x
  BY <1>1, <1>2, StartFacts DEF Quiet
<1>4. Written(r)' = {}
  BY <1>3, RecordsInTables DEF AdmissionsInv, Confined, Written, AdmissionsLabels
<1>5. Stage(r)'
  BY <1>2, <1>3, <1>4 DEF Stage, Changes, Converts, Drawing
<1> QED
  BY <1>1, <1>3, <1>5, AdmissionsStays

LEMMA ReadsKeepAdmissions ==
  ASSUME DocumentsInv, AdmissionsInv, NEW r \in Requests,
         \/ ReadActiveYear(r) \/ ReadForStatus(r) \/ ReadForReject(r) \/ ReadForConvert(r)
         \/ ReadForEnter(r) \/ ReadForUpdate(r)
         \/ ReadCounter(r) \/ ReadBaseline(r) \/ Probe(r)
  PROVE  AdmissionsInv'
<1>1. Domains /\ Within(r, AdmissionsTables, AdmissionsLabels) /\ Stage(r)
  BY AdmissionsWithin DEF DocumentsInv, AdmissionsStep, AdmissionsInv
<1>2. CASE Throw(r)
  BY <1>2, AdmissionThrows
<1>3. CASE ~Throw(r)
  <2>1. PICK l : /\ Branch(r, l) \/ \E x : Read(r, x, l)
                 /\ \/ pc[r] = "yearRead" /\ l = "sequence"
                    \/ pc[r] \in {"statusRead", "rejectRead"} /\ l = "statusWrite" /\ IsThere(r)
                    \/ pc[r] = "applicationRead" /\ l = "userInsert"
                    \/ pc[r] = "numberRead" /\ l = "studentEnter"
                    \/ pc[r] = "profileRead" /\ l \in {"addressWrite", "numberFree"}
                    \/ pc[r] \in Drawing /\ l \in Drawing
    <3>1. CASE ReadActiveYear(r) \/ ReadForStatus(r) \/ ReadForReject(r) \/ ReadForConvert(r)
      BY <1>3, <3>1 DEF ReadActiveYear, ReadForStatus, ReadForReject, ReadForConvert, IsThere,
                        IsApplication, ThisApplication
    <3>2. CASE ReadForEnter(r) \/ ReadForUpdate(r)
      BY <1>3, <3>2 DEF ReadForEnter, ReadForUpdate, LookForNumber
    <3>3. CASE ReadCounter(r) \/ ReadBaseline(r) \/ Probe(r)
      BY <3>3 DEF ReadCounter, ReadBaseline, Probe, Drawing
    <3> QED BY <3>1, <3>2, <3>3
  <2>2. rows' = rows /\ draft'[r] = draft[r] /\ pc'[r] = l /\ req'[r] = req[r]
    BY <1>1, <2>1, BranchFacts, ReadFacts DEF Quiet
  <2>3. Written(r)' = {} => Moving(r)' /\ Numberless(r)'
    BY DEF Moving, Numberless
  <2>4. Written(r)' = Written(r)
    BY <2>2 DEF Written
  <2>5. Stage(r)'
    BY <1>1, <2>1, <2>2, <2>3, <2>4, KeepsWritten DEF Stage, Drawing
  <2> QED
    BY <1>1, <2>2, <2>5, AdmissionsStays
<1> QED BY <1>2, <1>3

LEMMA AdmissionWrites ==
  ASSUME DocumentsInv, NEW r \in Requests, NEW k, NEW row, NEW l, Write(r, k, row, l)
  PROVE  /\ rows' = rows /\ pc'[r] = l /\ req'[r] = req[r]
         /\ draft'[r][k] = row
         /\ k[1] \in Records => Written(r)' = Written(r) \cup {k}
         /\ k[1] \notin Records => Written(r)' = Written(r)
         /\ \A j \in Written(r) : j # k => draft'[r][j] = draft[r][j]
<1>1. /\ rows' = rows /\ pc'[r] = l /\ req'[r] = req[r] /\ draft'[r] = Put(draft[r], k, row)
  BY WriteFacts DEF DocumentsInv
<1> QED
  BY <1>1 DEF Written, Put

(* Two rows at once.                                                       *)
LEMMA AdmissionWritesTwo ==
  ASSUME NEW r \in Requests, NEW j, NEW x, NEW k, NEW y, j # k,
         j[1] \in Records, k[1] \in Records, Written(r) = {},
         draft'[r] = Put(Put(draft[r], j, x), k, y)
  PROVE  draft'[r][j] = x /\ draft'[r][k] = y /\ Written(r)' = {j, k}
<1>1. DOMAIN draft'[r] = DOMAIN draft[r] \cup {j, k} /\ draft'[r][j] = x /\ draft'[r][k] = y
  BY DEF Put
<1>2. Written(r)' = {j, k}
  BY <1>1 DEF Written
<1> QED
  BY <1>1, <1>2

LEMMA CounterSaves ==
  ASSUME DocumentsInv, AdmissionsInv, NEW r \in Requests, SaveCounter(r)
  PROVE  Stage(r)'
<1>1. Write(r, Counter(Prefix(r)), seen[r], AfterSequence(r)) /\ pc[r] = "counterSave" /\ Stage(r)
  BY DEF SaveCounter, AdmissionsInv
<1>2. Counter(Prefix(r))[1] \notin Records /\ \A k \in Written(r) : k # Counter(Prefix(r))
  BY AdmissionKeys DEF Records, Written
<1>3. /\ rows' = rows /\ pc'[r] = AfterSequence(r) /\ req'[r] = req[r]
      /\ Written(r)' = Written(r) /\ \A k \in Written(r) : draft'[r][k] = draft[r][k]
  BY <1>1, <1>2, AdmissionWrites
<1>4. CASE req[r].kind = "apply" /\ Written(r) = {}
  BY <1>3, <1>4 DEF AfterSequence, Prefix, Stage, Drawing
<1>5. CASE Opening(r)
  <2>1. pc'[r] = "studentInsert"
    BY <1>3, <1>5 DEF AfterSequence, Prefix, Opening, Opened, Converts
  <2> QED
    BY <1>3, <1>5, <2>1, KeepsWritten DEF Stage, Drawing
<1> QED
  BY <1>1, <1>4, <1>5 DEF Stage, Drawing

LEMMA ApplicationsWrite ==
  ASSUME DocumentsInv, AdmissionsInv, NEW r \in Requests, ~Throw(r),
         InsertApplication(r) \/ WriteStatus(r)
  PROVE  Stage(r)'
<1>1. Stage(r) /\ Written(r) = {} /\ \A k : k[1] \in Records => View(r, k) = Row(rows, k)
  <2>1. Stage(r) /\ Written(r) = {}
    BY DEF AdmissionsInv, Stage, InsertApplication, WriteStatus
  <2> QED
    BY <2>1 DEF Written, View
<1>2. CASE InsertApplication(r)
  <2> DEFINE k == Application(seen[r])
             row == [status |-> "SUBMITTED", student |-> NoStudent]
  <2>1. Write(r, k, row, "commit") /\ View(r, k) = NoRow
    BY <1>2 DEF InsertApplication, Insert
  <2>2. k[1] \in Records /\ Row(rows, k) = NoRow
    BY <1>1, <2>1, AdmissionKeys DEF Records
  <2>3. pc'[r] = "commit" /\ rows' = rows /\ Written(r)' = {k} /\ draft'[r][k] = row
    BY <1>1, <2>1, <2>2, AdmissionWrites
  <2>4. NewApplication(r)'
    BY <2>2, <2>3 DEF NewApplication, IsApplication
  <2> QED
    BY <2>3, <2>4 DEF Stage, Drawing
<1>3. CASE WriteStatus(r)
  <2> DEFINE k == ThisApplication(r)
             row == [View(r, k) EXCEPT !.status = req[r].status]
  <2>1. /\ Write(r, k, row, "commit") /\ Changes(r) /\ IsThere(r)
    BY <1>1, <1>3 DEF WriteStatus, Stage
  <2>2. k[1] \in Records /\ k = Application(req[r].number)
    BY AdmissionKeys DEF ThisApplication, Records
  <2>3. View(r, k) = Row(rows, k) /\ Row(rows, k) \in ApplicationRow
    BY <1>1, <2>1, <2>2 DEF AdmissionsInv, Admitted, IsThere, IsApplication
  <2>4. row \in ApplicationRow /\ row.student = Row(rows, k).student
    BY <2>1, <2>3 DEF ApplicationRow, Changes
  <2> HIDE DEF row
  <2>5. /\ pc'[r] = "commit" /\ rows' = rows /\ req'[r] = req[r]
        /\ Written(r)' = {k} /\ draft'[r][k] = row
    BY <1>1, <2>1, <2>2, AdmissionWrites
  <2>6. IsThere(r)'
    BY <2>1, <2>5 DEF IsThere, IsApplication
  <2>7. NewStatus(r)'
    BY <2>4, <2>5, <2>6 DEF NewStatus, ThisApplication
  <2> QED
    BY <2>5, <2>7 DEF Stage, Drawing
<1> QED BY <1>2, <1>3

LEMMA ConversionWrites ==
  ASSUME DocumentsInv, AdmissionsInv, NEW r \in Requests, ~Throw(r),
         InsertUser(r) \/ InsertStudent(r) \/ MarkConverted(r)
  PROVE  Stage(r)'
<1>1. Stage(r)
  BY DEF AdmissionsInv
<1>2. CASE InsertUser(r)
  <2> DEFINE k == UserOf(req[r].number)
  <2>1. PICK i \in 1..MaxStudents : NewId(i) /\ OpenAccount(r, i)
    BY <1>2 DEF InsertUser
  <2>2. /\ Written(r) = {} /\ Converts(r) /\ Goto(r, "sequence") /\ UNCHANGED <<rows, req>>
        /\ View(r, k) = NoRow
    BY <1>1, <1>2 DEF InsertUser, Stage
  <2>3. Account(i)[1] \in Records /\ k[1] \in Records /\ Account(i) # k
    BY AdmissionKeys DEF Records
  <2>4. Row(rows, Account(i)) = NoRow /\ Row(rows, k) = NoRow /\ i \in Nat
    BY <2>1, <2>2, <2>3, NewIdFree, AdmissionsAssumption DEF Written, View
  <2>5. /\ draft'[r][Account(i)] = req[r].number /\ draft'[r][k] = i
        /\ Written(r)' = {Account(i), k}
    <3>1. draft'[r] = Put(Put(draft[r], Account(i), req[r].number), k, i)
      BY <2>1 DEF OpenAccount, DocumentsInv, Domains
    <3> QED
      BY <2>2, <2>3, <3>1, AdmissionWritesTwo
  <2>7. rows' = rows /\ pc'[r] = "sequence" /\ req'[r] = req[r]
    BY <2>2 DEF Goto, DocumentsInv, Domains
  <2>6. Opening(r)'
    BY <2>2, <2>4, <2>5, <2>7 DEF Opening, Opened, Converts
  <2> QED
    BY <2>6, <2>7 DEF Stage, Drawing
<1>3. ASSUME NEW i, Opened(r, i)
      PROVE  OwnId(r) = i
  BY <1>3 DEF Opened, OwnId, View, Written
<1>4. ASSUME NEW i, Opened(r, i), NEW k, NEW row, NEW l, Write(r, k, row, l),
             k[1] \in {"student", "application"}
      PROVE  Opened(r, i)'
  <2>1. /\ rows' = rows /\ req'[r] = req[r] /\ Written(r)' = Written(r) \cup {k}
        /\ \A j \in Written(r) : j # k => draft'[r][j] = draft[r][j]
    BY <1>4, AdmissionWrites DEF Records
  <2>2. Account(i) # k /\ UserOf(req[r].number) # k
    BY <1>4, AdmissionKeys
  <2> QED
    BY <1>4, <2>1, <2>2 DEF Opened, Converts
<1>5. CASE InsertStudent(r)
  <2> DEFINE k == Student(seen[r])
  <2>1. PICK i : Opened(r, i) /\ Written(r) = {Account(i), UserOf(req[r].number)}
    BY <1>1, <1>5 DEF InsertStudent, Stage, Opening
  <2>2. Write(r, k, [id |-> i, drawn |-> TRUE], "applicationWrite") /\ View(r, k) = NoRow
    BY <1>3, <1>5, <2>1 DEF InsertStudent, Insert
  <2>3. k[1] \in Records /\ k \notin Written(r) /\ k[1] = "student"
    BY <2>1, AdmissionKeys DEF Records
  <2>4. Row(rows, k) = NoRow
    BY <2>2, <2>3 DEF Written, View
  <2>5. Opened(r, i)'
    BY <1>4, <2>1, <2>2, <2>3
  <2>6. /\ rows' = rows /\ req'[r] = req[r] /\ pc'[r] = "applicationWrite"
        /\ Written(r)' = Written(r) \cup {k} /\ draft'[r][k] = [id |-> i, drawn |-> TRUE]
    BY <2>2, <2>3, AdmissionWrites
  <2>7. Inserted(r)'
    <3>1. PICK n : n = seen[r]
      OBVIOUS
    <3>2. Enrolled(r, i, n)' /\ Written(r)' = {Account(i), UserOf(req'[r].number), Student(n)}
      BY <2>1, <2>4, <2>5, <2>6, <3>1 DEF Enrolled
    <3> QED
      BY <3>2 DEF Inserted
  <2> QED
    BY <2>6, <2>7 DEF Stage, Drawing
<1>6. CASE MarkConverted(r)
  <2> DEFINE k == ThisApplication(r)
  <2>1. PICK i, n : /\ Enrolled(r, i, n)
                    /\ Written(r) = {Account(i), UserOf(req[r].number), Student(n)}
    BY <1>1, <1>6 DEF MarkConverted, Stage, Inserted
  <2>2. Write(r, k, [status |-> "ACCEPTED", student |-> i], "commit")
    BY <1>3, <1>6, <2>1 DEF MarkConverted, Enrolled
  <2>3. k[1] \in Records /\ k[1] = "application" /\ Student(n) # k
    BY AdmissionKeys DEF ThisApplication, Records
  <2>4. Opened(r, i)'
    BY <1>4, <2>1, <2>2, <2>3 DEF Enrolled
  <2>5. /\ rows' = rows /\ req'[r] = req[r] /\ pc'[r] = "commit"
        /\ Written(r)' = Written(r) \cup {k}
        /\ draft'[r][k] = [status |-> "ACCEPTED", student |-> i]
        /\ draft'[r][Student(n)] = draft[r][Student(n)]
    BY <2>1, <2>2, <2>3, AdmissionWrites
  <2>6. Converted(r)'
    BY <2>1, <2>4, <2>5 DEF Converted, Enrolled, ThisApplication
  <2> QED
    BY <2>5, <2>6 DEF Stage, Drawing
<1> QED BY <1>2, <1>5, <1>6

LEMMA HandWrites ==
  ASSUME DocumentsInv, AdmissionsInv, NEW r \in Requests, ~Throw(r),
         EnterStudent(r) \/ ChangeAddress(r) \/ FreeNumber(r) \/ WriteNumber(r)
  PROVE  Stage(r)'
<1>1. Stage(r)
  BY DEF AdmissionsInv
<1>2. CASE EnterStudent(r)
  <2>1. PICK n : n = req[r].number
    OBVIOUS
  <2>2. PICK i \in 1..MaxStudents :
          /\ NewId(i)
          /\ draft' = [draft EXCEPT ![r] = Put(Put(@, Account(i), OtherAddress),
                                              Student(n), [id |-> i, drawn |-> FALSE])]
    BY <1>2, <2>1 DEF EnterStudent
  <2>3. /\ Written(r) = {} /\ Goto(r, "commit") /\ UNCHANGED <<rows, req>>
        /\ View(r, Student(n)) = NoRow
    BY <1>1, <1>2, <2>1 DEF EnterStudent, Stage
  <2>4. Account(i)[1] \in Records /\ Student(n)[1] \in Records /\ Account(i) # Student(n)
    BY AdmissionKeys DEF Records
  <2>5. Row(rows, Account(i)) = NoRow /\ Row(rows, Student(n)) = NoRow
    BY <2>2, <2>3, <2>4, NewIdFree DEF Written, View
  <2>6. draft'[r][Account(i)] = OtherAddress /\ Written(r)' = {Account(i), Student(n)}
    <3>1. draft'[r] = Put(Put(draft[r], Account(i), OtherAddress), Student(n),
                         [id |-> i, drawn |-> FALSE])
      BY <2>2 DEF DocumentsInv, Domains
    <3> QED
      BY <2>3, <2>4, <3>1, AdmissionWritesTwo
  <2>8. rows' = rows /\ pc'[r] = "commit"
    BY <2>3 DEF Goto, DocumentsInv, Domains
  <2>7. ByHandEntered(r)'
    BY <2>5, <2>6, <2>8 DEF ByHandEntered
  <2> QED
    BY <2>7, <2>8 DEF Stage, Drawing
<1>3. CASE ChangeAddress(r)
  <2>1. PICK l, old, j : l \in {"commit", "numberFree"} /\ old = View(r, ThisAccount(r))
                          /\ j = Account(req[r].id) /\ Goto(r, l)
    BY <1>3 DEF ChangeAddress
  <2>2. Written(r) = {} /\ UNCHANGED <<rows, req>> /\ j[1] \in Records
    BY <1>1, <1>3, <2>1, AdmissionKeys DEF ChangeAddress, Stage, Records
  <2>3. old = Row(rows, j)
    BY <2>1, <2>2 DEF Written, View, ThisAccount
  <2>4. CASE old = OtherAddress
    <3>1. draft'[r] = Put(draft[r], j, OtherAddress)
      BY <1>3, <2>1, <2>4 DEF ChangeAddress, DocumentsInv, Domains, ThisAccount
    <3>2. Written(r)' = {j} /\ draft'[r][j] = OtherAddress
      BY <2>2, <3>1 DEF Written, Put
    <3>3. Moving(r)' /\ Numberless(r)'
      BY <2>1, <2>2, <3>2, AdmissionKeys DEF Moving, Numberless
    <3> QED
      BY <2>1, <2>2, <3>3 DEF Stage, Drawing, Goto, DocumentsInv, Domains, Moved
  <2>5. CASE old # OtherAddress
    <3>1. draft'[r] = Put(Put(draft[r], j, OtherAddress), UserOf(old), NoRow)
      BY <1>3, <2>1, <2>5 DEF ChangeAddress, DocumentsInv, Domains, ThisAccount
    <3>2. UserOf(old)[1] \in Records /\ UserOf(old) # j
      BY <2>1, AdmissionKeys DEF Records
    <3>3. Written(r)' = {j, UserOf(old)} /\ draft'[r][j] = OtherAddress
      BY <2>2, <3>1, <3>2, AdmissionWritesTwo
    <3>4. Moving(r)' /\ Numberless(r)'
      BY <2>1, <2>2, <2>3, <3>3, AdmissionKeys DEF Moving, Numberless
    <3> QED
      BY <2>1, <2>2, <3>4 DEF Stage, Drawing, Goto, DocumentsInv, Domains, Moved
  <2> QED BY <2>4, <2>5
<1>4. CASE FreeNumber(r)
  <2>1. PICK k \in Bearing(r) : Write(r, k, NoRow, "numberWrite")
    BY <1>4 DEF FreeNumber
  <2>2. PICK n : k = Student(n) /\ Row(rows, k).id = req[r].id
    BY <2>1 DEF Bearing, Row
  <2>3. Moving(r) /\ k[1] \in Records /\ k \notin Written(r)
    BY <1>1, <1>4, <2>2, AdmissionKeys DEF FreeNumber, Stage, Numberless, Records
  <2>4. /\ rows' = rows /\ pc'[r] = "numberWrite" /\ req'[r] = req[r]
        /\ Written(r)' = Written(r) \cup {k}
        /\ \A j \in Written(r) : draft'[r][j] = draft[r][j]
    BY <2>1, <2>3, AdmissionWrites
  <2>5. Moving(r)'
    BY <2>2, <2>3, <2>4 DEF Moving
  <2> QED
    BY <2>4, <2>5 DEF Stage, Drawing
<1>5. CASE WriteNumber(r)
  <2>1. PICK n, k : n = req[r].number /\ k = Student(n)
    OBVIOUS
  <2>2. /\ Write(r, k, [id |-> req[r].id, drawn |-> FALSE], "commit") /\ View(r, k) = NoRow
        /\ Moving(r)
    BY <1>1, <1>5, <2>1 DEF WriteNumber, Insert, Stage
  <2>3. k[1] \in Records /\ (k \notin Written(r) => Row(rows, k) = NoRow)
    BY <2>1, <2>2, AdmissionKeys DEF Records, Written, View
  <2>4. /\ rows' = rows /\ pc'[r] = "commit" /\ req'[r] = req[r]
        /\ Written(r)' = Written(r) \cup {k}
        /\ draft'[r][k] = [id |-> req[r].id, drawn |-> FALSE]
        /\ \A j \in Written(r) : j # k => draft'[r][j] = draft[r][j]
    BY <2>2, <2>3, AdmissionWrites
  <2>5. NumberHeld(r)'
    BY <2>1, <2>4 DEF NumberHeld
  <2>6. Moving(r)'
    <3>1. \A m : Account(m) # k /\ UserOf(m) # k
      BY <2>1, AdmissionKeys
    <3> QED
      BY <2>1, <2>2, <2>3, <2>4, <3>1, AdmissionKeys DEF Moving
  <2> QED
    BY <2>4, <2>5, <2>6 DEF Stage, Drawing, Moved
<1> QED BY <1>2, <1>3, <1>4, <1>5

LEMMA AdmissionsWritesKeep ==
  ASSUME DocumentsInv, AdmissionsInv, NEW r \in Requests,
         \/ SaveCounter(r) \/ InsertApplication(r) \/ WriteStatus(r)
         \/ InsertUser(r) \/ InsertStudent(r) \/ MarkConverted(r)
         \/ EnterStudent(r) \/ ChangeAddress(r) \/ FreeNumber(r) \/ WriteNumber(r)
  PROVE  AdmissionsInv'
<1>1. CASE Throw(r)
  BY <1>1, AdmissionThrows
<1>2. CASE ~Throw(r)
  <2>1. Within(r, AdmissionsTables, AdmissionsLabels)
    BY AdmissionsWithin DEF DocumentsInv, AdmissionsStep
  <2>2. rows' = rows
    BY <1>2 DEF SaveCounter, InsertApplication, WriteStatus, InsertUser, InsertStudent,
                MarkConverted, EnterStudent, ChangeAddress, FreeNumber, WriteNumber, Insert, Write
  <2>3. Stage(r)'
    BY <1>2, CounterSaves, ApplicationsWrite, ConversionWrites, HandWrites
  <2> QED
    BY <2>1, <2>2, <2>3, AdmissionsStays
<1> QED BY <1>1, <1>2

(***************************************************************************)
(* A commit.  Whatever a request holds, nobody else commits.               *)
(***************************************************************************)
LEMMA CommitRows ==
  ASSUME DocumentsInv, NEW r \in Requests, Commit(r)
  PROVE  /\ Alone(r) /\ DOMAIN draft'[r] = {} /\ pc'[r] = "idle" /\ pc[r] = "commit"
         /\ \A k : Row(rows', k) = View(r, k)
         /\ \A q \in Requests \ {r} : \A k \in DOMAIN draft[q] : Row(rows', k) = Row(rows, k)
<1>1. /\ rows' = Merged(r) /\ Alone(r) /\ pc'[r] = "idle" /\ DOMAIN draft'[r] = {}
      /\ pc[r] = "commit"
  BY FinishFacts DEF Commit, DocumentsInv
<1>2. \A k : Row(rows', k) = View(r, k)
  BY <1>1, RowOfMerged
<1>3. \A q \in Requests \ {r} : \A k \in DOMAIN draft[q] : Row(rows', k) = Row(rows, k)
  BY <1>2 DEF DocumentsInv, Exclusive, View
<1> QED BY <1>1, <1>2, <1>3

LEMMA RowsAfter ==
  ASSUME DocumentsInv, NEW r \in Requests, Commit(r)
  PROVE  \A k : k[1] \in Records =>
           Row(rows', k) = IF k \in Written(r) THEN draft[r][k] ELSE Row(rows, k)
BY CommitRows DEF Written, View

(* A status or a new application: no application names another student.    *)
LEMMA ApplicationCommits ==
  ASSUME DocumentsInv, AdmissionsInv, NEW r \in Requests, Commit(r),
         NewApplication(r) \/ NewStatus(r)
  PROVE  Admitted' /\ \A a : IsApplication(a) => IsApplication(a)'
<1>1. Admitted /\ \A k : k[1] \in Records =>
                   Row(rows', k) = IF k \in Written(r) THEN draft[r][k] ELSE Row(rows, k)
  BY RowsAfter DEF AdmissionsInv
<1>2. PICK b : Written(r) = {Application(b)}
  BY DEF NewApplication, NewStatus, ThisApplication
<1>3. \A n : /\ Row(rows', Student(n)) = Row(rows, Student(n))
             /\ Row(rows', Account(n)) = Row(rows, Account(n))
             /\ Row(rows', UserOf(n)) = Row(rows, UserOf(n))
             /\ n # b => Row(rows', Application(n)) = Row(rows, Application(n))
  BY <1>1, <1>2, AdmissionKeys DEF Records
<1>4. Row(rows', Application(b)) = draft[r][Application(b)]
  BY <1>1, <1>2, AdmissionKeys DEF Records
<1>5. NoRow \notin ApplicationRow
  BY AdmissionsAssumption
<1>6. /\ Row(rows', Application(b)) \in ApplicationRow
      /\ IsApplication(b) => Row(rows', Application(b)).student = Row(rows, Application(b)).student
      /\ ~IsApplication(b) => Row(rows', Application(b)).student = NoStudent
  <2>1. CASE NewApplication(r)
    <3>1. ~IsApplication(b)
          /\ draft[r][Application(b)] = [status |-> "SUBMITTED", student |-> NoStudent]
      BY <1>2, <2>1, AdmissionKeys DEF NewApplication
    <3> QED
      BY <1>4, <3>1 DEF ApplicationRow, AdmissionStatus
  <2>2. CASE NewStatus(r)
    <3>1. ThisApplication(r) = Application(b) /\ req[r].number = b
      BY <1>2, <2>2, AdmissionKeys DEF NewStatus, ThisApplication
    <3> QED
      BY <1>4, <2>2, <3>1 DEF NewStatus, IsThere
  <2> QED BY <2>1, <2>2
<1>7. \A a : IsApplication(a) => IsApplication(a)'
  BY <1>3, <1>5, <1>6 DEF IsApplication
<1>8. \A a, i : Names(a, i) => Names(a, i)'
  BY <1>3, <1>6, <1>7 DEF Names
<1>9. \A a, i : Names(a, i)' /\ i # NoStudent => Names(a, i)
  BY <1>3, <1>6 DEF Names, IsApplication
<1>10. \A i : IsStudent(i) => IsStudent(i)'
  BY <1>3 DEF IsStudent
<1>11. Admitted'
  <2>1. \A a : Row(rows', Application(a)) \in ApplicationRow \cup {NoRow}
    BY <1>1, <1>3, <1>6 DEF Admitted
  <2>2. \A i, a : Row(rows', Account(i)) = a /\ a \notin {NoRow, OtherAddress} =>
          AppliedAs(i, a)'
    BY <1>1, <1>3, <1>8 DEF Admitted, AppliedAs
  <2>3. \A a, i : Names(a, i)' /\ i # NoStudent =>
          IsStudent(i)' /\ Row(rows', Account(i)) # NoRow /\ \A e : Names(e, i)' => e = a
    BY <1>1, <1>3, <1>9, <1>10 DEF Admitted
  <2> QED
    BY <2>1, <2>2, <2>3 DEF Admitted
<1> QED
  BY <1>7, <1>11

(* The student of a conversion, or one entered by hand: new, with an       *)
(* account that is new.                                                    *)
LEMMA StudentCommits ==
  ASSUME DocumentsInv, AdmissionsInv, NEW r \in Requests, Commit(r),
         Converted(r) \/ ByHandEntered(r)
  PROVE  Admitted' /\ \A a : IsApplication(a) => IsApplication(a)'
<1>1. Admitted /\ \A k : k[1] \in Records =>
                   Row(rows', k) = IF k \in Written(r) THEN draft[r][k] ELSE Row(rows, k)
  BY RowsAfter DEF AdmissionsInv
<1>2. NoRow \notin ApplicationRow /\ NoRow \notin Nat /\ NoStudent \notin Nat
      /\ MaxApplications \in Nat
  BY AdmissionsAssumption
<1>3. CASE ByHandEntered(r)
  <2>1. PICK i, n : /\ Written(r) = {Account(i), Student(n)}
                    /\ Row(rows, Account(i)) = NoRow /\ Row(rows, Student(n)) = NoRow
                    /\ draft[r][Account(i)] = OtherAddress
    BY <1>3 DEF ByHandEntered
  <2>2. \A m : /\ Row(rows', Application(m)) = Row(rows, Application(m))
               /\ Row(rows', UserOf(m)) = Row(rows, UserOf(m))
               /\ m # n => Row(rows', Student(m)) = Row(rows, Student(m))
               /\ m # i => Row(rows', Account(m)) = Row(rows, Account(m))
    BY <1>1, <2>1, AdmissionKeys DEF Records
  <2>3. Row(rows', Account(i)) = OtherAddress
    BY <1>1, <2>1, AdmissionKeys DEF Records
  <2>4. /\ \A a : IsApplication(a)' <=> IsApplication(a)
        /\ \A a, j : Names(a, j)' <=> Names(a, j)
    BY <2>2 DEF IsApplication, Names
  <2>5. \A j : IsStudent(j) => IsStudent(j)'
    BY <2>1, <2>2 DEF IsStudent
  <2>6. Admitted'
    <3>1. \A a : Row(rows', Application(a)) \in ApplicationRow \cup {NoRow}
      BY <1>1, <2>2 DEF Admitted
    <3>2. \A j, a : Row(rows', Account(j)) = a /\ a \notin {NoRow, OtherAddress} =>
            AppliedAs(j, a)'
      BY <1>1, <2>2, <2>3, <2>4 DEF Admitted, AppliedAs
    <3>3. \A a, j : Names(a, j)' /\ j # NoStudent =>
            IsStudent(j)' /\ Row(rows', Account(j)) # NoRow /\ \A b : Names(b, j)' => b = a
      BY <1>1, <1>2, <2>2, <2>3, <2>4, <2>5 DEF Admitted, OtherAddress
    <3> QED
      BY <3>1, <3>2, <3>3 DEF Admitted
  <2> QED
    BY <2>4, <2>6
<1>4. CASE Converted(r)
  <2>0. PICK c : c = req[r].number
    OBVIOUS
  <2>1. PICK i, n :
          /\ Enrolled(r, i, n)
          /\ Written(r) = {Account(i), UserOf(c), Student(n), Application(c)}
          /\ draft[r][Application(c)] = [status |-> "ACCEPTED", student |-> i]
    BY <1>4, <2>0 DEF Converted, ThisApplication
  <2>2. /\ c \in 1..MaxApplications /\ i \in Nat
        /\ Row(rows, Account(i)) = NoRow /\ Row(rows, UserOf(c)) = NoRow
        /\ draft[r][Account(i)] = c /\ draft[r][UserOf(c)] = i
        /\ Row(rows, Student(n)) = NoRow /\ draft[r][Student(n)] = [id |-> i, drawn |-> TRUE]
    BY <2>1, <2>0 DEF Enrolled, Opened, Converts
  <2>3. \A m : /\ m # c => Row(rows', Application(m)) = Row(rows, Application(m))
               /\ m # c => Row(rows', UserOf(m)) = Row(rows, UserOf(m))
               /\ m # n => Row(rows', Student(m)) = Row(rows, Student(m))
               /\ m # i => Row(rows', Account(m)) = Row(rows, Account(m))
    BY <1>1, <2>1, AdmissionKeys DEF Records
  <2>4. /\ Row(rows', Account(i)) = c /\ Row(rows', UserOf(c)) = i
        /\ Row(rows', Student(n)) = [id |-> i, drawn |-> TRUE]
        /\ Row(rows', Application(c)) = [status |-> "ACCEPTED", student |-> i]
    BY <1>1, <2>1, <2>2, AdmissionKeys DEF Records
  <2>5. Row(rows', Application(c)) \in ApplicationRow /\ Row(rows', Application(c)) # NoRow
    BY <1>2, <2>2, <2>4 DEF ApplicationRow, AdmissionStatus
  <2>6. [id |-> i, drawn |-> TRUE] # NoRow
    <3>1. [id |-> i, drawn |-> TRUE] \in StudentRow
      BY <2>2 DEF StudentRow
    <3>2. NoRow \notin StudentRow
      BY AdmissionsAssumption
    <3> QED BY <3>1, <3>2
  <2>7. \A a : IsApplication(a) => IsApplication(a)'
    BY <2>3, <2>5 DEF IsApplication
  <2>8. \A a, j : a # c => (Names(a, j)' <=> Names(a, j))
    BY <2>3 DEF Names, IsApplication
  <2>9. \A j : Names(c, j)' <=> j = i
    BY <2>4, <2>5 DEF Names, IsApplication
  <2>10. \A j : IsStudent(j) => IsStudent(j)'
    BY <2>2, <2>3 DEF IsStudent
  <2>11. IsStudent(i)'
    BY <2>4, <2>6 DEF IsStudent
  <2>12. \A a : ~Names(a, i)
    BY <1>1, <1>2, <2>2 DEF Admitted
  <2>13. Admitted'
    <3>1. \A a : Row(rows', Application(a)) \in ApplicationRow \cup {NoRow}
      BY <1>1, <2>3, <2>5 DEF Admitted
    <3>2. ASSUME NEW j, NEW a, Row(rows', Account(j)) = a, a \notin {NoRow, OtherAddress}
          PROVE  AppliedAs(j, a)'
      <4>1. CASE j = i
        BY <2>2, <2>4, <2>9, <3>2, <4>1 DEF AppliedAs
      <4>2. CASE j # i
        <5>1. AppliedAs(j, a)
          BY <1>1, <2>3, <3>2, <4>2 DEF Admitted
        <5>2. a # c
          BY <1>2, <2>2, <5>1 DEF AppliedAs
        <5> QED
          BY <2>3, <2>8, <5>1, <5>2 DEF AppliedAs
      <4> QED BY <4>1, <4>2
    <3>3. ASSUME NEW a, NEW j, Names(a, j)', j # NoStudent
          PROVE  IsStudent(j)' /\ Row(rows', Account(j)) # NoRow /\ \A b : Names(b, j)' => b = a
      <4>1. CASE j = i
        BY <1>2, <2>2, <2>4, <2>8, <2>9, <2>11, <2>12, <3>3, <4>1
      <4>2. CASE j # i
        <5>1. a # c /\ Names(a, j)
          BY <2>8, <2>9, <3>3, <4>2
        <5> QED
          BY <1>1, <2>3, <2>8, <2>9, <2>10, <3>3, <4>2, <5>1 DEF Admitted
      <4> QED BY <4>1, <4>2
    <3> QED
      BY <3>1, <3>2, <3>3 DEF Admitted
  <2> QED
    BY <2>7, <2>13
<1> QED BY <1>3, <1>4

(* Another address, another number: the student stays a student, and the   *)
(* address that was made from an application is nobody's.                  *)
LEMMA MoveCommits ==
  ASSUME DocumentsInv, AdmissionsInv, NEW r \in Requests, Commit(r), Moved(r)
  PROVE  Admitted' /\ \A a : IsApplication(a) => IsApplication(a)'
<1>1. Admitted /\ \A k : k[1] \in Records =>
                   Row(rows', k) = IF k \in Written(r) THEN draft[r][k] ELSE Row(rows, k)
  BY RowsAfter DEF AdmissionsInv
<1>2. NoRow \notin Nat
  BY AdmissionsAssumption
<1>3. PICK i : i = req[r].id
  OBVIOUS
<1>4. /\ \A a : Application(a) \notin Written(r)
      /\ \A j : Account(j) \in Written(r) => j = i /\ draft[r][Account(j)] = OtherAddress
      /\ \A a : UserOf(a) \in Written(r) =>
           Row(rows, Account(i)) = a /\ Account(i) \in Written(r)
      /\ \A n : Student(n) \in Written(r) =>
           Row(rows, Student(n)) = NoRow \/ Row(rows, Student(n)).id = i
  BY <1>3, AdmissionKeys DEF Moved, Moving
<1>5. \A a : Row(rows', Application(a)) = Row(rows, Application(a))
  BY <1>1, <1>4, AdmissionKeys DEF Records
<1>6. /\ \A a : IsApplication(a)' <=> IsApplication(a)
      /\ \A a, j : Names(a, j)' <=> Names(a, j)
  BY <1>5 DEF IsApplication, Names
<1>7. \A j : Row(rows', Account(j)) \in {OtherAddress, Row(rows, Account(j))}
  BY <1>1, <1>4, AdmissionKeys DEF Records
<1>8. ASSUME NEW j \in Nat, IsStudent(j)
      PROVE  IsStudent(j)'
  <2>1. PICK n : Row(rows, Student(n)) # NoRow /\ Row(rows, Student(n)).id = j
    BY <1>8 DEF IsStudent
  <2>2. CASE Student(n) \notin Written(r)
    BY <1>1, <2>1, <2>2, AdmissionKeys DEF Records, IsStudent
  <2>3. CASE Student(n) \in Written(r)
    <3>1. j = i /\ NumberHeld(r)
      BY <1>4, <2>1, <2>3 DEF Moved, Numberless
    <3>2. PICK m : Student(m) \in Written(r) /\ draft[r][Student(m)] = [id |-> i, drawn |-> FALSE]
      BY <1>3, <3>1 DEF NumberHeld
    <3>3. Row(rows', Student(m)) = [id |-> i, drawn |-> FALSE]
      BY <1>1, <3>2, AdmissionKeys DEF Records
    <3>4. [id |-> i, drawn |-> FALSE] \in StudentRow /\ NoRow \notin StudentRow
      BY <3>1, AdmissionsAssumption DEF StudentRow
    <3>5. Row(rows', Student(m)) # NoRow
      BY <3>3, <3>4
    <3>6. Row(rows', Student(m)).id = j
      BY <3>1, <3>3
    <3> QED
      BY <3>5, <3>6 DEF IsStudent
  <2> QED BY <2>2, <2>3
<1>9. Admitted'
  <2>1. \A a : Row(rows', Application(a)) \in ApplicationRow \cup {NoRow}
    BY <1>1, <1>5 DEF Admitted
  <2>2. ASSUME NEW j, NEW a, Row(rows', Account(j)) = a, a \notin {NoRow, OtherAddress}
        PROVE  AppliedAs(j, a)'
    <3>1. Row(rows, Account(j)) = a /\ AppliedAs(j, a)
      BY <1>1, <1>7, <2>2 DEF Admitted
    <3>2. Account(j) \notin Written(r)
      BY <1>1, <1>4, <2>2, AdmissionKeys DEF Records
    <3>3. UserOf(a) \notin Written(r)
      <4> SUFFICES ASSUME UserOf(a) \in Written(r)
                   PROVE  FALSE
        OBVIOUS
      <4>1. Row(rows, Account(i)) = a /\ Account(i) \in Written(r)
        BY <1>4
      <4>2. AppliedAs(i, a)
        BY <1>1, <2>2, <4>1 DEF Admitted
      <4> QED
        BY <3>1, <3>2, <4>1, <4>2 DEF AppliedAs
    <3>4. Row(rows', UserOf(a)) = Row(rows, UserOf(a))
      BY <1>1, <3>3, AdmissionKeys DEF Records
    <3> QED
      BY <1>6, <3>1, <3>4 DEF AppliedAs
  <2>3. ASSUME NEW a, NEW j, Names(a, j)', j # NoStudent
        PROVE  IsStudent(j)' /\ Row(rows', Account(j)) # NoRow /\ \A b : Names(b, j)' => b = a
    <3>1. OtherAddress # NoRow
      BY <1>2 DEF OtherAddress
    <3>2. j \in Nat
      BY <1>1, <1>6, <2>3 DEF Admitted, Names, IsApplication, ApplicationRow
    <3> QED
      BY <1>1, <1>6, <1>7, <1>8, <2>3, <3>1, <3>2 DEF Admitted
  <2> QED
    BY <2>1, <2>2, <2>3 DEF Admitted
<1> QED
  BY <1>6, <1>9

LEMMA CommittingAdmissions ==
  ASSUME DocumentsInv, AdmissionsInv, NEW r \in Requests, Commit(r)
  PROVE  AdmissionsInv'
<1>1. /\ Alone(r) /\ DOMAIN draft'[r] = {} /\ pc'[r] = "idle" /\ pc[r] = "commit"
      /\ \A q \in Requests \ {r} : \A k \in DOMAIN draft[q] : Row(rows', k) = Row(rows, k)
  BY CommitRows
<1>2. Admitted' /\ \A a : IsApplication(a) => IsApplication(a)'
  <2>1. \/ Written(r) = {} \/ NewApplication(r) \/ NewStatus(r)
        \/ Converted(r) \/ ByHandEntered(r) \/ Moved(r)
    BY <1>1 DEF AdmissionsInv, Stage
  <2>2. CASE Written(r) = {}
    BY <2>2, RowsAfter, SameRecords
  <2> QED
    BY <2>1, <2>2, ApplicationCommits, StudentCommits, MoveCommits
<1>3. Written(r)' = {}
  BY <1>1 DEF Written
<1>4. Stage(r)'
  BY <1>1, <1>3 DEF Stage, Drawing
<1>5. \A q \in Requests \ {r} : Stage(q)'
  BY <1>1, <1>2, Undisturbed DEF Alone, Written
<1>6. Confined(AdmissionsTables, AdmissionsLabels)'
  BY <1>1, ConfinedKept DEF AdmissionsInv
<1> QED
  BY <1>2, <1>4, <1>5, <1>6 DEF AdmissionsInv

LEMMA AdmissionsInit == Init => AdmissionsInv
<1> SUFFICES ASSUME Init
             PROVE  AdmissionsInv
  OBVIOUS
<1>1. /\ \A k : Row(rows, k) = NoRow
      /\ \A r \in Requests : DOMAIN draft[r] = {} /\ pc[r] = "idle"
  BY DEF Init, DbInit, NoRows, Row
<1>2. Admitted
  BY <1>1 DEF Admitted, Names, IsApplication
<1>3. \A r \in Requests : Stage(r)
  BY <1>1 DEF Stage, Written, Drawing
<1> QED
  BY <1>1, <1>2, <1>3 DEF AdmissionsInv, Confined

LEMMA AdmissionsNext == DocumentsInv /\ AdmissionsInv /\ [Next]_vars => AdmissionsInv'
<1> SUFFICES ASSUME DocumentsInv, AdmissionsInv, [Next]_vars
             PROVE  AdmissionsInv'
  OBVIOUS
<1>1. CASE Outside \/ UNCHANGED vars
  <2>1. UNCHANGED <<rows, draft, pc, req, seen>>
    BY <1>1, OutsideAside DEF Aside
  <2>2. Admitted' /\ \A a : IsApplication(a) => IsApplication(a)'
    BY <2>1, SameRecords
  <2>3. \A r \in Requests : Stage(r)'
    BY <2>1, <2>2, Undisturbed
  <2> QED
    BY <2>1, <2>2, <2>3 DEF AdmissionsInv, Confined
<1>2. ASSUME NEW r \in Requests, Arrival(r) \/ RequestStep(r) \/ Fails(r) \/ DeadlockVictim(r)
      PROVE  AdmissionsInv'
  <2>1. \/ AdmissionsArrival(r) \/ AdmissionsStep(r) \/ Commit(r)
        \/ PayrollArrival(r) \/ PayrollStep(r) \/ CertificatesArrival(r) \/ CertificatesStep(r)
        \/ PtmArrival(r) \/ PtmStep(r) \/ DocumentsArrival(r) \/ DocumentsStep(r)
        \/ Fails(r) \/ DeadlockVictim(r)
    BY <1>2 DEF Arrival, RequestStep
  <2>2. CASE AdmissionsArrival(r) \/ Commit(r)
    BY <2>2, AdmissionsArrivalKeeps, CommittingAdmissions
  <2>3. CASE AdmissionsStep(r)
    BY <2>3, ReadsKeepAdmissions, AdmissionsWritesKeep DEF AdmissionsStep
  <2>4. CASE ~(AdmissionsArrival(r) \/ AdmissionsStep(r) \/ Commit(r))
    <3>1. Confined(AdmissionsTables, AdmissionsLabels)
      BY DEF AdmissionsInv
    <3>2. /\ AdmissionsTables \cap (PtmTables \cup DocumentsTables) = {}
          /\ AdmissionsLabels \cap (PtmLabels \cup DocLabels) = {}
          /\ {"commit", "idle"} \cap AdmissionsLabels = {}
      BY PartsApart
    <3>3. Leaves(r, AdmissionsTables, AdmissionsLabels)
      BY <2>1, <2>4, <3>1, <3>2, PartsApart, PayrollLeaves, CertificatesLeaves,
         PtmAndDocumentsLeave, FailuresLeave
    <3> QED
      BY <3>3, LeavingAdmissions
  <2> QED BY <2>2, <2>3, <2>4
<1> QED
  BY <1>1, <1>2 DEF Next

THEOREM AdmissionsInvHolds == Spec => []AdmissionsInv
BY AdmissionsInit, AdmissionsNext, DocumentsInvHolds, PTL DEF Spec

(***************************************************************************)
(* The account that was opened for an application is that of the student   *)
(* whom the application names, and of no other application, though         *)
(* conversions of one application may all have read it as unconverted, its *)
(* status may be written from a read that is old, and students are entered *)
(* and changed by hand.                                                    *)
(***************************************************************************)
THEOREM OneStudentEachHolds == Spec => []OneStudentEach
<1>1. AdmissionsInv => OneStudentEach
  <2> SUFFICES ASSUME Admitted
               PROVE  OneStudentEach
    BY DEF AdmissionsInv
  <2>1. \A k : Row(rows, k) # NoRow => k \in DOMAIN rows /\ Row(rows, k) = rows[k]
    BY DEF Row
  <2>2. ASSUME NEW i \in Accounts, rows[Account(i)] # OtherAddress
        PROVE  /\ rows[Account(i)] \in Applications
               /\ rows[Application(rows[Account(i)])].student = i
    <3> DEFINE a == Row(rows, Account(i))
    <3>1. a \notin {NoRow, OtherAddress} /\ a = rows[Account(i)]
      BY <2>1, <2>2 DEF Accounts
    <3>2. AppliedAs(i, a)
      BY <3>1 DEF Admitted
    <3> QED
      BY <2>1, <3>1, <3>2 DEF AppliedAs, Names, IsApplication, Applications
  <2>3. \A a \in Applications : \A i : rows[Application(a)].student = i <=> Names(a, i)
    BY <2>1 DEF Applications, Names, IsApplication
  <2>4. ASSUME NEW a \in Applications, rows[Application(a)].student # NoStudent
        PROVE  LET i == rows[Application(a)].student IN
               /\ \E k \in Students : rows[k].id = i
               /\ \A b \in Applications \ {a} : rows[Application(b)].student # i
    <3> DEFINE i == rows[Application(a)].student
    <3>1. IsStudent(i) /\ \A b : Names(b, i) => b = a
      BY <2>3, <2>4 DEF Admitted
    <3>2. PICK n : Row(rows, Student(n)) # NoRow /\ Row(rows, Student(n)).id = i
      BY <3>1 DEF IsStudent
    <3>3. Student(n) \in Students /\ rows[Student(n)].id = i
      BY <2>1, <3>2 DEF Students, Student
    <3> QED
      BY <2>3, <3>1, <3>3
  <2> QED
    BY <2>2, <2>4 DEF OneStudentEach
<1> QED
  BY <1>1, AdmissionsInvHolds, PTL
=============================================================================
