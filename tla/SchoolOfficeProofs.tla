------------------------- MODULE SchoolOfficeProofs -------------------------
(***************************************************************************)
(* Proofs about the documents of the school office, for any number of      *)
(* requests, documents, applications and so on, beside all that the other  *)
(* requests of the office do.                                              *)
(***************************************************************************)
EXTENDS SchoolOffice, TLAPS

---------------------------------------------------------------------------
(***************************************************************************)
(* What a step of one request may touch.                                   *)
(***************************************************************************)
Domains ==
  /\ DOMAIN draft = Requests /\ DOMAIN pc = Requests
  /\ DOMAIN req = Requests /\ DOMAIN seen = Requests

(* A row has one uncommitted change.                                       *)
Exclusive ==
  \A r, q \in Requests : \A k \in DOMAIN draft[r] \cap DOMAIN draft[q] : r = q

(* The other requests stay as they are.                                    *)
Alone(r) ==
  \A q \in Requests \ {r} :
    /\ draft'[q] = draft[q] /\ pc'[q] = pc[q] /\ req'[q] = req[q] /\ seen'[q] = seen[q]

(* It locks only what nobody else holds, and commits what it has written.  *)
Footprint(r) ==
  /\ Domains' /\ Alone(r)
  /\ \A k \in DOMAIN draft'[r] : k \in DOMAIN draft[r] \/ Unlocked(r, k)
  /\ \/ rows' = rows
     \/ rows' = Merged(r) /\ draft'[r] = NoRows /\ pc[r] \in {"commit", "sweepCommit"}

(* It writes no row of a document.                                         *)
NoDocument(r) ==
  \A d : Doc(d) \in DOMAIN draft'[r] =>
    Doc(d) \in DOMAIN draft[r] /\ draft'[r][Doc(d)] = draft[r][Doc(d)]

Quiet(r) == Footprint(r) /\ NoDocument(r) /\ rows' = rows

(* Where a request is with a document.                                     *)
UploadLabels == {"scan", "fileStore", "documentInsert"}
PolicyLabels == {"policyLock", "policyWrite"}
RescanLabels == {"rescanRead", "fileRead", "rescanLock", "rescanWrite"}
PurgeLabels  == {"fileDelete", "documentMark", "sweepCommit"}
SweepLabels  == {"sweepList", "sweepNext", "sweepCommit"}
DocLabels ==
  UploadLabels \cup PolicyLabels \cup RescanLabels \cup PurgeLabels \cup SweepLabels
    \cup {"deleteRead"}

(* Where the key of a row that will be written has been read or given.     *)
SlipLabels == {"slipsFind", "slipsDelete"}
RevokeLabels == {"certificateRead", "certificateRevoke"}

Labels == DocLabels \cup SlipLabels \cup RevokeLabels

Keys(r) ==
  /\ pc[r] \in SlipLabels =>
       "left" \in DOMAIN seen[r] /\ \A f \in seen[r].left : \E m, s : f[1] = Slip(m, s)
  /\ pc[r] \in RevokeLabels => \E prefix, n : req[r].certificate = Certificate(prefix, n)

(* A step that has nothing to do with documents.                           *)
Away(r) ==
  /\ Quiet(r) /\ Keys(r)'
  /\ pc[r] \notin DocLabels \cup {"commit"} /\ pc'[r] \notin DocLabels

---------------------------------------------------------------------------
(***************************************************************************)
(* The steps all parts are made of.                                        *)
(***************************************************************************)
LEMMA BranchFacts ==
  ASSUME Domains, NEW r \in Requests, NEW l, Branch(r, l)
  PROVE  /\ Quiet(r) /\ pc'[r] = l
         /\ draft'[r] = draft[r] /\ req'[r] = req[r] /\ seen'[r] = seen[r]
BY DEF Domains, Quiet, NoDocument, Footprint, Alone, Branch, Goto

LEMMA ReadFacts ==
  ASSUME Domains, NEW r \in Requests, NEW x, NEW l, Read(r, x, l)
  PROVE  /\ Quiet(r) /\ pc'[r] = l
         /\ draft'[r] = draft[r] /\ req'[r] = req[r] /\ seen'[r] = x
BY DEF Domains, Quiet, NoDocument, Footprint, Alone, Read, Goto

LEMMA StartFacts ==
  ASSUME Domains, NEW r \in Requests, NEW x, NEW l, Start(r, x, l)
  PROVE  /\ Quiet(r) /\ pc[r] = "idle" /\ pc'[r] = l
         /\ draft'[r] = draft[r] /\ req'[r] = x /\ seen'[r] = seen[r]
BY DEF Domains, Quiet, NoDocument, Footprint, Alone, Start, Goto

LEMMA FinishFacts ==
  ASSUME Domains, NEW r \in Requests, Finish(r)
  PROVE  Domains' /\ Alone(r) /\ draft'[r] = NoRows /\ DOMAIN draft'[r] = {} /\ pc'[r] = "idle"
BY DEF Domains, Alone, Finish, Goto, NoRows

LEMMA ThrowFacts ==
  ASSUME Domains, NEW r \in Requests, Throw(r)
  PROVE  Quiet(r) /\ DOMAIN draft'[r] = {} /\ pc'[r] = "idle"
BY FinishFacts DEF Throw, Quiet, NoDocument, Footprint

LEMMA WriteFacts ==
  ASSUME Domains, NEW r \in Requests, NEW k, NEW row, NEW l, Write(r, k, row, l)
  PROVE  /\ Footprint(r) /\ rows' = rows /\ pc'[r] = l
         /\ draft'[r] = Put(draft[r], k, row) /\ req'[r] = req[r] /\ seen'[r] = seen[r]
BY DEF Domains, Footprint, Alone, Write, Goto, Put

LEMMA WriteElsewhere ==
  ASSUME Domains, NEW r \in Requests, NEW k, NEW row, NEW l, Write(r, k, row, l),
         \A d : k # Doc(d)
  PROVE  Quiet(r) /\ pc'[r] = l
<1>1. Footprint(r) /\ rows' = rows /\ pc'[r] = l /\ draft'[r] = Put(draft[r], k, row)
  BY WriteFacts
<1>2. ASSUME NEW d, Doc(d) \in DOMAIN draft'[r]
      PROVE  Doc(d) \in DOMAIN draft[r] /\ draft'[r][Doc(d)] = draft[r][Doc(d)]
  <2>1. k # Doc(d)
    OBVIOUS
  <2> QED
    BY <1>1, <1>2, <2>1 DEF Put
<1> QED
  BY <1>1, <1>2 DEF Quiet, NoDocument

LEMMA InsertElsewhere ==
  ASSUME Domains, NEW r \in Requests, NEW k, NEW row, NEW l, Insert(r, k, row, l),
         \A d : k # Doc(d)
  PROVE  Quiet(r) /\ pc'[r] \in {l, "idle"}
BY WriteElsewhere, ThrowFacts DEF Insert

LEMMA UpdateElsewhere ==
  ASSUME Domains, NEW r \in Requests, NEW k, NEW b, NEW row, NEW l, Update(r, k, b, row, l),
         \A d : k # Doc(d)
  PROVE  Quiet(r) /\ pc'[r] \in {l, "idle"}
BY WriteElsewhere, ThrowFacts DEF Update

LEMMA OtherKeys ==
  /\ \A m, d : Cycle(m) # Doc(d) /\ Counter(m) # Doc(d)
  /\ \A m, s, d : Slip(m, s) # Doc(d) /\ Certificate(m, s) # Doc(d)
  /\ \A n, d : Application(n) # Doc(d) /\ Student(n) # Doc(d)
  /\ \A n, d : Account(n) # Doc(d) /\ UserOf(n) # Doc(d)
  /\ \A s, d : PtmSlot(s) # Doc(d)
BY DEF Doc, Cycle, Counter, Slip, Certificate, Application, Student, Account, UserOf, PtmSlot

(* An id is new when nobody has, or opens, an account under it.            *)
LEMMA NewIdFree ==
  ASSUME NEW i \in 1..MaxStudents, NewId(i)
  PROVE  Row(rows, Account(i)) = NoRow /\ \A r \in Requests : Account(i) \notin DOMAIN draft[r]
BY DEF NewId, Accounts, NewAccounts

LEMMA SameDocument == \A d, e : Doc(d) = Doc(e) => d = e
BY DEF Doc

LEMMA Untracked ==
  ASSUME NEW r, Quiet(r), pc[r] \notin DocLabels \cup {"commit"}, pc'[r] \notin Labels
  PROVE  Away(r)
BY DEF Away, Keys, Labels

---------------------------------------------------------------------------
(***************************************************************************)
(* The other parts of the office.                                          *)
(***************************************************************************)
LEMMA PayrollAway ==
  ASSUME Domains, NEW r \in Requests, Keys(r), PayrollStep(r)
  PROVE  Away(r)
<1> USE BranchFacts, ReadFacts, ThrowFacts, OtherKeys, Untracked
    DEF Labels, DocLabels, UploadLabels, PolicyLabels, RescanLabels, PurgeLabels, SweepLabels,
        SlipLabels, RevokeLabels
<1>1. CASE ComputePayslips(r)
  <2>1. PICK n, i : Read(r, [id |-> i, net |-> n, left |-> {}], "slipsFind")
    BY <1>1 DEF ComputePayslips
  <2> QED
    BY <1>1, <2>1 DEF ComputePayslips, Away, Keys
<1>2. CASE LookForCycle(r) \/ ReadCycle(r) \/ RefuseNoStaff(r)
  BY <1>2 DEF LookForCycle, ReadCycle, RefuseNoStaff
<1>3. CASE InsertCycle(r)
  BY <1>3, InsertElsewhere DEF InsertCycle
<1>4. CASE FindSlips(r)
  <2> DEFINE left == {<<k, View(r, k).id>> : k \in Found(r, SlipsOf(req[r].month))}
  <2>1. Read(r, [seen[r] EXCEPT !.left = left], "slipsDelete")
    BY <1>4 DEF FindSlips
  <2>3. \A f \in left : \E m, s : f[1] = Slip(m, s)
    BY DEF Found, SlipsOf
  <2> HIDE DEF left
  <2>2. "left" \in DOMAIN seen[r]
    BY <1>4 DEF FindSlips, Keys
  <2> QED
    BY <1>4, <2>1, <2>2, <2>3 DEF FindSlips, Away, Keys
<1>5. CASE DeleteSlips(r)
  <2>1. CASE Branch(r, "slipCreate")
    BY <1>5, <2>1 DEF DeleteSlips
  <2>2. CASE ~Branch(r, "slipCreate")
    <3>1. PICK f \in seen[r].left :
            /\ Unlocked(r, f[1])
            /\ draft' \in {[draft EXCEPT ![r] = Put(@, f[1], NoRow)], draft}
            /\ seen' = [seen EXCEPT ![r].left = @ \ {f}]
            /\ UNCHANGED <<rows, pc, req>>
      BY <1>5, <2>2 DEF DeleteSlips
    <3>2. /\ pc[r] = "slipsDelete" /\ "left" \in DOMAIN seen[r]
          /\ \A g \in seen[r].left : \E m, s : g[1] = Slip(m, s)
      BY <1>5 DEF DeleteSlips, Keys
    <3>3. "left" \in DOMAIN seen'[r] /\ seen'[r].left = seen[r].left \ {f}
      BY <3>1, <3>2 DEF Domains
    <3>4. PICK x : seen' = [seen EXCEPT ![r] = x]
      BY <3>1
    <3>5. \A d : f[1] # Doc(d)
      BY <3>2
    <3>6. Quiet(r) /\ pc'[r] = "slipsDelete"
      BY <3>1, <3>2, <3>4, <3>5 DEF Domains, Quiet, NoDocument, Footprint, Alone, Put
    <3> QED
      BY <3>2, <3>3, <3>6 DEF Away, Keys
  <2> QED BY <2>1, <2>2
<1>6. CASE CreateSlip(r)
  <2>1. CASE Branch(r, "cycleApprove")
    BY <1>6, <2>1 DEF CreateSlip
  <2>2. CASE ~Branch(r, "cycleApprove")
    <3>1. PICK s, row : Insert(r, Slip(req[r].month, s), row, "slipCreate")
      BY <1>6, <2>2 DEF CreateSlip
    <3> QED
      BY <1>6, <3>1, InsertElsewhere DEF CreateSlip
  <2> QED BY <2>1, <2>2
<1>7. CASE ApproveCycle(r) \/ PayCycle(r)
  BY <1>7, WriteElsewhere DEF ApproveCycle, PayCycle
<1>8. CASE ReadSlip(r) \/ CountPending(r)
  BY <1>8 DEF ReadSlip, CountPending
<1>9. CASE PaySlip(r)
  BY <1>9, UpdateElsewhere DEF PaySlip, ThisSlip
<1> QED
  BY PayrollStep(r), <1>1, <1>2, <1>3, <1>4, <1>5, <1>6, <1>7, <1>8, <1>9 DEF PayrollStep

LEMMA AdmissionsAway ==
  ASSUME Domains, NEW r \in Requests, AdmissionsStep(r)
  PROVE  Away(r)
<1> USE BranchFacts, ReadFacts, ThrowFacts, OtherKeys, Untracked
    DEF Labels, DocLabels, UploadLabels, PolicyLabels, RescanLabels, PurgeLabels, SweepLabels,
        SlipLabels, RevokeLabels
<1>1. CASE ReadActiveYear(r) \/ ReadForStatus(r) \/ ReadForReject(r) \/ ReadForConvert(r)
  BY <1>1 DEF ReadActiveYear, ReadForStatus, ReadForReject, ReadForConvert
<1>2. CASE ReadCounter(r) \/ ReadBaseline(r) \/ Probe(r)
  BY <1>2 DEF ReadCounter, ReadBaseline, Probe
<1>3. CASE SaveCounter(r)
  BY <1>3, WriteElsewhere DEF SaveCounter, AfterSequence
<1>4. CASE InsertApplication(r)
  BY <1>4, InsertElsewhere DEF InsertApplication
<1>5. CASE WriteStatus(r)
  BY <1>5, WriteElsewhere DEF WriteStatus, ThisApplication
<1>6. CASE InsertUser(r)
  <2>1. CASE Throw(r)
    BY <1>6, <2>1 DEF InsertUser
  <2>2. CASE ~Throw(r)
    <3>1. /\ pc[r] = "userInsert" /\ Goto(r, "sequence") /\ UNCHANGED <<rows, req, seen>>
          /\ Unlocked(r, UserOf(req[r].number))
      BY <1>6, <2>2 DEF InsertUser
    <3>2. PICK i \in 1..MaxStudents : NewId(i) /\ OpenAccount(r, i)
      BY <1>6, <2>2 DEF InsertUser
    <3>3. Unlocked(r, Account(i))
      BY <3>2, NewIdFree DEF Unlocked
    <3>4. Quiet(r) /\ pc'[r] = "sequence"
      BY <3>1, <3>2, <3>3
         DEF OpenAccount, Domains, Quiet, NoDocument, Footprint, Alone, Goto, Put
    <3> QED BY <3>1, <3>4
  <2> QED BY <2>1, <2>2
<1>7. CASE InsertStudent(r)
  BY <1>7, InsertElsewhere DEF InsertStudent
<1>8. CASE MarkConverted(r)
  BY <1>8, WriteElsewhere DEF MarkConverted, ThisApplication
<1>9. CASE ReadForEnter(r) \/ ReadForUpdate(r)
  BY <1>9 DEF ReadForEnter, ReadForUpdate, LookForNumber
<1>10. CASE EnterStudent(r)
  <2>1. CASE Throw(r)
    BY <1>10, <2>1 DEF EnterStudent
  <2>2. CASE ~Throw(r)
    <3>1. /\ pc[r] = "studentEnter" /\ Goto(r, "commit") /\ UNCHANGED <<rows, req, seen>>
          /\ Unlocked(r, Student(req[r].number))
      BY <1>10, <2>2 DEF EnterStudent
    <3>2. PICK i \in 1..MaxStudents : NewId(i) /\ \E row :
                        draft' = [draft EXCEPT ![r] = Put(Put(@, Account(i), OtherAddress),
                                                            Student(req[r].number), row)]
      BY <1>10, <2>2 DEF EnterStudent
    <3>3. Unlocked(r, Account(i))
      BY <3>2, NewIdFree DEF Unlocked
    <3>4. Quiet(r) /\ pc'[r] = "commit"
      BY <3>1, <3>2, <3>3 DEF Domains, Quiet, NoDocument, Footprint, Alone, Goto, Put
    <3> QED BY <3>1, <3>4
  <2> QED BY <2>1, <2>2
<1>11. CASE ChangeAddress(r)
  <2>1. /\ pc[r] = "addressWrite" /\ UNCHANGED <<rows, req, seen>>
        /\ Goto(r, "commit") \/ Goto(r, "numberFree")
        /\ Unlocked(r, Account(req[r].id))
    BY <1>11 DEF ChangeAddress, ThisAccount
  <2>2. PICK old, changed :
          /\ draft' = [draft EXCEPT ![r] = changed] /\ Unlocked(r, UserOf(old))
          /\ \/ changed = Put(draft[r], Account(req[r].id), OtherAddress)
             \/ changed = Put(Put(draft[r], Account(req[r].id), OtherAddress), UserOf(old), NoRow)
    BY <1>11 DEF ChangeAddress, ThisAccount
  <2>3. Quiet(r) /\ pc'[r] \in {"commit", "numberFree"}
    BY <2>1, <2>2 DEF Domains, Quiet, NoDocument, Footprint, Alone, Goto, Put
  <2> QED
    BY <2>1, <2>3
<1>12. CASE FreeNumber(r)
  <2>1. PICK k \in Bearing(r) : Write(r, k, NoRow, "numberWrite")
    BY <1>12 DEF FreeNumber
  <2>2. \A d : k # Doc(d)
    BY <2>1 DEF Bearing
  <2> QED
    BY <1>12, <2>1, <2>2, WriteElsewhere DEF FreeNumber
<1>13. CASE WriteNumber(r)
  BY <1>13, InsertElsewhere DEF WriteNumber
<1> QED
  BY AdmissionsStep(r), <1>1, <1>2, <1>3, <1>4, <1>5, <1>6, <1>7, <1>8, <1>9, <1>10, <1>11, <1>12,
     <1>13 DEF AdmissionsStep

LEMMA PtmAway ==
  ASSUME Domains, NEW r \in Requests, PtmStep(r)
  PROVE  Away(r)
<1> USE BranchFacts, ReadFacts, ThrowFacts, OtherKeys, Untracked
    DEF Labels, DocLabels, UploadLabels, PolicyLabels, RescanLabels, PurgeLabels, SweepLabels,
        SlipLabels, RevokeLabels
<1>1. CASE InsertSession(r)
  <2>1. Quiet(r) /\ pc[r] = "sessionInsert" /\ pc'[r] = "commit"
    BY <1>1 DEF InsertSession, Domains, Quiet, NoDocument, Footprint, Alone, Goto
  <2> QED BY <2>1
<1>2. CASE ReadForBook(r) \/ CheckTeacher(r) \/ CheckTime(r)
  BY <1>2 DEF ReadForBook, CheckTeacher, CheckTime
<1>3. CASE ReadForCancel(r) \/ ReadForComplete(r)
  BY <1>3 DEF ReadForCancel, ReadForComplete
<1>4. CASE Book(r) \/ Cancel(r) \/ Complete(r)
  BY <1>4, WriteElsewhere DEF Book, Cancel, Complete, ThisSlot
<1> QED
  BY PtmStep(r), <1>1, <1>2, <1>3, <1>4 DEF PtmStep

LEMMA CertificatesAway ==
  ASSUME Domains, NEW r \in Requests, Keys(r), CertificatesStep(r)
  PROVE  Away(r)
<1> USE BranchFacts, ReadFacts, ThrowFacts, OtherKeys, Untracked
    DEF Labels, DocLabels, UploadLabels, PolicyLabels, RescanLabels, PurgeLabels, SweepLabels,
        SlipLabels, RevokeLabels
<1>1. CASE NextLearner(r)
  <2>1. CASE Branch(r, "commit")
    BY <1>1, <2>1 DEF NextLearner
  <2>2. CASE ~Branch(r, "commit")
    <3>1. /\ pc[r] = "learnerNext"
          /\ Goto(r, "certificatesCount") \/ Goto(r, "learnerNext")
          /\ \E x : req' = [req EXCEPT ![r] = x]
          /\ UNCHANGED <<rows, draft, seen>>
      BY <1>1, <2>2 DEF NextLearner
    <3>2. Quiet(r) /\ pc'[r] \in {"certificatesCount", "learnerNext"}
      BY <3>1 DEF Domains, Quiet, NoDocument, Footprint, Alone, Goto
    <3> QED
      BY <3>1, <3>2
  <2> QED BY <2>1, <2>2
<1>2. CASE CountCertificates(r)
  BY <1>2 DEF CountCertificates
<1>3. CASE ReadForRevoke(r)
  BY <1>3 DEF ReadForRevoke, Away, Keys
<1>4. CASE InsertCertificate(r)
  BY <1>4, InsertElsewhere DEF InsertCertificate
<1>5. CASE RevokeCertificate(r)
  <2>1. PICK prefix, n : req[r].certificate = Certificate(prefix, n)
    BY <1>5 DEF RevokeCertificate, Keys
  <2>2. \A d : req[r].certificate # Doc(d)
    BY <2>1
  <2> QED
    BY <1>5, <2>2, WriteElsewhere DEF RevokeCertificate
<1> QED
  BY CertificatesStep(r), <1>1, <1>2, <1>3, <1>4, <1>5 DEF CertificatesStep

LEMMA ArrivalAway ==
  ASSUME Domains, NEW r \in Requests,
         PayrollArrival(r) \/ AdmissionsArrival(r) \/ PtmArrival(r) \/ CertificatesArrival(r)
  PROVE  Away(r)
<1> USE StartFacts, Untracked
    DEF Labels, DocLabels, UploadLabels, PolicyLabels, RescanLabels, PurgeLabels, SweepLabels,
        SlipLabels, RevokeLabels
<1>1. CASE PayrollArrival(r)
  <2>1. \E x : Start(r, x, "cycleLook") \/ Start(r, x, "cycleRead") \/ Start(r, x, "slipRead")
    BY <1>1 DEF PayrollArrival, StartCycle, StartProcess, StartMark
  <2> QED BY <2>1
<1>2. CASE AdmissionsArrival(r)
  <2>1. \E x : \/ Start(r, x, "yearRead") \/ Start(r, x, "statusRead")
              \/ Start(r, x, "rejectRead") \/ Start(r, x, "applicationRead")
              \/ Start(r, x, "numberRead") \/ Start(r, x, "profileRead")
    BY <1>2 DEF AdmissionsArrival, StartApply, StartStatus, StartReject, StartConvert, StartEnter,
                StartUpdate
  <2> QED BY <2>1
<1>3. CASE PtmArrival(r)
  <2>1. \E x : \/ Start(r, x, "sessionInsert") \/ Start(r, x, "bookRead")
              \/ Start(r, x, "cancelRead") \/ Start(r, x, "completeRead")
    BY <1>3 DEF PtmArrival, StartSession, StartBook, StartCancel, StartComplete
  <2> QED BY <2>1
<1>4. CASE CertificatesArrival(r)
  <2>1. CASE \E x : Start(r, x, "learnerNext")
    BY <2>1
  <2>2. CASE \E prefix, n : StartRevoke(r, Certificate(prefix, n))
    BY <2>2 DEF StartRevoke, Away, Keys
  <2> QED
    BY <1>4, <2>1, <2>2 DEF CertificatesArrival, StartIssue
<1> QED
  BY <1>1, <1>2, <1>3, <1>4

---------------------------------------------------------------------------
(***************************************************************************)
(* The invariant.                                                          *)
(***************************************************************************)
DocRow == [hold : BOOLEAN, until : Nat, deleted : BOOLEAN]

Upload(r, d) == req[r] = [kind |-> "upload", doc |-> d]

(* What is asked for, where the label tells.                               *)
Shape(r) ==
  /\ pc[r] \in UploadLabels => \E d : Upload(r, d)
  /\ pc[r] \in PolicyLabels => req[r].policy \in Policies /\ ~Sweeping(r)
  /\ pc[r] \in RescanLabels \cup {"deleteRead"} => ~Sweeping(r)
  /\ pc[r] \in SweepLabels => Sweeping(r)

(* A file that is deleted, or has been, is the file of a row.              *)
AtHand(r) ==
  /\ pc[r] \in {"fileDelete", "documentMark"} => Row(rows, Doc(ThisDoc(r))) # NoRow
  /\ pc[r] = "documentMark" => ThisDoc(r) \notin stored

(* A row that is written is there, or is that of an upload that commits.   *)
Drafts(r) ==
  \A d : Doc(d) \in DOMAIN draft[r] =>
    /\ draft[r][Doc(d)] \in DocRow
    /\ draft[r][Doc(d)].deleted => d \notin stored
    /\ Row(rows, Doc(d)) # NoRow \/ (pc[r] = "commit" /\ Upload(r, d))

(* A document is new until its upload inserts its row.                     *)
Uploading(r, d) == pc[r] \in UploadLabels /\ Upload(r, d)

New(r) ==
  \A d : Uploading(r, d) =>
    /\ Row(rows, Doc(d)) = NoRow
    /\ \A q \in Requests : Doc(d) \notin DOMAIN draft[q]
    /\ \A q \in Requests \ {r} : ~Uploading(q, d)

(* The row lock of the job, and what it has found under it.                *)
Held(r) ==
  Purging(r) => Doc(ThisDoc(r)) \in DOMAIN draft[r] /\ Due(ThisDoc(r))

Documented ==
  /\ now \in Nat
  /\ \A d : Row(rows, Doc(d)) # NoRow =>
       Row(rows, Doc(d)) \in DocRow /\ (Row(rows, Doc(d)).deleted => d \notin stored)

Own(r) == Keys(r) /\ Shape(r) /\ AtHand(r) /\ Drafts(r) /\ Held(r)

DocumentsInv ==
  /\ Domains /\ Exclusive /\ Documented
  /\ \A r \in Requests : Own(r) /\ New(r)

LEMMA RowOfMerged == \A r, k : Row(Merged(r), k) = View(r, k)
BY DEF Row, Merged, View

(***************************************************************************)
(* A step of r that keeps what is its own keeps the rest, when it writes   *)
(* only rows that are there or those of its upload, and stores only the    *)
(* file of its upload, which is new when it begins.                        *)
(***************************************************************************)
Contained(r) ==
  /\ Footprint(r) /\ now' = now
  /\ \A d \in stored' : d \in stored \/ Uploading(r, d)
  /\ \A d : Doc(d) \in DOMAIN draft'[r] =>
       \/ Doc(d) \in DOMAIN draft[r] \/ Row(rows, Doc(d)) # NoRow
       \/ Uploading(r, d) /\ pc'[r] \notin UploadLabels
  /\ \A d : Uploading(r, d)' => Uploading(r, d) \/ Fresh(d)

LEMMA ExclusiveKept ==
  ASSUME DocumentsInv, NEW r \in Requests, Footprint(r)
  PROVE  Exclusive'
<1>1. \A q \in Requests \ {r} : draft'[q] = draft[q]
  BY DEF Footprint, Alone
<1>2. \A k \in DOMAIN draft'[r], q \in Requests \ {r} : k \notin DOMAIN draft[q]
  BY DEF Footprint, Unlocked, DocumentsInv, Exclusive
<1> QED
  BY <1>1, <1>2 DEF DocumentsInv, Exclusive

(* Rows of documents stay, and those that others have locked as they are.  *)
LEMMA RowsKept ==
  ASSUME DocumentsInv, NEW r \in Requests, Footprint(r)
  PROVE  /\ \A d : Row(rows, Doc(d)) # NoRow => Row(rows', Doc(d)) # NoRow
         /\ \A d : Doc(d) \notin DOMAIN draft[r] => Row(rows', Doc(d)) = Row(rows, Doc(d))
<1>1. CASE rows' = rows
  BY <1>1
<1>2. CASE rows' = Merged(r)
  <2>1. \A d : Doc(d) \in DOMAIN draft[r] => draft[r][Doc(d)] # NoRow
    BY DocumentsAssumption DEF DocumentsInv, Own, Drafts, DocRow
  <2> QED
    BY <1>2, <2>1, RowOfMerged DEF View
<1> QED BY <1>1, <1>2 DEF Footprint

LEMMA OthersKept ==
  ASSUME DocumentsInv, NEW r \in Requests, Contained(r), NEW q \in Requests \ {r}
  PROVE  Own(q)'
<1>1. draft'[q] = draft[q] /\ pc'[q] = pc[q] /\ req'[q] = req[q] /\ seen'[q] = seen[q]
  BY DEF Contained, Footprint, Alone
<1>2. Own(q) /\ ThisDoc(q)' = ThisDoc(q) /\ Sweeping(q)' = Sweeping(q)
  BY <1>1 DEF DocumentsInv, ThisDoc, Sweeping
<1>3. \A d : Row(rows, Doc(d)) # NoRow => Row(rows', Doc(d)) # NoRow
  BY RowsKept DEF Contained
<1>4. \A d : Doc(d) \in DOMAIN draft[q] => Row(rows', Doc(d)) = Row(rows, Doc(d))
  BY RowsKept DEF Contained, DocumentsInv, Exclusive
<1>5. \A d \in stored' : d \in stored \/ Row(rows, Doc(d)) = NoRow
  BY DEF Contained, DocumentsInv, New
<1>6. Keys(q)' /\ Shape(q)'
  BY <1>1, <1>2 DEF Own, Keys, Shape, Upload
<1>7. AtHand(q)'
  BY <1>1, <1>2, <1>3, <1>5 DEF Own, AtHand
<1>8. Drafts(q)'
  <2> SUFFICES ASSUME NEW d, Doc(d) \in DOMAIN draft[q]
               PROVE  /\ draft[q][Doc(d)] \in DocRow
                      /\ draft[q][Doc(d)].deleted => d \notin stored'
                      /\ Row(rows', Doc(d)) # NoRow \/ (pc[q] = "commit" /\ Upload(q, d))
    BY <1>1 DEF Drafts, Upload
  <2>1. d \in stored' => d \in stored
    BY DEF Contained, DocumentsInv, New
  <2> QED
    BY <1>2, <1>3, <2>1 DEF Own, Drafts
<1>9. Held(q)'
  BY <1>1, <1>2, <1>4 DEF Own, Held, Purging, Due, MayGo, Contained
<1> QED
  BY <1>6, <1>7, <1>8, <1>9 DEF Own

LEMMA NewKept ==
  ASSUME DocumentsInv, NEW r \in Requests, Contained(r), NEW q \in Requests
  PROVE  New(q)'
<1> SUFFICES ASSUME NEW d, Uploading(q, d)'
             PROVE  /\ Row(rows', Doc(d)) = NoRow
                    /\ \A x \in Requests : Doc(d) \notin DOMAIN draft'[x]
                    /\ \A x \in Requests \ {q} : ~Uploading(x, d)'
  BY DEF New
<1>1. \A x \in Requests \ {r} :
        draft'[x] = draft[x] /\ (Uploading(x, d)' <=> Uploading(x, d))
  BY DEF Contained, Footprint, Alone, Uploading, Upload
<1>2. Uploading(q, d) \/ (Fresh(d) /\ q = r)
  BY <1>1 DEF Contained
<1>3. \A x \in Requests : Doc(d) \notin DOMAIN draft[x]
  BY <1>2 DEF DocumentsInv, Own, New, Drafts, Fresh, Upload
<1>4. Row(rows, Doc(d)) = NoRow
  BY <1>2 DEF DocumentsInv, New, Fresh
<1>5. \A x \in Requests \ {q} : ~Uploading(x, d)
  BY <1>2 DEF DocumentsInv, New, Fresh, Uploading, Upload, UploadLabels
<1>6. Row(rows', Doc(d)) = NoRow
  BY <1>3, <1>4, RowsKept DEF Contained
<1>7. ~Fresh(d) \/ ~Uploading(r, d)
  BY DEF Fresh, Uploading, Upload, UploadLabels
<1>8. Doc(d) \notin DOMAIN draft'[r]
  BY <1>2, <1>3, <1>4, <1>5, <1>7 DEF Contained, Uploading
<1>9. \A x \in Requests \ {q} : ~Uploading(x, d)'
  BY <1>1, <1>2, <1>5 DEF Contained, Fresh, Uploading, Upload, UploadLabels
<1> QED
  BY <1>1, <1>3, <1>6, <1>8, <1>9

LEMMA DocumentedKept ==
  ASSUME DocumentsInv, NEW r \in Requests, Contained(r)
  PROVE  Documented'
<1> SUFFICES ASSUME NEW d, Row(rows', Doc(d)) # NoRow
             PROVE  /\ Row(rows', Doc(d)) \in DocRow
                    /\ Row(rows', Doc(d)).deleted => d \notin stored'
  BY DEF Documented, DocumentsInv, Contained
<1>1. CASE Doc(d) \notin DOMAIN draft[r] \/ rows' = rows
  <2>1. Row(rows', Doc(d)) = Row(rows, Doc(d))
    BY <1>1, RowsKept DEF Contained
  <2>2. d \in stored' => d \in stored
    BY <2>1 DEF Contained, DocumentsInv, New
  <2> QED
    BY <2>1, <2>2 DEF DocumentsInv, Documented
<1>2. CASE Doc(d) \in DOMAIN draft[r] /\ rows' = Merged(r)
  <2>1. Row(rows', Doc(d)) = draft[r][Doc(d)]
    BY <1>2, RowOfMerged DEF View
  <2>2. d \in stored' => d \in stored
    BY <1>2 DEF Contained, DocumentsInv, New
  <2> QED
    BY <1>2, <2>1, <2>2 DEF DocumentsInv, Own, Drafts
<1> QED
  BY <1>1, <1>2 DEF Contained, Footprint

LEMMA InvKept ==
  ASSUME DocumentsInv, NEW r \in Requests, Contained(r), Own(r)'
  PROVE  DocumentsInv'
<1>1. Domains' /\ Exclusive'
  BY ExclusiveKept DEF Contained, Footprint
<1>2. \A q \in Requests : Own(q)' /\ New(q)'
  BY OthersKept, NewKept
<1> QED
  BY <1>1, <1>2, DocumentedKept DEF DocumentsInv

---------------------------------------------------------------------------
(***************************************************************************)
(* The steps.                                                              *)
(***************************************************************************)
(* Whatever r did elsewhere.                                               *)
LEMMA AwayKeeps ==
  ASSUME DocumentsInv, NEW r \in Requests, Away(r), UNCHANGED docVars
  PROVE  DocumentsInv'
<1> USE DEF Away, Quiet, docVars
<1>1. /\ ~(pc'[r] \in UploadLabels \cup PolicyLabels \cup RescanLabels \cup SweepLabels)
      /\ pc'[r] \notin {"deleteRead", "fileDelete", "documentMark", "sweepCommit"}
  BY DEF DocLabels, PurgeLabels
<1>2. Contained(r)
  BY <1>1 DEF Contained, NoDocument, Uploading
<1>3. Shape(r)' /\ AtHand(r)' /\ Held(r)'
  BY <1>1 DEF Shape, AtHand, Held, Purging
<1>4. Drafts(r)'
  BY DEF NoDocument, DocumentsInv, Own, Drafts
<1> QED
  BY <1>2, <1>3, <1>4, InvKept DEF Own

(* r reads, or gives up: it has no more rows of its own than before.       *)
LEMMA ReadKeeps ==
  ASSUME DocumentsInv, NEW r \in Requests, Quiet(r), UNCHANGED docVars,
         pc[r] # "commit", pc'[r] \notin UploadLabels \cup PurgeLabels
  PROVE  Contained(r) /\ AtHand(r)' /\ Drafts(r)' /\ Held(r)'
<1> USE DEF Quiet, docVars
<1>1. Contained(r)
  BY DEF Contained, NoDocument, Uploading
<1>2. AtHand(r)' /\ Held(r)'
  BY DEF AtHand, Held, Purging, PurgeLabels
<1>3. Drafts(r)'
  BY DEF NoDocument, DocumentsInv, Own, Drafts
<1> QED
  BY <1>1, <1>2, <1>3

LEMMA ThrowKeeps ==
  ASSUME DocumentsInv, NEW r \in Requests, Throw(r), UNCHANGED docVars
  PROVE  DocumentsInv'
<1>1. Quiet(r) /\ DOMAIN draft'[r] = {} /\ pc'[r] = "idle"
  BY ThrowFacts DEF DocumentsInv
<1>2. Contained(r)
  BY <1>1 DEF Quiet, Contained, Uploading, UploadLabels, docVars
<1>3. Own(r)'
  BY <1>1 DEF Own, Keys, Shape, AtHand, Drafts, Held, Purging, UploadLabels, PolicyLabels,
              RescanLabels, SweepLabels, SlipLabels, RevokeLabels
<1> QED
  BY <1>2, <1>3, InvKept

LEMMA UploadKeeps ==
  ASSUME DocumentsInv, NEW r \in Requests, ScanUpload(r) \/ StoreFile(r) \/ InsertDocument(r)
  PROVE  DocumentsInv'
<1> USE DEF DocLabels, UploadLabels, PolicyLabels, RescanLabels, PurgeLabels, SweepLabels,
        SlipLabels, RevokeLabels
<1>0. Domains /\ Own(r) /\ New(r)
  BY DEF DocumentsInv
<1>1. CASE Throw(r) /\ UNCHANGED docVars
  BY <1>1, ThrowKeeps
<1>2. CASE pc[r] = "scan" /\ Branch(r, "fileStore") /\ UNCHANGED docVars
  <2>1. /\ Quiet(r) /\ pc'[r] = "fileStore"
        /\ draft'[r] = draft[r] /\ req'[r] = req[r] /\ seen'[r] = seen[r]
    BY <1>0, <1>2, BranchFacts
  <2>2. Contained(r)
    BY <1>2, <2>1 DEF Quiet, Contained, Uploading, Upload, docVars
  <2>3. Own(r)'
    BY <1>0, <1>2, <2>1 DEF Quiet, Own, Keys, Shape, AtHand, Drafts, Held, Purging, Upload, docVars
  <2> QED
    BY <2>2, <2>3, InvKept
<1>3. CASE StoreFile(r)
  <2>1. /\ Quiet(r) /\ pc[r] = "fileStore" /\ pc'[r] = "documentInsert" /\ now' = now
        /\ draft'[r] = draft[r] /\ req'[r] = req[r] /\ seen'[r] = seen[r]
    BY <1>0, <1>3, BranchFacts DEF StoreFile
  <2>2. PICK d : Upload(r, d)
    BY <1>0, <2>1 DEF Own, Shape
  <2>3. stored' = stored \cup {d} /\ Uploading(r, d)
    BY <1>3, <2>1, <2>2 DEF StoreFile, Upload, Uploading
  <2>4. Contained(r)
    BY <2>1, <2>3 DEF Quiet, Contained, Uploading, Upload
  <2>5. Drafts(r)'
    BY <1>0, <2>1, <2>3 DEF Quiet, Own, Drafts, New
  <2>6. Own(r)'
    BY <1>0, <2>1, <2>2, <2>5 DEF Quiet, Own, Keys, Shape, AtHand, Held, Purging, Upload
  <2> QED
    BY <2>4, <2>6, InvKept
<1>4. CASE InsertDocument(r) /\ ~Throw(r)
  <2>1. PICK row :
          /\ row = [hold |-> FALSE, until |-> now + Retention, deleted |-> FALSE]
          /\ Write(r, Doc(req[r].doc), row, "commit")
          /\ pc[r] = "documentInsert" /\ UNCHANGED docVars
    BY <1>4 DEF InsertDocument, Insert, Stays
  <2>2. /\ Footprint(r) /\ rows' = rows /\ pc'[r] = "commit"
        /\ draft'[r] = Put(draft[r], Doc(req[r].doc), row)
        /\ req'[r] = req[r] /\ seen'[r] = seen[r]
    BY <1>0, <2>1, WriteFacts
  <2>3. PICK d : Upload(r, d)
    BY <1>0, <2>1 DEF Own, Shape
  <2>4. row \in DocRow /\ ~row.deleted
    BY <2>1, DocumentsAssumption DEF DocRow, DocumentsInv, Documented
  <2>5. draft'[r] = Put(draft[r], Doc(d), row) /\ Uploading(r, d) /\ Upload(r, d)'
    BY <2>1, <2>2, <2>3 DEF Upload, Uploading
  <2>6. Contained(r)
    BY <2>1, <2>2, <2>5, SameDocument DEF Contained, Put, Uploading, docVars
  <2>7. Drafts(r)'
    BY <1>0, <2>1, <2>2, <2>4, <2>5, SameDocument DEF Drafts, Own, Put, docVars
  <2>8. Own(r)'
    BY <2>2, <2>7 DEF Own, Keys, Shape, AtHand, Held, Purging
  <2> QED
    BY <2>6, <2>8, InvKept
<1> QED
  BY <1>1, <1>2, <1>3, <1>4 DEF ScanUpload, InsertDocument, Stays

(* r writes a row of a document that is there, and does not bring it back. *)
LEMMA WriteKeeps ==
  ASSUME DocumentsInv, NEW r \in Requests, NEW d, NEW row, NEW l,
         Write(r, Doc(d), row, l), UNCHANGED docVars,
         pc[r] \notin UploadLabels \cup {"commit"},
         l \in {"commit", "policyWrite", "rescanWrite", "sweepCommit"},
         row \in DocRow, row.deleted => d \notin stored, Row(rows, Doc(d)) # NoRow,
         Shape(r)', Held(r)'
  PROVE  DocumentsInv'
<1>1. /\ Footprint(r) /\ rows' = rows /\ pc'[r] = l
      /\ draft'[r] = Put(draft[r], Doc(d), row) /\ req'[r] = req[r] /\ seen'[r] = seen[r]
  BY WriteFacts DEF DocumentsInv
<1>2. Contained(r)
  BY <1>1, SameDocument DEF Contained, Put, Uploading, UploadLabels, docVars
<1>3. Drafts(r)'
  <2> SUFFICES ASSUME NEW e, Doc(e) \in DOMAIN draft'[r]
               PROVE  /\ draft'[r][Doc(e)] \in DocRow
                      /\ draft'[r][Doc(e)].deleted => e \notin stored
                      /\ Row(rows, Doc(e)) # NoRow
    BY <1>1 DEF Drafts, docVars
  <2>1. CASE e = d
    BY <1>1, <2>1 DEF Put
  <2>2. CASE e # d
    <3>1. Doc(e) # Doc(d)
      BY <2>2, SameDocument
    <3>2. Doc(e) \in DOMAIN draft[r] /\ draft'[r][Doc(e)] = draft[r][Doc(e)]
      BY <1>1, <3>1 DEF Put
    <3> QED
      BY <3>2 DEF DocumentsInv, Own, Drafts
  <2> QED BY <2>1, <2>2
<1>4. Keys(r)' /\ AtHand(r)'
  BY <1>1 DEF Keys, AtHand, SlipLabels, RevokeLabels
<1> QED
  BY <1>2, <1>3, <1>4, InvKept DEF Own

LEMMA ViewFacts ==
  ASSUME DocumentsInv, NEW r \in Requests, NEW d, View(r, Doc(d)) # NoRow, pc[r] # "commit"
  PROVE  /\ View(r, Doc(d)) \in DocRow /\ Row(rows, Doc(d)) # NoRow
         /\ View(r, Doc(d)).deleted => d \notin stored
BY DEF DocumentsInv, Documented, Own, Drafts, View

LEMMA UnderFacts ==
  ASSUME NEW row \in DocRow, NEW policy \in Policies
  PROVE  Under(row, policy) \in DocRow /\ Under(row, policy).deleted = row.deleted
<1>1. CASE \E h \in BOOLEAN : policy = [hold |-> h]
  <2>1. PICK h \in BOOLEAN : policy = [hold |-> h]
    BY <1>1
  <2>2. Under(row, policy) = [row EXCEPT !.hold = h]
    BY <2>1 DEF DocRow, Under
  <2> QED
    BY <2>2 DEF DocRow
<1>2. CASE \E t \in 0..MaxTime : policy = [until |-> t]
  <2>1. PICK t \in 0..MaxTime : policy = [until |-> t]
    BY <1>2
  <2>2. Under(row, policy) = [row EXCEPT !.until = t]
    BY <2>1 DEF DocRow, Under
  <2> QED
    BY <2>2, DocumentsAssumption DEF DocRow
<1> QED
  BY <1>1, <1>2 DEF Policies

LEMMA LockKeeps ==
  ASSUME DocumentsInv, NEW r \in Requests, NEW l, LockDocument(r, l),
         \/ pc[r] = "policyLock" /\ l = "policyWrite"
         \/ pc[r] = "rescanLock" /\ l = "rescanWrite"
  PROVE  DocumentsInv'
<1> USE DEF UploadLabels, PolicyLabels, RescanLabels, PurgeLabels, SweepLabels, SlipLabels,
        RevokeLabels
<1> DEFINE d == req[r].doc
<1>0. Domains /\ Own(r) /\ UNCHANGED docVars
  BY DEF DocumentsInv, LockDocument, Stays
<1>1. CASE Branch(r, l)
  <2>1. Quiet(r) /\ pc'[r] = l /\ req'[r] = req[r]
    BY <1>0, <1>1, BranchFacts
  <2>2. Keys(r)' /\ Shape(r)'
    BY <1>0, <2>1 DEF Own, Keys, Shape, Sweeping
  <2> QED
    BY <1>0, <2>1, <2>2, ReadKeeps, InvKept DEF Own
<1>2. CASE View(r, Doc(d)) # NoRow /\ Write(r, Doc(d), View(r, Doc(d)), l)
  <2>1. pc'[r] = l /\ req'[r] = req[r]
    BY <1>0, <1>2, WriteFacts
  <2>2. Shape(r)' /\ Held(r)'
    BY <1>0, <2>1 DEF Own, Shape, Sweeping, Held, Purging
  <2>3. pc[r] \notin UploadLabels \cup {"commit"}
    OBVIOUS
  <2> HIDE DEF d
  <2> QED
    BY <1>0, <1>2, <2>2, <2>3, ViewFacts, WriteKeeps
<1> QED
  BY <1>1, <1>2 DEF LockDocument

LEMMA PolicyKeeps ==
  ASSUME DocumentsInv, NEW r \in Requests, WritePolicy(r)
  PROVE  DocumentsInv'
<1> USE DEF UploadLabels, PolicyLabels, RescanLabels, PurgeLabels, SweepLabels
<1> DEFINE d == req[r].doc
           row == View(r, Doc(d))
           policy == req[r].policy
<1>0. Domains /\ Own(r) /\ UNCHANGED docVars /\ pc[r] = "policyWrite" /\ policy \in Policies
  BY DEF DocumentsInv, Own, Shape, WritePolicy, Stays
<1>1. CASE Throw(r)
  BY <1>0, <1>1, ThrowKeeps
<1>2. CASE row # NoRow /\ ~row.deleted /\ Write(r, Doc(d), Under(row, policy), "commit")
  <2>1. pc'[r] = "commit"
    BY <1>0, <1>2, WriteFacts
  <2>2. Shape(r)' /\ Held(r)'
    BY <2>1 DEF Shape, Held, Purging
  <2>3. row \in DocRow /\ Row(rows, Doc(d)) # NoRow
    BY <1>0, <1>2, ViewFacts
  <2>4. Under(row, policy) \in DocRow /\ ~Under(row, policy).deleted
    BY <1>0, <1>2, <2>3, UnderFacts
  <2> HIDE DEF d, row, policy
  <2> QED
    BY <1>0, <1>2, <2>2, <2>3, <2>4, WriteKeeps
<1> QED
  BY <1>1, <1>2 DEF WritePolicy

LEMMA RescanKeeps ==
  ASSUME DocumentsInv, NEW r \in Requests, ReadForRescan(r) \/ ScanFile(r) \/ WriteVerdict(r)
  PROVE  DocumentsInv'
<1> USE DEF UploadLabels, PolicyLabels, RescanLabels, PurgeLabels, SweepLabels, SlipLabels,
        RevokeLabels
<1> DEFINE d == req[r].doc
           row == View(r, Doc(d))
<1>0. Domains /\ Own(r) /\ UNCHANGED docVars
  BY DEF DocumentsInv, ReadForRescan, ScanFile, WriteVerdict, Stays
<1>1. CASE Throw(r)
  BY <1>0, <1>1, ThrowKeeps
<1>2. CASE \/ pc[r] = "rescanRead" /\ Branch(r, "fileRead")
           \/ pc[r] = "fileRead" /\ Branch(r, "rescanLock")
  <2>1. Quiet(r) /\ pc'[r] \in {"fileRead", "rescanLock"} /\ req'[r] = req[r]
    BY <1>0, <1>2, BranchFacts
  <2>2. Keys(r)' /\ Shape(r)'
    BY <1>0, <1>2, <2>1 DEF Own, Keys, Shape, Sweeping
  <2> QED
    BY <1>0, <1>2, <2>1, <2>2, ReadKeeps, InvKept DEF Own
<1>3. CASE pc[r] = "rescanWrite" /\ row # NoRow /\ ~row.deleted /\ Write(r, Doc(d), row, "commit")
  <2>1. pc'[r] = "commit"
    BY <1>0, <1>3, WriteFacts
  <2>2. Shape(r)' /\ Held(r)'
    BY <2>1 DEF Shape, Held, Purging
  <2>3. row \in DocRow /\ Row(rows, Doc(d)) # NoRow
    BY <1>0, <1>3, ViewFacts
  <2> HIDE DEF d, row
  <2> QED
    BY <1>0, <1>3, <2>2, <2>3, WriteKeeps
<1> QED
  BY <1>1, <1>2, <1>3 DEF ReadForRescan, ScanFile, WriteVerdict, Present

LEMMA ReadForDeleteKeeps ==
  ASSUME DocumentsInv, NEW r \in Requests, ReadForDelete(r)
  PROVE  DocumentsInv'
<1> USE DEF UploadLabels, PolicyLabels, RescanLabels, PurgeLabels, SweepLabels, SlipLabels,
        RevokeLabels
<1>0. Domains /\ Own(r) /\ UNCHANGED docVars /\ pc[r] = "deleteRead" /\ ~Sweeping(r)
  BY DEF DocumentsInv, Own, Shape, ReadForDelete, Stays
<1>1. CASE Throw(r)
  BY <1>0, <1>1, ThrowKeeps
<1>2. CASE Row(rows, Doc(req[r].doc)) # NoRow /\ Branch(r, "fileDelete")
  <2>1. /\ Quiet(r) /\ pc'[r] = "fileDelete"
        /\ draft'[r] = draft[r] /\ req'[r] = req[r] /\ seen'[r] = seen[r]
    BY <1>0, <1>2, BranchFacts
  <2>2. Contained(r)
    BY <1>0, <2>1 DEF Quiet, Contained, Uploading, docVars
  <2>3. AtHand(r)' /\ Held(r)'
    BY <1>0, <1>2, <2>1 DEF Quiet, AtHand, Held, Purging, ThisDoc, Sweeping
  <2>4. Keys(r)' /\ Shape(r)' /\ Drafts(r)'
    BY <1>0, <2>1 DEF Quiet, Own, Keys, Shape, Drafts, docVars
  <2> QED
    BY <2>2, <2>3, <2>4, InvKept DEF Own
<1> QED
  BY <1>1, <1>2 DEF ReadForDelete, MayGo

LEMMA DeleteFileKeeps ==
  ASSUME DocumentsInv, NEW r \in Requests, DeleteFile(r)
  PROVE  DocumentsInv'
<1> USE DEF UploadLabels, PolicyLabels, RescanLabels, PurgeLabels, SweepLabels, SlipLabels,
        RevokeLabels
<1>0. Domains /\ Own(r) /\ pc[r] = "fileDelete" /\ now' = now /\ stored' = stored \ {ThisDoc(r)}
  BY DEF DocumentsInv, DeleteFile
<1>1. /\ Quiet(r) /\ pc'[r] = "documentMark"
      /\ draft'[r] = draft[r] /\ req'[r] = req[r] /\ seen'[r] = seen[r]
  BY <1>0, BranchFacts DEF DeleteFile
<1>2. Contained(r)
  BY <1>0, <1>1 DEF Quiet, Contained, Uploading
<1>3. ThisDoc(r)' = ThisDoc(r) /\ Sweeping(r)' = Sweeping(r)
  BY <1>1 DEF ThisDoc, Sweeping
<1>4. AtHand(r)'
  BY <1>0, <1>1, <1>3 DEF Quiet, Own, AtHand
<1>5. Held(r)'
  BY <1>0, <1>1, <1>3 DEF Quiet, Own, Held, Purging, Due, MayGo
<1>6. Keys(r)' /\ Shape(r)' /\ Drafts(r)'
  BY <1>0, <1>1 DEF Quiet, Own, Keys, Shape, Drafts
<1> QED
  BY <1>2, <1>4, <1>5, <1>6, InvKept DEF Own

LEMMA MarkDeletedKeeps ==
  ASSUME DocumentsInv, NEW r \in Requests, MarkDeleted(r)
  PROVE  DocumentsInv'
<1> USE DEF UploadLabels, PolicyLabels, RescanLabels, PurgeLabels, SweepLabels, SlipLabels,
        RevokeLabels
<1> DEFINE d == ThisDoc(r)
           row == [View(r, Doc(d)) EXCEPT !.deleted = TRUE]
           l == IF Sweeping(r) THEN "sweepCommit" ELSE "commit"
<1>0. /\ Domains /\ Own(r) /\ pc[r] = "documentMark" /\ UNCHANGED docVars
      /\ Write(r, Doc(d), row, l)
  BY DEF DocumentsInv, MarkDeleted, Stays
<1>1. /\ rows' = rows /\ pc'[r] = l /\ draft'[r] = Put(draft[r], Doc(d), row)
      /\ req'[r] = req[r] /\ seen'[r] = seen[r]
  BY <1>0, WriteFacts
<1>2. Row(rows, Doc(d)) # NoRow /\ d \notin stored
  BY <1>0 DEF Own, AtHand
<1>3. View(r, Doc(d)) \in DocRow
  <2>1. View(r, Doc(d)) # NoRow
    BY <1>0, <1>2, DocumentsAssumption DEF View, Own, Drafts, DocRow
  <2> QED
    BY <1>0, <2>1, ViewFacts
<1>4. row \in DocRow
  BY <1>3 DEF DocRow
<1>5. ThisDoc(r)' = ThisDoc(r) /\ Sweeping(r)' = Sweeping(r)
  BY <1>1 DEF ThisDoc, Sweeping
<1>6. Shape(r)'
  BY <1>1, <1>5 DEF Shape
<1>7. Held(r)'
  BY <1>0, <1>1, <1>5 DEF Own, Held, Purging, Due, MayGo, Put, docVars
<1>8. pc[r] \notin UploadLabels \cup {"commit"} /\ l \in {"commit", "sweepCommit"}
  BY <1>0
<1> HIDE DEF d, row, l
<1> QED
  BY <1>0, <1>2, <1>4, <1>6, <1>7, <1>8, WriteKeeps

---------------------------------------------------------------------------
(***************************************************************************)
(* The retention job.                                                      *)
(***************************************************************************)
LEMMA ListDueKeeps ==
  ASSUME DocumentsInv, NEW r \in Requests, ListDue(r)
  PROVE  DocumentsInv'
<1> USE DEF UploadLabels, PolicyLabels, RescanLabels, PurgeLabels, SweepLabels, SlipLabels,
        RevokeLabels
<1>1. PICK x : pc[r] = "sweepList" /\ Read(r, x, "sweepNext") /\ UNCHANGED docVars
  BY DEF ListDue, ListOf, Stays
<1>2. Domains /\ Own(r)
  BY DEF DocumentsInv
<1>3. Quiet(r) /\ pc'[r] = "sweepNext" /\ req'[r] = req[r]
  BY <1>1, <1>2, ReadFacts
<1>4. Keys(r)' /\ Shape(r)'
  BY <1>1, <1>2, <1>3 DEF Own, Keys, Shape, Sweeping
<1> QED
  BY <1>1, <1>3, <1>4, ReadKeeps, InvKept DEF Own

(* The document is due when it is locked, and skipped otherwise.           *)
LEMMA NextDocumentKeeps ==
  ASSUME DocumentsInv, NEW r \in Requests, NextDocument(r)
  PROVE  DocumentsInv'
<1> USE DEF UploadLabels, PolicyLabels, RescanLabels, PurgeLabels, SweepLabels, SlipLabels,
        RevokeLabels
<1>0. /\ Domains /\ Own(r) /\ pc[r] = "sweepNext" /\ Sweeping(r) /\ UNCHANGED docVars
  BY DEF DocumentsInv, Own, Shape, NextDocument, Stays
<1>1. CASE Throw(r)
  BY <1>0, <1>1, ThrowKeeps
<1>2. CASE \E d : /\ UNCHANGED <<rows, req>> /\ Lockable(r, d)
                 /\ draft' = [draft EXCEPT ![r] = Put(@, Doc(d), rows[Doc(d)])]
                 /\ \E left : seen' = [seen EXCEPT ![r] = [left |-> left, doc |-> d]]
                 /\ Goto(r, "fileDelete")
  <2>1. PICK d, left :
          /\ UNCHANGED <<rows, req>> /\ Lockable(r, d)
          /\ draft' = [draft EXCEPT ![r] = Put(@, Doc(d), rows[Doc(d)])]
          /\ seen' = [seen EXCEPT ![r] = [left |-> left, doc |-> d]]
          /\ Goto(r, "fileDelete")
    BY <1>2
  <2>2. /\ Footprint(r) /\ pc'[r] = "fileDelete" /\ req'[r] = req[r] /\ seen'[r].doc = d
        /\ draft'[r] = Put(draft[r], Doc(d), rows[Doc(d)])
    BY <1>0, <2>1 DEF Domains, Footprint, Alone, Goto, Put, Lockable
  <2>3. ThisDoc(r)' = d
    BY <1>0, <2>2 DEF ThisDoc, Sweeping
  <2>4. Due(d) /\ Row(rows, Doc(d)) # NoRow /\ rows[Doc(d)] = Row(rows, Doc(d))
    BY <2>1 DEF Lockable, Due, MayGo, Row
  <2>5. Contained(r)
    BY <1>0, <2>1, <2>2, <2>4, SameDocument DEF Contained, Put, Uploading, docVars
  <2>6. Due(d)' /\ Row(rows', Doc(d)) # NoRow
    BY <1>0, <2>1, <2>4 DEF Due, MayGo, docVars
  <2>7. AtHand(r)' /\ Held(r)'
    BY <2>2, <2>3, <2>6 DEF AtHand, Held, Purging, Put
  <2>8. Keys(r)' /\ Shape(r)'
    BY <1>0, <2>2 DEF Keys, Shape, Sweeping
  <2>9. Drafts(r)'
    <3> SUFFICES ASSUME NEW e, Doc(e) \in DOMAIN draft'[r]
                 PROVE  /\ draft'[r][Doc(e)] \in DocRow
                        /\ draft'[r][Doc(e)].deleted => e \notin stored
                        /\ Row(rows, Doc(e)) # NoRow
      BY <1>0, <2>1 DEF Drafts, docVars
    <3>1. CASE e = d
      BY <2>2, <2>4, <3>1 DEF Put, DocumentsInv, Documented
    <3>2. CASE e # d
      <4>1. Doc(e) # Doc(d)
        BY <3>2, SameDocument
      <4>2. Doc(e) \in DOMAIN draft[r] /\ draft'[r][Doc(e)] = draft[r][Doc(e)]
        BY <2>2, <4>1 DEF Put
      <4> QED
        BY <1>0, <4>2 DEF Own, Drafts
    <3> QED BY <3>1, <3>2
  <2> QED
    BY <2>5, <2>7, <2>8, <2>9, InvKept DEF Own
<1>3. CASE /\ UNCHANGED <<rows, req, draft, pc>>
           /\ \E x : seen' = [seen EXCEPT ![r] = x]
  <2>1. Quiet(r) /\ pc'[r] = "sweepNext" /\ req'[r] = req[r]
    BY <1>0, <1>3 DEF Domains, Quiet, NoDocument, Footprint, Alone
  <2>2. Keys(r)' /\ Shape(r)'
    BY <1>0, <2>1 DEF Keys, Shape, Sweeping
  <2> QED
    BY <1>0, <2>1, <2>2, ReadKeeps, InvKept DEF Own
<1>4. CASE ~Throw(r)
  <2>1. PICK d \in seen[r].left :
          /\ UNCHANGED <<rows, req>>
          /\ \/ /\ Lockable(r, d)
                /\ draft' = [draft EXCEPT ![r] = Put(@, Doc(d), rows[Doc(d)])]
                /\ \E left : seen' = [seen EXCEPT ![r] = [left |-> left, doc |-> d]]
                /\ Goto(r, "fileDelete")
             \/ /\ \E x : seen' = [seen EXCEPT ![r] = x]
                /\ UNCHANGED <<draft, pc>>
    BY <1>4 DEF NextDocument
  <2> QED
    BY <1>2, <1>3, <2>1
<1> QED
  BY <1>1, <1>4

(* The transaction of one document ends, by a commit or not.               *)
LEMMA NextTransactionKeeps ==
  ASSUME DocumentsInv, NEW r \in Requests, NextTransaction(r), Sweeping(r),
         rows' = rows \/ (rows' = Merged(r) /\ pc[r] = "sweepCommit"),
         UNCHANGED <<now, stored>>
  PROVE  DocumentsInv'
<1> USE DEF UploadLabels, PolicyLabels, RescanLabels, PurgeLabels, SweepLabels, SlipLabels,
        RevokeLabels
<1>1. PICK x : seen' = [seen EXCEPT ![r] = x]
  BY DEF NextTransaction
<1>2. /\ draft' = [draft EXCEPT ![r] = NoRows] /\ pc' = [pc EXCEPT ![r] = "sweepNext"]
      /\ req' = req
  BY DEF NextTransaction, Goto
<1>3. /\ Domains' /\ Alone(r)
      /\ DOMAIN draft'[r] = {} /\ draft'[r] = NoRows /\ pc'[r] = "sweepNext"
  BY <1>1, <1>2 DEF DocumentsInv, Domains, Alone, NoRows
<1>4. Footprint(r)
  BY <1>3 DEF Footprint
<1>5. Contained(r)
  BY <1>3, <1>4 DEF Contained, Uploading
<1>6. Own(r)'
  BY <1>2, <1>3 DEF Own, Keys, Shape, AtHand, Drafts, Held, Purging, Sweeping
<1> QED
  BY <1>5, <1>6, InvKept

LEMMA DocumentsStepKeeps ==
  ASSUME DocumentsInv, NEW r \in Requests, DocumentsStep(r)
  PROVE  DocumentsInv'
<1>1. CASE ScanUpload(r) \/ StoreFile(r) \/ InsertDocument(r)
  BY <1>1, UploadKeeps
<1>2. CASE LockForPolicy(r) \/ LockForRescan(r)
  BY <1>2, LockKeeps DEF LockForPolicy, LockForRescan
<1>3. CASE CommitPurge(r)
  <2>1. Sweeping(r)
    BY <1>3 DEF CommitPurge, DocumentsInv, Own, Shape, SweepLabels
  <2> QED
    BY <1>3, <2>1, NextTransactionKeeps DEF CommitPurge, Stays, docVars
<1> QED
  BY DocumentsStep(r), <1>1, <1>2, <1>3, PolicyKeeps, RescanKeeps, ReadForDeleteKeeps,
     DeleteFileKeeps, MarkDeletedKeeps, ListDueKeeps, NextDocumentKeeps DEF DocumentsStep

---------------------------------------------------------------------------
(***************************************************************************)
(* The ends of requests, what fails, and what happens outside of them.     *)
(***************************************************************************)
LEMMA DocumentsArrivalKeeps ==
  ASSUME DocumentsInv, NEW r \in Requests, DocumentsArrival(r)
  PROVE  DocumentsInv'
<1> USE DEF UploadLabels, PolicyLabels, RescanLabels, PurgeLabels, SweepLabels, SlipLabels,
        RevokeLabels
<1>0. Domains /\ Own(r) /\ UNCHANGED docVars
  BY DEF DocumentsInv, DocumentsArrival, Stays
<1>1. CASE \E d : StartUpload(r, d)
  <2>1. PICK d : Fresh(d) /\ Start(r, [kind |-> "upload", doc |-> d], "scan")
    BY <1>1 DEF StartUpload
  <2>2. /\ Quiet(r) /\ pc[r] = "idle" /\ pc'[r] = "scan" /\ draft'[r] = draft[r]
        /\ req'[r] = [kind |-> "upload", doc |-> d]
    BY <1>0, <2>1, StartFacts
  <2>3. Contained(r)
    BY <1>0, <2>1, <2>2 DEF Quiet, NoDocument, Contained, Uploading, Upload, docVars
  <2>4. Own(r)'
    BY <1>0, <2>2 DEF Quiet, Own, Keys, Shape, AtHand, Drafts, Held, Purging, Upload, docVars
  <2> QED
    BY <2>3, <2>4, InvKept
<1>2. CASE \E x, l : /\ Start(r, x, l)
                    /\ \/ l = "policyLock" /\ x.policy \in Policies /\ x.kind = "policy"
                       \/ l = "deleteRead" /\ x.kind = "delete"
                       \/ l = "rescanRead" /\ x.kind = "rescan"
                       \/ l = "sweepList" /\ x = [kind |-> "sweep"]
  <2>1. PICK x, l : /\ Start(r, x, l)
                    /\ \/ l = "policyLock" /\ x.policy \in Policies /\ x.kind = "policy"
                       \/ l = "deleteRead" /\ x.kind = "delete"
                       \/ l = "rescanRead" /\ x.kind = "rescan"
                       \/ l = "sweepList" /\ x = [kind |-> "sweep"]
    BY <1>2
  <2>2. Quiet(r) /\ pc[r] = "idle" /\ pc'[r] = l /\ req'[r] = x
    BY <1>0, <2>1, StartFacts
  <2>3. Keys(r)' /\ Shape(r)'
    BY <2>1, <2>2 DEF Keys, Shape, Sweeping
  <2> QED
    BY <1>0, <2>1, <2>2, <2>3, ReadKeeps, InvKept DEF Own
<1>3. \/ \E d : \/ StartUpload(r, d) \/ StartDelete(r, d) \/ StartRescan(r, d)
               \/ \E policy \in Policies : StartPolicy(r, d, policy)
      \/ StartSweep(r)
  BY DEF DocumentsArrival
<1>4. CASE \E d : StartDelete(r, d)
  BY <1>2, <1>4 DEF StartDelete
<1>5. CASE \E d : StartRescan(r, d)
  BY <1>2, <1>5 DEF StartRescan
<1>6. CASE \E d : \E policy \in Policies : StartPolicy(r, d, policy)
  BY <1>2, <1>6 DEF StartPolicy
<1>7. CASE StartSweep(r)
  BY <1>2, <1>7 DEF StartSweep
<1> QED
  BY <1>1, <1>3, <1>4, <1>5, <1>6, <1>7

LEMMA FinishKeeps ==
  ASSUME DocumentsInv, NEW r \in Requests, Finish(r),
         rows' = rows \/ (rows' = Merged(r) /\ pc[r] = "commit"),
         UNCHANGED <<now, stored>>
  PROVE  DocumentsInv'
<1> USE DEF UploadLabels, PolicyLabels, RescanLabels, PurgeLabels, SweepLabels, SlipLabels,
        RevokeLabels
<1>1. Domains' /\ Alone(r) /\ draft'[r] = NoRows /\ DOMAIN draft'[r] = {} /\ pc'[r] = "idle"
  BY FinishFacts DEF DocumentsInv
<1>2. Contained(r)
  BY <1>1 DEF Footprint, Contained, Uploading
<1>3. Own(r)'
  BY <1>1 DEF Own, Keys, Shape, AtHand, Drafts, Held, Purging
<1> QED
  BY <1>2, <1>3, InvKept

LEMMA FailsKeeps ==
  ASSUME DocumentsInv, NEW r \in Requests, Fails(r) \/ DeadlockVictim(r)
  PROVE  DocumentsInv'
<1>1. CASE AbortDocument(r)
  BY <1>1, FinishKeeps DEF AbortDocument, Abort
<1>2. CASE PurgeFails(r)
  BY <1>2, NextTransactionKeeps DEF PurgeFails
<1>3. CASE DeadlockVictim(r)
  BY <1>3, ThrowKeeps DEF DeadlockVictim, Victim, Elsewhere
<1> QED
  BY <1>1, <1>2, <1>3 DEF Fails

(* Time passes, a file goes, the language model is called.                 *)
LEMMA OutsideKeeps ==
  ASSUME DocumentsInv, UNCHANGED <<rows, draft, pc, req, seen>>,
         now' \in {now, now + 1}, stored' \subseteq stored
  PROVE  DocumentsInv'
<1>1. Domains' /\ Exclusive'
  BY DEF DocumentsInv, Domains, Exclusive
<1>2. Documented'
  BY DEF DocumentsInv, Documented
<1>3. ASSUME NEW r \in Requests
      PROVE  Own(r)' /\ New(r)'
  <2>1. Own(r) /\ New(r) /\ ThisDoc(r)' = ThisDoc(r) /\ Sweeping(r)' = Sweeping(r)
    BY DEF DocumentsInv, ThisDoc, Sweeping
  <2>2. Keys(r)' /\ Shape(r)' /\ New(r)'
    BY <2>1 DEF Own, Keys, Shape, New, Uploading, Upload
  <2>3. AtHand(r)' /\ Drafts(r)'
    BY <2>1 DEF Own, AtHand, Drafts, Upload
  <2>4. Held(r)'
    <3> SUFFICES ASSUME Purging(r)
                 PROVE  Doc(ThisDoc(r)) \in DOMAIN draft[r] /\ Due(ThisDoc(r))'
      BY <2>1 DEF Held, Purging
    <3>1. Doc(ThisDoc(r)) \in DOMAIN draft[r] /\ Due(ThisDoc(r))
      BY <2>1 DEF Own, Held
    <3> DEFINE row == Row(rows, Doc(ThisDoc(r)))
    <3>2. row # NoRow /\ ~row.hold /\ row.until <= now /\ ~row.deleted
      BY <3>1 DEF Due, MayGo
    <3>3. row \in DocRow /\ now \in Nat
      BY <3>2 DEF DocumentsInv, Documented
    <3>4. row.until <= now'
      BY <3>2, <3>3 DEF DocRow
    <3> QED
      BY <2>1, <3>1, <3>2, <3>4 DEF Due, MayGo
  <2> QED
    BY <2>2, <2>3, <2>4 DEF Own
<1> QED
  BY <1>1, <1>2, <1>3 DEF DocumentsInv

---------------------------------------------------------------------------
LEMMA InvInit == Init => DocumentsInv
<1> SUFFICES ASSUME Init
             PROVE  DocumentsInv
  OBVIOUS
<1>1. /\ DOMAIN rows = {} /\ \A r \in Requests : DOMAIN draft[r] = {} /\ pc[r] = "idle"
      /\ Domains /\ now = 0
  BY DEF Init, DbInit, DocumentsInit, NoRows, Domains
<1>2. Documented
  BY <1>1 DEF Documented, Row
<1>3. \A r \in Requests : Own(r) /\ New(r)
  BY <1>1 DEF Own, Keys, Shape, AtHand, Drafts, Held, New, Uploading, Purging, UploadLabels,
              PolicyLabels, RescanLabels, SweepLabels, SlipLabels, RevokeLabels
<1> QED
  BY <1>1, <1>2, <1>3 DEF DocumentsInv, Exclusive

LEMMA InvStep == DocumentsInv /\ [Next]_vars => DocumentsInv'
<1> SUFFICES ASSUME DocumentsInv, [Next]_vars
             PROVE  DocumentsInv'
  OBVIOUS
<1>1. ASSUME NEW r \in Requests, Arrival(r)
      PROVE  DocumentsInv'
  BY <1>1, ArrivalAway, AwayKeeps, DocumentsArrivalKeeps DEF Arrival, Elsewhere, DocumentsInv
<1>2. ASSUME NEW r \in Requests, RequestStep(r)
      PROVE  DocumentsInv'
  <2>1. CASE DocumentsStep(r)
    BY <2>1, DocumentsStepKeeps
  <2>2. CASE PayrollStep(r) /\ UNCHANGED docVars
    BY <2>2, PayrollAway, AwayKeeps DEF DocumentsInv, Own
  <2>3. CASE (AdmissionsStep(r) \/ PtmStep(r) \/ CertificatesStep(r)) /\ UNCHANGED docVars
    BY <2>3, AdmissionsAway, PtmAway, CertificatesAway, AwayKeeps DEF DocumentsInv, Own
  <2>4. CASE Commit(r) /\ UNCHANGED docVars
    BY <2>4, FinishKeeps DEF Commit, docVars
  <2> QED
    BY <1>2, <2>1, <2>2, <2>3, <2>4 DEF RequestStep, Elsewhere
<1>3. CASE Outside \/ UNCHANGED vars
  BY <1>3, OutsideKeeps DEF Outside, Tick, LateDeletion, vars, dbVars, docVars
<1> QED
  BY <1>1, <1>2, <1>3, FailsKeeps DEF Next

THEOREM DocumentsInvHolds == Spec => []DocumentsInv
BY InvInit, InvStep, PTL DEF Spec

(***************************************************************************)
(* The purge of a document is exclusive, as the comment on its row lock    *)
(* has it: while a replica deletes a file and until it commits, the        *)
(* document is due and no other replica is at it.                          *)
(***************************************************************************)
THEOREM PurgeIsExclusiveHolds == Spec => []PurgeIsExclusive
<1>1. DocumentsInv => PurgeIsExclusive
  BY DEF DocumentsInv, Own, Held, Exclusive, PurgeIsExclusive
<1> QED
  BY <1>1, DocumentsInvHolds, PTL

(***************************************************************************)
(* A document that is recorded as deleted has no file, whoever deleted it, *)
(* whatever failed in between and whichever deletions come late.           *)
(***************************************************************************)
THEOREM DeletedHasNoFileHolds == Spec => []DeletedHasNoFile
<1>1. DocumentsInv => DeletedHasNoFile
  BY DEF DocumentsInv, Documented, DeletedHasNoFile
<1> QED
  BY <1>1, DocumentsInvHolds, PTL
=============================================================================
