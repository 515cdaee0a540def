---------------------------- MODULE Certificates ----------------------------
(***************************************************************************)
(* CertificatesService: certificates are issued to one student or to a     *)
(* list of them, and revoked.  Transfer certificates and all the others    *)
(* are numbered apart.  The count that gives the number is of all years,   *)
(* the number names the year: here all is the first year of a school.      *)
(***************************************************************************)
EXTENDS RequestTransactions

CONSTANTS
  Types,
  Transfer,          \* the type with a prefix of its own
  Learners,
  MaxCertificates    \* bound

ASSUME CertificatesAssumption ==
  /\ Transfer \in Types /\ MaxCertificates \in Nat
  /\ NoRow \notin [type : Types, revoked : BOOLEAN]

PrefixOf(type) == IF type = Transfer THEN "TC" ELSE "CERT"

CertificateNumbers == 1..MaxCertificates

(* Unique in a school.                                                     *)
Certificate(prefix, n) == <<"certificate", prefix, n>>

(* The certificates of a type that r can see.                              *)
OfType(r, type) ==
  {n \in CertificateNumbers :
     LET row == View(r, Certificate(PrefixOf(type), n)) IN row # NoRow /\ row.type = type}
---------------------------------------------------------------------------
Issuing == {r \in Requests : pc[r] # "idle" /\ req[r].kind = "issue"}

(* One student, or a list.                                                 *)
StartIssue(r, type, students) ==
  /\ Cardinality({k \in DOMAIN rows : k[1] = "certificate"})
       + (Cardinality(Issuing) + 1) * Cardinality(Learners) <= MaxCertificates
  /\ Start(r, [kind |-> "issue", type |-> type, students |-> students], "learnerNext")

StartRevoke(r, k) ==
  /\ Row(rows, k) # NoRow
  /\ Start(r, [kind |-> "revoke", certificate |-> k], "certificateRead")

---------------------------------------------------------------------------
(* The next student of the list, whom the school may not have: alone, that *)
(* is the answer; in a list, an error among the results.                   *)
NextLearner(r) ==
  /\ pc[r] = "learnerNext"
  /\ \/ req[r].students = {} /\ Branch(r, "commit")
     \/ \E p \in req[r].students :
          /\ \/ Goto(r, "certificatesCount")
             \/ Goto(r, "learnerNext")
          /\ req' = [req EXCEPT ![r].students = @ \ {p}]
          /\ UNCHANGED <<rows, draft, seen, aborts>>

(* Mutant: the certificates of the school are counted, whatever their type.*)
CountOfSchool(r) ==
  /\ pc[r] = "certificatesCount"
  /\ Read(r, Cardinality(UNION {OfType(r, t) : t \in Types}) + 1, "certificateInsert")

CountCertificates(r) ==
  /\ pc[r] = "certificatesCount"
  /\ Read(r, Cardinality(OfType(r, req[r].type)) + 1, "certificateInsert")

(* The PDF is made and stored.  A number that is taken fails the statement *)
(* and with it the transaction: what a list has issued before is undone,   *)
(* whatever is answered.                                                   *)
InsertCertificate(r) ==
  /\ pc[r] = "certificateInsert"
  /\ Insert(r, Certificate(PrefixOf(req[r].type), seen[r]),
            [type |-> req[r].type, revoked |-> FALSE], "learnerNext")

ReadForRevoke(r) == pc[r] = "certificateRead" /\ Branch(r, "certificateRevoke")

RevokeCertificate(r) ==
  LET k == req[r].certificate IN
  /\ pc[r] = "certificateRevoke"
  /\ Write(r, k, [View(r, k) EXCEPT !.revoked = TRUE], "commit")

---------------------------------------------------------------------------
CertificatesArrival(r) ==
  \/ \E type \in Types, students \in (SUBSET Learners) \ {{}} : StartIssue(r, type, students)
  \/ \E prefix \in {"TC", "CERT"}, n \in CertificateNumbers :
       StartRevoke(r, Certificate(prefix, n))

CertificatesStep(r) ==
  \/ NextLearner(r) \/ CountCertificates(r) \/ InsertCertificate(r)
  \/ ReadForRevoke(r) \/ RevokeCertificate(r)

CertificatesWants(r) ==
  CASE pc[r] = "certificateInsert" -> {Certificate(PrefixOf(req[r].type), seen[r])}
    [] pc[r] = "certificateRevoke" -> {req[r].certificate}
    [] OTHER                       -> {}

---------------------------------------------------------------------------
Issued(prefix) == {n \in CertificateNumbers : Row(rows, Certificate(prefix, n)) # NoRow}

(* The certificates of each prefix are numbered without a gap and none     *)
(* twice, in the first year of a school, though a request counts before it *)
(* inserts, others insert in between, and what fails half way through a    *)
(* list is undone.                                                         *)
CertificatesContinuous ==
  \A prefix \in {"TC", "CERT"} : Issued(prefix) = 1..Cardinality(Issued(prefix))
=============================================================================
