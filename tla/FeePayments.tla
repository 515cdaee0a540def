---------------------------- MODULE FeePayments ----------------------------
(***************************************************************************)
(* Fee payments and their numbered receipts.  A clerk collects at the      *)
(* counter, a parent's browser verifies a payment the gateway captured,    *)
(* and the gateway's webhook reports the same payment, again and again     *)
(* until it is answered.  All three end in collectFee, which takes the     *)
(* next receipt number of the school from system_configs and then records  *)
(* payment and receipt together.                                           *)
(*                                                                         *)
(* RequestTx = FALSE: generateNextSequence and the recording are           *)
(* transactions of their own.  RequestTx = TRUE, production: the request   *)
(* is one READ COMMITTED transaction, under row level security.            *)
(***************************************************************************)
EXTENDS Naturals, FiniteSets

CONSTANTS
  Schools,
  Captured,     \* payments the gateway has captured
  NoRef,        \* a counter payment has no gateway reference
  PaidTo,       \* the school in a captured payment's notes
  Requests,     \* slots for HTTP requests in flight; each is reused
  NoRequest,    \* the slot is idle
  Fallbacks,    \* high-entropy numbers outside of the sequence
  RequestTx,
  MaxRetries,   \* attempts of generateNextSequence
  MaxFaults,    \* bound: crashes, timeouts and database errors
  MaxCollected  \* bound: numbers and payments of one school

Kinds == {"counter", "verify", "webhook"}

ReqType == [kind : Kinds, school : Schools, ref : Captured \cup {NoRef}]

Numbers == Nat \cup Fallbacks

PaymentType == [school : Schools, ref : Captured \cup {NoRef}, number : Numbers]

ASSUME ConstantsAssumption ==
  /\ NoRef \notin Captured /\ NoRequest \notin ReqType
  /\ PaidTo \in [Captured -> Schools]
  /\ IsFiniteSet(Requests)
  /\ RequestTx \in BOOLEAN
  /\ MaxRetries \in Nat \ {0} /\ MaxFaults \in Nat /\ MaxCollected \in Nat
  /\ Fallbacks \cap Nat = {}

VARIABLES
  payments,   \* committed payments, each with its receipt's number
  current,    \* the school's counter in system_configs, 0 before it exists
  acked,      \* captured payments whose webhook was answered with success
  pc, req,    \* per request: next statement, arguments
  number,     \* per request: the candidate receipt number
  attempt,    \* per request: failed attempts of generateNextSequence
  faults

db   == <<payments, current, acked>>
loc  == <<req, number, attempt>>
vars == <<db, pc, loc, faults>>

Labels == {"idle", "existing", "sequence", "baseline", "probe", "upsert",
           "record", "commit", "answer"}

Goto(r, label) == pc' = [pc EXCEPT ![r] = label]

Finish(r) ==
  /\ Goto(r, "idle")
  /\ req' = [req EXCEPT ![r] = NoRequest]
  /\ number' = [number EXCEPT ![r] = 0]
  /\ attempt' = [attempt EXCEPT ![r] = 0]

Throw(r) == Finish(r) /\ UNCHANGED <<db, faults>>

Branch(r, label) == Goto(r, label) /\ UNCHANGED <<db, loc, faults>>

(* Row level security shows a request the rows of its user's school; the   *)
(* webhook has no user, and sees nothing.                                  *)
Visible(r) ==
  IF ~RequestTx THEN payments
  ELSE {p \in payments : req[r].kind # "webhook" /\ p.school = req[r].school}

Issued(ps) == {p.number : p \in ps}

SchoolPayments(s) == {p \in payments : p.school = s}

Recorded(x) == \E p \in payments : p.ref = x

(* A request that holds the row of the school's counter locked.            *)
HoldsCounter(r, s) == RequestTx /\ pc[r] \in {"record", "commit"} /\ req[r].school = s

Row(r) == [school |-> req[r].school, ref |-> req[r].ref, number |-> number[r]]
---------------------------------------------------------------------------
(* The bound on what a school collects; a webhook is never held back.      *)
Busy(s) == {r \in Requests : pc[r] # "idle" /\ req[r].school = s}

Room(s) ==
  /\ current[s] + Cardinality(Busy(s)) < MaxCollected
  /\ Cardinality(SchoolPayments(s)) + Cardinality(Busy(s)) < MaxCollected

Start(r, kind, s, x, label) ==
  /\ pc[r] = "idle"
  /\ Goto(r, label)
  /\ req' = [req EXCEPT ![r] = [kind |-> kind, school |-> s, ref |-> x]]
  /\ UNCHANGED <<db, number, attempt, faults>>

(* POST fees/collect, with a student who exists.                           *)
StartCounter(r, s) == Room(s) /\ Start(r, "counter", s, NoRef, "sequence")

(* POST fees/razorpay/verify, with a signature the gateway confirms.       *)
StartVerify(r, x) == Room(PaidTo[x]) /\ Start(r, "verify", PaidTo[x], x, "existing")

(* POST fees/webhook/razorpay, delivered until it is answered with a 200.  *)
StartWebhook(r, x) == x \notin acked /\ Start(r, "webhook", PaidTo[x], x, "existing")

(* Mutant: the existing payment is looked up by school only.               *)
CheckExistingOfSchool(r) ==
  /\ pc[r] = "existing"
  /\ \/ /\ \E p \in Visible(r) : p.school = req[r].school
        /\ \/ req[r].kind = "webhook" /\ Branch(r, "answer")
           \/ req[r].kind = "verify" /\ Throw(r)
     \/ /\ ~\E p \in Visible(r) : p.school = req[r].school
        /\ \/ ~(RequestTx /\ req[r].kind = "webhook") /\ Branch(r, "sequence")
           \/ RequestTx /\ req[r].kind = "webhook" /\ Throw(r)

(* Mutant: the payment is recorded without a look at what is there.        *)
CheckExistingNever(r) ==
  pc[r] = "existing" /\ Branch(r, "sequence")

(* findFirst on transactionRef: a payment already there is an error to the *)
(* browser and a success to the gateway.  A webhook under row level        *)
(* security then finds no academic year and throws.                        *)
CheckExisting(r) ==
  /\ pc[r] = "existing"
  /\ \/ /\ \E p \in Visible(r) : p.ref = req[r].ref
        /\ \/ req[r].kind = "webhook" /\ Branch(r, "answer")
           \/ req[r].kind = "verify" /\ Throw(r)
     \/ /\ ~\E p \in Visible(r) : p.ref = req[r].ref
        /\ \/ ~(RequestTx /\ req[r].kind = "webhook") /\ Branch(r, "sequence")
           \/ RequestTx /\ req[r].kind = "webhook" /\ Throw(r)

---------------------------------------------------------------------------
(***************************************************************************)
(* generateNextSequence.                                                   *)
(***************************************************************************)
(* The counter if there is one, else the number of the school's receipts.  *)
ReadSequence(r) ==
  LET last == current[req[r].school] IN
  /\ pc[r] = "sequence"
  /\ \/ /\ last > 0
        /\ number' = [number EXCEPT ![r] = last + 1]
        /\ Goto(r, "probe")
        /\ UNCHANGED <<db, req, attempt, faults>>
     \/ last = 0 /\ Branch(r, "baseline")

CountReceipts(r) ==
  /\ pc[r] = "baseline"
  /\ number' = [number EXCEPT ![r] = Cardinality(SchoolPayments(req[r].school)) + 1]
  /\ Goto(r, "probe")
  /\ UNCHANGED <<db, req, attempt, faults>>

(* Mutant: the loop tries the same candidate again.                        *)
ProbeSame(r) ==
  /\ pc[r] = "probe"
  /\ Branch(r, IF number[r] \in Issued(Visible(r)) THEN "probe" ELSE "upsert")

(* Candidates that a receipt already bears are passed over, one query each.*)
Probe(r) ==
  /\ pc[r] = "probe"
  /\ \/ number[r] \notin Issued(Visible(r)) /\ Branch(r, "upsert")
     \/ /\ number[r] \in Issued(Visible(r))
        /\ number' = [number EXCEPT ![r] = @ + 1]
        /\ UNCHANGED <<db, pc, req, attempt, faults>>

(* Mutant: the counter is saved on a connection of its own, outside of the *)
(* request's transaction.                                                  *)
UpsertSequenceOutside(r) ==
  /\ pc[r] = "upsert"
  /\ current' = [current EXCEPT ![req[r].school] = number[r]]
  /\ Goto(r, "record")
  /\ UNCHANGED <<payments, acked, loc, faults>>

(* The counter is set to the candidate, whatever it is by now.  The row    *)
(* is locked until the transaction ends.                                   *)
UpsertSequence(r) ==
  /\ pc[r] = "upsert"
  /\ \A q \in Requests \ {r} : ~HoldsCounter(q, req[r].school)
  /\ \/ RequestTx /\ UNCHANGED current
     \/ ~RequestTx /\ current' = [current EXCEPT ![req[r].school] = number[r]]
  /\ Goto(r, "record")
  /\ UNCHANGED <<payments, acked, loc, faults>>

(* Mutant: one attempt too many.                                           *)
SequenceFailsLate(r) ==
  /\ pc[r] \in {"sequence", "baseline", "probe", "upsert"} /\ faults < MaxFaults
  /\ ~RequestTx /\ attempt[r] + 1 <= MaxRetries
  /\ faults' = faults + 1
  /\ Goto(r, "sequence")
  /\ attempt' = [attempt EXCEPT ![r] = @ + 1]
  /\ number' = [number EXCEPT ![r] = 0]
  /\ UNCHANGED <<db, req>>

(* An error is retried; after the last attempt a random number is used.    *)
(* In the request's transaction every later statement fails as well.       *)
SequenceFails(r) ==
  /\ pc[r] \in {"sequence", "baseline", "probe", "upsert"} /\ faults < MaxFaults
  /\ faults' = faults + 1
  /\ \/ /\ ~RequestTx /\ attempt[r] + 1 < MaxRetries
        /\ Goto(r, "sequence")
        /\ attempt' = [attempt EXCEPT ![r] = @ + 1]
        /\ number' = [number EXCEPT ![r] = 0]
        /\ UNCHANGED <<db, req>>
     \/ /\ ~RequestTx /\ attempt[r] + 1 = MaxRetries
        /\ Goto(r, "record")
        /\ \E f \in Fallbacks : number' = [number EXCEPT ![r] = f]
        /\ UNCHANGED <<db, req, attempt>>
     \/ RequestTx /\ Finish(r) /\ UNCHANGED db

---------------------------------------------------------------------------
(***************************************************************************)
(* The transaction of collectFee.                                          *)
(***************************************************************************)
(* Mutant: payment and receipt are not in one transaction, and the payment *)
(* stays when its receipt is refused.                                      *)
RecordPaymentFirst(r) ==
  /\ pc[r] = "record"
  /\ payments' = payments \cup {Row(r)}
  /\ Goto(r, "answer")
  /\ UNCHANGED <<current, acked, loc, faults>>

(* Both rows are inserted, or none: receiptNumber is unique over all       *)
(* schools.  A webhook takes any P2002 for a duplicate of its payment.     *)
RecordPayment(r) ==
  /\ pc[r] = "record"
  /\ \A q \in Requests \ {r} : pc[q] = "commit" => number[q] # number[r]
  /\ \/ number[r] \in Issued(payments) /\ req[r].kind = "webhook" /\ Branch(r, "answer")
     \/ number[r] \in Issued(payments) /\ req[r].kind # "webhook" /\ Throw(r)
     \/ number[r] \notin Issued(payments) /\ RequestTx /\ Branch(r, "commit")
     \/ /\ number[r] \notin Issued(payments) /\ ~RequestTx
        /\ payments' = payments \cup {Row(r)}
        /\ Goto(r, "answer")
        /\ UNCHANGED <<current, acked, loc, faults>>

(* The request's transaction commits, counter and payment together.        *)
Commit(r) ==
  /\ pc[r] = "commit"
  /\ payments' = payments \cup {Row(r)}
  /\ current' = [current EXCEPT ![req[r].school] = number[r]]
  /\ Finish(r)
  /\ UNCHANGED <<acked, faults>>

Answer(r) ==
  /\ pc[r] = "answer"
  /\ acked' = IF req[r].kind = "webhook" THEN acked \cup {req[r].ref} ELSE acked
  /\ Finish(r)
  /\ UNCHANGED <<payments, current, faults>>

(* A crash, a timeout, a lost connection.                                  *)
Abort(r) ==
  /\ pc[r] # "idle" /\ faults < MaxFaults
  /\ faults' = faults + 1
  /\ Finish(r)
  /\ UNCHANGED db
---------------------------------------------------------------------------
Init ==
  /\ payments = {} /\ current = [s \in Schools |-> 0] /\ acked = {}
  /\ pc = [r \in Requests |-> "idle"]
  /\ req = [r \in Requests |-> NoRequest]
  /\ number = [r \in Requests |-> 0]
  /\ attempt = [r \in Requests |-> 0]
  /\ faults = 0

Arrival(r) ==
  \/ \E s \in Schools : StartCounter(r, s)
  \/ \E x \in Captured : StartVerify(r, x) \/ StartWebhook(r, x)

Step(r) ==
  \/ CheckExisting(r) \/ ReadSequence(r) \/ CountReceipts(r) \/ Probe(r)
  \/ UpsertSequence(r) \/ RecordPayment(r) \/ Commit(r) \/ Answer(r)

Rest == (\A r \in Requests : pc[r] = "idle") /\ UNCHANGED vars

Next ==
  \/ \E r \in Requests : Arrival(r) \/ Step(r) \/ SequenceFails(r) \/ Abort(r)
  \/ Rest

Spec == Init /\ [][Next]_vars

(* Every request runs on.  The database serves those that wait for a row,  *)
(* or for another insertion of their number, in the order of their arrival.*)
FairSpec ==
  Spec /\ \A r \in Requests :
            /\ WF_vars(Step(r))
            /\ SF_vars(UpsertSequence(r)) /\ SF_vars(RecordPayment(r))

(* The gateway delivers an event again until it is answered with success.  *)
RedeliveredSpec ==
  FairSpec /\ \A x \in Captured : SF_vars(\E r \in Requests : StartWebhook(r, x))

(* A clerk whose collection failed tries again.                            *)
PersistentSpec ==
  FairSpec /\ \A s \in Schools : SF_vars(\E r \in Requests : StartCounter(r, s))
---------------------------------------------------------------------------
(***************************************************************************)
(* Properties.                                                             *)
(***************************************************************************)
(* Every variable holds a value of its kind.                               *)
TypeOK ==
  /\ payments \in SUBSET PaymentType
  /\ current \in [Schools -> Nat]
  /\ acked \in SUBSET Captured
  /\ pc \in [Requests -> Labels]
  /\ req \in [Requests -> ReqType \cup {NoRequest}]
  /\ \A r \in Requests : pc[r] # "idle" => req[r] \in ReqType
  /\ number \in [Requests -> Numbers]
  /\ \A r \in Requests : pc[r] \in {"probe", "upsert"} => number[r] \in Nat
  /\ attempt \in [Requests -> 0..(MaxRetries - 1)]
  /\ faults \in 0..MaxFaults

(* No two payments, of any schools, share a receipt number, and none is    *)
(* kept whose receipt was refused.                                         *)
ReceiptsDistinct ==
  \A p, q \in payments : p.number = q.number => p = q

(* A payment captured by the gateway is recorded at most once, by the      *)
(* browser's verification or by any of the webhook's deliveries.           *)
RecordedOnce ==
  \A p, q \in payments : p.ref # NoRef /\ p.ref = q.ref => p = q

(* Past the look-up of the payment, which is recorded now or by nobody     *)
(* who is under way with it.                                               *)
Recording == {"sequence", "baseline", "probe", "upsert", "record", "commit"}

Settled(x) ==
  Recorded(x) /\ \A r \in Requests : pc[r] \in Recording => req[r].ref # x

Copies(x) == {p \in payments : p.ref = x}

(* Once a payment is recorded and nobody who looked before that is still   *)
(* under way, it is never recorded again: no later verification and no     *)
(* later delivery gets past the look-up, whatever row level security hides *)
(* from it, and no payment is lost.                                        *)
NeverRecordedAgain ==
  [][\A x \in Captured : Settled(x) => Settled(x)' /\ Copies(x)' = Copies(x)]_vars

(* The gateway is told that a payment was processed only when it was: it   *)
(* will not report the payment again.                                      *)
AcknowledgedIsRecorded == \A x \in acked : Recorded(x)

(* In one transaction per request the receipts of a school are numbered    *)
(* from 1 without a gap, and its counter is the last number, although the  *)
(* counter is overwritten with a value computed before it was locked.      *)
Gapless == \A s \in Schools : Issued(SchoolPayments(s)) = 1..current[s]

(* Every request ends: the search for a free number, and the waits for the *)
(* counter's row and for another insertion of the same number, all end.    *)
CollectionEnds == \A r \in Requests : pc[r] # "idle" ~> pc[r] = "idle"

(* A school whose clerks keep trying collects its first payment.           *)
SchoolCollects == \A s \in Schools : <>(SchoolPayments(s) # {})

(* A captured payment is recorded in the end: the webhook makes up for a   *)
(* browser that never came back and for deliveries that failed.            *)
CapturedIsRecorded == \A x \in Captured : <>Recorded(x)
=============================================================================
