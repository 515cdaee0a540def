------------------------- MODULE FeePaymentsProofs -------------------------
(***************************************************************************)
(* Theorems about fee payments and their receipt numbers, for every number *)
(* of schools, gateway payments and concurrent requests.                   *)
(***************************************************************************)
EXTENDS FeePayments, FunctionTheorems, FiniteSetTheorems, TLAPS

(* The kinds of values, with what keeps them: a fallback number occurs     *)
(* only outside of a request transaction, and a webhook has a payment.     *)
TypeInv ==
  /\ TypeOK
  /\ IsFiniteSet(payments)
  /\ \A r \in Requests : pc[r] = "commit" => RequestTx
  /\ \A r \in Requests : RequestTx /\ pc[r] \in {"record", "commit"} => number[r] \in Nat
  /\ \A r \in Requests : pc[r] # "idle" /\ req[r].kind = "webhook" => req[r].ref \in Captured

LEMMA TypeInit == Init => TypeInv
BY ConstantsAssumption, FS_EmptySet
   DEF Init, TypeInv, TypeOK, PaymentType, Labels, Numbers

LEMMA TypeFinish ==
  ASSUME TypeInv, NEW r \in Requests, Finish(r),
         UNCHANGED <<payments, current>>, acked' \in SUBSET Captured, faults' \in 0..MaxFaults
  PROVE  TypeInv'
BY ConstantsAssumption DEF TypeInv, TypeOK, Finish, Goto, Labels, Numbers

(* A step that only moves the program counter, but not to "commit".        *)
LEMMA TypeGoto ==
  ASSUME TypeInv, NEW r \in Requests, NEW l \in Labels \ {"commit", "probe"}, Goto(r, l),
         UNCHANGED <<payments, acked, loc, faults>>, current' \in [Schools -> Nat],
         pc[r] # "idle", l = "upsert" => number[r] \in Nat,
         l = "record" => number[r] \in Nat
  PROVE  TypeInv'
BY DEF TypeInv, TypeOK, Goto, loc

LEMMA TypeArrival ==
  ASSUME TypeInv, NEW r \in Requests, Arrival(r)
  PROVE  TypeInv'
<1>1. PICK k \in Kinds, s \in Schools, x \in Captured \cup {NoRef}, l \in {"sequence", "existing"} :
        Start(r, k, s, x, l) /\ (k = "webhook" => x \in Captured)
  <2>1. CASE \E s \in Schools : StartCounter(r, s)
    BY <2>1 DEF StartCounter, Kinds
  <2>2. CASE \E x \in Captured : StartVerify(r, x) \/ StartWebhook(r, x)
    BY <2>2, ConstantsAssumption DEF StartVerify, StartWebhook, Kinds
  <2> QED BY <2>1, <2>2 DEF Arrival
<1>2. [kind |-> k, school |-> s, ref |-> x] \in ReqType
  BY <1>1 DEF ReqType
<1> QED BY <1>1, <1>2 DEF TypeInv, TypeOK, Start, Goto, db, Labels

LEMMA TypeReads ==
  ASSUME TypeInv, NEW r \in Requests,
         CheckExisting(r) \/ UpsertSequence(r)
  PROVE  TypeInv'
<1>1. CASE CheckExisting(r)
  <2>1. ASSUME Throw(r) PROVE TypeInv'
    BY <2>1, TypeFinish DEF Throw, db, TypeInv, TypeOK
  <2>2. ASSUME NEW l \in {"answer", "sequence"}, Branch(r, l), pc[r] = "existing"
        PROVE  TypeInv'
    BY <2>2, TypeGoto DEF Branch, db, TypeInv, TypeOK, Labels
  <2> QED BY <1>1, <2>1, <2>2 DEF CheckExisting
<1>2. CASE UpsertSequence(r)
  <2>1. number[r] \in Nat /\ req[r] \in ReqType /\ current \in [Schools -> Nat]
    BY <1>2 DEF UpsertSequence, TypeInv, TypeOK
  <2>2. current' \in [Schools -> Nat]
    BY <1>2, <2>1 DEF UpsertSequence, ReqType
  <2> QED BY <1>2, <2>1, <2>2, TypeGoto DEF UpsertSequence, Labels
<1> QED BY <1>1, <1>2

LEMMA TypeSequence ==
  ASSUME TypeInv, NEW r \in Requests,
         ReadSequence(r) \/ CountReceipts(r) \/ Probe(r) \/ SequenceFails(r)
  PROVE  TypeInv'
<1>1. req[r] \in ReqType /\ pc[r] # "idle"
  BY DEF TypeInv, TypeOK, ReadSequence, CountReceipts, Probe, SequenceFails
<1>2. CASE ReadSequence(r) \/ CountReceipts(r)
  <2>1. CASE Branch(r, "baseline")
    BY <1>1, <2>1, TypeGoto DEF Branch, db, TypeInv, TypeOK, Labels
  <2>2. ASSUME NEW n \in Nat, number' = [number EXCEPT ![r] = n + 1], Goto(r, "probe"),
               UNCHANGED <<db, req, attempt, faults>>
        PROVE  TypeInv'
    BY <1>1, <2>2 DEF Goto, db, TypeInv, TypeOK, Labels, Numbers
  <2>3. Cardinality(SchoolPayments(req[r].school)) \in Nat
    BY FS_Subset, FS_CardinalityType DEF TypeInv, SchoolPayments
  <2>4. current[req[r].school] \in Nat
    BY <1>1 DEF ReqType, TypeInv, TypeOK
  <2> QED BY <1>2, <2>1, <2>2, <2>3, <2>4 DEF ReadSequence, CountReceipts
<1>3. CASE Probe(r)
  <2>1. number[r] \in Nat
    BY <1>3 DEF Probe, TypeInv, TypeOK
  <2>2. CASE Branch(r, "upsert")
    BY <1>1, <2>1, <2>2, TypeGoto DEF Branch, db, TypeInv, TypeOK, Labels
  <2>3. CASE number' = [number EXCEPT ![r] = @ + 1] /\ UNCHANGED <<db, pc, req, attempt, faults>>
    BY <1>3, <2>1, <2>3 DEF Probe, db, TypeInv, TypeOK, Numbers
  <2> QED BY <1>3, <2>2, <2>3 DEF Probe
<1>4. CASE SequenceFails(r)
  <2>1. faults' \in 0..MaxFaults /\ attempt[r] \in Nat
    BY <1>4, ConstantsAssumption DEF SequenceFails, TypeInv, TypeOK
  <2>2. CASE Finish(r) /\ UNCHANGED db
    BY <2>1, <2>2, TypeFinish DEF db, TypeInv, TypeOK
  <2>3. CASE /\ ~RequestTx /\ attempt[r] + 1 < MaxRetries
             /\ Goto(r, "sequence")
             /\ attempt' = [attempt EXCEPT ![r] = @ + 1]
             /\ number' = [number EXCEPT ![r] = 0]
             /\ UNCHANGED <<db, req>>
    BY <1>1, <2>1, <2>3, ConstantsAssumption DEF Goto, db, TypeInv, TypeOK, Labels, Numbers
  <2>4. CASE /\ ~RequestTx
             /\ Goto(r, "record")
             /\ \E f \in Fallbacks : number' = [number EXCEPT ![r] = f]
             /\ UNCHANGED <<db, req, attempt>>
    BY <1>1, <2>1, <2>4, ConstantsAssumption DEF Goto, db, TypeInv, TypeOK, Labels, Numbers
  <2> QED BY <1>4, <2>2, <2>3, <2>4 DEF SequenceFails
<1> QED BY <1>2, <1>3, <1>4

LEMMA TypeRecord ==
  ASSUME TypeInv, NEW r \in Requests, RecordPayment(r) \/ Commit(r)
  PROVE  TypeInv'
<1>1. req[r] \in ReqType /\ pc[r] # "idle" /\ Row(r) \in PaymentType
  BY DEF TypeInv, TypeOK, RecordPayment, Commit, Row, ReqType, PaymentType
<1>2. payments \cup {Row(r)} \in SUBSET PaymentType /\ IsFiniteSet(payments \cup {Row(r)})
  BY <1>1, FS_AddElement DEF TypeInv, TypeOK
<1>3. CASE RecordPayment(r)
  <2>1. CASE Branch(r, "answer")
    BY <1>1, <2>1, TypeGoto DEF Branch, db, TypeInv, TypeOK, Labels
  <2>2. CASE Throw(r)
    BY <2>2, TypeFinish DEF Throw, db, TypeInv, TypeOK
  <2>3. CASE RequestTx /\ Branch(r, "commit")
    BY <1>1, <1>3, <2>3 DEF RecordPayment, Branch, Goto, db, loc, TypeInv, TypeOK, Labels
  <2>4. CASE /\ payments' = payments \cup {Row(r)} /\ Goto(r, "answer")
             /\ UNCHANGED <<current, acked, loc, faults>>
    BY <1>1, <1>2, <2>4 DEF Goto, loc, TypeInv, TypeOK, Labels
  <2> QED BY <1>3, <2>1, <2>2, <2>3, <2>4 DEF RecordPayment
<1>4. CASE Commit(r)
  <2>1. number[r] \in Nat
    BY <1>4 DEF Commit, TypeInv
  <2>2. current' \in [Schools -> Nat]
    BY <1>1, <1>4, <2>1 DEF Commit, ReqType, TypeInv, TypeOK
  <2> QED BY <1>2, <1>4, <2>2, ConstantsAssumption
          DEF Commit, Finish, Goto, TypeInv, TypeOK, Labels, Numbers
<1> QED BY <1>3, <1>4

LEMMA TypeNext == TypeInv /\ [Next]_vars => TypeInv'
<1> SUFFICES ASSUME TypeInv, [Next]_vars PROVE TypeInv'
  OBVIOUS
<1>1. ASSUME NEW r \in Requests, Answer(r) PROVE TypeInv'
  <2>1. acked' \in SUBSET Captured
    BY <1>1 DEF Answer, TypeInv, TypeOK
  <2> QED BY <1>1, <2>1, TypeFinish DEF Answer, TypeInv, TypeOK
<1>2. ASSUME NEW r \in Requests, Abort(r) PROVE TypeInv'
  <2>1. faults' \in 0..MaxFaults
    BY <1>2, ConstantsAssumption DEF Abort, TypeInv, TypeOK
  <2> QED BY <1>2, <2>1, TypeFinish DEF Abort, db, TypeInv, TypeOK
<1>3. CASE UNCHANGED vars
  BY <1>3 DEF vars, db, loc, TypeInv, TypeOK
<1> QED BY <1>1, <1>2, <1>3, TypeArrival, TypeReads, TypeSequence, TypeRecord
        DEF Next, Step, Rest

(* In every reachable state each variable holds a value of its kind: in    *)
(* particular the retries stay under their limit, and the counter of a     *)
(* school never takes a fallback number.                                   *)
THEOREM TypeCorrect == Spec => []TypeOK
<1>1. TypeInv => TypeOK
  BY DEF TypeInv
<1> QED BY <1>1, TypeInit, TypeNext, PTL DEF Spec
---------------------------------------------------------------------------
(* What keeps the receipt numbers apart: a number that is about to be      *)
(* committed is on no receipt yet, and nobody else is about to commit it.  *)
Reserved ==
  /\ \A r \in Requests : pc[r] = "commit" => number[r] \notin Issued(payments)
  /\ \A r, q \in Requests :
       r # q /\ pc[r] = "commit" /\ pc[q] = "commit" => number[r] # number[q]

NumberInv == TypeInv /\ ReceiptsDistinct /\ Reserved

LEMMA IssuedAdd ==
  ASSUME NEW ps, NEW p
  PROVE  Issued(ps \cup {p}) = Issued(ps) \cup {p.number}
<1>1. ASSUME NEW n, n \in Issued(ps \cup {p}) PROVE n \in Issued(ps) \cup {p.number}
  BY <1>1 DEF Issued
<1>2. ASSUME NEW n, n \in Issued(ps) \cup {p.number} PROVE n \in Issued(ps \cup {p})
  BY <1>2 DEF Issued
<1> QED BY <1>1, <1>2

(* A payment is added under a number that no receipt has.                  *)
LEMMA AddPayment ==
  ASSUME ReceiptsDistinct, NEW r \in Requests, number[r] \notin Issued(payments),
         payments' = payments \cup {Row(r)}
  PROVE  /\ ReceiptsDistinct'
         /\ Issued(payments') = Issued(payments) \cup {number[r]}
<1>1. Row(r).number = number[r]
  BY DEF Row
<1>2. \A p \in payments : p.number # Row(r).number
  BY <1>1 DEF Issued
<1>3. ReceiptsDistinct'
  BY <1>2 DEF ReceiptsDistinct
<1> QED BY <1>1, <1>3, IssuedAdd

(* Steps that record nothing, and lead no request to its commit.           *)
LEMMA NumberKept ==
  ASSUME NumberInv, TypeInv', NEW r \in Requests, UNCHANGED payments, pc'[r] # "commit",
         \A q \in Requests \ {r} : pc'[q] = pc[q] /\ number'[q] = number[q]
  PROVE  NumberInv'
BY DEF NumberInv, ReceiptsDistinct, Reserved

LEMMA NumberRecord ==
  ASSUME NumberInv, TypeInv', NEW r \in Requests, RecordPayment(r)
  PROVE  NumberInv'
<1> USE DEF NumberInv, TypeInv, TypeOK
<1>1. ASSUME Throw(r) \/ Branch(r, "answer") PROVE NumberInv'
  BY <1>1, NumberKept DEF Throw, Finish, Branch, Goto, db, loc
<1>2. ASSUME number[r] \notin Issued(payments), Branch(r, "commit") PROVE NumberInv'
  BY <1>2 DEF RecordPayment, Branch, Goto, db, loc, ReceiptsDistinct, Reserved
<1>3. ASSUME number[r] \notin Issued(payments), payments' = payments \cup {Row(r)}, ~RequestTx,
             Goto(r, "answer"), UNCHANGED <<current, acked, loc, faults>>
      PROVE  NumberInv'
  BY <1>3, AddPayment DEF Goto, Reserved
<1> QED BY <1>1, <1>2, <1>3 DEF RecordPayment

LEMMA NumberCommit ==
  ASSUME NumberInv, TypeInv', NEW r \in Requests, Commit(r)
  PROVE  NumberInv'
<1>1. ReceiptsDistinct' /\ Issued(payments') = Issued(payments) \cup {number[r]}
  BY AddPayment DEF Commit, NumberInv, Reserved
<1>2. \A q \in Requests : pc'[q] = "commit" =>
        q # r /\ pc[q] = "commit" /\ number'[q] = number[q]
  BY DEF NumberInv, TypeInv, TypeOK, Commit, Finish, Goto
<1>3. Reserved'
  BY <1>1, <1>2 DEF NumberInv, Reserved, Commit
<1> QED BY <1>1, <1>3 DEF NumberInv

LEMMA NumberNext == NumberInv /\ [Next]_vars => NumberInv'
<1> SUFFICES ASSUME NumberInv, [Next]_vars PROVE NumberInv'
  OBVIOUS
<1> USE DEF NumberInv, TypeInv, TypeOK
<1>1. TypeInv'
  BY TypeNext
<1>2. ASSUME NEW r \in Requests, CheckExisting(r) \/ UpsertSequence(r) PROVE NumberInv'
  BY <1>1, <1>2, NumberKept
     DEF CheckExisting, UpsertSequence, Throw, Finish, Branch, Goto, db, loc
<1>3. ASSUME NEW r \in Requests,
             ReadSequence(r) \/ CountReceipts(r) \/ Probe(r) \/ SequenceFails(r)
      PROVE NumberInv'
  BY <1>1, <1>3, NumberKept
     DEF ReadSequence, CountReceipts, Probe, SequenceFails, Finish, Branch, Goto, db, loc
<1>4. ASSUME NEW r \in Requests, Answer(r) \/ Abort(r) PROVE NumberInv'
  BY <1>1, <1>4, NumberKept DEF Answer, Abort, Finish, Goto, db
<1>5. ASSUME NEW r \in Requests, Arrival(r) PROVE NumberInv'
  BY <1>1, <1>5, NumberKept
     DEF Arrival, StartCounter, StartVerify, StartWebhook, Start, Goto, db
<1>6. CASE UNCHANGED vars
  BY <1>1, <1>6 DEF vars, db, loc, ReceiptsDistinct, Reserved
<1> QED BY <1>1, <1>2, <1>3, <1>4, <1>5, <1>6, NumberRecord, NumberCommit DEF Next, Step, Rest

(* No two payments ever share a receipt number, over all schools, in       *)
(* either transaction mode and whatever happens to the counter.            *)
THEOREM ReceiptsDistinctHolds == Spec => []ReceiptsDistinct
<1>1. Init => NumberInv
  BY TypeInit DEF Init, NumberInv, ReceiptsDistinct, Reserved
<1>2. NumberInv => ReceiptsDistinct
  BY DEF NumberInv
<1> QED BY <1>1, <1>2, NumberNext, PTL DEF Spec
---------------------------------------------------------------------------
(* With one transaction per request: what a request knows of the numbers   *)
(* below its candidate, from the moment it has one.                        *)
Below(r) == 1..(number[r] - 1)

Stacked ==
  \A r \in Requests : pc[r] \in {"probe", "upsert", "record", "commit"} =>
    /\ number[r] \in Nat /\ number[r] >= 1
    /\ Below(r) \subseteq Issued(SchoolPayments(req[r].school))

GaplessInv == NumberInv /\ Gapless /\ Stacked

(* Steps that record nothing: only the candidate of r is to be looked at.  *)
LEMMA GaplessKept ==
  ASSUME GaplessInv, NumberInv', NEW r \in Requests, UNCHANGED <<payments, current>>,
         \A q \in Requests \ {r} : pc'[q] = pc[q] /\ number'[q] = number[q] /\ req'[q] = req[q],
         pc'[r] \in {"probe", "upsert", "record", "commit"} =>
           /\ pc[r] \in {"probe", "upsert", "record", "commit"}
           /\ number'[r] = number[r] /\ req'[r] = req[r]
  PROVE  GaplessInv'
BY DEF GaplessInv, Gapless, Stacked, Below, SchoolPayments, Issued

(* As the numbers of a school are distinct and gapless, its counter is the *)
(* number of its receipts.                                                 *)
LEMMA CounterIsCount ==
  ASSUME GaplessInv, NEW s \in Schools
  PROVE  Cardinality(SchoolPayments(s)) = current[s]
<1> DEFINE f == [p \in SchoolPayments(s) |-> p.number]
<1>1. current[s] \in Nat /\ IsFiniteSet(SchoolPayments(s))
  BY FS_Subset DEF GaplessInv, NumberInv, TypeInv, TypeOK, SchoolPayments
<1>2. Issued(SchoolPayments(s)) = 1..current[s]
  BY DEF GaplessInv, Gapless
<1>3. f \in Bijection(SchoolPayments(s), 1..current[s])
  <2>1. f \in [SchoolPayments(s) -> 1..current[s]]
    BY <1>2 DEF Issued
  <2>2. \A n \in 1..current[s] : \E p \in SchoolPayments(s) : f[p] = n
    BY <1>2 DEF Issued
  <2>3. \A p, q \in SchoolPayments(s) : f[p] = f[q] => p = q
    BY DEF GaplessInv, NumberInv, ReceiptsDistinct, SchoolPayments
  <2> HIDE DEF f
  <2> QED BY <2>1, <2>2, <2>3 DEF Bijection, Injection, Surjection, IsInjective
<1>4. Cardinality(SchoolPayments(s)) = Cardinality(1..current[s])
  BY <1>1, <1>3, FS_Bijection DEF ExistsBijection
<1> QED BY <1>1, <1>4, FS_Interval

(* The first candidate follows the last number of the school.              *)
LEMMA GaplessRead ==
  ASSUME RequestTx, GaplessInv, NumberInv', NEW r \in Requests,
         ReadSequence(r) \/ CountReceipts(r)
  PROVE  GaplessInv'
<1>1. PICK s \in Schools : s = req[r].school /\ current[s] \in Nat
  BY DEF ReadSequence, CountReceipts, GaplessInv, NumberInv, TypeInv, TypeOK, ReqType
<1>2. CASE Branch(r, "baseline")
  BY <1>2, GaplessKept DEF Branch, Goto, db, loc, GaplessInv, NumberInv, TypeInv, TypeOK
<1>3. CASE /\ number' = [number EXCEPT ![r] = current[s] + 1]
           /\ Goto(r, "probe")
           /\ UNCHANGED <<db, req, attempt, faults>>
  <2>1. Issued(SchoolPayments(s)) = 1..current[s]
    BY DEF GaplessInv, Gapless
  <2>2. number'[r] = current[s] + 1
    BY <1>3 DEF GaplessInv, NumberInv, TypeInv, TypeOK
  <2>3. Gapless' /\ \A t : SchoolPayments(t)' = SchoolPayments(t)
    BY <1>3 DEF db, GaplessInv, Gapless, SchoolPayments, Issued
  <2>4. \A q \in Requests \ {r} : pc'[q] = pc[q] /\ number'[q] = number[q]
    BY <1>3 DEF Goto, GaplessInv, NumberInv, TypeInv, TypeOK
  <2>5. /\ number'[r] \in Nat /\ number'[r] >= 1
        /\ Below(r)' \subseteq Issued(SchoolPayments(s))
    BY <1>1, <2>1, <2>2 DEF Below
  <2>6. Stacked'
    BY <1>1, <1>3, <2>3, <2>4, <2>5 DEF GaplessInv, Stacked, Below, Issued
  <2> QED BY <2>3, <2>6 DEF GaplessInv
<1> QED BY <1>1, <1>2, <1>3, CounterIsCount DEF ReadSequence, CountReceipts

(* A candidate that is passed over is the number of one of its receipts.   *)
LEMMA GaplessProbe ==
  ASSUME RequestTx, GaplessInv, NumberInv', NEW r \in Requests, Probe(r)
  PROVE  GaplessInv'
<1>1. CASE Branch(r, "upsert")
  BY <1>1, GaplessKept
     DEF Probe, Branch, Goto, db, loc, GaplessInv, NumberInv, TypeInv, TypeOK
<1>2. CASE /\ number[r] \in Issued(Visible(r))
           /\ number' = [number EXCEPT ![r] = @ + 1]
           /\ UNCHANGED <<db, pc, req, attempt, faults>>
  <2>1. number[r] \in Nat /\ number'[r] = number[r] + 1
    BY <1>2 DEF Probe, GaplessInv, NumberInv, TypeInv, TypeOK
  <2>2. number[r] \in Issued(SchoolPayments(req[r].school))
    BY <1>2 DEF Visible, Issued, SchoolPayments
  <2>3. Below(r)' = Below(r) \cup {number[r]}
    BY <2>1 DEF Below, Probe, GaplessInv, Stacked
  <2>4. \A q \in Requests \ {r} : number'[q] = number[q]
    BY <1>2 DEF GaplessInv, NumberInv, TypeInv, TypeOK
  <2> QED BY <1>2, <2>1, <2>2, <2>3, <2>4
          DEF Probe, db, GaplessInv, Gapless, Stacked, Below, SchoolPayments, Issued
<1> QED BY <1>1, <1>2 DEF Probe

(* The committed number is the one after the last, whatever other commits  *)
(* came between the reading of the counter and its writing.                *)
LEMMA GaplessCommit ==
  ASSUME RequestTx, GaplessInv, NumberInv', NEW r \in Requests, Commit(r)
  PROVE  GaplessInv'
<1>0. PICK s \in Schools, n \in Nat : s = req[r].school /\ n = number[r]
  BY DEF Commit, GaplessInv, NumberInv, TypeInv, TypeOK, ReqType
<1>1. current[s] \in Nat /\ n >= 1
  BY <1>0 DEF Commit, GaplessInv, Stacked, NumberInv, TypeInv, TypeOK
<1>2. Issued(SchoolPayments(s)) = 1..current[s]
  BY <1>1 DEF GaplessInv, Gapless
<1>3. n \notin 1..current[s]
  BY <1>0, <1>2 DEF Commit, GaplessInv, NumberInv, Reserved, Issued, SchoolPayments
<1>4. 1..(n - 1) \subseteq 1..current[s]
  BY <1>0, <1>2 DEF Commit, GaplessInv, Stacked, Below
<1>5. n = current[s] + 1
  <2>1. n > current[s]
    BY <1>1, <1>3
  <2>2. n - 1 <= current[s]
    BY <1>1, <1>4
  <2> QED BY <1>1, <2>1, <2>2
<1>6. Issued(SchoolPayments(s))' = Issued(SchoolPayments(s)) \cup {n}
  <2>1. SchoolPayments(s)' = SchoolPayments(s) \cup {Row(r)} /\ Row(r).number = n
    BY <1>0 DEF Commit, SchoolPayments, Row
  <2> QED BY <2>1, IssuedAdd DEF Issued
<1>7. \A t \in Schools \ {s} : SchoolPayments(t)' = SchoolPayments(t)
  BY <1>0 DEF Commit, SchoolPayments, Row
<1>8. current'[s] = n /\ \A t \in Schools \ {s} : current'[t] = current[t]
  BY <1>0 DEF Commit, GaplessInv, NumberInv, TypeInv, TypeOK
<1>9. 1..n = 1..current[s] \cup {n}
  BY <1>1, <1>5
<1>10. Gapless'
  <2>1. Issued(SchoolPayments(s))' = 1..current'[s]
    BY <1>2, <1>6, <1>8, <1>9
  <2>2. ASSUME NEW t \in Schools \ {s}
        PROVE  Issued(SchoolPayments(t))' = 1..current'[t]
    BY <1>7, <1>8, <2>2 DEF GaplessInv, Gapless, Issued
  <2> QED BY <2>1, <2>2 DEF Gapless
<1>11. Stacked'
  <2>1. \A q \in Requests \ {r} :
          pc'[q] = pc[q] /\ number'[q] = number[q] /\ req'[q] = req[q]
    BY DEF Commit, Finish, Goto, GaplessInv, NumberInv, TypeInv, TypeOK
  <2>2. pc'[r] = "idle"
    BY DEF Commit, Finish, Goto, GaplessInv, NumberInv, TypeInv, TypeOK
  <2>3. \A t : Issued(SchoolPayments(t)) \subseteq Issued(SchoolPayments(t))'
    BY DEF Commit, Issued, SchoolPayments
  <2> QED BY <2>1, <2>2, <2>3 DEF GaplessInv, Stacked, Below
<1> QED BY <1>10, <1>11 DEF GaplessInv

LEMMA GaplessNext == RequestTx /\ GaplessInv /\ [Next]_vars => GaplessInv'
<1> SUFFICES ASSUME RequestTx, GaplessInv, [Next]_vars PROVE GaplessInv'
  OBVIOUS
<1> USE DEF GaplessInv, NumberInv, TypeInv, TypeOK
<1>1. NumberInv'
  BY NumberNext
<1>2. ASSUME NEW r \in Requests, CheckExisting(r) \/ UpsertSequence(r) \/ RecordPayment(r)
      PROVE  GaplessInv'
  BY <1>1, <1>2, GaplessKept
     DEF CheckExisting, UpsertSequence, RecordPayment, Throw, Finish, Branch, Goto, db, loc
<1>3. ASSUME NEW r \in Requests, SequenceFails(r) \/ Answer(r) \/ Abort(r) PROVE GaplessInv'
  BY <1>1, <1>3, GaplessKept DEF SequenceFails, Answer, Abort, Finish, Goto, db
<1>4. ASSUME NEW r \in Requests, Arrival(r) PROVE GaplessInv'
  BY <1>1, <1>4, GaplessKept
     DEF Arrival, StartCounter, StartVerify, StartWebhook, Start, Goto, db
<1>5. CASE UNCHANGED vars
  BY <1>1, <1>5 DEF vars, db, loc, Gapless, Stacked, Below, SchoolPayments, Issued
<1> QED BY <1>1, <1>2, <1>3, <1>4, <1>5, GaplessRead, GaplessProbe, GaplessCommit
        DEF Next, Step, Rest

(* With one transaction per request, the receipts of each school are       *)
(* numbered 1, 2, 3, ... and its counter is the last of them.              *)
THEOREM GaplessHolds == ASSUME RequestTx PROVE Spec => []Gapless
<1>1. Init => GaplessInv
  BY TypeInit
     DEF Init, GaplessInv, NumberInv, ReceiptsDistinct, Reserved, Gapless, Stacked, Issued,
         SchoolPayments
<1>2. GaplessInv /\ [Next]_vars => GaplessInv'
  BY GaplessNext
<1>3. GaplessInv => Gapless
  BY DEF GaplessInv
<1> QED BY <1>1, <1>2, <1>3, PTL DEF Spec

(* The payments of one school only.                                        *)
OneSchoolOnly == \A p, q \in payments : p.school = q.school

(* The price of gapless numbers that are unique over all schools while a   *)
(* school sees its own receipts only: every school has to begin with       *)
(* number 1, so that one school at most ever records a payment.            *)
THEOREM OneSchoolOnlyHolds == ASSUME RequestTx PROVE Spec => []OneSchoolOnly
<1>1. ASSUME Gapless, ReceiptsDistinct, TypeOK PROVE OneSchoolOnly
  <2>1. SUFFICES ASSUME NEW p \in payments, NEW q \in payments PROVE p.school = q.school
    BY DEF OneSchoolOnly
  <2>2. ASSUME NEW a \in payments
        PROVE  \E b \in payments : b.number = 1 /\ b.school = a.school
    <3>1. a.school \in Schools /\ a \in SchoolPayments(a.school)
      BY <1>1 DEF TypeOK, PaymentType, SchoolPayments
    <3>2. a.number \in 1..current[a.school] /\ current[a.school] \in Nat
      BY <1>1, <3>1 DEF Gapless, Issued, TypeOK
    <3>3. 1 \in Issued(SchoolPayments(a.school))
      BY <1>1, <3>1, <3>2 DEF Gapless
    <3> QED BY <3>3 DEF Issued, SchoolPayments
  <2> QED BY <1>1, <2>2 DEF ReceiptsDistinct
<1> QED BY <1>1, GaplessHolds, ReceiptsDistinctHolds, TypeCorrect, PTL
---------------------------------------------------------------------------
(* The school in the notes of a captured payment is the one that collects. *)
PaidToSchool ==
  /\ \A p \in payments : p.ref # NoRef => p.school = PaidTo[p.ref]
  /\ \A r \in Requests :
       pc[r] # "idle" /\ req[r].ref # NoRef => req[r].school = PaidTo[req[r].ref]

PaidInv == TypeInv /\ PaidToSchool

LEMMA PaidArrival ==
  ASSUME PaidInv, TypeInv', NEW r \in Requests, Arrival(r)
  PROVE  /\ PaidInv' /\ payments' = payments
         /\ pc'[r] \notin Recording \/ req'[r].ref = NoRef
         /\ \A q \in Requests \ {r} : pc'[q] = pc[q] /\ req'[q] = req[q]
<1>1. PICK k \in Kinds, s \in Schools, x \in Captured \cup {NoRef}, l \in {"sequence", "existing"} :
        /\ Start(r, k, s, x, l)
        /\ x # NoRef => s = PaidTo[x] /\ l = "existing"
  <2>1. CASE \E s \in Schools : StartCounter(r, s)
    BY <2>1 DEF StartCounter, Kinds
  <2>2. CASE \E x \in Captured : StartVerify(r, x) \/ StartWebhook(r, x)
    BY <2>2, ConstantsAssumption DEF StartVerify, StartWebhook, Kinds
  <2> QED BY <2>1, <2>2 DEF Arrival
<1>2. /\ pc'[r] = l /\ req'[r].ref = x /\ req'[r].school = s
      /\ \A q \in Requests \ {r} : pc'[q] = pc[q] /\ req'[q] = req[q]
      /\ payments' = payments
  BY <1>1 DEF Start, Goto, db, PaidInv, TypeInv, TypeOK
<1> QED BY <1>1, <1>2 DEF PaidInv, PaidToSchool, Recording

(* What a step of a request that is under way leaves of it.                *)
LEMMA PaidStep ==
  ASSUME PaidInv, NEW r \in Requests, Step(r) \/ SequenceFails(r) \/ Abort(r)
  PROVE  /\ pc[r] # "idle"
         /\ pc'[r] # "idle" => req'[r] = req[r]
         /\ \A q \in Requests \ {r} : pc'[q] = pc[q] /\ req'[q] = req[q]
         /\ payments' = payments \/ (pc[r] \in Recording /\ payments' = payments \cup {Row(r)})
         /\ pc'[r] \in Recording => pc[r] \in Recording \/ pc[r] = "existing"
<1> USE DEF PaidInv, TypeInv, TypeOK, Recording
<1>1. CASE CheckExisting(r)
  BY <1>1 DEF CheckExisting, Throw, Finish, Branch, Goto, db, loc
<1>2. CASE ReadSequence(r) \/ CountReceipts(r) \/ Probe(r) \/ UpsertSequence(r)
  BY <1>2 DEF ReadSequence, CountReceipts, Probe, UpsertSequence, Branch, Goto, db, loc
<1>3. CASE SequenceFails(r) \/ Answer(r) \/ Abort(r)
  BY <1>3 DEF SequenceFails, Answer, Abort, Finish, Goto, db
<1>4. CASE RecordPayment(r)
  BY <1>4 DEF RecordPayment, Throw, Finish, Branch, Goto, db, loc
<1>5. CASE Commit(r)
  BY <1>5 DEF Commit, Finish, Goto
<1> QED BY <1>1, <1>2, <1>3, <1>4, <1>5 DEF Step

LEMMA PaidNext == PaidInv /\ [Next]_vars => PaidInv'
<1> SUFFICES ASSUME PaidInv, [Next]_vars PROVE PaidInv'
  OBVIOUS
<1>1. TypeInv'
  BY TypeNext DEF PaidInv
<1>2. ASSUME NEW r \in Requests, Step(r) \/ SequenceFails(r) \/ Abort(r) PROVE PaidInv'
  <2>1. Row(r).ref = req[r].ref /\ Row(r).school = req[r].school
    BY DEF Row
  <2>2. \A p \in payments' : p.ref # NoRef => p.school = PaidTo[p.ref]
    <3>1. req[r].ref # NoRef => req[r].school = PaidTo[req[r].ref]
      BY <1>2, PaidStep DEF PaidInv, PaidToSchool
    <3> QED BY <1>2, <2>1, <3>1, PaidStep DEF PaidInv, PaidToSchool
  <2>3. \A q \in Requests :
          pc'[q] # "idle" /\ req'[q].ref # NoRef => req'[q].school = PaidTo[req'[q].ref]
    BY <1>2, PaidStep DEF PaidInv, PaidToSchool
  <2> QED BY <1>1, <2>2, <2>3 DEF PaidInv, PaidToSchool
<1>3. CASE UNCHANGED vars
  BY <1>1, <1>3 DEF PaidInv, PaidToSchool, vars, db, loc
<1> QED BY <1>1, <1>2, <1>3, PaidArrival DEF Next, Rest

(* A request is let past the look-up only while its payment is not         *)
(* recorded: row level security hides no record of the payment from the    *)
(* browser's request, as that is one of its own school, and lets no        *)
(* webhook past.                                                           *)
LEMMA LookUpSees ==
  ASSUME PaidInv, NEW r \in Requests, CheckExisting(r), pc'[r] \in Recording, req[r].ref # NoRef
  PROVE  ~Recorded(req[r].ref)
<1>1. /\ ~\E p \in Visible(r) : p.ref = req[r].ref
      /\ ~(RequestTx /\ req[r].kind = "webhook")
  BY DEF CheckExisting, Throw, Finish, Branch, Goto, PaidInv, TypeInv, TypeOK, Recording
<1> QED BY <1>1 DEF CheckExisting, Visible, Recorded, PaidInv, PaidToSchool

LEMMA SettledStays ==
  ASSUME PaidInv, [Next]_vars, NEW x \in Captured, Settled(x)
  PROVE  Settled(x)' /\ Copies(x)' = Copies(x)
<1>1. x # NoRef
  BY ConstantsAssumption
<1>2. ASSUME NEW r \in Requests, Step(r) \/ SequenceFails(r) \/ Abort(r)
      PROVE  Settled(x)' /\ Copies(x)' = Copies(x)
  <2>1. Row(r).ref = req[r].ref
    BY DEF Row
  <2>2. payments \subseteq payments' /\ Copies(x)' = Copies(x)
    BY <1>2, <2>1, PaidStep DEF Copies, Settled
  <2>3. ASSUME pc'[r] \in Recording PROVE req'[r].ref # x
    <3>1. req'[r] = req[r] /\ (pc[r] \in Recording \/ pc[r] = "existing")
      BY <1>2, <2>3, PaidStep DEF Recording
    <3>2. CASE pc[r] \in Recording
      BY <3>1, <3>2 DEF Settled
    <3>3. CASE pc[r] = "existing"
      <4>1. CheckExisting(r)
        BY <1>2, <2>3, <3>3
           DEF Step, ReadSequence, CountReceipts, Probe, UpsertSequence, RecordPayment, Commit,
               Answer, SequenceFails, Abort, Finish, Goto, Recording, PaidInv, TypeInv, TypeOK
      <4> QED BY <1>1, <2>3, <3>1, <4>1, LookUpSees DEF Settled
    <3> QED BY <3>1, <3>2, <3>3
  <2>4. \A q \in Requests : pc'[q] \in Recording => req'[q].ref # x
    BY <1>2, <2>3, PaidStep DEF Settled
  <2> QED BY <2>2, <2>4 DEF Settled, Recorded
<1>3. ASSUME NEW r \in Requests, Arrival(r) PROVE Settled(x)' /\ Copies(x)' = Copies(x)
  <2>1. TypeInv'
    BY TypeNext DEF PaidInv
  <2>2. /\ payments' = payments
        /\ pc'[r] \notin Recording \/ req'[r].ref = NoRef
        /\ \A q \in Requests \ {r} : pc'[q] = pc[q] /\ req'[q] = req[q]
    BY <1>3, <2>1, PaidArrival
  <2> QED BY <1>1, <2>2 DEF Settled, Recorded, Copies
<1>4. CASE UNCHANGED vars
  BY <1>4 DEF Settled, Recorded, Copies, vars, db, loc
<1> QED BY <1>2, <1>3, <1>4 DEF Next, Rest

(* Once a payment is recorded and nobody who looked before that is still   *)
(* under way, it is never recorded again, in either transaction mode and   *)
(* for any number of concurrent requests and deliveries.                   *)
THEOREM NeverRecordedAgainHolds == Spec => NeverRecordedAgain
<1>1. Init => PaidInv
  BY TypeInit DEF Init, PaidInv, PaidToSchool
<1>2. PaidInv /\ [Next]_vars
        => [\A x \in Captured : Settled(x) => Settled(x)' /\ Copies(x)' = Copies(x)]_vars
  BY SettledStays
<1> QED BY <1>1, <1>2, PaidNext, PTL DEF Spec, NeverRecordedAgain
=============================================================================
