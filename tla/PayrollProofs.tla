--------------------------- MODULE PayrollProofs ---------------------------
(***************************************************************************)
(* Proofs about payroll: a cycle agrees with its payslips for any number   *)
(* of months, staff, runs and requests.  The number of a run is fresh, so  *)
(* the payslips that bear it are those that it has made, whatever other    *)
(* runs leave; one of them is deleted only by a run that goes on to write  *)
(* totals of its own, and a payment sees all of them or none.              *)
(***************************************************************************)
EXTENDS OfficeRecordsProofs

---------------------------------------------------------------------------
(***************************************************************************)
(* The committed rows of a month.                                          *)
(***************************************************************************)
SlipRow == [id : Nat, net : Nets, status : {"PENDING", "PAID"}]

CycleRow ==
  [status : {"DRAFT", "APPROVED", "PAID"}, totals : UNION {[S -> Nets] : S \in SUBSET Staff}]

CycleOf(m) == Row(rows, Cycle(m))
SlipOf(m, s) == Row(rows, Slip(m, s))

OnList(m) == {s \in Staff : SlipOf(m, s) # NoRow}

Started(m) == CycleOf(m) # NoRow /\ CycleOf(m).status # "DRAFT"

OfRun(m, i) == {s \in OnList(m) : SlipOf(m, s).id = i}

TotalsAreOf(m, i) ==
  /\ OfRun(m, i) # {}
  /\ CycleOf(m).totals = [s \in OfRun(m, i) |-> SlipOf(m, s).net]
  /\ OfRun(m, i) = OnList(m) /\ CycleOf(m).status = "PAID" =>
       \A s \in OnList(m) : SlipOf(m, s).status = "PAID"

(* A cycle has the payslips of some run from its first one on.             *)
Settled(m) ==
  /\ CycleOf(m) \in CycleRow \cup {NoRow}
  /\ \A s \in OnList(m) : SlipOf(m, s) \in SlipRow
  /\ ~Started(m) => OnList(m) = {}
  /\ Started(m) => \E i : TotalsAreOf(m, i)

(***************************************************************************)
(* What a request has written of payroll, and what it knows.               *)
(***************************************************************************)
Booked(r) == {k \in DOMAIN draft[r] : k[1] \in PayrollTables}

Ours(r, s) == Slip(req[r].month, s)

Payslip(r, s) == [id |-> seen[r].id, net |-> seen[r].net[s], status |-> "PENDING"]

Runner(r) ==
  /\ req[r].kind = "process" /\ DOMAIN seen[r] = {"id", "net", "left"}
  /\ \E S \in (SUBSET Staff) \ {{}} : seen[r].net \in [S -> Nets]

(* It has deleted payslips, and written its own.                           *)
RunWrites(r) ==
  \A s \in Staff :
    Ours(r, s) \in Booked(r) =>
      \/ draft[r][Ours(r, s)] = NoRow
      \/ s \in DOMAIN seen[r].net /\ draft[r][Ours(r, s)] = Payslip(r, s)

(* Its own payslips are there, and it has written no other.                *)
Replaced(r) ==
  /\ \A s \in DOMAIN seen[r].net :
       Ours(r, s) \in Booked(r) /\ draft[r][Ours(r, s)] = Payslip(r, s)
  /\ \A s \in Staff \ DOMAIN seen[r].net :
       Ours(r, s) \in Booked(r) => draft[r][Ours(r, s)] = NoRow

Marks(r) == req[r].kind = "mark" /\ req[r].staff \in Staff

(* The payslip that r marks is there, and its own.                         *)
Marked(r) ==
  LET s == req[r].staff IN
  /\ Marks(r) /\ s \in OnList(req[r].month)
  /\ draft[r][Ours(r, s)] = [SlipOf(req[r].month, s) EXCEPT !.status = "PAID"]

(* No other payslip of the same run is pending.                            *)
AllPaid(r) ==
  \A s \in OnList(req[r].month) :
    /\ s # req[r].staff
    /\ SlipOf(req[r].month, s).id = SlipOf(req[r].month, req[r].staff).id
    => SlipOf(req[r].month, s).status = "PAID"

(* What r commits.                                                         *)
NewCycle(r) ==
  /\ req[r].kind = "cycle" /\ Booked(r) = {Cycle(req[r].month)}
  /\ CycleOf(req[r].month) = NoRow
  /\ draft[r][Cycle(req[r].month)] = [status |-> "DRAFT", totals |-> NoTotals]

NewSlips(r) ==
  /\ Runner(r) /\ Replaced(r)
  /\ Cycle(req[r].month) \in Booked(r)
  /\ Booked(r) \subseteq SlipsOf(req[r].month) \cup {Cycle(req[r].month)}
  /\ draft[r][Cycle(req[r].month)] = [status |-> "APPROVED", totals |-> seen[r].net]

PaidSlip(r) == Marked(r) /\ Booked(r) = {ThisSlip(r)}

PaidCycle(r) ==
  /\ Marked(r) /\ AllPaid(r) /\ Booked(r) = {ThisSlip(r), Cycle(req[r].month)}
  /\ draft[r][Cycle(req[r].month)] = [CycleOf(req[r].month) EXCEPT !.status = "PAID"]

RunLabels == {"slipsFind", "slipsDelete", "slipCreate", "cycleApprove"}

Booking(r) ==
  /\ pc[r] \in {"cycleLook", "cycleInsert"} => req[r].kind = "cycle" /\ Booked(r) = {}
  /\ pc[r] \in {"cycleRead", "staffRead"} => req[r].kind = "process" /\ Booked(r) = {}
  /\ pc[r] \in RunLabels =>
       Runner(r) /\ RunWrites(r) /\ Booked(r) \subseteq SlipsOf(req[r].month)
  /\ pc[r] = "slipsFind" => Booked(r) = {}
  /\ pc[r] = "slipsDelete" =>
       \A f \in seen[r].left : \E s \in Staff : f = <<Ours(r, s), f[2]>>
  /\ pc[r] = "cycleApprove" => Replaced(r)
  /\ pc[r] \in {"slipRead", "slipPay"} => Marks(r) /\ Booked(r) = {}
  /\ pc[r] \in {"slipCount", "cyclePay"} => PaidSlip(r)
  /\ pc[r] = "cyclePay" => AllPaid(r)
  /\ pc[r] = "commit" =>
       Booked(r) = {} \/ NewCycle(r) \/ NewSlips(r) \/ PaidSlip(r) \/ PaidCycle(r)

(***************************************************************************)
(* A run has a number that no payslip that has been committed has, and no  *)
(* other run.                                                              *)
(***************************************************************************)
InRun(r) ==
  \/ pc[r] \in RunLabels
  \/ pc[r] = "commit" /\ req[r].kind = "process" /\ Cycle(req[r].month) \in Booked(r)

Numbered ==
  /\ runs \in Nat
  /\ \A m : \A s \in OnList(m) : SlipOf(m, s).id \in 1..runs
  /\ \A r \in Requests : InRun(r) => seen[r].id \in 1..runs
  /\ \A r \in Requests : InRun(r) => \A m : \A s \in OnList(m) : SlipOf(m, s).id # seen[r].id
  /\ \A r, q \in Requests : InRun(r) /\ InRun(q) /\ q # r => seen[q].id # seen[r].id

PayrollInv ==
  /\ Confined(PayrollTables, PayrollLabels) /\ Numbered
  /\ \A m : Settled(m)
  /\ \A r \in Requests : Booking(r)

LEMMA PayrollKeys ==
  /\ \A m, s : Slip(m, s)[1] = "slip" /\ Cycle(m)[1] = "cycle" /\ Slip(m, s) # Cycle(m)
  /\ \A m, n : Cycle(m) = Cycle(n) => m = n
  /\ \A m, n, s : Slip(m, s) # Cycle(n)
  /\ \A m, n, s, t : Slip(m, s) = Slip(n, t) => m = n /\ s = t
  /\ PayrollTables = {"cycle", "slip"}
BY DEF Slip, Cycle, PayrollTables

LEMMA PayrollRows == NoRow \notin SlipRow /\ NoRow \notin CycleRow
BY PayrollAssumption DEF SlipRow, CycleRow

(* What others know of a month stays as long as its rows do.               *)
SameMonth(m) ==
  CycleOf(m)' = CycleOf(m) /\ \A s \in Staff : SlipOf(m, s)' = SlipOf(m, s)

LEMMA SameMonthFacts ==
  ASSUME NEW m, SameMonth(m)
  PROVE  OnList(m)' = OnList(m) /\ (Settled(m) => Settled(m)')
<1>1. OnList(m)' = OnList(m)
  BY DEF SameMonth, OnList
<1>2. ASSUME Settled(m) PROVE Settled(m)'
  <2>1. /\ CycleOf(m)' = CycleOf(m) /\ Started(m)' = Started(m)
        /\ \A s \in OnList(m) : SlipOf(m, s)' = SlipOf(m, s)
    BY DEF SameMonth, Started, OnList
  <2>2. \A i : TotalsAreOf(m, i) => TotalsAreOf(m, i)'
    <3> SUFFICES ASSUME NEW i, TotalsAreOf(m, i) PROVE TotalsAreOf(m, i)'
      OBVIOUS
    <3>1. OfRun(m, i)' = OfRun(m, i) /\ OfRun(m, i) \subseteq OnList(m)
      BY <1>1, <2>1 DEF OfRun
    <3> QED
      BY <1>1, <2>1, <3>1 DEF TotalsAreOf
  <2>3. Started(m)' => \E i : TotalsAreOf(m, i)'
    BY <1>2, <2>1, <2>2 DEF Settled
  <2>4. \A s \in OnList(m)' : SlipOf(m, s)' \in SlipRow'
    BY <1>1, <1>2, <2>1 DEF Settled, SlipRow
  <2> QED
    BY <1>1, <1>2, <2>1, <2>3, <2>4 DEF Settled, SlipRow, CycleRow
<1> QED BY <1>1, <1>2

LEMMA BookingKept ==
  ASSUME NEW q \in Requests, Booking(q), SameMonth(req[q].month),
         draft'[q] = draft[q], pc'[q] = pc[q], req'[q] = req[q], seen'[q] = seen[q]
  PROVE  Booking(q)'
<1> DEFINE m == req[q].month
<1>1. /\ OnList(m)' = OnList(m) /\ CycleOf(m)' = CycleOf(m)
      /\ \A s \in Staff : SlipOf(m, s)' = SlipOf(m, s)
  BY SameMonthFacts DEF SameMonth
<1>2. /\ m' = m /\ Booked(q)' = Booked(q)
      /\ \A s : Ours(q, s)' = Ours(q, s) /\ Payslip(q, s)' = Payslip(q, s)
  BY DEF Booked, Ours, Payslip
<1>3. \A s \in OnList(m) : s \in Staff
  BY DEF OnList
<1>4. Runner(q)' = Runner(q) /\ RunWrites(q)' = RunWrites(q) /\ Marks(q)' = Marks(q)
  BY <1>2 DEF Runner, RunWrites, Marks
<1>5. Replaced(q)' = Replaced(q)
  BY <1>2 DEF Replaced
<1>6. Marked(q)' = Marked(q) /\ (Marked(q) => AllPaid(q)' = AllPaid(q))
  BY <1>1, <1>2, <1>3, <1>4 DEF Marked, AllPaid, Marks
<1>7. NewCycle(q)' = NewCycle(q) /\ NewSlips(q)' = NewSlips(q) /\ PaidSlip(q)' = PaidSlip(q)
      /\ PaidCycle(q)' = PaidCycle(q)
  BY <1>1, <1>2, <1>4, <1>5, <1>6 DEF NewCycle, NewSlips, PaidSlip, PaidCycle, ThisSlip
<1> QED
  BY <1>1, <1>2, <1>4, <1>5, <1>6, <1>7 DEF Booking, PaidSlip

SameRows == \A k : k[1] \in PayrollTables => Row(rows', k) = Row(rows, k)

LEMMA SameRowsFacts ==
  ASSUME SameRows
  PROVE  \A m : SameMonth(m) /\ OnList(m)' = OnList(m)
<1>1. \A m : SameMonth(m)
  BY PayrollKeys DEF SameRows, SameMonth, CycleOf, SlipOf
<1> QED
  BY <1>1, SameMonthFacts

LEMMA OtherBookings ==
  ASSUME PayrollInv, NEW r \in Requests, Alone(r), SameRows
  PROVE  (\A m : Settled(m)') /\ \A q \in Requests \ {r} : Booking(q)'
<1>1. \A m : SameMonth(m)
  BY SameRowsFacts
<1>2. ASSUME NEW m PROVE Settled(m)'
  BY <1>1, SameMonthFacts DEF PayrollInv
<1>3. ASSUME NEW q \in Requests \ {r} PROVE Booking(q)'
  <2>1. draft'[q] = draft[q] /\ pc'[q] = pc[q] /\ req'[q] = req[q] /\ seen'[q] = seen[q]
    BY DEF Alone
  <2> QED
    BY <1>1, <2>1, BookingKept DEF PayrollInv
<1> QED BY <1>2, <1>3

LEMMA OtherRuns ==
  ASSUME NEW r \in Requests, Alone(r)
  PROVE  \A q \in Requests \ {r} :
           InRun(q)' = InRun(q) /\ seen'[q] = seen[q]
BY DEF Alone, InRun, Booked

LEMMA NumberedKept ==
  ASSUME PayrollInv, NEW r \in Requests, Alone(r), SameRows, runs' = runs,
         InRun(r)' => InRun(r) /\ seen'[r].id = seen[r].id
  PROVE  Numbered'
<1>1. Numbered
  BY DEF PayrollInv
<1>2. \A m : OnList(m)' = OnList(m) /\ \A s \in OnList(m) : SlipOf(m, s)' = SlipOf(m, s)
  BY SameRowsFacts DEF SameMonth, OnList
<1>3. runs' \in Nat /\ \A m : \A s \in OnList(m)' : SlipOf(m, s)'.id \in 1..runs'
  BY <1>1, <1>2 DEF Numbered
<1>5. ASSUME NEW q \in Requests, InRun(q)'
      PROVE  InRun(q) /\ seen'[q].id = seen[q].id
  BY <1>5, OtherRuns
<1>7. \A q \in Requests : InRun(q)' =>
        seen'[q].id \in 1..runs' /\ \A m : \A s \in OnList(m)' : SlipOf(m, s)'.id # seen'[q].id
  BY <1>1, <1>2, <1>5 DEF Numbered
<1>9. \A p, q \in Requests : InRun(p)' /\ InRun(q)' /\ q # p => seen'[q].id # seen'[p].id
  BY <1>1, <1>5 DEF Numbered
<1> QED
  BY <1>3, <1>7, <1>9 DEF Numbered

LEMMA NotBooking ==
  ASSUME NEW r \in Requests, pc'[r] \notin PayrollLabels, Booked(r)' = {}
  PROVE  Booking(r)' /\ ~InRun(r)'
BY DEF Booking, InRun, RunLabels, PayrollLabels

LEMMA LeavingPayroll ==
  ASSUME PayrollInv, NEW r \in Requests, Leaves(r, PayrollTables, PayrollLabels), runs' = runs
  PROVE  PayrollInv'
<1>1. Alone(r) /\ pc'[r] \notin PayrollLabels /\ SameRows /\ Booked(r)' = {}
  BY DEF Leaves, Footprint, SameRows, Booked
<1>2. Booking(r)' /\ ~InRun(r)'
  BY <1>1, NotBooking
<1>3. Numbered'
  BY <1>1, <1>2, NumberedKept
<1>4. Confined(PayrollTables, PayrollLabels)'
  BY <1>1, ConfinedKept DEF PayrollInv
<1> QED
  BY <1>1, <1>2, <1>3, <1>4, OtherBookings DEF PayrollInv

LEMMA PayrollThrows ==
  ASSUME DocumentsInv, PayrollInv, NEW r \in Requests, Throw(r), runs' = runs
  PROVE  PayrollInv'
<1>1. Leaves(r, PayrollTables, PayrollLabels)
  BY EndLeaves DEF Throw, DocumentsInv, PayrollLabels
<1> QED
  BY <1>1, LeavingPayroll

LEMMA PayrollStays ==
  ASSUME PayrollInv, NEW r \in Requests,
         Within(r, PayrollTables, PayrollLabels), rows' = rows, Booking(r)', Numbered'
  PROVE  PayrollInv'
<1>1. Alone(r) /\ SameRows
  BY DEF Within, Footprint, SameRows
<1>2. Confined(PayrollTables, PayrollLabels)'
  BY <1>1, ConfinedKept DEF PayrollInv
<1> QED
  BY <1>1, <1>2, OtherBookings DEF PayrollInv

(* A step that starts no run.                                              *)
LEMMA NoRunStarts ==
  ASSUME PayrollInv, NEW r \in Requests,
         Within(r, PayrollTables, PayrollLabels), rows' = rows, runs' = runs, Booking(r)',
         InRun(r)' => InRun(r) /\ seen'[r].id = seen[r].id
  PROVE  PayrollInv'
<1>1. Alone(r) /\ SameRows
  BY DEF Within, Footprint, SameRows
<1>2. Numbered'
  BY <1>1, NumberedKept
<1> QED
  BY <1>2, PayrollStays

LEMMA SameKnowledge ==
  ASSUME NEW r \in Requests, rows' = rows, draft'[r] = draft[r], req'[r] = req[r]
  PROVE  /\ Booked(r)' = Booked(r) /\ Marks(r)' = Marks(r) /\ Marked(r)' = Marked(r)
         /\ AllPaid(r)' = AllPaid(r) /\ PaidSlip(r)' = PaidSlip(r)
         /\ seen'[r] = seen[r] =>
              /\ Runner(r)' = Runner(r) /\ RunWrites(r)' = RunWrites(r)
              /\ Replaced(r)' = Replaced(r)
<1>1. /\ Booked(r)' = Booked(r) /\ \A m : OnList(m)' = OnList(m)
      /\ \A s : Ours(r, s)' = Ours(r, s) /\ \A m : SlipOf(m, s)' = SlipOf(m, s)
  BY DEF Booked, OnList, SlipOf, Ours
<1>2. Marks(r)' = Marks(r) /\ Marked(r)' = Marked(r) /\ AllPaid(r)' = AllPaid(r)
  BY <1>1 DEF Marks, Marked, AllPaid
<1>3. PaidSlip(r)' = PaidSlip(r)
  BY <1>1, <1>2 DEF PaidSlip, ThisSlip
<1>4. ASSUME seen'[r] = seen[r]
      PROVE  /\ Runner(r)' = Runner(r) /\ RunWrites(r)' = RunWrites(r)
             /\ Replaced(r)' = Replaced(r)
  <2>1. \A s : Payslip(r, s)' = Payslip(r, s)
    BY <1>4 DEF Payslip
  <2> QED
    BY <1>1, <1>4, <2>1 DEF Runner, RunWrites, Replaced
<1> QED BY <1>1, <1>2, <1>3, <1>4

LEMMA PayrollArrivalKeeps ==
  ASSUME DocumentsInv, PayrollInv, NEW r \in Requests, PayrollArrival(r)
  PROVE  PayrollInv'
<1>1. Domains /\ Within(r, PayrollTables, PayrollLabels) /\ runs' = runs
  BY ArrivalsWithin DEF DocumentsInv, PayrollArrival
<1>2. PICK x, l :
        /\ Start(r, x, l)
        /\ \/ l = "cycleLook" /\ x.kind = "cycle"
           \/ l = "cycleRead" /\ x.kind = "process"
           \/ l = "slipRead" /\ x.kind = "mark" /\ x.staff \in Staff
  <2>1. CASE \E m \in Months : StartCycle(r, m)
    BY <2>1 DEF StartCycle
  <2>2. CASE \E m \in Months : StartProcess(r, m)
    BY <2>2 DEF StartProcess
  <2>3. CASE \E m \in Months : \E s \in Staff : StartMark(r, m, s)
    BY <2>3 DEF StartMark
  <2> QED
    BY <2>1, <2>2, <2>3 DEF PayrollArrival
<1>3. /\ rows' = rows /\ draft'[r] = draft[r] /\ pc[r] = "idle" /\ pc'[r] = l /\ req'[r] = x
  BY <1>1, <1>2, StartFacts DEF Quiet
<1>4. Booked(r)' = {}
  BY <1>3 DEF PayrollInv, Confined, Booked, PayrollLabels
<1>5. Booking(r)' /\ ~InRun(r)'
  BY <1>2, <1>3, <1>4 DEF Booking, Marks, InRun, RunLabels
<1> QED
  BY <1>1, <1>3, <1>5, NoRunStarts

LEMMA PayrollLooksKeep ==
  ASSUME DocumentsInv, PayrollInv, NEW r \in Requests, runs' = runs,
         LookForCycle(r) \/ ReadCycle(r) \/ RefuseNoStaff(r) \/ ReadSlip(r) \/ CountPending(r)
  PROVE  PayrollInv'
<1>1. Domains /\ Within(r, PayrollTables, PayrollLabels) /\ Booking(r)
  BY PayrollWithin DEF DocumentsInv, Own, PayrollStep, PayrollInv
<1>2. CASE Throw(r)
  BY <1>2, PayrollThrows
<1>3. CASE ~Throw(r)
  <2>1. PICK l : /\ Branch(r, l)
                 /\ \/ pc[r] = "cycleLook" /\ l = "cycleInsert"
                    \/ pc[r] = "cycleRead" /\ l = "staffRead"
                    \/ pc[r] = "slipRead" /\ l = "slipPay"
                    \/ pc[r] = "slipCount" /\ l = "commit"
                    \/ pc[r] = "slipCount" /\ l = "cyclePay" /\ Pending(r) = {}
    BY <1>3 DEF LookForCycle, ReadCycle, RefuseNoStaff, ReadSlip, CountPending
  <2>2. /\ rows' = rows /\ draft'[r] = draft[r] /\ pc'[r] = l /\ req'[r] = req[r]
        /\ seen'[r] = seen[r]
    BY <1>1, <2>1, BranchFacts DEF Quiet
  <2>3. ~InRun(r)'
    BY <1>1, <2>1, <2>2 DEF InRun, RunLabels, Booking, PaidSlip, Marked, Marks
  <2>4. ASSUME Pending(r) = {}, PaidSlip(r) PROVE AllPaid(r)
    <3>1. ASSUME NEW s \in OnList(req[r].month), s # req[r].staff
          PROVE  SlipOf(req[r].month, s).status = "PAID"
      <4>1. s \in Staff /\ SlipOf(req[r].month, s) # NoRow /\ Settled(req[r].month)
        BY <3>1 DEF OnList, PayrollInv
      <4>2. SlipOf(req[r].month, s).status \in {"PENDING", "PAID"}
        BY <3>1, <4>1 DEF Settled, SlipRow
      <4>3. Ours(r, s) \notin DOMAIN draft[r]
        BY <2>4, <3>1, PayrollKeys DEF PaidSlip, Booked, Ours, ThisSlip
      <4>4. View(r, Ours(r, s)) = SlipOf(req[r].month, s)
        BY <4>3 DEF View, SlipOf, Ours
      <4>5. Ours(r, s) \in Found(r, SlipsOf(req[r].month))
        BY <4>1, <4>4 DEF Found, SlipsOf, Ours
      <4> QED
        BY <2>4, <4>2, <4>4, <4>5 DEF Pending
    <3> QED BY <3>1 DEF AllPaid
  <2>5. Booking(r)'
    BY <1>1, <2>1, <2>2, <2>4, SameKnowledge DEF Booking, RunLabels
  <2> QED
    BY <1>1, <2>2, <2>3, <2>5, NoRunStarts
<1> QED BY <1>2, <1>3

LEMMA ComputePayslipsKeeps ==
  ASSUME DocumentsInv, PayrollInv, NEW r \in Requests, ComputePayslips(r)
  PROVE  PayrollInv'
<1>1. Domains /\ Within(r, PayrollTables, PayrollLabels) /\ Booking(r) /\ Numbered
  BY PayrollWithin DEF DocumentsInv, Own, PayrollStep, PayrollInv
<1>2. PICK S \in (SUBSET Staff) \ {{}} : \E net \in [S -> Nets] :
        Read(r, [id |-> runs + 1, net |-> net, left |-> {}], "slipsFind")
  BY DEF ComputePayslips
<1>3. PICK net \in [S -> Nets] :
        Read(r, [id |-> runs + 1, net |-> net, left |-> {}], "slipsFind")
  BY <1>2
<1>4. /\ rows' = rows /\ draft'[r] = draft[r] /\ pc'[r] = "slipsFind" /\ req'[r] = req[r]
      /\ seen'[r] = [id |-> runs + 1, net |-> net, left |-> {}]
      /\ runs' = runs + 1 /\ pc[r] = "staffRead"
  BY <1>1, <1>3, ReadFacts DEF Quiet, ComputePayslips
<1>5. Booked(r)' = {} /\ req'[r].kind = "process"
  BY <1>1, <1>4, SameKnowledge DEF Booking
<1>6. Runner(r)' /\ RunWrites(r)'
  BY <1>2, <1>4, <1>5 DEF Runner, RunWrites
<1>7. Booking(r)'
  BY <1>4, <1>5, <1>6 DEF Booking
<1>8. Alone(r) /\ SameRows
  BY <1>1, <1>4 DEF Within, Footprint, SameRows
<1>9. Numbered'
  <2>1. \A m : OnList(m)' = OnList(m) /\ \A s \in OnList(m) : SlipOf(m, s)' = SlipOf(m, s)
    BY <1>8, SameRowsFacts DEF SameMonth, OnList
  <2>2. runs \in Nat /\ runs' = runs + 1 /\ runs' \in Nat
    BY <1>1, <1>4 DEF Numbered
  <2>3. \A i \in 1..runs : i \in 1..runs' /\ i # runs + 1
    BY <2>2
  <2>4. \A q \in Requests \ {r} :
          InRun(q)' = InRun(q) /\ seen'[q] = seen[q]
    BY <1>8, OtherRuns
  <2>5. seen'[r].id = runs + 1 /\ runs + 1 \in 1..runs'
    BY <1>4, <2>2
  <2>6. \A m : \A s \in OnList(m)' : SlipOf(m, s)'.id \in 1..runs /\ SlipOf(m, s)' = SlipOf(m, s)
    BY <1>1, <2>1 DEF Numbered
  <2>8. \A q \in Requests : InRun(q)' =>
          q = r \/ (q # r /\ InRun(q) /\ seen'[q] = seen[q] /\ seen[q].id \in 1..runs)
    BY <1>1, <2>4 DEF Numbered
  <2>10. \A q \in Requests : InRun(q)' => seen'[q].id \in 1..runs'
    BY <2>3, <2>5, <2>8
  <2>11. \A q \in Requests : InRun(q)' => \A m : \A s \in OnList(m)' : SlipOf(m, s)'.id # seen'[q].id
    BY <1>1, <2>1, <2>3, <2>5, <2>6, <2>8 DEF Numbered
  <2>13. \A p, q \in Requests : InRun(p)' /\ InRun(q)' /\ q # p => seen'[q].id # seen'[p].id
    BY <1>1, <2>3, <2>5, <2>8 DEF Numbered
  <2>14. \A m : \A s \in OnList(m)' : SlipOf(m, s)'.id \in 1..runs'
    BY <2>3, <2>6
  <2> QED
    BY <2>2, <2>10, <2>11, <2>13, <2>14 DEF Numbered
<1> QED
  BY <1>1, <1>4, <1>7, <1>9, PayrollStays

LEMMA FindSlipsKeeps ==
  ASSUME DocumentsInv, PayrollInv, NEW r \in Requests, FindSlips(r), runs' = runs
  PROVE  PayrollInv'
<1> DEFINE m == req[r].month
           found == {<<k, View(r, k).id>> : k \in Found(r, SlipsOf(m))}
<1>1. /\ Domains /\ Within(r, PayrollTables, PayrollLabels) /\ Booking(r)
  BY PayrollWithin DEF DocumentsInv, Own, PayrollStep, PayrollInv
<1>2. Read(r, [seen[r] EXCEPT !.left = found], "slipsDelete") /\ pc[r] = "slipsFind"
  BY DEF FindSlips
<1>3. Runner(r) /\ Booked(r) = {}
  BY <1>1, <1>2 DEF Booking, RunLabels
<1>4. \A s : View(r, Ours(r, s)) = SlipOf(m, s)
  BY <1>3, PayrollKeys DEF Booked, View, SlipOf, Ours
<1>5. \A f \in found : \E s \in OnList(m) : f = <<Ours(r, s), SlipOf(m, s).id>>
  BY <1>4 DEF Found, SlipsOf, OnList, Ours
<1> HIDE DEF found
<1>6. /\ rows' = rows /\ draft'[r] = draft[r] /\ pc'[r] = "slipsDelete" /\ req'[r] = req[r]
      /\ seen'[r] = [seen[r] EXCEPT !.left = found]
  BY <1>1, <1>2, ReadFacts DEF Quiet
<1>7. /\ DOMAIN seen'[r] = DOMAIN seen[r] /\ seen'[r].left = found
      /\ seen'[r].id = seen[r].id /\ seen'[r].net = seen[r].net
  BY <1>3, <1>6 DEF Runner
<1>8. /\ Booked(r)' = {} /\ OnList(m)' = OnList(m)
      /\ \A s : SlipOf(m, s)' = SlipOf(m, s) /\ Ours(r, s)' = Ours(r, s)
  BY <1>3, <1>6 DEF Booked, OnList, SlipOf, Ours
<1>9. Runner(r)' /\ RunWrites(r)'
  BY <1>3, <1>6, <1>7, <1>8 DEF Runner, RunWrites
<1>11. \A f \in found : \E s \in Staff : f = <<Ours(r, s)', f[2]>>
  BY <1>5, <1>8 DEF OnList
<1>12. Booking(r)'
  BY <1>6, <1>7, <1>8, <1>9, <1>11 DEF Booking
<1>13. InRun(r)
  BY <1>2 DEF InRun, RunLabels
<1> HIDE DEF m
<1> QED
  BY <1>1, <1>6, <1>7, <1>12, <1>13, NoRunStarts

LEMMA DeleteSlipsKeeps ==
  ASSUME DocumentsInv, PayrollInv, NEW r \in Requests, DeleteSlips(r), runs' = runs
  PROVE  PayrollInv'
<1> DEFINE m == req[r].month
<1>1. /\ Domains /\ Within(r, PayrollTables, PayrollLabels) /\ Booking(r)
      /\ pc[r] = "slipsDelete" /\ InRun(r)
  BY PayrollWithin DEF DocumentsInv, Own, PayrollStep, PayrollInv, DeleteSlips, InRun,
                       RunLabels
<1>2. /\ Runner(r) /\ RunWrites(r) /\ Booked(r) \subseteq SlipsOf(m)
      /\ \A f \in seen[r].left : \E s \in Staff : f = <<Ours(r, s), f[2]>>
  BY <1>1 DEF Booking, RunLabels
<1>3. CASE seen[r].left = {} /\ Branch(r, "slipCreate")
  <2>1. /\ rows' = rows /\ draft'[r] = draft[r] /\ pc'[r] = "slipCreate" /\ req'[r] = req[r]
        /\ seen'[r] = seen[r]
    BY <1>1, <1>3, BranchFacts DEF Quiet
  <2>2. SlipsOf(m)' = SlipsOf(m)
    BY <2>1 DEF SlipsOf
  <2>3. Booking(r)'
    BY <1>2, <1>3, <2>1, <2>2, SameKnowledge DEF Booking, RunLabels
  <2> QED
    BY <1>1, <2>1, <2>3, NoRunStarts
<1>4. ASSUME NEW f \in seen[r].left, Unlocked(r, f[1]),
             draft' = IF StillThere(r, f[1], f[2])
                      THEN [draft EXCEPT ![r] = Put(@, f[1], NoRow)] ELSE draft,
             seen' = [seen EXCEPT ![r].left = @ \ {f}], UNCHANGED <<rows, pc, req>>
      PROVE  PayrollInv'
  <2>1. PICK t \in Staff : f = <<Ours(r, t), f[2]>>
    BY <1>2
  <2>2. /\ DOMAIN seen'[r] = DOMAIN seen[r] /\ seen'[r].left = seen[r].left \ {f}
        /\ seen'[r].id = seen[r].id /\ seen'[r].net = seen[r].net /\ pc'[r] = "slipsDelete"
    BY <1>1, <1>2, <1>4 DEF Domains, Runner
  <2>3. /\ OnList(m)' = OnList(m) /\ req'[r] = req[r] /\ SlipsOf(m)' = SlipsOf(m)
        /\ \A s : SlipOf(m, s)' = SlipOf(m, s) /\ Ours(r, s)' = Ours(r, s)
        /\ \A s : Payslip(r, s)' = Payslip(r, s)
    BY <1>4, <2>2 DEF OnList, SlipOf, Ours, Payslip, SlipsOf
  <2>4. f[1] = Ours(r, t) /\ Ours(r, t) \in SlipsOf(m) /\ Ours(r, t)[1] \in PayrollTables
    BY <2>1, PayrollKeys DEF SlipsOf, Ours
  <2>5. \/ StillThere(r, f[1], f[2]) /\ Booked(r)' = Booked(r) \cup {f[1]}
           /\ draft'[r][f[1]] = NoRow
           /\ \A k \in Booked(r) : k # f[1] => draft'[r][k] = draft[r][k]
        \/ ~StillThere(r, f[1], f[2]) /\ Booked(r)' = Booked(r) /\ draft'[r] = draft[r]
    BY <1>1, <1>4, <2>4 DEF Domains, Booked, Put
  <2>6. Runner(r)' /\ Booked(r)' \subseteq SlipsOf(m)
    BY <1>2, <2>2, <2>3, <2>4, <2>5 DEF Runner
  <2>7. RunWrites(r)'
    BY <1>2, <2>2, <2>3, <2>5 DEF RunWrites
  <2>8. \A g \in seen'[r].left : \E s \in Staff : g = <<Ours(r, s)', g[2]>>
    BY <1>2, <2>2, <2>3
  <2>11. Booking(r)'
    BY <1>2, <2>2, <2>3, <2>6, <2>7, <2>8 DEF Booking, RunLabels
  <2> QED
    BY <1>1, <1>4, <2>2, <2>11, NoRunStarts
<1> QED
  BY <1>3, <1>4 DEF DeleteSlips

LEMMA BookingWrites ==
  ASSUME DocumentsInv, NEW r \in Requests, NEW k, NEW row, NEW l, Write(r, k, row, l),
         k[1] \in PayrollTables
  PROVE  /\ rows' = rows /\ pc'[r] = l /\ req'[r] = req[r] /\ seen'[r] = seen[r]
         /\ Booked(r)' = Booked(r) \cup {k} /\ draft'[r][k] = row
         /\ \A j \in Booked(r) : j # k => draft'[r][j] = draft[r][j]
         /\ \A s : Ours(r, s)' = Ours(r, s) /\ Payslip(r, s)' = Payslip(r, s)
         /\ \A m : /\ OnList(m)' = OnList(m) /\ CycleOf(m)' = CycleOf(m)
                   /\ SlipsOf(m)' = SlipsOf(m) /\ Cycle(m)' = Cycle(m)
                   /\ \A s : SlipOf(m, s)' = SlipOf(m, s)
<1>1. /\ rows' = rows /\ pc'[r] = l /\ req'[r] = req[r] /\ seen'[r] = seen[r]
      /\ draft'[r] = Put(draft[r], k, row)
  BY WriteFacts DEF DocumentsInv
<1>2. /\ Booked(r)' = Booked(r) \cup {k} /\ draft'[r][k] = row
      /\ \A j \in Booked(r) : j # k => draft'[r][j] = draft[r][j]
  BY <1>1 DEF Booked, Put
<1>3. /\ \A s : Ours(r, s)' = Ours(r, s) /\ Payslip(r, s)' = Payslip(r, s)
      /\ \A m : /\ OnList(m)' = OnList(m) /\ CycleOf(m)' = CycleOf(m)
                /\ SlipsOf(m)' = SlipsOf(m) /\ Cycle(m)' = Cycle(m)
                /\ \A s : SlipOf(m, s)' = SlipOf(m, s)
  BY <1>1 DEF Ours, Payslip, OnList, CycleOf, SlipsOf, SlipOf, Cycle
<1> QED BY <1>1, <1>2, <1>3

LEMMA InsertCycleKeeps ==
  ASSUME DocumentsInv, PayrollInv, NEW r \in Requests, InsertCycle(r), runs' = runs
  PROVE  PayrollInv'
<1> DEFINE k == Cycle(req[r].month)
           row == [status |-> "DRAFT", totals |-> NoTotals]
<1>1. Within(r, PayrollTables, PayrollLabels) /\ Booking(r) /\ pc[r] = "cycleInsert"
  BY PayrollWithin DEF DocumentsInv, Own, PayrollStep, PayrollInv, InsertCycle
<1>2. CASE Throw(r)
  BY <1>2, PayrollThrows
<1>3. CASE View(r, k) = NoRow /\ Write(r, k, row, "commit")
  <2>1. k[1] \in PayrollTables
    BY PayrollKeys
  <2>2. req[r].kind = "cycle" /\ Booked(r) = {}
    BY <1>1 DEF Booking
  <2>3. CycleOf(req[r].month) = NoRow
    BY <1>3, <2>1, <2>2 DEF Booked, View, CycleOf
  <2> HIDE DEF k, row
  <2>4. /\ rows' = rows /\ pc'[r] = "commit" /\ req'[r] = req[r] /\ Booked(r)' = {k}
        /\ draft'[r][k] = row /\ CycleOf(req[r].month)' = CycleOf(req[r].month)
    BY <1>3, <2>1, <2>2, BookingWrites DEF CycleOf
  <2>5. NewCycle(r)' /\ ~InRun(r)'
    BY <2>2, <2>3, <2>4 DEF NewCycle, InRun, RunLabels, k, row, CycleOf, NoTotals, Cycle
  <2>6. Booking(r)'
    BY <2>4, <2>5 DEF Booking, RunLabels
  <2> QED
    BY <1>1, <2>4, <2>5, <2>6, NoRunStarts
<1> QED
  BY <1>2, <1>3 DEF InsertCycle, Insert

LEMMA CreateSlipKeeps ==
  ASSUME DocumentsInv, PayrollInv, NEW r \in Requests, CreateSlip(r), runs' = runs
  PROVE  PayrollInv'
<1> DEFINE m == req[r].month
<1>1. /\ Domains /\ Within(r, PayrollTables, PayrollLabels) /\ Booking(r)
      /\ pc[r] = "slipCreate" /\ InRun(r) /\ Numbered /\ Settled(m)
  BY PayrollWithin DEF DocumentsInv, Own, PayrollStep, PayrollInv, CreateSlip, InRun,
                       RunLabels
<1>2. Runner(r) /\ RunWrites(r) /\ Booked(r) \subseteq SlipsOf(m)
  BY <1>1 DEF Booking, RunLabels
<1>3. \A s : /\ Ours(r, s) \in Booked(r) => View(r, Ours(r, s)) = draft[r][Ours(r, s)]
             /\ Ours(r, s) \notin Booked(r) => View(r, Ours(r, s)) = SlipOf(m, s)
  BY PayrollKeys DEF View, Booked, Ours, SlipOf
<1>4. DOMAIN seen[r].net \subseteq Staff
  BY <1>2 DEF Runner
<1>5. \A s \in Staff : SlipOf(m, s) # NoRow => SlipOf(m, s).id # seen[r].id
  BY <1>1 DEF Numbered, OnList
<1>6. CASE ToCreate(r) = {} /\ Branch(r, "cycleApprove")
  <2>1. /\ rows' = rows /\ draft'[r] = draft[r] /\ pc'[r] = "cycleApprove" /\ req'[r] = req[r]
        /\ seen'[r] = seen[r]
    BY <1>1, <1>6, BranchFacts DEF Quiet
  <2>2. \A s \in DOMAIN seen[r].net :
          View(r, Ours(r, s)) # NoRow /\ View(r, Ours(r, s)).id = seen[r].id
    BY <1>6 DEF ToCreate, StillThere, Ours
  <2>3. \A s \in DOMAIN seen[r].net :
          Ours(r, s) \in Booked(r) /\ draft[r][Ours(r, s)] = Payslip(r, s)
    BY <1>2, <1>3, <1>4, <1>5, <2>2 DEF RunWrites
  <2>5. Replaced(r)
    BY <1>2, <2>3 DEF Replaced, RunWrites
  <2>6. SlipsOf(m)' = SlipsOf(m)
    BY <2>1 DEF SlipsOf
  <2>7. Booking(r)'
    BY <1>2, <2>1, <2>5, <2>6, SameKnowledge DEF Booking, RunLabels
  <2> QED
    BY <1>1, <2>1, <2>7, NoRunStarts
<1>7. ASSUME NEW s \in ToCreate(r), Insert(r, Ours(r, s), Payslip(r, s), "slipCreate")
      PROVE  PayrollInv'
  <2>1. CASE Throw(r)
    BY <2>1, PayrollThrows
  <2>2. CASE View(r, Ours(r, s)) = NoRow /\ Write(r, Ours(r, s), Payslip(r, s), "slipCreate")
    <3>1. /\ s \in DOMAIN seen[r].net /\ Ours(r, s)[1] \in PayrollTables
          /\ Ours(r, s) \in SlipsOf(m)
      BY <1>4, <1>7, PayrollKeys DEF ToCreate, Ours, SlipsOf
    <3>2. /\ rows' = rows /\ pc'[r] = "slipCreate" /\ req'[r] = req[r] /\ seen'[r] = seen[r]
          /\ Booked(r)' = Booked(r) \cup {Ours(r, s)}
          /\ draft'[r][Ours(r, s)] = Payslip(r, s)
          /\ \A j \in Booked(r) : j # Ours(r, s) => draft'[r][j] = draft[r][j]
          /\ \A t : Ours(r, t)' = Ours(r, t) /\ Payslip(r, t)' = Payslip(r, t)
          /\ OnList(m)' = OnList(m) /\ SlipsOf(m)' = SlipsOf(m)
          /\ \A t : SlipOf(m, t)' = SlipOf(m, t)
      BY <2>2, <3>1, BookingWrites DEF SlipsOf
    <3>3. Runner(r)' /\ Booked(r)' \subseteq SlipsOf(m)
      BY <1>2, <3>1, <3>2 DEF Runner
    <3>4. RunWrites(r)'
      <4> SUFFICES ASSUME NEW t \in Staff, Ours(r, t) \in Booked(r)'
                   PROVE  \/ draft'[r][Ours(r, t)] = NoRow
                          \/ t \in DOMAIN seen[r].net /\ draft'[r][Ours(r, t)] = Payslip(r, t)
        BY <3>2 DEF RunWrites
      <4>1. CASE t = s
        BY <3>1, <3>2, <4>1
      <4>2. CASE t # s
        BY <1>2, <3>2, <4>2, PayrollKeys DEF RunWrites, Ours
      <4> QED BY <4>1, <4>2
    <3>7. Booking(r)'
      BY <1>2, <3>2, <3>3, <3>4 DEF Booking, RunLabels
    <3> QED
      BY <1>1, <3>2, <3>7, NoRunStarts
  <2> QED
    BY <1>7, <2>1, <2>2 DEF Insert
<1> QED
  BY <1>6, <1>7 DEF CreateSlip, Ours, Payslip

LEMMA ApproveCycleKeeps ==
  ASSUME DocumentsInv, PayrollInv, NEW r \in Requests, ApproveCycle(r), runs' = runs
  PROVE  PayrollInv'
<1> DEFINE m == req[r].month
           k == Cycle(m)
           row == [status |-> "APPROVED", totals |-> seen[r].net]
<1>1. /\ Within(r, PayrollTables, PayrollLabels) /\ Booking(r)
      /\ pc[r] = "cycleApprove" /\ InRun(r)
  BY PayrollWithin DEF DocumentsInv, Own, PayrollStep, PayrollInv, ApproveCycle, InRun, RunLabels
<1>2. Runner(r) /\ Replaced(r) /\ Booked(r) \subseteq SlipsOf(m)
  BY <1>1 DEF Booking, RunLabels
<1>3. Write(r, k, row, "commit") /\ k[1] \in PayrollTables /\ \A s : Ours(r, s) # k
  BY PayrollKeys DEF ApproveCycle, Ours
<1> HIDE DEF row
<1>4. /\ rows' = rows /\ pc'[r] = "commit" /\ req'[r] = req[r] /\ seen'[r] = seen[r]
      /\ Booked(r)' = Booked(r) \cup {k} /\ draft'[r][k] = row
      /\ \A j \in Booked(r) : j # k => draft'[r][j] = draft[r][j]
  BY <1>3, BookingWrites
<1>10. /\ \A s : Ours(r, s)' = Ours(r, s) /\ Payslip(r, s)' = Payslip(r, s)
       /\ OnList(m)' = OnList(m) /\ SlipsOf(m)' = SlipsOf(m)
  BY <1>4 DEF OnList, SlipsOf, SlipOf, Ours, Payslip
<1>5. Runner(r)' /\ Replaced(r)'
  BY <1>2, <1>3, <1>4, <1>10 DEF Runner, Replaced
<1>6. NewSlips(r)'
  BY <1>2, <1>4, <1>5, <1>10 DEF NewSlips, row
<1>7. Booking(r)'
  BY <1>4, <1>6 DEF Booking, RunLabels
<1> QED
  BY <1>1, <1>4, <1>7, NoRunStarts

LEMMA PaySlipKeeps ==
  ASSUME DocumentsInv, PayrollInv, NEW r \in Requests, PaySlip(r), runs' = runs
  PROVE  PayrollInv'
<1> DEFINE m == req[r].month
           s == req[r].staff
           k == Ours(r, s)
           row == [View(r, k) EXCEPT !.status = "PAID"]
<1>1. /\ Within(r, PayrollTables, PayrollLabels) /\ Booking(r) /\ pc[r] = "slipPay"
  BY PayrollWithin DEF DocumentsInv, Own, PayrollStep, PayrollInv, PaySlip
<1>2. Marks(r) /\ Booked(r) = {} /\ k = ThisSlip(r) /\ k[1] \in PayrollTables
  BY <1>1, PayrollKeys DEF Booking, Ours, ThisSlip
<1>3. CASE Throw(r)
  BY <1>3, PayrollThrows
<1>4. CASE View(r, k) # NoRow /\ Write(r, k, row, "slipCount")
  <2>1. View(r, k) = SlipOf(m, s)
    BY <1>2 DEF Booked, View, SlipOf, Ours
  <2>2. s \in OnList(m) /\ row = [SlipOf(m, s) EXCEPT !.status = "PAID"]
    BY <1>2, <1>4, <2>1 DEF Marks, OnList
  <2> HIDE DEF row
  <2>3. /\ rows' = rows /\ pc'[r] = "slipCount" /\ req'[r] = req[r] /\ Booked(r)' = {k}
        /\ draft'[r][k] = row
    BY <1>2, <1>4, BookingWrites
  <2>7. OnList(m)' = OnList(m) /\ SlipOf(m, s)' = SlipOf(m, s) /\ k' = k
    BY <2>3 DEF OnList, SlipOf, Ours
  <2>8. Marked(r)'
    BY <1>2, <2>2, <2>3, <2>7 DEF Marked, Marks, row
  <2>4. PaidSlip(r)'
    BY <1>2, <2>3, <2>7, <2>8 DEF PaidSlip, ThisSlip, Ours
  <2>5. ~InRun(r)'
    BY <2>3 DEF InRun, RunLabels
  <2>6. Booking(r)'
    BY <2>3, <2>4 DEF Booking, RunLabels
  <2> QED
    BY <1>1, <2>3, <2>5, <2>6, NoRunStarts
<1> QED
  BY <1>2, <1>3, <1>4 DEF PaySlip, Update, StillThere

LEMMA PayCycleKeeps ==
  ASSUME DocumentsInv, PayrollInv, NEW r \in Requests, PayCycle(r), runs' = runs
  PROVE  PayrollInv'
<1> DEFINE m == req[r].month
           k == Cycle(m)
           row == [View(r, k) EXCEPT !.status = "PAID"]
<1>1. Within(r, PayrollTables, PayrollLabels) /\ Booking(r) /\ pc[r] = "cyclePay"
  BY PayrollWithin DEF DocumentsInv, Own, PayrollStep, PayrollInv, PayCycle
<1>2. /\ Marked(r) /\ AllPaid(r) /\ Booked(r) = {ThisSlip(r)}
      /\ Write(r, k, row, "commit") /\ k[1] \in PayrollTables
  BY <1>1, PayrollKeys DEF Booking, PaidSlip, PayCycle
<1>3. k # ThisSlip(r) /\ View(r, k) = CycleOf(m)
  BY <1>2, PayrollKeys DEF Booked, View, CycleOf, ThisSlip
<1> HIDE DEF row
<1>4. /\ rows' = rows /\ pc'[r] = "commit" /\ req'[r] = req[r]
      /\ Booked(r)' = {ThisSlip(r), k} /\ draft'[r][k] = row
      /\ draft'[r][ThisSlip(r)] = draft[r][ThisSlip(r)]
  BY <1>2, <1>3, BookingWrites
<1>5. /\ OnList(m)' = OnList(m) /\ CycleOf(m)' = CycleOf(m)
      /\ \A s : SlipOf(m, s)' = SlipOf(m, s) /\ Ours(r, s)' = Ours(r, s)
  BY <1>4 DEF OnList, CycleOf, SlipOf, Ours
<1>6. Marked(r)' /\ AllPaid(r)'
  BY <1>2, <1>4, <1>5 DEF Marked, Marks, AllPaid, Ours, ThisSlip
<1>7. PaidCycle(r)'
  BY <1>3, <1>4, <1>5, <1>6 DEF PaidCycle, ThisSlip, row
<1>8. ~InRun(r)'
  BY <1>2, <1>4 DEF InRun, RunLabels, Marked, Marks
<1>9. Booking(r)'
  BY <1>4, <1>7 DEF Booking, RunLabels
<1> QED
  BY <1>1, <1>4, <1>8, <1>9, NoRunStarts

---------------------------------------------------------------------------
(***************************************************************************)
(* A commit.                                                               *)
(***************************************************************************)
LEMMA PayrollCommits ==
  ASSUME DocumentsInv, NEW r \in Requests, Commit(r)
  PROVE  /\ Alone(r) /\ pc[r] = "commit" /\ pc'[r] = "idle" /\ DOMAIN draft'[r] = {}
         /\ \A k : Row(rows', k) = View(r, k)
         /\ \A q \in Requests \ {r} : Booked(q) \cap Booked(r) = {}
         /\ Booking(r)' /\ ~InRun(r)'
<1>1. /\ Alone(r) /\ pc[r] = "commit" /\ pc'[r] = "idle" /\ DOMAIN draft'[r] = {}
      /\ \A k : Row(rows', k) = View(r, k)
  BY CommitRows
<1>2. \A q \in Requests \ {r} : Booked(q) \cap Booked(r) = {}
  BY DEF DocumentsInv, Exclusive, Booked
<1>3. Booking(r)' /\ ~InRun(r)'
  BY <1>1, NotBooking DEF Booked, PayrollLabels
<1> QED BY <1>1, <1>2, <1>3

LEMMA CommittedRows ==
  ASSUME DocumentsInv, NEW r \in Requests, Commit(r)
  PROVE  /\ \A m : CycleOf(m)' = IF Cycle(m) \in Booked(r) THEN draft[r][Cycle(m)] ELSE CycleOf(m)
         /\ \A m, s : SlipOf(m, s)' = IF Slip(m, s) \in Booked(r) THEN draft[r][Slip(m, s)]
                                                                 ELSE SlipOf(m, s)
<1>1. \A k : Row(rows', k) = View(r, k)
  BY PayrollCommits
<1>2. \A m : Row(rows', Cycle(m)) = IF Cycle(m) \in Booked(r) THEN draft[r][Cycle(m)]
                                                               ELSE Row(rows, Cycle(m))
  BY <1>1, PayrollKeys DEF View, Booked
<1>3. \A m, s : Row(rows', Slip(m, s)) = IF Slip(m, s) \in Booked(r) THEN draft[r][Slip(m, s)]
                                                                     ELSE Row(rows, Slip(m, s))
  BY <1>1, PayrollKeys DEF View, Booked
<1> QED
  BY <1>2, <1>3 DEF CycleOf, SlipOf, Cycle, Slip

LEMMA OtherMonths ==
  ASSUME DocumentsInv, NEW r \in Requests, Commit(r),
         Booked(r) \subseteq SlipsOf(req[r].month) \cup {Cycle(req[r].month)}
  PROVE  \A m : m # req[r].month => SameMonth(m)
<1>1. ASSUME NEW m, m # req[r].month
      PROVE  SameMonth(m)
  <2>1. Cycle(m) \notin Booked(r) /\ \A s : Slip(m, s) \notin Booked(r)
    BY <1>1, PayrollKeys DEF SlipsOf
  <2> QED
    BY <2>1, CommittedRows DEF SameMonth
<1> QED BY <1>1

(* The numbers of payslips are those there were, or that of the run.       *)
LEMMA NumberedAfter ==
  ASSUME DocumentsInv, PayrollInv, NEW r \in Requests, Commit(r), runs' = runs,
         \A m : \A s \in OnList(m)' :
           \/ s \in OnList(m) /\ SlipOf(m, s)'.id = SlipOf(m, s).id
           \/ InRun(r) /\ SlipOf(m, s)'.id = seen[r].id
  PROVE  Numbered'
<1>1. /\ Alone(r) /\ ~InRun(r)' /\ Numbered
  BY PayrollCommits DEF PayrollInv
<1>2. \A q \in Requests : InRun(q)' => q # r /\ InRun(q) /\ seen'[q] = seen[q]
  BY <1>1, OtherRuns
<1>4. runs' \in Nat /\ \A m : \A s \in OnList(m)' : SlipOf(m, s)'.id \in 1..runs'
  BY <1>1 DEF Numbered
<1>6. \A q \in Requests : InRun(q)' => seen'[q].id \in 1..runs'
  BY <1>1, <1>2 DEF Numbered
<1>7. ASSUME NEW q \in Requests, InRun(q)', NEW m, NEW s \in OnList(m)'
      PROVE  SlipOf(m, s)'.id # seen'[q].id
  <2>1. q # r /\ InRun(q) /\ seen'[q] = seen[q]
    BY <1>2, <1>7
  <2>2. CASE s \in OnList(m) /\ SlipOf(m, s)'.id = SlipOf(m, s).id
    BY <1>1, <2>1, <2>2 DEF Numbered
  <2>3. CASE InRun(r) /\ SlipOf(m, s)'.id = seen[r].id
    BY <1>1, <2>1, <2>3 DEF Numbered
  <2> QED
    BY <1>7, <2>2, <2>3
<1>9. \A p, q \in Requests : InRun(p)' /\ InRun(q)' /\ q # p => seen'[q].id # seen'[p].id
  BY <1>1, <1>2 DEF Numbered
<1> QED
  BY <1>4, <1>6, <1>7, <1>9 DEF Numbered

(* What is left to show of a commit is its own month.                      *)
LEMMA MonthCommits ==
  ASSUME DocumentsInv, PayrollInv, NEW r \in Requests, Commit(r), runs' = runs,
         NEW m, m = req[r].month, Booked(r) \subseteq SlipsOf(m) \cup {Cycle(m)},
         Settled(m)', Numbered',
         \A q \in Requests \ {r} : req[q].month = m => Booking(q)'
  PROVE  PayrollInv'
<1>1. Alone(r) /\ pc'[r] = "idle" /\ DOMAIN draft'[r] = {} /\ Booking(r)'
  BY PayrollCommits
<1>2. \A n : n # m => SameMonth(n)
  BY OtherMonths
<1>3. ASSUME NEW q \in Requests \ {r} PROVE Booking(q)'
  BY <1>1, <1>2, BookingKept DEF Alone, PayrollInv
<1>4. ASSUME NEW n PROVE Settled(n)'
  <2>1. CASE n = m
    BY <2>1
  <2>2. CASE n # m
    BY <1>2, <2>2, SameMonthFacts DEF PayrollInv
  <2> QED BY <2>1, <2>2
<1>5. Confined(PayrollTables, PayrollLabels)'
  BY <1>1, ConfinedKept DEF PayrollInv
<1> QED
  BY <1>1, <1>3, <1>4, <1>5 DEF PayrollInv

(***************************************************************************)
(* A request goes on as before when the month keeps the payslips that it   *)
(* has, by their ids, and none of those that are paid is pending again.    *)
(***************************************************************************)
LEMMA BookingCarried ==
  ASSUME NEW q \in Requests, Booking(q), NEW m, m = req[q].month,
         draft'[q] = draft[q], pc'[q] = pc[q], req'[q] = req[q], seen'[q] = seen[q],
         Cycle(m) \in Booked(q) => CycleOf(m)' = CycleOf(m),
         \A s : Slip(m, s) \in Booked(q) => SlipOf(m, s)' = SlipOf(m, s),
         OnList(m)' = OnList(m),
         \A s \in OnList(m) :
           /\ SlipOf(m, s)'.id = SlipOf(m, s).id
           /\ SlipOf(m, s).status = "PAID" => SlipOf(m, s)'.status = "PAID"
  PROVE  Booking(q)'
<1>1. /\ req'[q].month = m /\ Booked(q)' = Booked(q)
      /\ \A s : Ours(q, s)' = Ours(q, s) /\ Payslip(q, s)' = Payslip(q, s)
      /\ \A s : Ours(q, s) = Slip(m, s)
  BY DEF Booked, Ours, Payslip
<1>2. Runner(q)' = Runner(q) /\ RunWrites(q)' = RunWrites(q) /\ Marks(q)' = Marks(q)
  BY <1>1 DEF Runner, RunWrites, Marks
<1>3. Replaced(q)' = Replaced(q)
  BY <1>1 DEF Replaced
<1>5. Marked(q) /\ AllPaid(q) => AllPaid(q)'
  <2>1. \A s : SlipOf(req[q].month, s)' = SlipOf(m, s)' /\ OnList(req[q].month)' = OnList(m)'
    BY DEF SlipOf, OnList
  <2> QED
    BY <1>1, <2>1 DEF AllPaid, Marked
<1>6. ASSUME Marked(q), ThisSlip(q) \in Booked(q) PROVE Marked(q)'
  <2>1. SlipOf(m, req[q].staff)' = SlipOf(m, req[q].staff) /\ req[q].staff \in OnList(m)
    BY <1>6 DEF ThisSlip, Marked
  <2>2. SlipOf(req[q].month, req[q].staff)' = SlipOf(m, req[q].staff)
    BY <2>1 DEF SlipOf
  <2> QED
    BY <1>1, <1>2, <1>6, <2>1, <2>2 DEF Marked
<1>7. /\ NewCycle(q) => NewCycle(q)'
      /\ NewSlips(q) => NewSlips(q)'
      /\ PaidSlip(q) => PaidSlip(q)'
  BY <1>1, <1>2, <1>3, <1>6 DEF NewCycle, NewSlips, PaidSlip, ThisSlip, CycleOf
<1>8. PaidCycle(q) => PaidCycle(q)'
  BY <1>1, <1>5, <1>6 DEF PaidCycle, ThisSlip, CycleOf
<1> QED
  BY <1>1, <1>2, <1>3, <1>5, <1>7, <1>8 DEF Booking, SlipsOf, PaidSlip

LEMMA NewCycleCommits ==
  ASSUME DocumentsInv, PayrollInv, NEW r \in Requests, Commit(r), runs' = runs, NewCycle(r)
  PROVE  PayrollInv'
<1>1. PICK m : m = req[r].month
  OBVIOUS
<1>2. /\ Booked(r) = {Cycle(m)} /\ CycleOf(m) = NoRow /\ Settled(m)
      /\ draft[r][Cycle(m)] = [status |-> "DRAFT", totals |-> NoTotals]
  BY <1>1 DEF NewCycle, PayrollInv
<1>3. /\ CycleOf(m)' = [status |-> "DRAFT", totals |-> NoTotals]
      /\ \A n, s : SlipOf(n, s)' = SlipOf(n, s)
  BY <1>2, CommittedRows, PayrollKeys
<1>4. \A n : OnList(n)' = OnList(n)
  BY <1>3 DEF OnList
<1>5. OnList(m) = {}
  BY <1>2 DEF Settled, Started
<1>6. NoTotals \in [{} -> Nets]
  BY DEF NoTotals
<1>7. CycleOf(m)' \in CycleRow
  <2>1. {} \in SUBSET Staff
    OBVIOUS
  <2> QED
    BY <1>3, <1>6, <2>1 DEF CycleRow
<1>8. Settled(m)'
  BY <1>3, <1>4, <1>5, <1>7 DEF Settled, Started
<1>9. Numbered'
  BY <1>3, <1>4, NumberedAfter
<1>10. ASSUME NEW q \in Requests \ {r}, req[q].month = m PROVE Booking(q)'
  <2>1. /\ draft'[q] = draft[q] /\ pc'[q] = pc[q] /\ req'[q] = req[q] /\ seen'[q] = seen[q]
        /\ Booking(q) /\ Cycle(m) \notin Booked(q)
    BY <1>2, PayrollCommits DEF Alone, PayrollInv
  <2> QED
    BY <1>3, <1>4, <1>10, <2>1, BookingCarried
<1> QED
  BY <1>1, <1>2, <1>8, <1>9, <1>10, MonthCommits

(* A payslip becomes PAID, perhaps with the cycle.                         *)
LEMMA PaymentCommits ==
  ASSUME DocumentsInv, PayrollInv, NEW r \in Requests, Commit(r), runs' = runs,
         PaidSlip(r) \/ PaidCycle(r)
  PROVE  PayrollInv'
<1>1. PICK m, t : m = req[r].month /\ t = req[r].staff
  OBVIOUS
<1> DEFINE RestPaid == \A s \in OnList(m) :
             s # t /\ SlipOf(m, s).id = SlipOf(m, t).id => SlipOf(m, s).status = "PAID"
<1>2. /\ t \in OnList(m) /\ Slip(m, t) \in Booked(r) /\ Settled(m) /\ SlipOf(m, t) \in SlipRow
      /\ draft[r][Slip(m, t)] = [SlipOf(m, t) EXCEPT !.status = "PAID"]
      /\ Booked(r) \subseteq {Slip(m, t), Cycle(m)}
  BY <1>1 DEF PaidSlip, PaidCycle, Marked, ThisSlip, Ours, PayrollInv, Settled
<1>3. \/ Cycle(m) \notin Booked(r)
      \/ /\ Cycle(m) \in Booked(r) /\ RestPaid
         /\ draft[r][Cycle(m)] = [CycleOf(m) EXCEPT !.status = "PAID"]
  BY <1>1, PayrollKeys DEF PaidSlip, PaidCycle, AllPaid, ThisSlip
<1>4. /\ SlipOf(m, t)' = [SlipOf(m, t) EXCEPT !.status = "PAID"]
      /\ \A s : s # t => SlipOf(m, s)' = SlipOf(m, s)
      /\ \A n, s : n # m => SlipOf(n, s)' = SlipOf(n, s)
  BY <1>2, CommittedRows, PayrollKeys
<1>5. \A s \in OnList(m) : SlipOf(m, s) \in SlipRow
  BY <1>2 DEF Settled
<1>6. \A s \in OnList(m) :
        /\ SlipOf(m, s)' \in SlipRow /\ SlipOf(m, s)'.id = SlipOf(m, s).id
        /\ SlipOf(m, s)'.net = SlipOf(m, s).net
        /\ SlipOf(m, s).status = "PAID" => SlipOf(m, s)'.status = "PAID"
        /\ s = t => SlipOf(m, s)'.status = "PAID"
  BY <1>4, <1>5 DEF SlipRow
<1>7. OnList(m)' = OnList(m) /\ \A n : n # m => OnList(n)' = OnList(n)
  <2>1. \A s \in Staff \ OnList(m) : SlipOf(m, s)' = NoRow
    BY <1>2, <1>4 DEF OnList
  <2>2. \A s \in OnList(m) : s \in Staff /\ SlipOf(m, s)' # NoRow
    BY <1>6, PayrollRows DEF OnList
  <2> QED
    BY <1>4, <2>1, <2>2 DEF OnList
<1>8. Started(m) /\ CycleOf(m) \in CycleRow
  BY <1>2 DEF Settled, Started
<1>9. /\ CycleOf(m)' \in CycleRow /\ CycleOf(m)'.totals = CycleOf(m).totals
      /\ CycleOf(m)'.status # "DRAFT"
      /\ \/ CycleOf(m)' = CycleOf(m)
         \/ RestPaid
  <2>1. CASE Cycle(m) \notin Booked(r)
    BY <1>8, <2>1, CommittedRows DEF Started
  <2>2. CASE Cycle(m) \in Booked(r)
    <3>1. CycleOf(m)' = [CycleOf(m) EXCEPT !.status = "PAID"]
      BY <1>3, <2>2, CommittedRows
    <3>2. /\ CycleOf(m)' \in CycleRow /\ CycleOf(m)'.totals = CycleOf(m).totals
          /\ CycleOf(m)'.status = "PAID"
      BY <1>8, <3>1 DEF CycleRow
    <3> QED
      BY <1>3, <2>2, <3>2
  <2> QED BY <2>1, <2>2
<1>10. Settled(m)'
  <2>1. PICK i : TotalsAreOf(m, i)
    BY <1>2, <1>8 DEF Settled
  <2>2. OfRun(m, i)' = OfRun(m, i) /\ OfRun(m, i) \subseteq OnList(m)
    BY <1>6, <1>7 DEF OfRun
  <2>3. [s \in OfRun(m, i)' |-> SlipOf(m, s)'.net] = [s \in OfRun(m, i) |-> SlipOf(m, s).net]
    BY <1>6, <2>2
  <2>4. ASSUME OfRun(m, i) = OnList(m), CycleOf(m)'.status = "PAID"
        PROVE  \A s \in OnList(m) : SlipOf(m, s)'.status = "PAID"
    <3>1. CASE CycleOf(m)' = CycleOf(m)
      BY <1>6, <2>1, <2>4, <3>1 DEF TotalsAreOf
    <3>2. CASE RestPaid
      BY <1>2, <1>6, <2>4, <3>2 DEF OfRun
    <3> QED BY <1>9, <3>1, <3>2
  <2>5. TotalsAreOf(m, i)'
    BY <1>7, <1>9, <2>1, <2>2, <2>3, <2>4 DEF TotalsAreOf
  <2>6. CycleOf(m)' # NoRow /\ \A s \in OnList(m)' : SlipOf(m, s)' \in SlipRow
    BY <1>6, <1>7, <1>9, PayrollRows
  <2> QED
    BY <1>9, <2>5, <2>6 DEF Settled, Started, SlipRow, CycleRow
<1>11. Numbered'
  <2>1. ASSUME NEW n, NEW s \in OnList(n)'
        PROVE  s \in OnList(n) /\ SlipOf(n, s)'.id = SlipOf(n, s).id
    BY <1>4, <1>6, <1>7, <2>1
  <2> QED
    BY <2>1, NumberedAfter
<1>12. ASSUME NEW q \in Requests \ {r}, req[q].month = m PROVE Booking(q)'
  <2>1. /\ draft'[q] = draft[q] /\ pc'[q] = pc[q] /\ req'[q] = req[q] /\ seen'[q] = seen[q]
        /\ Booking(q) /\ Booked(q) \cap Booked(r) = {}
    BY PayrollCommits DEF Alone, PayrollInv
  <2>2. \A s : Slip(m, s) \in Booked(q) => SlipOf(m, s)' = SlipOf(m, s)
    BY <1>2, <1>4, <2>1
  <2>3. Cycle(m) \in Booked(q) => CycleOf(m)' = CycleOf(m)
    BY <2>1, CommittedRows
  <2> QED
    BY <1>6, <1>7, <1>12, <2>1, <2>2, <2>3, BookingCarried
<1>13. Booked(r) \subseteq SlipsOf(m) \cup {Cycle(m)}
  BY <1>2 DEF SlipsOf, OnList
<1> QED
  BY <1>1, <1>10, <1>11, <1>12, <1>13, MonthCommits

(* The totals are those of the payslips of the run.                        *)
LEMMA RunCommits ==
  ASSUME DocumentsInv, PayrollInv, NEW r \in Requests, Commit(r), runs' = runs, NewSlips(r)
  PROVE  PayrollInv'
<1>1. PICK m, net, id : m = req[r].month /\ net = seen[r].net /\ id = seen[r].id
  OBVIOUS
<1>2. PICK S \in (SUBSET Staff) \ {{}} : net \in [S -> Nets]
  BY <1>1 DEF NewSlips, Runner
<1>3. /\ DOMAIN net = S /\ \A s \in S : net[s] \in Nets /\ s \in Staff
  BY <1>2
<1>4. /\ Cycle(m) \in Booked(r) /\ Booked(r) \subseteq SlipsOf(m) \cup {Cycle(m)}
      /\ draft[r][Cycle(m)] = [status |-> "APPROVED", totals |-> net]
      /\ \A s \in S : /\ Slip(m, s) \in Booked(r)
                      /\ draft[r][Slip(m, s)] = [id |-> id, net |-> net[s], status |-> "PENDING"]
      /\ \A s \in Staff \ S : Slip(m, s) \in Booked(r) => draft[r][Slip(m, s)] = NoRow
  BY <1>1, <1>3 DEF NewSlips, Replaced, Ours, Payslip
<1>5. InRun(r) /\ id \in Nat /\ pc[r] = "commit"
  <2>1. pc[r] = "commit" /\ Numbered
    BY PayrollCommits DEF PayrollInv
  <2>2. InRun(r)
    BY <1>1, <1>4, <2>1 DEF InRun, NewSlips, Runner
  <2> QED
    BY <1>1, <2>1, <2>2 DEF Numbered
<1>6. /\ CycleOf(m)' = [status |-> "APPROVED", totals |-> net]
      /\ \A s \in S : SlipOf(m, s)' = [id |-> id, net |-> net[s], status |-> "PENDING"]
      /\ \A s \in Staff \ S : SlipOf(m, s)' = NoRow \/ SlipOf(m, s)' = SlipOf(m, s)
  BY <1>4, CommittedRows
<1>7. \A s \in S : SlipOf(m, s)' \in SlipRow /\ SlipOf(m, s)'.id = id /\ SlipOf(m, s)'.net = net[s]
  BY <1>3, <1>5, <1>6 DEF SlipRow
<1>8. /\ S \subseteq OnList(m)'
      /\ \A s \in OnList(m)' \ S : s \in OnList(m) /\ SlipOf(m, s)' = SlipOf(m, s)
  BY <1>3, <1>6, <1>7, PayrollRows DEF OnList
<1>9. \A s \in OnList(m) : SlipOf(m, s) \in SlipRow /\ SlipOf(m, s).id # id
  BY <1>1, <1>5 DEF PayrollInv, Settled, Numbered
<1>10. Settled(m)'
  <2>1. OfRun(m, id)' = S
    BY <1>7, <1>8, <1>9 DEF OfRun
  <2>2. net = [s \in S |-> SlipOf(m, s)'.net]
    BY <1>2, <1>7
  <2>3. TotalsAreOf(m, id)'
    BY <1>2, <1>6, <2>1, <2>2 DEF TotalsAreOf
  <2>4. CycleOf(m)' \in CycleRow
    BY <1>2, <1>6 DEF CycleRow
  <2>5. \A s \in OnList(m)' : SlipOf(m, s)' \in SlipRow
    BY <1>7, <1>8, <1>9
  <2> QED
    BY <1>6, <2>3, <2>4, <2>5, PayrollRows DEF Settled, Started, SlipRow, CycleRow
<1>11. Numbered'
  <2>1. ASSUME NEW n, NEW s \in OnList(n)', n # m
        PROVE  s \in OnList(n) /\ SlipOf(n, s)'.id = SlipOf(n, s).id
    <3>1. SameMonth(n)
      BY <1>1, <1>4, <2>1, OtherMonths
    <3> QED
      BY <2>1, <3>1, SameMonthFacts DEF SameMonth, OnList
  <2> QED
    BY <1>1, <1>5, <1>7, <1>8, <2>1, NumberedAfter
<1>12. ASSUME NEW q \in Requests \ {r}, req[q].month = m PROVE Booking(q)'
  <2>1. /\ draft'[q] = draft[q] /\ pc'[q] = pc[q] /\ req'[q] = req[q] /\ seen'[q] = seen[q]
        /\ Booking(q) /\ Booked(q) \cap Booked(r) = {}
    BY PayrollCommits DEF Alone, PayrollInv
  <2>2. /\ Booked(q)' = Booked(q) /\ req'[q].month = m
        /\ \A s : Ours(q, s)' = Ours(q, s) /\ Payslip(q, s)' = Payslip(q, s)
        /\ \A s : Ours(q, s) = Slip(m, s)
        /\ \A s : SlipOf(req[q].month, s)' = SlipOf(m, s)' /\ OnList(req[q].month)' = OnList(m)'
    BY <1>12, <2>1 DEF Booked, Ours, Payslip, SlipOf, OnList
  <2>3. /\ Runner(q)' = Runner(q) /\ RunWrites(q)' = RunWrites(q) /\ Marks(q)' = Marks(q)
        /\ Replaced(q)' = Replaced(q)
    BY <2>1, <2>2 DEF Runner, RunWrites, Marks, Replaced
  <2>4. ~PaidCycle(q) /\ ~NewSlips(q) /\ ~NewCycle(q)
    BY <1>4, <1>12, <2>1 DEF PaidCycle, NewSlips, NewCycle
  <2>5. ASSUME PaidSlip(q)
        PROVE  PaidSlip(q)' /\ (AllPaid(q) => AllPaid(q)')
    <3>1. PICK t : t = req[q].staff
      OBVIOUS
    <3>2. t \in OnList(m) /\ Slip(m, t) \in Booked(q)
      BY <1>12, <2>5, <3>1 DEF PaidSlip, Marked, ThisSlip
    <3>3. SlipOf(m, t)' = SlipOf(m, t) /\ t \notin S
      BY <1>4, <2>1, <3>2, CommittedRows
    <3>4. t \in OnList(m)'
      BY <3>2, <3>3 DEF OnList
    <3>5. PaidSlip(q)'
      BY <1>12, <2>1, <2>2, <2>3, <2>5, <3>1, <3>3, <3>4 DEF PaidSlip, Marked, ThisSlip
    <3>6. AllPaid(q) => AllPaid(q)'
      BY <1>7, <1>8, <1>9, <1>12, <2>1, <2>2, <3>1, <3>2, <3>3 DEF AllPaid
    <3> QED BY <3>5, <3>6
  <2>6. SlipsOf(req[q].month)' = SlipsOf(req[q].month)
    BY <2>1 DEF SlipsOf
  <2> QED
    BY <2>1, <2>2, <2>3, <2>4, <2>5, <2>6 DEF Booking, RunLabels
<1> QED
  BY <1>1, <1>4, <1>10, <1>11, <1>12, MonthCommits

LEMMA CommittingPayroll ==
  ASSUME DocumentsInv, PayrollInv, NEW r \in Requests, Commit(r), runs' = runs
  PROVE  PayrollInv'
<1>1. Booked(r) = {} \/ NewCycle(r) \/ NewSlips(r) \/ PaidSlip(r) \/ PaidCycle(r)
  BY PayrollCommits DEF PayrollInv, Booking
<1>2. CASE Booked(r) = {}
  <2>1. /\ Alone(r) /\ Booking(r)' /\ ~InRun(r)' /\ DOMAIN draft'[r] = {}
        /\ pc'[r] = "idle"
    BY PayrollCommits
  <2>2. SameRows
    BY <1>2, PayrollCommits DEF SameRows, View, Booked
  <2>3. Numbered'
    BY <2>1, <2>2, NumberedKept
  <2>4. Confined(PayrollTables, PayrollLabels)'
    BY <2>1, ConfinedKept DEF PayrollInv
  <2> QED
    BY <2>1, <2>2, <2>3, <2>4, OtherBookings DEF PayrollInv
<1> QED
  BY <1>1, <1>2, NewCycleCommits, RunCommits, PaymentCommits

LEMMA PayrollInitHolds == Init => PayrollInv
<1> SUFFICES ASSUME Init
             PROVE  PayrollInv
  OBVIOUS
<1>1. /\ \A k : Row(rows, k) = NoRow
      /\ \A r \in Requests : DOMAIN draft[r] = {} /\ pc[r] = "idle"
      /\ runs = 0
  BY DEF Init, DbInit, NoRows, Row, PayrollInit
<1>2. \A m : CycleOf(m) = NoRow /\ OnList(m) = {}
  BY <1>1 DEF CycleOf, SlipOf, OnList
<1>3. \A m : Settled(m)
  BY <1>2 DEF Settled, Started
<1>4. \A r \in Requests : ~InRun(r) /\ Booking(r)
  BY <1>1 DEF InRun, RunLabels, Booking
<1>5. Numbered
  BY <1>1, <1>2, <1>4 DEF Numbered
<1> QED
  BY <1>1, <1>3, <1>4, <1>5 DEF PayrollInv, Confined

LEMMA PayrollNext == DocumentsInv /\ PayrollInv /\ [Next]_vars => PayrollInv'
<1> SUFFICES ASSUME DocumentsInv, PayrollInv, [Next]_vars
             PROVE  PayrollInv'
  OBVIOUS
<1>1. CASE Outside \/ UNCHANGED vars
  <2>1. UNCHANGED <<rows, draft, pc, req, seen, runs>>
    BY <1>1, OutsideAside DEF Aside
  <2>2. \A m : SameMonth(m) /\ OnList(m)' = OnList(m) /\ \A s : SlipOf(m, s)' = SlipOf(m, s)
    BY <2>1 DEF SameMonth, CycleOf, SlipOf, OnList
  <2>3. \A m : Settled(m)'
    BY <2>2, SameMonthFacts DEF PayrollInv
  <2>4. \A r \in Requests : Booking(r)'
    BY <2>1, <2>2, BookingKept DEF PayrollInv
  <2>5. \A r \in Requests : InRun(r)' = InRun(r)
    BY <2>1 DEF InRun, Booked
  <2>6. Numbered'
    BY <2>1, <2>2, <2>5 DEF PayrollInv, Numbered
  <2> QED
    BY <2>1, <2>3, <2>4, <2>6 DEF PayrollInv, Confined
<1>2. ASSUME NEW r \in Requests, Arrival(r) \/ RequestStep(r) \/ Fails(r) \/ DeadlockVictim(r)
      PROVE  PayrollInv'
  <2>1. \/ PayrollArrival(r) \/ PayrollStep(r)
        \/ /\ runs' = runs
           /\ \/ Commit(r) \/ AdmissionsArrival(r) \/ AdmissionsStep(r)
              \/ CertificatesArrival(r) \/ CertificatesStep(r)
              \/ PtmArrival(r) \/ PtmStep(r) \/ DocumentsArrival(r) \/ DocumentsStep(r)
              \/ Fails(r) \/ DeadlockVictim(r)
    BY <1>2 DEF Arrival, RequestStep, Elsewhere, Fails, DeadlockVictim
  <2>2. CASE PayrollArrival(r)
    BY <2>2, PayrollArrivalKeeps
  <2>3. CASE PayrollStep(r)
    BY <2>3, PayrollLooksKeep, InsertCycleKeeps, ComputePayslipsKeeps, FindSlipsKeeps,
       DeleteSlipsKeeps, CreateSlipKeeps, ApproveCycleKeeps, PaySlipKeeps, PayCycleKeeps
       DEF PayrollStep
  <2>4. CASE runs' = runs /\ Commit(r)
    BY <2>4, CommittingPayroll
  <2>5. CASE /\ runs' = runs
             /\ \/ AdmissionsArrival(r) \/ AdmissionsStep(r)
                \/ CertificatesArrival(r) \/ CertificatesStep(r)
                \/ PtmArrival(r) \/ PtmStep(r) \/ DocumentsArrival(r) \/ DocumentsStep(r)
                \/ Fails(r) \/ DeadlockVictim(r)
    <3>1. Confined(PayrollTables, PayrollLabels)
      BY DEF PayrollInv
    <3>2. /\ PayrollTables \cap (PtmTables \cup DocumentsTables) = {}
          /\ PayrollLabels \cap (PtmLabels \cup DocLabels) = {}
          /\ {"commit", "idle"} \cap PayrollLabels = {}
      BY PartsApart
    <3>3. Leaves(r, PayrollTables, PayrollLabels)
      BY <2>5, <3>1, <3>2, PartsApart, AdmissionsLeaves, CertificatesLeaves,
         PtmAndDocumentsLeave, FailuresLeave
    <3> QED
      BY <2>5, <3>3, LeavingPayroll
  <2> QED BY <2>1, <2>2, <2>3, <2>4, <2>5
<1> QED
  BY <1>1, <1>2 DEF Next

(***************************************************************************)
(* Cycles and payslips as committed, and what each request of payroll has  *)
(* read and written (processPayrollCycle, markPayslipPaid), always fit as  *)
(* PayrollInv says, for any number of months, staff and requests.          *)
(***************************************************************************)
THEOREM PayrollInvHolds == Spec => []PayrollInv
BY PayrollInitHolds, PayrollNext, DocumentsInvHolds, PTL DEF Spec

(***************************************************************************)
(* A cycle that is no draft has the totals of all the payslips that one    *)
(* run made (processPayrollCycle), each of them still as it was computed;  *)
(* and unless another run has left payslips, it is PAID only when each is. *)
(* It holds however runs of the month and payments of its payslips cross,  *)
(* whoever is on the list of each run.                                     *)
(***************************************************************************)
THEOREM CycleMatchesSlipsHolds == Spec => []CycleMatchesSlips
<1>1. PayrollInv => CycleMatchesSlips
  <2> SUFFICES ASSUME PayrollInv, NEW m \in Months, Started(m)
               PROVE  LET slips == {s \in Staff : Row(rows, Slip(m, s)) # NoRow}
                          Of(i) == {s \in slips : rows[Slip(m, s)].id = i} IN
                      \E i \in {rows[Slip(m, s)].id : s \in slips} :
                        /\ Row(rows, Cycle(m)).totals = [s \in Of(i) |-> rows[Slip(m, s)].net]
                        /\ Of(i) = slips /\ Row(rows, Cycle(m)).status = "PAID" =>
                             \A s \in slips : rows[Slip(m, s)].status = "PAID"
    BY DEF CycleMatchesSlips, Started, CycleOf
  <2> DEFINE slips == {s \in Staff : Row(rows, Slip(m, s)) # NoRow}
             Of(i) == {s \in slips : rows[Slip(m, s)].id = i}
  <2>1. OnList(m) = slips
    BY DEF OnList, SlipOf
  <2>2. \A s \in OnList(m) : SlipOf(m, s) = rows[Slip(m, s)]
    BY DEF OnList, SlipOf, Row
  <2>3. PICK i : TotalsAreOf(m, i)
    BY DEF PayrollInv, Settled
  <2>4. OfRun(m, i) = Of(i) /\ Of(i) \subseteq slips
    BY <2>1, <2>2 DEF OfRun
  <2>5. PICK s \in slips : rows[Slip(m, s)].id = i
    BY <2>3, <2>4 DEF TotalsAreOf
  <2>6. CycleOf(m).totals = [t \in Of(i) |-> rows[Slip(m, t)].net]
    BY <2>1, <2>2, <2>3, <2>4 DEF TotalsAreOf
  <2>7. Of(i) = slips /\ CycleOf(m).status = "PAID" =>
          \A t \in slips : rows[Slip(m, t)].status = "PAID"
    BY <2>1, <2>2, <2>3, <2>4 DEF TotalsAreOf
  <2>8. CycleOf(m) = Row(rows, Cycle(m))
    BY DEF CycleOf
  <2>9. i \in {rows[Slip(m, t)].id : t \in slips}
    BY <2>5
  <2> HIDE DEF slips
  <2> QED
    BY <2>6, <2>7, <2>8, <2>9 DEF slips
<1> QED
  BY <1>1, PayrollInvHolds, PTL
=============================================================================
