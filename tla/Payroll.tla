------------------------------ MODULE Payroll ------------------------------
(***************************************************************************)
(* PayrollService: the cycle of a month is created, processed into one     *)
(* payslip for each member of the staff, any number of times, and paid     *)
(* payslip by payslip.  The cycle is PAID when no payslip is pending.      *)
(***************************************************************************)
EXTENDS RequestTransactions

CONSTANTS
  Months, Staff,
  Nets,     \* net salaries
  MaxRuns   \* bound: computations of payslips

ASSUME PayrollAssumption ==
  /\ MaxRuns \in Nat
  /\ NoRow \notin [id : Nat, net : Nets, status : {"PENDING", "PAID"}]
  /\ NoRow \notin [status : {"DRAFT", "APPROVED", "PAID"},
                   totals : UNION {[S -> Nets] : S \in SUBSET Staff}]

VARIABLES runs   \* computations so far: each makes payslips with new ids

Cycle(m) == <<"cycle", m>>
Slip(m, s) == <<"slip", m, s>>
SlipsOf(m) == {Slip(m, s) : s \in Staff}

(* The totals of a cycle are kept as what they are the totals of.          *)
NoTotals == [s \in {} |-> 0]

---------------------------------------------------------------------------
StartCycle(r, m) == Start(r, [kind |-> "cycle", month |-> m], "cycleLook")

Processing == {r \in Requests : pc[r] \in {"cycleRead", "staffRead"}}

StartProcess(r, m) ==
  /\ runs + Cardinality(Processing) < MaxRuns
  /\ Start(r, [kind |-> "process", month |-> m], "cycleRead")

(* A payslip is named by its id.                                           *)
StartMark(r, m, s) ==
  /\ Row(rows, Slip(m, s)) # NoRow
  /\ Start(r, [kind |-> "mark", month |-> m, staff |-> s, id |-> rows[Slip(m, s)].id],
           "slipRead")

---------------------------------------------------------------------------
(* createPayrollCycle.                                                     *)
LookForCycle(r) ==
  LET existing == Row(rows, Cycle(req[r].month)) # NoRow IN
  /\ pc[r] = "cycleLook"
  /\ \/ existing /\ Throw(r)
     \/ ~existing /\ Branch(r, "cycleInsert")

InsertCycle(r) ==
  /\ pc[r] = "cycleInsert"
  /\ Insert(r, Cycle(req[r].month), [status |-> "DRAFT", totals |-> NoTotals], "commit")

---------------------------------------------------------------------------
(***************************************************************************)
(* processPayrollCycle.                                                    *)
(***************************************************************************)
ReadCycle(r) ==
  LET cycle == Row(rows, Cycle(req[r].month)) IN
  /\ pc[r] = "cycleRead"
  /\ \/ cycle = NoRow /\ Throw(r)
     \/ cycle # NoRow /\ cycle.status = "PAID" /\ Throw(r)
     \/ cycle # NoRow /\ cycle.status # "PAID" /\ Branch(r, "staffRead")

(* Nobody has a salary yet.                                                *)
RefuseNoStaff(r) == pc[r] = "staffRead" /\ Throw(r)

(* Staff, salaries and leaves are those of the moment: the active staff    *)
(* changes from run to run, and so do the nets.  Two runs may have nobody  *)
(* in common.                                                              *)
ComputePayslips(r) ==
  /\ pc[r] = "staffRead"
  /\ runs' = runs + 1
  /\ \E staff \in (SUBSET Staff) \ {{}} :
       \E net \in [staff -> Nets] :
         Read(r, [id |-> runs + 1, net |-> net, left |-> {}], "slipsFind")

(* deleteMany finds the payslips that are there when it begins ...         *)
FindSlips(r) ==
  /\ pc[r] = "slipsFind"
  /\ Read(r, [seen[r] EXCEPT !.left =
                {<<k, View(r, k).id>> : k \in Found(r, SlipsOf(req[r].month))}],
          "slipsDelete")

StillThere(r, k, id) == View(r, k) # NoRow /\ View(r, k).id = id

(* ... and deletes each, after whoever holds it, unless it is gone by then.*)
DeleteSlips(r) ==
  /\ pc[r] = "slipsDelete"
  /\ \/ seen[r].left = {} /\ Branch(r, "slipCreate")
     \/ \E found \in seen[r].left :
          LET k == found[1] IN
          /\ Unlocked(r, k)
          /\ draft' = IF StillThere(r, k, found[2])
                      THEN [draft EXCEPT ![r] = Put(@, k, NoRow)] ELSE draft
          /\ seen' = [seen EXCEPT ![r].left = @ \ {found}]
          /\ UNCHANGED <<rows, pc, req, aborts>>

(* The payslips that the run has still to create, in the order of a        *)
(* findMany without one.                                                   *)
ToCreate(r) ==
  {s \in DOMAIN seen[r].net : ~StillThere(r, Slip(req[r].month, s), seen[r].id)}

(* Mutant: createMany with skipDuplicates keeps the payslip of another run.*)
CreateSlipOrSkip(r) ==
  LET m == req[r].month
      missing == {s \in ToCreate(r) : View(r, Slip(m, s)) = NoRow} IN
  /\ pc[r] = "slipCreate"
  /\ \/ missing = {} /\ Branch(r, "cycleApprove")
     \/ \E s \in missing :
          Write(r, Slip(m, s),
                [id |-> seen[r].id, net |-> seen[r].net[s], status |-> "PENDING"],
                "slipCreate")

CreateSlip(r) ==
  /\ pc[r] = "slipCreate"
  /\ \/ ToCreate(r) = {} /\ Branch(r, "cycleApprove")
     \/ \E s \in ToCreate(r) :
          Insert(r, Slip(req[r].month, s),
                 [id |-> seen[r].id, net |-> seen[r].net[s], status |-> "PENDING"],
                 "slipCreate")

(* The cycle is written by its id, whatever it has become.                 *)
ApproveCycle(r) ==
  /\ pc[r] = "cycleApprove"
  /\ Write(r, Cycle(req[r].month), [status |-> "APPROVED", totals |-> seen[r].net], "commit")

---------------------------------------------------------------------------
(***************************************************************************)
(* markPayslipPaid.                                                        *)
(***************************************************************************)
ThisSlip(r) == Slip(req[r].month, req[r].staff)

ReadSlip(r) ==
  LET there == StillThere(r, ThisSlip(r), req[r].id) IN
  /\ pc[r] = "slipRead"
  /\ \/ ~there /\ Throw(r)
     \/ there /\ Branch(r, "slipPay")

(* Whatever the payslip is, it is now paid: unless it has been deleted.    *)
PaySlip(r) ==
  LET there == StillThere(r, ThisSlip(r), req[r].id) IN
  /\ pc[r] = "slipPay"
  /\ Update(r, ThisSlip(r), there,
            IF there THEN [View(r, ThisSlip(r)) EXCEPT !.status = "PAID"] ELSE NoRow,
            "slipCount")

Pending(r) == {k \in Found(r, SlipsOf(req[r].month)) : View(r, k).status = "PENDING"}

CountPending(r) ==
  /\ pc[r] = "slipCount"
  /\ Branch(r, IF Pending(r) = {} THEN "cyclePay" ELSE "commit")

PayCycle(r) ==
  /\ pc[r] = "cyclePay"
  /\ Write(r, Cycle(req[r].month),
           [View(r, Cycle(req[r].month)) EXCEPT !.status = "PAID"], "commit")

---------------------------------------------------------------------------
PayrollInit == runs = 0

PayrollArrival(r) ==
  /\ \E m \in Months : \/ StartCycle(r, m) \/ StartProcess(r, m)
                       \/ \E s \in Staff : StartMark(r, m, s)
  /\ UNCHANGED runs

PayrollStep(r) ==
  \/ ComputePayslips(r)
  \/ /\ \/ LookForCycle(r) \/ InsertCycle(r) \/ ReadCycle(r) \/ RefuseNoStaff(r)
        \/ FindSlips(r) \/ DeleteSlips(r) \/ CreateSlip(r) \/ ApproveCycle(r)
        \/ ReadSlip(r) \/ PaySlip(r) \/ CountPending(r) \/ PayCycle(r)
     /\ UNCHANGED runs

PayrollWants(r) ==
  CASE pc[r] \in {"cycleInsert", "cycleApprove", "cyclePay"} -> {Cycle(req[r].month)}
    [] pc[r] = "slipsDelete" -> {found[1] : found \in seen[r].left}
    [] pc[r] = "slipCreate"  -> {Slip(req[r].month, s) : s \in ToCreate(r)}
    [] pc[r] = "slipPay"     -> {ThisSlip(r)}
    [] OTHER                 -> {}

---------------------------------------------------------------------------
(* A cycle that is no draft agrees with its payslips, however processing   *)
(* and payments of them cross: its totals are those of all the payslips    *)
(* that one run has made, each of them still as that run computed it.      *)
(* When there are no others, a cycle that is PAID has none pending.  Two   *)
(* runs at once with nobody in common do leave the payslips of both.       *)
CycleMatchesSlips ==
  \A m \in Months :
    LET cycle == Row(rows, Cycle(m))
        slips == {s \in Staff : Row(rows, Slip(m, s)) # NoRow}
        OfRun(i) == {s \in slips : rows[Slip(m, s)].id = i} IN
    cycle # NoRow /\ cycle.status # "DRAFT" =>
      \E i \in {rows[Slip(m, s)].id : s \in slips} :
        /\ cycle.totals = [s \in OfRun(i) |-> rows[Slip(m, s)].net]
        /\ OfRun(i) = slips /\ cycle.status = "PAID" =>
             \A s \in slips : rows[Slip(m, s)].status = "PAID"
=============================================================================
