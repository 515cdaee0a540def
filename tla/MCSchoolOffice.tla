--------------------------- MODULE MCSchoolOffice ---------------------------
(***************************************************************************)
(* The school office on a small instance.  The families of requests below  *)
(* share neither a row nor a file: OneFamily leaves out the behaviours     *)
(* that mix them.                                                          *)
(***************************************************************************)
EXTENDS SchoolOffice, TLC

CONSTANTS m1, s1, s2, d1, d2, t1, h1, p1, p2, b1, b2, b3, c1, c2, r1, r2

Busy  == {r \in Requests : pc[r] # "idle"}
Kinds == {req[r].kind : r \in Busy}

(* What is going on, and what there is.                                    *)
Used == Kinds \cup {k[1] : k \in DOMAIN rows}

CircuitQuiet == breaker = Closed /\ call = [c \in Callers |-> NoCall] /\ upstream
DocsQuiet    == now = 0 /\ stored = {} /\ late = {}

(* Two requests at a time; after a failure, one.                           *)
Pairs == Cardinality(Busy) + aborts <= 2

(* The first run is for s1, or for both (by symmetry), and the nets change *)
(* from each run to the next.                                              *)
ListOfRun(r) ==
  req[r].kind = "process" /\ seen[r] # Nothing =>
    /\ seen[r].id = 1 => s1 \in DOMAIN seen[r].net
    /\ \A s \in DOMAIN seen[r].net : seen[r].net[s] = 1 + (seen[r].id % 2)

(* The last run of processing meets another one, and no payment.           *)
PayrollFamily ==
  /\ runs = MaxRuns => "mark" \notin Kinds
  /\ CircuitQuiet /\ DocsQuiet /\ Pairs
  /\ \A r \in Busy : ListOfRun(r)

(* The first application is accepted and rejected, the second accepted.    *)
Decided(r) ==
  \/ req[r].status = "ACCEPTED"
  \/ req[r].status = "REJECTED" /\ req[r].number = 1

(* One student is entered, or has number or address changed, while those   *)
(* who applied are converted and nothing fails.                            *)
ChangedByHand ==
  {i \in Accounts : \/ rows[Account(i)] = OtherAddress
                    \/ \E k \in Students : rows[k].id = i /\ ~rows[k].drawn}
ChangingByHand == {r \in Busy : req[r].kind \in {"enter", "update"}}

ByHandOnce ==
  /\ Cardinality(ChangedByHand) + Cardinality(ChangingByHand) = 1
  /\ Kinds \subseteq {"convert", "enter", "update"} /\ aborts = 0
  /\ \A a \in Applications : rows[Application(a)].status = "ACCEPTED"
  /\ \A r \in ChangingByHand : req[r].kind = "update" => req[r].number # 0

AdmissionsFamily ==
  /\ \A r \in Busy : req[r].kind \in {"status", "reject"} => Decided(r)
  /\ ByHandOnce \/ ChangedByHand \cup ChangingByHand = {}
  /\ CircuitQuiet /\ DocsQuiet /\ runs = 0 /\ Pairs

(* One document, and whatever is done with it once it is there; or two     *)
(* that are only uploaded and purged.                                      *)
DocumentsFamily ==
  /\ "upload" \in Kinds => Cardinality(Busy) = 1 /\ now = 0
  /\ \/ /\ d2 \notin stored
        /\ \A r \in Busy : req[r].kind # "sweep" => req[r].doc = d1
     \/ Kinds \subseteq {"upload", "sweep"} /\ aborts = 0
  /\ CircuitQuiet /\ runs = 0 /\ Pairs

PtmFamily ==
  /\ Used \subseteq {"session", "book", "cancel", "complete", "slot"}
  /\ CircuitQuiet /\ DocsQuiet /\ runs = 0 /\ Pairs

(* A list is gone through from p1 to p2; at most one certificate is revoked.*)
CertificatesFamily ==
  /\ \A r \in Busy : pc[r] = "learnerNext" => req[r].students # {p1}
  /\ Cardinality({k \in DOMAIN rows : rows[k].revoked})
       + Cardinality({r \in Busy : req[r].kind = "revoke"}) <= 1
  /\ CircuitQuiet /\ DocsQuiet /\ runs = 0 /\ Pairs

CircuitFamily == DocsQuiet /\ runs = 0 /\ aborts = 0

OneFamily ==
  LET used == Used IN
  \/ used \subseteq {"cycle", "process", "mark", "slip"} /\ PayrollFamily
  \/ /\ used \subseteq {"apply", "status", "reject", "convert", "enter", "update",
                       "application", "user", "account", "student", "counter"}
     /\ AdmissionsFamily
  \/ /\ used \subseteq {"upload", "policy", "delete", "rescan", "sweep", "document"}
     /\ DocumentsFamily
  \/ PtmFamily
  \/ used \subseteq {"issue", "revoke", "certificate"} /\ CertificatesFamily
  \/ used = {} /\ CircuitFamily

(* A request takes the first slot that is free.                            *)
SlotsInOrder == pc[r2] = "idle" /\ pc'[r2] # "idle" => pc[r1] # "idle"
=============================================================================
