---------------------------- MODULE SchoolOffice ----------------------------
(***************************************************************************)
(* The school office: payroll, admissions, documents, certificates and     *)
(* parent-teacher meetings as requests over one database, beside the calls *)
(* of the language model.  Every route runs in the transaction that        *)
(* TenantDatabaseInterceptor opens for it; the retention job opens one for *)
(* each document.                                                          *)
(***************************************************************************)
EXTENDS Payroll, Admissions, Documents, PtmBooking, Certificates, AiCircuit

vars == <<dbVars, runs, docVars, circuitVars>>

Elsewhere == UNCHANGED <<runs, docVars, circuitVars>>

Init == DbInit /\ PayrollInit /\ DocumentsInit /\ CircuitInit

Arrival(r) ==
  \/ PayrollArrival(r) /\ UNCHANGED <<docVars, circuitVars>>
  \/ (AdmissionsArrival(r) \/ PtmArrival(r) \/ CertificatesArrival(r)) /\ Elsewhere
  \/ DocumentsArrival(r) /\ UNCHANGED <<runs, circuitVars>>

RequestStep(r) ==
  \/ PayrollStep(r) /\ UNCHANGED <<docVars, circuitVars>>
  \/ DocumentsStep(r) /\ UNCHANGED <<runs, circuitVars>>
  \/ (AdmissionsStep(r) \/ PtmStep(r) \/ CertificatesStep(r) \/ Commit(r)) /\ Elsewhere

Fails(r) == (AbortDocument(r) \/ PurgeFails(r)) /\ UNCHANGED <<runs, circuitVars>>

Wants(r) ==
  PayrollWants(r) \cup AdmissionsWants(r) \cup DocumentsWants(r) \cup PtmWants(r)
    \cup CertificatesWants(r)

DeadlockVictim(r) == Victim(r, [q \in Requests |-> Wants(q)]) /\ Elsewhere

Outside ==
  \/ (Tick \/ \E d \in Docs : LateDeletion(d)) /\ UNCHANGED <<runs, circuitVars>>
  \/ CircuitNext /\ UNCHANGED <<dbVars, runs, docVars>>

Next ==
  \/ \E r \in Requests : Arrival(r) \/ RequestStep(r) \/ Fails(r) \/ DeadlockVictim(r)
  \/ Outside

Spec == Init /\ [][Next]_vars

SweepDue ==
  /\ \E d \in Docs : Due(d)
  /\ \E r \in Requests : StartSweep(r) /\ Stays /\ UNCHANGED <<runs, circuitVars>>

(* Requests run on, locks are granted in the order they are asked for, the *)
(* database resolves deadlocks, the job runs every day, calls of the model *)
(* end by their timeout, and a cooldown passes.                            *)
FairSpec ==
  /\ Spec
  /\ \A r \in Requests : SF_vars(RequestStep(r))
  /\ WF_vars(\E r \in Requests : DeadlockVictim(r))
  /\ SF_vars(SweepDue)
  /\ \A c \in Callers : WF_vars(CallStep(c) /\ UNCHANGED <<dbVars, runs, docVars>>)
  /\ WF_vars(Cool /\ UNCHANGED <<dbVars, runs, docVars>>)

---------------------------------------------------------------------------
(* Every request and every run of the job ends, whichever rows they wait   *)
(* for one another to release: processing and payments of one cycle,       *)
(* conversions that draw a number, changes of a document that is purged.   *)
RequestsEnd == \A r \in Requests : pc[r] # "idle" ~> pc[r] = "idle"
=============================================================================
