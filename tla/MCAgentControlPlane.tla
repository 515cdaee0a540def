------------------------ MODULE MCAgentControlPlane ------------------------
(***************************************************************************)
(* Small instances of the agent control plane for TLC.  Operations of      *)
(* different families below have neither a row, nor a key, nor a           *)
(* fingerprint, nor a domain record in common: the bound OneFamily leaves  *)
(* out the behaviours that mix them.                                       *)
(***************************************************************************)
EXTENDS AgentControlPlane, TLC

CONSTANTS u1, u2, leaveX, essay, note1, note2, digest, cover, k1, r1, r2

ToolOf == (leaveX :> "approve_leave") @@ (essay :> "create_assignment")
          @@ (note1 :> "send_announcement") @@ (note2 :> "send_announcement")
          @@ (digest :> "automation_daily_digest")
          @@ (cover :> "automation_timetable_cover")

MCTool == [o \in Ops |-> ToolOf[o]]

OwnTarget == [o \in Ops |-> o]

AllPrincipals == [u \in Users |-> "PRINCIPAL"]

(* Who has asked for what, with a key or without.                          *)
Asked ==
  {<<info[a].user, info[a].op, info[a].key>> : a \in {b \in ActionIds : info[b] # NoInfo}}
  \cup {<<req[r].user, req[r].op, req[r].key>> :
          r \in {q \in Requests : pc[q] \in ProposeLabels}}

Unchanged(u) == role[u] = InitialRole[u] /\ u \in active

(* A user who asks for nothing keeps role and account.                     *)
Bystanders == \A u \in Users : (\A t \in Asked : t[1] # u) => Unchanged(u)

(* Two approvers of one leave.                                             *)
Leaves == Asked \subseteq Users \X {leaveX} \X {NoKey}

(* Where no leave is asked for, HR does nothing about it.                  *)
NoReview ==
  hrReading = {} /\ \A o \in Ops : leave[o] \notin {"APPROVED_BY_HR", "CLOSED"}

(* Two authors of one assignment; teachers and principals may both.        *)
Essays ==
  /\ Asked \subseteq Users \X {essay} \X {NoKey}
  /\ role = InitialRole /\ aborts = 0 /\ NoReview

(* Two texts under one key.                                                *)
Notes ==
  /\ Asked \subseteq {u1} \X {note1, note2} \X {k1}
  /\ Unchanged(u1) /\ aborts = 0 /\ NoReview

(* No confirmation, and several items.                                     *)
Routines ==
  /\ Asked \subseteq {u1} \X {digest, cover} \X {NoKey}
  /\ Unchanged(u1) /\ NoReview

(* HR has one review or cancellation of a leave at hand at a time.         *)
OneReview == Cardinality(hrReading) <= 1

OneFamily ==
  Bystanders /\ OneReview /\ (Leaves \/ Essays \/ Notes \/ Routines)

(* The same, with crashes in the last family only: a crash in a request's  *)
(* transaction undoes it like any exception.  Two users who share an       *)
(* operation do not both lose their role or account, nor does HR meanwhile *)
(* decide on the leave.                                                    *)
OneFamilyTx ==
  /\ OneFamily
  /\ Leaves => aborts = 0
  /\ \E u \in Users : \A v \in Users \ {u} : Unchanged(v)
  /\ NoReview \/ \A u \in Users : Unchanged(u)

Proposed == {a \in ActionIds : info[a] # NoInfo}
BeingProposed == {r \in Requests : pc[r] \in ProposeLabels}

OneAction == Cardinality(Proposed) + Cardinality(BeingProposed) <= 1

OneEssay == Asked \subseteq Users \X {essay} \X {NoKey} /\ NoReview /\ OneAction

(* Where each call commits by itself: HR meets with one action.            *)
OneFamilyAuto ==
  /\ Bystanders /\ OneReview
  /\ \/ Leaves /\ Unchanged(u1) /\ (NoReview \/ OneAction)
     \/ Notes \/ Routines \/ OneEssay

(* A request takes the first slot that is free.                            *)
SlotsInOrder == pc[r2] = "idle" /\ pc'[r2] # "idle" => pc[r1] # "idle"
=============================================================================
