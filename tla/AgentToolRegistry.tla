------------------------- MODULE AgentToolRegistry -------------------------
(***************************************************************************)
(* The server-side tool registry of the AI agent, its policy and its       *)
(* status vocabulary: pure tables, no state.  A tool is known here by its  *)
(* registry name; what the control plane distinguishes about it is who may *)
(* use it, whether it must be confirmed, how its logical mutation is       *)
(* fingerprinted, and what its handler can tell after an interruption.     *)
(***************************************************************************)

MessageTools ==
  {"automation_fee_defaulter", "automation_absence_alert",
   "automation_attendance_warning"}

Tools ==
  MessageTools \cup
  {"approve_leave", "create_assignment", "send_announcement",
   "automation_timetable_cover", "automation_leave_recommendation",
   "automation_report_card_publish", "automation_daily_digest"}

Roles == {"SUPER_ADMIN", "SCHOOL_ADMIN", "PRINCIPAL", "TEACHER"}

(* allowedRoles of each entry.  validateToolRegistry refuses, at boot, a   *)
(* role without the entry's permissions, so the permission test adds       *)
(* nothing to the role test for a context built from ROLE_PERMISSIONS.     *)
AllowedRoles(tool) ==
  IF tool = "create_assignment" THEN Roles ELSE Roles \ {"TEACHER"}

NeedsConfirmation(tool) == tool # "automation_daily_digest"

IdempotencyStrategy(tool) ==
  CASE tool = "approve_leave"     -> "NATURAL_KEY"
    [] tool = "send_announcement" -> "REQUEST_KEY"
    [] OTHER                      -> "CONTENT_HASH"

(* Fingerprints that two users share: the leave itself, and an assignment. *)
ActorIndependent(tool) == tool \in {"approve_leave", "create_assignment"}

(* What handler.reconcile answers when it does not find the mutation.      *)
MissVerdict(tool) ==
  IF tool = "automation_daily_digest" THEN "UNKNOWN" ELSE "NOT_APPLIED"

(* Tools whose reconcile query also selects on the acting user.            *)
ActorScoped(tool) ==
  tool \in MessageTools \cup
    {"create_assignment", "send_announcement", "automation_daily_digest"}

(* A handler that writes item by item and whose verify demands all of      *)
(* them: it can throw after some of its writes were made.                  *)
SeveralItems(tool) ==
  tool \in {"automation_timetable_cover", "automation_leave_recommendation",
            "automation_report_card_publish"}

(* A handler that may end normally with nothing written, which its verify  *)
(* accepts: no substitute, no active recipient, no digest to send, no exam *)
(* that is ready.                                                          *)
MayDoNothing(tool) ==
  tool \in MessageTools \cup
    {"automation_timetable_cover", "automation_leave_recommendation",
     "automation_report_card_publish", "automation_daily_digest"}

---------------------------------------------------------------------------

Statuses ==
  {"PROPOSED", "AWAITING_CONFIRMATION", "CONFIRMED", "EXECUTING", "SUCCEEDED",
   "FAILED", "REJECTED", "EXPIRED", "CANCELLED"}

AllowedTransitions(from) ==
  CASE from = "PROPOSED" -> {"AWAITING_CONFIRMATION", "CONFIRMED", "CANCELLED"}
    [] from = "AWAITING_CONFIRMATION" ->
         {"CONFIRMED", "EXECUTING", "REJECTED", "EXPIRED", "CANCELLED"}
    [] from = "CONFIRMED" -> {"EXECUTING", "CANCELLED"}
    [] from = "EXECUTING" -> {"SUCCEEDED", "FAILED"}
    [] OTHER -> {}

(* AgentStateMachine.canConfirm; also the WHERE of the compare-and-set.    *)
Claimable == {"AWAITING_CONFIRMATION", "CONFIRMED"}

(* The rows the partial unique index on operationFingerprint covers.       *)
Indexed == {"PROPOSED", "AWAITING_CONFIRMATION", "CONFIRMED", "EXECUTING",
            "SUCCEEDED"}

InitialStatus(tool) ==
  IF NeedsConfirmation(tool) THEN "AWAITING_CONFIRMATION" ELSE "CONFIRMED"
=============================================================================
