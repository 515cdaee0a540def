---------------------------- MODULE MCBreakGlass ----------------------------
(* BreakGlass with two administrators and one school.                      *)
EXTENDS BreakGlass, TLC

CONSTANTS u1, u2, s1, r1, r2

MCChains == Schools \cup {Platform}
MCSubjects == Grants \cup {0}
MCValues == Statuses

CONSTANTS
  MaxIds,        \* bound: ids handed out, rolled back ones included
  MaxTroubled    \* bound: the same where the clock moves; an abort takes one

(* Which of the two comes first, and which of them revokes, is the same    *)
(* up to their names.                                                      *)
Named ==
  /\ issued <= IF now = 0 /\ aborts = 0 THEN MaxIds ELSE MaxTroubled - aborts
  /\ info[1] # NoGrant => info[1].requester = u1
  /\ \A r \in Requests :
       req[r] # NoRequest /\ req[r].kind = "revoke" => req[r].admin = u1
=============================================================================
