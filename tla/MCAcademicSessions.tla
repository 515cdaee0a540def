------------------------ MODULE MCAcademicSessions ------------------------
(* AcademicSessions in three families of requests that share no row.       *)
EXTENDS AcademicSessions, TLC

CONSTANTS y1, y2, s1, s2, a, b, c, p1, r1, r2

MCYearOf == [x \in Sections |-> IF x = c THEN y2 ELSE y1]

Coming == {req[r] : r \in Requests} \ {NoRequest}

Untouched ==
  /\ \A s \in Students : db[s] = "on"
  /\ \A e \in Enrolments : db[e] = "absent"

Quiet ==
  /\ cache = [st \in Stores |-> NoYear] /\ connected = Processes
  /\ resolving = [p \in Processes |-> NoYear]

(* Years are created and activated by two requests, or by one while the    *)
(* cache is asked.                                                         *)
YearFamily ==
  /\ \A q \in Coming : q.kind \in {"newYear", "addYear", "activate"}
  /\ Untouched /\ locked = {}
  /\ Quiet \/ (pc[r2] = "idle" /\ aborts = 0)

(* One request, with a lock, an abort or a second year.                    *)
Alone ==
  /\ pc[r2] = "idle"
  /\ Cardinality(locked) + aborts + (IF db[y2] = "absent" THEN 0 ELSE 1) <= 1

(* One student, whatever is done with the enrolments and the account.      *)
StudentFamily ==
  /\ \A q \in Coming :
       CASE q.kind = "promote" -> q.students = <<s1>> /\ q.from # q.to
         [] q.kind \in {"enroll", "activateRow", "closeRow", "delete"} -> q.item[1] = s1
         [] OTHER -> q.kind \in {"open", "close"} /\ q.item = s1
  /\ \A e \in Enrolments : e[1] # s1 => db[e] = "absent"
  /\ (locked = {} /\ aborts = 0 /\ db[y2] = "absent") \/ Alone
  /\ Quiet

(* Two students in one batch, after the first, or both, have been enrolled *)
(* in the first section.                                                   *)
BatchFamily ==
  /\ \/ Coming = {[kind |-> "enroll", item |-> <<s1, a>>]}
     \/ Coming = {[kind |-> "enroll", item |-> <<s2, a>>]} /\ db[<<s1, a>>] = "on"
     \/ \A q \in Coming : /\ q.kind = "promote" /\ q.to \notin {q.from, NoItem}
                            /\ q.students \in {<<s1, s2>>, <<s2, s1>>}
  /\ \A s \in Students : db[s] = "on"
  /\ locked = {} /\ aborts = 0 /\ db[y2] = "absent" /\ Quiet

OneFamily == YearFamily \/ StudentFamily \/ BatchFamily

(* A request takes the first slot that is free.                            *)
SlotsInOrder == pc[r2] = "idle" /\ pc'[r2] # "idle" => pc[r1] # "idle"
=============================================================================
