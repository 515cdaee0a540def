----------------------------- MODULE PtmBooking -----------------------------
(***************************************************************************)
(* PtmService: the slots of a parent-teacher meeting, one for each teacher *)
(* and time, are booked for a student, cancelled, and completed.           *)
(***************************************************************************)
EXTENDS RequestTransactions

CONSTANTS
  Teachers, Times,
  Pupils,    \* the students that parents book for
  Nobody

Slots == Teachers \X Times

PtmSlot(s) == <<"slot", s[1], s[2]>>

Free == [status |-> "AVAILABLE", student |-> Nobody]

(* The slots that r sees booked for a student.                             *)
BookedFor(r, p) ==
  {s \in Slots : View(r, PtmSlot(s)) = [status |-> "BOOKED", student |-> p]}
---------------------------------------------------------------------------
(* One session.                                                            *)
StartSession(r) ==
  /\ \A q \in Requests : req[q] # [kind |-> "session"]
  /\ \A s \in Slots : Row(rows, PtmSlot(s)) = NoRow
  /\ Start(r, [kind |-> "session"], "sessionInsert")

StartBook(r, s, p) == Start(r, [kind |-> "book", slot |-> s, student |-> p], "bookRead")

StartCancel(r, s) == Start(r, [kind |-> "cancel", slot |-> s], "cancelRead")

StartComplete(r, s) == Start(r, [kind |-> "complete", slot |-> s], "completeRead")

---------------------------------------------------------------------------
(* createSession, of a session whose slots are new and all available.      *)
InsertSession(r) ==
  /\ pc[r] = "sessionInsert"
  /\ \A s \in Slots : Unlocked(r, PtmSlot(s))
  /\ draft' = [draft EXCEPT ![r] = [k \in {PtmSlot(s) : s \in Slots} |-> Free]]
  /\ Goto(r, "commit")
  /\ UNCHANGED <<rows, req, seen, aborts>>

ThisSlot(r) == PtmSlot(req[r].slot)

StatusOf(r) == IF View(r, ThisSlot(r)) = NoRow THEN "NONE" ELSE View(r, ThisSlot(r)).status

(* bookSlot: the slot, the student's slots with this teacher, and those at *)
(* this time, each read by a statement of its own.                         *)
ReadForBook(r) ==
  /\ pc[r] = "bookRead"
  /\ \/ StatusOf(r) # "AVAILABLE" /\ Throw(r)
     \/ StatusOf(r) = "AVAILABLE" /\ Branch(r, "teacherCheck")

CheckTeacher(r) ==
  LET same == {s \in BookedFor(r, req[r].student) : s[1] = req[r].slot[1]} IN
  /\ pc[r] = "teacherCheck"
  /\ \/ same # {} /\ Throw(r)
     \/ same = {} /\ Branch(r, "timeCheck")

CheckTime(r) ==
  LET same == {s \in BookedFor(r, req[r].student) : s[2] = req[r].slot[2]} IN
  /\ pc[r] = "timeCheck"
  /\ \/ same # {} /\ Throw(r)
     \/ same = {} /\ Branch(r, "slotBook")

(* By id, whatever the slot has become.                                    *)
Book(r) ==
  /\ pc[r] = "slotBook"
  /\ Write(r, ThisSlot(r), [status |-> "BOOKED", student |-> req[r].student], "commit")

ReadForCancel(r) ==
  /\ pc[r] = "cancelRead"
  /\ \/ StatusOf(r) # "BOOKED" /\ Throw(r)
     \/ StatusOf(r) = "BOOKED" /\ Branch(r, "slotCancel")

Cancel(r) == pc[r] = "slotCancel" /\ Write(r, ThisSlot(r), Free, "commit")

(* The teacher completes a slot of any status.                             *)
ReadForComplete(r) ==
  /\ pc[r] = "completeRead"
  /\ \/ StatusOf(r) = "NONE" /\ Throw(r)
     \/ StatusOf(r) # "NONE" /\ Branch(r, "slotComplete")

Complete(r) ==
  /\ pc[r] = "slotComplete"
  /\ Write(r, ThisSlot(r), [View(r, ThisSlot(r)) EXCEPT !.status = "COMPLETED"], "commit")

---------------------------------------------------------------------------
PtmArrival(r) ==
  \/ StartSession(r)
  \/ \E s \in Slots : \/ StartCancel(r, s) \/ StartComplete(r, s)
                      \/ \E p \in Pupils : StartBook(r, s, p)

PtmStep(r) ==
  \/ InsertSession(r) \/ ReadForBook(r) \/ CheckTeacher(r) \/ CheckTime(r) \/ Book(r)
  \/ ReadForCancel(r) \/ Cancel(r) \/ ReadForComplete(r) \/ Complete(r)

PtmWants(r) ==
  IF pc[r] \in {"slotBook", "slotCancel", "slotComplete"} THEN {ThisSlot(r)} ELSE {}

---------------------------------------------------------------------------
(* "Atomically check slot availability and book": a slot that is booked    *)
(* for one student is not booked for another until it has been cancelled.  *)
BookingStands ==
  [][\A s \in Slots :
       LET before == Row(rows, PtmSlot(s))
           after  == Row(rows', PtmSlot(s)) IN
       before # NoRow /\ before.status = "BOOKED" /\ after.status = "BOOKED"
         => after.student = before.student]_dbVars
=============================================================================
