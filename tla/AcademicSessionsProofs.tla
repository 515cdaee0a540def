------------------------ MODULE AcademicSessionsProofs ------------------------
(***************************************************************************)
(* Proofs about academic years and enrolment, for any number of years,     *)
(* students, sections and requests.                                        *)
(***************************************************************************)
EXTENDS AcademicSessions, FiniteSetTheorems, SequenceTheorems, TLAPS

---------------------------------------------------------------------------
(***************************************************************************)
(* Requests by their kind, and the rest of a batch.                        *)
(***************************************************************************)
LEMMA Arguments ==
  ASSUME NEW x \in ReqType
  PROVE  /\ x.kind \in {"newYear", "addYear", "activate", "enroll", "activateRow", "closeRow",
                        "delete", "open", "close", "promote"}
         /\ x.kind \in {"newYear", "addYear", "activate"} => x.item \in Years
         /\ x.kind \in {"enroll", "activateRow", "closeRow", "delete"} => x.item \in Enrolments
         /\ x.kind \in {"open", "close"} => x.item \in Students
         /\ x.kind = "promote" => x.from \in Sections /\ x.to \in Sections \cup {NoItem}
BY DEF ReqType

LEMMA Batched ==
  ASSUME NEW b \in Batches
  PROVE  /\ b # <<>> /\ Head(b) \in Students
         /\ Tail(b) \in Batches \cup {<<>>}
         /\ Len(b) # 1 => Tail(b) \in Batches
<1>1. PICK n \in 1..MaxBatch : b \in [1..n -> Students]
  BY DEF Batches
<1>2. MaxBatch \in Nat /\ n \in Nat /\ n >= 1 /\ n <= MaxBatch
  BY SessionsAssumption
<1>3. b \in Seq(Students) /\ Len(b) = n /\ b # <<>>
  <2>1. b \in Seq(Students)
    BY <1>1, <1>2
  <2>2. Len(b) = n
    BY <1>1, <1>2, <2>1, LenProperties
  <2> QED
    BY <1>2, <2>1, <2>2, EmptySeq
<1>4. Head(b) \in Students /\ Tail(b) \in Seq(Students) /\ Len(Tail(b)) = n - 1
  BY <1>3, HeadTailProperties
<1>5. Tail(b) \in [1..(n - 1) -> Students]
  BY <1>4, LenProperties
<1>6. CASE n = 1
  <2>1. Len(Tail(b)) \notin Nat \ {0}
    BY <1>4, <1>6
  <2>2. Tail(b) = <<>>
    BY <1>4, <2>1, EmptySeq
  <2> QED
    BY <1>3, <1>4, <1>6, <2>2
<1>7. CASE n # 1
  BY <1>2, <1>3, <1>4, <1>5, <1>7 DEF Batches
<1> QED
  BY <1>6, <1>7

---------------------------------------------------------------------------
(***************************************************************************)
(* What is known of a request at each of its statements.                   *)
(***************************************************************************)
Shape(r) ==
  /\ pc[r] # "idle" => req[r] \in ReqType
  /\ pc[r] \in {"look", "insertOff"} => req[r].kind = "addYear"
  /\ pc[r] = "insert" => req[r].kind \in {"newYear", "addYear", "enroll"}
  /\ pc[r] \in {"student", "year", "existing"} => req[r].kind = "enroll"
  /\ pc[r] = "read" => req[r].kind \in {"activate", "activateRow", "closeRow", "delete"}
  /\ pc[r] = "conflict" => req[r].kind = "activateRow"
  /\ pc[r] \in {"find", "off"} => req[r].kind \in {"newYear", "activate", "close", "promote"}
  /\ pc[r] \in {"join", "next"} => req[r].kind = "promote"
  /\ pc[r] = "join" => req[r].to # NoItem
  /\ pc[r] \in {"find", "off", "join", "next"} /\ req[r].kind = "promote" => batch[r] \in Batches
  /\ pc[r] = "account" => req[r].kind \in {"open", "close"}
  /\ pc[r] = "latest" => req[r].kind = "open"
  /\ pc[r] = "switchOn" => req[r].kind \in {"activate", "activateRow", "open"}
  /\ pc[r] = "switchOff" => req[r].kind = "closeRow"
  /\ pc[r] = "delete" => req[r].kind = "delete"
  /\ pc[r] \in {"switchOff", "delete"} => rows[r] \subseteq Enrolments
  /\ pc[r] = "off" /\ req[r].kind \in {"close", "promote"} => rows[r] \subseteq Enrolments

Typed == TypeOK /\ \A r \in Requests : Shape(r)

(* The other requests stay as they are.                                    *)
Alone(r) ==
  \A q \in Requests \ {r} :
    pc'[q] = pc[q] /\ req'[q] = req[q] /\ batch'[q] = batch[q] /\ rows'[q] = rows[q]

(***************************************************************************)
(* The effects that a step of a request can have on rows: none; its        *)
(* changes are undone; it writes one row; it commits.                      *)
(***************************************************************************)
Reads == db' = db /\ draft' = draft

Ends(r) == db' = db /\ draft' = [draft EXCEPT ![r] = AllClean] /\ pc'[r] = "idle"

Writes(r, i, state) ==
  /\ i \in Items /\ Unlocked(r, i)
  /\ db' = db /\ draft' = [draft EXCEPT ![r][i] = state]

(* A row that no index opposes, or one that no index knows.                *)
Allowed(r, i) ==
  \/ i \in Students
  \/ ~Refused(r, i) /\ \A q \in Others(r) : ~HoldsPeer(q, i)

Effect(r) ==
  \/ Reads
  \/ Ends(r)
  \/ \E i, state : /\ Writes(r, i, state) /\ state \in States
                   /\ state = "on" => Allowed(r, i)

(* A step of r that may be taken anywhere.                                 *)
Stepped(r) == TypeOK' /\ Shape(r)' /\ Alone(r) /\ Effect(r)

LEMMA ItemsApart ==
  /\ \A i \in Students : i \in Items /\ i \notin Years /\ i \notin Enrolments
  /\ \A i \in Years : i \in Items /\ i \notin Students /\ i \notin Enrolments
  /\ \A i \in Enrolments : i \in Items /\ i \notin Years /\ i \notin Students
BY SessionsAssumption DEF Items

LEMMA ThrowSteps ==
  ASSUME Typed, NEW r \in Requests, Undo(r), aborts' \in 0..MaxAborts
  PROVE  Stepped(r) /\ Ends(r)
<1> USE DEF Undo, Finish, Goto, store, cached
<1>1. Ends(r) /\ Alone(r)
  BY DEF Typed, TypeOK, Ends, Alone
<1>2. TypeOK'
  BY DEF Typed, TypeOK, Labels, AllClean
<1>3. Shape(r)'
  BY DEF Typed, TypeOK, Shape
<1> QED
  BY <1>1, <1>2, <1>3 DEF Stepped, Effect

LEMMA BranchSteps ==
  ASSUME Typed, NEW r \in Requests, NEW l \in Labels \ {"idle"}, Branch(r, l), pc[r] # "idle",
         Shape(r)'
  PROVE  Stepped(r) /\ Reads
<1> USE DEF Branch, Goto, store, loc, cached
<1>1. Reads /\ Alone(r)
  BY DEF Typed, TypeOK, Reads, Alone
<1>2. TypeOK'
  BY DEF Typed, TypeOK
<1> QED
  BY <1>1, <1>2 DEF Stepped, Effect

LEMMA WriteSteps ==
  ASSUME Typed, NEW r \in Requests, NEW l \in Labels \ {"idle"}, NEW i \in Items,
         NEW state \in States, Write(r, i, state, l), pc[r] # "idle",
         state = "on" => Allowed(r, i), Shape(r)'
  PROVE  Stepped(r) /\ Writes(r, i, state)
<1> USE DEF Write, Goto, store, loc, cached
<1>1. Writes(r, i, state) /\ Alone(r)
  BY DEF Typed, TypeOK, Writes, Alone
<1>2. TypeOK'
  BY DEF Typed, TypeOK
<1> QED
  BY <1>1, <1>2 DEF Stepped, Effect

LEMMA SetOnSteps ==
  ASSUME Typed, NEW r \in Requests, NEW l \in Labels \ {"idle"}, NEW i \in Items,
         SetOn(r, i, l), pc[r] # "idle", pc'[r] = l => Shape(r)'
  PROVE  Stepped(r) /\ (Ends(r) \/ (Writes(r, i, "on") /\ pc'[r] = l))
<1>1. CASE Throw(r)
  BY <1>1, ThrowSteps DEF Throw, Typed, TypeOK
<1>2. CASE ~Refused(r, i) /\ Write(r, i, "on", l)
  <2>1. pc'[r] = l
    BY <1>2 DEF Write, Goto, Typed, TypeOK
  <2> QED
    BY <1>2, <2>1, WriteSteps DEF SetOn, Allowed, States
<1> QED
  BY <1>1, <1>2 DEF SetOn

(* r goes on with other rows in view.                                      *)
LEMMA RowsSteps ==
  ASSUME Typed, NEW r \in Requests, NEW l \in Labels \ {"idle"}, NEW S \in SUBSET Items,
         rows' = [rows EXCEPT ![r] = S], Goto(r, l),
         UNCHANGED <<store, draft, req, batch, aborts>>, pc[r] # "idle", Shape(r)'
  PROVE  Stepped(r) /\ Reads
<1> USE DEF Goto, store, cached
<1>1. Reads /\ Alone(r)
  BY DEF Typed, TypeOK, Reads, Alone
<1>2. TypeOK'
  BY DEF Typed, TypeOK
<1> QED
  BY <1>1, <1>2 DEF Stepped, Effect

(* While the years are switched over, before one is active again.          *)
SwitchingYears(r) ==
  pc[r] \in {"off", "insert", "switchOn"} /\ req[r].kind \in {"newYear", "activate"}

(* How a step of r may take away the active year: only on its way to make  *)
(* one active before it commits.                                           *)
YearStep(r) ==
  \/ pc'[r] = "idle"
  \/ /\ ~SwitchingYears(r) /\ pc[r] # "commit"
     /\ \A y \in Years : draft'[r][y] \in {draft[r][y], "on"} \/ db[y] = "absent"
  \/ SwitchingYears(r)'
  \/ pc'[r] = "commit" /\ \E y \in Years : draft'[r][y] = "on"

Good(r) == Stepped(r) /\ YearStep(r)

LEMMA ThrowGood ==
  ASSUME Typed, NEW r \in Requests, Undo(r), aborts' \in 0..MaxAborts
  PROVE  Good(r)
BY ThrowSteps DEF Good, Ends, YearStep

LEMMA ThrowIsGood ==
  ASSUME Typed, NEW r \in Requests, Throw(r)
  PROVE  Good(r)
BY ThrowGood DEF Throw, Typed, TypeOK

LEMMA BranchGood ==
  ASSUME Typed, NEW r \in Requests, NEW l \in Labels \ {"idle"}, Branch(r, l), pc[r] # "idle",
         ~SwitchingYears(r), pc[r] # "commit", Shape(r)'
  PROVE  Good(r)
BY BranchSteps DEF Good, Reads, YearStep

(***************************************************************************)
(* The statements, in the order of the module.                             *)
(***************************************************************************)
LEMMA StartGood ==
  ASSUME Typed, NEW r \in Requests, NEW x \in ReqType, NEW b \in Batches \cup {<<>>},
         NEW l \in {"look", "find", "read", "student", "account"}, Start(r, x, b, l),
         \/ l = "look" /\ x.kind = "addYear"
         \/ l = "find" /\ x.kind \in {"newYear", "promote"}
         \/ l = "read" /\ x.kind \in {"activate", "activateRow", "closeRow", "delete"}
         \/ l = "student" /\ x.kind = "enroll"
         \/ l = "account" /\ x.kind \in {"open", "close"},
         x.kind = "promote" => b \in Batches
  PROVE  Good(r)
<1> USE DEF Start, Goto, store, cached
<1>1. Reads /\ Alone(r)
  BY DEF Typed, TypeOK, Reads, Alone
<1>2. pc'[r] = l /\ req'[r] = x /\ batch'[r] = b
  BY DEF Typed, TypeOK
<1>3. TypeOK'
  BY DEF Typed, TypeOK, Labels
<1>4. Shape(r)'
  BY <1>2 DEF Shape
<1>5. YearStep(r)
  BY <1>1 DEF YearStep, SwitchingYears, Reads
<1> QED
  BY <1>1, <1>3, <1>4, <1>5 DEF Good, Stepped, Effect

LEMMA ArrivalGood ==
  ASSUME Typed, NEW r \in Requests, Arrival(r)
  PROVE  Good(r)
<1>1. ASSUME NEW y \in Years, StartYear(r, y)
      PROVE  Good(r)
  BY <1>1, StartGood DEF StartYear, StartItem, ReqType
<1>2. ASSUME NEW e \in Enrolments, StartEnrolment(r, e)
      PROVE  Good(r)
  BY <1>2, StartGood DEF StartEnrolment, StartItem, ReqType
<1>3. ASSUME NEW s \in Students, StartAccount(r, s)
      PROVE  Good(r)
  BY <1>3, StartGood DEF StartAccount, StartItem, ReqType
<1>4. ASSUME NEW from \in Sections, NEW to \in Sections \cup {NoItem}, NEW students \in Batches,
             StartPromotion(r, from, to, students)
      PROVE  Good(r)
  BY <1>4, StartGood DEF StartPromotion, ReqType
<1> QED
  BY <1>1, <1>2, <1>3, <1>4 DEF Arrival

(* The rows that an updateMany can find, and where it goes on.             *)
LEMMA Scoped ==
  ASSUME Typed, NEW r \in Requests, pc[r] \in {"find", "off"}
  PROVE  /\ req[r].kind \in {"newYear", "activate"} => Scope(r) = Years
         /\ req[r].kind \in {"close", "promote"} => Scope(r) \subseteq Enrolments
         /\ Scope(r) \subseteq Items /\ AfterOff(r) \in Labels \ {"idle"}
         /\ req[r].kind = "newYear" => AfterOff(r) = "insert"
         /\ req[r].kind = "activate" => AfterOff(r) = "switchOn"
         /\ req[r].kind = "close" => AfterOff(r) = "commit"
         /\ req[r].kind = "promote" =>
              AfterOff(r) \in {"next", "join"} /\ (AfterOff(r) = "join" => req[r].to # NoItem)
<1>1. req[r] \in ReqType /\ Shape(r)
  BY DEF Typed, Shape
<1>2. req[r].kind \in {"newYear", "activate", "close", "promote"}
  BY <1>1 DEF Shape
<1>3. CASE req[r].kind \in {"newYear", "activate"}
  BY <1>3 DEF Scope, AfterOff, Items, Labels
<1>4. CASE req[r].kind = "close"
  BY <1>4 DEF Scope, AfterOff, Items, Labels
<1>5. CASE req[r].kind = "promote"
  <2>1. Leaving(r) \in Enrolments
    BY <1>1, <1>5, Arguments, Batched DEF Shape, Leaving, Enrolments
  <2> QED
    BY <1>5, <2>1 DEF Scope, AfterOff, Items, Labels
<1> QED
  BY <1>2, <1>3, <1>4, <1>5

LEMMA FindActiveGood ==
  ASSUME Typed, NEW r \in Requests, FindActive(r)
  PROVE  Good(r)
<1> DEFINE S == {i \in Scope(r) : View(r, i) = "on"}
           l == IF S = {} THEN AfterOff(r) ELSE "off"
<1>1. /\ pc[r] = "find" /\ Shape(r) /\ S \in SUBSET Items /\ l \in Labels \ {"idle"}
  BY Scoped DEF FindActive, Typed, Labels
<1>2. /\ rows' = [rows EXCEPT ![r] = S] /\ Goto(r, l)
      /\ UNCHANGED <<store, draft, req, batch, aborts>>
  BY DEF FindActive, Typed, TypeOK
<1>3. pc'[r] = l /\ rows'[r] = S /\ req'[r] = req[r] /\ batch'[r] = batch[r]
  BY <1>2 DEF Goto, Typed, TypeOK
<1>4. req[r].kind \in {"newYear", "activate", "close", "promote"} /\ req[r] \in ReqType
  BY <1>1 DEF Shape
<1>5. req[r].kind \in {"close", "promote"} => S \subseteq Enrolments
  BY <1>1, Scoped
<1>6. Shape(r)'
  <2>1. CASE S # {}
    BY <1>1, <1>3, <1>4, <1>5, <2>1 DEF Shape
  <2>2. CASE S = {}
    <3>1. pc'[r] = AfterOff(r)
      BY <1>3, <2>2
    <3> HIDE DEF S, l
    <3>2. CASE req[r].kind = "newYear"
      BY <1>1, <1>3, <1>4, <3>1, <3>2, Scoped DEF Shape
    <3>3. CASE req[r].kind = "activate"
      BY <1>1, <1>3, <1>4, <3>1, <3>3, Scoped DEF Shape
    <3>4. CASE req[r].kind = "close"
      BY <1>1, <1>3, <1>4, <3>1, <3>4, Scoped DEF Shape
    <3>5. CASE req[r].kind = "promote"
      BY <1>1, <1>3, <1>4, <3>1, <3>5, Scoped DEF Shape
    <3> QED
      BY <1>4, <3>2, <3>3, <3>4, <3>5
  <2> QED BY <2>1, <2>2
<1> HIDE DEF S, l
<1>7. Stepped(r) /\ Reads
  BY <1>1, <1>2, <1>6, RowsSteps
<1> QED
  BY <1>1, <1>7 DEF Good, YearStep, SwitchingYears, Reads

(* From the last row that an updateMany has found to what comes after it.  *)
LEMMA AfterOffShape ==
  ASSUME Typed, NEW r \in Requests, pc[r] = "off", pc'[r] \in {AfterOff(r), "off"},
         req'[r] = req[r], batch'[r] = batch[r], rows'[r] \subseteq rows[r]
  PROVE  /\ Shape(r)' /\ pc'[r] \in Labels \ {"idle"}
         /\ req[r].kind \in {"newYear", "activate"} => SwitchingYears(r)'
<1>1. Shape(r) /\ req[r] \in ReqType /\ req[r].kind \in {"newYear", "activate", "close", "promote"}
  BY DEF Typed, Shape
<1>2. CASE pc'[r] = "off"
  BY <1>1, <1>2 DEF Shape, SwitchingYears, Labels
<1>3. CASE pc'[r] = AfterOff(r)
  <2>1. CASE req[r].kind = "newYear"
    BY <1>1, <1>3, <2>1, Scoped DEF Shape, SwitchingYears, Labels
  <2>2. CASE req[r].kind = "activate"
    BY <1>1, <1>3, <2>2, Scoped DEF Shape, SwitchingYears, Labels
  <2>3. CASE req[r].kind = "close"
    BY <1>1, <1>3, <2>3, Scoped DEF Shape, Labels
  <2>4. CASE req[r].kind = "promote"
    BY <1>1, <1>3, <2>4, Scoped DEF Shape, Labels
  <2> QED
    BY <1>1, <2>1, <2>2, <2>3, <2>4
<1> QED BY <1>2, <1>3

LEMMA SwitchOffGood ==
  ASSUME Typed, NEW r \in Requests, SwitchOff(r)
  PROVE  Good(r)
<1>1. /\ pc[r] = "off" /\ Shape(r) /\ rows[r] \in SUBSET Items
      /\ req[r].kind \in {"newYear", "activate", "close", "promote"}
  BY DEF SwitchOff, Typed, TypeOK, Shape
<1>2. CASE Branch(r, AfterOff(r))
  <2>1. pc'[r] = AfterOff(r) /\ req'[r] = req[r] /\ batch'[r] = batch[r] /\ rows'[r] = rows[r]
    BY <1>2 DEF Branch, Goto, loc, Typed, TypeOK
  <2>2. Shape(r)' /\ AfterOff(r) \in Labels \ {"idle"}
    BY <1>1, <2>1, AfterOffShape
  <2>3. Stepped(r) /\ Reads
    BY <1>1, <1>2, <2>2, BranchSteps
  <2>4. req[r].kind \in {"newYear", "activate"} => SwitchingYears(r)'
    BY <1>1, <2>1, AfterOffShape
  <2> QED
    BY <1>1, <2>3, <2>4 DEF Good, YearStep, SwitchingYears, Reads
<1>3. CASE ~Branch(r, AfterOff(r))
  <2>1. PICK i \in rows[r] :
          /\ Unlocked(r, i)
          /\ draft' = IF View(r, i) = "on" THEN [draft EXCEPT ![r][i] = "off"] ELSE draft
          /\ rows' = [rows EXCEPT ![r] = @ \ {i}]
          /\ Goto(r, IF rows[r] = {i} THEN AfterOff(r) ELSE "off")
          /\ UNCHANGED <<store, req, batch, aborts>>
    BY <1>3 DEF SwitchOff
  <2>2. /\ pc'[r] \in {AfterOff(r), "off"} /\ req'[r] = req[r] /\ batch'[r] = batch[r]
        /\ rows'[r] \subseteq rows[r]
    BY <2>1 DEF Goto, Typed, TypeOK
  <2>3. /\ Shape(r)' /\ pc'[r] \in Labels \ {"idle"}
        /\ req[r].kind \in {"newYear", "activate"} => SwitchingYears(r)'
    BY <1>1, <2>2, AfterOffShape
  <2>4. TypeOK'
    <3>1. pc' \in [Requests -> Labels] /\ rows' \in [Requests -> SUBSET Items]
      BY <2>1, <2>3 DEF Goto, Typed, TypeOK
    <3>2. draft' \in [Requests -> [Items -> States \cup {"clean"}]]
      BY <2>1 DEF Typed, TypeOK, States
    <3>3. \A q \in Requests :
            pc'[q] = "idle" => req'[q] = NoRequest /\ draft'[q] = AllClean /\ rows'[q] = {}
      <4> SUFFICES ASSUME NEW q \in Requests \ {r}, pc'[q] = "idle"
                   PROVE  req'[q] = NoRequest /\ draft'[q] = AllClean /\ rows'[q] = {}
        BY <2>3
      <4> QED
        BY <2>1 DEF Goto, Typed, TypeOK
    <3> QED
      BY <2>1, <3>1, <3>2, <3>3 DEF Typed, TypeOK, store, cached
  <2>5. Alone(r)
    BY <2>1 DEF Goto, Typed, TypeOK, Alone
  <2>6. Effect(r)
    BY <1>1, <2>1 DEF Effect, Reads, Writes, States, store
  <2>7. CASE req[r].kind \in {"close", "promote"}
    <3>1. i \notin Years
      BY <1>1, <2>7, ItemsApart DEF Shape
    <3>2. \A y \in Years : draft'[r][y] = draft[r][y]
      BY <1>1, <2>1, <3>1 DEF Typed, TypeOK
    <3> QED
      BY <1>1, <2>3, <2>4, <2>5, <2>6, <2>7, <3>2 DEF Good, Stepped, YearStep, SwitchingYears
  <2> QED
    BY <1>1, <2>3, <2>4, <2>5, <2>6, <2>7 DEF Good, Stepped, YearStep
<1> QED BY <1>2, <1>3

LEMMA LookForActiveGood ==
  ASSUME Typed, NEW r \in Requests, LookForActive(r)
  PROVE  Good(r)
<1>1. pc[r] = "look" /\ Shape(r)
  BY DEF LookForActive, Typed
<1>2. CASE Throw(r)
  BY <1>2, ThrowIsGood
<1>3. ASSUME NEW l \in {"insertOff", "insert"}, Branch(r, l)
      PROVE  Good(r)
  <2>1. pc'[r] = l /\ req'[r] = req[r]
    BY <1>3 DEF Branch, Goto, loc, Typed, TypeOK
  <2>2. Shape(r)'
    BY <1>1, <2>1 DEF Shape
  <2> QED
    BY <1>1, <1>3, <2>2, BranchGood DEF SwitchingYears, Labels
<1> QED
  BY <1>2, <1>3 DEF LookForActive

(* The checks of an enrolment, and of a row that is made active.           *)
LEMMA ChecksGood ==
  ASSUME Typed, NEW r \in Requests,
         CheckStudent(r) \/ CheckYear(r) \/ CheckExisting(r) \/ CheckConflict(r)
  PROVE  Good(r)
<1>1. pc[r] \in {"student", "year", "existing", "conflict"} /\ Shape(r)
  BY DEF CheckStudent, CheckYear, CheckExisting, CheckConflict, Typed
<1>2. CASE Throw(r)
  BY <1>2, ThrowIsGood
<1>3. ASSUME NEW l, Branch(r, l),
             \/ pc[r] = "student" /\ l = "year"
             \/ pc[r] = "year" /\ l = "existing"
             \/ pc[r] = "existing" /\ l = "insert"
             \/ pc[r] = "conflict" /\ l = "switchOn"
      PROVE  Good(r)
  <2>1. pc'[r] = l /\ req'[r] = req[r]
    BY <1>3 DEF Branch, Goto, loc, Typed, TypeOK
  <2>2. Shape(r)' /\ l \in Labels \ {"idle"}
    BY <1>1, <1>3, <2>1 DEF Shape, Labels
  <2> QED
    BY <1>1, <1>3, <2>2, BranchGood DEF SwitchingYears
<1> QED
  BY <1>2, <1>3 DEF CheckStudent, CheckYear, CheckExisting, CheckConflict

(* What goes for the row of a request's arguments.                         *)
LEMMA ItemTyped ==
  ASSUME Typed, NEW r \in Requests,
         pc[r] \in {"insert", "insertOff", "read", "account", "latest"}
  PROVE  req[r].item \in Items
BY Arguments DEF Typed, Shape, Items

LEMMA InsertGood ==
  ASSUME Typed, NEW r \in Requests, Insert(r)
  PROVE  Good(r)
<1> DEFINE i == req[r].item
<1>1. pc[r] \in {"insert", "insertOff"} /\ Shape(r) /\ i \in Items /\ req[r] \in ReqType
  BY ItemTyped DEF Insert, Typed, Shape
<1>2. CASE Throw(r)
  BY <1>2, ThrowIsGood
<1>3. CASE pc[r] = "insert" /\ SetOn(r, i, "commit")
  <2>1. pc'[r] = "commit" => Shape(r)'
    <3>1. req'[r] = req[r] \/ pc'[r] = "idle"
      BY <1>3 DEF SetOn, Write, Throw, Undo, Finish, Goto, loc, Typed, TypeOK
    <3> QED
      BY <1>1, <3>1 DEF Shape
  <2>2. Stepped(r) /\ (Ends(r) \/ (Writes(r, i, "on") /\ pc'[r] = "commit"))
    BY <1>1, <1>3, <2>1, SetOnSteps DEF Labels
  <2>3. CASE Ends(r)
    BY <2>2, <2>3 DEF Good, YearStep, Ends
  <2>4. CASE Writes(r, i, "on") /\ pc'[r] = "commit" /\ i \in Years
    <3>1. draft'[r][i] = "on"
      BY <1>1, <2>4 DEF Writes, Typed, TypeOK
    <3> QED
      BY <2>2, <2>4, <3>1 DEF Good, YearStep
  <2>5. CASE Writes(r, i, "on") /\ i \notin Years
    <3>1. req[r].kind = "enroll"
      BY <1>1, <1>3, <2>5, Arguments DEF Shape
    <3>2. \A y \in Years : draft'[r][y] = draft[r][y]
      BY <1>1, <2>5 DEF Writes, Typed, TypeOK
    <3> QED
      BY <1>3, <2>2, <3>1, <3>2 DEF Good, YearStep, SwitchingYears
  <2> QED
    BY <2>2, <2>3, <2>4, <2>5
<1>4. CASE pc[r] = "insertOff" /\ db[i] = "absent" /\ Write(r, i, "off", "commit")
  <2>1. pc'[r] = "commit" /\ req'[r] = req[r]
    BY <1>4 DEF Write, Goto, loc, Typed, TypeOK
  <2>2. Shape(r)'
    BY <1>1, <2>1 DEF Shape
  <2>3. Stepped(r) /\ Writes(r, i, "off")
    BY <1>1, <1>4, <2>2, WriteSteps DEF States, Labels
  <2>4. \A y \in Years : draft'[r][y] = draft[r][y] \/ db[y] = "absent"
    BY <1>1, <1>4, <2>3 DEF Writes, Typed, TypeOK
  <2> QED
    BY <1>4, <2>3, <2>4 DEF Good, YearStep, SwitchingYears
<1> QED
  BY <1>2, <1>3, <1>4 DEF Insert

LEMMA ReadGood ==
  ASSUME Typed, NEW r \in Requests, Read(r)
  PROVE  Good(r)
<1> DEFINE i == req[r].item
<1>1. pc[r] = "read" /\ Shape(r) /\ i \in Items /\ req[r] \in ReqType
  BY ItemTyped DEF Read, Typed, Shape
<1>2. CASE Throw(r)
  BY <1>2, ThrowIsGood
<1>3. CASE /\ rows' = [rows EXCEPT ![r] = {i}]
           /\ Goto(r, AfterRead(r))
           /\ UNCHANGED <<store, draft, req, batch, aborts>>
  <2>1. pc'[r] = AfterRead(r) /\ req'[r] = req[r] /\ batch'[r] = batch[r] /\ rows'[r] = {i}
    BY <1>3 DEF Goto, Typed, TypeOK
  <2>2. req[r].kind \in {"activate", "activateRow", "closeRow", "delete"}
    BY <1>1 DEF Shape
  <2>3. Shape(r)' /\ AfterRead(r) \in Labels \ {"idle"}
    <3>1. CASE req[r].kind = "activate"
      BY <1>1, <2>1, <3>1 DEF Shape, AfterRead, Labels
    <3>2. CASE req[r].kind = "activateRow"
      BY <1>1, <2>1, <3>2 DEF Shape, AfterRead, Labels
    <3>3. CASE req[r].kind \in {"closeRow", "delete"}
      <4>1. i \in Enrolments
        BY <1>1, <3>3, Arguments
      <4> QED
        BY <1>1, <2>1, <3>3, <4>1 DEF Shape, AfterRead, Labels
    <3> QED
      BY <2>2, <3>1, <3>2, <3>3
  <2>4. Stepped(r) /\ Reads
    BY <1>1, <1>3, <2>3, RowsSteps
  <2> QED
    BY <1>1, <2>4 DEF Good, YearStep, SwitchingYears, Reads
<1> QED
  BY <1>2, <1>3 DEF Read

LEMMA WriteByIdGood ==
  ASSUME Typed, NEW r \in Requests, WriteById(r)
  PROVE  Good(r)
<1>1. /\ pc[r] \in {"switchOn", "switchOff", "delete"} /\ Shape(r) /\ req[r] \in ReqType
      /\ rows[r] \in SUBSET Items
  BY DEF WriteById, Typed, TypeOK, Shape
<1>2. CASE Throw(r)
  BY <1>2, ThrowIsGood
<1>3. ASSUME NEW i \in ById(r), pc[r] = "switchOn", SetOn(r, i, "commit")
      PROVE  Good(r)
  <2>1. i \in Items /\ (req[r].kind = "activate" => i \in Years)
    <3>1. CASE req[r].kind = "activate"
      BY <1>1, <1>3, <3>1, Arguments DEF ById, Items
    <3>2. CASE req[r].kind # "activate"
      BY <1>1, <3>2 DEF ById
    <3> QED BY <3>1, <3>2
  <2>2. pc'[r] = "commit" => Shape(r)'
    <3>1. req'[r] = req[r] \/ pc'[r] = "idle"
      BY <1>3 DEF SetOn, Write, Throw, Undo, Finish, Goto, loc, Typed, TypeOK
    <3> QED
      BY <1>1, <3>1 DEF Shape
  <2>3. Stepped(r) /\ (Ends(r) \/ (Writes(r, i, "on") /\ pc'[r] = "commit"))
    BY <1>3, <2>1, <2>2, SetOnSteps DEF Labels
  <2>4. CASE Ends(r)
    BY <2>3, <2>4 DEF Good, YearStep, Ends
  <2>5. CASE Writes(r, i, "on") /\ pc'[r] = "commit" /\ i \in Years
    <3>1. draft'[r][i] = "on"
      BY <2>1, <2>5 DEF Writes, Typed, TypeOK
    <3> QED
      BY <2>3, <2>5, <3>1 DEF Good, YearStep
  <2>6. CASE Writes(r, i, "on") /\ i \notin Years
    <3>1. req[r].kind \notin {"newYear", "activate"}
      BY <1>1, <1>3, <2>1, <2>6 DEF Shape
    <3>2. \A y \in Years : draft'[r][y] = draft[r][y]
      BY <2>6 DEF Writes, Typed, TypeOK
    <3> QED
      BY <1>3, <2>3, <3>1, <3>2 DEF Good, YearStep, SwitchingYears
  <2> QED
    BY <2>3, <2>4, <2>5, <2>6
<1>4. ASSUME NEW i \in ById(r), NEW state \in {"off", "absent"}, pc[r] \in {"switchOff", "delete"},
             Write(r, i, state, "commit")
      PROVE  Good(r)
  <2>1. i \in Enrolments
    BY <1>1, <1>4 DEF ById, Shape
  <2>2. pc'[r] = "commit" /\ req'[r] = req[r]
    BY <1>4 DEF Write, Goto, loc, Typed, TypeOK
  <2>3. Shape(r)'
    BY <1>1, <2>2 DEF Shape
  <2>4. Stepped(r) /\ Writes(r, i, state)
    BY <1>1, <1>4, <2>1, <2>3, ItemsApart, WriteSteps DEF States, Labels
  <2>5. \A y \in Years : draft'[r][y] = draft[r][y]
    BY <2>1, <2>4, ItemsApart DEF Writes, Typed, TypeOK
  <2> QED
    BY <1>4, <2>4, <2>5 DEF Good, YearStep, SwitchingYears
<1> QED
  BY <1>2, <1>3, <1>4 DEF WriteById

LEMMA JoinGood ==
  ASSUME Typed, NEW r \in Requests, Join(r)
  PROVE  Good(r)
<1>1. pc[r] = "join" /\ Shape(r) /\ req[r] \in ReqType /\ req[r].kind = "promote"
  BY DEF Join, Typed, Shape
<1>2. Joining(r) \in Enrolments
  <2>1. Head(batch[r]) \in Students /\ req[r].to \in Sections
    BY <1>1, Arguments, Batched DEF Shape
  <2> QED
    BY <2>1 DEF Joining, Enrolments
<1>3. pc'[r] = "next" => Shape(r)'
  <2>1. pc'[r] = "idle" \/ (req'[r] = req[r] /\ batch'[r] = batch[r])
    BY DEF Join, SetOn, Write, Throw, Undo, Finish, Goto, loc, Typed, TypeOK
  <2> QED
    BY <1>1, <2>1 DEF Shape
<1> DEFINE i == Joining(r)
<1>4. i \in Items /\ i \notin Years /\ SetOn(r, i, "next")
  BY <1>2, ItemsApart DEF Join
<1> HIDE DEF i
<1>5. Stepped(r) /\ (Ends(r) \/ (Writes(r, i, "on") /\ pc'[r] = "next"))
  BY <1>1, <1>3, <1>4, SetOnSteps DEF Labels
<1>6. CASE Ends(r)
  BY <1>5, <1>6 DEF Good, YearStep, Ends
<1>7. CASE Writes(r, i, "on")
  <2>1. \A y \in Years : draft'[r][y] = draft[r][y]
    BY <1>4, <1>7 DEF Writes, Typed, TypeOK
  <2> QED
    BY <1>1, <1>5, <2>1 DEF Good, YearStep, SwitchingYears
<1> QED
  BY <1>5, <1>6, <1>7

LEMMA NextStudentGood ==
  ASSUME Typed, NEW r \in Requests, NextStudent(r)
  PROVE  Good(r)
<1> USE DEF NextStudent, Goto, store, cached
<1>1. pc[r] = "next" /\ Shape(r) /\ batch[r] \in Batches /\ req[r].kind = "promote"
  BY DEF Typed, Shape
<1>2. /\ pc'[r] = (IF Len(batch[r]) = 1 THEN "commit" ELSE "find")
      /\ req'[r] = req[r] /\ batch'[r] = Tail(batch[r])
  BY DEF Typed, TypeOK
<1>3. Tail(batch[r]) \in Batches \cup {<<>>} /\ (Len(batch[r]) # 1 => Tail(batch[r]) \in Batches)
  BY <1>1, Batched
<1>4. Shape(r)'
  BY <1>1, <1>2, <1>3 DEF Shape
<1>5. TypeOK'
  BY <1>1, <1>2, <1>3 DEF Typed, TypeOK, Labels
<1>6. Reads /\ Alone(r)
  BY DEF Reads, Alone, Typed, TypeOK
<1> QED
  BY <1>1, <1>4, <1>5, <1>6 DEF Good, Stepped, Effect, YearStep, SwitchingYears, Reads

LEMMA SetAccountGood ==
  ASSUME Typed, NEW r \in Requests, SetAccount(r)
  PROVE  Good(r)
<1> DEFINE i == req[r].item
<1>1. pc[r] = "account" /\ Shape(r) /\ req[r] \in ReqType
  BY DEF SetAccount, Typed, Shape
<1>2. i \in Students /\ i \in Items /\ i \notin Years
  BY <1>1, Arguments, ItemsApart DEF Shape
<1>3. PICK state \in States, l \in {"find", "latest"} :
        Write(r, i, state, l) /\ req[r].kind = (IF l = "find" THEN "close" ELSE "open")
  BY DEF SetAccount, States
<1> HIDE DEF i
<1>4. pc'[r] = l /\ req'[r] = req[r] /\ batch'[r] = batch[r]
  BY <1>3 DEF Write, Goto, loc, Typed, TypeOK
<1>5. Shape(r)'
  BY <1>1, <1>3, <1>4 DEF Shape
<1>6. Stepped(r) /\ Writes(r, i, state)
  BY <1>1, <1>2, <1>3, <1>5, WriteSteps DEF Allowed, Labels
<1>7. \A y \in Years : draft'[r][y] = draft[r][y]
  BY <1>2, <1>6 DEF Writes, Typed, TypeOK
<1> QED
  BY <1>1, <1>6, <1>7 DEF Good, YearStep, SwitchingYears

LEMMA FindLatestGood ==
  ASSUME Typed, NEW r \in Requests, FindLatest(r)
  PROVE  Good(r)
<1>1. pc[r] = "latest" /\ Shape(r) /\ req[r].kind = "open"
  BY DEF FindLatest, Typed, Shape
<1>2. CASE Branch(r, "commit")
  <2>1. pc'[r] = "commit" /\ req'[r] = req[r]
    BY <1>2 DEF Branch, Goto, loc, Typed, TypeOK
  <2>2. Shape(r)'
    BY <1>1, <2>1 DEF Shape
  <2> QED
    BY <1>1, <1>2, <2>2, BranchGood DEF SwitchingYears, Labels
<1>3. ASSUME NEW e \in Enrolments,
             rows' = [rows EXCEPT ![r] = {e}], Goto(r, "switchOn"),
             UNCHANGED <<store, draft, req, batch, aborts>>
      PROVE  Good(r)
  <2>1. pc'[r] = "switchOn" /\ req'[r] = req[r]
    BY <1>3 DEF Goto, Typed, TypeOK
  <2>2. Shape(r)'
    BY <1>1, <2>1 DEF Shape
  <2>3. {e} \in SUBSET Items
    BY ItemsApart
  <2>4. Stepped(r) /\ Reads
    BY <1>1, <1>3, <2>2, <2>3, RowsSteps DEF Labels
  <2> QED
    BY <1>1, <2>4 DEF Good, YearStep, SwitchingYears, Reads
<1> QED
  BY <1>2, <1>3 DEF FindLatest

LEMMA StepGood ==
  ASSUME Typed, NEW r \in Requests,
         Arrival(r) \/ RequestStep(r) \/ Abort(r) \/ DeadlockVictim(r)
  PROVE  Good(r) \/ Commit(r)
<1>1. CASE Arrival(r) \/ RequestStep(r)
  BY <1>1, ArrivalGood, LookForActiveGood, FindActiveGood, SwitchOffGood, InsertGood, ChecksGood,
     ReadGood, WriteByIdGood, JoinGood, NextStudentGood, SetAccountGood, FindLatestGood
     DEF RequestStep
<1>2. CASE Abort(r)
  <2>1. Undo(r) /\ aborts' \in 0..MaxAborts
    BY <1>2, SessionsAssumption DEF Abort, Typed, TypeOK
  <2> QED
    BY <2>1, ThrowGood
<1>3. CASE DeadlockVictim(r)
  BY <1>3, ThrowIsGood DEF DeadlockVictim
<1> QED
  BY <1>1, <1>2, <1>3

(* A commit; the other requests lose sight of what it has deleted.         *)
LEMMA CommitTyped ==
  ASSUME Typed, NEW r \in Requests, Commit(r)
  PROVE  /\ Typed' /\ db' = [i \in Items |-> View(r, i)]
         /\ draft' = [draft EXCEPT ![r] = AllClean]
         /\ pc[r] = "commit" /\ pc'[r] = "idle"
         /\ \A q \in Requests \ {r} : pc'[q] = pc[q] /\ req'[q] = req[q]
<1> USE DEF Commit, Finish, Goto, cached
<1>1. db' \in [Items -> States]
  BY DEF View, Typed, TypeOK
<1>2. rows' \in [Requests -> SUBSET Items]
  BY DEF Typed, TypeOK
<1>3. /\ pc' \in [Requests -> Labels] /\ draft' \in [Requests -> [Items -> States \cup {"clean"}]]
      /\ req' \in [Requests -> ReqType \cup {NoRequest}]
      /\ batch' \in [Requests -> Batches \cup {<<>>}]
  BY DEF Typed, TypeOK, Labels, AllClean
<1>4. /\ pc'[r] = "idle" /\ req'[r] = NoRequest /\ draft'[r] = AllClean /\ rows'[r] = {}
  BY DEF Typed, TypeOK
<1>5. \A q \in Requests \ {r} :
        /\ pc'[q] = pc[q] /\ req'[q] = req[q] /\ batch'[q] = batch[q] /\ draft'[q] = draft[q]
        /\ rows'[q] \subseteq rows[q]
  BY DEF Typed, TypeOK
<1>6. \A q \in Requests :
        pc'[q] = "idle" => req'[q] = NoRequest /\ draft'[q] = AllClean /\ rows'[q] = {}
  BY <1>4, <1>5 DEF Typed, TypeOK
<1>7. TypeOK'
  BY <1>1, <1>2, <1>3, <1>6 DEF Typed, TypeOK
<1>8. \A q \in Requests : Shape(q)'
  <2> SUFFICES ASSUME NEW q \in Requests
               PROVE  Shape(q)'
    OBVIOUS
  <2>1. CASE q = r
    BY <1>4, <2>1 DEF Shape
  <2>2. CASE q # r
    BY <1>5, <2>2 DEF Typed, Shape
  <2> QED BY <2>1, <2>2
<1> QED
  BY <1>4, <1>5, <1>7, <1>8 DEF Typed

LEMMA TypedInit == Init => Typed
<1> SUFFICES ASSUME Init
             PROVE  Typed
  OBVIOUS
<1>1. TypeOK
  BY SessionsAssumption DEF Init, CacheInit, TypeOK, States, Labels, AllClean, Items
<1>2. \A r \in Requests : pc[r] = "idle"
  BY DEF Init
<1> QED
  BY <1>1, <1>2 DEF Typed, Shape

(* What happens outside of requests: a year is locked or unlocked, its     *)
(* cached copies come and go.                                              *)
Outside == UNCHANGED <<db, draft, pc, loc, aborts>>

LEMMA OutsideTyped ==
  ASSUME Typed,
         \/ \E y \in Years : SetLock(y)
         \/ \E p \in Processes : Resolve(p)
         \/ \E p \in Processes : Switch(p) /\ UNCHANGED rest
         \/ \E st \in Stores : Lapse(st) /\ UNCHANGED rest
         \/ UNCHANGED vars
  PROVE  Typed' /\ Outside
<1>1. Outside
  BY DEF Outside, SetLock, Resolve, ResolutionStep, rest, vars
<1>2. locked' \in SUBSET Years
  BY DEF Typed, TypeOK, SetLock, Resolve, ResolutionStep, rest, vars
<1>3. Resolvable \subseteq Years
  BY DEF Resolvable
<1>4. \A p \in Processes : Store(p) \in Stores
  BY DEF Store, Stores
<1>5. /\ cache' \in [Stores -> Years \cup {NoYear}] /\ connected' \in SUBSET Processes
      /\ resolving' \in [Processes -> Years \cup {NoYear, Missed}]
  BY <1>3, <1>4 DEF Typed, TypeOK, SetLock, Resolve, ResolutionStep, Miss, ReadYear, Fill, Switch,
                    Lapse, cached, vars
<1>6. TypeOK'
  BY <1>1, <1>2, <1>5 DEF Typed, TypeOK, Outside, loc
<1>7. \A r \in Requests : Shape(r)'
  BY <1>1 DEF Typed, Shape, Outside, loc
<1> QED
  BY <1>1, <1>6, <1>7 DEF Typed

LEMMA TypedStep ==
  ASSUME Typed, [Next]_vars
  PROVE  /\ Typed'
         /\ \/ Outside
            \/ \E r \in Requests : Good(r) \/ Commit(r)
<1>1. ASSUME NEW r \in Requests, Good(r)
      PROVE  Typed'
  <2> SUFFICES ASSUME NEW q \in Requests \ {r}
               PROVE  Shape(q)'
    BY <1>1 DEF Good, Stepped, Typed
  <2> QED
    BY <1>1 DEF Good, Stepped, Alone, Typed, Shape
<1>2. ASSUME NEW r \in Requests,
             Arrival(r) \/ RequestStep(r) \/ Abort(r) \/ DeadlockVictim(r)
      PROVE  Typed' /\ (Good(r) \/ Commit(r))
  BY <1>1, <1>2, StepGood, CommitTyped
<1> QED
  BY <1>2, OutsideTyped DEF Next

(***************************************************************************)
(* Type correctness: every variable always holds a value of its kind, and  *)
(* an idle slot has no open transaction.                                   *)
(***************************************************************************)
THEOREM TypeCorrect == Spec => []TypeOK
<1>1. Typed /\ [Next]_vars => Typed'
  BY TypedStep
<1>2. Typed => TypeOK
  BY DEF Typed
<1> QED
  BY TypedInit, <1>1, <1>2, PTL DEF Spec

---------------------------------------------------------------------------
(***************************************************************************)
(* The two partial unique indexes, of which one is about years and one     *)
(* about enrolments.                                                       *)
(***************************************************************************)
NoPeersOn == \A i, j \in Items : Peers(i, j) => ~(db[i] = "on" /\ db[j] = "on")

(* Whoever has made a row active sees no peer of it active, and nobody     *)
(* else has made one active.                                               *)
Sole(r) ==
  \A i, j \in Items : Peers(i, j) /\ draft[r][i] = "on" =>
    View(r, j) # "on" /\ \A q \in Others(r) : draft[q][j] # "on"

Indexed == NoPeersOn /\ \A r \in Requests : Sole(r)

LEMMA PeersSymmetric ==
  ASSUME NEW i, NEW j, Peers(i, j)
  PROVE  Peers(j, i) /\ i # j /\ i \notin Students /\ j \notin Students
BY SessionsAssumption DEF Peers

LEMMA IndexedInit == Init => Indexed
<1> SUFFICES ASSUME Init
             PROVE  Indexed
  OBVIOUS
<1>1. \A i, j \in Items : Peers(i, j) => i \notin Students /\ j \notin Students /\ i # j
  BY PeersSymmetric
<1>2. NoPeersOn
  BY <1>1 DEF Init, NoPeersOn
<1>3. \A r \in Requests : Sole(r)
  BY DEF Init, Sole, AllClean
<1> QED
  BY <1>2, <1>3 DEF Indexed

(* A row that is written leaves the indexes in order.                      *)
LEMMA WritesIndexed ==
  ASSUME Typed, Indexed, NEW r \in Requests, NEW i \in Items, NEW state \in States,
         Writes(r, i, state), state = "on" => Allowed(r, i)
  PROVE  Indexed'
<1>1. NoPeersOn'
  BY DEF Writes, Indexed, NoPeersOn
<1>2. /\ draft'[r][i] = state
      /\ \A j \in Items \ {i} : draft'[r][j] = draft[r][j]
      /\ \A q \in Requests \ {r} : draft'[q] = draft[q]
  BY DEF Writes, Typed, TypeOK
<1>3. ASSUME NEW q \in Requests, NEW k \in Items, NEW j \in Items, Peers(k, j), draft'[q][k] = "on"
      PROVE  View(q, j)' # "on" /\ \A x \in Others(q) : draft'[x][j] # "on"
  <2>1. db' = db /\ Peers(j, k) /\ j # k /\ k \notin Students /\ j \notin Students
    BY <1>3, PeersSymmetric DEF Writes
  <2>2. CASE q = r /\ k = i
    <3>1. ~Refused(r, i) /\ \A x \in Others(r) : ~HoldsPeer(x, i)
      BY <1>2, <1>3, <2>1, <2>2 DEF Allowed
    <3>2. j \in PeersOf(i)
      BY <1>3, <2>2 DEF PeersOf
    <3>3. View(r, j)' # "on"
      BY <1>2, <2>1, <2>2, <3>1, <3>2 DEF Refused, View
    <3>4. \A x \in Others(r) : draft'[x][j] # "on"
      BY <1>2, <3>1, <3>2 DEF HoldsPeer, Others
    <3> QED
      BY <2>2, <3>3, <3>4
  <2>3. CASE q = r /\ k # i
    <3>1. draft[r][k] = "on"
      BY <1>2, <1>3, <2>3
    <3>2. View(r, j) # "on" /\ \A x \in Others(r) : draft[x][j] # "on"
      BY <1>3, <3>1 DEF Indexed, Sole
    <3>3. j = i => state # "on"
      <4> SUFFICES ASSUME j = i, state = "on"
                   PROVE  FALSE
        OBVIOUS
      <4>1. ~Refused(r, i)
        BY <2>1 DEF Allowed
      <4> QED
        BY <2>1, <3>1, <4>1 DEF Refused, PeersOf, View
    <3>4. View(r, j)' # "on"
      BY <1>2, <2>1, <3>2, <3>3 DEF View, States
    <3> QED
      BY <1>2, <2>3, <3>2, <3>4 DEF Others
  <2>4. CASE q # r
    <3>1. draft[q][k] = "on" /\ View(q, j)' = View(q, j)
      BY <1>2, <1>3, <2>1, <2>4 DEF View
    <3>2. View(q, j) # "on" /\ \A x \in Others(q) : draft[x][j] # "on"
      BY <1>3, <3>1 DEF Indexed, Sole
    <3>3. j = i => state # "on"
      <4> SUFFICES ASSUME j = i, state = "on"
                   PROVE  FALSE
        OBVIOUS
      <4>1. ~HoldsPeer(q, i)
        BY <2>1, <2>4 DEF Allowed, Others
      <4> QED
        BY <2>1, <3>1, <4>1 DEF HoldsPeer, PeersOf
    <3>4. \A x \in Others(q) : draft'[x][j] # "on"
      BY <1>2, <3>2, <3>3 DEF Others
    <3> QED
      BY <3>1, <3>2, <3>4
  <2> QED BY <2>2, <2>3, <2>4
<1> QED
  BY <1>1, <1>3 DEF Indexed, Sole, Others

LEMMA EndsIndexed ==
  ASSUME Typed, Indexed, NEW r \in Requests, Ends(r)
  PROVE  Indexed'
<1>1. /\ \A i \in Items : draft'[r][i] = "clean"
      /\ \A q \in Requests \ {r} : draft'[q] = draft[q]
      /\ db' = db
  BY DEF Ends, AllClean, Typed, TypeOK
<1>2. NoPeersOn'
  BY <1>1 DEF Indexed, NoPeersOn
<1>3. \A q \in Requests : Sole(q)'
  BY <1>1 DEF Indexed, Sole, View, Others
<1> QED
  BY <1>2, <1>3 DEF Indexed

LEMMA CommitIndexed ==
  ASSUME Typed, Indexed, NEW r \in Requests, Commit(r)
  PROVE  Indexed'
<1>1. /\ \A i \in Items : draft'[r][i] = "clean"
      /\ \A q \in Requests \ {r} : draft'[q] = draft[q]
      /\ \A i \in Items : db'[i] = View(r, i)
  BY CommitTyped DEF AllClean, Typed, TypeOK
<1>2. NoPeersOn'
  <2> SUFFICES ASSUME NEW i \in Items, NEW j \in Items, Peers(i, j),
                      View(r, i) = "on", View(r, j) = "on"
               PROVE  FALSE
    BY <1>1 DEF NoPeersOn
  <2>1. Peers(j, i)
    BY PeersSymmetric
  <2>2. draft[r][i] # "on" /\ draft[r][j] # "on"
    BY <2>1 DEF Indexed, Sole
  <2>3. db[i] = "on" /\ db[j] = "on"
    BY <2>2 DEF View
  <2> QED
    BY <2>3 DEF Indexed, NoPeersOn
<1>3. ASSUME NEW q \in Requests
      PROVE  Sole(q)'
  <2> SUFFICES ASSUME NEW i \in Items, NEW j \in Items, Peers(i, j), draft'[q][i] = "on"
               PROVE  View(q, j)' # "on" /\ \A x \in Others(q) : draft'[x][j] # "on"
    BY DEF Sole, Others
  <2>1. q # r /\ draft[q][i] = "on" /\ draft'[q] = draft[q]
    BY <1>1
  <2>2. View(q, j) # "on" /\ \A x \in Others(q) : draft[x][j] # "on"
    BY <2>1 DEF Indexed, Sole
  <2>3. draft[r][j] # "on"
    BY <2>1, <2>2 DEF Others
  <2>4. View(q, j)' # "on"
    BY <1>1, <2>1, <2>2, <2>3 DEF View
  <2> QED
    BY <1>1, <2>2, <2>4 DEF Others
<1> QED
  BY <1>2, <1>3 DEF Indexed

LEMMA IndexedStep ==
  ASSUME Typed, Indexed, [Next]_vars
  PROVE  Indexed'
<1>1. CASE db' = db /\ draft' = draft
  BY <1>1 DEF Indexed, NoPeersOn, Sole, View, Others
<1>2. ASSUME NEW r \in Requests, Good(r)
      PROVE  Indexed'
  BY <1>1, <1>2, EndsIndexed, WritesIndexed DEF Good, Stepped, Effect, Reads, Writes
<1> QED
  BY <1>1, <1>2, CommitIndexed, TypedStep DEF Outside

(***************************************************************************)
(* A student has at most one active enrolment in a year, whichever of the  *)
(* requests has made it active.                                            *)
(***************************************************************************)
THEOREM OneActiveEnrollmentHolds == Spec => []OneActiveEnrollment
<1>1. Init => Typed /\ Indexed
  BY TypedInit, IndexedInit
<1>2. Typed /\ Indexed /\ [Next]_vars => (Typed /\ Indexed)'
  BY TypedStep, IndexedStep
<1>3. Indexed => OneActiveEnrollment
  BY ItemsApart DEF Indexed, NoPeersOn, OneActiveEnrollment
<1> QED
  BY <1>1, <1>2, <1>3, PTL DEF Spec

---------------------------------------------------------------------------
(***************************************************************************)
(* There is an active year.                                                *)
(***************************************************************************)
(* A row has one uncommitted change.                                       *)
Exclusive ==
  \A r \in Requests, i \in Items : draft[r][i] # "clean" => Unlocked(r, i)

(* r takes away the active year.                                           *)
Demotes(r) == \E y \in Years : draft[r][y] \in {"off", "absent"} /\ db[y] = "on"

(* It is going to make one active before it commits, or has done so.       *)
Replaces(r) ==
  Demotes(r) =>
    \/ SwitchingYears(r)
    \/ pc[r] = "commit" /\ \E y \in Years : draft[r][y] = "on"

YearInv ==
  /\ Exclusive /\ \E y \in Years : db[y] = "on"
  /\ \A r \in Requests : Replaces(r)

LEMMA YearInit == Init => YearInv
<1> SUFFICES ASSUME Init
             PROVE  YearInv
  OBVIOUS
<1>1. \A r \in Requests, i \in Items : draft[r][i] = "clean"
  BY DEF Init, AllClean
<1>2. Exclusive /\ \A r \in Requests : ~Demotes(r)
  BY <1>1, ItemsApart DEF Exclusive, Demotes
<1>3. FirstYear \in Years /\ db[FirstYear] = "on"
  BY SessionsAssumption, ItemsApart DEF Init
<1> QED
  BY <1>2, <1>3 DEF YearInv, Replaces

(* Good steps change committed rows only in that nothing is committed.     *)
LEMMA GoodFacts ==
  ASSUME Typed, NEW r \in Requests, Good(r)
  PROVE  /\ db' = db /\ \A q \in Requests \ {r} : draft'[q] = draft[q]
         /\ pc'[r] = "idle" => \A i \in Items : draft'[r][i] = "clean"
         /\ \A i \in Items :
              draft'[r][i] \notin {"clean", draft[r][i]} => Unlocked(r, i)
<1>1. Stepped(r)
  BY DEF Good
<1>2. CASE Reads
  BY <1>1, <1>2 DEF Reads, Stepped, TypeOK, AllClean
<1>3. CASE Ends(r)
  BY <1>3 DEF Ends, Typed, TypeOK, AllClean
<1>4. ASSUME NEW i, NEW state, Writes(r, i, state)
      PROVE  /\ db' = db /\ \A q \in Requests \ {r} : draft'[q] = draft[q]
             /\ pc'[r] = "idle" => \A k \in Items : draft'[r][k] = "clean"
             /\ \A k \in Items :
                  draft'[r][k] \notin {"clean", draft[r][k]} => Unlocked(r, k)
  <2>1. pc'[r] = "idle" => \A k \in Items : draft'[r][k] = "clean"
    BY <1>1 DEF Stepped, TypeOK, AllClean
  <2> QED
    BY <1>4, <2>1 DEF Writes, Typed, TypeOK
<1> QED
  BY <1>1, <1>2, <1>3, <1>4 DEF Stepped, Effect

LEMMA GoodYears ==
  ASSUME Typed, YearInv, NEW r \in Requests, Good(r)
  PROVE  YearInv'
<1>1. /\ db' = db /\ \A q \in Requests \ {r} : draft'[q] = draft[q]
      /\ pc'[r] = "idle" => \A i \in Items : draft'[r][i] = "clean"
      /\ \A i \in Items : draft'[r][i] \notin {"clean", draft[r][i]} => Unlocked(r, i)
  BY GoodFacts
<1>2. Exclusive'
  <2> SUFFICES ASSUME NEW q \in Requests, NEW i \in Items, draft'[q][i] # "clean",
                      NEW x \in Requests \ {q}
               PROVE  draft'[x][i] = "clean"
    BY DEF Exclusive, Unlocked, Others
  <2>1. \A p \in Requests \ {r} : draft'[p][i] # "clean" => draft'[r][i] = "clean"
    <3> SUFFICES ASSUME NEW p \in Requests \ {r}, draft[p][i] # "clean", draft'[r][i] # "clean"
                 PROVE  FALSE
      BY <1>1
    <3>1. draft[r][i] = "clean"
      BY DEF YearInv, Exclusive, Unlocked, Others
    <3>2. Unlocked(r, i)
      BY <1>1, <3>1
    <3> QED
      BY <3>2 DEF Unlocked, Others
  <2>2. CASE q = r \/ x = r
    BY <2>1, <2>2
  <2>3. CASE q # r /\ x # r
    BY <1>1, <2>3 DEF YearInv, Exclusive, Unlocked, Others
  <2> QED BY <2>2, <2>3
<1>3. \A q \in Requests \ {r} : Replaces(q)'
  BY <1>1 DEF YearInv, Replaces, Demotes, SwitchingYears, Good, Stepped, Alone
<1>4. Replaces(r)'
  <2>1. CASE pc'[r] = "idle"
    BY <1>1, <2>1, ItemsApart DEF Replaces, Demotes
  <2>2. CASE /\ ~SwitchingYears(r) /\ pc[r] # "commit"
             /\ \A y \in Years : draft'[r][y] \in {draft[r][y], "on"} \/ db[y] = "absent"
    <3>1. ~Demotes(r)
      BY <2>2 DEF YearInv, Replaces
    <3> QED
      BY <1>1, <2>2, <3>1 DEF Replaces, Demotes
  <2>3. CASE SwitchingYears(r)'
    BY <2>3 DEF Replaces
  <2>4. CASE pc'[r] = "commit" /\ \E y \in Years : draft'[r][y] = "on"
    BY <2>4 DEF Replaces
  <2> QED
    BY <2>1, <2>2, <2>3, <2>4 DEF Good, YearStep
<1> QED
  BY <1>1, <1>2, <1>3, <1>4 DEF YearInv

LEMMA CommitYears ==
  ASSUME Typed, YearInv, NEW r \in Requests, Commit(r)
  PROVE  YearInv'
<1>1. /\ \A i \in Items : draft'[r][i] = "clean" /\ db'[i] = View(r, i)
      /\ \A q \in Requests \ {r} :
           draft'[q] = draft[q] /\ pc'[q] = pc[q] /\ req'[q] = req[q]
      /\ pc[r] = "commit"
  BY CommitTyped DEF AllClean, Typed, TypeOK
<1>2. Exclusive'
  BY <1>1 DEF YearInv, Exclusive, Unlocked, Others
<1>3. \E y \in Years : db'[y] = "on"
  <2>1. CASE Demotes(r)
    <3>1. PICK y \in Years : draft[r][y] = "on"
      BY <1>1, <2>1 DEF YearInv, Replaces, SwitchingYears
    <3> QED
      BY <1>1, <3>1, ItemsApart DEF View
  <2>2. CASE ~Demotes(r)
    <3>1. PICK y \in Years : db[y] = "on"
      BY DEF YearInv
    <3>2. draft[r][y] \in {"clean", "on"}
      BY <2>2, <3>1, ItemsApart DEF Demotes, Typed, TypeOK, States
    <3> QED
      BY <1>1, <3>1, <3>2, ItemsApart DEF View
  <2> QED BY <2>1, <2>2
<1>4. ASSUME NEW q \in Requests
      PROVE  Replaces(q)'
  <2>1. CASE q = r
    BY <1>1, <2>1, ItemsApart DEF Replaces, Demotes
  <2>2. CASE q # r
    <3>1. ASSUME NEW y \in Years, draft[q][y] # "clean"
          PROVE  db'[y] = db[y]
      <4>1. draft[r][y] = "clean"
        BY <2>2, <3>1, ItemsApart DEF YearInv, Exclusive, Unlocked, Others
      <4> QED
        BY <1>1, <4>1, ItemsApart DEF View
    <3>2. Demotes(q)' => Demotes(q)
      BY <1>1, <2>2, <3>1 DEF Demotes
    <3> QED
      BY <1>1, <2>2, <3>2 DEF YearInv, Replaces, SwitchingYears
  <2> QED BY <2>1, <2>2
<1> QED
  BY <1>2, <1>3, <1>4 DEF YearInv

LEMMA YearInvStep ==
  ASSUME Typed, YearInv, [Next]_vars
  PROVE  YearInv'
<1>1. CASE Outside
  BY <1>1 DEF Outside, loc, YearInv, Exclusive, Unlocked, Others, Replaces, Demotes, SwitchingYears
<1> QED
  BY <1>1, TypedStep, GoodYears, CommitYears

(***************************************************************************)
(* A school has exactly one active year: the index leaves at most one, and *)
(* whoever takes it away makes another active in the same transaction.     *)
(***************************************************************************)
THEOREM ExactlyOneActiveYearHolds == Spec => []ExactlyOneActiveYear
<1>1. Init => Typed /\ Indexed /\ YearInv
  BY TypedInit, IndexedInit, YearInit
<1>2. Typed /\ Indexed /\ YearInv /\ [Next]_vars => (Typed /\ Indexed /\ YearInv)'
  BY TypedStep, IndexedStep, YearInvStep
<1>3. Indexed /\ YearInv => ExactlyOneActiveYear
  <2> SUFFICES ASSUME Indexed, YearInv
               PROVE  Cardinality({y \in Years : db[y] = "on"}) = 1
    BY DEF ExactlyOneActiveYear
  <2>1. PICK y \in Years : db[y] = "on"
    BY DEF YearInv
  <2>2. \A z \in Years : db[z] = "on" => z = y
    BY <2>1, ItemsApart DEF Indexed, NoPeersOn, Peers
  <2>3. {z \in Years : db[z] = "on"} = {y}
    BY <2>1, <2>2
  <2> QED
    BY <2>3, FS_Singleton
<1> QED
  BY <1>1, <1>2, <1>3, PTL DEF Spec
---------------------------------------------------------------------------
(***************************************************************************)
(* A promotion brings its whole batch along.                               *)
(***************************************************************************)
(* The students that a batch still holds.                                  *)
Waiting(b) == {b[k] : k \in DOMAIN b}

LEMMA WaitingBatch ==
  ASSUME NEW b \in Batches
  PROVE  /\ Waiting(b) = {Head(b)} \cup Waiting(Tail(b))
         /\ Len(b) = 1 => Waiting(Tail(b)) = {}
<1>1. PICK n \in 1..MaxBatch : b \in [1..n -> Students]
  BY DEF Batches
<1>2. n \in Nat /\ n >= 1 /\ b \in Seq(Students)
  BY <1>1, SessionsAssumption
<1>3. Len(b) = n /\ DOMAIN b = 1..n /\ b # <<>>
  <2>1. Len(b) = n
    BY <1>1, <1>2, LenProperties
  <2> QED
    BY <1>1, <1>2, <2>1, EmptySeq
<1>4. /\ Head(b) = b[1] /\ DOMAIN Tail(b) = 1..(n - 1)
      /\ \A k \in 1..(n - 1) : Tail(b)[k] = b[k + 1]
  BY <1>2, <1>3, HeadTailProperties, LenProperties
<1>5. ASSUME NEW x \in Waiting(b)
      PROVE  x \in {Head(b)} \cup Waiting(Tail(b))
  <2>1. PICK k \in 1..n : x = b[k]
    BY <1>3 DEF Waiting
  <2>2. CASE k # 1
    <3>1. k - 1 \in 1..(n - 1) /\ Tail(b)[k - 1] = x
      BY <1>2, <1>4, <2>1, <2>2
    <3> QED
      BY <1>4, <3>1 DEF Waiting
  <2> QED
    BY <1>4, <2>1, <2>2
<1>6. ASSUME NEW x \in Waiting(Tail(b))
      PROVE  x \in Waiting(b)
  <2>1. PICK k \in 1..(n - 1) : x = b[k + 1]
    BY <1>4 DEF Waiting
  <2>2. k + 1 \in 1..n
    BY <1>2
  <2> QED
    BY <1>3, <2>1, <2>2 DEF Waiting
<1>7. Head(b) \in Waiting(b)
  BY <1>2, <1>3, <1>4 DEF Waiting
<1>8. n = 1 => Waiting(Tail(b)) = {}
  BY <1>4 DEF Waiting
<1> QED
  BY <1>3, <1>5, <1>6, <1>7, <1>8

(* The student of place n is enrolled where the promotion leads.           *)
Brought(r, n) == draft[r][<<req[r].students[n], req[r].to>>] = "on"

(* Whoever a promotion has not brought along has still to come.  While a   *)
(* student's turn lasts this may be one whom an earlier turn had brought   *)
(* along: a batch can name a student twice, and lead to where it comes     *)
(* from.                                                                   *)
Promoting(r) ==
  pc[r] # "idle" /\ req[r].kind = "promote" /\ req[r].to # NoItem =>
    /\ pc[r] \in {"find", "off", "join", "next", "commit"}
    /\ pc[r] = "off" => rows[r] \subseteq {Leaving(r)}
    /\ \A n \in DOMAIN req[r].students :
         \/ Brought(r, n)
         \/ pc[r] \in {"find", "off", "join"} /\ req[r].students[n] \in Waiting(batch[r])
         \/ pc[r] = "next" /\ req[r].students[n] \in Waiting(Tail(batch[r]))

(* Other requests, and the rest of the world, leave a promotion alone.     *)
LEMMA PromotingApart ==
  ASSUME Typed, NEW r \in Requests, Promoting(r), pc'[r] = pc[r], req'[r] = req[r],
         batch'[r] = batch[r], rows'[r] \subseteq rows[r], draft'[r] = draft[r]
  PROVE  Promoting(r)'
BY DEF Promoting, Brought, Leaving

LEMMA PromotingArrival ==
  ASSUME Typed, NEW r \in Requests, Arrival(r)
  PROVE  Promoting(r)'
<1>1. PICK x \in ReqType, b \in Batches \cup {<<>>}, l \in Labels :
        /\ Start(r, x, b, l)
        /\ x.kind = "promote" => b = x.students /\ l = "find"
  <2>1. ASSUME NEW y \in Years, StartYear(r, y)
        PROVE  \E x \in ReqType, l \in Labels : Start(r, x, <<>>, l) /\ x.kind # "promote"
    BY <2>1 DEF StartYear, StartItem, ReqType, Labels
  <2>2. ASSUME NEW e \in Enrolments, StartEnrolment(r, e)
        PROVE  \E x \in ReqType, l \in Labels : Start(r, x, <<>>, l) /\ x.kind # "promote"
    BY <2>2 DEF StartEnrolment, StartItem, ReqType, Labels
  <2>3. ASSUME NEW s \in Students, StartAccount(r, s)
        PROVE  \E x \in ReqType, l \in Labels : Start(r, x, <<>>, l) /\ x.kind # "promote"
    BY <2>3 DEF StartAccount, StartItem, ReqType, Labels
  <2>4. ASSUME NEW from \in Sections, NEW to \in Sections \cup {NoItem}, NEW students \in Batches,
               StartPromotion(r, from, to, students)
        PROVE  \E x \in ReqType : Start(r, x, students, "find") /\ students = x.students
    BY <2>4 DEF StartPromotion, ReqType
  <2> QED
    BY <2>1, <2>2, <2>3, <2>4 DEF Arrival, Labels
<1>2. pc'[r] = l /\ req'[r] = x /\ batch'[r] = b
  BY <1>1 DEF Start, Goto, Typed, TypeOK
<1>3. x.kind = "promote" => \A n \in DOMAIN x.students : x.students[n] \in Waiting(b)
  BY <1>1 DEF Waiting
<1> QED
  BY <1>1, <1>2, <1>3 DEF Promoting

LEMMA PromotingOff ==
  ASSUME Typed, NEW r \in Requests, Promoting(r), FindActive(r) \/ SwitchOff(r)
  PROVE  Promoting(r)'
<1> SUFFICES ASSUME pc'[r] # "idle", req'[r].kind = "promote", req'[r].to # NoItem
             PROVE  Promoting(r)'
  BY DEF Promoting
<1>1. /\ req'[r] = req[r] /\ batch'[r] = batch[r] /\ pc[r] \in {"find", "off"}
      /\ rows'[r] \subseteq {Leaving(r)} /\ pc'[r] \in {"off", "join"}
      /\ \A e \in Items : draft'[r][e] # draft[r][e] => e = Leaving(r)
  <2>1. req'[r] = req[r] /\ batch'[r] = batch[r] /\ pc[r] \in {"find", "off"}
    BY DEF FindActive, SwitchOff, Branch, loc
  <2>2. Scope(r) = {Leaving(r)} /\ AfterOff(r) = "join"
    BY <2>1 DEF Scope, AfterOff
  <2>3. CASE FindActive(r)
    <3>1. rows'[r] \subseteq Scope(r) /\ draft' = draft
      BY <2>3 DEF FindActive, Typed, TypeOK
    <3>2. pc'[r] \in {AfterOff(r), "off"}
      BY <2>3 DEF FindActive, Goto, Typed, TypeOK
    <3> QED
      BY <2>1, <2>2, <3>1, <3>2
  <2>4. CASE SwitchOff(r)
    <3>1. rows[r] \subseteq {Leaving(r)}
      BY <2>1, <2>4 DEF SwitchOff, Promoting
    <3>2. CASE Branch(r, AfterOff(r))
      BY <2>1, <2>2, <3>1, <3>2 DEF Branch, Goto, loc, Typed, TypeOK
    <3>3. ASSUME NEW i \in rows[r],
                 draft' = IF View(r, i) = "on" THEN [draft EXCEPT ![r][i] = "off"] ELSE draft,
                 rows' = [rows EXCEPT ![r] = @ \ {i}],
                 Goto(r, IF rows[r] = {i} THEN AfterOff(r) ELSE "off")
          PROVE  /\ rows'[r] \subseteq {Leaving(r)} /\ pc'[r] \in {"off", "join"}
                 /\ \A e \in Items : draft'[r][e] # draft[r][e] => e = Leaving(r)
      BY <2>2, <3>1, <3>3 DEF Goto, Typed, TypeOK
    <3> QED
      BY <2>1, <2>4, <3>2, <3>3 DEF SwitchOff
  <2> QED
    BY <2>1, <2>3, <2>4
<1>2. Shape(r) /\ req[r] \in ReqType /\ batch[r] \in Batches /\ pc[r] # "idle"
  BY <1>1 DEF Typed, Shape
<1>3. Head(batch[r]) \in Waiting(batch[r])
  BY <1>2, WaitingBatch
<1>4. ASSUME NEW n \in DOMAIN req[r].students, req[r].students[n] \notin Waiting(batch[r])
      PROVE  Brought(r, n)'
  <2>1. Brought(r, n)
    BY <1>1, <1>2, <1>4 DEF Promoting
  <2>2. req[r].students[n] \in Students /\ req[r].to \in Sections
    BY <1>1, <1>2 DEF ReqType, Batches
  <2>3. <<req[r].students[n], req[r].to>> \in Items
    BY <2>2 DEF Items, Enrolments
  <2>4. <<req[r].students[n], req[r].to>> # Leaving(r)
    BY <1>3, <1>4 DEF Leaving
  <2> QED
    BY <1>1, <2>1, <2>3, <2>4 DEF Brought
<1> QED
  BY <1>1, <1>4 DEF Promoting, Leaving

LEMMA PromotingJoin ==
  ASSUME Typed, NEW r \in Requests, Promoting(r), Join(r)
  PROVE  Promoting(r)'
<1> SUFFICES ASSUME pc'[r] # "idle", req'[r].kind = "promote", req'[r].to # NoItem
             PROVE  Promoting(r)'
  BY DEF Promoting
<1>1. Write(r, Joining(r), "on", "next") /\ pc[r] = "join"
  BY DEF Join, SetOn, Throw, Undo, Finish, Goto, Typed, TypeOK
<1>2. /\ req'[r] = req[r] /\ batch'[r] = batch[r] /\ pc'[r] = "next"
      /\ Shape(r) /\ req[r] \in ReqType /\ batch[r] \in Batches
  BY <1>1 DEF Write, Goto, loc, Typed, TypeOK, Shape
<1>3. ASSUME NEW n \in DOMAIN req[r].students,
             req[r].students[n] \notin Waiting(Tail(batch[r]))
      PROVE  Brought(r, n)'
  <2>1. req[r].students[n] \in Students /\ req[r].to \in Sections
    BY <1>2 DEF ReqType, Batches
  <2>2. <<req[r].students[n], req[r].to>> \in Items
    BY <2>1 DEF Items, Enrolments
  <2>3. Brought(r, n) \/ <<req[r].students[n], req[r].to>> = Joining(r)
    BY <1>1, <1>2, <1>3, WaitingBatch DEF Promoting, Joining
  <2> QED
    BY <1>1, <1>2, <2>2, <2>3 DEF Write, Brought, Typed, TypeOK
<1> QED
  BY <1>2, <1>3 DEF Promoting

LEMMA PromotingNext ==
  ASSUME Typed, NEW r \in Requests, Promoting(r), NextStudent(r)
  PROVE  Promoting(r)'
<1>1. /\ pc[r] = "next" /\ draft' = draft /\ req'[r] = req[r] /\ batch'[r] = Tail(batch[r])
      /\ pc'[r] = (IF Len(batch[r]) = 1 THEN "commit" ELSE "find")
  BY DEF NextStudent, Goto, Typed, TypeOK
<1>2. Shape(r) /\ batch[r] \in Batches
  BY <1>1 DEF Typed, Shape
<1>3. Len(batch[r]) = 1 => Waiting(Tail(batch[r])) = {}
  BY <1>2, WaitingBatch
<1> QED
  BY <1>1, <1>3 DEF Promoting, Brought

LEMMA PromotingStep ==
  ASSUME Typed, NEW r \in Requests, Promoting(r),
         Arrival(r) \/ RequestStep(r) \/ Abort(r) \/ DeadlockVictim(r)
  PROVE  Promoting(r)'
<1>1. CASE Throw(r) \/ Abort(r) \/ DeadlockVictim(r) \/ Commit(r)
  <2>1. pc'[r] = "idle"
    BY <1>1 DEF Throw, Abort, DeadlockVictim, Undo, Commit, Finish, Goto, Typed, TypeOK
  <2> QED
    BY <2>1 DEF Promoting
<1>2. CASE \/ LookForActive(r) \/ Insert(r) \/ CheckStudent(r) \/ CheckYear(r)
           \/ CheckExisting(r) \/ Read(r) \/ CheckConflict(r) \/ WriteById(r)
           \/ SetAccount(r) \/ FindLatest(r)
  <2>1. pc[r] \in {"look", "insert", "insertOff", "student", "year", "existing", "read",
                   "conflict", "switchOn", "switchOff", "delete", "account", "latest"}
    BY <1>2 DEF LookForActive, Insert, CheckStudent, CheckYear, CheckExisting, Read,
                CheckConflict, WriteById, SetAccount, FindLatest
  <2>2. req[r].kind # "promote"
    BY <2>1 DEF Typed, Shape
  <2>3. req'[r] = req[r] \/ pc'[r] = "idle"
    BY <1>2 DEF LookForActive, Insert, CheckStudent, CheckYear, CheckExisting, Read,
                CheckConflict, WriteById, SetAccount, FindLatest, SetOn, Write, Branch,
                Throw, Undo, Finish, Goto, loc, Typed, TypeOK
  <2> QED
    BY <2>2, <2>3 DEF Promoting
<1> QED
  BY <1>1, <1>2, PromotingArrival, PromotingOff, PromotingJoin, PromotingNext DEF RequestStep

LEMMA PromotingOthers ==
  ASSUME Typed, NEW r \in Requests, NEW q \in Requests \ {r}, Promoting(q),
         Arrival(r) \/ RequestStep(r) \/ Abort(r) \/ DeadlockVictim(r)
  PROVE  Promoting(q)'
<1>1. CASE Good(r)
  BY <1>1, GoodFacts, PromotingApart DEF Good, Stepped, Alone
<1>2. CASE Commit(r)
  <2>1. pc'[q] = pc[q] /\ req'[q] = req[q] /\ draft'[q] = draft[q]
    BY <1>2, CommitTyped DEF Typed, TypeOK
  <2>2. batch'[q] = batch[q] /\ rows'[q] \subseteq rows[q]
    BY <1>2 DEF Commit, Finish, Typed, TypeOK
  <2> QED
    BY <2>1, <2>2, PromotingApart
<1> QED
  BY <1>1, <1>2, StepGood

LEMMA PromotingInvStep ==
  ASSUME Typed, \A r \in Requests : Promoting(r), [Next]_vars
  PROVE  \A r \in Requests : Promoting(r)'
<1>1. CASE Outside
  BY <1>1, PromotingApart DEF Outside, loc
<1>2. CASE \E r \in Requests : Arrival(r) \/ RequestStep(r) \/ Abort(r) \/ DeadlockVictim(r)
  BY <1>2, PromotingStep, PromotingOthers
<1> QED
  BY <1>1, <1>2, OutsideTyped DEF Next

(***************************************************************************)
(* A committed promotion has brought every student of its batch into the   *)
(* section it names: whatever a turn undid of an earlier one, it has done  *)
(* again, and a student whom an index refuses takes the whole batch along. *)
(***************************************************************************)
THEOREM PromotedTogetherHolds == Spec => PromotedTogether
<1> DEFINE Together ==
      \A r \in Requests :
        /\ pc[r] = "commit" /\ pc'[r] = "idle" /\ db' # db
        /\ req[r].kind = "promote" /\ req[r].to # NoItem
        =>
          \A n \in DOMAIN req[r].students :
            db'[<<req[r].students[n], req[r].to>>] = "on"
<1>1. Init => Typed /\ \A r \in Requests : Promoting(r)
  BY TypedInit DEF Init, Promoting
<1>2. /\ Typed /\ \A r \in Requests : Promoting(r)
      /\ [Next]_vars
      => (Typed /\ \A r \in Requests : Promoting(r))'
  BY TypedStep, PromotingInvStep
<1>3. Typed /\ (\A r \in Requests : Promoting(r)) /\ [Next]_vars => [Together]_vars
  <2> SUFFICES ASSUME Typed, \A r \in Requests : Promoting(r), [Next]_vars,
                      NEW r \in Requests, pc[r] = "commit", pc'[r] = "idle", db' # db,
                      req[r].kind = "promote", req[r].to # NoItem,
                      NEW n \in DOMAIN req[r].students
               PROVE  db'[<<req[r].students[n], req[r].to>>] = "on"
    OBVIOUS
  <2>1. PICK q \in Requests : Good(q) \/ Commit(q)
    BY TypedStep DEF Outside
  <2>2. Commit(q)
    BY <2>1, GoodFacts
  <2>3. q = r
    BY <2>2, CommitTyped
  <2>4. Brought(r, n) /\ req[r] \in ReqType
    BY DEF Promoting, Typed, Shape
  <2>5. req[r].students[n] \in Students /\ req[r].to \in Sections
    BY <2>4 DEF ReqType, Batches
  <2>6. <<req[r].students[n], req[r].to>> \in Items
    BY <2>5 DEF Items, Enrolments
  <2> QED
    BY <2>2, <2>3, <2>4, <2>6, CommitTyped DEF View, Brought
<1> QED
  BY <1>1, <1>2, <1>3, PTL DEF Spec, PromotedTogether
=============================================================================
