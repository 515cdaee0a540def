------------------------ MODULE RequestTransactions ------------------------
(***************************************************************************)
(* The request layer under the school office: slots for HTTP requests and  *)
(* jobs, each with one READ COMMITTED transaction at a time.  A request    *)
(* sees the committed rows and what it has written itself; a row it has    *)
(* written, inserted or locked is its own until the transaction ends.      *)
(*                                                                         *)
(* A row has one key: the key of its unique index where it has one, so     *)
(* that an insert waits for whoever holds the key and then finds it taken. *)
(***************************************************************************)
EXTENDS Naturals, FiniteSets

CONSTANTS
  Requests,     \* slots; each is reused
  NoRequest, NoRow, Nothing,
  MaxAborts     \* bound: crashes, timeouts and errors of the database

ASSUME TransactionsAssumption == MaxAborts \in Nat

VARIABLES
  rows,     \* the committed rows that exist, by key
  draft,    \* per request: the rows it has written, NoRow where deleted
  pc, req,  \* per request: next statement, arguments
  seen,     \* per request: what it has read, or still has to do
  aborts

dbVars == <<rows, draft, pc, req, seen, aborts>>

NoRows == [k \in {} |-> NoRow]

Row(table, k) == IF k \in DOMAIN table THEN table[k] ELSE NoRow

View(r, k) == IF k \in DOMAIN draft[r] THEN draft[r][k] ELSE Row(rows, k)

Found(r, K) == {k \in K : View(r, k) # NoRow}

Unlocked(r, k) == \A q \in Requests \ {r} : k \notin DOMAIN draft[q]

Put(table, k, row) == [x \in DOMAIN table \cup {k} |-> IF x = k THEN row ELSE table[x]]

---------------------------------------------------------------------------
Goto(r, label) == pc' = [pc EXCEPT ![r] = label]

Branch(r, label) == Goto(r, label) /\ UNCHANGED <<rows, draft, req, seen, aborts>>

(* What a statement has found is kept for a later one.                     *)
Read(r, result, label) ==
  /\ Goto(r, label)
  /\ seen' = [seen EXCEPT ![r] = result]
  /\ UNCHANGED <<rows, draft, req, aborts>>

Start(r, arguments, label) ==
  /\ pc[r] = "idle"
  /\ Goto(r, label)
  /\ req' = [req EXCEPT ![r] = arguments]
  /\ UNCHANGED <<rows, draft, seen, aborts>>

(* Mutant: the connection goes back to the pool with its transaction open. *)
FinishOpen(r) ==
  /\ Goto(r, "idle")
  /\ req' = [req EXCEPT ![r] = NoRequest]
  /\ seen' = [seen EXCEPT ![r] = Nothing]
  /\ UNCHANGED draft

Finish(r) ==
  /\ Goto(r, "idle")
  /\ req' = [req EXCEPT ![r] = NoRequest]
  /\ seen' = [seen EXCEPT ![r] = Nothing]
  /\ draft' = [draft EXCEPT ![r] = NoRows]

Throw(r) == Finish(r) /\ UNCHANGED <<rows, aborts>>

(* Nothing that a later statement needs is left.                           *)
Write(r, k, row, label) ==
  /\ Unlocked(r, k)
  /\ draft' = [draft EXCEPT ![r] = Put(@, k, row)]
  /\ Goto(r, label)
  /\ UNCHANGED <<rows, req, seen, aborts>>

Insert(r, k, row, label) ==
  /\ Unlocked(r, k)
  /\ \/ View(r, k) # NoRow /\ Throw(r)
     \/ View(r, k) = NoRow /\ Write(r, k, row, label)

(* Update by id, of a row that is there or was deleted after it was read.  *)
Update(r, k, there, row, label) ==
  /\ Unlocked(r, k)
  /\ \/ there /\ Write(r, k, row, label)
     \/ ~there /\ Throw(r)

---------------------------------------------------------------------------
Merged(r) ==
  [k \in {x \in DOMAIN rows \cup DOMAIN draft[r] : View(r, x) # NoRow} |-> View(r, k)]

Commit(r) ==
  /\ pc[r] = "commit"
  /\ rows' = Merged(r)
  /\ Finish(r)
  /\ UNCHANGED aborts

Abort(r) ==
  /\ pc[r] # "idle" /\ aborts < MaxAborts
  /\ aborts' = aborts + 1
  /\ Finish(r)
  /\ UNCHANGED rows

(* wants[r] are the rows of which r will write one next: r waits for q when*)
(* each of them is held by another, and q holds one.                       *)
WaitsFor(r, q, wants) ==
  /\ q # r
  /\ \A k \in wants[r] : ~Unlocked(r, k)
  /\ \E k \in wants[r] : k \in DOMAIN draft[q]

Waiting(wants) == {r \in Requests : \E q \in Requests : WaitsFor(r, q, wants)}

Deadlocked(S, wants) == S # {} /\ \A r \in S : \E q \in S : WaitsFor(r, q, wants)

(* The database finds a cycle of transactions that wait for one another,   *)
(* and fails one of them.                                                  *)
Victim(r, wants) ==
  /\ \E S \in SUBSET Waiting(wants) :
       /\ r \in S /\ Deadlocked(S, wants)
       /\ \A T \in SUBSET S : T # S => ~Deadlocked(T, wants)
  /\ Throw(r)

DbInit ==
  /\ rows = NoRows
  /\ draft = [r \in Requests |-> NoRows]
  /\ pc = [r \in Requests |-> "idle"]
  /\ req = [r \in Requests |-> NoRequest]
  /\ seen = [r \in Requests |-> Nothing]
  /\ aborts = 0
=============================================================================
