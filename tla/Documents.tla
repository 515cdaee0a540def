----------------------------- MODULE Documents -----------------------------
(***************************************************************************)
(* The documents of students and applicants: a row in the database and a   *)
(* file in the object storage.  Requests upload, delete and rescan them,   *)
(* and change their legal hold and retention; a daily job on each replica  *)
(* of the API, enforceRetention, purges what may go.  The storage takes no *)
(* part in a transaction: a deletion that was asked for may be carried out *)
(* when the transaction of whoever asked is already gone.                  *)
(***************************************************************************)
EXTENDS RequestTransactions, FiniteSetsExt

CONSTANTS
  Docs,
  Retention,   \* the period a document is kept
  MaxTime,     \* bound
  Take         \* the most documents that one run of the job looks at

ASSUME DocumentsAssumption ==
  /\ Retention \in Nat /\ MaxTime \in Nat /\ Take \in Nat \ {0}
  /\ NoRow \notin [hold : BOOLEAN, until : Nat, deleted : BOOLEAN]

VARIABLES
  now,
  stored,   \* the documents whose file is in the storage
  late      \* deletions on their way, of transactions that are over

docVars == <<now, stored, late>>

Doc(d) == <<"document", d>>

(* A change of policy: the hold is set or lifted, or retention extended.   *)
Policies == {[hold |-> h] : h \in BOOLEAN} \cup {[until |-> t] : t \in 0..MaxTime}

(* A slot that a replica's run of the job has taken.                       *)
Sweeping(r) == req[r] = [kind |-> "sweep"]

ThisDoc(r) == IF Sweeping(r) THEN seen[r].doc ELSE req[r].doc

MayGo(row) == row # NoRow /\ ~row.hold /\ row.until <= now

(* Eligible for the purge.                                                 *)
Due(d) == LET row == Row(rows, Doc(d)) IN MayGo(row) /\ ~row.deleted

Stays == UNCHANGED docVars
---------------------------------------------------------------------------
(* A document is new: neither row nor file has its id.                     *)
Fresh(d) ==
  /\ Row(rows, Doc(d)) = NoRow /\ d \notin stored
  /\ ~\E r \in Requests : pc[r] # "idle" /\ req[r] = [kind |-> "upload", doc |-> d]

StartUpload(r, d) == Fresh(d) /\ Start(r, [kind |-> "upload", doc |-> d], "scan")

StartPolicy(r, d, policy) ==
  Start(r, [kind |-> "policy", doc |-> d, policy |-> policy], "policyLock")

StartDelete(r, d) == Start(r, [kind |-> "delete", doc |-> d], "deleteRead")

StartRescan(r, d) == Start(r, [kind |-> "rescan", doc |-> d], "rescanRead")

StartSweep(r) == Start(r, [kind |-> "sweep"], "sweepList")

---------------------------------------------------------------------------
(***************************************************************************)
(* Upload: scan, file, row.                                                *)
(***************************************************************************)
(* The scanner is required and cannot be reached, or has given a verdict.  *)
ScanUpload(r) ==
  /\ pc[r] = "scan"
  /\ \/ Throw(r)
     \/ Branch(r, "fileStore")
  /\ Stays

StoreFile(r) ==
  /\ pc[r] = "fileStore"
  /\ stored' = stored \cup {req[r].doc}
  /\ Branch(r, "documentInsert")
  /\ UNCHANGED <<now, late>>

InsertDocument(r) ==
  /\ pc[r] = "documentInsert"
  /\ Insert(r, Doc(req[r].doc),
            [hold |-> FALSE, until |-> now + Retention, deleted |-> FALSE], "commit")
  /\ Stays

---------------------------------------------------------------------------
(***************************************************************************)
(* The policy and the rescan, on a row that is locked and read again.      *)
(***************************************************************************)
LockDocument(r, label) ==
  LET k == Doc(req[r].doc) IN
  /\ \/ View(r, k) = NoRow /\ Branch(r, label)
     \/ View(r, k) # NoRow /\ Write(r, k, View(r, k), label)
  /\ Stays

LockForPolicy(r) == pc[r] = "policyLock" /\ LockDocument(r, "policyWrite")

Extends(row, policy) ==
  "until" \in DOMAIN policy => policy.until > now /\ policy.until >= row.until

Under(row, policy) ==
  [row EXCEPT !.hold  = IF "hold" \in DOMAIN policy THEN policy.hold ELSE @,
              !.until = IF "until" \in DOMAIN policy THEN policy.until ELSE @]

WritePolicy(r) ==
  LET k == Doc(req[r].doc)
      row == View(r, k)
      accepted == row # NoRow /\ ~row.deleted /\ Extends(row, req[r].policy) IN
  /\ pc[r] = "policyWrite"
  /\ \/ ~accepted /\ Throw(r)
     \/ accepted /\ Write(r, k, Under(row, req[r].policy), "commit")
  /\ Stays

Present(row) == row # NoRow /\ ~row.deleted

ReadForRescan(r) ==
  /\ pc[r] = "rescanRead"
  /\ \/ ~Present(Row(rows, Doc(req[r].doc))) /\ Throw(r)
     \/ Present(Row(rows, Doc(req[r].doc))) /\ Branch(r, "fileRead")
  /\ Stays

(* The file is read and scanned, for as long as that takes.                *)
ScanFile(r) ==
  /\ pc[r] = "fileRead"
  /\ \/ req[r].doc \notin stored /\ Throw(r)
     \/ req[r].doc \in stored /\ Branch(r, "rescanLock")
  /\ Stays

LockForRescan(r) == pc[r] = "rescanLock" /\ LockDocument(r, "rescanWrite")

(* The verdict is written; nothing here depends on what it is.             *)
WriteVerdict(r) ==
  LET row == View(r, Doc(req[r].doc)) IN
  /\ pc[r] = "rescanWrite"
  /\ \/ ~Present(row) /\ Throw(r)
     \/ Present(row) /\ Write(r, Doc(req[r].doc), row, "commit")
  /\ Stays

---------------------------------------------------------------------------
(***************************************************************************)
(* Deletion by hand: the row is read without a lock, and not for whether   *)
(* it is deleted already.                                                  *)
(***************************************************************************)
ReadForDelete(r) ==
  LET row == Row(rows, Doc(req[r].doc)) IN
  /\ pc[r] = "deleteRead"
  /\ \/ ~MayGo(row) /\ Throw(r)
     \/ MayGo(row) /\ Branch(r, "fileDelete")
  /\ Stays

(* Mutant: what the storage says of a deletion is not looked at.           *)
DeleteFileOrNot(r) ==
  /\ pc[r] = "fileDelete"
  /\ stored' \in {stored, stored \ {ThisDoc(r)}}
  /\ Branch(r, "documentMark")
  /\ UNCHANGED <<now, late>>

(* deleteFile, of a file that may be gone already.                         *)
DeleteFile(r) ==
  /\ pc[r] = "fileDelete"
  /\ stored' = stored \ {ThisDoc(r)}
  /\ Branch(r, "documentMark")
  /\ UNCHANGED <<now, late>>

MarkDeleted(r) ==
  LET k == Doc(ThisDoc(r)) IN
  /\ pc[r] = "documentMark"
  /\ Write(r, k, [View(r, k) EXCEPT !.deleted = TRUE],
           IF Sweeping(r) THEN "sweepCommit" ELSE "commit")
  /\ Stays

---------------------------------------------------------------------------
(***************************************************************************)
(* enforceRetention: a list, and then one transaction for each document.   *)
(***************************************************************************)
(* findMany takes the first so many of those it finds, in an order of its  *)
(* own.                                                                    *)
ListOf(r, found) ==
  /\ pc[r] = "sweepList"
  /\ \E chosen \in SUBSET found :
       /\ Cardinality(chosen) = Min({Take, Cardinality(found)})
       /\ Read(r, [left |-> chosen, doc |-> Nothing], "sweepNext")
  /\ Stays

(* Mutant: what is deleted already is listed again.                        *)
ListElapsed(r) == ListOf(r, {d \in Docs : MayGo(Row(rows, Doc(d)))})

ListDue(r) == ListOf(r, {d \in Docs : Due(d)})

(* Mutant: the list is trusted.                                            *)
LockableAsListed(r, d) == Row(rows, Doc(d)) # NoRow

(* The next document is locked and read again, or skipped: because it is   *)
(* not due any more, or because someone else has locked it.                *)
Lockable(r, d) == Due(d) /\ Unlocked(r, Doc(d))

NextDocument(r) ==
  /\ pc[r] = "sweepNext"
  /\ \/ seen[r].left = {} /\ Throw(r)
     \/ \E d \in seen[r].left :
          /\ UNCHANGED <<rows, req, aborts>>
          /\ \/ /\ Lockable(r, d)
                /\ draft' = [draft EXCEPT ![r] = Put(@, Doc(d), rows[Doc(d)])]
                /\ seen' = [seen EXCEPT ![r] = [left |-> @.left \ {d}, doc |-> d]]
                /\ Goto(r, "fileDelete")
             \/ /\ ~Lockable(r, d)
                /\ seen' = [seen EXCEPT ![r].left = @ \ {d}]
                /\ UNCHANGED <<draft, pc>>
  /\ Stays

NextTransaction(r) ==
  /\ draft' = [draft EXCEPT ![r] = NoRows]
  /\ seen' = [seen EXCEPT ![r].doc = Nothing]
  /\ Goto(r, "sweepNext")
  /\ UNCHANGED req

CommitPurge(r) ==
  /\ pc[r] = "sweepCommit"
  /\ rows' = Merged(r)
  /\ NextTransaction(r)
  /\ Stays /\ UNCHANGED aborts

---------------------------------------------------------------------------
(***************************************************************************)
(* What goes wrong.                                                        *)
(***************************************************************************)
(* A deletion that its transaction does not live to see.                   *)
Left(r) == IF pc[r] = "fileDelete" THEN late \cup {ThisDoc(r)} ELSE late

(* The transaction of one document is rolled back: the storage refuses, or *)
(* the transaction has taken too long.  The job logs it and goes on.       *)
PurgeFails(r) ==
  /\ pc[r] \in {"fileDelete", "documentMark", "sweepCommit"} /\ Sweeping(r)
  /\ aborts < MaxAborts /\ aborts' = aborts + 1
  /\ NextTransaction(r)
  /\ late' = Left(r)
  /\ UNCHANGED <<rows, now, stored>>

AbortDocument(r) == Abort(r) /\ late' = Left(r) /\ UNCHANGED <<now, stored>>

(* It is carried out after all, or lost.                                   *)
LateDeletion(d) ==
  /\ d \in late
  /\ late' = late \ {d}
  /\ stored' \in {stored, stored \ {d}}
  /\ UNCHANGED now /\ UNCHANGED dbVars

Tick ==
  /\ now < MaxTime /\ now' = now + 1
  /\ UNCHANGED <<stored, late>> /\ UNCHANGED dbVars

---------------------------------------------------------------------------
DocumentsInit == now = 0 /\ stored = {} /\ late = {}

DocumentsArrival(r) ==
  /\ \/ \E d \in Docs :
          \/ StartUpload(r, d) \/ StartDelete(r, d) \/ StartRescan(r, d)
          \/ \E policy \in Policies : StartPolicy(r, d, policy)
     \/ StartSweep(r)
  /\ Stays

DocumentsStep(r) ==
  \/ ScanUpload(r) \/ StoreFile(r) \/ InsertDocument(r)
  \/ LockForPolicy(r) \/ WritePolicy(r)
  \/ ReadForRescan(r) \/ ScanFile(r) \/ LockForRescan(r) \/ WriteVerdict(r)
  \/ ReadForDelete(r) \/ DeleteFile(r) \/ MarkDeleted(r)
  \/ ListDue(r) \/ NextDocument(r) \/ CommitPurge(r)

(* SKIP LOCKED: the job waits for nobody.                                  *)
DocumentsWants(r) ==
  IF ~Sweeping(r) /\ pc[r] \in {"policyLock", "policyWrite", "documentInsert",
                                     "documentMark", "rescanLock", "rescanWrite"}
  THEN {Doc(req[r].doc)} ELSE {}

---------------------------------------------------------------------------
Purging(r) == Sweeping(r) /\ pc[r] \in {"fileDelete", "documentMark", "sweepCommit"}

(* As the comment on the row lock has it: from the moment the job begins   *)
(* to delete a file until its transaction ends, the document is due, that  *)
(* is neither held nor extended, and no other replica is at the same one.  *)
PurgeIsExclusive ==
  \A r \in Requests : Purging(r) =>
    /\ Due(ThisDoc(r))
    /\ \A q \in Requests \ {r} : Purging(q) => ThisDoc(q) # ThisDoc(r)

(* A document that is recorded as deleted has no file any more, whoever    *)
(* deleted it and whatever failed in between.                              *)
DeletedHasNoFile ==
  \A d \in Docs :
    LET row == Row(rows, Doc(d)) IN row # NoRow /\ row.deleted => d \notin stored

AtWork(d) ==
  \E r \in Requests : pc[r] # "idle" /\ "doc" \in DOMAIN req[r] /\ req[r].doc = d

(* What is due does not stay so for ever, once the requests about          *)
(* documents have ceased: a purge that failed is tried again, and a run    *)
(* that takes only so many documents leaves the rest to the next.          *)
ElapsedIsPurged == \A d \in Docs : ~<>[](Due(d) /\ \A e \in Docs : ~AtWork(e))
=============================================================================
