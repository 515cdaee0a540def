# Agentic School ERP: models and proofs

TLA+ models of the parts of the Agentic School ERP whose correctness depends on
concurrency, transactions, retries and crashes; TLC configurations that check
them on small instances; and proofs, checked by TLAPS, of the properties that
matter most, for every value of the constants. Paths below are relative to
`src/apps/api/src/` unless they start with `prisma/` (which is
`src/apps/api/prisma/`).

| Component | Specification | For TLC | Proofs | Configurations |
|---|---|---|---|---|
| AI agent control plane | `AgentControlPlane`, tables in `AgentToolRegistry`, abstract `AgentActionLifecycle` | `MCAgentControlPlane` | `AgentControlPlaneProofs`, `AgentMutationProofs` | `AgentTx`, `AgentAuto`, `AgentTxSlotHeld` |
| Fee collection, receipt numbers | `FeePayments` | `MCFeePayments` | `FeePaymentsProofs` | `FeesOneByOne`, `FeesTx`, `FeesRecordedTwice`, `FeesSchoolBlocked`, `FeesWebhookLost` |
| Break-glass grants, audit chain | `BreakGlass`, which extends `AuditTrail` | `MCBreakGlass` | `BreakGlassProofs` | `BreakGlass` |
| Academic years, enrolment | `AcademicSessions`, which extends `YearCache` | `MCAcademicSessions` | `AcademicSessionsProofs` | `AcademicSessions` |
| School office: payroll, admissions, documents, certificates, meetings, calls of the model | `Payroll`, `Admissions`, `Documents`, `Certificates`, `PtmBooking` over `RequestTransactions`, and `AiCircuit`; composed in `SchoolOffice` | `MCSchoolOffice` | `SchoolOfficeProofs`, `OfficeRecordsProofs`, `PayrollProofs` | `SchoolOffice`, `PtmDoubleBooked` |

`PROJECT.json` lists the components, the runs, for every property a mutation of
the model that breaks it, the lines each definition stands for, the findings,
the hazards and the theorems. To run a configuration:
`tlc -workers 2 -config AgentTx.cfg MCAgentControlPlane`; to check proofs:
`tlapm BreakGlassProofs.tla`.

---

## 1. Inventory

The system is a NestJS API over PostgreSQL (through Prisma) with Redis as a
cache, a Next.js web application, and a gateway (Razorpay) that calls back. It
is multi-tenant: a row belongs to a school, and in production row level
security (RLS) hides the rows of other schools.

### 1.1 What everything else stands on

**Request transaction** (`core/database/prisma.service.ts`,
`core/interceptors/tenant-database.interceptor.ts`). With RLS on, and always in
production, the interceptor opens one interactive READ COMMITTED transaction
for each HTTP request (maximum 15 s), puts it into an AsyncLocalStorage, and
the Prisma proxy sends every statement of the request, also a nested
`$transaction`, to it. A normal response commits, an exception rolls back.
With RLS off each statement, or each explicit `$transaction`, commits alone.
Hence every service has two behaviours that its code does not show: in one a
write made before an exception stays, in the other it is gone; in one a unique
violation can be caught and answered, in the other every later statement fails.
The models take the mode as a parameter (`RequestTx`) or, for parts that exist
for production only, fix it.

### 1.2 Components

| Component | State | Operations | Hard behaviour | What makes it correct |
|---|---|---|---|---|
| **AI agent control plane** (`modules/ai/agent/`) | `agent_actions`; through handlers: leaves, assignments, messages, timetable slots | propose, confirm and execute, reconcile, expire | concurrent confirmations and proposals, crash between claim and settlement, role lost meanwhile, client retries, unique index inside a transaction | one executor per action; a mutation made at most once; the reported status is what happened; an action does not block its operation for ever |
| **Fees and receipt numbers** (`modules/fees/`, `core/database/sequence.util.ts`) | `fee_payments`, `receipts`, the counter in `system_configs` | collect at the counter, verify in the browser, webhook | the gateway repeats itself, browser and webhook race, stale counter written, retries with a random fall-back | one record per captured payment, distinct gapless receipts, no acknowledged payment lost, every school can collect |
| **Break-glass grants** (`modules/enterprise-identity/break-glass.service.ts`) | `break_glass_grants` | request, approve, revoke, list, scheduled expiry | concurrent requests, approval against revocation and expiry, one transaction for the whole sweep, deadlock with the audit chain | one open grant per administrator and school; opened once, by a second person; an elapsed grant ends |
| **Audit trail** (`core/audit/`, `core/interceptors/audit-log.interceptor.ts`) | `activity_logs`, one hash chain per school and one for the platform | record, record a request, purge | many writers of one chain, rolled back entries, purge of the oldest | no fork and no gap; the trail tells the state |
| **HR leaves** (`modules/hr/`) | `leave_requests`, balances | apply, review, cancel, approve for the agent | read, check, update by id | a decision is taken once |
| **Academic years** (`modules/schools/academic-years.service.ts`, `core/cache/`) | `academic_years`, cached active year | create, activate, lock, resolve | two activations, 24 h cache never invalidated, Redis with a memory fall-back | exactly one active year; a stale one is forgotten |
| **Enrolment** (`modules/students/`) | `student_enrollments`, students | enrol, change status, delete, promote | concurrent enrolment and promotion, partial unique index | at most one active enrolment per student and year; a promoted student is in the target class |
| **Parent-teacher meetings** (`modules/ptm/`) | sessions, slots | create session, book, cancel, complete, remind | availability read and then updated by id | a slot is booked by one parent; a completed one stays so |
| **Payroll** (`modules/payroll/`) | cycles, payslips | create, process, mark paid | processed again while payslips are paid, rows locked in different orders | a cycle's totals and status are those of the payslips of one run |
| **Admissions** (`modules/admissions/`, `students.service.ts`) | applications, students and their accounts, number counters | submit, decide, reject, convert; enter a student, change number and address | conversion twice, a number drawn by a conversion that fails, numbers of the clerk's choice in the table that is probed | an application names one student of its own; numbers that are drawn are continuous |
| **Certificates** (`modules/certificates/`) | issued certificates | issue one, issue a list, revoke | counted and then inserted, lists that fail half way | numbers without a gap |
| **Sign-in sessions** (`modules/auth/`) | sessions, refresh hash, recovery codes, failed attempts | login, refresh, logout, MFA, revoke all | two refreshes of one token, code used twice, counter incremented from a stale read | a rotated token is not accepted; a code is used once |
| **Calls of the model** (`modules/ai/ai-resilience.service.ts`) | circuit breaker in memory, quotas in Redis | execute, with retries | late failures and probes meet in one breaker | the breaker recovers when the provider does |
| **AI assistant, scheduler** (`modules/ai/`) | none that others read | chat, scheduled routines | | |
| **Documents** (`services/storage/`, document endpoints of students and admissions) | document rows, files in an object storage | upload, delete, hold, retain, rescan, purge daily | two stores and one transaction; a hold set while a purge is under way; several replicas | nothing under a legal hold is purged; what is recorded as deleted has no file; what is due is purged |
| **Privacy requests** (`modules/dpdp/`) | consents, requests | record, decide, anonymise | none: one statement or one transaction each | validation |
| **Subscriptions** (`modules/subscriptions/`) | plan, limits | check | limits are compared with counts of rows; the functions that would increment counters have no caller | validation |
| **Identity federation, SCIM** (`modules/enterprise-identity/`) | links, one-time codes in Redis | sign in, provision | code redeemed twice (a GETDEL) | single use |
| **Other modules** (users, staff, schools, classes, curriculum, assignments, exams, attendance, timetable, messages, alumni, discipline, activities, dashboards, reports) | rows of their own | create, read, update, delete | mostly none: one statement, or one batch upsert in a transaction | validation |
| **Delivery** (e-mail, push, SMS, sockets), **plumbing** (guards, pipes, filters), **web**, **scripts** | none, or the browser's | | best effort I/O | |

### 1.3 How they interact

* The *control plane* calls handlers, which call HR, assignments, messages,
  timetable and exams by function calls in the same request; a scheduler
  proposes and confirms by the same functions. HR staff and users change leaves
  and roles at the same time through their own endpoints.
* *Fees* takes numbers from the sequence utility, as admissions do, and is
  entered from three sides: the clerk, the parent's browser, the gateway.
* *Break-glass* records each change in the audit chain of its school by the
  service and, for each HTTP request, in the platform's chain by the
  interceptor, in the transaction of the request. The order in which locks are
  taken (pair of administrator and school, row, school chain, platform chain)
  is not the same for the sweep, which takes row, chain, row, chain.
* A *conversion* of an application writes to admissions, users, students and the
  sequence utility in one transaction; *documents* of applicants and students
  are uploaded and deleted through two services and purged by one job, each
  beside the object storage, which belongs to no transaction.
* Every part writes audit entries. Where a model leaves them out (control
  plane, fees) it leaves out a lock on the school's chain that is taken near
  the end of a request and held to its end.

The hazards in `PROJECT.json` name the line where each hard behaviour bites,
and the properties below that would catch it.

---

## 2. Conventions

* *One database call is one step.* Two statements are one action only where
  nothing another process does can come between them to any effect: a lock and
  what is read under it (`RequestAccess`, `AuditSchool`), a guard on columns
  that never change.
* `pc[r]` is the next statement of request `r`. A request slot is reused: two
  slots are two requests *at a time*, any number over time.
* The database is modelled by what PostgreSQL promises under READ COMMITTED:
  a statement sees committed rows and those of its own transaction; row locks,
  unique-index waits and transaction-level advisory locks last to the end; an
  UPDATE that waited re-evaluates its WHERE; a cycle of waits is detected.
  These definitions are marked external.
* An operator whose comment begins with `Mutant:` is not part of the
  specification: it is a plausible bug of the definition that follows it, and
  shows that the property named in `PROJECT.json` can be broken by that code.
* Where slots are alike, `SlotsInOrder` makes a request take the first that is free.

---

## 3. The AI agent control plane

### 3.1 Model and code

`AgentControlPlane` follows `agent-control-plane.service.ts` statement by
statement.

| Action | Code |
|---|---|
| `StartPropose`, `LookupKey`, `ResolveIdentity`, `LookupOperation`, `CreateAction`, `RaceOnKey`, `RaceOnOperation` | `proposeAction` 113-359: the look-up by Idempotency-Key, identity resolution (which may refuse), the look-up by fingerprint with its reconciliation of a row found EXECUTING, the INSERT and the two branches of its P2002 recovery |
| `StartConfirm`, `LoadAction`, `CheckAction`, `ExpireOnConfirm`, `RecheckUser`, `Claim`, `RereadAfterClaim` | `confirmAndExecute` 388-557: load and ownership, status and expiry, fresh user and policy, compare-and-set to EXECUTING and what is answered when it was lost |
| `HandlerWrites`, `HandlerRefuses`, `HandlerIdles`, `Verify`, `MarkSucceeded`, `MarkFailed` | 558-636 and the handlers |
| `Reconcile`, `SettleApplied`, `SettleMissed` | `reconcileAction` 891-956 and each handler's `reconcile` |
| `Reply`, `Abort` | commit of the request transaction; crash, error or its 15 s limit |
| `ExpireStaleActions` | 1120-1136 |
| `Demote`, `Deactivate`, `HrRead`, `HrWrite`, `Elapse` | `users.service.ts`, `hr.service.ts` `reviewLeave` and `cancelLeave` (read, require PENDING, update by id), and the clock |

State: `status` and `info` are `agent_actions`; `effects` the actions whose
handler wrote to the domain; `leave` the leave requests; `draft` and `staged`
what a request has written and not committed. In autocommit mode the last two
stay empty. `AgentToolRegistry` holds the tables: who may use a tool, whether
it needs a confirmation, how its fingerprint is formed, what its `reconcile`
answers, which statuses the partial unique index covers, which handlers write
item by item (`SeveralItems`: covers, leave recommendations, report cards) and
which may end normally with nothing written (`MayDoNothing`: those, the messages
that find no active recipient, and the digest that is SKIPPED). The `verify` of
the latter has then nothing to look for, and the action is marked SUCCEEDED
(`automation-daily-digest.handler.ts:30-64`,
`automation-timetable-cover.handler.ts:66`, `automation-message.handler.ts:64`).

`AgentActionLifecycle` is the abstract specification: an action is proposed
for a mutation that no other open or completed action is about, and then in one
step makes its mutation and succeeds, or makes nothing and fails, or expires. If
its mutation is one that may turn out to have nothing to do (`MayBeEmpty`), it may
also succeed with nothing made.
`ImplementsLifecycle` states that the committed database of `AgentControlPlane`,
under a refinement mapping from `status` and `effects`, does only that.

Abstracted: texts, payloads and their sanitising; the resolution of names
(whether it succeeds); the contents of previews. Left out: the read endpoints,
and records that are made through other endpoints, leaves excepted: an
announcement that somebody sends by hand under the title of an interrupted one
is found by its `reconcile` query like an announcement of another action.

### 3.2 Runs

`MCAgentControlPlane` offers six operations: one leave (`leaveX`), one
assignment (`essay`), two announcements (`note1`, `note2`), a digest that needs
no confirmation (`digest`) and a cover of several slots (`cover`). Operations of
different families share no row, key, fingerprint or record, and the constraints
`OneFamily` and `OneFamilyTx` keep a behaviour within one family: two approvers of
a leave, two authors of one assignment, two texts under one Idempotency-Key, and
the routines. `OneReview` keeps one HR call
at hand, `NoReview` keeps HR away where no leave is asked for, and `Bystanders`
keeps users who ask for nothing as they are. `OneFamilyTx` also leaves out
crashes, where they undo a request like any exception, and the combination of a
change of role with an HR decision, which `AgentAuto` includes.
`OneFamilyAuto` does the same where every statement commits, with one action
where HR meets it or two users could. What the
constraints hide from the liveness properties are behaviours that mix families;
the mutant of each is found within them.

| Run | Mode | Instance | Properties |
|---|---|---|---|
| `AgentTx` | one transaction per request | 2 users, 5 operations, 1 key, 2 requests, 2 rows, 1 abort, sweep on | `AppliedOnce`, `KeyMadeOnce`, `NoBarredExecution`, `ImplementsLifecycle`, `RequestsEnd` |
| `AgentAuto` | every statement commits | 1 user, 5 operations, 1 key, 2 requests, 2 rows, 1 abort | `TypeOK`, `OneExecutor`, `SucceededIsRecorded`, `NeverReopened`, `SlotReleased`, `InterruptedIsSettled` |
| `AgentTxSlotHeld` | one transaction per request | the assignment, no sweep | `SlotReleased`, violated |

Why the bounds are enough: the races are of two requests over one row, or over
two rows of one mutation; a third request meets one of the two in a state the
first could have met. Two rows are needed for the unique index to have
anything to decide, and the third proposal of a mutation meets what the second
met. One abort puts a crash at each statement.

What the two modes say. In production a request is atomic to the others, and
everything holds. In autocommit mode an action can be interrupted between claim,
write and settlement; what then still holds is that it is never executed twice,
and that SUCCEEDED stands for something the query of its tool finds in the domain,
or for a tool that may find nothing to do (`SucceededIsRecorded`). It cannot be
said that what is found was made by *this* action: the query for an announcement
selects on its title and not on its text (`send-announcement.handler.ts:72`), so
that an interrupted announcement is settled as SUCCEEDED when another one has
its title. `AppliedOnce` and
the lifecycle do not hold there and are not claimed: a handler whose
verification fails leaves its writes and the status FAILED, after which the
mutation may be proposed again; a settlement by id can overwrite a settlement
by another request; and the expiry at line 410, by id, can overwrite a claim
made since the row was read.

### 3.3 Fairness

`FairSpec` lets each request run on (`WF` of its own steps); a statement that
waits becomes possible when the holder ends. `InsistentSpec` adds that the owner
of an action keeps confirming it (`SF`, as slots are sometimes all busy):
without someone who asks, nothing in the code would look at the row.
Nothing in the repository calls `expireStaleActions`; `AgentTxSlotHeld` shows
what happens without it.

`InterruptedIsSettled` leaves out what no reconciliation can tell
(`CannotTell`): a routine whose effect cannot be looked up, and a leave that was
cancelled or rejected while its approval was interrupted. They are answered
UNKNOWN by `reconcile` and stay EXECUTING, as `agent-types.ts:212-217` says
("human/admin recovery required").
`clientRequestKey` is accepted by `proposeAction`, and only tests pass
one at this commit.

### 3.4 Proofs (`AgentControlPlaneProofs`, `AgentMutationProofs`)

* `TypeCorrect`, `Spec => []TypeOK`. `TypeOK` is not inductive: `act[r]` is an
  index into `info` at statements that read it. `TypeInv` adds that a request
  which is working on an action has one (`Located`) and that it exists
  (`Backed`).
* `OneExecutorHolds`, `Spec => []OneExecutor`, and `NeverReopenedHolds`.
  `ClaimInv` strengthens `OneExecutor` by: a row has one uncommitted writer
  (`OneWriter`); who runs a handler claimed the row, and it has left the
  claimable statuses in what that request sees (`RunsClaimed`); only rows that
  are new are drafted in a claimable status (`DraftsAreNew`). Then the
  compare-and-set is never enabled for two requests, and no commit takes a row
  back. Both hold for any number of users, requests and rows, in both modes.

* `NoBarredExecutionHolds`, in both modes. `BarredInv`: a caller without the
  rights is only ever at statements that read or that settle what is left of
  another's run, never at one that claims or runs a handler.
* `KeyMadeOnceHolds`, in both modes. `KeyInv`: of all rows that are committed or
  drafted, one has a key (`KeysOnce`), and what has been made was made for a row that
  exists (`Rooted`); an insert that races waits for the key and is refused. `SeenInv`
  supplies that the row a request works on does not disappear.
* `AppliedOnceHolds`, assuming `RequestTx`. `MutationInv`: no committed row is
  EXECUTING, since a claim commits together with its outcome; the partial index
  holds one row for a mutation, committed or drafted (`Live`); what was made is
  reported SUCCEEDED (`Committed`), if it is of one item; and what each request has in its transaction
  at each statement (`Transaction`). Without `RequestTx` the theorem is false:
  the claim, the handler and the settlement then commit one by one.
* `ImplementsLifecycleHolds`, assuming `RequestTx`:
  `Spec => ImplementsLifecycle`, an empty success included (`SucceedEmpty`).
  `LifeInv` adds to `MutationInv` the statuses
  that can be committed (`Reached`) and what the draft of a request says at its
  end (`Outcome`). Every step maps to a stutter, except a commit of a request
  (`ReplySimulates`) and the sweep (`SweepSimulates`).

* `SucceededIsRecordedHolds`, in both modes. A reconciliation settles an action
  as SUCCEEDED when the query of its tool finds a record with the action's
  target; `Recorded` says the same of the model's state. In autocommit mode
  `SuccInv` adds what a request knows between its handler, or its query, and its
  UPDATE (`Knows`), and what an approved leave says of who approved it
  (`LeaveTold`): nothing that was found is ever taken away. A request whose
  handler had nothing to do knows that its tool may.
* `OwnRecordHolds`, assuming `RequestTx`: an action reported SUCCEEDED was made by
  its own handler, unless its tool may find nothing to do. In this mode a
  reconciliation never finds an EXECUTING row, so no success is ever inferred
  from what others have made.

All safety properties of the two passing runs are proved. Model-checked only:
liveness.

---

## 4. Fee collection

### 4.1 Model and code

| Action | Code |
|---|---|
| `StartCounter` | `collectFee` 274-292, a clerk at the counter |
| `StartVerify`, `CheckExisting` | `verifyRazorpayPayment` 895-958: payment verified with the gateway, refused when recorded already |
| `StartWebhook`, `CheckExisting`, `Answer` | `handleRazorpayWebhook` 1146-1229: a payment recorded already is acknowledged, and so is any P2002 |
| `ReadSequence`, `CountReceipts`, `Probe`, `UpsertSequence`, `SequenceFails` | `generateNextSequence`: counter or count, first candidate without a receipt, counter overwritten with it, retries, random fall-back |
| `RecordPayment`, `Commit` | the transaction of `collectFee`: payment and receipt, `receiptNumber` unique over all schools |
| `Abort` | crash, timeout |

State: `payments` stands for payments with their receipts; `current` for the
counters; `acked` for the events the gateway will not send again. `Visible` is
what RLS shows: a user the rows of the school, the webhook, which has no user,
nothing, so that under `RequestTx` it finds no academic year and fails. `Fallbacks`
are the random numbers of the last attempt.

The ledger starts empty and stays in one calendar year (the number carries the
year). The safety counter of 100 probes is left out: it is beyond the bounds.
Amounts, dues, discounts and concessions are not modelled.

### 4.2 Runs

| Run | Instance | Properties |
|---|---|---|
| `FeesOneByOne` | statements commit alone, one request at a time, 2 schools, 2 captured payments, 2 faults, redelivery | `TypeOK`, `RecordedOnce`, `CapturedIsRecorded` |
| `FeesTx` | one transaction per request, 2 requests, 2 schools, 1 fault | `ReceiptsDistinct`, `Gapless`, `NeverRecordedAgain`, `CollectionEnds` |
| `FeesRecordedTwice` | one transaction per request, one payment, two verifications | `RecordedOnce`, violated |
| `FeesSchoolBlocked` | one transaction per request, two schools, persistent clerks | `SchoolCollects`, violated |
| `FeesWebhookLost` | statements commit alone, one school, one payment, 2 requests, no fault | `AcknowledgedIsRecorded`, violated |

`FeesOneByOne` shows what the code does when requests do not overlap, whatever
crashes; the others show what overlapping changes. `NeverRecordedAgain` is what
is left of `RecordedOnce` then: once a payment is recorded, and every request that
had looked it up before has ended, no delivery or verification records it again,
and it is never lost. Two requests are the
race of a browser with itself or the webhook; a third meets what the second
met. Two schools are the smallest instance on which a number unique over all
schools and a sequence per school can disagree. `MaxCollected` bounds what a
school collects; webhooks are never held back by it.

Fairness: requests run on (`WF`), and those that wait for the counter row or for
another insertion of their number are served in turn (`SF`; PostgreSQL queues
them). `RedeliveredSpec`: the gateway delivers an event until it is answered
with a 200 (`SF`). `PersistentSpec`: a clerk tries again.

### 4.3 Findings

* `FeesRecordedTwice`: two verifications of one payment both find nothing,
  and both record it. `transactionRef` has an index and no unique constraint.
* `FeesSchoolBlocked`: the first number of each school is the same text, the
  receipt of another school that bears it is invisible to the probe, the INSERT
  is refused, and the counter is rolled back with it: at the next attempt nothing has
  changed. `OneSchoolOnlyHolds` proves the general form.
* `FeesWebhookLost`: in autocommit mode two requests can be handed one number, of
  which the second is refused by `receiptNumber`. If that is a webhook, it takes the
  P2002 for a duplicate of its payment (line 1217) and answers 200: the gateway does
  not repeat the event, and nobody has recorded the payment. There is no unique
  constraint that could tell a duplicate of a payment.

Also met, without a run of its own: a webhook under RLS sees no rows.

### 4.4 Proofs (`FeePaymentsProofs`)

* `TypeCorrect`; `TypeInv` adds finiteness of the ledger, so that its
  cardinality is a number.
* `ReceiptsDistinctHolds`: `NumberInv` adds that a payment about to be committed
  holds a number that nobody else holds or has (`Reserved`).
* `GaplessHolds` (assuming `RequestTx`): the counter is written with a value
  computed before the row was locked, and yet nothing is skipped. `GaplessInv`
  adds that a candidate is at most one above the counter, and that the number
  of one who holds the row is exactly that (`Stacked`): whoever waited with an
  older candidate writes the counter back, and is then refused by the unique
  number, which rolls the counter back too. `CounterIsCount` shows that the
  count from which a lost counter is rebuilt is the counter.
* `OneSchoolOnlyHolds` (assuming `RequestTx`): from the two above.

* `NeverRecordedAgainHolds`, in both modes, of the action property: a request
  that comes to record a payment was, since its look-up, among those that
  `Settled` excludes; one that looks up after the payment was recorded finds it,
  because a payment is recorded in the school it was paid to (`PaidToSchool`) and
  the look-up is of that school. It holds for any number of requests at once, with
  no hypothesis on how they cross.

`RecordedOnce` and `CapturedIsRecorded` are model-checked with one request at a
time only; that the first fails with two is `FeesRecordedTwice`. Liveness is
model-checked only.

---

## 5. Break-glass grants and the audit chain

### 5.1 Model and code

`AuditTrail` is `recordMutation`: under the advisory lock of a chain, read the
newest entry by (`createdAt`, `id`), insert an entry with its hash. A hash is
represented by the entry it was computed from. `Line` says that each entry of a
chain refers to the one before it. `purgeOldAuditLogs` removes by age.

| `BreakGlass` | Code |
|---|---|
| `RequestAccess` (with `Mine`, `Insert`) | `request` 74-98: lock of the pair, open grant refused, row inserted |
| `Load`, `Claim`, `Revoke` | `approve` 117-141 (not one's own, still pending, conditional update), `revoke` 163-176 |
| `List`, `NextGrant`, `ExpireGrant` | `expireElapsedGrants` 19-58, one transaction for all grants |
| `AuditSchool` | `recordMutation` called by the service, with states before and after |
| `AuditPlatform` | the interceptor's entry |
| `Commit`, `Abort`, `DeadlockVictim` | end of the transaction |

Details worth knowing: a row that was rolled back keeps its grant number, as a
uuid would not be used twice; `Revoke` takes the row unconditionally and
records what it had read as the state before, which an approval may have
changed since (line 164), so that `TrailTellsStatus` is about the state after; the
interceptor swallows an error of its own write (line 124), which in a
transaction still undoes it: part of `Abort`. There is one clock, which never
goes back; `createdAt` comes from the clock of the process, and two replicas
whose clocks differ could read the wrong entry as the newest (a hazard, not in
the model).

### 5.2 Run

`BreakGlass`: two administrators, one school, two concurrent requests and the
sweep, two grants, one abort, one clock tick with a purge. `OneOpenGrant`,
`OpenedOnce`, `TrailTellsStatus`, `ChainIsLine`, `RequestsEnd`,
`ElapsedGrantEnds`, `TypeOK`. Two grants are what the sweep needs to deadlock
with a revocation: it holds the chain of the school after the first, and waits
for the row of the second, whose revocation waits for the chain. The database
fails one of them; a sweep that failed is run again.

Bounds: `MaxEntries` stops new HTTP requests, and `Named` limits the ids handed
out (fewer where the clock moves or something was aborted), because a sweep
that is chosen as the victim over and over takes a new id each time. By
symmetry `Named` also lets the first administrator ask first, and be the one who
revokes. A constraint in a run with liveness can only hide a behaviour that
runs out of ids; within the bound each request and each sweep ends, and each
mutation in `PROJECT.json` for the two liveness properties is found within it.
The system rests when the bounds are reached: deadlock is not checked, and
`RequestsEnd` says that no request is stuck there.

Fairness: a request's next statement, and the sweep's, is taken when it is
possible again and again (`SF`: lock queues are first come, first served); the
sweep is started again by its schedule (`WF` of `List`); a deadlock is resolved
(`WF`).

### 5.3 Proofs (`BreakGlassProofs`)

Each conjunct below was first checked with TLC as an invariant, then proved
inductive, in this order.

* `Shape`: types, and which fields of a slot mean something at which statement.
  Gives `TypeCorrect`.
* `LocksApart`: an advisory lock has one holder.
* `Chained`: an uncommitted entry holds the lock of its chain and is newer than
  all committed ones of that chain; the log, and what each transaction sees, is
  a line. The lemmas on lines alone do the work: `LineGrows` (an entry that
  carries the newest), `LineMerges` (what a transaction saw, merged into a log
  that others extended in other chains), `LineSurvivesPurge`. Gives
  `ChainIsLineHolds`.
* `Place`, `Rows`: a row has one uncommitted change, an opening starts from a
  pending row, an insertion holds its pair's lock and the pair has no open
  grant. Gives `OneOpenGrantHolds`.
* `Dual`: who approves is not who asked. With `Rows` gives `OpenedOnceHolds`.
* `ToldInv`: the entries of a grant are all in the chain of its school (`Filed`),
  and what a request has changed of a grant it has told, or is about to tell,
  under the lock of that chain (`Told`). A purge takes the oldest entries, so
  the last one about a grant goes only after all the others. Gives
  `TrailTellsStatusHolds`.

Model-checked only: `RequestsEnd`, `ElapsedGrantEnds`.

---

## 6. Academic years and enrolment

### 6.1 Model and code

A school's years, its students' accounts and their enrolments are rows of three
tables that behave alike: a row is absent, off or on, and a partial unique index
sets some rows against each other (`Peers`): the years of a school, and the
enrolments of one student in one year. The model keeps one map `db` for all of
them, and one definition each for a write by key (`Write`), for making a row
active against its index (`SetOn`), for `updateMany` over active rows
(`FindActive`, `SwitchOff`) and for a write by an id read earlier (`WriteById`).

| `AcademicSessions` | Code |
|---|---|
| `LookForActive`, `Insert` | `createAcademicYear` of `academic-years.service.ts` (active if no other is) |
| `FindActive`, `SwitchOff`, then `Insert` or `WriteById` | `createAcademicYear` of `schools.service.ts`; `setActiveAcademicYear` of both services |
| `SetLock` | `setLockAcademicYear` |
| `CheckStudent`, `CheckYear`, `CheckExisting`, `Insert` | `createEnrollment`: one query after the other |
| `Read`, `CheckConflict`, `WriteById` | `updateEnrollmentStatus`, `deleteEnrollment` |
| `FindActive`, `SwitchOff`, `Join`, `NextStudent` | `promoteStudents`, for each student of the batch |
| `SetAccount`, then `FindActive`, `SwitchOff` or `FindLatest`, `WriteById` | `updateStudentStatus` |
| `YearCache` (`Miss`, `ReadYear`, `Fill`, `Lapse`, `Switch`) | `resolveActiveYear` over `RedisService`, which falls back to the memory of the process |

`updateMany` chooses its rows when it begins, waits for each that another
transaction holds, and then looks again: a year that another request activates
meanwhile is not among them, and the activation that follows is refused by the
index. A row that is deleted disappears from what other requests have found; a
new row for the same student and section has another id. A trigger refuses an
enrolment whose year is not that of its section, so the year of an enrolment is
`YearOf` its section, and a promotion with another year is refused like any
`Abort`.

Left out: dates and names of years (`updateAcademicYear`), the order of
`joinedAt` (any enrolment may be the latest), the statuses other than ACTIVE
among themselves, the log of promotions, the `from` section being the student's
own, resolution of a year by name, and two rare writers: the assistant creates
a year for a school without any, and anonymising a user closes the account
without its enrolments.

### 6.2 Run

`AcademicSessions`: two requests at a time (the first free slot is taken, which
is sound because slots are alike), two years, three sections of which one is in
the second year, two students, one process with Redis. `OneFamily` keeps apart
what shares no row: years, with the cache while one request is under way; all
operations on one student, with a lock, an abort or the second year while one
request is under way; promotions of both students in either order.

* `ExactlyOneActiveYear`, `OneActiveEnrollment`: the look-ups before the writes
  decide nothing under concurrency: each fails without its index, and the first
  also if the deactivation were not in the transaction of the activation.
* `PromotedTogether`: a batch in which one student is refused is undone as a
  whole.
* `RequestsEnd`: two batches with the same students in a different order wait
  for one another; the database fails one.
* `StaleEnds`: once the active year stays, all stores come to hold it or
  nothing. There is no better promise: a resolution that read the old year may
  store it after the change, in either store, for 24 h.

Fairness: as for break-glass grants; moreover a resolution that has missed ends
(`WF`), and an entry grows old (`WF` of `Lapse`), which is what `EX 86400` and
`expiresAt` give.

Two things the code does were met here and are hazards without a property: a
student whose account is closed can come to be actively enrolled (the account is
read first and may be closed meanwhile; a promotion and a change of status do
not read it), and enrolments change in a locked year (the lock is read first; a
promotion and a reopened account do not read it).

### 6.3 Proofs (`AcademicSessionsProofs`)

For any years, sections, students, requests and bounds, under
`SessionsAssumption` (the kinds of rows do not overlap, a section has a year).

* `TypeCorrect`. `TypeOK` is not inductive: `Typed` adds what a request of each
  kind carries at each statement (`Shape`).
* `OneActiveEnrollmentHolds`. `Indexed`: no two peers, which are rows that the
  index keeps apart, are active in what is committed, and whoever has made a row
  active sees no active peer of it, nor has anybody else made one active (`Sole`).
  A commit then publishes at most one.
* `ExactlyOneActiveYearHolds`. *At most one* is `Indexed` for years. *At least
  one* is `YearInv`: a row is changed by one transaction (`Exclusive`), an active
  year is committed, and a request whose transaction takes it away is still in
  the middle of the switch or, at its commit, has made another active
  (`Replaces`).

* `PromotedTogetherHolds`, an action property. `Promoting`: each student of the
  batch has been brought into the target section, in what the request sees, or
  has still to come. During a student's turn that may be one whom an earlier turn
  had brought along, because a batch can name a student twice and lead to the
  section a student comes from: `SwitchOff` then undoes what `Join` does again.

The lemmas on the effect of a step are shared by all of them: it reads, undoes or
commits its transaction, or writes one row that it may have. Model-checked only:
`RequestsEnd`, `StaleEnds`.

---

## 7. The school office

### 7.1 Model and code

Six parts with routes of their own and one request layer. `RequestTransactions`
is that layer: a slot for each request, with one transaction whose own writes
(`draft`) lie over the committed `rows`. A row is locked by whoever has written
it (`Unlocked`), an insert waits for whoever holds its key and then finds it
taken (`Insert`), a write by id goes to whatever the row has become (`Write`) or
fails if it is gone (`Update`), a commit merges (`Merged`), an exception or a
crash leaves nothing. A cycle of waits has a victim (`Victim`). Each part adds
its rows, its statements and which rows they want; `SchoolOffice` puts them
together.

| Module | Actions | Code |
|---|---|---|
| `Payroll` | `LookForCycle`, `InsertCycle` | `createPayrollCycle` |
| | `ReadCycle`, `ComputePayslips`, `FindSlips`, `DeleteSlips`, `CreateSlip`, `ApproveCycle` | `processPayrollCycle`: payslips computed from any non-empty list of staff, that of the moment, the old ones deleted whatever their status, the new ones inserted one by one, the cycle written by id |
| | `ReadSlip`, `PaySlip`, `CountPending`, `PayCycle` | `markPayslipPaid` |
| `Admissions` | `ReadActiveYear`, `InsertApplication` | `createApplication` |
| | `ReadForStatus`, `ReadForReject`, `WriteStatus` | `updateApplicationStatus`, `rejectApplication` |
| | `ReadForConvert`, `InsertUser`, `InsertStudent`, `MarkConverted` | `convertApplicationToStudent` |
| | `ReadCounter`, `ReadBaseline`, `Probe`, `SaveCounter` | `generateNextSequence` inside of the transactions of both |
| | `ReadForEnter`, `EnterStudent` | `createStudent` of `students.service.ts` 39-139, with a number and an address of the caller's choice |
| | `ReadForUpdate`, `ChangeAddress`, `FreeNumber`, `WriteNumber` | `updateStudent` 386-488, as far as address and number go |
| `Documents` | `ScanUpload`, `StoreFile`, `InsertDocument` | uploads for students and applicants: scan, file, row |
| | `ReadForDelete`, `DeleteFile`, `MarkDeleted` | deletion by hand: row read without a lock, file, row |
| | `LockForPolicy`, `WritePolicy`, `ReadForRescan`, `ScanFile`, `LockForRescan`, `WriteVerdict` | `document-security.controller.ts`: the row is locked and read again |
| | `ListDue`, `NextDocument`, `DeleteFile`, `MarkDeleted`, `CommitPurge`, `PurgeFails` | `enforceRetention`: a list, then a transaction for each document, with `FOR UPDATE SKIP LOCKED` |
| | `LateDeletion` | the storage carries out a deletion whose transaction is gone, or never |
| `Certificates` | `NextLearner`, `CountCertificates`, `InsertCertificate` | `issueCertificate`, `bulkIssueCertificates` |
| | `ReadForRevoke`, `RevokeCertificate` | `revokeCertificate` |
| `PtmBooking` | `InsertSession`; `ReadForBook`, `CheckTeacher`, `CheckTime`, `Book`; `ReadForCancel`, `Cancel`; `ReadForComplete`, `Complete` | `createSession`, `bookSlot`, `cancelBooking`, `completeSlot` |
| `AiCircuit` | `Call`, `OverQuota`, `Enter`, `Succeed`, `FailTransiently`, `FailForGood`, `Cool` | `execute`, `checkCircuitBreaker`, `recordSuccess`, `recordFailure`: what happens between two awaits is one step |

Details worth knowing:

* The totals of a payroll cycle are kept as the function from staff to net they
  are the sums of, so that two different sets of payslips are never the same
  total. A run takes any non-empty list of staff, and two runs may have nobody in
  common; a run that finds nobody is refused (`RefuseNoStaff`).
* A student is a row under its admission number, which is unique in the school and
  may change, with an id; the account is a row under that id. An address that
  `convertApplicationToStudent` makes from an application number is the number, any
  other is `OtherAddress`: `UserOf` is the unique index on e-mail, restricted to
  addresses of the first kind. Two entered addresses that are equal are refused by the
  same index: part of the free choice to refuse in `LookForNumber`.
* A failed statement fails its transaction. `bulkIssueCertificates` catches the
  error of each student and goes on, but what the list has issued before is
  undone with the request, whatever the response counts.
* A row of a document and its file are two pieces of state. `late` holds the
  deletions that were sent when the transaction of the sender ended; the job has
  a slot like a request (a second slot is a second replica), and its own
  transaction for each document.
* The breaker's counter stops at its threshold, beyond which it makes no
  difference.
* Left out of `Admissions`: a clerk who enters an address that a conversion would
  make (`student_<number>@example.com`); the compact numbers `ADM26<n>` and numbers of
  other years, both of which `generateNextSequence` may take its baseline from
  (an entered `0` stands for a number without a pattern it knows); the limit of 100
  probes. Three other writers of what is modelled: an erasure
  (`dpdp.service.ts:545`) and SCIM (`scim.service.ts:335`) change addresses, as
  `ChangeAddress` does, and the assistant submits applications
  (`ai.service.ts:2417`) and sets their status (745), as `StartApply` and
  `StartStatus` do.
* Left out elsewhere: enrolment and guardian rows, new with the student of a
  conversion; the audit entries, and with them the lock of the audit chain near the
  end of some requests (`AuditTrail`); PDFs and notifications; the verdict of the
  scanner; the counters of the AI quotas (`OverQuota` may refuse at any time); the
  change of the calendar year in certificate numbers (7.2).

### 7.2 Runs

`SchoolOffice` checks all six. They share no row and no file, so `OneFamily`
keeps a behaviour in one of them; in each, two requests run at a time, or one
after something was aborted (`Pairs`):

| Family | Instance | Properties |
|---|---|---|
| Payroll | one month, two members of the staff, three runs of processing over any lists of them | `CycleMatchesSlips` |
| Admissions | two applications, both of which may be converted, and two students; one is entered, or has number or address changed, while the others are converted; entered numbers are 2, which is drawn too, and 0, which is not | `OneStudentEach`, `AdmissionsContinuous` |
| Documents | one document and all operations, or two that are uploaded and purged, of which one run takes one | `PurgeIsExclusive`, `DeletedHasNoFile`, `ElapsedIsPurged` |
| Certificates | two students, three types of which two share a prefix, four certificates | `CertificatesContinuous` |
| Meetings | one slot, two students | see `PtmDoubleBooked` |
| Calls | two callers, threshold 2, one retry, a provider that comes and goes | `BreakerRecovers` |
| all | | `RequestsEnd` |

What they show:

* `CycleMatchesSlips`: in whatever order a cycle is processed, processed again and
  paid, its totals are those of all the payslips that one run has made, each with
  the net which that run computed; and if there are no others, a PAID cycle
  has none that is not PAID. It holds although the cycle is written by id: a payment
  that has counted holds its payslip, a run deletes or refuses over every payslip
  it meets, and a payment of a deleted payslip fails. Three runs let two of them meet
  over the payslips of a first one; the last run is not also met by a payment
  (`PayrollFamily`). What does *not* hold: two runs at once with nobody in common
  meet on no payslip, both commit, and the payslips of both stay under the totals of
  the later one; a payment that counted before the later run committed can then set
  the cycle PAID while a payslip of that run is PENDING. The code lets this happen
  (343-359 asks only for a list that is not empty), and the property says nothing
  against it.
* `OneStudentEach`: both conversions read the application as not converted; the
  second is refused by the e-mail address made from the application number,
  before it draws a number. The property is about what that address protects: who has
  an address made from an application is the student whom it names. When the
  address is changed between the read of one conversion and the insert of
  another, nothing refuses the second, and two students stand for one application;
  that is what the code does, and the property allows it. The student named always
  exists, and no two applications name the same.
* `AdmissionsContinuous`: a number goes back with the transaction that drew it, since
  the counter is a row of that transaction. It is claimed only of a school in which
  every number was drawn: after a number entered by hand the baseline and the probe
  jump over it, and after one is changed there is a hole, as the clerk wished.
  Failed entries and changes beside the conversions leave no trace.
* `PurgeIsExclusive`: between the row lock of the job and its commit no hold is
  set and no other replica purges. This is about the job: a *deletion by hand*
  reads the hold without a lock, and a hold set before its file is deleted does not
  stop it (`students.service.ts:949`, `admissions.service.ts:805`).
  `DeletedHasNoFile` holds for both, whatever fails; the converse does not: a
  file can be gone while the row is not yet marked, and then `ElapsedIsPurged`
  says that the job comes back to it.
* `CertificatesContinuous`: what is counted may be out of date, the index refuses
  the second of two, and what a list has issued goes with it. This is so in the
  first calendar year of a school: the count is of all years, and the number
  carries the year, so that a second year begins after the count of the first.
* `BreakerRecovers`: no mix of late failures of older calls, refusals and probes
  leaves the breaker refusing for ever, once the provider answers and calls
  come.
* `RequestsEnd`: processing locks payslips and then the cycle in one order, a
  payment of the last payslip in the same; two conversions wait for one
  another's counter; whatever cycle of waits there is, a victim ends it.

The nets of a run are fixed by its number, and by symmetry the first run is for the
first member of the staff, or for both (`ListOfRun`); the first application is
accepted and rejected, the second only accepted (`Decided`); work by hand is one
entry or one change, beside conversions of accepted applications and without aborts
(`ByHandOnce`); a list of students is gone through in one order; one certificate is
revoked at most. Each mutant of a property is found within these bounds.

`PtmDoubleBooked`, one meeting slot and two parents: `BookingStands` is violated.

Fairness: requests run on and locks are granted in turn (`SF`, slots being
reused); a deadlock is resolved (`WF`); the job is started by its schedule
whenever something is due and a slot is free (`SF` of `SweepDue`); a call of the
model ends by its timeout, and the cooldown passes (`WF`). Of the storage it is not
assumed that it answers, carries a deletion out, or does so in time; but failures are
bounded: one abort or failed deletion in a behaviour, none where there are two
documents. `ElapsedIsPurged` says nothing of a storage that fails for ever. In
particular the job takes 500 documents without an order (`take: 500`), and were
all that it takes documents whose deletion fails each time, it would come to no
other; `Take` is 1 in the model, and no deletion fails when there are two.
`BreakerRecovers` assumes in its premise that calls keep coming: a breaker is
half-opened by a call and by nothing else.

### 7.3 Findings

* `PtmDoubleBooked`: `ptm.service.ts:303` says "Atomically check slot availability
  and book"; the check is a read under READ COMMITTED, the update is by id. The
  second parent's update waits for the first to commit and overwrites it.
Also met, without a run of their own:

* Certificates are counted by type and numbered by prefix
  (`certificates.service.ts:259-264`), five types share `CERT`, and a number is unique
  in the school (`prisma/schema.prisma:1990`): after a bonafide certificate the first
  character certificate is given a number that exists. It is refused, and, as the
  count of its type stays 0, refused for the rest of the year. `CertificatesContinuous`
  holds all the same: what is refused leaves no gap.
* The last two payslips of a cycle marked at the same time each count the other as
  PENDING, and the cycle is never PAID (`payroll.service.ts:793`).
* Processing again deletes payslips that are PAID, where the comment at 469 speaks of
  draft ones.
* Two runs with nobody in common, and two students for one application after a change
  of address: see 7.2.

### 7.4 Proofs (`SchoolOfficeProofs`, `OfficeRecordsProofs`, `PayrollProofs`)

`PurgeIsExclusiveHolds` and `DeletedHasNoFileHolds` are about the composition of
all six parts, for any constants, under `DocumentsAssumption` (`NoRow` is not the
row of a document). They rest on what a step of any part may touch
(`Footprint`): it locks only what nobody else holds, and publishes nothing but
its own draft, by a commit. Hence a row has one uncommitted writer (`Exclusive`);
the lemmas named `...Away` show that the other five parts write no row of a
document.

`DocumentsInv` then follows a document: its row is new until its upload inserts
it (`New`); whoever deletes a file works on a row that exists, and has deleted
the file before it marks the row (`AtHand`); a row drafted as deleted has no file
(`Drafts`); between its lock and its commit the job holds the row, which is still
due (`Held`). No file comes back, as only an upload stores one and its row is new.

`OfficeRecordsProofs` states once how the parts keep out of each other's way: a
part is a set of tables and a set of statements; a step of a part is `Within`
them, uncommitted rows of a part are those of its requests (`Confined`), and
whatever another part does, fails or aborts, `Leaves` the part alone. Each
invariant below is then only about the steps of its own part, and about
commits. They assume that `NoRow` is no row of the part
(`CertificatesAssumption`, `AdmissionsAssumption`, `PayrollAssumption`), and nothing
of the lists of staff or of who enters what.

* `CertificatesContinuousHolds`. `CertificatesInv`: the committed numbers of a
  prefix are 1 to a last one, and a request has inserted exactly the numbers that
  follow it. What it counted may be out of date or may be of one type among
  several with the prefix: a number that is not the next one exists already, for
  the request or for whoever it waited for, and the insert is refused.
* `OneStudentEachHolds`. `AdmissionsInv` relates applications, students, accounts
  and the index of addresses in what is committed (`Admitted`), and says what each
  request has written at each statement (`Stage`): a conversion has opened an
  account under a new id with an address nobody has (`Opened`), then made its student
  (`Enrolled`), then named it (`Converted`); what is done by hand makes a student
  of its own (`ByHandEntered`) or moves one between numbers and addresses
  (`Moving`). The heart is that who converts an application holds the address made
  from its number, so that nobody else commits one, and that a new id is named by no
  application. A change of number keeps the id, so that the student whom an application
  names is still there. The counters do not matter here.
* `CycleMatchesSlipsHolds`. `PayrollInv` says of each month that the cycle has the
  totals of some run (`Settled`, `TotalsAreOf`), and of each request what it has
  written at each statement (`Booking`). `Numbered` (each run has a number of its own,
  which no committed payslip has while the run is under way) keeps the payslips of
  two runs apart, those with nobody in common included. A run that comes to write
  the cycle has made every payslip of its list (`Replaced`), and holds them to its commit:
  no payment of one is under way. A payment that comes to write the cycle holds its
  payslip and has seen all others of its run paid (`AllPaid`); another run that would
  delete them waits for that payslip. Hence the writes of the cycle by id, which read nothing, write what is true
  of one run.

Of the safety properties of `SchoolOffice` all but `AdmissionsContinuous` are proved.
Model-checked only: that one, and liveness (`ElapsedIsPurged`, `BreakerRecovers`,
`RequestsEnd`); the breaker has no safety property of its own.

---

## 8. What is left

* Proofs: every safety and action property of the passing runs is proved, except
  `AdmissionsContinuous` and, of fee collection, `RecordedOnce`, which holds with one
  request at a time only. The liveness properties are beyond the proof system. What
  could still be proved are statements no run asks for yet, such as that
  a booked meeting slot has one parent once its routes lock the row.
* Dues and orders in `FeePayments`; a clock for each replica in `AuditTrail`; the
  variants of the payroll race above as runs of their own; records that are made
  outside of the control plane, in `AgentControlPlane`.

## 9. What is not modelled, and why

* *Sign-in and identity* (`modules/auth/`, federation, SCIM): rests on tokens,
  one-time codes and protocol libraries more than on the order of steps; left out
  of this project.
* *Examinations, timetable, attendance*: marks, report cards and attendance are
  batches of upserts on unique keys in one transaction; the last writer wins, and
  the code promises no more. Ranks of two generations of report cards can mix
  until the next one. `saveSlot` looks for conflicts and then writes with no
  index behind it: two editors can book one teacher, and no promise that two
  requests keep would be left to check.
* *Users, staff, schools, classes, curriculum, assignments, alumni, discipline,
  activities, privacy requests, subscriptions*: one statement or one transaction of
  statements over rows of their own, without an interleaving beyond the row
  lock. `recordAiUsage` and `recordStorageUsage`, which would make quotas counters, have no
  caller.
* *Chat, prompts, text similarity, dashboards, reports, PDFs*: data without a
  protocol, or read only.
* *Delivery* by mail, push and sockets: best effort I/O whose errors are logged.
* *RLS policies* are SQL; the models take their effect. *Guards and pipes* are
  functions of one request. *Web and scripts*: user interface, and programs
  run by hand.
* Liveness, ENABLED and what recursive definitions compute are beyond the proof
  system and are model-checked.
