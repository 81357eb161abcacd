# StockFlow: a TLA+ verification project

StockFlow is a serverless inventory platform for a chain of electronics
branches: a NestJS API in a Lambda, worker Lambdas driven by Step Functions,
SQS and EventBridge, and one PostgreSQL database reached through Prisma.  This
directory holds TLA+ modules that model the parts of it that change shared
state, the TLC configurations that check them on small instances, and theorems
proved with TLAPS.

Paths below are relative to the repository.

## 1. The system

| Component | State it keeps | Operations that change state | Interacts with |
|---|---|---|---|
| Transfers (`apps/api/src/transfers`) | `transfers`, `transfer_items`, and through them `inventory.quantity`, `inventory.reserved_quantity`, `stock_movements` | `create`, `approve`, `reject`, `cancel` | inventory rows, movement ledger |
| Inventory (`apps/api/src/inventory`) | `inventory`, `stock_movements` | `adjust` | transfers (reservations), imports |
| Imports API (`apps/api/src/imports`) | `import_jobs`, `import_job_rows` | presigned upload, `init`, `upload`, `start`, `confirm`, `cancel` | the Step Functions execution through a task token; inventory when it commits locally |
| Import pipeline (`apps/lambdas/import-*`, `infrastructure/terraform/serverless.tf`) | the Step Functions execution, `import_jobs.status`, rows | validator, parser, token register, writer, fail handler, with retries | Imports API, inventory, recovery queue |
| Import recovery (`apps/lambdas/import-recovery-worker`, `apps/api/src/recovery`) | `import_recovery_items`, `audit_logs` | terminal-event handling, stale scan, `replayImport`, `discardImport` | EventBridge, SQS (at least once), Step Functions |
| Report jobs (`apps/api/src/reports`, `apps/lambdas/report-exporter`, `apps/api/src/recovery`, `apps/api/src/dlq`) | `export_jobs`, the report queue and its DLQ, S3 artifacts | create and dispatch, claim, finalise, fail, redelivery, `replayReport`, `discardReport`, redrive | SQS, S3 |
| Reconciliation (`apps/lambdas/reconciliation`, `apps/api/src/reconciliation`) | `reconciliation_issues`, correcting movements | daily run, `runSync`, `resolve` | inventory, movement ledger |
| Notifications (`apps/api/src/notifications`, `apps/web` bell and page) | `notifications`, the browser's list | SNS delivery with de-duplication, push and mail, mark as read, refetch | fail handler and writer (SNS), Pusher, SES, browser |
| Users (`apps/api/src/users`, `auth/jwt-auth.guard.ts`) | `users`, the Cognito pool | `create`, `update`, `delete` with compensation; first link of an identity by the guard | Cognito, every request |
| Branches (`apps/api/src/branches`) | `branches`, and by their foreign keys `users` and the rows that name a branch | `create`, `update`, `delete` or deactivate | users, imports, exports |
| Authorization (`apps/api/src/auth`, the list scopes of each service, the dashboard's tabs) | none | pure decisions over role, branch and ownership | every controller, the web client |
| Daily operations report, infrastructure declarations | mails; none | queries | not modelled |

What is hard here: READ COMMITTED transactions that read without locking and
then write unconditionally; row locks taken in different orders; a status
column written by the API, by Lambdas and by a scheduled scan with no common
guard; at-least-once delivery of queue messages and terminal events, with
leases and retry limits; external effects (SendTaskSuccess, StartExecution,
SendMessage, Cognito) next to a database commit, with a crash or a lost answer
in between.  `PROJECT.json` lists the hazards line by line.

What makes each part correct:

- *Transfers and inventory*: `0 <= reserved <= quantity` for every row; every
  unit explained by a movement; a reservation is held exactly by the pending
  transfers; a transfer is decided once; requests do not block for ever.
- *Imports*: a row adds to stock at most once, whatever is retried, replayed or
  confirmed twice; a job's final status tells what happened to its rows; a
  cancelled job adds nothing; a job never stays in flight without an owner.
- *Recovery*: a failed execution leaves an item somebody can act on, whatever is
  duplicated or reordered; replays are bounded; nothing stays REPLAYING or
  COMMITTING without an owner.
- *Report jobs*: at most one worker owns a job; a finished job stays finished;
  a job that is not finished has a message, an owner or an operator's decision.
- *Reconciliation*: what it measures is known exactly; one open issue per row;
  an issue is paid for once; a mismatch that lasts is reported.
- *Notifications*: one record and one mail per message; the browser shows a
  record once, and as read once it was marked.
- *Users, branches, authorization*: Cognito and the database agree after every
  request; a request runs only as a current account; no list shows what the
  single-row endpoint refuses; an account without a branch sees nothing.

## 2. Modules

| Module | What it models |
|---|---|
| `StockTables` | inventory keys, transfer bodies and statuses: the data shared by the next two |
| `StockContract` | the promise: every transfer or adjustment request one indivisible step |
| `StockTransfers` | the code: each request a PostgreSQL transaction, statement by statement, with row locks, CHECK constraints, rollback, lost connections and the deadlock detector |
| `MCStockTransfers` | instances of it for TLC |
| `StockTransfersProofs` | theorems about it |
| `SumTheorems` | induction over finite sets and lemmas on sums, for the theorems about stock |
| `ReportJobs` | report exports: API requests, queue, DLQ, exporter invocations, leases |
| `ReportJobsProofs` | theorems about it |
| `ImportJobs` | one import job: its executions of the state machine, their Lambdas, and the API calls on the same rows |
| `ImportRows` | the two readers of a spreadsheet and the row schema, as pure operators |
| `MCImportJobs` | the instance whose rows are the lines of a sheet, and the sheets on which the readers are compared |
| `ImportJobsProofs` | theorems about it and about `ImportRows` |
| `ImportRecovery` | on top of `ImportJobs`: terminal events, the stale scan, replay and discard |
| `MCImportRecovery`, `ImportRecoveryProofs` | its instance, its theorems |
| `Reconciliation` | on top of `StockContract`: movements, issues, runs, `resolve` |
| `MCReconciliation`, `ReconciliationProofs` | its instance, its theorems |
| `Access` | the policies, list scopes, endpoints and tabs, as pure operators |
| `Accounts` | on top of `Access`: users, the Cognito pool, branches, sessions |
| `MCAccounts`, `AccountsProofs` | its instance; theorems about it and about `Access` |
| `Notifications` | messages, callbacks, records, mails, the browser's list |
| `MCNotifications`, `NotificationsProofs` | its instance, its theorems |

Composition goes by EXTENDS: `ImportRecovery` adds actions to those of
`ImportJobs` and starts more executions of the same job, `Reconciliation` adds
runs to the steps of `StockContract`, `Accounts` makes requests with the
operators of `Access`.  `StockTransfers` implements `StockContract`, so that
what `Reconciliation` says of a contract step holds of a committed transaction.
The stock and the import models do not share variables: an import adds to
`inventory` and inserts an `IMPORT_IN` movement in one transaction, which for
`StockTransfers` is an adjustment upwards under another movement type.  There
imports appear only as opening stock, and `ImportJobs` only counts how often a
row was added.

### StockTransfers

`book` holds the committed columns `quantity` and `reserved` of each row
(branch, component) and, per movement type, the sum of
`stock_movements.quantity_change`; `transfer` the committed transfers.  A
session is one API request in flight: `pc` names its next statement, `job` the
request, `todo` the items its loop has left, `tx` what it has written and not
committed, as differences to `book`.  `lock` names the session that has updated
a row and not ended.

- A read takes no lock and sees committed rows plus own writes (`Visible`).  An
  UPDATE or upsert is disabled while another session holds the row (`Free`),
  so it waits; the row must satisfy the CHECK constraints and the integer range
  afterwards (`Fits`), else the transaction is rolled back.
- `create` takes the items sorted by component (`LockOrder`); `approve` and
  `reject`/`cancel` take them in whatever order the query returned them
  (`Arrangements`).
- Statements that no other session can observe one by one are merged: the
  inserts of movements with the update they belong to, and the last update with
  the COMMIT, since after it the transaction waits for nothing.
- A row that does not exist behaves as a row of zeros in every statement.
- Not in the state: `version` (written, never read), timestamps, notes,
  `minStockThreshold`, who acted (the authorization policy is pure).

Bounds: the transfers that may be created (`TransferId`), the bodies submitted
(`Request`), the adjustments (`Adjustment`) and the largest integer (`MaxInt`),
which bounds adjustments as the column's range does.  Two branches are enough
for every pair of rows a transfer touches; two components are needed only for
lock order and are used there; two transfers and two sessions are the least that
let a second decision consume another transfer's reservation.

### ReportJobs

`status`, `startedAt`, `attempts` are columns of `export_jobs`.  The exporter's
claim writes a new `processing_started_at` and increments `attempt_count` in one
statement, so the number of the attempt stands for the time.  `expired` says
that the claim is older than the lease, `artifact` which attempt wrote the file
stored under the job's key.  A message is in one `place`: unsent, visible, held
by a worker, in the DLQ, deleted; `receives` is its receive count.  An exporter
invocation goes `claim`, `generate`, `finalise`, or `failed` for the catch; an
API request goes `send`, and `undo` for the catch around the dispatch.

- `Claim` is the conditional `updateMany`, `Skip` the acknowledgement of a
  message whose job it did not get.  `Finalise` and `HandleFailure` name the
  time they claimed with (`Owns`).
- `HandleFailure` writes PENDING or, at the last delivery (`Exhausted`), FAILED,
  and leaves the message to the queue, which moves it to the DLQ.
- `MarkDispatchFailed` writes FAILED unconditionally, as the code does.
- A batch is a set of single messages; that an invocation cut short returns
  messages it has dealt with is a case of `Duplicate`.
- `Fault` names what may go wrong, one name per kind: a failing report, crashes,
  failing statements, refused or unanswered sends, duplicate deliveries, leases
  that end early.  The deployed lease (900 s) exceeds the exporter's timeout
  (120 s): no run uses the last, the theorems say which properties do without it.
- Left out: the local dispatch mode, malformed messages, the file's content.

Bounds: messages that can be sent, redrives (`MaxRedrives`), receives and
replays (limits of the code, set to 2).  One job is enough because jobs share
nothing but workers.

### ImportJobs

`status` and `token` are columns of `import_jobs`, `line` the validation status
of the staged rows, `added` how often a row has reached the stock.  An execution
is where it stands in the state machine and in the Lambda of that state (`at`),
the retries left (`tries`), the answer its approval got (`cmd`) and the rows its
parser or writer has still before it (`todo`).  An API request has a next `step`,
the token it has read (`held`) and the rows its transaction has read (`snap`).

- `TaskFails` is the `Retry` block and, with no retries left, `Catch`:
  `MarkJobFailed`, and after it `TerminalFailure`.  The approval state retries a
  registration that fails (`Register`), like every other state; its timeout
  (`ApprovalTimesOut`) goes to `MarkJobFailed` at once, because `States.TaskFailed`
  does not match `States.Timeout`.  A task token is the execution and its attempt,
  so that a later attempt makes an earlier token worthless.
- A writer's chunk is one transaction (`WriterChunk`); when it rolls back, rows
  still VALID become FAILED (`ChunkFails`).  The claim of a row is the
  conditional update to COMMITTED (`Claimed`).
- `confirm` and `cancel` read the job, then resume the execution, then write the
  status: three steps.  Without a token `confirm` commits the rows itself in a
  transaction that locks the job's row (`LocalBegins` to `LocalCommits`), and
  other updates of the row wait (`SetStatus`).
- Left out: INVALID rows (written once, never touched again), counters, the
  schema check, the notification texts, S3 (the presigned post's limits).

Bounds: rows, executions, requests and `MaxRetries` (2 in Terraform).  One row
is enough to be added twice; three rows with chunks of two have a full and a
partial chunk.

`ImportRows` says which staged rows a spreadsheet becomes.  A cell is blank, a
word, a number or a formula; a word is a text that no number is written as, and
of it it matters whether it is spelled as the schema spells it.  Other cells are
left out: booleans (FALSE is the text "false" for the API and nothing for the
Lambda), dates and rich text; so is a blank first row, of which the API makes the
header while the Lambda goes on to the first row with a cell.  `ParserRow` is the
Lambda's reader, `UploadRow` the API's (`normalizeExcelRow`), `Passes` the zod
schema.  `ReadersAgree`: outside the
differences that `Ambiguous` lists, one for a line of code that makes it, both
stage the same rows with the same verdict, but for the duplicates of a sku that
only the API refuses.  TLC evaluates it on the sheets of `MCImportJobs`, as an
assumption of `import_once`, and with it that the rows of that run are the lines
of a sheet that pass.  Section 4 names the differences.

### ImportRecovery

An execution is a number: the first `Uploads` belong to upload events, the
others are replays in the order they start.  `items` are the recovery items by
the execution they were made for (the unique `execution_arn`), or by one of
`Unnoted`, as many as a run allows, when the scan found none on the job (the
column may be NULL, and NULLs do not conflict), `going` where the
request that replays an item is, `source` and `number` what a replay's input and
name say, `told` how far the worker is with an execution's end, `arn` the
execution noted on the job, `scan` where the stale scan is.

- `TellSuccess`, `TellFailure`, `OpenItem`, `FailJob` are the statements of
  `persistTerminalEvent` one by one; `Redelivered` and `EventLost` are the queue
  and EventBridge.
- `ScanReads`, `ScanOpens`, `ScanMarks` are `scanStaleJobs`.  Its 25 hours are
  longer than any Lambda, request or approval lasts, hence `Quiet`; what happens
  between its own statements is not excluded.
- `ReplayClaims` is the transaction of the claim, `ReplayStarts`,
  `ReplayRefused`, `ReplayNotes` the calls after it, `ReplayReopens` the catch.
  `Taken`: the name of an execution is made of the job and the number of the
  replay, and Step Functions does not give it twice.
- `ParametersFail`: the input of a replay has no `size`, which the first state of
  the machine asks for, so a replay fails before its first Lambda.
- Left out: audit logs, the DLQ listing, who may replay (`Access`).

Bounds: one row, one upload, two further executions (one more than `MaxReplays`
allows), one item without an execution (the run never asks for a second), no
retries inside an execution, one API request beside them.

### Reconciliation

`onHand`, `held` and `transfer` come from `StockContract`; `ledger` is the sum of
a row's movements, and each contract step writes the movements its transaction
writes.  A run reads all rows in one statement (`RunStarts`) and the movements
of one row after another (`RunSums`), so that transactions commit in between;
`RunReadsOpen`, `RunCloses`, `RunMatches`, `RunWrites`, `RunAlerts` are its
statements on issues.  `kind` tells the Lambda from `runSync`, which deals with a
mismatch as soon as it meets it, and from a dry run.  `RunAlerts` may fail to
write its notification and go on, as the catch around it does.  `ResolveReads` and
`ResolveCommits` are the read and the writes of `resolve`.  `RunStops` cuts a
run short and keeps what it has written.

Bounds: two rows, one transfer of one unit, one adjustment, one run and one
resolve at a time, 8 issues (more than the run can make), 2 resolutions, 1
run cut short or alert not written.  One row opens with a drift, as rows of the seed do.

### Accounts and Access

`Access` translates `AuthorizationPolicyService` method by method, then the
scope that each list gives its query (`InventoryScope`, `TransferScope`,
`ImportScope`, ...), which endpoints a role reaches, and what the dashboard's
tabs offer and call.  `Accounts` has the two stores `users` and `pool` by e-mail;
a desk is an administrator's request under way, with the calls of
`UsersService` one by one and its catch blocks (`Undo`).  A session is a client's
request: `GuardReads`, `GuardMatches` and `GuardLinks` are the three statements of
`JwtAuthGuard` (the row by `sub`, the row by e-mail, the link), after which it
creates an import or an export or reads.  Tokens are never taken back.
`BranchDelete` takes the foreign keys with it: users lose their branch, and rows
that restrict it turn the deletion into a deactivation.

A call to Cognito may be refused without effect at any time, and ends the request.
`Fault`: a call to Cognito that takes effect and is answered with an error, a
failing statement, a failing compensation, a function that dies.  `damaged` marks
the e-mails on which such a failure is not compensated.

Bounds: one e-mail with a seeded account, linked to its identity or not, two
branches, one desk, one session, one fault, three ids and identities (seed,
recreated, recreated again), one job.  Two e-mails share nothing but branches.

### Notifications

`topic` and `tries` are SNS and its delivery policy, `handler` the invocations
of the callback, `rows` the records, `mails` what was sent, `pushes` the pushes
on their way; `shown`, `fetch` and `marks` are the query cache of the browser and
its requests in flight.  The callback's statements are steps of their own, so
that two deliveries of a message run at the same time.  An answer to `fetch`
replaces the list; a mark that is answered invalidates it (`Invalidated`), which
drops a request in flight.  A request for the list may fail at the API or on its
way (`FetchFails`): the query client sends it once more (`retry: 1`) and then
leaves the list as it is, until a component mounts or the window or the network
comes back (`FetchStarts`).  A mark whose answer is lost was carried out without
the browser being told; it stays in `marks` as lost until the list is asked for
again (`MarkFails`, `InFlight`).

Bounds: the two messages of a job that fails and is replayed with success, of
which the first was dealt with before, two invocations, two deliveries, two
marks.

## 3. What the runs show

| Run | Instance | Shows |
|---|---|---|
| `racing` | 2 sessions, every endpoint, 2 branches, 1 component, 2 transfers | `TypeOK`; `StockBounds` 0 <= reserved <= quantity; `QuantityLedger`, `ReservedLedger` movements explain both columns; `Conservation`.  Racing decisions included: even a transfer decided twice keeps all of these |
| `one_decider` | one session decides, the other creates and adjusts; transfers of two items in both orders | `PendingBacked`, `DecidedOnce`; `ImplementsContract`: refinement of `StockContract`; `CreatesNeverDeadlock` and, though approvals do deadlock, `TransactionsEnd` |
| `report_delivery` | 1 job, 2 messages, 2 workers, 2 requests, redrives; faults: report, crash, database, duplicate | `OneWriter`, `ArtifactReady`, `ArtifactMatches`, `FinishedStays` |
| `report_tended` | 3 messages, fair; faults: report, refused | `Tended` no unfinished job is forgotten, `ReportsEnd` |
| `import_hostile` | 1 row, 2 executions, 2 requests, every call and fault | `WriterAddsOnce` |
| `import_once` | 3 rows in chunks of 2, 1 execution, 2 requests, fair; no duplicate upload event | `AddedOnce`, `CompletedIsTrue`, `CancelHolds`, `ExecutionsEnd`; `ReadersAgree` on the sheets |
| `import_recovery` | 1 row, 1 upload and up to 2 replays, fair; events lost, starts unanswered or refused, replay requests that die | `RecoveryTypeOK`, `RowsExplained`, `ReplaysBounded`, `FailureRecorded`, `ReplayingEnds`, `CommittingEnds` |
| `reconciliation` | 2 rows, 1 transfer, adjustments, runs of every kind, 1 resolve at a time, fair | `DriftExplained`, `OneOpenIssue`, `PaidOnce`, `DriftReported` |
| `accounts` | 1 e-mail, 2 branches, 1 desk, 1 session, 1 fault of any kind | `StoresAgree`, `LinkedOnce`, `AdmittedIsCurrent`, `StrandedByDeletion` staff lose their branch by its deletion alone |
| `notifications` | a job's success after its failure, 2 invocations, 2 tries, fair | `OneMail`, `NoDuplicateShown`, `NotifiedOrParked`; `ReadIsShown` no stale answer lands last; `MarkedIsShown` a mark is shown, unless a request fails for good |
| `decided_twice`, `import_twice` | minimal | the disagreements of section 4 |

Every property has a mutant in `PROJECT.json`: a variant of one definition, the
way a plausible bug would change it, under which the run finds the property
violated.  Deadlock is checked in `racing`, whose clients can always abort or
call again; the other systems may come to rest, when every transfer, message or
execution they have is used up.

What the preconditions of the runs mean:

- `one_decider`: the promise of `StockContract` needs decisions that do not
  overlap, because the code does not lock the transfer it decides.
- `report_delivery` leaves out errors of the dispatch, because the catch around
  it reopens jobs (section 4), and leases that end early: the deployed lease is
  longer than an invocation.
- `report_tended` leaves out crashes and failing statements of the exporter, and
  duplicate deliveries: a request that dies between insert and dispatch, a worker
  whose message comes back before its lease is over, and a second delivery that
  acknowledges the message of an owner who then fails, all leave a job nobody
  tends, and the code has no remedy.
- `import_once` leaves out a second upload event and the local-mode calls
  `upload` and `start`, for which `AddedOnce` or `CompletedIsTrue` fail.
- `import_recovery` has no fault inside an execution beyond those that lead it
  to its failed end; the writer's own faults are those of `import_hostile`.  Its
  liveness properties name the ends from which the code does not come back:
  an event that was lost, a request that died after its claim, and a job whose
  item was closed, on which the scan fails for ever.
- `reconciliation` has one run and one resolve at a time.  With two of either the
  code creates two open issues for a row, or pays for one twice (section 4).
- `accounts`: `StoresAgree` speaks of e-mails on which no failure went without
  compensation; every other failure is in the run.  One request of the desk at a
  time: with two, an update that writes the role it was given and the branch of a
  role it read earlier can leave staff without a branch (a lost update), and
  `StrandedByDeletion` does not hold.
- `notifications`: `MarkedIsShown` excepts what the client has no remedy for, a
  mark whose answer is lost and a list that cannot be had at the second attempt:
  the old list then stays until something asks for it again.

### Fairness

- `StockTransfers`: strong fairness of a session's steps.  A statement that waits
  for a row becomes enabled whenever the row is released, and PostgreSQL queues
  the waiters.  Weak fairness of the deadlock detector, which runs after
  `deadlock_timeout`.  None for clients or aborts.
- `ReportJobs`: weak fairness of a request, an invocation, a lease and a move
  task, which all run on their own once started; strong fairness of a message's
  delivery, because SQS keeps offering it although every worker is busy now and
  then.  None for operators.
- `ImportJobs`: weak fairness of a request; strong fairness of an execution,
  whose updates wait for the job's row while confirms lock it.  That includes
  the timeout of the approval.  None for users, uploads and events.
- `ImportRecovery`: the same, and weak fairness of the handling of an event that
  is not lost (the queue offers it again) and of the scan (every 15 minutes);
  strong fairness of replay requests, whose updates wait for the job's row.
  None for administrators.
- `Reconciliation`: weak fairness of a run; strong fairness of the start of a
  run that is not dry, since the schedule comes every day although others may be
  under way at the hour.  None for clients and administrators, who never have
  to resolve anything.
- `Notifications`: strong fairness of SNS for a message it holds (it waits for an
  idle invocation), weak fairness of invocations and of the browser's requests,
  which come to an end with an answer or an error.
  None for publishers, clicks, focus and pushes, which may get lost.
- `Accounts` states no fairness: nothing in it is promised to happen.

## 4. Where code and documents disagree

Carried as runs that are expected to fail:

- `decided_twice`: `approve`, `reject` and `cancel` read PENDING without a lock
  and write by id.  Two of them commit when the row has enough reserved for
  another transfer, whose reservation is then gone.
- `import_twice`: with a second execution, `confirm` without a token can commit
  rows while a writer commits them.

Met while modelling and not carried as runs (paths under `apps/`):

Reports

- `processReport` acknowledges a message whose job is PROCESSING under a live
  lease, because "the owning worker is responsible for completion"
  (`lambdas/report-exporter/index.ts:64`).  When the owner has crashed and the
  message is its own, nobody is.
- A message reaches the report DLQ after its job is FAILED, and a FAILED job is
  not claimed, so a redriven message is consumed without effect
  (`README.md:55` offers the redrive as a remedy).
- The catch around the report dispatch overwrites COMPLETED with FAILED when
  only the answer of SendMessage was lost, after which the job can be replayed.

Imports

- `confirm` writes COMMITTING after it has resumed the execution, possibly over
  the writer's COMPLETED (`api/src/imports/imports.service.ts:277`); the scan
  makes it FAILED 25 hours later.
- The token registration writes PREVIEW_READY whatever the status is: a
  `confirm` between the parser's PREVIEW_READY and the token completes the job,
  which is then offered for approval again.
- `start` and `upload` make the job PREVIEW_READY before its rows exist
  (`imports.service.ts:206`): a confirm in between completes an empty job.  A
  cancel after the token was cleared only overwrites the status (`:427`).
- The API's reader takes no columns of PSU, CASE and COOLER lines over, so it
  never accepts one; it accepts spaced headers, results of formulas and an
  interface in any case, which the Lambda's reader does not; the Lambda's reader
  stages a repeated sku as VALID.  A VALID row may still not fit its columns
  (Int4, VarChar), and then fails its whole chunk.

Recovery

- The input of a replay has no `size`, which the state machine asks for at once:
  every replay fails.  (The replay's phase document expects success.)
- The runbook says an item is resolved only after a successful terminal event;
  the handler resolves the item behind a failed replay too, and opens another
  one for the failed execution (`lambdas/import-recovery-worker/index.ts:78`).
  That replays are "bounded to three" is due to the executions' names alone,
  since the new item counts from 0.
- A request that dies between its claim and StartExecution leaves its item
  REPLAYING for ever (`api/src/recovery/recovery.service.ts:356`); one whose
  StartExecution took effect unanswered reopens an item whose replay runs (`:375`).
- The stale scan creates an item by a unique column that may be taken by a
  closed one, which aborts the scan of all jobs.
- Replay and discard of an item write the job's status whatever it is, COMPLETED
  included.

Reconciliation

- `lambdas/reconciliation/index.ts:19` takes the sum of all movements for the
  expected quantity; `create` records RESERVATION_CREATED, which changes no
  quantity.  Every pending or completed transfer is therefore a mismatch for
  good: `DriftExplained` says by how much, `QuantityLedger` is the equation that
  does hold, and `resolve` writes a movement that breaks it.
- "Close any stale OPEN issues" is not reached by a run in which every row
  matches (`index.ts:119`).
- Two runs at a time both find no issue and both create one; two resolves at a
  time both find it OPEN and both pay
  (`api/src/reconciliation/reconciliation.service.ts:79`).  A run may write
  what it found to an issue that was just resolved.

Accounts, access and the web client

- Staff are offered no transfer they could create: the form needs two branches
  and `GET /branches` answers with their own (theorem `NoTransferOffered`),
  although the policy lets them create and receive.  WAREHOUSE is not offered the
  approval it may give; STORE_MANAGER is offered an upload that is refused.
- The form that updates a user sends every field it was opened with
  (`web/src/features/users/UsersAdmin.tsx:125`): the last writer wins.
- A branch with users only is deleted, which leaves them without one
  (`api/src/branches/branches.service.ts:75`); the refusal in `users.delete`
  for rows that refer to a user is not reached, as those keys null or cascade.
- `apiRequest` parses every answer as JSON, the empty one of DELETE included.

Notifications

- De-duplication goes by type and job (`api/src/notifications`): the second
  failure of a job is not notified, and two messages of one type and job whose
  checks interleave both are.
- Push and mail are not awaited, and a record whose invocation is cut short
  before the mail is not mailed by the next delivery, which finds the record.
  A failing publish is only logged.

## 5. What is proved

All theorems hold for every value of the constants that satisfies the
assumptions named in the modules, which TLC evaluates in the runs.  A theorem
with a further condition names it (`ASSUME`).  The assumptions are about types
and bounds; the one on sizes is that there are finitely many branches
(`TablesAssumption`), without which a total over branches means nothing.
Components, transfers and sessions may be infinitely many.

- `SumTheorems`: what `SumFunction` of the community module `Functions` gives.
  Its definition draws elements by CHOOSE, so that even "the sum over `S` is
  `f[x]` plus the rest, for any `x` in `S`" needs a proof.  It goes by induction
  over the subsets of a finite set, which `SubsetInduction` states with a set in
  place of the library's operator parameter, from the well-foundedness of strict
  inclusion.  From it: a sum takes and gives up any element (`SumTake`,
  `SumPut`), adds up pointwise (`SumPlus`), does not see zeros (`SumPart`) and is
  the same after a permutation (`SumMoved`).

- `StockTransfersProofs`: `TypeCorrect`, `BoundsHold`, `QuantityExplained`,
  `ReservedExplained`, `OwnRowsHold`, `SeenFitsHold`.  The committed book alone is
  not inductive: a commit adds differences that were checked earlier.  The
  invariant `Safe` says that every session's differences lie on rows it has
  locked (`OwnRows`), that they balance by themselves, and that every row fits as
  its holder sees it; rows are locked by one session, so at commit the
  differences meet the values they were checked against.
  `DecidedOnceAlways`, if `OneDecides`: a transfer under decision is PENDING until
  the deciding session writes it, and those being created have ids of their own
  (`Undecided`).
  `ConservationHolds`, without a condition, even when two sessions complete one
  transfer.  Committed totals alone are not inductive, because an approval debits
  one row before it credits another: `NothingLost` adds that what a session has
  written of TRANSFER_OUT and TRANSFER_IN is, over all branches, minus the one
  item under way (`UnderWay`), and that item is nothing once the loop is done.
  `ImplementsContractAlways`, if `OneDecides`: `StockTransfers` implements
  `StockContract`, with committed columns for the contract's tables.  Insertion,
  the final status update and the adjustment, with which transactions commit, are
  its steps; every other step stutters.  The invariant `Orderly` adds to `Safe`
  what a transaction has written so far: its request, but for the items it has
  not come to (`Progress`), at commit the whole of it.  It needs that the body
  read at the beginning is still the transfer's (`BodyKept`) and that no other
  session decides it (`Undecided`).  Items may come in any order, so the units of
  a body are shown to be the same in all of them (`UnitsArranged`).
  `PendingBackedAlways`, if `OneDecides`, from `Orderly` and `Tallied`: a row's
  reservation is the sum over the pending transfers, which are finitely many.
  `OneDecides` is needed in the last two: the run `decided_twice` shows what
  happens to a transfer without it.
  `CreatesNeverDeadlockAlways`, for any number of sessions: what a create has
  locked comes no later than what it still wants (`LocksAscend`), so along a
  circle of creates the component waited for would grow; the session of the
  circle that waits for the least component is waited for by nobody in it.
- `ReportJobsProofs`: `TypeCorrect`, `ArtifactReadyAlways`, `ClaimsDifferAlways`
  under all faults; `FinishedStaysAlways` when no dispatch fails.  `Safe` adds to
  the properties that messages and requests in flight name a job, that claims
  are numbered up to `attempt_count` (so a new claim differs from all others:
  `ClaimsDiffer`, which no run checks, because with the deployed lease two
  invocations never work on one job),
  and that an invocation about to finalise has stored a file.
  `OneWriterAlways` and `ArtifactMatchesAlways` when moreover the lease outlasts
  an invocation (`Deployed`).  Their invariant `Alone` says that the job of a
  working invocation is PROCESSING under its claim, or was completed by a
  statement whose answer it did not get, and that the file it is about to
  finalise is its own.
  `TendedAlways`, if `Reliable` (no crash, failing statement or duplicate): an
  invocation holds its message, and a PROCESSING job has an owner at work
  (`Owned`), whose message is not the one that another invocation skips.
- `ImportJobsProofs`: `TypeCorrect`, `RowsExplainedAlways` and
  `WriterAddsOnceAlways` under all faults and any number of executions;
  `AddedOnceAlways` with no duplicate event and no `start`.  Its invariant
  `OnceInv` says that one execution runs, that the job is not PREVIEW_READY while
  the writer commits, and that a transaction of `confirm` is alone, with the rows
  it has read still VALID.
  `CancelHoldsAlways` under the same conditions: from the approval on, the job is
  not PREVIEW_READY without a token and no transaction of `confirm` runs
  (`Sealed`), so the answer to the approval is the last word, and a writer that
  was told to cancel stays away from its chunks (`Answered`).
  `CompletedIsTrueAlways` when moreover no `upload` makes a job without rows: a
  job is offered once every row is there (`AllStaged`), only a writer makes rows
  FAILED (`FailedByWriter`), it has all VALID rows still on its list
  (`Accounted`), and a transaction of `confirm` has read what is not yet in the
  stock (`TxTakesAll`).
  `ReadersAgreeAlways`, for every sheet of any number of lines: outside the known
  differences the readers make the same row of a line, or rows that do not pass
  (`RowsAgree`); the fold over the rows, once more by `SubsetInduction`, has
  noted of the first `n` which count and the skus of those that pass (`Noted`);
  and different cells spell different skus (`SpelledApart`).
- `ImportRecoveryProofs`: `RecoveryTypeCorrect`, `RecoveryRowsExplained`,
  `RecoveryWriterAddsOnce` carry the invariants of `ImportJobs` over to the larger
  system, in which rows become VALID again and more executions start.
  `ReplaysBoundedAlways`: numbers of replays lie in `1 .. MaxReplays` and no two
  replays have the same, because a taken name is refused; an injection into that
  interval bounds their number.
- `ReconciliationProofs`: `PaidOnceAlways` with one resolve at a time (`PaidInv`:
  an issue that is read to be resolved has not been paid for, and runs never
  reopen one); `OneOpenIssueAlways` with one run at a time (`OpenInv`: a run about
  to create an issue is still alone with its finding, since resolve only closes);
  `DriftExplainedAlways`, for any number of runs and resolves.  `Explained` states
  it over the finitely many transfers that reserve; resolutions change it only
  through issues that exist, whence `Fits`: what a run or a resolve in flight has
  read are rows of the issues table (`IssuesFit`, `RunsFit`), and nothing is paid
  for issues that are still to be created.
- `AccountsProofs`, on `Access`, for any branches, accounts and rows: `InventoryListReadable`,
  `TransferListReadable`, `ImportListReadable` a list shows exactly what the
  policy for a single row admits; `BranchlessRefused` staff without a branch are
  listed nothing but the exports they asked for themselves, none of which they can
  open (`GET /exports` goes by `createdBy`), and can store nothing; `DecisionsSeparate` who
  approves, who cancels; `TabsAnswered`, `UploadsOffered`, `NoTransferOffered`
  what the dashboard offers against what the API admits.
- `AccountsProofs`, on `Accounts`: `TypeCorrect`; `LinkedOnceAlways`, `AdmittedIsCurrentAlways`.  The guard links by an earlier read, so the
  invariant `Linked` says why that read is still true: Cognito gives no identity
  twice (`Issued`), only the seed's row can be without one and no other identity
  is made for its e-mail while it is there (`SeedLinks`), and a request about to
  link has read that row (`LinksSeed`).
  `StoresAgreeAlways`, if `OneDesk`: the invariant `Paired` says how users table
  and pool stand to each other at each step of a request half way (`Midway`),
  among them those of its compensation; the guard's link does not part them,
  because of `Linked`.  `StrandedByDeletionAlways`, if `OneDesk`: the role of the
  row an update has read is still the row's when it writes (`Backed`), since only
  the desk changes roles, so the branch it writes fits the role it leaves.
- `NotificationsProofs`: `TypeCorrect`; `OneMailAlways` (a message has one record,
  of its invocations one at most is about to mail, and only the one that made
  the record); `NoDuplicateShownAlways` (neither the list nor an answer in flight
  names a record twice); `ReadIsShownAlways`: for a record that is read, either the
  browser has not been told of its mark (`Untold`) or the record is settled: the
  answer in flight has it as read and, with no request in flight, so has the list
  (`Settled`).  That the list has it matters, since a push adds a record that is
  not there as unread.

Only model-checked: liveness (`TransactionsEnd`, `ReportsEnd`, `ExecutionsEnd`,
`FailureRecorded`, `ReplayingEnds`, `CommittingEnds`, `DriftReported`,
`NotifiedOrParked`, `MarkedIsShown`), which is out of the prover's reach, as is
ENABLED.  Every invariant and action property of the passing runs is a theorem.

## 6. What is not modelled

- The daily operations report (`lambdas/daily-ops-report`): it only reads, and
  mails what it has read.  Met while reading: a retry by the Scheduler does not
  make the same mail, as `index.ts:90` says, since its window ends now; a section
  whose query failed does not count in the status; imports are counted by their
  last update.
- Infrastructure other than the state machine, queues, schedules and timeouts
  that the models quote; CI.
- The presentation of the web client.  Of it are modelled the tabs and what
  they offer (`Access`), the notifications' cache (`Notifications`), and the
  administration of users and branches as the requests it makes (`Accounts`).
- Local modes that replace SNS, Cognito or the queue by a call in the process,
  where they change no state the deployed mode does not change.
- CRUD on components, the low-stock queries as such (their scopes are in
  `Access`), audit logs, counters of progress, notification texts, S3 beyond the
  file under a report's key.

What remains worth doing: `PaidOnce` and `OneOpenIssue` hold with one resolve and
one run at a time; stating what is still true when they overlap would say how
much a second one can do.
