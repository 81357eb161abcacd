----------------------------- MODULE ImportJobs -----------------------------
(***************************************************************************)
(* One import job: the executions of the Step Functions state machine that *)
(* its spreadsheet starts, with their Lambdas import-validator,            *)
(* import-parser, import-approval-token-register, import-writer and        *)
(* import-job-fail-handler, and the calls of ImportsService on the same    *)
(* rows of import_jobs and import_job_rows.                                *)
(*                                                                         *)
(* Row holds the lines of the spreadsheet that pass the schema; lines that *)
(* do not are stored as INVALID and never touched again.  A staged row     *)
(* counts how often its quantity has been added to the stock, with its     *)
(* IMPORT_IN movement.  A task token is the execution and the attempt of   *)
(* its approval state.  ImportsService.confirm without a token commits the *)
(* rows in a transaction of its own, which has the job's row locked until  *)
(* it ends.                                                                *)
(*                                                                         *)
(* What may go wrong is the constant Fault:                                *)
(*   bad_file     the validator rejects the file                           *)
(*   crash        a Lambda or an API request is cut short                  *)
(*   database     a statement of a Lambda fails                            *)
(*   lost_answer  SendTaskSuccess takes effect but the API sees an error   *)
(*   duplicate    the upload's event, or the upload, comes more than once  *)
(***************************************************************************)
EXTENDS Naturals, FiniteSets

CONSTANTS
  Row,         \* the valid lines of the spreadsheet
  Exec,        \* executions that may be started
  Request,     \* API requests in flight at a time
  ChunkSize,   \* CHUNK_SIZE of the parser and the writer
  MaxRetries,  \* MaxAttempts of the state machine's Retry blocks
  Call,        \* the API calls that are made: presign upload confirm cancel start
  Fault,       \* what may go wrong
  NoToken      \* awsTaskToken is null

ASSUME ImportAssumption ==
  /\ IsFiniteSet(Row)
  /\ ChunkSize \in Nat \ {0}
  /\ MaxRetries \in Nat
  /\ NoToken \notin Exec \X (0 .. MaxRetries)

VARIABLES
  status,   \* import_jobs.status, ABSENT before the row exists
  token,    \* import_jobs.aws_task_token
  posted,   \* a presigned POST has been handed out for the job
  line,     \* validation_status of a staged row, ABSENT when there is none
  added,    \* how often a staged row has been added to the stock
  at,       \* where an execution is: its state, and the step of its Lambda
  tries,    \* retries the state machine has left for the task
  cmd,      \* the action its approval was answered with
  todo,     \* rows its parser or writer still has before it
  step,     \* the next step of an API request
  held,     \* the task token it has read
  snap      \* the VALID rows its transaction has read

jobVars == <<status, token, posted>>
rowVars == <<line, added>>
execVars == <<at, tries, cmd, todo>>
apiVars == <<step, held, snap>>
vars == <<jobVars, rowVars, execVars, apiVars>>

ImportStatus ==
  {"ABSENT", "UPLOADED", "VALIDATING", "PARSING", "PREVIEW_READY", "COMMITTING",
   "COMPLETED", "PARTIAL_FAILED", "FAILED", "CANCELLED"}
Token == {NoToken} \cup (Exec \X (0 .. MaxRetries))

Final == {"COMPLETED", "PARTIAL_FAILED", "FAILED"}
Committing == {"load", "chunks", "tally"}
Writing == {"write", "cancelling", "committing", "thrown"} \cup Committing \cup Final
Running == {"validate", "parse", "stage", "register", "markFailed"} \cup Writing

Init ==
  /\ status = "ABSENT" /\ token = NoToken /\ posted = FALSE
  /\ line = [i \in Row |-> "ABSENT"]
  /\ added = [i \in Row |-> 0]
  /\ at = [e \in Exec |-> "none"]
  /\ tries = [e \in Exec |-> 0]
  /\ cmd = [e \in Exec |-> "none"]
  /\ todo = [e \in Exec |-> {}]
  /\ step = [r \in Request |-> "idle"]
  /\ held = [r \in Request |-> NoToken]
  /\ snap = [r \in Request |-> {}]

\* A transaction of confirm holds the job's row: others cannot update it.
Unlocked == \A r \in Request : step[r] # "tx"

SetStatus(s) == Unlocked /\ status' = s

Valid == {i \in Row : line[i] = "VALID"}

\* The next CHUNK_SIZE rows; which rows come first is left open.
ChunkOf(rows) ==
  {c \in SUBSET rows : Cardinality(c) = ChunkSize \/ (c = rows /\ Cardinality(c) < ChunkSize)}

\* createMany with skipDuplicates.
Staged(rows) == [i \in Row |-> IF i \in rows /\ line[i] = "ABSENT" THEN "VALID" ELSE line[i]]

\* Rows that a transaction sets to COMMITTED and adds to the stock.
Commits(rows) ==
  /\ line' = [i \in Row |-> IF i \in rows THEN "COMMITTED" ELSE line[i]]
  /\ added' = [i \in Row |-> IF i \in rows THEN added[i] + 1 ELSE added[i]]

-----------------------------------------------------------------------------
(* The state machine. *)

Goto(e, p) == at' = [at EXCEPT ![e] = p]

\* A transition to another state, with a fresh budget of retries.
Enter(e, p) ==
  /\ Goto(e, p)
  /\ tries' = [tries EXCEPT ![e] = MaxRetries]

\* The first step of the task a step belongs to.
TaskOf(p) == IF p = "stage" THEN "parse" ELSE IF p \in Writing THEN "write" ELSE p

\* Retry, and after the last retry Catch: MarkJobFailed, or TerminalFailure
\* when that is what failed.
TaskFails(e) ==
  /\ todo' = [todo EXCEPT ![e] = {}]
  /\ \/ /\ tries[e] > 0
        /\ Goto(e, TaskOf(at[e]))
        /\ tries' = [tries EXCEPT ![e] = @ - 1]
     \/ /\ tries[e] = 0
        /\ Enter(e, IF at[e] = "markFailed" THEN "failed" ELSE "markFailed")

\* A Lambda's last statement is done; it answers, or is cut short before.
Returns(e, p) ==
  \/ Enter(e, p) /\ UNCHANGED todo
  \/ "crash" \in Fault /\ TaskFails(e)

\* EventBridge starts an execution for the uploaded file.
StartExecution(e) ==
  /\ posted /\ at[e] = "none"
  /\ "duplicate" \in Fault \/ \A f \in Exec : at[f] = "none"
  /\ Enter(e, "validate")
  /\ UNCHANGED <<jobVars, rowVars, cmd, todo, apiVars>>

ValidatorAccepts(e) ==
  /\ at[e] = "validate"
  /\ SetStatus("VALIDATING")
  /\ Returns(e, "parse")
  /\ UNCHANGED <<token, posted, rowVars, cmd, apiVars>>

\* isValid is false: the Choice state goes on to MarkJobFailed.
ValidatorRejects(e) ==
  /\ "bad_file" \in Fault
  /\ at[e] = "validate"
  /\ SetStatus("FAILED")
  /\ Returns(e, "markFailed")
  /\ UNCHANGED <<token, posted, rowVars, cmd, apiVars>>

ParserBegins(e) ==
  /\ at[e] = "parse"
  /\ SetStatus("PARSING")
  /\ Goto(e, "stage")
  /\ todo' = [todo EXCEPT ![e] = Row]
  /\ UNCHANGED <<token, posted, rowVars, tries, cmd, apiVars>>

ParserStages(e) ==
  /\ at[e] = "stage" /\ todo[e] # {}
  /\ \E chunk \in ChunkOf(todo[e]) :
       /\ line' = Staged(chunk)
       /\ todo' = [todo EXCEPT ![e] = @ \ chunk]
  /\ UNCHANGED <<jobVars, added, at, tries, cmd, apiVars>>

\* Mutation: the rows after the last full chunk are forgotten.
ParserEndsShort(e) ==
  /\ at[e] = "stage" /\ Cardinality(todo[e]) < ChunkSize
  /\ SetStatus("PREVIEW_READY")
  /\ Returns(e, "register")
  /\ UNCHANGED <<token, posted, rowVars, cmd, apiVars>>

ParserEnds(e) ==
  /\ at[e] = "stage" /\ todo[e] = {}
  /\ SetStatus("PREVIEW_READY")
  /\ Returns(e, "register")
  /\ UNCHANGED <<token, posted, rowVars, cmd, apiVars>>

\* The parser's catch.
ParserFails(e) ==
  /\ "database" \in Fault
  /\ at[e] \in {"parse", "stage"}
  /\ SetStatus("FAILED")
  /\ TaskFails(e)
  /\ UNCHANGED <<token, posted, rowVars, cmd, apiVars>>

\* waitForTaskToken: the token names this attempt of the approval state.
Register(e) ==
  /\ at[e] = "register"
  /\ SetStatus("PREVIEW_READY")
  /\ token' = <<e, tries[e]>>
  /\ \/ Goto(e, "approval") /\ UNCHANGED <<tries, todo>>
     \/ "crash" \in Fault /\ TaskFails(e)
  /\ UNCHANGED <<posted, rowVars, cmd, apiVars>>

\* Mutation: the approval state has no TimeoutSeconds.
ApprovalNeverTimesOut(e) == FALSE /\ UNCHANGED vars

\* States.Timeout is caught but not retried.
ApprovalTimesOut(e) ==
  /\ at[e] = "approval"
  /\ Enter(e, "markFailed")
  /\ UNCHANGED <<jobVars, rowVars, cmd, todo, apiVars>>

\* The fail handler.
MarkFailed(e) ==
  /\ at[e] = "markFailed"
  /\ SetStatus("FAILED")
  /\ Returns(e, "failed")
  /\ UNCHANGED <<token, posted, rowVars, cmd, apiVars>>

\* A Lambda dies, or fails without another write.
LambdaDies(e) ==
  /\ \/ "crash" \in Fault /\ at[e] \in Running
     \/ "database" \in Fault /\ at[e] \in {"validate", "register", "thrown", "markFailed"}
  /\ TaskFails(e)
  /\ UNCHANGED <<jobVars, rowVars, cmd, apiVars>>

-----------------------------------------------------------------------------
(* The writer. *)

\* Mutation: the writer trusts the job's status alone.
WriterReadsStatus(e) ==
  /\ at[e] = "write"
  /\ Goto(e, IF status = "CANCELLED" THEN "cancelling" ELSE "committing")
  /\ UNCHANGED <<jobVars, rowVars, tries, cmd, todo, apiVars>>

WriterReads(e) ==
  /\ at[e] = "write"
  /\ Goto(e, IF cmd[e] = "CANCEL" \/ status = "CANCELLED" THEN "cancelling" ELSE "committing")
  /\ UNCHANGED <<jobVars, rowVars, tries, cmd, todo, apiVars>>

WriterCancels(e) ==
  /\ at[e] = "cancelling"
  /\ SetStatus("CANCELLED")
  /\ Returns(e, "succeeded")
  /\ UNCHANGED <<token, posted, rowVars, cmd, apiVars>>

WriterCommits(e) ==
  /\ at[e] = "committing"
  /\ SetStatus("COMMITTING")
  /\ Goto(e, "load")
  /\ UNCHANGED <<token, posted, rowVars, tries, cmd, todo, apiVars>>

WriterLoads(e) ==
  /\ at[e] = "load"
  /\ todo' = [todo EXCEPT ![e] = Valid]
  /\ Goto(e, "chunks")
  /\ UNCHANGED <<jobVars, rowVars, tries, cmd, apiVars>>

\* Mutation: the claim does not ask for VALID.
ClaimedAnyway(chunk) == chunk

\* Rows the conditional updateMany of the chunk's transaction still gets.
Claimed(chunk) == chunk \cap Valid

\* A chunk is one transaction.  A commit whose answer is lost goes the way of
\* ChunkFails, but finds no VALID row to mark.
WriterChunk(e) ==
  /\ at[e] = "chunks" /\ todo[e] # {}
  /\ \E chunk \in ChunkOf(todo[e]) :
       /\ Commits(Claimed(chunk))
       /\ todo' = [todo EXCEPT ![e] = @ \ chunk]
  /\ Goto(e, "tally")
  /\ UNCHANGED <<jobVars, tries, cmd, apiVars>>

\* The transaction rolls back, because a statement fails or it loses a deadlock
\* against a transaction of confirm: its rows that are still VALID become
\* FAILED, and the loop goes on.
ChunkFails(e) ==
  /\ at[e] = "chunks" /\ todo[e] # {}
  /\ "database" \in Fault \/ ~Unlocked
  /\ \E chunk \in ChunkOf(todo[e]) :
       /\ line' = [i \in Row |-> IF i \in Claimed(chunk) THEN "FAILED" ELSE line[i]]
       /\ todo' = [todo EXCEPT ![e] = @ \ chunk]
  /\ Goto(e, "tally")
  /\ UNCHANGED <<jobVars, added, tries, cmd, apiVars>>

\* committedRows is brought up to date after every chunk.
WriterTallies(e) ==
  /\ at[e] = "tally" /\ Unlocked
  /\ Goto(e, "chunks")
  /\ UNCHANGED <<jobVars, rowVars, tries, cmd, todo, apiVars>>

With(s) == \E i \in Row : line[i] = s

\* finalStatus is the step that writes it.
WriterCounts(e) ==
  /\ at[e] = "chunks" /\ todo[e] = {}
  /\ Goto(e, IF ~With("FAILED") THEN "COMPLETED"
             ELSE IF With("COMMITTED") THEN "PARTIAL_FAILED" ELSE "FAILED")
  /\ UNCHANGED <<jobVars, rowVars, tries, cmd, todo, apiVars>>

\* With failed rows the writer throws once the status is written.
WriterFinishes(e) ==
  /\ at[e] \in Final
  /\ SetStatus(at[e])
  /\ \/ at[e] = "COMPLETED" /\ Returns(e, "succeeded")
     \/ at[e] # "COMPLETED" /\ Goto(e, "thrown") /\ UNCHANGED <<tries, todo>>
  /\ UNCHANGED <<token, posted, rowVars, cmd, apiVars>>

WriterErrs(e) ==
  /\ "database" \in Fault
  /\ at[e] \in Writing \ {"thrown"}
  /\ Goto(e, "thrown")
  /\ UNCHANGED <<jobVars, rowVars, tries, cmd, todo, apiVars>>

\* The writer's outer catch.
WriterFails(e) ==
  /\ at[e] = "thrown"
  /\ SetStatus("FAILED")
  /\ TaskFails(e)
  /\ UNCHANGED <<token, posted, rowVars, cmd, apiVars>>

-----------------------------------------------------------------------------
(* ImportsService. *)

Proceed(r, p) == step' = [step EXCEPT ![r] = p]

\* The request answers, or throws.
EndRequest(r) ==
  /\ Proceed(r, "idle")
  /\ held' = [held EXCEPT ![r] = NoToken]
  /\ snap' = [snap EXCEPT ![r] = {}]

GetPresignedPost ==
  /\ "presign" \in Call /\ status = "ABSENT"
  /\ status' = "UPLOADED" /\ posted' = TRUE
  /\ UNCHANGED <<token, rowVars, execVars, apiVars>>

\* upload, and init with rows, create the job before its rows.
Upload(r) ==
  /\ "upload" \in Call /\ step[r] = "idle" /\ status = "ABSENT"
  /\ status' = "PREVIEW_READY"
  /\ Proceed(r, "save")
  /\ UNCHANGED <<token, posted, rowVars, execVars, held, snap>>

\* The transaction of start.  A row that is deleted is out of the way of every
\* writer that still has it on its list.
Start(r) ==
  /\ "start" \in Call /\ step[r] = "idle" /\ status # "ABSENT"
  /\ SetStatus("PREVIEW_READY")
  /\ line' = [i \in Row |-> "ABSENT"]
  /\ added' = [i \in Row |-> 0]
  /\ todo' = [e \in Exec |-> IF at[e] = "stage" THEN todo[e] ELSE {}]
  /\ Proceed(r, "save")
  /\ UNCHANGED <<token, posted, at, tries, cmd, held, snap>>

SaveRows(r) ==
  /\ step[r] = "save"
  /\ line' = Staged(Row)
  /\ EndRequest(r)
  /\ UNCHANGED <<jobVars, added, execVars>>

\* Any other status is refused.
ConfirmReads(r) ==
  /\ "confirm" \in Call /\ step[r] = "idle"
  /\ status = "PREVIEW_READY"
  /\ held' = [held EXCEPT ![r] = token]
  /\ Proceed(r, IF token = NoToken THEN "claim" ELSE "confirm")
  /\ UNCHANGED <<jobVars, rowVars, execVars, snap>>

CancelReads(r) ==
  /\ "cancel" \in Call /\ step[r] = "idle"
  /\ status # "ABSENT"
  /\ held' = [held EXCEPT ![r] = token]
  /\ Proceed(r, IF token = NoToken THEN "cancelPlain" ELSE "cancel")
  /\ UNCHANGED <<jobVars, rowVars, execVars, snap>>

\* SendTaskSuccess ends the approval state of the attempt the token was made for.
Resume(r, action, p) ==
  /\ \E e \in Exec :
       /\ at[e] = "approval" /\ held[r] = <<e, tries[e]>>
       /\ Enter(e, "write")
       /\ cmd' = [cmd EXCEPT ![e] = action]
  /\ \/ Proceed(r, p) /\ UNCHANGED <<held, snap>>
     \/ "lost_answer" \in Fault /\ EndRequest(r)
  /\ UNCHANGED <<jobVars, rowVars, todo>>

ConfirmSends(r) == step[r] = "confirm" /\ Resume(r, "CONFIRM", "confirmed")

CancelSends(r) == step[r] = "cancel" /\ Resume(r, "CANCEL", "cancelled")

\* Any other token is refused, and the request with it.
SendRefused(r) ==
  /\ step[r] \in {"confirm", "cancel"}
  /\ \A e \in Exec : at[e] = "approval" => held[r] # <<e, tries[e]>>
  /\ EndRequest(r)
  /\ UNCHANGED <<jobVars, rowVars, execVars>>

ConfirmWrites(r) ==
  /\ step[r] = "confirmed"
  /\ SetStatus("COMMITTING") /\ token' = NoToken
  /\ EndRequest(r)
  /\ UNCHANGED <<posted, rowVars, execVars>>

CancelWrites(r) ==
  /\ step[r] = "cancelled"
  /\ SetStatus("CANCELLED") /\ token' = NoToken
  /\ EndRequest(r)
  /\ UNCHANGED <<posted, rowVars, execVars>>

CancelPlain(r) ==
  /\ step[r] = "cancelPlain"
  /\ SetStatus("CANCELLED")
  /\ EndRequest(r)
  /\ UNCHANGED <<token, posted, rowVars, execVars>>

\* Mutation: the claim does not ask for PREVIEW_READY without a token.
LocalBeginsAnyway(r) ==
  /\ step[r] = "claim" /\ Unlocked
  /\ snap' = [snap EXCEPT ![r] = Valid]
  /\ Proceed(r, "tx")
  /\ UNCHANGED <<jobVars, rowVars, execVars, held>>

\* The conditional claim and the read of the rows.  COMMITTING is seen by
\* nobody before the transaction commits.
LocalBegins(r) ==
  /\ step[r] = "claim" /\ Unlocked
  /\ status = "PREVIEW_READY" /\ token = NoToken
  /\ snap' = [snap EXCEPT ![r] = Valid]
  /\ Proceed(r, "tx")
  /\ UNCHANGED <<jobVars, rowVars, execVars, held>>

LocalConflict(r) ==
  /\ step[r] = "claim" /\ Unlocked
  /\ status # "PREVIEW_READY" \/ token # NoToken
  /\ EndRequest(r)
  /\ UNCHANGED <<jobVars, rowVars, execVars>>

\* The rows are updated whatever their status is by now.
LocalCommits(r) ==
  /\ step[r] = "tx"
  /\ Commits(snap[r])
  /\ status' = "COMPLETED"
  /\ EndRequest(r)
  /\ UNCHANGED <<token, posted, execVars>>

\* A deadlock, the transaction's timeout, or a failing statement.
LocalAborts(r) ==
  /\ step[r] = "tx"
  /\ EndRequest(r)
  /\ UNCHANGED <<jobVars, rowVars, execVars>>

RequestDies(r) ==
  /\ "crash" \in Fault /\ step[r] # "idle"
  /\ EndRequest(r)
  /\ UNCHANGED <<jobVars, rowVars, execVars>>

-----------------------------------------------------------------------------
User ==
  \/ GetPresignedPost
  \/ \E r \in Request : Upload(r) \/ Start(r) \/ ConfirmReads(r) \/ CancelReads(r)

RequestProceeds(r) ==
  \/ SaveRows(r) \/ ConfirmSends(r) \/ CancelSends(r) \/ SendRefused(r)
  \/ ConfirmWrites(r) \/ CancelWrites(r) \/ CancelPlain(r)
  \/ LocalBegins(r) \/ LocalConflict(r) \/ LocalCommits(r) \/ LocalAborts(r)

WriterProceeds(e) ==
  \/ WriterReads(e) \/ WriterCancels(e) \/ WriterCommits(e) \/ WriterLoads(e)
  \/ WriterChunk(e) \/ WriterTallies(e) \/ WriterCounts(e) \/ WriterFinishes(e) \/ WriterFails(e)

ExecProceeds(e) ==
  \/ ValidatorAccepts(e) \/ ValidatorRejects(e)
  \/ ParserBegins(e) \/ ParserStages(e) \/ ParserEnds(e)
  \/ Register(e) \/ ApprovalTimesOut(e) \/ MarkFailed(e) \/ WriterProceeds(e)

ExecSuffers(e) == ParserFails(e) \/ ChunkFails(e) \/ WriterErrs(e) \/ LambdaDies(e)

Next ==
  \/ User
  \/ \E r \in Request : RequestProceeds(r) \/ RequestDies(r)
  \/ \E e \in Exec : StartExecution(e) \/ ExecProceeds(e) \/ ExecSuffers(e)

Spec == Init /\ [][Next]_vars

\* Requests and executions go on until they end; an approval that nobody gives
\* times out.  The job's row is locked again and again while users confirm, and
\* an update that waits for it gets its turn: hence the strong fairness.  Users,
\* uploads and their events need not do anything.
FairSpec ==
  /\ Spec
  /\ \A r \in Request : WF_vars(RequestProceeds(r))
  /\ \A e \in Exec : SF_vars(ExecProceeds(e))

-----------------------------------------------------------------------------
(* Properties. *)

TypeOK ==
  /\ status \in ImportStatus /\ token \in Token /\ posted \in BOOLEAN
  /\ line \in [Row -> {"ABSENT", "VALID", "COMMITTED", "FAILED"}]
  /\ added \in [Row -> Nat]
  /\ at \in [Exec -> {"none", "approval", "succeeded", "failed"} \cup Running]
  /\ tries \in [Exec -> 0 .. MaxRetries]
  /\ cmd \in [Exec -> {"none", "CONFIRM", "CANCEL"}]
  /\ todo \in [Exec -> SUBSET Row]
  /\ step \in [Request -> {"idle", "save", "confirm", "confirmed", "cancel", "cancelled",
                            "cancelPlain", "claim", "tx"}]
  /\ held \in [Request -> Token]
  /\ snap \in [Request -> SUBSET Row]

\* The staged rows and the ledger tell one story, whatever fails in between:
\* exactly the rows marked COMMITTED have reached the stock.  A row marked
\* FAILED after a chunk that did commit would break it.
RowsExplained == \A i \in Row : line[i] = "COMMITTED" <=> added[i] > 0

\* The comment at the writer's claim: a duplicate invocation cannot add stock
\* twice.  Only a transaction of confirm can add a row that has been added.
WriterAddsOnce ==
  [][\A i \in Row : added[i] > 0 /\ added'[i] > added[i] =>
       \E r \in Request : step[r] = "tx" /\ step'[r] = "idle"]_vars

\* As long as its upload starts one execution and its rows are not replaced,
\* no row of a job is added twice: in spite of retries, of confirms that race
\* each other or a cancel, and of a confirm between the parser's
\* PREVIEW_READY and the token.  README, section on idempotency.
AddedOnce == \A i \in Row : added[i] <= 1

\* A COMPLETED job has every row in the stock.
CompletedIsTrue == status = "COMPLETED" => \A i \in Row : line[i] = "COMMITTED"

\* Once a cancel has got through to the state machine, no row is added any
\* more, neither by the writer nor by a confirm that is still under way.
CancelHolds ==
  [][\A e \in Exec : cmd[e] = "CANCEL" => added' = added]_vars

\* Every execution ends, at the latest when the approval times out and the
\* retries are used up.
ExecutionsEnd ==
  \A e \in Exec : at[e] # "none" ~> at[e] \in {"succeeded", "failed"}

=============================================================================
