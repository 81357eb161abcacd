----------------------------- MODULE ReportJobs -----------------------------
(***************************************************************************)
(* Report exports: ReportsService.createExport and the recovery endpoints  *)
(* replayReport, discardReport and redriveReportDlq on one side, the       *)
(* report-exporter Lambda on the other, an SQS queue with a dead-letter    *)
(* queue and the export_jobs table between them.                           *)
(*                                                                         *)
(* A worker owns a job through processing_started_at: every claim writes a *)
(* new time, and later updates of the worker name the time they claimed    *)
(* with.  Every claim also increments attempt_count, so the number of the  *)
(* attempt stands for the time; 0 is null.  Whether a claim is older than  *)
(* the lease is the variable expired.                                      *)
(*                                                                         *)
(* What the environment may do wrong is the constant Fault:                *)
(*   report       the report's queries or the upload fail                  *)
(*   crash        an API request or an exporter invocation is cut short    *)
(*   database     a statement of the exporter fails, or its answer is lost *)
(*   refused      SendMessage fails and nothing is queued                  *)
(*   lost_answer  SendMessage fails although the message is queued         *)
(*   duplicate    a message that is held or deleted is delivered again     *)
(*   short_lease  a lease ends while its worker still runs                 *)
(* The deployment's lease (900 s) exceeds the exporter's timeout (120 s),  *)
(* which rules the last one out.                                           *)
(***************************************************************************)
EXTENDS Naturals, FiniteSets

CONSTANTS
  Report,       \* export jobs that may be requested
  Message,      \* queue messages that may be sent
  Request,      \* API requests in flight at a time
  Worker,       \* exporter invocations at a time
  Fault,        \* what may go wrong
  MaxReceive,   \* REPORT_MAX_RECEIVE_COUNT, the queue's maxReceiveCount
  MaxReplays,   \* MAX_REPORT_REPLAYS
  MaxRedrives,  \* bound on the messages that are redriven
  Nothing       \* no job, no message

ASSUME ReportAssumption ==
  /\ MaxReceive \in Nat \ {0}
  /\ MaxReplays \in Nat
  /\ MaxRedrives \in Nat
  /\ Nothing \notin Report \cup Message
  /\ Worker \cap {"unsent", "visible", "dead", "deleted"} = {}

VARIABLES
  status,      \* export_jobs.status, ABSENT before the row exists
  startedAt,   \* processing_started_at: the attempt that claimed the job
  attempts,    \* attempt_count
  expired,     \* the claim is older than the lease
  artifact,    \* the attempt whose file is stored under the job's key
  place,       \* where a message is: a worker that holds it, or ...
  receives,    \* ApproximateReceiveCount
  body,        \* the exportJobId a message names
  redrives,    \* messages redriven
  moving,      \* a DLQ move task is running
  request,     \* the job an API request is about, Nothing when idle
  step,        \* the next statement of an API request
  pc,          \* the next statement of an exporter invocation
  msg,         \* the message it processes
  nth,         \* the receive count it was delivered with
  mine         \* its claimStartedAt

jobVars == <<status, startedAt, attempts, expired, artifact>>
sqsVars == <<place, receives, body, redrives, moving>>
apiVars == <<request, step>>
workerVars == <<pc, msg, nth, mine>>
vars == <<jobVars, sqsVars, apiVars, workerVars>>

JobStatus == {"ABSENT", "PENDING", "PROCESSING", "COMPLETED", "FAILED", "DISCARDED"}
Place == {"unsent", "visible", "dead", "deleted"} \cup Worker

Init ==
  /\ status = [j \in Report |-> "ABSENT"]
  /\ startedAt = [j \in Report |-> 0]
  /\ attempts = [j \in Report |-> 0]
  /\ expired = [j \in Report |-> FALSE]
  /\ artifact = [j \in Report |-> 0]
  /\ place = [m \in Message |-> "unsent"]
  /\ receives = [m \in Message |-> 0]
  /\ body = [m \in Message |-> Nothing]
  /\ redrives = 0
  /\ moving = FALSE
  /\ request = [r \in Request |-> Nothing]
  /\ step = [r \in Request |-> "idle"]
  /\ pc = [w \in Worker |-> "idle"]
  /\ msg = [w \in Worker |-> Nothing]
  /\ nth = [w \in Worker |-> 0]
  /\ mine = [w \in Worker |-> 0]

-----------------------------------------------------------------------------
(* The API: create a job and dispatch it; replay, discard, redrive. *)

\* A message still to be sent: the bound Message stops requests that would
\* need another one.
Unsent == {m \in Message : place[m] = "unsent"}

Dispatching(r, j) ==
  /\ Cardinality(Unsent) > Cardinality({q \in Request : step[q] = "send"})
  /\ step[r] = "idle"
  /\ request' = [request EXCEPT ![r] = j]
  /\ step' = [step EXCEPT ![r] = "send"]

CreateExport(r, j) ==
  /\ status[j] = "ABSENT"
  /\ Dispatching(r, j)
  /\ status' = [status EXCEPT ![j] = "PENDING"]
  /\ UNCHANGED <<startedAt, attempts, expired, artifact, sqsVars, workerVars>>

\* Mutation: the replay does not insist on FAILED.
ReplayReportUnfinished(r, j) ==
  /\ status[j] \in {"PENDING", "PROCESSING", "FAILED"}
  /\ attempts[j] < MaxReplays * MaxReceive
  /\ Dispatching(r, j)
  /\ status' = [status EXCEPT ![j] = "PENDING"]
  /\ UNCHANGED <<startedAt, attempts, expired, artifact, sqsVars, workerVars>>

\* The claim of the replay is one transaction; a job that is not FAILED or has
\* used up its attempts is refused.
ReplayReport(r, j) ==
  /\ status[j] = "FAILED"
  /\ attempts[j] < MaxReplays * MaxReceive
  /\ Dispatching(r, j)
  /\ status' = [status EXCEPT ![j] = "PENDING"]
  /\ UNCHANGED <<startedAt, attempts, expired, artifact, sqsVars, workerVars>>

DiscardReport(j) ==
  /\ status[j] = "FAILED"
  /\ status' = [status EXCEPT ![j] = "DISCARDED"]
  /\ UNCHANGED <<startedAt, attempts, expired, artifact, sqsVars, apiVars, workerVars>>

EndRequest(r) ==
  /\ request' = [request EXCEPT ![r] = Nothing]
  /\ step' = [step EXCEPT ![r] = "idle"]

\* ReportDispatcher.dispatch queues a message and the request answers, or ...
Send(r) ==
  /\ step[r] = "send"
  /\ \E m \in Unsent :
       /\ place' = [place EXCEPT ![m] = "visible"]
       /\ body' = [body EXCEPT ![m] = request[r]]
  /\ \/ EndRequest(r)
     \/ /\ "lost_answer" \in Fault
        /\ step' = [step EXCEPT ![r] = "undo"]
        /\ UNCHANGED request
  /\ UNCHANGED <<jobVars, receives, redrives, moving, workerVars>>

\* ... it throws, and nothing has been queued.
SendRefused(r) ==
  /\ "refused" \in Fault
  /\ step[r] = "send"
  /\ step' = [step EXCEPT ![r] = "undo"]
  /\ UNCHANGED <<jobVars, sqsVars, request, workerVars>>

\* Mutation: the catch of the dispatch leaves the job as it is.
MarkDispatchFailedSkipped(r) ==
  /\ step[r] = "undo"
  /\ EndRequest(r)
  /\ UNCHANGED <<jobVars, sqsVars, workerVars>>

\* The catch around the dispatch writes FAILED whatever the status is by then.
MarkDispatchFailed(r) ==
  /\ step[r] = "undo"
  /\ status' = [status EXCEPT ![request[r]] = "FAILED"]
  /\ EndRequest(r)
  /\ UNCHANGED <<startedAt, attempts, expired, artifact, sqsVars, workerVars>>

RequestDies(r) ==
  /\ "crash" \in Fault
  /\ step[r] # "idle"
  /\ EndRequest(r)
  /\ UNCHANGED <<jobVars, sqsVars, workerVars>>

RedriveReportDlq ==
  /\ ~moving /\ redrives < MaxRedrives
  /\ \E m \in Message : place[m] = "dead"
  /\ moving' = TRUE
  /\ UNCHANGED <<jobVars, place, receives, body, redrives, apiVars, workerVars>>

-----------------------------------------------------------------------------
(* SQS. *)

\* A received message is hidden from other workers.
Receive(w, m) ==
  /\ pc[w] = "idle"
  /\ place[m] = "visible" /\ receives[m] < MaxReceive
  /\ place' = [place EXCEPT ![m] = w]
  /\ receives' = [receives EXCEPT ![m] = @ + 1]
  /\ pc' = [pc EXCEPT ![w] = "claim"]
  /\ msg' = [msg EXCEPT ![w] = m]
  /\ nth' = [nth EXCEPT ![w] = receives[m] + 1]
  /\ UNCHANGED <<jobVars, body, redrives, moving, apiVars, mine>>

\* The redrive policy, at the receive that would exceed maxReceiveCount.
DeadLetter(m) ==
  /\ place[m] = "visible" /\ receives[m] >= MaxReceive
  /\ place' = [place EXCEPT ![m] = "dead"]
  /\ UNCHANGED <<jobVars, receives, body, redrives, moving, apiVars, workerVars>>

\* The move task sends a dead message anew.
Move(m) ==
  /\ moving /\ place[m] = "dead" /\ redrives < MaxRedrives
  /\ place' = [place EXCEPT ![m] = "visible"]
  /\ receives' = [receives EXCEPT ![m] = 0]
  /\ redrives' = redrives + 1
  /\ UNCHANGED <<jobVars, body, moving, apiVars, workerVars>>

MoveEnds ==
  /\ moving
  /\ redrives < MaxRedrives => \A m \in Message : place[m] # "dead"
  /\ moving' = FALSE
  /\ UNCHANGED <<jobVars, place, receives, body, redrives, apiVars, workerVars>>

\* At-least-once delivery.  An invocation that is cut short also brings back
\* the messages of its batch it has already dealt with.
Duplicate(m) ==
  /\ "duplicate" \in Fault
  /\ place[m] \in Worker \cup {"deleted"}
  /\ place' = [place EXCEPT ![m] = "visible"]
  /\ UNCHANGED <<jobVars, receives, body, redrives, moving, apiVars, workerVars>>

-----------------------------------------------------------------------------
(* The exporter: processReport, one invocation per message. *)

Job(w) == body[msg[w]]

\* The record is not in batchItemFailures and the message is deleted; when it
\* has been delivered again meanwhile, deleting it may have no effect.
Acknowledge(w) ==
  /\ pc' = [pc EXCEPT ![w] = "idle"]
  /\ msg' = [msg EXCEPT ![w] = Nothing]
  /\ nth' = [nth EXCEPT ![w] = 0]
  /\ mine' = [mine EXCEPT ![w] = 0]
  /\ \/ place' = [place EXCEPT ![msg[w]] = "deleted"]
     \/ place[msg[w]] # w /\ UNCHANGED place

\* The record is in batchItemFailures, or the invocation ends without an
\* answer: the message shows up again unless somebody else has it.
GiveBack(w) ==
  /\ pc' = [pc EXCEPT ![w] = "idle"]
  /\ msg' = [msg EXCEPT ![w] = Nothing]
  /\ nth' = [nth EXCEPT ![w] = 0]
  /\ mine' = [mine EXCEPT ![w] = 0]
  /\ place' = [place EXCEPT ![msg[w]] = IF @ = w THEN "visible" ELSE @]

\* Mutation: the claim does not look at the lease.
ClaimableAnyLease(j) == status[j] \in {"PENDING", "PROCESSING"}

\* Mutation: a completed job can be claimed again.
ClaimableCompleted(j) ==
  \/ status[j] \in {"PENDING", "COMPLETED"}
  \/ status[j] = "PROCESSING" /\ expired[j]

Claimable(j) ==
  \/ status[j] = "PENDING"
  \/ status[j] = "PROCESSING" /\ expired[j]

\* The conditional updateMany, and the read of the job after it.
Claim(w) ==
  LET j == Job(w) IN
  /\ pc[w] = "claim" /\ Claimable(j)
  /\ status' = [status EXCEPT ![j] = "PROCESSING"]
  /\ attempts' = [attempts EXCEPT ![j] = @ + 1]
  /\ startedAt' = [startedAt EXCEPT ![j] = attempts[j] + 1]
  /\ expired' = [expired EXCEPT ![j] = FALSE]
  /\ mine' = [mine EXCEPT ![w] = attempts[j] + 1]
  /\ pc' = [pc EXCEPT ![w] = "generate"]
  /\ UNCHANGED <<artifact, sqsVars, apiVars, msg, nth>>

\* Nothing claimed: the message is acknowledged, whatever the status is.
Skip(w) ==
  /\ pc[w] = "claim" /\ ~Claimable(Job(w))
  /\ Acknowledge(w)
  /\ UNCHANGED <<jobVars, receives, body, redrives, moving, apiVars>>

\* Mutation: the row is finalised before the file is stored.
UploadReportLater(w) ==
  /\ pc[w] = "generate"
  /\ pc' = [pc EXCEPT ![w] = "finalise"]
  /\ UNCHANGED <<jobVars, sqsVars, apiVars, msg, nth, mine>>

UploadReport(w) ==
  /\ pc[w] = "generate"
  /\ artifact' = [artifact EXCEPT ![Job(w)] = mine[w]]
  /\ pc' = [pc EXCEPT ![w] = "finalise"]
  /\ UNCHANGED <<status, startedAt, attempts, expired, sqsVars, apiVars, msg, nth, mine>>

ReportFails(w) ==
  /\ Fault \cap {"report", "database"} # {}
  /\ pc[w] = "generate"
  /\ pc' = [pc EXCEPT ![w] = "failed"]
  /\ UNCHANGED <<jobVars, sqsVars, apiVars, msg, nth, mine>>

Owns(w) == status[Job(w)] = "PROCESSING" /\ startedAt[Job(w)] = mine[w]

Completing(w) ==
  /\ Owns(w)
  /\ status' = [status EXCEPT ![Job(w)] = "COMPLETED"]

Finalise(w) ==
  /\ pc[w] = "finalise"
  /\ Completing(w)
  /\ Acknowledge(w)
  /\ UNCHANGED <<startedAt, attempts, expired, artifact, receives, body, redrives, moving, apiVars>>

\* The claim is no longer the worker's own, or the statement fails, before or
\* after it took effect.
FinaliseFails(w) ==
  /\ pc[w] = "finalise"
  /\ \/ ~Owns(w) /\ UNCHANGED status
     \/ "database" \in Fault /\ UNCHANGED status
     \/ "database" \in Fault /\ Completing(w)
  /\ pc' = [pc EXCEPT ![w] = "failed"]
  /\ UNCHANGED <<startedAt, attempts, expired, artifact, sqsVars, apiVars, msg, nth, mine>>

\* Mutation: the last delivery is not recognised.
ExhaustedLate(w) == nth[w] > MaxReceive

Exhausted(w) == nth[w] >= MaxReceive

\* The catch: the own claim is released, for the next delivery or for good,
\* and the error is thrown on.
HandleFailure(w) ==
  LET j == Job(w) IN
  /\ pc[w] = "failed"
  /\ IF Owns(w)
     THEN /\ status' = [status EXCEPT ![j] = IF Exhausted(w) THEN "FAILED" ELSE "PENDING"]
          /\ startedAt' = [startedAt EXCEPT ![j] = 0]
     ELSE UNCHANGED <<status, startedAt>>
  /\ GiveBack(w)
  /\ UNCHANGED <<attempts, expired, artifact, receives, body, redrives, moving, apiVars>>

\* The Lambda times out or is killed, or the database fails the claim or the
\* catch: the job stays as it is.
WorkerStops(w) ==
  /\ \/ "crash" \in Fault /\ pc[w] # "idle"
     \/ "database" \in Fault /\ pc[w] \in {"claim", "failed"}
  /\ GiveBack(w)
  /\ UNCHANGED <<jobVars, receives, body, redrives, moving, apiVars>>

\* Some invocation still works under the job's present claim.
OwnerRuns(j) ==
  \E w \in Worker : pc[w] \notin {"idle", "claim"} /\ Job(w) = j /\ mine[w] = startedAt[j]

LeaseExpires(j) ==
  /\ status[j] = "PROCESSING" /\ ~expired[j]
  /\ ~OwnerRuns(j) \/ "short_lease" \in Fault
  /\ expired' = [expired EXCEPT ![j] = TRUE]
  /\ UNCHANGED <<status, startedAt, attempts, artifact, sqsVars, apiVars, workerVars>>

-----------------------------------------------------------------------------
Operator ==
  \/ \E j \in Report : DiscardReport(j) \/ \E r \in Request : CreateExport(r, j) \/ ReplayReport(r, j)
  \/ RedriveReportDlq

RequestProceeds(r) == Send(r) \/ MarkDispatchFailed(r)

Delivery(m) == DeadLetter(m) \/ \E w \in Worker : Receive(w, m)

Redriving == MoveEnds \/ \E m \in Message : Move(m)

WorkerProceeds(w) ==
  \/ Claim(w) \/ Skip(w) \/ UploadReport(w)
  \/ Finalise(w) \/ FinaliseFails(w) \/ HandleFailure(w)

Misfortune ==
  \/ \E r \in Request : SendRefused(r) \/ RequestDies(r)
  \/ \E m \in Message : Duplicate(m)
  \/ \E w \in Worker : ReportFails(w) \/ WorkerStops(w)

Next ==
  \/ Operator
  \/ \E r \in Request : RequestProceeds(r)
  \/ \E m \in Message : Delivery(m)
  \/ Redriving
  \/ \E w \in Worker : WorkerProceeds(w)
  \/ \E j \in Report : LeaseExpires(j)
  \/ Misfortune

Spec == Init /\ [][Next]_vars

\* A request and an invocation go on until they end, SQS delivers a visible
\* message again and again, a move task gets on, leases run out.  Operators
\* need not do anything.
FairSpec ==
  /\ Spec
  /\ \A r \in Request : WF_vars(RequestProceeds(r))
  /\ \A m \in Message : SF_vars(Delivery(m))
  /\ WF_vars(Redriving)
  /\ \A w \in Worker : WF_vars(WorkerProceeds(w))
  /\ \A j \in Report : WF_vars(LeaseExpires(j))

-----------------------------------------------------------------------------
(* Properties. *)

TypeOK ==
  /\ status \in [Report -> JobStatus]
  /\ startedAt \in [Report -> Nat] /\ attempts \in [Report -> Nat]
  /\ expired \in [Report -> BOOLEAN]
  /\ artifact \in [Report -> Nat]
  /\ place \in [Message -> Place]
  /\ receives \in [Message -> 0 .. MaxReceive]
  /\ body \in [Message -> Report \cup {Nothing}]
  /\ redrives \in 0 .. MaxRedrives /\ moving \in BOOLEAN
  /\ request \in [Request -> Report \cup {Nothing}]
  /\ step \in [Request -> {"idle", "send", "undo"}]
  /\ pc \in [Worker -> {"idle", "claim", "generate", "finalise", "failed"}]
  /\ msg \in [Worker -> Message \cup {Nothing}]
  /\ nth \in [Worker -> 0 .. MaxReceive]
  /\ mine \in [Worker -> Nat]

\* Whatever fails, a job that is COMPLETED has a file under its key: a
\* download URL never points to nothing (getDownloadUrl checks the status only).
ArtifactReady ==
  \A j \in Report : status[j] = "COMPLETED" => artifact[j] # 0

Working(w) == pc[w] \in {"generate", "finalise", "failed"}

\* With leases longer than an invocation, one invocation at a time works on a
\* job, in spite of duplicate deliveries, crashes and redeliveries.
OneWriter ==
  \A v, w \in Worker : Working(v) /\ Working(w) /\ Job(v) = Job(w) => v = w

\* The file under the key is the one the completing attempt has written: its
\* row count and its content belong together.
ArtifactMatches ==
  \A j \in Report : status[j] = "COMPLETED" => artifact[j] = startedAt[j]

\* Nothing brings a finished job back: neither a redelivered message nor a
\* replay, a redrive or the catch of a worker that lost its claim.
FinishedStays ==
  [][\A j \in Report : status[j] \in {"COMPLETED", "DISCARDED"} => status'[j] = status[j]]_vars

\* A job that is not finished still has a message somewhere, in the queue, in
\* the DLQ or with a worker, or a request about to send one.
Tended ==
  \A j \in Report : status[j] \in {"PENDING", "PROCESSING"} =>
    \/ \E m \in Message : body[m] = j /\ place[m] # "deleted"
    \/ \E r \in Request : request[r] = j

\* Every export comes to an end.
ReportsEnd ==
  \A j \in Report :
    status[j] \in {"PENDING", "PROCESSING"} ~> status[j] \in {"COMPLETED", "FAILED", "DISCARDED"}

=============================================================================
