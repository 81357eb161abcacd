-------------------------- MODULE ReportJobsProofs --------------------------
(***************************************************************************)
(* Theorems about ReportJobs, for any number of jobs, messages, requests   *)
(* and workers, any retry limits and any set of faults.                    *)
(***************************************************************************)
EXTENDS ReportJobs, TLAPS

USE ReportAssumption

\* A queued message names a job, a request is about a job until it ends, and
\* an invocation processes a message that has been sent.
Addressed ==
  /\ \A m \in Message : place[m] # "unsent" => body[m] \in Report
  /\ \A r \in Request : step[r] # "idle" => request[r] \in Report
  /\ \A w \in Worker : pc[w] # "idle" => msg[w] \in Message /\ place[msg[w]] # "unsent"

Typed == TypeOK /\ Addressed

\* The claims handed out so far are numbered up to attempt_count.
ClaimsCounted ==
  \A w \in Worker : Working(w) => 0 < mine[w] /\ mine[w] <= attempts[Job(w)]

\* Two invocations that work on one job hold different claims, so at most one
\* of them can finalise or release it: a slow worker whose lease was taken over
\* cannot touch the job of its successor.
ClaimsDiffer ==
  \A v, w \in Worker :
    Working(v) /\ Working(w) /\ v # w /\ Job(v) = Job(w) => mine[v] # mine[w]

\* An invocation that is about to finalise has stored a file.
Stored == \A w \in Worker : pc[w] = "finalise" => artifact[Job(w)] # 0

Safe == Typed /\ ClaimsCounted /\ ClaimsDiffer /\ Stored /\ ArtifactReady

LEMMA JobType ==
  ASSUME Typed, NEW w \in Worker, pc[w] # "idle"
  PROVE  msg[w] \in Message /\ place[msg[w]] # "unsent" /\ Job(w) \in Report
BY DEF Typed, Addressed, Job

-----------------------------------------------------------------------------
(* Type correctness. *)

LEMMA InitTyped == Init => Typed
<1> SUFFICES ASSUME Init PROVE Typed
  OBVIOUS
<1>1. 0 \in Nat /\ 0 \in 0 .. MaxReceive /\ 0 \in 0 .. MaxRedrives
  OBVIOUS
<1>2. TypeOK
  BY <1>1, Zenon DEF Init, TypeOK, JobStatus, Place
<1>3. Addressed
  BY DEF Init, Addressed
<1> QED
  BY <1>2, <1>3 DEF Typed

LEMMA OperatorTyped == Typed /\ Operator => Typed'
<1> SUFFICES ASSUME Typed, Operator PROVE Typed'
  OBVIOUS
<1> USE DEF Typed, TypeOK, Addressed, JobStatus, jobVars, sqsVars, apiVars, workerVars
<1>1. ASSUME NEW j \in Report, DiscardReport(j) PROVE Typed'
  BY <1>1 DEF DiscardReport
<1>2. ASSUME NEW j \in Report, NEW r \in Request, CreateExport(r, j) PROVE Typed'
  BY <1>2 DEF CreateExport, Dispatching
<1>3. ASSUME NEW j \in Report, NEW r \in Request, ReplayReport(r, j) PROVE Typed'
  BY <1>3 DEF ReplayReport, Dispatching
<1>4. CASE RedriveReportDlq
  BY <1>4 DEF RedriveReportDlq
<1> QED
  BY <1>1, <1>2, <1>3, <1>4 DEF Operator

LEMMA RequestTyped ==
  ASSUME Typed, NEW r \in Request,
         RequestProceeds(r) \/ SendRefused(r) \/ RequestDies(r)
  PROVE  Typed'
<1> USE DEF Typed, TypeOK, Addressed, JobStatus, jobVars, sqsVars, apiVars, workerVars,
        EndRequest
<1>1. CASE Send(r)
  <2>1. PICK m \in Unsent : /\ place' = [place EXCEPT ![m] = "visible"]
                            /\ body' = [body EXCEPT ![m] = request[r]]
    BY <1>1 DEF Send
  <2> QED
    BY <1>1, <2>1 DEF Send, Unsent, Place
<1>2. CASE MarkDispatchFailed(r)
  BY <1>2 DEF MarkDispatchFailed
<1>3. CASE SendRefused(r)
  BY <1>3 DEF SendRefused
<1>4. CASE RequestDies(r)
  BY <1>4 DEF RequestDies
<1> QED
  BY <1>1, <1>2, <1>3, <1>4 DEF RequestProceeds

LEMMA QueueTyped ==
  ASSUME Typed,
         Redriving \/ \E m \in Message : Delivery(m) \/ Duplicate(m)
  PROVE  Typed'
<1> USE DEF Typed, TypeOK, Addressed, Place, jobVars, sqsVars, apiVars, workerVars
<1>1. ASSUME NEW m \in Message, NEW w \in Worker, Receive(w, m) PROVE Typed'
  BY <1>1 DEF Receive
<1>2. ASSUME NEW m \in Message, DeadLetter(m) PROVE Typed'
  BY <1>2 DEF DeadLetter
<1>3. ASSUME NEW m \in Message, Move(m) PROVE Typed'
  BY <1>3 DEF Move
<1>4. ASSUME NEW m \in Message, Duplicate(m) PROVE Typed'
  BY <1>4 DEF Duplicate
<1>5. CASE MoveEnds
  BY <1>5 DEF MoveEnds
<1> QED
  BY <1>1, <1>2, <1>3, <1>4, <1>5 DEF Redriving, Delivery

LEMMA WorkerTyped ==
  ASSUME Typed, NEW w \in Worker,
         WorkerProceeds(w) \/ ReportFails(w) \/ WorkerStops(w)
  PROVE  Typed'
<1>0. pc[w] # "idle"
  BY DEF WorkerProceeds, ReportFails, WorkerStops, Claim, Skip, UploadReport,
     Finalise, FinaliseFails, HandleFailure
<1>1. msg[w] \in Message /\ place[msg[w]] # "unsent" /\ Job(w) \in Report
  BY <1>0, JobType
<1> USE <1>1 DEF Typed, TypeOK, Addressed, JobStatus, Place, jobVars, sqsVars,
        apiVars, workerVars
<1>2. CASE Claim(w)
  BY <1>2 DEF Claim
<1>3. CASE Skip(w)
  BY <1>3 DEF Skip, Acknowledge
<1>4. CASE UploadReport(w)
  BY <1>4 DEF UploadReport
<1>5. CASE Finalise(w)
  BY <1>5 DEF Finalise, Completing, Acknowledge
<1>6. CASE FinaliseFails(w)
  BY <1>6 DEF FinaliseFails, Completing
<1>7. CASE HandleFailure(w)
  BY <1>7 DEF HandleFailure, GiveBack
<1>8. CASE ReportFails(w)
  BY <1>8 DEF ReportFails
<1>9. CASE WorkerStops(w)
  BY <1>9 DEF WorkerStops, GiveBack
<1> QED
  BY <1>2, <1>3, <1>4, <1>5, <1>6, <1>7, <1>8, <1>9 DEF WorkerProceeds

LEMMA NextTyped == Typed /\ [Next]_vars => Typed'
<1> SUFFICES ASSUME Typed, [Next]_vars PROVE Typed'
  OBVIOUS
<1>1. ASSUME NEW j \in Report, LeaseExpires(j) PROVE Typed'
  BY <1>1 DEF LeaseExpires, Typed, TypeOK, Addressed, jobVars, sqsVars, apiVars, workerVars
<1>2. CASE UNCHANGED vars
  BY <1>2 DEF vars, Typed, TypeOK, Addressed, jobVars, sqsVars, apiVars, workerVars
<1> QED
  BY <1>1, <1>2, OperatorTyped, RequestTyped, QueueTyped, WorkerTyped
     DEF Next, Misfortune

\* Every reachable state is well typed, whatever goes wrong.
THEOREM TypeCorrect == Spec => []TypeOK
<1>1. Typed => TypeOK
  BY DEF Typed
<1> QED
  BY <1>1, InitTyped, NextTyped, PTL DEF Spec
-----------------------------------------------------------------------------
(* Claims and artifacts. *)

LEMMA InitSafe == Init => Safe
<1> SUFFICES ASSUME Init PROVE Safe
  OBVIOUS
<1>1. Typed
  BY InitTyped
<1>2. \A w \in Worker : ~Working(w) /\ pc[w] # "finalise"
  BY DEF Init, Working
<1>3. \A j \in Report : status[j] # "COMPLETED"
  BY DEF Init
<1> QED
  BY <1>1, <1>2, <1>3 DEF Safe, ClaimsCounted, ClaimsDiffer, Stored, ArtifactReady

\* Steps that do not concern the workers and complete no job.
LEMMA Aside ==
  ASSUME Safe, Typed',
         UNCHANGED <<pc, msg, mine, attempts, artifact>>,
         \A w \in Worker : pc[w] # "idle" => body'[msg[w]] = body[msg[w]],
         \A j \in Report : status'[j] = "COMPLETED" => status[j] = "COMPLETED"
  PROVE  Safe'
<1>1. \A w \in Worker : /\ Working(w)' <=> Working(w)
                        /\ Working(w) => Job(w)' = Job(w)
  BY DEF Working, Job
<1>2. ClaimsCounted'
  BY <1>1 DEF Safe, ClaimsCounted
<1>3. ClaimsDiffer'
  BY <1>1 DEF Safe, ClaimsDiffer
<1>4. Stored'
  BY <1>1 DEF Safe, Stored, Working
<1>5. ArtifactReady'
  BY DEF Safe, ArtifactReady
<1> QED
  BY <1>2, <1>3, <1>4, <1>5 DEF Safe

\* The worker becomes idle, starts with a message or meets an error, and
\* nothing is completed without a file.
Leaves(w) ==
  /\ attempts' = attempts /\ artifact' = artifact /\ body' = body
  /\ \/ pc'[w] = "idle"
     \/ pc'[w] = "claim" /\ ~Working(w)
     \/ pc'[w] = "failed" /\ Working(w) /\ msg'[w] = msg[w] /\ mine'[w] = mine[w]
  /\ \A v \in Worker : v # w => pc'[v] = pc[v] /\ msg'[v] = msg[v] /\ mine'[v] = mine[v]
  /\ \A j \in Report : status'[j] = "COMPLETED" => artifact[j] # 0

LEMMA Leaving ==
  ASSUME Safe, Typed', NEW w \in Worker, Leaves(w)
  PROVE  Safe'
<1> USE DEF Leaves
<1>1. \A v \in Worker : Working(v)' =>
        /\ Working(v) /\ Job(v)' = Job(v) /\ mine'[v] = mine[v]
        /\ pc'[v] = "finalise" => pc[v] = "finalise"
  BY DEF Working, Job
<1>2. ClaimsCounted'
  BY <1>1 DEF Safe, ClaimsCounted
<1>3. ClaimsDiffer'
  BY <1>1 DEF Safe, ClaimsDiffer
<1>4. Stored'
  BY <1>1 DEF Safe, Stored, Working
<1>5. ArtifactReady'
  BY DEF ArtifactReady
<1> QED
  BY <1>2, <1>3, <1>4, <1>5 DEF Safe

\* The new claim is greater than any before it.
LEMMA ClaimSafe ==
  ASSUME Safe, Typed', NEW w \in Worker, Claim(w)
  PROVE  Safe'
<1>1. Job(w) \in Report
  BY JobType DEF Safe, Claim
<1> DEFINE j == Job(w)
<1>2. /\ attempts' = [attempts EXCEPT ![j] = @ + 1]
      /\ mine' = [mine EXCEPT ![w] = attempts[j] + 1]
      /\ pc' = [pc EXCEPT ![w] = "generate"]
      /\ UNCHANGED <<artifact, msg, body>>
      /\ pc[w] = "claim"
  BY DEF Claim, sqsVars
<1>3. \A r \in Report : attempts[r] \in Nat /\ attempts'[r] \in Nat
  BY DEF Safe, Typed, TypeOK
<1>4. \A v \in Worker : mine[v] \in Nat /\ mine'[v] \in Nat
  BY DEF Safe, Typed, TypeOK
<1>5. /\ attempts'[j] = attempts[j] + 1
      /\ \A r \in Report : r # j => attempts'[r] = attempts[r]
      /\ mine'[w] = attempts[j] + 1
      /\ \A v \in Worker : v # w => mine'[v] = mine[v] /\ pc'[v] = pc[v]
      /\ pc'[w] = "generate"
  BY <1>1, <1>2 DEF Safe, Typed, TypeOK
<1>6. \A v \in Worker : Job(v)' = Job(v)
  BY <1>2 DEF Job
<1>7. \A v \in Worker : Working(v) => Job(v) \in Report
  BY JobType DEF Safe, Working
<1>8. \A v \in Worker : v # w => (Working(v)' <=> Working(v))
  BY <1>5 DEF Working
<1>9. ClaimsCounted'
  <2> SUFFICES ASSUME NEW v \in Worker, Working(v)'
               PROVE  0 < mine'[v] /\ mine'[v] <= attempts'[Job(v)]
    BY <1>6 DEF ClaimsCounted
  <2>1. CASE v = w
    BY <2>1, <1>1, <1>3, <1>5
  <2>2. CASE v # w
    <3>1. Working(v) /\ 0 < mine[v] /\ mine[v] <= attempts[Job(v)]
      BY <2>2, <1>8 DEF Safe, ClaimsCounted
    <3>2. attempts[Job(v)] <= attempts'[Job(v)]
      BY <3>1, <1>3, <1>5, <1>7
    <3> QED
      BY <3>1, <3>2, <2>2, <1>3, <1>4, <1>5, <1>7
  <2> QED
    BY <2>1, <2>2
<1>10. ClaimsDiffer'
  <2>1. ASSUME NEW v \in Worker, v # w, Working(v), Job(v) = j PROVE mine'[v] # mine'[w]
    <3>1. mine[v] <= attempts[j]
      BY <2>1 DEF Safe, ClaimsCounted
    <3> QED
      BY <2>1, <3>1, <1>1, <1>3, <1>4, <1>5
  <2> QED
    BY <2>1, <1>5, <1>6, <1>8 DEF Safe, ClaimsDiffer
<1>11. Stored'
  BY <1>2, <1>5, <1>6 DEF Safe, Stored
<1>12. ArtifactReady'
  BY <1>1 DEF Safe, ArtifactReady, Claim, Typed, TypeOK
<1> QED
  BY <1>9, <1>10, <1>11, <1>12 DEF Safe

LEMMA UploadSafe ==
  ASSUME Safe, Typed', NEW w \in Worker, UploadReport(w)
  PROVE  Safe'
<1>1. Job(w) \in Report /\ mine[w] # 0 /\ artifact[Job(w)] \in Nat
  BY JobType DEF Safe, Typed, TypeOK, ClaimsCounted, UploadReport, Working
<1>2. /\ artifact' = [artifact EXCEPT ![Job(w)] = mine[w]]
      /\ pc[w] = "generate" /\ pc' = [pc EXCEPT ![w] = "finalise"]
      /\ UNCHANGED <<status, attempts, msg, mine, body>>
  BY DEF UploadReport, sqsVars
<1>3. \A v \in Worker : /\ Working(v)' <=> Working(v)
                        /\ Job(v)' = Job(v)
  BY <1>2 DEF Working, Job, Safe, Typed, TypeOK
<1>4. \A j \in Report : artifact[j] # 0 => artifact'[j] # 0
  BY <1>1, <1>2 DEF Safe, Typed, TypeOK
<1>5. Stored'
  <2> SUFFICES ASSUME NEW v \in Worker, pc'[v] = "finalise" PROVE artifact'[Job(v)] # 0
    BY <1>3 DEF Stored
  <2>1. CASE v = w
    BY <2>1, <1>1, <1>2 DEF Safe, Typed, TypeOK
  <2>2. CASE v # w
    BY <2>2, <1>2, <1>4, JobType DEF Safe, Stored, Typed, TypeOK
  <2> QED
    BY <2>1, <2>2
<1>6. ClaimsCounted' /\ ClaimsDiffer'
  BY <1>2, <1>3 DEF Safe, ClaimsCounted, ClaimsDiffer
<1>7. ArtifactReady'
  BY <1>2, <1>4 DEF Safe, ArtifactReady
<1> QED
  BY <1>5, <1>6, <1>7 DEF Safe

LEMMA WorkerSafe ==
  ASSUME Safe, NEW w \in Worker,
         WorkerProceeds(w) \/ ReportFails(w) \/ WorkerStops(w)
  PROVE  Safe'
<1>1. Typed /\ Typed'
  BY WorkerTyped DEF Safe
<1>2. pc[w] # "idle" => Job(w) \in Report
  BY <1>1, JobType
<1> USE DEF jobVars, sqsVars, apiVars
<1>3. CASE Claim(w)
  BY <1>1, <1>3, ClaimSafe
<1>4. CASE UploadReport(w)
  BY <1>1, <1>4, UploadSafe
<1>5. \A j \in Report : status[j] = "COMPLETED" => artifact[j] # 0
  BY DEF Safe, ArtifactReady
<1>6. CASE Skip(w) \/ WorkerStops(w)
  <2>1. Leaves(w)
    BY <1>1, <1>5, <1>6 DEF Leaves, Skip, WorkerStops, Acknowledge, GiveBack, Typed, TypeOK
  <2> QED
    BY <1>1, <2>1, Leaving
<1>7. CASE Finalise(w) \/ FinaliseFails(w)
  <2>1. artifact[Job(w)] # 0 /\ Working(w)
    BY <1>7 DEF Finalise, FinaliseFails, Safe, Stored, Working
  <2>2. \A j \in Report : status'[j] = "COMPLETED" => artifact[j] # 0
    BY <1>1, <1>2, <1>5, <1>7, <2>1 DEF Finalise, FinaliseFails, Completing, Typed, TypeOK
  <2>3. Leaves(w)
    BY <1>1, <1>7, <2>1, <2>2 DEF Leaves, Finalise, FinaliseFails, Acknowledge, Typed, TypeOK
  <2> QED
    BY <1>1, <2>3, Leaving
<1>8. CASE HandleFailure(w)
  <2>1. \A j \in Report : status'[j] = "COMPLETED" => artifact[j] # 0
    BY <1>1, <1>2, <1>5, <1>8 DEF HandleFailure, Typed, TypeOK
  <2>2. Leaves(w)
    BY <1>1, <1>8, <2>1 DEF Leaves, HandleFailure, GiveBack, Typed, TypeOK
  <2> QED
    BY <1>1, <2>2, Leaving
<1>9. CASE ReportFails(w)
  <2>1. Leaves(w)
    BY <1>1, <1>5, <1>9 DEF Leaves, ReportFails, Working, Typed, TypeOK
  <2> QED
    BY <1>1, <2>1, Leaving
<1> QED
  BY <1>3, <1>4, <1>6, <1>7, <1>8, <1>9 DEF WorkerProceeds

LEMMA OthersSafe ==
  ASSUME Safe, [Next]_vars,
         \A w \in Worker : ~(WorkerProceeds(w) \/ ReportFails(w) \/ WorkerStops(w))
  PROVE  Safe'
<1>1. Typed /\ Typed'
  BY NextTyped DEF Safe
<1> USE DEF Typed, TypeOK, jobVars, sqsVars, apiVars, workerVars
<1>2. CASE Operator
  <2>1. UNCHANGED <<workerVars, attempts, artifact, body>>
    BY <1>2 DEF Operator, DiscardReport, CreateExport, ReplayReport, RedriveReportDlq
  <2>2. \A j \in Report : status'[j] = "COMPLETED" => status[j] = "COMPLETED"
    BY <1>1, <1>2 DEF Operator, DiscardReport, CreateExport, ReplayReport, RedriveReportDlq
  <2> QED
    BY <1>1, <2>1, <2>2, Aside
<1>3. ASSUME NEW r \in Request, RequestProceeds(r) \/ SendRefused(r) \/ RequestDies(r)
      PROVE  Safe'
  <2>1. UNCHANGED <<workerVars, attempts, artifact>>
    BY <1>3 DEF RequestProceeds, Send, MarkDispatchFailed, SendRefused, RequestDies
  <2>2. \A j \in Report : status'[j] = "COMPLETED" => status[j] = "COMPLETED"
    BY <1>1, <1>3 DEF RequestProceeds, Send, MarkDispatchFailed, SendRefused, RequestDies
  <2>3. \A w \in Worker : pc[w] # "idle" => body'[msg[w]] = body[msg[w]]
    <3>1. CASE Send(r)
      BY <1>1, <3>1, JobType DEF Send, Unsent
    <3> QED
      BY <1>3, <3>1 DEF RequestProceeds, MarkDispatchFailed, SendRefused, RequestDies
  <2> QED
    BY <1>1, <2>1, <2>2, <2>3, Aside
<1>4. ASSUME NEW m \in Message, NEW w \in Worker, Receive(w, m) PROVE Safe'
  BY <1>1, <1>4, Leaving DEF Leaves, Receive, Working, Safe, ArtifactReady
<1>5. CASE Redriving \/ \E m \in Message : DeadLetter(m) \/ Duplicate(m)
  BY <1>1, <1>5, Aside DEF Redriving, Move, MoveEnds, DeadLetter, Duplicate
<1>6. ASSUME NEW j \in Report, LeaseExpires(j) PROVE Safe'
  BY <1>1, <1>6, Aside DEF LeaseExpires
<1>7. CASE UNCHANGED vars
  BY <1>1, <1>7, Aside DEF vars
<1> QED
  BY <1>2, <1>3, <1>4, <1>5, <1>6, <1>7 DEF Next, Misfortune, Delivery

LEMMA SafeAlways == Spec => []Safe
<1>1. Safe /\ [Next]_vars => Safe'
  BY WorkerSafe, OthersSafe
<1> QED
  BY <1>1, InitSafe, PTL DEF Spec

\* Whatever fails, a COMPLETED job has a file to download.
THEOREM ArtifactReadyAlways == Spec => []ArtifactReady
<1>1. Safe => ArtifactReady
  BY DEF Safe
<1> QED
  BY <1>1, SafeAlways, PTL

\* Two invocations never hold the same claim on a job, however short the lease
\* and however often a message is delivered.
THEOREM ClaimsDifferAlways == Spec => []ClaimsDiffer
<1>1. Safe => ClaimsDiffer
  BY DEF Safe
<1> QED
  BY <1>1, SafeAlways, PTL
-----------------------------------------------------------------------------
(* Finished jobs. *)

NoUndo == \A r \in Request : step[r] # "undo"

\* Without errors of the dispatch no request comes to the catch around it.
LEMMA NeverUndone ==
  ASSUME Fault \cap {"refused", "lost_answer"} = {}, Typed, NoUndo, [Next]_vars
  PROVE  NoUndo'
<1> USE DEF NoUndo
<1>1. \A r \in Request : ~SendRefused(r) /\ ~MarkDispatchFailed(r)
  BY DEF SendRefused, MarkDispatchFailed
<1>2. ASSUME NEW r \in Request, RequestProceeds(r) \/ RequestDies(r) PROVE NoUndo'
  BY <1>1, <1>2 DEF RequestProceeds, Send, RequestDies, EndRequest, Typed, TypeOK
<1>3. CASE Operator
  BY <1>3 DEF Operator, DiscardReport, CreateExport, ReplayReport, RedriveReportDlq,
     Dispatching, apiVars, Typed, TypeOK
<1>4. ASSUME NEW w \in Worker, WorkerProceeds(w) \/ ReportFails(w) \/ WorkerStops(w)
      PROVE  NoUndo'
  BY <1>4 DEF WorkerProceeds, ReportFails, WorkerStops, Claim, Skip, UploadReport,
     Finalise, FinaliseFails, HandleFailure, apiVars
<1>5. CASE Redriving \/ \E m \in Message : Delivery(m) \/ Duplicate(m)
  BY <1>5 DEF Redriving, Move, MoveEnds, Delivery, Receive, DeadLetter, Duplicate, apiVars
<1>6. CASE UNCHANGED vars \/ \E j \in Report : LeaseExpires(j)
  BY <1>6 DEF vars, LeaseExpires, apiVars
<1> QED
  BY <1>1, <1>2, <1>3, <1>4, <1>5, <1>6 DEF Next, Misfortune

\* While SendMessage either works or is not tried again (no error of the
\* dispatch reaches the catch), COMPLETED and DISCARDED are final, whatever
\* the workers, the queue and the operators do.
THEOREM FinishedStaysAlways ==
  ASSUME Fault \cap {"refused", "lost_answer"} = {}
  PROVE  Spec => FinishedStays
<1> DEFINE IInv == Typed /\ NoUndo
           Kept == \A j \in Report :
                     status[j] \in {"COMPLETED", "DISCARDED"} => status'[j] = status[j]
<1>1. Init => IInv
  BY InitTyped DEF Init, NoUndo
<1>2. IInv /\ [Next]_vars => IInv'
  BY NextTyped, NeverUndone
<1>3. IInv /\ [Next]_vars => [Kept]_vars
  <2> SUFFICES ASSUME IInv, Next PROVE Kept
    OBVIOUS
  <2>1. status \in [Report -> JobStatus]
    BY DEF Typed, TypeOK
  <2>2. ASSUME NEW r \in Request, RequestProceeds(r) \/ SendRefused(r) \/ RequestDies(r)
        PROVE  Kept
    BY <2>2 DEF RequestProceeds, Send, MarkDispatchFailed, SendRefused, RequestDies,
       jobVars, NoUndo
  <2>3. CASE Operator
    BY <2>1, <2>3 DEF Operator, DiscardReport, CreateExport, ReplayReport,
       RedriveReportDlq, jobVars
  <2>4. ASSUME NEW w \in Worker, WorkerProceeds(w) \/ ReportFails(w) \/ WorkerStops(w)
        PROVE  Kept
    BY <2>1, <2>4 DEF WorkerProceeds, ReportFails, WorkerStops, Claim, Claimable, Skip,
       UploadReport, Finalise, FinaliseFails, Completing, HandleFailure, Owns, jobVars
  <2>5. CASE Redriving \/ \E m \in Message : Delivery(m) \/ Duplicate(m)
    BY <2>5 DEF Redriving, Move, MoveEnds, Delivery, Receive, DeadLetter, Duplicate, jobVars
  <2>6. CASE \E j \in Report : LeaseExpires(j)
    BY <2>6 DEF LeaseExpires
  <2> QED
    BY <2>2, <2>3, <2>4, <2>5, <2>6 DEF Next, Misfortune
<1> QED
  BY <1>1, <1>2, <1>3, PTL DEF Spec, FinishedStays
-----------------------------------------------------------------------------
(* One worker at a time. *)

\* The lease outlasts an invocation, and no dispatch fails.
Deployed == Fault \cap {"refused", "lost_answer", "short_lease"} = {}

\* The job an invocation works on is processed under its claim, or it has just
\* been completed by a statement whose answer was an error.
Holding ==
  \A w \in Worker : Working(w) =>
    /\ startedAt[Job(w)] = mine[w]
    /\ \/ status[Job(w)] = "PROCESSING" /\ ~expired[Job(w)]
       \/ status[Job(w)] = "COMPLETED" /\ pc[w] = "failed"

Written == \A w \in Worker : pc[w] = "finalise" => artifact[Job(w)] = mine[w]

Alone == Typed /\ NoUndo /\ Holding /\ OneWriter /\ Written /\ ArtifactMatches

LEMMA InitAlone == Init => Alone
<1> SUFFICES ASSUME Init PROVE Alone
  OBVIOUS
<1>1. \A w \in Worker : ~Working(w) /\ pc[w] # "finalise"
  BY DEF Init, Working
<1>2. \A j \in Report : status[j] # "COMPLETED"
  BY DEF Init
<1>3. NoUndo
  BY DEF Init, NoUndo
<1> QED
  BY <1>1, <1>2, <1>3, InitTyped DEF Alone, Holding, OneWriter, Written, ArtifactMatches

\* Steps that do not concern the workers.
LEMMA AsideAlone ==
  ASSUME Alone, Typed', NoUndo',
         UNCHANGED <<pc, msg, mine, startedAt, artifact>>,
         \A w \in Worker : pc[w] # "idle" => body'[msg[w]] = body[msg[w]],
         \A j \in Report : status[j] \in {"PROCESSING", "COMPLETED"} => status'[j] = status[j],
         \A j \in Report : status'[j] = "COMPLETED" => status[j] = "COMPLETED",
         \A w \in Worker : Working(w) /\ ~expired[Job(w)] => ~expired'[Job(w)]
  PROVE  Alone'
<1>1. \A w \in Worker : /\ Working(w)' <=> Working(w)
                        /\ Working(w) => Job(w)' = Job(w) /\ Job(w) \in Report
  BY JobType DEF Working, Job, Alone
<1>2. Holding'
  BY <1>1 DEF Alone, Holding
<1>3. OneWriter'
  BY <1>1 DEF Alone, OneWriter
<1>4. Written'
  BY <1>1 DEF Alone, Written, Working
<1>5. ArtifactMatches'
  BY DEF Alone, ArtifactMatches
<1> QED
  BY <1>2, <1>3, <1>4, <1>5 DEF Alone

\* A worker that works on no job as yet, or that nobody else works beside.
\* Jobs other than its own stay as they are.
Solo(w, j) ==
  /\ \A v \in Worker : v # w => pc'[v] = pc[v] /\ msg'[v] = msg[v] /\ mine'[v] = mine[v]
  /\ \A i \in Report : i # j =>
       /\ status'[i] = status[i] /\ startedAt'[i] = startedAt[i]
       /\ expired'[i] = expired[i] /\ artifact'[i] = artifact[i]
  /\ body' = body

LEMMA SoloAlone ==
  ASSUME Alone, Typed', NoUndo',
         NEW w \in Worker, NEW j \in Report, Solo(w, j),
         \A v \in Worker : v # w /\ Working(v) => Job(v) # j,
         Working(w)' =>
           /\ Job(w)' = j /\ startedAt'[j] = mine'[w]
           /\ \/ status'[j] = "PROCESSING" /\ ~expired'[j]
              \/ status'[j] = "COMPLETED" /\ pc'[w] = "failed",
         pc'[w] = "finalise" => artifact'[j] = mine'[w],
         status'[j] = "COMPLETED" => artifact'[j] = startedAt'[j]
  PROVE  Alone'
<1>1. \A v \in Worker : v # w =>
        /\ Working(v)' <=> Working(v)
        /\ Job(v)' = Job(v)
        /\ Working(v) => Job(v) \in Report
  BY JobType DEF Solo, Working, Job, Alone
<1>2. Holding'
  BY <1>1 DEF Alone, Holding, Solo
<1>3. OneWriter'
  BY <1>1 DEF Alone, OneWriter
<1>4. Written'
  <2>1. ASSUME NEW v \in Worker, v # w, pc'[v] = "finalise" PROVE artifact'[Job(v)'] = mine'[v]
    BY <1>1, <2>1 DEF Alone, Written, Solo, Working
  <2>2. pc'[w] = "finalise" => artifact'[Job(w)'] = mine'[w]
    BY DEF Working
  <2> QED
    BY <2>1, <2>2 DEF Written
<1>5. ArtifactMatches'
  BY DEF Alone, ArtifactMatches, Solo
<1> QED
  BY <1>2, <1>3, <1>4, <1>5 DEF Alone

\* A worker that stops, skips a message or receives one.
LEMMA LeaveAlone ==
  ASSUME Alone, Typed', NoUndo', UNCHANGED jobVars, UNCHANGED body,
         NEW w \in Worker, ~Working(w)', pc'[w] # "finalise",
         \A v \in Worker : v # w => pc'[v] = pc[v] /\ msg'[v] = msg[v] /\ mine'[v] = mine[v]
  PROVE  Alone'
<1>1. \A v \in Worker : Working(v)' => v # w /\ Working(v) /\ Job(v)' = Job(v)
  BY DEF Working, Job
<1>2. Holding'
  BY <1>1 DEF Alone, Holding, jobVars
<1>3. OneWriter'
  BY <1>1 DEF Alone, OneWriter
<1>4. Written'
  BY <1>1 DEF Alone, Written, jobVars, Working
<1>5. ArtifactMatches'
  BY DEF Alone, ArtifactMatches, jobVars
<1> QED
  BY <1>2, <1>3, <1>4, <1>5 DEF Alone

LEMMA WorkerAlone ==
  ASSUME Alone, Typed', NoUndo', NEW w \in Worker,
         WorkerProceeds(w) \/ ReportFails(w) \/ WorkerStops(w)
  PROVE  Alone'
<1> DEFINE j == Job(w)
<1>0. pc[w] # "idle"
  BY DEF WorkerProceeds, ReportFails, WorkerStops, Claim, Skip, UploadReport,
     Finalise, FinaliseFails, HandleFailure
<1>1. Typed /\ j \in Report
  BY <1>0, JobType DEF Alone
<1>2. Working(w) => \A v \in Worker : v # w /\ Working(v) => Job(v) # j
  BY DEF Alone, OneWriter
<1>3. Working(w) => /\ startedAt[j] = mine[w]
                    /\ \/ status[j] = "PROCESSING" /\ ~expired[j]
                       \/ status[j] = "COMPLETED" /\ pc[w] = "failed"
  BY DEF Alone, Holding
<1>4. status[j] = "COMPLETED" => artifact[j] = startedAt[j]
  BY <1>1 DEF Alone, ArtifactMatches
<1> USE DEF jobVars, sqsVars, apiVars
<1>5. CASE Claim(w)
  <2>1. \A v \in Worker : v # w /\ Working(v) => Job(v) # j
    BY <1>5 DEF Claim, Claimable, Alone, Holding
  <2>2. Solo(w, j) /\ Job(w)' = j
    BY <1>1, <1>5 DEF Solo, Claim, Job, Typed, TypeOK
  <2>3. /\ startedAt'[j] = mine'[w] /\ status'[j] = "PROCESSING" /\ ~expired'[j]
        /\ pc'[w] = "generate"
    BY <1>1, <1>5 DEF Claim, Typed, TypeOK
  <2> QED
    BY <1>1, <2>1, <2>2, <2>3, SoloAlone
<1>6. CASE UploadReport(w)
  <2>1. Working(w) /\ status[j] = "PROCESSING" /\ ~expired[j] /\ startedAt[j] = mine[w]
    BY <1>3, <1>6 DEF UploadReport, Working
  <2>2. Solo(w, j) /\ Job(w)' = j
    BY <1>1, <1>6 DEF Solo, UploadReport, Job, Typed, TypeOK
  <2>3. artifact'[j] = mine[w] /\ pc'[w] = "finalise" /\ UNCHANGED <<status, expired, startedAt, mine>>
    BY <1>1, <1>6 DEF UploadReport, Typed, TypeOK
  <2> QED
    BY <1>1, <1>2, <2>1, <2>2, <2>3, SoloAlone
<1>7. CASE Finalise(w) \/ FinaliseFails(w)
  <2>1. /\ Working(w) /\ status[j] = "PROCESSING" /\ ~expired[j] /\ startedAt[j] = mine[w]
        /\ artifact[j] = mine[w]
    BY <1>3, <1>7 DEF Finalise, FinaliseFails, Working, Alone, Written
  <2>2. Solo(w, j)
    BY <1>1, <1>7 DEF Solo, Finalise, FinaliseFails, Completing, Acknowledge, Typed, TypeOK
  <2>3. UNCHANGED <<expired, startedAt, artifact>> /\ status'[j] \in {"PROCESSING", "COMPLETED"}
    BY <1>1, <1>7, <2>1 DEF Finalise, FinaliseFails, Completing, Typed, TypeOK
  <2>4. Working(w)' => pc'[w] = "failed" /\ mine'[w] = mine[w] /\ Job(w)' = j
    BY <1>1, <1>7 DEF Finalise, FinaliseFails, Acknowledge, Working, Job, Typed, TypeOK
  <2>5. pc'[w] # "finalise"
    BY <1>1, <1>7 DEF Finalise, FinaliseFails, Acknowledge, Typed, TypeOK
  <2> QED
    BY <1>1, <1>2, <2>1, <2>2, <2>3, <2>4, <2>5, SoloAlone
<1>8. CASE HandleFailure(w)
  <2>1. Working(w) /\ startedAt[j] = mine[w]
    BY <1>3, <1>8 DEF HandleFailure, Working
  <2>2. Solo(w, j)
    BY <1>1, <1>8 DEF Solo, HandleFailure, GiveBack, Typed, TypeOK
  <2>3. ~Working(w)' /\ pc'[w] # "finalise"
    BY <1>1, <1>8 DEF HandleFailure, GiveBack, Working, Typed, TypeOK
  <2>4. status'[j] = "COMPLETED" => artifact'[j] = startedAt'[j]
    BY <1>1, <1>4, <1>8 DEF HandleFailure, Typed, TypeOK
  <2> QED
    BY <1>1, <1>2, <2>1, <2>2, <2>3, <2>4, SoloAlone
<1>9. CASE ReportFails(w)
  <2>1. Working(w)
    BY <1>9 DEF ReportFails, Working
  <2>2. Solo(w, j) /\ Job(w)' = j /\ pc'[w] = "failed" /\ UNCHANGED <<jobVars, mine>>
    BY <1>1, <1>9 DEF Solo, ReportFails, Job, Typed, TypeOK
  <2> QED
    BY <1>1, <1>2, <1>3, <1>4, <2>1, <2>2, SoloAlone
<1>10. CASE Skip(w) \/ WorkerStops(w)
  <2>1. /\ UNCHANGED jobVars /\ body' = body /\ pc'[w] = "idle"
        /\ \A v \in Worker : v # w => pc'[v] = pc[v] /\ msg'[v] = msg[v] /\ mine'[v] = mine[v]
    BY <1>1, <1>10 DEF Skip, WorkerStops, Acknowledge, GiveBack, Typed, TypeOK
  <2> QED
    BY <2>1, LeaveAlone DEF Working
<1> QED
  BY <1>5, <1>6, <1>7, <1>8, <1>9, <1>10 DEF WorkerProceeds

LEMMA NextAlone ==
  ASSUME Deployed, Alone, [Next]_vars
  PROVE  Alone'
<1>1. Typed /\ Typed' /\ NoUndo /\ NoUndo'
  BY NextTyped, NeverUndone DEF Alone, Deployed
<1> USE DEF jobVars, sqsVars, apiVars, workerVars
<1>2. CASE Operator
  <2>1. UNCHANGED <<workerVars, startedAt, expired, artifact, body>>
    BY <1>2 DEF Operator, DiscardReport, CreateExport, ReplayReport, RedriveReportDlq
  <2>2. \A j \in Report : /\ status[j] \in {"PROCESSING", "COMPLETED"} => status'[j] = status[j]
                          /\ status'[j] = "COMPLETED" => status[j] = "COMPLETED"
    BY <1>1, <1>2 DEF Operator, DiscardReport, CreateExport, ReplayReport, RedriveReportDlq,
       Typed, TypeOK
  <2> QED
    BY <1>1, <2>1, <2>2, AsideAlone
<1>3. ASSUME NEW r \in Request, RequestProceeds(r) \/ SendRefused(r) \/ RequestDies(r)
      PROVE  Alone'
  <2>1. UNCHANGED <<workerVars, jobVars>>
    BY <1>1, <1>3 DEF RequestProceeds, Send, MarkDispatchFailed, SendRefused, RequestDies, NoUndo
  <2>2. \A w \in Worker : pc[w] # "idle" => body'[msg[w]] = body[msg[w]]
    <3>1. CASE Send(r)
      BY <1>1, <3>1, JobType DEF Send, Unsent, Typed, TypeOK
    <3> QED
      BY <1>3, <3>1 DEF RequestProceeds, MarkDispatchFailed, SendRefused, RequestDies
  <2> QED
    BY <1>1, <2>1, <2>2, AsideAlone
<1>4. ASSUME NEW m \in Message, NEW w \in Worker, Receive(w, m) PROVE Alone'
  BY <1>1, <1>4, LeaveAlone DEF Receive, Working, Typed, TypeOK
<1>5. CASE Redriving \/ \E m \in Message : DeadLetter(m) \/ Duplicate(m)
  BY <1>1, <1>5, AsideAlone DEF Redriving, Move, MoveEnds, DeadLetter, Duplicate
<1>6. ASSUME NEW j \in Report, LeaseExpires(j) PROVE Alone'
  <2>1. ~OwnerRuns(j) /\ status[j] = "PROCESSING" /\ expired' = [expired EXCEPT ![j] = TRUE]
    BY <1>6 DEF LeaseExpires, Deployed
  <2>2. \A w \in Worker : Working(w) => Job(w) # j
    BY <2>1 DEF OwnerRuns, Alone, Holding, Working
  <2>3. \A w \in Worker : Working(w) /\ ~expired[Job(w)] => ~expired'[Job(w)]
    BY <1>1, <2>1, <2>2, JobType DEF Typed, TypeOK, Working
  <2>4. UNCHANGED <<pc, msg, mine, startedAt, artifact, body, status>>
    BY <1>6 DEF LeaseExpires
  <2> QED
    BY <1>1, <2>3, <2>4, AsideAlone
<1>7. CASE UNCHANGED vars
  BY <1>1, <1>7, AsideAlone DEF vars
<1>8. ASSUME NEW w \in Worker, WorkerProceeds(w) \/ ReportFails(w) \/ WorkerStops(w)
      PROVE  Alone'
  BY <1>1, <1>8, WorkerAlone
<1> QED
  BY <1>2, <1>3, <1>4, <1>5, <1>6, <1>7, <1>8 DEF Next, Misfortune, Delivery

LEMMA AloneAlways ==
  ASSUME Deployed
  PROVE  Spec => []Alone
<1>1. Alone /\ [Next]_vars => Alone'
  BY NextAlone
<1> QED
  BY <1>1, InitAlone, PTL DEF Spec

\* With the deployed lease, which outlasts an invocation, and dispatches that do
\* not fail, no two invocations work on one job, however messages are delivered
\* again, invocations die and reports are replayed or redriven.
THEOREM OneWriterAlways ==
  ASSUME Deployed
  PROVE  Spec => []OneWriter
<1>1. Alone => OneWriter
  BY DEF Alone
<1> QED
  BY <1>1, AloneAlways, PTL

\* Under the same conditions the file of a completed job is the one its
\* completing attempt has stored, even when that attempt saw an error.
THEOREM ArtifactMatchesAlways ==
  ASSUME Deployed
  PROVE  Spec => []ArtifactMatches
<1>1. Alone => ArtifactMatches
  BY DEF Alone
<1> QED
  BY <1>1, AloneAlways, PTL
-----------------------------------------------------------------------------
(* No unfinished job is forgotten. *)

\* Requests and invocations get to their ends, and messages are delivered once.
Reliable == Fault \cap {"crash", "database", "duplicate"} = {}

\* What is not in use names no job.
Blank ==
  /\ \A m \in Message : place[m] = "unsent" => body[m] = Nothing
  /\ \A r \in Request : step[r] = "idle" => request[r] = Nothing

\* The message an invocation processes is in its hands.
InHand == \A w \in Worker : pc[w] # "idle" => place[msg[w]] = w

\* A job is PROCESSING while an invocation works under its claim.
Owned ==
  \A j \in Report : status[j] = "PROCESSING" =>
    \E w \in Worker : Working(w) /\ Job(w) = j /\ mine[w] = startedAt[j]

Remembered == Typed /\ Blank /\ InHand /\ Owned /\ Tended

LEMMA InitRemembered == Init => Remembered
BY InitTyped DEF Init, Remembered, Blank, InHand, Owned, Tended

\* Steps of the API.
LEMMA RequestRemembered ==
  ASSUME Remembered, Typed', Reliable,
         Operator \/ \E r \in Request : RequestProceeds(r) \/ SendRefused(r) \/ RequestDies(r)
  PROVE  Remembered'
<1> USE DEF Remembered, Typed, TypeOK, Addressed
<1>1. UNCHANGED <<startedAt, pc, msg, mine>>
  BY DEF Operator, DiscardReport, CreateExport, ReplayReport, RedriveReportDlq, RequestProceeds, Send,
     MarkDispatchFailed, SendRefused, RequestDies, jobVars, workerVars
<1>2. \A j \in Report : status'[j] = "PROCESSING" => status[j] = "PROCESSING"
  BY DEF Operator, DiscardReport, CreateExport, ReplayReport, RedriveReportDlq, RequestProceeds, Send,
     MarkDispatchFailed, SendRefused, RequestDies, jobVars
<1>3. \A m \in Message : place[m] # "unsent" => place'[m] = place[m] /\ body'[m] = body[m]
  BY DEF Operator, DiscardReport, CreateExport, ReplayReport, RedriveReportDlq, RequestProceeds, Send,
     Unsent, MarkDispatchFailed, SendRefused, RequestDies, sqsVars
<1>4. \A w \in Worker : pc[w] # "idle" => Job(w)' = Job(w) /\ place'[msg[w]] = place[msg[w]]
  BY <1>1, <1>3 DEF Job
<1>5. InHand'
  BY <1>1, <1>4 DEF InHand
<1>6. Owned'
  BY <1>1, <1>2, <1>4 DEF Owned, Working
<1>7. ASSUME NEW r \in Request, NEW j \in Report, CreateExport(r, j) \/ ReplayReport(r, j)
      PROVE  Blank' /\ Tended'
  <2>1. /\ status' = [status EXCEPT ![j] = "PENDING"]
        /\ request[r] = Nothing /\ request' = [request EXCEPT ![r] = j]
        /\ step' = [step EXCEPT ![r] = "send"]
        /\ UNCHANGED <<place, body>>
    BY <1>7 DEF CreateExport, ReplayReport, Dispatching, Blank, sqsVars
  <2>2. \A q \in Request : request[q] \in Report => request'[q] = request[q]
    BY <2>1
  <2>3. request'[r] = j
    BY <2>1
  <2>4. Tended'
    BY <2>1, <2>2, <2>3 DEF Tended
  <2>5. Blank'
    BY <2>1 DEF Blank
  <2> QED
    BY <2>4, <2>5
<1>11. CASE RedriveReportDlq \/ \E j \in Report : DiscardReport(j)
  BY <1>5, <1>6, <1>11 DEF RedriveReportDlq, DiscardReport, Blank, Tended, jobVars, apiVars, sqsVars
<1>8. ASSUME NEW r \in Request, Send(r) PROVE Blank' /\ Tended'
  <2>1. PICK m \in Unsent : /\ place' = [place EXCEPT ![m] = "visible"]
                            /\ body' = [body EXCEPT ![m] = request[r]]
    BY <1>8 DEF Send
  <2>2. /\ m \in Message /\ body[m] = Nothing
        /\ place'[m] = "visible" /\ body'[m] = request[r]
    BY <2>1 DEF Unsent, Blank
  <2>3. status' = status /\ \A q \in Request : request'[q] = request[q] \/ (q = r /\ request'[q] = Nothing)
    BY <1>8 DEF Send, EndRequest, jobVars
  <2>4. Tended'
    BY <1>3, <2>1, <2>2, <2>3 DEF Tended
  <2>5. Blank'
    BY <1>8, <2>1 DEF Send, EndRequest, Blank
  <2> QED
    BY <2>4, <2>5
<1>9. ASSUME NEW r \in Request, MarkDispatchFailed(r) \/ SendRefused(r) PROVE Blank' /\ Tended'
  BY <1>9 DEF MarkDispatchFailed, SendRefused, EndRequest, Blank, Tended, sqsVars, jobVars
<1>10. \A r \in Request : ~RequestDies(r)
  BY DEF RequestDies, Reliable
<1> QED
  BY <1>5, <1>6, <1>7, <1>8, <1>9, <1>10, <1>11 DEF Operator, RequestProceeds

\* Steps of the queue, and of the clock.
LEMMA QueueRemembered ==
  ASSUME Remembered, Typed', Reliable,
         \/ Redriving
         \/ \E m \in Message : Delivery(m) \/ Duplicate(m)
         \/ \E j \in Report : LeaseExpires(j)
  PROVE  Remembered'
<1> USE DEF Remembered, Typed, TypeOK, Addressed, Place
<1>1. UNCHANGED <<status, startedAt, body, mine, request, step>>
  BY DEF Redriving, MoveEnds, Move, Delivery, DeadLetter, Receive, Duplicate, LeaseExpires,
     jobVars, apiVars, sqsVars, workerVars
<1>2. \A m \in Message : ~Duplicate(m)
  BY DEF Duplicate, Reliable
<1>3. \A m \in Message : \/ place'[m] = place[m]
                         \/ place[m] \in {"visible", "dead"} /\ place'[m] \notin {"deleted", "unsent"}
  BY <1>2 DEF Redriving, MoveEnds, Move, Delivery, DeadLetter, Receive, LeaseExpires, sqsVars
<1>4. Blank' /\ Tended'
  BY <1>1, <1>3 DEF Blank, Tended
<1>5. CASE UNCHANGED <<pc, msg>>
  BY <1>1, <1>3, <1>4, <1>5 DEF InHand, Owned, Working, Job
<1>6. ASSUME NEW w \in Worker, NEW m \in Message, Receive(w, m) PROVE InHand' /\ Owned'
  <2>1. /\ pc[w] = "idle" /\ pc' = [pc EXCEPT ![w] = "claim"] /\ msg' = [msg EXCEPT ![w] = m]
        /\ place' = [place EXCEPT ![m] = w] /\ place[m] = "visible"
    BY <1>6 DEF Receive
  <2>2. InHand'
    BY <2>1 DEF InHand
  <2>3. Owned'
    BY <1>1, <2>1 DEF Owned, Working, Job
  <2> QED
    BY <2>2, <2>3
<1> QED
  BY <1>2, <1>4, <1>5, <1>6 DEF Redriving, MoveEnds, Move, Delivery, DeadLetter, LeaseExpires,
     workerVars

\* Steps of the invocations.  One that gives a message up without its job
\* being finished has put it back, or leaves the job to the owner of the claim.
LEMMA WorkerRemembered ==
  ASSUME Remembered, Typed', Reliable, NEW w \in Worker,
         WorkerProceeds(w) \/ ReportFails(w) \/ WorkerStops(w)
  PROVE  Remembered'
<1> USE DEF Remembered, Typed, TypeOK, Addressed
<1>1. /\ msg[w] \in Message /\ Job(w) \in Report /\ place[msg[w]] = w /\ pc[w] # "idle"
      /\ UNCHANGED <<body, request, step>>
  BY JobType DEF WorkerProceeds, ReportFails, WorkerStops, Claim, Skip, UploadReport, Finalise,
     FinaliseFails, HandleFailure, Reliable, InHand, sqsVars, apiVars
<1>2. ~WorkerStops(w)
  BY DEF WorkerStops, Reliable
<1>3. \A v \in Worker : v # w /\ pc[v] # "idle" => msg[v] # msg[w]
  BY <1>1 DEF InHand
<1>4. CASE Claim(w)
  <2> DEFINE j == Job(w)
  <2>1. /\ status' = [status EXCEPT ![j] = "PROCESSING"]
        /\ startedAt' = [startedAt EXCEPT ![j] = attempts[j] + 1]
        /\ mine' = [mine EXCEPT ![w] = attempts[j] + 1]
        /\ pc' = [pc EXCEPT ![w] = "generate"] /\ pc[w] = "claim"
        /\ UNCHANGED <<place, msg>>
    BY <1>4 DEF Claim, sqsVars
  <2>2. Blank' /\ InHand'
    BY <1>1, <2>1 DEF Blank, InHand
  <2>3. Tended'
    BY <1>1, <2>1 DEF Tended, Job
  <2>4. Owned'
    <3>1. Working(w)' /\ mine'[w] = startedAt'[j]
      BY <1>1, <2>1 DEF Working
    <3>2. \A v \in Worker : Working(v) => v # w /\ Working(v)' /\ mine'[v] = mine[v]
      BY <2>1 DEF Working
    <3>3. \A v \in Worker : Job(v)' = Job(v)
      BY <1>1, <2>1 DEF Job
    <3>4. \A i \in Report : i # j => status'[i] = status[i] /\ startedAt'[i] = startedAt[i]
      BY <2>1
    <3> QED
      BY <3>1, <3>2, <3>3, <3>4 DEF Owned
  <2> QED
    BY <2>2, <2>3, <2>4
<1>5. CASE UploadReport(w) \/ ReportFails(w)
  BY <1>1, <1>5 DEF UploadReport, ReportFails, Blank, InHand, Tended, Owned, Working, Job, jobVars, sqsVars
<1>6. CASE FinaliseFails(w)
  <2>1. /\ pc[w] = "finalise" /\ pc' = [pc EXCEPT ![w] = "failed"] /\ status' = status
        /\ UNCHANGED <<startedAt, place, msg, mine>>
    BY <1>6 DEF FinaliseFails, Reliable, sqsVars
  <2> QED
    BY <1>1, <2>1 DEF Blank, InHand, Tended, Owned, Working, Job
\* The invocation ends.
<1> DEFINE Ended ==
      /\ pc' = [pc EXCEPT ![w] = "idle"] /\ msg' = [msg EXCEPT ![w] = Nothing]
      /\ mine' = [mine EXCEPT ![w] = 0]
      /\ \A m \in Message : m # msg[w] => place'[m] = place[m]
      /\ place'[msg[w]] \in {"deleted", "visible"}
<1>7. ASSUME Ended PROVE Blank' /\ InHand'
  BY <1>1, <1>3, <1>7 DEF Blank, InHand
<1>8. ASSUME Ended, NEW i \in Report, NEW v \in Worker, v # w,
             Working(v) /\ Job(v) = i /\ mine[v] = startedAt[i],
             startedAt'[i] = startedAt[i]
      PROVE  Working(v)' /\ Job(v)' = i /\ mine'[v] = startedAt'[i]
  BY <1>1, <1>8 DEF Working, Job
<1>9. CASE Skip(w)
  <2>1. Ended /\ UNCHANGED <<status, startedAt>> /\ pc[w] = "claim"
    BY <1>1, <1>9 DEF Skip, Acknowledge, jobVars
  <2>2. Owned'
    <3> SUFFICES ASSUME NEW i \in Report, status[i] = "PROCESSING"
                 PROVE  \E v \in Worker : Working(v)' /\ Job(v)' = i /\ mine'[v] = startedAt'[i]
      BY <2>1 DEF Owned
    <3>1. PICK v \in Worker : Working(v) /\ Job(v) = i /\ mine[v] = startedAt[i]
      BY DEF Owned
    <3>2. v # w
      BY <2>1, <3>1 DEF Working
    <3> QED
      BY <1>8, <2>1, <3>1, <3>2
  <2>3. Tended'
    <3> SUFFICES ASSUME NEW i \in Report, status[i] \in {"PENDING", "PROCESSING"},
                        \A r \in Request : request[r] # i
                 PROVE  \E m \in Message : body[m] = i /\ place'[m] # "deleted"
      BY <1>1, <2>1 DEF Tended
    <3>1. CASE status[i] = "PROCESSING"
      <4>1. PICK v \in Worker : Working(v) /\ Job(v) = i
        BY <3>1 DEF Owned
      <4>2. v # w /\ pc[v] # "idle"
        BY <2>1, <4>1 DEF Working
      <4>3. msg[v] \in Message /\ body[msg[v]] = i /\ place[msg[v]] = v /\ msg[v] # msg[w]
        BY <1>3, <4>1, <4>2 DEF Job, InHand
      <4>4. v # "deleted"
        OBVIOUS
      <4> QED
        BY <2>1, <4>3, <4>4
    <3>2. CASE status[i] = "PENDING"
      <4>1. Job(w) # i
        BY <1>9, <3>2 DEF Skip, Claimable
      <4>2. PICK m \in Message : body[m] = i /\ place[m] # "deleted"
        BY DEF Tended
      <4>3. m # msg[w]
        BY <4>1, <4>2 DEF Job
      <4> QED
        BY <2>1, <4>2, <4>3
    <3> QED
      BY <3>1, <3>2
  <2> QED
    BY <1>7, <2>1, <2>2, <2>3
\* An owner that ends takes its job's status with it; no other claim is touched.
<1>10. ASSUME Ended, NEW s, s # "PROCESSING",
              \/ Owns(w) /\ status' = [status EXCEPT ![Job(w)] = s]
                         /\ \A i \in Report : i # Job(w) => startedAt'[i] = startedAt[i]
              \/ ~Owns(w) /\ UNCHANGED <<status, startedAt>>
       PROVE  Owned'
  <2> SUFFICES ASSUME NEW i \in Report, status'[i] = "PROCESSING"
               PROVE  \E v \in Worker : Working(v)' /\ Job(v)' = i /\ mine'[v] = startedAt'[i]
    BY DEF Owned
  <2>1. status[i] = "PROCESSING" /\ startedAt'[i] = startedAt[i] /\ (Job(w) = i => ~Owns(w))
    BY <1>1, <1>10
  <2>2. PICK v \in Worker : Working(v) /\ Job(v) = i /\ mine[v] = startedAt[i]
    BY <2>1 DEF Owned
  <2>3. v # w
    BY <2>1, <2>2 DEF Owns
  <2> QED
    BY <1>8, <1>10, <2>1, <2>2, <2>3
<1>11. CASE Finalise(w)
  <2>1. /\ Ended /\ startedAt' = startedAt
        /\ Owns(w) /\ status' = [status EXCEPT ![Job(w)] = "COMPLETED"]
    BY <1>1, <1>11 DEF Finalise, Completing, Acknowledge
  <2>2. Owned'
    BY <1>10, <2>1
  <2>3. \A m \in Message : body[m] # Job(w) => place'[m] = place[m]
    BY <2>1 DEF Job
  <2>4. Tended'
    BY <1>1, <2>1, <2>3 DEF Tended
  <2> QED
    BY <1>7, <2>1, <2>2, <2>4
<1>12. CASE HandleFailure(w)
  <2>1. Ended /\ place'[msg[w]] = "visible"
    BY <1>1, <1>12 DEF HandleFailure, GiveBack
  <2>2. PICK s \in {"FAILED", "PENDING"} :
          \/ Owns(w) /\ status' = [status EXCEPT ![Job(w)] = s]
                     /\ startedAt' = [startedAt EXCEPT ![Job(w)] = 0]
          \/ ~Owns(w) /\ UNCHANGED <<status, startedAt>>
    BY <1>12 DEF HandleFailure
  <2>3. Owned'
    BY <1>1, <1>10, <2>1, <2>2
  <2>4. \A i \in Report : status'[i] \in {"PENDING", "PROCESSING"} => status[i] \in {"PENDING", "PROCESSING"}
    BY <1>1, <2>2 DEF Owns
  <2>5. \A m \in Message : place[m] # "deleted" => place'[m] # "deleted"
    BY <2>1
  <2>6. Tended'
    BY <1>1, <2>4, <2>5 DEF Tended
  <2> QED
    BY <1>7, <2>1, <2>3, <2>6
<1> QED
  BY <1>2, <1>4, <1>5, <1>6, <1>9, <1>11, <1>12 DEF WorkerProceeds

\* When messages are delivered once and nothing is cut short, every unfinished
\* job has a message or a request that will see to it, though reports fail,
\* dispatches are refused or seem to be, and leases are too short.
THEOREM TendedAlways ==
  ASSUME Reliable
  PROVE  Spec => []Tended
<1>1. Remembered /\ [Next]_vars => Remembered'
  <2> SUFFICES ASSUME Remembered, [Next]_vars PROVE Remembered'
    OBVIOUS
  <2>1. Typed'
    BY NextTyped DEF Remembered
  <2>2. CASE UNCHANGED vars
    BY <2>1, <2>2 DEF vars, jobVars, sqsVars, apiVars, workerVars, Remembered, Blank, InHand, Owned,
       Tended, Working, Job
  <2> QED
    BY <2>1, <2>2, RequestRemembered, QueueRemembered, WorkerRemembered DEF Next, Misfortune
<1>2. Remembered => Tended
  BY DEF Remembered
<1> QED
  BY <1>1, <1>2, InitRemembered, PTL DEF Spec

=============================================================================
