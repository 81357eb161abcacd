--------------------------- MODULE ImportRecovery ---------------------------
(***************************************************************************)
(* Recovery of import executions that ended badly: import-recovery-worker, *)
(* which receives the terminal events of the state machine and scans for   *)
(* stale jobs, and RecoveryService and DlqService, with which an           *)
(* administrator replays or discards.  It runs on top of ImportJobs: the   *)
(* replay starts another execution of the same job.                        *)
(*                                                                         *)
(* Executions are numbers: the first Uploads are started by upload events, *)
(* the others by replays, in the order they are started.  A recovery item  *)
(* is known by the execution it was made for: the column is unique, and    *)
(* NULL, as often as it likes, where the scan found none on the job.       *)
(*                                                                         *)
(* Fault, beyond those of ImportJobs:                                      *)
(*   lost_event   EventBridge does not deliver an execution's end          *)
(*   lost_start   StartExecution takes effect but the API sees an error    *)
(*   dispatch     StartExecution, or the update after it, fails            *)
(*   replay_dies  a replay request is cut short after its claim            *)
(***************************************************************************)
EXTENDS ImportJobs, Integers

CONSTANTS Uploads,     \* executions 1 .. Uploads belong to uploads
          Unnoted,     \* the items there may be with no execution (a bound)
          MaxReplays   \* IMPORT_MAX_REPLAY_COUNT

None == -1

ASSUME RecoveryAssumption ==
  /\ Exec \subseteq Nat \ {0} /\ Uploads \in Nat
  /\ Unnoted \subseteq Int \ {None} /\ Unnoted \cap Exec = {}
  /\ MaxReplays \in Nat

VARIABLES
  items,    \* the recovery items
  going,    \* where the replay request of an item is
  source,   \* replayOf in the input of an execution, None for an upload
  number,   \* the number in the name of an execution that is a replay
  told,     \* how far the worker is with an execution's end
  arn,      \* import_jobs.execution_arn, 0 for NULL
  scan      \* where the stale scan is

recoveryVars == <<items, going, source, number, told, arn, scan>>
allVars == <<vars, recoveryVars>>

Key == Unnoted \cup Exec
NoItem == [status |-> "ABSENT", count |-> 0]
ItemStatus == {"ABSENT", "OPEN", "REPLAYING", "RESOLVED", "DISCARDED"}

Replays == {e \in Exec : e > Uploads}
Started(e) == source[e] # None
Live(k) == items[k].status \in {"OPEN", "REPLAYING"}
Mark(k, s) == items' = [items EXCEPT ![k].status = s]
NewItem(k) == items' = [items EXCEPT ![k] = [status |-> "OPEN", count |-> 0]]

RecoveryInit ==
  /\ Init
  /\ items = [k \in Key |-> NoItem]
  /\ going = [k \in Key |-> "no"]
  /\ source = [e \in Exec |-> None]
  /\ number = [e \in Exec |-> 0]
  /\ told = [e \in Exec |-> "no"]
  /\ arn = 0 /\ scan = "idle"

-----------------------------------------------------------------------------
(* The state machine reads bucket, key and size of its input; the input of a
   replay has no size, and an execution whose parameters cannot be resolved
   fails before its first Lambda, with or without a Catch. *)

ReplayInput == {"importJobId", "bucket", "key", "replayOf"}
ValidateParameters == {"bucket", "key", "size"}
Invoked(e) == e \in Replays => ValidateParameters \subseteq ReplayInput

ParametersFail(e) ==
  /\ at[e] = "validate" /\ ~Invoked(e)
  /\ Enter(e, "failed") \/ Enter(e, "markFailed")
  /\ UNCHANGED <<jobVars, rowVars, cmd, todo, apiVars, recoveryVars>>

\* The validator and the parser note their execution on the job.
NotesArn(e) == arn' = IF at[e] \in {"validate", "parse"} THEN e ELSE arn

\* The validator notes it first: the note stays when it fails later.
MayNoteArn(e) == (at[e] = "validate" /\ NotesArn(e)) \/ UNCHANGED arn

ImportStep ==
  \/ /\ \/ User
        \/ \E r \in Request : RequestProceeds(r) \/ RequestDies(r)
        \/ \E e \in Exec \ Replays : StartExecution(e)
     /\ UNCHANGED recoveryVars
  \/ \E e \in Exec :
       /\ at[e] = "validate" => Invoked(e)
       /\ \/ ExecProceeds(e) /\ NotesArn(e)
          \/ ExecSuffers(e) /\ MayNoteArn(e)
       /\ UNCHANGED <<items, going, source, number, told, scan>>

-----------------------------------------------------------------------------
(* persistTerminalEvent *)

\* A success resolves the item it replays, the item of its execution and every
\* item of the job that is REPLAYING, in one statement.
TellSuccess(e) ==
  /\ at[e] = "succeeded" /\ told[e] = "no"
  /\ items' = [k \in Key |->
       IF items[k] # NoItem /\ (k \in {e, source[e]} \/ items[k].status = "REPLAYING")
       THEN [items[k] EXCEPT !.status = "RESOLVED"] ELSE items[k]]
  /\ told' = [told EXCEPT ![e] = "yes"]
  /\ UNCHANGED <<vars, going, source, number, arn, scan>>

\* Mutation: the item behind a failed replay is left for the success handler.
TellFailureSilent(e) ==
  /\ at[e] = "failed" /\ told[e] = "no"
  /\ told' = [told EXCEPT ![e] = "item"]
  /\ UNCHANGED <<vars, items, going, source, number, arn, scan>>

\* A failure first closes the item whose replay has failed ...
TellFailure(e) ==
  /\ at[e] = "failed" /\ told[e] = "no"
  /\ IF Started(e) /\ items[source[e]].status = "REPLAYING"
     THEN Mark(source[e], "RESOLVED") ELSE UNCHANGED items
  /\ told' = [told EXCEPT ![e] = "item"]
  /\ UNCHANGED <<vars, going, source, number, arn, scan>>

\* Mutation: the failure of a replay opens no item of its own.
OpenItemUploadsOnly(e) ==
  /\ told[e] = "item"
  /\ IF items[e] = NoItem /\ ~Started(e) THEN NewItem(e) ELSE UNCHANGED items
  /\ told' = [told EXCEPT ![e] = "job"]
  /\ UNCHANGED <<vars, going, source, number, arn, scan>>

\* ... then finds or creates the item of the execution.  A delivery that loses
\* a race to create it fails and comes again.
OpenItem(e) ==
  /\ told[e] = "item"
  /\ IF items[e] = NoItem THEN NewItem(e) ELSE UNCHANGED items
  /\ told' = [told EXCEPT ![e] = "job"]
  /\ UNCHANGED <<vars, going, source, number, arn, scan>>

\* ... and last marks the job.
FailJob(e) ==
  /\ told[e] = "job" /\ Unlocked
  /\ status' = IF status = "COMPLETED" THEN status ELSE "FAILED"
  /\ told' = [told EXCEPT ![e] = "yes"]
  /\ UNCHANGED <<token, posted, rowVars, execVars, apiVars, items, going, source, number, arn, scan>>

\* The queue delivers an event again that has been handled.  A delivery that
\* fails in the middle is one that takes longer: its first step comes to nothing
\* when it is repeated.
Redelivered(e) ==
  /\ told[e] = "yes"
  /\ told' = [told EXCEPT ![e] = "no"]
  /\ UNCHANGED <<vars, items, going, source, number, arn, scan>>

EventLost(e) ==
  /\ "lost_event" \in Fault
  /\ at[e] \in {"succeeded", "failed"} /\ told[e] = "no"
  /\ told' = [told EXCEPT ![e] = "lost"]
  /\ UNCHANGED <<vars, items, going, source, number, arn, scan>>

-----------------------------------------------------------------------------
(* scanStaleJobs.  The job has not been touched for 25 hours: longer than any
   Lambda, request or approval lasts, so none of them is at work on it. *)

\* Mutation: the scan forgets COMMITTING.
StaleStatusesShort == {"PARSING", "VALIDATING"}

StaleStatuses == {"PARSING", "VALIDATING", "COMMITTING"}

Quiet == /\ \A e \in Exec : at[e] \notin Running \cup {"approval"}
         /\ \A r \in Request : step[r] = "idle"

ScanReads ==
  /\ scan = "idle" /\ Quiet /\ status \in StaleStatuses
  /\ scan' = "item"
  /\ UNCHANGED <<vars, items, going, source, number, told, arn>>

\* An item is created unless one is live.  Its execution is the one noted: when
\* that has an item already, the unique column refuses another and the whole
\* scan ends with an error.
ScanOpens ==
  /\ scan = "item"
  /\ \/ /\ \E k \in Key : Live(k)
        /\ scan' = "job" /\ UNCHANGED items
     \/ /\ \A k \in Key : ~Live(k)
        /\ \/ /\ \E k \in IF arn = 0 THEN Unnoted ELSE {arn} : items[k] = NoItem /\ NewItem(k)
              /\ scan' = "job"
           \/ /\ arn # 0 /\ items[arn] # NoItem
              /\ scan' = "idle" /\ UNCHANGED items
  /\ UNCHANGED <<vars, going, source, number, told, arn>>

\* The job is marked by its id, whatever its status is by now.
ScanMarks ==
  /\ scan = "job"
  /\ SetStatus("FAILED")
  /\ scan' = "idle"
  /\ UNCHANGED <<token, posted, rowVars, execVars, apiVars, items, going, source, number, told, arn>>

-----------------------------------------------------------------------------
(* RecoveryService.replayImport and discardImport *)

\* Mutation: the count is not looked at.
CanReplayUncounted(k) == items[k].status = "OPEN"

CanReplay(k) == items[k].status = "OPEN" /\ items[k].count < MaxReplays

\* Mutation: every row of the job is opened again.
ClaimReopensAll(k) ==
  /\ CanReplay(k) /\ going[k] = "no"
  /\ items' = [items EXCEPT ![k] = [status |-> "REPLAYING", count |-> @.count + 1]]
  /\ line' = [i \in Row |-> IF line[i] # "ABSENT" THEN "VALID" ELSE line[i]]
  /\ SetStatus("UPLOADED") /\ token' = NoToken /\ arn' = 0
  /\ going' = [going EXCEPT ![k] = "start"]
  /\ UNCHANGED <<posted, added, execVars, apiVars, source, number, told, scan>>

\* The claim is one transaction: only rows that FAILED become VALID again.
ReplayClaims(k) ==
  /\ CanReplay(k) /\ going[k] = "no"
  /\ items' = [items EXCEPT ![k] = [status |-> "REPLAYING", count |-> @.count + 1]]
  /\ line' = [i \in Row |-> IF line[i] = "FAILED" THEN "VALID" ELSE line[i]]
  /\ SetStatus("UPLOADED") /\ token' = NoToken /\ arn' = 0
  /\ going' = [going EXCEPT ![k] = "start"]
  /\ UNCHANGED <<posted, added, execVars, apiVars, source, number, told, scan>>

\* The older endpoint looks the item up by the job, which must have failed.
DlqReplay(k) == status \in {"FAILED", "PARTIAL_FAILED"} /\ ReplayClaims(k)

\* Mutation: the name says which item is replayed.
TakenByItem(k) == \E e \in Replays : source[e] = k /\ number[e] = items[k].count

\* An execution's name is made of the job and the number of the replay.
Taken(k) == \E e \in Replays : Started(e) /\ number[e] = items[k].count

ReplayStarts(k) ==
  /\ going[k] = "start" /\ ~Taken(k)
  /\ \E e \in Replays :
       /\ ~Started(e) /\ \A f \in Replays : f < e => Started(f)
       /\ Enter(e, "validate")
       /\ source' = [source EXCEPT ![e] = k]
       /\ number' = [number EXCEPT ![e] = items[k].count]
  /\ \/ going' = [going EXCEPT ![k] = "arn"]
     \/ "lost_start" \in Fault /\ going' = [going EXCEPT ![k] = "reopen"]
  /\ UNCHANGED <<jobVars, rowVars, cmd, todo, apiVars, items, told, arn, scan>>

\* Step Functions keeps the name of an execution for 90 days: a name that is
\* taken, by an execution with another input, is refused.
ReplayRefused(k) ==
  /\ \/ going[k] = "start" /\ Taken(k)
     \/ going[k] \in {"start", "arn"} /\ "dispatch" \in Fault
  /\ going' = [going EXCEPT ![k] = "reopen"]
  /\ UNCHANGED <<vars, items, source, number, told, arn, scan>>

ReplayNotes(k) ==
  /\ going[k] = "arn" /\ Unlocked
  /\ arn' \in {e \in Replays : source[e] = k /\ number[e] = items[k].count}
  /\ going' = [going EXCEPT ![k] = "no"]
  /\ UNCHANGED <<vars, items, source, number, told, scan>>

\* The catch reopens the item and fails the job, whatever they are by now.
ReplayReopens(k) ==
  /\ going[k] = "reopen"
  /\ Mark(k, "OPEN") /\ SetStatus("FAILED")
  /\ going' = [going EXCEPT ![k] = "no"]
  /\ UNCHANGED <<token, posted, rowVars, execVars, apiVars, source, number, told, arn, scan>>

ReplayDies(k) ==
  /\ "replay_dies" \in Fault /\ going[k] \in {"start", "arn", "reopen"}
  /\ going' = [going EXCEPT ![k] = "dead"]
  /\ UNCHANGED <<vars, items, source, number, told, arn, scan>>

DiscardImport(k) ==
  /\ items[k].status = "OPEN"
  /\ Mark(k, "DISCARDED") /\ SetStatus("CANCELLED")
  /\ UNCHANGED <<token, posted, rowVars, execVars, apiVars, going, source, number, told, arn, scan>>

-----------------------------------------------------------------------------
Tell(e) == TellSuccess(e) \/ TellFailure(e) \/ OpenItem(e) \/ FailJob(e)
Scan == ScanReads \/ ScanOpens \/ ScanMarks
ReplayProceeds(k) ==
  \/ ReplayStarts(k) \/ ReplayNotes(k) \/ ReplayReopens(k)
  \/ Taken(k) /\ ReplayRefused(k)
Administrator == \E k \in Key : ReplayClaims(k) \/ DlqReplay(k) \/ DiscardImport(k)

RecoveryNext ==
  \/ ImportStep
  \/ \E e \in Exec : ParametersFail(e) \/ Tell(e) \/ Redelivered(e) \/ EventLost(e)
  \/ Scan
  \/ Administrator
  \/ \E k \in Key : ReplayProceeds(k) \/ ReplayRefused(k) \/ ReplayDies(k)

RecoverySpec == RecoveryInit /\ [][RecoveryNext]_allVars

ExecGoesOn(e) ==
  \/ ParametersFail(e)
  \/ /\ at[e] = "validate" => Invoked(e)
     /\ ExecProceeds(e) /\ NotesArn(e)
     /\ UNCHANGED <<items, going, source, number, told, scan>>

\* Beyond the fairness of ImportJobs, an event that is not lost is handled in
\* the end, the scan runs every 15 minutes, and a replay request goes on until
\* it ends or dies.  Executions and replays take finitely many steps, so fairness
\* to all of them together is fairness to each; strong, because updates of the
\* job wait for its row.
RecoveryFairSpec ==
  /\ RecoverySpec
  /\ \A r \in Request : WF_allVars(RequestProceeds(r) /\ UNCHANGED recoveryVars)
  /\ SF_allVars(\E e \in Exec : ExecGoesOn(e))
  /\ \A e \in Exec : WF_allVars(Tell(e))
  /\ WF_allVars(Scan)
  /\ SF_allVars(\E k \in Key : ReplayProceeds(k))

-----------------------------------------------------------------------------
(* Properties. *)

RecoveryTypeOK ==
  /\ TypeOK
  /\ items \in [Key -> [status : ItemStatus, count : 0 .. MaxReplays]]
  /\ going \in [Key -> {"no", "start", "arn", "reopen", "dead"}]
  /\ source \in [Exec -> Key \cup {None}]
  /\ number \in [Exec -> 0 .. MaxReplays]
  /\ told \in [Exec -> {"no", "item", "job", "yes", "lost"}]
  /\ arn \in {0} \cup Exec
  /\ scan \in {"idle", "item", "job"}

\* However many items the failures of a job leave behind, each with a count of
\* its own, at most MaxReplays of its executions are replays: the runbook's
\* "bounded to three attempts".  It rests on the names of the executions.
ReplaysBounded == Cardinality({e \in Replays : Started(e)}) <= MaxReplays

\* An execution that failed has an item an administrator can act upon, unless
\* its event got lost.
FailureRecorded ==
  \A e \in Exec : at[e] = "failed" ~> items[e] # NoItem \/ told[e] = "lost"

\* An item does not stay REPLAYING, unless the request that claimed it died or
\* the end of the replay got lost.
ReplayingEnds ==
  \A k \in Key : items[k].status = "REPLAYING" ~>
    \/ items[k].status # "REPLAYING"
    \/ going[k] = "dead"
    \/ \E e \in Replays : source[e] = k /\ told[e] = "lost"

\* A job left in COMMITTING, by a confirm that wrote over COMPLETED or by
\* executions whose handlers all failed, is picked up by the scan; unless the
\* item of its execution has been closed, for then the unique column fails the
\* scan every time.
CommittingEnds ==
  status = "COMMITTING" ~> status # "COMMITTING" \/ (arn # 0 /\ items[arn] # NoItem /\ ~Live(arn))

=============================================================================
