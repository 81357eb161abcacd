------------------------ MODULE ImportRecoveryProofs ------------------------
(***************************************************************************)
(* Theorems about ImportRecovery, for any number of rows, executions,      *)
(* requests and replays, and under every fault.  What an action of         *)
(* ImportJobs does to the variables of ImportJobs is taken from the        *)
(* lemmas of ImportJobsProofs; the steps of recovery are added to it.      *)
(***************************************************************************)
EXTENDS ImportRecovery, ImportJobsProofs, FiniteSetTheorems

USE DEF recoveryVars, NoItem, jobVars, rowVars, execVars, apiVars

\* The steps of recovery by name, without those of the state machine and the API.
RecoveryStep ==
  \/ \E e \in Exec : ParametersFail(e) \/ Tell(e) \/ Redelivered(e) \/ EventLost(e)
  \/ Scan
  \/ Administrator
  \/ \E k \in Key : ReplayProceeds(k) \/ ReplayRefused(k) \/ ReplayDies(k)

\* The steps of recovery, but for the claim of a replay, leave the rows alone;
\* the claim only turns FAILED rows into VALID ones.
LEMMA RecoveryRows ==
  ASSUME RecoveryStep
  PROVE  \/ UNCHANGED rowVars
         \/ /\ UNCHANGED added
            /\ line' = [i \in Row |-> IF line[i] = "FAILED" THEN "VALID" ELSE line[i]]
<1> USE DEF vars
<1>1. ASSUME NEW e \in Exec, ParametersFail(e) \/ Tell(e) \/ Redelivered(e) \/ EventLost(e)
      PROVE  UNCHANGED rowVars
  BY <1>1 DEF ParametersFail, Tell, TellSuccess, TellFailure, OpenItem, FailJob, Redelivered, EventLost
<1>2. CASE Scan
  BY <1>2 DEF Scan, ScanReads, ScanOpens, ScanMarks
<1>3. ASSUME NEW k \in Key, ReplayProceeds(k) \/ ReplayRefused(k) \/ ReplayDies(k) \/ DiscardImport(k)
      PROVE  UNCHANGED rowVars
  BY <1>3 DEF ReplayProceeds, ReplayStarts, ReplayNotes, ReplayReopens, ReplayRefused, ReplayDies,
     DiscardImport
<1>4. ASSUME NEW k \in Key, ReplayClaims(k) \/ DlqReplay(k)
      PROVE  /\ UNCHANGED added
             /\ line' = [i \in Row |-> IF line[i] = "FAILED" THEN "VALID" ELSE line[i]]
  BY <1>4 DEF ReplayClaims, DlqReplay
<1> QED
  BY <1>1, <1>2, <1>3, <1>4 DEF RecoveryStep, Administrator

\* A step of the composition is a step of ImportJobs, a stutter of it, or a
\* step of recovery.
LEMMA Steps ==
  ASSUME [RecoveryNext]_allVars
  PROVE  RecoveryStep \/ [Next]_vars
<1>1. CASE UNCHANGED allVars
  BY <1>1 DEF allVars
<1>2. CASE ImportStep
  <2>1. CASE \/ User
             \/ \E r \in Request : RequestProceeds(r) \/ RequestDies(r)
             \/ \E e \in Exec \ Replays : StartExecution(e)
    BY <2>1 DEF Next
  <2>2. CASE \E e \in Exec : ExecProceeds(e) \/ ExecSuffers(e)
    BY <2>2 DEF Next
  <2> QED
    BY <1>2, <2>1, <2>2 DEF ImportStep
<1> QED
  BY <1>1, <1>2 DEF RecoveryNext, RecoveryStep

-----------------------------------------------------------------------------
(* Types. *)

LEMMA RecoveryTypeInit == RecoveryInit => RecoveryTypeOK
<1> SUFFICES ASSUME RecoveryInit PROVE RecoveryTypeOK
  OBVIOUS
<1>1. TypeOK
  BY TypeInit DEF RecoveryInit
<1>2. 0 \in 0 .. MaxReplays
  BY RecoveryAssumption
<1> QED
  BY <1>1, <1>2, Zenon DEF RecoveryInit, RecoveryTypeOK, ItemStatus, Key

\* What the steps of recovery do to the variables of ImportJobs.
LEMMA RecoveryTypeJobs ==
  ASSUME TypeOK, RecoveryStep
  PROVE  TypeOK'
<1> USE DEF TypeOK, ImportStatus, Token, SetStatus
<1>1. ASSUME NEW e \in Exec, ParametersFail(e) PROVE TypeOK'
  BY <1>1, ImportAssumption DEF ParametersFail, Enter, Goto, Running
<1>2. ASSUME NEW e \in Exec, TellSuccess(e) \/ TellFailure(e) \/ OpenItem(e) \/ Redelivered(e) \/ EventLost(e)
      PROVE  TypeOK'
  BY <1>2 DEF TellSuccess, TellFailure, OpenItem, Redelivered, EventLost, vars
<1>3. ASSUME NEW e \in Exec, FailJob(e) PROVE TypeOK'
  BY <1>3 DEF FailJob
<1>4. CASE Scan
  <2>1. CASE ScanReads \/ ScanOpens
    BY <2>1 DEF ScanReads, ScanOpens, vars
  <2>2. CASE ScanMarks
    BY <2>2 DEF ScanMarks
  <2> QED
    BY <1>4, <2>1, <2>2 DEF Scan
<1>5. ASSUME NEW k \in Key, ReplayClaims(k) PROVE TypeOK'
  BY <1>5 DEF ReplayClaims
<1>6. ASSUME NEW k \in Key, ReplayStarts(k) PROVE TypeOK'
  BY <1>6, ImportAssumption DEF ReplayStarts, Enter, Goto, Running, Replays
<1>7. ASSUME NEW k \in Key, ReplayReopens(k) \/ DiscardImport(k) PROVE TypeOK'
  BY <1>7 DEF ReplayReopens, DiscardImport
<1>8. ASSUME NEW k \in Key, ReplayNotes(k) \/ ReplayRefused(k) \/ ReplayDies(k) PROVE TypeOK'
  BY <1>8 DEF ReplayNotes, ReplayRefused, ReplayDies, vars
<1> HIDE DEF TypeOK
<1> QED
  BY <1>1, <1>2, <1>3, <1>4, <1>5, <1>6, <1>7, <1>8
  DEF RecoveryStep, Tell, Administrator, DlqReplay, ReplayProceeds

OwnTypes ==
  /\ items \in [Key -> [status : ItemStatus, count : 0 .. MaxReplays]]
  /\ going \in [Key -> {"no", "start", "arn", "reopen", "dead"}]
  /\ source \in [Exec -> Key \cup {None}]
  /\ number \in [Exec -> 0 .. MaxReplays]
  /\ told \in [Exec -> {"no", "item", "job", "yes", "lost"}]
  /\ arn \in {0} \cup Exec
  /\ scan \in {"idle", "item", "job"}

LEMMA RecoveryTypeOwn ==
  ASSUME OwnTypes, RecoveryStep
  PROVE  OwnTypes'
<1> USE RecoveryAssumption DEF OwnTypes, ItemStatus, Key, Mark, NewItem
<1>1. ASSUME NEW e \in Exec, ParametersFail(e) \/ FailJob(e) \/ Redelivered(e) \/ EventLost(e)
      PROVE  OwnTypes'
  BY <1>1 DEF ParametersFail, FailJob, Redelivered, EventLost
<1>9. ASSUME NEW e \in Exec, TellSuccess(e) PROVE OwnTypes'
  <2> DEFINE resolved(k) == items[k] # NoItem /\ (k \in {e, source[e]} \/ items[k].status = "REPLAYING")
             new(k) == IF resolved(k) THEN [items[k] EXCEPT !.status = "RESOLVED"] ELSE items[k]
  <2>1. \A k \in Key : new(k) \in [status : ItemStatus, count : 0 .. MaxReplays]
    OBVIOUS
  <2>2. items' = [k \in Key |-> new(k)] /\ UNCHANGED <<going, source, number, arn, scan>>
    BY <1>9 DEF TellSuccess
  <2>3. told' \in [Exec -> {"no", "item", "job", "yes", "lost"}]
    BY <1>9 DEF TellSuccess
  <2> HIDE DEF new
  <2>4. items' \in [Key -> [status : ItemStatus, count : 0 .. MaxReplays]]
    BY <2>1, <2>2
  <2> QED
    BY <2>2, <2>3, <2>4
<1>2. ASSUME NEW e \in Exec, TellFailure(e) PROVE OwnTypes'
  BY <1>2 DEF TellFailure, Started
<1>3. ASSUME NEW e \in Exec, OpenItem(e) PROVE OwnTypes'
  BY <1>3 DEF OpenItem
<1>4. CASE Scan
  BY <1>4 DEF Scan, ScanReads, ScanOpens, ScanMarks
<1>5. ASSUME NEW k \in Key, ReplayClaims(k) PROVE OwnTypes'
  BY <1>5 DEF ReplayClaims, CanReplay
<1>6. ASSUME NEW k \in Key, ReplayStarts(k) PROVE OwnTypes'
  BY <1>6 DEF ReplayStarts, Replays
<1>7. ASSUME NEW k \in Key, ReplayNotes(k) \/ ReplayReopens(k) PROVE OwnTypes'
  BY <1>7, SMTT(30) DEF ReplayNotes, ReplayReopens, Replays
<1>8. ASSUME NEW k \in Key, ReplayRefused(k) \/ ReplayDies(k) \/ DiscardImport(k) PROVE OwnTypes'
  BY <1>8, SMTT(30) DEF ReplayRefused, ReplayDies, DiscardImport
<1> HIDE DEF OwnTypes
<1> QED
  BY <1>1, <1>2, <1>3, <1>4, <1>5, <1>6, <1>7, <1>8, <1>9
  DEF RecoveryStep, Tell, Administrator, DlqReplay, ReplayProceeds

LEMMA RecoveryTypeStep ==
  ASSUME RecoveryTypeOK, [RecoveryNext]_allVars
  PROVE  RecoveryTypeOK'
<1>1. TypeOK /\ OwnTypes
  BY DEF RecoveryTypeOK, OwnTypes
<1>2. TypeOK'
  <2>1. CASE [Next]_vars
    <3>1. CASE UNCHANGED vars
      BY <1>1, <3>1 DEF vars, TypeOK
    <3>2. CASE Next
      BY <1>1, <3>2, TypeExec, TypeApi DEF Next
    <3> QED
      BY <2>1, <3>1, <3>2
  <2> QED
    BY <1>1, <2>1, Steps, RecoveryTypeJobs
<1>3. OwnTypes'
  <2>1. CASE UNCHANGED allVars
    BY <1>1, <2>1 DEF allVars, OwnTypes
  <2>2. CASE ImportStep
    BY <1>1, <2>2 DEF ImportStep, NotesArn, MayNoteArn, OwnTypes, Key
  <2> QED
    BY <1>1, <2>1, <2>2, RecoveryTypeOwn DEF RecoveryNext, RecoveryStep
<1> QED
  BY <1>2, <1>3 DEF RecoveryTypeOK, OwnTypes

\* Every reachable state of the composition is well typed: no item is replayed
\* more often than MaxReplays, and every replay carries a number in that range.
THEOREM RecoveryTypeCorrect == RecoverySpec => []RecoveryTypeOK
<1>1. RecoveryTypeOK /\ [RecoveryNext]_allVars => RecoveryTypeOK'
  BY RecoveryTypeStep
<1> QED
  BY RecoveryTypeInit, <1>1, PTL DEF RecoverySpec

-----------------------------------------------------------------------------
(* Rows and stock. *)

\* Under replays too, the rows marked COMMITTED are exactly those that have
\* reached the stock: a claim reopens FAILED rows only.
THEOREM RecoveryRowsExplained == RecoverySpec => []RowsExplained
<1>1. RecoveryTypeOK /\ RowsExplained /\ [RecoveryNext]_allVars => RowsExplained'
  <2> SUFFICES ASSUME RecoveryTypeOK, RowsExplained, [RecoveryNext]_allVars PROVE RowsExplained'
    OBVIOUS
  <2>1. TypeOK
    BY DEF RecoveryTypeOK
  <2>2. CASE [Next]_vars
    BY <2>1, <2>2, RowsStep
  <2>3. CASE UNCHANGED rowVars
    BY <2>3 DEF RowsExplained
  <2>4. CASE UNCHANGED added /\ line' = [i \in Row |-> IF line[i] = "FAILED" THEN "VALID" ELSE line[i]]
    BY <2>1, <2>4 DEF RowsExplained, TypeOK
  <2> QED
    BY <2>2, <2>3, <2>4, Steps, RecoveryRows
<1>2. RecoveryInit => RowsExplained
  BY RowsInit DEF RecoveryInit
<1> QED
  BY <1>1, <1>2, RecoveryTypeCorrect, PTL DEF RecoverySpec

\* No replay makes the writer add a row that has reached the stock: under
\* recovery as without it, only a transaction of confirm can.
THEOREM RecoveryWriterAddsOnce == RecoverySpec => WriterAddsOnce
<1> DEFINE Again(i) == added[i] > 0 /\ added'[i] > added[i]
           Local == \E r \in Request : step[r] = "tx" /\ step'[r] = "idle"
<1>1. ASSUME TypeOK, RowsExplained, [RecoveryNext]_allVars, NEW i \in Row, Again(i)
      PROVE  Local
  <2>1. CASE RecoveryStep
    BY <1>1, <2>1, RecoveryRows DEF TypeOK
  <2>2. CASE [Next]_vars
    BY <1>1, <2>2, AddsAgain
  <2> QED
    BY <1>1, <2>1, <2>2, Steps
<1>2. RecoveryTypeOK /\ RowsExplained /\ [RecoveryNext]_allVars
        => [\A i \in Row : Again(i) => Local]_vars
  BY <1>1 DEF RecoveryTypeOK
<1> QED
  BY <1>2, RecoveryTypeCorrect, RecoveryRowsExplained, PTL DEF RecoverySpec, WriterAddsOnce

-----------------------------------------------------------------------------
(* The number of replays. *)

\* The replays carry different numbers of the range, because a name that is
\* taken is refused.
Numbered ==
  /\ \A e \in Replays : Started(e) => number[e] \in 1 .. MaxReplays
  /\ \A e, f \in Replays : Started(e) /\ Started(f) /\ number[e] = number[f] => e = f
  /\ \A k \in Key : going[k] = "start" => items[k].count \in 1 .. MaxReplays

LEMMA NumberedInit == RecoveryInit => Numbered
  BY DEF RecoveryInit, Numbered, Started, Replays

\* Steps that start nothing keep every count, or give an item that did not
\* exist its count 0.
LEMMA NumberedKept ==
  ASSUME OwnTypes, Numbered, UNCHANGED <<source, number>>,
         \A k \in Key : going'[k] = "start" => going[k] = "start",
         \A k \in Key : items'[k].count = items[k].count \/ items[k] = NoItem
  PROVE  Numbered'
  BY DEF OwnTypes, Numbered, Started, Replays

LEMMA NumberedStep ==
  ASSUME OwnTypes, Numbered, RecoveryStep
  PROVE  Numbered'
<1> USE RecoveryAssumption DEF ItemStatus, Key, Mark, NewItem
<1>1. ASSUME NEW e \in Exec, ParametersFail(e) \/ FailJob(e) \/ Redelivered(e) \/ EventLost(e)
      PROVE  Numbered'
  BY <1>1, NumberedKept DEF ParametersFail, FailJob, Redelivered, EventLost
<1>2. ASSUME NEW e \in Exec, TellSuccess(e) \/ TellFailure(e) \/ OpenItem(e) PROVE Numbered'
  <2>1. UNCHANGED <<going, source, number>>
    BY <1>2 DEF TellSuccess, TellFailure, OpenItem
  <2>2. \A k \in Key : items'[k].count = items[k].count \/ items[k] = NoItem
    <3>1. CASE TellSuccess(e)
      BY <3>1 DEF TellSuccess, OwnTypes
    <3>2. CASE TellFailure(e)
      BY <3>2 DEF TellFailure, OwnTypes
    <3>3. CASE OpenItem(e)
      BY <3>3 DEF OpenItem, OwnTypes
    <3> QED
      BY <1>2, <3>1, <3>2, <3>3
  <2> QED
    BY <2>1, <2>2, NumberedKept
<1>3. CASE Scan
  <2>1. UNCHANGED <<going, source, number>>
    BY <1>3 DEF Scan, ScanReads, ScanOpens, ScanMarks
  <2>2. \A k \in Key : items'[k].count = items[k].count \/ items[k] = NoItem
    BY <1>3 DEF Scan, ScanReads, ScanOpens, ScanMarks, OwnTypes
  <2> QED
    BY <2>1, <2>2, NumberedKept
<1>4. ASSUME NEW k \in Key, ReplayClaims(k) PROVE Numbered'
  BY <1>4 DEF ReplayClaims, CanReplay, OwnTypes, Numbered, Started, Replays
<1>5. ASSUME NEW k \in Key, ReplayStarts(k) PROVE Numbered'
  <2>1. PICK e \in Replays : /\ ~Started(e)
                             /\ source' = [source EXCEPT ![e] = k]
                             /\ number' = [number EXCEPT ![e] = items[k].count]
    BY <1>5 DEF ReplayStarts
  <2>2. /\ UNCHANGED items /\ going[k] = "start"
        /\ \A j \in Key : going'[j] = "start" => going[j] = "start"
    BY <1>5 DEF ReplayStarts, OwnTypes
  <2>3. \A f \in Replays : Started(f) => number[f] # items[k].count
    BY <1>5 DEF ReplayStarts, Taken
  <2>4. \A f \in Replays : f # e => Started(f)' = Started(f) /\ number'[f] = number[f]
    BY <2>1 DEF Started, OwnTypes, Replays
  <2>5. number'[e] = items[k].count /\ items[k].count \in 1 .. MaxReplays
    BY <2>1, <2>2 DEF Numbered, OwnTypes, Replays
  <2> QED
    BY <2>2, <2>3, <2>4, <2>5 DEF Numbered, Replays
<1>6. ASSUME NEW k \in Key,
             ReplayNotes(k) \/ ReplayReopens(k) \/ ReplayRefused(k) \/ ReplayDies(k) \/ DiscardImport(k)
      PROVE  Numbered'
  <2>1. /\ UNCHANGED <<source, number>>
        /\ \A j \in Key : going'[j] = "start" => going[j] = "start"
    BY <1>6 DEF ReplayNotes, ReplayReopens, ReplayRefused, ReplayDies, DiscardImport, OwnTypes
  <2>2. \A j \in Key : items'[j].count = items[j].count
    BY <1>6 DEF ReplayNotes, ReplayReopens, ReplayRefused, ReplayDies, DiscardImport, OwnTypes
  <2> QED
    BY <2>1, <2>2, NumberedKept
<1> QED
  BY <1>1, <1>2, <1>3, <1>4, <1>5, <1>6
  DEF RecoveryStep, Tell, Administrator, DlqReplay, ReplayProceeds

LEMMA NumberedBounds ==
  ASSUME RecoveryTypeOK, Numbered
  PROVE  ReplaysBounded
<1> DEFINE R == {e \in Replays : Started(e)}
           f == [e \in R |-> number[e]]
<1>1. f \in Injection(R, 1 .. MaxReplays)
  BY DEF Numbered, Injection, IsInjective, Replays
<1>2. IsFiniteSet(1 .. MaxReplays) /\ Cardinality(1 .. MaxReplays) = MaxReplays
  BY FS_Interval, RecoveryAssumption
<1>3. Cardinality(R) <= MaxReplays
  BY <1>1, <1>2, FS_Injection
<1> QED
  BY <1>3 DEF ReplaysBounded

\* However many items the failures of a job leave behind, at most MaxReplays of
\* its executions are replays: the names of the executions see to it.
THEOREM ReplaysBoundedAlways == RecoverySpec => []ReplaysBounded
<1>1. RecoveryTypeOK /\ Numbered /\ [RecoveryNext]_allVars => Numbered'
  <2> SUFFICES ASSUME RecoveryTypeOK, Numbered, [RecoveryNext]_allVars PROVE Numbered'
    OBVIOUS
  <2>1. OwnTypes
    BY DEF RecoveryTypeOK, OwnTypes
  <2>2. CASE UNCHANGED <<items, going, source, number>>
    BY <2>1, <2>2, NumberedKept
  <2>3. CASE UNCHANGED allVars \/ ImportStep
    BY <2>2, <2>3 DEF allVars, ImportStep
  <2> QED
    BY <2>1, <2>3, NumberedStep DEF RecoveryNext, RecoveryStep
<1>2. RecoveryTypeOK /\ Numbered => ReplaysBounded
  BY NumberedBounds
<1> QED
  BY NumberedInit, <1>1, <1>2, RecoveryTypeCorrect, PTL DEF RecoverySpec

=============================================================================
