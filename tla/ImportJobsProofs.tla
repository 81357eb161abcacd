-------------------------- MODULE ImportJobsProofs --------------------------
(***************************************************************************)
(* Theorems about ImportJobs, for any number of rows, executions and       *)
(* requests, any chunk size and number of retries, and about the readers   *)
(* of ImportRows, for any sheet.                                           *)
(***************************************************************************)
EXTENDS ImportJobs, ImportRows, SequenceTheorems, SumTheorems, TLAPS

USE DEF jobVars, rowVars, execVars, apiVars

LEMMA TypeInit == Init => TypeOK
<1> SUFFICES ASSUME Init PROVE TypeOK
  OBVIOUS
<1>1. 0 \in Nat /\ 0 \in 0 .. MaxRetries
  BY ImportAssumption
<1> QED
  BY <1>1, Zenon DEF Init, TypeOK, ImportStatus, Token

LEMMA TypeExec ==
  ASSUME TypeOK, NEW e \in Exec, ExecProceeds(e) \/ ExecSuffers(e) \/ StartExecution(e)
  PROVE  TypeOK'
<1> USE ImportAssumption DEF TypeOK, ImportStatus, Token, SetStatus, Goto, Enter, Running, Writing, Committing, Final
<1>1. CASE StartExecution(e)
  BY <1>1 DEF StartExecution
<1>2. CASE ValidatorAccepts(e)
  BY <1>2 DEF ValidatorAccepts, Returns, TaskFails, TaskOf
<1>3. CASE ValidatorRejects(e)
  BY <1>3 DEF ValidatorRejects, Returns, TaskFails, TaskOf
<1>4. CASE ParserBegins(e)
  BY <1>4 DEF ParserBegins
<1>5. CASE ParserStages(e)
  BY <1>5 DEF ParserStages, ChunkOf, Staged
<1>6. CASE ParserEnds(e)
  BY <1>6 DEF ParserEnds, Returns, TaskFails, TaskOf
<1>7. CASE Register(e)
  BY <1>7 DEF Register, TaskFails, TaskOf
<1>8. CASE ApprovalTimesOut(e)
  BY <1>8 DEF ApprovalTimesOut
<1>9. CASE MarkFailed(e)
  BY <1>9 DEF MarkFailed, Returns, TaskFails, TaskOf
<1>10. CASE WriterReads(e)
  BY <1>10 DEF WriterReads
<1>11. CASE WriterCancels(e)
  BY <1>11 DEF WriterCancels, Returns, TaskFails, TaskOf
<1>12. CASE WriterCommits(e)
  BY <1>12 DEF WriterCommits
<1>13. CASE WriterLoads(e)
  BY <1>13 DEF WriterLoads, Valid
<1>14. CASE WriterChunk(e)
  BY <1>14 DEF WriterChunk, ChunkOf, Claimed, Commits, Valid
<1>15. CASE WriterTallies(e)
  BY <1>15 DEF WriterTallies
<1>16. CASE WriterCounts(e)
  BY <1>16 DEF WriterCounts
<1>17. CASE WriterFinishes(e)
  BY <1>17 DEF WriterFinishes, Returns, TaskFails, TaskOf
<1>18. CASE WriterFails(e)
  BY <1>18 DEF WriterFails, TaskFails, TaskOf
<1>19. CASE ParserFails(e)
  BY <1>19 DEF ParserFails, TaskFails, TaskOf
<1>20. CASE ChunkFails(e)
  BY <1>20 DEF ChunkFails, ChunkOf, Claimed, Valid
<1>21. CASE WriterErrs(e)
  BY <1>21 DEF WriterErrs
<1>22. CASE LambdaDies(e)
  BY <1>22 DEF LambdaDies, TaskFails, TaskOf
<1> QED
  BY <1>1, <1>2, <1>3, <1>4, <1>5, <1>6, <1>7, <1>8, <1>9, <1>10, <1>11, <1>12, <1>13, <1>14,
     <1>15, <1>16, <1>17, <1>18, <1>19, <1>20, <1>21, <1>22
  DEF ExecProceeds, ExecSuffers, WriterProceeds

LEMMA TypeApi ==
  ASSUME TypeOK, User \/ \E r \in Request : RequestProceeds(r) \/ RequestDies(r)
  PROVE  TypeOK'
<1> USE ImportAssumption DEF TypeOK, ImportStatus, Token, SetStatus, EndRequest, Proceed
<1>1. CASE GetPresignedPost
  BY <1>1 DEF GetPresignedPost
<1>2. ASSUME NEW r \in Request, Upload(r) PROVE TypeOK'
  BY <1>2 DEF Upload
<1>3. ASSUME NEW r \in Request, Start(r) PROVE TypeOK'
  BY <1>3 DEF Start
<1>4. ASSUME NEW r \in Request, ConfirmReads(r) PROVE TypeOK'
  BY <1>4 DEF ConfirmReads
<1>5. ASSUME NEW r \in Request, CancelReads(r) PROVE TypeOK'
  BY <1>5 DEF CancelReads
<1>6. ASSUME NEW r \in Request, SaveRows(r) PROVE TypeOK'
  BY <1>6 DEF SaveRows, Staged
<1>7. ASSUME NEW r \in Request, ConfirmSends(r) PROVE TypeOK'
  BY <1>7 DEF ConfirmSends, Resume, Enter, Goto, Running, Writing
<1>8. ASSUME NEW r \in Request, CancelSends(r) PROVE TypeOK'
  BY <1>8 DEF CancelSends, Resume, Enter, Goto, Running, Writing
<1>9. ASSUME NEW r \in Request, SendRefused(r) PROVE TypeOK'
  BY <1>9 DEF SendRefused
<1>10. ASSUME NEW r \in Request, ConfirmWrites(r) PROVE TypeOK'
  BY <1>10 DEF ConfirmWrites
<1>11. ASSUME NEW r \in Request, CancelWrites(r) PROVE TypeOK'
  BY <1>11 DEF CancelWrites
<1>12. ASSUME NEW r \in Request, CancelPlain(r) PROVE TypeOK'
  BY <1>12 DEF CancelPlain
<1>13. ASSUME NEW r \in Request, LocalBegins(r) PROVE TypeOK'
  BY <1>13 DEF LocalBegins, Valid
<1>14. ASSUME NEW r \in Request, LocalConflict(r) PROVE TypeOK'
  BY <1>14 DEF LocalConflict
<1>15. ASSUME NEW r \in Request, LocalCommits(r) PROVE TypeOK'
  BY <1>15 DEF LocalCommits, Commits
<1>16. ASSUME NEW r \in Request, LocalAborts(r) PROVE TypeOK'
  BY <1>16 DEF LocalAborts
<1>17. ASSUME NEW r \in Request, RequestDies(r) PROVE TypeOK'
  BY <1>17 DEF RequestDies
<1> QED
  BY <1>1, <1>2, <1>3, <1>4, <1>5, <1>6, <1>7, <1>8, <1>9, <1>10, <1>11, <1>12, <1>13, <1>14,
     <1>15, <1>16, <1>17
  DEF User, RequestProceeds

\* Every reachable state is well typed, in particular no task is retried more
\* often than MaxRetries.
THEOREM TypeCorrect == Spec => []TypeOK
<1>1. TypeOK /\ [Next]_vars => TypeOK'
  <2> SUFFICES ASSUME TypeOK, [Next]_vars PROVE TypeOK'
    OBVIOUS
  <2>1. CASE UNCHANGED vars
    BY <2>1 DEF vars, TypeOK
  <2>2. CASE Next
    BY <2>2, TypeExec, TypeApi DEF Next
  <2> QED
    BY <2>1, <2>2
<1> QED
  BY TypeInit, <1>1, PTL DEF Spec

-----------------------------------------------------------------------------
(* Rows and stock. *)

\* Only six actions touch the staged rows or the stock.
LEMMA RowChanges ==
  ASSUME [Next]_vars
  PROVE  \/ UNCHANGED <<line, added>>
         \/ \E e \in Exec : ParserStages(e) \/ WriterChunk(e) \/ ChunkFails(e)
         \/ \E r \in Request : Start(r) \/ SaveRows(r) \/ LocalCommits(r)
<1>1. CASE UNCHANGED vars
  BY <1>1 DEF vars
<1>2. CASE User
  BY <1>2 DEF User, GetPresignedPost, Upload, ConfirmReads, CancelReads
<1>3. ASSUME NEW r \in Request, RequestProceeds(r) \/ RequestDies(r)
      PROVE UNCHANGED <<line, added>> \/ SaveRows(r) \/ LocalCommits(r)
  BY <1>3 DEF RequestProceeds, ConfirmSends, CancelSends, Resume, SendRefused, ConfirmWrites,
     CancelWrites, CancelPlain, LocalBegins, LocalConflict, LocalAborts, RequestDies
<1>4. ASSUME NEW e \in Exec, StartExecution(e) \/ ExecSuffers(e)
      PROVE UNCHANGED <<line, added>> \/ ChunkFails(e)
  BY <1>4 DEF StartExecution, ExecSuffers, ParserFails, WriterErrs, LambdaDies
<1>5. ASSUME NEW e \in Exec, ExecProceeds(e)
      PROVE UNCHANGED <<line, added>> \/ ParserStages(e) \/ WriterChunk(e)
  BY <1>5 DEF ExecProceeds, ValidatorAccepts, ValidatorRejects, ParserBegins, ParserEnds, Register,
     ApprovalTimesOut, MarkFailed, WriterProceeds, WriterReads, WriterCancels, WriterCommits,
     WriterLoads, WriterTallies, WriterCounts, WriterFinishes, WriterFails
<1> QED
  BY <1>1, <1>2, <1>3, <1>4, <1>5 DEF Next

LEMMA RowsInit == Init => RowsExplained
  BY DEF Init, RowsExplained

LEMMA RowsStep ==
  ASSUME TypeOK, RowsExplained, [Next]_vars
  PROVE  RowsExplained'
<1> USE DEF TypeOK, RowsExplained
<1>1. CASE UNCHANGED <<line, added>>
  BY <1>1
<1>2. ASSUME NEW e \in Exec, ParserStages(e) PROVE RowsExplained'
  BY <1>2 DEF ParserStages, Staged
<1>3. ASSUME NEW e \in Exec, WriterChunk(e) PROVE RowsExplained'
  BY <1>3 DEF WriterChunk, Commits
<1>4. ASSUME NEW e \in Exec, ChunkFails(e) PROVE RowsExplained'
  BY <1>4 DEF ChunkFails, Claimed, Valid
<1>5. ASSUME NEW r \in Request, Start(r) PROVE RowsExplained'
  BY <1>5 DEF Start
<1>6. ASSUME NEW r \in Request, SaveRows(r) PROVE RowsExplained'
  BY <1>6 DEF SaveRows, Staged
<1>7. ASSUME NEW r \in Request, LocalCommits(r) PROVE RowsExplained'
  BY <1>7 DEF LocalCommits, Commits
<1> QED
  BY <1>1, <1>2, <1>3, <1>4, <1>5, <1>6, <1>7, RowChanges

\* Under every fault and every interleaving, the rows marked COMMITTED are
\* exactly those that have reached the stock.
THEOREM RowsExplainedAlways == Spec => []RowsExplained
<1>1. TypeOK /\ RowsExplained /\ [Next]_vars => RowsExplained'
  BY RowsStep
<1> QED
  BY RowsInit, <1>1, TypeCorrect, PTL DEF Spec

\* Only a transaction of confirm adds a row that has been added.
LEMMA AddsAgain ==
  ASSUME TypeOK, RowsExplained, [Next]_vars, NEW i \in Row, added[i] > 0, added'[i] > added[i]
  PROVE  \E r \in Request : step[r] = "tx" /\ step'[r] = "idle"
<1> USE DEF TypeOK
<1>1. CASE UNCHANGED <<line, added>>
  BY <1>1
<1>2. ASSUME NEW e \in Exec, ParserStages(e) \/ ChunkFails(e) PROVE FALSE
  BY <1>2 DEF ParserStages, ChunkFails
<1>3. ASSUME NEW e \in Exec, WriterChunk(e) PROVE FALSE
  <2>1. PICK chunk : Commits(Claimed(chunk))
    BY <1>3 DEF WriterChunk
  <2>2. i \in Claimed(chunk)
    BY <2>1 DEF Commits
  <2>3. line[i] = "VALID" /\ line[i] = "COMMITTED"
    BY <2>2 DEF Claimed, Valid, RowsExplained
  <2> QED
    BY <2>3
<1>4. ASSUME NEW r \in Request, Start(r) \/ SaveRows(r) PROVE FALSE
  BY <1>4 DEF Start, SaveRows
<1>5. ASSUME NEW r \in Request, LocalCommits(r) PROVE \E q \in Request : step[q] = "tx" /\ step'[q] = "idle"
  BY <1>5 DEF LocalCommits, EndRequest, Proceed
<1> QED
  BY <1>1, <1>2, <1>3, <1>4, <1>5, RowChanges

\* No invocation of the writer adds a row that has reached the stock, however
\* many executions and retries there are; the comment at its claim.
THEOREM WriterAddsOnceAlways == Spec => WriterAddsOnce
<1> DEFINE Again(i) == added[i] > 0 /\ added'[i] > added[i]
           Local == \E r \in Request : step[r] = "tx" /\ step'[r] = "idle"
<1>1. ASSUME TypeOK, RowsExplained, [Next]_vars, NEW i \in Row, Again(i)
      PROVE  Local
  BY <1>1, AddsAgain
<1>2. TypeOK /\ RowsExplained /\ [Next]_vars => [\A i \in Row : Again(i) => Local]_vars
  BY <1>1
<1> QED
  BY <1>2, TypeCorrect, RowsExplainedAlways, PTL DEF Spec, WriterAddsOnce

-----------------------------------------------------------------------------
(* One execution, and rows that are not replaced: no row is added twice.    *)

\* At most one execution has been started.
OneExec == \A e, f \in Exec : at[e] # "none" /\ at[f] # "none" => e = f

\* Nothing is posted for a job that does not exist, nothing runs for a job
\* without a post.
Origin ==
  /\ status = "ABSENT" => ~posted
  /\ ~posted => \A e \in Exec : at[e] = "none"

\* While the writer commits, the job is not offered to a confirm.
NotOffered == \A e \in Exec : at[e] \in Committing => status # "PREVIEW_READY"

\* A transaction of confirm is alone: it has the job locked, no writer is at
\* its chunks, and the rows it has read are still VALID.
TxAlone ==
  \A r \in Request : step[r] = "tx" =>
    /\ \A q \in Request : step[q] = "tx" => q = r
    /\ \A e \in Exec : at[e] \notin Committing
    /\ snap[r] \subseteq Valid

OnceInv == OneExec /\ Origin /\ NotOffered /\ TxAlone /\ RowsExplained /\ AddedOnce

\* What is common to the steps of an execution.
LEMMA ExecMoves ==
  ASSUME TypeOK, NEW e \in Exec, ExecProceeds(e) \/ ExecSuffers(e)
  PROVE  /\ at[e] # "none" /\ at'[e] # "none"
         /\ \A f \in Exec : f # e => at'[f] = at[f]
         /\ UNCHANGED <<posted, step, snap>>
         /\ status' = "ABSENT" => status = "ABSENT"
         /\ status' = "PREVIEW_READY" => status = "PREVIEW_READY" \/ at'[e] \notin Committing
         /\ at'[e] \in Committing =>
              \/ at[e] \in Committing /\ status' = status
              \/ Unlocked /\ status' = "COMMITTING"
<1> USE DEF TypeOK, ImportStatus, SetStatus, Goto, Enter, Running, Writing, Committing, Final
<1>1. CASE ValidatorAccepts(e) \/ ValidatorRejects(e)
  BY <1>1 DEF ValidatorAccepts, ValidatorRejects, Returns, TaskFails, TaskOf
<1>2. CASE ParserBegins(e) \/ ParserStages(e)
  BY <1>2 DEF ParserBegins, ParserStages
<1>3. CASE ParserEnds(e) \/ ParserFails(e)
  BY <1>3 DEF ParserEnds, ParserFails, Returns, TaskFails, TaskOf
<1>4. CASE Register(e) \/ ApprovalTimesOut(e)
  BY <1>4 DEF Register, ApprovalTimesOut, TaskFails, TaskOf
<1>5. CASE MarkFailed(e) \/ WriterCancels(e)
  BY <1>5 DEF MarkFailed, WriterCancels, Returns, TaskFails, TaskOf
<1>6. CASE WriterReads(e) \/ WriterCommits(e) \/ WriterLoads(e)
  BY <1>6 DEF WriterReads, WriterCommits, WriterLoads
<1>7. CASE WriterChunk(e) \/ ChunkFails(e) \/ WriterTallies(e) \/ WriterCounts(e)
  BY <1>7 DEF WriterChunk, ChunkFails, WriterTallies, WriterCounts
<1>8. CASE WriterFinishes(e)
  BY <1>8 DEF WriterFinishes, Returns, TaskFails, TaskOf
<1>9. CASE WriterFails(e) \/ WriterErrs(e)
  BY <1>9 DEF WriterFails, WriterErrs, TaskFails, TaskOf
<1>10. CASE LambdaDies(e)
  BY <1>10 DEF LambdaDies, TaskFails, TaskOf
<1> QED
  BY <1>1, <1>2, <1>3, <1>4, <1>5, <1>6, <1>7, <1>8, <1>9, <1>10
  DEF ExecProceeds, ExecSuffers, WriterProceeds

\* What is common to the steps of the API that do not create rows anew.
LEMMA ApiMoves ==
  ASSUME TypeOK, "start" \notin Call,
         User \/ \E r \in Request : RequestProceeds(r) \/ RequestDies(r)
  PROVE  /\ status' = "ABSENT" => status = "ABSENT"
         /\ posted' # posted => status' # "ABSENT" /\ status = "ABSENT"
         /\ status' = "PREVIEW_READY" => status = "PREVIEW_READY" \/ status = "ABSENT"
         /\ \A e \in Exec : at'[e] = at[e] \/ (at[e] = "approval" /\ at'[e] = "write")
         /\ \A q \in Request : step'[q] = "tx" =>
              \/ step[q] = "tx" /\ snap'[q] = snap[q]
              \/ LocalBegins(q)
<1> USE DEF TypeOK, SetStatus, EndRequest, Proceed
<1>1. CASE GetPresignedPost
  BY <1>1 DEF GetPresignedPost
<1>2. ASSUME NEW r \in Request, Upload(r) \/ Start(r) \/ ConfirmReads(r) \/ CancelReads(r)
      PROVE  UNCHANGED <<at, snap, posted>> /\ (status' = status \/ (status = "ABSENT" /\ status' # "ABSENT"))
             /\ \A q \in Request : step'[q] = "tx" => step[q] = "tx"
  BY <1>2 DEF Upload, Start, ConfirmReads, CancelReads
<1>3. ASSUME NEW r \in Request, NEW action, NEW p \in {"confirmed", "cancelled"}, Resume(r, action, p)
      PROVE  /\ UNCHANGED <<status, posted>>
             /\ \A e \in Exec : at'[e] = at[e] \/ (at[e] = "approval" /\ at'[e] = "write")
             /\ \A q \in Request : step'[q] = "tx" => step[q] = "tx" /\ snap'[q] = snap[q]
  <2>1. PICK e \in Exec : at[e] = "approval" /\ at' = [at EXCEPT ![e] = "write"]
    BY <1>3 DEF Resume, Enter, Goto
  <2>2. \/ step' = [step EXCEPT ![r] = p] /\ snap' = snap
        \/ step' = [step EXCEPT ![r] = "idle"] /\ snap' = [snap EXCEPT ![r] = {}]
    BY <1>3 DEF Resume
  <2>3. UNCHANGED <<status, posted>>
    BY <1>3 DEF Resume
  <2> QED
    BY <2>1, <2>2, <2>3
<1>4. ASSUME NEW r \in Request, EndRequest(r), UNCHANGED <<at, posted>>,
             status' \in {status, "COMMITTING", "CANCELLED", "COMPLETED"}
      PROVE  \A q \in Request : step'[q] = "tx" => step[q] = "tx" /\ snap'[q] = snap[q]
  BY <1>4
<1>6. ASSUME NEW r \in Request,
             \/ SaveRows(r) \/ SendRefused(r) \/ ConfirmWrites(r) \/ CancelWrites(r) \/ CancelPlain(r)
             \/ LocalConflict(r) \/ LocalCommits(r) \/ LocalAborts(r) \/ RequestDies(r)
      PROVE  /\ EndRequest(r) /\ UNCHANGED <<at, posted>>
             /\ status' \in {status, "COMMITTING", "CANCELLED", "COMPLETED"}
  BY <1>6 DEF SaveRows, SendRefused, ConfirmWrites, CancelWrites, CancelPlain, LocalConflict,
     LocalCommits, LocalAborts, RequestDies
<1>5. ASSUME NEW r \in Request, LocalBegins(r)
      PROVE  /\ UNCHANGED <<at, posted, status>>
             /\ \A q \in Request : q # r => step'[q] = step[q] /\ snap'[q] = snap[q]
  BY <1>5 DEF LocalBegins
<1>7. ASSUME NEW r \in Request, ConfirmSends(r) \/ CancelSends(r)
      PROVE  Resume(r, "CONFIRM", "confirmed") \/ Resume(r, "CANCEL", "cancelled")
  BY <1>7 DEF ConfirmSends, CancelSends
<1>8. CASE \E r \in Request : ConfirmSends(r) \/ CancelSends(r)
  BY <1>8, <1>3, <1>7
<1>9. CASE \E r \in Request : LocalBegins(r)
  BY <1>9, <1>5
<1>10. CASE User
  BY <1>10, <1>1, <1>2 DEF User
<1>11. ASSUME NEW r \in Request,
              \/ SaveRows(r) \/ SendRefused(r) \/ ConfirmWrites(r) \/ CancelWrites(r) \/ CancelPlain(r)
              \/ LocalConflict(r) \/ LocalCommits(r) \/ LocalAborts(r) \/ RequestDies(r)
       PROVE  /\ UNCHANGED <<at, posted>>
              /\ status' \in {status, "COMMITTING", "CANCELLED", "COMPLETED"}
              /\ \A q \in Request : step'[q] = "tx" => step[q] = "tx" /\ snap'[q] = snap[q]
  BY <1>11, <1>6, <1>4
<1> QED
  BY <1>8, <1>9, <1>10, <1>11 DEF RequestProceeds

LEMMA OnceStarting ==
  ASSUME TypeOK, OnceInv, "duplicate" \notin Fault, NEW e \in Exec, StartExecution(e)
  PROVE  OneExec' /\ Origin' /\ NotOffered' /\ TxAlone'
<1>1. /\ posted /\ at' = [at EXCEPT ![e] = "validate"] /\ \A f \in Exec : at[f] = "none"
      /\ UNCHANGED <<status, posted, line, step, snap>>
  BY DEF StartExecution, Enter, Goto
<1> USE DEF TypeOK, OnceInv
<1>2. OneExec'
  BY <1>1 DEF OneExec
<1>3. Origin'
  BY <1>1 DEF Origin
<1>4. NotOffered'
  BY <1>1 DEF NotOffered, Committing
<1>5. TxAlone'
  BY <1>1 DEF TxAlone, Committing, Valid
<1> QED
  BY <1>2, <1>3, <1>4, <1>5

LEMMA OnceExec ==
  ASSUME TypeOK, OnceInv, NEW e \in Exec, ExecProceeds(e) \/ ExecSuffers(e)
  PROVE  OneExec' /\ Origin' /\ NotOffered' /\ TxAlone'
<1> DEFINE Moves == /\ at[e] # "none" /\ at'[e] # "none"
                    /\ \A f \in Exec : f # e => at'[f] = at[f]
                    /\ UNCHANGED <<posted, step, snap>>
                    /\ status' = "ABSENT" => status = "ABSENT"
                    /\ status' = "PREVIEW_READY" => status = "PREVIEW_READY" \/ at'[e] \notin Committing
                    /\ at'[e] \in Committing =>
                         \/ at[e] \in Committing /\ status' = status
                         \/ Unlocked /\ status' = "COMMITTING"
<1>1. Moves
  BY ExecMoves
<1>2. \A f \in Exec : f # e => at[f] = "none"
  BY <1>1 DEF OnceInv, OneExec
<1>3. OneExec'
  BY <1>1, <1>2 DEF OneExec
<1>4. Origin'
  BY <1>1 DEF OnceInv, Origin
<1>5. NotOffered'
  BY <1>1, <1>2 DEF OnceInv, NotOffered, Committing
<1>6. ASSUME NEW r \in Request, step'[r] = "tx"
      PROVE  /\ \A q \in Request : step'[q] = "tx" => q = r
             /\ \A f \in Exec : at'[f] \notin Committing
             /\ snap'[r] \subseteq Valid'
  <2>1. step[r] = "tx" /\ ~Unlocked
    BY <1>1, <1>6 DEF Unlocked
  <2>2. \A f \in Exec : at[f] \notin Committing
    BY <2>1 DEF OnceInv, TxAlone
  <2>3. \A f \in Exec : at'[f] \notin Committing
    BY <1>1, <2>1, <2>2
  <2>4. UNCHANGED <<line, added>> \/ ParserStages(e)
    BY <2>2 DEF ExecProceeds, ExecSuffers, ValidatorAccepts, ValidatorRejects, ParserBegins, ParserEnds,
       ParserFails, Register, ApprovalTimesOut, MarkFailed, LambdaDies, WriterProceeds, WriterReads,
       WriterCancels, WriterCommits, WriterLoads, WriterChunk, WriterTallies, WriterCounts,
       WriterFinishes, WriterFails, WriterErrs, ChunkFails, Committing
  <2>5. Valid \subseteq Valid'
    BY <2>4 DEF ParserStages, Staged, Valid
  <2> QED
    BY <1>1, <1>6, <2>1, <2>3, <2>5 DEF OnceInv, TxAlone
<1>7. TxAlone'
  BY <1>6 DEF TxAlone
<1> QED
  BY <1>3, <1>4, <1>5, <1>7

LEMMA OnceApi ==
  ASSUME TypeOK, OnceInv, "start" \notin Call,
         User \/ \E r \in Request : RequestProceeds(r) \/ RequestDies(r)
  PROVE  OneExec' /\ Origin' /\ NotOffered' /\ TxAlone'
<1> DEFINE Moves == /\ status' = "ABSENT" => status = "ABSENT"
                    /\ posted' # posted => status' # "ABSENT" /\ status = "ABSENT"
                    /\ status' = "PREVIEW_READY" => status = "PREVIEW_READY" \/ status = "ABSENT"
                    /\ \A e \in Exec : at'[e] = at[e] \/ (at[e] = "approval" /\ at'[e] = "write")
                    /\ \A q \in Request : step'[q] = "tx" =>
                         \/ step[q] = "tx" /\ snap'[q] = snap[q]
                         \/ LocalBegins(q)
<1>1. Moves
  BY ApiMoves
<1>2. \A e \in Exec : at'[e] \in Committing => at[e] \in Committing
  BY <1>1 DEF Committing
<1>3. OneExec'
  BY <1>1 DEF OnceInv, OneExec
<1>4. Origin'
  BY <1>1 DEF OnceInv, Origin, TypeOK
<1>5. NotOffered'
  BY <1>1, <1>2 DEF OnceInv, NotOffered, Origin, Committing
<1>6. ASSUME NEW r \in Request, LocalBegins(r)
      PROVE  TxAlone'
  BY <1>6, <1>2 DEF LocalBegins, Unlocked, Proceed, OnceInv, TxAlone, NotOffered, TypeOK, Valid
<1>7. ASSUME \A r \in Request : ~LocalBegins(r), NEW r \in Request, step'[r] = "tx"
      PROVE  /\ \A q \in Request : step'[q] = "tx" => q = r
             /\ \A f \in Exec : at'[f] \notin Committing
             /\ snap'[r] \subseteq Valid'
  <2>1. step[r] = "tx" /\ snap'[r] = snap[r]
    BY <1>1, <1>7
  <2>2. UNCHANGED <<line, added>> \/ \E q \in Request : SaveRows(q) \/ LocalCommits(q)
    BY <1>7 DEF User, RequestProceeds, GetPresignedPost, Upload, Start, ConfirmReads, CancelReads,
       ConfirmSends, CancelSends, Resume, SendRefused, ConfirmWrites, CancelWrites, CancelPlain,
       LocalConflict, LocalAborts, RequestDies
  <2>3. ASSUME NEW q \in Request, LocalCommits(q) PROVE FALSE
    BY <1>7, <2>1, <2>3 DEF LocalCommits, EndRequest, Proceed, OnceInv, TxAlone, TypeOK
  <2>4. Valid \subseteq Valid'
    BY <2>2, <2>3 DEF SaveRows, Staged, Valid
  <2> QED
    BY <1>1, <1>2, <1>7, <2>1, <2>4 DEF OnceInv, TxAlone
<1>8. CASE \A r \in Request : ~LocalBegins(r)
  BY <1>3, <1>4, <1>5, <1>7, <1>8 DEF TxAlone
<1> QED
  BY <1>3, <1>4, <1>5, <1>6, <1>8

LEMMA OnceRows ==
  ASSUME TypeOK, OnceInv, [Next]_vars
  PROVE  AddedOnce'
<1> USE DEF TypeOK, OnceInv
<1>1. CASE UNCHANGED <<line, added>>
  BY <1>1 DEF AddedOnce
<1>2. ASSUME NEW e \in Exec, ParserStages(e) \/ ChunkFails(e) PROVE AddedOnce'
  BY <1>2 DEF ParserStages, ChunkFails, AddedOnce
<1>3. ASSUME NEW e \in Exec, WriterChunk(e) PROVE AddedOnce'
  <2>1. PICK chunk : Commits(Claimed(chunk))
    BY <1>3 DEF WriterChunk
  <2>2. \A i \in Claimed(chunk) : added[i] = 0
    BY DEF Claimed, Valid, RowsExplained
  <2> QED
    BY <2>1, <2>2 DEF Commits, AddedOnce
<1>4. ASSUME NEW r \in Request, Start(r) \/ SaveRows(r) PROVE AddedOnce'
  BY <1>4 DEF Start, SaveRows, AddedOnce
<1>5. ASSUME NEW r \in Request, LocalCommits(r) PROVE AddedOnce'
  <2>1. Commits(snap[r]) /\ snap[r] \subseteq Valid
    BY <1>5 DEF LocalCommits, TxAlone
  <2>2. \A i \in snap[r] : added[i] = 0
    BY <2>1 DEF Valid, RowsExplained
  <2> QED
    BY <2>1, <2>2 DEF Commits, AddedOnce
<1> QED
  BY <1>1, <1>2, <1>3, <1>4, <1>5, RowChanges

LEMMA OnceInit == Init => OnceInv
BY DEF Init, OnceInv, OneExec, Origin, NotOffered, TxAlone, RowsExplained, AddedOnce, Committing

LEMMA OnceStep ==
  ASSUME TypeOK, OnceInv, "duplicate" \notin Fault, "start" \notin Call, [Next]_vars
  PROVE  OnceInv'
<1>1. RowsExplained' /\ AddedOnce'
  BY RowsStep, OnceRows DEF OnceInv
<1>2. CASE UNCHANGED vars
  BY <1>2 DEF vars, OnceInv, OneExec, Origin, NotOffered, TxAlone, RowsExplained, AddedOnce, Valid
<1>3. CASE Next
  BY <1>1, <1>3, OnceStarting, OnceExec, OnceApi DEF Next, OnceInv
<1> QED
  BY <1>2, <1>3

\* When the upload starts one execution and nobody replaces the rows, no row
\* of an import is added to the stock twice, however often confirms, cancels
\* and retries race each other.
THEOREM AddedOnceAlways ==
  ASSUME "duplicate" \notin Fault, "start" \notin Call
  PROVE  Spec => []AddedOnce
<1>1. TypeOK /\ OnceInv /\ [Next]_vars => OnceInv'
  BY OnceStep
<1>2. OnceInv => AddedOnce
  BY DEF OnceInv
<1> QED
  BY <1>1, <1>2, OnceInit, TypeCorrect, PTL DEF Spec

-----------------------------------------------------------------------------
(* One execution: what its approval was answered with stays the last word.  *)

\* Where an execution is when it no longer works on the job's rows.
Ends == {"markFailed", "succeeded", "failed"}

\* The writer runs for an answer, and one that was told to cancel does not
\* come near its chunks.
Answered ==
  \A e \in Exec :
    /\ at[e] \in Writing => cmd[e] # "none"
    /\ cmd[e] # "none" => at[e] \in Writing \cup Ends
    /\ cmd[e] = "CANCEL" => at[e] \in {"write", "cancelling", "thrown"} \cup Ends

\* From the approval on, confirm cannot take the job for one without a state
\* machine: the token is cleared only together with PREVIEW_READY.
Sealed ==
  \A e \in Exec : at[e] = "approval" \/ cmd[e] # "none" =>
    /\ status = "PREVIEW_READY" => token # NoToken
    /\ \A r \in Request : step[r] # "tx"

SealedInv == OnceInv /\ Answered /\ Sealed

\* What the steps of an execution do to its approval.
LEMMA ExecAsks ==
  ASSUME TypeOK, NEW e \in Exec, ExecProceeds(e) \/ ExecSuffers(e)
  PROVE  /\ UNCHANGED <<cmd, step>>
         /\ at'[e] \in Writing => at[e] \in Writing
         /\ at[e] \in Writing \cup Ends => at'[e] \in Writing \cup Ends
         /\ cmd[e] = "CANCEL" /\ at[e] \in {"write", "cancelling", "thrown"} \cup Ends
              => at'[e] \in {"write", "cancelling", "thrown"} \cup Ends
         /\ Register(e) \/ (at'[e] # "approval" /\ token' = token)
         /\ at[e] \in {"approval"} \cup Writing \cup Ends /\ status' = "PREVIEW_READY"
              => status = "PREVIEW_READY"
<1> USE DEF TypeOK, SetStatus, Goto, Enter, Running, Writing, Committing, Final, Ends
<1>1. CASE ValidatorAccepts(e) \/ ValidatorRejects(e)
  BY <1>1 DEF ValidatorAccepts, ValidatorRejects, Returns, TaskFails, TaskOf
<1>2. CASE ParserBegins(e) \/ ParserStages(e)
  BY <1>2 DEF ParserBegins, ParserStages
<1>3. CASE ParserEnds(e) \/ ParserFails(e)
  BY <1>3 DEF ParserEnds, ParserFails, Returns, TaskFails, TaskOf
<1>4. CASE Register(e) \/ ApprovalTimesOut(e)
  BY <1>4 DEF Register, ApprovalTimesOut, TaskFails, TaskOf
<1>5. CASE MarkFailed(e) \/ WriterCancels(e)
  BY <1>5 DEF MarkFailed, WriterCancels, Returns, TaskFails, TaskOf
<1>6. CASE WriterReads(e) \/ WriterCommits(e) \/ WriterLoads(e)
  BY <1>6 DEF WriterReads, WriterCommits, WriterLoads
<1>7. CASE WriterChunk(e) \/ ChunkFails(e) \/ WriterTallies(e) \/ WriterCounts(e)
  BY <1>7 DEF WriterChunk, ChunkFails, WriterTallies, WriterCounts
<1>8. CASE WriterFinishes(e)
  BY <1>8 DEF WriterFinishes, Returns, TaskFails, TaskOf
<1>9. CASE WriterFails(e) \/ WriterErrs(e)
  BY <1>9 DEF WriterFails, WriterErrs, TaskFails, TaskOf
<1>10. CASE LambdaDies(e)
  BY <1>10 DEF LambdaDies, TaskFails, TaskOf
<1> QED
  BY <1>1, <1>2, <1>3, <1>4, <1>5, <1>6, <1>7, <1>8, <1>9, <1>10
  DEF ExecProceeds, ExecSuffers, WriterProceeds

LEMMA SealedExec ==
  ASSUME TypeOK, SealedInv, NEW e \in Exec, ExecProceeds(e) \/ ExecSuffers(e)
  PROVE  Answered' /\ Sealed'
<1> DEFINE Asks == /\ UNCHANGED <<cmd, step>>
                   /\ at'[e] \in Writing => at[e] \in Writing
                   /\ at[e] \in Writing \cup Ends => at'[e] \in Writing \cup Ends
                   /\ cmd[e] = "CANCEL" /\ at[e] \in {"write", "cancelling", "thrown"} \cup Ends
                        => at'[e] \in {"write", "cancelling", "thrown"} \cup Ends
                   /\ Register(e) \/ (at'[e] # "approval" /\ token' = token)
                   /\ at[e] \in {"approval"} \cup Writing \cup Ends /\ status' = "PREVIEW_READY"
                        => status = "PREVIEW_READY"
<1>1. Asks
  BY ExecAsks
<1>2. /\ at[e] # "none"
      /\ \A f \in Exec : f # e => at'[f] = at[f] /\ at[f] = "none"
  BY ExecMoves DEF SealedInv, OnceInv, OneExec
<1>3. \A f \in Exec : f # e => cmd[f] = "none"
  BY <1>2 DEF SealedInv, Answered, Writing, Ends, Committing, Final
<1>4. Answered'
  BY <1>1, <1>2 DEF SealedInv, Answered
<1>5. CASE Register(e)
  <2>1. token' # NoToken /\ \A r \in Request : step'[r] # "tx"
    BY <1>5, ImportAssumption DEF Register, SetStatus, Unlocked, TypeOK
  <2> QED
    BY <1>4, <2>1 DEF Sealed
<1>6. CASE ~Register(e)
  BY <1>1, <1>2, <1>3, <1>6 DEF SealedInv, Sealed, Answered
<1> QED
  BY <1>4, <1>5, <1>6

\* What the steps of the API do to it.
LEMMA ApiAsks ==
  ASSUME TypeOK, "start" \notin Call,
         User \/ \E r \in Request : RequestProceeds(r) \/ RequestDies(r)
  PROVE  /\ \A f \in Exec : \/ at'[f] = at[f] /\ cmd'[f] = cmd[f]
                            \/ at[f] = "approval" /\ at'[f] = "write" /\ cmd'[f] # "none"
         /\ token' = token \/ status' # "PREVIEW_READY"
         /\ \A q \in Request : step'[q] = "tx" => step[q] = "tx" \/ LocalBegins(q)
<1> USE DEF TypeOK
<1>1. \A q \in Request : step'[q] = "tx" => step[q] = "tx" \/ LocalBegins(q)
  BY ApiMoves
<1>2. CASE User
  BY <1>1, <1>2 DEF User, GetPresignedPost, Upload, Start, ConfirmReads, CancelReads
<1>3. ASSUME NEW r \in Request, ConfirmSends(r) \/ CancelSends(r)
      PROVE  /\ \A f \in Exec : \/ at'[f] = at[f] /\ cmd'[f] = cmd[f]
                                \/ at[f] = "approval" /\ at'[f] = "write" /\ cmd'[f] # "none"
             /\ token' = token
  <2>1. PICK action \in {"CONFIRM", "CANCEL"}, p \in {"confirmed", "cancelled"} : Resume(r, action, p)
    BY <1>3 DEF ConfirmSends, CancelSends
  <2>2. PICK e \in Exec : /\ at[e] = "approval" /\ at' = [at EXCEPT ![e] = "write"]
                          /\ cmd' = [cmd EXCEPT ![e] = action]
    BY <2>1 DEF Resume, Enter, Goto
  <2> QED
    BY <2>1, <2>2 DEF Resume
<1>4. ASSUME NEW r \in Request,
             \/ SaveRows(r) \/ SendRefused(r) \/ ConfirmWrites(r) \/ CancelWrites(r) \/ CancelPlain(r)
             \/ LocalBegins(r) \/ LocalConflict(r) \/ LocalCommits(r) \/ LocalAborts(r) \/ RequestDies(r)
      PROVE  UNCHANGED <<at, cmd>> /\ (token' = token \/ status' # "PREVIEW_READY")
  BY <1>4 DEF SaveRows, SendRefused, ConfirmWrites, CancelWrites, CancelPlain, LocalBegins,
     LocalConflict, LocalCommits, LocalAborts, RequestDies, SetStatus
<1> QED
  BY <1>1, <1>2, <1>3, <1>4 DEF RequestProceeds

LEMMA SealedApi ==
  ASSUME TypeOK, SealedInv, "start" \notin Call,
         User \/ \E r \in Request : RequestProceeds(r) \/ RequestDies(r)
  PROVE  Answered' /\ Sealed'
<1> DEFINE Asks == /\ \A f \in Exec :
                        \/ at'[f] = at[f] /\ cmd'[f] = cmd[f]
                        \/ at[f] = "approval" /\ at'[f] = "write" /\ cmd'[f] # "none"
                   /\ token' = token \/ status' # "PREVIEW_READY"
                   /\ \A q \in Request : step'[q] = "tx" => step[q] = "tx" \/ LocalBegins(q)
<1>1. Asks
  BY ApiAsks
<1>2. Answered'
  BY <1>1 DEF SealedInv, Answered, Writing
<1>3. ASSUME NEW e \in Exec, at'[e] = "approval" \/ cmd'[e] # "none"
      PROVE  /\ status' = "PREVIEW_READY" => token' # NoToken
             /\ \A r \in Request : step'[r] # "tx"
  <2>1. at[e] = "approval" \/ cmd[e] # "none"
    BY <1>1, <1>3
  <2>2. at[e] # "none"
    BY <2>1 DEF SealedInv, Answered, Writing, Ends, Committing, Final
  <2>3. status # "ABSENT"
    BY <2>2 DEF SealedInv, OnceInv, Origin
  <2>4. status' = "PREVIEW_READY" => status = "PREVIEW_READY"
    BY <2>3, ApiMoves
  <2>5. /\ status = "PREVIEW_READY" => token # NoToken
        /\ \A r \in Request : step[r] # "tx"
    BY <2>1 DEF SealedInv, Sealed
  <2>6. \A r \in Request : ~LocalBegins(r)
    BY <2>5 DEF LocalBegins
  <2> QED
    BY <1>1, <2>4, <2>5, <2>6
<1> QED
  BY <1>2, <1>3 DEF Sealed

LEMMA SealedStep ==
  ASSUME TypeOK, SealedInv, "duplicate" \notin Fault, "start" \notin Call, [Next]_vars
  PROVE  SealedInv'
<1>1. OnceInv'
  BY OnceStep DEF SealedInv
<1>2. ASSUME NEW e \in Exec, StartExecution(e) PROVE Answered' /\ Sealed'
  <2>1. /\ at' = [at EXCEPT ![e] = "validate"] /\ UNCHANGED <<status, token, cmd, step>>
        /\ at[e] = "none"
    BY <1>2 DEF StartExecution, Enter, Goto, jobVars, apiVars
  <2> QED
    BY <2>1 DEF SealedInv, Answered, Sealed, TypeOK, Writing, Ends, Committing, Final
<1>3. CASE UNCHANGED vars
  <2>1. UNCHANGED <<status, token, at, cmd, step>>
    BY <1>3 DEF vars, jobVars, execVars, apiVars
  <2> QED
    BY <1>1, <2>1 DEF SealedInv, Answered, Sealed
<1> QED
  BY <1>1, <1>2, <1>3, SealedExec, SealedApi DEF Next, SealedInv

LEMMA SealedInit == Init => SealedInv
BY OnceInit DEF Init, SealedInv, Answered, Sealed, Writing, Ends, Committing, Final

\* The only steps that add rows to the stock, when no start replaces them.
LEMMA OnlyAdders ==
  ASSUME TypeOK, "start" \notin Call, [Next]_vars, added' # added
  PROVE  \/ \E e \in Exec : WriterChunk(e)
         \/ \E r \in Request : LocalCommits(r)
BY RowChanges DEF ParserStages, ChunkFails, Start, SaveRows

\* A cancel that has reached the state machine stops every addition to the
\* stock, the writer's and a confirm's, provided the upload has started one
\* execution and nobody replaces the rows.
THEOREM CancelHoldsAlways ==
  ASSUME "duplicate" \notin Fault, "start" \notin Call
  PROVE  Spec => CancelHolds
<1> DEFINE Holds == \A e \in Exec : cmd[e] = "CANCEL" => added' = added
<1>1. ASSUME TypeOK, SealedInv, [Next]_vars PROVE Holds
  <2> SUFFICES ASSUME NEW e \in Exec, cmd[e] = "CANCEL", added' # added PROVE FALSE
    OBVIOUS
  <2>1. /\ at[e] \notin Committing \cup {"none"}
        /\ \A r \in Request : step[r] # "tx"
    BY <1>1 DEF SealedInv, Answered, Sealed, Committing, Ends
  <2>2. PICK f \in Exec : WriterChunk(f)
    BY <1>1, <2>1, OnlyAdders DEF LocalCommits
  <2>3. f = e
    BY <1>1, <2>1, <2>2 DEF WriterChunk, SealedInv, OnceInv, OneExec
  <2> QED
    BY <2>1, <2>2, <2>3 DEF WriterChunk, Committing
<1>2. TypeOK /\ SealedInv /\ [Next]_vars => [Holds]_vars
  BY <1>1
<1>3. TypeOK /\ SealedInv /\ [Next]_vars => SealedInv'
  BY SealedStep
<1> QED
  BY <1>2, <1>3, SealedInit, TypeCorrect, PTL DEF Spec, CancelHolds

-----------------------------------------------------------------------------
(* One execution, and rows that come from it: COMPLETED says the truth.     *)

\* The parser stages what it has done with, and a job is offered, or an
\* approval asked for, only when every row is there.
AllStaged ==
  /\ \A e \in Exec :
       /\ at[e] = "stage" => \A i \in Row \ todo[e] : line[i] # "ABSENT"
       /\ at[e] \in {"register", "approval"} \/ cmd[e] # "none" => \A i \in Row : line[i] # "ABSENT"
  /\ status = "PREVIEW_READY" => \A i \in Row : line[i] # "ABSENT"
  /\ \A r \in Request : step[r] # "save"

\* A row fails at the hands of a writer only.
FailedByWriter == (\E i \in Row : line[i] = "FAILED") => \E e \in Exec : cmd[e] # "none"

\* The writer has every VALID row still before it, and a verdict that nothing
\* can make untrue.
Accounted ==
  \A e \in Exec :
    /\ at[e] \in {"chunks", "tally"} => Valid \subseteq todo[e]
    /\ at[e] = "COMPLETED" => \A i \in Row : line[i] = "COMMITTED"

\* What a transaction of confirm has not read is in the stock.
TxTakesAll ==
  \A r \in Request : step[r] = "tx" => \A i \in Row \ snap[r] : line[i] = "COMMITTED"

TruthInv == SealedInv /\ AllStaged /\ FailedByWriter /\ Accounted /\ TxTakesAll /\ CompletedIsTrue

\* Nothing takes a row that is in the stock, or staged, back.
LEMMA RowsStay ==
  ASSUME TypeOK, AllStaged, "start" \notin Call, [Next]_vars
  PROVE  /\ \A i \in Row : line[i] # "ABSENT" => line'[i] # "ABSENT"
         /\ \A i \in Row : line'[i] = "VALID" => line[i] = "VALID" \/ (line[i] = "ABSENT" /\ \E e \in Exec : ParserStages(e))
         /\ \A i \in Row : line[i] = "COMMITTED" => line'[i] = "COMMITTED"
         /\ \A i \in Row : line'[i] = "FAILED" => line[i] = "FAILED" \/ \E e \in Exec : ChunkFails(e)
<1> USE DEF TypeOK
<1>1. CASE UNCHANGED <<line, added>>
  BY <1>1
<1>2. ASSUME NEW e \in Exec, ParserStages(e)
      PROVE  \E c \in SUBSET Row : line' = Staged(c)
  BY <1>2 DEF ParserStages, ChunkOf
<1>3. CASE \E e \in Exec : ParserStages(e)
  BY <1>2, <1>3 DEF Staged
<1>4. CASE \E e \in Exec : WriterChunk(e)
  BY <1>4 DEF WriterChunk, Commits
<1>5. CASE \E e \in Exec : ChunkFails(e)
  <2>1. PICK e \in Exec : ChunkFails(e)
    BY <1>5
  <2>2. PICK chunk : line' = [i \in Row |-> IF i \in Claimed(chunk) THEN "FAILED" ELSE line[i]]
    BY <2>1 DEF ChunkFails
  <2>3. \A i \in Claimed(chunk) : line[i] = "VALID"
    BY DEF Claimed, Valid
  <2> QED
    BY <2>1, <2>2, <2>3
<1>6. CASE \E r \in Request : LocalCommits(r)
  BY <1>6 DEF LocalCommits, Commits
<1>7. CASE \E r \in Request : Start(r) \/ SaveRows(r)
  BY <1>7 DEF Start, SaveRows, AllStaged
<1> QED
  BY <1>1, <1>3, <1>4, <1>5, <1>6, <1>7, RowChanges

\* What an execution's steps do to its list of rows and its verdict.
LEMMA ExecStages ==
  ASSUME TypeOK, NEW e \in Exec, ExecProceeds(e) \/ ExecSuffers(e)
  PROVE  /\ \A f \in Exec : f # e => todo'[f] = todo[f]
         /\ at'[e] = "stage" => ParserBegins(e) \/ ParserStages(e)
         /\ at'[e] \in {"register", "approval"} => at[e] = "register" \/ ParserEnds(e)
         /\ status' = "PREVIEW_READY" =>
              status = "PREVIEW_READY" \/ at[e] = "register" \/ ParserEnds(e)
         /\ at'[e] \in {"chunks", "tally"} =>
              \/ WriterLoads(e) \/ WriterChunk(e) \/ ChunkFails(e)
              \/ at[e] = "tally" /\ todo'[e] = todo[e]
         /\ at'[e] = "COMPLETED" => WriterCounts(e)
         /\ status' = "COMPLETED" => status = "COMPLETED" \/ at[e] = "COMPLETED"
<1> USE DEF TypeOK, SetStatus, Goto, Enter, Running, Writing, Committing, Final
<1>1. CASE ValidatorAccepts(e) \/ ValidatorRejects(e)
  BY <1>1 DEF ValidatorAccepts, ValidatorRejects, Returns, TaskFails, TaskOf
<1>2. CASE ParserBegins(e) \/ ParserStages(e)
  BY <1>2 DEF ParserBegins, ParserStages
<1>3. CASE ParserEnds(e) \/ ParserFails(e)
  BY <1>3 DEF ParserEnds, ParserFails, Returns, TaskFails, TaskOf
<1>4. CASE Register(e) \/ ApprovalTimesOut(e)
  BY <1>4 DEF Register, ApprovalTimesOut, TaskFails, TaskOf
<1>5. CASE MarkFailed(e) \/ WriterCancels(e)
  BY <1>5 DEF MarkFailed, WriterCancels, Returns, TaskFails, TaskOf
<1>6. CASE WriterReads(e) \/ WriterCommits(e) \/ WriterLoads(e)
  BY <1>6 DEF WriterReads, WriterCommits, WriterLoads
<1>7. CASE WriterChunk(e) \/ ChunkFails(e) \/ WriterTallies(e) \/ WriterCounts(e)
  BY <1>7 DEF WriterChunk, ChunkFails, WriterTallies, WriterCounts
<1>8. CASE WriterFinishes(e)
  BY <1>8 DEF WriterFinishes, Returns, TaskFails, TaskOf
<1>9. CASE WriterFails(e) \/ WriterErrs(e)
  BY <1>9 DEF WriterFails, WriterErrs, TaskFails, TaskOf
<1>10. CASE LambdaDies(e)
  BY <1>10 DEF LambdaDies, TaskFails, TaskOf
<1> QED
  BY <1>1, <1>2, <1>3, <1>4, <1>5, <1>6, <1>7, <1>8, <1>9, <1>10
  DEF ExecProceeds, ExecSuffers, WriterProceeds

LEMMA ExecStaged ==
  ASSUME TypeOK, TruthInv, "start" \notin Call,
         NEW e \in Exec, ExecProceeds(e) \/ ExecSuffers(e)
  PROVE  AllStaged'
<1> DEFINE There == \A i \in Row : line[i] # "ABSENT"
<1>1. /\ UNCHANGED <<cmd, step>>
      /\ \A f \in Exec : f # e => at'[f] = at[f] /\ todo'[f] = todo[f]
  BY ExecAsks, ExecMoves, ExecStages
<1>2. \A i \in Row : line[i] # "ABSENT" => line'[i] # "ABSENT"
  BY RowsStay DEF TruthInv, Next
<1>3. There => There'
  BY <1>2
<1>4. ParserEnds(e) \/ at[e] = "register" => There
  BY DEF ParserEnds, TruthInv, AllStaged
<1>5. ASSUME at'[e] = "stage" PROVE \A i \in Row \ todo'[e] : line'[i] # "ABSENT"
  <2>1. CASE ParserBegins(e)
    BY <2>1 DEF ParserBegins, TypeOK
  <2>2. CASE ParserStages(e)
    <3>1. PICK chunk \in SUBSET todo[e] :
            line' = Staged(chunk) /\ todo' = [todo EXCEPT ![e] = @ \ chunk]
      BY <2>2 DEF ParserStages, ChunkOf
    <3>2. \A i \in Row \ todo[e] : line[i] # "ABSENT"
      BY <2>2 DEF ParserStages, TruthInv, AllStaged
    <3> QED
      BY <3>1, <3>2 DEF Staged, TypeOK
  <2> QED
    BY <1>5, <2>1, <2>2, ExecStages
<1>6. at'[e] \in {"register", "approval"} => There'
  BY <1>3, <1>4, ExecStages
<1>7. status' = "PREVIEW_READY" => There'
  BY <1>3, <1>4, ExecStages DEF TruthInv, AllStaged
<1>8. \A f \in Exec : cmd'[f] # "none" => There'
  BY <1>1, <1>3 DEF TruthInv, AllStaged
<1>9. \A f \in Exec : f # e =>
        /\ at'[f] = "stage" => \A i \in Row \ todo'[f] : line'[i] # "ABSENT"
        /\ at'[f] \in {"register", "approval"} => There'
  BY <1>1, <1>2, <1>3 DEF TruthInv, AllStaged
<1>10. \A r \in Request : step'[r] # "save"
  BY <1>1 DEF TruthInv, AllStaged
<1> QED
  BY <1>5, <1>6, <1>7, <1>8, <1>9, <1>10 DEF AllStaged

LEMMA ExecAccounted ==
  ASSUME TypeOK, TruthInv, "start" \notin Call,
         NEW e \in Exec, ExecProceeds(e) \/ ExecSuffers(e)
  PROVE  Accounted'
<1>1. \A f \in Exec : f # e => at'[f] = at[f] /\ todo'[f] = todo[f] /\ at[f] = "none"
  BY ExecMoves, ExecStages DEF TruthInv, SealedInv, OnceInv, OneExec
<1>2. ASSUME at'[e] \in {"chunks", "tally"} PROVE Valid' \subseteq todo'[e]
  <2>1. CASE WriterLoads(e)
    BY <2>1 DEF WriterLoads, Valid, TypeOK
  <2>2. ASSUME NEW chunk, NEW s \in {"COMMITTED", "FAILED"}, Valid \subseteq todo[e],
               line' = [i \in Row |-> IF i \in Claimed(chunk) THEN s ELSE line[i]],
               todo' = [todo EXCEPT ![e] = @ \ chunk]
        PROVE  Valid' \subseteq todo'[e]
    BY <2>2 DEF Valid, Claimed, TypeOK
  <2>3. CASE WriterChunk(e)
    <3>1. Valid \subseteq todo[e]
      BY <2>3 DEF WriterChunk, TruthInv, Accounted
    <3>2. PICK chunk : Commits(Claimed(chunk)) /\ todo' = [todo EXCEPT ![e] = @ \ chunk]
      BY <2>3 DEF WriterChunk
    <3> QED
      BY <2>2, <3>1, <3>2 DEF Commits
  <2>4. CASE ChunkFails(e)
    <3>1. Valid \subseteq todo[e]
      BY <2>4 DEF ChunkFails, TruthInv, Accounted
    <3>2. PICK chunk : /\ line' = [i \in Row |-> IF i \in Claimed(chunk) THEN "FAILED" ELSE line[i]]
                       /\ todo' = [todo EXCEPT ![e] = @ \ chunk]
      BY <2>4 DEF ChunkFails
    <3> QED
      BY <2>2, <3>1, <3>2
  <2>5. CASE at[e] = "tally" /\ todo'[e] = todo[e]
    <3>1. \A i \in Row : line[i] # "ABSENT"
      BY <2>5 DEF TruthInv, SealedInv, Answered, AllStaged, Writing, Committing
    <3>2. \A i \in Row : line'[i] = "VALID" => line[i] = "VALID"
      BY <3>1, RowsStay DEF TruthInv, Next
    <3>3. Valid \subseteq todo[e]
      BY <2>5 DEF TruthInv, Accounted
    <3> QED
      BY <2>5, <3>2, <3>3 DEF Valid
  <2> QED
    BY <1>2, <2>1, <2>3, <2>4, <2>5, ExecStages
<1>3. ASSUME at'[e] = "COMPLETED" PROVE \A i \in Row : line'[i] = "COMMITTED"
  <2>1. WriterCounts(e)
    BY <1>3, ExecStages
  <2>2. Valid = {} /\ \A i \in Row : line[i] # "ABSENT"
    BY <2>1 DEF WriterCounts, TruthInv, SealedInv, Answered, AllStaged, Accounted, Writing, Committing
  <2>3. ~With("FAILED") /\ line' = line
    BY <1>3, <2>1 DEF WriterCounts, Goto, TypeOK
  <2> QED
    BY <2>2, <2>3 DEF With, Valid, TypeOK
<1> QED
  BY <1>1, <1>2, <1>3 DEF Accounted

LEMMA ExecTruth ==
  ASSUME TypeOK, TruthInv, "start" \notin Call,
         NEW e \in Exec, ExecProceeds(e) \/ ExecSuffers(e)
  PROVE  FailedByWriter' /\ TxTakesAll' /\ CompletedIsTrue'
<1>1. UNCHANGED <<cmd, step, snap>>
  BY ExecAsks, ExecMoves
<1>2. /\ \A i \in Row : line[i] = "COMMITTED" => line'[i] = "COMMITTED"
      /\ \A i \in Row : line'[i] = "FAILED" => line[i] = "FAILED" \/ \E f \in Exec : ChunkFails(f)
  BY RowsStay DEF TruthInv, Next
<1>3. \A f \in Exec : ChunkFails(f) => cmd[f] # "none"
  BY DEF ChunkFails, TruthInv, SealedInv, Answered, Writing, Committing
<1>4. FailedByWriter'
  BY <1>1, <1>2, <1>3 DEF TruthInv, FailedByWriter
<1>5. TxTakesAll'
  BY <1>1, <1>2 DEF TruthInv, TxTakesAll
<1>6. CompletedIsTrue'
  BY <1>2, ExecStages DEF TruthInv, Accounted, CompletedIsTrue
<1> QED
  BY <1>4, <1>5, <1>6

\* What the steps of the API do to the rows' story.
LEMMA ApiStages ==
  ASSUME TypeOK, "start" \notin Call, "upload" \notin Call,
         User \/ \E r \in Request : RequestProceeds(r) \/ RequestDies(r)
  PROVE  /\ UNCHANGED todo
         /\ \A q \in Request : step'[q] = "save" => step[q] = "save"
         /\ status' = "PREVIEW_READY" => status = "PREVIEW_READY"
         /\ status' = "COMPLETED" => status = "COMPLETED" \/ \E r \in Request : LocalCommits(r)
<1> USE DEF TypeOK, SetStatus, EndRequest, Proceed
<1>1. CASE User
  BY <1>1 DEF User, GetPresignedPost, Upload, Start, ConfirmReads, CancelReads
<1>2. ASSUME NEW r \in Request, ConfirmSends(r) \/ CancelSends(r)
      PROVE  /\ UNCHANGED <<todo, status>>
             /\ \A q \in Request : step'[q] = "save" => step[q] = "save"
  BY <1>2 DEF ConfirmSends, CancelSends, Resume
<1>3. ASSUME NEW r \in Request,
             \/ SaveRows(r) \/ SendRefused(r) \/ ConfirmWrites(r) \/ CancelWrites(r) \/ CancelPlain(r)
             \/ LocalBegins(r) \/ LocalConflict(r) \/ LocalAborts(r) \/ RequestDies(r)
      PROVE  /\ UNCHANGED todo /\ status' \in {status, "COMMITTING", "CANCELLED"}
             /\ \A q \in Request : step'[q] = "save" => step[q] = "save"
  BY <1>3 DEF SaveRows, SendRefused, ConfirmWrites, CancelWrites, CancelPlain, LocalBegins,
     LocalConflict, LocalAborts, RequestDies
<1>4. ASSUME NEW r \in Request, LocalCommits(r)
      PROVE  /\ UNCHANGED todo /\ status' = "COMPLETED"
             /\ \A q \in Request : step'[q] = "save" => step[q] = "save"
  BY <1>4 DEF LocalCommits
<1> QED
  BY <1>1, <1>2, <1>3, <1>4 DEF RequestProceeds

LEMMA ApiTruth ==
  ASSUME TypeOK, TruthInv, "start" \notin Call, "upload" \notin Call,
         User \/ \E r \in Request : RequestProceeds(r) \/ RequestDies(r)
  PROVE  AllStaged' /\ FailedByWriter' /\ Accounted' /\ TxTakesAll' /\ CompletedIsTrue'
<1> DEFINE There == \A i \in Row : line[i] # "ABSENT"
<1>1. /\ UNCHANGED todo
      /\ \A f \in Exec : \/ at'[f] = at[f] /\ cmd'[f] = cmd[f]
                         \/ at[f] = "approval" /\ at'[f] = "write" /\ cmd'[f] # "none"
  BY ApiAsks, ApiStages
<1>2. /\ There => There'
      /\ There => Valid' \subseteq Valid
      /\ \A i \in Row : line[i] # "ABSENT" => line'[i] # "ABSENT"
      /\ \A i \in Row : line[i] = "COMMITTED" => line'[i] = "COMMITTED"
      /\ \A i \in Row : line'[i] = "FAILED" => line[i] = "FAILED" \/ \E f \in Exec : ChunkFails(f)
  BY RowsStay DEF TruthInv, Next, Valid
<1>3. AllStaged'
  <2>1. status' = "PREVIEW_READY" => There'
    BY <1>2, ApiStages DEF TruthInv, AllStaged
  <2>2. \A r \in Request : step'[r] # "save"
    BY ApiStages DEF TruthInv, AllStaged
  <2>3. \A e \in Exec : /\ at'[e] = "stage" => \A i \in Row \ todo'[e] : line'[i] # "ABSENT"
                        /\ at'[e] \in {"register", "approval"} \/ cmd'[e] # "none" => There'
    BY <1>1, <1>2 DEF TruthInv, AllStaged
  <2> QED
    BY <2>1, <2>2, <2>3 DEF AllStaged
<1>4. FailedByWriter'
  <2>1. \A f \in Exec : ChunkFails(f) => cmd[f] # "none"
    BY DEF ChunkFails, TruthInv, SealedInv, Answered, Writing, Committing
  <2>2. \A f \in Exec : cmd[f] # "none" => cmd'[f] # "none"
    BY <1>1
  <2> QED
    BY <1>2, <2>1, <2>2 DEF TruthInv, FailedByWriter
<1>5. Accounted'
  <2>1. \A e \in Exec : at[e] \in {"chunks", "tally"} => There
    BY DEF TruthInv, SealedInv, Answered, AllStaged, Writing, Committing
  <2> QED
    BY <1>1, <1>2, <2>1 DEF TruthInv, Accounted
<1>6. ASSUME NEW q \in Request, step'[q] = "tx"
      PROVE  \A i \in Row \ snap'[q] : line'[i] = "COMMITTED"
  <2>1. CASE step[q] = "tx" /\ snap'[q] = snap[q]
    BY <1>2, <2>1 DEF TruthInv, TxTakesAll
  <2>2. CASE LocalBegins(q)
    <3>1. \A e \in Exec : cmd[e] = "none"
      BY <2>2 DEF LocalBegins, TruthInv, SealedInv, Sealed
    <3>2. \A i \in Row : line[i] \notin {"FAILED", "ABSENT"}
      BY <2>2, <3>1 DEF LocalBegins, TruthInv, FailedByWriter, AllStaged
    <3>3. snap'[q] = Valid /\ line' = line
      BY <2>2 DEF LocalBegins, TypeOK
    <3> QED
      BY <3>2, <3>3 DEF Valid, TypeOK
  <2> QED
    BY <1>6, <2>1, <2>2, ApiMoves
<1>7. ASSUME NEW r \in Request, LocalCommits(r)
      PROVE  \A i \in Row : line'[i] = "COMMITTED"
  BY <1>7 DEF LocalCommits, Commits, TruthInv, TxTakesAll
<1>8. CompletedIsTrue'
  BY <1>2, <1>7, ApiStages DEF TruthInv, CompletedIsTrue
<1> QED
  BY <1>3, <1>4, <1>5, <1>6, <1>8 DEF TxTakesAll

LEMMA TruthStep ==
  ASSUME TypeOK, TruthInv, "duplicate" \notin Fault, "start" \notin Call, "upload" \notin Call,
         [Next]_vars
  PROVE  TruthInv'
<1>1. SealedInv'
  BY SealedStep DEF TruthInv
<1> DEFINE Rest == AllStaged /\ FailedByWriter /\ Accounted /\ TxTakesAll /\ CompletedIsTrue
<1>2. ASSUME NEW e \in Exec, StartExecution(e) PROVE Rest'
  <2>1. /\ at' = [at EXCEPT ![e] = "validate"] /\ at[e] = "none"
        /\ UNCHANGED <<status, line, cmd, todo, step, snap>>
    BY <1>2 DEF StartExecution, Enter, Goto, jobVars, rowVars, apiVars
  <2> QED
    BY <2>1 DEF TruthInv, AllStaged, FailedByWriter, Accounted, TxTakesAll, CompletedIsTrue, Valid, TypeOK
<1>3. CASE UNCHANGED vars
  <2>1. UNCHANGED <<status, line, at, cmd, todo, step, snap>>
    BY <1>3 DEF vars, jobVars, rowVars, execVars, apiVars
  <2>2. Rest'
    BY <2>1 DEF TruthInv, AllStaged, FailedByWriter, Accounted, TxTakesAll, CompletedIsTrue, Valid
  <2> QED
    BY <1>1, <2>2 DEF TruthInv
<1>4. ASSUME NEW e \in Exec, ExecProceeds(e) \/ ExecSuffers(e) PROVE Rest'
  BY <1>4, ExecStaged, ExecAccounted, ExecTruth
<1>5. CASE User \/ \E r \in Request : RequestProceeds(r) \/ RequestDies(r)
  BY <1>1, <1>5, ApiTruth DEF TruthInv
<1> QED
  BY <1>1, <1>2, <1>3, <1>4, <1>5 DEF Next, TruthInv

\* A COMPLETED job has every row of its file in the stock, whatever is cut
\* short, retried, confirmed or cancelled meanwhile, when its rows come from
\* one execution.  (What start and upload do to it: README, section 4.)
THEOREM CompletedIsTrueAlways ==
  ASSUME "duplicate" \notin Fault, "start" \notin Call, "upload" \notin Call
  PROVE  Spec => []CompletedIsTrue
<1>1. Init => TruthInv
  BY SealedInit DEF Init, TruthInv, AllStaged, FailedByWriter, Accounted, TxTakesAll, CompletedIsTrue
<1>2. TypeOK /\ TruthInv /\ [Next]_vars => TruthInv'
  BY TruthStep
<1>3. TruthInv => CompletedIsTrue
  BY DEF TruthInv
<1> QED
  BY <1>1, <1>2, <1>3, TypeCorrect, PTL DEF Spec

-----------------------------------------------------------------------------
(* The two readers of a spreadsheet: a row. *)

Headings == [Field -> {"plain", "spaced", "absent"}]
Cells == [Field -> Cell]

LEMMA FieldKinds ==
  /\ Text \cap Numeric = {}
  /\ DOMAIN Choice = {"category", "ddrGeneration", "interface"}
  /\ DOMAIN Choice \cap (Text \cup Numeric) = {}
  /\ "quantity" \in Numeric /\ "quantity" \in Positive /\ "quantity" \in Field
BY DEF Text, Numeric, Positive, Choice, Field

\* What a text or a number is spelled as has the spelling of the schema, or was
\* a text written otherwise.
LEMMA SpelledSame ==
  ASSUME NEW cell \in Plain, cell # Blank,
         cell.kind = "word" => cell.spelling = "schema"
  PROVE  UpperCase(Spelled(cell)) = Spelled(cell)
<1>1. CASE cell.kind = "word"
  <2>1. cell \in [kind : {"word"}, word : STRING, spelling : {"schema", "other"}]
    BY <1>1 DEF Plain, Blank
  <2>2. Spelled(cell) = cell
    BY <1>1 DEF Spelled
  <2>3. [cell EXCEPT !.spelling = "schema"] = cell
    BY <1>1, <2>1
  <2> QED
    BY <1>1, <2>2, <2>3 DEF UpperCase
<1>2. CASE cell.kind # "word"
  <2>1. cell.kind = "number"
    BY <1>2 DEF Plain, Blank
  <2> DEFINE digits == [kind |-> "word", word |-> "digits", halves |-> cell.halves, spelling |-> "schema"]
  <2>2. Spelled(cell) = digits
    BY <2>1 DEF Spelled
  <2>3. [digits EXCEPT !.spelling = "schema"] = digits
    OBVIOUS
  <2> QED
    BY <2>2, <2>3 DEF UpperCase
<1> QED
  BY <1>1, <1>2

\* Outside the known differences the readers make the same of a cell, except
\* that upload makes a missing quantity zero.
LEMMA CellsAgree ==
  ASSUME NEW sheet, NEW header \in Headings, NEW cells \in Cells, sheet.header = header,
         ~Ambiguous(sheet, cells), NEW f \in Field
  PROVE  \/ UploadCell(header, cells, f) = ParserCell(header, cells, f)
         \/ /\ f = "quantity" /\ UploadCell(header, cells, f) = Number(0)
            /\ ParserCell(header, cells, f) = Blank
<1> DEFINE cell == cells[f]
<1>1. /\ header[f] # "spaced" /\ cell.kind # "formula"
      /\ f \notin UploadField => cell = Blank
      /\ f = "interface" /\ cell.kind = "word" => cell.spelling = "schema"
      /\ f \notin Numeric => cell # Number(0)
  BY DEF Ambiguous
<1>2. header[f] \in {"plain", "absent"} /\ cell \in Cell
  BY <1>1 DEF Headings, Cells
<1>3. cell \in Plain /\ CellValue(cell) = cell
  BY <1>1, <1>2 DEF Cell, CellValue
<1>4. CASE header[f] = "absent"
  BY <1>4 DEF UploadCell, ParserCell
<1>5. CASE header[f] = "plain" /\ cell = Blank
  <2>1. ParserCell(header, cells, f) = Blank
    BY <1>5 DEF ParserCell, Falsy
  <2>2. CASE f \notin UploadField
    BY <2>1, <2>2 DEF UploadCell
  <2>3. CASE f \in UploadField
    <3>1. UploadCell(header, cells, f) = IF f = "quantity" THEN Number(0) ELSE Blank
      BY <1>3, <1>5, <2>3, Zenon DEF UploadCell
    <3> QED
      BY <2>1, <3>1
  <2> QED
    BY <2>2, <2>3
<1>6. CASE header[f] = "plain" /\ cell # Blank
  <2>1. f \in UploadField
    BY <1>1, <1>6
  <2>2. CASE f \in Numeric
    BY <1>3, <1>6, <2>1, <2>2 DEF UploadCell, ParserCell
  <2>3. CASE f \notin Numeric
    <3>1. ~Falsy(f, cell)
      BY <1>1, <1>6, <2>3 DEF Falsy
    <3>2. UploadCell(header, cells, f)
            = IF f \in Text THEN Spelled(cell) ELSE UpperCase(Spelled(cell))
      BY <1>3, <1>6, <2>1, <2>3 DEF UploadCell
    <3>3. ParserCell(header, cells, f)
            = IF f \in {"category", "ddrGeneration"} THEN UpperCase(Spelled(cell)) ELSE Spelled(cell)
      BY <1>6, <2>3, <3>1 DEF ParserCell
    <3>4. f \in Text => f \notin {"category", "ddrGeneration"}
      BY FieldKinds
    <3>5. f \notin Text => f \in {"category", "ddrGeneration", "interface"}
      BY <2>3, FieldKinds DEF Field
    <3>6. f = "interface" => UpperCase(Spelled(cell)) = Spelled(cell)
      BY <1>1, <1>3, <1>6, SpelledSame
    <3> QED
      BY <3>2, <3>3, <3>4, <3>5, <3>6
  <2> QED
    BY <2>2, <2>3
<1> QED
  BY <1>2, <1>4, <1>5, <1>6

\* A row without a quantity, or with none in it, does not pass.
LEMMA QuantityNeeded ==
  ASSUME NEW row, Passes(row)
  PROVE  "quantity" \in DOMAIN row /\ row["quantity"] # Number(0)
<1>1. "quantity" \in DOMAIN row /\ Fits("quantity", row["quantity"])
  BY DEF Passes
<1>2. row["quantity"].halves >= 1
  BY <1>1, FieldKinds DEF Fits
<1> QED
  BY <1>1, <1>2 DEF Number

\* Either the readers make the same row of a line or neither row passes.
LEMMA RowsAgree ==
  ASSUME NEW sheet, NEW header \in Headings, NEW cells \in Cells, sheet.header = header,
         ~Ambiguous(sheet, cells)
  PROVE  \/ UploadRow(header, cells) = ParserRow(header, cells)
         \/ ~Passes(UploadRow(header, cells)) /\ ~Passes(ParserRow(header, cells))
<1> DEFINE U(f) == UploadCell(header, cells, f)
           V(f) == ParserCell(header, cells, f)
           up == UploadRow(header, cells)
           parsed == ParserRow(header, cells)
<1>1. up = [f \in {g \in Field : U(g) # Blank} |-> U(f)]
  BY DEF UploadRow, RowOf
<1>2. parsed = [f \in {g \in Field : V(g) # Blank} |-> V(f)]
  BY DEF ParserRow, RowOf
<1>3. ASSUME NEW f \in Field
      PROVE  \/ U(f) = V(f)
             \/ f = "quantity" /\ U(f) = Number(0) /\ V(f) = Blank
  BY CellsAgree
<1> HIDE DEF U, V, up, parsed
<1>4. CASE \A f \in Field : U(f) = V(f)
  <2>1. {g \in Field : U(g) # Blank} = {g \in Field : V(g) # Blank}
    BY <1>4
  <2> QED
    BY <1>1, <1>2, <1>4, <2>1 DEF up, parsed
<1>5. CASE \E f \in Field : U(f) # V(f)
  <2>1. U("quantity") = Number(0) /\ V("quantity") = Blank /\ "quantity" \in Field
    BY <1>3, <1>5
  <2>2. "quantity" \notin DOMAIN parsed
    BY <1>2, <2>1
  <2>3. "quantity" \in DOMAIN up => up["quantity"] = Number(0)
    BY <1>1, <2>1
  <2> QED
    BY <2>2, <2>3, QuantityNeeded DEF up, parsed
<1> QED
  BY <1>4, <1>5

-----------------------------------------------------------------------------
(* The two readers of a spreadsheet: the rows upload takes down. *)

\* it takes down the rows with the numbers in S, the last one last.
Noting(rows, S, it) ==
  it = [s \in SUBSET S |->
          IF s = {} THEN NoNotes ELSE Note(it[s \ {Max(s)}], rows[Max(s)])]
Notes(rows, S) == CHOOSE it : Noting(rows, S, it)

LEMMA FoldIsNoting ==
  ASSUME NEW rows
  PROVE  FoldLeft(Note, NoNotes, rows) = Notes(rows, DOMAIN rows)[DOMAIN rows]
BY DEF FoldLeft, MapThenFoldSet, Notes, Noting

\* The last of some row numbers.
LEMMA LastIn ==
  ASSUME NEW s, IsFiniteSet(s), s # {}, s \subseteq Nat
  PROVE  Max(s) \in s
<1> DEFINE Has == {t \in SUBSET s : t # {} => \E x \in t : \A y \in t : x >= y}
<1>1. ASSUME NEW t \in SUBSET s, \A u \in SUBSET t : u # t => u \in Has
      PROVE  t \in Has
  <2> SUFFICES ASSUME t # {} PROVE \E x \in t : \A y \in t : x >= y
    OBVIOUS
  <2>1. PICK z \in t : TRUE
    OBVIOUS
  <2>2. t \ {z} \in SUBSET t /\ t \ {z} # t
    OBVIOUS
  <2>3. t \ {z} \in Has
    BY <1>1, <2>2
  <2>4. CASE t \ {z} = {}
    BY <2>4
  <2>5. CASE t \ {z} # {}
    <3>1. PICK x \in t \ {z} : \A y \in t \ {z} : x >= y
      BY <2>3, <2>5
    <3>2. x \in Nat /\ z \in Nat /\ \A y \in t : y \in Nat
      OBVIOUS
    <3>3. CASE x >= z
      BY <3>1, <3>3
    <3>4. CASE ~(x >= z)
      <4>1. \A y \in t : z >= y
        BY <3>1, <3>2, <3>4
      <4> QED
        BY <4>1
    <3> QED
      BY <3>3, <3>4
  <2> QED
    BY <2>4, <2>5
<1> HIDE DEF Has
<1>2. s \in Has
  BY <1>1, SubsetInduction
<1> QED
  BY <1>2 DEF Has, Max

LEMMA NotingStep ==
  ASSUME NEW rows, NEW S, NEW it, Noting(rows, S, it)
  PROVE  /\ it[{}] = NoNotes
         /\ \A s \in SUBSET S : s # {} => it[s] = Note(it[s \ {Max(s)}], rows[Max(s)])
<1> HIDE DEF Note, NoNotes, Max
<1> QED
  BY DEF Noting

\* Two ways to take down rows agree on the rows they share.
LEMMA NotingUnique ==
  ASSUME NEW rows, NEW S, NEW T, IsFiniteSet(S), S \subseteq T, T \subseteq Nat,
         NEW a, NEW b, Noting(rows, S, a), Noting(rows, T, b)
  PROVE  a[S] = b[S]
<1>a. \A t \in SUBSET S : t # {} => a[t] = Note(a[t \ {Max(t)}], rows[Max(t)])
  BY DEF Noting
<1>b. \A t \in SUBSET T : t # {} => b[t] = Note(b[t \ {Max(t)}], rows[Max(t)])
  BY DEF Noting
<1> DEFINE Has == {s \in SUBSET S : a[s] = b[s]}
<1>1. ASSUME NEW s \in SUBSET S, \A t \in SUBSET s : t # s => t \in Has
      PROVE  s \in Has
  <2>1. CASE s = {}
    BY <2>1, NotingStep
  <2>2. CASE s # {}
    <3> DEFINE less == s \ {Max(s)}
    <3>1. Max(s) \in s
      BY <2>2, LastIn, FS_Subset
    <3>2. less \in SUBSET s /\ less # s
      BY <3>1
    <3>3. a[less] = b[less]
      BY <1>1, <3>2
    <3>4. s \in SUBSET T
      OBVIOUS
    <3>7. a[s] = Note(a[less], rows[Max(s)]) /\ b[s] = Note(b[less], rows[Max(s)])
      BY <1>a, <1>b, <2>2, <3>4
    <3> QED
      BY <3>3, <3>7
  <2> QED
    BY <2>1, <2>2
<1> HIDE DEF Has
<1>2. S \in Has
  BY <1>1, SubsetInduction
<1> QED
  BY <1>2 DEF Has

\* There is a way to take down any rows.
LEMMA NotingExists ==
  ASSUME NEW rows, NEW S, IsFiniteSet(S), S \subseteq Nat
  PROVE  Noting(rows, S, Notes(rows, S))
<1> DEFINE Has == {s \in SUBSET S : Noting(rows, s, Notes(rows, s))}
<1>1. ASSUME NEW s \in SUBSET S, \A t \in SUBSET s : t # s => t \in Has
      PROVE  s \in Has
  <2> DEFINE last(u) == u \ {Max(u)}
             it == [u \in SUBSET s |-> IF u = {} THEN NoNotes
                      ELSE Note(Notes(rows, last(u))[last(u)], rows[Max(u)])]
  <2>0. ASSUME NEW u \in SUBSET s, u # {}
        PROVE  Max(u) \in u /\ last(u) \in SUBSET s /\ last(u) # s /\ IsFiniteSet(last(u))
    <3>1. IsFiniteSet(u) /\ u \subseteq Nat
      BY FS_Subset
    <3>2. Max(u) \in u
      BY <2>0, <3>1, LastIn
    <3> QED
      BY <3>1, <3>2, FS_Subset
  <2>1. ASSUME NEW t \in SUBSET s, t # s
        PROVE  it[t] = Notes(rows, t)[t]
    <3>0. Noting(rows, t, Notes(rows, t))
      BY <1>1, <2>1
    <3>1. CASE t = {}
      BY <3>0, <3>1, NotingStep
    <3>2. CASE t # {}
      <4>1. last(t) \in SUBSET s /\ last(t) # s /\ last(t) \subseteq t /\ IsFiniteSet(last(t))
        BY <2>0, <3>2
      <4>2. Noting(rows, last(t), Notes(rows, last(t)))
        BY <1>1, <4>1
      <4>3. t \subseteq Nat
        OBVIOUS
      <4>4. Notes(rows, last(t))[last(t)] = Notes(rows, t)[last(t)]
        <5> DEFINE u == last(t)
                   one == Notes(rows, u)
                   other == Notes(rows, t)
        <5>1. /\ IsFiniteSet(u) /\ u \subseteq t /\ t \subseteq Nat
              /\ Noting(rows, u, one) /\ Noting(rows, t, other)
          BY <3>0, <4>1, <4>2, <4>3
        <5> HIDE DEF u, one, other
        <5>2. one[u] = other[u]
          BY <5>1, NotingUnique, ZenonT(40)
        <5> QED
          BY <5>2 DEF u, one, other
      <4>5. Notes(rows, t)[t] = Note(Notes(rows, t)[last(t)], rows[Max(t)])
        BY <3>0, <3>2, NotingStep
      <4>6. it[t] = Note(Notes(rows, last(t))[last(t)], rows[Max(t)])
        BY <3>2
      <4> QED
        BY <4>4, <4>5, <4>6
    <3> QED
      BY <3>1, <3>2
  <2>2. ASSUME NEW u \in SUBSET s, u # {}
        PROVE  it[u] = Note(it[last(u)], rows[Max(u)])
    <3>1. it[last(u)] = Notes(rows, last(u))[last(u)]
      <4> HIDE DEF it
      <4> QED
        BY <2>0, <2>1, <2>2
    <3>2. it[u] = Note(Notes(rows, last(u))[last(u)], rows[Max(u)])
      BY <2>2
    <3> QED
      BY <3>1, <3>2
  <2>3. it[{}] = NoNotes
    OBVIOUS
  <2>4. it = [u \in SUBSET s |-> it[u]]
    OBVIOUS
  <2>5. Noting(rows, s, it)
    <3> HIDE DEF it
    <3> QED
      BY <2>2, <2>3, <2>4 DEF Noting
  <2>6. Noting(rows, s, Notes(rows, s))
    <3> HIDE DEF it
    <3> QED
      BY <2>5 DEF Notes
  <2> QED
    BY <2>6
<1> HIDE DEF Has
<1>2. S \in Has
  BY <1>1, SubsetInduction
<1> QED
  BY <1>2 DEF Has

\* A line counts when its row passes and no earlier row that passes has its sku.
Counts(rows, i) ==
  /\ Passes(rows[i])
  /\ \A j \in 1 .. i - 1 : Passes(rows[j]) => rows[j]["sku"] # rows[i]["sku"]

\* The first n rows are taken down.
Noted(rows, note, n) ==
  /\ note = [seen |-> note.seen, valid |-> note.valid]
  /\ note.seen = {rows[i]["sku"] : i \in {j \in 1 .. n : Passes(rows[j])}}
  /\ note.valid \in Seq(BOOLEAN) /\ Len(note.valid) = n
  /\ \A i \in 1 .. n : note.valid[i] <=> Counts(rows, i)

LEMMA NotedNext ==
  ASSUME NEW rows, NEW note, NEW n \in Nat, Noted(rows, note, n)
  PROVE  Noted(rows, Note(note, rows[n + 1]), n + 1)
<1> DEFINE row == rows[n + 1]
           fresh == Passes(row) /\ row["sku"] \notin note.seen
           next == Note(note, row)
<1>1. /\ note.valid \in Seq(BOOLEAN) /\ Len(note.valid) = n
      /\ note = [seen |-> note.seen, valid |-> note.valid]
      /\ note.seen = {rows[i]["sku"] : i \in {j \in 1 .. n : Passes(rows[j])}}
      /\ \A i \in 1 .. n : note.valid[i] <=> Counts(rows, i)
  BY DEF Noted
<1>2. fresh <=> Counts(rows, n + 1)
  <2>1. row["sku"] \notin note.seen
          <=> \A j \in 1 .. n : Passes(rows[j]) => rows[j]["sku"] # row["sku"]
    BY <1>1
  <2>2. 1 .. (n + 1) - 1 = 1 .. n
    OBVIOUS
  <2> QED
    BY <2>1, <2>2 DEF Counts
<1>3. next = [seen  |-> IF Passes(row) THEN note.seen \cup {row["sku"]} ELSE note.seen,
              valid |-> Append(note.valid, fresh)]
  <2>1. CASE Passes(row)
    <3>1. fresh = (row["sku"] \notin note.seen)
      BY <2>1
    <3> QED
      BY <2>1, <3>1 DEF Note
  <2>2. CASE ~Passes(row)
    <3>1. fresh = FALSE
      BY <2>2
    <3>2. [note EXCEPT !.valid = Append(@, FALSE)]
            = [seen |-> note.seen, valid |-> Append(note.valid, FALSE)]
      <4>1. PICK a, b : note = [seen |-> a, valid |-> b]
        BY <1>1
      <4>2. \A c : [note EXCEPT !.valid = c] = [seen |-> a, valid |-> c]
        BY <4>1
      <4>3. note.seen = a
        BY <4>1
      <4> QED
        BY <4>2, <4>3
    <3> QED
      BY <2>2, <3>1, <3>2 DEF Note
  <2> QED
    BY <2>1, <2>2
<1> HIDE DEF next
<1>4. next = [seen |-> next.seen, valid |-> next.valid]
  BY <1>3
<1>5. next.seen = {rows[i]["sku"] : i \in {j \in 1 .. n + 1 : Passes(rows[j])}}
  <2>1. 1 .. n + 1 = (1 .. n) \cup {n + 1}
    OBVIOUS
  <2>2. next.seen = IF Passes(row) THEN note.seen \cup {row["sku"]} ELSE note.seen
    BY <1>3
  <2>3. CASE Passes(row)
    <3>1. {j \in 1 .. n + 1 : Passes(rows[j])} = {j \in 1 .. n : Passes(rows[j])} \cup {n + 1}
      BY <2>1, <2>3
    <3> QED
      BY <1>1, <2>2, <2>3, <3>1
  <2>4. CASE ~Passes(row)
    <3>1. {j \in 1 .. n + 1 : Passes(rows[j])} = {j \in 1 .. n : Passes(rows[j])}
      BY <2>1, <2>4
    <3> QED
      BY <1>1, <2>2, <2>4, <3>1
  <2> QED
    BY <2>3, <2>4
<1>6. /\ next.valid \in Seq(BOOLEAN) /\ Len(next.valid) = n + 1
      /\ \A i \in 1 .. n : next.valid[i] = note.valid[i]
      /\ next.valid[n + 1] = fresh
  <2>1. fresh \in BOOLEAN
    OBVIOUS
  <2>2. next.valid = Append(note.valid, fresh)
    BY <1>3
  <2> HIDE DEF fresh
  <2> QED
    BY <1>1, <2>1, <2>2, AppendProperties
<1>7. \A i \in 1 .. n + 1 : next.valid[i] <=> Counts(rows, i)
  <2>1. 1 .. n + 1 = (1 .. n) \cup {n + 1}
    OBVIOUS
  <2> HIDE DEF fresh
  <2>2. \A i \in 1 .. n : next.valid[i] <=> Counts(rows, i)
    BY <1>1, <1>6, Zenon
  <2>3. next.valid[n + 1] <=> Counts(rows, n + 1)
    BY <1>2, <1>6, Zenon
  <2> QED
    BY <2>1, <2>2, <2>3
<1> QED
  BY <1>4, <1>5, <1>6, <1>7 DEF Noted, next

\* upload stages as VALID the lines that count.
LEMMA UploadCounts ==
  ASSUME NEW rows, NEW n \in Nat, DOMAIN rows = 1 .. n
  PROVE  Noted(rows, FoldLeft(Note, NoNotes, rows), n)
<1> DEFINE S == 1 .. n
           it == Notes(rows, S)
           Has == {s \in SUBSET S : \A m \in 0 .. n : s = 1 .. m => Noted(rows, it[s], m)}
<1>1. IsFiniteSet(S) /\ S \subseteq Nat
  BY FS_Interval
<1>2. Noting(rows, S, it)
  <2> HIDE DEF S
  <2> QED
    BY <1>1, NotingExists
<1>3. it[{}] = NoNotes /\ \A s \in SUBSET S : s # {} => it[s] = Note(it[s \ {Max(s)}], rows[Max(s)])
  <2> HIDE DEF S, it
  <2> QED
    BY <1>2, NotingStep
<1> HIDE DEF it
<1>4. ASSUME NEW s \in SUBSET S, \A t \in SUBSET s : t # s => t \in Has
      PROVE  s \in Has
  <2> SUFFICES ASSUME NEW m \in 0 .. n, s = 1 .. m PROVE Noted(rows, it[s], m)
    OBVIOUS
  <2>1. CASE m = 0
    <3>1. s = {} /\ it[s] = NoNotes
      BY <1>3, <2>1
    <3>2. Noted(rows, NoNotes, 0)
      <4>1. <<>> \in Seq(BOOLEAN) /\ Len(<<>>) = 0 /\ 1 .. 0 = {}
        OBVIOUS
      <4> QED
        BY <4>1 DEF Noted, NoNotes
    <3> QED
      BY <2>1, <3>1, <3>2
  <2>2. CASE m # 0
    <3>1. m - 1 \in Nat /\ m - 1 \in 0 .. n /\ (m - 1) + 1 = m /\ s # {}
      BY <2>2
    <3>2. Max(s) = m
      <4>1. m \in s /\ \A y \in s : m >= y
        BY <2>2
      <4>2. Max(s) \in s /\ \A y \in s : Max(s) >= y
        BY <4>1 DEF Max
      <4>3. \A y \in s : y \in Nat
        OBVIOUS
      <4> QED
        BY <4>1, <4>2, <4>3
    <3>3. s \ {m} = 1 .. m - 1 /\ s \ {m} \in SUBSET s /\ s \ {m} # s
      BY <2>2
    <3>4. Noted(rows, it[s \ {m}], m - 1)
      BY <1>4, <3>1, <3>3
    <3>5. it[s] = Note(it[s \ {m}], rows[(m - 1) + 1])
      BY <1>3, <3>1, <3>2
    <3> QED
      BY <3>1, <3>4, <3>5, NotedNext
  <2> QED
    BY <2>1, <2>2
<1>5. S \in Has
  <2> HIDE DEF Has, S
  <2> QED
    BY <1>1, <1>4, SubsetInduction
<1>6. Noted(rows, it[S], n)
  BY <1>5
<1> QED
  BY <1>6, FoldIsNoting DEF it

-----------------------------------------------------------------------------
(* The two readers of a spreadsheet: a file. *)

\* Different cells are spelled differently.
LEMMA SpelledApart ==
  ASSUME NEW a \in Plain, NEW b \in Plain, a # Blank, b # Blank, Spelled(a) = Spelled(b)
  PROVE  a = b
<1> DEFINE Texts == [kind : {"word"}, word : STRING, spelling : {"schema", "other"}]
           Numbers == [kind : {"number"}, halves : Int]
           Written(c) == [kind |-> "word", word |-> "digits", halves |-> c.halves, spelling |-> "schema"]
<1>1. a \in Texts \cup Numbers /\ b \in Texts \cup Numbers
  BY DEF Plain
<1>2. ASSUME NEW c \in Texts PROVE Spelled(c) = c
  BY <1>2 DEF Spelled
<1>3. ASSUME NEW c \in Numbers PROVE Spelled(c) = Written(c)
  BY <1>3 DEF Spelled
<1>4. ASSUME NEW c \in Numbers, NEW d \in Numbers, Written(c) = Written(d) PROVE c = d
  <2>1. Written(c).halves = c.halves /\ Written(d).halves = d.halves
    OBVIOUS
  <2>2. c.halves = d.halves
    BY <1>4, <2>1
  <2>3. c = [kind |-> "number", halves |-> c.halves] /\ d = [kind |-> "number", halves |-> d.halves]
    OBVIOUS
  <2> QED
    BY <2>2, <2>3
<1>5. ASSUME NEW c \in Texts, NEW d \in Numbers PROVE c # Written(d)
  <2>1. "halves" \notin DOMAIN c
    OBVIOUS
  <2>2. "halves" \in DOMAIN Written(d)
    OBVIOUS
  <2> QED
    BY <2>1, <2>2
<1> HIDE DEF Texts, Numbers, Written
<1> QED
  BY <1>1, <1>2, <1>3, <1>4, <1>5

\* The sku of a row that passes is what its cell spells.
LEMMA SkuOfCell ==
  ASSUME NEW header \in Headings, NEW cells \in Cells, cells["sku"].kind # "formula",
         Passes(ParserRow(header, cells))
  PROVE  /\ ParserRow(header, cells)["sku"] = Spelled(cells["sku"])
         /\ cells["sku"] \in Plain /\ cells["sku"] # Blank
<1> DEFINE V(f) == ParserCell(header, cells, f)
           given == {f \in Field : V(f) # Blank}
<1>1. ParserRow(header, cells) = [f \in given |-> V(f)]
  BY DEF ParserRow, RowOf
<1>2. "sku" \in given
  BY <1>1 DEF Passes
<1>3. V("sku") # Blank /\ "sku" \in Field /\ ParserRow(header, cells)["sku"] = V("sku")
  BY <1>1, <1>2
<1>4. "sku" \in Text /\ "sku" \notin Numeric /\ "sku" \notin {"category", "ddrGeneration"}
  BY FieldKinds DEF Text
<1>5. header["sku"] = "plain" /\ ~Falsy("sku", cells["sku"]) /\ V("sku") = Spelled(cells["sku"])
  BY <1>3, <1>4 DEF ParserCell
<1>6. cells["sku"] \in Plain
  BY <1>3 DEF Cells, Cell
<1> QED
  BY <1>3, <1>5, <1>6 DEF Falsy

\* Whichever way a file comes in, the same of its lines are VALID with the same
\* data, but for a repeated sku and the known differences: for every file, of any
\* number of lines.  (What upload and import-parser make of a row.)
THEOREM ReadersAgreeAlways == ReadersAgree
<1> SUFFICES ASSUME NEW sheet \in Sheet,
                    \A i \in DOMAIN sheet.lines : ~Ambiguous(sheet, sheet.lines[i]),
                    NEW i \in DOMAIN sheet.lines
             PROVE  /\ UploadValid(sheet)[i] <=>
                         /\ ParserValid(sheet)[i]
                         /\ \A j \in 1 .. i - 1 :
                              ParserValid(sheet)[j] => sheet.lines[j]["sku"] # sheet.lines[i]["sku"]
                    /\ ParserValid(sheet)[i] => UploadRows(sheet)[i] = ParserRows(sheet)[i]
  BY DEF ReadersAgree
<1> DEFINE n == Len(sheet.lines)
           up == UploadRows(sheet)
           parsed == ParserRows(sheet)
<1>1. sheet.header \in Headings /\ sheet.lines \in Seq(Cells)
  BY SheetAssumption DEF Headings, Cells
<1>2. n \in Nat /\ DOMAIN sheet.lines = 1 .. n /\ \A j \in 1 .. n : sheet.lines[j] \in Cells
  BY <1>1
<1>3. DOMAIN up = 1 .. n /\ \A j \in 1 .. n : up[j] = UploadRow(sheet.header, sheet.lines[j])
  BY <1>2 DEF UploadRows
<1>4. DOMAIN parsed = 1 .. n /\ \A j \in 1 .. n : parsed[j] = ParserRow(sheet.header, sheet.lines[j])
  BY <1>2 DEF ParserRows
<1>5. \A j \in 1 .. n : ParserValid(sheet)[j] = Passes(parsed[j])
  BY <1>2 DEF ParserValid
<1>6. Noted(up, FoldLeft(Note, NoNotes, up), n)
  <2> HIDE DEF up, n
  <2> QED
    BY <1>2, <1>3, UploadCounts
<1>7. \A j \in 1 .. n : UploadValid(sheet)[j] <=> Counts(up, j)
  BY <1>6 DEF Noted, UploadValid
<1> HIDE DEF n, up, parsed
<1>8. ASSUME NEW j \in 1 .. n
      PROVE  /\ up[j] = parsed[j] \/ (~Passes(up[j]) /\ ~Passes(parsed[j]))
             /\ sheet.lines[j]["sku"].kind # "formula"
  <2>1. sheet.lines[j] \in Cells /\ ~Ambiguous(sheet, sheet.lines[j])
    BY <1>2
  <2>2. sheet.lines[j]["sku"].kind # "formula"
    BY <2>1 DEF Ambiguous, Field, Text
  <2> QED
    BY <1>1, <1>3, <1>4, <2>1, <2>2, RowsAgree
<1>9. \A j \in 1 .. n : Passes(up[j]) <=> Passes(parsed[j])
  BY <1>8
<1>10. ASSUME NEW j \in 1 .. n, NEW k \in 1 .. n, Passes(parsed[j]), Passes(parsed[k])
       PROVE  up[j]["sku"] = up[k]["sku"] <=> sheet.lines[j]["sku"] = sheet.lines[k]["sku"]
  <2>1. up[j] = parsed[j] /\ up[k] = parsed[k]
    BY <1>8, <1>10
  <2>2. \A l \in {j, k} : /\ parsed[l]["sku"] = Spelled(sheet.lines[l]["sku"])
                          /\ sheet.lines[l]["sku"] \in Plain /\ sheet.lines[l]["sku"] # Blank
    BY <1>1, <1>2, <1>4, <1>8, <1>10, SkuOfCell
  <2> QED
    BY <2>1, <2>2, SpelledApart
<1>11. i \in 1 .. n /\ \A j \in 1 .. i - 1 : j \in 1 .. n
  BY <1>2
<1>12. Counts(up, i) <=> /\ Passes(parsed[i])
                         /\ \A j \in 1 .. i - 1 :
                              Passes(parsed[j]) => sheet.lines[j]["sku"] # sheet.lines[i]["sku"]
  BY <1>9, <1>10, <1>11 DEF Counts
<1>13. ParserValid(sheet)[i] => up[i] = parsed[i]
  BY <1>5, <1>8, <1>11
<1> QED
  BY <1>5, <1>7, <1>11, <1>12, <1>13 DEF up, parsed

=============================================================================
