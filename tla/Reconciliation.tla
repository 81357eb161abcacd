--------------------------- MODULE Reconciliation ---------------------------
(***************************************************************************)
(* The comparison of inventory.quantity with the sum of a row's movements: *)
(* the reconciliation Lambda (scheduled, or invoked by POST run), its      *)
(* local stand-in runSync, and the administrator's resolve, beside the     *)
(* stock transactions of StockContract, whose movements are added up here. *)
(* A run reads the rows at once and adds up the movements of one row after *)
(* the other, so that transactions commit in between.  Every movement has  *)
(* an inventory row (the upserts that create rows and movements commit     *)
(* together, and nothing deletes a row), so orphaned movements are left    *)
(* out, and so is the wording of the alerts.                               *)
(***************************************************************************)
EXTENDS StockContract

CONSTANTS
  OpeningLedger,  \* what the seeded movements of a row add up to
  Run,            \* the invocations that may be in progress at a time
  Kind,           \* subset of {"lambda", "sync", "dry"}
  Admin,          \* the requests to resolve that may be in progress at a time
  MaxIssues, MaxResolves, MaxStops   \* bounds of a run of TLC

ASSUME ReconciliationAssumption ==
  /\ Opening \in [Key -> Int]
  /\ OpeningLedger \in [Key -> Int]
  /\ Kind \subseteq {"lambda", "sync", "dry"}
  /\ MaxIssues \in Nat /\ MaxResolves \in Nat /\ MaxStops \in Nat

IssueId == 1 .. MaxIssues
NoIssue == [status |-> "none"]
Issues  == [status : {"OPEN", "RESOLVED"}, key : Key, difference : Int]

VARIABLES
  ledger,     \* SUM(stock_movements.quantity_change) of each row
  issue,      \* the reconciliation_issues
  alerted,    \* the issues with a RECONCILIATION_ALERT to the administrators
  paid,       \* paid[i]: the RECONCILIATION_ADJUSTMENT movements that refer to i
  run,        \* the invocations
  resolving,  \* the resolve transactions: what they have read
  stops       \* invocations cut short and alerts not written (bounds a run)

reconVars == <<issue, alerted, paid, run, resolving, stops>>
vars == <<onHand, held, transfer, ledger, reconVars>>

IdleRun == [pc |-> "idle"]
NoId == 0
NoIssues == [i \in IssueId |-> NoIssue]

ReconInit ==
  /\ Init
  /\ ledger = OpeningLedger
  /\ issue = NoIssues /\ alerted = {}
  /\ paid = [i \in IssueId |-> <<>>]
  /\ run = [r \in Run |-> IdleRun]
  /\ resolving = [a \in Admin |-> NoIssue]
  /\ stops = 0

-----------------------------------------------------------------------------
(* The stock transactions, with the movements they write. *)

Writes(sum(_)) ==
  /\ ledger' = [k \in Key |-> ledger[k] + sum(k)]
  /\ UNCHANGED reconVars

\* RESERVATION_CREATED.
ReserveWrites(t, body) == Reserve(t, body) /\ Writes(LAMBDA k : Takes(body, k))

\* Mutation: the shipment is not recorded at the source.
CompleteWritesIn(t) ==
  Complete(t) /\ Writes(LAMBDA k : Brings(transfer[t].body, k))

\* TRANSFER_OUT and TRANSFER_IN.
CompleteWrites(t) ==
  Complete(t) /\ Writes(LAMBDA k : Brings(transfer[t].body, k) - Takes(transfer[t].body, k))

\* RESERVATION_RELEASED.
ReleaseWrites(t) == Release(t) /\ Writes(LAMBDA k : - Takes(transfer[t].body, k))

\* ADJUSTMENT; an import's IMPORT_IN changes both sums in the same way.
AdjustWrites(k, change) ==
  Adjust(k, change) /\ Writes(LAMBDA j : IF j = k THEN change ELSE 0)

StockStep ==
  \/ \E t \in TransferId, body \in Request : ReserveWrites(t, body)
  \/ \E t \in TransferId : CompleteWrites(t) \/ ReleaseWrites(t)
  \/ \E k \in Key, change \in Adjustment : AdjustWrites(k, change)

-----------------------------------------------------------------------------
(* A run. *)

Open == {i \in IssueId : issue[i].status = "OPEN"}
Unused == {i \in IssueId : issue[i] = NoIssue}

Becomes(r, now) ==
  /\ run' = [run EXCEPT ![r] = now]
  /\ UNCHANGED <<onHand, held, transfer, ledger, paid, resolving>>

Goes(r, pc) == Becomes(r, [run[r] EXCEPT !.pc = pc])

At(r, pc) == run[r].pc = pc

\* POST run and the schedule: the rows are read in one statement.
RunStarts(r, kind) ==
  /\ At(r, "idle")
  /\ Becomes(r, [pc |-> "sum", kind |-> kind, actual |-> onHand,
                 found |-> {}, id |-> NoId, closing |-> {}])
  /\ UNCHANGED <<issue, alerted, stops>>

\* The rows whose movements have not been added up yet.
Left(r) == DOMAIN run[r].actual

Difference(r, k) == run[r].actual[k] - ledger[k]

\* What the run is dealing with: its rows come in some order of theirs.
Finding(r) == CHOOSE f \in run[r].found : TRUE

\* The movements of one more row are added up.  runSync deals with a mismatch
\* at once, the Lambda when it has seen every row.
RunSums(r, k) ==
  LET found == IF Difference(r, k) = 0 THEN {}
               ELSE {[key |-> k, difference |-> Difference(r, k)]}
  IN
  /\ At(r, "sum") /\ k \in Left(r)
  /\ Becomes(r, [run[r] EXCEPT !.actual = Restrict(@, Left(r) \ {k}), !.found = @ \cup found,
                   !.pc = IF run[r].kind = "sync" /\ found # {} THEN "match" ELSE "sum"])
  /\ UNCHANGED <<issue, alerted, stops>>

\* Nothing is written by a dry run, nor when every row matches: the open
\* issues of earlier runs stay open.
RunEnds(r) ==
  /\ At(r, "sum") /\ Left(r) = {}
  /\ run[r].kind # "lambda" \/ run[r].found = {}
  /\ Becomes(r, IdleRun)
  /\ UNCHANGED <<issue, alerted, stops>>

Matching(r) == {i \in Open : issue[i].key \notin {f.key : f \in run[r].found}}

\* The open issues are read, and those whose row matches are closed by id.
RunReadsOpen(r) ==
  /\ At(r, "sum") /\ Left(r) = {}
  /\ run[r].kind = "lambda" /\ run[r].found # {}
  /\ Becomes(r, [run[r] EXCEPT !.pc = "close", !.closing = Matching(r)])
  /\ UNCHANGED <<issue, alerted, stops>>

Resolved(i) == [issue[i] EXCEPT !.status = "RESOLVED"]

RunCloses(r) ==
  /\ At(r, "close")
  /\ issue' = [i \in IssueId |-> IF i \in run[r].closing THEN Resolved(i) ELSE issue[i]]
  /\ Becomes(r, [run[r] EXCEPT !.pc = "match", !.closing = {}])
  /\ UNCHANGED <<alerted, stops>>

\* Mutation: any issue of the row will do.
SameFindingAny(r) == {i \in IssueId \ Unused : issue[i].key = Finding(r).key}

\* Mutation: only an issue with the same difference counts as the same finding.
SameFindingExact(r) ==
  {i \in Open : issue[i].key = Finding(r).key /\ issue[i].difference = Finding(r).difference}

SameFinding(r) == {i \in Open : issue[i].key = Finding(r).key}

\* findFirst: an open issue of the row, or none.
RunMatches(r) ==
  /\ At(r, "match")
  /\ IF SameFinding(r) = {}
     THEN Becomes(r, [run[r] EXCEPT !.pc = "write", !.id = NoId])
     ELSE \E i \in SameFinding(r) : Becomes(r, [run[r] EXCEPT !.pc = "write", !.id = i])
  /\ UNCHANGED <<issue, alerted, stops>>

\* The issue is updated by id, whatever has become of it, or created.
RunWrites(r) ==
  LET f == Finding(r) IN
  /\ At(r, "write")
  /\ \/ /\ run[r].id # NoId
        /\ issue' = [issue EXCEPT ![run[r].id].difference = f.difference]
        /\ Goes(r, "alert")
     \/ /\ run[r].id = NoId
        /\ \E i \in Unused :
             /\ \A j \in Unused : i <= j
             /\ issue' = [issue EXCEPT ![i] =
                  [status |-> "OPEN", key |-> f.key, difference |-> f.difference]]
             /\ Becomes(r, [run[r] EXCEPT !.pc = "alert", !.id = i])
  /\ UNCHANGED <<alerted, stops>>

\* The administrators are told, whether or not they have been told before.  A
\* notification that cannot be written is logged, and the run goes on.
RunAlerts(r) ==
  /\ At(r, "alert")
  /\ \/ alerted' = alerted \cup {run[r].id} /\ UNCHANGED stops
     \/ stops < MaxStops /\ stops' = stops + 1 /\ UNCHANGED alerted
  /\ LET rest == run[r].found \ {Finding(r)} IN
       IF run[r].kind = "lambda" /\ rest = {} THEN Becomes(r, IdleRun)
       ELSE Becomes(r, [run[r] EXCEPT !.found = rest, !.id = NoId,
                          !.pc = IF run[r].kind = "sync" THEN "sum" ELSE "match"])
  /\ UNCHANGED issue

\* A statement fails or the invocation is cut short; what it has written stays.
RunStops(r) ==
  /\ ~At(r, "idle") /\ stops < MaxStops
  /\ stops' = stops + 1
  /\ Becomes(r, IdleRun)
  /\ UNCHANGED <<issue, alerted>>

-----------------------------------------------------------------------------
(* resolve: the issue is read, and its difference written as a movement. *)

Payments == SumFunction([i \in IssueId |-> Len(paid[i])])

\* Mutation: the status is not looked at.
ResolvableAny == IssueId \ Unused

Resolvable == Open

ResolveReads(a, i) ==
  /\ resolving[a] = NoIssue /\ i \in Resolvable
  /\ Payments < MaxResolves
  /\ resolving' = [resolving EXCEPT ![a] = [id |-> i, difference |-> issue[i].difference]]
  /\ UNCHANGED <<onHand, held, transfer, ledger, issue, alerted, paid, run, stops>>

ResolveCommits(a) ==
  LET i == resolving[a].id
      d == resolving[a].difference
  IN
  /\ resolving[a] # NoIssue
  /\ ledger' = [ledger EXCEPT ![issue[i].key] = @ + d]
  /\ paid' = [paid EXCEPT ![i] = Append(@, d)]
  /\ issue' = [issue EXCEPT ![i] = Resolved(i)]
  /\ resolving' = [resolving EXCEPT ![a] = NoIssue]
  /\ UNCHANGED <<onHand, held, transfer, alerted, run, stops>>

\* The transaction is rolled back, or the connection is lost.
ResolveAborts(a) ==
  /\ resolving[a] # NoIssue
  /\ resolving' = [resolving EXCEPT ![a] = NoIssue]
  /\ UNCHANGED <<onHand, held, transfer, ledger, issue, alerted, paid, run, stops>>

-----------------------------------------------------------------------------
RunProceeds(r) ==
  \/ \E k \in Key : RunSums(r, k)
  \/ RunEnds(r) \/ RunReadsOpen(r) \/ RunCloses(r)
  \/ RunMatches(r) \/ RunWrites(r) \/ RunAlerts(r)

Starts(r) == \E kind \in Kind : RunStarts(r, kind)

ReconNext ==
  \/ StockStep
  \/ \E r \in Run : Starts(r) \/ RunProceeds(r) \/ RunStops(r)
  \/ \E a \in Admin : (\E i \in IssueId : ResolveReads(a, i)) \/ ResolveCommits(a) \/ ResolveAborts(a)

ReconSpec == ReconInit /\ [][ReconNext]_vars

\* Runs proceed, and the schedule starts one every day, dry runs in between
\* notwithstanding.  Nobody is obliged to resolve an issue, and no client to move stock.
ReconFairSpec ==
  /\ ReconSpec
  /\ \A r \in Run :
       /\ SF_vars(\E kind \in Kind \ {"dry"} : RunStarts(r, kind))
       /\ WF_vars(RunProceeds(r))
-----------------------------------------------------------------------------
(* What must hold. *)

Drift(k) == onHand[k] - ledger[k]

\* What was written to resolve the issues of a row.
Paid(k) ==
  SumFunction([i \in {j \in IssueId \ Unused : issue[j].key = k} |-> SumFunction(paid[i])])

Shipping == {t \in TransferId : transfer[t].status \in {"PENDING", "COMPLETED"}}

\* What reconciliation measures, whatever the order of transfers, adjustments,
\* runs and resolutions: the drift the system started with, less what pending
\* and completed transfers reserved (the movements of a completed transfer are
\* RESERVATION_CREATED and TRANSFER_OUT, which cancel out), less what was
\* written to resolve issues.  A transfer is thus a mismatch from its creation,
\* unless it is rejected or cancelled.
DriftExplained ==
  \A k \in Key :
    Drift(k) = Opening[k] - OpeningLedger[k]
                 - SumFunction([t \in Shipping |-> Takes(transfer[t].body, k)]) - Paid(k)

\* A row has at most one open issue, so that a mismatch is not paid for twice,
\* as long as one run at a time goes on: findFirst and create are two steps,
\* with resolutions in between.
OneOpenIssue ==
  \A i, j \in Open : issue[i].key = issue[j].key => i = j

\* One movement at most is written for an issue, although the run that closes
\* issues, the run that updates them and resolve do not wait for each other
\* ("Issue is already RESOLVED"), and an issue that was paid for stays closed.
PaidOnce ==
  \A i \in IssueId : paid[i] # <<>> => Len(paid[i]) = 1 /\ issue[i].status = "RESOLVED"

\* A mismatch that does not go away is brought to the administrators in an open
\* issue, although runs are cut short, fail to write an alert, update issues
\* that were closed meanwhile, or measure while transactions commit.
DriftReported ==
  \A k \in Key :
    Drift(k) # 0 ~> Drift(k) = 0 \/ \E i \in Open \cap alerted : issue[i].key = k

=============================================================================
