------------------------ MODULE ReconciliationProofs ------------------------
(***************************************************************************)
(* Theorems about Reconciliation, for any rows, transfers, issues and      *)
(* stops: with one resolve at a time an issue is paid for once, whatever   *)
(* runs there are; with one run at a time a row has one open issue,        *)
(* whatever is resolved meanwhile; and the drift of a row is explained by  *)
(* its transfers and resolutions, however many of either there are.        *)
(***************************************************************************)
EXTENDS Reconciliation, SequenceTheorems, SumTheorems, TLAPS

USE TablesAssumption, ReconciliationAssumption
USE DEF reconVars

OneAdmin == \A a, b \in Admin : a = b
OneRun   == \A r, q \in Run : r = q

\* The issues and the runs are records with the fields the code reads.
IssueShape ==
  /\ DOMAIN issue = IssueId
  /\ \A i \in IssueId : /\ "status" \in DOMAIN issue[i]
                        /\ issue[i].status = "OPEN" => "key" \in DOMAIN issue[i]

\* What an action of a run, or of the stock, does to the issues.
LEMMA RunIssues ==
  ASSUME IssueShape, NEW r \in Run, RunProceeds(r) \/ Starts(r) \/ RunStops(r)
  PROVE  \/ UNCHANGED issue
         \/ RunCloses(r)
         \/ RunWrites(r)
  BY DEF RunProceeds, Starts, RunStops, RunStarts, RunSums, RunEnds, RunReadsOpen, RunMatches, RunAlerts

LEMMA RunAside ==
  ASSUME NEW r \in Run, RunProceeds(r) \/ Starts(r) \/ RunStops(r)
  PROVE  UNCHANGED <<paid, resolving>>
<1> USE DEF Becomes, Goes
<1>1. CASE RunProceeds(r)
  <2>1. ASSUME NEW k \in Key, RunSums(r, k) PROVE UNCHANGED <<paid, resolving>>
    BY <2>1 DEF RunSums
  <2>2. CASE RunEnds(r) \/ RunReadsOpen(r) \/ RunCloses(r)
    BY <2>2 DEF RunEnds, RunReadsOpen, RunCloses
  <2>3. CASE RunMatches(r)
    BY <2>3 DEF RunMatches
  <2>4. CASE RunWrites(r)
    BY <2>4 DEF RunWrites
  <2>5. CASE RunAlerts(r)
    BY <2>5 DEF RunAlerts
  <2> QED
    BY <1>1, <2>1, <2>2, <2>3, <2>4, <2>5 DEF RunProceeds
<1>2. CASE Starts(r) \/ RunStops(r)
  BY <1>2 DEF Starts, RunStarts, RunStops
<1> QED
  BY <1>1, <1>2

LEMMA StockAside ==
  ASSUME StockStep
  PROVE  UNCHANGED reconVars
  BY DEF StockStep, ReserveWrites, CompleteWrites, ReleaseWrites, AdjustWrites, Writes

LEMMA ShapeInit == ReconInit => IssueShape
  BY DEF ReconInit, IssueShape, NoIssues, NoIssue

LEMMA ClosesShape ==
  ASSUME IssueShape, NEW r \in Run, RunCloses(r)
  PROVE  /\ IssueShape'
         /\ \A i \in IssueId :
              \/ issue'[i] = issue[i]
              \/ issue'[i].status = "RESOLVED"
<1>1. issue' = [i \in IssueId |-> IF i \in run[r].closing THEN Resolved(i) ELSE issue[i]]
  BY DEF RunCloses
<1>2. \A i \in IssueId : Resolved(i).status = "RESOLVED" /\ DOMAIN Resolved(i) = DOMAIN issue[i]
  BY DEF Resolved, IssueShape
<1> QED
  BY <1>1, <1>2 DEF IssueShape

LEMMA WritesShape ==
  ASSUME IssueShape, NEW r \in Run, RunWrites(r)
  PROVE  /\ IssueShape'
         /\ \/ /\ run[r].id # NoId
               /\ \A i \in IssueId : /\ issue'[i].status = issue[i].status
                                     /\ issue[i].status = "OPEN" => issue'[i].key = issue[i].key
            \/ /\ run[r].id = NoId
               /\ \E i \in Unused :
                    /\ issue'[i].status = "OPEN" /\ issue'[i].key = Finding(r).key
                    /\ \A j \in IssueId : j # i => issue'[j] = issue[j]
<1>1. CASE run[r].id # NoId
  <2>1. issue' = [issue EXCEPT ![run[r].id] = [issue[run[r].id] EXCEPT !.difference = Finding(r).difference]]
    BY <1>1 DEF RunWrites
  <2>2. \A i \in IssueId :
          \/ issue'[i] = issue[i]
          \/ issue'[i] = [issue[i] EXCEPT !.difference = Finding(r).difference]
    BY <2>1 DEF IssueShape
  <2> QED
    BY <1>1, <2>1, <2>2 DEF IssueShape
<1>2. CASE run[r].id = NoId
  <2>1. PICK i \in Unused : issue' = [issue EXCEPT ![i] =
               [status |-> "OPEN", key |-> Finding(r).key, difference |-> Finding(r).difference]]
    BY <1>2 DEF RunWrites
  <2>2. i \in IssueId
    BY DEF Unused
  <2> QED
    BY <1>2, <2>1, <2>2 DEF IssueShape
<1> QED
  BY <1>1, <1>2

LEMMA ResolveShape ==
  ASSUME IssueShape, NEW a \in Admin, ResolveCommits(a), resolving[a].id \in IssueId
  PROVE  /\ IssueShape'
         /\ issue'[resolving[a].id].status = "RESOLVED"
         /\ \A i \in IssueId : i # resolving[a].id => issue'[i] = issue[i]
<1>1. issue' = [issue EXCEPT ![resolving[a].id] = Resolved(resolving[a].id)]
  BY DEF ResolveCommits
<1> QED
  BY <1>1 DEF IssueShape, Resolved

-----------------------------------------------------------------------------
(* An issue is paid for once. *)

\* Nobody has paid for what an administrator is about to pay for.
PaidInv ==
  /\ IssueShape
  /\ DOMAIN paid = IssueId
  /\ DOMAIN resolving = Admin
  /\ \A a \in Admin : resolving[a] # NoIssue =>
       resolving[a].id \in IssueId /\ paid[resolving[a].id] = <<>>
  /\ PaidOnce

LEMMA FirstPayment == \A d : Len(Append(<<>>, d)) = 1
<1> TAKE d
<1>1. <<>> \in Seq({d}) /\ Len(<<>>) = 0
  BY EmptySeq
<1> QED
  BY <1>1, AppendProperties

LEMMA PaidInit == ReconInit => PaidInv
  BY ShapeInit DEF ReconInit, PaidInv, PaidOnce

LEMMA PaidStep ==
  ASSUME OneAdmin, PaidInv, [ReconNext]_vars
  PROVE  PaidInv'
<1>1. CASE UNCHANGED reconVars
  BY <1>1 DEF PaidInv, PaidOnce, IssueShape, IssueId, NoIssue
<1>2. ASSUME NEW r \in Run, RunProceeds(r) \/ Starts(r) \/ RunStops(r)
      PROVE  PaidInv'
  <2>1. UNCHANGED <<paid, resolving>> /\ IssueShape
    BY <1>2, RunAside DEF PaidInv
  <2>2. IssueShape' /\ \A i \in IssueId : issue[i].status = "RESOLVED" => issue'[i].status = "RESOLVED"
    <3>1. CASE UNCHANGED issue
      BY <2>1, <3>1 DEF IssueShape
    <3>2. CASE RunCloses(r)
      BY <2>1, <3>2, ClosesShape
    <3>3. CASE RunWrites(r)
      BY <2>1, <3>3, WritesShape DEF Unused, NoIssue
    <3> QED
      BY <1>2, <2>1, <3>1, <3>2, <3>3, RunIssues
  <2> QED
    BY <2>1, <2>2 DEF PaidInv, PaidOnce
<1>3. ASSUME NEW a \in Admin, NEW i \in IssueId, ResolveReads(a, i)
      PROVE  PaidInv'
  <2>1. /\ UNCHANGED <<paid, issue>> /\ issue[i].status = "OPEN"
        /\ resolving' = [resolving EXCEPT ![a] = [id |-> i, difference |-> issue[i].difference]]
    BY <1>3 DEF ResolveReads, Resolvable, Open
  <2>2. paid[i] = <<>>
    BY <2>1 DEF PaidInv, PaidOnce
  <2> QED
    BY <2>1, <2>2 DEF PaidInv, PaidOnce, IssueShape
<1>4. ASSUME NEW a \in Admin, ResolveCommits(a) PROVE PaidInv'
  <2> DEFINE i == resolving[a].id
             d == resolving[a].difference
  <2>1. /\ paid' = [paid EXCEPT ![i] = Append(paid[i], d)]
        /\ resolving' = [resolving EXCEPT ![a] = NoIssue]
    BY <1>4 DEF ResolveCommits
  <2>2. i \in IssueId /\ paid[i] = <<>>
    BY <1>4 DEF ResolveCommits, PaidInv
  <2>3. /\ IssueShape' /\ issue'[i].status = "RESOLVED"
        /\ \A j \in IssueId : j # i => issue'[j] = issue[j]
    BY <1>4, <2>2, ResolveShape DEF PaidInv
  <2>4. \A b \in Admin : resolving'[b] = NoIssue
    BY <2>1 DEF OneAdmin, PaidInv
  <2>5. Len(paid'[i]) = 1 /\ \A j \in IssueId : j # i => paid'[j] = paid[j]
    BY <2>1, <2>2, FirstPayment DEF PaidInv
  <2> QED
    BY <2>1, <2>3, <2>4, <2>5 DEF PaidInv, PaidOnce
<1>5. ASSUME NEW a \in Admin, ResolveAborts(a) PROVE PaidInv'
  BY <1>5 DEF ResolveAborts, PaidInv, PaidOnce, IssueShape
<1> QED
  BY <1>1, <1>2, <1>3, <1>4, <1>5, StockAside DEF ReconNext, vars

\* As long as administrators resolve one issue at a time, an issue is paid for
\* once and stays closed, however many runs measure, close and update issues
\* beside them, and wherever those are cut short.
THEOREM PaidOnceAlways == OneAdmin /\ ReconSpec => []PaidOnce
<1>1. OneAdmin /\ PaidInv /\ [ReconNext]_vars => PaidInv'
  BY PaidStep
<1>2. PaidInv => PaidOnce
  BY DEF PaidInv
<1>3. SUFFICES ASSUME OneAdmin PROVE ReconSpec => []PaidOnce
  OBVIOUS
<1>4. PaidInv /\ [ReconNext]_vars => PaidInv'
  BY <1>1, <1>3
<1> QED
  BY PaidInit, <1>2, <1>4, PTL DEF ReconSpec

-----------------------------------------------------------------------------
(* A row has at most one open issue. *)

RunShape ==
  /\ DOMAIN run = Run
  /\ \A r \in Run :
       /\ "pc" \in DOMAIN run[r]
       /\ run[r].pc # "idle" => {"found", "id"} \subseteq DOMAIN run[r]

\* A run that is about to create an issue is still alone with its finding.
OpenInv ==
  /\ IssueShape /\ RunShape
  /\ DOMAIN resolving = Admin
  /\ \A a \in Admin : resolving[a] # NoIssue => resolving[a].id \in IssueId
  /\ \A r \in Run : At(r, "write") /\ run[r].id = NoId => SameFinding(r) = {}
  /\ OneOpenIssue

LEMMA OpenInit == ReconInit => OpenInv
<1> SUFFICES ASSUME ReconInit PROVE OpenInv
  OBVIOUS
<1>1. IssueShape
  BY ShapeInit
<1>2. \A i \in IssueId : issue[i].status = "none"
  BY DEF ReconInit, NoIssues, NoIssue
<1>3. \A r \in Run : run[r].pc = "idle"
  BY DEF ReconInit, IdleRun
<1> QED
  BY <1>1, <1>2, <1>3 DEF ReconInit, OpenInv, RunShape, OneOpenIssue, Open, At, IdleRun

\* What a step of a run leaves: its record, and where it creates an issue.
LEMMA RunMoves ==
  ASSUME OpenInv, NEW r \in Run, RunProceeds(r) \/ Starts(r) \/ RunStops(r)
  PROVE  /\ RunShape'
         /\ \A q \in Run : q # r => run'[q] = run[q]
         /\ run'[r].pc = "write" => RunMatches(r)
<1> USE DEF OpenInv, RunShape, Becomes, Goes, At
<1>1. ASSUME NEW kind \in Kind, RunStarts(r, kind)
      PROVE  RunShape' /\ run'[r].pc = "sum" /\ \A q \in Run : q # r => run'[q] = run[q]
  BY <1>1 DEF RunStarts
<1>2. ASSUME NEW k \in Key, RunSums(r, k)
      PROVE  RunShape' /\ run'[r].pc \in {"sum", "match"} /\ \A q \in Run : q # r => run'[q] = run[q]
  BY <1>2 DEF RunSums
<1>3. CASE RunEnds(r) \/ RunStops(r)
  BY <1>3 DEF RunEnds, RunStops, IdleRun
<1>4. CASE RunReadsOpen(r) \/ RunCloses(r)
  BY <1>4 DEF RunReadsOpen, RunCloses
<1>5. ASSUME RunMatches(r) PROVE RunShape' /\ \A q \in Run : q # r => run'[q] = run[q]
  BY <1>5 DEF RunMatches
<1>6. CASE RunWrites(r)
  BY <1>6, ZenonT(40) DEF RunWrites
<1>7. CASE RunAlerts(r)
  <2> DEFINE next == [run[r] EXCEPT !.found = run[r].found \ {Finding(r)}, !.id = NoId,
                        !.pc = IF run[r].kind = "sync" THEN "sum" ELSE "match"]
  <2>1. run' = [run EXCEPT ![r] = IdleRun] \/ run' = [run EXCEPT ![r] = next]
    BY <1>7 DEF RunAlerts
  <2>2. DOMAIN next = DOMAIN run[r] /\ next.pc \in {"sum", "match"} /\ {"pc", "found", "id"} \subseteq DOMAIN run[r]
    BY <1>7 DEF RunAlerts
  <2>3. DOMAIN IdleRun = {"pc"} /\ IdleRun.pc = "idle"
    BY DEF IdleRun
  <2> HIDE DEF next
  <2> QED
    BY <2>1, <2>2, <2>3
<1> QED
  BY <1>1, <1>2, <1>3, <1>4, <1>5, <1>6, <1>7 DEF RunProceeds, Starts

LEMMA MatchesAlone ==
  ASSUME OpenInv, NEW r \in Run, RunMatches(r)
  PROVE  UNCHANGED issue /\ (run'[r].id = NoId => SameFinding(r)' = {})
<1>1. UNCHANGED issue
  BY DEF RunMatches
<1>2. CASE SameFinding(r) = {}
  <2>1. run' = [run EXCEPT ![r] = [run[r] EXCEPT !.pc = "write", !.id = NoId]]
    BY <1>2 DEF RunMatches, Becomes
  <2>2. run'[r].found = run[r].found
    BY <2>1 DEF OpenInv, RunShape, RunMatches, At
  <2>3. SameFinding(r)' = SameFinding(r)
    BY <1>1, <2>2 DEF SameFinding, Finding, Open
  <2> QED
    BY <1>1, <1>2, <2>3
<1>3. CASE SameFinding(r) # {}
  <2>1. PICK i \in SameFinding(r) : run' = [run EXCEPT ![r] = [run[r] EXCEPT !.pc = "write", !.id = i]]
    BY <1>3 DEF RunMatches, Becomes
  <2>2. run'[r].id = i
    BY <2>1 DEF OpenInv, RunShape, RunMatches, At
  <2>3. i \in 1 .. MaxIssues
    BY DEF SameFinding, Open, IssueId
  <2> QED
    BY <1>1, <2>2, <2>3, ReconciliationAssumption DEF NoId
<1> QED
  BY <1>2, <1>3

LEMMA OpenStep ==
  ASSUME OneRun, OpenInv, [ReconNext]_vars
  PROVE  OpenInv'
<1>1. CASE UNCHANGED reconVars
  <2>1. \A r \in Run : SameFinding(r)' = SameFinding(r)
    BY <1>1 DEF SameFinding, Finding, Open
  <2> QED
    BY <1>1, <2>1 DEF OpenInv, OneOpenIssue, IssueShape, RunShape, Open, At
<1>2. ASSUME NEW r \in Run, RunProceeds(r) \/ Starts(r) \/ RunStops(r)
      PROVE  OpenInv'
  <2>1. RunShape' /\ UNCHANGED resolving /\ (run'[r].pc = "write" => RunMatches(r))
    BY <1>2, RunMoves, RunAside
  <2>2. IssueShape' /\ OneOpenIssue'
    <3>1. CASE UNCHANGED issue
      BY <3>1 DEF OpenInv, IssueShape, OneOpenIssue, Open
    <3>2. CASE RunCloses(r)
      BY <3>2, ClosesShape DEF OpenInv, OneOpenIssue, Open
    <3>3. CASE RunWrites(r)
      <4>1. CASE run[r].id # NoId
        <5>1. /\ IssueShape'
              /\ \A i \in IssueId : issue'[i].status = issue[i].status
              /\ \A i \in IssueId : issue[i].status = "OPEN" => issue'[i].key = issue[i].key
          BY <3>3, <4>1, WritesShape DEF OpenInv
        <5>2. Open' = Open
          BY <5>1 DEF Open
        <5>3. \A i \in Open : issue'[i].key = issue[i].key
          BY <5>1 DEF Open
        <5> QED
          BY <5>1, <5>2, <5>3 DEF OpenInv, OneOpenIssue
      <4>2. CASE run[r].id = NoId
        <5>1. PICK i \in Unused :
                 /\ IssueShape'
                 /\ issue'[i].status = "OPEN" /\ issue'[i].key = Finding(r).key
                 /\ \A j \in IssueId : j # i => issue'[j] = issue[j]
          BY <3>3, <4>2, WritesShape DEF OpenInv
        <5>2. SameFinding(r) = {}
          BY <3>3, <4>2 DEF OpenInv, RunWrites
        <5>3. \A j \in Open : issue[j].key # Finding(r).key
          BY <5>2 DEF SameFinding
        <5> QED
          BY <5>1, <5>3 DEF OpenInv, OneOpenIssue, Open
      <4> QED
        BY <4>1, <4>2
    <3> QED
      BY <1>2, <3>1, <3>2, <3>3, RunIssues DEF OpenInv
  <2>3. \A q \in Run : At(q, "write")' /\ run'[q].id = NoId => SameFinding(q)' = {}
    BY <2>1, MatchesAlone DEF OneRun, At
  <2> QED
    BY <2>1, <2>2, <2>3 DEF OpenInv
<1>3. ASSUME NEW a \in Admin, UNCHANGED <<issue, run>>,
             \/ \E i \in IssueId : ResolveReads(a, i)
             \/ ResolveAborts(a)
      PROVE  OpenInv'
  <2>1. DOMAIN resolving' = Admin
        /\ \A b \in Admin : resolving'[b] # NoIssue => resolving'[b].id \in IssueId
    BY <1>3 DEF OpenInv, ResolveReads, ResolveAborts
  <2>2. \A r \in Run : SameFinding(r)' = SameFinding(r)
    BY <1>3 DEF SameFinding, Finding, Open
  <2> QED
    BY <1>3, <2>1, <2>2 DEF OpenInv, OneOpenIssue, IssueShape, RunShape, Open, At
<1>4. ASSUME NEW a \in Admin, ResolveCommits(a) PROVE OpenInv'
  <2> DEFINE i == resolving[a].id
  <2>1. UNCHANGED run /\ resolving' = [resolving EXCEPT ![a] = NoIssue]
    BY <1>4 DEF ResolveCommits
  <2>2. i \in IssueId
    BY <1>4 DEF ResolveCommits, OpenInv
  <2>3. /\ IssueShape' /\ issue'[i].status = "RESOLVED"
        /\ \A j \in IssueId : j # i => issue'[j] = issue[j]
    BY <1>4, <2>2, ResolveShape DEF OpenInv
  <2>4. Open' \subseteq Open /\ \A j \in Open' : issue'[j] = issue[j]
    BY <2>3 DEF Open
  <2>5. \A r \in Run : SameFinding(r)' \subseteq SameFinding(r)
    BY <2>1, <2>4 DEF SameFinding, Finding
  <2> QED
    BY <2>1, <2>3, <2>4, <2>5 DEF OpenInv, OneOpenIssue, RunShape, At
<1> QED
  BY <1>1, <1>2, <1>3, <1>4, StockAside DEF ReconNext, vars, ResolveReads, ResolveAborts

\* As long as runs do not overlap, a row has at most one open issue, although
\* a run looks for it and creates it in two steps with resolutions in between.
THEOREM OneOpenIssueAlways == OneRun /\ ReconSpec => []OneOpenIssue
<1>1. OneRun /\ OpenInv /\ [ReconNext]_vars => OpenInv'
  BY OpenStep
<1>2. OpenInv => OneOpenIssue
  BY DEF OpenInv
<1>3. SUFFICES ASSUME OneRun PROVE ReconSpec => []OneOpenIssue
  OBVIOUS
<1>4. OpenInv /\ [ReconNext]_vars => OpenInv'
  BY <1>1, <1>3
<1> QED
  BY OpenInit, <1>2, <1>4, PTL DEF ReconSpec

-----------------------------------------------------------------------------
(* What reconciliation measures. *)

\* The tables of the stock, and its movements, are well typed.
TablesFit ==
  /\ onHand \in [Key -> Int] /\ ledger \in [Key -> Int]
  /\ transfer \in [TransferId -> [status : Status, body : Request \cup {NoBody}]]
  /\ \A t \in TransferId : transfer[t].status # "ABSENT" => transfer[t].body \in Request

\* Only issues that were created have been paid for, or are being paid for.
IssuesFit ==
  /\ issue \in [IssueId -> Issues \cup {NoIssue}]
  /\ paid \in [IssueId -> Seq(Int)]
  /\ \A i \in Unused : paid[i] = <<>>
  /\ DOMAIN resolving = Admin
  /\ \A a \in Admin : resolving[a] # NoIssue =>
       resolving[a].id \in IssueId \ Unused /\ resolving[a].difference \in Int

\* The record of an invocation in progress: dry runs do nothing with what they
\* find, and the others have a finding when they go on to deal with it.
RunFits(now) ==
  /\ {"pc", "kind", "actual", "found", "id", "closing"} \subseteq DOMAIN now
  /\ now.kind \in {"lambda", "sync", "dry"}
  /\ DOMAIN now.actual \subseteq Key
  /\ \A k \in DOMAIN now.actual : now.actual[k] \in Int
  /\ now.found \subseteq [key : Key, difference : Int]
  /\ now.id \in IssueId \cup {NoId}
  /\ now.closing \subseteq IssueId
  /\ now.pc # "sum" => now.kind # "dry" /\ now.found # {}

\* Runs close issues that were created.
RunsFit ==
  /\ DOMAIN run = Run
  /\ \A r \in Run : \/ run[r] = IdleRun
                    \/ RunFits(run[r]) /\ run[r].closing \cap Unused = {}

Fits == TablesFit /\ IssuesFit /\ RunsFit

LEMMA InitFits == ReconInit => Fits
<1> SUFFICES ASSUME ReconInit PROVE Fits
  OBVIOUS
<1>1. TablesFit
  BY DEF ReconInit, Init, TablesFit, Status
<1>2. IssuesFit
  <2>1. issue \in [IssueId -> Issues \cup {NoIssue}]
    BY DEF ReconInit, NoIssues
  <2>2. paid \in [IssueId -> Seq(Int)] /\ \A i \in IssueId : paid[i] = <<>>
    BY EmptySeq DEF ReconInit
  <2>3. DOMAIN resolving = Admin /\ \A a \in Admin : resolving[a] = NoIssue
    BY DEF ReconInit
  <2> QED
    BY <2>1, <2>2, <2>3 DEF IssuesFit, Unused
<1>3. RunsFit
  BY DEF ReconInit, RunsFit
<1> QED
  BY <1>1, <1>2, <1>3 DEF Fits

\* The units of a transfer are a number.
LEMMA TakesType ==
  ASSUME NEW body \in Request, NEW k \in Key
  PROVE  Takes(body, k) \in Int /\ Brings(body, k) \in Int
<1>1. body.items \in Seq(Item)
  BY DEF TransferBody
<1>2. ASSUME NEW c PROVE Units(body.items, c) \in Int
  <2> DEFINE n == Len(body.items)
             counted == [i \in DOMAIN body.items |->
                           IF body.items[i].component = c THEN body.items[i].quantity ELSE 0]
  <2>1. n \in Nat /\ DOMAIN body.items = 1 .. n /\ \A i \in 1 .. n : body.items[i] \in Item
    BY <1>1
  <2>2. IsFiniteSet(1 .. n)
    BY <2>1, FS_Interval
  <2>3. \A i \in 1 .. n : counted[i] \in Int
    BY <2>1 DEF Item
  <2>4. DOMAIN counted = 1 .. n /\ Units(body.items, c) = SumFunction(counted)
    BY <2>1 DEF Units
  <2> HIDE DEF counted, n
  <2>5. SumFunctionOnSet(counted, 1 .. n) \in Int
    BY <2>2, <2>3, SumType
  <2> QED
    BY <2>4, <2>5 DEF SumFunction
<1> QED
  BY <1>2 DEF Takes, Brings

-----------------------------------------------------------------------------
(* The stock transactions. *)

\* What a stock transaction does to the drift of a row and to the transfers.
LEMMA ReserveEffect ==
  ASSUME TablesFit, NEW t \in TransferId, NEW body \in Request, ReserveWrites(t, body)
  PROVE  /\ transfer[t].status = "ABSENT"
         /\ transfer' = [transfer EXCEPT ![t] = [status |-> "PENDING", body |-> body]]
         /\ onHand' = onHand
         /\ ledger' = [k \in Key |-> ledger[k] + Takes(body, k)]
BY DEF ReserveWrites, Reserve, Writes

LEMMA CompleteEffect ==
  ASSUME TablesFit, NEW t \in TransferId, CompleteWrites(t)
  PROVE  /\ transfer[t].status = "PENDING"
         /\ transfer' = [transfer EXCEPT ![t].status = "COMPLETED"]
         /\ onHand' = [k \in Key |-> onHand[k] - Takes(transfer[t].body, k) + Brings(transfer[t].body, k)]
         /\ ledger' = [k \in Key |-> ledger[k] + (Brings(transfer[t].body, k) - Takes(transfer[t].body, k))]
BY DEF CompleteWrites, Complete, Decide, Writes

LEMMA ReleaseEffect ==
  ASSUME TablesFit, NEW t \in TransferId, ReleaseWrites(t)
  PROVE  /\ transfer[t].status = "PENDING"
         /\ \E status \in {"REJECTED", "CANCELLED"} : transfer' = [transfer EXCEPT ![t].status = status]
         /\ onHand' = onHand
         /\ ledger' = [k \in Key |-> ledger[k] + (- Takes(transfer[t].body, k))]
BY DEF ReleaseWrites, Release, Decide, Writes

LEMMA AdjustEffect ==
  ASSUME TablesFit, NEW k \in Key, NEW change \in Adjustment, AdjustWrites(k, change)
  PROVE  /\ transfer' = transfer
         /\ onHand' = [onHand EXCEPT ![k] = onHand[k] + change]
         /\ ledger' = [l \in Key |-> ledger[l] + IF l = k THEN change ELSE 0]
BY DEF AdjustWrites, Adjust, Writes

LEMMA StockFits ==
  ASSUME TablesFit, StockStep
  PROVE  TablesFit'
<1>1. ASSUME NEW t \in TransferId, NEW body \in Request, ReserveWrites(t, body)
      PROVE  TablesFit'
  <2>1. ledger' \in [Key -> Int]
    BY <1>1, ReserveEffect, TakesType DEF TablesFit
  <2> QED
    BY <1>1, <2>1, ReserveEffect DEF TablesFit, Status
<1>2. ASSUME NEW t \in TransferId, CompleteWrites(t)
      PROVE  TablesFit'
  <2>1. transfer[t].body \in Request
    BY <1>2, CompleteEffect DEF TablesFit
  <2>2. ledger' \in [Key -> Int] /\ onHand' \in [Key -> Int]
    BY <1>2, <2>1, CompleteEffect, TakesType DEF TablesFit
  <2> QED
    BY <1>2, <2>1, <2>2, CompleteEffect DEF TablesFit, Status, Terminal
<1>3. ASSUME NEW t \in TransferId, ReleaseWrites(t)
      PROVE  TablesFit'
  <2>1. transfer[t].body \in Request
    BY <1>3, ReleaseEffect DEF TablesFit
  <2>2. ledger' \in [Key -> Int] /\ onHand' \in [Key -> Int]
    BY <1>3, <2>1, ReleaseEffect, TakesType DEF TablesFit
  <2>3. PICK status \in {"REJECTED", "CANCELLED"} : transfer' = [transfer EXCEPT ![t].status = status]
    BY <1>3, ReleaseEffect
  <2> QED
    BY <2>1, <2>2, <2>3 DEF TablesFit, Status, Terminal
<1>4. ASSUME NEW k \in Key, NEW change \in Adjustment, AdjustWrites(k, change)
      PROVE  TablesFit'
  <2>1. ledger' \in [Key -> Int] /\ onHand' \in [Key -> Int]
    BY <1>4, AdjustEffect DEF TablesFit
  <2> QED
    BY <1>4, <2>1, AdjustEffect DEF TablesFit
<1> QED
  BY <1>1, <1>2, <1>3, <1>4 DEF StockStep

-----------------------------------------------------------------------------
(* The runs and the resolutions. *)

LEMMA RunLeavesTables ==
  ASSUME NEW r \in Run, RunProceeds(r) \/ Starts(r) \/ RunStops(r)
  PROVE  UNCHANGED <<onHand, transfer, ledger, paid, resolving>>
<1> USE DEF Becomes, Goes
<1>1. ASSUME NEW k \in Key, RunSums(r, k)
      PROVE  UNCHANGED <<onHand, transfer, ledger, paid, resolving>>
  BY <1>1 DEF RunSums
<1>2. CASE RunEnds(r) \/ RunReadsOpen(r) \/ RunCloses(r)
  BY <1>2 DEF RunEnds, RunReadsOpen, RunCloses
<1>3. CASE RunMatches(r)
  BY <1>3 DEF RunMatches
<1>4. CASE RunWrites(r)
  BY <1>4 DEF RunWrites
<1>5. CASE RunAlerts(r)
  BY <1>5 DEF RunAlerts
<1>6. CASE Starts(r) \/ RunStops(r)
  BY <1>6 DEF Starts, RunStarts, RunStops
<1> QED
  BY <1>1, <1>2, <1>3, <1>4, <1>5, <1>6 DEF RunProceeds

\* A finding of the run.
LEMMA FindingType ==
  ASSUME NEW r \in Run, RunFits(run[r]), run[r].found # {}
  PROVE  Finding(r) \in run[r].found /\ Finding(r).key \in Key /\ Finding(r).difference \in Int
<1>1. Finding(r) \in run[r].found
  BY DEF Finding
<1> QED
  BY <1>1 DEF RunFits

\* Runs create issues that have not been paid for, and change neither the row
\* of an issue nor whether it exists.
LEMMA RunKeepsIssues ==
  ASSUME Fits, NEW r \in Run, RunProceeds(r) \/ Starts(r) \/ RunStops(r)
  PROVE  /\ issue' \in [IssueId -> Issues \cup {NoIssue}]
         /\ \A i \in IssueId \ Unused : issue'[i] # NoIssue /\ issue'[i].key = issue[i].key
<1>0. issue \in [IssueId -> Issues \cup {NoIssue}] /\ \A x \in Issues : x # NoIssue
  <2>1. \A x \in Issues : x.status # "none" /\ NoIssue.status = "none"
    BY DEF Issues, NoIssue
  <2> QED
    BY <2>1 DEF Fits, IssuesFit
<1>1. CASE UNCHANGED issue
  BY <1>0, <1>1 DEF Unused
<1>2. CASE RunCloses(r)
  <2>1. run[r].closing \cap Unused = {}
    BY <1>2 DEF RunCloses, At, Fits, RunsFit, IdleRun
  <2>2. \A i \in IssueId \ Unused : issue[i] \in Issues /\ Resolved(i) \in Issues /\ Resolved(i).key = issue[i].key
    BY <1>0 DEF Unused, Issues, Resolved
  <2>3. issue' = [i \in IssueId |-> IF i \in run[r].closing THEN Resolved(i) ELSE issue[i]]
    BY <1>2 DEF RunCloses
  <2> QED
    BY <1>0, <2>1, <2>2, <2>3 DEF Unused
<1>3. CASE RunWrites(r)
  <2>1. RunFits(run[r]) /\ run[r].found # {}
    <3>1. run[r].pc = "write" /\ IdleRun.pc = "idle"
      BY <1>3 DEF RunWrites, At, IdleRun
    <3> QED
      BY <3>1 DEF Fits, RunsFit, RunFits
  <2>2. Finding(r).key \in Key /\ Finding(r).difference \in Int
    BY <2>1, FindingType
  <2>3. CASE run[r].id # NoId
    <3> DEFINE i == run[r].id
    <3>1. issue' = [issue EXCEPT ![i] = [issue[i] EXCEPT !.difference = Finding(r).difference]]
          /\ i \in IssueId
      BY <1>3, <2>1, <2>3 DEF RunWrites, RunFits
    <3>2. ASSUME issue[i] = NoIssue PROVE issue' = issue
      <4>1. [NoIssue EXCEPT !.difference = Finding(r).difference] = NoIssue
        BY DEF NoIssue
      <4> QED
        BY <1>0, <3>1, <3>2, <4>1
    <3>3. ASSUME issue[i] \in Issues
          PROVE  /\ [issue[i] EXCEPT !.difference = Finding(r).difference] \in Issues
                 /\ [issue[i] EXCEPT !.difference = Finding(r).difference].key = issue[i].key
      BY <2>2, <3>3 DEF Issues
    <3> QED
      BY <1>0, <3>1, <3>2, <3>3 DEF Unused
  <2>4. CASE run[r].id = NoId
    <3>1. PICK i \in Unused : issue' = [issue EXCEPT ![i] =
                 [status |-> "OPEN", key |-> Finding(r).key, difference |-> Finding(r).difference]]
      BY <1>3, <2>4 DEF RunWrites
    <3>2. [status |-> "OPEN", key |-> Finding(r).key, difference |-> Finding(r).difference] \in Issues
      BY <2>2 DEF Issues
    <3> QED
      BY <1>0, <3>1, <3>2 DEF Unused
  <2> QED
    BY <2>3, <2>4
<1>4. IssueShape
  BY <1>0 DEF IssueShape, Issues, NoIssue
<1> QED
  BY <1>1, <1>2, <1>3, <1>4, RunIssues

\* What a run goes on with fits: it closes created issues only.
LEMMA BecomesFits ==
  ASSUME RunsFit, NEW r \in Run, NEW now, run' = [run EXCEPT ![r] = now], Unused' \subseteq Unused,
         \/ now = IdleRun
         \/ RunFits(now) /\ now.closing \cap Unused = {}
  PROVE  RunsFit'
BY DEF RunsFit

LEMMA RunRunsFit ==
  ASSUME Fits, NEW r \in Run, RunProceeds(r) \/ Starts(r) \/ RunStops(r)
  PROVE  RunsFit'
<1>0. /\ Unused' \subseteq Unused
      /\ RunsFit
      /\ ~At(r, "idle") => RunFits(run[r]) /\ run[r].closing \cap Unused = {}
      /\ issue \in [IssueId -> Issues \cup {NoIssue}]
  <2>1. \A i \in IssueId \ Unused : issue'[i] # NoIssue
    BY RunKeepsIssues
  <2>2. IdleRun.pc = "idle"
    BY DEF IdleRun
  <2> QED
    BY <2>1, <2>2 DEF Unused, Fits, RunsFit, IssuesFit, At
<1>1. ASSUME NEW kind \in Kind, RunStarts(r, kind)
      PROVE  RunsFit'
  <2> DEFINE now == [pc |-> "sum", kind |-> kind, actual |-> onHand,
                     found |-> {}, id |-> NoId, closing |-> {}]
  <2>1. run' = [run EXCEPT ![r] = now]
    BY <1>1 DEF RunStarts, Becomes
  <2>2. RunFits(now) /\ now.closing = {}
    BY DEF RunFits, Fits, TablesFit
  <2> HIDE DEF now
  <2> QED
    BY <1>0, <2>1, <2>2, BecomesFits
<1>2. ASSUME NEW k \in Key, RunSums(r, k)
      PROVE  RunsFit'
  <2> DEFINE more == IF Difference(r, k) = 0 THEN {}
                     ELSE {[key |-> k, difference |-> Difference(r, k)]}
             now == [run[r] EXCEPT !.actual = Restrict(run[r].actual, Left(r) \ {k}),
                       !.found = run[r].found \cup more,
                       !.pc = IF run[r].kind = "sync" /\ more # {} THEN "match" ELSE "sum"]
  <2>1. run' = [run EXCEPT ![r] = now] /\ At(r, "sum") /\ k \in Left(r)
    BY <1>2 DEF RunSums, Becomes
  <2>2. RunFits(run[r]) /\ run[r].closing \cap Unused = {}
    BY <1>0, <2>1 DEF At
  <2>3. Difference(r, k) \in Int
    BY <2>1, <2>2 DEF Difference, Left, RunFits, Fits, TablesFit
  <2>4. more \subseteq [key : Key, difference : Int]
    BY <2>3
  <2> DEFINE left == Restrict(run[r].actual, Left(r) \ {k})
  <2>5. DOMAIN left \subseteq DOMAIN run[r].actual /\ \A l \in DOMAIN left : left[l] = run[r].actual[l]
    BY DEF Restrict, Left
  <2> HIDE DEF more, left
  <2>6. /\ now.actual = left /\ now.found = run[r].found \cup more /\ now.pc \in {"match", "sum"}
        /\ now.pc = "match" => run[r].kind = "sync" /\ more # {}
        /\ now.kind = run[r].kind /\ now.id = run[r].id /\ now.closing = run[r].closing
        /\ DOMAIN now = DOMAIN run[r]
    BY <2>2 DEF RunFits, left
  <2> HIDE DEF now
  <2>7. RunFits(now) /\ now.closing \cap Unused = {}
    BY <2>2, <2>4, <2>5, <2>6 DEF RunFits
  <2> QED
    BY <1>0, <2>1, <2>7, BecomesFits DEF now, left, more
<1>3. CASE RunEnds(r) \/ RunStops(r)
  <2>1. run' = [run EXCEPT ![r] = IdleRun]
    BY <1>3 DEF RunEnds, RunStops, Becomes
  <2> QED
    BY <1>0, <2>1 DEF RunsFit
<1>4. CASE RunReadsOpen(r)
  <2> DEFINE now == [run[r] EXCEPT !.pc = "close", !.closing = Matching(r)]
  <2>1. run' = [run EXCEPT ![r] = now] /\ At(r, "sum")
        /\ run[r].kind = "lambda" /\ run[r].found # {}
    BY <1>4 DEF RunReadsOpen, Becomes
  <2>2. Matching(r) \subseteq IssueId \ Unused
    BY DEF Matching, Open, Unused, NoIssue
  <2>3. RunFits(now) /\ now.closing \cap Unused = {}
    BY <1>0, <2>1, <2>2 DEF RunFits, At
  <2> HIDE DEF now
  <2> QED
    BY <1>0, <2>1, <2>3, BecomesFits
<1>5. CASE RunCloses(r)
  <2> DEFINE now == [run[r] EXCEPT !.pc = "match", !.closing = {}]
  <2>1. run' = [run EXCEPT ![r] = now] /\ At(r, "close")
    BY <1>5 DEF RunCloses, Becomes
  <2>2. RunFits(now) /\ now.closing \cap Unused = {}
    BY <1>0, <2>1 DEF RunFits, At
  <2> HIDE DEF now
  <2> QED
    BY <1>0, <2>1, <2>2, BecomesFits
<1>6. CASE RunMatches(r)
  <2>1. PICK i \in IssueId \cup {NoId} :
          run' = [run EXCEPT ![r] = [run[r] EXCEPT !.pc = "write", !.id = i]] /\ At(r, "match")
    BY <1>6 DEF RunMatches, Becomes, SameFinding, Open
  <2> DEFINE now == [run[r] EXCEPT !.pc = "write", !.id = i]
  <2>2. RunFits(now) /\ now.closing \cap Unused = {}
    BY <1>0, <2>1 DEF RunFits, At
  <2>3. run' = [run EXCEPT ![r] = now]
    BY <2>1
  <2> HIDE DEF now
  <2> QED
    BY <1>0, <2>2, <2>3, BecomesFits
<1>7. CASE RunWrites(r)
  <2>1. PICK i \in IssueId \cup {NoId} :
          run' = [run EXCEPT ![r] = [run[r] EXCEPT !.pc = "alert", !.id = i]] /\ At(r, "write")
    <3>1. CASE run[r].id # NoId
      <4>1. run' = [run EXCEPT ![r] = [run[r] EXCEPT !.pc = "alert"]] /\ At(r, "write")
        BY <1>7, <3>1 DEF RunWrites, Becomes, Goes
      <4>2. RunFits(run[r])
        BY <1>0, <4>1 DEF At
      <4>3. [run[r] EXCEPT !.pc = "alert"] = [run[r] EXCEPT !.pc = "alert", !.id = run[r].id]
        BY <4>2 DEF RunFits
      <4> QED
        BY <4>1, <4>2, <4>3 DEF RunFits
    <3>2. CASE run[r].id = NoId
      BY <1>7, <3>2 DEF RunWrites, Becomes, Unused
    <3> QED
      BY <3>1, <3>2
  <2> DEFINE now == [run[r] EXCEPT !.pc = "alert", !.id = i]
  <2>2. RunFits(now) /\ now.closing \cap Unused = {}
    BY <1>0, <2>1 DEF RunFits, At
  <2>3. run' = [run EXCEPT ![r] = now]
    BY <2>1
  <2> HIDE DEF now
  <2> QED
    BY <1>0, <2>2, <2>3, BecomesFits
<1>8. CASE RunAlerts(r)
  <2> DEFINE rest == run[r].found \ {Finding(r)}
             now == [run[r] EXCEPT !.found = rest, !.id = NoId,
                       !.pc = IF run[r].kind = "sync" THEN "sum" ELSE "match"]
  <2>1. CASE run' = [run EXCEPT ![r] = IdleRun]
    BY <1>0, <2>1 DEF RunsFit
  <2>2. CASE run' = [run EXCEPT ![r] = now] /\ ~(run[r].kind = "lambda" /\ rest = {})
    <3>1. RunFits(run[r]) /\ run[r].closing \cap Unused = {} /\ At(r, "alert")
      BY <1>0, <1>8 DEF RunAlerts, At
    <3>2. /\ now.found = rest /\ now.id = NoId /\ now.pc = IF run[r].kind = "sync" THEN "sum" ELSE "match"
          /\ now.kind = run[r].kind /\ now.actual = run[r].actual /\ now.closing = run[r].closing
          /\ DOMAIN now = DOMAIN run[r]
      BY <3>1 DEF RunFits
    <3> HIDE DEF now
    <3>3. RunFits(now)
      BY <2>2, <3>1, <3>2 DEF RunFits, At
    <3> QED
      BY <1>0, <2>2, <3>1, <3>2, <3>3, BecomesFits
  <2> QED
    BY <1>8, <2>1, <2>2 DEF RunAlerts, Becomes
<1> QED
  BY <1>1, <1>2, <1>3, <1>4, <1>5, <1>6, <1>7, <1>8 DEF RunProceeds, Starts

LEMMA ReadFits ==
  ASSUME Fits, NEW a \in Admin, NEW i \in IssueId, ResolveReads(a, i)
  PROVE  Fits'
<1>1. /\ resolving' = [resolving EXCEPT ![a] = [id |-> i, difference |-> issue[i].difference]]
      /\ UNCHANGED <<onHand, transfer, ledger, issue, paid, run>>
      /\ issue[i].status = "OPEN"
  BY DEF ResolveReads, Resolvable, Open
<1>2. i \notin Unused /\ issue[i].difference \in Int
  BY <1>1 DEF Fits, IssuesFit, Unused, Issues, NoIssue
<1>3. Unused' = Unused
  BY <1>1 DEF Unused
<1>4. IssuesFit'
  BY <1>1, <1>2, <1>3 DEF Fits, IssuesFit
<1> QED
  BY <1>1, <1>3, <1>4 DEF Fits, TablesFit, RunsFit

\* What resolve commits: a movement on the row of an issue that was created.
LEMMA CommitEffect ==
  ASSUME Fits, NEW a \in Admin, ResolveCommits(a)
  PROVE  LET i == resolving[a].id
             d == resolving[a].difference IN
         /\ i \in IssueId \ Unused /\ d \in Int
         /\ issue[i].key \in Key
         /\ ledger' = [ledger EXCEPT ![issue[i].key] = ledger[issue[i].key] + d]
         /\ paid' = [paid EXCEPT ![i] = Append(paid[i], d)]
         /\ issue' = [issue EXCEPT ![i] = Resolved(i)]
         /\ Resolved(i) \in Issues /\ Resolved(i).key = issue[i].key
         /\ resolving' = [resolving EXCEPT ![a] = NoIssue]
         /\ UNCHANGED <<onHand, transfer, run>>
<1> DEFINE i == resolving[a].id
           d == resolving[a].difference
<1>1. i \in IssueId \ Unused /\ d \in Int
  BY DEF ResolveCommits, Fits, IssuesFit
<1>2. issue[i] \in Issues
  BY <1>1 DEF Fits, IssuesFit, Unused
<1>3. issue[i].key \in Key /\ Resolved(i) \in Issues /\ Resolved(i).key = issue[i].key
  BY <1>2 DEF Issues, Resolved
<1> QED
  BY <1>1, <1>3 DEF ResolveCommits

LEMMA IssueIsOne == NoIssue \notin Issues
<1>1. \A x \in Issues : x.status # NoIssue.status
  BY DEF Issues, NoIssue
<1> QED
  BY <1>1

LEMMA CommitFits ==
  ASSUME Fits, NEW a \in Admin, ResolveCommits(a)
  PROVE  Fits'
<1> DEFINE i == resolving[a].id
           d == resolving[a].difference
<1>1. /\ i \in IssueId \ Unused /\ d \in Int /\ issue[i].key \in Key
      /\ ledger' = [ledger EXCEPT ![issue[i].key] = ledger[issue[i].key] + d]
      /\ paid' = [paid EXCEPT ![i] = Append(paid[i], d)]
      /\ issue' = [issue EXCEPT ![i] = Resolved(i)]
      /\ Resolved(i) \in Issues
      /\ resolving' = [resolving EXCEPT ![a] = NoIssue]
      /\ UNCHANGED <<onHand, transfer, run>>
  BY CommitEffect
<1> HIDE DEF i, d
<1>2. Unused' = Unused
  BY <1>1, IssueIsOne DEF Unused, Fits, IssuesFit
<1>3. TablesFit'
  BY <1>1 DEF Fits, TablesFit
<1>4. Append(paid[i], d) \in Seq(Int)
  BY <1>1 DEF Fits, IssuesFit
<1>5. IssuesFit'
  BY <1>1, <1>2, <1>4 DEF Fits, IssuesFit
<1> QED
  BY <1>1, <1>2, <1>3, <1>5 DEF Fits, RunsFit

LEMMA NextFits ==
  ASSUME Fits, [ReconNext]_vars
  PROVE  Fits'
<1>1. CASE UNCHANGED vars
  BY <1>1 DEF vars, Fits, TablesFit, IssuesFit, RunsFit, Unused
<1>2. CASE StockStep
  <2>1. UNCHANGED reconVars
    BY <1>2, StockAside
  <2> QED
    BY <1>2, <2>1, StockFits DEF Fits, IssuesFit, RunsFit, Unused
<1>3. ASSUME NEW r \in Run, RunProceeds(r) \/ Starts(r) \/ RunStops(r)
      PROVE  Fits'
  <2>1. /\ issue' \in [IssueId -> Issues \cup {NoIssue}]
        /\ \A i \in IssueId \ Unused : issue'[i] # NoIssue
        /\ UNCHANGED <<onHand, transfer, ledger, paid, resolving>>
    BY <1>3, RunKeepsIssues, RunLeavesTables
  <2>2. Unused' \subseteq Unused
    BY <2>1 DEF Unused
  <2> QED
    BY <1>3, <2>1, <2>2, RunRunsFit DEF Fits, TablesFit, IssuesFit
<1>4. ASSUME NEW a \in Admin, ResolveAborts(a)
      PROVE  Fits'
  BY <1>4 DEF ResolveAborts, Fits, TablesFit, IssuesFit, RunsFit, Unused
<1> QED
  BY <1>1, <1>2, <1>3, <1>4, ReadFits, CommitFits DEF ReconNext

-----------------------------------------------------------------------------
(* The sums. *)

\* The transfers that pending and completed requests reserved for, and what
\* each transfer takes from a row.
ShippingIn(table) == {t \in TransferId : table[t].status \in {"PENDING", "COMPLETED"}}
TakenBy(table, k) == [t \in TransferId |-> Takes(table[t].body, k)]

\* What was written to resolve each issue of a row.
PaidFor(issues, payments, k) ==
  [i \in IssueId |-> IF issues[i] # NoIssue /\ issues[i].key = k
                     THEN SumFunction(payments[i]) ELSE 0]

\* The inductive invariant, with finitely many transfers.
Explained ==
  /\ IsFiniteSet(ShippingIn(transfer))
  /\ \A k \in Key :
       Drift(k) = Opening[k] - OpeningLedger[k]
                    - SumFunctionOnSet(TakenBy(transfer, k), ShippingIn(transfer))
                    - SumFunctionOnSet(PaidFor(issue, paid, k), IssueId)

LEMMA IssuesFinite == IsFiniteSet(IssueId)
BY FS_Interval DEF IssueId

\* A payment is added to what was paid before.
LEMMA SumAppended ==
  ASSUME NEW s \in Seq(Int), NEW d \in Int
  PROVE  /\ SumFunction(s) \in Int
         /\ SumFunction(Append(s, d)) = SumFunction(s) + d
<1> DEFINE n == Len(s)
           e == Append(s, d)
<1>1. /\ n \in Nat /\ DOMAIN s = 1 .. n /\ DOMAIN e = 1 .. n + 1
      /\ \A j \in 1 .. n : s[j] \in Int /\ s[j] = e[j]
      /\ e[n + 1] = d
  OBVIOUS
<1>2. IsFiniteSet(1 .. n)
  BY <1>1, FS_Interval
<1> DEFINE S == 1 .. n
           x == n + 1
<1>3. /\ IsFiniteSet(S) /\ x \notin S /\ S \cup {x} = DOMAIN e /\ DOMAIN s = S
      /\ \A j \in S : s[j] \in Int /\ s[j] = e[j]
      /\ e[x] = d
  BY <1>1, <1>2
<1> HIDE DEF S, x, n, e
<1>4. SumFunctionOnSet(e, S \cup {x}) = e[x] + SumFunctionOnSet(e, S)
  <2>1. e[x] \in Int /\ \A j \in S : e[j] \in Int
    BY <1>3
  <2> QED
    BY <1>3, <2>1, SumPut
<1>5. SumFunctionOnSet(s, S) = SumFunctionOnSet(e, S) /\ SumFunctionOnSet(s, S) \in Int
  BY <1>3, SumEqual, SumType
<1>6. /\ SumFunction(s) = SumFunctionOnSet(s, S)
      /\ SumFunction(e) = SumFunctionOnSet(e, S \cup {x})
  BY <1>3 DEF SumFunction
<1>7. SumFunction(s) \in Int /\ SumFunction(e) = SumFunction(s) + d
  BY <1>3, <1>4, <1>5, <1>6
<1> QED
  BY <1>7 DEF e

LEMMA NothingPaid == SumFunction(<<>>) = 0
<1>1. DOMAIN <<>> = {}
  OBVIOUS
<1> QED
  BY <1>1, SumEmpty DEF SumFunction

LEMMA PaidForType ==
  ASSUME IssuesFit, NEW k \in Key
  PROVE  \A i \in IssueId : PaidFor(issue, paid, k)[i] \in Int
<1>1. \A i \in IssueId : SumFunction(paid[i]) \in Int
  BY SumAppended DEF IssuesFit
<1> QED
  BY <1>1 DEF PaidFor

LEMMA TakenByType ==
  ASSUME TablesFit, NEW t \in ShippingIn(transfer), NEW k \in Key
  PROVE  TakenBy(transfer, k)[t] = Takes(transfer[t].body, k) /\ Takes(transfer[t].body, k) \in Int
<1>1. t \in TransferId /\ transfer[t].body \in Request
  BY DEF TablesFit, ShippingIn
<1> QED
  BY <1>1, TakesType DEF TakenBy

LEMMA InitExplained == ReconInit => Explained
<1> SUFFICES ASSUME ReconInit PROVE Explained
  OBVIOUS
<1>1. ShippingIn(transfer) = {}
  BY DEF ReconInit, Init, ShippingIn
<1>2. IsFiniteSet({}) /\ \A k \in Key : SumFunctionOnSet(TakenBy(transfer, k), {}) = 0
  BY FS_EmptySet, SumEmpty
<1>3. \A k \in Key : SumFunctionOnSet(PaidFor(issue, paid, k), IssueId) = 0
  <2>1. \A k \in Key : \A i \in IssueId : PaidFor(issue, paid, k)[i] = 0
    BY DEF ReconInit, NoIssues, PaidFor
  <2> QED
    BY <2>1, IssuesFinite, SumZero
<1>4. \A k \in Key : Drift(k) = Opening[k] - OpeningLedger[k]
  BY DEF ReconInit, Init, Drift
<1> QED
  BY <1>1, <1>2, <1>3, <1>4 DEF Explained

\* A transfer that is created adds what it takes.
LEMMA ReserveExplained ==
  ASSUME Fits, Explained, NEW t \in TransferId, NEW body \in Request, ReserveWrites(t, body)
  PROVE  Explained'
<1> DEFINE P == ShippingIn(transfer)
<1>1. /\ transfer[t].status = "ABSENT"
      /\ transfer' = [transfer EXCEPT ![t] = [status |-> "PENDING", body |-> body]]
      /\ onHand' = onHand
      /\ ledger' = [k \in Key |-> ledger[k] + Takes(body, k)]
      /\ UNCHANGED <<issue, paid>>
      /\ TablesFit /\ IssuesFit
  BY ReserveEffect DEF ReserveWrites, Writes, Fits
<1>2. ShippingIn(transfer') = P \cup {t} /\ t \notin P
  BY <1>1 DEF ShippingIn, TablesFit
<1>3. IsFiniteSet(P) /\ IsFiniteSet(P \cup {t})
  BY FS_AddElement DEF Explained
<1>4. \A u \in P : u \in TransferId /\ transfer'[u] = transfer[u]
  BY <1>1, <1>2 DEF ShippingIn, TablesFit
<1>5. transfer'[t].body = body
  BY <1>1 DEF TablesFit
<1>6. ASSUME NEW k \in Key
      PROVE  Drift(k)' = Opening[k] - OpeningLedger[k]
                           - SumFunctionOnSet(TakenBy(transfer', k), P \cup {t})
                           - SumFunctionOnSet(PaidFor(issue, paid, k), IssueId)
  <2> DEFINE f == TakenBy(transfer, k)
             g == TakenBy(transfer', k)
             all == SumFunctionOnSet(PaidFor(issue, paid, k), IssueId)
  <2>1. \A u \in P : f[u] \in Int /\ f[u] = g[u]
    <3>1. \A u \in P : f[u] \in Int
      BY <1>1, TakenByType
    <3>2. \A u \in P : f[u] = g[u]
      BY <1>4 DEF TakenBy
    <3> QED
      BY <3>1, <3>2
  <2>2. g[t] = Takes(body, k) /\ Takes(body, k) \in Int
    BY <1>5, TakesType DEF TakenBy
  <2>3. Drift(k) = Opening[k] - OpeningLedger[k] - SumFunctionOnSet(f, P) - all
    BY DEF Explained
  <2>4. Drift(k)' = Drift(k) - Takes(body, k) /\ Drift(k) \in Int
    BY <1>1, <2>2 DEF Drift, TablesFit
  <2>5. all \in Int /\ Opening[k] \in Int /\ OpeningLedger[k] \in Int
    BY <1>1, IssuesFinite, PaidForType, SumType
  <2> HIDE DEF f, g, P, all
  <2>6. SumFunctionOnSet(f, P) = SumFunctionOnSet(g, P) /\ SumFunctionOnSet(f, P) \in Int
    BY <1>3, <2>1, SumEqual, SumType
  <2>7. SumFunctionOnSet(g, P \cup {t}) = g[t] + SumFunctionOnSet(g, P)
    BY <1>2, <1>3, <2>1, <2>2, SumPut
  <2>8. Drift(k)' = Opening[k] - OpeningLedger[k] - SumFunctionOnSet(g, P \cup {t}) - all
    BY <2>2, <2>3, <2>4, <2>5, <2>6, <2>7
  <2> QED
    BY <2>8 DEF g, all
<1> HIDE DEF P
<1> QED
  BY <1>1, <1>2, <1>3, <1>6 DEF Explained

\* One that is released takes it away again.
LEMMA ReleaseExplained ==
  ASSUME Fits, Explained, NEW t \in TransferId, ReleaseWrites(t)
  PROVE  Explained'
<1> DEFINE P == ShippingIn(transfer)
           body == transfer[t].body
<1>1. /\ transfer[t].status = "PENDING"
      /\ \E status \in {"REJECTED", "CANCELLED"} : transfer' = [transfer EXCEPT ![t].status = status]
      /\ onHand' = onHand
      /\ ledger' = [k \in Key |-> ledger[k] + (- Takes(body, k))]
      /\ UNCHANGED <<issue, paid>>
      /\ TablesFit /\ IssuesFit
  BY ReleaseEffect DEF ReleaseWrites, Writes, Fits
<1>2. ShippingIn(transfer') = P \ {t} /\ t \in P
  BY <1>1 DEF ShippingIn, TablesFit
<1>3. IsFiniteSet(P) /\ IsFiniteSet(P \ {t})
  BY FS_RemoveElement DEF Explained
<1>4. \A u \in P \ {t} : u \in TransferId /\ transfer'[u] = transfer[u]
  BY <1>1 DEF ShippingIn, TablesFit
<1>5. ASSUME NEW k \in Key
      PROVE  Drift(k)' = Opening[k] - OpeningLedger[k]
                           - SumFunctionOnSet(TakenBy(transfer', k), P \ {t})
                           - SumFunctionOnSet(PaidFor(issue, paid, k), IssueId)
  <2> DEFINE f == TakenBy(transfer, k)
             g == TakenBy(transfer', k)
             all == SumFunctionOnSet(PaidFor(issue, paid, k), IssueId)
  <2>1. \A u \in P : f[u] \in Int
    BY <1>1, TakenByType
  <2>2. \A u \in P \ {t} : f[u] \in Int /\ f[u] = g[u]
    BY <1>4, <2>1 DEF TakenBy
  <2>3. f[t] = Takes(body, k) /\ Takes(body, k) \in Int
    BY <1>1, <1>2, TakenByType
  <2>4. Drift(k) = Opening[k] - OpeningLedger[k] - SumFunctionOnSet(f, P) - all
    BY DEF Explained
  <2>5. Drift(k)' = Drift(k) + Takes(body, k) /\ Drift(k) \in Int
    BY <1>1, <2>3 DEF Drift, TablesFit
  <2>6. all \in Int /\ Opening[k] \in Int /\ OpeningLedger[k] \in Int
    BY <1>1, IssuesFinite, PaidForType, SumType
  <2> HIDE DEF f, g, P, all, body
  <2>7. SumFunctionOnSet(f, P) = f[t] + SumFunctionOnSet(f, P \ {t})
    BY <1>2, <1>3, <2>1, SumTake
  <2>8. SumFunctionOnSet(f, P \ {t}) = SumFunctionOnSet(g, P \ {t})
        /\ SumFunctionOnSet(f, P \ {t}) \in Int
    BY <1>3, <2>2, SumEqual, SumType
  <2>9. Drift(k)' = Opening[k] - OpeningLedger[k] - SumFunctionOnSet(g, P \ {t}) - all
    BY <2>3, <2>4, <2>5, <2>6, <2>7, <2>8
  <2> QED
    BY <2>9 DEF g, all
<1> HIDE DEF P
<1> QED
  BY <1>1, <1>2, <1>3, <1>5 DEF Explained

\* Completed transfers and adjustments leave the drift as it is: they change the
\* quantity of a row and its movements in the same way.
LEMMA SameDriftExplained ==
  ASSUME Fits, Explained, UNCHANGED <<issue, paid>>,
         ShippingIn(transfer') = ShippingIn(transfer),
         \A u \in TransferId : transfer'[u].body = transfer[u].body,
         \A k \in Key : Drift(k)' = Drift(k)
  PROVE  Explained'
<1>1. \A k \in Key : TakenBy(transfer', k) = TakenBy(transfer, k)
  BY DEF TakenBy
<1> QED
  BY <1>1 DEF Explained

LEMMA StockExplained ==
  ASSUME Fits, Explained, StockStep
  PROVE  Explained'
<1>0. TablesFit /\ UNCHANGED <<issue, paid>>
  BY StockAside DEF Fits
<1>1. ASSUME NEW t \in TransferId, CompleteWrites(t)
      PROVE  Explained'
  <2>1. /\ transfer[t].status = "PENDING"
        /\ transfer' = [transfer EXCEPT ![t].status = "COMPLETED"]
        /\ onHand' = [k \in Key |-> onHand[k] - Takes(transfer[t].body, k) + Brings(transfer[t].body, k)]
        /\ ledger' = [k \in Key |-> ledger[k] + (Brings(transfer[t].body, k) - Takes(transfer[t].body, k))]
    BY <1>0, <1>1, CompleteEffect
  <2>2. /\ ShippingIn(transfer') = ShippingIn(transfer)
        /\ \A u \in TransferId : transfer'[u].body = transfer[u].body
    BY <1>0, <2>1 DEF ShippingIn, TablesFit
  <2>3. ASSUME NEW k \in Key PROVE Drift(k)' = Drift(k)
    <3>1. Takes(transfer[t].body, k) \in Int /\ Brings(transfer[t].body, k) \in Int
      BY <1>0, <2>1, TakesType DEF TablesFit
    <3>2. onHand[k] \in Int /\ ledger[k] \in Int
      BY <1>0 DEF TablesFit
    <3> QED
      BY <2>1, <3>1, <3>2 DEF Drift
  <2> QED
    BY <1>0, <2>2, <2>3, SameDriftExplained
<1>2. ASSUME NEW k \in Key, NEW change \in Adjustment, AdjustWrites(k, change)
      PROVE  Explained'
  <2>1. /\ transfer' = transfer
        /\ onHand' = [onHand EXCEPT ![k] = onHand[k] + change]
        /\ ledger' = [l \in Key |-> ledger[l] + IF l = k THEN change ELSE 0]
    BY <1>0, <1>2, AdjustEffect
  <2>2. \A l \in Key : Drift(l)' = Drift(l)
    BY <1>0, <2>1 DEF Drift, TablesFit
  <2> QED
    BY <1>0, <2>1, <2>2, SameDriftExplained
<1> QED
  BY <1>1, <1>2, ReserveExplained, ReleaseExplained DEF StockStep

\* An issue that a run creates has not been paid for, and the row of an issue
\* stays the same.
LEMMA RunExplained ==
  ASSUME Fits, Explained, NEW r \in Run, RunProceeds(r) \/ Starts(r) \/ RunStops(r)
  PROVE  Explained'
<1>1. /\ \A i \in IssueId \ Unused : issue'[i] # NoIssue /\ issue'[i].key = issue[i].key
      /\ UNCHANGED <<onHand, transfer, ledger, paid>>
  BY RunKeepsIssues, RunLeavesTables
<1>2. \A i \in Unused : paid[i] = <<>>
  BY DEF Fits, IssuesFit
<1>3. \A k \in Key : PaidFor(issue', paid', k) = PaidFor(issue, paid, k)
  <2> SUFFICES ASSUME NEW k \in Key, NEW i \in IssueId
               PROVE  (IF issue'[i] # NoIssue /\ issue'[i].key = k THEN SumFunction(paid[i]) ELSE 0)
                        = (IF issue[i] # NoIssue /\ issue[i].key = k THEN SumFunction(paid[i]) ELSE 0)
    BY <1>1 DEF PaidFor
  <2>1. CASE i \in Unused
    BY <1>2, <2>1, NothingPaid DEF Unused
  <2>2. CASE i \notin Unused
    BY <1>1, <2>2 DEF Unused
  <2> QED
    BY <2>1, <2>2
<1> QED
  BY <1>1, <1>3 DEF Explained, Drift

\* What is written to resolve an issue takes as much off the drift of its row.
LEMMA CommitExplained ==
  ASSUME Fits, Explained, NEW a \in Admin, ResolveCommits(a)
  PROVE  Explained'
<1> DEFINE i == resolving[a].id
           d == resolving[a].difference
           row == issue[i].key
<1>1. /\ i \in IssueId \ Unused /\ d \in Int
      /\ row \in Key
      /\ ledger' = [ledger EXCEPT ![row] = ledger[row] + d]
      /\ paid' = [paid EXCEPT ![i] = Append(paid[i], d)]
      /\ issue' = [issue EXCEPT ![i] = Resolved(i)]
      /\ Resolved(i) \in Issues /\ Resolved(i).key = row
      /\ UNCHANGED <<onHand, transfer>>
      /\ TablesFit /\ IssuesFit
  BY CommitEffect DEF Fits
<1>2. /\ paid[i] \in Seq(Int) /\ issue[i] # NoIssue /\ issue'[i] # NoIssue
      /\ issue'[i].key = row /\ issue[i].key = row
      /\ paid'[i] = Append(paid[i], d)
      /\ \A j \in IssueId : j # i => issue'[j] = issue[j] /\ paid'[j] = paid[j]
  BY <1>1, IssueIsOne DEF IssuesFit, Unused
<1>3. SumFunction(paid[i]) \in Int /\ SumFunction(paid'[i]) = SumFunction(paid[i]) + d
  BY <1>1, <1>2, SumAppended
<1>4. ASSUME NEW k \in Key
      PROVE  /\ SumFunctionOnSet(PaidFor(issue', paid', k), IssueId)
                  = SumFunctionOnSet(PaidFor(issue, paid, k), IssueId) + IF k = row THEN d ELSE 0
             /\ SumFunctionOnSet(PaidFor(issue, paid, k), IssueId) \in Int
  <2> DEFINE f == PaidFor(issue', paid', k)
             g == PaidFor(issue, paid, k)
  <2>1. \A j \in IssueId : j # i => f[j] = g[j]
    BY <1>2 DEF PaidFor
  <2>2. f[i] = g[i] + (IF k = row THEN d ELSE 0) /\ f[i] \in Int /\ g[i] \in Int
    BY <1>1, <1>2, <1>3 DEF PaidFor
  <2>3. \A j \in IssueId : g[j] \in Int
    BY <1>1, PaidForType
  <2>4. \A j \in IssueId : f[j] \in Int /\ g[j] \in Int
    BY <2>1, <2>2, <2>3
  <2> HIDE DEF f, g, i
  <2>5. SumFunctionOnSet(f, IssueId) = SumFunctionOnSet(g, IssueId) + f[i] - g[i]
    <3>1. i \in IssueId
      BY <1>1
    <3> QED
      BY <2>1, <2>4, <3>1, IssuesFinite, SumAt
  <2>6. SumFunctionOnSet(g, IssueId) \in Int
    BY <2>4, IssuesFinite, SumType
  <2>7. (IF k = row THEN d ELSE 0) \in Int
    BY <1>1
  <2>8. SumFunctionOnSet(f, IssueId) = SumFunctionOnSet(g, IssueId) + IF k = row THEN d ELSE 0
    BY <2>2, <2>5, <2>6, <2>7
  <2> QED
    BY <2>6, <2>8 DEF f, g
<1>5. ASSUME NEW k \in Key
      PROVE  Drift(k)' = Drift(k) - (IF k = row THEN d ELSE 0) /\ Drift(k) \in Int
  <2>1. onHand[k] \in Int /\ ledger[k] \in Int /\ ledger'[k] = ledger[k] + IF k = row THEN d ELSE 0
    BY <1>1 DEF TablesFit
  <2> QED
    BY <1>1, <2>1 DEF Drift
<1>6. ASSUME NEW k \in Key
      PROVE  Drift(k)' = Opening[k] - OpeningLedger[k]
                           - SumFunctionOnSet(TakenBy(transfer, k), ShippingIn(transfer))
                           - SumFunctionOnSet(PaidFor(issue', paid', k), IssueId)
  <2> DEFINE taken == SumFunctionOnSet(TakenBy(transfer, k), ShippingIn(transfer))
  <2>1. taken \in Int
    BY <1>1, TakenByType, SumType DEF Explained
  <2>2. Drift(k) = Opening[k] - OpeningLedger[k] - taken
                     - SumFunctionOnSet(PaidFor(issue, paid, k), IssueId)
    BY DEF Explained
  <2>3. Opening[k] \in Int /\ OpeningLedger[k] \in Int /\ (IF k = row THEN d ELSE 0) \in Int
    BY <1>1
  <2> HIDE DEF taken, row, d
  <2> QED
    BY <1>4, <1>5, <2>1, <2>2, <2>3 DEF taken
<1> QED
  BY <1>1, <1>6 DEF Explained

LEMMA NextExplained ==
  ASSUME Fits, Explained, [ReconNext]_vars
  PROVE  Explained'
<1>1. ASSUME UNCHANGED <<onHand, transfer, ledger, issue, paid>>
      PROVE  Explained'
  BY <1>1 DEF Explained, Drift
<1>2. CASE UNCHANGED vars
  BY <1>1, <1>2 DEF vars
<1>3. ASSUME NEW a \in Admin, (\E i \in IssueId : ResolveReads(a, i)) \/ ResolveAborts(a)
      PROVE  Explained'
  BY <1>1, <1>3 DEF ResolveReads, ResolveAborts
<1> QED
  BY <1>2, <1>3, StockExplained, RunExplained, CommitExplained DEF ReconNext

\* What reconciliation measures on a row is the drift the system started with,
\* less what pending and completed transfers took, less what was written to
\* resolve the issues of the row: whatever runs, resolutions and stock
\* transactions come in between, however many there are.
THEOREM DriftExplainedAlways == ReconSpec => []DriftExplained
<1>1. Fits /\ Explained => DriftExplained
  <2> SUFFICES ASSUME Fits, Explained, NEW k \in Key
               PROVE  /\ SumFunction([t \in Shipping |-> Takes(transfer[t].body, k)])
                           = SumFunctionOnSet(TakenBy(transfer, k), ShippingIn(transfer))
                      /\ Paid(k) = SumFunctionOnSet(PaidFor(issue, paid, k), IssueId)
    BY DEF DriftExplained, Explained
  <2> DEFINE P == ShippingIn(transfer)
             f == TakenBy(transfer, k)
             g == [t \in P |-> Takes(transfer[t].body, k)]
  <2>1. SumFunction(g) = SumFunctionOnSet(f, P)
    <3>1. IsFiniteSet(P) /\ \A t \in P : f[t] \in Int /\ f[t] = g[t]
      BY TakenByType DEF Explained, Fits
    <3>2. SumFunction(g) = SumFunctionOnSet(g, P)
      BY DEF SumFunction
    <3> HIDE DEF P, f, g
    <3> QED
      BY <3>1, <3>2, SumEqual
  <2>2. Shipping = P
    BY DEF Shipping, ShippingIn
  <2> DEFINE T == {j \in IssueId \ Unused : issue[j].key = k}
             p == PaidFor(issue, paid, k)
             q == [i \in T |-> SumFunction(paid[i])]
  <2>3. SumFunction(q) = SumFunctionOnSet(p, IssueId)
    <3>1. T \in SUBSET IssueId
      OBVIOUS
    <3>2. /\ \A i \in IssueId : p[i] \in Int
          /\ \A i \in T : p[i] = q[i]
          /\ \A i \in IssueId \ T : p[i] = 0
      <4>1. \A i \in IssueId : p[i] \in Int
        BY PaidForType DEF Fits
      <4> QED
        BY <4>1 DEF PaidFor, Unused
    <3>3. SumFunction(q) = SumFunctionOnSet(q, T)
      BY DEF SumFunction
    <3> HIDE DEF T, p, q
    <3>4. SumFunctionOnSet(p, IssueId) = SumFunctionOnSet(p, T)
      BY <3>1, <3>2, IssuesFinite, SumPart
    <3>5. IsFiniteSet(T) /\ \A i \in T : p[i] \in Int /\ p[i] = q[i]
      BY <3>1, <3>2, IssuesFinite, FS_Subset
    <3> QED
      BY <3>3, <3>4, <3>5, SumEqual
  <2> QED
    BY <2>1, <2>2, <2>3 DEF Paid
<1> DEFINE IInv == Fits /\ Explained
<1>2. ReconInit => IInv
  BY InitFits, InitExplained
<1>3. IInv /\ [ReconNext]_vars => IInv'
  BY NextFits, NextExplained
<1>4. IInv => DriftExplained
  BY <1>1
<1> QED
  BY <1>2, <1>3, <1>4, PTL DEF ReconSpec
=============================================================================
