------------------------ MODULE StockTransfersProofs ------------------------
(***************************************************************************)
(* Theorems about StockTransfers, for any branches, components, sessions,  *)
(* requests and any traffic mix.                                           *)
(***************************************************************************)
EXTENDS StockTransfers, WellFoundedInduction, SumTheorems, TLAPS

USE TablesAssumption, SessionAssumption

\* The request a transaction serves fits the statement it is at.
JobFits ==
  \A s \in Session :
    /\ pc[s] = "reserve" => job[s] \in TransferJob /\ job[s].op = "create"
    /\ pc[s] \in {"check", "debit", "credit"} =>
         job[s] \in TransferJob /\ job[s].op = "approve"
    /\ pc[s] = "release" =>
         job[s] \in TransferJob /\ job[s].op \in {"reject", "cancel"}
    /\ pc[s] = "adjust" => job[s] \in AdjustJob

\* A pending transfer has a body.
PendingHasBody ==
  \A t \in TransferId : transfer[t].status = "PENDING" => transfer[t].body \in Request

Typed == TypeOK /\ JobFits /\ PendingHasBody

-----------------------------------------------------------------------------
(* Type correctness. *)

LEMMA RequestType ==
  ASSUME NEW r \in Request
  PROVE  /\ r.from \in Branch
         /\ r.to \in Branch
         /\ r.items \in Seq(Item)
BY DEF TransferBody

LEMMA ArrangementType ==
  ASSUME NEW items \in Seq(Item), NEW a \in Arrangements(items)
  PROVE  a \in Seq(Item)
<1>1. PICK o \in Bijection(DOMAIN items, DOMAIN items) :
        a = [i \in DOMAIN items |-> items[o[i]]]
  BY DEF Arrangements
<1>2. o \in [DOMAIN items -> DOMAIN items]
  BY DEF Bijection, Injection
<1>3. DOMAIN items = 1 .. Len(items) /\ Len(items) \in Nat
  OBVIOUS
<1>4. a \in [1 .. Len(items) -> Item]
  BY <1>1, <1>2, <1>3
<1> QED
  BY <1>3, <1>4

\* The row and the amount of a loop iteration.
LEMMA ItemType ==
  ASSUME Typed, NEW s \in Session, pc[s] # "adjust", pc[s] # "idle", todo[s] # <<>>
  PROVE  /\ Source(s) \in Key
         /\ Dest(s) \in Key
         /\ Amount(s) \in Nat \ {0}
         /\ Tail(todo[s]) \in Seq(Item)
<1>1. job[s].request \in Request
  BY DEF Typed, TypeOK, JobFits, TransferJob
<1>2. todo[s] \in Seq(Item)
  BY DEF Typed, TypeOK
<1>3. Head(todo[s]) \in Item /\ Tail(todo[s]) \in Seq(Item)
  BY <1>2
<1> QED
  BY <1>1, <1>3, RequestType DEF Source, Dest, Amount, Key, Item

LEMMA LedgerType ==
  ASSUME NEW e \in Ledger, NEW a \in Account, NEW k \in Key, NEW n \in Int
  PROVE  /\ e[a][k] \in Int
         /\ [e EXCEPT ![a][k] = n] \in Ledger
BY DEF Ledger

LEMMA NothingType == Nothing \in Ledger
BY DEF Nothing, Ledger

LEMMA AccountNames ==
  /\ "quantity" \in Account /\ "reserved" \in Account
  /\ "IMPORT_IN" \in Account /\ "ADJUSTMENT" \in Account
  /\ "TRANSFER_OUT" \in Account /\ "TRANSFER_IN" \in Account
  /\ "RESERVATION_CREATED" \in Account /\ "RESERVATION_RELEASED" \in Account
BY DEF Account, Movement

LEMMA InitTyped == Init => Typed
<1> SUFFICES ASSUME Init PROVE Typed
  OBVIOUS
<1>1. book \in Ledger
  <2>1. Opening \in [Key -> Int]
    OBVIOUS
  <2>2. [Nothing EXCEPT !["quantity"] = Opening] \in Ledger
    BY <2>1, NothingType DEF Ledger
  <2> QED
    BY <2>1, <2>2 DEF Init, Ledger
<1>2. PendingHasBody /\ JobFits
  BY DEF Init, PendingHasBody, JobFits
<1>3. tx \in [Session -> Ledger]
  BY NothingType DEF Init
<1>4. transfer \in [TransferId -> [status : Status, body : Request \cup {NoBody}]]
  BY DEF Init, Status
<1> QED
  BY <1>1, <1>2, <1>3, <1>4 DEF Typed, TypeOK, Init

\* A transaction's end, with or without its writes.
LEMMA EndTyped ==
  ASSUME Typed, NEW s \in Session, End(s), book' \in Ledger,
         transfer' \in [TransferId -> [status : Status, body : Request \cup {NoBody}]],
         PendingHasBody'
  PROVE  Typed'
<1>1. TypeOK'
  BY NothingType DEF Typed, TypeOK, End
<1>2. JobFits'
  BY DEF Typed, TypeOK, JobFits, End
<1> QED
  BY <1>1, <1>2 DEF Typed

LEMMA CommitBook ==
  ASSUME Typed, NEW s \in Session, Commit(s)
  PROVE  /\ book' \in Ledger
         /\ \A a \in Account, k \in Key : book'[a][k] = book[a][k] + tx[s][a][k]
BY DEF Typed, TypeOK, Commit, Visible, Ledger

LEMMA RollbackTyped ==
  ASSUME Typed, NEW s \in Session, Rollback(s)
  PROVE  Typed'
<1>1. PendingHasBody'
  BY DEF Rollback, Typed, PendingHasBody
<1> QED
  BY <1>1, EndTyped DEF Rollback, Typed, TypeOK

LEMMA BeginTyped ==
  ASSUME Typed, NEW s \in Session,
         NEW at \in {"reserve", "check", "release", "adjust"},
         NEW j, NEW items \in Seq(Item), Begin(s, at, j, items),
         \/ at = "reserve" /\ j \in TransferJob /\ j.op = "create"
         \/ at = "check" /\ j \in TransferJob /\ j.op = "approve"
         \/ at = "release" /\ j \in TransferJob /\ j.op \in {"reject", "cancel"}
         \/ at = "adjust" /\ j \in AdjustJob
  PROVE  Typed'
<1>1. TypeOK'
  BY DEF Typed, TypeOK, Begin
<1>2. JobFits'
  BY DEF Typed, TypeOK, JobFits, Begin
<1>3. PendingHasBody'
  BY DEF Typed, PendingHasBody, Begin
<1> QED
  BY <1>1, <1>2, <1>3 DEF Typed

\* A step inside a transfer's loop: it changes no committed row and no job.
LEMMA LoopTyped ==
  ASSUME Typed, NEW s \in Session, UNCHANGED <<book, transfer, job>>,
         lock' \in [Key -> Session \cup {NoSession}],
         NEW items \in Seq(Item), todo' = [todo EXCEPT ![s] = items],
         NEW e \in Ledger, tx' = [tx EXCEPT ![s] = e],
         NEW at, pc' = [pc EXCEPT ![s] = at],
         \/ at \in {"check", "debit", "credit"} /\ pc[s] \in {"check", "debit", "credit"}
         \/ at = pc[s] /\ pc[s] \in {"reserve", "release"}
  PROVE  Typed'
<1>1. TypeOK'
  BY DEF Typed, TypeOK
<1>2. JobFits'
  BY DEF Typed, TypeOK, JobFits
<1>3. PendingHasBody'
  BY DEF Typed, PendingHasBody
<1> QED
  BY <1>1, <1>2, <1>3 DEF Typed

LEMMA StartTyped ==
  ASSUME Typed, NEW s \in Session, Start(s)
  PROVE  Typed'
<1>1. CASE BeginCreate(s)
  <2>0. PICK t \in TransferId, r \in Request :
          \E items \in LockOrder(r.items) :
            Begin(s, "reserve", [op |-> "create", id |-> t, request |-> r], items)
    BY <1>1 DEF BeginCreate
  <2>1. PICK items \in LockOrder(r.items) :
          Begin(s, "reserve", [op |-> "create", id |-> t, request |-> r], items)
    BY <2>0
  <2>2. items \in Seq(Item)
    BY RequestType, ArrangementType DEF LockOrder
  <2> QED
    BY <2>1, <2>2, BeginTyped DEF TransferJob, Operation
<1>2. ASSUME NEW op \in {"approve", "reject", "cancel"},
             NEW at, at = IF op = "approve" THEN "check" ELSE "release",
             BeginDecision(s, op, at)
      PROVE  Typed'
  <2>1. PICK t \in TransferId :
          /\ transfer[t].status = "PENDING"
          /\ \E items \in Arrangements(transfer[t].body.items) :
               Begin(s, at, [op |-> op, id |-> t, request |-> transfer[t].body], items)
    BY <1>2 DEF BeginDecision
  <2>2. transfer[t].body \in Request
    BY <2>1 DEF Typed, PendingHasBody
  <2>3. PICK items \in Arrangements(transfer[t].body.items) :
          Begin(s, at, [op |-> op, id |-> t, request |-> transfer[t].body], items)
    BY <2>1
  <2>4. items \in Seq(Item)
    BY <2>2, RequestType, ArrangementType
  <2> QED
    BY <1>2, <2>2, <2>3, <2>4, BeginTyped DEF TransferJob, Operation
<1>3. CASE BeginApprove(s)
  BY <1>2, <1>3 DEF BeginApprove
<1>4. CASE BeginRelease(s)
  BY <1>2, <1>4 DEF BeginRelease
<1>5. CASE BeginAdjust(s)
  <2>1. PICK k \in Key, change \in Adjustment :
          Begin(s, "adjust", [op |-> "adjust", key |-> k, change |-> change], <<>>)
    BY <1>5 DEF BeginAdjust
  <2>2. <<>> \in Seq(Item)
    OBVIOUS
  <2> QED
    BY <2>1, <2>2, BeginTyped DEF AdjustJob
<1> QED
  BY <1>1, <1>3, <1>4, <1>5 DEF Start

\* The changes of the statements.
Changes ==
  UNION {[quantity : Int, reserved : Int, TRANSFER_OUT : Int],
         [quantity : Int, TRANSFER_IN : Int],
         [quantity : Int, ADJUSTMENT : Int],
         [reserved : Int, RESERVATION_CREATED : Int],
         [reserved : Int, RESERVATION_RELEASED : Int]}

LEMMA PostType ==
  ASSUME NEW e \in Ledger, NEW k \in Key, NEW change \in Changes
  PROVE  Post(e, k, change) \in Ledger
<1>1. \A a \in DOMAIN change : change[a] \in Int
  BY DEF Changes
<1> QED
  BY <1>1 DEF Post, Ledger

LEMMA WriteType ==
  ASSUME Typed, NEW s \in Session, NEW k \in Key, NEW change \in Changes,
         Write(s, k, change)
  PROVE  /\ lock' \in [Key -> Session \cup {NoSession}]
         /\ Post(tx[s], k, change) \in Ledger
         /\ tx' = [tx EXCEPT ![s] = Post(tx[s], k, change)]
BY PostType DEF Typed, TypeOK, Write

LEMMA StepTyped ==
  ASSUME Typed, NEW s \in Session, Step(s)
  PROVE  Typed'
<1> USE DEF At
<1>1. CASE ReserveItem(s)
  <2>1. [reserved |-> Amount(s), RESERVATION_CREATED |-> Amount(s)] \in Changes
    BY <1>1, ItemType DEF ReserveItem, Changes
  <2> QED
    BY <1>1, <2>1, ItemType, WriteType, LoopTyped DEF ReserveItem, NextItem
<1>2. CASE ReserveShort(s)
  BY <1>2, RollbackTyped DEF ReserveShort
<1>3. CASE InsertTransfer(s)
  <2>1. job[s].id \in TransferId /\ job[s].request \in Request
    BY <1>3 DEF InsertTransfer, Typed, JobFits, TransferJob
  <2>2. transfer' \in [TransferId -> [status : Status, body : Request \cup {NoBody}]]
    BY <1>3, <2>1 DEF InsertTransfer, Typed, TypeOK, Status
  <2>3. PendingHasBody'
    BY <1>3, <2>1 DEF InsertTransfer, Typed, TypeOK, PendingHasBody
  <2> QED
    BY <1>3, <2>2, <2>3, CommitBook, EndTyped DEF InsertTransfer, Commit
<1>4. CASE CheckSource(s)
  <2>1. TypeOK'
    BY <1>4 DEF CheckSource, Typed, TypeOK
  <2>2. JobFits'
    BY <1>4 DEF CheckSource, Typed, TypeOK, JobFits
  <2>3. PendingHasBody'
    BY <1>4 DEF CheckSource, Typed, PendingHasBody
  <2> QED
    BY <2>1, <2>2, <2>3 DEF Typed
<1>5. CASE CheckFails(s)
  BY <1>5, RollbackTyped DEF CheckFails
<1>6. CASE DebitSource(s)
  <2>1. [quantity |-> -Amount(s), reserved |-> -Amount(s),
         TRANSFER_OUT |-> -Amount(s)] \in Changes
    BY <1>6, ItemType DEF DebitSource, Changes
  <2>2. todo' = [todo EXCEPT ![s] = todo[s]] /\ todo[s] \in Seq(Item)
    BY <1>6 DEF DebitSource, Typed, TypeOK
  <2> QED
    BY <1>6, <2>1, <2>2, ItemType, WriteType, LoopTyped DEF DebitSource
<1>7. CASE DebitViolatesCheck(s)
  BY <1>7, RollbackTyped DEF DebitViolatesCheck
<1>8. CASE CreditDest(s)
  <2>1. [quantity |-> Amount(s), TRANSFER_IN |-> Amount(s)] \in Changes
    BY <1>8, ItemType DEF CreditDest, Changes
  <2> QED
    BY <1>8, <2>1, ItemType, WriteType, LoopTyped DEF CreditDest, NextItem
<1>9. CASE CreditViolatesCheck(s)
  BY <1>9, RollbackTyped DEF CreditViolatesCheck
<1>10. CASE ReleaseItem(s)
  <2>1. [reserved |-> -Amount(s), RESERVATION_RELEASED |-> -Amount(s)] \in Changes
    BY <1>10, ItemType DEF ReleaseItem, Changes
  <2> QED
    BY <1>10, <2>1, ItemType, WriteType, LoopTyped DEF ReleaseItem, NextItem
<1>11. CASE ReleaseViolatesCheck(s)
  BY <1>11, RollbackTyped DEF ReleaseViolatesCheck
<1>12. CASE FinishDecision(s)
  <2>1. /\ job[s].id \in TransferId
        /\ job[s].op \in {"approve", "reject", "cancel"}
    BY <1>12 DEF FinishDecision, Typed, JobFits, TransferJob
  <2>2. Outcome(job[s].op) \in Terminal
    BY <2>1 DEF Outcome, Terminal
  <2>3. transfer' \in [TransferId -> [status : Status, body : Request \cup {NoBody}]]
    BY <1>12, <2>1, <2>2 DEF FinishDecision, Typed, TypeOK, Status
  <2>4. PendingHasBody'
    BY <1>12, <2>1, <2>2 DEF FinishDecision, Typed, TypeOK, PendingHasBody, Terminal
  <2> QED
    BY <1>12, <2>3, <2>4, CommitBook, EndTyped DEF FinishDecision, Commit
<1>13. CASE ApplyAdjust(s)
  <2>1. job[s].key \in Key /\ job[s].change \in Int
    BY <1>13 DEF ApplyAdjust, Typed, JobFits, AdjustJob
  <2>2. [quantity |-> job[s].change, ADJUSTMENT |-> job[s].change] \in Changes
    BY <2>1 DEF Changes
  <2>3. book' \in Ledger
    BY <1>13, <2>1, <2>2, PostType DEF ApplyAdjust, Typed, TypeOK
  <2>4. PendingHasBody'
    BY <1>13 DEF ApplyAdjust, Typed, PendingHasBody
  <2> QED
    BY <1>13, <2>3, <2>4, EndTyped DEF ApplyAdjust, Typed, TypeOK
<1>14. CASE AdjustViolatesCheck(s)
  BY <1>14, RollbackTyped DEF AdjustViolatesCheck
<1> QED
  BY <1>1, <1>2, <1>3, <1>4, <1>5, <1>6, <1>7, <1>8, <1>9, <1>10, <1>11, <1>12,
     <1>13, <1>14 DEF Step

LEMMA NextTyped == Typed /\ [Next]_vars => Typed'
<1> SUFFICES ASSUME Typed, [Next]_vars PROVE Typed'
  OBVIOUS
<1>1. CASE Next
  BY <1>1, StartTyped, StepTyped, RollbackTyped DEF Next, Abort, DeadlockAbort
<1>2. CASE UNCHANGED vars
  BY <1>2 DEF vars, Typed, TypeOK, JobFits, PendingHasBody
<1> QED
  BY <1>1, <1>2

\* Every reachable state is well typed: a transaction in flight always serves
\* a well-formed request (all of StockTransfers).
THEOREM TypeCorrect == Spec => []TypeOK
<1>1. Typed => TypeOK
  BY DEF Typed
<1> QED
  BY <1>1, InitTyped, NextTyped, PTL DEF Spec

-----------------------------------------------------------------------------
(* Bounds and ledgers. *)

\* The inductive invariant.  The bounds of the committed rows alone are not
\* inductive: a commit adds what the transaction wrote earlier, so the rows
\* must also fit as each transaction sees them, and its differences must be
\* confined to rows that nobody else can have changed meanwhile.
AllBalanced ==
  /\ QuantityBalanced(book) /\ ReservedBalanced(book)
  /\ \A s \in Session : QuantityBalanced(tx[s]) /\ ReservedBalanced(tx[s])

Safe == Typed /\ OwnRows /\ AllBalanced /\ StockBounds /\ SeenFits

LEMMA InitSafe == Init => Safe
<1> SUFFICES ASSUME Init PROVE Safe
  OBVIOUS
<1>1. Typed
  BY InitTyped
<1>2. OwnRows
  BY DEF Init, OwnRows, Nothing
<1>3. \A a \in Account, k \in Key :
        book[a][k] = IF a \in {"quantity", "IMPORT_IN"} THEN Opening[k] ELSE 0
  BY DEF Init, Nothing, Account, Movement
<1>4. \A s \in Session, a \in Account, k \in Key : tx[s][a][k] = 0
  BY DEF Init, Nothing
<1>5. AllBalanced
  BY <1>3, <1>4, AccountNames DEF AllBalanced, QuantityBalanced, ReservedBalanced
<1>6. StockBounds /\ SeenFits
  BY <1>3, <1>4, AccountNames DEF StockBounds, SeenFits, Visible, RowFits
<1> QED
  BY <1>1, <1>2, <1>5, <1>6 DEF Safe

\* Nobody else has changed a row that is free for a session.
LEMMA OthersLeaveFreeRows ==
  ASSUME Safe, NEW s \in Session, NEW k \in Key, Free(s, k),
         NEW r \in Session, r # s, NEW a \in Account
  PROVE  tx[r][a][k] = 0
BY DEF Safe, OwnRows, Free

LEMMA NothingIsZero ==
  \A a \in Account, k \in Key : Nothing[a][k] = 0
BY DEF Nothing

\* Nothing written is committed: what others see does not change.
LEMMA RollbackSafe ==
  ASSUME Safe, NEW s \in Session, Rollback(s)
  PROVE  Safe'
<1>1. Typed'
  BY RollbackTyped DEF Safe
<1>2. /\ book' = book
      /\ \A r \in Session : tx'[r] = IF r = s THEN Nothing ELSE tx[r]
      /\ \A r \in Session : pc'[r] = IF r = s THEN "idle" ELSE pc[r]
      /\ \A k \in Key : lock[k] # s => lock'[k] = lock[k]
  BY DEF Rollback, End, Safe, Typed, TypeOK
<1>3. OwnRows'
  BY <1>2, NothingIsZero DEF OwnRows, Safe
<1>4. QuantityBalanced(Nothing) /\ ReservedBalanced(Nothing)
  BY NothingIsZero, AccountNames DEF QuantityBalanced, ReservedBalanced
<1>5. AllBalanced'
  BY <1>2, <1>4 DEF AllBalanced, QuantityBalanced, ReservedBalanced, Safe
<1>6. StockBounds'
  BY <1>2 DEF StockBounds, Safe
<1>7. SeenFits'
  <2> SUFFICES ASSUME NEW r \in Session, NEW k \in Key
               PROVE RowFits(Visible(r, "quantity", k), Visible(r, "reserved", k))'
    BY DEF SeenFits
  <2>1. book["quantity"][k] \in Int /\ book["reserved"][k] \in Int
    BY AccountNames DEF Safe, Typed, TypeOK, Ledger
  <2>2. CASE r = s
    BY <1>2, <2>1, <2>2, NothingIsZero, AccountNames DEF Visible, Safe, StockBounds
  <2>3. CASE r # s
    BY <1>2, <2>3 DEF Visible, Safe, SeenFits
  <2> QED
    BY <2>2, <2>3
<1> QED
  BY <1>1, <1>3, <1>5, <1>6, <1>7 DEF Safe

\* A commit publishes the transaction's differences; the rows it changed are
\* its own, so the others see the rows they saw, or the rows it saw.
LEMMA CommitSafe ==
  ASSUME Safe, NEW s \in Session, Commit(s), Typed'
  PROVE  Safe'
<1>1. /\ \A a \in Account, k \in Key : book'[a][k] = book[a][k] + tx[s][a][k]
      /\ \A r \in Session : tx'[r] = IF r = s THEN Nothing ELSE tx[r]
      /\ \A r \in Session : pc'[r] = IF r = s THEN "idle" ELSE pc[r]
      /\ \A k \in Key : lock[k] # s => lock'[k] = lock[k]
  BY CommitBook DEF Commit, End, Safe, Typed, TypeOK
<1>2. OwnRows'
  BY <1>1, NothingIsZero DEF OwnRows, Safe
<1>3. \A r \in Session, a \in Account, k \in Key :
        tx[r][a][k] \in Int /\ book[a][k] \in Int
  BY DEF Safe, Typed, TypeOK, Ledger
<1>4. AllBalanced'
  <2>1. QuantityBalanced(book') /\ ReservedBalanced(book')
    BY <1>1, <1>3, AccountNames
       DEF AllBalanced, QuantityBalanced, ReservedBalanced, Safe
  <2>2. \A r \in Session : QuantityBalanced(tx'[r]) /\ ReservedBalanced(tx'[r])
    BY <1>1, NothingIsZero, AccountNames
       DEF AllBalanced, QuantityBalanced, ReservedBalanced, Safe
  <2> QED
    BY <2>1, <2>2 DEF AllBalanced, QuantityBalanced, ReservedBalanced
<1>5. \A k \in Key : /\ book'["quantity"][k] = Visible(s, "quantity", k)
                     /\ book'["reserved"][k] = Visible(s, "reserved", k)
  BY <1>1, AccountNames DEF Visible
<1>6. StockBounds'
  BY <1>5 DEF StockBounds, SeenFits, Safe
<1>7. SeenFits'
  <2> SUFFICES ASSUME NEW r \in Session, NEW k \in Key
               PROVE RowFits(Visible(r, "quantity", k), Visible(r, "reserved", k))'
    BY DEF SeenFits
  <2>1. CASE r = s \/ lock[k] # r
    <3>1. tx'[r]["quantity"][k] = 0 /\ tx'[r]["reserved"][k] = 0
      BY <1>1, <2>1, NothingIsZero, AccountNames DEF Safe, OwnRows
    <3>2. /\ Visible(r, "quantity", k)' = book'["quantity"][k]
          /\ Visible(r, "reserved", k)' = book'["reserved"][k]
      BY <1>1, <1>3, <3>1, AccountNames DEF Visible
    <3> QED
      BY <1>6, <3>2 DEF StockBounds
  <2>2. CASE r # s /\ lock[k] = r
    <3>1. tx[s]["quantity"][k] = 0 /\ tx[s]["reserved"][k] = 0
      BY <2>2, AccountNames DEF Safe, OwnRows
    <3>2. /\ Visible(r, "quantity", k)' = Visible(r, "quantity", k)
          /\ Visible(r, "reserved", k)' = Visible(r, "reserved", k)
      BY <1>1, <1>3, <2>2, <3>1, AccountNames DEF Visible
    <3> QED
      BY <3>2 DEF SeenFits, Safe
  <2> QED
    BY <2>1, <2>2
<1> QED
  BY <1>2, <1>4, <1>6, <1>7 DEF Safe

\* The net change of quantity and reserved, and the movements that explain it.
Explained(change) ==
  LET of(a) == IF a \in DOMAIN change THEN change[a] ELSE 0 IN
  /\ of("quantity") = of("IMPORT_IN") + of("ADJUSTMENT")
                       + of("TRANSFER_OUT") + of("TRANSFER_IN")
  /\ of("reserved") = of("RESERVATION_CREATED") + of("RESERVATION_RELEASED")
                       + of("TRANSFER_OUT")

LEMMA PostValue ==
  ASSUME NEW e, NEW k \in Key, NEW change, NEW a \in Account, NEW l \in Key
  PROVE  Post(e, k, change)[a][l]
           = e[a][l] + IF l = k /\ a \in DOMAIN change THEN change[a] ELSE 0
BY DEF Post

LEMMA PostBalanced ==
  ASSUME NEW e \in Ledger, NEW k \in Key, NEW change \in Changes, Explained(change),
         QuantityBalanced(e), ReservedBalanced(e)
  PROVE  LET f == Post(e, k, change) IN QuantityBalanced(f) /\ ReservedBalanced(f)
<1> DEFINE of(a) == IF a \in DOMAIN change THEN change[a] ELSE 0
           f == Post(e, k, change)
<1>1. \A a \in Account, l \in Key :
        f[a][l] = e[a][l] + IF l = k THEN of(a) ELSE 0
  BY PostValue
<1>2. \A a \in Account : of(a) \in Int
  BY DEF Changes
<1>3. \A a \in Account, l \in Key : e[a][l] \in Int
  BY DEF Ledger
<1>4. /\ of("quantity") = of("IMPORT_IN") + of("ADJUSTMENT")
                          + of("TRANSFER_OUT") + of("TRANSFER_IN")
      /\ of("reserved") = of("RESERVATION_CREATED") + of("RESERVATION_RELEASED")
                          + of("TRANSFER_OUT")
  BY DEF Explained
<1> HIDE DEF f, of
<1>5. QuantityBalanced(f) /\ ReservedBalanced(f)
  BY <1>1, <1>2, <1>3, <1>4, AccountNames DEF QuantityBalanced, ReservedBalanced
<1> QED
  BY <1>5 DEF f

\* A statement of a transaction: the row is free for it, the change is
\* explained by movements and passes the CHECK constraints.
LEMMA WriteSafe ==
  ASSUME Safe, NEW s \in Session, NEW k \in Key, NEW change \in Changes,
         Free(s, k), Write(s, k, change), Explained(change), Typed',
         Fits(s, k, IF "quantity" \in DOMAIN change THEN change["quantity"] ELSE 0,
                    IF "reserved" \in DOMAIN change THEN change["reserved"] ELSE 0),
         book' = book,
         NEW at \in {"reserve", "check", "credit", "release"}, pc' = [pc EXCEPT ![s] = at]
  PROVE  Safe'
<1>1. /\ \A r \in Session : tx'[r] = IF r = s THEN Post(tx[s], k, change) ELSE tx[r]
      /\ \A r \in Session : pc'[r] = IF r = s THEN at ELSE pc[r]
      /\ \A l \in Key : lock'[l] = IF l = k THEN s ELSE lock[l]
  BY DEF Write, Safe, Typed, TypeOK
<1>2. tx[s] \in Ledger
  BY DEF Safe, Typed, TypeOK
<1>3. \A r \in Session, a \in Account, l \in Key :
        tx[r][a][l] \in Int /\ book[a][l] \in Int
  BY DEF Safe, Typed, TypeOK, Ledger
<1>4. OwnRows'
  <2> SUFFICES ASSUME NEW r \in Session
               PROVE /\ \A a \in Account, l \in Key : tx'[r][a][l] # 0 => lock'[l] = r
                     /\ pc'[r] \in {"idle", "adjust"} => tx'[r] = Nothing
    BY DEF OwnRows
  <2>1. CASE r = s
    <3>1. \A a \in Account, l \in Key : tx'[s][a][l] # 0 => lock'[l] = s
      BY <1>1, PostValue, <1>3 DEF Safe, OwnRows
    <3> QED
      BY <1>1, <2>1, <3>1
  <2>2. CASE r # s
    <3>1. \A a \in Account : tx[r][a][k] = 0
      BY <2>2, OthersLeaveFreeRows
    <3> QED
      BY <1>1, <2>2, <3>1 DEF Safe, OwnRows
  <2> QED
    BY <2>1, <2>2
<1>5. AllBalanced'
  BY <1>1, <1>2, PostBalanced, SMTT(30) DEF AllBalanced, QuantityBalanced, ReservedBalanced, Safe
<1>6. StockBounds'
  BY DEF StockBounds, Safe
<1>7. SeenFits'
  <2> SUFFICES ASSUME NEW r \in Session, NEW l \in Key
               PROVE RowFits(Visible(r, "quantity", l), Visible(r, "reserved", l))'
    BY DEF SeenFits
  <2>1. CASE r # s \/ l # k
    <3>1. tx'[r]["quantity"][l] = tx[r]["quantity"][l]
      BY <1>1, <1>3, <2>1, PostValue, AccountNames
    <3>2. tx'[r]["reserved"][l] = tx[r]["reserved"][l]
      BY <1>1, <1>3, <2>1, PostValue, AccountNames
    <3> QED
      BY <3>1, <3>2 DEF Visible, Safe, SeenFits
  <2>2. CASE r = s /\ l = k
    <3> DEFINE dq == IF "quantity" \in DOMAIN change THEN change["quantity"] ELSE 0
               dr == IF "reserved" \in DOMAIN change THEN change["reserved"] ELSE 0
    <3>1. dq \in Int /\ dr \in Int
      BY DEF Changes
    <3>2. tx'[s]["quantity"][k] = tx[s]["quantity"][k] + dq
      BY <1>1, PostValue, AccountNames
    <3>3. tx'[s]["reserved"][k] = tx[s]["reserved"][k] + dr
      BY <1>1, PostValue, AccountNames
    <3>4. RowFits(Visible(s, "quantity", k) + dq, Visible(s, "reserved", k) + dr)
      BY DEF Fits
    <3> HIDE DEF dq, dr
    <3>5. /\ Visible(s, "quantity", k)' = Visible(s, "quantity", k) + dq
          /\ Visible(s, "reserved", k)' = Visible(s, "reserved", k) + dr
      BY <1>3, <3>1, <3>2, <3>3, AccountNames DEF Visible
    <3> QED
      BY <2>2, <3>4, <3>5
  <2> QED
    BY <2>1, <2>2
<1> QED
  BY <1>4, <1>5, <1>6, <1>7 DEF Safe

\* A step that writes no row.
LEMMA ReadSafe ==
  ASSUME Safe, NEW s \in Session, Typed', UNCHANGED <<book, lock, tx>>,
         NEW at, pc' = [pc EXCEPT ![s] = at],
         at \in {"idle", "adjust"} => pc[s] = "idle"
  PROVE  Safe'
<1>1. OwnRows'
  BY DEF OwnRows, Safe, Typed, TypeOK
<1>2. AllBalanced' /\ StockBounds'
  BY DEF AllBalanced, QuantityBalanced, ReservedBalanced, StockBounds, Safe
<1>3. SeenFits'
  BY DEF SeenFits, Visible, Safe
<1> QED
  BY <1>1, <1>2, <1>3 DEF Safe

LEMMA StartSafe ==
  ASSUME Safe, NEW s \in Session, Start(s)
  PROVE  Safe'
<1>1. Typed'
  BY StartTyped DEF Safe
<1>2. \E at : \E j : \E items : Begin(s, at, j, items)
  BY DEF Start, BeginCreate, BeginApprove, BeginRelease, BeginDecision, BeginAdjust
<1> QED
  BY <1>1, <1>2, ReadSafe DEF Begin

\* The adjustment: a transaction that has written nothing writes one row and
\* commits at once.
LEMMA AdjustSafe ==
  ASSUME Safe, NEW s \in Session, ApplyAdjust(s), Typed'
  PROVE  Safe'
<1> DEFINE k == job[s].key
           n == job[s].change
           change == [quantity |-> n, ADJUSTMENT |-> n]
<1>1. k \in Key /\ n \in Int /\ Free(s, k) /\ Fits(s, k, n, 0)
  BY DEF ApplyAdjust, Safe, Typed, JobFits, AdjustJob
<1>2. /\ book' = Post(book, k, change)
      /\ \A r \in Session : tx'[r] = IF r = s THEN Nothing ELSE tx[r]
      /\ \A r \in Session : pc'[r] = IF r = s THEN "idle" ELSE pc[r]
      /\ \A l \in Key : lock[l] # s => lock'[l] = lock[l]
  BY DEF ApplyAdjust, End, Safe, Typed, TypeOK
<1>3. tx[s] = Nothing
  BY DEF ApplyAdjust, Safe, OwnRows
<1>4. change \in Changes /\ Explained(change)
  BY <1>1 DEF Changes, Explained
<1>5. book \in Ledger /\ \A r \in Session, a \in Account, l \in Key :
                           tx[r][a][l] \in Int /\ book[a][l] \in Int
  BY DEF Safe, Typed, TypeOK, Ledger
<1>6. OwnRows'
  BY <1>2, NothingIsZero DEF OwnRows, Safe
<1>7. AllBalanced'
  <2>1. QuantityBalanced(book') /\ ReservedBalanced(book')
    BY <1>1, <1>2, <1>4, <1>5, PostBalanced DEF AllBalanced, Safe
  <2>2. \A r \in Session : QuantityBalanced(tx'[r]) /\ ReservedBalanced(tx'[r])
    BY <1>2, NothingIsZero, AccountNames
       DEF AllBalanced, QuantityBalanced, ReservedBalanced, Safe
  <2> QED
    BY <2>1, <2>2 DEF AllBalanced, QuantityBalanced, ReservedBalanced
<1>8. \A l \in Key :
        /\ book'["quantity"][l] = book["quantity"][l] + IF l = k THEN n ELSE 0
        /\ book'["reserved"][l] = book["reserved"][l]
  BY <1>1, <1>2, <1>5, PostValue, AccountNames
<1> HIDE DEF k, n, change
<1>9. RowFits(book["quantity"][k] + n, book["reserved"][k])
  BY <1>1, <1>3, <1>5, NothingIsZero, AccountNames DEF Fits, Visible
<1>10. StockBounds'
  BY <1>1, <1>5, <1>8, <1>9, AccountNames DEF StockBounds, Safe
<1>11. SeenFits'
  <2> SUFFICES ASSUME NEW r \in Session, NEW l \in Key
               PROVE RowFits(Visible(r, "quantity", l), Visible(r, "reserved", l))'
    BY DEF SeenFits
  <2>1. CASE r = s \/ l = k
    <3>1. tx'[r]["quantity"][l] = 0 /\ tx'[r]["reserved"][l] = 0
      BY <1>1, <1>2, <2>1, OthersLeaveFreeRows, NothingIsZero, AccountNames
    <3>2. /\ Visible(r, "quantity", l)' = book'["quantity"][l]
          /\ Visible(r, "reserved", l)' = book'["reserved"][l]
      BY <1>1, <1>5, <1>8, <3>1, AccountNames DEF Visible
    <3> QED
      BY <1>10, <3>2 DEF StockBounds
  <2>2. CASE r # s /\ l # k
    <3>1. /\ Visible(r, "quantity", l)' = Visible(r, "quantity", l)
          /\ Visible(r, "reserved", l)' = Visible(r, "reserved", l)
      BY <1>2, <1>5, <1>8, <2>2, AccountNames DEF Visible
    <3> QED
      BY <3>1 DEF SeenFits, Safe
  <2> QED
    BY <2>1, <2>2
<1> QED
  BY <1>6, <1>7, <1>10, <1>11 DEF Safe

LEMMA StepSafe ==
  ASSUME Safe, NEW s \in Session, Step(s)
  PROVE  Safe'
<1> USE DEF At
<1>0. Typed /\ Typed'
  BY StepTyped DEF Safe
<1>1. CASE ReserveItem(s)
  <2> DEFINE change == [reserved |-> Amount(s), RESERVATION_CREATED |-> Amount(s)]
  <2>1. Source(s) \in Key /\ Amount(s) \in Nat \ {0}
    BY <1>0, <1>1, ItemType DEF ReserveItem
  <2>2. change \in Changes /\ Explained(change)
    BY <2>1 DEF Changes, Explained
  <2>3. Fits(s, Source(s), 0, Amount(s))
    <3>1. /\ RowFits(Visible(s, "quantity", Source(s)), Visible(s, "reserved", Source(s)))
          /\ Visible(s, "quantity", Source(s)) \in Int
          /\ Visible(s, "reserved", Source(s)) \in Int
      <4>1. RowFits(Visible(s, "quantity", Source(s)), Visible(s, "reserved", Source(s)))
        BY <2>1 DEF Safe, SeenFits
      <4>2. book \in Ledger /\ tx[s] \in Ledger
        BY <1>0 DEF Typed, TypeOK
      <4>3. \A a \in Account : Visible(s, a, Source(s)) \in Int
        BY <2>1, <4>2 DEF Visible, Ledger
      <4> QED
        BY <4>1, <4>3, AccountNames
    <3>2. Visible(s, "quantity", Source(s)) - Visible(s, "reserved", Source(s)) >= Amount(s)
      BY <1>1 DEF ReserveItem, Available
    <3> QED
      BY <2>1, <3>1, <3>2 DEF Fits, RowFits
  <2> QED
    BY <1>0, <1>1, <2>1, <2>2, <2>3, WriteSafe DEF ReserveItem, NextItem
<1>2. CASE DebitSource(s)
  <2> DEFINE change == [quantity |-> -Amount(s), reserved |-> -Amount(s),
                        TRANSFER_OUT |-> -Amount(s)]
  <2>1. Source(s) \in Key /\ Amount(s) \in Nat \ {0}
    BY <1>0, <1>2, ItemType DEF DebitSource
  <2>2. change \in Changes /\ Explained(change)
    BY <2>1 DEF Changes, Explained
  <2> QED
    BY <1>0, <1>2, <2>1, <2>2, WriteSafe DEF DebitSource
<1>3. CASE CreditDest(s)
  <2> DEFINE change == [quantity |-> Amount(s), TRANSFER_IN |-> Amount(s)]
  <2>1. Dest(s) \in Key /\ Amount(s) \in Nat \ {0}
    BY <1>0, <1>3, ItemType DEF CreditDest
  <2>2. change \in Changes /\ Explained(change)
    BY <2>1 DEF Changes, Explained
  <2> QED
    BY <1>0, <1>3, <2>1, <2>2, WriteSafe DEF CreditDest, NextItem
<1>4. CASE ReleaseItem(s)
  <2> DEFINE change == [reserved |-> -Amount(s), RESERVATION_RELEASED |-> -Amount(s)]
  <2>1. Source(s) \in Key /\ Amount(s) \in Nat \ {0}
    BY <1>0, <1>4, ItemType DEF ReleaseItem
  <2>2. change \in Changes /\ Explained(change)
    BY <2>1 DEF Changes, Explained
  <2> QED
    BY <1>0, <1>4, <2>1, <2>2, WriteSafe DEF ReleaseItem, NextItem
<1>5. CASE InsertTransfer(s) \/ FinishDecision(s)
  BY <1>0, <1>5, CommitSafe DEF InsertTransfer, FinishDecision
<1>6. CASE CheckSource(s)
  BY <1>0, <1>6, ReadSafe DEF CheckSource
<1>7. CASE ApplyAdjust(s)
  BY <1>0, <1>7, AdjustSafe
<1>8. CASE \/ ReserveShort(s) \/ CheckFails(s) \/ DebitViolatesCheck(s)
           \/ CreditViolatesCheck(s) \/ ReleaseViolatesCheck(s)
           \/ AdjustViolatesCheck(s)
  BY <1>8, RollbackSafe DEF ReserveShort, CheckFails, DebitViolatesCheck,
     CreditViolatesCheck, ReleaseViolatesCheck, AdjustViolatesCheck
<1> QED
  BY <1>1, <1>2, <1>3, <1>4, <1>5, <1>6, <1>7, <1>8 DEF Step

LEMMA NextSafe == Safe /\ [Next]_vars => Safe'
<1> SUFFICES ASSUME Safe, [Next]_vars PROVE Safe'
  OBVIOUS
<1>1. CASE Next
  BY <1>1, StartSafe, StepSafe, RollbackSafe DEF Next, Abort, DeadlockAbort
<1>2. CASE UNCHANGED vars
  <2>1. Typed'
    BY <1>2, NextTyped DEF Safe
  <2> QED
    BY <1>2, <2>1 DEF vars, Safe, OwnRows, AllBalanced, QuantityBalanced,
       ReservedBalanced, StockBounds, SeenFits, Visible
<1> QED
  BY <1>1, <1>2

LEMMA SafeAlways == Spec => []Safe
BY InitSafe, NextSafe, PTL DEF Spec

\* Whatever requests interleave, wait, abort or are lost, a committed row never
\* holds more reserved than it has in stock, and nothing is negative (the
\* conditional reservation of create, the checks of approve and adjust, and
\* the CHECK constraints).
THEOREM BoundsHold == Spec => []StockBounds
<1>1. Safe => StockBounds
  BY DEF Safe
<1> QED
  BY <1>1, SafeAlways, PTL

\* The quantity of every row is explained by its import, adjustment and
\* transfer movements: no update is lost and none goes without its movement.
THEOREM QuantityExplained == Spec => []QuantityLedger
<1>1. Safe => QuantityLedger
  BY DEF Safe, AllBalanced, QuantityLedger
<1> QED
  BY <1>1, SafeAlways, PTL

\* The reservation of every row is explained by the movements that created,
\* released and shipped it, even when two sessions decide one transfer.
THEOREM ReservedExplained == Spec => []ReservedLedger
<1>1. Safe => ReservedLedger
  BY DEF Safe, AllBalanced, ReservedLedger
<1> QED
  BY <1>1, SafeAlways, PTL

\* A transaction in flight has changed only rows it has locked.
THEOREM OwnRowsHold == Spec => []OwnRows
<1>1. Safe => OwnRows
  BY DEF Safe
<1> QED
  BY <1>1, SafeAlways, PTL

\* Every row satisfies the CHECK constraints as each transaction in flight sees
\* it, stale reads of approve and adjust notwithstanding.
THEOREM SeenFitsHold == Spec => []SeenFits
<1>1. Safe => SeenFits
  BY DEF Safe
<1> QED
  BY <1>1, SafeAlways, PTL

-----------------------------------------------------------------------------
(* Decisions. *)

Decision == {"approve", "reject", "cancel"}

\* Requests that decide transfers come in one at a time.
OneDecides ==
  \A r, s \in Session :
    Endpoint[r] \cap Decision # {} /\ Endpoint[s] \cap Decision # {} => r = s

Deciding(s) == pc[s] \in {"check", "debit", "credit", "release"}

\* The transfer being decided is still PENDING, those being created have ids of
\* their own that no row has.
Undecided ==
  \A s \in Session :
    /\ Deciding(s) => /\ transfer[job[s].id].status = "PENDING"
                      /\ Endpoint[s] \cap Decision # {}
    /\ pc[s] = "reserve" =>
         /\ transfer[job[s].id].status = "ABSENT"
         /\ \A r \in Session : r # s /\ pc[r] = "reserve" => job[r].id # job[s].id

LEMMA InitUndecided == Init => Undecided
BY DEF Init, Undecided, Deciding

\* A step of one session that leaves the transfers as they are and, at most,
\* ends its transaction.
LEMMA SameUndecided ==
  ASSUME Undecided, transfer' = transfer, NEW s \in Session,
         \A r \in Session : r # s => pc'[r] = pc[r] /\ job'[r] = job[r],
         \/ pc'[s] = "idle"
         \/ job'[s] = job[s] /\ pc[s] = "reserve" /\ pc'[s] = "reserve"
         \/ job'[s] = job[s] /\ Deciding(s) /\ Deciding(s)'
  PROVE  Undecided'
BY DEF Undecided, Deciding

LEMMA StartUndecided ==
  ASSUME Typed, Undecided, NEW s \in Session, Start(s)
  PROVE  Undecided'
<1>1. CASE BeginCreate(s)
  <2>1. PICK t \in TransferId, r \in Request :
          /\ Fresh(t)
          /\ \E items \in LockOrder(r.items) :
               Begin(s, "reserve", [op |-> "create", id |-> t, request |-> r], items)
    BY <1>1 DEF BeginCreate
  <2>2. /\ transfer' = transfer
        /\ pc' = [pc EXCEPT ![s] = "reserve"]
        /\ job' = [job EXCEPT ![s] = [op |-> "create", id |-> t, request |-> r]]
    BY <2>1 DEF Begin
  <2>3. /\ pc'[s] = "reserve" /\ job'[s].id = t
        /\ \A q \in Session : q # s => pc'[q] = pc[q] /\ job'[q] = job[q]
    BY <2>2 DEF Typed, TypeOK
  <2>4. /\ transfer[t].status = "ABSENT"
        /\ \A q \in Session : pc[q] = "reserve" => job[q].id # t
    BY <2>1 DEF Fresh, Typed, JobFits
  <2> QED
    BY <2>2, <2>3, <2>4 DEF Undecided, Deciding
<1>2. ASSUME NEW op \in Decision, NEW at \in {"check", "release"}, BeginDecision(s, op, at)
      PROVE  Undecided'
  <2>1. PICK t \in TransferId :
          /\ transfer[t].status = "PENDING"
          /\ \E items \in Arrangements(transfer[t].body.items) :
               Begin(s, at, [op |-> op, id |-> t, request |-> transfer[t].body], items)
    BY <1>2 DEF BeginDecision
  <2>2. /\ transfer' = transfer
        /\ pc' = [pc EXCEPT ![s] = at]
        /\ job' = [job EXCEPT ![s] = [op |-> op, id |-> t, request |-> transfer[t].body]]
    BY <2>1 DEF Begin
  <2>3. /\ pc'[s] = at /\ job'[s].id = t
        /\ \A q \in Session : q # s => pc'[q] = pc[q] /\ job'[q] = job[q]
    BY <2>2 DEF Typed, TypeOK
  <2>4. Endpoint[s] \cap Decision # {}
    BY <1>2 DEF BeginDecision
  <2> QED
    BY <2>1, <2>2, <2>3, <2>4 DEF Undecided, Deciding
<1>3. CASE BeginApprove(s)
  BY <1>2, <1>3 DEF BeginApprove, Decision
<1>4. CASE BeginRelease(s)
  BY <1>2, <1>4 DEF BeginRelease, Decision
<1>5. CASE BeginAdjust(s)
  <2>1. /\ transfer' = transfer /\ pc'[s] = "adjust"
        /\ \A q \in Session : q # s => pc'[q] = pc[q] /\ job'[q] = job[q]
    BY <1>5 DEF BeginAdjust, Begin, Typed, TypeOK
  <2> QED
    BY <2>1 DEF Undecided, Deciding
<1> QED
  BY <1>1, <1>3, <1>4, <1>5 DEF Start

\* The two commits that write the transfer.
LEMMA CommitUndecided ==
  ASSUME OneDecides, Typed, Undecided, NEW s \in Session,
         InsertTransfer(s) \/ FinishDecision(s)
  PROVE  /\ Undecided'
         /\ \A t \in TransferId :
              transfer[t].status \in Terminal => transfer'[t] = transfer[t]
<1>1. /\ \A r \in Session : r # s => pc'[r] = pc[r] /\ job'[r] = job[r]
      /\ pc'[s] = "idle"
  BY DEF InsertTransfer, FinishDecision, Commit, End, Typed, TypeOK
<1>2. /\ \A t \in TransferId : t # job[s].id => transfer'[t] = transfer[t]
      /\ \A r \in Session : Deciding(r) \/ pc[r] = "reserve" => job[r].id \in TransferId
  BY DEF InsertTransfer, FinishDecision, Typed, TypeOK, JobFits, TransferJob, Deciding
<1>3. CASE InsertTransfer(s)
  <2>1. pc[s] = "reserve" /\ transfer[job[s].id].status = "ABSENT"
    BY <1>3 DEF InsertTransfer, Undecided
  <2>2. \A r \in Session : r # s /\ (Deciding(r) \/ pc[r] = "reserve") => job[r].id # job[s].id
    BY <2>1 DEF Undecided
  <2> QED
    BY <1>1, <1>2, <2>1, <2>2 DEF Undecided, Deciding, Terminal
<1>4. CASE FinishDecision(s)
  <2>1. Deciding(s) /\ transfer[job[s].id].status = "PENDING"
    BY <1>4 DEF FinishDecision, Undecided, Deciding
  <2>2. \A r \in Session : r # s => ~Deciding(r)
    BY <2>1 DEF Undecided, OneDecides
  <2>3. \A r \in Session : pc[r] = "reserve" => job[r].id # job[s].id
    BY <2>1 DEF Undecided
  <2> QED
    BY <1>1, <1>2, <2>1, <2>2, <2>3 DEF Undecided, Deciding, Terminal
<1> QED
  BY <1>3, <1>4

\* Every other step of a transaction.
LEMMA OthersUndecided ==
  ASSUME Typed, Undecided, NEW s \in Session, Step(s) \/ Rollback(s),
         ~InsertTransfer(s), ~FinishDecision(s)
  PROVE  Undecided' /\ transfer' = transfer
<1>1. CASE Rollback(s)
  BY <1>1, SameUndecided DEF Rollback, End, Typed, TypeOK
<1>2. CASE ReserveItem(s) \/ ReleaseItem(s) \/ CreditDest(s)
  BY <1>2, SameUndecided DEF ReserveItem, ReleaseItem, CreditDest, NextItem, At, Deciding,
     Typed, TypeOK
<1>3. CASE CheckSource(s) \/ DebitSource(s)
  BY <1>3, SameUndecided DEF CheckSource, DebitSource, At, Deciding, Typed, TypeOK
<1>4. CASE ApplyAdjust(s)
  BY <1>4, SameUndecided DEF ApplyAdjust, End, Typed, TypeOK
<1> QED
  BY <1>1, <1>2, <1>3, <1>4 DEF Step, ReserveShort, CheckFails, DebitViolatesCheck,
     CreditViolatesCheck, ReleaseViolatesCheck, AdjustViolatesCheck

\* While decisions come one at a time, a decided transfer stays as it was
\* decided, whatever else goes on: the code checks the status and writes it in
\* one transaction, but does not lock the transfer in between.
THEOREM DecidedOnceAlways ==
  ASSUME OneDecides
  PROVE  Spec => DecidedOnce
<1> DEFINE IInv == Typed /\ Undecided
           Stays == \A t \in TransferId :
                      transfer[t].status \in Terminal => transfer'[t] = transfer[t]
<1>1. Init => IInv
  BY InitTyped, InitUndecided
<1>2. ASSUME IInv, Next PROVE Undecided' /\ Stays
  <2>1. PICK s \in Session : Start(s) \/ Step(s) \/ Rollback(s)
    BY <1>2 DEF Next, Abort, DeadlockAbort
  <2>2. CASE Start(s)
    BY <1>2, <2>2, StartUndecided
       DEF Start, BeginCreate, BeginApprove, BeginRelease, BeginDecision, BeginAdjust, Begin
  <2> QED
    BY <1>2, <2>1, <2>2, CommitUndecided, OthersUndecided
<1>3. IInv /\ UNCHANGED vars => Undecided'
  BY DEF vars, Undecided, Deciding
<1>4. IInv /\ [Next]_vars => IInv'
  BY <1>2, <1>3, NextTyped
<1>5. IInv /\ [Next]_vars => [Stays]_vars
  BY <1>2
<1> QED
  BY <1>1, <1>4, <1>5, PTL DEF Spec, DecidedOnce

-----------------------------------------------------------------------------
(* Lock order. *)

\* A session that creates has its remaining items in ascending order, and the
\* rows it has locked are rows of its own branch that come no later than those.
\* Sessions that are idle or about to adjust a row hold none.
LocksAscend ==
  \A s \in Session :
    /\ pc[s] = "reserve" =>
         /\ \A i, j \in DOMAIN todo[s] :
              i < j => todo[s][i].component <= todo[s][j].component
         /\ \A k \in Key : lock[k] = s =>
              /\ k[1] = job[s].request.from
              /\ \A i \in DOMAIN todo[s] : k[2] <= todo[s][i].component
    /\ pc[s] \in {"idle", "adjust"} => \A k \in Key : lock[k] # s

LEMMA InitAscend == Init => LocksAscend
BY DEF Init, LocksAscend

LEMMA EndAscend ==
  ASSUME Typed, LocksAscend, NEW s \in Session, End(s)
  PROVE  LocksAscend'
<1>1. /\ pc'[s] = "idle" /\ \A k \in Key : lock'[k] # s
      /\ \A r \in Session : r # s => pc'[r] = pc[r] /\ job'[r] = job[r] /\ todo'[r] = todo[r]
      /\ \A r \in Session, k \in Key : lock'[k] = r => lock[k] = r
  BY DEF End, Typed, TypeOK
<1> QED
  BY <1>1 DEF LocksAscend

LEMMA StartAscend ==
  ASSUME Typed, LocksAscend, NEW s \in Session, Start(s)
  PROVE  LocksAscend'
<1>1. CASE BeginCreate(s)
  <2>0. PICK t \in TransferId, r \in Request :
          \E items \in LockOrder(r.items) :
            Begin(s, "reserve", [op |-> "create", id |-> t, request |-> r], items)
    BY <1>1 DEF BeginCreate
  <2>1. PICK items \in LockOrder(r.items) :
          Begin(s, "reserve", [op |-> "create", id |-> t, request |-> r], items)
    BY <2>0
  <2>2. /\ \A i, j \in DOMAIN items : i < j => items[i].component <= items[j].component
        /\ pc[s] = "idle" /\ lock' = lock /\ pc'[s] = "reserve" /\ todo'[s] = items
        /\ \A q \in Session : q # s => pc'[q] = pc[q] /\ job'[q] = job[q] /\ todo'[q] = todo[q]
    BY <2>1 DEF Begin, LockOrder, Typed, TypeOK
  <2> QED
    BY <2>2 DEF LocksAscend
<1>2. CASE BeginApprove(s) \/ BeginRelease(s) \/ BeginAdjust(s)
  <2>1. /\ pc[s] = "idle" /\ lock' = lock /\ pc'[s] # "reserve"
        /\ \A q \in Session : q # s => pc'[q] = pc[q] /\ job'[q] = job[q] /\ todo'[q] = todo[q]
    BY <1>2 DEF BeginApprove, BeginRelease, BeginAdjust, BeginDecision, Begin, Typed, TypeOK
  <2> QED
    BY <2>1 DEF LocksAscend
<1> QED
  BY <1>1, <1>2 DEF Start

\* The head of a list that ascends is the least of it.
LEMMA TailAscends ==
  ASSUME NEW items \in Seq(Item), items # <<>>,
         \A i, j \in DOMAIN items : i < j => items[i].component <= items[j].component
  PROVE  /\ \A i, j \in DOMAIN Tail(items) :
              i < j => Tail(items)[i].component <= Tail(items)[j].component
         /\ \A i \in DOMAIN Tail(items) :
              Head(items).component <= Tail(items)[i].component
         /\ \A i \in DOMAIN Tail(items) : i + 1 \in DOMAIN items /\ Tail(items)[i] = items[i + 1]
<1>1. DOMAIN items = 1 .. Len(items) /\ Len(items) \in Nat \ {0} /\ Head(items) = items[1]
  OBVIOUS
<1>2. DOMAIN Tail(items) = 1 .. (Len(items) - 1)
  OBVIOUS
<1>3. \A i \in DOMAIN Tail(items) : i + 1 \in DOMAIN items /\ Tail(items)[i] = items[i + 1]
  BY <1>1, <1>2
<1> QED
  BY <1>1, <1>2, <1>3

LEMMA ReserveAscend ==
  ASSUME Typed, LocksAscend, NEW s \in Session, ReserveItem(s)
  PROVE  LocksAscend'
<1>1. pc[s] = "reserve" /\ todo[s] \in Seq(Item) /\ todo[s] # <<>> /\ Source(s) \in Key
  BY ItemType DEF ReserveItem, At, Typed, TypeOK
<1>2. /\ pc'[s] = "reserve" /\ job' = job /\ todo'[s] = Tail(todo[s])
      /\ \A r \in Session : r # s => pc'[r] = pc[r] /\ todo'[r] = todo[r]
      /\ \A k \in Key : lock'[k] = IF k = Source(s) THEN s ELSE lock[k]
  BY <1>1 DEF ReserveItem, NextItem, Write, Typed, TypeOK
<1> DEFINE rest == Tail(todo[s])
<1>3. /\ \A i, j \in DOMAIN rest : i < j => rest[i].component <= rest[j].component
      /\ \A i \in DOMAIN rest : Head(todo[s]).component <= rest[i].component
      /\ \A i \in DOMAIN rest : i + 1 \in DOMAIN todo[s] /\ rest[i] = todo[s][i + 1]
  BY <1>1, TailAscends DEF LocksAscend
<1>4. /\ Source(s)[1] = job[s].request.from
      /\ Source(s)[2] = Head(todo[s]).component
  BY DEF Source
<1> HIDE DEF rest
<1>5. ASSUME NEW k \in Key, lock'[k] = s
      PROVE  k[1] = job[s].request.from /\ \A i \in DOMAIN rest : k[2] <= rest[i].component
  <2>1. CASE k = Source(s)
    BY <2>1, <1>3, <1>4
  <2>2. CASE k # Source(s)
    <3>1. lock[k] = s
      BY <1>2, <1>5, <2>2
    <3> QED
      BY <3>1, <1>1, <1>3 DEF LocksAscend
  <2> QED
    BY <2>1, <2>2
<1>6. \A r \in Session, k \in Key : r # s /\ lock'[k] = r => lock[k] = r
  BY <1>2
<1>7. todo'[s] = rest
  BY <1>2 DEF rest
<1>8. ASSUME NEW r \in Session, r # s
      PROVE  /\ pc'[r] = "reserve" =>
                  /\ \A i, j \in DOMAIN todo'[r] :
                       i < j => todo'[r][i].component <= todo'[r][j].component
                  /\ \A k \in Key : lock'[k] = r =>
                       /\ k[1] = job'[r].request.from
                       /\ \A i \in DOMAIN todo'[r] : k[2] <= todo'[r][i].component
             /\ pc'[r] \in {"idle", "adjust"} => \A k \in Key : lock'[k] # r
  BY <1>2, <1>6, <1>8 DEF LocksAscend
<1> QED
  BY <1>2, <1>3, <1>5, <1>7, <1>8 DEF LocksAscend

\* Steps of a decision: the session holds whatever it holds, others hold no more.
LEMMA DecideAscend ==
  ASSUME Typed, LocksAscend, NEW s \in Session,
         CheckSource(s) \/ DebitSource(s) \/ CreditDest(s) \/ ReleaseItem(s)
  PROVE  LocksAscend'
<1>1. pc'[s] \in {"check", "debit", "credit", "release"}
  BY DEF CheckSource, DebitSource, CreditDest, ReleaseItem, NextItem, Typed, TypeOK
<1>2. /\ job' = job
      /\ \A r \in Session : r # s => pc'[r] = pc[r] /\ todo'[r] = todo[r]
  BY DEF CheckSource, DebitSource, CreditDest, ReleaseItem, NextItem, Typed, TypeOK
<1>3. \A r \in Session, k \in Key : r # s /\ lock'[k] = r => lock[k] = r
  BY DEF CheckSource, DebitSource, CreditDest, ReleaseItem, Write, Typed, TypeOK
<1> QED
  BY <1>1, <1>2, <1>3 DEF LocksAscend

LEMMA NextAscend ==
  ASSUME Typed, LocksAscend, [Next]_vars
  PROVE  LocksAscend'
<1>1. CASE UNCHANGED vars
  BY <1>1 DEF vars, LocksAscend
<1>2. ASSUME NEW s \in Session, Start(s) \/ Step(s) \/ Rollback(s) PROVE LocksAscend'
  BY <1>2, StartAscend, EndAscend, ReserveAscend, DecideAscend
     DEF Step, Rollback, Commit, ReserveShort, InsertTransfer, CheckFails, DebitViolatesCheck,
         CreditViolatesCheck, ReleaseViolatesCheck, FinishDecision, ApplyAdjust,
         AdjustViolatesCheck
<1> QED
  BY <1>1, <1>2 DEF Next, Abort, DeadlockAbort

\* The component of the row a create waits for.
Waited(s) == Head(todo[s]).component

\* A create waits for another only at a row before the one that it waits for.
LEMMA WaitsAscend ==
  ASSUME Typed, LocksAscend, NEW r \in Session, NEW s \in Session,
         pc[r] = "reserve", pc[s] = "reserve",
         s \in WaitsFor(r), WaitsFor(s) # {}
  PROVE  Waited(r) \in Nat /\ Waited(s) \in Nat /\ Waited(r) < Waited(s)
<1>1. /\ At(r, "reserve") /\ Wants(r) = {Source(r)}
      /\ At(s, "reserve") /\ Wants(s) = {Source(s)}
  BY DEF WaitsFor, Wants, At
<1>2. lock[Source(r)] = s /\ lock[Source(s)] # s
  BY <1>1 DEF WaitsFor
<1>3. /\ todo[s] \in Seq(Item) /\ todo[s] # <<>> /\ todo[r] \in Seq(Item) /\ todo[r] # <<>>
      /\ Source(r) \in Key /\ Source(s) \in Key
  BY <1>1, ItemType DEF At, Typed, TypeOK
<1>4. /\ Head(todo[s]) = todo[s][1] /\ 1 \in DOMAIN todo[s]
      /\ Head(todo[s]) \in Item /\ Head(todo[r]) \in Item
  BY <1>3
<1>5. Waited(r) \in Nat /\ Waited(s) \in Nat
  BY <1>4 DEF Waited, Item
<1>6. Source(r) = <<job[r].request.from, Waited(r)>> /\ Source(s) = <<job[s].request.from, Waited(s)>>
  BY DEF Source, Waited
<1>7. job[r].request.from = job[s].request.from /\ Waited(r) <= Waited(s)
  BY <1>2, <1>3, <1>4, <1>6 DEF LocksAscend, Waited
<1>8. Waited(r) # Waited(s)
  BY <1>2, <1>6, <1>7
<1> QED
  BY <1>5, <1>7, <1>8

LEMMA LeastNat ==
  ASSUME NEW T \in SUBSET Nat, T # {}
  PROVE  \E n \in T : \A m \in T : n <= m
<1>1. \E n \in T : \A m \in T : <<m, n>> \notin OpToRel(<, Nat)
  BY WFMin, NatLessThanWellFounded, Zenon
<1>2. \A m, n \in Nat : m < n => <<m, n>> \in OpToRel(<, Nat)
  BY DEF OpToRel
<1>3. \E n \in T : \A m \in T : ~(m < n)
  BY <1>1, <1>2, Zenon
<1> QED
  BY <1>3

\* Creates and adjustments never wait for each other in a circle, whatever
\* their number: along a circle of creates the row waited for would move on for
\* ever, and every circle has a first row.  ("A stable lock order" of create.)
THEOREM CreatesNeverDeadlockAlways == Spec => []CreatesNeverDeadlock
<1>1. Typed /\ LocksAscend => CreatesNeverDeadlock
  <2> SUFFICES ASSUME Typed, LocksAscend, NEW S \in SUBSET Session, WaitCycle(S),
                      \A s \in S : job[s].op \in {"create", "adjust"}
               PROVE  FALSE
    BY DEF CreatesNeverDeadlock
  <2>1. /\ S # {} /\ \A s \in S : WaitsFor(s) # {} /\ WaitsFor(s) \subseteq S
        /\ \A s \in S : \E r \in S : s \in WaitsFor(r)
    BY DEF WaitCycle
  <2>2. \A s \in S : \E k \in Key : lock[k] = s
    <3> SUFFICES ASSUME NEW r \in S, NEW s \in WaitsFor(r) PROVE \E k \in Key : lock[k] = s
      BY <2>1
    <3>1. PICK k \in Wants(r) : lock[k] = s
      BY DEF WaitsFor
    <3>2. k \in Key
      BY <3>1, ItemType DEF Wants, At, Typed, JobFits, AdjustJob
    <3> QED
      BY <3>1, <3>2
  <2>3. \A s \in S : pc[s] = "reserve"
    <3> SUFFICES ASSUME NEW s \in S PROVE pc[s] = "reserve"
      OBVIOUS
    <3>1. pc[s] \notin {"idle", "adjust"}
      BY <2>2 DEF LocksAscend
    <3>2. pc[s] \notin {"check", "debit", "credit", "release"}
      BY DEF Typed, JobFits
    <3> QED
      BY <3>1, <3>2 DEF Typed, TypeOK
  <2>4. \A r, s \in S : s \in WaitsFor(r) =>
          Waited(r) \in Nat /\ Waited(s) \in Nat /\ Waited(r) < Waited(s)
    BY <2>1, <2>3, WaitsAscend
  <2> DEFINE T == {Waited(s) : s \in S}
  <2>5. T \in SUBSET Nat /\ T # {}
    BY <2>1, <2>4
  <2>6. \E n \in T : \A m \in T : n <= m
    BY <2>5, LeastNat, Zenon
  <2>7. PICK s \in S : \A r \in S : Waited(s) <= Waited(r)
    BY <2>6
  <2>8. PICK r \in S : s \in WaitsFor(r)
    BY <2>1
  <2> QED
    BY <2>4, <2>7, <2>8
<1>2. Typed /\ LocksAscend /\ [Next]_vars => (Typed /\ LocksAscend)'
  BY NextTyped, NextAscend
<1> QED
  BY <1>1, <1>2, InitTyped, InitAscend, PTL DEF Spec

-----------------------------------------------------------------------------
(* The units of a transfer. *)

\* What each item of a transfer has of a component.
Counted(items, c) ==
  [i \in DOMAIN items |-> IF items[i].component = c THEN items[i].quantity ELSE 0]

LEMMA UnitsSum ==
  ASSUME NEW items \in Seq(Item), NEW c
  PROVE  /\ Units(items, c) = SumFunctionOnSet(Counted(items, c), 1 .. Len(items))
         /\ IsFiniteSet(1 .. Len(items))
         /\ \A i \in 1 .. Len(items) : Counted(items, c)[i] \in Int
<1>1. DOMAIN items = 1 .. Len(items) /\ Len(items) \in Nat
  OBVIOUS
<1>2. IsFiniteSet(1 .. Len(items))
  BY <1>1, FS_Interval
<1>3. \A i \in 1 .. Len(items) : Counted(items, c)[i] \in Int
  <2>1. \A i \in 1 .. Len(items) : items[i] \in Item
    BY <1>1
  <2> QED
    BY <1>1, <2>1 DEF Counted, Item
<1>4. DOMAIN Counted(items, c) = 1 .. Len(items)
  BY <1>1 DEF Counted
<1>5. Units(items, c) = SumFunction(Counted(items, c))
  BY DEF Units, Counted
<1> QED
  BY <1>2, <1>3, <1>4, <1>5 DEF SumFunction

LEMMA UnitsType ==
  ASSUME NEW items \in Seq(Item), NEW c
  PROVE  Units(items, c) \in Int
BY UnitsSum, SumType

LEMMA UnitsEmpty ==
  ASSUME NEW c
  PROVE  Units(<<>>, c) = 0
<1>1. <<>> \in Seq(Item) /\ 1 .. Len(<<>>) = {}
  OBVIOUS
<1> QED
  BY <1>1, UnitsSum, SumEmpty

\* A loop that takes one item after the other misses none.
LEMMA UnitsTail ==
  ASSUME NEW items \in Seq(Item), items # <<>>, NEW c
  PROVE  Units(items, c) = Units(Tail(items), c)
           + IF Head(items).component = c THEN Head(items).quantity ELSE 0
<1> DEFINE n == Len(items)
           rest == Tail(items)
           shift == [i \in 1 .. n - 1 |-> i + 1]
<1>1. /\ n \in Nat \ {0} /\ Head(items) = items[1] /\ rest \in Seq(Item)
      /\ DOMAIN items = 1 .. n /\ DOMAIN rest = 1 .. n - 1 /\ Len(rest) = n - 1
      /\ \A i \in 1 .. n - 1 : rest[i] = items[i + 1]
  OBVIOUS
<1>2. /\ Units(items, c) = SumFunctionOnSet(Counted(items, c), 1 .. n)
      /\ IsFiniteSet(1 .. n)
      /\ \A i \in 1 .. n : Counted(items, c)[i] \in Int
  BY UnitsSum
<1>3. /\ Units(rest, c) = SumFunctionOnSet(Counted(rest, c), 1 .. n - 1)
      /\ IsFiniteSet(1 .. n - 1)
      /\ \A i \in 1 .. n - 1 : Counted(rest, c)[i] \in Int
  BY <1>1, UnitsSum
<1>4. 1 \in 1 .. n
  BY <1>1
<1>5. Units(items, c) = Counted(items, c)[1]
                          + SumFunctionOnSet(Counted(items, c), (1 .. n) \ {1})
  BY <1>2, <1>4, SumTake
<1>6. shift \in Bijection(1 .. n - 1, (1 .. n) \ {1})
  <2>1. shift \in [1 .. n - 1 -> (1 .. n) \ {1}]
    BY <1>1
  <2>2. \A i, j \in 1 .. n - 1 : shift[i] = shift[j] => i = j
    BY <1>1
  <2>3. \A j \in (1 .. n) \ {1} : j - 1 \in 1 .. n - 1 /\ shift[j - 1] = j
    BY <1>1
  <2> QED
    BY <2>1, <2>2, <2>3 DEF Bijection, Injection, Surjection, IsInjective
<1>7. Units(rest, c) = SumFunctionOnSet(Counted(items, c), (1 .. n) \ {1})
  <2>1. \A i \in 1 .. n - 1 : /\ Counted(rest, c)[i] \in Int
                             /\ Counted(rest, c)[i] = Counted(items, c)[shift[i]]
    BY <1>1, <1>3 DEF Counted
  <2> DEFINE S == 1 .. n - 1
             T == (1 .. n) \ {1}
  <2>2. /\ IsFiniteSet(S) /\ shift \in Bijection(S, T)
        /\ \A i \in S : /\ Counted(rest, c)[i] \in Int
                        /\ Counted(rest, c)[i] = Counted(items, c)[shift[i]]
    BY <1>3, <1>6, <2>1
  <2> HIDE DEF shift, S, T
  <2>3. SumFunctionOnSet(Counted(rest, c), S) = SumFunctionOnSet(Counted(items, c), T)
    BY <2>2, SumMoved
  <2> QED
    BY <1>3, <2>3 DEF S, T
<1>8. Counted(items, c)[1] = IF Head(items).component = c THEN Head(items).quantity ELSE 0
  BY <1>1, <1>4 DEF Counted
<1>9. Units(rest, c) \in Int /\ Counted(items, c)[1] \in Int
  BY <1>1, <1>2, <1>4, UnitsType
<1> QED
  BY <1>5, <1>7, <1>8, <1>9 DEF rest

\* The order in which the items come does not matter.
LEMMA UnitsArranged ==
  ASSUME NEW items \in Seq(Item), NEW a \in Arrangements(items), NEW c
  PROVE  Units(a, c) = Units(items, c)
<1>1. PICK o \in Bijection(DOMAIN items, DOMAIN items) :
        a = [i \in DOMAIN items |-> items[o[i]]]
  BY DEF Arrangements
<1>2. a \in Seq(Item)
  BY ArrangementType
<1> DEFINE n == Len(items)
<1>3. DOMAIN items = 1 .. n /\ n \in Nat
  OBVIOUS
<1>4. Len(a) = n /\ DOMAIN a = 1 .. n
  BY <1>1, <1>2, <1>3
<1>5. o \in Bijection(1 .. n, 1 .. n)
  BY <1>3
<1>6. /\ Units(a, c) = SumFunctionOnSet(Counted(a, c), 1 .. n)
      /\ IsFiniteSet(1 .. n)
      /\ \A i \in 1 .. n : Counted(a, c)[i] \in Int
  BY <1>2, <1>4, UnitsSum
<1>7. \A i \in 1 .. n : /\ Counted(a, c)[i] \in Int
                       /\ Counted(a, c)[i] = Counted(items, c)[o[i]]
  <2>1. \A i \in 1 .. n : o[i] \in 1 .. n
    BY <1>5 DEF Bijection, Injection
  <2> QED
    BY <1>1, <1>3, <1>4, <1>6, <2>1 DEF Counted
<1>8. SumFunctionOnSet(Counted(a, c), 1 .. n) = SumFunctionOnSet(Counted(items, c), 1 .. n)
  <2> DEFINE S == 1 .. n
  <2>1. /\ IsFiniteSet(S) /\ o \in Bijection(S, S)
        /\ \A i \in S : Counted(a, c)[i] \in Int /\ Counted(a, c)[i] = Counted(items, c)[o[i]]
    BY <1>5, <1>6, <1>7
  <2> HIDE DEF S
  <2>2. SumFunctionOnSet(Counted(a, c), S) = SumFunctionOnSet(Counted(items, c), S)
    BY <2>1, SumMoved
  <2> QED
    BY <2>2 DEF S
<1> QED
  BY <1>6, <1>8, UnitsSum

-----------------------------------------------------------------------------
(* Conservation. *)

\* What the movements of transfers make of a component, over all branches.
Transferred(e, c) ==
  [b \in Branch |-> e["TRANSFER_OUT"][<<b, c>>] + e["TRANSFER_IN"][<<b, c>>]]
Moved(e, c) == SumFunction(Transferred(e, c))

\* What a statement's movement of a transfer is.
Shipped(change) ==
  LET of(a) == IF a \in DOMAIN change THEN change[a] ELSE 0
  IN  of("TRANSFER_OUT") + of("TRANSFER_IN")

\* What an approval has debited and not yet credited.
UnderWay(s, c) ==
  IF pc[s] = "credit" /\ Head(todo[s]).component = c THEN Amount(s) ELSE 0

\* The inductive invariant: nothing is between branches, except that an
\* approval has debited the item it is about to credit.
NothingLost ==
  /\ \A c \in Component : Moved(book, c) = 0
  /\ \A s \in Session, c \in Component : Moved(tx[s], c) = - UnderWay(s, c)
  /\ \A s \in Session : pc[s] \in {"debit", "credit"} => todo[s] # <<>>

LEMMA MovedSum ==
  ASSUME NEW e \in Ledger, NEW c \in Component
  PROVE  /\ Moved(e, c) = SumFunctionOnSet(Transferred(e, c), Branch)
         /\ \A b \in Branch : Transferred(e, c)[b] \in Int
         /\ Moved(e, c) \in Int
<1>1. Moved(e, c) = SumFunctionOnSet(Transferred(e, c), Branch)
  <2>1. DOMAIN Transferred(e, c) = Branch
    BY DEF Transferred
  <2> QED
    BY <2>1 DEF Moved, SumFunction
<1>2. \A b \in Branch : Transferred(e, c)[b] \in Int
  <2>1. \A b \in Branch : <<b, c>> \in Key
    BY DEF Key
  <2> QED
    BY <2>1, AccountNames DEF Transferred, Ledger
<1> QED
  BY <1>1, <1>2, SumType

\* What a statement's change of a row does to that sum.
LEMMA MovedPost ==
  ASSUME NEW e \in Ledger, NEW k \in Key, NEW change \in Changes, NEW c \in Component
  PROVE  Moved(Post(e, k, change), c) = Moved(e, c) + IF k[2] = c THEN Shipped(change) ELSE 0
<1> DEFINE of(a) == IF a \in DOMAIN change THEN change[a] ELSE 0
           f == Post(e, k, change)
<1>1. f \in Ledger
  BY PostType
<1>2. /\ of("TRANSFER_OUT") \in Int /\ of("TRANSFER_IN") \in Int
      /\ Shipped(change) = of("TRANSFER_OUT") + of("TRANSFER_IN")
  BY DEF Changes, Shipped
<1>3. k[1] \in Branch /\ k = <<k[1], k[2]>>
  BY DEF Key
<1>4. \A b \in Branch : <<b, c>> \in Key
  BY DEF Key
<1>5. \A b \in Branch :
        Transferred(f, c)[b] = (e["TRANSFER_OUT"][<<b, c>>] + IF <<b, c>> = k THEN of("TRANSFER_OUT") ELSE 0)
                              + (e["TRANSFER_IN"][<<b, c>>] + IF <<b, c>> = k THEN of("TRANSFER_IN") ELSE 0)
  BY <1>4, PostValue, AccountNames DEF Transferred
<1>6. \A b \in Branch : e["TRANSFER_OUT"][<<b, c>>] \in Int /\ e["TRANSFER_IN"][<<b, c>>] \in Int
  BY <1>4, AccountNames DEF Ledger
<1> HIDE DEF of, f
<1>7. /\ \A b \in Branch : b # k[1] \/ k[2] # c => Transferred(f, c)[b] = Transferred(e, c)[b]
      /\ k[2] = c => Transferred(f, c)[k[1]] = Transferred(e, c)[k[1]] + of("TRANSFER_OUT") + of("TRANSFER_IN")
  BY <1>2, <1>3, <1>5, <1>6 DEF Transferred
<1>8. CASE k[2] = c
  <2>1. SumFunctionOnSet(Transferred(f, c), Branch)
          = SumFunctionOnSet(Transferred(e, c), Branch) + Transferred(f, c)[k[1]] - Transferred(e, c)[k[1]]
    BY <1>1, <1>3, <1>7, <1>8, MovedSum, SumAt
  <2>2. Transferred(e, c)[k[1]] \in Int
    BY <1>3, MovedSum
  <2> QED
    BY <1>1, <1>2, <1>7, <1>8, <2>1, <2>2, MovedSum DEF f
<1>9. CASE k[2] # c
  <2>1. SumFunctionOnSet(Transferred(f, c), Branch) = SumFunctionOnSet(Transferred(e, c), Branch)
    BY <1>1, <1>7, <1>9, MovedSum, SumEqual
  <2> QED
    BY <1>1, <1>9, <2>1, MovedSum DEF f
<1> QED
  BY <1>8, <1>9

LEMMA MovedPlus ==
  ASSUME NEW e \in Ledger, NEW f \in Ledger, NEW g \in Ledger, NEW c \in Component,
         \A a \in Account, k \in Key : e[a][k] = f[a][k] + g[a][k]
  PROVE  Moved(e, c) = Moved(f, c) + Moved(g, c)
<1>1. \A b \in Branch : <<b, c>> \in Key
  BY DEF Key
<1>2. \A a \in Account, k \in Key : f[a][k] \in Int /\ g[a][k] \in Int
  BY DEF Ledger
<1>3. \A b \in Branch : Transferred(e, c)[b] = Transferred(f, c)[b] + Transferred(g, c)[b]
  BY <1>1, <1>2, AccountNames DEF Transferred
<1> QED
  <2>1. \A b \in Branch :
          /\ Transferred(f, c)[b] \in Int /\ Transferred(g, c)[b] \in Int
          /\ Transferred(e, c)[b] = Transferred(f, c)[b] + Transferred(g, c)[b]
    BY <1>3, MovedSum
  <2>2. SumFunctionOnSet(Transferred(e, c), Branch)
          = SumFunctionOnSet(Transferred(f, c), Branch) + SumFunctionOnSet(Transferred(g, c), Branch)
    BY <2>1, SumPlus
  <2> QED
    BY <2>2, MovedSum

LEMMA MovedSame ==
  ASSUME NEW e \in Ledger, NEW f \in Ledger, NEW c \in Component,
         \A k \in Key : /\ e["TRANSFER_OUT"][k] = f["TRANSFER_OUT"][k]
                        /\ e["TRANSFER_IN"][k] = f["TRANSFER_IN"][k]
  PROVE  Moved(e, c) = Moved(f, c)
<1>1. \A b \in Branch : <<b, c>> \in Key
  BY DEF Key
<1>2. Transferred(e, c) = Transferred(f, c)
  BY <1>1 DEF Transferred
<1> QED
  BY <1>2 DEF Moved

LEMMA NothingMoved ==
  ASSUME NEW c \in Component
  PROVE  Moved(Nothing, c) = 0
<1>1. \A b \in Branch : <<b, c>> \in Key
  BY DEF Key
<1>2. \A b \in Branch : Transferred(Nothing, c)[b] = 0
  BY <1>1, NothingIsZero, AccountNames DEF Transferred
<1> QED
  BY <1>2, NothingType, MovedSum, SumZero

LEMMA InitLost == Init => NothingLost
<1> SUFFICES ASSUME Init PROVE NothingLost
  OBVIOUS
<1>1. \A k \in Key : book["TRANSFER_OUT"][k] = 0 /\ book["TRANSFER_IN"][k] = 0
  BY AccountNames DEF Init, Nothing
<1>2. book \in Ledger
  BY InitTyped DEF Typed, TypeOK
<1>3. \A c \in Component : Moved(book, c) = Moved(Nothing, c)
  BY <1>1, <1>2, NothingType, NothingIsZero, AccountNames, MovedSame
<1> QED
  <2>1. \A s \in Session : tx[s] = Nothing /\ pc[s] = "idle"
    BY DEF Init
  <2>2. \A s \in Session, c \in Component : UnderWay(s, c) = 0
    BY <2>1 DEF UnderWay
  <2> QED
    BY <1>3, <2>1, <2>2, NothingMoved DEF NothingLost

\* A transaction's end, with or without its writes.
LEMMA EndLost ==
  ASSUME Typed, NothingLost, NEW s \in Session, End(s),
         \A c \in Component : Moved(book', c) = 0
  PROVE  NothingLost'
<1>1. /\ \A r \in Session : tx'[r] = IF r = s THEN Nothing ELSE tx[r]
      /\ \A r \in Session : pc'[r] = IF r = s THEN "idle" ELSE pc[r]
      /\ \A r \in Session : todo'[r] = IF r = s THEN <<>> ELSE todo[r]
  BY DEF End, Typed, TypeOK
<1> QED
  BY <1>1, NothingMoved DEF NothingLost, UnderWay, Amount

LEMMA CommitLost ==
  ASSUME Typed, NothingLost, NEW s \in Session, Commit(s), pc[s] # "credit"
  PROVE  NothingLost'
<1>1. /\ book' \in Ledger /\ book \in Ledger /\ tx[s] \in Ledger
      /\ \A a \in Account, k \in Key : book'[a][k] = book[a][k] + tx[s][a][k]
  BY CommitBook DEF Typed, TypeOK
<1>2. \A c \in Component : Moved(book', c) = Moved(book, c) + Moved(tx[s], c)
  BY <1>1, MovedPlus
<1>3. \A c \in Component : Moved(book', c) = 0
  <2>1. \A c \in Component : UnderWay(s, c) = 0
    BY DEF UnderWay
  <2>2. \A c \in Component : Moved(book, c) = 0 /\ Moved(tx[s], c) = - UnderWay(s, c)
    BY DEF NothingLost
  <2> QED
    BY <1>2, <2>1, <2>2
<1> QED
  BY <1>3, EndLost DEF Commit

\* A statement in a loop of a transaction.
LEMMA WriteLost ==
  ASSUME Typed, NothingLost, NEW s \in Session, NEW k \in Key, NEW change \in Changes,
         Write(s, k, change), book' = book,
         NEW at, pc' = [pc EXCEPT ![s] = at], at # "debit",
         \A r \in Session : r # s => todo'[r] = todo[r],
         at = "credit" => todo'[s] # <<>>,
         \A c \in Component : /\ UnderWay(s, c) \in Int
                             /\ Shipped(change) \in Int
                             /\ UnderWay(s, c)' = UnderWay(s, c) - IF k[2] = c THEN Shipped(change) ELSE 0
  PROVE  NothingLost'
<1>1. /\ \A r \in Session : tx'[r] = IF r = s THEN Post(tx[s], k, change) ELSE tx[r]
      /\ \A r \in Session : pc'[r] = IF r = s THEN at ELSE pc[r]
  BY DEF Write, Typed, TypeOK
<1>2. tx[s] \in Ledger
  BY DEF Typed, TypeOK
<1>3. \A c \in Component : Moved(tx'[s], c) = - UnderWay(s, c)'
  BY <1>1, <1>2, MovedPost DEF NothingLost
<1>4. \A r \in Session, c \in Component : r # s => Moved(tx'[r], c) = - UnderWay(r, c)'
  BY <1>1 DEF NothingLost, UnderWay, Amount
<1>5. \A r \in Session : pc'[r] \in {"debit", "credit"} => todo'[r] # <<>>
  BY <1>1 DEF NothingLost
<1>6. \A c \in Component : Moved(book', c) = 0
  BY DEF NothingLost
<1> QED
  BY <1>3, <1>4, <1>5, <1>6 DEF NothingLost

LEMMA StepLost ==
  ASSUME Typed, NothingLost, NEW s \in Session, Step(s)
  PROVE  NothingLost'
<1> USE DEF At
<1>0. \A r \in Session : book' = book /\ End(r) => NothingLost'
  BY EndLost DEF NothingLost
<1>1. ASSUME pc[s] \notin {"adjust", "idle"}, todo[s] # <<>>
      PROVE  Source(s) \in Key /\ Dest(s) \in Key /\ Amount(s) \in Nat
             /\ Source(s)[2] = Head(todo[s]).component /\ Dest(s)[2] = Head(todo[s]).component
  BY <1>1, ItemType DEF Source, Dest
<1>2. CASE ReserveItem(s)
  <2> DEFINE change == [reserved |-> Amount(s), RESERVATION_CREATED |-> Amount(s)]
  <2>1. change \in Changes /\ Shipped(change) = 0
    BY <1>1, <1>2 DEF ReserveItem, Changes, Shipped
  <2>2. Write(s, Source(s), change) /\ pc' = [pc EXCEPT ![s] = "reserve"] /\ pc[s] = "reserve"
        /\ todo[s] # <<>> /\ book' = book /\ \A r \in Session : r # s => todo'[r] = todo[r]
    BY <1>2 DEF ReserveItem, NextItem, Typed, TypeOK
  <2> HIDE DEF change
  <2>4. pc'[s] = "reserve" /\ todo[s] # <<>>
    BY <2>2 DEF Typed, TypeOK
  <2>3. \A c \in Component :
          /\ UnderWay(s, c) \in Int /\ Shipped(change) \in Int
          /\ UnderWay(s, c)' = UnderWay(s, c) - IF Source(s)[2] = c THEN Shipped(change) ELSE 0
    BY <1>1, <2>1, <2>2, <2>4 DEF UnderWay
  <2> QED
    BY <1>1, <1>2, <2>1, <2>2, <2>3, WriteLost
<1>3. CASE ReleaseItem(s)
  <2> DEFINE change == [reserved |-> -Amount(s), RESERVATION_RELEASED |-> -Amount(s)]
  <2>1. change \in Changes /\ Shipped(change) = 0
    BY <1>1, <1>3 DEF ReleaseItem, Changes, Shipped
  <2>2. Write(s, Source(s), change) /\ pc' = [pc EXCEPT ![s] = "release"] /\ pc[s] = "release"
        /\ todo[s] # <<>> /\ book' = book /\ \A r \in Session : r # s => todo'[r] = todo[r]
    BY <1>3 DEF ReleaseItem, NextItem, Typed, TypeOK
  <2> HIDE DEF change
  <2>4. pc'[s] = "release" /\ todo[s] # <<>>
    BY <2>2 DEF Typed, TypeOK
  <2>3. \A c \in Component :
          /\ UnderWay(s, c) \in Int /\ Shipped(change) \in Int
          /\ UnderWay(s, c)' = UnderWay(s, c) - IF Source(s)[2] = c THEN Shipped(change) ELSE 0
    BY <1>1, <2>1, <2>2, <2>4 DEF UnderWay
  <2> QED
    BY <1>1, <1>3, <2>1, <2>2, <2>3, WriteLost
<1>4. CASE CheckSource(s)
  <2>1. /\ UNCHANGED <<book, tx, todo>>
        /\ \A r \in Session : pc'[r] = IF r = s THEN "debit" ELSE pc[r]
    BY <1>4 DEF CheckSource, Typed, TypeOK
  <2> QED
    BY <1>4, <2>1 DEF CheckSource, NothingLost, UnderWay, Amount
<1>5. CASE DebitSource(s)
  <2> DEFINE change == [quantity |-> -Amount(s), reserved |-> -Amount(s),
                        TRANSFER_OUT |-> -Amount(s)]
  <2>1. change \in Changes /\ Shipped(change) = -Amount(s)
    BY <1>1, <1>5 DEF DebitSource, Changes, Shipped
  <2>2. Write(s, Source(s), change) /\ pc' = [pc EXCEPT ![s] = "credit"] /\ pc[s] = "debit"
        /\ todo' = todo /\ todo[s] # <<>> /\ book' = book /\ Amount(s)' = Amount(s)
    BY <1>5 DEF DebitSource, Amount
  <2> HIDE DEF change
  <2>4. pc'[s] = "credit" /\ todo[s] # <<>> /\ todo'[s] = todo[s]
    BY <2>2 DEF Typed, TypeOK
  <2>3. \A c \in Component :
          /\ UnderWay(s, c) \in Int /\ Shipped(change) \in Int
          /\ UnderWay(s, c)' = UnderWay(s, c) - IF Source(s)[2] = c THEN Shipped(change) ELSE 0
    BY <1>1, <2>1, <2>2, <2>4 DEF UnderWay
  <2>5. Source(s) \in Key /\ todo'[s] # <<>> /\ \A r \in Session : r # s => todo'[r] = todo[r]
    BY <1>1, <2>2
  <2> QED
    BY <2>1, <2>2, <2>3, <2>5, WriteLost
<1>6. CASE CreditDest(s)
  <2> DEFINE change == [quantity |-> Amount(s), TRANSFER_IN |-> Amount(s)]
  <2>1. change \in Changes /\ Shipped(change) = Amount(s)
    BY <1>1, <1>6 DEF CreditDest, Changes, Shipped
  <2>2. Write(s, Dest(s), change) /\ pc' = [pc EXCEPT ![s] = "check"] /\ pc[s] = "credit"
        /\ todo[s] # <<>> /\ book' = book /\ \A r \in Session : r # s => todo'[r] = todo[r]
    BY <1>6 DEF CreditDest, NextItem, Typed, TypeOK
  <2> HIDE DEF change
  <2>4. pc'[s] = "check" /\ todo[s] # <<>>
    BY <2>2 DEF Typed, TypeOK
  <2>3. \A c \in Component :
          /\ UnderWay(s, c) \in Int /\ Shipped(change) \in Int
          /\ UnderWay(s, c)' = UnderWay(s, c) - IF Dest(s)[2] = c THEN Shipped(change) ELSE 0
    BY <1>1, <2>1, <2>2, <2>4 DEF UnderWay
  <2> QED
    <3>1. Dest(s) \in Key
      BY <1>1, <2>2
    <3> QED
      BY <2>1, <2>2, <2>3, <3>1, WriteLost
<1>7. CASE InsertTransfer(s) \/ FinishDecision(s)
  BY <1>7, CommitLost DEF InsertTransfer, FinishDecision
<1>8. CASE ApplyAdjust(s)
  <2> DEFINE k == job[s].key
             change == [quantity |-> job[s].change, ADJUSTMENT |-> job[s].change]
  <2>0. k \in Key /\ job[s].change \in Int
    BY <1>8 DEF ApplyAdjust, Typed, JobFits, AdjustJob
  <2>1. change \in Changes /\ Shipped(change) = 0
    BY <2>0 DEF Changes, Shipped
  <2>2. book' = Post(book, k, change) /\ End(s)
    BY <1>8 DEF ApplyAdjust
  <2>3. book \in Ledger
    BY DEF Typed, TypeOK
  <2>4. \A c \in Component : Moved(book', c) = Moved(book, c)
    BY <2>0, <2>1, <2>2, <2>3, MovedPost, MovedSum
  <2> QED
    BY <2>2, <2>4, EndLost DEF NothingLost
<1> QED
  BY <1>0, <1>2, <1>3, <1>4, <1>5, <1>6, <1>7, <1>8
     DEF Step, Rollback, ReserveShort, CheckFails, DebitViolatesCheck,
         CreditViolatesCheck, ReleaseViolatesCheck, AdjustViolatesCheck

LEMMA NextLost == Typed /\ NothingLost /\ [Next]_vars => NothingLost'
<1> SUFFICES ASSUME Typed, NothingLost, [Next]_vars PROVE NothingLost'
  OBVIOUS
<1>1. CASE UNCHANGED vars
  BY <1>1 DEF vars, NothingLost, UnderWay, Amount
<1>2. ASSUME NEW s \in Session, Start(s) PROVE NothingLost'
  <2>1. \E at \in {"reserve", "check", "release", "adjust"} : \E j : \E items : Begin(s, at, j, items)
    BY <1>2 DEF Start, BeginCreate, BeginApprove, BeginRelease, BeginDecision, BeginAdjust
  <2>2. /\ UNCHANGED <<book, tx>> /\ pc[s] = "idle" /\ pc'[s] \notin {"debit", "credit"}
        /\ \A r \in Session : r # s => pc'[r] = pc[r] /\ todo'[r] = todo[r]
    BY <2>1 DEF Begin, Typed, TypeOK
  <2> QED
    BY <2>2 DEF NothingLost, UnderWay, Amount
<1>3. ASSUME NEW s \in Session, Rollback(s) PROVE NothingLost'
  BY <1>3, EndLost DEF Rollback, NothingLost
<1> QED
  BY <1>1, <1>2, <1>3, StepLost DEF Next, Abort, DeadlockAbort

\* Transfers move stock and nothing else: over all branches a component has the
\* units that were imported and adjusted, whatever requests interleave, abort
\* or are decided twice.
THEOREM ConservationHolds == Spec => []Conservation
<1>1. Safe /\ NothingLost => Conservation
  <2> SUFFICES ASSUME Safe, NothingLost, NEW c \in Component
               PROVE  SumFunction([b \in Branch |-> book["quantity"][<<b, c>>]])
                        = SumFunction([b \in Branch |-> book["IMPORT_IN"][<<b, c>>]
                                                        + book["ADJUSTMENT"][<<b, c>>]])
    BY DEF Conservation
  <2> DEFINE stock == [b \in Branch |-> book["quantity"][<<b, c>>]]
             entered == [b \in Branch |-> book["IMPORT_IN"][<<b, c>>] + book["ADJUSTMENT"][<<b, c>>]]
             moved == Transferred(book, c)
  <2>1. \A b \in Branch : <<b, c>> \in Key
    BY DEF Key
  <2>2. book \in Ledger
    BY DEF Safe, Typed, TypeOK
  <2>3. \A a \in Account, k \in Key : book[a][k] \in Int
    BY <2>2 DEF Ledger
  <2>4. \A b \in Branch : /\ entered[b] \in Int /\ moved[b] \in Int
                         /\ stock[b] = entered[b] + moved[b]
    BY <2>1, <2>3, AccountNames DEF Transferred, Safe, AllBalanced, QuantityBalanced
  <2>5. SumFunctionOnSet(moved, Branch) = 0
    BY <2>2, MovedSum DEF NothingLost
  <2>6. DOMAIN stock = Branch /\ DOMAIN entered = Branch
    OBVIOUS
  <2> HIDE DEF stock, entered, moved
  <2>7. SumFunctionOnSet(stock, Branch)
          = SumFunctionOnSet(entered, Branch) + SumFunctionOnSet(moved, Branch)
    BY <2>4, SumPlus
  <2>8. SumFunctionOnSet(entered, Branch) \in Int
    BY <2>4, SumType
  <2>9. SumFunction(stock) = SumFunction(entered)
    BY <2>5, <2>6, <2>7, <2>8 DEF SumFunction
  <2> QED
    BY <2>9 DEF stock, entered
<1> QED
  BY <1>1, SafeAlways, InitTyped, NextTyped, InitLost, NextLost, PTL DEF Spec

-----------------------------------------------------------------------------
(* What a transaction in flight has written. *)

\* What some of the items of a transfer take from a row and bring to it.
TakesOf(body, items, k)  == IF body.from = k[1] THEN Units(items, k[2]) ELSE 0
BringsOf(body, items, k) == IF body.to = k[1] THEN Units(items, k[2]) ELSE 0

\* The items whose source row is still to be written.
Unwritten(s) == IF pc[s] = "credit" THEN Tail(todo[s]) ELSE todo[s]

Taken(s, k)   == Takes(job[s].request, k) - TakesOf(job[s].request, Unwritten(s), k)
Brought(s, k) == Brings(job[s].request, k) - BringsOf(job[s].request, todo[s], k)

ReservedBy(s, k) ==
  CASE pc[s] = "reserve" -> Taken(s, k)
    [] Deciding(s)       -> - Taken(s, k)
    [] OTHER             -> 0

QuantityBy(s, k) ==
  IF pc[s] \in {"check", "debit", "credit"} THEN Brought(s, k) - Taken(s, k) ELSE 0

\* A transaction has written what its request asks for, but for the items it has
\* not come to.
Progress ==
  \A s \in Session, k \in Key : /\ tx[s]["reserved"][k] = ReservedBy(s, k)
                                /\ tx[s]["quantity"][k] = QuantityBy(s, k)

LEMMA InitProgress == Init => Progress
<1> SUFFICES ASSUME Init PROVE Progress
  OBVIOUS
<1>1. \A s \in Session : pc[s] = "idle" /\ tx[s] = Nothing
  BY DEF Init
<1>2. \A s \in Session, k \in Key : ReservedBy(s, k) = 0 /\ QuantityBy(s, k) = 0
  BY <1>1 DEF ReservedBy, QuantityBy, Deciding
<1> QED
  BY <1>1, <1>2, NothingIsZero, AccountNames DEF Progress

\* Steps of one session: what the others have written and serve is as before.
LEMMA OthersProgress ==
  ASSUME Typed, Progress, NEW s \in Session,
         \A r \in Session : r # s => /\ pc'[r] = pc[r] /\ job'[r] = job[r]
                                     /\ todo'[r] = todo[r] /\ tx'[r] = tx[r],
         \A k \in Key : /\ tx'[s]["reserved"][k] = ReservedBy(s, k)'
                        /\ tx'[s]["quantity"][k] = QuantityBy(s, k)'
  PROVE  Progress'
<1>1. ASSUME NEW r \in Session, r # s, NEW k \in Key
      PROVE  /\ ReservedBy(r, k)' = ReservedBy(r, k)
             /\ QuantityBy(r, k)' = QuantityBy(r, k)
  BY <1>1 DEF ReservedBy, QuantityBy, Deciding, Taken, Brought, TakesOf, BringsOf, Unwritten,
     Takes, Brings
<1> QED
  BY <1>1 DEF Progress

LEMMA EndProgress ==
  ASSUME Typed, Progress, NEW s \in Session, End(s)
  PROVE  Progress'
<1>1. /\ \A r \in Session : r # s => /\ pc'[r] = pc[r] /\ job'[r] = job[r]
                                     /\ todo'[r] = todo[r] /\ tx'[r] = tx[r]
      /\ pc'[s] = "idle" /\ tx'[s] = Nothing
  BY DEF End, Typed, TypeOK
<1>2. \A k \in Key : ReservedBy(s, k)' = 0 /\ QuantityBy(s, k)' = 0
  BY <1>1 DEF ReservedBy, QuantityBy, Deciding
<1> QED
  BY <1>1, <1>2, OthersProgress, NothingIsZero, AccountNames

\* The loop of a transaction begins with all the items of its request.
LEMMA StartProgress ==
  ASSUME Typed, OwnRows, Progress, NEW s \in Session, Start(s)
  PROVE  Progress'
<1>1. ASSUME NEW at \in {"reserve", "check", "release"}, NEW j \in TransferJob,
             NEW items \in Arrangements(j.request.items), Begin(s, at, j, items)
      PROVE  Progress'
  <2>1. /\ \A r \in Session : r # s => /\ pc'[r] = pc[r] /\ job'[r] = job[r]
                                       /\ todo'[r] = todo[r] /\ tx'[r] = tx[r]
        /\ pc'[s] = at /\ job'[s] = j /\ todo'[s] = items /\ tx'[s] = Nothing
    BY <1>1 DEF Begin, Typed, TypeOK, OwnRows
  <2>2. j.request \in Request
    BY DEF TransferJob
  <2>3. \A c : Units(items, c) = Units(j.request.items, c) /\ Units(items, c) \in Int
    BY <2>2, RequestType, UnitsArranged, UnitsType
  <2>4. \A k \in Key : Taken(s, k)' = 0 /\ Brought(s, k)' = 0
    BY <2>1, <2>3 DEF Taken, Brought, Takes, Brings, TakesOf, BringsOf, Unwritten
  <2>5. \A k \in Key : ReservedBy(s, k)' = 0 /\ QuantityBy(s, k)' = 0
    BY <2>1, <2>4 DEF ReservedBy, QuantityBy, Deciding
  <2> QED
    BY <2>1, <2>5, OthersProgress, NothingIsZero, AccountNames
<1>2. CASE BeginCreate(s)
  <2>1. PICK t \in TransferId, r \in Request :
          \E items \in LockOrder(r.items) :
            Begin(s, "reserve", [op |-> "create", id |-> t, request |-> r], items)
    BY <1>2 DEF BeginCreate
  <2>2. [op |-> "create", id |-> t, request |-> r] \in TransferJob
    BY DEF TransferJob, Operation
  <2> QED
    BY <1>1, <2>1, <2>2 DEF LockOrder
<1>3. ASSUME NEW op \in Decision, NEW at \in {"check", "release"}, BeginDecision(s, op, at)
      PROVE  Progress'
  <2>1. PICK t \in TransferId :
          /\ transfer[t].status = "PENDING"
          /\ \E items \in Arrangements(transfer[t].body.items) :
               Begin(s, at, [op |-> op, id |-> t, request |-> transfer[t].body], items)
    BY <1>3 DEF BeginDecision
  <2>2. [op |-> op, id |-> t, request |-> transfer[t].body] \in TransferJob
    BY <2>1 DEF TransferJob, Operation, Decision, Typed, PendingHasBody
  <2> QED
    BY <1>1, <2>1, <2>2
<1>4. CASE BeginApprove(s) \/ BeginRelease(s)
  BY <1>3, <1>4 DEF BeginApprove, BeginRelease, Decision
<1>5. CASE BeginAdjust(s)
  <2>1. /\ \A r \in Session : r # s => /\ pc'[r] = pc[r] /\ job'[r] = job[r]
                                       /\ todo'[r] = todo[r] /\ tx'[r] = tx[r]
        /\ pc'[s] = "adjust" /\ tx'[s] = Nothing
    BY <1>5 DEF BeginAdjust, Begin, Typed, TypeOK, OwnRows
  <2>2. \A k \in Key : ReservedBy(s, k)' = 0 /\ QuantityBy(s, k)' = 0
    BY <2>1 DEF ReservedBy, QuantityBy, Deciding
  <2> QED
    BY <2>1, <2>2, OthersProgress, NothingIsZero, AccountNames
<1> QED
  BY <1>2, <1>4, <1>5 DEF Start

\* The items are taken, and brought, one after the other.
LEMMA HeadTakes ==
  ASSUME Typed, NEW s \in Session, pc[s] \notin {"adjust", "idle"}, todo[s] # <<>>, NEW k \in Key
  PROVE  LET body == job[s].request
             rest == Tail(todo[s]) IN
         /\ TakesOf(body, rest, k) \in Int /\ BringsOf(body, rest, k) \in Int
         /\ TakesOf(body, todo[s], k)
              = TakesOf(body, rest, k) + IF k = Source(s) THEN Amount(s) ELSE 0
         /\ BringsOf(body, todo[s], k)
              = BringsOf(body, rest, k) + IF k = Dest(s) THEN Amount(s) ELSE 0
<1>1. todo[s] \in Seq(Item) /\ Tail(todo[s]) \in Seq(Item)
  BY ItemType DEF Typed, TypeOK
<1>2. /\ Units(Tail(todo[s]), k[2]) \in Int
      /\ Units(todo[s], k[2]) = Units(Tail(todo[s]), k[2])
           + IF Head(todo[s]).component = k[2] THEN Amount(s) ELSE 0
  BY <1>1, UnitsTail, UnitsType DEF Amount
<1>3. k = <<k[1], k[2]>>
  BY DEF Key
<1>4. /\ k = Source(s) <=> job[s].request.from = k[1] /\ Head(todo[s]).component = k[2]
      /\ k = Dest(s) <=> job[s].request.to = k[1] /\ Head(todo[s]).component = k[2]
  BY <1>3 DEF Source, Dest
<1> QED
  BY <1>2, <1>4 DEF TakesOf, BringsOf

LEMMA TakenType ==
  ASSUME Typed, NEW s \in Session, pc[s] \notin {"adjust", "idle"}, pc[s] = "credit" => todo[s] # <<>>,
         NEW k \in Key
  PROVE  Taken(s, k) \in Int /\ Brought(s, k) \in Int
<1>1. job[s].request \in Request /\ todo[s] \in Seq(Item)
  BY DEF Typed, TypeOK, JobFits, TransferJob
<1>2. Unwritten(s) \in Seq(Item)
  BY <1>1, ItemType DEF Unwritten
<1>3. /\ Takes(job[s].request, k) \in Int /\ Brings(job[s].request, k) \in Int
      /\ TakesOf(job[s].request, Unwritten(s), k) \in Int
      /\ BringsOf(job[s].request, todo[s], k) \in Int
  BY <1>1, <1>2, RequestType, UnitsType DEF Takes, Brings, TakesOf, BringsOf
<1> QED
  BY <1>3 DEF Taken, Brought

\* A statement that takes an item, and one that brings it.
LEMMA TakenStep ==
  ASSUME Typed, NEW s \in Session, pc[s] \notin {"adjust", "idle"}, todo[s] # <<>>, job' = job,
         NEW k \in Key
  PROVE  /\ Taken(s, k) \in Int /\ Brought(s, k) \in Int
         /\ Unwritten(s)' = Unwritten(s) => Taken(s, k)' = Taken(s, k)
         /\ Unwritten(s) = todo[s] /\ Unwritten(s)' = Tail(todo[s]) =>
              Taken(s, k)' = Taken(s, k) + IF k = Source(s) THEN Amount(s) ELSE 0
         /\ todo'[s] = todo[s] => Brought(s, k)' = Brought(s, k)
         /\ todo'[s] = Tail(todo[s]) =>
              Brought(s, k)' = Brought(s, k) + IF k = Dest(s) THEN Amount(s) ELSE 0
<1> DEFINE body == job[s].request
           rest == Tail(todo[s])
<1>1. Taken(s, k) \in Int /\ Brought(s, k) \in Int
  BY TakenType
<1>2. /\ Taken(s, k) = Takes(body, k) - TakesOf(body, Unwritten(s), k)
      /\ Taken(s, k)' = Takes(body, k) - TakesOf(body, Unwritten(s)', k)
      /\ Brought(s, k) = Brings(body, k) - BringsOf(body, todo[s], k)
      /\ Brought(s, k)' = Brings(body, k) - BringsOf(body, todo'[s], k)
  BY DEF Taken, Brought
<1>3. /\ TakesOf(body, rest, k) \in Int /\ BringsOf(body, rest, k) \in Int
      /\ TakesOf(body, todo[s], k) = TakesOf(body, rest, k) + IF k = Source(s) THEN Amount(s) ELSE 0
      /\ BringsOf(body, todo[s], k) = BringsOf(body, rest, k) + IF k = Dest(s) THEN Amount(s) ELSE 0
  BY HeadTakes
<1>4. Takes(body, k) \in Int /\ Brings(body, k) \in Int /\ Amount(s) \in Int
  <2>1. body \in Request
    BY DEF Typed, TypeOK, JobFits, TransferJob
  <2> QED
    BY <2>1, RequestType, UnitsType, ItemType DEF Takes, Brings
<1> HIDE DEF body, rest
<1>5. /\ Unwritten(s)' = Unwritten(s) => Taken(s, k)' = Taken(s, k)
      /\ todo'[s] = todo[s] => Brought(s, k)' = Brought(s, k)
  BY <1>2
<1>6. ASSUME Unwritten(s) = todo[s], Unwritten(s)' = rest
      PROVE  Taken(s, k)' = Taken(s, k) + IF k = Source(s) THEN Amount(s) ELSE 0
  BY <1>2, <1>3, <1>4, <1>6
<1>7. ASSUME todo'[s] = rest
      PROVE  Brought(s, k)' = Brought(s, k) + IF k = Dest(s) THEN Amount(s) ELSE 0
  BY <1>2, <1>3, <1>4, <1>7
<1> QED
  BY <1>1, <1>5, <1>6, <1>7 DEF rest

\* What a statement adds to the transaction's differences.
LEMMA WriteValue ==
  ASSUME Typed, NEW s \in Session, NEW row \in Key, NEW change \in Changes,
         Write(s, row, change), NEW a \in Account, NEW k \in Key
  PROVE  /\ tx[s][a][k] \in Int
         /\ tx'[s][a][k]
              = tx[s][a][k] + IF k = row /\ a \in DOMAIN change THEN change[a] ELSE 0
<1>1. tx'[s] = Post(tx[s], row, change) /\ tx[s] \in Ledger
  BY DEF Write, Typed, TypeOK
<1> QED
  BY <1>1, PostValue DEF Ledger

\* Each statement writes what the item it is at asks for.
LEMMA StepProgress ==
  ASSUME Typed, Progress, NothingLost, NEW s \in Session, Step(s)
  PROVE  Progress'
<1> USE DEF At
<1>1. CASE ReserveItem(s)
  <2> DEFINE change == [reserved |-> Amount(s), RESERVATION_CREATED |-> Amount(s)]
  <2>1. /\ Write(s, Source(s), change) /\ UNCHANGED <<book, transfer, job>>
        /\ pc' = [pc EXCEPT ![s] = "reserve"] /\ \A r \in Session : r # s => todo'[r] = todo[r]
        /\ todo[s] # <<>> /\ pc[s] = "reserve" /\ pc'[s] = "reserve" /\ todo'[s] = Tail(todo[s])
    BY <1>1 DEF ReserveItem, NextItem, Typed, TypeOK
  <2>2. Source(s) \in Key /\ Amount(s) \in Int /\ change \in Changes
    BY <2>1, ItemType DEF Changes
  <2>3. Unwritten(s) = todo[s] /\ Unwritten(s)' = Tail(todo[s])
    BY <2>1 DEF Unwritten
  <2>4. ASSUME NEW k \in Key
        PROVE  /\ Taken(s, k) \in Int /\ Brought(s, k) \in Int
               /\ Taken(s, k)' = Taken(s, k) + IF k = Source(s) THEN Amount(s) ELSE 0
               /\ Brought(s, k)' = Brought(s, k) + IF k = Dest(s) THEN Amount(s) ELSE 0
    BY <2>1, <2>3, TakenStep
  <2>5. ASSUME NEW k \in Key
        PROVE  /\ ReservedBy(s, k)' = ReservedBy(s, k) + IF k = Source(s) THEN Amount(s) ELSE 0
               /\ QuantityBy(s, k)' = QuantityBy(s, k)
    BY <2>1, <2>2, <2>4 DEF ReservedBy, QuantityBy, Deciding
  <2>6. ASSUME NEW k \in Key
        PROVE  /\ tx[s]["reserved"][k] \in Int /\ tx[s]["quantity"][k] \in Int
               /\ tx'[s]["reserved"][k] = tx[s]["reserved"][k] + IF k = Source(s) THEN Amount(s) ELSE 0
               /\ tx'[s]["quantity"][k] = tx[s]["quantity"][k]
    <3>1. /\ "reserved" \in DOMAIN change
          /\ "quantity" \notin DOMAIN change
          /\ change["reserved"] = Amount(s)
      OBVIOUS
    <3> HIDE DEF change
    <3> QED
      BY <2>1, <2>2, <3>1, WriteValue, AccountNames
  <2>7. \A k \in Key : /\ tx'[s]["reserved"][k] = ReservedBy(s, k)'
                       /\ tx'[s]["quantity"][k] = QuantityBy(s, k)'
    BY <2>5, <2>6 DEF Progress
  <2> QED
    <3>1. \A r \in Session : r # s => /\ pc'[r] = pc[r] /\ job'[r] = job[r]
                                       /\ todo'[r] = todo[r] /\ tx'[r] = tx[r]
      BY <2>1 DEF Write, Typed, TypeOK
    <3> QED
      BY <2>7, <3>1, OthersProgress
<1>2. CASE ReleaseItem(s)
  <2> DEFINE change == [reserved |-> -Amount(s), RESERVATION_RELEASED |-> -Amount(s)]
  <2>1. /\ Write(s, Source(s), change) /\ UNCHANGED <<book, transfer, job>>
        /\ pc' = [pc EXCEPT ![s] = "release"] /\ \A r \in Session : r # s => todo'[r] = todo[r]
        /\ todo[s] # <<>> /\ pc[s] = "release" /\ pc'[s] = "release" /\ todo'[s] = Tail(todo[s])
    BY <1>2 DEF ReleaseItem, NextItem, Typed, TypeOK
  <2>2. Source(s) \in Key /\ Amount(s) \in Int /\ change \in Changes
    BY <2>1, ItemType DEF Changes
  <2>3. Unwritten(s) = todo[s] /\ Unwritten(s)' = Tail(todo[s])
    BY <2>1 DEF Unwritten
  <2>4. ASSUME NEW k \in Key
        PROVE  /\ Taken(s, k) \in Int /\ Brought(s, k) \in Int
               /\ Taken(s, k)' = Taken(s, k) + IF k = Source(s) THEN Amount(s) ELSE 0
               /\ Brought(s, k)' = Brought(s, k) + IF k = Dest(s) THEN Amount(s) ELSE 0
    BY <2>1, <2>3, TakenStep
  <2>5. ASSUME NEW k \in Key
        PROVE  /\ ReservedBy(s, k)' = ReservedBy(s, k) + IF k = Source(s) THEN -Amount(s) ELSE 0
               /\ QuantityBy(s, k)' = QuantityBy(s, k)
    BY <2>1, <2>2, <2>4 DEF ReservedBy, QuantityBy, Deciding
  <2>6. ASSUME NEW k \in Key
        PROVE  /\ tx[s]["reserved"][k] \in Int /\ tx[s]["quantity"][k] \in Int
               /\ tx'[s]["reserved"][k] = tx[s]["reserved"][k] + IF k = Source(s) THEN -Amount(s) ELSE 0
               /\ tx'[s]["quantity"][k] = tx[s]["quantity"][k]
    <3>1. /\ "reserved" \in DOMAIN change
          /\ "quantity" \notin DOMAIN change
          /\ change["reserved"] = -Amount(s)
      OBVIOUS
    <3> HIDE DEF change
    <3> QED
      BY <2>1, <2>2, <3>1, WriteValue, AccountNames
  <2>7. \A k \in Key : /\ tx'[s]["reserved"][k] = ReservedBy(s, k)'
                       /\ tx'[s]["quantity"][k] = QuantityBy(s, k)'
    BY <2>5, <2>6 DEF Progress
  <2> QED
    <3>1. \A r \in Session : r # s => /\ pc'[r] = pc[r] /\ job'[r] = job[r]
                                       /\ todo'[r] = todo[r] /\ tx'[r] = tx[r]
      BY <2>1 DEF Write, Typed, TypeOK
    <3> QED
      BY <2>7, <3>1, OthersProgress
<1>3. CASE CheckSource(s)
  <2>1. /\ \A r \in Session : r # s => /\ pc'[r] = pc[r] /\ job'[r] = job[r]
                                       /\ todo'[r] = todo[r] /\ tx'[r] = tx[r]
        /\ UNCHANGED <<job, todo, tx>> /\ pc[s] = "check" /\ pc'[s] = "debit" /\ todo[s] # <<>>
    BY <1>3 DEF CheckSource, Typed, TypeOK
  <2>2. Unwritten(s)' = Unwritten(s)
    BY <2>1 DEF Unwritten
  <2>3. ASSUME NEW k \in Key PROVE Taken(s, k)' = Taken(s, k) /\ Brought(s, k)' = Brought(s, k)
    BY <2>1, <2>2, TakenStep
  <2>4. \A k \in Key : /\ ReservedBy(s, k)' = ReservedBy(s, k)
                       /\ QuantityBy(s, k)' = QuantityBy(s, k)
    BY <2>1, <2>3 DEF ReservedBy, QuantityBy, Deciding
  <2> QED
    BY <2>1, <2>4, OthersProgress DEF Progress
<1>4. CASE DebitSource(s)
  <2> DEFINE change == [quantity |-> -Amount(s), reserved |-> -Amount(s), TRANSFER_OUT |-> -Amount(s)]
  <2>1. /\ Write(s, Source(s), change) /\ UNCHANGED <<book, transfer, job>>
        /\ pc' = [pc EXCEPT ![s] = "credit"] /\ \A r \in Session : r # s => todo'[r] = todo[r]
        /\ todo[s] # <<>> /\ pc[s] = "debit" /\ pc'[s] = "credit" /\ todo'[s] = todo[s]
    BY <1>4 DEF DebitSource, Typed, TypeOK
  <2>2. Source(s) \in Key /\ Amount(s) \in Int /\ change \in Changes
    BY <2>1, ItemType DEF Changes
  <2>3. Unwritten(s) = todo[s] /\ Unwritten(s)' = Tail(todo[s])
    BY <2>1 DEF Unwritten
  <2>4. ASSUME NEW k \in Key
        PROVE  /\ Taken(s, k) \in Int /\ Brought(s, k) \in Int
               /\ Taken(s, k)' = Taken(s, k) + IF k = Source(s) THEN Amount(s) ELSE 0
               /\ Brought(s, k)' = Brought(s, k)
    BY <2>1, <2>3, TakenStep
  <2>5. ASSUME NEW k \in Key
        PROVE  /\ ReservedBy(s, k)' = ReservedBy(s, k) + IF k = Source(s) THEN -Amount(s) ELSE 0
               /\ QuantityBy(s, k)' = QuantityBy(s, k) + IF k = Source(s) THEN -Amount(s) ELSE 0
    BY <2>1, <2>2, <2>4 DEF ReservedBy, QuantityBy, Deciding
  <2>6. ASSUME NEW k \in Key
        PROVE  /\ tx[s]["reserved"][k] \in Int /\ tx[s]["quantity"][k] \in Int
               /\ tx'[s]["reserved"][k] = tx[s]["reserved"][k] + IF k = Source(s) THEN -Amount(s) ELSE 0
               /\ tx'[s]["quantity"][k] = tx[s]["quantity"][k] + IF k = Source(s) THEN -Amount(s) ELSE 0
    <3>1. /\ "reserved" \in DOMAIN change
          /\ "quantity" \in DOMAIN change
          /\ change["reserved"] = -Amount(s)
          /\ change["quantity"] = -Amount(s)
      OBVIOUS
    <3> HIDE DEF change
    <3> QED
      BY <2>1, <2>2, <3>1, WriteValue, AccountNames
  <2>7. \A k \in Key : /\ tx'[s]["reserved"][k] = ReservedBy(s, k)'
                       /\ tx'[s]["quantity"][k] = QuantityBy(s, k)'
    BY <2>5, <2>6 DEF Progress
  <2> QED
    <3>1. \A r \in Session : r # s => /\ pc'[r] = pc[r] /\ job'[r] = job[r]
                                       /\ todo'[r] = todo[r] /\ tx'[r] = tx[r]
      BY <2>1 DEF Write, Typed, TypeOK
    <3> QED
      BY <2>7, <3>1, OthersProgress
<1>5. CASE CreditDest(s)
  <2> DEFINE change == [quantity |-> Amount(s), TRANSFER_IN |-> Amount(s)]
  <2>1. /\ Write(s, Dest(s), change) /\ UNCHANGED <<book, transfer, job>>
        /\ pc' = [pc EXCEPT ![s] = "check"] /\ \A r \in Session : r # s => todo'[r] = todo[r]
        /\ todo[s] # <<>> /\ pc[s] = "credit" /\ pc'[s] = "check" /\ todo'[s] = Tail(todo[s])
    BY <1>5 DEF CreditDest, NextItem, Typed, TypeOK
  <2>2. Dest(s) \in Key /\ Amount(s) \in Int /\ change \in Changes
    BY <2>1, ItemType DEF Changes
  <2>3. Unwritten(s) = Tail(todo[s]) /\ Unwritten(s)' = Tail(todo[s])
    BY <2>1 DEF Unwritten
  <2>4. ASSUME NEW k \in Key
        PROVE  /\ Taken(s, k) \in Int /\ Brought(s, k) \in Int
               /\ Taken(s, k)' = Taken(s, k)
               /\ Brought(s, k)' = Brought(s, k) + IF k = Dest(s) THEN Amount(s) ELSE 0
    BY <2>1, <2>3, TakenStep
  <2>5. ASSUME NEW k \in Key
        PROVE  /\ ReservedBy(s, k)' = ReservedBy(s, k)
               /\ QuantityBy(s, k)' = QuantityBy(s, k) + IF k = Dest(s) THEN Amount(s) ELSE 0
    BY <2>1, <2>2, <2>4 DEF ReservedBy, QuantityBy, Deciding
  <2>6. ASSUME NEW k \in Key
        PROVE  /\ tx[s]["reserved"][k] \in Int /\ tx[s]["quantity"][k] \in Int
               /\ tx'[s]["reserved"][k] = tx[s]["reserved"][k]
               /\ tx'[s]["quantity"][k] = tx[s]["quantity"][k] + IF k = Dest(s) THEN Amount(s) ELSE 0
    <3>1. /\ "reserved" \notin DOMAIN change
          /\ "quantity" \in DOMAIN change
          /\ change["quantity"] = Amount(s)
      OBVIOUS
    <3> HIDE DEF change
    <3> QED
      BY <2>1, <2>2, <3>1, WriteValue, AccountNames
  <2>7. \A k \in Key : /\ tx'[s]["reserved"][k] = ReservedBy(s, k)'
                       /\ tx'[s]["quantity"][k] = QuantityBy(s, k)'
    BY <2>5, <2>6 DEF Progress
  <2> QED
    <3>1. \A r \in Session : r # s => /\ pc'[r] = pc[r] /\ job'[r] = job[r]
                                       /\ todo'[r] = todo[r] /\ tx'[r] = tx[r]
      BY <2>1 DEF Write, Typed, TypeOK
    <3> QED
      BY <2>7, <3>1, OthersProgress
<1> QED
  BY <1>1, <1>2, <1>3, <1>4, <1>5, EndProgress
     DEF Step, Rollback, Commit, ReserveShort, InsertTransfer, CheckFails, DebitViolatesCheck,
         CreditViolatesCheck, ReleaseViolatesCheck, FinishDecision, ApplyAdjust, AdjustViolatesCheck

LEMMA NextProgress ==
  Safe /\ NothingLost /\ Progress /\ [Next]_vars => Progress'
<1> SUFFICES ASSUME Safe, NothingLost, Progress, [Next]_vars PROVE Progress'
  OBVIOUS
<1>1. CASE UNCHANGED vars
  <2>1. \A s \in Session, k \in Key : /\ ReservedBy(s, k)' = ReservedBy(s, k)
                                      /\ QuantityBy(s, k)' = QuantityBy(s, k)
    BY <1>1 DEF vars, ReservedBy, QuantityBy, Deciding, Taken, Brought, TakesOf, BringsOf,
       Unwritten, Takes, Brings
  <2> QED
    BY <1>1, <2>1 DEF vars, Progress
<1>2. Typed /\ OwnRows
  BY DEF Safe
<1> QED
  BY <1>1, <1>2, StartProgress, StepProgress, EndProgress
     DEF Next, Abort, DeadlockAbort, Rollback

-----------------------------------------------------------------------------
(* The contract. *)

\* A decision serves the body the transfer has.
BodyKept ==
  \A s \in Session : Deciding(s) => job[s].request = transfer[job[s].id].body

LEMMA NextBodyKept ==
  ASSUME Typed, Undecided, BodyKept, [Next]_vars
  PROVE  BodyKept'
<1>1. CASE UNCHANGED vars
  BY <1>1 DEF vars, BodyKept, Deciding
<1>2. ASSUME NEW s \in Session, transfer' = transfer,
             \A r \in Session : r # s => pc'[r] = pc[r] /\ job'[r] = job[r],
             Deciding(s)' => job'[s].request = transfer[job'[s].id].body
      PROVE  BodyKept'
  BY <1>2 DEF BodyKept, Deciding
<1>3. ASSUME NEW s \in Session, Start(s)
      PROVE  BodyKept'
  <2>1. CASE BeginCreate(s) \/ BeginAdjust(s)
    BY <1>2, <2>1 DEF BeginCreate, BeginAdjust, Begin, Deciding, Typed, TypeOK
  <2>2. CASE BeginApprove(s) \/ BeginRelease(s)
    <3>1. PICK t \in TransferId, op \in Decision, at \in {"check", "release"} :
            \E items \in Arrangements(transfer[t].body.items) :
              Begin(s, at, [op |-> op, id |-> t, request |-> transfer[t].body], items)
      BY <2>2 DEF BeginApprove, BeginRelease, BeginDecision, Decision
    <3>2. /\ transfer' = transfer
          /\ job'[s] = [op |-> op, id |-> t, request |-> transfer[t].body]
          /\ \A r \in Session : r # s => pc'[r] = pc[r] /\ job'[r] = job[r]
      BY <3>1 DEF Begin, Typed, TypeOK
    <3> QED
      BY <1>2, <3>2
  <2> QED
    BY <1>3, <2>1, <2>2 DEF Start
<1>4. ASSUME NEW s \in Session, Step(s) \/ Rollback(s), ~InsertTransfer(s), ~FinishDecision(s)
      PROVE  BodyKept'
  <2>1. CASE Rollback(s) \/ ApplyAdjust(s)
    BY <1>2, <2>1 DEF Rollback, ApplyAdjust, End, Deciding, Typed, TypeOK
  <2>2. CASE ReserveItem(s) \/ ReleaseItem(s) \/ CreditDest(s) \/ CheckSource(s) \/ DebitSource(s)
    <3>1. transfer' = transfer /\ job' = job /\ Deciding(s)' => Deciding(s)
      BY <2>2 DEF ReserveItem, ReleaseItem, CreditDest, CheckSource, DebitSource, NextItem, At,
         Deciding, Typed, TypeOK
    <3>2. \A r \in Session : r # s => pc'[r] = pc[r]
      BY <2>2 DEF ReserveItem, ReleaseItem, CreditDest, CheckSource, DebitSource, NextItem,
         Typed, TypeOK
    <3>3. transfer' = transfer /\ job' = job
      BY <2>2 DEF ReserveItem, ReleaseItem, CreditDest, CheckSource, DebitSource
    <3> QED
      BY <1>2, <3>1, <3>2, <3>3 DEF BodyKept
  <2> QED
    BY <1>4, <2>1, <2>2 DEF Step, ReserveShort, CheckFails, DebitViolatesCheck,
       CreditViolatesCheck, ReleaseViolatesCheck, AdjustViolatesCheck
<1>5. ASSUME NEW s \in Session, InsertTransfer(s) \/ FinishDecision(s)
      PROVE  BodyKept'
  <2>1. \A r \in Session : Deciding(r)' => r # s /\ Deciding(r) /\ job'[r] = job[r]
    BY <1>5 DEF InsertTransfer, FinishDecision, Commit, End, Deciding, Typed, TypeOK
  <2>2. \A r \in Session : Deciding(r) => /\ job[r].id \in TransferId
                                          /\ transfer[job[r].id].status = "PENDING"
    BY DEF Undecided, Deciding, Typed, JobFits, TransferJob
  <2>3. \A t \in TransferId : transfer[t].status = "PENDING" => transfer'[t].body = transfer[t].body
    <3>1. CASE InsertTransfer(s)
      BY <3>1 DEF InsertTransfer, Undecided, Typed, TypeOK
    <3>2. CASE FinishDecision(s)
      BY <3>2 DEF FinishDecision, Typed, TypeOK
    <3> QED
      BY <1>5, <3>1, <3>2
  <2> QED
    BY <2>1, <2>2, <2>3 DEF BodyKept
<1> QED
  BY <1>1, <1>3, <1>4, <1>5 DEF Next, Abort, DeadlockAbort

\* The inductive invariant.
Orderly == Safe /\ NothingLost /\ Progress /\ Undecided /\ BodyKept

LEMMA InitOrderly == Init => Orderly
<1>1. Init => BodyKept
  BY DEF Init, BodyKept, Deciding
<1> QED
  BY <1>1, InitSafe, InitLost, InitProgress, InitUndecided DEF Orderly

LEMMA NextUndecided ==
  ASSUME OneDecides, Typed, Undecided, [Next]_vars
  PROVE  Undecided'
<1>1. CASE UNCHANGED vars
  BY <1>1 DEF vars, Undecided, Deciding
<1>2. CASE Next
  BY <1>2, StartUndecided, CommitUndecided, OthersUndecided DEF Next, Abort, DeadlockAbort
<1> QED
  BY <1>1, <1>2

LEMMA NextOrderly ==
  ASSUME OneDecides, Orderly, [Next]_vars
  PROVE  Orderly'
<1>1. Typed
  BY DEF Orderly, Safe
<1> QED
  BY <1>1, NextSafe, NextLost, NextProgress, NextUndecided, NextBodyKept DEF Orderly

\* What a transaction at the end of its loop has written is what its request
\* takes and brings.
LEMMA LoopDone ==
  ASSUME Typed, Progress, NEW s \in Session, pc[s] \in {"reserve", "check", "release"},
         todo[s] = <<>>, NEW k \in Key
  PROVE  LET body == job[s].request IN
         /\ Takes(body, k) \in Int /\ Brings(body, k) \in Int
         /\ tx[s]["reserved"][k] = IF pc[s] = "reserve" THEN Takes(body, k) ELSE - Takes(body, k)
         /\ tx[s]["quantity"][k] =
              IF pc[s] = "check" THEN Brings(body, k) - Takes(body, k) ELSE 0
<1> DEFINE body == job[s].request
<1>1. body \in Request
  BY DEF Typed, TypeOK, JobFits, TransferJob
<1>2. Takes(body, k) \in Int /\ Brings(body, k) \in Int
  BY <1>1, RequestType, UnitsType DEF Takes, Brings
<1>3. TakesOf(body, <<>>, k) = 0 /\ BringsOf(body, <<>>, k) = 0
  BY UnitsEmpty DEF TakesOf, BringsOf
<1>4. Unwritten(s) = <<>>
  BY DEF Unwritten
<1>5. Taken(s, k) = Takes(body, k) /\ Brought(s, k) = Brings(body, k)
  BY <1>2, <1>3, <1>4 DEF Taken, Brought
<1>6. /\ ReservedBy(s, k) = IF pc[s] = "reserve" THEN Takes(body, k) ELSE - Takes(body, k)
      /\ QuantityBy(s, k) = IF pc[s] = "check" THEN Brings(body, k) - Takes(body, k) ELSE 0
  BY <1>5 DEF ReservedBy, QuantityBy, Deciding
<1> QED
  BY <1>2, <1>6 DEF Progress

\* The contract is stated over the same tables.
LEMMA ContractTables ==
  ASSUME NEW body, NEW k
  PROVE  /\ Contract!Key = Key
         /\ \A f : Contract!SumFunction(f) = SumFunction(f)
         /\ Contract!Takes(body, k) = Takes(body, k)
         /\ Contract!Brings(body, k) = Brings(body, k)
<1>1. Contract!Key = Key
  BY DEF Contract!Key, Key
<1>2. \A f : Contract!SumFunction(f) = SumFunction(f)
  BY DEF Contract!SumFunction, Contract!SumFunctionOnSet, Contract!FoldFunctionOnSet,
     Contract!MapThenFoldSet, SumFunction, SumFunctionOnSet, FoldFunctionOnSet, MapThenFoldSet
<1>3. \A items, c : Contract!Units(items, c) = Units(items, c)
  BY <1>2 DEF Contract!Units, Units
<1> QED
  BY <1>1, <1>2, <1>3 DEF Contract!Takes, Takes, Contract!Brings, Brings

LEMMA InitContract == Init => Contract!Init
<1> SUFFICES ASSUME Init PROVE Contract!Init
  OBVIOUS
<1>1. book["quantity"] = Opening /\ book["reserved"] = [k \in Key |-> 0]
  BY AccountNames DEF Init, Nothing
<1> QED
  BY <1>1 DEF Init, Contract!Init, Contract!NoBody, NoBody, Contract!Key, Key

LEMMA InsertReserves ==
  ASSUME Orderly, NEW s \in Session, InsertTransfer(s)
  PROVE  Contract!Reserve(job[s].id, job[s].request)
<1> DEFINE body == job[s].request
<1>1. pc[s] = "reserve" /\ todo[s] = <<>> /\ Typed /\ Progress
  BY DEF InsertTransfer, Orderly, Safe
<1>2. /\ book' = [a \in Account |-> [k \in Key |-> book[a][k] + tx[s][a][k]]]
      /\ book["quantity"] \in [Key -> Int] /\ book["reserved"] \in [Key -> Int]
  BY <1>1, AccountNames DEF InsertTransfer, Commit, Visible, Typed, TypeOK, Ledger
<1>3. \A k \in Key : /\ Takes(body, k) \in Int
                     /\ tx[s]["reserved"][k] = Takes(body, k) /\ tx[s]["quantity"][k] = 0
  BY <1>1, LoopDone
<1>4. book'["reserved"] = [k \in Key |-> book["reserved"][k] + Takes(body, k)]
  BY <1>2, <1>3, AccountNames
<1>5. book'["quantity"] = book["quantity"]
  BY <1>2, <1>3, AccountNames
<1>6. \A k \in Key : book["quantity"][k] - book["reserved"][k] >= Takes(body, k)
  <2> SUFFICES ASSUME NEW k \in Key
               PROVE  book["quantity"][k] - book["reserved"][k] >= Takes(body, k)
    OBVIOUS
  <2>1. book["reserved"][k] + Takes(body, k) <= book["quantity"][k] + 0
    BY <1>3 DEF Orderly, Safe, SeenFits, Visible, RowFits
  <2> QED
    BY <1>2, <1>3, <2>1
<1>7. /\ transfer[job[s].id].status = "ABSENT"
      /\ transfer' = [transfer EXCEPT ![job[s].id] = [status |-> "PENDING", body |-> body]]
  BY <1>1 DEF InsertTransfer, Orderly, Undecided
<1> HIDE DEF body
<1> QED
  BY <1>4, <1>5, <1>6, <1>7, ContractTables DEF Contract!Reserve, body

LEMMA FinishDecides ==
  ASSUME Orderly, NEW s \in Session, FinishDecision(s)
  PROVE  Contract!Complete(job[s].id) \/ Contract!Release(job[s].id)
<1> DEFINE t == job[s].id
           body == transfer[t].body
<1>1. pc[s] \in {"check", "release"} /\ todo[s] = <<>> /\ Typed /\ Progress
  BY DEF FinishDecision, Orderly, Safe
<1>2. transfer[t].status = "PENDING" /\ body = job[s].request
  BY <1>1 DEF Orderly, Undecided, BodyKept, Deciding
<1>3. /\ book' = [a \in Account |-> [k \in Key |-> book[a][k] + tx[s][a][k]]]
      /\ book["quantity"] \in [Key -> Int] /\ book["reserved"] \in [Key -> Int]
  BY <1>1, AccountNames DEF FinishDecision, Commit, Visible, Typed, TypeOK, Ledger
<1>4. \A k \in Key : /\ Takes(body, k) \in Int /\ Brings(body, k) \in Int
                     /\ tx[s]["reserved"][k] = - Takes(body, k)
                     /\ tx[s]["quantity"][k] =
                          IF pc[s] = "check" THEN Brings(body, k) - Takes(body, k) ELSE 0
  BY <1>1, <1>2, LoopDone
<1> HIDE DEF body
<1>5. book'["reserved"] = [k \in Key |-> book["reserved"][k] - Takes(body, k)]
  BY <1>3, <1>4, AccountNames
<1>6. transfer' = [transfer EXCEPT ![t].status = Outcome(job[s].op)]
  BY DEF FinishDecision
<1>7. Contract!Decide(t, Outcome(job[s].op))
  BY <1>2, <1>5, <1>6, ContractTables DEF Contract!Decide, body
<1>8. CASE pc[s] = "check"
  <2>1. Outcome(job[s].op) = "COMPLETED"
    BY <1>1, <1>8 DEF Outcome, Typed, JobFits
  <2>2. book'["quantity"] = [k \in Key |-> book["quantity"][k] - Takes(body, k) + Brings(body, k)]
    BY <1>3, <1>4, <1>8, AccountNames
  <2> QED
    BY <1>7, <2>1, <2>2, ContractTables DEF Contract!Complete, body
<1>9. CASE pc[s] = "release"
  <2>1. Outcome(job[s].op) \in {"REJECTED", "CANCELLED"}
    BY <1>1, <1>9 DEF Outcome, Typed, JobFits
  <2>2. book'["quantity"] = book["quantity"]
    <3>1. \A k \in Key : book["quantity"][k] + tx[s]["quantity"][k] = book["quantity"][k]
      BY <1>3, <1>4, <1>9
    <3> QED
      BY <1>3, <3>1, AccountNames
  <2> QED
    BY <1>7, <2>1, <2>2 DEF Contract!Release
<1> QED
  BY <1>1, <1>8, <1>9

LEMMA ApplyAdjusts ==
  ASSUME Orderly, NEW s \in Session, ApplyAdjust(s)
  PROVE  Contract!Adjust(job[s].key, job[s].change)
<1> DEFINE k == job[s].key
           n == job[s].change
           change == [quantity |-> n, ADJUSTMENT |-> n]
<1>1. Typed /\ pc[s] = "adjust" /\ k \in Key /\ n \in Int
  BY DEF Orderly, Safe, Typed, JobFits, AdjustJob, ApplyAdjust
<1>2. /\ book' = Post(book, k, change) /\ Fits(s, k, n, 0) /\ transfer' = transfer
      /\ book["quantity"] \in [Key -> Int] /\ book["reserved"] \in [Key -> Int]
  BY <1>1, AccountNames DEF ApplyAdjust, Typed, TypeOK, Ledger
<1>3. tx[s]["quantity"][k] = 0 /\ tx[s]["reserved"][k] = 0
  BY <1>1, NothingIsZero, AccountNames DEF Orderly, Safe, OwnRows
<1>4. book["quantity"][k] + n >= book["reserved"][k]
  BY <1>1, <1>2, <1>3 DEF Fits, RowFits, Visible
<1>5. "quantity" \in DOMAIN change /\ change["quantity"] = n /\ "reserved" \notin DOMAIN change
  OBVIOUS
<1> HIDE DEF change, n, k
<1>6. book'["quantity"] = [book["quantity"] EXCEPT ![k] = @ + n]
  <2>1. book'["quantity"] = [l \in Key |-> book["quantity"][l] + IF l = k THEN n ELSE 0]
    BY <1>2, <1>5, AccountNames DEF Post
  <2> QED
    BY <1>1, <1>2, <2>1
<1>7. book'["reserved"] = book["reserved"]
  BY <1>1, <1>2, <1>5, AccountNames DEF Post
<1> QED
  BY <1>2, <1>4, <1>6, <1>7 DEF Contract!Adjust, k, n

\* Every other step leaves what the contract sees.
LEMMA OthersStutter ==
  ASSUME Typed, NEW s \in Session, Start(s) \/ Step(s) \/ Rollback(s),
         ~InsertTransfer(s), ~FinishDecision(s), ~ApplyAdjust(s)
  PROVE  UNCHANGED <<book, transfer>>
BY DEF Start, BeginCreate, BeginApprove, BeginRelease, BeginDecision, BeginAdjust, Begin,
   Step, ReserveItem, ReserveShort, CheckSource, CheckFails, DebitSource, DebitViolatesCheck,
   CreditDest, CreditViolatesCheck, ReleaseItem, ReleaseViolatesCheck, AdjustViolatesCheck,
   Rollback

LEMMA ContractStep ==
  ASSUME Orderly, [Next]_vars
  PROVE  [Contract!Next]_(Contract!contractVars)
<1>1. ASSUME UNCHANGED <<book, transfer>>
      PROVE  UNCHANGED Contract!contractVars
  BY <1>1 DEF Contract!contractVars
<1>2. CASE UNCHANGED vars
  BY <1>1, <1>2 DEF vars
<1>3. ASSUME NEW s \in Session, InsertTransfer(s)
      PROVE  Contract!Next
  <2>1. job[s].id \in TransferId /\ job[s].request \in Request
    BY <1>3 DEF InsertTransfer, Orderly, Safe, Typed, JobFits, TransferJob
  <2> QED
    BY <1>3, <2>1, InsertReserves DEF Contract!Next
<1>4. ASSUME NEW s \in Session, FinishDecision(s)
      PROVE  Contract!Next
  <2>1. job[s].id \in TransferId
    BY <1>4 DEF FinishDecision, Orderly, Safe, Typed, JobFits, TransferJob
  <2> QED
    BY <1>4, <2>1, FinishDecides DEF Contract!Next
<1>5. ASSUME NEW s \in Session, ApplyAdjust(s)
      PROVE  Contract!Next
  <2>1. job[s].key \in Key /\ job[s].change \in Adjustment
    BY <1>5 DEF ApplyAdjust, Orderly, Safe, Typed, JobFits, AdjustJob
  <2> QED
    BY <1>5, <2>1, ApplyAdjusts, ContractTables DEF Contract!Next
<1>6. Typed
  BY DEF Orderly, Safe
<1>7. CASE Next
  BY <1>1, <1>3, <1>4, <1>5, <1>6, <1>7, OthersStutter DEF Next, Abort, DeadlockAbort
<1> QED
  BY <1>2, <1>7

\* While decisions come one at a time, what is committed changes as the contract
\* says: all items of a request or none, one decision per transfer, and the
\* decision moves or frees exactly what was reserved, whatever else interleaves.
THEOREM ImplementsContractAlways ==
  ASSUME OneDecides
  PROVE  Spec => ImplementsContract
<1>1. Orderly /\ [Next]_vars => Orderly'
  BY NextOrderly
<1>2. Orderly /\ [Next]_vars => [Contract!Next]_(Contract!contractVars)
  BY ContractStep
<1> QED
  BY <1>1, <1>2, InitOrderly, InitContract, PTL DEF Spec, ImplementsContract, Contract!Spec

\* The pending transfers, and what each transfer takes from a row.
PendingIn(table) == {t \in TransferId : table[t].status = "PENDING"}
TakenBy(table, k) == [t \in TransferId |-> Takes(table[t].body, k)]

\* The reservation of a row is the sum of what the pending transfers, finitely
\* many, take from it.
Tallied ==
  /\ IsFiniteSet(PendingIn(transfer))
  /\ \A k \in Key :
       book["reserved"][k] = SumFunctionOnSet(TakenBy(transfer, k), PendingIn(transfer))

LEMMA TakenByType ==
  ASSUME Typed, NEW t \in PendingIn(transfer), NEW k \in Key
  PROVE  TakenBy(transfer, k)[t] = Takes(transfer[t].body, k) /\ Takes(transfer[t].body, k) \in Int
<1>1. t \in TransferId /\ transfer[t].body \in Request
  BY DEF Typed, PendingHasBody, PendingIn
<1> QED
  BY <1>1, RequestType, UnitsType DEF TakenBy, Takes

LEMMA InitTallied == Init => Tallied
<1> SUFFICES ASSUME Init PROVE Tallied
  OBVIOUS
<1>1. PendingIn(transfer) = {}
  BY DEF Init, PendingIn
<1>2. \A k \in Key : book["reserved"][k] = 0
  BY AccountNames DEF Init, Nothing
<1> QED
  BY <1>1, <1>2, SumEmpty, FS_EmptySet DEF Tallied

\* A transfer that is reserved for joins the pending ones.
LEMMA ReserveTallied ==
  ASSUME Typed, Tallied, NEW t \in TransferId, NEW body \in Request,
         transfer[t].status = "ABSENT",
         transfer' = [transfer EXCEPT ![t] = [status |-> "PENDING", body |-> body]],
         \A k \in Key : book'["reserved"][k] = book["reserved"][k] + Takes(body, k)
  PROVE  Tallied'
<1> DEFINE P == PendingIn(transfer)
<1>1. PendingIn(transfer') = P \cup {t} /\ t \notin P
  BY DEF PendingIn, Typed, TypeOK
<1>2. IsFiniteSet(P) /\ IsFiniteSet(P \cup {t})
  BY FS_AddElement DEF Tallied
<1>3. \A u \in P : u \in TransferId /\ u # t /\ transfer'[u] = transfer[u]
  BY <1>1 DEF PendingIn, Typed, TypeOK
<1>4. transfer'[t].body = body
  BY DEF Typed, TypeOK
<1>5. ASSUME NEW k \in Key
      PROVE  book'["reserved"][k] = SumFunctionOnSet(TakenBy(transfer', k), P \cup {t})
  <2> DEFINE f == TakenBy(transfer, k)
             g == TakenBy(transfer', k)
  <2>1. \A u \in P : f[u] \in Int /\ f[u] = g[u]
    <3>1. \A u \in P : f[u] \in Int
      BY TakenByType
    <3>2. \A u \in P : f[u] = g[u]
      BY <1>3 DEF TakenBy
    <3> QED
      BY <3>1, <3>2
  <2>2. g[t] = Takes(body, k) /\ Takes(body, k) \in Int
    BY <1>4, RequestType, UnitsType DEF TakenBy, Takes
  <2>3. book["reserved"][k] = SumFunctionOnSet(f, P) /\ book["reserved"][k] \in Int
    BY AccountNames DEF Tallied, Typed, TypeOK, Ledger
  <2> HIDE DEF f, g, P
  <2>4. SumFunctionOnSet(f, P) = SumFunctionOnSet(g, P)
    BY <1>2, <2>1, SumEqual
  <2>5. SumFunctionOnSet(g, P \cup {t}) = g[t] + SumFunctionOnSet(g, P)
    BY <1>1, <1>2, <2>1, <2>2, SumPut
  <2>6. SumFunctionOnSet(g, P \cup {t}) = book'["reserved"][k]
    BY <2>2, <2>3, <2>4, <2>5
  <2> QED
    BY <2>6 DEF g
<1> HIDE DEF P
<1> QED
  BY <1>1, <1>2, <1>5 DEF Tallied

\* A transfer that is decided leaves them.
LEMMA DecideTallied ==
  ASSUME Typed, Tallied, NEW t \in TransferId, NEW status, status # "PENDING",
         transfer[t].status = "PENDING",
         transfer' = [transfer EXCEPT ![t].status = status],
         \A k \in Key : book'["reserved"][k] = book["reserved"][k] - Takes(transfer[t].body, k)
  PROVE  Tallied'
<1> DEFINE P == PendingIn(transfer)
<1>1. PendingIn(transfer') = P \ {t} /\ t \in P
  BY DEF PendingIn, Typed, TypeOK
<1>2. IsFiniteSet(P) /\ IsFiniteSet(P \ {t})
  BY FS_RemoveElement DEF Tallied
<1>3. \A u \in P \ {t} : u \in TransferId /\ transfer'[u] = transfer[u]
  BY DEF PendingIn, Typed, TypeOK
<1>4. ASSUME NEW k \in Key
      PROVE  book'["reserved"][k] = SumFunctionOnSet(TakenBy(transfer', k), P \ {t})
  <2> DEFINE f == TakenBy(transfer, k)
             g == TakenBy(transfer', k)
  <2>1. \A u \in P : f[u] \in Int
    BY TakenByType
  <2>2. \A u \in P \ {t} : f[u] \in Int /\ f[u] = g[u]
    BY <1>3, <2>1 DEF TakenBy
  <2>3. f[t] = Takes(transfer[t].body, k) /\ f[t] \in Int
    BY <1>1, TakenByType
  <2>4. book["reserved"][k] = SumFunctionOnSet(f, P)
        /\ book'["reserved"][k] = book["reserved"][k] - f[t]
    BY <2>3 DEF Tallied
  <2> HIDE DEF f, g, P
  <2>5. SumFunctionOnSet(f, P) = f[t] + SumFunctionOnSet(f, P \ {t})
    BY <1>1, <1>2, <2>1, SumTake
  <2>6. SumFunctionOnSet(f, P \ {t}) = SumFunctionOnSet(g, P \ {t})
        /\ SumFunctionOnSet(f, P \ {t}) \in Int
    BY <1>2, <2>2, SumEqual, SumType
  <2>7. book'["reserved"][k] = SumFunctionOnSet(g, P \ {t})
    BY <2>3, <2>4, <2>5, <2>6
  <2> QED
    BY <2>7 DEF g
<1> HIDE DEF P
<1> QED
  BY <1>1, <1>2, <1>4 DEF Tallied

LEMMA StepTallied ==
  ASSUME Typed, Tallied, [Contract!Next]_(Contract!contractVars)
  PROVE  Tallied'
<1>1. ASSUME book'["reserved"] = book["reserved"], transfer' = transfer
      PROVE  Tallied'
  BY <1>1 DEF Tallied
<1>2. CASE UNCHANGED Contract!contractVars
  BY <1>1, <1>2 DEF Contract!contractVars
<1>3. ASSUME NEW t \in TransferId, NEW body \in Request, Contract!Reserve(t, body)
      PROVE  Tallied'
  <2>1. /\ transfer[t].status = "ABSENT"
        /\ transfer' = [transfer EXCEPT ![t] = [status |-> "PENDING", body |-> body]]
        /\ book'["reserved"] = [k \in Key |-> book["reserved"][k] + Takes(body, k)]
    BY <1>3, ContractTables DEF Contract!Reserve
  <2>2. \A k \in Key : book'["reserved"][k] = book["reserved"][k] + Takes(body, k)
    BY <2>1
  <2> QED
    BY <2>1, <2>2, ReserveTallied
<1>4. ASSUME NEW t \in TransferId, Contract!Complete(t) \/ Contract!Release(t)
      PROVE  Tallied'
  <2>1. PICK status \in Terminal : Contract!Decide(t, status)
    BY <1>4 DEF Contract!Complete, Contract!Release, Terminal
  <2>2. status # "PENDING"
    BY DEF Terminal
  <2>3. /\ transfer[t].status = "PENDING"
        /\ transfer' = [transfer EXCEPT ![t].status = status]
        /\ book'["reserved"] = [k \in Key |-> book["reserved"][k] - Takes(transfer[t].body, k)]
    BY <2>1, ContractTables DEF Contract!Decide
  <2>4. \A k \in Key : book'["reserved"][k] = book["reserved"][k] - Takes(transfer[t].body, k)
    BY <2>3
  <2> QED
    BY <2>2, <2>3, <2>4, DecideTallied
<1>5. ASSUME NEW k, NEW change, Contract!Adjust(k, change)
      PROVE  Tallied'
  BY <1>1, <1>5 DEF Contract!Adjust
<1> QED
  BY <1>2, <1>3, <1>4, <1>5 DEF Contract!Next

\* While decisions come one at a time, the reservation of a row is exactly what
\* the pending transfers need of it: no unit stays reserved for a transfer that
\* is decided, and no pending transfer lacks its reservation.
THEOREM PendingBackedAlways ==
  ASSUME OneDecides
  PROVE  Spec => []PendingBacked
<1> DEFINE IInv == Orderly /\ Tallied
<1>1. Init => IInv
  BY InitOrderly, InitTallied
<1>2. IInv /\ [Next]_vars => IInv'
  BY NextOrderly, ContractStep, StepTallied DEF Orderly, Safe
<1>3. IInv => PendingBacked
  <2> SUFFICES ASSUME Typed, Tallied, NEW k \in Key
               PROVE  book["reserved"][k] =
                        SumFunction([t \in PendingIn(transfer) |-> Takes(transfer[t].body, k)])
    <3>1. \A l \in Key : [t \in Contract!Pending |-> Contract!Takes(transfer[t].body, l)]
                            = [t \in PendingIn(transfer) |-> Takes(transfer[t].body, l)]
      BY ContractTables DEF Contract!Pending, PendingIn
    <3> QED
      BY <3>1, ContractTables DEF PendingBacked, Contract!Backed, Orderly, Safe
  <2> DEFINE P == PendingIn(transfer)
             f == TakenBy(transfer, k)
             g == [t \in P |-> Takes(transfer[t].body, k)]
  <2>1. IsFiniteSet(P) /\ \A t \in P : f[t] \in Int /\ f[t] = g[t]
    BY TakenByType DEF Tallied
  <2>2. book["reserved"][k] = SumFunctionOnSet(f, P)
    BY DEF Tallied
  <2>3. SumFunction(g) = SumFunctionOnSet(g, P)
    BY DEF SumFunction
  <2> HIDE DEF P, f
  <2>4. book["reserved"][k] = SumFunction(g)
    <3> HIDE DEF g
    <3> QED
      BY <2>1, <2>2, <2>3, SumEqual
  <2> QED
    BY <2>4 DEF g, P
<1> QED
  BY <1>1, <1>2, <1>3, PTL DEF Spec
=============================================================================
