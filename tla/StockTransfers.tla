--------------------------- MODULE StockTransfers ---------------------------
(***************************************************************************)
(* The stock tables of StockFlow and the requests that move stock:         *)
(* TransfersService.create / approve / reject / cancel and                 *)
(* InventoryService.adjust.  Each request is one Prisma interactive        *)
(* transaction on PostgreSQL at READ COMMITTED:                            *)
(*                                                                         *)
(*  - a plain read (findUnique) sees the committed rows plus the           *)
(*    transaction's own writes and takes no lock;                          *)
(*  - an UPDATE or an upsert waits for the row lock, is evaluated against  *)
(*    the newest committed row, is checked against the CHECK constraints   *)
(*    and keeps the row locked until the transaction ends;                 *)
(*  - a thrown error, a violated CHECK, a lost connection, the transaction *)
(*    timeout and the deadlock detector all roll the transaction back.     *)
(*                                                                         *)
(* A transaction is a sequence of steps of its session.  What it has       *)
(* written so far is kept as differences in tx; book and transfer hold     *)
(* what is committed.  An inventory row that does not exist behaves in     *)
(* every statement below as a row of zeros, and is modelled as one.        *)
(***************************************************************************)
EXTENDS StockTables

CONSTANTS
  Session,      \* concurrent API requests (one connection each)
  Opening,      \* stock already imported, with its IMPORT_IN movements
  Endpoint,     \* Endpoint[s]: the operations requests of session s may call
  MaxInt,       \* largest value of the integer column quantity
  NoSession     \* the holder of an unlocked row

Operation == {"create", "approve", "reject", "cancel", "adjust"}

ASSUME SessionAssumption ==
  /\ NoSession \notin Session
  /\ MaxInt \in Nat
  /\ Opening \in [Key -> 0 .. MaxInt]
  /\ Endpoint \in [Session -> SUBSET Operation]

\* The two stock columns of inventory, and per movement type the sum of
\* stock_movements.quantity_change.  ADJUSTMENT_IN and ADJUSTMENT_OUT are one
\* account: the sign tells them apart.
Movement == {"IMPORT_IN", "ADJUSTMENT", "TRANSFER_OUT", "TRANSFER_IN",
             "RESERVATION_CREATED", "RESERVATION_RELEASED"}
Account == Movement \cup {"quantity", "reserved"}
Ledger  == [Account -> [Key -> Int]]

NoJob == [op |-> "none"]

TransferJob == [op : Operation, id : TransferId, request : Request]
AdjustJob   == [op : {"adjust"}, key : Key, change : Adjustment]

VARIABLES
  book,       \* committed stock columns and movement sums
  transfer,   \* committed transfers: status and body
  lock,       \* lock[k]: the session whose transaction has locked row k
  pc,         \* the statement a session's transaction executes next
  job,        \* the request a session serves
  todo,       \* the items its loop has still to process
  tx          \* its uncommitted differences to book

vars == <<book, transfer, lock, pc, job, todo, tx>>

Nothing == [a \in Account |-> [k \in Key |-> 0]]

Init ==
  /\ book = [Nothing EXCEPT !["quantity"] = Opening, !["IMPORT_IN"] = Opening]
  /\ transfer = [t \in TransferId |-> [status |-> "ABSENT", body |-> NoBody]]
  /\ lock = [k \in Key |-> NoSession]
  /\ pc   = [s \in Session |-> "idle"]
  /\ job  = [s \in Session |-> NoJob]
  /\ todo = [s \in Session |-> <<>>]
  /\ tx   = [s \in Session |-> Nothing]

-----------------------------------------------------------------------------
(* Transactions. *)

\* A row as a statement of the session sees it.
Visible(s, a, k) == book[a][k] + tx[s][a][k]

\* A row a statement of the session need not wait for.
Free(s, k) == lock[k] \in {NoSession, s}

\* The CHECK constraints and the integer range of an updated row.
RowFits(quantity, reserved) ==
  /\ 0 <= reserved
  /\ reserved <= quantity
  /\ quantity <= MaxInt

\* Mutation: the constraint reserved_quantity <= quantity is missing.
FitsUnreserved(s, k, dq, dr) ==
  /\ Visible(s, "quantity", k) + dq \in 0 .. MaxInt
  /\ Visible(s, "reserved", k) + dr >= 0

\* The updated row satisfies the constraints as the transaction sees it.
Fits(s, k, dq, dr) ==
  RowFits(Visible(s, "quantity", k) + dq, Visible(s, "reserved", k) + dr)

\* The accounts after the changes of one statement to the row k.
Post(e, k, change) ==
  [a \in Account |-> [l \in Key |->
     e[a][l] + IF l = k /\ a \in DOMAIN change THEN change[a] ELSE 0]]

\* An UPDATE: the row stays locked, the change is the transaction's own.
Write(s, k, change) ==
  /\ lock' = [lock EXCEPT ![k] = s]
  /\ tx' = [tx EXCEPT ![s] = Post(@, k, change)]

\* Mutation: the connection goes back to the pool with its transaction open.
EndKeepsLocks(s) ==
  /\ pc'   = [pc EXCEPT ![s] = "idle"]
  /\ job'  = [job EXCEPT ![s] = NoJob]
  /\ todo' = [todo EXCEPT ![s] = <<>>]
  /\ tx'   = [tx EXCEPT ![s] = Nothing]
  /\ UNCHANGED lock

\* The end of a transaction: locks are released, the session is idle again.
End(s) ==
  /\ lock' = [k \in Key |-> IF lock[k] = s THEN NoSession ELSE lock[k]]
  /\ pc'   = [pc EXCEPT ![s] = "idle"]
  /\ job'  = [job EXCEPT ![s] = NoJob]
  /\ todo' = [todo EXCEPT ![s] = <<>>]
  /\ tx'   = [tx EXCEPT ![s] = Nothing]

Commit(s) ==
  /\ book' = [a \in Account |-> [k \in Key |-> Visible(s, a, k)]]
  /\ End(s)

Rollback(s) == End(s) /\ UNCHANGED <<book, transfer>>

Begin(s, at, j, items) ==
  /\ pc[s] = "idle"
  /\ pc'   = [pc EXCEPT ![s] = at]
  /\ job'  = [job EXCEPT ![s] = j]
  /\ todo' = [todo EXCEPT ![s] = items]
  /\ UNCHANGED <<book, transfer, lock, tx>>

\* The item of the current loop iteration and the two rows it concerns.
At(s, label) == pc[s] = label /\ todo[s] # <<>>
Amount(s)    == Head(todo[s]).quantity
Source(s)    == <<job[s].request.from, Head(todo[s]).component>>
Dest(s)      == <<job[s].request.to, Head(todo[s]).component>>

NextItem(s, label) ==
  /\ todo' = [todo EXCEPT ![s] = Tail(@)]
  /\ pc'   = [pc EXCEPT ![s] = label]

\* The orders in which a query may return the items of a transfer (there is
\* no ORDER BY), and among them those sorted by component id.
Arrangements(items) ==
  {[i \in DOMAIN items |-> items[o[i]]] :
     o \in Bijection(DOMAIN items, DOMAIN items)}

\* Mutation: items are locked in the order of the request.
LockOrderUnsorted(items) == {items}

LockOrder(items) ==
  {a \in Arrangements(items) :
     \A i, j \in DOMAIN a : i < j => a[i].component <= a[j].component}

-----------------------------------------------------------------------------
(* TransfersService.create *)

\* An id no row has and no other create in flight has drawn.
Fresh(t) ==
  /\ transfer[t].status = "ABSENT"
  /\ \A s \in Session : job[s] \in TransferJob => job[s].id # t

BeginCreate(s) ==
  /\ "create" \in Endpoint[s]
  /\ \E t \in TransferId, r \in Request :
       /\ Fresh(t)
       /\ \E items \in LockOrder(r.items) :
            Begin(s, "reserve", [op |-> "create", id |-> t, request |-> r], items)

\* The WHERE clause of the conditional UPDATE.
Available(s) ==
  Visible(s, "quantity", Source(s)) - Visible(s, "reserved", Source(s)) >= Amount(s)

\* UPDATE inventory SET reserved += n WHERE quantity - reserved >= n: one row.
ReserveItem(s) ==
  /\ At(s, "reserve")
  /\ Available(s)
  /\ Free(s, Source(s))
  /\ Write(s, Source(s), [reserved |-> Amount(s), RESERVATION_CREATED |-> Amount(s)])
  /\ NextItem(s, "reserve")
  /\ UNCHANGED <<book, transfer, job>>

\* The UPDATE matched no row: "Insufficient available stock" is thrown.  A row
\* whose committed version fails the WHERE clause is skipped without waiting.
ReserveShort(s) ==
  /\ At(s, "reserve")
  /\ ~Available(s)
  /\ Rollback(s)

InsertTransfer(s) ==
  /\ pc[s] = "reserve"
  /\ todo[s] = <<>>
  /\ transfer' = [transfer EXCEPT ![job[s].id] =
                    [status |-> "PENDING", body |-> job[s].request]]
  /\ Commit(s)

-----------------------------------------------------------------------------
(* TransfersService.approve *)

\* Mutation: the status is not looked at.
BeginDecisionUnchecked(s, op, at) ==
  /\ op \in Endpoint[s]
  /\ \E t \in TransferId :
       /\ transfer[t].status # "ABSENT"
       /\ \E items \in Arrangements(transfer[t].body.items) :
            Begin(s, at, [op |-> op, id |-> t, request |-> transfer[t].body], items)

\* The status is read without a lock; a transfer that is not PENDING is
\* refused, which changes nothing.
BeginDecision(s, op, at) ==
  /\ op \in Endpoint[s]
  /\ \E t \in TransferId :
       /\ transfer[t].status = "PENDING"
       /\ \E items \in Arrangements(transfer[t].body.items) :
            Begin(s, at, [op |-> op, id |-> t, request |-> transfer[t].body], items)

BeginApprove(s) == BeginDecision(s, "approve", "check")

\* findUnique(source) and the two comparisons of the loop.
SourceCovers(s) ==
  /\ Visible(s, "reserved", Source(s)) >= Amount(s)
  /\ Visible(s, "quantity", Source(s)) >= Amount(s)

CheckSource(s) ==
  /\ At(s, "check")
  /\ SourceCovers(s)
  /\ pc' = [pc EXCEPT ![s] = "debit"]
  /\ UNCHANGED <<book, transfer, lock, job, todo, tx>>

CheckFails(s) ==
  /\ At(s, "check")
  /\ ~SourceCovers(s)
  /\ Rollback(s)

\* Mutation: approval takes the reservation and leaves the quantity.
DebitReservedOnly(s) ==
  /\ At(s, "debit")
  /\ Free(s, Source(s))
  /\ Fits(s, Source(s), 0, -Amount(s))
  /\ Write(s, Source(s), [reserved |-> -Amount(s), TRANSFER_OUT |-> -Amount(s)])
  /\ pc' = [pc EXCEPT ![s] = "credit"]
  /\ UNCHANGED <<book, transfer, job, todo>>

\* The source row is decremented; its TRANSFER_OUT movement is inserted after
\* the upsert of the destination, visible to nobody else before the commit.
DebitSource(s) ==
  /\ At(s, "debit")
  /\ Free(s, Source(s))
  /\ Fits(s, Source(s), -Amount(s), -Amount(s))
  /\ Write(s, Source(s), [quantity |-> -Amount(s), reserved |-> -Amount(s),
                          TRANSFER_OUT |-> -Amount(s)])
  /\ pc' = [pc EXCEPT ![s] = "credit"]
  /\ UNCHANGED <<book, transfer, job, todo>>

DebitViolatesCheck(s) ==
  /\ At(s, "debit")
  /\ Free(s, Source(s))
  /\ ~Fits(s, Source(s), -Amount(s), -Amount(s))
  /\ Rollback(s)

CreditDest(s) ==
  /\ At(s, "credit")
  /\ Free(s, Dest(s))
  /\ Fits(s, Dest(s), Amount(s), 0)
  /\ Write(s, Dest(s), [quantity |-> Amount(s), TRANSFER_IN |-> Amount(s)])
  /\ NextItem(s, "check")
  /\ UNCHANGED <<book, transfer, job>>

CreditViolatesCheck(s) ==
  /\ At(s, "credit")
  /\ Free(s, Dest(s))
  /\ ~Fits(s, Dest(s), Amount(s), 0)
  /\ Rollback(s)

-----------------------------------------------------------------------------
(* TransfersService.reject and cancel: releaseReservation *)

BeginRelease(s) ==
  \E op \in {"reject", "cancel"} : BeginDecision(s, op, "release")

\* Mutation: the movement of a release is recorded without its sign.
ReleaseItemUnsigned(s) ==
  /\ At(s, "release")
  /\ Free(s, Source(s))
  /\ Fits(s, Source(s), 0, -Amount(s))
  /\ Write(s, Source(s), [reserved |-> -Amount(s), RESERVATION_RELEASED |-> Amount(s)])
  /\ NextItem(s, "release")
  /\ UNCHANGED <<book, transfer, job>>

ReleaseItem(s) ==
  /\ At(s, "release")
  /\ Free(s, Source(s))
  /\ Fits(s, Source(s), 0, -Amount(s))
  /\ Write(s, Source(s), [reserved |-> -Amount(s), RESERVATION_RELEASED |-> -Amount(s)])
  /\ NextItem(s, "release")
  /\ UNCHANGED <<book, transfer, job>>

ReleaseViolatesCheck(s) ==
  /\ At(s, "release")
  /\ Free(s, Source(s))
  /\ ~Fits(s, Source(s), 0, -Amount(s))
  /\ Rollback(s)

\* Mutation: approval leaves the transfer in the intermediate status.
OutcomeApproved(op) ==
  CASE op = "approve" -> "APPROVED"
    [] op = "reject"  -> "REJECTED"
    [] op = "cancel"  -> "CANCELLED"

\* transfer.update({ where: { id } }) writes the status whatever it is by now.
Outcome(op) ==
  CASE op = "approve" -> "COMPLETED"
    [] op = "reject"  -> "REJECTED"
    [] op = "cancel"  -> "CANCELLED"

FinishDecision(s) ==
  /\ pc[s] \in {"check", "release"}
  /\ todo[s] = <<>>
  /\ transfer' = [transfer EXCEPT ![job[s].id].status = Outcome(job[s].op)]
  /\ Commit(s)

-----------------------------------------------------------------------------
(* InventoryService.adjust *)

\* The row is read without a lock; a change that would make the quantity
\* negative or less than the reservation is refused, which changes nothing.
BeginAdjust(s) ==
  /\ "adjust" \in Endpoint[s]
  /\ \E k \in Key, change \in Adjustment :
       LET next == book["quantity"][k] + change IN
       /\ next >= 0
       /\ next >= book["reserved"][k]
       /\ Begin(s, "adjust", [op |-> "adjust", key |-> k, change |-> change], <<>>)

\* Mutation: the movement of an adjustment is recorded without its sign.
ApplyAdjustUnsigned(s) ==
  /\ pc[s] = "adjust"
  /\ LET k == job[s].key
         n == job[s].change IN
     /\ Free(s, k)
     /\ Fits(s, k, n, 0)
     /\ book' = Post(book, k, [quantity |-> n, ADJUSTMENT |-> IF n < 0 THEN -n ELSE n])
  /\ End(s)
  /\ UNCHANGED transfer

\* The upsert and the movement; the transaction holds one lock and commits.
ApplyAdjust(s) ==
  /\ pc[s] = "adjust"
  /\ LET k == job[s].key
         n == job[s].change IN
     /\ Free(s, k)
     /\ Fits(s, k, n, 0)
     /\ book' = Post(book, k, [quantity |-> n, ADJUSTMENT |-> n])
  /\ End(s)
  /\ UNCHANGED transfer

AdjustViolatesCheck(s) ==
  /\ pc[s] = "adjust"
  /\ Free(s, job[s].key)
  /\ ~Fits(s, job[s].key, job[s].change, 0)
  /\ Rollback(s)

-----------------------------------------------------------------------------
(* PostgreSQL and the connection *)

\* A transaction can be lost at any point: the Lambda stops, the connection
\* drops, the interactive transaction times out.
Abort(s) ==
  /\ pc[s] # "idle"
  /\ Rollback(s)

\* The row the session's next statement needs, when another session holds it.
Wants(s) ==
  IF At(s, "reserve") THEN IF Available(s) THEN {Source(s)} ELSE {}
  ELSE IF At(s, "debit") \/ At(s, "release") THEN {Source(s)}
  ELSE IF At(s, "credit") THEN {Dest(s)}
  ELSE IF pc[s] = "adjust" THEN {job[s].key}
  ELSE {}

WaitsFor(s) == {lock[k] : k \in Wants(s)} \ {NoSession, s}

\* A set of sessions in which each waits for one of them and is waited for.
WaitCycle(S) == S # {} /\ UNION {WaitsFor(s) : s \in S} = S
                       /\ \A s \in S : WaitsFor(s) # {}

\* The deadlock detector aborts a session that is on a cycle.
DeadlockAbort(s) ==
  /\ \E S \in SUBSET Session : s \in S /\ WaitCycle(S)
  /\ Rollback(s)

-----------------------------------------------------------------------------
Start(s) ==
  \/ BeginCreate(s)
  \/ BeginApprove(s)
  \/ BeginRelease(s)
  \/ BeginAdjust(s)

Step(s) ==
  \/ ReserveItem(s) \/ ReserveShort(s) \/ InsertTransfer(s)
  \/ CheckSource(s) \/ CheckFails(s)
  \/ DebitSource(s) \/ DebitViolatesCheck(s)
  \/ CreditDest(s)  \/ CreditViolatesCheck(s)
  \/ ReleaseItem(s) \/ ReleaseViolatesCheck(s)
  \/ FinishDecision(s)
  \/ ApplyAdjust(s) \/ AdjustViolatesCheck(s)

Next == \E s \in Session : Start(s) \/ Step(s) \/ Abort(s) \/ DeadlockAbort(s)

Spec == Init /\ [][Next]_vars

\* A transaction goes on as long as it can.  A statement that waits for a row
\* gets it if the row becomes free again and again (PostgreSQL queues the
\* waiters of a row), hence strong fairness; the deadlock detector runs after
\* deadlock_timeout.  Nothing obliges a client to send a request or a
\* connection to be lost.
FairSpec ==
  /\ Spec
  /\ \A s \in Session : SF_vars(Step(s)) /\ WF_vars(DeadlockAbort(s))
-----------------------------------------------------------------------------
(* What must hold. *)

\* Every variable has its type: in particular a transaction in flight serves a
\* well-formed request and its loop runs over items of that request.
TypeOK ==
  /\ book \in Ledger
  /\ transfer \in [TransferId -> [status : Status, body : Request \cup {NoBody}]]
  /\ lock \in [Key -> Session \cup {NoSession}]
  /\ pc \in [Session -> {"idle", "reserve", "check", "debit", "credit",
                         "release", "adjust"}]
  /\ job \in [Session -> TransferJob \cup AdjustJob \cup {NoJob}]
  /\ todo \in [Session -> Seq(Item)]
  /\ tx \in [Session -> Ledger]

\* Never more reserved than in stock, never a negative column, for the
\* committed rows: whatever requests interleave, block, abort or deadlock.
StockBounds ==
  \A k \in Key : RowFits(book["quantity"][k], book["reserved"][k])

QuantityBalanced(e) ==
  \A k \in Key :
    e["quantity"][k] = e["IMPORT_IN"][k] + e["ADJUSTMENT"][k]
                       + e["TRANSFER_OUT"][k] + e["TRANSFER_IN"][k]

ReservedBalanced(e) ==
  \A k \in Key :
    e["reserved"][k] = e["RESERVATION_CREATED"][k]
                       + e["RESERVATION_RELEASED"][k] + e["TRANSFER_OUT"][k]

\* The quantity of a row is what its import, adjustment and transfer movements
\* add up to: no interleaving loses an update or the movement that explains it.
QuantityLedger == QuantityBalanced(book)

\* The reservation of a row is what was reserved, less what was released and
\* less what was shipped, by the same movements.
ReservedLedger == ReservedBalanced(book)

\* A transaction has changed only rows it has locked, and none before the
\* first statement of its loop: what makes its differences add up at commit.
OwnRows ==
  \A s \in Session :
    /\ \A a \in Account, k \in Key : tx[s][a][k] # 0 => lock[k] = s
    /\ pc[s] \in {"idle", "adjust"} => tx[s] = Nothing

\* Every row satisfies the CHECK constraints as each transaction sees it, so
\* that a transaction that reaches its commit commits rows that satisfy them.
SeenFits ==
  \A s \in Session, k \in Key :
    RowFits(Visible(s, "quantity", k), Visible(s, "reserved", k))

\* Transfers only move stock: over all branches a component has the units that
\* were imported and adjusted, even when two sessions complete one transfer.
Conservation ==
  \A c \in Component :
    SumFunction([b \in Branch |-> book["quantity"][<<b, c>>]])
      = SumFunction([b \in Branch |-> book["IMPORT_IN"][<<b, c>>]
                                      + book["ADJUSTMENT"][<<b, c>>]])

\* The committed tables, seen as the contract sees them.
Contract == INSTANCE StockContract
              WITH onHand <- book["quantity"], held <- book["reserved"]

\* Every committed change is one step of the contract: all items of a request
\* or none, one decision per transfer, and the decision moves or frees exactly
\* what was reserved for it.  It holds when decisions come one at a time.
ImplementsContract == Contract!Spec

\* The reservation of a row is exactly what the pending transfers need of it.
\* It holds when decisions come one at a time.
PendingBacked == Contract!Backed

\* A decided transfer stays as it was decided ("Only pending transfers can be
\* approved", "Only pending transfers can release reservation").
DecidedOnce ==
  [][\A t \in TransferId :
       transfer[t].status \in Terminal => transfer'[t] = transfer[t]]_vars

\* create locks its rows in the order of the component ids ("a stable lock
\* order") and adjust locks one row, so creates and adjustments never wait for
\* each other in a circle: every circle has a decision in it.
CreatesNeverDeadlock ==
  \A S \in SUBSET Session :
    WaitCycle(S) => \E s \in S : job[s].op \notin {"create", "adjust"}

\* Every transaction ends, even when decisions lock rows in opposite orders.
TransactionsEnd == \A s \in Session : pc[s] # "idle" ~> pc[s] = "idle"
=============================================================================
