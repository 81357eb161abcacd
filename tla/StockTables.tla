---------------------------- MODULE StockTables ----------------------------
(***************************************************************************)
(* The stock tables of StockFlow as data: inventory rows are keyed by      *)
(* branch and component, a transfer has a body and a status.               *)
(***************************************************************************)
EXTENDS Integers, Sequences, FiniteSets, Functions

CONSTANTS
  Branch,       \* branches
  Component,    \* components, ordered as their ids are by localeCompare
  TransferId,   \* the transfers that may be created (bounds a run)
  Request,      \* the transfer bodies that may be submitted
  Adjustment    \* the values of quantityChange that may be submitted

Key == Branch \X Component

Item == [component : Component, quantity : Nat \ {0}]

\* createTransferBodySchema: positive quantities, at least one item (the same
\* component may appear twice), different branches.
TransferBody ==
  {r \in [from : Branch, to : Branch, items : Seq(Item)] :
     r.from # r.to /\ r.items # <<>>}

\* The branches are the rows of a table.
ASSUME TablesAssumption ==
  /\ IsFiniteSet(Branch)
  /\ Component \subseteq Nat
  /\ Request \subseteq TransferBody
  /\ Adjustment \subseteq Int

Terminal == {"COMPLETED", "REJECTED", "CANCELLED"}
Status   == {"ABSENT", "PENDING"} \cup Terminal
NoBody   == [from |-> "none"]

Units(items, component) ==
  SumFunction([i \in DOMAIN items |->
     IF items[i].component = component THEN items[i].quantity ELSE 0])

\* What a transfer takes from a row, and what it brings to it.
Takes(body, k)  == IF body.from = k[1] THEN Units(body.items, k[2]) ELSE 0
Brings(body, k) == IF body.to = k[1] THEN Units(body.items, k[2]) ELSE 0

=============================================================================
