-------------------------- MODULE MCReconciliation --------------------------
(* A transfer between two rows, of which one has a unit more than its seeded
   movements add up to, as rows of the seed do. *)
EXTENDS Reconciliation

Shipment == {[from |-> "A", to |-> "B", items |-> <<[component |-> 1, quantity |-> 1]>>]}
OneLess  == {-1}

SeededStock  == [k \in Key |-> IF k[1] = "A" THEN 1 ELSE 0]
SeededLedger == [k \in Key |-> 0]
=============================================================================
