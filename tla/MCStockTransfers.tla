------------------------- MODULE MCStockTransfers -------------------------
(* Instances of StockTransfers small enough to enumerate. *)
EXTENDS StockTransfers, TLC

One(from, to, n) ==
  [from |-> from, to |-> to, items |-> <<[component |-> 1, quantity |-> n]>>]
Two(from, to, c1, c2) ==
  [from |-> from, to |-> to,
   items |-> <<[component |-> c1, quantity |-> 1],
               [component |-> c2, quantity |-> 1]>>]

Decisions == {"approve", "reject", "cancel"}

\* Transfers in both directions over one component.
BothWays == {One("A", "B", 1), One("A", "B", 2), One("B", "A", 1)}
\* Two components named in both orders, and one component named twice.
TwoItems == {Two("A", "B", 1, 2), Two("A", "B", 2, 1), Two("A", "B", 1, 1)}

TwoAtA == [k \in Key |-> IF k[1] = "A" THEN 2 ELSE 0]
OneEverywhere == [k \in Key |-> 1]

UpDown == {-1, 1}
Down   == {-1}
None   == {}

Anything     == [s \in Session |-> Operation]
OneDecider   == [s \in Session |-> IF s = "s1" THEN Operation ELSE {"create", "adjust"}]
===========================================================================
