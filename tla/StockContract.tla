--------------------------- MODULE StockContract ---------------------------
(***************************************************************************)
(* What the transfer and adjustment endpoints promise, with every request  *)
(* one indivisible step: a transfer reserves all its items or none, is     *)
(* decided once, and the decision moves or frees exactly what was reserved *)
(* for it.  StockTransfers is shown to implement it when decisions come    *)
(* one at a time.                                                          *)
(***************************************************************************)
EXTENDS StockTables

CONSTANT Opening      \* the stock the system starts with

VARIABLES onHand, held, transfer

contractVars == <<onHand, held, transfer>>

Init ==
  /\ onHand = Opening
  /\ held = [k \in Key |-> 0]
  /\ transfer = [t \in TransferId |-> [status |-> "ABSENT", body |-> NoBody]]

Reserve(t, body) ==
  /\ transfer[t].status = "ABSENT"
  /\ \A k \in Key : onHand[k] - held[k] >= Takes(body, k)
  /\ held' = [k \in Key |-> held[k] + Takes(body, k)]
  /\ transfer' = [transfer EXCEPT ![t] = [status |-> "PENDING", body |-> body]]
  /\ UNCHANGED onHand

Decide(t, status) ==
  /\ transfer[t].status = "PENDING"
  /\ held' = [k \in Key |-> held[k] - Takes(transfer[t].body, k)]
  /\ transfer' = [transfer EXCEPT ![t].status = status]

Complete(t) ==
  /\ Decide(t, "COMPLETED")
  /\ onHand' = [k \in Key |-> onHand[k] - Takes(transfer[t].body, k)
                                        + Brings(transfer[t].body, k)]

Release(t) ==
  /\ \E status \in {"REJECTED", "CANCELLED"} : Decide(t, status)
  /\ UNCHANGED onHand

Adjust(k, change) ==
  /\ onHand[k] + change >= held[k]
  /\ onHand' = [onHand EXCEPT ![k] = @ + change]
  /\ UNCHANGED <<held, transfer>>

Next ==
  \/ \E t \in TransferId, body \in Request : Reserve(t, body)
  \/ \E t \in TransferId : Complete(t) \/ Release(t)
  \/ \E k \in Key, change \in Adjustment : Adjust(k, change)

Spec == Init /\ [][Next]_contractVars

Pending == {t \in TransferId : transfer[t].status = "PENDING"}

\* The reservation of a row is exactly what the pending transfers need of it.
Backed ==
  \A k \in Key : held[k] = SumFunction([t \in Pending |-> Takes(transfer[t].body, k)])
=============================================================================
