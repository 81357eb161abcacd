----------------------------- MODULE MCAccounts -----------------------------
(* Instances of Accounts: one e-mail, seeded with a row, whose account is
   deleted and created again while tokens of its former identity are about. *)
EXTENDS Accounts

CONSTANTS b1, b2

MCAccount == 1 .. 3

\* A move, a lock, and a change of role that unlocks.
MCBodies ==
    {[role |-> Keep, branch |-> b2, status |-> Keep],
     [role |-> Keep, branch |-> Keep, status |-> "INACTIVE"],
     [role |-> "STORE_MANAGER", branch |-> b1, status |-> "ACTIVE"]}
=============================================================================
