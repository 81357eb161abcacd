--------------------------- MODULE MCNotifications ---------------------------
(* A job that fails and whose replay succeeds: a message of each type. *)
EXTENDS Notifications

FailureAndSuccess == [m1 |-> <<"job", "IMPORT_FAILED">>, m2 |-> <<"job", "IMPORT_SUCCESS">>]
=============================================================================
