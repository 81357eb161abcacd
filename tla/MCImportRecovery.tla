-------------------------- MODULE MCImportRecovery --------------------------
(* Instances of ImportRecovery with one row, small enough to enumerate. *)
EXTENDS ImportRecovery

OneUpload == 1 .. 3     \* one upload, and one replay more than allowed

=============================================================================
