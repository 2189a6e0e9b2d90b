--------------------------- MODULE MCBackupImport ---------------------------
(* The instance of BackupImport for TLC: its constants are numbers. *)
EXTENDS BackupImport
=============================================================================
