----------------------------- MODULE MCBackup -----------------------------
(* Backup for TLC: the nightly runner and one by hand, three backups of two*)
(* chunks, one of them kept.                                               *)
EXTENDS Backup
=============================================================================
