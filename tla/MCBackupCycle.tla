---------------------------- MODULE MCBackupCycle -----------------------------
(* Instances of BackupCycle for TLC. *)
EXTENDS BackupCycle

CONSTANTS a, b, d1, d2
===============================================================================
