------------------------------- MODULE MCBackup -------------------------------
(***************************************************************************)
(* Values for checking Backup with TLC: two overlapping runs, names enough *)
(* for backups that are neither kept nor current.                          *)
(***************************************************************************)
EXTENDS Backup, TLC

Symmetry == Permutations(Runs)
=============================================================================
