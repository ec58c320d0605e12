------------------------------ MODULE MCBackup ------------------------------
(* Instances of Backup for TLC; the two callers do the same. *)
EXTENDS Backup, TLC

Symmetry == Permutations(Caller)
=============================================================================
