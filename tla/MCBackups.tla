----------------------------- MODULE MCBackups -----------------------------
(* Bounded instance of Backups for TLC: see the cfg files. *)
EXTENDS Backups

=============================================================================
