----------------------------- MODULE MCFileLock -----------------------------
(* Bounded instance of FileLock for TLC: see the cfg files. *)
EXTENDS FileLock

=============================================================================
