------------------------------ MODULE MCRestore ------------------------------
(* Bounded instance of Restore for TLC: see the cfg files. *)
EXTENDS Restore

=============================================================================
