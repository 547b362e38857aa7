---------------------------- MODULE MCStateStore ----------------------------
(* Bounded instance of StateStore for TLC: see the cfg files. *)
EXTENDS StateStore

=============================================================================
