---------------------------- MODULE MCReconcile ----------------------------
(* Bounded instance of Reconcile for TLC: see the cfg files. *)
EXTENDS Reconcile

=============================================================================
