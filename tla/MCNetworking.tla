---------------------------- MODULE MCNetworking ----------------------------
(* Bounded instance of Networking for TLC: see the cfg files. *)
EXTENDS Networking

=============================================================================
