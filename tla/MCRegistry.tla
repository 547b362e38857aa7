----------------------------- MODULE MCRegistry -----------------------------
(* Instance of Registry for TLC: model values and symmetry of identifiers. *)
EXTENDS Registry, TLC

IdSymmetry == Permutations(PeerIds) \cup Permutations(Names)
=============================================================================
