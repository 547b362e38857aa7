------------------------------ MODULE PeerLife -------------------------------
(***************************************************************************)
(* What the apply path (packages/engine/src/apply.ts) relies on about the  *)
(* registry: a peer comes to life once, under a key that is its own; it    *)
(* ends once, alone or together with others, and never comes back; its     *)
(* expiry date passes once, and with it the clock alone may end its access *)
(* without a write of the registry.  Module Registry is the registry with  *)
(* all its operations, module Reconcile the apply path beside a registry   *)
(* reduced to this; both are shown to implement it.                        *)
(***************************************************************************)
CONSTANT Peers

VARIABLES
    status,    \* "absent", "active", or "revoked", also when deleted
    expired    \* peers whose expiry date has passed

vars == <<status, expired>>

Init == status = [p \in Peers |-> "absent"] /\ expired = {}

\* A peer that has waited for its turn in the write queue may have expired.
Create(p) ==
    /\ status[p] = "absent"
    /\ status' = [status EXCEPT ![p] = "active"]
    /\ expired' \in {expired, expired \cup {p}}

\* Revoked or deleted, by a sweep or with their owner.
End(S) ==
    /\ \A p \in S : status[p] = "active"
    /\ status' = [p \in Peers |-> IF p \in S THEN "revoked" ELSE status[p]]
    /\ UNCHANGED expired

Expire(S) ==
    /\ \A p \in S : status[p] # "absent"
    /\ expired' = expired \cup S
    /\ UNCHANGED status

Next ==
    \/ \E p \in Peers : Create(p)
    \/ \E S \in SUBSET Peers : End(S) \/ Expire(S)

Spec == Init /\ [][Next]_vars

=============================================================================
