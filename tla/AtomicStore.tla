---------------------------- MODULE AtomicStore ----------------------------
(***************************************************************************)
(* What the engine promises about concurrent updates of its registry: they *)
(* take effect one at a time, in the order the requests came, each on top  *)
(* of everything before it; an acknowledged update has taken effect and a  *)
(* rejected one never does.  A crash leaves the outcome of the requests in *)
(* progress open, and nothing else.  This is the promise behind            *)
(* StateStore.update (packages/engine/src/state.ts); module StateStore is  *)
(* the code that has to keep it.                                           *)
(***************************************************************************)
EXTENDS Sequences

CONSTANTS Writers   \* the update requests

VARIABLES
    applied,   \* updates in effect, in order
    waiting,   \* updates submitted and undecided, in order of arrival
    outcome    \* what became of each update

vars == <<applied, waiting, outcome>>

Init ==
    /\ applied = <<>>
    /\ waiting = <<>>
    /\ outcome = [w \in Writers |-> "none"]

Submit(w) ==
    /\ outcome[w] = "none"
    /\ outcome' = [outcome EXCEPT ![w] = "waiting"]
    /\ waiting' = Append(waiting, w)
    /\ UNCHANGED applied

IsNext(w) == waiting # <<>> /\ w = Head(waiting)

Commit(w) ==
    /\ IsNext(w)
    /\ applied' = Append(applied, w)
    /\ waiting' = Tail(waiting)
    /\ outcome' = [outcome EXCEPT ![w] = "committed"]

Reject(w) ==
    /\ IsNext(w)
    /\ waiting' = Tail(waiting)
    /\ outcome' = [outcome EXCEPT ![w] = "rejected"]
    /\ UNCHANGED applied

Acknowledge(w) ==
    /\ outcome[w] = "committed"
    /\ outcome' = [outcome EXCEPT ![w] = "acked"]
    /\ UNCHANGED <<applied, waiting>>

Crash ==
    /\ waiting' = <<>>
    /\ outcome' = [w \in Writers |->
          IF outcome[w] \in {"waiting", "committed"} THEN "lost" ELSE outcome[w]]
    /\ UNCHANGED applied

Next ==
    \/ \E w \in Writers : Submit(w) \/ Commit(w) \/ Reject(w) \/ Acknowledge(w)
    \/ Crash

Spec == Init /\ [][Next]_vars

=============================================================================
