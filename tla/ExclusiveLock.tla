---------------------------- MODULE ExclusiveLock ----------------------------
(***************************************************************************)
(* What callers of withFileLock (packages/engine/src/state.ts) rely on:    *)
(* one of them at a time is under the lock, and the lock file says who; a  *)
(* process that dies under the lock leaves the file behind, and so does a  *)
(* caller whose unlink fails, until somebody who waits clears it.  Module  *)
(* FileLock is the code that has to keep this promise; module Reconcile is *)
(* the apply path that builds on it.                                       *)
(***************************************************************************)
CONSTANTS
    Clients,   \* callers of withFileLock on one path
    None,      \* no lock file
    Dead       \* owner of a lock file that nobody stands behind any more

VARIABLES
    owner,     \* who created the lock file
    inside     \* callers under the lock

vars == <<owner, inside>>

Init == owner = None /\ inside = {}

\* The file is created, and its creator is under the lock.
Acquire(c) ==
    /\ owner = None /\ inside = {}
    /\ owner' = c /\ inside' = {c}

\* The work under the lock is done; the file is unlinked, or tried to be.
Leave(c) ==
    /\ owner = c /\ inside = {c}
    /\ owner' \in {None, Dead} /\ inside' = {}

\* A file that nobody stands behind is unlinked.
Clear ==
    /\ owner = Dead /\ inside = {}
    /\ owner' = None /\ UNCHANGED inside

\* The process dies with all its callers; the file stays.
Die ==
    /\ owner' = IF owner = None THEN None ELSE Dead
    /\ inside' = {}

Next ==
    \/ \E c \in Clients : Acquire(c) \/ Leave(c)
    \/ Clear
    \/ Die

Spec == Init /\ [][Next]_vars

=============================================================================
