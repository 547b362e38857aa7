------------------------------- MODULE Restore -------------------------------
(***************************************************************************)
(* A restore among the updates and reconciles it runs beside:              *)
(* backupRestore (packages/engine/src/backup.ts) with apply = true.        *)
(*                                                                         *)
(* Updates take their turn in the write queue of StateStore; each loads    *)
(* state.json, changes its copy and saves it (module StateStore has the    *)
(* details; here a load and a save are one step each).  A restore holds    *)
(* the backup lock, which keeps other restores out, but neither the write  *)
(* queue nor the apply lock: it takes the interface down, replaces         *)
(* state.json, loads and saves it again and then reconciles.  POST         *)
(* /v1/reconcile reconciles inside the write queue, GET /v1/status outside *)
(* of it, after a sweep that is an update like any other; all three meet   *)
(* at the apply lock.                                                      *)
(*                                                                         *)
(* A document is the set of updates in it; the events that every save      *)
(* adds, and those it evicts, are left out.  An apply is told apart as far *)
(* as a restore or a crash can come between: the interface is made, gets   *)
(* its address and is brought up, and is synced with a document (module    *)
(* Reconcile has the commands).  The snapshot to restore is whole; that is *)
(* module Backups' concern.                                                *)
(*                                                                         *)
(* Definitions marked MUTANT are not part of the specification: each is a  *)
(* definition with a mistake in it that a property has to detect.          *)
(***************************************************************************)
EXTENDS Integers

CONSTANTS
    Updates,      \* update requests, one store.update each
    Posts,        \* clients of POST /v1/reconcile, again and again
    Statuses,     \* clients of GET /v1/status, auto-revoke on
    Restorer,     \* the restore, as a client of reconcile
    None,         \* nobody, or no document
    MaxFaults     \* bound on crashes and on failing commands of reconciles

Jobs == Posts \cup Statuses \cup {Restorer}
Queued == Updates \cup Posts
Clients == Updates \cup Jobs

Document == SUBSET Updates

ASSUME RestoreAssumption ==
    /\ Updates \cap Jobs = {} /\ Posts \cap Statuses = {}
    /\ Restorer \notin Posts \cup Statuses
    /\ None \notin Clients /\ \A d \in Document : d # None
    /\ MaxFaults \in Nat

VARIABLES
    disk,       \* state.json
    iface,      \* the WireGuard interface: absent, down or up
    cut,        \* history: it was left half-made, and is still there
    served,     \* document its peers are from, None if from none entirely
    turn,       \* request that holds the write queue
    applying,   \* reconcile that holds the apply lock
    leftover,   \* the lock file is there though nobody holds the apply lock
    at,         \* where each client is
    mem,        \* document each client holds
    step,       \* where the restore is
    snapshot,   \* the snapshot to restore
    safety,     \* the safety snapshot
    overlap,    \* history: something had the write queue during the restore
    begun,      \* history: updates whose turn began before the restore ended
    written,    \* history: the restore has replaced state.json
    faults      \* crashes and failing commands of reconciles so far

host == <<iface, cut, served>>
locks == <<turn, applying, leftover>>
clients == <<at, mem>>
restore == <<step, snapshot, safety, written>>
history == <<overlap, begun>>
vars == <<disk, host, locks, clients, restore, history, faults>>

Optional == {None} \cup Document

InProgress == {"safety", "down", "write", "reload", "save", "reconcile",
               "rewrite", "rereload", "resave", "rereconcile"}
Ended == {"restored", "recovered", "failed", "crashed"}

\* Places of a reconcile that has the apply lock.
Locked == {"inspect", "raise", "sync", "synced", "undone"}
Reconciled == {"applied", "unapplied", "timedout"}
Places == Locked \cup Reconciled \cup {"new", "loaded", "acked", "rejected"}

TypeOK ==
    /\ disk \in Optional \ {None}
    /\ iface \in {"absent", "down", "up"}
    /\ cut \in BOOLEAN
    /\ served \in Optional
    /\ turn \in Queued \cup {None}
    /\ applying \in Jobs \cup {None}
    /\ leftover \in BOOLEAN
    /\ at \in [Clients -> Places]
    /\ mem \in [Clients -> Optional]
    /\ step \in InProgress \cup Ended \cup {"new"}
    /\ snapshot \in Optional /\ safety \in Optional
    /\ overlap \in BOOLEAN /\ written \in BOOLEAN
    /\ begun \in SUBSET Updates
    /\ faults \in 0..MaxFaults

Acked == {u \in Updates : at[u] = "acked"}
Fault == faults < MaxFaults /\ faults' = faults + 1
Goto(c, place) == at' = [at EXCEPT ![c] = place]

Init ==
    /\ disk = {}
    /\ iface = "absent" /\ cut = FALSE /\ served = None
    /\ turn = None /\ applying = None /\ leftover = FALSE
    /\ at = [c \in Clients |-> "new"]
    /\ mem = [c \in Clients |-> None]
    /\ step = "new"
    /\ snapshot = None /\ safety = None
    /\ overlap = FALSE /\ begun = {} /\ written = FALSE
    /\ faults = 0

-----------------------------------------------------------------------------
(***************************************************************************)
(* Updates, each in its turn, and the reads of the reconciles.             *)
(***************************************************************************)
\* MUTANT of BeginTurn: nobody waits for the write queue.
BeginAtOnce(r) ==
    /\ at[r] = "new"
    /\ turn' = r
    /\ Goto(r, "loaded")
    /\ mem' = [mem EXCEPT ![r] = disk]
    /\ overlap' = (overlap \/ step \in InProgress)
    /\ begun' = IF step \in Ended THEN begun ELSE begun \cup ({r} \cap Updates)
    /\ UNCHANGED <<disk, host, applying, leftover, restore, faults>>

\* update: the request's turn comes and it loads the state.
BeginTurn(r) ==
    /\ at[r] = "new"
    /\ turn = None
    /\ turn' = r
    /\ Goto(r, "loaded")
    /\ mem' = [mem EXCEPT ![r] = disk]
    /\ overlap' = (overlap \/ step \in InProgress)
    /\ begun' = IF step \in Ended THEN begun ELSE begun \cup ({r} \cap Updates)
    /\ UNCHANGED <<disk, host, applying, leftover, restore, faults>>

EndTurn(r, place) ==
    /\ turn' = None
    /\ Goto(r, place)
    /\ mem' = [mem EXCEPT ![r] = None]

\* update: mutate and save, or fail without effect; the queue is released.
EndUpdate(u) ==
    /\ at[u] = "loaded"
    /\ \/ disk' = mem[u] \cup {u} /\ EndTurn(u, "acked")
       \/ EndTurn(u, "rejected") /\ UNCHANGED disk
    /\ UNCHANGED <<host, applying, leftover, restore, history, faults>>

\* GET /v1/status: its sweep revoked somebody, it loads and will reconcile.
BeginStatus(s) ==
    /\ at[s] = "new"
    /\ Goto(s, "loaded")
    /\ mem' = [mem EXCEPT ![s] = disk]
    /\ UNCHANGED <<disk, host, locks, restore, history, faults>>

-----------------------------------------------------------------------------
(***************************************************************************)
(* reconcile: executeApply with the document that was loaded.              *)
(***************************************************************************)
\* It takes the apply lock, or gives up when somebody holds it or a file is
\* left that is not yet old enough to be cleared.
BeginApply(j) ==
    /\ at[j] = "loaded"
    /\ \/ /\ applying = None
          /\ applying' = j /\ leftover' = FALSE
          /\ Goto(j, "inspect")
       \/ /\ applying # None \/ leftover
          /\ Goto(j, "timedout")
          /\ UNCHANGED <<applying, leftover>>
    /\ UNCHANGED <<disk, host, turn, mem, restore, history, faults>>

\* MUTANT of Inspect: an interface that is not there is left alone.
InspectIfThere(j) ==
    /\ at[j] = "inspect"
    /\ Goto(j, IF iface = "absent" THEN "synced" ELSE "sync")
    /\ UNCHANGED <<disk, host, locks, mem, restore, history, faults>>

\* `wg show', and `ip link add' if there is no interface.  When the former
\* fails the interface passes for absent, and making it fails since it exists.
Inspect(j) ==
    /\ at[j] = "inspect"
    /\ \/ /\ iface = "absent"
          /\ iface' = "down" /\ cut' = FALSE /\ served' = None
          /\ Goto(j, "raise")
          /\ UNCHANGED faults
       \/ /\ iface # "absent"
          /\ Goto(j, "sync")
          /\ UNCHANGED <<host, faults>>
       \/ Fault /\ Goto(j, "undone") /\ UNCHANGED host
    /\ UNCHANGED <<disk, locks, mem, restore, history>>

\* wg setconf, ip addr replace and ip link set up.  They fail on their own or
\* because a restore has taken the interface down; the link is then deleted,
\* and whether that works is not looked at.
Raise(j) ==
    /\ at[j] = "raise"
    /\ \/ /\ iface = "down" /\ iface' = "up"
          /\ Goto(j, "sync")
          /\ UNCHANGED <<cut, faults>>
       \/ /\ IF iface = "absent" THEN UNCHANGED faults ELSE Fault
          /\ iface' \in {"absent", iface} /\ cut' = (iface' = "down")
          /\ Goto(j, "undone")
    /\ UNCHANGED <<disk, served, locks, mem, restore, history>>

\* syncconf, removals and the check for drift; a failure leaves the peers as
\* they were, or in part, and may take down the interface if it was made here.
Sync(j) ==
    /\ at[j] = "sync"
    /\ \/ /\ iface # "absent"
          /\ served' = mem[j]
          /\ Goto(j, "synced")
          /\ UNCHANGED <<iface, cut, faults>>
       \/ /\ IF iface = "absent" THEN UNCHANGED faults ELSE Fault
          /\ \/ served' \in {served, None} /\ UNCHANGED <<iface, cut>>
             \/ iface' = "absent" /\ cut' = FALSE /\ served' = None
          /\ Goto(j, "undone")
    /\ UNCHANGED <<disk, locks, mem, restore, history>>

\* The lock file is removed; a failure is swallowed.
Release(j) ==
    /\ at[j] \in {"synced", "undone"}
    /\ applying' = None
    /\ \/ leftover' = FALSE /\ UNCHANGED faults
       \/ leftover' = TRUE /\ Fault
    /\ Goto(j, IF at[j] = "synced" THEN "applied" ELSE "unapplied")
    /\ UNCHANGED <<disk, host, turn, mem, restore, history>>

\* A result, good or bad, is recorded and saved, unless saving fails; a
\* timeout of the lock is thrown.  The client may ask again.
EndPost(p) ==
    /\ at[p] \in Reconciled
    /\ disk' \in IF at[p] = "timedout" THEN {disk} ELSE {mem[p], disk}
    /\ EndTurn(p, "new")
    /\ UNCHANGED <<host, applying, leftover, restore, history, faults>>

\* The status is answered whatever became of the reconcile.
EndStatus(s) ==
    /\ at[s] \in Reconciled
    /\ Goto(s, "new")
    /\ mem' = [mem EXCEPT ![s] = None]
    /\ UNCHANGED <<disk, host, locks, restore, history, faults>>

-----------------------------------------------------------------------------
(***************************************************************************)
(* The restore: any of its own calls may fail.                             *)
(***************************************************************************)
\* backupCreate, some time before.
TakeSnapshot ==
    /\ step = "new" /\ snapshot = None
    /\ snapshot' = disk
    /\ UNCHANGED <<disk, host, locks, clients, step, safety, written,
                   history, faults>>

\* The snapshot has been verified; with force there is no safety snapshot.
BeginRestore(force) ==
    /\ step = "new" /\ snapshot # None
    /\ step' = IF force THEN "down" ELSE "safety"
    /\ overlap' = (turn # None)
    /\ UNCHANGED <<disk, host, locks, clients, snapshot, safety, written,
                   begun, faults>>

\* MUTANT of Failing: the safety snapshot is not asked for.
FailingUnchecked == "rewrite"

\* The catch block: the safety snapshot is written back if there is one.
Failing == IF safety = None THEN "failed" ELSE "rewrite"

TakeSafety ==
    /\ step = "safety"
    /\ \/ step' = "down" /\ safety' = disk
       \/ step' = "failed" /\ UNCHANGED safety
    /\ UNCHANGED <<disk, host, locks, clients, snapshot, written, history, faults>>

\* wg-quick down, best effort, without the apply lock; the load before it
\* may throw.
TakeDown ==
    /\ step = "down"
    /\ \/ /\ \/ iface' = "absent" /\ cut' = FALSE /\ served' = None
             \/ UNCHANGED host
          /\ step' = "write"
       \/ step' = Failing /\ UNCHANGED host
    /\ UNCHANGED <<disk, locks, clients, snapshot, safety, written, history, faults>>

\* The restore gives up its copy.
Drop == mem' = [mem EXCEPT ![Restorer] = None]

\* state.json is replaced by another document, or is not.
Replace(document, next, failing) ==
    /\ \/ disk' = document /\ written' = TRUE /\ step' = next
       \/ UNCHANGED <<disk, written>> /\ step' = failing
    /\ UNCHANGED <<host, locks, snapshot, safety, history, faults>>

LoadAgain(next, failing) ==
    /\ \/ mem' = [mem EXCEPT ![Restorer] = disk] /\ step' = next
       \/ Drop /\ step' = failing
    /\ UNCHANGED <<disk, host, locks, at, snapshot, safety, written, history, faults>>

\* store.save outside the write queue, with the event of the restore; then
\* reconcile begins with what was saved.
SaveAgain(next, failing) ==
    /\ Replace(mem[Restorer], next, failing)
    /\ \/ step' = next /\ Goto(Restorer, "loaded") /\ UNCHANGED mem
       \/ step' # next /\ Drop /\ UNCHANGED at

\* Whatever became of the reconcile, the restore is over.
EndReconcile(next) ==
    /\ at[Restorer] \in Reconciled
    /\ Goto(Restorer, "new") /\ Drop
    /\ step' = next
    /\ UNCHANGED <<disk, host, locks, snapshot, safety, written,
                   history, faults>>

WriteSnapshot == step = "write" /\ Replace(snapshot, "reload", Failing) /\ UNCHANGED clients
Reload == step = "reload" /\ LoadAgain("save", Failing)
Save == step = "save" /\ SaveAgain("reconcile", Failing)
EndRestored == step = "reconcile" /\ EndReconcile("restored")

\* MUTANT of Rewrite: the snapshot is written once more.
RewriteSnapshot ==
    step = "rewrite" /\ Replace(snapshot, "rereload", "failed") /\ UNCHANGED clients

\* The same from the safety snapshot, where any failure is final.
Rewrite == step = "rewrite" /\ Replace(safety, "rereload", "failed") /\ UNCHANGED clients
ReloadRecovered == step = "rereload" /\ LoadAgain("resave", "failed")
SaveRecovered == step = "resave" /\ SaveAgain("rereconcile", "failed")
EndRecovered == step = "rereconcile" /\ EndReconcile("recovered")

\* The engine dies and is started again; the host and the files stay.
Crash ==
    /\ Fault
    /\ turn' = None /\ applying' = None
    /\ leftover' = (leftover \/ applying # None)
    /\ cut' = (iface = "down")
    /\ at' = [c \in Clients |->
          IF at[c] \in {"new", "acked", "rejected"} THEN at[c]
          ELSE IF c \in Jobs THEN "new" ELSE "rejected"]
    /\ mem' = [c \in Clients |-> None]
    /\ step' = IF step \in InProgress THEN "crashed" ELSE step
    /\ UNCHANGED <<disk, iface, served, snapshot, safety, written, history>>

-----------------------------------------------------------------------------
RestoreStep ==
    \/ TakeSafety \/ TakeDown \/ WriteSnapshot \/ Reload \/ Save \/ EndRestored
    \/ Rewrite \/ ReloadRecovered \/ SaveRecovered \/ EndRecovered

ApplyStep(j) ==
    \/ BeginApply(j) \/ Inspect(j) \/ Raise(j) \/ Sync(j) \/ Release(j)

Next ==
    \/ \E r \in Queued : BeginTurn(r)
    \/ \E u \in Updates : EndUpdate(u)
    \/ \E s \in Statuses : BeginStatus(s) \/ EndStatus(s)
    \/ \E j \in Jobs : ApplyStep(j)
    \/ \E p \in Posts : EndPost(p)
    \/ TakeSnapshot
    \/ \E force \in BOOLEAN : BeginRestore(force)
    \/ RestoreStep
    \/ Crash

(***************************************************************************)
(* A load or a save that has begun goes on.  Nobody has to make a request, *)
(* and nothing is assumed of the reconciles and of the restore: probes,    *)
(* `wg show', iptables and wg-quick have no time limit.                    *)
(***************************************************************************)
Fairness == \A u \in Updates : WF_vars(EndUpdate(u))

Spec == Init /\ [][Next]_vars /\ Fairness

-----------------------------------------------------------------------------
(***************************************************************************)
(* Properties.                                                             *)
(***************************************************************************)

\* Nothing acknowledged is lost; or the restore has taken effect, and of the
\* updates from before its end exactly those in the snapshot are left.
NothingLost == Acked \subseteq disk
TakenEffect ==
    /\ written
    /\ snapshot \subseteq disk
    /\ disk \cap begun \subseteq snapshot

\* A restore that nothing in the write queue overlapped is all or nothing, at
\* every moment and however it ends, by a failure or a crash between any two
\* of its steps as well: state.json is never a mixture.  Which of the two it
\* is, is known when it is answered as restored, when the recovery from the
\* safety snapshot has got through, and before state.json was replaced; a
\* forced restore that failed later, a recovery that failed and a crash leave
\* either.
RestoreIsAllOrNothing ==
    ~overlap =>
        /\ NothingLost \/ TakenEffect
        /\ step = "restored" => TakenEffect
        /\ step = "recovered" \/ ~written => NothingLost

\* An acknowledged update is only ever lost to a restore in progress: one
\* whose turn came after the restore had ended stays.
LaterUpdatesStay == Acked \ begun \subseteq disk

\* The steps a client, or the restore, has at most ahead of it.
Rank == [new |-> 0, acked |-> 0, rejected |-> 0,
         applied |-> 1, unapplied |-> 1, timedout |-> 1, synced |-> 2, undone |-> 2,
         sync |-> 3, raise |-> 4, inspect |-> 5, loaded |-> 6]

RestoreRank ==
    [new |-> 11, safety |-> 10, down |-> 9, write |-> 8, reload |-> 7, save |-> 6,
     reconcile |-> 5, rewrite |-> 4, rereload |-> 3, resave |-> 2,
     rereconcile |-> 1, restored |-> 0, recovered |-> 0, failed |-> 0, crashed |-> 0]

\* The steps of a client that has begun.
TakesStep(c) ==
    \/ c \in Updates /\ EndUpdate(c)
    \/ c \in Posts /\ EndPost(c)
    \/ c \in Statuses /\ EndStatus(c)
    \/ c \in Jobs /\ ApplyStep(c)

\* Neither the write queue nor the apply lock is ever left to nobody, and no
\* two wait for each other: who holds the queue is in the middle of its
\* request; who holds the apply lock has nothing more to wait for, be it a
\* POST inside the queue, a status or the restore outside of it.  A client,
\* and a restore, comes to its end in a bounded number of steps of its own: a
\* restore that has fallen back to the safety snapshot does not try the other
\* again.
HoldersAdvance ==
    /\ [](/\ turn # None => Rank[at[turn]] > 0
          /\ applying # None => at[applying] \in Locked
          /\ applying \in Posts => turn = applying)
    /\ [][/\ \A c \in Clients : Rank[at[c]] > 0 =>
                /\ Rank[at'[c]] <= Rank[at[c]]
                /\ TakesStep(c) => Rank[at'[c]] < Rank[at[c]]
          /\ RestoreRank[step'] <= RestoreRank[step]
          /\ RestoreStep => RestoreRank[step'] < RestoreRank[step]]_vars

\* Once reconciles inside the write queue keep succeeding, the interface is
\* there and serves what state.json says, although the restore takes it down
\* under an apply and others reconcile what they read before.  It is up as
\* well, unless it is left half-made by a crash or a failing `ip link del'.
TunnelReturns ==
    (\E p \in Posts : []<>(at[p] = "applied") /\ []<>(at[p] = "new"))
        => <>[](iface # "absent" /\ served = disk /\ (iface = "up" \/ cut))

\* "A single in-process FIFO queue in `state.ts` serializes all `save()`
\* calls." (docs/architecture.md): while an update holds the queue, nobody
\* else replaces state.json.
QueueSerializesSaves ==
    [][\A r \in Queued : turn = r /\ disk' # disk => turn' # r]_vars

=============================================================================
