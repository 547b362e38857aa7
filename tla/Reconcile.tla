------------------------------ MODULE Reconcile ------------------------------
(***************************************************************************)
(* How the registry reaches the kernel: reconcile (runtime.ts) and         *)
(* executeApply (apply.ts), command by command, for several callers.       *)
(*                                                                         *)
(* POST /v1/reconcile runs the whole reconcile inside StateStore.update,   *)
(* so that no update of the registry happens meanwhile.  GET /v1/status    *)
(* sweeps expired peers, and when the sweep revoked some it loads the      *)
(* registry again and reconciles outside the write queue (app.ts).  The    *)
(* two meet at the apply lock, a lock file, only when both have already    *)
(* read the registry.                                                      *)
(*                                                                         *)
(* Commands of the host (wg, ip) and file-system calls fail or not, at     *)
(* most MaxFaults times; the listening port may be changed behind the      *)
(* engine's back.  A new interface is made in steps: it listens once it is *)
(* configured and carries traffic once it has its address and is up; what  *)
(* `wg show' tells of it is the port and the peers only.  `wg syncconf'    *)
(* adds and adjusts the peers of its file; whether it removes the others   *)
(* is left open, since apply.ts expects it not to and removes them itself. *)
(* A peer is its public key; every other field of a peer that reaches the  *)
(* kernel is fixed when it is created.  Networking policy runs after the   *)
(* lock is released and touches none of this state.                        *)
(*                                                                         *)
(* Definitions marked MUTANT are not part of the specification: each is a  *)
(* definition with a mistake in it that a property has to detect.          *)
(***************************************************************************)
EXTENDS Integers, FiniteSets

CONSTANTS
    Peers,       \* peers, each with its own key and address
    Posts,       \* concurrent POST /v1/reconcile requests
    Statuses,    \* concurrent GET /v1/status requests, auto-revoke on
    None,        \* nobody
    Stale,       \* the lock file of a process that died
    MaxFaults,   \* bound on failing commands and outside changes
    MaxCrashes   \* bound on crashes

Jobs == Posts \cup Statuses

ASSUME ReconcileAssumption ==
    /\ Posts \cap Statuses = {}
    /\ None \notin Jobs /\ Stale \notin Jobs /\ None # Stale
    /\ MaxFaults \in Nat /\ MaxCrashes \in Nat

\* The tunnel network has room for finitely many peers.
ASSUME PeersAssumption == IsFiniteSet(Peers)

VARIABLES
    status,    \* registry: status of each peer
    expired,   \* peers whose expiry date has passed
    writer,    \* the reconcile that runs inside the write queue
    link,      \* whether the WireGuard interface exists
    up,        \* whether it has its address and is up
    cut,       \* history: it was left half-made, and is still there
    kernel,    \* peers the interface serves
    port,      \* whether it listens on the configured port
    lock,      \* /var/run/kintunnel-apply.lock
    job,       \* where each request is, and what it holds
    faults,    \* faults so far
    crashes    \* crashes so far

registry == <<status, expired>>
interface == <<link, up, cut>>
host == <<interface, kernel, port>>
vars == <<registry, host, writer, lock, job, faults, crashes>>

\* Places between taking the apply lock and releasing it.
Locked == {"inspect", "bootstrap", "configure", "raise", "reconfigure", "sync",
           "remove", "verify", "rollback", "ok", "failed", "thrown"}
\* Places where the interface is half-made.
Making == {"configure", "raise"}
Places == Locked \cup {"idle", "sweep", "load", "intend", "lock", "end"}

JobRecord ==
    [at: Places,
     snap: SUBSET Peers,       \* peers with status active when it loaded
     intended: SUBSET Peers,   \* activePeers of executeApply
     before: SUBSET Peers,     \* peers the kernel reported
     add: SUBSET Peers,        \* plan.addPeers
     todo: SUBSET Peers,       \* removals left, of the plan or the rollback
     bootstrap: BOOLEAN,       \* plan.bootstrap
     made: BOOLEAN,            \* this request created the interface
     undone: BOOLEAN]          \* no step of its rollback failed

Idle == [at |-> "idle", snap |-> {}, intended |-> {}, before |-> {}, add |-> {},
         todo |-> {}, bootstrap |-> FALSE, made |-> FALSE, undone |-> TRUE]

TypeOK ==
    /\ status \in [Peers -> {"absent", "active", "revoked"}]
    /\ expired \subseteq Peers
    /\ writer \in Posts \cup {None}
    /\ link \in BOOLEAN /\ up \in BOOLEAN /\ cut \in BOOLEAN
    /\ port \in BOOLEAN
    /\ kernel \subseteq Peers
    /\ lock \in Jobs \cup {None, Stale}
    /\ job \in [Jobs -> JobRecord]
    /\ faults \in 0..MaxFaults
    /\ crashes \in 0..MaxCrashes

-----------------------------------------------------------------------------
Active == {p \in Peers : status[p] = "active"}

At(j, place) == job[j].at = place
Goto(j, place) == job' = [job EXCEPT ![j].at = place]

\* MUTANT of Rendered: expiry is not looked at.
RenderedAll(j) == job[j].snap

\* The peers renderWgIni writes: active in the snapshot, at this moment.
Rendered(j) == job[j].snap \ expired

\* What the interface may serve after `wg syncconf' of those peers.
Synced(j) == {k \in SUBSET (kernel \cup Rendered(j)) : Rendered(j) \subseteq k}

Fault == faults < MaxFaults /\ faults' = faults + 1

Init ==
    /\ status = [p \in Peers |-> "absent"]
    /\ expired = {}
    /\ writer = None
    /\ link = FALSE /\ up = FALSE /\ cut = FALSE
    /\ port = TRUE
    /\ kernel = {}
    /\ lock = None
    /\ job = [j \in Jobs |-> Idle]
    /\ faults = 0
    /\ crashes = 0

-----------------------------------------------------------------------------
(***************************************************************************)
(* The registry: updates wait while a reconcile holds the write queue.     *)
(***************************************************************************)
Create(p) ==
    /\ writer = None
    /\ status[p] = "absent"
    /\ status' = [status EXCEPT ![p] = "active"]
    /\ UNCHANGED <<expired, host, writer, lock, job, faults, crashes>>

Revoke(p) ==
    /\ writer = None
    /\ status[p] = "active"
    /\ status' = [status EXCEPT ![p] = "revoked"]
    /\ UNCHANGED <<expired, host, writer, lock, job, faults, crashes>>

Expire(p) ==
    /\ status[p] = "active" /\ p \notin expired
    /\ expired' = expired \cup {p}
    /\ UNCHANGED <<status, host, writer, lock, job, faults, crashes>>

\* Someone changes the listening port of the interface: drift.
ChangePort ==
    /\ link /\ port
    /\ Fault
    /\ port' = FALSE
    /\ UNCHANGED <<registry, interface, kernel, writer, lock, job, crashes>>

-----------------------------------------------------------------------------
(***************************************************************************)
(* The two ways into reconcile.                                            *)
(***************************************************************************)
\* MUTANT of BeginPost: the reconcile does not run inside the write queue.
BeginUnqueued(j) ==
    /\ At(j, "idle")
    /\ writer = None
    /\ job' = [job EXCEPT ![j].at = "intend", ![j].snap = Active]
    /\ UNCHANGED <<registry, host, writer, lock, faults, crashes>>

BeginPost(j) ==
    /\ At(j, "idle")
    /\ writer = None
    /\ writer' = j
    /\ job' = [job EXCEPT ![j].at = "intend", ![j].snap = Active]
    /\ UNCHANGED <<registry, host, lock, faults, crashes>>

BeginStatus(j) ==
    /\ At(j, "idle")
    /\ Goto(j, "sweep")
    /\ UNCHANGED <<registry, host, writer, lock, faults, crashes>>

\* MUTANT of Sweep: the status shown by the API is stored.
SweepToExpired(j) ==
    LET revoked == Active \cap expired
    IN  /\ At(j, "sweep")
        /\ writer = None
        /\ status' = [p \in Peers |-> IF p \in revoked THEN "expired" ELSE status[p]]
        /\ Goto(j, IF revoked = {} THEN "idle" ELSE "load")
        /\ UNCHANGED <<expired, host, writer, lock, faults, crashes>>

\* sweepExpired with autoRevoke, one update of its own.
Sweep(j) ==
    LET revoked == Active \cap expired
    IN  /\ At(j, "sweep")
        /\ writer = None
        /\ status' = [p \in Peers |-> IF p \in revoked THEN "revoked" ELSE status[p]]
        /\ Goto(j, IF revoked = {} THEN "idle" ELSE "load")
        /\ UNCHANGED <<expired, host, writer, lock, faults, crashes>>

\* await store.load(), outside the write queue.
LoadRegistry(j) ==
    /\ At(j, "load")
    /\ job' = [job EXCEPT ![j].at = "intend", ![j].snap = Active]
    /\ UNCHANGED <<registry, host, writer, lock, faults, crashes>>

\* reconcile and executeApply filter the active peers before the lock; a
\* host without wg or /dev/net/tun ends the request with errors.
Intend(j) ==
    /\ At(j, "intend")
    /\ \/ /\ job' = [job EXCEPT ![j].at = "lock", ![j].intended = Rendered(j)]
          /\ UNCHANGED faults
       \/ Fault /\ Goto(j, "end")
    /\ UNCHANGED <<registry, host, writer, lock, crashes>>

AcquireLock(j) ==
    /\ At(j, "lock")
    /\ lock = None
    /\ lock' = j
    /\ Goto(j, "inspect")
    /\ UNCHANGED <<registry, host, writer, faults, crashes>>

\* withFileLock: a lock file older than five minutes is cleared ...
ClearStaleLock(j) ==
    /\ At(j, "lock")
    /\ lock = Stale
    /\ lock' = None
    /\ UNCHANGED <<registry, host, writer, job, faults, crashes>>

\* ... and after five seconds the request gives up.
LockTimeout(j) ==
    /\ At(j, "lock")
    /\ lock # None
    /\ Goto(j, "end")
    /\ UNCHANGED <<registry, host, writer, lock, faults, crashes>>

-----------------------------------------------------------------------------
(***************************************************************************)
(* executeApply under the lock.  Whatever `wg show' cannot tell counts as  *)
(* an interface that does not exist.                                       *)
(***************************************************************************)
\* MUTANT of Plan: every plan passes for one that creates the interface.
PlanBootstrap(j, exists, seen) ==
    job' = [job EXCEPT
        ![j].at = CASE ~exists -> "bootstrap"
                    [] exists /\ ~port -> "reconfigure"
                    [] OTHER -> "sync",
        ![j].bootstrap = TRUE,
        ![j].before = seen,
        ![j].add = Rendered(j) \ seen]

Plan(j, exists, seen) ==
    job' = [job EXCEPT
        ![j].at = CASE ~exists -> "bootstrap"
                    [] exists /\ ~port -> "reconfigure"
                    [] OTHER -> "sync",
        ![j].bootstrap = ~exists,
        ![j].before = seen,
        ![j].add = Rendered(j) \ seen]

Inspect(j) ==
    /\ At(j, "inspect")
    /\ \/ Plan(j, link, kernel) /\ UNCHANGED faults
       \/ link /\ Fault /\ Plan(j, FALSE, {})
    /\ UNCHANGED <<registry, host, writer, lock, crashes>>

\* bootstrapInterface: `ip link add' fails when the interface exists.
Bootstrap(j) ==
    /\ At(j, "bootstrap")
    /\ \/ /\ ~link
          /\ link' = TRUE /\ kernel' = {} /\ port' = FALSE
          /\ job' = [job EXCEPT ![j].at = "configure", ![j].made = TRUE]
          /\ UNCHANGED <<up, cut, faults>>
       \/ /\ link \/ Fault
          /\ link => UNCHANGED faults
          /\ Goto(j, "thrown")
          /\ UNCHANGED host
    /\ UNCHANGED <<registry, writer, lock, crashes>>

\* A step of bootstrapInterface fails: the link is deleted, and whether that
\* works is not looked at.
GiveUpMaking(j) ==
    /\ Fault
    /\ link' \in BOOLEAN /\ cut' = link'
    /\ Goto(j, "thrown")
    /\ UNCHANGED <<up, kernel>>

\* wg setconf: the private key and the port.
Configure(j) ==
    /\ At(j, "configure")
    /\ \/ port' = TRUE /\ Goto(j, "raise") /\ UNCHANGED <<interface, kernel, faults>>
       \/ GiveUpMaking(j) /\ port' \in BOOLEAN
    /\ UNCHANGED <<registry, writer, lock, crashes>>

\* MUTANT of Raise: the interface is left down.
RaiseNot(j) ==
    /\ At(j, "raise")
    /\ Goto(j, "sync")
    /\ UNCHANGED <<registry, host, writer, lock, faults, crashes>>

\* ip addr replace and ip link set up.
Raise(j) ==
    /\ At(j, "raise")
    /\ \/ /\ up' = TRUE
          /\ Goto(j, "sync")
          /\ UNCHANGED <<link, cut, kernel, port, faults>>
       \/ GiveUpMaking(j) /\ UNCHANGED port
    /\ UNCHANGED <<registry, writer, lock, crashes>>

\* A syncconf that fails may have done any part of its work.
SyncPartly(j) ==
    /\ Fault
    /\ kernel' \in SUBSET (kernel \cup Rendered(j))
    /\ port' \in {port, TRUE}
    /\ UNCHANGED interface

\* reconfigInterface: syncconf of the whole file to change the port.  Nothing
\* is rolled back when it fails.
Reconfigure(j) ==
    /\ At(j, "reconfigure")
    /\ \/ /\ kernel' \in Synced(j)
          /\ port' = TRUE
          /\ Goto(j, "sync")
          /\ UNCHANGED <<interface, faults>>
       \/ SyncPartly(j) /\ Goto(j, "thrown")
    /\ UNCHANGED <<registry, writer, lock, crashes>>

Stray(j) == job[j].before \ job[j].intended

\* syncconf: skipped when there is nothing to do, rolled back when it fails;
\* when its file cannot be written, nothing is.
Sync(j) ==
    /\ At(j, "sync")
    /\ IF job[j].intended = {} /\ Stray(j) = {}
       THEN Goto(j, "verify") /\ UNCHANGED <<host, faults>>
       ELSE \/ /\ kernel' \in Synced(j)
               /\ port' = TRUE
               /\ job' = [job EXCEPT ![j].at = "remove", ![j].todo = Stray(j)]
               /\ UNCHANGED <<interface, faults>>
            \/ /\ SyncPartly(j)
               /\ job' = [job EXCEPT ![j].at = "rollback", ![j].todo = job[j].add]
            \/ /\ Fault
               /\ Goto(j, "thrown")
               /\ UNCHANGED host
    /\ UNCHANGED <<registry, writer, lock, crashes>>

\* Explicit removals, each tried twice; the first that fails both times
\* rolls the plan back.
Remove(j) ==
    /\ At(j, "remove")
    /\ \/ /\ job[j].todo = {}
          /\ Goto(j, "verify")
          /\ UNCHANGED <<host, faults>>
       \/ \E p \in job[j].todo :
          /\ kernel' = kernel \ {p}
          /\ job' = [job EXCEPT ![j].todo = @ \ {p}]
          /\ UNCHANGED <<interface, port, faults>>
       \/ /\ job[j].todo # {}
          /\ Fault
          /\ job' = [job EXCEPT ![j].at = "rollback", ![j].todo = job[j].add]
          /\ UNCHANGED host
    /\ UNCHANGED <<registry, writer, lock, crashes>>

\* MUTANT of Verify: drift is reported and not rolled back.
VerifyOnly(j) ==
    /\ At(j, "verify")
    /\ \/ Goto(j, IF port THEN "ok" ELSE "failed") /\ UNCHANGED faults
       \/ /\ Fault
          /\ job' = [job EXCEPT ![j].at = "failed", ![j].undone = FALSE]
    /\ UNCHANGED <<registry, host, writer, lock, crashes>>

\* detectDrift: a wrong port rolls back, an unreadable dump does not.
Verify(j) ==
    /\ At(j, "verify")
    /\ \/ /\ port
          /\ Goto(j, "ok")
          /\ UNCHANGED faults
       \/ /\ ~port
          /\ job' = [job EXCEPT ![j].at = "rollback", ![j].todo = job[j].add]
          /\ UNCHANGED faults
       \/ /\ Fault
          /\ job' = [job EXCEPT ![j].at = "failed", ![j].undone = FALSE]
    /\ UNCHANGED <<registry, host, writer, lock, crashes>>

\* rollbackPlan: the added peers are removed, then the interface if this
\* plan created it and every removal succeeded.  Failures are only noted.
Rollback(j) ==
    /\ At(j, "rollback")
    /\ \/ \E p \in job[j].todo :
          \/ /\ kernel' = kernel \ {p}
             /\ job' = [job EXCEPT ![j].todo = @ \ {p}]
             /\ UNCHANGED <<interface, port, faults>>
          \/ /\ Fault
             /\ job' = [job EXCEPT ![j].todo = @ \ {p}, ![j].undone = FALSE]
             /\ UNCHANGED host
       \/ /\ job[j].todo = {}
          /\ job[j].bootstrap /\ job[j].undone
          /\ \/ /\ link' = FALSE /\ up' = FALSE /\ cut' = FALSE /\ kernel' = {}
                /\ UNCHANGED <<port, faults>>
             \/ Fault /\ UNCHANGED host
          /\ Goto(j, "failed")
       \/ /\ job[j].todo = {}
          /\ ~(job[j].bootstrap /\ job[j].undone)
          /\ Goto(j, "failed")
          /\ UNCHANGED <<host, faults>>
    /\ UNCHANGED <<registry, writer, lock, crashes>>

\* withFileLock unlinks the lock file, whatever happened under it, and
\* swallows a failure.
ReleaseLock(j) ==
    /\ job[j].at \in {"ok", "failed", "thrown"}
    /\ \/ lock' = None /\ UNCHANGED faults
       \/ lock' = Stale /\ Fault
    /\ Goto(j, "end")
    /\ UNCHANGED <<registry, host, writer, crashes>>

\* MUTANT of Finish: the write queue is not released.
FinishInQueue(j) ==
    /\ At(j, "end")
    /\ job' = [job EXCEPT ![j] = Idle]
    /\ UNCHANGED <<registry, host, writer, lock, faults, crashes>>

\* The request is answered and a POST leaves the queue, saved or not.
Finish(j) ==
    /\ At(j, "end")
    /\ job' = [job EXCEPT ![j] = Idle]
    /\ writer' = IF writer = j THEN None ELSE writer
    /\ UNCHANGED <<registry, host, lock, faults, crashes>>

\* The engine dies and is restarted: the host and the lock file stay.
Crash ==
    /\ crashes < MaxCrashes
    /\ crashes' = crashes + 1
    /\ job' = [j \in Jobs |-> Idle]
    /\ writer' = None
    /\ lock' = IF lock \in Jobs THEN Stale ELSE lock
    /\ cut' = (cut \/ \E j \in Jobs : job[j].at \in Making)
    /\ UNCHANGED <<registry, link, up, kernel, port, faults>>

-----------------------------------------------------------------------------
\* The steps under the lock whose commands are killed after 30 s.
TimedApply(j) ==
    \/ Bootstrap(j) \/ Configure(j) \/ Raise(j) \/ Reconfigure(j)
    \/ Sync(j) \/ Remove(j) \/ Verify(j) \/ Rollback(j) \/ ReleaseLock(j)

Apply(j) == Inspect(j) \/ TimedApply(j)

Timed(j) ==
    \/ LoadRegistry(j)
    \/ AcquireLock(j) \/ ClearStaleLock(j) \/ LockTimeout(j)
    \/ TimedApply(j)

Step(j) == Timed(j) \/ Intend(j) \/ Inspect(j) \/ Finish(j)

Next ==
    \/ \E p \in Peers : Create(p) \/ Revoke(p) \/ Expire(p)
    \/ ChangePort
    \/ \E j \in Posts : BeginPost(j)
    \/ \E j \in Statuses : BeginStatus(j) \/ Sweep(j)
    \/ \E j \in Jobs : Step(j)
    \/ Crash

(***************************************************************************)
(* The commands of the apply are killed after 30 s (execHost) and every    *)
(* wait for the lock is bounded.  Nothing bounds the probes for wg and     *)
(* wg-quick before the lock, the first `wg show' under it, and iptables    *)
(* after it: nothing is assumed of Intend, Inspect and Finish.  The sweep  *)
(* waits in the FIFO write queue, so it gets its turn although others use  *)
(* the queue again and again.                                              *)
(***************************************************************************)
Fairness ==
    /\ \A j \in Jobs : WF_vars(Timed(j))
    /\ \A j \in Statuses : SF_vars(Sweep(j))

Spec == Init /\ [][Next]_vars /\ Fairness

-----------------------------------------------------------------------------
(***************************************************************************)
(* Properties.                                                             *)
(***************************************************************************)

\* The registry of this module takes no step that PeerLife does not allow,
\* and module Registry, with all its operations, none either.
Life == INSTANCE PeerLife
RegistryIsPeerLife == Life!Spec

\* The abstract lock behind the apply lock.
UnderLock == {j \in Jobs : job[j].at \in Locked}
Lock == INSTANCE ExclusiveLock WITH
    Clients <- Jobs, Dead <- Stale, owner <- lock, inside <- UnderLock

\* The apply path uses its lock as an exclusive lock and in no other way: from
\* the plan to the last rollback step a request is the only one under it,
\* every way out of executeApply gives it back or, when the unlink fails, leaves
\* a file behind; only a file left so, or by a crash, is cleared.  This is what module FileLock provides.
AppliesAreExclusive == Lock!Spec

\* A reconcile that reports success has brought the kernel in line with
\* the registry it read: every peer still to be served is served and no
\* other, whatever was in the kernel before and whoever else reconciled; and
\* the interface is up, unless an earlier bootstrap was cut short (by a crash,
\* or by a failing step and a failing `ip link del') and its link is still
\* there, which the plan takes for an interface in working order.
SuccessMeansSynced ==
    \A j \in Jobs : At(j, "ok") =>
        /\ link /\ (up \/ cut)
        /\ Rendered(j) \subseteq kernel
        /\ kernel \subseteq job[j].intended

\* What POST /v1/reconcile reports as a success is the registry of that very
\* moment, expiry aside: nobody who should be served is missing and nobody
\* is served who is not active, on an interface that is up unless it is left
\* from a bootstrap cut short.
QueuedSuccessIsCurrent ==
    \A j \in Posts : At(j, "ok") =>
        /\ up \/ cut
        /\ Active \ expired \subseteq kernel /\ kernel \subseteq Active

\* A reconcile that fails and rolls back without a further failure leaves
\* no peer in the kernel that it did not find there: a half-done apply
\* grants nobody access (rollbackPlan).
FailureAddsNobody ==
    \A j \in Jobs : At(j, "failed") /\ job[j].undone => kernel \subseteq job[j].before

\* The interface is only taken down by the request that created it: an
\* interface that could not be inspected is not mistaken for one's own.
OthersLinkIsKept ==
    [][link /\ ~link' => \E j \in Jobs : job[j].made /\ job[j].at \in Locked]_vars

\* A reconcile inside the write queue only gives access to peers that are
\* active in the registry at that very moment.
QueuedApplyIsCurrent ==
    [][\A j \in Posts : job[j].at \in Locked /\ job'[j] # job[j]
          => kernel' \ kernel \subseteq Active]_vars

\* The steps a request in state r has at most ahead of it.
Rank == [idle |-> 0, end |-> 1, ok |-> 2, failed |-> 2, thrown |-> 2,
         rollback |-> 3, verify |-> 4, remove |-> 5, sync |-> 6, raise |-> 7,
         reconfigure |-> 7, configure |-> 8, bootstrap |-> 9, inspect |-> 10,
         lock |-> 11, intend |-> 13, load |-> 14, sweep |-> 15]

\* Removals ahead: of the plan, and of the rollback that may follow.
RemovalsLeft(r) ==
    LET n == Cardinality(Peers)
    IN  IF r.at = "remove" THEN Cardinality(r.todo) + n
        ELSE IF r.at = "verify" THEN n
        ELSE IF r.at = "rollback" THEN Cardinality(r.todo)
        ELSE IF Rank[r.at] > Rank["remove"] THEN 2 * n
        ELSE 0

StepsLeft(r, stale) ==
    Rank[r.at] + RemovalsLeft(r) + (IF r.at = "lock" /\ stale THEN 1 ELSE 0)

Left(j) == StepsLeft(job[j], lock = Stale) + (MaxFaults - faults)

\* No request goes round in circles: whatever fails and whoever else runs, it
\* is through after at most two steps for each peer, one for each failure and
\* 15 more, and what others do never adds to them.
RequestsAdvance ==
    /\ [](\A j \in Jobs : Left(j) \in 0 .. 2 * Cardinality(Peers) + 15 + MaxFaults)
    /\ [][\A j \in Jobs : job[j].at # "idle" =>
             /\ Left(j)' <= Left(j)
             /\ Step(j) \/ Sweep(j) => Left(j)' < Left(j)]_vars

\* The commands of a request that have no time limit return.
Returns(j) == []<>(job[j].at \notin {"intend", "inspect", "end"})

\* A request whose own commands return ends, with or without the lock, also
\* after a crash or a failed unlink that left the lock file behind, and also
\* when another hangs under the lock.  The sweep of a GET needs those of the
\* POSTs to return as well: they hold the write queue.
EveryRequestEnds ==
    \A j \in Jobs :
        Returns(j) /\ (j \in Statuses => \A k \in Posts : Returns(k)) =>
            (job[j].at # "idle" ~> job[j].at = "idle")

\* If reconciles keep succeeding, the kernel ends up with exactly the active
\* peers that are not expired, and stays there: what a stale reconcile of
\* /v1/status did does not survive.  The interface ends up up, unless it is
\* left from a bootstrap cut short.
KernelConverges ==
    ([]<>(\E j \in Posts : At(j, "ok"))) =>
        <>[](kernel = Active \ expired /\ (up \/ cut))

\* "Revoked peers must not be applied to the WireGuard interface."
\* (specs/data-model.md): no step starts to serve a peer that the registry
\* says is not active.
RevokedNeverApplied == [][kernel' \ kernel \subseteq Active]_vars

=============================================================================
