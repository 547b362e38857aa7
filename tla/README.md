# Verification of KinTunnel

KinTunnel runs a family VPN on one host: an *engine* (TypeScript, Node, one
process) owns the WireGuard interface and a registry of people and devices, and
an *admin* service puts a web interface in front of it. This directory holds
TLA+ modules that model the engine's core, TLC configurations that model-check
them on small instances, and theorems that TLAPS proves for every instance.

All paths are relative to the repository's root; `engine/` abbreviates
`src/packages/engine/src/` and `admin/` abbreviates `src/packages/admin/src/`.

## 1. Inventory

| Component | State it keeps | Operations | Interacts through |
|---|---|---|---|
| Registry (`engine/state.ts`, `peers.ts`, `ip.ts`, `types.ts`) | people, peers, expiry warnings, revision, ring of 250 events | create, revoke, delete a peer; create, update, archive, remove a person; revoke a person's devices; expiry sweep; config export; record a reconcile | called by every HTTP handler; read by reconcile, health, metrics |
| State file and write queue (`engine/state.ts`) | `state.json`, its temporary files, the promise chain `writeQueue` | `load`, `update`, `save`, `atomicWriteFile`, creation of the first file | all handlers; restore goes around it |
| Reconcile and apply (`engine/runtime.ts`, `apply.ts`) | none of its own; the kernel's interface and peers | inspect, plan, bootstrap, reconfigure, syncconf, remove, detect drift, roll back | `wg`, `ip`; registry (inside or outside the write queue); apply lock; networking |
| File lock (`engine/state.ts` `withFileLock`) | a lock file | acquire, clear when five minutes old, time out, release | apply path, backups |
| Backups and restore (`engine/backup.ts`) | snapshot directories, manifests | create, list, prune, verify, delete, import, restore | replaces `state.json`, takes the interface down, reconciles |
| Networking policy (`engine/networking.ts`) | firewall rules, sysctl | plan, apply, roll back | `iptables`, `sysctl`; called after the apply lock is released |
| Audit log (`engine/audit-store.ts`) | `audit.log` and rotated files | append, rotate, prune, query | called by the registry and the handlers |
| HTTP API (`engine/app.ts`) | none | authenticate, parse, dispatch, answer | everything above |
| Health (`engine/health.ts`), metrics, logger | none | probe, aggregate, render | read the host, the registry, the log |
| Configuration, keys, rendering (`engine/env.ts`, `keys.ts`, `config-render.ts`) | none | parse, generate, render | environment, `wg` |
| Admin service (`admin/`) | login limiter, sessions (cookies) | log in, log out, proxy to the engine, render pages | the engine's HTTP API |
| Deployment, scripts, CI | | | |

What is hard in it:

- **Concurrency without threads.** The engine is one Node process; an operation
  runs until its next `await`. Between the awaits of one request any other
  request runs. Updates are chained on a promise (`StateStore.update`), plain
  reads (`load`) are not, and a read is not read-only: it unlinks every `*.tmp`
  file, also one that an update is just writing.
- **Two ways into reconcile.** `POST /v1/reconcile` runs inside the write queue,
  the reconcile after an expiry sweep in `GET /v1/status` outside of it. They meet
  at the apply lock, when both have already read the registry.
- **Partial failure.** An apply is a sequence of host commands, each of which may
  fail, with a rollback made of commands that may fail too.
- **Crashes and leftovers.** The engine may die anywhere; state file, temporary
  files, lock file, interface and snapshots stay as they were.
- **Legal sequences.** Five operations change a peer's status, three of them by
  cascade; names, keys and addresses are handed out again after deletion.

The properties that make each component correct:

- Registry: identities of live peers are unique, addresses are inside the pool,
  lifecycles only go forward and are coherent, a removed person leaves no active
  device, each change of a device's status is told by an event of its own, warnings
  are spaced.
- State file: updates are serial and atomic; what was acknowledged is durable,
  what was rejected has no effect; reads are whole and current; every request is
  answered.
- Reconcile: success means the peers in the kernel agree with the registry that was
  read, on an interface that is up; a failure that is rolled back cleanly grants
  nobody access; nobody else's interface is taken down; requests end when their
  commands do; the kernel converges to the registry.
- File lock: mutual exclusion until somebody finds the file of a live holder stale
  (work longer than five minutes) or two find the same stale file; whoever's own work
  ends leaves, and an abandoned lock file goes away.
- Backups: a listed snapshot is whole, retention keeps the newest, there is always a
  snapshot to go back to; a restore that no update overlaps is all or nothing at every
  moment, and loses no later update.
- Networking: rules are inserted once, and rollback deletes what was inserted.
- Audit log: no event is lost or reordered by rotation, a query returns the events
  created last of one moment of the log, no failure blocks the queue.

`PROJECT.json` lists the hazards behind these, each at the line where it bites.

## 2. Plan

In order of importance; all eight parts are done.

1. `Registry`, with `RegistryProofs`: the operations on the registry, one action
   each; all its safety properties proved, and that it implements `PeerLife`.
2. `AtomicStore`, `StateStore`, with `StateStoreProofs`: what an update promises, and
   the file-system calls that keep it; refinement checked and proved.
3. `Reconcile`, with `ReconcileProofs`: the apply path with faults and crashes;
   safety proved, liveness checked.
4. `ExclusiveLock`, `FileLock`, with `FileLockProofs`: the lock file, on whose
   exclusion `Reconcile` and `Restore` rely; refinement checked and proved on both
   sides of it.
5. `Restore`, with `RestoreProofs`: a restore beside updates and reconciles; safety
   proved, liveness checked.
6. `Networking`, with `NetworkingProofs`: idempotent insertion of rules, rollback,
   overlapping calls.
7. `Backups`, with `BackupsProofs`: the life of snapshots: creation by rename, import,
   retention, deletion, removals cut short, crash; all proved.
8. `AuditLog`, with `AuditLogProofs`: append queue, rotation, pruning, short writes,
   query during rotation; safety proved, liveness checked.

Three abstract specifications tie the modules together, each between the code that
promises something and the code that relies on it:

| Promise | Kept by | Relied on by |
|---|---|---|
| `AtomicStore`: updates are serial and atomic | `StateStore` | `Registry` (an operation is one action), `Reconcile`, `Restore` |
| `ExclusiveLock`: one at a time under the lock | `FileLock`, until a stale file is contested | `Reconcile` (proved to use its lock in no other way), `Backups` |
| `PeerLife`: a peer lives once | `Registry` | `Reconcile` (proved to assume no other registry) |

What a continuation would take up: an event of the audit log together with the
update that emits it (`engine/app.ts:334`), the ring of 250 events, the handlers'
answers, the admin's login limiter, health aggregation.

Each part gets one passing run with its own bounds; a violation run only where the
repository states something that the code does not do.

## 3. The modules

Definitions whose comment begins with `MUTANT` are not part of a specification.
Each is a definition with a plausible mistake in it (a dropped guard, a missing
reset, a swapped order); `PROJECT.json` names, for every property, the mutant
that the property detects when it takes the place of the real definition.

### Registry

`peers`, `persons`, `warned`, `revision` are the fields of `EngineState`;
`emitted` holds the audit events the last step appended (the code keeps a ring of
250 and a durable log), a device event with its owner and the device; `now` is the
clock. `alerted` is history (`WatchWarnings`): when the last event
`peer.expiring.warned` about a peer was emitted, as against `warned`, the code's own
record of it, which revocations drop. One action per operation of
`StateStore`, plus `ExportConfig` and `RecordReconcile`, the two handlers in
`app.ts` that call `update` themselves. An operation is atomic because it runs in
`update`; `StateStore` justifies that. A mutation that throws never reaches `save`,
so its action is not enabled.

Kept although easily abstracted away, because a property depends on it: events are
appended before or after the revision is bumped; a revocation sets, overwrites or
keeps `revokedAt` depending on the path; `createPeer` may get a key and be asked to
generate one; the sweep does not bump the revision. Left out: labels, notes, DNS,
routes, error texts. Identifiers, names and keys are model values; the key pair
generated for peer `p` is called `p`.

`PeerLife` is the registry as the apply path sees it: which peers are active or ended
(a deleted peer is gone like a revoked one) and whose expiry date has passed. `Registry`
implements it under the mapping `Life`: a creation is `Create`, whatever revokes or
deletes, one peer or a person's, is `End` of those that were active, the clock is `Expire`,
and everything else leaves it alone.

### AtomicStore and StateStore

`AtomicStore` is the promise: updates are submitted, committed or rejected one
after the other in the order of submission, and acknowledged; a crash leaves the
requests in progress open.

`StateStore` is the code: `disk` is `state.json`, `temp[w]` the temporary file of
update `w` (its name is unique), `queue` the promise chain, and `pc`, `stray`, `doc`
are the local variables of each call between two awaits. Actions are the single
file-system calls: `ListTemps` and `UnlinkTemp` (`cleanupStrayTempFiles`),
`ReadState`, `CreateInitial`/`FillInitial`/`RereadState`
(`createInitialStateIfMissing`), `OpenTemp`/`WriteTemp`/`WriteFails`/`RenameTemp`
(`atomicWriteFile`), `Release` (the `finally` of `update`). A document is the list of
updates applied to it and the call that made its server key. `Crash` loses the
memory and keeps the files. Any of these calls may fail; the in-place write of the first
`state.json` then leaves half a document behind (`RejectLoad` at `fill`), as a crash
there does, and every later load is rejected. The code never calls fsync, so power loss
is outside the model.

The refinement mapping: `applied` is what `state.json` contains, `waiting` is the
queue without a head that has already renamed, and an update is `committed` between
its rename and its answer.

### Reconcile

The registry is reduced to each peer's status (`status`, `expired`), the host to
the interface (`link`, and `up`: it has its address and is up), the peers it serves
(`kernel`) and whether it listens on the configured port (`port`). `job[j]` is a request
with its local variables: `snap` (the state it loaded), `intended` (`activePeers`),
`before` (peers reported by `wg show`), `add` (`plan.addPeers`), `todo` (removals left),
`made`, `undone`. Each host command is an action with its failure. `writer` is the
reconcile that holds the write queue; `lock` the lock file, which survives a crash, or a
failed unlink, as `Stale`.

A new interface is made in three steps: `Bootstrap` (`ip link add`: no port, no address,
down), `Configure` (`wg setconf`: the port) and `Raise` (address and `up`). When one of
the last two fails, `GiveUpMaking` deletes the link or, that failing too, leaves it; a
crash leaves it in any case. `cut` is history: such a link is still there. The plan
looks at existence and port only (`Plan`), so it syncs peers into such a link and reports
success; the properties say that this is the only way to succeed with the interface
down. Two failures are not rolled back: a `syncconf` that fails while the port is
changed (`Reconfigure`) and a configuration file that cannot be written (`Sync`). A
`syncconf` that fails may have done any part of its work (`SyncPartly`).

`wg`, `ip` and the clock are external and modelled from how the code uses them.
`wg syncconf` adds the peers of its file; whether it also removes the others is left
open (`Synced`), so nothing here relies on it. Any failure of `wg show` counts as an
interface that does not exist, as `getRuntimeState` does.

Here the lock excludes and a stale lock file is found and cleared in one step.
`FileLock` shows when that is so: until a stale file is contested. That requests use the
lock as `ExclusiveLock` promises it, and in no other way, is `AppliesAreExclusive`; that
the registry of this module is `PeerLife`, which `Registry` implements, is
`RegistryIsPeerLife`. Both are proved.

### ExclusiveLock and FileLock

`ExclusiveLock` is the promise: who created the lock file is the one caller under it and
gives it back; when the process dies, or the last unlink fails, a file stays behind that
somebody clears.

`FileLock` is the code, `withFileLock` call by call: `Open` (with flag "wx"), `Stat`,
`UnlinkStale`, `EndWork` and `Release` are the single file-system calls and the end of
`fn`. `owner` is who created the lock file (`Dead` when nobody stands behind it any
more), `age` and `waited` are the times since its creation and since a call, told apart
only up to the limits the code compares them with. Work under the lock takes as long as
it likes: `wg show` (`engine/runtime.ts:102`) and `wg-quick` (`engine/backup.ts:458`) run
under the locks without a time limit, so a live holder's file may be found stale. Both
`unlink`s may fail, which the code swallows: the file of a finished holder is then
`Dead`. An EEXIST thrown by `fn` is taken for contention, and `fn` runs again (place
`again`).

`contested` is history: somebody has found a live holder's file stale, or one that
another is about to clear. It is over when the lock comes to rest (`Calm`), and while it
lasts the code gives no exclusion (hazard `engine/state.ts:106`). Until then, and again
afterwards, every step is one of `ExclusiveLock` (`ActsAsLock`). Left out: an `open` that
fails for other reasons than an existing file, which throws at once. A stale file
whose unlink keeps failing makes the code spin without looking at its deadline
(`engine/state.ts:115`); here failures are bounded.

### Restore

`backupRestore` with `apply = true`, step by step, beside updates, which take their
turn in the write queue, `POST /v1/reconcile`, which does its apply inside such a turn,
and `GET /v1/status`, which does it outside. A document is a set of updates; the events
that every save adds, and those it evicts from the ring of 250, are left out, so
whether a restore has taken effect is read from the updates alone. `TakeDown` and the
writes of `state.json` take neither the write queue nor the apply lock, as in the code.
The catch block is `Failing` and the four steps from `Rewrite` on.

The three kinds of reconcile, the restore's own included, meet at the apply lock
(`applying`, `leftover`) and go through the same steps: `Inspect` (and `ip link add`),
`Raise`, `Sync`, `Release`. The interface (`iface`) is absent, down or up, `served` the
document its peers are from. A crash, or a failure and a failing `ip link del`, may leave
it down (`cut`), and a restore may take it away between any two steps. What an update does
inside its turn is `StateStore`'s concern and a single load and save here; the single
commands of a sync are `Reconcile`'s.

### Networking

`rules` counts the copies of each rule that iptables holds, for the forward rules and
the masquerading rule of each interface; `forwarding` and `route` are the rest of the
host. A call has its resolved `egress`, its `marker` (the rule it is at) and `undo` (the
rule its rollback is at); since the loop stops at the first failure, the rules in
`rulesInserted` are exactly those before the marker. Every `iptables` command is an
action with its failure; a failing check counts as absence. The rollback detects the
egress again, which has no effect: the masquerading rule comes last and is never
among those rolled back. `created` and `disturbed` are history, for the properties.
`iptables` runs without a time limit (`engine/networking.ts:426`), so no command is taken
to return; `RulesConverge` says what it needs (`Returning`).

### AuditLog

`AuditStoreImpl`, file-system call by file-system call. Events are numbered as they
are emitted; `settled` is what became of each, `writing` and `at` are `doAppend`'s event
and place, `handle` is `this.handle` (also one whose `close` has failed). `append` takes
the pending events lowest first, which is what the promise chain `writeQueue` does.
A file is the set of events that can be parsed in it, its size and whether it ends in
a torn line: a short write, which the code does not notice, leaves one, and the next
line is appended to it. `rotated` keeps the contents of every file ever rotated,
`present` is which of them are still there, `doomed` what `pruneOldFiles` has left to
unlink. A query lists the directory, reads `audit.log` and then the rotated files one
by one (`toRead`); when the listing has no `audit.log`, one that comes later is not read.
`head` are the events found in `audit.log`, `snapshot` and `raced` history, for the
property about queries. The size in bytes is a number of lines. `createdAt` is any
assignment of times to events (`CreatedAt`): a sweep or a cascade stamps several events
with one millisecond, and an event may be emitted after one that is younger. The sort
(`Before`) is stable and descending, so among events of one millisecond it puts first
those that were read first.

### Backups

The operations of `createBackupStorage` that publish or remove snapshots; they hold the
backup lock, so there is one at a time (`kind`, `at`). Snapshots are numbered as they are
published. `files` is what is left of each directory (`fs.rm` deletes one file after the
other), `newer` the order by directory time, which such a deletion renews, `created` the
`created_at` of the manifest, which an import takes from elsewhere. `doomed` is what
retention or a deletion has chosen. `audited` and `missed` record what the events say.
A snapshot that cannot be read is skipped by `backupList` and by the test for the
newest, but not by retention; `misread` remembers a deletion that skipped one, until the
next snapshot is published. Restore's safety snapshot is the kind
`safety`, which does not prune; what a restore does with it is `Restore`'s. That there is
one operation at a time is what the backup lock gives until it is contested: a restore
whose `wg-quick` hangs for five minutes lets others in.

## 4. The runs

| Run | Question | Result |
|---|---|---|
| `registry` | Do any histories of registry operations break identity, lifecycle, removal, the audit of each device or the spacing of warnings? | no |
| `store` | Do the file-system calls implement `AtomicStore`, and is everything answered? | yes |
| `reconcile` | Does success mean synced and up, does a clean rollback add nobody, do requests end, does the kernel converge? | yes, but for a link left from a bootstrap cut short, which stays down |
| `reconcile_revoked` | Are revoked peers never applied (`specs/data-model.md:114`)? | violated by the unqueued reconcile |
| `filelock` | Does the lock file act as `ExclusiveLock`, does every call end, are abandoned files cleared? | yes, until a stale file is contested; a call ends if its work does |
| `filelock_serialize` | Do callers serialize (`engine/state.ts:75`), nobody's work being longer than five minutes? | violated when two find the same stale file |
| `restore` | Is a restore all or nothing, do later updates stay, does the tunnel return? | yes, without an overlapping update, and but for a link left from a bootstrap cut short |
| `restore_queue` | Does the write queue serialize all saves (`docs/architecture.md:319`)? | violated by a restore |
| `networking` | Does success mean the rules are in place, do copies stay few, does the host converge? | yes, undisturbed, and if calls return and come again |
| `networking_rollback` | Does a rollback leave alone the rules that were there before (`engine/networking.ts:275`)? | violated |
| `auditlog` | Is what was logged readable and in order, does retention keep the newest, is a query a snapshot, does every event settle? | yes, but for lines cut short and those behind them, dead handles, and queries that a rotation overlaps |
| `backups` | Is there always a whole snapshot, does retention keep the recent ones, do events tell what is gone? | yes, but for what interrupted removals leave and snapshots that were misread |

Bounds, and why they are enough:

- `registry`: three peers for three addresses (one is the server's), so the pool is
  exhausted and an address is reused; two names, so names collide and are reused;
  one client key, which two peers may both send; one owner; three ticks with
  `RewarnAfter = 1`, so a second warning, an expiry and a later revocation fit; at
  most four bumps of the revision, enough to create three peers and delete one, or
  to create, remove, revoke and create again. Identifiers and names are symmetric.
  The system stops at the bounds, so deadlock is not checked.
- `store`: two updates and two readers, one crash at any point. Two updates suffice
  for order and overlap, two readers for the race at the first start and for one to
  unlink while the other reads. Deadlock is checked: a reader may always begin.
- `reconcile`: two peers, one queued and one unqueued request (again and again), one
  fault or outside change, one crash. One fault is enough for a step of a
  bootstrap to fail and the `ip link del` after it as well (`GiveUpMaking`). With two
  peers one can be added while the other is removed or expires.
- `filelock`: three callers, so that two can race while a third holds or waits;
  `StaleAfter = 2` with ages up to three, so that work may outlast it or never end, and
  `Timeout = 1`, shorter than the age at which a file is stale, as in the code; one
  failing unlink or EEXIST thrown by the work; one crash. `filelock_serialize` has two
  callers and no failing call, and its property takes it that nobody's work outlasts
  `StaleAfter`. Deadlock is checked.
- `restore`: two updates, so that one can be acknowledged before, during and after the
  restore; one client that reconciles in the queue and one outside of it, again and
  again; one crash or failing command of a reconcile (`MaxFaults`). The restore's own
  calls, and the loads and saves of updates, may fail as often as they like, so restore
  and recovery can both fail. One restore is enough: the backup lock keeps others out.
- `networking`: two overlapping calls, two forward rules (one to be rolled back when
  the next fails) and the masquerading rule, two interfaces, two failures or crashes,
  one change from outside.
- `auditlog`: six events and a rotation at the second line of a file make three
  rotations; with `RetentionCount = 1` the last two prune, so that one finds what the
  other has left over. One failing or short call, one crash and one query, each at any
  moment; `Limit = 2`, so that a query reads on into a rotated file and drops some of
  what it found. The times are 2, 2, 1, 3, 3, 3: shared within a file and across two, and
  one event younger in number than in time. The system stops at the bounds.
- `backups`: four snapshots of which retention keeps two, so that two creations prune;
  imports dated before and after every snapshot made here (1 and 5); two failing calls,
  so that a removal is cut short and the next operation meets its leftover and fails
  too; one crash. The system stops at the bounds.
- In the `violation` runs nothing more than what the counterexample needs is left in.

Fairness. Only what the code bounds is fair; where a command may hang, the property says
in its own statement what has to return.

- `StateStore`: weak fairness of each call's next step, as every file-system call returns
  and a resolved promise runs its continuation; none of arrivals or of crashes.
- `Reconcile`: weak fairness of the steps that `execHost` bounds by 30 s and of the wait
  for the lock, bounded by 5 s (`Timed`); strong fairness of `Sweep`, as it waits in the
  write queue, which is FIFO, so that it gets its turn although others use the queue
  again and again. Nothing is assumed of the probes before the lock
  (`engine/runtime.ts:227`), of the first `wg show` under it (`engine/runtime.ts:102`) and
  of `iptables` after it (`engine/networking.ts:426`): they run without a time limit.
  `EveryRequestEnds` is about requests whose own such commands return, also behind one
  that hangs under the lock; the sweep of a status needs those of the POSTs to return as
  well, which hold the write queue.
- `FileLock`: weak fairness of the file-system calls and of time, none of the work under
  the lock. `EveryCallEnds` is about callers whose own work ends, also behind one whose
  does not.
- `Restore`: weak fairness of an update's end and nothing else.
- `Networking`, `Backups`: none. `RulesConverge` takes it that calls return (`Returning`).
- `AuditLog`: weak fairness of `doAppend`'s next step, since nothing it awaits waits for
  anybody else; none of emissions or queries.

`KernelConverges`, `TunnelReturns`, `AbandonedIsCleared` and `RulesConverge` assume in
their own statements that requests keep coming (the first two: that they keep
succeeding).

## 5. What is proved

The eight modules named `...Proofs` prove for every value of the constants, from the
named assumption of each module alone (`RegistryAssumption`: the pool has a server and
a host; `StateStoreAssumption`, `ReconcileAssumption`, `RestoreAssumption`: the kinds of
requests are disjoint; `FileLockAssumption`: callers are not the two special owners;
`NetworkingAssumption`, `PeersAssumption`, `WritersAssumption`: finitely many calls, peers
(the network has room for no more) and updates; `AuditLogAssumption`, `BackupsAssumption`: at
least one file or snapshot is retained, as `env.ts` enforces; all: `None` is not a value,
bounds are naturals):

- Registry: `TypeCorrect`, `IdentityIsUnique`, `AddressesStayInPool`,
  `LifecycleIsCoherent`, `RemovalRevokesDevices`, `PeersMoveForward`,
  `WarningsAreSpaced`, `TransitionsAreAudited`, and the refinement `RegistryLives`. The
  invariants together are
  inductive: uniqueness of generated keys needs that a key named after a peer is only
  ever stored or sent once that peer exists, and `NoDeviceWithoutPerson` needs that
  owners of peers are known persons. `WarningsAreSpaced` is about events: it needs that the
  code's record of a warning is the time of the last event about the peer, unless the
  peer is past being warned (`RecordInv`). The other action properties follow from `TypeOK` and
  one lemma per action that says what the action does to a single peer; so does the
  refinement, which needs besides that an identifier not handed out has no expiry date
  (`AbsentIsBlank`).
- Reconcile: `TypeCorrect`, `SuccessIsSynced`, `FailureGrantsNothing`, `LinkIsKept`,
  `QueuedIsCurrent`, for any number of peers, requests, faults and crashes. None of
  them is inductive. `InductiveInvariant` adds what a request relies on at each place
  of the apply (`Relies`): who holds the lock, whether the interface exists, and that
  the kernel lies between what was found, what was added and what is still to be
  removed; that an interface that exists is up, in the making, or cut short; and that a queued request holds the write queue while its snapshot is the
  registry's active set (`HoldsQueue`). The proof has one lemma per action; steps of
  one request keep what the others rely on because only the holder of the lock
  changes the host, and expiry only shrinks what is rendered. `QueuedSuccess` says more of
  `POST /v1/reconcile`: its success is the registry of that very moment; it needs that
  what is intended is part of the snapshot. `AppliesExclude` and `RegistryLives` show that
  `Reconcile` is built on `ExclusiveLock` and `PeerLife`: every step is one of theirs or
  leaves lock and registry alone.
- FileLock: `TypeCorrect`, `FileLockActsAsLock`, `LockExcludes`, `NoLeftover`, and the
  refinement `LockImplements`: a behaviour in which nothing is contested is one of
  `ExclusiveLock`. Nothing is assumed of the limits or of how long work takes. The
  invariant adds that, unless contested, whoever is about to unlink a stale file is its
  only finder and the file is dead.
- Networking: `TypeCorrect`, `SuccessIsInPlace`, `CopiesAreFew`. The invariant adds that
  an undisturbed call has the rules before its marker in place (`Covered`), and that the
  copies of a rule together with the calls about to append it are at most as many as
  calls and failures (`Counted`): a check that finds nothing makes room for one append,
  one that fails pays for it.

- StateStore: `TypeCorrect`, `AnswersStayTrue`, `ReadsStayCurrent` and the refinement
  `UpdatesAreAtomic`. The invariant adds that only the head of the queue runs
  (`QueueInv`), that one call at most fills in the first file (`FirstInv`), that an update
  is in effect exactly from its rename on (`EffectInv`), and that what a running update
  holds is `state.json` as it is now and its own change (`HoldInv`): this is where reads
  that delete temporary files would do harm, and they only make a rename fail.
  `LocalKeeps` settles all steps that leave file and queue alone at once. For the
  refinement, `Enqueue` is a submission, the rename a commit, `Release` an
  acknowledgement or a rejection, and everything else a stutter, the creation of the
  first file included.
- Restore: `TypeCorrect`, `RestoreIsAtomic`, `LaterUpdatesAreSafe`. `RestoreIsAtomic` says
  that `state.json` at every moment either has everything acknowledged or is the restored
  document and what came later, never a mixture, and which of the two where the code says so (restored,
  recovered, or not yet written); a forced restore that failed after its write, a failed
  recovery and a crash leave either. The invariant says
  what each step of an undisturbed restore may rely on (`UndisturbedInv`), that the
  acknowledged updates that must not be lost are also in the copy of whoever holds the
  write queue (`Kept`), and that as long as the restore may write, no acknowledged
  update is a later one (`BegunInv`).
- AuditLog: `TypeCorrect`, `LoggedStaysReadable`, `LogStaysInOrder`, `NewestAreKept`,
  `QueriesAreSnapshots`. Order needs that nothing pending is older than anything written
  (`OrderInv`); readability needs where a torn line can be and what follows it
  (`TornInv`); a query needs what it has still to read (`QueryInv`), and that sorting by
  time and cutting keeps `Limit` events of which none is older than one that was cut,
  whatever the times.
- Backups: `TypeCorrect`, `LastSnapshotIsKept`, `RemovalsAreAudited`, `RecentAreKept`. The
  first of them, which holds from each publication on until a deletion misreads a
  snapshot, needs that a whole snapshot exists outside `doomed` at every step; the last
  that, leftovers aside, the order by directory time is the order of publication
  (`NewerInv`).

The safety half of liveness. That something happens in the end rests on fairness and on
a measure; the measure is a matter of single steps, and proved:

- Nobody goes round in circles: `RequestsRunOut` (`RequestsAdvance`), `CallsRunOut` of
  `StateStore` and of `Networking` (`CallsAdvance`), `AppendsRunOut` (`AppendsAdvance`),
  `HoldersRunOut` (`HoldersAdvance`). Each counts the steps a request has at most ahead
  of it (`Left`, or the rank of its place): every step of its own, failing ones
  included, makes the count smaller, and no step of anybody else makes it larger. The
  counts are bounded by the code's own loops: two removals for each peer, a directory
  of temporary files, the rotated files to prune. In `Reconcile` the clearing of a stale
  lock file is a step that helps a request on; a failed unlink that leaves one counts as
  the failure it is, one step for each, and a crash ends all requests.
- Nobody is forgotten: `QueueIsServed` (`QueueServesInOrder`) says that only the head of the
  write queue is under way and that the queue loses its head only with an answer;
  `HoldersRunOut`, that whoever holds the queue is in its request and that whoever holds
  the apply lock, a POST inside the queue, a status or a restore outside of it, has
  nothing more to wait for; `SettledInOrder` (`EventsSettleInOrder`), that events of the audit log settle in the
  order of their emission and once.
- What was reached stays: `PolicyStays` (`CalmKeepsPolicy`), that without failures a policy
  in place stays in place; `CalmIsLogged` (`CalmAppendsSucceed`), that then whatever
  settles can be read, but for a dead handle, with which every append fails, and a torn
  line, which swallows the one behind it.

These action properties hold in the runs' instances as well. They are stated in the
components' modules beside the liveness property each of them supports.

Only model-checked: the liveness properties themselves (`EveryRequestAnswered`,
`EveryRequestEnds`, `KernelConverges`, `EveryCallEnds`, `AbandonedIsCleared`,
`TunnelReturns`, `RulesConverge`, `EveryEventSettles`): to conclude them from weak
fairness one must reason about ENABLED, which this prover does not. Every
invariant and every action property of every passing run is proved.

## 6. Findings

Four disagreements between the code and what the repository says about it; each is
the counterexample of a `violation` run, quoted in `PROJECT.json`:

1. `specs/data-model.md:114` says revoked peers must not be applied; the reconcile of
   `GET /v1/status` applies a copy read outside the write queue
   (`engine/app.ts:190`). The next queued reconcile repairs it (`KernelConverges`).
2. The comment at `engine/state.ts:75` says callers of `withFileLock` serialize; two
   callers that find the same stale lock file may both get the lock, as the second
   unlinks the first one's fresh file (`engine/state.ts:114`).
3. `docs/architecture.md:319` says one queue serializes all saves; a restore replaces
   `state.json` without it (`engine/backup.ts:460`), also while an update is between its
   load and its save, and one of the two is lost. Without such an overlap the restore
   is all or nothing (`RestoreIsAllOrNothing`).
4. The comment at `engine/networking.ts:275` says the rollback leaves alone rules that
   were there before; `applyNetworking` counts a rule it has found as inserted
   (`engine/networking.ts:220`), so the rollback deletes it. The next call that succeeds
   puts it back (`RulesConverge`).

Met while modelling, and part of the models, without a run of their own:

- The comment at `engine/apply.ts:471` says a half-configured interface is removed so that
  a later reconcile starts from a clean slate; after a crash, or when `ip link del` fails
  as well, it stays, the plan takes it for an interface in working order
  (`engine/apply.ts:96`), and reconciles succeed without ever bringing it up (`cut`).
- Of the events of one millisecond the durable query keeps the older ones at its limit
  (`engine/audit-store.ts:171`, a stable descending sort), and what follows a torn line
  in `audit.log` cannot be read though its append reported success
  (`engine/audit-store.ts:211`).
- `docs/architecture.md:248` says the revision bumps on every write; the expiry sweep
  saves revocations without bumping (`engine/state.ts:446`).
- The comment at `engine/state.ts:175` says `load` never reads a half-written state; the
  first `state.json` is written in place (`engine/state.ts:948`), and a second call may
  read it half-written (`ReadState` with `Partial`) and is rejected.
- The comment at `engine/backup.ts:232` says retention leaves corrupt snapshots for
  inspection; it removes them like any other, and until then counts them as new.
- The comment at `engine/audit-store.ts:15` says the oldest rotated files are pruned
  first; `pruneOldFiles` picks the files beyond the newest `RetentionCount` and unlinks
  them newest first, so a crash half-way leaves the oldest (`Unlink`).
- `docs/architecture.md:309` says a query of the durable log no longer has gaps, and means
  that every event is handed to it; a query that a rotation overlaps may still miss the
  events of the file that was renamed under it (`raced`).

## 7. Not modelled

Authentication, JSON shapes, HTML and error texts; logger and metrics (recomputed
at every scrape); parsing of configuration and rendering of WireGuard files beyond
the set of peers; key generation (by `wg`); `modifyPeers`, which only feeds
diagnostics; power loss; deployment files. The ring of 250 events is reduced to the
events of the last step, its eviction left out, and events are left out of `Restore`'s
documents. Of the audit log, `rotate` and `flush`, which nothing calls, the
filters of a query, and two rotations within a millisecond. Of backups, listing, plan
and export, which change nothing, staging directories left by a crash, and the
`.retention` file, which nothing reads. Health checks only probe; the admin service keeps
a login limiter and nothing else. `DELETE /v1/persons/:id` looks for active devices in a
copy loaded before its update; an archived person may have active devices all the same
(`PATCH` archives without looking), so no invariant of the registry depends on it.
