------------------------------ MODULE Registry ------------------------------
(***************************************************************************)
(* The engine's registry of people and WireGuard peers: what StateStore    *)
(* (packages/engine/src/state.ts) does to state.json, one operation at a   *)
(* time.  Every mutating operation runs inside StateStore.update, which    *)
(* loads the file, mutates it in memory and saves it while it holds the    *)
(* in-process write queue; here each such operation is one atomic action.  *)
(* Module StateStore refines that step into its file-system calls and      *)
(* shows that updates take effect one after the other.                     *)
(*                                                                         *)
(* A mutation that throws (ValidationError, exhausted pool) leaves before  *)
(* save, so nothing is written: its action is simply not enabled.  What is *)
(* abstracted: labels, notes, DNS servers, routes and the wording of       *)
(* errors.  Time advances in ticks; an absent optional field is None.      *)
(*                                                                         *)
(* Definitions marked MUTANT are not part of the specification: each is a  *)
(* definition with a mistake in it that a property has to detect.          *)
(***************************************************************************)
EXTENDS Integers

CONSTANTS
    PeerIds,      \* identifiers randomUUID hands to peers, never reused
    PersonIds,    \* identifiers randomUUID hands to persons, never reused
    Names,        \* peer names a client may send, already trimmed
    ClientKeys,   \* public keys made on a client's own device
    None,         \* an optional field that is absent
    FirstHost,    \* first usable host of the tunnel network: the server
    LastHost,     \* last usable host of the tunnel network
    WarnWindows,  \* how many ticks before expiry a sweep may report a peer
    RewarnAfter,  \* ticks (24 h) for which one expiry warning is enough
    ExpiryTimes,  \* expiry dates a client may ask for, all after boot
    MaxNow,       \* bound on the clock
    MaxRevision   \* bound on the number of revisions

Times == 0..MaxNow

\* The pair generated for peer p is named p: keys of different peers differ.
Keys == ClientKeys \cup PeerIds

(***************************************************************************)
(* firstHost < lastHost since parseIpv4Cidr accepts prefixes up to /30.    *)
(***************************************************************************)
ASSUME RegistryAssumption ==
    /\ FirstHost \in Nat /\ LastHost \in Nat /\ FirstHost < LastHost
    /\ WarnWindows \subseteq Nat /\ RewarnAfter \in Nat
    /\ MaxNow \in Nat /\ MaxRevision \in Nat \ {0}
    /\ ExpiryTimes \subseteq Nat \ {0}
    /\ None \notin Nat \cup Keys \cup PersonIds
    /\ ClientKeys \cap PeerIds = {}

VARIABLES
    peers,     \* peer records by id; "absent" before the id is handed out
    persons,   \* status of each person; "removed" after a forced delete
    warned,    \* state.expiryWarned: when the last expiry warning was made
    revision,  \* state.revision
    emitted,   \* audit events the last step appended
    now,       \* the clock the operations read
    alerted    \* history: when the last expiry warning for a peer was emitted

vars == <<peers, persons, warned, revision, emitted, now, alerted>>

PeerStatus == {"absent", "active", "revoked", "deleted"}
PersonStatus == {"absent", "active", "archived", "removed"}

PeerRecord ==
    [status: PeerStatus, name: Names \cup {None}, publicKey: Keys \cup {None},
     privateKey: Keys \cup {None}, addressV4: Nat \cup {None},
     personId: PersonIds \cup {None}, expiresAt: ExpiryTimes \cup {None},
     revokedAt: Times \cup {None}, deletedAt: Times \cup {None}]

NoPeer == [status |-> "absent", name |-> None, publicKey |-> None,
           privateKey |-> None, addressV4 |-> None, personId |-> None,
           expiresAt |-> None, revokedAt |-> None, deletedAt |-> None]

PeerActions == {"peer.created", "peer.deleted", "peer.revoked",
                "peer.expired.auto_revoked", "peer.expired.warned",
                "peer.expiring.warned", "peer.config.exported"}
PersonActions == {"person.created", "person.updated", "person.archived",
                  "person.deleted", "person.devices.revoked"}
DeviceActions == {"person.device.added", "person.device.removed"}

AuditEvents ==
    [action: PeerActions, target: PeerIds, revision: Nat]
    \cup [action: PersonActions, target: PersonIds, revision: Nat]
    \cup [action: DeviceActions, target: PersonIds, revision: Nat, peer: PeerIds]
    \cup [action: {"reconcile.completed"}, target: {None}, revision: Nat]

TypeOK ==
    /\ peers \in [PeerIds -> PeerRecord]
    /\ persons \in [PersonIds -> PersonStatus]
    /\ warned \in [PeerIds -> Times \cup {None}]
    /\ revision \in 1..MaxRevision
    /\ emitted \subseteq AuditEvents
    /\ now \in Times
    /\ alerted \in [PeerIds -> Times \cup {None}]

-----------------------------------------------------------------------------
(***************************************************************************)
(* Helpers.  An event carries the revision of the state it is appended to, *)
(* so its value depends on whether the code bumps before or after.         *)
(***************************************************************************)
AppendEvent(action, target, rev) ==
    [action |-> action, target |-> target, revision |-> rev]

\* A device event names the owner and, in its metadata, the peer.
DeviceEvent(action, p, owner, rev) ==
    [action |-> action, target |-> owner, revision |-> rev, peer |-> p]

\* Peers that still hold their name, key and address.
Live == {p \in PeerIds : peers[p].status \in {"active", "revoked"}}

Expired(p) == peers[p].expiresAt # None /\ peers[p].expiresAt <= now

IsPeerActive(p) == peers[p].status = "active" /\ ~Expired(p)

\* MUTANT of FreeAddresses: only active peers keep their address.
FreeOfActive ==
    {a \in FirstHost + 1 .. LastHost :
        \A q \in PeerIds : IsPeerActive(q) => peers[q].addressV4 # a}

\* The addresses allocatePeerAddress scans, lowest first.
FreeAddresses ==
    {a \in FirstHost + 1 .. LastHost : \A q \in Live : peers[q].addressV4 # a}

\* The first address of the scan that no live peer holds.
AllocatePeerAddress ==
    CHOOSE a \in FreeAddresses : \A b \in FreeAddresses : a <= b

\* JavaScript's x ??= v on a timestamp.
OrElse(x, v) == IF x = None THEN v ELSE x

\* MUTANT of Revoked: the status shown by the API is stored.
RevokedAsExpired(r, at) == [r EXCEPT !.status = "expired", !.revokedAt = at]

Revoked(r, at) == [r EXCEPT !.status = "revoked", !.revokedAt = at]

\* MUTANT of Deleted: deleting an active peer leaves revokedAt empty.
DeletedOnly(r, at) == [r EXCEPT !.status = "deleted", !.deletedAt = at]

Deleted(r, at) == [r EXCEPT !.status = "deleted", !.deletedAt = at,
                            !.revokedAt = OrElse(r.revokedAt, at)]

PersonExists(o) == persons[o] \in {"active", "archived"}

\* MUTANT of ActiveDevices: devices that expired are overlooked.
UnexpiredDevices(o) ==
    {p \in PeerIds : peers[p].personId = o /\ IsPeerActive(p)}

\* A person's devices that are neither revoked nor deleted.
ActiveDevices(o) ==
    {p \in PeerIds : peers[p].personId = o /\ peers[p].status = "active"}

\* person.archived is appended only when the person was not archived yet.
ArchivedEvent(o, archive, rev) ==
    IF archive /\ persons[o] # "archived"
    THEN {AppendEvent("person.archived", o, rev)} ELSE {}

BumpRevision == revision < MaxRevision /\ revision' = revision + 1

-----------------------------------------------------------------------------
Init ==
    /\ peers = [p \in PeerIds |-> NoPeer]
    /\ persons = [o \in PersonIds |-> "absent"]
    /\ warned = [p \in PeerIds |-> None]
    /\ revision = 1
    /\ emitted = {}
    /\ now = 0
    /\ alerted = [p \in PeerIds |-> None]

Tick ==
    /\ now < MaxNow
    /\ now' = now + 1
    /\ emitted' = {}
    /\ UNCHANGED <<peers, persons, warned, revision>>

\* A key pair is generated when asked for or when no public key was sent.
Generates(sentKey, generate) == generate \/ sentKey = None

(***************************************************************************)
(* createPeer.  parsePeerCreate requires an expiry in the future when the  *)
(* request is parsed, which may be long before its turn in the queue.      *)
(* A public key that was sent wins over a generated one, whose private key *)
(* is stored all the same.                                                 *)
(***************************************************************************)
CreatePeer(p, name, sentKey, generate, person, expires) ==
    LET key == IF sentKey = None THEN p ELSE sentKey
    IN  /\ peers[p].status = "absent"
        /\ \A q \in Live : peers[q].name # name
        /\ \A q \in Live : peers[q].publicKey # key
        /\ person # None => persons[person] = "active"
        /\ FreeAddresses # {}
        /\ peers' = [peers EXCEPT ![p] =
              [status |-> "active", name |-> name, publicKey |-> key,
               privateKey |-> IF Generates(sentKey, generate) THEN p ELSE None,
               addressV4 |-> AllocatePeerAddress, personId |-> person,
               expiresAt |-> expires, revokedAt |-> None, deletedAt |-> None]]
        /\ BumpRevision
        /\ emitted' =
              {AppendEvent("peer.created", p, revision')}
              \cup {DeviceEvent("person.device.added", p, o, revision') :
                      o \in {person} \ {None}}
        /\ UNCHANGED <<persons, warned, now>>

\* deletePeer: final, and the revocation time is kept when there is one.
DeletePeer(p) ==
    /\ p \in Live
    /\ peers' = [peers EXCEPT ![p] = Deleted(peers[p], now)]
    /\ BumpRevision
    /\ emitted' = {AppendEvent("peer.deleted", p, revision')}
    /\ UNCHANGED <<persons, warned, now>>

\* revokePeer: a revoked peer may be revoked again, with a new time.
RevokePeer(p) ==
    /\ p \in Live
    /\ peers' = [peers EXCEPT ![p] = Revoked(peers[p], now)]
    /\ BumpRevision
    /\ emitted' = {AppendEvent("peer.revoked", p, revision')}
    /\ UNCHANGED <<persons, warned, now>>

\* Active peers that expire within the window; a window of 0 means none.
Expiring(window) ==
    {p \in PeerIds :
        /\ IsPeerActive(p) /\ peers[p].expiresAt # None
        /\ window > 0
        /\ peers[p].expiresAt - now <= window}

WarningDue(p) == warned[p] = None \/ now - warned[p] > RewarnAfter

\* MUTANT of WarnedNext: only a first warning is recorded.
WarnedFirst(revoked, reported) ==
    [p \in PeerIds |->
        IF p \in revoked THEN None
        ELSE IF p \in reported /\ warned[p] = None THEN now ELSE warned[p]]

\* The times of the warnings that later sweeps go by.
WarnedNext(revoked, reported) ==
    [p \in PeerIds |->
        IF p \in revoked THEN None
        ELSE IF p \in reported THEN now ELSE warned[p]]

(***************************************************************************)
(* sweepExpired, called by GET /v1/status with the configured autoRevoke   *)
(* and warning window and by GET /v1/expiring without autoRevoke and with  *)
(* any window, 0 for no warnings.  It does not bump the revision.  The     *)
(* clock is read when the request joins the FIFO queue, so later sweeps    *)
(* have later times; here it is read when its turn comes.                  *)
(***************************************************************************)
SweepExpired(autoRevoke, window) ==
    LET expired == {p \in PeerIds : peers[p].status = "active" /\ Expired(p)}
        toWarn == {p \in Expiring(window) : WarningDue(p)}
        revoked == IF autoRevoke THEN expired ELSE {}
        Events(action, S) == {AppendEvent(action, p, revision) : p \in S}
    IN  /\ peers' = [p \in PeerIds |->
              IF p \in revoked THEN Revoked(peers[p], now) ELSE peers[p]]
        /\ warned' = WarnedNext(revoked, toWarn)
        /\ emitted' =
              Events("peer.expiring.warned", toWarn)
              \cup (IF autoRevoke
                    THEN Events("peer.expired.auto_revoked", expired)
                         \cup Events("peer.revoked", expired)
                    ELSE Events("peer.expired.warned", expired))
        /\ UNCHANGED <<persons, revision, now>>

(***************************************************************************)
(* GET /v1/peers/:id/config runs in the queue: the event is appended, then *)
(* rendering throws, and nothing is saved, when no private key is stored.  *)
(***************************************************************************)
ExportConfig(p) ==
    /\ IsPeerActive(p)
    /\ peers[p].privateKey # None
    /\ emitted' = {AppendEvent("peer.config.exported", p, revision)}
    /\ UNCHANGED <<peers, persons, warned, revision, now>>

-----------------------------------------------------------------------------
CreatePerson(o) ==
    /\ persons[o] = "absent"
    /\ persons' = [persons EXCEPT ![o] = "active"]
    /\ BumpRevision
    /\ emitted' = {AppendEvent("person.created", o, revision')}
    /\ UNCHANGED <<peers, warned, now>>

\* updatePerson; status is None when the patch only renames or annotates.
UpdatePerson(o, status) ==
    /\ PersonExists(o)
    /\ persons' = [persons EXCEPT ![o] = OrElse(status, persons[o])]
    /\ BumpRevision
    /\ emitted' =
          {AppendEvent("person.updated", o, revision')}
          \cup ArchivedEvent(o, status = "archived", revision')
    /\ UNCHANGED <<peers, warned, now>>

\* deletePerson without force archives and leaves the devices alone.
ArchivePerson(o) ==
    /\ PersonExists(o)
    /\ persons' = [persons EXCEPT ![o] = "archived"]
    /\ BumpRevision
    /\ emitted' = ArchivedEvent(o, TRUE, revision')
    /\ UNCHANGED <<peers, warned, now>>

\* deletePerson with force: the devices are revoked, the person removed.
\* The device events are appended before the revision is bumped.
RemovePerson(o) ==
    /\ PersonExists(o)
    /\ persons' = [persons EXCEPT ![o] = "removed"]
    /\ peers' = [p \in PeerIds |->
          IF p \in ActiveDevices(o)
          THEN Revoked(peers[p], OrElse(peers[p].revokedAt, now))
          ELSE peers[p]]
    /\ BumpRevision
    /\ emitted' =
          {AppendEvent("person.deleted", o, revision')}
          \cup {DeviceEvent("person.device.removed", p, o, revision) :
                  p \in ActiveDevices(o)}
    /\ UNCHANGED <<warned, now>>

\* MUTANT of RevokePersonDevices: nothing is audited.
RevokeSilently(o) ==
    /\ PersonExists(o)
    /\ peers' = [p \in PeerIds |->
          IF p \in ActiveDevices(o) THEN Revoked(peers[p], now) ELSE peers[p]]
    /\ BumpRevision
    /\ emitted' = {}
    /\ UNCHANGED <<persons, warned, now>>

RevokePersonDevices(o) ==
    /\ PersonExists(o)
    /\ peers' = [p \in PeerIds |->
          IF p \in ActiveDevices(o)
          THEN Revoked(peers[p], now)
          ELSE peers[p]]
    /\ BumpRevision
    /\ emitted' = {AppendEvent("person.devices.revoked", o, revision')}
    /\ UNCHANGED <<persons, warned, now>>

\* POST /v1/reconcile records its outcome, whatever it was.
RecordReconcile ==
    /\ BumpRevision
    /\ emitted' = {AppendEvent("reconcile.completed", None, revision')}
    /\ UNCHANGED <<peers, persons, warned, now>>

-----------------------------------------------------------------------------
\* Public keys a client can know: its own, and those already published.
SendableKeys ==
    ClientKeys \cup {k \in PeerIds : \E p \in PeerIds : peers[p].publicKey = k}

PeerNext ==
    \/ \E p \in PeerIds, name \in Names, key \in SendableKeys \cup {None},
          generate \in BOOLEAN, person \in PersonIds \cup {None},
          expires \in ExpiryTimes \cup {None} :
             CreatePeer(p, name, key, generate, person, expires)
    \/ \E p \in PeerIds : DeletePeer(p)
    \/ \E p \in PeerIds : RevokePeer(p)
    \/ \E p \in PeerIds : ExportConfig(p)
    \/ \E autoRevoke \in BOOLEAN, window \in WarnWindows :
          SweepExpired(autoRevoke, window)

PersonNext ==
    \/ \E o \in PersonIds : CreatePerson(o)
    \/ \E o \in PersonIds, s \in {"active", "archived", None} : UpdatePerson(o, s)
    \/ \E o \in PersonIds : ArchivePerson(o)
    \/ \E o \in PersonIds : RemovePerson(o)
    \/ \E o \in PersonIds : RevokePersonDevices(o)

\* p is warned of its coming expiry.
Warns(p) == \E e \in emitted' : e.action = "peer.expiring.warned" /\ e.target = p

WatchWarnings ==
    alerted' = [p \in PeerIds |-> IF Warns(p) THEN now ELSE alerted[p]]

Next == (Tick \/ PeerNext \/ PersonNext \/ RecordReconcile) /\ WatchWarnings

Spec == Init /\ [][Next]_vars

-----------------------------------------------------------------------------
(***************************************************************************)
(* Properties.                                                             *)
(***************************************************************************)

\* The registry as the apply path sees it: a deleted peer is gone like a
\* revoked one.
Life == INSTANCE PeerLife WITH
    Peers <- PeerIds,
    status <- [p \in PeerIds |->
                 IF peers[p].status = "deleted" THEN "revoked"
                 ELSE peers[p].status],
    expired <- {p \in PeerIds : Expired(p)}

\* Whatever operation runs, cascades and sweeps included, it is one step of
\* PeerLife or changes nothing the apply path looks at: nobody comes to life
\* twice, what ends does not come back, and an expiry date passes with the
\* clock and never moves.
PeersLiveOnce == Life!Spec

\* No two peers that are not deleted share a tunnel address, a public key
\* or a name, over any history of creations, revocations and deletions: the
\* kernel routes by address and identifies by key, and a revoked peer keeps
\* all three (createPeer, createPeerInState, allocatePeerAddress).
UniqueIdentity ==
    \A p, q \in Live : p # q =>
        /\ peers[p].addressV4 # peers[q].addressV4
        /\ peers[p].publicKey # peers[q].publicKey
        /\ peers[p].name # peers[q].name

\* A live peer's address is inside the tunnel network and never the
\* server's own first host (allocatePeerAddress starts after firstHost).
AddressInPool ==
    \A p \in Live : peers[p].addressV4 \in FirstHost + 1 .. LastHost

\* Status and timestamps tell one story: an active peer was never revoked
\* or deleted, a revoked one has a revocation time, a deleted one has both,
\* the deletion not before the revocation, and none lies in the future.
\* Five code paths revoke, with three ways to set the time.
LifecycleCoherent ==
    \A p \in PeerIds :
        LET r == peers[p] IN
        /\ r.status \in {"absent", "active"} => r.revokedAt = None
        /\ r.status \in {"revoked", "deleted"} => r.revokedAt \in 0..now
        /\ r.status = "deleted" => r.deletedAt \in r.revokedAt..now
        /\ r.status # "deleted" => r.deletedAt = None

\* A person removed by force leaves no active device behind, then or later
\* (deletePerson cascades, createPeerInState refuses a missing person).
NoDeviceWithoutPerson ==
    \A p \in PeerIds :
        peers[p].status = "active" /\ peers[p].personId # None
            => PersonExists(peers[p].personId)

\* A peer only moves forward: active, revoked, deleted.  A deleted record
\* is never touched again and a revoked peer never becomes active, whatever
\* operation comes later; identity and owner are fixed at creation.
LifecycleForward ==
    [][\A p \in PeerIds :
         /\ peers[p].status = "deleted" => peers'[p] = peers[p]
         /\ peers[p].status = "revoked"
                => peers'[p].status \in {"revoked", "deleted"}
         /\ peers[p].status # "absent" =>
                /\ peers'[p].status # "absent"
                /\ peers'[p].name = peers[p].name
                /\ peers'[p].publicKey = peers[p].publicKey
                /\ peers'[p].privateKey = peers[p].privateKey
                /\ peers'[p].addressV4 = peers[p].addressV4
                /\ peers'[p].personId = peers[p].personId]_vars

\* The event e says what has become of p.
Tells(e, p, record) ==
    \/ record.status = "active" /\ e.action = "peer.created" /\ e.target = p
    \/ record.status = "deleted" /\ e.action = "peer.deleted" /\ e.target = p
    \/ /\ record.status = "revoked"
       /\ \/ e.action = "peer.revoked" /\ e.target = p
          \/ e.action = "person.device.removed" /\ e.peer = p
          \/ e.action = "person.devices.revoked" /\ e.target = record.personId

\* No status of a peer changes silently: the operation that changes it also
\* appends the event that says so, one for every device of a cascade but for
\* revokePersonDevices, whose one event names the owner.
TransitionsAudited ==
    [][\A p \in PeerIds :
         peers'[p].status # peers[p].status =>
             \E e \in emitted' : Tells(e, p, peers'[p])]_vars

\* However often /v1/status and /v1/expiring are polled, and whatever comes
\* between, two events peer.expiring.warned for a peer are more than
\* RewarnAfter apart, although what was emitted is not looked at, only the
\* record of it, which some of the sweeps drop.
WarningsSpaced ==
    [][\A p \in PeerIds :
         Warns(p) /\ alerted[p] # None => now - alerted[p] > RewarnAfter]_vars

=============================================================================
