--------------------------- MODULE RegistryProofs ---------------------------
(***************************************************************************)
(* Theorems about Registry, for every set of identifiers, names and keys,  *)
(* every tunnel network and every bound.                                   *)
(***************************************************************************)
EXTENDS Registry, FiniteSetTheorems, WellFoundedInduction, TLAPS

\* The inductive invariant: type correctness and the safety invariants that
\* a step needs to preserve one another.
IInv ==
    /\ TypeOK
    /\ UniqueIdentity
    /\ AddressInPool
    /\ LifecycleCoherent
    /\ NoDeviceWithoutPerson

-----------------------------------------------------------------------------
\* A nonempty set of natural numbers has a least element: intervals 0..n
\* ordered by strict inclusion are well founded.
LEMMA LeastNatural ==
    ASSUME NEW S \in SUBSET Nat, S # {}
    PROVE  \E a \in S : \A b \in S : a <= b
<1> DEFINE Upto(n) == 0 .. n
           T == {Upto(n) : n \in S}
<1>1. T \in SUBSET FiniteSubsetsOf(Nat)
  <2> SUFFICES ASSUME NEW n \in S
               PROVE  Upto(n) \in FiniteSubsetsOf(Nat)
    OBVIOUS
  <2>1. Upto(n) \in SUBSET Nat
    OBVIOUS
  <2>2. IsFiniteSet(Upto(n))
    BY FS_Interval, 0 \in Int, n \in Int
  <2> QED
    BY <2>1, <2>2 DEF FiniteSubsetsOf
<1>2. T # {}
  OBVIOUS
<1>3. \E x \in T : \A y \in T : ~ (<<y, x>> \in StrictSubsetOrdering(Nat))
  <2> HIDE DEF T
  <2> QED
    BY <1>1, <1>2, FS_StrictSubsetOrderingWellFounded, WFMin
<1>4. PICK a \in S : \A y \in T : ~ (<<y, Upto(a)>> \in StrictSubsetOrdering(Nat))
  BY <1>3
<1>5. \A b \in S : a <= b
  <2> SUFFICES ASSUME NEW b \in S, b < a
               PROVE  FALSE
    OBVIOUS
  <2>1. Upto(b) \subseteq Upto(a) /\ Upto(b) # Upto(a)
    OBVIOUS
  <2>2. <<Upto(b), Upto(a)>> \in StrictSubsetOrdering(Nat)
    BY <2>1, SMT DEF StrictSubsetOrdering
  <2> QED
    BY <1>4, <2>2
<1> QED
  BY <1>5

\* The address allocatePeerAddress returns is free, lies inside the pool
\* and is the lowest such address.
LEMMA AllocatedAddressIsFree ==
    ASSUME FreeAddresses # {}
    PROVE  /\ AllocatePeerAddress \in FreeAddresses
           /\ AllocatePeerAddress \in FirstHost + 1 .. LastHost
           /\ \A q \in Live : peers[q].addressV4 # AllocatePeerAddress
<1>1. FreeAddresses \in SUBSET Nat
  BY RegistryAssumption DEF FreeAddresses
<1>2. \E a \in FreeAddresses : \A b \in FreeAddresses : a <= b
  BY <1>1, LeastNatural
<1>3. AllocatePeerAddress \in FreeAddresses
  BY <1>2 DEF AllocatePeerAddress
<1> QED
  BY <1>3, RegistryAssumption DEF FreeAddresses

-----------------------------------------------------------------------------
LEMMA InitTypeOK == Init => TypeOK
BY RegistryAssumption
   DEF Init, TypeOK, NoPeer, PeerRecord, PeerStatus, PersonStatus, Times

\* OrElse of an optional time is a time once the default is one.
LEMMA OrElseTime ==
    ASSUME NEW x \in Times \cup {None}, NEW t \in Times
    PROVE  /\ OrElse(x, t) \in Times
           /\ x # None => OrElse(x, t) = x
           /\ x = None => OrElse(x, t) = t
BY RegistryAssumption DEF OrElse, Times

\* Revoking or deleting a record keeps who it is and where it lives.
SameIdentity(r, s) ==
    /\ s.name = r.name
    /\ s.publicKey = r.publicKey
    /\ s.privateKey = r.privateKey
    /\ s.addressV4 = r.addressV4
    /\ s.personId = r.personId
    /\ s.expiresAt = r.expiresAt

LEMMA RevokedRecord ==
    ASSUME NEW r \in PeerRecord, NEW t \in Times
    PROVE  /\ Revoked(r, t) \in PeerRecord
           /\ SameIdentity(r, Revoked(r, t))
           /\ Revoked(r, t).status = "revoked"
           /\ Revoked(r, t).revokedAt = t
           /\ Revoked(r, t).deletedAt = r.deletedAt
BY DEF Revoked, PeerRecord, PeerStatus, SameIdentity

LEMMA DeletedRecord ==
    ASSUME NEW r \in PeerRecord, NEW t \in Times
    PROVE  /\ Deleted(r, t) \in PeerRecord
           /\ SameIdentity(r, Deleted(r, t))
           /\ Deleted(r, t).status = "deleted"
           /\ Deleted(r, t).revokedAt = OrElse(r.revokedAt, t)
           /\ Deleted(r, t).deletedAt = t
<1>1. OrElse(r.revokedAt, t) \in Times
  BY OrElseTime DEF PeerRecord
<1> QED
  BY <1>1 DEF Deleted, PeerRecord, PeerStatus, SameIdentity

\* What each operation emits is an audit event.
LEMMA EventTypes ==
    ASSUME NEW r \in Nat
    PROVE  /\ \A a \in PeerActions, p \in PeerIds :
                 AppendEvent(a, p, r) \in AuditEvents
           /\ \A a \in PersonActions, o \in PersonIds :
                 AppendEvent(a, o, r) \in AuditEvents
           /\ \A a \in DeviceActions, p \in PeerIds, o \in PersonIds :
                 DeviceEvent(a, p, o, r) \in AuditEvents
           /\ AppendEvent("reconcile.completed", None, r) \in AuditEvents
BY DEF AppendEvent, DeviceEvent, AuditEvents

LEMMA BumpType ==
    ASSUME revision \in 1..MaxRevision, BumpRevision
    PROVE  revision' \in 1..MaxRevision /\ revision' \in Nat /\ revision \in Nat
BY RegistryAssumption DEF BumpRevision

LEMMA CreatePeerType ==
    ASSUME TypeOK, alerted' \in [PeerIds -> Times \cup {None}],
           NEW p \in PeerIds, NEW name \in Names,
           NEW key \in SendableKeys \cup {None}, NEW generate \in BOOLEAN,
           NEW person \in PersonIds \cup {None},
           NEW expires \in ExpiryTimes \cup {None},
           CreatePeer(p, name, key, generate, person, expires)
    PROVE  TypeOK'
<1>1. AllocatePeerAddress \in Nat
  BY AllocatedAddressIsFree, RegistryAssumption DEF CreatePeer
<1>2. key \in Keys \cup {None}
  BY DEF SendableKeys, Keys
<1>3. peers' \in [PeerIds -> PeerRecord]
  BY <1>1, <1>2 DEF CreatePeer, TypeOK, PeerRecord, PeerStatus, Keys
<1>4. revision' \in 1..MaxRevision /\ revision' \in Nat
  BY BumpType DEF CreatePeer, TypeOK
<1>5. emitted' \subseteq AuditEvents
  <2>1. AppendEvent("peer.created", p, revision') \in AuditEvents
    BY <1>4, EventTypes DEF PeerActions
  <2>2. \A o \in {person} \ {None} :
           DeviceEvent("person.device.added", p, o, revision') \in AuditEvents
    BY <1>4, EventTypes DEF DeviceActions
  <2> QED
    BY <2>1, <2>2 DEF CreatePeer
<1> QED
  BY <1>3, <1>4, <1>5 DEF CreatePeer, TypeOK

LEMMA DeletePeerType ==
    ASSUME TypeOK, alerted' \in [PeerIds -> Times \cup {None}],
           NEW p \in PeerIds, DeletePeer(p)
    PROVE  TypeOK'
<1>1. peers' \in [PeerIds -> PeerRecord]
  BY DeletedRecord DEF DeletePeer, TypeOK
<1>2. revision' \in 1..MaxRevision /\ revision' \in Nat
  BY BumpType DEF DeletePeer, TypeOK
<1>3. emitted' \subseteq AuditEvents
  BY <1>2, EventTypes DEF DeletePeer, PeerActions
<1> QED
  BY <1>1, <1>2, <1>3 DEF DeletePeer, TypeOK

LEMMA RevokePeerType ==
    ASSUME TypeOK, alerted' \in [PeerIds -> Times \cup {None}],
           NEW p \in PeerIds, RevokePeer(p)
    PROVE  TypeOK'
<1>1. peers' \in [PeerIds -> PeerRecord]
  BY RevokedRecord DEF RevokePeer, TypeOK
<1>2. revision' \in 1..MaxRevision /\ revision' \in Nat
  BY BumpType DEF RevokePeer, TypeOK
<1>3. emitted' \subseteq AuditEvents
  BY <1>2, EventTypes DEF RevokePeer, PeerActions
<1> QED
  BY <1>1, <1>2, <1>3 DEF RevokePeer, TypeOK

LEMMA SweepExpiredType ==
    ASSUME TypeOK, alerted' \in [PeerIds -> Times \cup {None}],
           NEW autoRevoke \in BOOLEAN, NEW window \in WarnWindows,
             SweepExpired(autoRevoke, window)
    PROVE  TypeOK'
<1>1. peers' \in [PeerIds -> PeerRecord]
  BY RevokedRecord DEF SweepExpired, TypeOK
<1>2. warned' \in [PeerIds -> Times \cup {None}]
  BY DEF SweepExpired, WarnedNext, TypeOK
<1>3. emitted' \subseteq AuditEvents
  <2>1. revision \in Nat
    BY RegistryAssumption DEF TypeOK
  <2>2. \A a \in PeerActions, q \in PeerIds :
           AppendEvent(a, q, revision) \in AuditEvents
    BY <2>1, EventTypes
  <2> QED
    BY <2>2 DEF SweepExpired, Expiring, PeerActions
<1> QED
  BY <1>1, <1>2, <1>3 DEF SweepExpired, TypeOK

LEMMA PersonStepType ==
    ASSUME TypeOK, alerted' \in [PeerIds -> Times \cup {None}],
           PersonNext
    PROVE  TypeOK'
<1>1. CASE \E o \in PersonIds : CreatePerson(o)
  <2>1. PICK o \in PersonIds : CreatePerson(o)
    BY <1>1
  <2>2. revision' \in 1..MaxRevision /\ revision' \in Nat
    BY <2>1, BumpType DEF CreatePerson, TypeOK
  <2> QED
    BY <2>1, <2>2, EventTypes
       DEF CreatePerson, TypeOK, PersonStatus, PersonActions
<1>2. CASE \E o \in PersonIds, s \in {"active", "archived", None} : UpdatePerson(o, s)
  <2>1. PICK o \in PersonIds, s \in {"active", "archived", None} : UpdatePerson(o, s)
    BY <1>2
  <2>2. revision' \in 1..MaxRevision /\ revision' \in Nat
    BY <2>1, BumpType DEF UpdatePerson, TypeOK
  <2>3. persons' \in [PersonIds -> PersonStatus]
    BY <2>1 DEF UpdatePerson, TypeOK, PersonStatus, OrElse
  <2> QED
    BY <2>1, <2>2, <2>3, EventTypes
       DEF UpdatePerson, TypeOK, PersonActions, ArchivedEvent
<1>3. CASE \E o \in PersonIds : ArchivePerson(o)
  <2>1. PICK o \in PersonIds : ArchivePerson(o)
    BY <1>3
  <2>2. revision' \in 1..MaxRevision /\ revision' \in Nat
    BY <2>1, BumpType DEF ArchivePerson, TypeOK
  <2> QED
    BY <2>1, <2>2, EventTypes
       DEF ArchivePerson, TypeOK, PersonStatus, PersonActions, ArchivedEvent
<1>4. CASE \E o \in PersonIds : RemovePerson(o)
  <2>1. PICK o \in PersonIds : RemovePerson(o)
    BY <1>4
  <2>2. revision' \in 1..MaxRevision /\ revision' \in Nat /\ revision \in Nat
    BY <2>1, BumpType DEF RemovePerson, TypeOK
  <2>3. peers' \in [PeerIds -> PeerRecord]
    <3>1. \A p \in PeerIds : OrElse(peers[p].revokedAt, now) \in Times
      BY OrElseTime DEF TypeOK, PeerRecord
    <3> QED
      BY <2>1, <3>1, RevokedRecord DEF RemovePerson, TypeOK
  <2>4. emitted' \subseteq AuditEvents
    <3>1. ActiveDevices(o) \subseteq PeerIds
      BY DEF ActiveDevices
    <3>2. \A p \in ActiveDevices(o) :
             DeviceEvent("person.device.removed", p, o, revision) \in AuditEvents
      BY <2>2, <3>1, EventTypes DEF DeviceActions
    <3>3. AppendEvent("person.deleted", o, revision') \in AuditEvents
      BY <2>2, EventTypes DEF PersonActions
    <3> QED
      BY <2>1, <3>2, <3>3 DEF RemovePerson
  <2> QED
    BY <2>1, <2>2, <2>3, <2>4 DEF RemovePerson, TypeOK, PersonStatus
<1>5. CASE \E o \in PersonIds : RevokePersonDevices(o)
  <2>1. PICK o \in PersonIds : RevokePersonDevices(o)
    BY <1>5
  <2>2. revision' \in 1..MaxRevision /\ revision' \in Nat
    BY <2>1, BumpType DEF RevokePersonDevices, TypeOK
  <2>3. peers' \in [PeerIds -> PeerRecord]
    BY <2>1, RevokedRecord DEF RevokePersonDevices, TypeOK
  <2>4. emitted' \subseteq AuditEvents
    BY <2>1, <2>2, EventTypes DEF RevokePersonDevices, PersonActions
  <2> QED
    BY <2>1, <2>2, <2>3, <2>4 DEF RevokePersonDevices, TypeOK
<1> QED
  BY <1>1, <1>2, <1>3, <1>4, <1>5 DEF PersonNext

LEMMA StepTypeOK == TypeOK /\ [Next]_vars => TypeOK'
<1> SUFFICES ASSUME TypeOK, [Next]_vars
             PROVE  TypeOK'
  OBVIOUS
<1>0. alerted' \in [PeerIds -> Times \cup {None}]
  BY DEF Next, WatchWarnings, TypeOK, vars
<1>1. CASE Tick
  BY <1>0, <1>1, RegistryAssumption DEF Tick, TypeOK, Times
<1>2. CASE PeerNext
  <2>1. ASSUME NEW p \in PeerIds, ExportConfig(p)
        PROVE  TypeOK'
    <3>1. AppendEvent("peer.config.exported", p, revision) \in AuditEvents
      BY EventTypes, RegistryAssumption DEF TypeOK, PeerActions
    <3> QED
      BY <1>0, <2>1, <3>1 DEF ExportConfig, TypeOK
  <2> QED
    BY <1>0, <1>2, <2>1, CreatePeerType, DeletePeerType, RevokePeerType,
       SweepExpiredType DEF PeerNext
<1>3. CASE PersonNext
  BY <1>0, <1>3, PersonStepType
<1>4. CASE RecordReconcile
  <2>1. revision' \in 1..MaxRevision /\ revision' \in Nat
    BY <1>4, BumpType DEF RecordReconcile, TypeOK
  <2> QED
    BY <1>0, <1>4, <2>1, EventTypes DEF RecordReconcile, TypeOK
<1>5. CASE UNCHANGED vars
  BY <1>5 DEF vars, TypeOK
<1> QED
  BY <1>1, <1>2, <1>3, <1>4, <1>5 DEF Next

\* state.json always holds well-typed records, whatever the requests are.
THEOREM TypeCorrect == Spec => []TypeOK
<1>1. Init => TypeOK
  BY InitTypeOK
<1>2. TypeOK /\ [Next]_vars => TypeOK'
  BY StepTypeOK
<1> QED
  BY <1>1, <1>2, PTL DEF Spec

-----------------------------------------------------------------------------
(***************************************************************************)
(* What a step does to the peer records: nothing, create one, or move some *)
(* of the live ones forward at the current time.  The invariants below     *)
(* follow from this shape without looking at the operations again.         *)
(***************************************************************************)
Advanced(r, s) ==
    /\ r.status \in {"active", "revoked"}
    /\ s.status \in {"revoked", "deleted"}
    /\ SameIdentity(r, s)
    /\ s.revokedAt \in {now, r.revokedAt} \ {None}
    /\ s.deletedAt = IF s.status = "deleted" THEN now ELSE r.deletedAt

Created(p) ==
    /\ peers[p].status = "absent"
    /\ peers' = [peers EXCEPT ![p] = peers'[p]]
    /\ peers'[p].status = "active"
    /\ peers'[p].revokedAt = None
    /\ peers'[p].deletedAt = None
    /\ peers'[p].addressV4 \in FirstHost + 1 .. LastHost
    /\ peers'[p].personId # None => persons[peers'[p].personId] = "active"
    /\ \A q \in Live :
          /\ peers[q].addressV4 # peers'[p].addressV4
          /\ peers[q].publicKey # peers'[p].publicKey
          /\ peers[q].name # peers'[p].name

SomeAdvance ==
    \A p \in PeerIds : peers'[p] = peers[p] \/ Advanced(peers[p], peers'[p])

LEMMA CreateShape ==
    ASSUME TypeOK, NEW p \in PeerIds, NEW name \in Names,
           NEW key \in SendableKeys \cup {None}, NEW generate \in BOOLEAN,
           NEW person \in PersonIds \cup {None},
           NEW expires \in ExpiryTimes \cup {None},
           CreatePeer(p, name, key, generate, person, expires)
    PROVE  Created(p) /\ UNCHANGED <<persons, now>>
<1>1. /\ AllocatePeerAddress \in FirstHost + 1 .. LastHost
      /\ \A q \in Live : peers[q].addressV4 # AllocatePeerAddress
  BY AllocatedAddressIsFree DEF CreatePeer
<1>2. peers \in [PeerIds -> PeerRecord]
  BY DEF TypeOK
<1> QED
  BY <1>1, <1>2 DEF CreatePeer, Created

\* Times are never None.
LEMMA NowIsATime == TypeOK => now \in Times /\ now # None
BY RegistryAssumption DEF TypeOK, Times

LEMMA RevokeAllShape ==
    ASSUME TypeOK, NEW S \in SUBSET PeerIds, NEW at \in [PeerIds -> Times],
           \A p \in S : /\ peers[p].status \in {"active", "revoked"}
                        /\ at[p] \in {now, peers[p].revokedAt} \ {None},
           peers' = [p \in PeerIds |->
                       IF p \in S THEN Revoked(peers[p], at[p]) ELSE peers[p]]
    PROVE  SomeAdvance
BY RevokedRecord DEF TypeOK, SomeAdvance, Advanced

LEMMA PeerStepShape ==
    ASSUME TypeOK, PeerNext
    PROVE  /\ (\E p \in PeerIds : Created(p)) \/ SomeAdvance
           /\ UNCHANGED <<persons, now>>
<1>1. ASSUME NEW p \in PeerIds, DeletePeer(p)
      PROVE  SomeAdvance /\ UNCHANGED <<persons, now>>
  <2>1. peers[p] \in PeerRecord /\ now \in Times /\ now # None
    BY NowIsATime DEF TypeOK
  <2>2. OrElse(peers[p].revokedAt, now) \in {now, peers[p].revokedAt} \ {None}
    BY <2>1 DEF OrElse
  <2>3. Advanced(peers[p], Deleted(peers[p], now))
    BY <1>1, <2>1, <2>2, DeletedRecord DEF DeletePeer, Live, Advanced
  <2> QED
    BY <1>1, <2>3 DEF DeletePeer, TypeOK, SomeAdvance
<1>2. ASSUME NEW p \in PeerIds, RevokePeer(p)
      PROVE  SomeAdvance /\ UNCHANGED <<persons, now>>
  <2>1. Advanced(peers[p], Revoked(peers[p], now))
    BY <1>2, NowIsATime, RevokedRecord DEF RevokePeer, Live, Advanced, TypeOK
  <2> QED
    BY <1>2, <2>1 DEF RevokePeer, TypeOK, SomeAdvance
<1>3. ASSUME NEW autoRevoke \in BOOLEAN, NEW window \in WarnWindows,
             SweepExpired(autoRevoke, window)
      PROVE  SomeAdvance /\ UNCHANGED <<persons, now>>
  <2> DEFINE S == {p \in PeerIds : /\ autoRevoke
                                   /\ peers[p].status = "active" /\ Expired(p)}
             at == [p \in PeerIds |-> now]
  <2>1. peers' = [p \in PeerIds |->
                    IF p \in S THEN Revoked(peers[p], at[p]) ELSE peers[p]]
    BY <1>3 DEF SweepExpired
  <2>2. /\ S \in SUBSET PeerIds
        /\ at \in [PeerIds -> Times]
        /\ \A p \in S : /\ peers[p].status \in {"active", "revoked"}
                        /\ at[p] \in {now, peers[p].revokedAt} \ {None}
    BY NowIsATime
  <2>3. SomeAdvance
    <3> HIDE DEF S, at
    <3> QED
      BY <2>1, <2>2, RevokeAllShape
  <2> QED
    BY <1>3, <2>3 DEF SweepExpired
<1>4. ASSUME NEW p \in PeerIds, ExportConfig(p)
      PROVE  SomeAdvance /\ UNCHANGED <<persons, now>>
  BY <1>4 DEF ExportConfig, SomeAdvance
<1> QED
  BY <1>1, <1>2, <1>3, <1>4, CreateShape DEF PeerNext

LEMMA PersonStepShape ==
    ASSUME TypeOK, PersonNext
    PROVE  SomeAdvance /\ UNCHANGED now
<1>1. ASSUME NEW o \in PersonIds, RemovePerson(o)
      PROVE  SomeAdvance /\ UNCHANGED now
  <2> DEFINE S == ActiveDevices(o)
             at == [p \in PeerIds |-> OrElse(peers[p].revokedAt, now)]
  <2>1. peers' = [p \in PeerIds |->
                    IF p \in S THEN Revoked(peers[p], at[p]) ELSE peers[p]]
    BY <1>1 DEF RemovePerson, ActiveDevices
  <2>2. /\ S \in SUBSET PeerIds
        /\ \A p \in S : peers[p].status = "active"
    BY DEF ActiveDevices
  <2>3. /\ at \in [PeerIds -> Times]
        /\ \A p \in PeerIds : at[p] \in {now, peers[p].revokedAt} \ {None}
    BY NowIsATime, OrElseTime DEF TypeOK, PeerRecord, OrElse
  <2>4. SomeAdvance
    <3> HIDE DEF S, at
    <3> QED
      BY <2>1, <2>2, <2>3, RevokeAllShape
  <2> QED
    BY <1>1, <2>4 DEF RemovePerson
<1>2. ASSUME NEW o \in PersonIds, RevokePersonDevices(o)
      PROVE  SomeAdvance /\ UNCHANGED now
  <2> DEFINE S == ActiveDevices(o)
             at == [p \in PeerIds |-> now]
  <2>1. peers' = [p \in PeerIds |->
                    IF p \in S THEN Revoked(peers[p], at[p]) ELSE peers[p]]
    BY <1>2 DEF RevokePersonDevices, ActiveDevices
  <2>2. /\ S \in SUBSET PeerIds
        /\ at \in [PeerIds -> Times]
        /\ \A p \in S : /\ peers[p].status \in {"active", "revoked"}
                        /\ at[p] \in {now, peers[p].revokedAt} \ {None}
    BY NowIsATime DEF ActiveDevices
  <2>3. SomeAdvance
    <3> HIDE DEF S, at
    <3> QED
      BY <2>1, <2>2, RevokeAllShape
  <2> QED
    BY <1>2, <2>3 DEF RevokePersonDevices
<1> QED
  BY <1>1, <1>2
     DEF PersonNext, CreatePerson, UpdatePerson, ArchivePerson, SomeAdvance

LEMMA StepShape ==
    ASSUME TypeOK, [Next]_vars
    PROVE  /\ (\E p \in PeerIds : Created(p)) \/ SomeAdvance
           /\ now' \in Times /\ now <= now'
<1>1. now \in Times /\ Times \subseteq Nat
  BY RegistryAssumption DEF TypeOK, Times
<1>2. CASE Tick
  BY <1>1, <1>2, RegistryAssumption DEF Tick, SomeAdvance, Times
<1>3. CASE PeerNext
  BY <1>1, <1>3, PeerStepShape
<1>4. CASE PersonNext
  BY <1>1, <1>4, PersonStepShape
<1>5. CASE RecordReconcile \/ UNCHANGED vars
  BY <1>1, <1>5 DEF RecordReconcile, vars, SomeAdvance
<1> QED
  BY <1>2, <1>3, <1>4, <1>5 DEF Next

-----------------------------------------------------------------------------
LEMMA InitIInv == Init => IInv
BY InitTypeOK
   DEF Init, IInv, NoPeer, Live, UniqueIdentity, AddressInPool,
       LifecycleCoherent, NoDeviceWithoutPerson

LEMMA UniqueIdentityStep ==
    ASSUME TypeOK, UniqueIdentity, [Next]_vars
    PROVE  UniqueIdentity'
<1>1. CASE SomeAdvance
  <2>1. \A p \in Live' : p \in Live /\ SameIdentity(peers[p], peers'[p])
    BY <1>1 DEF SomeAdvance, Advanced, Live, SameIdentity
  <2> QED
    BY <2>1 DEF UniqueIdentity, SameIdentity
<1>2. ASSUME NEW p \in PeerIds, Created(p)
      PROVE  UniqueIdentity'
  <2>1. \A q \in Live' \ {p} : q \in Live /\ peers'[q] = peers[q]
    BY <1>2 DEF Created, Live, TypeOK
  <2>2. \A q \in Live' \ {p} :
           /\ peers'[q].addressV4 # peers'[p].addressV4
           /\ peers'[q].publicKey # peers'[p].publicKey
           /\ peers'[q].name # peers'[p].name
    BY <1>2, <2>1 DEF Created
  <2>3. \A q, r \in Live' \ {p} : q # r =>
           /\ peers'[q].addressV4 # peers'[r].addressV4
           /\ peers'[q].publicKey # peers'[r].publicKey
           /\ peers'[q].name # peers'[r].name
    BY <2>1 DEF UniqueIdentity
  <2> QED
    BY <2>2, <2>3 DEF UniqueIdentity
<1> QED
  BY <1>1, <1>2, StepShape

LEMMA AddressInPoolStep ==
    ASSUME TypeOK, AddressInPool, [Next]_vars
    PROVE  AddressInPool'
<1>1. CASE SomeAdvance
  BY <1>1 DEF SomeAdvance, Advanced, Live, SameIdentity, AddressInPool
<1>2. ASSUME NEW p \in PeerIds, Created(p)
      PROVE  AddressInPool'
  BY <1>2 DEF Created, Live, AddressInPool, TypeOK
<1> QED
  BY <1>1, <1>2, StepShape

LEMMA LifecycleCoherentStep ==
    ASSUME TypeOK, LifecycleCoherent, [Next]_vars
    PROVE  LifecycleCoherent'
<1>1. /\ now \in Nat /\ now' \in Nat /\ now <= now' /\ None \notin Nat
      /\ (\E p \in PeerIds : Created(p)) \/ SomeAdvance
  BY StepShape, RegistryAssumption DEF TypeOK, Times
<1> SUFFICES ASSUME NEW p \in PeerIds
             PROVE  LET r == peers'[p] IN
                    /\ r.status \in {"absent", "active"} => r.revokedAt = None
                    /\ r.status \in {"revoked", "deleted"} => r.revokedAt \in 0..now'
                    /\ r.status = "deleted" => r.deletedAt \in r.revokedAt..now'
                    /\ r.status # "deleted" => r.deletedAt = None
  BY DEF LifecycleCoherent
<1>2. CASE peers'[p] = peers[p]
  BY <1>1, <1>2 DEF LifecycleCoherent
<1>3. CASE Advanced(peers[p], peers'[p])
  <2>1. peers'[p].revokedAt \in 0..now
    BY <1>1, <1>3 DEF Advanced, LifecycleCoherent
  <2> QED
    BY <1>1, <1>3, <2>1 DEF Advanced, LifecycleCoherent
<1>4. CASE Created(p)
  BY <1>4 DEF Created
<1> QED
  BY <1>1, <1>2, <1>3, <1>4 DEF SomeAdvance, Created, TypeOK

LEMMA NoDeviceWithoutPersonStep ==
    ASSUME TypeOK, NoDeviceWithoutPerson, [Next]_vars
    PROVE  NoDeviceWithoutPerson'
<1> SUFFICES ASSUME NEW p \in PeerIds, peers'[p].status = "active",
                    peers'[p].personId # None
             PROVE  persons'[peers'[p].personId] \in {"active", "archived"}
  BY DEF NoDeviceWithoutPerson, PersonExists
<1>1. peers'[p] = peers[p] \/ Created(p)
  BY StepShape DEF SomeAdvance, Advanced, Created, TypeOK
<1>2. persons[peers'[p].personId] \in {"active", "archived"}
  BY <1>1 DEF NoDeviceWithoutPerson, Created, PersonExists
<1>3. CASE UNCHANGED persons
  BY <1>2, <1>3
<1>4. ASSUME NEW o \in PersonIds, RemovePerson(o)
      PROVE  persons'[peers'[p].personId] \in {"active", "archived"}
  <2>1. p \notin ActiveDevices(o)
    BY <1>4, RevokedRecord, OrElseTime
       DEF RemovePerson, TypeOK, PeerRecord, ActiveDevices
  <2>2. peers'[p] = peers[p]
    BY <1>4, <2>1 DEF RemovePerson
  <2>3. peers'[p].personId # o
    BY <2>1, <2>2 DEF ActiveDevices
  <2>4. peers'[p].personId \in PersonIds
    BY <2>2 DEF TypeOK, PeerRecord
  <2> QED
    BY <1>2, <1>4, <2>3, <2>4 DEF RemovePerson, TypeOK
<1>5. ASSUME NEW o \in PersonIds,
             \/ CreatePerson(o) \/ ArchivePerson(o)
             \/ \E s \in {"active", "archived", None} : UpdatePerson(o, s)
      PROVE  persons'[peers'[p].personId] \in {"active", "archived"}
  <2>1. \A q \in PersonIds \ {o} : persons'[q] = persons[q]
    BY <1>5 DEF CreatePerson, ArchivePerson, UpdatePerson, TypeOK
  <2>2. persons'[o] \in {"active", "archived"}
    BY <1>5 DEF CreatePerson, ArchivePerson, UpdatePerson, TypeOK, OrElse,
                PersonExists
  <2>3. peers'[p].personId \in PersonIds
    BY StepTypeOK DEF TypeOK, PeerRecord
  <2> QED
    BY <1>2, <2>1, <2>2, <2>3
<1>6. ASSUME NEW o \in PersonIds, RevokePersonDevices(o)
      PROVE  UNCHANGED persons
  BY <1>6 DEF RevokePersonDevices
<1>7. CASE PeerNext
  BY <1>3, <1>7, PeerStepShape
<1> QED
  BY <1>3, <1>4, <1>5, <1>6, <1>7
     DEF Next, PersonNext, Tick, RecordReconcile, vars

THEOREM InductiveInvariant == Spec => []IInv
<1>1. Init => IInv
  BY InitIInv
<1>2. IInv /\ [Next]_vars => IInv'
  BY StepTypeOK, UniqueIdentityStep, AddressInPoolStep, LifecycleCoherentStep,
     NoDeviceWithoutPersonStep DEF IInv
<1> QED
  BY <1>1, <1>2, PTL DEF Spec

\* No two peers that are not deleted ever share an address, a key or a name.
THEOREM IdentityIsUnique == Spec => []UniqueIdentity
<1>1. IInv => UniqueIdentity
  BY DEF IInv
<1> QED
  BY <1>1, InductiveInvariant, PTL

\* Live peers' addresses stay inside the tunnel network, off the server's.
THEOREM AddressesStayInPool == Spec => []AddressInPool
<1>1. IInv => AddressInPool
  BY DEF IInv
<1> QED
  BY <1>1, InductiveInvariant, PTL

\* Status, revocation and deletion times always agree.
THEOREM LifecycleIsCoherent == Spec => []LifecycleCoherent
<1>1. IInv => LifecycleCoherent
  BY DEF IInv
<1> QED
  BY <1>1, InductiveInvariant, PTL

\* A forced person removal leaves no active device, then or later.
THEOREM RemovalRevokesDevices == Spec => []NoDeviceWithoutPerson
<1>1. IInv => NoDeviceWithoutPerson
  BY DEF IInv
<1> QED
  BY <1>1, InductiveInvariant, PTL

\* A peer's record only moves forward and its identity never changes.
THEOREM PeersMoveForward == Spec => LifecycleForward
<1> DEFINE Forward ==
      \A p \in PeerIds :
         /\ peers[p].status = "deleted" => peers'[p] = peers[p]
         /\ peers[p].status = "revoked"
                => peers'[p].status \in {"revoked", "deleted"}
         /\ peers[p].status # "absent" =>
                /\ peers'[p].status # "absent"
                /\ peers'[p].name = peers[p].name
                /\ peers'[p].publicKey = peers[p].publicKey
                /\ peers'[p].privateKey = peers[p].privateKey
                /\ peers'[p].addressV4 = peers[p].addressV4
                /\ peers'[p].personId = peers[p].personId
<1>1. TypeOK /\ [Next]_vars => [Forward]_vars
  <2> SUFFICES ASSUME TypeOK, [Next]_vars
               PROVE  Forward
    OBVIOUS
  <2>1. \A p \in PeerIds : \/ peers'[p] = peers[p]
                           \/ Advanced(peers[p], peers'[p])
                           \/ peers[p].status = "absent"
    BY StepShape DEF SomeAdvance, Created, TypeOK
  <2> QED
    BY <2>1 DEF Advanced, SameIdentity
<1> QED
  BY <1>1, TypeCorrect, PTL DEF Spec, LifecycleForward

-----------------------------------------------------------------------------
(***************************************************************************)
(* Warnings.  The record a sweep goes by is that of the last warning that  *)
(* was emitted, for every peer that can still be warned of.                *)
(***************************************************************************)
RecordInv ==
    \A p \in PeerIds :
        peers[p].status \in {"absent", "active"} => warned[p] = alerted[p]

Sweeps ==
    \E autoRevoke \in BOOLEAN, window \in WarnWindows : SweepExpired(autoRevoke, window)

\* What a step other than a sweep emits is no warning, and it leaves the
\* record alone.
LEMMA OthersDoNotWarn ==
    ASSUME TypeOK, [Next]_vars, NEW p \in PeerIds, ~Sweeps
    PROVE  UNCHANGED warned /\ (~Warns(p) \/ UNCHANGED vars)
<1>1. CASE PeerNext
  BY <1>1 DEF Sweeps, PeerNext, CreatePeer, DeletePeer, RevokePeer, ExportConfig, Warns,
              AppendEvent, DeviceEvent
<1>2. CASE PersonNext
  BY <1>2 DEF PersonNext, CreatePerson, UpdatePerson, ArchivePerson, RemovePerson,
              RevokePersonDevices, Warns, AppendEvent, DeviceEvent, ArchivedEvent
<1> QED
  BY <1>1, <1>2 DEF Next, Tick, RecordReconcile, vars, Warns, AppendEvent

LEMMA SweepWarns ==
    ASSUME TypeOK, NEW p \in PeerIds, NEW autoRevoke \in BOOLEAN,
           NEW window \in WarnWindows, SweepExpired(autoRevoke, window)
    PROVE  /\ Warns(p) => IsPeerActive(p) /\ WarningDue(p) /\ warned'[p] = now
           /\ ~Warns(p) /\ peers'[p].status \in {"absent", "active"}
                 => warned'[p] = warned[p]
<1> DEFINE expired == {q \in PeerIds : peers[q].status = "active" /\ Expired(q)}
           toWarn == {q \in Expiring(window) : WarningDue(q)}
           revoked == IF autoRevoke THEN expired ELSE {}
<1>1. /\ peers' = [q \in PeerIds |->
              IF q \in revoked THEN Revoked(peers[q], now) ELSE peers[q]]
      /\ warned' = WarnedNext(revoked, toWarn)
  BY DEF SweepExpired
<1>2. Warns(p) <=> p \in toWarn
  <2>1. emitted' = {AppendEvent("peer.expiring.warned", q, revision) : q \in toWarn}
                   \cup (IF autoRevoke
                         THEN {AppendEvent("peer.expired.auto_revoked", q, revision) :
                                 q \in expired}
                              \cup {AppendEvent("peer.revoked", q, revision) :
                                      q \in expired}
                         ELSE {AppendEvent("peer.expired.warned", q, revision) :
                                 q \in expired})
    BY DEF SweepExpired
  <2> HIDE DEF expired, toWarn, revoked
  <2>2. \A e \in emitted' : e.action = "peer.expiring.warned" =>
             \E q \in toWarn : e = AppendEvent("peer.expiring.warned", q, revision)
    BY <2>1 DEF AppendEvent
  <2>3. \A q \in toWarn : AppendEvent("peer.expiring.warned", q, revision) \in emitted'
    BY <2>1
  <2>4. \A q : /\ AppendEvent("peer.expiring.warned", q, revision).target = q
               /\ AppendEvent("peer.expiring.warned", q, revision).action
                     = "peer.expiring.warned"
    BY DEF AppendEvent
  <2>5. Warns(p) => p \in toWarn
    BY <2>2, <2>4 DEF Warns
  <2>6. p \in toWarn => Warns(p)
    BY <2>3, <2>4 DEF Warns
  <2> QED
    BY <2>5, <2>6
<1>3. p \in toWarn => IsPeerActive(p) /\ WarningDue(p) /\ p \notin revoked
  BY DEF Expiring, IsPeerActive
<1>4. p \in revoked => peers'[p].status = "revoked"
  BY <1>1, RevokedRecord DEF TypeOK
<1>5. warned'[p] = IF p \in revoked THEN None
                   ELSE IF p \in toWarn THEN now ELSE warned[p]
  BY <1>1 DEF WarnedNext
<1> HIDE DEF expired, toWarn, revoked
<1> QED
  BY <1>2, <1>3, <1>4, <1>5

LEMMA RecordStep ==
    ASSUME TypeOK, RecordInv, [Next]_vars
    PROVE  RecordInv'
<1> SUFFICES ASSUME NEW p \in PeerIds, peers'[p].status \in {"absent", "active"}
             PROVE  warned'[p] = alerted'[p]
  BY DEF RecordInv
<1>1. warned[p] = alerted[p]
  <2>1. peers[p].status \in {"absent", "active"}
    BY StepShape DEF Created, SomeAdvance, Advanced, TypeOK
  <2> QED
    BY <2>1 DEF RecordInv
<1>2. CASE UNCHANGED vars
  BY <1>1, <1>2 DEF vars
<1>3. CASE Next
  <2>1. alerted'[p] = IF Warns(p) THEN now ELSE alerted[p]
    BY <1>3 DEF Next, WatchWarnings
  <2>2. CASE Sweeps
    BY <1>1, <2>1, <2>2, SweepWarns DEF Sweeps
  <2>3. CASE ~Sweeps
    BY <1>1, <1>2, <2>1, <2>3, OthersDoNotWarn
  <2> QED
    BY <2>2, <2>3
<1> QED
  BY <1>2, <1>3

\* Between two events peer.expiring.warned for a peer lies more than
\* RewarnAfter, in any history of sweeps with any windows and everything else.
THEOREM WarningsAreSpaced == Spec => WarningsSpaced
<1> DEFINE Spaced ==
      \A p \in PeerIds :
         Warns(p) /\ alerted[p] # None => now - alerted[p] > RewarnAfter
<1>1. Init => RecordInv
  BY DEF Init, RecordInv
<1>2. TypeOK /\ RecordInv /\ [Next]_vars => RecordInv'
  BY RecordStep
<1>3. TypeOK /\ RecordInv /\ [Next]_vars => [Spaced]_vars
  <2> SUFFICES ASSUME TypeOK, RecordInv, [Next]_vars, ~UNCHANGED vars,
                      NEW p \in PeerIds, Warns(p), alerted[p] # None
               PROVE  now - alerted[p] > RewarnAfter
    OBVIOUS
  <2>1. PICK autoRevoke \in BOOLEAN, window \in WarnWindows :
               SweepExpired(autoRevoke, window)
    BY OthersDoNotWarn DEF Sweeps
  <2>2. IsPeerActive(p) /\ WarningDue(p)
    BY <2>1, SweepWarns
  <2>3. warned[p] = alerted[p]
    BY <2>2 DEF RecordInv, IsPeerActive
  <2> QED
    BY <2>2, <2>3 DEF WarningDue
<1> QED
  BY <1>1, <1>2, <1>3, TypeCorrect, PTL DEF Spec, WarningsSpaced

-----------------------------------------------------------------------------
\* Whatever changes a peer's status appends the event that says so, for each
\* device of a cascade.
THEOREM TransitionsAreAudited == Spec => TransitionsAudited
<1> DEFINE Told(p) ==
      peers'[p].status # peers[p].status => \E e \in emitted' : Tells(e, p, peers'[p])
<1>1. TypeOK /\ [Next]_vars => [\A p \in PeerIds : Told(p)]_vars
  <2> SUFFICES ASSUME TypeOK, [Next]_vars, NEW p \in PeerIds,
                      peers'[p].status # peers[p].status
               PROVE  \E e \in emitted' : Tells(e, p, peers'[p])
    OBVIOUS
  <2>0. peers[p] \in PeerRecord /\ now \in Times
    BY DEF TypeOK
  <2>1. ASSUME NEW q \in PeerIds,
               NEW name \in Names, NEW key \in SendableKeys \cup {None},
               NEW generate \in BOOLEAN, NEW person \in PersonIds \cup {None},
               NEW expires \in ExpiryTimes \cup {None},
               CreatePeer(q, name, key, generate, person, expires)
        PROVE  \E e \in emitted' : Tells(e, p, peers'[p])
    <3>1. AppendEvent("peer.created", q, revision') \in emitted'
      BY <2>1 DEF CreatePeer
    <3>2. q = p /\ peers'[q].status = "active"
      BY <2>1 DEF CreatePeer, TypeOK
    <3> QED
      BY <3>1, <3>2 DEF AppendEvent, Tells
  <2>2. ASSUME NEW q \in PeerIds, DeletePeer(q)
        PROVE  \E e \in emitted' : Tells(e, p, peers'[p])
    <3>1. AppendEvent("peer.deleted", q, revision') \in emitted'
      BY <2>2 DEF DeletePeer
    <3>2. q = p /\ peers'[q] = Deleted(peers[q], now)
      BY <2>2 DEF DeletePeer, TypeOK
    <3>3. peers'[p].status = "deleted"
      BY <2>0, <3>2, DeletedRecord
    <3> QED
      BY <3>1, <3>2, <3>3 DEF AppendEvent, Tells
  <2>3. ASSUME NEW q \in PeerIds, RevokePeer(q)
        PROVE  \E e \in emitted' : Tells(e, p, peers'[p])
    <3>1. AppendEvent("peer.revoked", q, revision') \in emitted'
      BY <2>3 DEF RevokePeer
    <3>2. q = p /\ peers'[q] = Revoked(peers[q], now)
      BY <2>3 DEF RevokePeer, TypeOK
    <3>3. peers'[p].status = "revoked"
      BY <2>0, <3>2, RevokedRecord
    <3> QED
      BY <3>1, <3>2, <3>3 DEF AppendEvent, Tells
  <2>4. ASSUME NEW autoRevoke \in BOOLEAN, NEW window \in WarnWindows,
               SweepExpired(autoRevoke, window)
        PROVE  \E e \in emitted' : Tells(e, p, peers'[p])
    <3>1. AppendEvent("peer.revoked", p, revision) \in emitted'
      BY <2>4 DEF SweepExpired
    <3>2. peers'[p] = Revoked(peers[p], now)
      BY <2>4 DEF SweepExpired
    <3>3. peers'[p].status = "revoked"
      BY <2>0, <3>2, RevokedRecord
    <3> QED
      BY <3>1, <3>3 DEF AppendEvent, Tells
  <2>5. ASSUME NEW o \in PersonIds, RemovePerson(o)
        PROVE  \E e \in emitted' : Tells(e, p, peers'[p])
    <3>1. /\ p \in ActiveDevices(o)
          /\ peers'[p] = Revoked(peers[p], OrElse(peers[p].revokedAt, now))
      BY <2>5 DEF RemovePerson
    <3>2. OrElse(peers[p].revokedAt, now) \in Times
      BY <2>0, OrElseTime DEF PeerRecord
    <3>3. peers'[p].status = "revoked"
      BY <2>0, <3>1, <3>2, RevokedRecord
    <3>4. DeviceEvent("person.device.removed", p, o, revision) \in emitted'
      BY <2>5, <3>1 DEF RemovePerson
    <3> QED
      BY <3>3, <3>4 DEF DeviceEvent, Tells
  <2>6. ASSUME NEW o \in PersonIds, RevokePersonDevices(o)
        PROVE  \E e \in emitted' : Tells(e, p, peers'[p])
    <3>1. /\ p \in ActiveDevices(o)
          /\ peers'[p] = Revoked(peers[p], now)
      BY <2>6 DEF RevokePersonDevices
    <3>2. peers'[p].status = "revoked" /\ peers'[p].personId = o
      BY <2>0, <3>1, RevokedRecord DEF ActiveDevices, SameIdentity
    <3>3. AppendEvent("person.devices.revoked", o, revision') \in emitted'
      BY <2>6 DEF RevokePersonDevices
    <3> QED
      BY <3>2, <3>3 DEF AppendEvent, Tells
  <2>7. peers' # peers
    OBVIOUS
  <2>8. CASE PeerNext
    BY <2>1, <2>2, <2>3, <2>4, <2>7, <2>8 DEF PeerNext, ExportConfig
  <2>9. CASE PersonNext
    BY <2>5, <2>6, <2>7, <2>9 DEF PersonNext, CreatePerson, UpdatePerson, ArchivePerson
  <2> QED
    BY <2>7, <2>8, <2>9 DEF Next, Tick, RecordReconcile, vars
<1> QED
  BY <1>1, TypeCorrect, PTL DEF Spec, TransitionsAudited

-----------------------------------------------------------------------------
(***************************************************************************)
(* Refinement: the registry with all its operations implements PeerLife.   *)
(***************************************************************************)
SeenStatus(r) == IF r.status = "deleted" THEN "revoked" ELSE r.status

Seen == [p \in PeerIds |-> SeenStatus(peers[p])]

SeenExpired == {p \in PeerIds : Expired(p)}

\* An identifier that was not handed out has no expiry date.
AbsentIsBlank ==
    \A p \in PeerIds : peers[p].status = "absent" => peers[p].expiresAt = None

LEMMA AbsentStaysBlank == Spec => []AbsentIsBlank
<1>1. Init => AbsentIsBlank
  BY DEF Init, NoPeer, AbsentIsBlank
<1>2. AbsentIsBlank /\ TypeOK /\ [Next]_vars => AbsentIsBlank'
  <2> SUFFICES ASSUME AbsentIsBlank, TypeOK, [Next]_vars, NEW p \in PeerIds,
                      peers'[p].status = "absent"
               PROVE  peers'[p].expiresAt = None
    BY DEF AbsentIsBlank
  <2>1. peers'[p] = peers[p]
    BY StepShape DEF Created, SomeAdvance, Advanced, TypeOK
  <2> QED
    BY <2>1 DEF AbsentIsBlank
<1> QED
  BY <1>1, <1>2, TypeCorrect, PTL DEF Spec

\* Revocations and deletions, however many at once, end lives.
LEMMA AdvanceEndsLives ==
    ASSUME TypeOK, SomeAdvance, UNCHANGED now
    PROVE  Life!Next
<1>1. PICK S \in SUBSET PeerIds :
         S = {p \in PeerIds : peers[p].status = "active" /\ peers'[p] # peers[p]}
  OBVIOUS
<1>2. \A p \in PeerIds : peers[p].expiresAt = peers'[p].expiresAt
  BY DEF SomeAdvance, Advanced, SameIdentity
<1>3. SeenExpired' = SeenExpired
  BY <1>2 DEF SeenExpired, Expired
<1>4. \A p \in S : Seen[p] = "active"
  BY <1>1 DEF Seen, SeenStatus
<1>5. \A p \in PeerIds : SeenStatus(peers'[p]) =
                           IF p \in S THEN "revoked" ELSE SeenStatus(peers[p])
  BY <1>1 DEF SomeAdvance, Advanced, SeenStatus
<1>6. Seen' = [p \in PeerIds |-> IF p \in S THEN "revoked" ELSE Seen[p]]
  BY <1>5 DEF Seen
<1>7. Life!End(S)
  BY <1>3, <1>4, <1>6 DEF Life!End, Seen, SeenStatus, SeenExpired
<1> QED
  BY <1>7 DEF Life!Next

LEMMA CreationIsLives ==
    ASSUME TypeOK, AbsentIsBlank, NEW p \in PeerIds, Created(p), UNCHANGED now
    PROVE  Life!Next
<1>1. \A q \in PeerIds \ {p} : peers'[q] = peers[q]
  BY DEF TypeOK, Created
<1>2. peers[p].status = "absent" /\ peers'[p].status = "active" /\ ~Expired(p)
  BY DEF Created, AbsentIsBlank, Expired
<1>3. Seen[p] = "absent"
  BY <1>2 DEF Seen, SeenStatus
<1>4. Seen' = [Seen EXCEPT ![p] = "active"]
  BY <1>1, <1>2 DEF Seen, SeenStatus
<1>5. SeenExpired' \in {SeenExpired, SeenExpired \cup {p}}
  <2>1. \A q \in PeerIds \ {p} : Expired(q)' <=> Expired(q)
    BY <1>1 DEF Expired
  <2>2. CASE Expired(p)'
    BY <1>2, <2>1, <2>2 DEF SeenExpired
  <2>3. CASE ~Expired(p)'
    BY <1>2, <2>1, <2>3 DEF SeenExpired
  <2> QED
    BY <2>2, <2>3
<1>6. Life!Create(p)
  BY <1>3, <1>4, <1>5 DEF Life!Create, Seen, SeenStatus, SeenExpired
<1> QED
  BY <1>6 DEF Life!Next

\* The clock does nothing but let expiry dates pass.
LEMMA TickExpires ==
    ASSUME TypeOK, AbsentIsBlank, Tick
    PROVE  Life!Next
<1>0. PICK S \in SUBSET PeerIds : S = SeenExpired'
  BY DEF SeenExpired
<1>1. peers' = peers /\ now \in Nat /\ now' = now + 1
  BY RegistryAssumption DEF Tick, TypeOK, Times
<1>2. \A p \in PeerIds : peers[p].expiresAt \in Nat \cup {None}
  BY RegistryAssumption DEF TypeOK, PeerRecord
<1>3. SeenExpired' = SeenExpired \cup S
  BY <1>0, <1>1, <1>2 DEF SeenExpired, Expired
<1>4. \A p \in S : Seen[p] # "absent"
  BY <1>0, <1>1 DEF SeenExpired, Expired, AbsentIsBlank, Seen, SeenStatus
<1>5. Seen' = Seen
  BY <1>1 DEF Seen
<1>6. Life!Expire(S)
  BY <1>3, <1>4, <1>5 DEF Life!Expire, Seen, SeenStatus, SeenExpired
<1> QED
  BY <1>6 DEF Life!Next

\* The registry implements PeerLife: five operations that change a status,
\* cascades and the clock take its steps and no other.
THEOREM RegistryLives == Spec => PeersLiveOnce
<1>1. Init => Life!Init
  BY DEF Init, NoPeer, Life!Init, Expired
<1>2. ASSUME TypeOK, AbsentIsBlank, [Next]_vars
      PROVE  Life!Next \/ UNCHANGED <<Seen, SeenExpired>>
  <2>1. CASE Tick
    BY <1>2, <2>1, TickExpires
  <2>2. CASE PeerNext
    BY <1>2, <2>2, PeerStepShape, AdvanceEndsLives, CreationIsLives
  <2>3. CASE PersonNext
    BY <1>2, <2>3, PersonStepShape, AdvanceEndsLives
  <2>4. CASE RecordReconcile \/ UNCHANGED vars
    BY <2>4 DEF RecordReconcile, vars, Seen, SeenExpired, Expired
  <2> QED
    BY <1>2, <2>1, <2>2, <2>3, <2>4 DEF Next
<1>3. TypeOK /\ AbsentIsBlank /\ [Next]_vars => [Life!Next]_(Life!vars)
  BY <1>2 DEF Life!vars, Seen, SeenStatus, SeenExpired
<1> QED
  BY <1>1, <1>3, TypeCorrect, AbsentStaysBlank, PTL
     DEF Spec, PeersLiveOnce, Life!Spec

=============================================================================
