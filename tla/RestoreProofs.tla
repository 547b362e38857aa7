---------------------------- MODULE RestoreProofs ----------------------------
(***************************************************************************)
(* What a restore does to the updates around it, for any number of updates *)
(* and reconciles, any failures and any crashes.                           *)
(***************************************************************************)
EXTENDS Restore, TLAPS

-----------------------------------------------------------------------------
(***************************************************************************)
(* The inductive invariant.                                                *)
(***************************************************************************)
\* A client between its first step and its answer.
Busy(c) == at[c] \notin {"new", "acked", "rejected"}

\* A request whose turn it is holds the document it loaded.
TurnInv == \A r \in Queued : Busy(r) => turn = r /\ mem[r] \in Document

\* What the restore has in hand where it is.
HoldInv ==
    /\ step # "new" => snapshot \in Document
    /\ step \in {"new", "safety"} => safety = None /\ ~written
    /\ step \in {"save", "resave"} => mem[Restorer] \in Document
    /\ step \in {"rewrite", "rereload", "resave", "rereconcile"} => safety \in Document
    /\ step \in {"reload", "save", "reconcile", "restored", "rereload", "resave",
                 "rereconcile", "recovered"} => written

\* begun holds the updates that started before the restore was over.
BegunInv ==
    /\ \A u \in Updates : at[u] = "new" => u \notin begun
    /\ step \notin Ended => \A u \in Updates : at[u] # "new" => u \in begun

\* Acknowledged updates U are in state.json, and in what is written to it next.
Kept(U) ==
    /\ U \subseteq disk
    /\ \A r \in Queued : Busy(r) => U \subseteq mem[r]

LaterInv == Kept(Acked \ begun)

UnwrittenInv == ~written => Kept(Acked)

\* A document in which the restore has taken effect.
HasRestored(d) ==
    /\ snapshot \subseteq d
    /\ d \cap begun \subseteq snapshot

\* So it has in state.json, and in what is written to it next.
Restored ==
    /\ written
    /\ HasRestored(disk)
    /\ \A r \in Queued : Busy(r) => HasRestored(mem[r])

\* A restore that nobody overlapped, from step to step.
UndisturbedInv ==
    /\ Kept(Acked) \/ Restored
    /\ step \in InProgress =>
          /\ turn = None
          /\ safety # None => Acked \subseteq safety
    /\ step \in Ended => \A u \in Updates : Busy(u) => u \notin begun
    /\ step = "reload" => disk = snapshot
    /\ step = "save" => mem[Restorer] = snapshot
    /\ step = "rereload" => disk = safety
    /\ step = "resave" => mem[Restorer] = safety
    /\ step \in {"reconcile", "restored"} => Restored
    /\ step \in {"rereconcile", "recovered"} => Kept(Acked)

IInv ==
    /\ TypeOK /\ TurnInv /\ HoldInv /\ BegunInv /\ LaterInv /\ UnwrittenInv
    /\ ~overlap => UndisturbedInv

LEMMA Kinds ==
    /\ Updates \subseteq Clients /\ Queued \subseteq Clients /\ Jobs \subseteq Clients
    /\ Updates \subseteq Queued /\ Posts \subseteq Queued
    /\ Restorer \in Jobs /\ Restorer \notin Queued /\ Restorer \notin Statuses
    /\ \A j \in Jobs : j \notin Updates
    /\ \A s \in Statuses : s \in Jobs /\ s \notin Queued
    /\ None \notin Clients
BY RestoreAssumption DEF Clients, Queued, Jobs

LEMMA NoDocument == None \notin Document
BY RestoreAssumption

LEMMA FaultType ==
    ASSUME TypeOK, UNCHANGED faults \/ Fault
    PROVE  faults' \in 0..MaxFaults
BY RestoreAssumption DEF TypeOK, Fault

LEMMA InitEstablishes == Init => IInv
<1> SUFFICES ASSUME Init PROVE IInv
  OBVIOUS
<1>1. TypeOK
  <2>1. disk \in Optional \ {None}
    BY NoDocument DEF Init, Document, Optional
  <2>2. 0 \in 0..MaxFaults
    BY RestoreAssumption
  <2> QED
    BY <2>1, <2>2 DEF Init, TypeOK, Optional, Places
<1>2. TurnInv /\ HoldInv /\ BegunInv
  BY Kinds DEF Init, TurnInv, HoldInv, BegunInv, Busy, Ended
<1>3. Kept(Acked) /\ Kept(Acked \ begun)
  BY Kinds DEF Init, Kept, Acked, Busy
<1>4. UndisturbedInv
  BY <1>3 DEF Init, UndisturbedInv, InProgress, Ended
<1> QED
  BY <1>1, <1>2, <1>3, <1>4 DEF IInv, LaterInv, UnwrittenInv

-----------------------------------------------------------------------------
(***************************************************************************)
(* Steps of the clients.                                                   *)
(***************************************************************************)
LEMMA BeginTurnKeeps ==
    ASSUME IInv, NEW r \in Queued, BeginTurn(r)
    PROVE  IInv'
<1>0. /\ at[r] = "new" /\ turn = None /\ turn' = r /\ at' = [at EXCEPT ![r] = "loaded"]
      /\ mem' = [mem EXCEPT ![r] = disk]
      /\ overlap' = (overlap \/ step \in InProgress)
      /\ begun' = IF step \in Ended THEN begun ELSE begun \cup ({r} \cap Updates)
      /\ UNCHANGED <<disk, iface, cut, served, applying, leftover, step, snapshot, safety,
                     written, faults>>
  BY DEF BeginTurn, Goto, restore, host
<1>1. /\ TypeOK /\ disk \in Document /\ disk \in Optional
      /\ \A q \in Queued : ~Busy(q)
      /\ at'[r] = "loaded" /\ mem'[r] = disk
      /\ \A c \in Clients \ {r} : at'[c] = at[c] /\ mem'[c] = mem[c]
  BY <1>0, Kinds DEF IInv, TurnInv, TypeOK, Optional
<1>2. TypeOK'
  BY <1>0, <1>1, Kinds DEF TypeOK, Places
<1>3. TurnInv' /\ HoldInv'
  BY <1>0, <1>1, Kinds DEF IInv, TurnInv, HoldInv, Busy
<1>4. BegunInv'
  BY <1>0, <1>1, Kinds DEF IInv, BegunInv
<1>5. Acked' = Acked /\ begun \subseteq begun'
  BY <1>0, <1>1, Kinds DEF Acked
<1>6. ASSUME NEW U, Kept(U)
      PROVE  U \subseteq disk' /\ \A q \in Queued : Busy(q)' => U \subseteq mem'[q]
  BY <1>0, <1>1, <1>6, Kinds DEF Kept, Busy
<1>7. /\ LaterInv' /\ UnwrittenInv' /\ (Kept(Acked) => Kept(Acked)')
  BY <1>0, <1>5, <1>6 DEF IInv, LaterInv, UnwrittenInv, Kept
<1>8. ASSUME ~overlap' PROVE UndisturbedInv'
  <2>1. step \notin InProgress /\ UndisturbedInv
    BY <1>0, <1>8 DEF IInv
  <2>2. step \in Ended => begun' = begun /\ (r \in Updates => r \notin begun)
    BY <1>0 DEF IInv, BegunInv
  <2>3. CASE step \notin Ended
    <3>1. step = "new" /\ step' = "new"
      BY <1>0, <1>1, <2>1, <2>3 DEF TypeOK
    <3>2. Kept(Acked)'
      BY <1>0, <1>7, <3>1 DEF IInv, HoldInv, UnwrittenInv
    <3> QED
      BY <3>1, <3>2 DEF UndisturbedInv, InProgress, Ended
  <2>4. CASE step \in Ended
    <3>1. \A u \in Updates : Busy(u)' => u \notin begun'
      BY <1>0, <1>1, <2>2, <2>4, Kinds DEF Busy
    <3>2. Restored => Restored'
      BY <1>0, <1>1, <2>2, <2>4, Kinds DEF Restored, HasRestored, Busy
    <3> QED
      BY <1>0, <1>7, <2>1, <2>4, <3>1, <3>2 DEF UndisturbedInv, InProgress, Ended
  <2> QED
    BY <2>3, <2>4
<1> QED
  BY <1>2, <1>3, <1>4, <1>7, <1>8 DEF IInv

\* A step that ends a turn: what is written is what was held, or nothing,
\* and an update of the turn may be added and acknowledged.
LEMMA EndTurnKeeps ==
    ASSUME IInv, NEW r \in Queued, NEW place, NEW d \in Document, Busy(r),
           EndTurn(r, place), place \in {"new", "acked", "rejected"},
           disk' = d,
           d = disk \/ (mem[r] \subseteq d /\ d \subseteq mem[r] \cup ({r} \cap Updates)),
           place = "acked" => r \in d,
           place = "new" => r \in Posts,
           UNCHANGED <<host, applying, leftover, restore, history, faults>>
    PROVE  IInv'
<1>0. /\ turn' = None /\ at' = [at EXCEPT ![r] = place] /\ mem' = [mem EXCEPT ![r] = None]
      /\ UNCHANGED <<iface, cut, served, step, snapshot, safety, written, overlap, begun>>
  BY DEF EndTurn, Goto, restore, host, history
<1>1. /\ TypeOK /\ d \in Optional \ {None}
      /\ turn = r /\ mem[r] \in Document
      /\ \A q \in Queued : Busy(q) => q = r
      /\ at'[r] = place /\ \A c \in Clients \ {r} : at'[c] = at[c] /\ mem'[c] = mem[c]
      /\ \A q \in Queued : ~Busy(q)'
      /\ r \in Posts => r \notin Updates
  BY <1>0, Kinds, NoDocument, RestoreAssumption
     DEF IInv, TurnInv, TypeOK, Busy, Optional, Jobs
<1>2. TypeOK'
  BY <1>0, <1>1, Kinds DEF TypeOK, Places, Optional
<1>3. TurnInv' /\ HoldInv' /\ BegunInv'
  BY <1>0, <1>1, Kinds DEF IInv, TurnInv, HoldInv, BegunInv, Busy
<1>4. Acked' \subseteq Acked \cup {r} /\ (r \in Acked' => place = "acked")
  BY <1>0, <1>1, Kinds DEF Acked
<1>5. ASSUME NEW U, Kept(U)
      PROVE  U \subseteq disk' /\ (place = "acked" => U \cup {r} \subseteq disk')
  BY <1>1, <1>5 DEF Kept
<1>6. Kept(Acked) => Kept(Acked)'
  <2>1. Kept(Acked) => Acked' \subseteq disk'
    BY <1>4, <1>5
  <2> QED
    BY <1>1, <2>1 DEF Kept
<1>7. LaterInv' /\ UnwrittenInv'
  <2>1. Kept(Acked \ begun) => Acked' \ begun' \subseteq disk'
    BY <1>0, <1>4, <1>5
  <2> QED
    BY <1>0, <1>1, <1>6, <2>1 DEF IInv, LaterInv, UnwrittenInv, Kept
<1>8. ASSUME ~overlap' PROVE UndisturbedInv'
  <2>1. step \notin InProgress /\ UndisturbedInv
    BY <1>0, <1>1, <1>8, Kinds DEF IInv, UndisturbedInv
  <2>2. Restored => Restored'
    <3> SUFFICES ASSUME Restored PROVE Restored'
      OBVIOUS
    <3>1. step \in Ended
      BY <1>1, <2>1 DEF TypeOK, IInv, HoldInv, Restored
    <3>2. HasRestored(disk) /\ HasRestored(mem[r]) /\ (r \in Updates => r \notin begun)
      BY <1>1, <2>1, <3>1 DEF UndisturbedInv, Restored
    <3> QED
      BY <1>0, <1>1, <3>2 DEF HasRestored, Restored
  <2> QED
    BY <1>0, <1>1, <1>6, <2>1, <2>2, Kinds DEF UndisturbedInv, InProgress
<1> QED
  BY <1>2, <1>3, <1>7, <1>8 DEF IInv

LEMMA EndUpdateKeeps ==
    ASSUME IInv, NEW u \in Updates, EndUpdate(u)
    PROVE  IInv'
<1>1. /\ u \in Queued /\ Busy(u) /\ mem[u] \in Document /\ disk \in Document
      /\ UNCHANGED <<host, applying, leftover, restore, history, faults>>
  BY Kinds DEF EndUpdate, IInv, TurnInv, TypeOK, Busy, Optional
<1>2. CASE EndTurn(u, "rejected") /\ UNCHANGED disk
  BY <1>1, <1>2, EndTurnKeeps
<1>3. CASE disk' = mem[u] \cup {u} /\ EndTurn(u, "acked")
  <2>1. disk' \in Document
    BY <1>1, <1>3 DEF Document
  <2> QED
    BY <1>1, <1>3, <2>1, EndTurnKeeps
<1> QED
  BY <1>2, <1>3 DEF EndUpdate

LEMMA EndPostKeeps ==
    ASSUME IInv, NEW p \in Posts, EndPost(p)
    PROVE  IInv'
<1>1. /\ p \in Queued /\ Busy(p) /\ mem[p] \in Document /\ disk \in Document
      /\ disk' \in {mem[p], disk} /\ EndTurn(p, "new")
      /\ UNCHANGED <<host, applying, leftover, restore, history, faults>>
  BY Kinds DEF EndPost, IInv, TurnInv, TypeOK, Busy, Optional, Reconciled
<1> QED
  BY <1>1, EndTurnKeeps

\* A step that leaves the documents of the requests and of the restore alone,
\* and takes nobody past an acknowledgement.
LEMMA FrameKeeps ==
    ASSUME IInv, TypeOK',
           UNCHANGED <<disk, turn, step, snapshot, safety, written, overlap, begun>>,
           \A r \in Queued \cup {Restorer} : mem'[r] = mem[r],
           \A r \in Queued : Busy(r)' <=> Busy(r),
           \A u \in Updates : at'[u] = at[u]
    PROVE  IInv'
<1>1. Acked' = Acked
  BY DEF Acked
<1>2. TurnInv' /\ HoldInv' /\ BegunInv'
  BY DEF IInv, TurnInv, HoldInv, BegunInv
<1>3. LaterInv' /\ UnwrittenInv' /\ (Kept(Acked) => Kept(Acked)')
  BY <1>1 DEF IInv, LaterInv, UnwrittenInv, Kept
<1>4. Restored => Restored'
  BY DEF Restored, HasRestored
<1>5. \A u \in Updates : Busy(u)' <=> Busy(u)
  BY Kinds
<1>6. ~overlap' => UndisturbedInv'
  BY <1>1, <1>3, <1>4, <1>5 DEF IInv, UndisturbedInv
<1> QED
  BY <1>2, <1>3, <1>6 DEF IInv

LEMMA ApplyKeeps ==
    ASSUME IInv, NEW j \in Jobs, ApplyStep(j)
    PROVE  IInv'
<1>1. PICK place \in Locked \cup Reconciled : Goto(j, place)
  <2>1. Locked \cup Reconciled =
          {"inspect", "raise", "sync", "synced", "undone", "applied", "unapplied", "timedout"}
    BY DEF Locked, Reconciled
  <2> QED
    BY <2>1 DEF ApplyStep, BeginApply, Inspect, Raise, Sync, Release
<1>2. /\ at[j] \in Locked \cup {"loaded"}
      /\ UNCHANGED <<disk, turn, mem, step, snapshot, safety, written, overlap, begun>>
  BY DEF ApplyStep, BeginApply, Inspect, Raise, Sync, Release, Locked,
         restore, locks, history
<1>3. TypeOK /\ j \in Clients /\ j \notin Updates
  BY Kinds DEF IInv
<1>4. faults' \in 0..MaxFaults
  <2>1. UNCHANGED faults \/ Fault
    BY DEF ApplyStep, BeginApply, Inspect, Raise, Sync, Release
  <2> QED
    BY <1>3, <2>1, FaultType
<1>5. /\ iface' \in {"absent", "down", "up"} /\ cut' \in BOOLEAN
      /\ served' \in Optional
  <2>1. mem[j] \in Optional
    BY <1>3 DEF TypeOK
  <2> QED
    BY <1>3, <2>1
       DEF ApplyStep, BeginApply, Inspect, Raise, Sync, Release, TypeOK, host, Optional
<1>6. applying' \in Jobs \cup {None} /\ leftover' \in BOOLEAN
  BY <1>3 DEF ApplyStep, BeginApply, Inspect, Raise, Sync, Release, TypeOK, locks
<1>7. at' \in [Clients -> Places]
  BY <1>1, <1>3 DEF Goto, TypeOK, Places
<1>8. TypeOK'
  BY <1>2, <1>3, <1>4, <1>5, <1>6, <1>7 DEF TypeOK
<1>9. /\ \A c \in Clients \ {j} : at'[c] = at[c]
      /\ at'[j] = place
  BY <1>1, <1>3 DEF Goto, TypeOK
<1>10. \A c \in Clients : Busy(c)' <=> Busy(c)
  BY <1>2, <1>9 DEF Busy, Locked, Reconciled
<1>11. \A u \in Updates : at'[u] = at[u]
  BY <1>3, <1>9, Kinds
<1> QED
  BY <1>2, <1>8, <1>10, <1>11, FrameKeeps, Kinds

LEMMA StatusKeeps ==
    ASSUME IInv, NEW s \in Statuses, BeginStatus(s) \/ EndStatus(s)
    PROVE  IInv'
<1>1. PICK place \in {"new", "loaded"}, d \in Optional :
        /\ Goto(s, place)
        /\ mem' = [mem EXCEPT ![s] = d]
        /\ UNCHANGED <<disk, host, locks, restore, history, faults>>
  BY DEF BeginStatus, EndStatus, IInv, TypeOK, Optional
<1>2. TypeOK /\ s \in Clients /\ s \notin Queued /\ s # Restorer
  BY Kinds DEF IInv
<1>3. TypeOK'
  BY <1>1, <1>2 DEF Goto, TypeOK, Places, host, locks, restore, history
<1>4. \A c \in Clients \ {s} : at'[c] = at[c] /\ mem'[c] = mem[c]
  BY <1>1, <1>2 DEF Goto, TypeOK
<1> QED
  BY <1>1, <1>2, <1>3, <1>4, FrameKeeps, Kinds
     DEF Busy, locks, restore, history

-----------------------------------------------------------------------------
(***************************************************************************)
(* Steps of the restore, and the crash.                                    *)
(***************************************************************************)
LEMMA SnapshotKeeps ==
    ASSUME IInv, TakeSnapshot
    PROVE  IInv'
<1>1. /\ step = "new" /\ snapshot' = disk
      /\ UNCHANGED <<disk, iface, cut, served, turn, applying, leftover, at, mem, step, safety,
                     written, overlap, begun, faults>>
  BY DEF TakeSnapshot, host, locks, clients, history
<1>2. TypeOK'
  BY <1>1 DEF IInv, TypeOK, Optional
<1>3. TurnInv' /\ HoldInv' /\ BegunInv'
  BY <1>1 DEF IInv, TurnInv, HoldInv, BegunInv, Busy
<1>4. LaterInv' /\ UnwrittenInv' /\ Kept(Acked)'
  BY <1>1 DEF IInv, HoldInv, LaterInv, UnwrittenInv, Kept, Acked, Busy
<1>5. UndisturbedInv'
  BY <1>1, <1>4 DEF UndisturbedInv, InProgress, Ended
<1> QED
  BY <1>2, <1>3, <1>4, <1>5 DEF IInv

LEMMA BeginRestoreKeeps ==
    ASSUME IInv, NEW force \in BOOLEAN, BeginRestore(force)
    PROVE  IInv'
<1>1. /\ step = "new" /\ snapshot # None /\ step' \in {"down", "safety"}
      /\ overlap' = (turn # None)
      /\ UNCHANGED <<disk, iface, cut, served, turn, applying, leftover, at, mem, snapshot,
                     safety, written, begun, faults>>
  BY DEF BeginRestore, host, locks, clients
<1>2. TypeOK' /\ snapshot \in Document /\ safety = None
  BY <1>1 DEF IInv, TypeOK, HoldInv, InProgress, Optional
<1>3. TurnInv' /\ HoldInv' /\ BegunInv'
  BY <1>1, <1>2 DEF IInv, TurnInv, HoldInv, BegunInv, Busy, Ended
<1>4. LaterInv' /\ UnwrittenInv' /\ Kept(Acked)'
  BY <1>1 DEF IInv, HoldInv, LaterInv, UnwrittenInv, Kept, Acked, Busy
<1>5. ~overlap' => UndisturbedInv'
  BY <1>1, <1>2, <1>4 DEF UndisturbedInv, InProgress, Ended
<1> QED
  BY <1>2, <1>3, <1>4, <1>5 DEF IInv

\* What the restore has done so far, if nobody overlapped it.
Chain ==
    /\ Acked \subseteq disk \/ (written /\ HasRestored(disk))
    /\ step \in InProgress /\ safety # None => Acked \subseteq safety
    /\ step = "reload" => disk = snapshot
    /\ step = "save" => mem[Restorer] = snapshot
    /\ step = "rereload" => disk = safety
    /\ step = "resave" => mem[Restorer] = safety
    /\ step \in {"reconcile", "restored"} => written /\ HasRestored(disk)
    /\ step \in {"rereconcile", "recovered"} => Acked \subseteq disk

\* A step of the restore leaves the requests alone.  It may write to
\* state.json, since no update acknowledged so far began after the restore.
LEMMA RestoreStepKeeps ==
    ASSUME IInv, TypeOK', step \in InProgress, step' \in InProgress \cup Ended,
           \A c \in Clients \ {Restorer} : at'[c] = at[c] /\ mem'[c] = mem[c],
           UNCHANGED <<turn, snapshot, overlap, begun>>,
           HoldInv',
           disk' = disk \/ written',
           written => written',
           ~overlap /\ Acked' = Acked /\ Chain => Chain'
    PROVE  IInv'
<1>1. \A u \in Queued : at'[u] = at[u] /\ mem'[u] = mem[u]
  BY Kinds
<1>2. step' # "new" /\ Acked \subseteq begun /\ Acked' = Acked
  BY <1>1, Kinds DEF IInv, BegunInv, InProgress, Ended, Acked
<1>3. TurnInv'
  BY <1>1 DEF IInv, TurnInv, Busy
<1>4. BegunInv'
  BY <1>1, Kinds DEF IInv, BegunInv, InProgress, Ended
<1>5. LaterInv'
  BY <1>2 DEF LaterInv, Kept
<1>6. UnwrittenInv'
  BY <1>1, <1>2 DEF IInv, UnwrittenInv, Kept, Busy
<1>7. ASSUME ~overlap' PROVE UndisturbedInv'
  <2>1. UndisturbedInv /\ turn = None
    BY <1>7 DEF IInv, UndisturbedInv
  <2>2. \A r \in Queued : ~Busy(r)'
    BY <1>1, <2>1, Kinds DEF IInv, TurnInv, Busy
  <2>3. Chain
    BY <2>1 DEF UndisturbedInv, Chain, Kept, Restored, InProgress
  <2>4. Chain'
    BY <1>2, <1>7, <2>3
  <2>5. /\ Acked' \subseteq disk' => Kept(Acked)'
        /\ written' /\ HasRestored(disk)' => Restored'
    BY <2>2 DEF Kept, Restored
  <2>6. \A u \in Updates : ~Busy(u)'
    BY <2>2, Kinds
  <2> QED
    BY <2>1, <2>4, <2>5, <2>6 DEF UndisturbedInv, Chain
<1> QED
  BY <1>3, <1>4, <1>5, <1>6, <1>7 DEF IInv

LEMMA CrashKeeps ==
    ASSUME IInv, Crash
    PROVE  IInv'
<1>0. /\ turn' = None /\ applying' = None
      /\ at' = [c \in Clients |->
             IF at[c] \in {"new", "acked", "rejected"} THEN at[c]
             ELSE IF c \in Jobs THEN "new" ELSE "rejected"]
      /\ mem' = [c \in Clients |-> None]
      /\ step' = IF step \in InProgress THEN "crashed" ELSE step
      /\ UNCHANGED <<disk, iface, served, snapshot, safety, written, overlap, begun>>
  BY DEF Crash, history
<1>1. /\ TypeOK
      /\ \A c \in Clients : ~Busy(c)'
      /\ \A u \in Updates : at'[u] = "acked" <=> at[u] = "acked"
      /\ \A u \in Updates : at'[u] = "new" <=> at[u] = "new"
  BY <1>0, Kinds DEF IInv, Busy
<1>2. TypeOK'
  <2>1. at' \in [Clients -> Places] /\ mem' \in [Clients -> Optional]
    BY <1>0, <1>1 DEF TypeOK, Places, Optional
  <2>2. faults' \in 0..MaxFaults
    BY <1>1, FaultType DEF Crash
  <2>3. leftover' \in BOOLEAN /\ cut' \in BOOLEAN
    BY DEF Crash
  <2> QED
    BY <1>0, <1>1, <2>1, <2>2, <2>3 DEF TypeOK, Ended
<1>3. Acked' = Acked
  BY <1>1 DEF Acked
<1>4. TurnInv' /\ HoldInv'
  BY <1>0, <1>1, Kinds DEF IInv, TurnInv, HoldInv, InProgress
<1>5. BegunInv'
  BY <1>0, <1>1 DEF IInv, BegunInv, Ended, InProgress
<1>6. LaterInv' /\ UnwrittenInv' /\ (Kept(Acked) => Kept(Acked)')
  BY <1>0, <1>1, <1>3, Kinds DEF IInv, LaterInv, UnwrittenInv, Kept
<1>7. Restored => Restored'
  BY <1>0, <1>1, Kinds DEF Restored, HasRestored
<1>8. ~overlap' => UndisturbedInv'
  BY <1>0, <1>1, <1>6, <1>7, Kinds DEF IInv, UndisturbedInv, InProgress, Ended
<1> QED
  BY <1>2, <1>4, <1>5, <1>6, <1>8 DEF IInv

LEMMA PrepareKeeps ==
    ASSUME IInv, TakeSafety \/ TakeDown
    PROVE  IInv'
<1>0. TypeOK
  BY DEF IInv
<1>1. CASE TakeSafety
  <2>1. /\ step = "safety"
        /\ \/ step' = "down" /\ safety' = disk
           \/ step' = "failed" /\ safety' = safety
        /\ UNCHANGED <<disk, iface, cut, served, turn, applying, leftover, at, mem, snapshot,
                       written, overlap, begun, faults>>
    BY <1>1 DEF TakeSafety, host, locks, clients, history
  <2>2. step \in InProgress /\ step' \in InProgress \cup Ended
    BY <2>1 DEF InProgress, Ended
  <2>3. TypeOK'
    BY <1>0, <2>1, <2>2 DEF TypeOK
  <2>4. HoldInv'
    BY <1>0, <2>1 DEF IInv, HoldInv
  <2>5. Acked \subseteq disk
    BY <2>1 DEF IInv, HoldInv, UnwrittenInv, Kept
  <2>6. Acked' = Acked /\ Chain => Chain'
    BY <2>1, <2>5 DEF Chain, InProgress, Ended
  <2> QED
    BY <2>1, <2>2, <2>3, <2>4, <2>6, RestoreStepKeeps
<1>2. CASE TakeDown
  <2>1. /\ step = "down" /\ step' \in {"write", Failing}
        /\ iface' \in {"absent", iface} /\ cut' \in {FALSE, cut} /\ served' \in {None, served}
        /\ UNCHANGED <<disk, turn, applying, leftover, at, mem, snapshot, safety,
                       written, overlap, begun, faults>>
    BY <1>2 DEF TakeDown, host, locks, clients, history
  <2>2. /\ step \in InProgress /\ step' \in {"write", "rewrite", "failed"}
        /\ step' \in InProgress \cup Ended
    BY <2>1 DEF InProgress, Ended, Failing
  <2>3. TypeOK'
    <3>1. iface' \in {"absent", "down", "up"} /\ cut' \in BOOLEAN /\ served' \in Optional
      BY <1>0, <2>1 DEF TypeOK, Optional
    <3> QED
      BY <1>0, <2>1, <2>2, <3>1 DEF TypeOK
  <2>4. HoldInv'
    BY <1>0, <2>1, <2>2 DEF IInv, HoldInv, Failing, TypeOK, Optional
  <2>5. Acked' = Acked /\ Chain => Chain'
    BY <2>1, <2>2 DEF Chain, InProgress, HasRestored
  <2> QED
    BY <2>1, <2>2, <2>3, <2>4, <2>5, RestoreStepKeeps
<1> QED
  BY <1>1, <1>2

\* What the restore does to its own copy and place, from one step to the next.
RestorerOnly ==
    /\ \A c \in Clients \ {Restorer} : at'[c] = at[c] /\ mem'[c] = mem[c]
    /\ at' \in [Clients -> Places] /\ mem' \in [Clients -> Optional]
    /\ UNCHANGED <<iface, cut, served, turn, applying, leftover, snapshot, safety,
                   overlap, begun, faults>>

LEMMA RestorerSteps ==
    ASSUME TypeOK, NEW next, NEW failing, NEW d
    PROVE  /\ Replace(d, next, failing) /\ UNCHANGED clients => RestorerOnly
           /\ LoadAgain(next, failing) =>
                 /\ RestorerOnly /\ UNCHANGED <<disk, written>>
                 /\ \/ step' = next /\ mem'[Restorer] = disk
                    \/ step' = failing
           /\ SaveAgain(next, failing) =>
                 /\ RestorerOnly
                 /\ \/ step' = next /\ disk' = mem[Restorer] /\ written' = TRUE
                    \/ step' = failing /\ disk' = disk /\ written' = written
           /\ EndReconcile(next) =>
                 /\ RestorerOnly /\ UNCHANGED <<disk, written>>
                 /\ step' = next
<1>1. Restorer \in Clients /\ disk \in Optional /\ None \in Optional
  BY Kinds DEF TypeOK, Optional
<1>2. /\ "loaded" \in Places /\ "new" \in Places
  BY DEF Places
<1> USE DEF RestorerOnly, Replace, LoadAgain, SaveAgain, EndReconcile, Drop, Goto,
            TypeOK, host, locks, history
<1>3. Replace(d, next, failing) /\ UNCHANGED clients => RestorerOnly
  BY DEF clients
<1>4. LoadAgain(next, failing) =>
        /\ RestorerOnly /\ UNCHANGED <<disk, written>>
        /\ \/ step' = next /\ mem'[Restorer] = disk
           \/ step' = failing
  BY <1>1
<1>5. SaveAgain(next, failing) =>
        /\ RestorerOnly
        /\ \/ step' = next /\ disk' = mem[Restorer] /\ written' = TRUE
           \/ step' = failing /\ disk' = disk /\ written' = written
  BY <1>1, <1>2
<1>6. EndReconcile(next) =>
        RestorerOnly /\ UNCHANGED <<disk, written>> /\ step' = next
  BY <1>1, <1>2
<1> QED
  BY <1>3, <1>4, <1>5, <1>6

\* The snapshot is written, loaded, saved with its event and applied.
LEMMA ReplaceKeeps ==
    ASSUME IInv, WriteSnapshot \/ Reload \/ Save \/ EndRestored
    PROVE  IInv'
<1>0. /\ TypeOK /\ Failing \in {"rewrite", "failed"}
      /\ Failing = "rewrite" => safety # None
  BY DEF IInv, Failing
<1>1. CASE WriteSnapshot
  <2>1. /\ step = "write" /\ RestorerOnly /\ mem' = mem
        /\ \/ step' = "reload" /\ disk' = snapshot /\ written' = TRUE
           \/ step' = Failing /\ disk' = disk /\ written' = written
    BY <1>0, <1>1, RestorerSteps DEF WriteSnapshot, Replace, clients
  <2>2. /\ step \in InProgress /\ step' \in InProgress \cup Ended /\ snapshot \in Document
    BY <1>0, <2>1 DEF InProgress, Ended, IInv, HoldInv
  <2>3. TypeOK'
    BY <1>0, <2>1, <2>2, NoDocument DEF TypeOK, RestorerOnly, Optional
  <2>4. HoldInv'
    BY <1>0, <2>1, <2>2 DEF IInv, HoldInv, TypeOK, RestorerOnly, Optional
  <2>5. Acked' = Acked /\ Chain => Chain'
    BY <1>0, <2>1 DEF Chain, InProgress, RestorerOnly, HasRestored
  <2> QED
    BY <2>1, <2>2, <2>3, <2>4, <2>5, RestoreStepKeeps DEF RestorerOnly
<1>2. CASE Reload
  <2>1. /\ step = "reload" /\ RestorerOnly /\ UNCHANGED <<disk, written>>
        /\ \/ step' = "save" /\ mem'[Restorer] = disk
           \/ step' = Failing
    BY <1>0, <1>2, RestorerSteps DEF Reload
  <2>2. /\ step \in InProgress /\ step' \in InProgress \cup Ended /\ disk \in Document
    BY <1>0, <2>1 DEF InProgress, Ended, TypeOK, Optional
  <2>3. TypeOK'
    BY <1>0, <2>1, <2>2 DEF TypeOK, RestorerOnly
  <2>4. HoldInv'
    BY <1>0, <2>1, <2>2 DEF IInv, HoldInv, TypeOK, RestorerOnly, Optional
  <2>5. Acked' = Acked /\ Chain => Chain'
    BY <1>0, <2>1 DEF Chain, InProgress, RestorerOnly, HasRestored
  <2> QED
    BY <2>1, <2>2, <2>3, <2>4, <2>5, RestoreStepKeeps DEF RestorerOnly
<1>3. CASE Save
  <2>1. /\ step = "save" /\ RestorerOnly
        /\ \/ step' = "reconcile" /\ disk' = mem[Restorer] /\ written' = TRUE
           \/ step' = Failing /\ disk' = disk /\ written' = written
    BY <1>0, <1>3, RestorerSteps DEF Save
  <2>2. /\ step \in InProgress /\ step' \in InProgress \cup Ended
        /\ mem[Restorer] \in Document /\ written
    BY <1>0, <2>1 DEF InProgress, Ended, IInv, HoldInv
  <2>3. TypeOK'
    <3>1. disk' \in Optional \ {None}
      BY <1>0, <2>1, <2>2, NoDocument DEF TypeOK, Optional
    <3>2. written' \in BOOLEAN
      BY <1>0, <2>1 DEF TypeOK
    <3> QED
      BY <1>0, <2>1, <2>2, <3>1, <3>2 DEF TypeOK, RestorerOnly
  <2>4. HoldInv'
    BY <1>0, <2>1, <2>2 DEF IInv, HoldInv, TypeOK, RestorerOnly, Optional
  <2>5. Acked' = Acked /\ Chain => Chain'
    BY <1>0, <2>1 DEF Chain, InProgress, RestorerOnly, HasRestored
  <2> QED
    BY <2>1, <2>2, <2>3, <2>4, <2>5, RestoreStepKeeps DEF RestorerOnly
<1>4. CASE EndRestored
  <2>1. /\ step = "reconcile" /\ RestorerOnly /\ UNCHANGED <<disk, written>>
        /\ step' = "restored"
    BY <1>0, <1>4, RestorerSteps DEF EndRestored
  <2>2. step \in InProgress /\ step' \in InProgress \cup Ended
    BY <2>1 DEF InProgress, Ended
  <2>3. TypeOK'
    BY <1>0, <2>1, <2>2 DEF TypeOK, RestorerOnly
  <2>4. HoldInv'
    BY <2>1 DEF IInv, HoldInv, RestorerOnly
  <2>5. Acked' = Acked /\ Chain => Chain'
    BY <2>1 DEF Chain, InProgress, RestorerOnly, HasRestored
  <2> QED
    BY <2>1, <2>2, <2>3, <2>4, <2>5, RestoreStepKeeps DEF RestorerOnly
<1> QED
  BY <1>1, <1>2, <1>3, <1>4

\* The safety snapshot is written back, loaded, saved with its event and
\* applied.
LEMMA RecoverKeeps ==
    ASSUME IInv, Rewrite \/ ReloadRecovered \/ SaveRecovered \/ EndRecovered
    PROVE  IInv'
<1>0. TypeOK
  BY DEF IInv
<1>1. CASE Rewrite
  <2>1. /\ step = "rewrite" /\ RestorerOnly /\ mem' = mem
        /\ \/ step' = "rereload" /\ disk' = safety /\ written' = TRUE
           \/ step' = "failed" /\ disk' = disk /\ written' = written
    BY <1>0, <1>1, RestorerSteps DEF Rewrite, Replace, clients
  <2>2. /\ step \in InProgress /\ step' \in InProgress \cup Ended
        /\ safety \in Document /\ safety # None
    BY <2>1, NoDocument DEF InProgress, Ended, IInv, HoldInv
  <2>3. TypeOK'
    <3>1. disk' \in Optional \ {None}
      BY <1>0, <2>1, <2>2 DEF TypeOK, Optional
    <3>2. written' \in BOOLEAN
      BY <1>0, <2>1 DEF TypeOK
    <3> QED
      BY <1>0, <2>1, <2>2, <3>1, <3>2 DEF TypeOK, RestorerOnly
  <2>4. HoldInv'
    BY <2>1, <2>2 DEF IInv, HoldInv, RestorerOnly
  <2>5. Acked' = Acked /\ Chain => Chain'
    BY <2>1, <2>2 DEF Chain, InProgress, RestorerOnly, HasRestored
  <2> QED
    BY <2>1, <2>2, <2>3, <2>4, <2>5, RestoreStepKeeps DEF RestorerOnly
<1>2. CASE ReloadRecovered
  <2>1. /\ step = "rereload" /\ RestorerOnly /\ UNCHANGED <<disk, written>>
        /\ \/ step' = "resave" /\ mem'[Restorer] = disk
           \/ step' = "failed"
    BY <1>0, <1>2, RestorerSteps DEF ReloadRecovered
  <2>2. step \in InProgress /\ step' \in InProgress \cup Ended /\ disk \in Document
    BY <1>0, <2>1 DEF InProgress, Ended, TypeOK, Optional
  <2>3. TypeOK'
    BY <1>0, <2>1, <2>2 DEF TypeOK, RestorerOnly
  <2>4. HoldInv'
    BY <2>1, <2>2 DEF IInv, HoldInv, RestorerOnly
  <2>5. Acked' = Acked /\ Chain => Chain'
    BY <2>1 DEF Chain, InProgress, RestorerOnly, HasRestored
  <2> QED
    BY <2>1, <2>2, <2>3, <2>4, <2>5, RestoreStepKeeps DEF RestorerOnly
<1>3. CASE SaveRecovered
  <2>1. /\ step = "resave" /\ RestorerOnly
        /\ \/ step' = "rereconcile" /\ disk' = mem[Restorer] /\ written' = TRUE
           \/ step' = "failed" /\ disk' = disk /\ written' = written
    BY <1>0, <1>3, RestorerSteps DEF SaveRecovered
  <2>2. /\ step \in InProgress /\ step' \in InProgress \cup Ended
        /\ mem[Restorer] \in Document /\ safety \in Document /\ safety # None /\ written
    BY <2>1, NoDocument DEF InProgress, Ended, IInv, HoldInv
  <2>3. TypeOK'
    BY <1>0, <2>1, <2>2, NoDocument DEF TypeOK, RestorerOnly, Optional
  <2>4. HoldInv'
    BY <2>1, <2>2 DEF IInv, HoldInv, RestorerOnly
  <2>5. Acked' = Acked /\ Chain => Chain'
    BY <2>1, <2>2 DEF Chain, InProgress, RestorerOnly, HasRestored
  <2> QED
    BY <2>1, <2>2, <2>3, <2>4, <2>5, RestoreStepKeeps DEF RestorerOnly
<1>4. CASE EndRecovered
  <2>1. /\ step = "rereconcile" /\ RestorerOnly /\ UNCHANGED <<disk, written>>
        /\ step' = "recovered"
    BY <1>0, <1>4, RestorerSteps DEF EndRecovered
  <2>2. step \in InProgress /\ step' \in InProgress \cup Ended
    BY <2>1 DEF InProgress, Ended
  <2>3. TypeOK'
    BY <1>0, <2>1, <2>2 DEF TypeOK, RestorerOnly
  <2>4. HoldInv'
    BY <2>1 DEF IInv, HoldInv, RestorerOnly
  <2>5. Acked' = Acked /\ Chain => Chain'
    BY <2>1 DEF Chain, InProgress, RestorerOnly, HasRestored
  <2> QED
    BY <2>1, <2>2, <2>3, <2>4, <2>5, RestoreStepKeeps DEF RestorerOnly
<1> QED
  BY <1>1, <1>2, <1>3, <1>4

LEMMA StepKeeps ==
    ASSUME IInv, [Next]_vars
    PROVE  IInv'
<1>1. CASE UNCHANGED vars
  <2>1. TypeOK' /\ UNCHANGED <<disk, turn, step, snapshot, safety, written, overlap, begun,
                               at, mem>>
    BY <1>1 DEF vars, host, locks, clients, restore, history, IInv, TypeOK
  <2> QED
    BY <2>1, FrameKeeps DEF Busy
<1>2. CASE Next
  BY <1>2, BeginTurnKeeps, EndUpdateKeeps, EndPostKeeps, StatusKeeps, ApplyKeeps,
     SnapshotKeeps, BeginRestoreKeeps, PrepareKeeps, ReplaceKeeps, RecoverKeeps, CrashKeeps
     DEF Next, RestoreStep
<1> QED
  BY <1>1, <1>2

-----------------------------------------------------------------------------
(***************************************************************************)
(* Theorems.                                                               *)
(***************************************************************************)
LEMMA Invariance == Spec => []IInv
<1>1. Init => IInv
  BY InitEstablishes
<1>2. IInv /\ [Next]_vars => IInv'
  BY StepKeeps
<1> QED
  BY <1>1, <1>2, PTL DEF Spec

\* Every variable keeps its type: what backupRestore writes and what it hands
\* to reconcile is a document at every step, also when the safety snapshot
\* is written back.
THEOREM TypeCorrect == Spec => []TypeOK
<1>1. IInv => TypeOK
  BY DEF IInv
<1> QED
  BY <1>1, Invariance, PTL

\* backupRestore with nothing else in the write queue leaves state.json as it
\* was or as restored, never a mixture, at every moment and wherever in it
\* something fails or the engine dies; answered as restored it has taken
\* effect, and recovered from the safety snapshot it has lost nothing.
THEOREM RestoreIsAtomic == Spec => []RestoreIsAllOrNothing
<1>1. IInv => RestoreIsAllOrNothing
  BY DEF IInv, UndisturbedInv, UnwrittenInv, Restored, HasRestored, Kept,
         RestoreIsAllOrNothing, NothingLost, TakenEffect
<1> QED
  BY <1>1, Invariance, PTL

\* A restore that is over costs no update any more: no copy of state.json
\* from before it is written afterwards over an update that began later.
THEOREM LaterUpdatesAreSafe == Spec => []LaterUpdatesStay
<1>1. IInv => LaterUpdatesStay
  BY DEF IInv, LaterInv, Kept, LaterUpdatesStay
<1> QED
  BY <1>1, Invariance, PTL

-----------------------------------------------------------------------------
(***************************************************************************)
(* Who holds the write queue or the apply lock is on its way to release    *)
(* it, and so is the restore.                                              *)
(***************************************************************************)
HolderInv ==
    /\ turn # None => Busy(turn)
    /\ \A c \in Clients : at[c] \in Locked <=> applying = c
    /\ step \notin {"reconcile", "rereconcile"} => at[Restorer] = "new"
    /\ at[Restorer] \notin {"acked", "rejected"}

LEMMA Ranks ==
    /\ \A x \in {"new", "acked", "rejected"} : Rank[x] = 0
    /\ \A x \in {"applied", "unapplied", "timedout"} : Rank[x] = 1
    /\ Rank["synced"] = 2 /\ Rank["undone"] = 2 /\ Rank["sync"] = 3
    /\ Rank["raise"] = 4 /\ Rank["inspect"] = 5 /\ Rank["loaded"] = 6
BY DEF Rank

LEMMA RestoreRanks ==
    /\ \A x \in Ended : RestoreRank[x] = 0
    /\ RestoreRank["new"] = 11 /\ RestoreRank["safety"] = 10
    /\ RestoreRank["down"] = 9 /\ RestoreRank["write"] = 8
    /\ RestoreRank["reload"] = 7 /\ RestoreRank["save"] = 6
    /\ RestoreRank["reconcile"] = 5 /\ RestoreRank["rewrite"] = 4
    /\ RestoreRank["rereload"] = 3 /\ RestoreRank["resave"] = 2
    /\ RestoreRank["rereconcile"] = 1
BY DEF RestoreRank, Ended

\* The way of a client.
Moves(x, y) ==
    \/ x = "new" /\ y = "loaded"
    \/ x = "loaded" /\ y \in {"acked", "rejected", "inspect", "timedout"}
    \/ x = "inspect" /\ y \in {"raise", "sync", "undone"}
    \/ x = "raise" /\ y \in {"sync", "undone"}
    \/ x = "sync" /\ y \in {"synced", "undone"}
    \/ x = "synced" /\ y = "applied"
    \/ x = "undone" /\ y = "unapplied"
    \/ x \in Reconciled /\ y = "new"

Begins(c) == (c \in Queued /\ BeginTurn(c)) \/ (c \in Statuses /\ BeginStatus(c))

\* What such a step of client c does to the places and to the locks.
Outcome(c) ==
    /\ \A q \in Clients \ {c} : at'[q] = at[q]
    /\ Moves(at[c], at'[c])
    /\ c \in Queued => turn' = IF at[c] = "new" THEN c
                               ELSE IF at'[c] \in {"new", "acked", "rejected"} THEN None
                               ELSE turn
    /\ c \in Queued /\ at[c] = "new" => turn = None
    /\ c \notin Queued => turn' = turn
    /\ applying' = IF at'[c] \in Locked THEN c
                   ELSE IF at[c] \in Locked THEN None ELSE applying
    /\ at'[c] \in {"acked", "rejected"} => c \in Updates
    /\ at'[c] \in Locked /\ at[c] \notin Locked => applying = None
    /\ c = Restorer => at[c] # "new" /\ at'[c] # "new"
    /\ step' = step

LEMMA ClientMoves ==
    ASSUME IInv, HolderInv, NEW c \in Clients, Begins(c) \/ TakesStep(c)
    PROVE  Outcome(c)
<1>1. at \in [Clients -> Places]
  BY DEF IInv, TypeOK
<1>2. CASE c \in Queued /\ BeginTurn(c)
  BY <1>1, <1>2, Kinds DEF BeginTurn, restore, Outcome, Moves, Locked, Goto
<1>3. CASE c \in Statuses /\ BeginStatus(c)
  BY <1>1, <1>3, Kinds DEF BeginStatus, restore, locks, Outcome, Moves, Locked, Goto
<1>4. CASE c \in Updates /\ EndUpdate(c)
  BY <1>1, <1>4, Kinds DEF EndUpdate, EndTurn, restore, Outcome, Moves, Locked, Goto
<1>5. CASE c \in Posts /\ EndPost(c)
  BY <1>1, <1>5, Kinds
     DEF EndPost, EndTurn, restore, Outcome, Moves, Locked, Reconciled, Goto
<1>6. CASE c \in Statuses /\ EndStatus(c)
  BY <1>1, <1>6, Kinds
     DEF EndStatus, restore, locks, Outcome, Moves, Locked, Reconciled, Goto
<1>7. CASE c \in Jobs /\ BeginApply(c)
  <2>1. /\ \A q \in Clients \ {c} : at'[q] = at[q]
        /\ at[c] = "loaded" /\ turn' = turn /\ step' = step
        /\ \/ at'[c] = "inspect" /\ applying' = c /\ applying = None
           \/ at'[c] = "timedout" /\ applying' = applying
    BY <1>1, <1>7 DEF BeginApply, restore, Goto
  <2> QED
    BY <1>7, <2>1 DEF Outcome, Moves, Locked
<1>8. CASE c \in Jobs /\ (Inspect(c) \/ Raise(c) \/ Sync(c))
  <2>1. /\ \A q \in Clients \ {c} : at'[q] = at[q]
        /\ at[c] \in {"inspect", "raise", "sync"}
        /\ Moves(at[c], at'[c])
        /\ turn' = turn /\ step' = step /\ applying' = applying
    BY <1>1, <1>8 DEF Inspect, Raise, Sync, restore, locks, Goto, Moves
  <2>2. applying = c
    BY <1>8, <2>1 DEF HolderInv, Locked
  <2>3. at'[c] \in {"raise", "sync", "synced", "undone"}
    BY <2>1 DEF Moves, Reconciled
  <2> QED
    BY <1>8, <2>1, <2>2, <2>3 DEF Outcome, Locked
<1>9. CASE c \in Jobs /\ Release(c)
  <2>1. /\ \A q \in Clients \ {c} : at'[q] = at[q]
        /\ \/ at[c] = "synced" /\ at'[c] = "applied"
           \/ at[c] = "undone" /\ at'[c] = "unapplied"
        /\ turn' = turn /\ step' = step /\ applying' = None
    BY <1>1, <1>9 DEF Release, restore, Goto
  <2> QED
    BY <1>9, <2>1 DEF Outcome, Moves, Locked
<1> QED
  BY <1>2, <1>3, <1>4, <1>5, <1>6, <1>7, <1>8, <1>9 DEF TakesStep, ApplyStep, Begins

\* A step of the restore: its reconcile begins with a save, and goes with it.
LEMMA RestoreMoves ==
    ASSUME IInv, HolderInv, RestoreStep
    PROVE  /\ UNCHANGED <<turn, applying>>
           /\ \A q \in Clients \ {Restorer} : at'[q] = at[q]
           /\ step' \in {"reconcile", "rereconcile"} => at'[Restorer] = "loaded"
           /\ step' \notin {"reconcile", "rereconcile"} => at'[Restorer] = "new"
           /\ at[Restorer] \in Reconciled \/ at[Restorer] = "new"
           /\ at[Restorer] # "new" => at'[Restorer] = "new"
           /\ RestoreRank[step'] < RestoreRank[step] /\ RestoreRank[step'] \in Nat
<1>1. at \in [Clients -> Places] /\ Restorer \in Clients
  BY Kinds DEF IInv, TypeOK
<1>2. CASE TakeSafety \/ TakeDown
  BY <1>2, RestoreRanks
     DEF TakeSafety, TakeDown, locks, clients, HolderInv, Ended, Failing
<1>3. CASE WriteSnapshot \/ Rewrite
  BY <1>3, RestoreRanks
     DEF WriteSnapshot, Rewrite, Replace, locks, clients, HolderInv, Ended, Failing
<1>4. CASE Reload \/ ReloadRecovered
  BY <1>4, RestoreRanks
     DEF Reload, ReloadRecovered, LoadAgain, locks, HolderInv, Ended, Failing
<1>5. CASE Save \/ SaveRecovered
  BY <1>1, <1>5, RestoreRanks
     DEF Save, SaveRecovered, SaveAgain, Replace, locks, HolderInv, Ended, Failing, Goto
<1>6. CASE EndRestored \/ EndRecovered
  BY <1>1, <1>6, RestoreRanks
     DEF EndRestored, EndRecovered, EndReconcile, locks, HolderInv, Ended, Goto
<1> QED
  BY <1>2, <1>3, <1>4, <1>5, <1>6 DEF RestoreStep

LEMMA StepKinds ==
    ASSUME [Next]_vars
    PROVE  \/ \E c \in Clients : Begins(c) \/ TakesStep(c)
           \/ RestoreStep
           \/ Crash
           \/ /\ UNCHANGED <<at, turn, applying>>
              /\ step' = step \/ (step = "new" /\ step' \in {"safety", "down"})
<1>1. CASE UNCHANGED vars
  BY <1>1 DEF vars, locks, clients, restore
<1>2. CASE TakeSnapshot \/ \E force \in BOOLEAN : BeginRestore(force)
  BY <1>2 DEF TakeSnapshot, BeginRestore, locks, clients
<1> QED
  BY <1>1, <1>2, Kinds DEF Next, Begins, TakesStep

LEMMA CrashEnds ==
    ASSUME IInv, Crash
    PROVE  /\ turn' = None /\ applying' = None
           /\ \A c \in Clients : /\ at'[c] \in {"new", "acked", "rejected"}
                                 /\ at'[c] # at[c] /\ c \in Jobs => at'[c] = "new"
           /\ step' = step \/ step' = "crashed"
BY Kinds DEF Crash

LEMMA HolderKeeps ==
    ASSUME IInv, HolderInv, [Next]_vars
    PROVE  HolderInv'
<1>1. /\ turn \in Queued \cup {None} /\ applying \in Jobs \cup {None}
      /\ Restorer \in Clients /\ None \notin Clients
  BY Kinds DEF IInv, TypeOK
<1>2. ASSUME NEW c \in Clients, Begins(c) \/ TakesStep(c)
      PROVE  HolderInv'
  <2>1. Outcome(c)
    BY <1>2, ClientMoves
  <2>2. turn' # None => at'[turn'] \notin {"new", "acked", "rejected"}
    <3>1. CASE c \in Queued
      <4>1. at[c] = "new" => at'[c] = "loaded"
        BY <2>1 DEF Outcome, Moves, Reconciled
      <4> QED
        BY <1>1, <2>1, <3>1, <4>1, Kinds DEF HolderInv, Busy, Outcome
    <3>2. CASE c \notin Queued
      BY <1>1, <2>1, <3>2, Kinds DEF HolderInv, Busy, Outcome
    <3> QED
      BY <3>1, <3>2
  <2>3. ASSUME NEW q \in Clients
        PROVE  at'[q] \in Locked <=> applying' = q
    BY <1>1, <2>1 DEF HolderInv, Outcome
  <2>4. step' \notin {"reconcile", "rereconcile"} => at'[Restorer] = "new"
    BY <1>1, <2>1 DEF HolderInv, Outcome
  <2>5. at'[Restorer] \notin {"acked", "rejected"}
    BY <1>1, <2>1, Kinds DEF HolderInv, Outcome
  <2> QED
    BY <2>2, <2>3, <2>4, <2>5 DEF HolderInv, Busy
<1>3. CASE RestoreStep
  <2>1. /\ UNCHANGED <<turn, applying>>
        /\ \A q \in Clients \ {Restorer} : at'[q] = at[q]
        /\ step' \in {"reconcile", "rereconcile"} => at'[Restorer] = "loaded"
        /\ step' \notin {"reconcile", "rereconcile"} => at'[Restorer] = "new"
        /\ at[Restorer] \notin Locked
    BY <1>3, RestoreMoves DEF Locked, Reconciled
  <2>2. at'[Restorer] \in {"loaded", "new"}
    BY <2>1
  <2>3. turn # Restorer
    BY <1>1, Kinds
  <2> QED
    BY <1>1, <2>1, <2>2, <2>3, Kinds DEF HolderInv, Busy, Locked
<1>4. CASE Crash
  BY <1>1, <1>4, CrashEnds, Kinds DEF HolderInv, Busy, Locked
<1>5. CASE /\ UNCHANGED <<at, turn, applying>>
           /\ step' = step \/ (step = "new" /\ step' \in {"safety", "down"})
  BY <1>5 DEF HolderInv, Busy
<1> QED
  BY <1>2, <1>3, <1>4, <1>5, StepKinds

LEMMA Descent ==
    ASSUME NEW x \in Places, NEW y \in Places, Moves(x, y), x # "new"
    PROVE  Rank[y] < Rank[x]
BY Ranks DEF Moves, Reconciled

LEMMA ClientsAdvance ==
    ASSUME IInv, IInv', HolderInv, [Next]_vars,
           NEW c \in Clients, Rank[at[c]] > 0
    PROVE  /\ Rank[at'[c]] <= Rank[at[c]]
           /\ TakesStep(c) => Rank[at'[c]] < Rank[at[c]]
<1>1. /\ at[c] \in Places /\ at'[c] \in Places
      /\ at[c] # "new" /\ Rank[at[c]] \in Nat
  BY Ranks DEF IInv, TypeOK, Places, Locked, Reconciled
<1>2. ASSUME Begins(c) \/ TakesStep(c)
      PROVE  Rank[at'[c]] < Rank[at[c]]
  BY <1>1, <1>2, ClientMoves, Descent DEF Outcome
<1>3. ASSUME NEW q \in Clients \ {c}, Begins(q) \/ TakesStep(q)
      PROVE  at'[c] = at[c]
  BY <1>3, ClientMoves DEF Outcome
<1>4. ASSUME RestoreStep
      PROVE  Rank[at'[c]] <= Rank[at[c]]
  <2>1. at'[c] = at[c] \/ at'[c] = "new"
    BY <1>1, <1>4, RestoreMoves
  <2> QED
    BY <1>1, <2>1, Ranks
<1>5. ASSUME Crash
      PROVE  Rank[at'[c]] <= Rank[at[c]]
  BY <1>1, <1>5, CrashEnds, Ranks
<1>6. Rank[at'[c]] \in Nat
  BY <1>1, Ranks DEF Places, Locked, Reconciled
<1>7. Rank[at'[c]] <= Rank[at[c]]
  BY <1>1, <1>2, <1>3, <1>4, <1>5, <1>6, StepKinds
<1> QED
  BY <1>2, <1>7

LEMMA RestoreAdvances ==
    ASSUME IInv, HolderInv, [Next]_vars
    PROVE  /\ RestoreRank[step'] <= RestoreRank[step]
           /\ RestoreStep => RestoreRank[step'] < RestoreRank[step]
<1>1. RestoreRank[step] \in Nat
  BY RestoreRanks DEF IInv, TypeOK, InProgress
<1>2. ASSUME RestoreStep
      PROVE  RestoreRank[step'] < RestoreRank[step] /\ RestoreRank[step'] \in Nat
  BY <1>2, RestoreMoves
<1>3. ASSUME NEW c \in Clients, Begins(c) \/ TakesStep(c)
      PROVE  step' = step
  BY <1>3, ClientMoves DEF Outcome
<1>4. ASSUME Crash
      PROVE  RestoreRank[step'] <= RestoreRank[step]
  BY <1>1, <1>4, CrashEnds, RestoreRanks DEF Ended
<1>5. RestoreRank[step'] <= RestoreRank[step]
  BY <1>1, <1>2, <1>3, <1>4, StepKinds, RestoreRanks
<1> QED
  BY <1>2, <1>5

LEMMA HolderInvariance == Spec => []HolderInv
<1>1. Init => HolderInv
  BY Kinds DEF Init, HolderInv, Locked
<1>2. IInv /\ HolderInv /\ [Next]_vars => HolderInv'
  BY HolderKeeps
<1> QED
  BY <1>1, <1>2, Invariance, PTL DEF Spec

\* The write queue and the apply lock never wait for each other, whoever has
\* them and whatever fails: a POST takes the lock inside the queue, a status
\* and the restore take it without, and none of them asks for the queue while
\* it has the lock.  Whoever has one of them, and the restore, is a bounded
\* number of its own steps from its end, and no step of another takes it back.
THEOREM HoldersRunOut == Spec => HoldersAdvance
<1>1. IInv /\ HolderInv =>
        /\ turn # None => Rank[at[turn]] > 0
        /\ applying # None => at[applying] \in Locked
        /\ applying \in Posts => turn = applying
  <2> SUFFICES ASSUME IInv, HolderInv
               PROVE  /\ turn # None => Rank[at[turn]] > 0
                      /\ applying # None => at[applying] \in Locked
                      /\ applying \in Posts => turn = applying
    OBVIOUS
  <2>1. turn # None => Rank[at[turn]] > 0
    BY Kinds, Ranks DEF IInv, TypeOK, HolderInv, Busy, Places, Locked, Reconciled
  <2>2. applying # None => at[applying] \in Locked
    BY Kinds DEF IInv, TypeOK, HolderInv
  <2>3. applying \in Posts => turn = applying
    BY <2>2, Kinds DEF IInv, TurnInv, Busy, Locked
  <2> QED
    BY <2>1, <2>2, <2>3
<1>2. IInv /\ IInv' /\ HolderInv /\ [Next]_vars =>
        [/\ \A c \in Clients : Rank[at[c]] > 0 =>
              /\ Rank[at'[c]] <= Rank[at[c]]
              /\ TakesStep(c) => Rank[at'[c]] < Rank[at[c]]
         /\ RestoreRank[step'] <= RestoreRank[step]
         /\ RestoreStep => RestoreRank[step'] < RestoreRank[step]]_vars
  BY ClientsAdvance, RestoreAdvances
<1> QED
  BY <1>1, <1>2, Invariance, HolderInvariance, PTL DEF Spec, HoldersAdvance
=============================================================================
