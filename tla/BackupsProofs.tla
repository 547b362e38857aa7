--------------------------- MODULE BackupsProofs ---------------------------
(***************************************************************************)
(* What retention and deletion keep, for any number of snapshots, any      *)
(* retention count, any times of import, failures and crashes.             *)
(***************************************************************************)
EXTENDS Backups, FiniteSetTheorems, TLAPS

(***************************************************************************)
(* Types, and what holds at each place of an operation: only a removal has *)
(* anything doomed, and a snapshot just published is whole and the newest  *)
(* by the time of its directory.                                           *)
(***************************************************************************)
PlaceInv ==
    /\ at # "remove" => doomed = {}
    /\ at \notin {"remove", "update"} => removed = {}
    /\ at \in {"publish", "summary", "list"} => kind # "delete"
    /\ at = "publish" => published < MaxSnapshots
    /\ at \in {"summary", "list"} =>
          published \in Whole /\ newer[published] = {}

TypeInv == TypeOK /\ PlaceInv

LEMMA TypeInit == Init => TypeInv
<1> SUFFICES ASSUME Init
             PROVE  TypeInv
  OBVIOUS
<1>1. published \in 0..MaxSnapshots /\ faults \in 0..MaxFaults
      /\ crashes \in 0..MaxCrashes
  BY BackupsAssumption DEF Init
<1>2. /\ files \in [Snapshots -> SUBSET Both]
      /\ newer \in [Snapshots -> SUBSET dirs]
      /\ created \in [Snapshots -> Nat]
  BY DEF Init
<1>3. TypeOK
  BY <1>1, <1>2 DEF Init, TypeOK, Kinds
<1> QED
  BY <1>3 DEF Init, TypeInv, PlaceInv

LEMMA FaultTypes ==
    ASSUME TypeInv, Fault
    PROVE  faults' \in 0..MaxFaults /\ crashes' \in 0..MaxCrashes
BY BackupsAssumption DEF Fault, TypeInv, TypeOK

\* An operation that gives up leaves the disk as it is.
LEMMA AbandonTypes ==
    ASSUME TypeInv, Abandon, UNCHANGED disk,
           faults' \in 0..MaxFaults, crashes' \in 0..MaxCrashes
    PROVE  TypeInv'
BY DEF Abandon, disk, TypeInv, TypeOK, PlaceInv

LEMMA FailTypes ==
    ASSUME TypeInv, Fail, UNCHANGED disk
    PROVE  TypeInv'
BY FaultTypes, AbandonTypes DEF Fail

LEMMA RenewedType ==
    ASSUME TypeInv, NEW s \in Snapshots
    PROVE  Renewed(s) \in [Snapshots -> SUBSET (dirs \cup {s})]
BY DEF Renewed, TypeInv, TypeOK

LEMMA TypePublish ==
    ASSUME TypeInv, Publish
    PROVE  TypeInv'
<1>1. CASE Fail /\ UNCHANGED disk
  BY <1>1, FailTypes
<1>2. CASE ~(Fail /\ UNCHANGED disk)
  <2> DEFINE s == published + 1
  <2>1. s \in Snapshots /\ s \notin dirs /\ published \in Nat /\ published' = s
    BY <1>2, BackupsAssumption DEF Publish, PublishOwn, PublishImported, PublishAt, TypeInv, TypeOK, PlaceInv, Snapshots
  <2>2. /\ dirs' = dirs \cup {s} /\ files' = [files EXCEPT ![s] = Both]
        /\ newer' = Renewed(s)
        /\ \E time \in Nat : created' = [created EXCEPT ![s] = time]
        /\ at' = "summary" /\ kind # "delete" /\ misread' = FALSE
        /\ UNCHANGED <<kind, doomed, removed, records, bounds>>
    BY <1>2, <2>1, BackupsAssumption DEF Publish, PublishOwn, PublishImported, PublishAt, TypeInv, PlaceInv
  <2>3. dirs' \subseteq 1..published'
    BY <2>1, <2>2 DEF TypeInv, TypeOK
  <2>4. newer' \in [Snapshots -> SUBSET dirs'] /\ newer'[s] = {}
    BY <2>1, <2>2, RenewedType DEF Renewed
  <2>5. /\ files' \in [Snapshots -> SUBSET Both] /\ files'[s] = Both
        /\ created' \in [Snapshots -> Nat]
    BY <2>1, <2>2 DEF TypeInv, TypeOK
  <2>6. 1..published \subseteq 1..published'
    BY <2>1
  <2>7. published' \in 0..MaxSnapshots
    BY <2>1, BackupsAssumption DEF Snapshots
  <2>8. s \in Whole'
    BY <2>2, <2>5 DEF Whole
  <2>9. TypeOK'
    BY <2>2, <2>3, <2>4, <2>5, <2>6, <2>7 DEF records, bounds, TypeInv, TypeOK
  <2> QED
    BY <1>2, <2>1, <2>2, <2>4, <2>8, <2>9 DEF Publish, PublishOwn, PublishImported, PublishAt, TypeInv, PlaceInv
<1> QED
  BY <1>1, <1>2

LEMMA TypeRemove ==
    ASSUME TypeInv, NEW s \in doomed,
           (\E file \in Both : RemoveFile(s, file)) \/ RemoveDir(s) \/ RemoveFails(s)
    PROVE  TypeInv'
<1>1. s \in dirs /\ s \in Snapshots /\ s \in 1..published
  BY BackupsAssumption DEF TypeInv, TypeOK, Snapshots
<1>2. ASSUME NEW file \in Both, RemoveFile(s, file)
      PROVE  TypeInv'
  <2>1. newer' \in [Snapshots -> SUBSET dirs] /\ files' \in [Snapshots -> SUBSET Both]
    BY <1>1, <1>2, RenewedType DEF RemoveFile, TypeInv, TypeOK
  <2> QED
    BY <1>1, <1>2, <2>1
       DEF RemoveFile, Removing, records, bounds, TypeInv, TypeOK, PlaceInv
<1>3. CASE RemoveDir(s)
  <2>1. newer' \in [Snapshots -> SUBSET dirs']
    BY <1>1, <1>3 DEF RemoveDir, TypeInv, TypeOK
  <2>2. created' \in [Snapshots -> Nat]
    BY <1>1, <1>3 DEF RemoveDir, TypeInv, TypeOK
  <2> QED
    BY <1>1, <1>3, <2>1, <2>2
       DEF RemoveDir, Removing, records, bounds, TypeInv, TypeOK, PlaceInv
<1>4. CASE RemoveFails(s)
  <2>1. CASE kind = "delete" /\ Fail
    BY <1>4, <2>1, FailTypes DEF RemoveFails
  <2>2. CASE doomed' = doomed \ {s} /\ Fault
             /\ UNCHANGED <<at, kind, removed, records, misread>>
    BY <1>4, <2>2, FaultTypes
       DEF RemoveFails, Removing, disk, records, TypeInv, TypeOK, PlaceInv, Whole
  <2> QED
    BY <1>4, <2>1, <2>2 DEF RemoveFails
<1> QED
  BY <1>2, <1>3, <1>4

LEMMA TypeNext ==
    ASSUME TypeInv, [Next]_vars
    PROVE  TypeInv'
<1> USE DEF records, bounds
<1>1. CASE UNCHANGED vars
  BY <1>1 DEF vars, disk, TypeInv, TypeOK, PlaceInv, Whole
<1>2. ASSUME NEW k \in Kinds \ {"delete"}, Begin(k)
      PROVE  TypeInv'
  BY <1>2 DEF Begin, disk, TypeInv, TypeOK, PlaceInv, Kinds
<1>3. ASSUME NEW s \in dirs, BeginDelete(s)
      PROVE  TypeInv'
  <2>1. /\ faults' \in 0..MaxFaults /\ crashes' \in 0..MaxCrashes
        /\ misread' \in BOOLEAN
    BY <1>3, FaultTypes DEF BeginDelete, TypeInv, TypeOK
  <2> QED
    BY <1>3, <2>1 DEF BeginDelete, disk, TypeInv, TypeOK, PlaceInv, Kinds
<1>4. CASE Summarize
  <2>1. CASE Fail /\ UNCHANGED disk
    BY <2>1, FailTypes
  <2>2. CASE UNCHANGED <<disk, kind, doomed, removed, records, misread, bounds>>
             /\ at' = CASE kind = "create" -> "list"
                        [] kind = "import" -> "update"
                        [] OTHER -> "idle"
    <3>1. at' \in {"list", "update", "idle"} /\ at = "summary"
      BY <1>4, <2>2 DEF Summarize
    <3> QED
      BY <2>2, <3>1 DEF disk, TypeInv, TypeOK, PlaceInv, Whole
  <2> QED
    BY <1>4, <2>1, <2>2 DEF Summarize
<1>5. CASE ListSnapshots
  <2>1. CASE Fail /\ UNCHANGED disk
    BY <2>1, FailTypes
  <2>2. CASE ~(Fail /\ UNCHANGED disk)
    <3>1. /\ at' = "remove" /\ doomed' \subseteq dirs
          /\ UNCHANGED <<disk, kind, removed, records, misread>>
          /\ UNCHANGED bounds \/ Fault
      BY <1>5, <2>2 DEF ListSnapshots, Excess
    <3> QED
      BY <3>1, FaultTypes DEF disk, TypeInv, TypeOK, PlaceInv
  <2> QED
    BY <2>1, <2>2
<1>6. CASE Remove
  BY <1>6, TypeRemove DEF Remove
<1>7. CASE EndRemoval
  BY <1>7 DEF EndRemoval, disk, TypeInv, TypeOK, PlaceInv
<1>8. CASE Update
  <2>1. CASE Fail /\ UNCHANGED disk
    BY <2>1, FailTypes
  <2>2. CASE ~(Fail /\ UNCHANGED disk)
    BY <1>8, <2>2 DEF Update, disk, TypeInv, TypeOK, PlaceInv
  <2> QED
    BY <2>1, <2>2
<1>9. CASE Crash
  <2>1. faults' \in 0..MaxFaults /\ crashes' \in 0..MaxCrashes
    BY <1>9, BackupsAssumption DEF Crash, TypeInv, TypeOK
  <2> QED
    BY <1>9, <2>1, AbandonTypes DEF Crash
<1> QED
  BY <1>1, <1>2, <1>3, <1>4, <1>5, <1>6, <1>7, <1>8, <1>9, TypePublish DEF Next, Step

LEMMA TypeHolds == Spec => []TypeInv
<1>1. TypeInv /\ [Next]_vars => TypeInv'
  BY TypeNext
<1> QED
  BY <1>1, TypeInit, PTL DEF Spec

(***************************************************************************)
(* Every reachable state of the snapshots and operations is well-typed.    *)
(***************************************************************************)
THEOREM TypeCorrect == Spec => []TypeOK
<1>1. TypeInv => TypeOK
  BY DEF TypeInv
<1> QED
  BY <1>1, TypeHolds, PTL

-----------------------------------------------------------------------------
(***************************************************************************)
(* A whole snapshot stays.  During a removal there is one outside the list *)
(* of the doomed: for retention the one just published, for a deletion the *)
(* one that comes first by created_at.                                     *)
(***************************************************************************)
WholeInv == published > 0 /\ ~misread => Whole \ doomed # {}

\* Of what leaves the snapshots and their files alone.
LEMMA WholeStays ==
    ASSUME WholeInv, UNCHANGED <<disk, misread>>, doomed' \subseteq doomed
    PROVE  WholeInv'
BY DEF WholeInv, disk, Whole

LEMMA WholePublish ==
    ASSUME TypeInv, WholeInv, Publish
    PROVE  WholeInv'
<1>1. CASE Fail /\ UNCHANGED disk
  BY <1>1, WholeStays DEF Fail, Abandon
<1>2. CASE ~(Fail /\ UNCHANGED disk)
  <2> DEFINE s == published + 1
  <2>1. s \in Snapshots
    BY <1>2, BackupsAssumption DEF Publish, PublishOwn, PublishImported, PublishAt, TypeInv, TypeOK, PlaceInv, Snapshots
  <2>2. /\ dirs' = dirs \cup {s} /\ files' = [files EXCEPT ![s] = Both]
        /\ doomed' = doomed /\ doomed = {}
    BY <1>2 DEF Publish, PublishOwn, PublishImported, PublishAt, TypeInv, PlaceInv
  <2>3. s \in Whole' \ doomed'
    BY <2>1, <2>2 DEF Whole, TypeInv, TypeOK
  <2> QED
    BY <2>3 DEF WholeInv
<1> QED
  BY <1>1, <1>2

LEMMA WholeList ==
    ASSUME TypeInv, WholeInv, ListSnapshots
    PROVE  WholeInv'
<1>1. CASE Fail /\ UNCHANGED disk
  BY <1>1, WholeStays DEF Fail, Abandon
<1>2. CASE ~(Fail /\ UNCHANGED disk)
  <2>1. \A S \in SUBSET dirs : published \notin Excess(S)
    <3> SUFFICES ASSUME NEW S \in SUBSET dirs
                 PROVE  ~(Cardinality(newer[published] \cap S) >= RetentionCount)
      BY DEF Excess
    <3>1. newer[published] \cap S = {}
      BY DEF ListSnapshots, TypeInv, PlaceInv
    <3>2. Cardinality({}) = 0
      BY FS_EmptySet
    <3> QED
      BY <3>1, <3>2, BackupsAssumption
  <2>2. UNCHANGED disk /\ published \notin doomed' /\ published \in Whole
    BY <1>2, <2>1 DEF ListSnapshots, TypeInv, PlaceInv
  <2> QED
    BY <2>2 DEF WholeInv, Whole, disk
<1> QED
  BY <1>1, <1>2

LEMMA WholeDelete ==
    ASSUME TypeInv, WholeInv, NEW s \in dirs, BeginDelete(s)
    PROVE  WholeInv'
<1> SUFFICES ASSUME ~misread'
             PROVE  Whole \ {s} # {}
  BY DEF WholeInv, Whole, BeginDelete, disk
<1>1. Whole # {} /\ ~Refused(s, Whole)
  BY DEF BeginDelete, WholeInv, TypeInv, TypeOK, PlaceInv
<1>2. SUFFICES ASSUME Whole \ {s} = {}
               PROVE  FALSE
  OBVIOUS
<1>3. Whole = {s} /\ created[s] \in Nat
  BY <1>1, <1>2, BackupsAssumption DEF TypeInv, TypeOK, Snapshots
<1>4. Latest(Whole) = {s}
  BY <1>3 DEF Latest
<1> QED
  BY <1>1, <1>4 DEF Refused

LEMMA WholeRemove ==
    ASSUME TypeInv, WholeInv, NEW s \in doomed,
           (\E file \in Both : RemoveFile(s, file)) \/ RemoveDir(s) \/ RemoveFails(s)
    PROVE  WholeInv'
<1>1. doomed' \subseteq doomed /\ UNCHANGED <<published, misread>>
  BY DEF RemoveFile, RemoveDir, RemoveFails, Fail, Abandon, disk
<1>2. ASSUME NEW t \in dirs, t # s, files[t] = Both
      PROVE  t \in dirs' /\ files'[t] = Both
  <2>1. t \in Snapshots
    BY BackupsAssumption DEF TypeInv, TypeOK, Snapshots
  <2>2. ASSUME NEW file \in Both, RemoveFile(s, file)
        PROVE  t \in dirs' /\ files'[t] = Both
    BY <1>2, <2>1, <2>2 DEF RemoveFile, TypeInv, TypeOK
  <2>3. CASE RemoveDir(s) \/ RemoveFails(s)
    BY <1>2, <2>3 DEF RemoveDir, RemoveFails, disk
  <2> QED
    BY <2>2, <2>3
<1>3. Whole \ doomed \subseteq Whole'
  BY <1>2 DEF Whole
<1> QED
  BY <1>1, <1>3 DEF WholeInv

LEMMA WholeNext ==
    ASSUME TypeInv, WholeInv, [Next]_vars
    PROVE  WholeInv'
<1>1. CASE Remove
  BY <1>1, WholeRemove DEF Remove
<1>2. ASSUME UNCHANGED <<disk, misread>>, doomed' \subseteq doomed
      PROVE  WholeInv'
  BY <1>2, WholeStays
<1>3. CASE UNCHANGED vars \/ Summarize \/ EndRemoval \/ Update \/ Crash
           \/ \E k \in Kinds \ {"delete"} : Begin(k)
  BY <1>2, <1>3
     DEF vars, Begin, Summarize, EndRemoval, Update, Crash, Fail, Abandon
<1> QED
  BY <1>1, <1>3, WholePublish, WholeList, WholeDelete DEF Next, Step

(***************************************************************************)
(* From each publication on there is a whole snapshot, unless a deletion   *)
(* after it misread what is there.                                         *)
(***************************************************************************)
THEOREM LastSnapshotIsKept == Spec => []WholeSnapshotStays
<1>1. Init => WholeInv
  BY DEF Init, WholeInv
<1>2. TypeInv /\ WholeInv /\ [Next]_vars => WholeInv'
  BY WholeNext
<1>3. WholeInv => WholeSnapshotStays
  BY DEF WholeInv, WholeSnapshotStays
<1> QED
  BY <1>1, <1>2, <1>3, TypeHolds, PTL DEF Spec

-----------------------------------------------------------------------------
(***************************************************************************)
(* The record of removals.                                                 *)
(***************************************************************************)
AuditInv ==
    /\ (audited \cup removed) \cap dirs = {}
    /\ 1..published \ dirs \subseteq audited \cup missed \cup removed

LEMMA AuditNext ==
    ASSUME TypeInv, AuditInv, [Next]_vars
    PROVE  AuditInv'
<1>1. CASE Publish /\ at' = "summary"
  <2>1. /\ published' = published + 1 /\ dirs' = dirs \cup {published + 1}
        /\ UNCHANGED <<removed, audited, missed>> /\ published \in Nat
    BY <1>1 DEF Publish, PublishOwn, PublishImported, PublishAt, Fail, Abandon, records, TypeInv, TypeOK
  <2>2. published + 1 \notin audited \cup removed
    BY <2>1 DEF TypeInv, TypeOK
  <2> QED
    BY <2>1, <2>2 DEF AuditInv
<1>2. ASSUME NEW s \in doomed, RemoveDir(s)
      PROVE  AuditInv'
  <2>1. s \in dirs
    BY DEF TypeInv, TypeOK
  <2> QED
    BY <1>2, <2>1 DEF RemoveDir, records, AuditInv
<1>3. CASE UNCHANGED <<published, dirs, removed, records>>
  BY <1>3 DEF AuditInv, records
<1>4. CASE UNCHANGED disk /\ Abandon
  BY <1>4 DEF Abandon, AuditInv, disk
<1>5. CASE Update
  <2>1. CASE Fail
    BY <1>4, <1>5, <2>1 DEF Update, Fail
  <2>2. CASE audited' = audited \cup removed /\ removed' = {} /\ UNCHANGED missed
    BY <1>5, <2>2 DEF Update, AuditInv, disk
  <2> QED
    BY <1>5, <2>1, <2>2 DEF Update
<1>6. CASE Publish /\ at' # "summary"
  BY <1>4, <1>6 DEF Publish, PublishOwn, PublishImported, PublishAt, Fail
<1>7. ASSUME NEW s \in doomed, (\E file \in Both : RemoveFile(s, file)) \/ RemoveFails(s)
      PROVE  AuditInv'
  BY <1>3, <1>4, <1>7 DEF RemoveFile, RemoveFails, Fail, disk, records
<1>8. CASE UNCHANGED vars \/ Summarize \/ ListSnapshots \/ EndRemoval \/ Crash
           \/ (\E k \in Kinds \ {"delete"} : Begin(k))
           \/ \E s \in dirs : BeginDelete(s)
  BY <1>3, <1>4, <1>8
     DEF vars, disk, Begin, BeginDelete, Summarize, ListSnapshots, EndRemoval,
         Crash, Fail
<1> QED
  BY <1>1, <1>2, <1>5, <1>6, <1>7, <1>8 DEF Next, Step, Remove

(***************************************************************************)
(* The events and the disk agree on what has been removed.                 *)
(***************************************************************************)
THEOREM RemovalsAreAudited == Spec => []RemovalsAudited
<1>1. Init => AuditInv
  BY DEF Init, AuditInv
<1>2. TypeInv /\ AuditInv /\ [Next]_vars => AuditInv'
  BY AuditNext
<1>3. TypeInv /\ AuditInv => RemovalsAudited
  BY DEF TypeInv, PlaceInv, AuditInv, RemovalsAudited
<1> QED
  BY <1>1, <1>2, <1>3, TypeHolds, PTL DEF Spec

-----------------------------------------------------------------------------
(***************************************************************************)
(* Retention.  A directory with a later time was published later, or is    *)
(* what an interrupted removal has left.                                   *)
(***************************************************************************)
NewerInv ==
    \A s \in dirs : \A t \in newer[s] : t > s \/ files[t] # Both

LEMMA NewerNext ==
    ASSUME TypeInv, NewerInv, [Next]_vars
    PROVE  NewerInv'
<1>1. CASE Publish /\ at' = "summary"
  <2> DEFINE n == published + 1
  <2>1. /\ n \in Snapshots /\ published \in Nat
        /\ dirs' = dirs \cup {n} /\ newer' = Renewed(n)
        /\ files' = [files EXCEPT ![n] = Both]
    BY <1>1, BackupsAssumption
       DEF Publish, PublishOwn, PublishImported, PublishAt, Fail, Abandon, TypeInv, TypeOK, PlaceInv, Snapshots
  <2>2. \A t \in dirs : files'[t] = files[t] /\ n > t
    BY <2>1 DEF TypeInv, TypeOK
  <2>5. \A s \in Snapshots : newer'[s] =
            IF s \in dirs \ {n} THEN newer[s] \cup {n} ELSE {}
    BY <2>1 DEF Renewed
  <2>6. dirs \subseteq Snapshots
    BY BackupsAssumption DEF TypeInv, TypeOK, Snapshots
  <2>3. newer'[n] = {} /\ \A s \in dirs : newer'[s] \subseteq newer[s] \cup {n}
    BY <2>1, <2>5, <2>6
  <2>4. \A s \in dirs : newer[s] \subseteq dirs
    BY BackupsAssumption DEF TypeInv, TypeOK, Snapshots
  <2> QED
    BY <2>1, <2>2, <2>3, <2>4 DEF NewerInv
<1>2. ASSUME NEW s \in doomed, NEW file \in Both, RemoveFile(s, file)
      PROVE  NewerInv'
  <2>1. s \in dirs /\ s \in Snapshots
    BY BackupsAssumption DEF TypeInv, TypeOK, Snapshots
  <2>2. /\ dirs' = dirs /\ newer' = Renewed(s)
        /\ files'[s] # Both /\ \A t \in Snapshots \ {s} : files'[t] = files[t]
    BY <1>2, <2>1 DEF RemoveFile, TypeInv, TypeOK
  <2>5. \A t \in Snapshots : newer'[t] =
            IF t \in dirs \ {s} THEN newer[t] \cup {s} ELSE {}
    BY <2>2 DEF Renewed
  <2>6. dirs \subseteq Snapshots
    BY BackupsAssumption DEF TypeInv, TypeOK, Snapshots
  <2>3. \A t \in dirs : newer'[t] \subseteq newer[t] \cup {s}
    BY <2>5, <2>6
  <2>4. \A t \in dirs : newer[t] \subseteq Snapshots
    BY <2>6 DEF TypeInv, TypeOK
  <2> QED
    BY <2>2, <2>3, <2>4 DEF NewerInv
<1>3. ASSUME NEW s \in doomed, RemoveDir(s)
      PROVE  NewerInv'
  <2>1. dirs' \subseteq dirs /\ files' = files
        /\ \A t \in dirs : newer'[t] \subseteq newer[t]
    BY <1>3, BackupsAssumption DEF RemoveDir, TypeInv, TypeOK, Snapshots
  <2> QED
    BY <2>1 DEF NewerInv
<1>4. CASE UNCHANGED disk
  BY <1>4 DEF NewerInv, disk
<1> QED
  BY <1>1, <1>2, <1>3, <1>4
     DEF Next, Step, vars, Begin, BeginDelete, Publish, PublishOwn, PublishImported, PublishAt, Summarize, ListSnapshots,
         Remove, RemoveFails, EndRemoval, Update, Crash, Fail, Abandon

\* What NewerInv means for the number of newer directories.
LEMMA NewerCount ==
    ASSUME TypeInv, NewerInv, NEW S \in SUBSET dirs, NEW s \in Excess(S)
    PROVE  published - s >= RetentionCount - Cardinality(Leftovers)
<1>1. s \in dirs /\ s \in 1..published /\ published \in Nat /\ s \in Snapshots
  BY BackupsAssumption DEF Excess, TypeInv, TypeOK, Snapshots
<1>2. Cardinality(newer[s] \cap S) >= RetentionCount
  BY DEF Excess
<1>3. newer[s] \cap S \in SUBSET (((s + 1)..published) \cup Leftovers)
  <2> SUFFICES ASSUME NEW t \in newer[s], t \in S
               PROVE  t \in ((s + 1)..published) \cup Leftovers
    OBVIOUS
  <2>1. t \in dirs /\ t \in 1..published
    BY DEF TypeInv, TypeOK
  <2>2. t > s \/ files[t] # Both
    BY <1>1 DEF NewerInv
  <2>3. files[t] # Both => t \in Leftovers
    BY <2>1 DEF Leftovers, Whole
  <2> QED
    BY <1>1, <2>1, <2>2, <2>3
<1>4. /\ IsFiniteSet((s + 1)..published)
      /\ Cardinality((s + 1)..published) = published - s
  BY <1>1, FS_Interval
<1>5. IsFiniteSet(Leftovers)
  <2>1. IsFiniteSet(1..published)
    BY <1>1, FS_Interval
  <2>2. Leftovers \in SUBSET (1..published)
    BY DEF Leftovers, TypeInv, TypeOK
  <2> QED
    BY <2>1, <2>2, FS_Subset
<1>6. /\ IsFiniteSet(((s + 1)..published) \cup Leftovers)
      /\ Cardinality(((s + 1)..published) \cup Leftovers)
            = Cardinality((s + 1)..published) + Cardinality(Leftovers)
              - Cardinality(((s + 1)..published) \cap Leftovers)
  BY <1>4, <1>5, FS_Union
<1>7. /\ IsFiniteSet(((s + 1)..published) \cap Leftovers)
      /\ IsFiniteSet(newer[s] \cap S)
      /\ Cardinality(newer[s] \cap S)
            <= Cardinality(((s + 1)..published) \cup Leftovers)
  <2>1. ((s + 1)..published) \cap Leftovers \in SUBSET Leftovers
    OBVIOUS
  <2> QED
    BY <1>3, <1>5, <1>6, <2>1, FS_Subset
<1>8. /\ Cardinality(Leftovers) \in Nat
      /\ Cardinality(((s + 1)..published) \cap Leftovers) \in Nat
      /\ Cardinality(newer[s] \cap S) \in Nat
  BY <1>5, <1>7, FS_CardinalityType
<1> QED
  BY <1>1, <1>2, <1>4, <1>6, <1>7, <1>8, BackupsAssumption

(***************************************************************************)
(* Retention dooms a snapshot only for RetentionCount later ones, less the *)
(* number of directories an interrupted removal has left.                  *)
(***************************************************************************)
THEOREM RecentAreKept == Spec => RetentionKeepsRecent
<1> DEFINE Kept == at = "list" => \A s \in doomed' :
            published - s >= RetentionCount - Cardinality(Leftovers)
<1>1. Init => NewerInv
  BY DEF Init, NewerInv
<1>2. TypeInv /\ NewerInv /\ [Next]_vars => NewerInv'
  BY NewerNext
<1>3. TypeInv /\ NewerInv /\ [Next]_vars => [Kept]_vars
  <2> SUFFICES ASSUME TypeInv, NewerInv, Next, at = "list", NEW s \in doomed'
               PROVE  published - s >= RetentionCount - Cardinality(Leftovers)
    OBVIOUS
  <2>1. \E S \in SUBSET dirs : s \in Excess(S)
    <3>1. ListSnapshots \/ Crash
      BY DEF Next, Step, Begin, BeginDelete, Publish, PublishOwn, PublishImported, PublishAt, Summarize, Remove,
             RemoveFile, RemoveDir, RemoveFails, Removing, EndRemoval, Update
    <3>2. ListSnapshots
      BY <3>1 DEF Crash, Abandon
    <3>3. doomed' = Excess(dirs) \/ \E t \in dirs : doomed' = Excess(dirs \ {t})
      BY <3>2 DEF ListSnapshots, Fail, Abandon
    <3> QED
      BY <3>3
  <2> QED
    BY <2>1, NewerCount
<1>4. RetentionKeepsRecent <=> [][Kept]_vars
  BY DEF RetentionKeepsRecent
<1> QED
  BY <1>1, <1>2, <1>3, <1>4, TypeHolds, PTL DEF Spec

=============================================================================
