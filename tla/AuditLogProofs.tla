--------------------------- MODULE AuditLogProofs ---------------------------
(***************************************************************************)
(* What the audit log keeps, for any number of events, any file size, any  *)
(* retention, failures, crashes and queries.                               *)
(***************************************************************************)
EXTENDS AuditLog, FiniteSetTheorems, WellFoundedInduction, TLAPS

(***************************************************************************)
(* Types, and what each place of doAppend relies on.                       *)
(***************************************************************************)
WithFile == {"write", "sync", "stat", "close", "rename"}

PlaceInv ==
    /\ writing = 0 <=> at = "idle"
    /\ at \in {"open", "rename", "list", "unlink"} => handle = "null"
    /\ handle # "null" => current # None
    /\ at \in WithFile => current # None
    /\ at \in {"sync", "stat"} => handle = "open"

TypeInv == TypeOK /\ PlaceInv

LEMMA EmptyIsFile == EmptyFile \in File /\ EmptyFile # None
<1>1. {} \in SUBSET Events /\ 0 \in Nat /\ FALSE \in BOOLEAN
  OBVIOUS
<1>2. EmptyFile \in File
  BY <1>1, Zenon DEF File, EmptyFile
<1> QED
  BY <1>2, AuditLogAssumption DEF File

\* Every kind of file that is made out of audit.log is one.
LEMMA FilesAreFiles ==
    ASSUME NEW f \in File, NEW e \in Events
    PROVE  /\ WithLine(f, e) \in File /\ WithLine(f, e) # None
           /\ Torn(f) \in File /\ Torn(f) # None
<1>1. f.events \in SUBSET Events /\ f.size \in Nat
  BY DEF File
<1>3. WithLine(f, e) \in File
  BY <1>1 DEF File, WithLine
<1>4. Torn(f) \in File
  BY <1>1 DEF File, Torn
<1> QED
  BY <1>3, <1>4, AuditLogAssumption DEF File

LEMMA TypeInit == Init => TypeInv
<1> SUFFICES ASSUME Init
             PROVE  TypeInv
  OBVIOUS
<1>1. rotated \in Seq(SUBSET Events)
  BY DEF Init
<1>2. settled \in [Events -> Outcomes]
  BY DEF Init, Outcomes
<1>3. /\ faults \in 0..MaxFaults /\ crashes \in 0..MaxCrashes
      /\ queries \in 0..MaxQueries /\ writing \in 0..MaxEvents
  BY AuditLogAssumption DEF Init
<1>4. TypeOK
  BY <1>1, <1>2, <1>3 DEF Init, TypeOK, Places
<1> QED
  BY <1>4 DEF Init, TypeInv, PlaceInv, WithFile

LEMMA TypeEmit ==
    ASSUME TypeInv, NEW e \in Events, Emit(e)
    PROVE  TypeInv'
BY DEF TypeInv, TypeOK, PlaceInv, Emit, log, query, Outcomes

(***************************************************************************)
(* The types that a step of doAppend can change, and those that all of its *)
(* steps leave alone.                                                      *)
(***************************************************************************)
AppendTypes ==
    /\ settled \in [Events -> Outcomes]
    /\ writing \in 0..MaxEvents
    /\ at \in Places
    /\ faults \in 0..MaxFaults

LEMMA GotoTypes ==
    ASSUME TypeInv, NEW place \in Places, Goto(place)
    PROVE  AppendTypes' /\ at' = place /\ writing' = writing
BY DEF TypeInv, TypeOK, AppendTypes, Goto

LEMMA SettleTypes ==
    ASSUME TypeInv, NEW outcome \in {"ok", "failed"}, Settle(outcome),
           faults' \in 0..MaxFaults
    PROVE  AppendTypes' /\ writing' = 0 /\ at' = "idle"
<1>1. settled' \in [Events -> Outcomes]
  BY DEF TypeInv, TypeOK, Settle, Outcomes
<1> QED
  BY <1>1, AuditLogAssumption DEF AppendTypes, Settle, Places

LEMMA FailTypes ==
    ASSUME TypeInv, Fail
    PROVE  AppendTypes' /\ writing' = 0 /\ at' = "idle"
<1>1. faults' \in 0..MaxFaults
  BY AuditLogAssumption DEF Fail, Fault, TypeInv, TypeOK
<1> QED
  BY <1>1, SettleTypes DEF Fail

LEMMA TypeBegin ==
    ASSUME TypeInv, NEW e \in Events, BeginAppend(e)
    PROVE  TypeInv'
<1>1. e \in 0..MaxEvents /\ e # 0
  BY DEF Events
<1> QED
  BY <1>1 DEF BeginAppend, query, TypeInv, TypeOK, PlaceInv, WithFile, Places

LEMMA TypeOpen ==
    ASSUME TypeInv, Open
    PROVE  TypeInv'
<1>1. CASE Goto("write") /\ handle' = "open"
           /\ current' = IF current = None THEN EmptyFile ELSE current
  <2>1. current' \in File /\ current' # None
    BY <1>1, EmptyIsFile DEF TypeInv, TypeOK
  <2>2. AppendTypes' /\ at' = "write" /\ writing' = writing
    BY <1>1, GotoTypes DEF Places
  <2> QED
    BY <1>1, <2>1, <2>2
       DEF Open, query, TypeInv, TypeOK, AppendTypes, PlaceInv, WithFile
<1>2. CASE Fail /\ UNCHANGED <<handle, current>>
  BY <1>2, FailTypes
     DEF Open, query, TypeInv, TypeOK, AppendTypes, PlaceInv, WithFile
<1> QED
  BY <1>1, <1>2 DEF Open

LEMMA TypeWrite ==
    ASSUME TypeInv, Write
    PROVE  TypeInv'
<1>1. current \in File /\ current # None /\ writing \in Events
  BY DEF TypeInv, TypeOK, PlaceInv, Write, WithFile, Events
<1>2. /\ WithLine(current, writing) \in File
      /\ WithLine(current, writing) # None
      /\ Torn(current) \in File /\ Torn(current) # None
  BY <1>1, FilesAreFiles
<1>3. CASE at' = "sync"
  <2>1. AppendTypes' /\ writing' = writing
    BY <1>3, GotoTypes, AuditLogAssumption
       DEF Write, Goto, Fail, Settle, Fault, Places, TypeInv, TypeOK, AppendTypes
  <2>2. current' \in File /\ current' # None /\ cut' \subseteq Events
        /\ handle = "open"
    BY <1>1, <1>2, <1>3
       DEF Write, CutShort, Fail, Settle, TypeInv, TypeOK
  <2> QED
    BY <1>3, <2>1, <2>2
       DEF Write, query, TypeInv, TypeOK, AppendTypes, PlaceInv, WithFile
<1>4. CASE at' # "sync"
  <2>1. AppendTypes' /\ writing' = 0 /\ at' = "idle"
    BY <1>4, FailTypes, SettleTypes
       DEF Write, Goto, TypeInv, TypeOK
  <2>2. current' \in File /\ current' # None /\ cut' \subseteq Events
    BY <1>1, <1>2, <1>4
       DEF Write, Goto, CutShort, TypeInv, TypeOK
  <2> QED
    BY <2>1, <2>2
       DEF Write, query, TypeInv, TypeOK, AppendTypes, PlaceInv, WithFile
<1> QED
  BY <1>3, <1>4

LEMMA TypeSyncStat ==
    ASSUME TypeInv, Sync \/ Stat
    PROVE  TypeInv'
<1>1. AppendTypes' /\ (\/ at' \in {"stat", "close"} /\ writing' = writing
                       \/ at' = "idle" /\ writing' = 0)
  BY GotoTypes, FailTypes, SettleTypes
     DEF Sync, Stat, Places, TypeInv, TypeOK
<1>2. handle = "open" /\ current # None /\ writing # 0
  BY DEF Sync, Stat, TypeInv, PlaceInv, WithFile
<1> QED
  BY <1>1, <1>2
     DEF Sync, Stat, query, TypeInv, TypeOK, AppendTypes, PlaceInv, WithFile

LEMMA TypeClose ==
    ASSUME TypeInv, Close
    PROVE  TypeInv'
<1>1. \/ AppendTypes' /\ at' = "rename" /\ writing' = writing
         /\ handle' = "null"
      \/ AppendTypes' /\ at' = "idle" /\ writing' = 0 /\ handle' = "dead"
  BY GotoTypes, FailTypes DEF Close, Places
<1>2. current # None /\ writing # 0
  BY DEF Close, TypeInv, PlaceInv, WithFile
<1> QED
  BY <1>1, <1>2
     DEF Close, query, TypeInv, TypeOK, AppendTypes, PlaceInv, WithFile

\* What a rotated file is appended to: the old names keep their events.
LEMMA RotatedGrows ==
    ASSUME TypeInv, Rename, at' = "list"
    PROVE  /\ rotated' \in Seq(SUBSET Events)
           /\ DOMAIN rotated = 1..Len(rotated) /\ Len(rotated) \in Nat
           /\ DOMAIN rotated' = 1..(Len(rotated) + 1)
           /\ \A n \in DOMAIN rotated : rotated'[n] = rotated[n]
           /\ rotated'[Len(rotated) + 1] = current.events
           /\ rotated' = Append(rotated, current.events)
           /\ present' = present \cup {Len(rotated) + 1}
           /\ current' = None /\ current \in File /\ current.events \subseteq Events
           /\ raced' = (raced \/ reading # "idle")
<1>1. current \in File /\ current.events \in SUBSET Events
  BY DEF TypeInv, TypeOK, PlaceInv, WithFile, Rename, File
<1>2. /\ rotated' = Append(rotated, current.events)
      /\ present' = present \cup {Len(rotated) + 1}
      /\ current' = None
      /\ raced' = (raced \/ reading # "idle")
  BY DEF Rename, Fail, Settle
<1>3. rotated \in Seq(SUBSET Events)
  BY DEF TypeInv, TypeOK
<1>4. /\ Len(rotated) \in Nat /\ DOMAIN rotated = 1..Len(rotated)
      /\ rotated' \in Seq(SUBSET Events)
      /\ Len(rotated') = Len(rotated) + 1
      /\ DOMAIN rotated' = 1..Len(rotated')
  BY <1>1, <1>2, <1>3
<1>5. /\ \A n \in DOMAIN rotated : rotated'[n] = rotated[n]
      /\ rotated'[Len(rotated) + 1] = current.events
  BY <1>1, <1>2, <1>3, <1>4
<1> QED
  BY <1>1, <1>2, <1>4, <1>5

LEMMA TypeRename ==
    ASSUME TypeInv, Rename
    PROVE  TypeInv'
<1>1. CASE at' = "list"
  <2>1. AppendTypes' /\ writing' = writing
    BY <1>1, GotoTypes DEF Rename, Places, Fail, Settle
  <2>2. /\ rotated' \in Seq(SUBSET Events)
        /\ DOMAIN rotated \subseteq DOMAIN rotated'
        /\ present' \subseteq DOMAIN rotated'
    BY <1>1, RotatedGrows DEF TypeInv, TypeOK
  <2>3. doomed' \subseteq present' /\ toRead' \subseteq DOMAIN rotated'
        /\ raced' \in BOOLEAN
    BY <1>1, <2>2, RotatedGrows DEF Rename, query, TypeInv, TypeOK
  <2>4. handle' = "null" /\ current' = None /\ writing # 0
    BY <1>1, RotatedGrows DEF Rename, TypeInv, PlaceInv
  <2> QED
    BY <1>1, <2>1, <2>2, <2>3, <2>4
       DEF Rename, query, TypeInv, TypeOK, AppendTypes, PlaceInv, WithFile
<1>2. CASE at' # "list"
  <2>1. /\ AppendTypes' /\ writing' = 0 /\ at' = "idle"
        /\ UNCHANGED <<rotated, present, current, raced>>
    BY <1>2, FailTypes DEF Rename, Goto
  <2> QED
    BY <2>1
       DEF Rename, query, TypeInv, TypeOK, AppendTypes, PlaceInv, WithFile
<1> QED
  BY <1>1, <1>2

LEMMA TypePrune ==
    ASSUME TypeInv, ListRotated \/ (\E n \in present : Unlink(n)) \/ EndAppend
    PROVE  TypeInv'
<1>1. handle = "null" \/ current # None
  BY DEF TypeInv, TypeOK, PlaceInv
<1>2. CASE ListRotated
  <2>1. /\ AppendTypes'
        /\ \/ at' = "unlink" /\ writing' = writing
           \/ at' = "idle" /\ writing' = 0
        /\ doomed' \subseteq present'
    BY <1>2, GotoTypes, FailTypes
       DEF ListRotated, Excess, Places, TypeInv, TypeOK
  <2> QED
    BY <1>2, <2>1
       DEF ListRotated, query, TypeInv, TypeOK, AppendTypes, PlaceInv, WithFile
<1>3. ASSUME NEW n \in present, Unlink(n)
      PROVE  TypeInv'
  <2>0. raced' \in BOOLEAN
    BY <1>3 DEF Unlink, TypeInv, TypeOK
  <2>1. faults' \in 0..MaxFaults
    BY <1>3, AuditLogAssumption DEF Unlink, Fault, TypeInv, TypeOK
  <2>2. present' \subseteq DOMAIN rotated /\ doomed' \subseteq present'
    BY <1>3 DEF Unlink, TypeInv, TypeOK
  <2> QED
    BY <1>3, <2>0, <2>1, <2>2
       DEF Unlink, query, TypeInv, TypeOK, PlaceInv, WithFile
<1>4. CASE EndAppend
  <2>1. AppendTypes' /\ writing' = 0 /\ at' = "idle"
    BY <1>4, SettleTypes DEF EndAppend, TypeInv, TypeOK
  <2> QED
    BY <1>4, <2>1
       DEF EndAppend, query, TypeInv, TypeOK, AppendTypes, PlaceInv, WithFile
<1> QED
  BY <1>2, <1>3, <1>4

LEMMA TypeAppend ==
    ASSUME TypeInv, DoAppend
    PROVE  TypeInv'
BY TypeBegin, TypeOpen, TypeWrite, TypeSyncStat, TypeClose, TypeRename, TypePrune
   DEF DoAppend, Rotate

LEMMA TypeQuery ==
    ASSUME TypeInv, Query
    PROVE  TypeInv'
<1>1. PlaceInv' /\ UNCHANGED <<settled, log, faults, crashes>>
  BY DEF Query, ListFiles, ReadCurrent, ReadRotated, EndQuery, Answer, log,
         TypeInv, PlaceInv, WithFile
<1>2. InCurrent \subseteq Events
  BY DEF InCurrent, TypeInv, TypeOK, File
<1>3. \A n \in DOMAIN rotated : rotated[n] \subseteq Events
  BY DEF TypeInv, TypeOK
<1>4. Logged \subseteq Events
  BY <1>2, <1>3 DEF Logged, TypeInv, TypeOK
<1>5. found' \subseteq Events /\ snapshot' \subseteq Events
  BY <1>2, <1>3, <1>4
     DEF Query, ListFiles, ReadCurrent, ReadRotated, EndQuery, Answer,
         TypeInv, TypeOK
<1>9. head' \subseteq found'
  BY DEF Query, ListFiles, ReadCurrent, ReadRotated, EndQuery, Answer,
         TypeInv, TypeOK
<1>7. toRead' \subseteq DOMAIN rotated
  BY DEF Query, ListFiles, ReadCurrent, ReadRotated, EndQuery, Answer,
         TypeInv, TypeOK
<1>8. queries' \in 0..MaxQueries
  BY AuditLogAssumption
     DEF Query, ListFiles, ReadCurrent, ReadRotated, EndQuery, Answer,
         TypeInv, TypeOK
<1>6. reading' \in {"idle", "current", "rotated", "done"} /\ raced' \in BOOLEAN
  BY DEF Query, ListFiles, ReadCurrent, ReadRotated, EndQuery, Answer,
         TypeInv, TypeOK
<1> QED
  BY <1>1, <1>5, <1>6, <1>7, <1>8, <1>9 DEF log, TypeInv, TypeOK

LEMMA TypeCrash ==
    ASSUME TypeInv, Crash
    PROVE  TypeInv'
<1>1. settled' \in [Events -> Outcomes]
  BY DEF Crash, TypeInv, TypeOK, Outcomes
<1>2. current' \in File \cup {None} /\ cut' \subseteq Events
  <2>1. CASE UNCHANGED <<current, cut>>
    BY <2>1 DEF TypeInv, TypeOK
  <2>2. CASE at = "write" /\ CutShort
    <3>1. current \in File /\ writing \in Events
      BY <2>2 DEF TypeInv, TypeOK, PlaceInv, WithFile, Events
    <3> QED
      BY <2>2, <3>1, FilesAreFiles DEF CutShort, TypeInv, TypeOK
  <2> QED
    BY <2>1, <2>2 DEF Crash
<1>3. crashes' \in 0..MaxCrashes /\ writing' \in 0..MaxEvents
  BY AuditLogAssumption DEF Crash, TypeInv, TypeOK
<1> QED
  BY <1>1, <1>2, <1>3
     DEF Crash, TypeInv, TypeOK, PlaceInv, WithFile, Places

LEMMA TypeNext ==
    ASSUME TypeInv, [Next]_vars
    PROVE  TypeInv'
<1>1. CASE UNCHANGED vars
  BY <1>1 DEF vars, log, query, TypeInv, TypeOK, PlaceInv
<1> QED
  BY <1>1, TypeEmit, TypeAppend, TypeQuery, TypeCrash DEF Next

LEMMA TypeHolds == Spec => []TypeInv
<1>1. Init => TypeInv
  BY TypeInit
<1>2. TypeInv /\ [Next]_vars => TypeInv'
  BY TypeNext
<1> QED
  BY <1>1, <1>2, PTL DEF Spec

(***************************************************************************)
(* Every reachable state of files, append queue and query is well-typed.   *)
(***************************************************************************)
THEOREM TypeCorrect == Spec => []TypeOK
<1>1. TypeInv => TypeOK
  BY DEF TypeInv
<1> QED
  BY <1>1, TypeHolds, PTL

-----------------------------------------------------------------------------
(***************************************************************************)
(* Order.  Events are emitted, written and settled in order, so whatever a *)
(* file holds is settled, or is the event doAppend has just written.       *)
(***************************************************************************)
Settled == {"ok", "failed", "lost"}
Touched == Written \cup cut

EventInv ==
    /\ \A e, f \in Events : e < f /\ settled[f] # "none" => settled[e] # "none"
    /\ \A e, f \in Events :
          settled[e] = "pending" /\ settled[f] \in Settled => f < e
    /\ writing # 0 => settled[writing] = "pending"
                      /\ \A f \in Events : settled[f] = "pending" => writing <= f
    /\ \A e \in Touched :
          \/ settled[e] \in Settled
          \/ e = writing /\ at \notin {"open", "write"}

FilesInOrder ==
    /\ \A m, n \in DOMAIN rotated : m < n =>
          \A e \in rotated[m], f \in rotated[n] : e < f
    /\ \A n \in DOMAIN rotated : \A e \in rotated[n], f \in InCurrent : e < f

OrderInv == EventInv /\ FilesInOrder

\* Only a write touches a file, with the event it writes.
LEMMA FilesTouched ==
    ASSUME TypeInv, [Next]_vars
    PROVE  /\ InCurrent' \subseteq InCurrent \cup {writing}
           /\ Touched' \subseteq Touched \cup {writing}
           /\ at # "write" => InCurrent' \subseteq InCurrent /\ Touched' \subseteq Touched
           /\ ~(Rename /\ at' = "list") => rotated' = rotated
           /\ Written \subseteq Written'
<1> USE DEF Touched, Written, InCurrent
<1>1. CASE Rename /\ at' = "list"
  <2>1. rotated'[Len(rotated) + 1] = InCurrent /\ InCurrent' = {}
    BY <1>1, RotatedGrows, AuditLogAssumption DEF Rename, TypeInv, TypeOK, File
  <2>2. Written' = Written
    BY <1>1, <2>1, RotatedGrows
  <2> QED
    BY <1>1, <2>1, <2>2 DEF Rename
<1>2. CASE Write
  <2>1. current \in File /\ current # None
    BY <1>2 DEF Write, TypeInv, TypeOK, PlaceInv, WithFile
  <2>2. current' # None /\ (\/ current' = current
                            \/ current' = WithLine(current, writing)
                            \/ current' = Torn(current))
    <3>1. /\ \/ current' = current
             \/ current' = WithLine(current, writing)
             \/ current' = Torn(current)
          /\ writing \in Events
      BY <1>2 DEF Write, CutShort, TypeInv, TypeOK, PlaceInv, Events
    <3> QED
      BY <2>1, <3>1, FilesAreFiles
  <2>3. current'.events = current.events
        \/ current'.events = current.events \cup {writing}
    BY <2>2 DEF WithLine, Torn
  <2>4. cut' = cut \/ cut' = cut \cup {writing}
    BY <1>2 DEF Write, CutShort
  <2> QED
    BY <1>2, <2>1, <2>2, <2>3, <2>4 DEF Write
<1>3. CASE Crash
  <2>1. rotated' = rotated
    BY <1>3 DEF Crash
  <2>2. CASE UNCHANGED <<current, cut>>
    BY <2>1, <2>2
  <2>3. CASE at = "write" /\ CutShort
    <3>1. current \in File /\ current # None
      BY <2>3 DEF TypeInv, TypeOK, PlaceInv, WithFile
    <3>2. current' # None /\ current'.events = current.events
          /\ cut' = cut \cup {writing}
      <4>1. Torn(current) \in File
        BY <3>1 DEF File, Torn
      <4> QED
        BY <2>3, <4>1, AuditLogAssumption DEF CutShort, Torn, File
    <3> QED
      BY <2>1, <2>3, <3>1, <3>2
  <2> QED
    BY <1>3, <2>2, <2>3 DEF Crash
<1>4. CASE Open
  <2>1. UNCHANGED <<rotated, cut>> /\ at # "write"
    BY <1>4 DEF Open
  <2>2. current' = current \/ (current = None /\ current' = EmptyFile)
    BY <1>4 DEF Open
  <2> QED
    BY <2>1, <2>2, EmptyIsFile, <1>4 DEF EmptyFile, Rename, Open
<1>5. CASE UNCHANGED <<current, rotated, cut>>
  BY <1>5
<1> QED
  BY <1>1, <1>2, <1>3, <1>4, <1>5
     DEF Next, vars, log, Emit, DoAppend, BeginAppend, Sync, Stat, Rotate, Close,
         Rename, Fail, Settle, ListRotated, Unlink, EndAppend, Query, ListFiles,
         ReadCurrent, ReadRotated, EndQuery, Answer, Goto

\* EventInv under the three kinds of change: an append ends, it moves on
\* past its write, or the events and the append are left alone.
LEMMA SettleKeepsEvents ==
    ASSUME TypeInv, EventInv, writing # 0, NEW outcome \in {"ok", "failed"},
           Settle(outcome), Touched' \subseteq Touched \cup {writing}
    PROVE  EventInv'
<1>1. writing \in Events /\ Touched \subseteq Events /\ Events \subseteq Nat
      /\ settled \in [Events -> Outcomes]
  <2>1. Written \subseteq Events
    BY DEF Written, InCurrent, TypeInv, TypeOK, File
  <2> QED
    BY <2>1 DEF TypeInv, TypeOK, Events, Touched
<1>2. \A e \in Events : settled'[e] = IF e = writing THEN outcome ELSE settled[e]
  BY <1>1 DEF Settle
<1>3. \A e, f \in Events : e < f /\ settled'[f] # "none" => settled'[e] # "none"
  BY <1>1, <1>2 DEF EventInv
<1>4. \A e, f \in Events :
         settled'[e] = "pending" /\ settled'[f] \in Settled => f < e
  BY <1>1, <1>2 DEF EventInv, Settled
<1>5. \A e \in Touched' : settled'[e] \in Settled
  BY <1>1, <1>2 DEF EventInv, Settled
<1>6. writing' = 0
  BY DEF Settle
<1> QED
  BY <1>3, <1>4, <1>5, <1>6 DEF EventInv

LEMMA MoveKeepsEvents ==
    ASSUME TypeInv, EventInv, writing # 0, UNCHANGED <<settled, writing>>,
           \/ at' \notin {"open", "write"}
              /\ Touched' \subseteq Touched \cup {writing}
           \/ Touched' \subseteq Touched /\ at \in {"open", "write"}
    PROVE  EventInv'
BY DEF EventInv

LEMMA SameKeepsEvents ==
    ASSUME EventInv, UNCHANGED <<settled, writing, at>>, Touched' \subseteq Touched
    PROVE  EventInv'
BY DEF EventInv

LEMMA EventsNext ==
    ASSUME TypeInv, EventInv, [Next]_vars
    PROVE  EventInv'
<1>0. /\ Touched' \subseteq Touched \cup {writing}
      /\ at # "write" => Touched' \subseteq Touched
  BY FilesTouched
<1>1. ASSUME NEW e \in Events, Emit(e)
      PROVE  EventInv'
  <2>1. /\ settled' = [settled EXCEPT ![e] = "pending"] /\ settled[e] = "none"
        /\ \A f \in Events : f < e => settled[f] # "none"
        /\ UNCHANGED <<writing, at>>
    BY <1>1 DEF Emit, log, Events
  <2>2. Touched' \subseteq Touched
    BY <1>1 DEF Emit, log, Touched, Written, InCurrent
  <2>3. \A f \in Events : settled'[f] = IF f = e THEN "pending" ELSE settled[f]
    BY <2>1 DEF TypeInv, TypeOK
  <2>4. \A f \in Events : f > e => settled[f] = "none"
    BY <2>1 DEF EventInv
  <2>5. Touched \subseteq Events /\ Events \subseteq Nat
        /\ writing \in Events \cup {0}
    <3>1. Written \subseteq Events
      BY DEF Written, InCurrent, TypeInv, TypeOK, File
    <3> QED
      BY <3>1 DEF TypeInv, TypeOK, Events, Touched
  <2>6. \A f, g \in Events : f < g /\ settled'[g] # "none" => settled'[f] # "none"
    BY <2>1, <2>3, <2>4, <2>5 DEF EventInv
  <2>7. \A f, g \in Events :
           settled'[f] = "pending" /\ settled'[g] \in Settled => g < f
    BY <2>1, <2>3, <2>4, <2>5 DEF EventInv, Settled
  <2>8. writing # 0 => settled'[writing] = "pending"
                 /\ \A f \in Events : settled'[f] = "pending" => writing <= f
    BY <2>1, <2>3, <2>4, <2>5 DEF EventInv
  <2>9. \A f \in Touched : \/ settled'[f] \in Settled
                           \/ f = writing /\ at \notin {"open", "write"}
    BY <2>3, <2>5, <2>1 DEF EventInv, Settled
  <2> QED
    BY <2>1, <2>2, <2>6, <2>7, <2>8, <2>9 DEF EventInv
<1>2. ASSUME NEW e \in Events, BeginAppend(e)
      PROVE  EventInv'
  <2>1. /\ UNCHANGED settled /\ writing' = e /\ at = "idle"
        /\ settled[e] = "pending"
        /\ \A f \in Events : settled[f] = "pending" => e <= f
    BY <1>2 DEF BeginAppend, Pending
  <2>2. Touched' \subseteq Touched /\ writing = 0 /\ 0 \notin Touched
    <3>1. Written \subseteq Events /\ 0 \notin Events
      BY DEF Written, InCurrent, TypeInv, TypeOK, File, Events
    <3> QED
      BY <1>0, <2>1, <3>1 DEF TypeInv, TypeOK, PlaceInv, Touched
  <2> QED
    BY <2>1, <2>2 DEF EventInv
<1>3. CASE Open \/ Write \/ Sync \/ Stat \/ Close \/ Rename \/ ListRotated
           \/ EndAppend
  <2>1. writing # 0
    BY <1>3 DEF Open, Write, Sync, Stat, Close, Rename, ListRotated, EndAppend,
                TypeInv, PlaceInv
  <2>2. \/ \E outcome \in {"ok", "failed"} : Settle(outcome)
        \/ /\ UNCHANGED <<settled, writing>>
           /\ at' \notin {"open", "write"} \/ at = "open"
    BY <1>3 DEF Open, Write, Sync, Stat, Close, Rename, ListRotated, EndAppend,
                Goto, Fail
  <2>3. ASSUME NEW outcome \in {"ok", "failed"}, Settle(outcome)
        PROVE  EventInv'
    BY <1>0, <2>1, <2>3, SettleKeepsEvents
  <2>4. CASE UNCHANGED <<settled, writing>> /\ at' \notin {"open", "write"}
    BY <1>0, <2>1, <2>4, MoveKeepsEvents
  <2>5. CASE UNCHANGED <<settled, writing>> /\ at = "open"
    BY <1>0, <2>1, <2>5, MoveKeepsEvents
  <2> QED
    BY <2>2, <2>3, <2>4, <2>5
<1>4. CASE Query \/ UNCHANGED vars \/ \E n \in present : Unlink(n)
  <2>1. UNCHANGED <<settled, writing, at>> /\ Touched' \subseteq Touched
    BY <1>4 DEF Query, ListFiles, ReadCurrent, ReadRotated, EndQuery, Answer,
                vars, log, Unlink, Touched, Written, InCurrent
  <2> QED
    BY <2>1, SameKeepsEvents
<1>5. CASE Crash
  <2>1. /\ \A e \in Events : settled'[e] =
              IF settled[e] = "pending" THEN "lost" ELSE settled[e]
        /\ writing' = 0
    BY <1>5 DEF Crash
  <2>2. Touched \subseteq Events
    <3>1. Written \subseteq Events
      BY DEF Written, InCurrent, TypeInv, TypeOK, File
    <3> QED
      BY <3>1 DEF TypeInv, TypeOK, Touched
  <2>3. \A e \in Touched' : settled'[e] \in Settled
    <3>1. (writing # 0 => writing \in Events) /\ 0 \notin Events
      BY DEF TypeInv, TypeOK, Events
    <3>2. at = "write" => writing # 0
      BY DEF TypeInv, PlaceInv
    <3> QED
      BY <1>0, <2>1, <2>2, <3>1, <3>2 DEF EventInv, Settled
  <2> QED
    BY <2>1, <2>3 DEF EventInv, Settled
<1> QED
  BY <1>1, <1>2, <1>3, <1>4, <1>5 DEF Next, DoAppend, Rotate

LEMMA OrderNext ==
    ASSUME TypeInv, OrderInv, [Next]_vars
    PROVE  FilesInOrder'
<1>1. CASE Rename /\ at' = "list"
  <2>1. \A m \in DOMAIN rotated : \A e \in rotated[m], f \in current.events : e < f
    BY <1>1 DEF OrderInv, FilesInOrder, InCurrent, TypeInv, PlaceInv, WithFile,
                Rename
  <2>2. InCurrent' = {}
    BY <1>1, RotatedGrows DEF InCurrent
  <2>3. \A m, n \in DOMAIN rotated' : m < n =>
           \A e \in rotated'[m], f \in rotated'[n] : e < f
    BY <1>1, <2>1, RotatedGrows DEF OrderInv, FilesInOrder
  <2> QED
    BY <2>2, <2>3 DEF FilesInOrder
<1>2. CASE ~(Rename /\ at' = "list")
  <2>1. /\ rotated' = rotated
        /\ InCurrent' \subseteq InCurrent \cup {writing}
        /\ at # "write" => InCurrent' \subseteq InCurrent
    BY <1>2, FilesTouched
  <2>2. at = "write" => \A n \in DOMAIN rotated : \A e \in rotated[n] : e < writing
    <3> SUFFICES ASSUME at = "write", NEW n \in DOMAIN rotated, NEW e \in rotated[n]
                 PROVE  e < writing
      OBVIOUS
    <3>1. e \in Touched /\ e \in Events
      BY DEF Touched, Written, TypeInv, TypeOK
    <3>2. writing \in Events /\ settled[writing] = "pending"
      BY DEF TypeInv, TypeOK, PlaceInv, Events, OrderInv, EventInv
    <3> QED
      BY <3>1, <3>2 DEF OrderInv, EventInv, Settled
  <2> QED
    BY <2>1, <2>2 DEF OrderInv, FilesInOrder
<1> QED
  BY <1>1, <1>2

(***************************************************************************)
(* The files hold the events in the order they were emitted, through any   *)
(* rotations, failures and crashes.                                        *)
(***************************************************************************)
THEOREM LogStaysInOrder == Spec => []LogIsInOrder
<1>1. Init => OrderInv
  BY DEF Init, OrderInv, EventInv, FilesInOrder, Touched, Written, InCurrent,
         Settled
<1>2. TypeInv /\ OrderInv /\ [Next]_vars => OrderInv'
  BY EventsNext, OrderNext DEF OrderInv
<1>3. TypeInv /\ OrderInv => LogIsInOrder
  <2> SUFFICES ASSUME TypeInv, OrderInv
               PROVE  LogIsInOrder
    OBVIOUS
  <2>1. ASSUME NEW e \in Written, NEW f \in Pending
        PROVE  e <= f
    <3>1. e \in Touched /\ e \in Events /\ f \in Events /\ Events \subseteq Nat
          /\ settled[f] = "pending"
      BY DEF Touched, Written, InCurrent, TypeInv, TypeOK, File, Pending, Events
    <3>2. settled[e] \in Settled => e < f
      BY <3>1 DEF OrderInv, EventInv
    <3>3. e = writing => e <= f
      BY <3>1 DEF OrderInv, EventInv, Events
    <3> QED
      BY <3>1, <3>2, <3>3 DEF OrderInv, EventInv
  <2> QED
    BY <2>1 DEF OrderInv, FilesInOrder, LogIsInOrder
<1> QED
  BY <1>1, <1>2, <1>3, TypeHolds, PTL DEF Spec

-----------------------------------------------------------------------------
(***************************************************************************)
(* Retention.  The files that are doomed have their RetentionCount newer   *)
(* ones already, and since the newest of them goes first they keep them.   *)
(***************************************************************************)
Above(n) == {m \in present : m > n}

RetentionInv ==
    \A n \in (DOMAIN rotated \ present) \cup doomed :
        Cardinality(Above(n)) >= RetentionCount

LEMMA NamesAreFinite ==
    ASSUME NEW n \in Nat, NEW S \in SUBSET (1..n)
    PROVE  IsFiniteSet(S) /\ Cardinality(S) \in Nat
<1>1. IsFiniteSet(1..n)
  BY FS_Interval
<1> QED
  BY <1>1, FS_Subset, FS_CardinalityType

LEMMA AboveIsFinite ==
    ASSUME TypeInv
    PROVE  /\ \A S \in SUBSET present : IsFiniteSet(S) /\ Cardinality(S) \in Nat
           /\ DOMAIN rotated = 1..Len(rotated) /\ Len(rotated) \in Nat
           /\ present \subseteq Nat
<1>1. DOMAIN rotated = 1..Len(rotated) /\ Len(rotated) \in Nat
  BY DEF TypeInv, TypeOK
<1>3. ASSUME NEW S \in SUBSET present
      PROVE  IsFiniteSet(S) /\ Cardinality(S) \in Nat
  BY <1>1, NamesAreFinite DEF TypeInv, TypeOK
<1> QED
  BY <1>1, <1>3 DEF TypeInv, TypeOK

LEMMA RetentionNext ==
    ASSUME TypeInv, RetentionInv, [Next]_vars
    PROVE  RetentionInv'
<1>0. RetentionCount \in Nat
  BY AuditLogAssumption
<1>1. CASE Rename /\ at' = "list"
  <2> SUFFICES ASSUME NEW n \in (DOMAIN rotated' \ present') \cup doomed'
               PROVE  Cardinality(Above(n)') >= RetentionCount
    BY DEF RetentionInv
  <2>1. n \in (DOMAIN rotated \ present) \cup doomed
    <3>1. doomed' = doomed
      BY <1>1 DEF Rename
    <3> QED
      BY <1>1, <3>1, RotatedGrows
  <2>2. Above(n) \in SUBSET Above(n)' /\ Above(n)' \in SUBSET present'
    BY <1>1, RotatedGrows DEF Above
  <2>3. /\ IsFiniteSet(Above(n)') /\ Cardinality(Above(n)') \in Nat
    <3>1. Above(n)' \in SUBSET (1..(Len(rotated) + 1)) /\ Len(rotated) + 1 \in Nat
      BY <1>1, <2>2, RotatedGrows DEF TypeInv, TypeOK
    <3> QED
      BY <3>1, NamesAreFinite
  <2>4. /\ Cardinality(Above(n)) <= Cardinality(Above(n)')
        /\ Cardinality(Above(n)) \in Nat
    BY <2>2, <2>3, FS_Subset, FS_CardinalityType
  <2> QED
    BY <1>0, <2>1, <2>3, <2>4 DEF RetentionInv
<1>2. CASE ListRotated
  <2>1. \A n \in Excess : Cardinality(Above(n)) >= RetentionCount
    <3> SUFFICES ASSUME NEW n \in Excess
                 PROVE  Cardinality(Above(n)) >= RetentionCount
      OBVIOUS
    <3>1. ~(Cardinality(Above(n)) < RetentionCount)
      BY DEF Excess, Newest, Above
    <3>2. Cardinality(Above(n)) \in Nat
      BY AboveIsFinite DEF Above
    <3> QED
      BY <1>0, <3>1, <3>2
  <2>2. UNCHANGED <<rotated, present>> /\ (doomed' = Excess \/ doomed' = doomed)
    BY <1>2 DEF ListRotated
  <2> QED
    BY <2>1, <2>2 DEF RetentionInv, Above
<1>3. ASSUME NEW n \in present, Unlink(n)
      PROVE  RetentionInv'
  <2>1. /\ n \in doomed /\ doomed' = doomed \ {n} /\ rotated' = rotated
        /\ \A m \in doomed : m <= n
        /\ present' = present \/ present' = present \ {n}
    BY <1>3 DEF Unlink
  <2>2. Above(n)' = Above(n)
    BY <2>1, AboveIsFinite DEF Above
  <2> SUFFICES ASSUME NEW d \in (DOMAIN rotated' \ present') \cup doomed'
               PROVE  Cardinality(Above(d)') >= RetentionCount
    BY DEF RetentionInv
  <2>3. d \in (DOMAIN rotated \ present) \cup doomed /\ d \in Nat /\ n \in Nat
    BY <2>1, AboveIsFinite DEF TypeInv, TypeOK
  <2>4. CASE d > n \/ present' = present
    <3>1. Above(d)' = Above(d)
      BY <2>1, <2>3, <2>4, AboveIsFinite DEF Above
    <3> QED
      BY <2>3, <3>1 DEF RetentionInv
  <2>5. CASE d <= n
    <3>1. /\ Above(d)' = {m \in present' : m > d}
          /\ Above(n) = {m \in present' : m > n}
      BY <2>2 DEF Above
    <3>4. present' \in SUBSET present
      BY <2>1
    <3>5. \A m \in present' : m > n => m > d
      BY <2>3, <2>5, <3>4, AboveIsFinite
    <3>6. Above(n) \in SUBSET Above(d)' /\ Above(d)' \in SUBSET present
      BY <3>1, <3>4, <3>5
    <3>2. IsFiniteSet(Above(d)') /\ Cardinality(Above(d)') \in Nat
      BY <3>6, AboveIsFinite
    <3>3. /\ Cardinality(Above(n)) <= Cardinality(Above(d)')
          /\ Cardinality(Above(n)) \in Nat
      BY <3>6, <3>2, FS_Subset, FS_CardinalityType
    <3> QED
      BY <1>0, <2>1, <3>2, <3>3 DEF RetentionInv
  <2> QED
    BY <2>3, <2>4, <2>5
<1>4. CASE UNCHANGED <<rotated, present>> /\ doomed' \subseteq doomed
  BY <1>4 DEF RetentionInv, Above
<1> QED
  BY <1>1, <1>2, <1>3, <1>4
     DEF Next, vars, log, Emit, DoAppend, BeginAppend, Open, Write, Sync, Stat,
         Rotate, Close, Rename, Fail, Settle, EndAppend, Query, ListFiles,
         ReadCurrent, ReadRotated, EndQuery, Answer, Goto, Crash

(***************************************************************************)
(* Retention never takes one of the newest RetentionCount rotated files,   *)
(* whatever fails and wherever it is interrupted.                          *)
(***************************************************************************)
THEOREM NewestAreKept == Spec => []RetentionKeepsNewest
<1>1. Init => RetentionInv
  BY DEF Init, RetentionInv
<1>2. TypeInv /\ RetentionInv /\ [Next]_vars => RetentionInv'
  BY RetentionNext
<1>3. RetentionInv => RetentionKeepsNewest
  BY DEF RetentionInv, RetentionKeepsNewest, Above
<1> QED
  BY <1>1, <1>2, <1>3, TypeHolds, PTL DEF Spec

-----------------------------------------------------------------------------
(***************************************************************************)
(* The sort and the cut.                                                   *)
(***************************************************************************)
\* Events that the sort puts before e, and what is left when it is cut.
SortedBefore(e) == {f \in found : Before(f, e)}
FirstOf == {e \in found : Cardinality(SortedBefore(e)) < Limit}

LEMMA BeforeOrders ==
    ASSUME NEW e \in Events, NEW f \in Events
    PROVE  /\ ~Before(e, e)
           /\ e # f => Before(e, f) \/ Before(f, e)
           /\ \A g \in Events : Before(e, f) /\ Before(f, g) => Before(e, g)
<1>1. /\ CreatedAt[e] \in Nat /\ CreatedAt[f] \in Nat
      /\ \A g \in Events : CreatedAt[g] \in Nat /\ g \in Int
      /\ e \in Int /\ f \in Int
  BY AuditLogAssumption DEF Events
<1> QED
  BY <1>1 DEF Before

LEMMA FoundIsFinite ==
    ASSUME TypeInv
    PROVE  IsFiniteSet(found) /\ \A T \in SUBSET found : IsFiniteSet(T)
<1>1. IsFiniteSet(Events)
  BY AuditLogAssumption, FS_Interval DEF Events
<1> QED
  BY <1>1, FS_Subset DEF TypeInv, TypeOK

\* What the sort puts further down has more before it.
LEMMA SortRanks ==
    ASSUME TypeInv, NEW e \in found, NEW f \in found, Before(e, f)
    PROVE  /\ SortedBefore(e) \subseteq SortedBefore(f) /\ SortedBefore(e) # SortedBefore(f)
           /\ Cardinality(SortedBefore(e)) < Cardinality(SortedBefore(f))
<1>1. e \in Events /\ f \in Events /\ found \subseteq Events
  BY DEF TypeInv, TypeOK
<1>2. SortedBefore(e) \subseteq SortedBefore(f)
  BY <1>1, BeforeOrders DEF SortedBefore
<1>3. e \in SortedBefore(f) /\ e \notin SortedBefore(e)
  BY <1>1, BeforeOrders DEF SortedBefore
<1>4. IsFiniteSet(SortedBefore(f)) /\ IsFiniteSet(SortedBefore(e))
  BY FoundIsFinite DEF SortedBefore
<1>5. /\ Cardinality(SortedBefore(e)) <= Cardinality(SortedBefore(f))
      /\ Cardinality(SortedBefore(e)) # Cardinality(SortedBefore(f))
  BY <1>2, <1>3, <1>4, FS_Subset
<1> QED
  BY <1>2, <1>3, <1>4, <1>5, FS_CardinalityType

\* At most Limit events are left: they have 0 .. Limit - 1 before them.
LEMMA FirstOfIsBounded ==
    ASSUME TypeInv
    PROVE  IsFiniteSet(FirstOf) /\ Cardinality(FirstOf) <= Limit
<1> DEFINE rank == [e \in FirstOf |-> Cardinality(SortedBefore(e))]
<1>1. FirstOf \subseteq found /\ found \subseteq Events
  BY DEF FirstOf, TypeInv, TypeOK
<1>2. ASSUME NEW e \in FirstOf
      PROVE  rank[e] \in 0 .. Limit - 1
  <2>1. IsFiniteSet(SortedBefore(e))
    BY FoundIsFinite DEF SortedBefore
  <2> QED
    BY <1>2, <2>1, FS_CardinalityType, AuditLogAssumption DEF FirstOf
<1>3. ASSUME NEW e \in FirstOf, NEW f \in FirstOf, rank[e] = rank[f]
      PROVE  e = f
  <2>1. Cardinality(SortedBefore(e)) = Cardinality(SortedBefore(f))
    BY <1>3
  <2>2. \A x, y \in FirstOf : Before(x, y) => rank[x] < rank[y]
    BY <1>1, SortRanks
  <2>3. ~Before(e, f) /\ ~Before(f, e)
    BY <1>2, <1>3, <2>2
  <2> QED
    BY <1>1, <2>3, BeforeOrders
<1>4. rank \in Injection(FirstOf, 0 .. Limit - 1)
  BY <1>2, <1>3 DEF Injection, IsInjective
<1>5. IsFiniteSet(0 .. Limit - 1) /\ Cardinality(0 .. Limit - 1) = Limit
  BY FS_Interval, AuditLogAssumption
<1> QED
  BY <1>4, <1>5, FS_Injection

\* What is left out comes after all that is returned, and there is a first
\* event left out, before which there are Limit returned ones.
LEMMA FirstOfIsFull ==
    ASSUME TypeInv, NEW e \in found \ FirstOf
    PROVE  /\ Cardinality(FirstOf) = Limit
           /\ \A f \in FirstOf : CreatedAt[e] <= CreatedAt[f]
<1> DEFINE Out == found \ FirstOf
           Aboves == {SortedBefore(x) : x \in Out}
<1>1. FirstOf \subseteq found /\ found \subseteq Events /\ e \in found
  BY DEF FirstOf, TypeInv, TypeOK
<1>2. \A x \in found : Cardinality(SortedBefore(x)) \in Nat
  BY FoundIsFinite, FS_CardinalityType DEF SortedBefore
<1>3. ASSUME NEW x \in Out, NEW f \in FirstOf
      PROVE  ~Before(x, f)
  <2>1. Cardinality(SortedBefore(f)) < Limit /\ ~(Cardinality(SortedBefore(x)) < Limit)
    BY <1>3 DEF FirstOf
  <2> QED
    BY <1>1, <1>2, <1>3, <2>1, SortRanks, AuditLogAssumption
<1>4. ASSUME NEW f \in FirstOf
      PROVE  CreatedAt[e] <= CreatedAt[f]
  <2>1. ~(CreatedAt[e] > CreatedAt[f])
    BY <1>3 DEF Before
  <2>2. CreatedAt[e] \in Nat /\ CreatedAt[f] \in Nat
    BY <1>1, <1>4, AuditLogAssumption
  <2> QED
    BY <2>1, <2>2
<1>5. PICK a \in Aboves : \A b \in Aboves : ~(<<b, a>> \in StrictSubsetOrdering(found))
  <2>1. Aboves \subseteq FiniteSubsetsOf(found) /\ Aboves # {}
    BY FoundIsFinite DEF FiniteSubsetsOf, SortedBefore
  <2> QED
    BY <2>1, FS_StrictSubsetOrderingWellFounded, WFMin
<1>6. PICK x \in Out : a = SortedBefore(x)
  OBVIOUS
<1>7. SortedBefore(x) \subseteq FirstOf
  <2> SUFFICES ASSUME NEW y \in SortedBefore(x), y \notin FirstOf
               PROVE  FALSE
    OBVIOUS
  <2>1. y \in Out /\ Before(y, x)
    BY DEF SortedBefore
  <2>2. SortedBefore(y) \subseteq SortedBefore(x) /\ SortedBefore(y) # SortedBefore(x)
    BY <2>1, SortRanks
  <2>3. <<SortedBefore(y), SortedBefore(x)>> \in StrictSubsetOrdering(found)
    BY <2>2 DEF StrictSubsetOrdering, SortedBefore
  <2> QED
    BY <1>5, <1>6, <2>1, <2>3
<1>8. IsFiniteSet(FirstOf) /\ Cardinality(FirstOf) <= Limit
  BY FirstOfIsBounded
<1>9. Cardinality(SortedBefore(x)) <= Cardinality(FirstOf)
  BY <1>7, <1>8, FS_Subset
<1>10. Limit <= Cardinality(SortedBefore(x))
  BY <1>2, AuditLogAssumption DEF FirstOf
<1>11. Cardinality(FirstOf) \in Nat
  BY <1>8, FS_CardinalityType
<1> QED
  BY <1>2, <1>4, <1>8, <1>9, <1>10, <1>11, AuditLogAssumption

-----------------------------------------------------------------------------
(***************************************************************************)
(* Queries.  Until a file is renamed or removed under it, what a query has *)
(* read and what it has still to read add up to the log at the moment it   *)
(* read audit.log, or found that there was none; and all it has read was   *)
(* written.                                                                *)
(***************************************************************************)
Unread == UNION {rotated[n] : n \in toRead}

Answers ==
    /\ found \subseteq snapshot
    /\ \A e \in snapshot \ found :
          /\ Cardinality(found) = Limit
          /\ \A f \in found : CreatedAt[e] <= CreatedAt[f]

QueryInv ==
    /\ found \subseteq Written
    /\ reading = "done" => Cardinality(found) <= Limit
    /\ ~raced =>
          /\ reading = "current" => toRead = present
          /\ reading = "rotated" => toRead \subseteq present
                                    /\ found \cup Unread = snapshot
          /\ reading = "done" => Answers

LEMMA QueryNext ==
    ASSUME TypeInv, QueryInv, [Next]_vars
    PROVE  QueryInv'
<1>0. Written \subseteq Written'
  BY FilesTouched
<1>1. CASE ListFiles
  <2>1. /\ found' = {} /\ snapshot' = Logged /\ toRead' = present
        /\ reading' = IF current = None THEN "rotated" ELSE "current"
        /\ UNCHANGED <<rotated, present, current>>
    BY <1>1 DEF ListFiles, log
  <2>2. Unread' = UNION {rotated[n] : n \in present}
    BY <2>1 DEF Unread
  <2>3. current = None => found' \cup Unread' = snapshot'
    BY <2>1, <2>2 DEF Logged, InCurrent
  <2> QED
    BY <2>1, <2>3 DEF QueryInv
<1>2. CASE ReadCurrent
  <2>1. /\ found' = InCurrent /\ snapshot' = Logged /\ reading' = "rotated"
        /\ UNCHANGED <<toRead, rotated, present, raced>> /\ reading = "current"
    BY <1>2 DEF ReadCurrent, log
  <2>2. found' \subseteq Written
    BY <2>1 DEF Written
  <2>3. Unread' = Unread
    BY <2>1 DEF Unread
  <2>4. ~raced => toRead = present /\ found' \cup Unread = snapshot'
    BY <2>1 DEF QueryInv, Unread, Logged
  <2> QED
    BY <1>0, <2>1, <2>2, <2>3, <2>4 DEF QueryInv
<1>3. ASSUME NEW n \in toRead, ReadRotated(n)
      PROVE  QueryInv'
  <2>1. n \in DOMAIN rotated /\ rotated' = rotated /\ present' = present
        /\ reading = "rotated" /\ reading' = "rotated"
        /\ raced' = raced /\ snapshot' = snapshot /\ toRead' = toRead \ {n}
    BY <1>3 DEF ReadRotated, log, TypeInv, TypeOK
  <2>2. found' \subseteq Written
    BY <1>3, <2>1 DEF ReadRotated, QueryInv, Written
  <2>3. ~raced => found' = found \cup rotated[n]
    BY <1>3, <2>1 DEF ReadRotated, QueryInv
  <2>4. Unread = Unread' \cup rotated[n]
    BY <2>1 DEF Unread
  <2> QED
    BY <1>0, <2>1, <2>2, <2>3, <2>4 DEF QueryInv
<1>4. CASE EndQuery
  <2>1. /\ reading = "rotated" /\ reading' = "done" /\ toRead = {}
        /\ found' = FirstOf /\ snapshot' = snapshot /\ raced' = raced
    BY <1>4 DEF EndQuery, FirstOf, SortedBefore
  <2>2. ~raced => found = snapshot
    BY <2>1 DEF QueryInv, Unread
  <2>3. found' \subseteq found /\ Cardinality(found') <= Limit
    BY <2>1, FirstOfIsBounded DEF FirstOf
  <2>4. ~raced => Answers'
    BY <2>1, <2>2, <2>3, FirstOfIsFull DEF Answers
  <2> QED
    BY <1>0, <2>1, <2>3, <2>4 DEF QueryInv
<1>5. CASE Answer \/ Crash
  BY <1>5 DEF Answer, Crash, QueryInv
<1>6. CASE UNCHANGED query /\ raced' /\ reading # "idle"
  BY <1>0, <1>6 DEF QueryInv, query
<1>7. CASE UNCHANGED query /\ reading = "idle"
  BY <1>0, <1>7 DEF QueryInv, query
<1>8. CASE UNCHANGED <<query, rotated, present, raced>>
  BY <1>0, <1>8 DEF QueryInv, query, Unread, Answers
<1>9. CASE Rename \/ \E n \in present : Unlink(n)
  <2>1. UNCHANGED query
        /\ (UNCHANGED <<rotated, present, raced>>
            \/ raced' = (raced \/ reading # "idle"))
    BY <1>9 DEF Rename, Unlink
  <2> QED
    BY <1>6, <1>7, <1>8, <2>1
<1> QED
  BY <1>1, <1>2, <1>3, <1>4, <1>5, <1>6, <1>7, <1>8, <1>9
     DEF Next, vars, log, Emit, DoAppend, BeginAppend, Open, Write, Sync, Stat,
         Rotate, Close, ListRotated, EndAppend, Query

(***************************************************************************)
(* A query that no rotation overlapped answers from the log of one moment, *)
(* though it reads the files one by one while the log is written: with all *)
(* of it, or with Limit events of which none was created before one that   *)
(* is left out, however many share a createdAt and in whatever order they  *)
(* were emitted.  No query returns what was never written.                 *)
(***************************************************************************)
THEOREM QueriesAreSnapshots == Spec => []QueryIsSnapshot
<1>1. Init => QueryInv
  BY DEF Init, QueryInv
<1>2. TypeInv /\ QueryInv /\ [Next]_vars => QueryInv'
  BY QueryNext
<1>3. QueryInv => QueryIsSnapshot
  BY DEF QueryInv, QueryIsSnapshot, Answers
<1> QED
  BY <1>1, <1>2, <1>3, TypeHolds, PTL DEF Spec

-----------------------------------------------------------------------------
(***************************************************************************)
(* Readability.  A torn line at the end of audit.log is that of an event   *)
(* after which nothing has been logged yet, so it can swallow no more than *)
(* the next line.                                                          *)
(***************************************************************************)
AfterWrite == {"sync", "stat", "close", "rename", "list", "unlink"}

Kept(e) == e \in Written \/ Garbled(e)

TornInv ==
    current # None /\ current.torn =>
        \E f \in cut : \A g \in Events :
            g > f => settled[g] # "ok" /\ (at \in AfterWrite => g # writing)

ReadableInv ==
    /\ \A e \in Events : settled[e] = "ok" => Kept(e)
    /\ at \in AfterWrite => Kept(writing)
    /\ TornInv

\* What has failed or was lost stays so, and cuts are not forgotten.
LEMMA FailuresStay ==
    ASSUME TypeInv, EventInv, [Next]_vars
    PROVE  /\ \A e \in Events : settled[e] \in {"failed", "lost"} =>
                                   settled'[e] = settled[e]
           /\ cut \subseteq cut'
<1>1. writing # 0 => settled[writing] = "pending"
  BY DEF EventInv
<1>2. CASE UNCHANGED <<settled, cut>>
  BY <1>2
<1>3. ASSUME NEW outcome \in {"ok", "failed"}, Settle(outcome), writing # 0
      PROVE  \A e \in Events : settled[e] \in {"failed", "lost"} =>
                                  settled'[e] = settled[e]
  BY <1>1, <1>3 DEF Settle, TypeInv, TypeOK
<1>4. CASE Open \/ Write \/ Sync \/ Stat \/ Close \/ Rename \/ ListRotated
           \/ EndAppend
  <2>1. writing # 0
    BY <1>4 DEF Open, Write, Sync, Stat, Close, Rename, ListRotated, EndAppend,
                TypeInv, PlaceInv
  <2>2. \/ \E outcome \in {"ok", "failed"} : Settle(outcome)
        \/ UNCHANGED settled
    BY <1>4 DEF Open, Write, Sync, Stat, Close, Rename, ListRotated, EndAppend,
                Goto, Fail
  <2>3. cut \subseteq cut'
    BY <1>4 DEF Open, Write, CutShort, Sync, Stat, Close, Rename, ListRotated,
                EndAppend
  <2> QED
    BY <1>3, <2>1, <2>2, <2>3
<1>5. CASE Crash
  <2>1. cut \subseteq cut'
    BY <1>5 DEF Crash, CutShort
  <2> QED
    BY <1>5, <2>1 DEF Crash, TypeInv, TypeOK
<1>6. ASSUME NEW e \in Events, Emit(e)
      PROVE  /\ \A f \in Events : settled[f] \in {"failed", "lost"} =>
                                     settled'[f] = settled[f]
             /\ cut \subseteq cut'
  BY <1>6 DEF Emit, log, TypeInv, TypeOK
<1> QED
  BY <1>2, <1>4, <1>5, <1>6
     DEF Next, vars, log, DoAppend, BeginAppend, Rotate, Unlink, Query,
         ListFiles, ReadCurrent, ReadRotated, EndQuery, Answer

LEMMA KeptStays ==
    ASSUME TypeInv, EventInv, [Next]_vars, NEW e \in Events, Kept(e)
    PROVE  Kept(e)'
<1>1. CASE e \in Written
  BY <1>1, FilesTouched DEF Kept
<1>2. CASE Garbled(e)
  <2>1. PICK f \in cut : f <= e /\ \A g \in f + 1 .. e - 1 :
                                      settled[g] \in {"failed", "lost"}
    BY <1>2 DEF Garbled
  <2>2. f \in cut' /\ f + 1 .. e - 1 \subseteq Events
    BY FailuresStay, AuditLogAssumption DEF TypeInv, TypeOK, Events
  <2>3. \A g \in f + 1 .. e - 1 : settled'[g] \in {"failed", "lost"}
    BY <2>1, <2>2, FailuresStay
  <2> QED
    BY <2>1, <2>2, <2>3 DEF Kept, Garbled
<1> QED
  BY <1>1, <1>2 DEF Kept

LEMMA WriteIsKept ==
    ASSUME TypeInv, EventInv, ReadableInv, Write, at' \in AfterWrite
    PROVE  Kept(writing)' /\ TornInv'
<1>1. /\ current \in File /\ current # None /\ writing \in Events
      /\ settled[writing] = "pending" /\ UNCHANGED <<settled, writing, rotated>>
      /\ at = "write" /\ Events \subseteq Nat
  BY DEF Write, Fail, Settle, Goto, AfterWrite, TypeInv, TypeOK, PlaceInv, WithFile,
         Events, EventInv
<1>2. \/ current' = WithLine(current, writing) /\ cut' = cut
      \/ current' = Torn(current) /\ cut' = cut \cup {writing}
  BY DEF Write, Fail, Settle, Goto, CutShort, AfterWrite
<1>3. current' # None
  BY <1>1, <1>2, FilesAreFiles
<1>4. \A g \in Events : g > writing => settled[g] # "ok"
  BY <1>1 DEF EventInv, Settled
<1>5. CASE current' = Torn(current) /\ cut' = cut \cup {writing}
  <2>1. Garbled(writing)'
    <3>1. writing \in cut' /\ \A g \in writing + 1 .. writing - 1 : FALSE
      BY <1>1, <1>5
    <3> QED
      BY <1>1, <3>1 DEF Garbled
  <2>2. TornInv'
    BY <1>1, <1>4, <1>5 DEF TornInv
  <2> QED
    BY <2>1, <2>2 DEF Kept
<1>6. CASE current' = WithLine(current, writing) /\ cut' = cut
  <2>1. ~current'.torn /\ TornInv'
    BY <1>6 DEF WithLine, TornInv
  <2>2. CASE ~current.torn
    <3>1. current'.events = current.events \cup {writing}
      BY <1>6, <2>2 DEF WithLine
    <3> QED
      BY <1>1, <1>3, <2>1, <3>1 DEF Kept, Written, InCurrent
  <2>3. CASE current.torn
    <3>1. PICK f \in cut : \A g \in Events : g > f => settled[g] # "ok"
      BY <1>1, <2>3 DEF ReadableInv, TornInv
    <3>2. f \in Events /\ settled[f] \in Settled
      BY <1>1 DEF EventInv, Touched, TypeInv, TypeOK
    <3>3. f < writing
      BY <1>1, <3>2 DEF EventInv
    <3>4. ASSUME NEW g \in f + 1 .. writing - 1
          PROVE  settled[g] \in {"failed", "lost"}
      <4>1. g \in Events /\ f < g /\ g < writing
        BY <1>1, <3>2, <3>4, AuditLogAssumption DEF Events
      <4>2. settled[g] # "none" /\ settled[g] # "pending"
        BY <1>1, <4>1 DEF EventInv
      <4>3. settled[g] # "ok" /\ settled[g] \in Outcomes
        BY <3>1, <4>1 DEF TypeInv, TypeOK
      <4> QED
        BY <4>2, <4>3 DEF Outcomes
    <3>5. Garbled(writing)'
      BY <1>1, <1>6, <3>2, <3>3, <3>4 DEF Garbled
    <3> QED
      BY <2>1, <3>5 DEF Kept
  <2> QED
    BY <2>1, <2>2, <2>3
<1> QED
  BY <1>2, <1>5, <1>6

\* TornInv when audit.log gets no line: it stays as torn as it was.
LEMMA TornStays ==
    ASSUME TypeInv, EventInv, TornInv, [Next]_vars,
           current' = None \/ current' = current \/ current' = EmptyFile,
           \A g \in Events : settled'[g] = "ok" =>
               settled[g] = "ok" \/ (g = writing /\ at \in AfterWrite),
           at' \in AfterWrite => at \in AfterWrite /\ writing' = writing
    PROVE  TornInv'
<1>1. CASE current' # None /\ current'.torn
  <2>1. current' = current
    BY <1>1 DEF EmptyFile
  <2>2. PICK f \in cut : \A g \in Events :
            g > f => settled[g] # "ok" /\ (at \in AfterWrite => g # writing)
    BY <1>1, <2>1 DEF TornInv
  <2>3. f \in cut'
    BY FailuresStay
  <2> QED
    BY <2>2, <2>3 DEF TornInv
<1> QED
  BY <1>1 DEF TornInv

LEMMA ReadableNext ==
    ASSUME TypeInv, EventInv, ReadableInv, [Next]_vars
    PROVE  ReadableInv'
<1>0. \A e \in Events : Kept(e) => Kept(e)'
  BY KeptStays
<1>1. CASE Write /\ at' \in AfterWrite
  <2>1. Kept(writing)' /\ TornInv' /\ UNCHANGED <<settled, writing>>
    BY <1>1, WriteIsKept DEF Write, Fail, Settle, Goto, AfterWrite
  <2> QED
    BY <1>0, <2>1 DEF ReadableInv
<1>2. CASE Write /\ at' \notin AfterWrite
  <2>1. Settle("failed") /\ writing \in Events /\ Events \subseteq Nat
    BY <1>2 DEF Write, Goto, Fail, AfterWrite, TypeInv, TypeOK, PlaceInv, Events
  <2>2. \A g \in Events : settled'[g] = "ok" => settled[g] = "ok"
    BY <2>1 DEF Settle, TypeInv, TypeOK
  <2>3. TornInv'
    <3>1. CASE UNCHANGED <<current, cut>>
      BY <1>2, <2>2, <3>1, TornStays DEF ReadableInv
    <3>2. CASE CutShort
      <4>1. \A g \in Events : g > writing => settled[g] # "ok"
        BY <1>2, <2>1 DEF EventInv, Settled, Write, TypeInv, PlaceInv
      <4> QED
        BY <1>2, <2>1, <2>2, <3>2, <4>1 DEF CutShort, TornInv, Settle, Write,
           TypeInv, PlaceInv
    <3> QED
      BY <1>2, <3>1, <3>2 DEF Write, Goto, AfterWrite
  <2> QED
    BY <1>0, <1>2, <2>2, <2>3 DEF ReadableInv
<1>3. CASE Crash
  <2>1. \A g \in Events : settled'[g] = "ok" => settled[g] = "ok"
    BY <1>3 DEF Crash
  <2>2. at' = "idle" /\ writing' = 0
    BY <1>3 DEF Crash
  <2>3. TornInv'
    <3>1. CASE UNCHANGED <<current, cut>>
      BY <2>1, <2>2, <3>1, TornStays DEF ReadableInv, AfterWrite
    <3>2. CASE at = "write" /\ CutShort
      <4>1. writing \in Events /\ Events \subseteq Nat
        BY <3>2 DEF TypeInv, TypeOK, PlaceInv, Events
      <4>2. \A g \in Events : g > writing => settled[g] # "ok"
        BY <3>2, <4>1 DEF EventInv, Settled, TypeInv, PlaceInv
      <4> QED
        BY <2>1, <2>2, <3>2, <4>1, <4>2 DEF CutShort, TornInv, AfterWrite
    <3> QED
      BY <1>3, <3>1, <3>2 DEF Crash
  <2> QED
    BY <1>0, <2>1, <2>2, <2>3 DEF ReadableInv, AfterWrite
<1>4. CASE Open \/ Sync \/ Stat \/ Close \/ Rename \/ ListRotated \/ EndAppend
  <2>1. writing \in Events
    BY <1>4 DEF Open, Sync, Stat, Close, Rename, ListRotated, EndAppend,
                TypeInv, TypeOK, PlaceInv, Events
  <2>2. current' = None \/ current' = current \/ current' = EmptyFile
    BY <1>4 DEF Open, Sync, Stat, Close, Rename, ListRotated, EndAppend
  <2>3. \/ UNCHANGED <<settled, writing>>
           /\ (at' \in AfterWrite => at \in AfterWrite)
        \/ at' = "idle" /\ Settle("failed")
        \/ at' = "idle" /\ Settle("ok") /\ at \in AfterWrite
    BY <1>4 DEF Open, Sync, Stat, Close, Rename, ListRotated, EndAppend,
                Goto, Fail, Settle, AfterWrite
  <2>4. \A g \in Events : settled'[g] = "ok" =>
            settled[g] = "ok" \/ (g = writing /\ at \in AfterWrite)
    BY <2>1, <2>3 DEF Settle, TypeInv, TypeOK
  <2>5. at' \in AfterWrite => at \in AfterWrite /\ writing' = writing
    BY <2>3 DEF AfterWrite
  <2>6. TornInv'
    BY <2>2, <2>4, <2>5, TornStays DEF ReadableInv
  <2> QED
    BY <1>0, <2>1, <2>4, <2>5, <2>6 DEF ReadableInv
<1>5. CASE UNCHANGED <<current, writing>> /\ (at' \in AfterWrite => at \in AfterWrite)
           /\ \A g \in Events : settled'[g] = "ok" => settled[g] = "ok"
  <2>1. TornInv'
    BY <1>5, TornStays DEF ReadableInv
  <2>2. at' \in AfterWrite => writing \in Events
    BY <1>5 DEF AfterWrite, TypeInv, TypeOK, PlaceInv, Events
  <2> QED
    BY <1>0, <1>5, <2>1, <2>2 DEF ReadableInv
<1>6. ASSUME NEW e \in Events, Emit(e)
      PROVE  ReadableInv'
  <2>1. \A g \in Events : settled'[g] = "ok" => settled[g] = "ok"
    BY <1>6 DEF Emit, TypeInv, TypeOK
  <2> QED
    BY <1>5, <1>6, <2>1 DEF Emit, log
<1>7. ASSUME NEW e \in Events, BeginAppend(e)
      PROVE  ReadableInv'
  <2>1. at' \notin AfterWrite /\ UNCHANGED <<settled, current>>
    BY <1>7 DEF BeginAppend, AfterWrite
  <2>2. TornInv'
    BY <2>1, TornStays DEF ReadableInv
  <2> QED
    BY <1>0, <2>1, <2>2 DEF ReadableInv
<1>8. CASE UNCHANGED vars \/ Query \/ \E n \in present : Unlink(n)
  <2>1. UNCHANGED <<settled, current, writing, at>>
    BY <1>8 DEF vars, log, Query, ListFiles, ReadCurrent, ReadRotated, EndQuery,
                Answer, Unlink
  <2> QED
    BY <1>5, <2>1
<1> QED
  BY <1>1, <1>2, <1>3, <1>4, <1>6, <1>7, <1>8 DEF Next, DoAppend, Rotate

(***************************************************************************)
(* What was logged can be read, through rotations, failures and crashes,   *)
(* unless its line or the one right before it was cut short.               *)
(***************************************************************************)
THEOREM LoggedStaysReadable == Spec => []LoggedIsReadable
<1>1. Init => EventInv /\ ReadableInv
  BY DEF Init, EventInv, Touched, Written, InCurrent, Settled, ReadableInv,
         TornInv, AfterWrite
<1>2. TypeInv /\ (EventInv /\ ReadableInv) /\ [Next]_vars
          => (EventInv /\ ReadableInv)'
  BY EventsNext, ReadableNext
<1>3. ReadableInv => LoggedIsReadable
  BY DEF ReadableInv, LoggedIsReadable, Kept, Garbled
<1> QED
  BY <1>1, <1>2, <1>3, TypeHolds, PTL DEF Spec

-----------------------------------------------------------------------------
(***************************************************************************)
(* Outcomes: in order, final, and good once calls have stopped failing.    *)
(***************************************************************************)
LEMMA EventsHold == Spec => []EventInv
<1>1. Init => EventInv
  BY DEF Init, EventInv, Touched, Written, InCurrent, Settled
<1> QED
  BY <1>1, EventsNext, TypeHolds, PTL DEF Spec

\* What a step can do to the outcome of an event.
LEMMA OutcomesMove ==
    ASSUME TypeInv, EventInv, [Next]_vars, NEW e \in Events
    PROVE  \/ settled'[e] = settled[e]
           \/ settled[e] = "none" /\ settled'[e] = "pending"
           \/ settled[e] = "pending" /\ Crash
           \/ /\ settled[e] = "pending" /\ e = writing
              /\ \/ settled'[e] = "ok"
                 \/ Fault \/ handle = "dead"
<1>1. settled \in [Events -> Outcomes]
  BY DEF TypeInv, TypeOK
<1>2. CASE Crash
  BY <1>1, <1>2 DEF Crash
<1>3. ASSUME NEW f \in Events, Emit(f)
      PROVE  \/ settled'[e] = settled[e]
             \/ settled[e] = "none" /\ settled'[e] = "pending"
  BY <1>1, <1>3 DEF Emit
<1>4. CASE UNCHANGED settled
  BY <1>4
<1>5. CASE /\ at # "idle"
           /\ Settle("ok") \/ (Settle("failed") /\ (Fault \/ handle = "dead"))
  <2>1. writing \in Events /\ settled[writing] = "pending"
    BY <1>5 DEF TypeInv, TypeOK, PlaceInv, EventInv, Events
  <2> QED
    BY <1>1, <1>5, <2>1 DEF Settle
<1>6. CASE DoAppend
  BY <1>4, <1>5, <1>6
     DEF DoAppend, Rotate, BeginAppend, Open, Write, Sync, Stat, Close, Rename,
         ListRotated, Unlink, EndAppend, Goto, Fail
<1>7. CASE Query \/ UNCHANGED vars
  BY <1>4, <1>7 DEF Query, ListFiles, ReadCurrent, ReadRotated, EndQuery, Answer,
                    vars
<1> QED
  BY <1>2, <1>3, <1>6, <1>7 DEF Next

\* A handle whose close failed is written to no more, so nothing comes of an
\* append but a failure.
LEMMA DeadAppendsFail ==
    ASSUME TypeInv, EventInv, [Next]_vars, ~Fault, ~Crash, handle = "dead",
           NEW e \in Events, settled[e] = "pending", settled'[e] # "pending"
    PROVE  settled'[e] = "failed"
<1>1. settled \in [Events -> Outcomes]
  BY DEF TypeInv, TypeOK
<1>2. at \notin {"open", "sync", "stat", "rename", "list", "unlink"}
  BY DEF TypeInv, PlaceInv
<1>3. ASSUME NEW f \in Events, Emit(f)
      PROVE  FALSE
  BY <1>1, <1>3 DEF Emit
<1>4. CASE Write
  <2>1. writing \in Events
    BY <1>4 DEF Write, TypeInv, TypeOK, PlaceInv, Events
  <2> QED
    BY <1>1, <1>4, <2>1 DEF Write, Settle, Goto, Fail
<1>5. ~UNCHANGED settled
  OBVIOUS
<1> QED
  BY <1>2, <1>3, <1>4, <1>5
     DEF Next, vars, DoAppend, Rotate, BeginAppend, Open, Sync, Stat, Close, Rename,
         ListRotated, Unlink, EndAppend, Goto, Fail, Query, ListFiles, ReadCurrent,
         ReadRotated, EndQuery, Answer

\* Events are settled oldest first and once: an outcome never changes.
THEOREM SettledInOrder == Spec => EventsSettleInOrder
<1> DEFINE InOrder == \A e, f \in Events :
               e < f /\ settled[f] \in {"ok", "failed", "lost"} =>
                  settled[e] \in {"ok", "failed", "lost"}
           Final == \A e \in Events : settled[e] \in {"ok", "failed", "lost"} =>
                       settled'[e] = settled[e]
<1>1. TypeInv /\ EventInv => InOrder
  BY DEF TypeInv, TypeOK, EventInv, Settled, Outcomes, Events
<1>2. TypeInv /\ EventInv /\ [Next]_vars => [Final]_vars
  BY OutcomesMove
<1> QED
  BY <1>1, <1>2, TypeHolds, EventsHold, PTL DEF Spec, EventsSettleInOrder

\* The action half of EveryEventSettles: once calls have stopped failing, an
\* append whose handle is usable ends well and its event can be read, unless
\* a torn line before it has swallowed it; with a dead handle it fails.
THEOREM CalmIsLogged == Spec => CalmAppendsSucceed
<1> DEFINE Calm == faults = MaxFaults /\ crashes = MaxCrashes =>
             \A e \in Pending : settled'[e] # "pending" =>
                IF handle = "dead" THEN settled'[e] = "failed"
                ELSE /\ settled'[e] = "ok"
                     /\ (e \in Written \/ Garbled(e))'
<1>1. ASSUME TypeInv, EventInv, LoggedIsReadable', [Next]_vars,
             faults = MaxFaults, crashes = MaxCrashes,
             NEW e \in Pending, settled'[e] # "pending"
      PROVE  IF handle = "dead" THEN settled'[e] = "failed"
             ELSE /\ settled'[e] = "ok"
                  /\ (e \in Written \/ Garbled(e))'
  <2>1. ~Fault /\ ~Crash
    BY <1>1, AuditLogAssumption DEF Fault, Crash
  <2>2. e \in Events /\ settled[e] = "pending"
    BY DEF Pending
  <2>3. CASE handle = "dead"
    BY <1>1, <2>1, <2>2, <2>3, DeadAppendsFail
  <2>4. CASE handle # "dead"
    <3>1. settled'[e] = "ok"
      BY <1>1, <2>1, <2>2, <2>4, OutcomesMove
    <3> QED
      BY <1>1, <2>2, <2>4, <3>1 DEF LoggedIsReadable
  <2> QED
    BY <2>3, <2>4
<1>2. TypeInv /\ EventInv /\ LoggedIsReadable' /\ [Next]_vars => [Calm]_vars
  BY <1>1
<1> QED
  BY <1>2, TypeHolds, EventsHold, LoggedStaysReadable, PTL DEF Spec, CalmAppendsSucceed

-----------------------------------------------------------------------------
(***************************************************************************)
(* Every step of doAppend brings the append closer to its outcome.         *)
(***************************************************************************)
LEMMA StepsLeftAt ==
    ASSUME NEW n \in Nat, NEW k \in Nat
    PROVE  /\ StepsLeft("idle", n, k) = 0 /\ StepsLeft("unlink", n, k) = 1 + k
           /\ StepsLeft("list", n, k) = 2 + n /\ StepsLeft("rename", n, k) = 4 + n
           /\ StepsLeft("close", n, k) = 5 + n /\ StepsLeft("stat", n, k) = 6 + n
           /\ StepsLeft("sync", n, k) = 7 + n /\ StepsLeft("write", n, k) = 8 + n
           /\ StepsLeft("open", n, k) = 9 + n
BY DEF StepsLeft, Rank

LEMMA LeftIsNat ==
    ASSUME TypeInv
    PROVE  /\ Cardinality(present) \in Nat /\ Cardinality(doomed) \in Nat
           /\ Left \in Nat
<1>1. Cardinality(present) \in Nat /\ Cardinality(doomed) \in Nat
  BY AboveIsFinite DEF TypeInv, TypeOK
<1>2. at \in Places
  BY DEF TypeInv, TypeOK
<1> QED
  BY <1>1, <1>2, StepsLeftAt DEF Left, Places

LEMMA AppendAdvances ==
    ASSUME TypeInv, TypeInv', DoAppend, at # "idle"
    PROVE  Left' < Left
<1> DEFINE n == Cardinality(present)
           k == Cardinality(doomed)
           m == Cardinality(present')
           l == Cardinality(doomed')
<1>1. n \in Nat /\ k \in Nat
  BY LeftIsNat
<1>2. m \in Nat /\ l \in Nat
  <2>1. /\ rotated' \in Seq(SUBSET Events) /\ present' \subseteq DOMAIN rotated'
        /\ doomed' \subseteq present'
    BY DEF TypeInv, TypeOK
  <2>2. DOMAIN rotated' = 1..Len(rotated') /\ Len(rotated') \in Nat
    BY <2>1
  <2> QED
    BY <2>1, <2>2, NamesAreFinite
<1>3. Left = StepsLeft(at, n, k) /\ Left' = StepsLeft(at', m, l)
  BY DEF Left
<1>4. CASE Open \/ Write \/ Sync \/ Stat \/ Close
  <2>1. m = n
    BY <1>4 DEF Open, Write, Sync, Stat, Close
  <2>2. \/ at' = "idle"
        \/ at = "open" /\ at' = "write"
        \/ at = "write" /\ at' = "sync"
        \/ at = "sync" /\ at' = "stat"
        \/ at = "stat" /\ at' = "close"
        \/ at = "close" /\ at' = "rename"
    BY <1>4 DEF Open, Write, Sync, Stat, Close, Goto, Fail, Settle
  <2> HIDE DEF n, k, m, l
  <2>3. at \in {"open", "write", "sync", "stat", "close"}
    BY <1>4 DEF Open, Write, Sync, Stat, Close
  <2> QED
    BY <1>1, <1>2, <1>3, <2>1, <2>2, <2>3, StepsLeftAt
<1>5. CASE Rename
  <2>1. /\ at = "rename" /\ m <= n + 1
        /\ at' = "idle" \/ at' = "list"
    <3>1. present' = present \/ present' = present \cup {Len(rotated) + 1}
      BY <1>5 DEF Rename
    <3>2. IsFiniteSet(present)
      BY AboveIsFinite
    <3>3. m = n \/ m = n + 1
      BY <3>1, <3>2, FS_AddElement
    <3>4. at = "rename" /\ at' \in {"idle", "list"}
      BY <1>5 DEF Rename, Goto, Fail, Settle
    <3> QED
      BY <1>1, <3>3, <3>4
  <2> HIDE DEF n, k, m, l
  <2> QED
    BY <1>1, <1>2, <1>3, <2>1, StepsLeftAt
<1>6. CASE ListRotated
  <2>1. at = "list" /\ (at' = "idle" \/ (at' = "unlink" /\ l <= n))
    <3>1. IsFiniteSet(present)
      BY AboveIsFinite
    <3>2. /\ at = "list" /\ at' \in {"idle", "unlink"}
          /\ at' = "unlink" => doomed' \subseteq present
      BY <1>6 DEF ListRotated, Goto, Fail, Settle, Excess
    <3> QED
      BY <3>1, <3>2, FS_Subset
  <2> HIDE DEF n, k, m, l
  <2>2. Left = 2 + n
    BY <1>1, <1>3, <2>1, StepsLeftAt
  <2>3. Left' = 0 \/ (Left' = 1 + l /\ l <= n)
    <3>1. CASE at' = "idle"
      BY <1>2, <1>3, <3>1, StepsLeftAt
    <3>2. CASE at' = "unlink" /\ l <= n
      BY <1>2, <1>3, <3>2, StepsLeftAt
    <3> QED
      BY <2>1, <3>1, <3>2
  <2> QED
    BY <1>1, <1>2, <2>2, <2>3
<1>7. CASE \E x \in present : Unlink(x)
  <2>1. at = "unlink" /\ at' = "unlink" /\ l = k - 1
    <3>1. PICK x \in doomed : doomed' = doomed \ {x} /\ at = "unlink" /\ at' = at
      BY <1>7 DEF Unlink
    <3>2. IsFiniteSet(doomed)
      BY AboveIsFinite DEF TypeInv, TypeOK
    <3> QED
      BY <3>1, <3>2, FS_RemoveElement
  <2> HIDE DEF n, k, m, l
  <2> QED
    BY <1>1, <1>2, <1>3, <2>1, StepsLeftAt
<1>8. CASE EndAppend
  <2>1. at = "unlink" /\ at' = "idle"
    BY <1>8 DEF EndAppend, Settle
  <2> HIDE DEF n, k, m, l
  <2> QED
    BY <1>1, <1>2, <1>3, <2>1, StepsLeftAt
<1> QED
  BY <1>4, <1>5, <1>6, <1>7, <1>8 DEF DoAppend, Rotate, BeginAppend

\* Whatever fails in an append, it comes to an outcome: each of its steps
\* brings it closer, and queries and further events do not hold it back.
\* With the fairness of the file-system calls this is why the queue runs
\* empty.
THEOREM AppendsRunOut == Spec => AppendsAdvance
<1> DEFINE Forward == at # "idle" => /\ Left' <= Left
                                     /\ DoAppend => Left' < Left
<1>1. TypeInv => Left \in Nat
  BY LeftIsNat
<1>2. ASSUME TypeInv, TypeInv', [Next]_vars, at # "idle"
      PROVE  Left' <= Left /\ (DoAppend => Left' < Left)
  <2>1. Left \in Nat
    BY <1>2, LeftIsNat
  <2>2. CASE DoAppend
    <3>1. Left' < Left
      BY <1>2, <2>2, AppendAdvances
    <3>2. Left' \in Nat
      <4>1. TypeOK' /\ PlaceInv'
        BY <1>2 DEF TypeInv
      <4>2. DOMAIN rotated' = 1..Len(rotated') /\ Len(rotated') \in Nat
        BY <4>1 DEF TypeOK
      <4>3. Cardinality(present') \in Nat /\ Cardinality(doomed') \in Nat
        BY <4>1, <4>2, NamesAreFinite DEF TypeOK
      <4>4. at' \in Places
        BY <4>1 DEF TypeOK
      <4>5. StepsLeft(at', Cardinality(present'), Cardinality(doomed')) \in Nat
        BY <4>3, <4>4, StepsLeftAt DEF Places
      <4> QED
        BY <4>5 DEF Left
    <3> QED
      BY <2>1, <3>1, <3>2
  <2>3. CASE ~DoAppend
    <3>1. CASE Crash
      <4>1. at' = "idle"
        BY <3>1 DEF Crash
      <4>2. Left' = 0
        BY <4>1 DEF Left, StepsLeft, Rank
      <4> QED
        BY <2>1, <2>3, <4>2
    <3>2. CASE UNCHANGED <<at, present, doomed>>
      BY <2>1, <2>3, <3>2 DEF Left
    <3> QED
      BY <1>2, <2>3, <3>1, <3>2
         DEF Next, Emit, Query, ListFiles, ReadCurrent, ReadRotated, EndQuery,
             Answer, vars, log
  <2> QED
    BY <2>2, <2>3
<1>3. TypeInv /\ TypeInv' /\ [Next]_vars => [Forward]_vars
  BY <1>2
<1> QED
  BY <1>1, <1>3, TypeHolds, PTL DEF Spec, AppendsAdvance

=============================================================================
