-------------------------- MODULE StateStoreProofs --------------------------
(***************************************************************************)
(* The file-system calls of module StateStore implement AtomicStore, and   *)
(* what clients are told stays true, for any number of updates, readers    *)
(* and crashes.                                                            *)
(***************************************************************************)
EXTENDS StateStore, FiniteSetTheorems, TLAPS

-----------------------------------------------------------------------------
(***************************************************************************)
(* Sequences: the updates in effect grow at the end, the queue shrinks at  *)
(* its head.                                                               *)
(***************************************************************************)
LEMMA Appended ==
    ASSUME NEW S, NEW s \in Seq(S), NEW e \in S
    PROVE  /\ Append(s, e) \in Seq(S)
           /\ ToSet(Append(s, e)) = ToSet(s) \cup {e}
           /\ IsPrefix(s, Append(s, e))
<1>1. /\ Append(s, e) \in Seq(S) /\ Len(Append(s, e)) = Len(s) + 1
      /\ \A i \in 1..Len(s) : Append(s, e)[i] = s[i]
      /\ Append(s, e)[Len(s) + 1] = e
      /\ Len(s) \in Nat
      /\ DOMAIN s = 1..Len(s) /\ DOMAIN Append(s, e) = 1..Len(s) + 1
  OBVIOUS
<1>2. ToSet(Append(s, e)) = ToSet(s) \cup {e}
  BY <1>1 DEF ToSet
<1>3. SubSeq(s, 1, Len(s)) = SubSeq(Append(s, e), 1, Len(s))
  BY <1>1
<1> QED
  BY <1>1, <1>2, <1>3 DEF IsPrefix

LEMMA PrefixExtends ==
    ASSUME NEW S, NEW s \in Seq(S), NEW t \in Seq(S), NEW e \in S,
           IsPrefix(s, t)
    PROVE  IsPrefix(s, Append(t, e))
<1>1. /\ Len(s) \in Nat /\ Len(t) \in Nat /\ Len(s) <= Len(t)
      /\ Append(t, e) \in Seq(S) /\ Len(Append(t, e)) = Len(t) + 1
      /\ \A i \in 1..Len(t) : Append(t, e)[i] = t[i]
  BY DEF IsPrefix
<1>2. SubSeq(t, 1, Len(s)) = SubSeq(Append(t, e), 1, Len(s))
  BY <1>1
<1> QED
  BY <1>1, <1>2 DEF IsPrefix

LEMMA PrefixReflexive ==
    ASSUME NEW S, NEW s \in Seq(S)
    PROVE  IsPrefix(s, s)
BY DEF IsPrefix

LEMMA Dequeued ==
    ASSUME NEW S, NEW q \in Seq(S), q # <<>>, IsInjective(q)
    PROVE  /\ Tail(q) \in Seq(S) /\ Head(q) \in S /\ Head(q) \in ToSet(q)
           /\ IsInjective(Tail(q))
           /\ ToSet(Tail(q)) = ToSet(q) \ {Head(q)}
<1>1. /\ Len(q) \in Nat /\ Len(q) > 0 /\ DOMAIN q = 1..Len(q)
      /\ Tail(q) \in Seq(S) /\ Len(Tail(q)) = Len(q) - 1
      /\ DOMAIN Tail(q) = 1..Len(q) - 1
      /\ \A i \in 1..Len(q) - 1 : Tail(q)[i] = q[i + 1]
      /\ Head(q) = q[1] /\ Head(q) \in S
  OBVIOUS
<1>2. IsInjective(Tail(q))
  BY <1>1 DEF IsInjective
<1>3. Head(q) \in ToSet(q)
  BY <1>1 DEF ToSet
<1>4. ASSUME NEW x \in ToSet(Tail(q))
      PROVE  x \in ToSet(q) \ {Head(q)}
  BY <1>1, <1>4 DEF ToSet, IsInjective
<1>5. ASSUME NEW x \in ToSet(q), x # Head(q)
      PROVE  x \in ToSet(Tail(q))
  <2>1. PICK i \in 1..Len(q) : x = q[i]
    BY <1>1 DEF ToSet
  <2>2. i - 1 \in 1..Len(q) - 1 /\ x = Tail(q)[i - 1]
    BY <1>1, <1>5, <2>1
  <2> QED
    BY <1>1, <2>2 DEF ToSet
<1> QED
  BY <1>1, <1>2, <1>3, <1>4, <1>5

LEMMA Enqueued ==
    ASSUME NEW S, NEW q \in Seq(S), NEW e \in S, IsInjective(q), e \notin ToSet(q)
    PROVE  /\ IsInjective(Append(q, e)) /\ Append(q, e) # <<>>
           /\ Head(Append(q, e)) = IF q = <<>> THEN e ELSE Head(q)
           /\ Tail(Append(q, e)) = IF q = <<>> THEN <<>> ELSE Append(Tail(q), e)
<1>1. /\ Append(q, e) \in Seq(S) /\ Len(Append(q, e)) = Len(q) + 1
      /\ \A i \in 1..Len(q) : Append(q, e)[i] = q[i]
      /\ Append(q, e)[Len(q) + 1] = e
      /\ Len(q) \in Nat
      /\ DOMAIN q = 1..Len(q) /\ DOMAIN Append(q, e) = 1..Len(q) + 1
  OBVIOUS
<1>2. IsInjective(Append(q, e))
  BY <1>1 DEF IsInjective, ToSet
<1>3. Head(Append(q, e)) = IF q = <<>> THEN e ELSE Head(q)
  BY <1>1
<1>4. Tail(Append(q, e)) = IF q = <<>> THEN <<>> ELSE Append(Tail(q), e)
  <2>1. CASE q = <<>>
    BY <2>1, <1>1
  <2>2. CASE q # <<>>
    <3> DEFINE t == Tail(q)  u == Append(t, e)  v == Tail(Append(q, e))
    <3>1. /\ t \in Seq(S) /\ Len(t) = Len(q) - 1 /\ Len(q) > 0
          /\ \A i \in 1..Len(q) - 1 : t[i] = q[i + 1]
      BY <2>2
    <3>2. /\ u \in Seq(S) /\ Len(u) = Len(q)
          /\ \A i \in 1..Len(q) - 1 : u[i] = t[i]
          /\ u[Len(q)] = e
      BY <3>1, <1>1
    <3>3. /\ v \in Seq(S) /\ Len(v) = Len(q)
          /\ \A i \in 1..Len(q) : v[i] = Append(q, e)[i + 1]
      BY <1>1
    <3>4. \A i \in 1..Len(q) : u[i] = v[i]
      <4> TAKE i \in 1..Len(q)
      <4> HIDE DEF t, u, v
      <4>1. CASE i = Len(q)
        BY <4>1, <1>1, <3>2, <3>3
      <4>2. CASE i # Len(q)
        <5>1. i \in 1..Len(q) - 1 /\ i + 1 \in 1..Len(q)
          BY <4>2
        <5>2. u[i] = q[i + 1] /\ v[i] = Append(q, e)[i + 1]
          BY <5>1, <3>1, <3>2, <3>3
        <5> QED
          BY <5>1, <5>2, <1>1
      <4> QED
        BY <4>1, <4>2
    <3>5. u = v
      <4> HIDE DEF t, u, v
      <4> QED
        BY <3>2, <3>3, <3>4, <1>1
    <3> QED
      BY <2>2, <3>5
  <2> QED
    BY <2>1, <2>2
<1> QED
  BY <1>1, <1>2, <1>3, <1>4

-----------------------------------------------------------------------------
(***************************************************************************)
(* The inductive invariant.                                                *)
(***************************************************************************)
\* The updates that state.json has.
InEffect == ToSet(AppliedTo(disk))

\* The queue holds the updates in progress, and only its head is running.
Running == Loading \cup Saving

QueueInv ==
    /\ IsInjective(queue)
    /\ \A w \in Writers : w \in ToSet(queue) <=> pc[w] \in {"queued"} \cup Running
    /\ \A w \in Writers : pc[w] \in Running => queue # <<>> /\ w = Head(queue)

\* At most one call is filling in the first state.json.
FirstInv ==
    /\ \A c \in Calls : pc[c] = "fill" => disk = Partial
    /\ \A c, d \in Calls : pc[c] = "fill" /\ pc[d] = "fill" => c = d

\* Updates are in effect from the rename to the answer and after it.
EffectInv ==
    /\ \A w \in Writers : w \in InEffect => pc[w] \in {"saved", "acked", "lost"}
    /\ \A w \in Writers : pc[w] \in {"saved", "acked"} => w \in InEffect

\* What a running update holds is state.json as it is, and its own change.
HoldInv ==
    \A w \in Writers :
        /\ pc[w] = "mutate" => IsDocument(disk) /\ doc[w] = disk
        /\ pc[w] \in {"open", "write", "rename"} =>
              /\ IsDocument(disk)
              /\ doc[w] = [disk EXCEPT !.applied = Append(@, w)]
        /\ pc[w] = "rename" => temp[w] \in {None, doc[w]}

\* What a read may rely on.
ReadInv ==
    /\ \A r \in Readers : pc[r] \in Loading => floor[r] \subseteq InEffect
    /\ \A r \in Readers : pc[r] = "served" => IsDocument(doc[r])
    /\ ReadsAreCurrent

IInv == TypeOK /\ QueueInv /\ FirstInv /\ EffectInv /\ HoldInv /\ ReadInv

LEMMA NoUpdatesYet ==
    AppliedTo(None) = <<>> /\ AppliedTo(Partial) = <<>> /\ ToSet(<<>>) = {}
BY DEF AppliedTo, IsDocument, ToSet

LEMMA DocumentTypes ==
    ASSUME NEW d \in Documents
    PROVE  /\ IsDocument(d) /\ AppliedTo(d) = d.applied
           /\ d.applied \in Seq(Writers) /\ d.server \in Calls
           /\ \A w \in Writers : [d EXCEPT !.applied = Append(@, w)] \in Documents
BY Appended, StateStoreAssumption DEF Documents, IsDocument, AppliedTo

LEMMA InitialDocument ==
    ASSUME NEW c \in Calls
    PROVE  [server |-> c, applied |-> <<>>] \in Documents
BY DEF Documents

LEMMA InitEstablishes == Init => IInv
<1> SUFFICES ASSUME Init PROVE IInv
  OBVIOUS
<1> USE StateStoreAssumption
<1>1. TypeOK
  BY DEF Init, TypeOK, Calls, WriterPlaces, ReaderPlaces
<1>2. QueueInv
  BY DEF Init, QueueInv, Running, Loading, Saving, IsInjective, ToSet, Calls
<1>3. FirstInv /\ HoldInv
  BY DEF Init, FirstInv, HoldInv, Calls
<1>4. EffectInv
  BY NoUpdatesYet DEF Init, EffectInv, InEffect, Calls
<1>5. ReadInv
  BY DEF Init, ReadInv, ReadsAreCurrent, Loading, Calls
<1> QED
  BY <1>1, <1>2, <1>3, <1>4, <1>5 DEF IInv

-----------------------------------------------------------------------------
(***************************************************************************)
(* Types.                                                                  *)
(***************************************************************************)
LEMMA TypeStep ==
    ASSUME IInv, Next
    PROVE  TypeOK'
<1> USE StateStoreAssumption DEF Goto, WriterPlaces, ReaderPlaces
<1>0. /\ TypeOK /\ None \notin Documents /\ Partial \notin Documents
      /\ \A w \in Writers : w \in Calls /\ w \notin Readers
      /\ \A r \in Readers : r \in Calls /\ r \notin Writers
      /\ \A c \in Calls : c \in Writers \/ c \in Readers
  BY DEF IInv, Calls
<1>1. ASSUME NEW w \in Writers, Enqueue(w)
      PROVE  TypeOK'
  BY <1>0, <1>1 DEF Enqueue, TypeOK
<1>2. ASSUME NEW w \in Writers, BeginUpdate(w)
      PROVE  TypeOK'
  BY <1>0, <1>2 DEF BeginUpdate, TypeOK, Loading
<1>3. ASSUME NEW r \in Readers, BeginRead(r)
      PROVE  TypeOK'
  BY <1>0, <1>3 DEF BeginRead, TypeOK, Loading, Acked
<1>4. ASSUME NEW c \in Calls, ListTemps(c) \/ UnlinksDone(c) \/ RejectLoad(c)
      PROVE  TypeOK'
  <2>1. CASE ListTemps(c)
    BY <1>0, <2>1 DEF ListTemps, TypeOK, Loading
  <2>2. CASE UnlinksDone(c)
    BY <1>0, <2>2 DEF UnlinksDone, TypeOK, Loading
  <2>3. CASE RejectLoad(c)
    BY <1>0, <2>3 DEF RejectLoad, Rejecting, TypeOK, Saving
  <2> QED
    BY <1>4, <2>1, <2>2, <2>3
<1>5. ASSUME NEW c \in Calls, NEW w \in Writers, UnlinkTemp(c, w)
      PROVE  TypeOK'
  BY <1>0, <1>5 DEF UnlinkTemp, TypeOK
<1>6. ASSUME NEW c \in Calls, ReadState(c) \/ RereadState(c)
      PROVE  TypeOK'
  <2>1. /\ UNCHANGED <<disk, temp, queue, stray, floor, crashes>>
        /\ \/ pc' = [pc EXCEPT ![c] = "create"] /\ UNCHANGED doc
           \/ TakeDocument(c)
    BY <1>6 DEF ReadState, RereadState
  <2>2. doc' \in [Calls -> Documents \cup {None}]
    BY <1>0, <2>1 DEF TakeDocument, IsDocument, TypeOK
  <2>3. \E place \in Loading \cup {Loaded(c)} : pc' = [pc EXCEPT ![c] = place]
    BY <2>1 DEF TakeDocument, Loading
  <2> QED
    BY <1>0, <2>1, <2>2, <2>3 DEF Loaded, TypeOK, Saving
<1>7. ASSUME NEW c \in Calls, CreateInitial(c)
      PROVE  TypeOK'
  <2>1. /\ UNCHANGED <<temp, queue, stray, doc, floor, crashes>>
        /\ disk' \in {disk, Partial}
        /\ \E place \in Loading : pc' = [pc EXCEPT ![c] = place]
    BY <1>7 DEF CreateInitial, Loading
  <2> QED
    BY <1>0, <2>1 DEF TypeOK
<1>8. ASSUME NEW c \in Calls, FillInitial(c)
      PROVE  TypeOK'
  <2>1. disk' \in Documents /\ disk' = [server |-> c, applied |-> <<>>]
    BY <1>8 DEF FillInitial, Documents
  <2>2. doc' \in [Calls -> Documents \cup {None}]
    BY <1>0, <1>8, <2>1 DEF FillInitial, TypeOK
  <2>3. UNCHANGED <<temp, queue, stray, floor, crashes>> /\ pc' = [pc EXCEPT ![c] = Loaded(c)]
    BY <1>8 DEF FillInitial
  <2> QED
    BY <1>0, <2>1, <2>2, <2>3 DEF Loaded, TypeOK, Loading, Saving
<1>9. ASSUME NEW r \in Readers, ReturnRead(r)
      PROVE  TypeOK'
  BY <1>0, <1>9 DEF ReturnRead, TypeOK
<1>10. ASSUME NEW w \in Writers, Mutate(w)
       PROVE  TypeOK'
  <2>1. pc[w] = "mutate" /\ doc[w] \in Documents
    BY <1>0, <1>10 DEF Mutate, IInv, HoldInv, TypeOK, IsDocument
  <2>2. [doc[w] EXCEPT !.applied = Append(@, w)] \in Documents
    BY <2>1, DocumentTypes
  <2>3. doc' \in [Calls -> Documents \cup {None}]
    <3>1. doc \in [Calls -> Documents \cup {None}] /\ w \in Calls
      BY <1>0 DEF TypeOK
    <3>2. CASE UNCHANGED doc
      BY <3>1, <3>2
    <3>3. CASE doc' = [doc EXCEPT ![w].applied = Append(@, w)]
      BY <2>1, <2>2, <3>1, <3>3
    <3> QED
      BY <1>10, <3>2, <3>3 DEF Mutate
  <2>4. /\ UNCHANGED <<disk, temp, queue, stray, floor, crashes>>
        /\ \E place \in {"open", "failed"} : pc' = [pc EXCEPT ![w] = place]
    BY <1>10 DEF Mutate
  <2> QED
    BY <1>0, <2>3, <2>4 DEF TypeOK, Saving
<1>11. ASSUME NEW w \in Writers, OpenTemp(w) \/ WriteTemp(w) \/ WriteFails(w) \/ RenameTemp(w)
       PROVE  TypeOK'
  <2>1. CASE OpenTemp(w)
    BY <1>0, <2>1 DEF OpenTemp, TypeOK, Saving
  <2>2. CASE WriteTemp(w)
    BY <1>0, <2>2 DEF WriteTemp, TypeOK, Saving
  <2>3. CASE WriteFails(w)
    BY <1>0, <2>3 DEF WriteFails, TypeOK, Saving
  <2>4. CASE RenameTemp(w)
    <3>1. /\ UNCHANGED <<queue, stray, doc, floor, crashes>>
          /\ disk' \in Documents \cup {None, Partial}
          /\ temp' \in [Writers -> Documents \cup {None, Partial}]
          /\ \E place \in Saving : pc' = [pc EXCEPT ![w] = place]
      BY <1>0, <2>4 DEF RenameTemp, TypeOK, Saving
    <3> QED
      BY <1>0, <3>1 DEF TypeOK
  <2> QED
    BY <1>11, <2>1, <2>2, <2>3, <2>4
<1>12. ASSUME NEW w \in Writers, Release(w)
       PROVE  TypeOK'
  <2>1. queue' \in Seq(Writers)
    BY <1>0, <1>12, Dequeued DEF Release, IInv, QueueInv, Running, Saving, TypeOK
  <2> QED
    BY <1>0, <1>12, <2>1 DEF Release, TypeOK, Answered
<1>13. CASE Crash
  BY <1>0, <1>13 DEF Crash, TypeOK, Answered
<1> QED
  BY <1>0, <1>1, <1>2, <1>3, <1>4, <1>5, <1>6, <1>7, <1>8, <1>9, <1>10, <1>11,
     <1>12, <1>13
     DEF Next, Update, Load

-----------------------------------------------------------------------------
(***************************************************************************)
(* A step of call c that leaves state.json and the queue alone, and may    *)
(* remove temporary files, keeps what everybody else relies on.            *)
(***************************************************************************)
LEMMA LocalKeeps ==
    ASSUME IInv, TypeOK', NEW c \in Calls, NEW place,
           pc' = [pc EXCEPT ![c] = place],
           UNCHANGED <<disk, queue>>,
           \A d \in Calls \ {c} : doc'[d] = doc[d],
           \A r \in Readers \ {c} : floor'[r] = floor[r],
           \A w \in Writers \ {c} : temp'[w] \in {temp[w], None},
           place # "fill",
           c \in Writers =>
              /\ pc[c] \in {"queued"} \cup Running /\ pc[c] # "saved"
              /\ place \in Running \ {"saved"}
              /\ queue # <<>> /\ c = Head(queue)
              /\ place = "mutate" => IsDocument(disk) /\ doc'[c] = disk
              /\ place \in {"open", "write", "rename"} =>
                    /\ IsDocument(disk)
                    /\ doc'[c] = [disk EXCEPT !.applied = Append(@, c)]
              /\ place = "rename" => temp'[c] \in {None, doc'[c]},
           c \in Readers =>
              /\ place \in Loading => floor'[c] \subseteq InEffect
              /\ place = "served" => /\ IsDocument(disk) /\ doc'[c] = disk
                                     /\ floor'[c] \subseteq InEffect
    PROVE  IInv'
<1> USE StateStoreAssumption
<1>0. /\ TypeOK /\ InEffect' = InEffect /\ disk' = disk /\ queue' = queue
      /\ \A w \in Writers : w \in Calls /\ w \notin Readers
      /\ \A r \in Readers : r \in Calls /\ r \notin Writers
      /\ pc'[c] = place /\ \A d \in Calls \ {c} : pc'[d] = pc[d]
  BY DEF IInv, TypeOK, Calls, InEffect
<1>1. QueueInv'
  BY <1>0 DEF IInv, QueueInv
<1>2. FirstInv'
  BY <1>0 DEF IInv, FirstInv
<1>3. EffectInv'
  BY <1>0 DEF IInv, EffectInv, Running, Loading, Saving
<1>4. HoldInv'
  BY <1>0 DEF IInv, HoldInv
<1>5. ReadInv'
  <2>1. ASSUME NEW r \in Readers \ {c}
        PROVE  /\ pc'[r] = pc[r] /\ doc'[r] = doc[r] /\ floor'[r] = floor[r]
    BY <1>0
  <2>2. CASE c \in Readers /\ place = "served"
    <3>1. /\ IsDocument(disk) /\ doc'[c] = disk /\ floor'[c] \subseteq InEffect
          /\ disk \in Documents
      BY <2>2, <1>0 DEF IsDocument, TypeOK
    <3>2. /\ InEffect = ToSet(disk.applied) /\ IsPrefix(disk.applied, disk.applied)
      BY <3>1, DocumentTypes, PrefixReflexive DEF InEffect
    <3> QED
      BY <1>0, <2>1, <2>2, <3>1, <3>2 DEF IInv, ReadInv, ReadsAreCurrent, Loading
  <2>3. CASE ~(c \in Readers /\ place = "served")
    BY <1>0, <2>1, <2>3 DEF IInv, ReadInv, ReadsAreCurrent
  <2> QED
    BY <2>2, <2>3
<1> QED
  BY <1>1, <1>2, <1>3, <1>4, <1>5 DEF IInv

LEMMA MyTurn ==
    ASSUME IInv, NEW c \in Calls
    PROVE  /\ TypeOK
           /\ \A x : [pc EXCEPT ![c] = x][c] = x
           /\ c \in Writers => c \notin Readers
           /\ c \in Writers \/ c \in Readers
           /\ c \in Writers /\ pc[c] \in Running => queue # <<>> /\ c = Head(queue)
           /\ c \in Readers /\ pc[c] \in Loading => floor[c] \subseteq InEffect
BY StateStoreAssumption DEF IInv, QueueInv, ReadInv, TypeOK, Calls

LEMMA LoadKeeps ==
    ASSUME IInv, TypeOK', NEW c \in Calls, Load(c), UNCHANGED disk
    PROVE  IInv'
<1> USE MyTurn DEF Goto, Running, Loading, Saving
<1>1. CASE ListTemps(c)
  BY <1>1, LocalKeeps DEF ListTemps, TypeOK
<1>2. ASSUME NEW w \in Writers, UnlinkTemp(c, w)
      PROVE  IInv'
  <2>1. /\ pc[c] = "unlink" /\ pc' = [pc EXCEPT ![c] = "unlink"]
        /\ \A v \in Writers : temp'[v] \in {temp[v], None}
        /\ UNCHANGED <<disk, queue, doc, floor>>
    BY <1>2 DEF UnlinkTemp, TypeOK
  <2> QED
    BY <2>1, LocalKeeps
<1>3. CASE UnlinksDone(c)
  BY <1>3, LocalKeeps DEF UnlinksDone, TypeOK
<1>4. CASE ReadState(c) \/ RereadState(c)
  <2>1. /\ pc[c] \in Loading /\ UNCHANGED <<disk, temp, queue, floor>>
        /\ \/ pc' = [pc EXCEPT ![c] = "create"] /\ UNCHANGED doc
           \/ TakeDocument(c)
    BY <1>4 DEF ReadState, RereadState
  <2>2. CASE pc' = [pc EXCEPT ![c] = "create"] /\ UNCHANGED doc
    BY <2>1, <2>2, LocalKeeps DEF TypeOK
  <2>3. CASE TakeDocument(c) /\ IsDocument(disk)
    <3>1. /\ doc'[c] = disk /\ \A d \in Calls \ {c} : doc'[d] = doc[d]
          /\ pc' = [pc EXCEPT ![c] = Loaded(c)]
      BY <2>3 DEF TakeDocument, TypeOK
    <3>2. CASE c \in Writers
      BY <2>1, <2>3, <3>1, <3>2, LocalKeeps DEF Loaded, TypeOK
    <3>3. CASE c \in Readers
      <4>1. c \notin Writers
        BY <3>3
      <4> QED
        BY <2>1, <2>3, <3>1, <3>3, <4>1, LocalKeeps DEF Loaded, TypeOK
    <3> QED
      BY <3>2, <3>3
  <2>4. CASE TakeDocument(c) /\ ~IsDocument(disk)
    <3>1. /\ \A d \in Calls \ {c} : doc'[d] = doc[d]
          /\ pc' = [pc EXCEPT ![c] = "unparsable"]
      BY <2>4 DEF TakeDocument, TypeOK
    <3> QED
      BY <2>1, <3>1, LocalKeeps DEF TypeOK
  <2> QED
    BY <2>1, <2>2, <2>3, <2>4
<1>5. CASE CreateInitial(c)
  <2>1. disk # None
    BY <1>5, StateStoreAssumption DEF CreateInitial
  <2> QED
    BY <1>5, <2>1, LocalKeeps DEF CreateInitial, TypeOK
<1>6. CASE FillInitial(c)
  <2>1. disk = Partial /\ disk' = [server |-> c, applied |-> <<>>]
    BY <1>6 DEF FillInitial, IInv, FirstInv
  <2>2. disk' \in Documents
    BY <2>1, InitialDocument
  <2> QED
    BY <2>1, <2>2, StateStoreAssumption
<1>7. CASE RejectLoad(c)
  BY <1>7, LocalKeeps DEF RejectLoad, Rejecting, TypeOK
<1> QED
  BY <1>1, <1>2, <1>3, <1>4, <1>5, <1>6, <1>7 DEF Load

\* The updates a call makes to its own copy and to its temporary file.
LEMMA SaveKeeps ==
    ASSUME IInv, TypeOK', NEW w \in Writers, UNCHANGED disk,
           BeginUpdate(w) \/ Mutate(w) \/ OpenTemp(w) \/ WriteTemp(w) \/ WriteFails(w)
             \/ RenameTemp(w)
    PROVE  IInv'
<1> USE MyTurn DEF Goto, Running, Loading, Saving
<1>0. w \in Calls /\ w \notin Readers
  BY StateStoreAssumption DEF Calls
<1>1. CASE BeginUpdate(w)
  <2>1. queue # <<>>
    BY <1>1 DEF BeginUpdate, IInv, QueueInv, ToSet
  <2> QED
    BY <1>0, <1>1, <2>1, LocalKeeps DEF BeginUpdate, TypeOK
<1>2. CASE Mutate(w)
  <2>1. IsDocument(disk) /\ doc[w] = disk /\ pc[w] = "mutate"
    BY <1>2 DEF Mutate, IInv, HoldInv
  <2>2. CASE pc' = [pc EXCEPT ![w] = "failed"] /\ UNCHANGED doc
    BY <1>0, <1>2, <2>2, LocalKeeps DEF Mutate, TypeOK
  <2>3. CASE /\ doc' = [doc EXCEPT ![w].applied = Append(@, w)]
             /\ pc' = [pc EXCEPT ![w] = "open"]
    <3>1. /\ doc'[w] = [disk EXCEPT !.applied = Append(@, w)]
          /\ \A d \in Calls \ {w} : doc'[d] = doc[d]
      BY <1>0, <2>1, <2>3 DEF TypeOK
    <3>2. UNCHANGED <<disk, temp, queue, floor>>
      BY <1>2 DEF Mutate
    <3> QED
      BY <1>0, <2>1, <2>3, <3>1, <3>2, LocalKeeps DEF TypeOK
  <2> QED
    BY <1>2, <2>2, <2>3 DEF Mutate
<1>3. CASE OpenTemp(w) \/ WriteTemp(w) \/ WriteFails(w)
  <2>1. /\ IsDocument(disk) /\ doc[w] = [disk EXCEPT !.applied = Append(@, w)]
        /\ pc[w] \in {"open", "write"}
    BY <1>3 DEF OpenTemp, WriteTemp, WriteFails, IInv, HoldInv
  <2>2. /\ UNCHANGED <<disk, queue, doc, floor>>
        /\ \A v \in Writers \ {w} : temp'[v] = temp[v]
        /\ \/ pc' = [pc EXCEPT ![w] = "write"]
           \/ pc' = [pc EXCEPT ![w] = "failed"]
           \/ pc' = [pc EXCEPT ![w] = "rename"] /\ temp'[w] \in {None, doc[w]}
    BY <1>3 DEF OpenTemp, WriteTemp, WriteFails, TypeOK
  <2>3. CASE pc' = [pc EXCEPT ![w] = "write"]
    BY <1>0, <2>1, <2>2, <2>3, LocalKeeps DEF TypeOK
  <2>4. CASE pc' = [pc EXCEPT ![w] = "failed"]
    BY <1>0, <2>1, <2>2, <2>4, LocalKeeps DEF TypeOK
  <2>5. CASE pc' = [pc EXCEPT ![w] = "rename"] /\ temp'[w] \in {None, doc[w]}
    BY <1>0, <2>1, <2>2, <2>5, LocalKeeps DEF TypeOK
  <2> QED
    BY <2>2, <2>3, <2>4, <2>5
<1>4. CASE RenameTemp(w)
  <2>1. temp[w] = None
    <3> SUFFICES ASSUME temp[w] # None PROVE FALSE
      OBVIOUS
    <3>1. /\ IsDocument(disk) /\ doc[w] = [disk EXCEPT !.applied = Append(@, w)]
          /\ temp[w] = doc[w] /\ disk = temp[w] /\ disk \in Documents
      BY <1>4 DEF RenameTemp, IInv, HoldInv, IsDocument, TypeOK
    <3>2. disk.applied = Append(disk.applied, w) /\ disk.applied \in Seq(Writers)
      BY <3>1 DEF Documents
    <3>3. Len(Append(disk.applied, w)) = Len(disk.applied) + 1 /\ Len(disk.applied) \in Nat
      BY <3>2
    <3> QED
      BY <3>2, <3>3
  <2> QED
    BY <1>0, <1>4, <2>1, LocalKeeps DEF RenameTemp, TypeOK
<1> QED
  BY <1>1, <1>2, <1>3, <1>4

\* A reader starts, and returns what it has read.
LEMMA ReadKeeps ==
    ASSUME IInv, TypeOK', NEW r \in Readers, BeginRead(r) \/ ReturnRead(r)
    PROVE  IInv'
<1>0. r \in Calls /\ r \notin Writers /\ TypeOK
  BY StateStoreAssumption DEF Calls, IInv
<1>1. CASE BeginRead(r)
  <2>1. Acked \subseteq InEffect
    BY DEF IInv, EffectInv, Acked
  <2> QED
    BY <1>0, <1>1, <2>1, LocalKeeps DEF BeginRead, Goto, TypeOK
<1>2. CASE ReturnRead(r)
  BY <1>0, <1>2, LocalKeeps DEF ReturnRead, Goto, TypeOK, Loading
<1> QED
  BY <1>1, <1>2

-----------------------------------------------------------------------------
(***************************************************************************)
(* The steps that change state.json or the queue.                          *)
(***************************************************************************)
\* Nobody reads or holds a document while the first state.json is written.
LEMMA CreateKeeps ==
    ASSUME IInv, TypeOK', NEW c \in Calls, CreateInitial(c), disk = None
    PROVE  IInv'
<1>0. /\ TypeOK /\ disk' = Partial /\ UNCHANGED <<temp, queue, doc, floor>>
      /\ pc[c] = "create" /\ pc' = [pc EXCEPT ![c] = "fill"]
      /\ pc'[c] = "fill" /\ \A d \in Calls \ {c} : pc'[d] = pc[d]
  BY DEF CreateInitial, Goto, IInv, TypeOK
<1>1. InEffect = {} /\ InEffect' = {}
  BY <1>0, NoUpdatesYet DEF InEffect
<1>2. /\ \A d \in Calls : pc[d] # "fill"
      /\ \A w \in Writers : pc[w] \notin {"mutate", "open", "write", "rename", "saved", "acked"}
      /\ \A r \in Readers : pc[r] # "served"
  BY <1>1, StateStoreAssumption
     DEF IInv, FirstInv, HoldInv, EffectInv, ReadInv, ReadsAreCurrent, IsDocument
<1>3. \A w \in Writers : w \in Calls
  BY DEF Calls
<1>4. QueueInv'
  BY <1>0, <1>3 DEF IInv, QueueInv, Running, Loading
<1>5. FirstInv'
  BY <1>0, <1>2 DEF FirstInv
<1>6. EffectInv' /\ HoldInv'
  BY <1>0, <1>1, <1>2, <1>3 DEF EffectInv, HoldInv
<1>7. ReadInv'
  BY <1>0, <1>1, <1>2 DEF IInv, ReadInv, ReadsAreCurrent, Loading, Calls
<1> QED
  BY <1>4, <1>5, <1>6, <1>7 DEF IInv

LEMMA FillKeeps ==
    ASSUME IInv, TypeOK', NEW c \in Calls, FillInitial(c)
    PROVE  IInv'
<1>0. /\ TypeOK /\ pc[c] = "fill" /\ disk = Partial
      /\ disk' = [server |-> c, applied |-> <<>>]
      /\ UNCHANGED <<temp, queue, floor>>
      /\ doc'[c] = disk' /\ \A d \in Calls \ {c} : doc'[d] = doc[d]
      /\ pc'[c] = Loaded(c) /\ \A d \in Calls \ {c} : pc'[d] = pc[d]
  BY DEF FillInitial, Goto, IInv, TypeOK, FirstInv
<1>1. disk' \in Documents
  BY <1>0, InitialDocument
<1>2. /\ IsDocument(disk') /\ disk'.applied = <<>> /\ AppliedTo(disk') = <<>>
      /\ IsPrefix(<<>>, <<>>)
  BY <1>0, <1>1, DocumentTypes, PrefixReflexive
<1>3. InEffect = {} /\ InEffect' = {}
  BY <1>0, <1>2, NoUpdatesYet DEF InEffect
<1>4. /\ \A d \in Calls \ {c} : pc[d] # "fill"
      /\ \A w \in Writers : pc[w] \notin {"mutate", "open", "write", "rename", "saved", "acked"}
      /\ \A r \in Readers : pc[r] # "served"
  BY <1>0, <1>3, StateStoreAssumption
     DEF IInv, FirstInv, HoldInv, EffectInv, ReadInv, ReadsAreCurrent, IsDocument
<1>5. /\ \A w \in Writers : w \in Calls /\ w \notin Readers
      /\ \A r \in Readers : r \in Calls /\ r \notin Writers
      /\ c \in Writers \/ c \in Readers
  BY StateStoreAssumption DEF Calls
<1>6. /\ c \in Writers => pc'[c] = "mutate"
      /\ c \in Readers => pc'[c] = "served"
  BY <1>0, <1>5 DEF Loaded
<1>7. QueueInv'
  BY <1>0, <1>5, <1>6 DEF IInv, QueueInv, Running, Loading, Saving
<1>8. FirstInv'
  BY <1>0, <1>4, <1>5, <1>6 DEF FirstInv
<1>9. EffectInv' /\ HoldInv'
  BY <1>0, <1>2, <1>3, <1>4, <1>5, <1>6 DEF EffectInv, HoldInv
<1>10. ReadInv'
  <2>1. c \in Readers => floor[c] = {}
    BY <1>0, <1>3 DEF IInv, ReadInv, Loading
  <2>2. \A r \in Readers : pc'[r] = "served" => r = c
    BY <1>0, <1>4, <1>5
  <2>3. \A r \in Readers : pc'[r] \in Loading => floor'[r] \subseteq InEffect'
    BY <1>0, <1>3, <1>5, <1>6 DEF IInv, ReadInv, Loading
  <2> QED
    BY <1>0, <1>2, <1>3, <2>1, <2>2, <2>3 DEF ReadInv, ReadsAreCurrent
<1> QED
  BY <1>7, <1>8, <1>9, <1>10 DEF IInv

\* The rename that puts an update into effect: what readers hold stays a
\* prefix of it.
LEMMA Renamed ==
    ASSUME IInv, NEW w \in Writers, RenameTemp(w), UNCHANGED disk => FALSE
    PROVE  /\ disk \in Documents /\ disk' \in Documents
           /\ disk' = [disk EXCEPT !.applied = Append(@, w)]
           /\ disk'.server = disk.server
           /\ disk'.applied = Append(disk.applied, w)
           /\ AppliedTo(disk) = disk.applied
           /\ AppliedTo(disk') = Append(disk.applied, w)
           /\ disk.applied \in Seq(Writers)
           /\ InEffect' = InEffect \cup {w}
           /\ w \notin InEffect
           /\ pc[w] = "rename" /\ queue # <<>> /\ w = Head(queue)
           /\ pc'[w] = "saved" /\ pc' = [pc EXCEPT ![w] = "saved"]
<1>1. /\ pc[w] = "rename" /\ temp[w] # None /\ disk' = temp[w] /\ w \in Calls
      /\ IsDocument(disk) /\ doc[w] = [disk EXCEPT !.applied = Append(@, w)]
      /\ temp[w] = doc[w] /\ disk \in Documents
      /\ pc' = [pc EXCEPT ![w] = "saved"] /\ pc'[w] = "saved"
  BY StateStoreAssumption DEF RenameTemp, Goto, IInv, HoldInv, IsDocument, TypeOK, Calls
<1>2. /\ disk' \in Documents /\ disk.applied \in Seq(Writers)
      /\ AppliedTo(disk) = disk.applied /\ AppliedTo(disk') = disk'.applied
  <2>1. disk' = [disk EXCEPT !.applied = Append(@, w)] /\ disk \in Documents
    BY <1>1
  <2>2. disk' \in Documents
    BY <2>1, DocumentTypes
  <2>3. IsDocument(disk) /\ IsDocument(disk')
    BY <2>1, <2>2, StateStoreAssumption DEF IsDocument
  <2> QED
    BY <2>1, <2>2, <2>3 DEF AppliedTo, Documents
<1>3. disk'.applied = Append(disk.applied, w) /\ disk'.server = disk.server
  BY <1>1 DEF Documents
<1>4. InEffect' = InEffect \cup {w}
  BY <1>2, <1>3, Appended DEF InEffect
<1>5. w \notin InEffect /\ queue # <<>> /\ w = Head(queue)
  BY <1>1 DEF IInv, EffectInv, QueueInv, Running, Saving
<1> QED
  BY <1>1, <1>2, <1>3, <1>4, <1>5

LEMMA RenameKeeps ==
    ASSUME IInv, TypeOK', NEW w \in Writers, RenameTemp(w), UNCHANGED disk => FALSE
    PROVE  IInv'
<1>0. /\ TypeOK /\ UNCHANGED <<queue, doc, floor>> /\ IsDocument(disk) /\ IsDocument(disk')
      /\ pc[w] = "rename" /\ pc'[w] = "saved"
      /\ \A d \in Calls \ {w} : pc'[d] = pc[d]
      /\ InEffect' = InEffect \cup {w}
      /\ \A v \in Writers : v \in Calls /\ v \notin Readers
      /\ \A r \in Readers : r \in Calls /\ r # w
  BY Renamed, DocumentTypes, StateStoreAssumption DEF IInv, TypeOK, RenameTemp, Calls
<1>1. QueueInv'
  BY <1>0 DEF IInv, QueueInv, Running, Saving
<1>2. FirstInv'
  BY <1>0 DEF IInv, FirstInv, IsDocument
<1>3. EffectInv'
  BY <1>0 DEF IInv, EffectInv
<1>4. HoldInv'
  <2>1. \A v \in Writers \ {w} : pc[v] \notin Running
    BY <1>0, Renamed DEF IInv, QueueInv, Running, Saving
  <2> QED
    BY <1>0, <2>1 DEF HoldInv, Running, Saving
<1>5. ReadInv'
  <2>1. ASSUME NEW r \in Readers, pc'[r] = "served"
        PROVE  /\ floor'[r] \subseteq ToSet(doc'[r].applied)
               /\ doc'[r].server = disk'.server
               /\ IsPrefix(doc'[r].applied, disk'.applied)
               /\ IsDocument(doc'[r])
    <3>1. /\ pc[r] = "served" /\ doc'[r] = doc[r] /\ doc[r] \in Documents
          /\ floor'[r] = floor[r]
      BY <1>0, <2>1 DEF IInv, ReadInv, TypeOK, IsDocument
    <3>2. /\ floor[r] \subseteq ToSet(doc[r].applied) /\ doc[r].server = disk.server
          /\ IsPrefix(doc[r].applied, disk.applied) /\ IsDocument(doc[r])
      BY <3>1 DEF IInv, ReadInv, ReadsAreCurrent
    <3>3. IsPrefix(doc[r].applied, Append(disk.applied, w))
      BY <3>1, <3>2, Renamed, DocumentTypes, PrefixExtends
    <3> QED
      BY <3>1, <3>2, <3>3, Renamed
  <2> QED
    BY <1>0, <2>1 DEF IInv, ReadInv, ReadsAreCurrent, Loading
<1> QED
  BY <1>1, <1>2, <1>3, <1>4, <1>5 DEF IInv

\* The queue grows at its end and shrinks at its head; a crash empties it.
LEMMA EnqueueKeeps ==
    ASSUME IInv, TypeOK', NEW w \in Writers, Enqueue(w)
    PROVE  IInv'
<1>0. /\ TypeOK /\ UNCHANGED <<disk, temp, doc, floor>> /\ queue' = Append(queue, w)
      /\ pc[w] = "new" /\ pc'[w] = "queued"
      /\ \A d \in Calls \ {w} : pc'[d] = pc[d]
      /\ InEffect' = InEffect
      /\ \A v \in Writers : v \in Calls /\ v \notin Readers
      /\ \A r \in Readers : r \in Calls /\ r # w
  BY StateStoreAssumption DEF IInv, TypeOK, Enqueue, Goto, Calls, InEffect
<1>1. QueueInv'
  <2>1. w \notin ToSet(queue) /\ IsInjective(queue) /\ queue \in Seq(Writers)
    BY <1>0 DEF IInv, QueueInv, Running, Loading, Saving, TypeOK
  <2>2. /\ IsInjective(queue') /\ queue' # <<>>
        /\ ToSet(queue') = ToSet(queue) \cup {w}
        /\ queue # <<>> => Head(queue') = Head(queue)
    BY <1>0, <2>1, Enqueued, Appended
  <2>3. pc'[w] \notin Running
    BY <1>0 DEF Running, Loading, Saving
  <2> QED
    BY <1>0, <2>2, <2>3 DEF IInv, QueueInv
<1>2. FirstInv' /\ EffectInv' /\ HoldInv'
  BY <1>0 DEF IInv, FirstInv, EffectInv, HoldInv
<1>3. ReadInv'
  BY <1>0 DEF IInv, ReadInv, ReadsAreCurrent
<1> QED
  BY <1>1, <1>2, <1>3 DEF IInv

LEMMA ReleaseKeeps ==
    ASSUME IInv, TypeOK', NEW w \in Writers, Release(w)
    PROVE  IInv'
<1>0. /\ TypeOK /\ UNCHANGED <<disk, temp, floor>> /\ queue' = Tail(queue)
      /\ pc[w] \in {"saved", "failed"}
      /\ pc'[w] = IF pc[w] = "saved" THEN "acked" ELSE "rejected"
      /\ \A d \in Calls \ {w} : pc'[d] = pc[d] /\ doc'[d] = doc[d]
      /\ InEffect' = InEffect
      /\ \A v \in Writers : v \in Calls /\ v \notin Readers
      /\ \A r \in Readers : r \in Calls /\ r # w
  BY StateStoreAssumption DEF IInv, TypeOK, Release, Goto, Calls, InEffect
<1>1. QueueInv'
  <2>1. queue # <<>> /\ w = Head(queue) /\ IsInjective(queue) /\ queue \in Seq(Writers)
    BY <1>0 DEF IInv, QueueInv, Running, Saving, TypeOK
  <2>2. IsInjective(queue') /\ ToSet(queue') = ToSet(queue) \ {w}
    BY <1>0, <2>1, Dequeued
  <2>3. \A v \in Writers \ {w} : pc[v] \notin Running
    BY <2>1 DEF IInv, QueueInv
  <2>4. pc'[w] \notin {"queued"} \cup Running
    BY <1>0 DEF Running, Loading, Saving
  <2> QED
    BY <1>0, <2>2, <2>3, <2>4 DEF IInv, QueueInv
<1>2. FirstInv' /\ EffectInv' /\ HoldInv'
  <2>1. pc'[w] \in {"acked", "rejected"}
    BY <1>0
  <2>2. FirstInv' /\ HoldInv'
    BY <1>0, <2>1 DEF IInv, FirstInv, HoldInv
  <2>3. EffectInv'
    BY <1>0 DEF IInv, EffectInv
  <2> QED
    BY <2>2, <2>3
<1>3. ReadInv'
  BY <1>0 DEF IInv, ReadInv, ReadsAreCurrent
<1> QED
  BY <1>1, <1>2, <1>3 DEF IInv

LEMMA CrashKeeps ==
    ASSUME IInv, TypeOK', Crash
    PROVE  IInv'
<1>0. /\ TypeOK /\ UNCHANGED <<disk, temp>> /\ queue' = <<>> /\ InEffect' = InEffect
      /\ \A w \in Writers :
            pc'[w] = IF pc[w] \in {"new"} \cup Answered THEN pc[w] ELSE "lost"
      /\ \A r \in Readers : pc'[r] = "idle"
      /\ \A c \in Calls : c \in Writers \/ c \in Readers
  BY StateStoreAssumption DEF IInv, Crash, Calls, InEffect
<1>1. \A w \in Writers : pc'[w] \in {"new"} \cup Answered
  BY <1>0 DEF Answered
<1>2. QueueInv'
  BY <1>0, <1>1, NoUpdatesYet DEF QueueInv, Running, Loading, Saving, Answered, IsInjective
<1>3. FirstInv' /\ HoldInv'
  BY <1>0, <1>1 DEF FirstInv, HoldInv, Answered
<1>4. EffectInv'
  BY <1>0 DEF IInv, EffectInv, Answered
<1>5. ReadInv'
  BY <1>0 DEF ReadInv, ReadsAreCurrent, Loading
<1> QED
  BY <1>2, <1>3, <1>4, <1>5 DEF IInv

LEMMA StepKeeps ==
    ASSUME IInv, [Next]_vars
    PROVE  IInv'
<1>1. CASE UNCHANGED vars
  BY <1>1 DEF vars, IInv, TypeOK, QueueInv, FirstInv, EffectInv, HoldInv, ReadInv,
     ReadsAreCurrent, InEffect, Acked
<1>2. CASE Next
  <2>0. TypeOK' /\ \A w \in Writers : w \in Calls
    BY <1>2, TypeStep DEF Calls
  <2>1. ASSUME NEW c \in Calls, Load(c)
        PROVE  IInv'
    <3>1. CASE UNCHANGED disk
      BY <2>0, <2>1, <3>1, LoadKeeps
    <3>2. CASE ~UNCHANGED disk
      <4>1. (CreateInitial(c) /\ disk = None) \/ FillInitial(c)
        BY <2>1, <3>2
           DEF Load, ListTemps, UnlinkTemp, UnlinksDone, ReadState, CreateInitial,
               RereadState, RejectLoad
      <4> QED
        BY <2>0, <4>1, CreateKeeps, FillKeeps
    <3> QED
      BY <3>1, <3>2
  <2>2. ASSUME NEW w \in Writers, Update(w)
        PROVE  IInv'
    <3>1. CASE Load(w)
      BY <2>0, <2>1, <3>1
    <3>2. CASE Release(w)
      BY <2>0, <3>2, ReleaseKeeps
    <3>3. CASE BeginUpdate(w) \/ Mutate(w) \/ OpenTemp(w) \/ WriteTemp(w)
                 \/ WriteFails(w) \/ RenameTemp(w)
      <4>1. CASE UNCHANGED disk
        BY <2>0, <3>3, <4>1, SaveKeeps
      <4>2. CASE ~UNCHANGED disk
        <5>1. RenameTemp(w)
          BY <3>3, <4>2 DEF BeginUpdate, Mutate, OpenTemp, WriteTemp, WriteFails
        <5> QED
          BY <2>0, <4>2, <5>1, RenameKeeps
      <4> QED
        BY <4>1, <4>2
    <3> QED
      BY <2>2, <3>1, <3>2, <3>3 DEF Update
  <2>3. ASSUME NEW r \in Readers, BeginRead(r) \/ Load(r) \/ ReturnRead(r)
        PROVE  IInv'
    <3>1. r \in Calls
      BY DEF Calls
    <3> QED
      BY <2>0, <2>1, <2>3, <3>1, ReadKeeps
  <2> QED
    BY <1>2, <2>0, <2>2, <2>3, EnqueueKeeps, CrashKeeps DEF Next
<1> QED
  BY <1>1, <1>2

-----------------------------------------------------------------------------
(***************************************************************************)
(* Theorems.                                                               *)
(***************************************************************************)
LEMMA Invariance == Spec => []IInv
<1>1. Init => IInv
  BY InitEstablishes
<1>2. IInv /\ [Next]_vars => IInv'
  BY StepKeeps
<1> QED
  BY <1>1, <1>2, PTL DEF Spec

\* Every variable keeps its type: no call ever gets a document of the wrong
\* shape into its hands, also from a file that is half written.
THEOREM TypeCorrect == Spec => []TypeOK
<1>1. IInv => TypeOK
  BY DEF IInv
<1> QED
  BY <1>1, Invariance, PTL

\* StateStore.update never tells a client something that is not so, or that
\* stops being so: acknowledged updates are in state.json and stay there,
\* rejected ones are not and never get there, for any number of concurrent
\* updates, readers that clean up temporary files, and crashes.
THEOREM AnswersStayTrue == Spec => []AnswersAreTrue
<1>1. IInv => AnswersAreTrue
  BY DEF IInv, EffectInv, InEffect, AnswersAreTrue, Acked
<1> QED
  BY <1>1, Invariance, PTL

\* StateStore.load outside the queue returns at least what was acknowledged
\* when it began, and no update that state.json does not have.
THEOREM ReadsStayCurrent == Spec => []ReadsAreCurrent
<1>1. IInv => ReadsAreCurrent
  BY DEF IInv, ReadInv
<1> QED
  BY <1>1, Invariance, PTL

-----------------------------------------------------------------------------
(***************************************************************************)
(* Refinement: AtomicStore is what the file-system calls add up to.        *)
(***************************************************************************)
\* The queue of the running updates, as AtomicStore sees it.
LEMMA UndecidedQueue ==
    ASSUME IInv, NEW w \in Writers, pc[w] \in Running
    PROVE  /\ queue # <<>> /\ w = Head(queue) /\ queue \in Seq(Writers)
           /\ IsInjective(queue)
           /\ Undecided = IF pc[w] = "saved" THEN Tail(queue) ELSE queue
BY DEF IInv, QueueInv, TypeOK, Undecided

LEMMA SameOutcomes ==
    ASSUME TypeOK, NEW c \in Calls, NEW place,
           pc' = [pc EXCEPT ![c] = place],
           c \in Writers => Outcome(place) = Outcome(pc[c])
    PROVE  \A w \in Writers : Outcome(pc'[w]) = Outcome(pc[w])
BY DEF TypeOK

LEMMA NewOutcome ==
    ASSUME TypeOK, NEW v \in Writers, NEW place,
           pc' = [pc EXCEPT ![v] = place]
    PROVE  [w \in Writers |-> Outcome(pc'[w])]
              = [[w \in Writers |-> Outcome(pc[w])] EXCEPT ![v] = Outcome(place)]
BY DEF TypeOK, Calls

LEMMA InitRefines == Init => Atomic!Init
<1> SUFFICES ASSUME Init PROVE Atomic!Init
  OBVIOUS
<1>1. AppliedTo(disk) = <<>>
  BY NoUpdatesYet DEF Init
<1>2. Undecided = <<>>
  BY DEF Init, Undecided
<1>3. \A w \in Writers : Outcome(pc[w]) = "none"
  BY DEF Init, Outcome, Calls
<1> QED
  BY <1>1, <1>2, <1>3 DEF Atomic!Init

\* A step inside a call, and any step of a reader: a stutter.
LEMMA Stutters ==
    ASSUME IInv, AppliedTo(disk)' = AppliedTo(disk), UNCHANGED queue,
           NEW c \in Calls, NEW place, pc' = [pc EXCEPT ![c] = place],
           c \in Writers => /\ pc[c] \in {"queued"} \cup (Running \ {"saved"})
                            /\ place \in Running \ {"saved"}
    PROVE  UNCHANGED Atomic!vars
<1>0. TypeOK /\ pc'[c] = place /\ \A d \in Calls \ {c} : pc'[d] = pc[d]
  BY DEF IInv, TypeOK
<1>1. \A w \in Writers : Outcome(pc'[w]) = Outcome(pc[w])
  BY <1>0, SameOutcomes DEF Outcome, Running, Loading, Saving, Answered
<1>2. Undecided' = Undecided
  <2>1. queue # <<>> => Head(queue) \in Writers /\ Head(queue) \in Calls
    BY <1>0 DEF TypeOK, Calls
  <2>2. queue # <<>> => (pc'[Head(queue)] = "saved" <=> pc[Head(queue)] = "saved")
    BY <1>0, <2>1
  <2> QED
    BY <2>2 DEF Undecided
<1> QED
  BY <1>1, <1>2 DEF Atomic!vars

LEMMA LoadStutters ==
    ASSUME IInv, NEW c \in Calls, Load(c)
    PROVE  UNCHANGED Atomic!vars
<1>0. TypeOK /\ pc[c] \in Loading /\ UNCHANGED queue
  BY DEF IInv, Load, ListTemps, UnlinkTemp, UnlinksDone, ReadState, CreateInitial,
         FillInitial, RereadState, RejectLoad, Loading
<1>1. \E place : /\ pc' = [pc EXCEPT ![c] = place]
                 /\ c \in Writers => place \in Running \ {"saved"}
  <2>1. CASE \E w \in Writers : UnlinkTemp(c, w)
    BY <1>0, <2>1 DEF UnlinkTemp, TypeOK, Running, Loading, Saving
  <2>2. CASE ~\E w \in Writers : UnlinkTemp(c, w)
    <3>1. \E place \in Loading \cup {Loaded(c), Rejecting(c)} : pc' = [pc EXCEPT ![c] = place]
      BY <2>2 DEF Load, ListTemps, UnlinksDone, ReadState, CreateInitial, FillInitial,
         RereadState, RejectLoad, TakeDocument, Goto, Loading
    <3>2. c \in Writers => Loading \cup {Loaded(c), Rejecting(c)} \subseteq Running \ {"saved"}
      BY DEF Loaded, Rejecting, Running, Loading, Saving
    <3> QED
      BY <3>1, <3>2
  <2> QED
    BY <2>1, <2>2
<1>2. AppliedTo(disk)' = AppliedTo(disk)
  <2>1. CASE UNCHANGED disk
    BY <2>1
  <2>2. CASE CreateInitial(c) /\ disk = None
    <3>1. disk = None /\ disk' = Partial
      BY <2>2 DEF CreateInitial
    <3> QED
      BY <3>1, NoUpdatesYet
  <2>3. CASE FillInitial(c)
    <3>1. disk = Partial /\ disk' = [server |-> c, applied |-> <<>>]
      BY <2>3 DEF FillInitial, IInv, FirstInv
    <3>2. AppliedTo(disk) = <<>> /\ AppliedTo(disk') = <<>>
      BY <3>1, NoUpdatesYet, InitialDocument, DocumentTypes
    <3> QED
      BY <3>2
  <2> QED
    BY <2>1, <2>2, <2>3
       DEF Load, ListTemps, UnlinkTemp, UnlinksDone, ReadState, CreateInitial,
           RereadState, RejectLoad
<1> QED
  BY <1>0, <1>1, <1>2, Stutters DEF Running, Loading

\* A step of an update that is not its rename and not its answer.
LEMMA SaveStutters ==
    ASSUME IInv, NEW w \in Writers, UNCHANGED disk,
           \/ BeginUpdate(w) \/ Mutate(w) \/ OpenTemp(w) \/ WriteTemp(w) \/ WriteFails(w)
           \/ RenameTemp(w) /\ temp[w] = None
    PROVE  UNCHANGED Atomic!vars
<1>1. /\ pc[w] \in {"queued"} \cup (Running \ {"saved"}) /\ UNCHANGED queue /\ w \in Calls
      /\ \E place \in Running \ {"saved"} : pc' = [pc EXCEPT ![w] = place]
  BY DEF BeginUpdate, Mutate, OpenTemp, WriteTemp, WriteFails, RenameTemp, Goto,
         Running, Loading, Saving, Calls
<1> QED
  BY <1>1, Stutters

\* Enqueue is the submission.
LEMMA EnqueueSubmits ==
    ASSUME IInv, NEW w \in Writers, Enqueue(w)
    PROVE  Atomic!Submit(w)
<1>1. /\ TypeOK /\ UNCHANGED disk /\ queue' = Append(queue, w) /\ queue \in Seq(Writers)
      /\ pc[w] = "new" /\ pc' = [pc EXCEPT ![w] = "queued"] /\ w \in Calls
      /\ IsInjective(queue) /\ w \notin ToSet(queue)
  BY DEF IInv, TypeOK, QueueInv, Enqueue, Goto, Calls, Running, Loading, Saving
<1>2. [v \in Writers |-> Outcome(pc'[v])]
         = [[v \in Writers |-> Outcome(pc[v])] EXCEPT ![w] = "waiting"]
  <2>1. Outcome("queued") = "waiting"
    BY DEF Outcome, Answered
  <2> QED
    BY <1>1, <2>1, NewOutcome
<1>3. Undecided' = Append(Undecided, w)
  <2>1. CASE queue = <<>>
    <3>1. queue' # <<>> /\ Head(queue') = w /\ pc'[w] = "queued"
      BY <1>1, <2>1, Enqueued DEF TypeOK
    <3> QED
      BY <1>1, <2>1, <3>1 DEF Undecided
  <2>2. CASE queue # <<>>
    <3>1. /\ queue' # <<>> /\ Head(queue') = Head(queue)
          /\ Tail(queue') = Append(Tail(queue), w)
      BY <1>1, <2>2, Enqueued
    <3>2. Head(queue) \in ToSet(queue) /\ Head(queue) \in Writers
      BY <1>1, <2>2, Dequeued
    <3>3. pc'[Head(queue)] = pc[Head(queue)]
      BY <1>1, <3>2 DEF TypeOK, Calls
    <3> QED
      BY <1>1, <2>2, <3>1, <3>3 DEF Undecided
  <2> QED
    BY <2>1, <2>2
<1>4. Outcome(pc[w]) = "none"
  BY <1>1 DEF Outcome
<1> QED
  BY <1>1, <1>2, <1>3, <1>4 DEF Atomic!Submit

\* The rename is the moment an update takes effect.
LEMMA RenameCommits ==
    ASSUME IInv, NEW w \in Writers, RenameTemp(w), temp[w] # None, ~UNCHANGED disk
    PROVE  Atomic!Commit(w)
<1>1. /\ TypeOK /\ UNCHANGED queue /\ queue # <<>> /\ w = Head(queue)
      /\ pc[w] = "rename" /\ pc' = [pc EXCEPT ![w] = "saved"] /\ pc'[w] = "saved"
      /\ AppliedTo(disk') = Append(AppliedTo(disk), w)
  BY Renamed DEF IInv, RenameTemp
<1>2. [v \in Writers |-> Outcome(pc'[v])]
         = [[v \in Writers |-> Outcome(pc[v])] EXCEPT ![w] = "committed"]
  <2>1. Outcome("saved") = "committed"
    BY DEF Outcome
  <2>2. TypeOK /\ pc' = [pc EXCEPT ![w] = "saved"]
    BY <1>1
  <2> QED
    BY <2>1, <2>2, NewOutcome
<1>3. Undecided = queue /\ Undecided' = Tail(queue)
  BY <1>1 DEF Undecided
<1> QED
  BY <1>1, <1>2, <1>3 DEF Atomic!Commit, Atomic!IsNext

\* Release answers the request.
LEMMA ReleaseAnswers ==
    ASSUME IInv, NEW w \in Writers, Release(w)
    PROVE  Atomic!Acknowledge(w) \/ Atomic!Reject(w)
<1>1. /\ TypeOK /\ UNCHANGED disk /\ queue' = Tail(queue) /\ w \in Calls
      /\ pc[w] \in {"saved", "failed"}
      /\ pc' = [pc EXCEPT ![w] = IF pc[w] = "saved" THEN "acked" ELSE "rejected"]
  BY DEF Release, IInv, Goto, Calls
<1>2. /\ queue # <<>> /\ w = Head(queue) /\ queue \in Seq(Writers) /\ IsInjective(queue)
      /\ Undecided = IF pc[w] = "saved" THEN Tail(queue) ELSE queue
  BY <1>1, UndecidedQueue DEF Running, Saving
<1>3. Undecided' = Tail(queue)
  <2>1. ASSUME queue' # <<>> PROVE pc'[Head(queue')] # "saved"
    <3>1. queue' \in Seq(Writers) /\ Head(queue') \in Writers /\ IsInjective(queue')
          /\ Head(queue') \in ToSet(queue')
          /\ ToSet(queue') = ToSet(queue) \ {w}
      BY <1>1, <1>2, <2>1, Dequeued
    <3>2. Head(queue') # w /\ pc'[Head(queue')] = pc[Head(queue')]
      BY <1>1, <3>1 DEF TypeOK, Calls
    <3>3. pc[Head(queue')] \notin Running
      BY <1>2, <3>1, <3>2 DEF IInv, QueueInv
    <3> QED
      BY <3>2, <3>3 DEF Running, Saving
  <2> QED
    BY <1>1, <2>1 DEF Undecided
<1>4. CASE pc[w] = "saved"
  <2>1. Outcome("acked") = "acked" /\ Outcome(pc[w]) = "committed"
    BY <1>4 DEF Outcome, Answered
  <2>2. [v \in Writers |-> Outcome(pc'[v])]
           = [[v \in Writers |-> Outcome(pc[v])] EXCEPT ![w] = "acked"]
    BY <1>1, <1>4, <2>1, NewOutcome
  <2> QED
    BY <1>1, <1>2, <1>3, <1>4, <2>1, <2>2 DEF Atomic!Acknowledge
<1>5. CASE pc[w] = "failed"
  <2>1. Outcome("rejected") = "rejected"
    BY DEF Outcome, Answered
  <2>2. [v \in Writers |-> Outcome(pc'[v])]
           = [[v \in Writers |-> Outcome(pc[v])] EXCEPT ![w] = "rejected"]
    BY <1>1, <1>5, <2>1, NewOutcome
  <2> QED
    BY <1>1, <1>2, <1>3, <1>5, <2>2 DEF Atomic!Reject, Atomic!IsNext
<1> QED
  BY <1>1, <1>4, <1>5

LEMMA CrashCrashes ==
    ASSUME IInv, Crash
    PROVE  Atomic!Crash
<1>1. /\ TypeOK /\ UNCHANGED disk /\ queue' = <<>>
      /\ \A w \in Writers :
            pc'[w] = IF pc[w] \in {"new"} \cup Answered THEN pc[w] ELSE "lost"
  BY StateStoreAssumption DEF Crash, IInv, Calls
<1>2. \A w \in Writers :
         Outcome(pc'[w]) = IF Outcome(pc[w]) \in {"waiting", "committed"}
                           THEN "lost" ELSE Outcome(pc[w])
  BY <1>1 DEF Outcome, Answered
<1>3. Undecided' = <<>>
  BY <1>1 DEF Undecided
<1> QED
  BY <1>1, <1>2, <1>3 DEF Atomic!Crash

LEMMA StepRefines ==
    ASSUME IInv, [Next]_vars
    PROVE  [Atomic!Next]_(Atomic!vars)
<1>1. CASE UNCHANGED vars
  BY <1>1 DEF vars, Atomic!vars, Undecided
<1>2. CASE Next
  <2>1. ASSUME NEW w \in Writers, Update(w)
        PROVE  [Atomic!Next]_(Atomic!vars)
    <3>0. w \in Calls
      BY DEF Calls
    <3>1. CASE Load(w)
      BY <3>0, <3>1, LoadStutters
    <3>2. CASE Release(w)
      BY <3>2, ReleaseAnswers DEF Atomic!Next
    <3>3. CASE RenameTemp(w) /\ temp[w] # None /\ ~UNCHANGED disk
      BY <3>3, RenameCommits DEF Atomic!Next
    <3>4. CASE RenameTemp(w) /\ temp[w] # None /\ UNCHANGED disk
      <4>1. /\ IsDocument(disk) /\ doc[w] = [disk EXCEPT !.applied = Append(@, w)]
            /\ temp[w] = doc[w] /\ disk = temp[w] /\ disk \in Documents
        BY <3>4 DEF RenameTemp, IInv, HoldInv, IsDocument, TypeOK
      <4>2. disk.applied = Append(disk.applied, w) /\ disk.applied \in Seq(Writers)
        BY <4>1 DEF Documents
      <4>3. /\ Len(Append(disk.applied, w)) = Len(disk.applied) + 1
            /\ Len(disk.applied) \in Nat
        BY <4>2
      <4> QED
        BY <4>2, <4>3
    <3>5. CASE \/ BeginUpdate(w) \/ Mutate(w) \/ OpenTemp(w) \/ WriteTemp(w)
               \/ WriteFails(w)
               \/ RenameTemp(w) /\ temp[w] = None
      <4>1. UNCHANGED disk
        BY <3>5 DEF BeginUpdate, Mutate, OpenTemp, WriteTemp, WriteFails, RenameTemp
      <4> QED
        BY <3>5, <4>1, SaveStutters
    <3> QED
      BY <2>1, <3>1, <3>2, <3>3, <3>4, <3>5 DEF Update
  <2>2. ASSUME NEW r \in Readers, BeginRead(r) \/ Load(r) \/ ReturnRead(r)
        PROVE  UNCHANGED Atomic!vars
    <3>1. r \in Calls /\ r \notin Writers
      BY StateStoreAssumption DEF Calls
    <3>2. CASE BeginRead(r) \/ ReturnRead(r)
      BY <3>1, <3>2, Stutters DEF BeginRead, ReturnRead, Goto
    <3> QED
      BY <2>2, <3>1, <3>2, LoadStutters
  <2> QED
    BY <1>2, <2>1, <2>2, EnqueueSubmits, CrashCrashes DEF Next, Atomic!Next
<1> QED
  BY <1>1, <1>2

\* The whole of StateStore.load and StateStore.update keeps the promise of
\* AtomicStore: concurrent updates take effect one at a time and in order,
\* although each is a read, a change and a rename, with other calls deleting
\* temporary files and a crash possible between any two file-system calls.
THEOREM UpdatesAreAtomic == Spec => SerialUpdates
<1>1. Init => Atomic!Init
  BY InitRefines
<1>2. IInv /\ [Next]_vars => [Atomic!Next]_(Atomic!vars)
  BY StepRefines
<1> QED
  BY <1>1, <1>2, Invariance, PTL DEF Spec, SerialUpdates, Atomic!Spec

-----------------------------------------------------------------------------
(***************************************************************************)
(* Every step of a call brings it closer to its answer.                    *)
(***************************************************************************)
LEMMA Unlinks ==
    ASSUME NEW S \in SUBSET Writers
    PROVE  /\ Cardinality(Writers) \in Nat
           /\ Cardinality(S) \in 0..Cardinality(Writers)
           /\ \A w \in S : Cardinality(S \ {w}) = Cardinality(S) - 1
<1>1. IsFiniteSet(S) /\ Cardinality(S) <= Cardinality(Writers)
  BY WritersAssumption, FS_Subset
<1>2. Cardinality(S) \in Nat /\ Cardinality(Writers) \in Nat
  BY <1>1, WritersAssumption, FS_CardinalityType
<1>3. \A w \in S : Cardinality(S \ {w}) = Cardinality(S) - 1
  BY <1>1, FS_RemoveElement
<1> QED
  BY <1>1, <1>2, <1>3

\* What StepsLeft is, place by place.
LEMMA StepsLeftAt ==
    ASSUME NEW x, NEW S \in SUBSET Writers
    PROVE  /\ x \in {"new", "idle"} \cup Answered => StepsLeft(x, S) = 0
           /\ x \in {"saved", "failed", "served"} => StepsLeft(x, S) = 1
           /\ x \in {"unparsable", "rename"} => StepsLeft(x, S) = 2
           /\ x = "write" => StepsLeft(x, S) = 3
           /\ x = "open" => StepsLeft(x, S) = 4
           /\ x = "mutate" => StepsLeft(x, S) = 5
           /\ x \in {"fill", "reread"} => StepsLeft(x, S) = 6
           /\ x = "create" => StepsLeft(x, S) = 7
           /\ x = "read" => StepsLeft(x, S) = 8
           /\ x = "unlink" => StepsLeft(x, S) = 9 + Cardinality(S)
           /\ x = "list" => StepsLeft(x, S) = 10 + Cardinality(Writers)
           /\ x = "queued" => StepsLeft(x, S) = 11 + Cardinality(Writers)
<1>1. /\ Cardinality(Writers) \in Nat
      /\ Cardinality(S) \in 0..Cardinality(Writers)
  BY Unlinks
<1> QED
  BY <1>1 DEF StepsLeft, Rank, Answered

LEMMA StepsLeftBounds ==
    ASSUME NEW x \in WriterPlaces \cup ReaderPlaces, NEW S \in SUBSET Writers
    PROVE  StepsLeft(x, S) \in 0 .. Cardinality(Writers) + 11
<1>1. /\ Cardinality(Writers) \in Nat
      /\ Cardinality(S) \in 0..Cardinality(Writers)
  BY Unlinks
<1> QED
  BY <1>1, StepsLeftAt DEF WriterPlaces, ReaderPlaces, Loading, Saving

\* The way of a call through its places.
Moves(x, y) ==
    \/ x = "queued" /\ y = "list"
    \/ x = "list" /\ y = "unlink"
    \/ x = "unlink" /\ y = "read"
    \/ x = "read" /\ y \in {"create", "mutate", "served", "unparsable"}
    \/ x = "create" /\ y \in {"fill", "reread"}
    \/ x = "fill" /\ y \in {"mutate", "served", "failed", "idle"}
    \/ x = "reread" /\ y \in {"mutate", "served", "unparsable"}
    \/ x = "unparsable" /\ y \in {"failed", "idle"}
    \/ x = "served" /\ y = "idle"
    \/ x = "mutate" /\ y \in {"open", "failed"}
    \/ x = "open" /\ y = "write"
    \/ x = "write" /\ y \in {"rename", "failed"}
    \/ x = "rename" /\ y \in {"saved", "failed"}
    \/ x \in {"saved", "failed"} /\ y \in {"acked", "rejected"}

LEMMA MovesAdvance ==
    ASSUME NEW x, NEW y, NEW S \in SUBSET Writers, NEW T \in SUBSET Writers,
           Moves(x, y)
    PROVE  StepsLeft(y, T) < StepsLeft(x, S)
<1>1. /\ Cardinality(Writers) \in Nat
      /\ Cardinality(S) \in 0..Cardinality(Writers)
      /\ Cardinality(T) \in 0..Cardinality(Writers)
  BY Unlinks
<1>2. CASE x \in {"queued", "list", "unlink", "read", "create"}
  BY <1>1, <1>2, StepsLeftAt DEF Moves
<1>3. CASE x \notin {"queued", "list", "unlink", "read", "create"}
  BY <1>1, <1>3, StepsLeftAt DEF Moves, Answered
<1> QED
  BY <1>2, <1>3

LEMMA StepMoves ==
    ASSUME IInv, NEW c \in Calls, TakesStep(c)
    PROVE  /\ \A d \in Calls \ {c} : pc'[d] = pc[d] /\ stray'[d] = stray[d]
           /\ \/ Moves(pc[c], pc'[c])
              \/ /\ pc[c] = "unlink" /\ pc' = pc
                 /\ \E w \in stray[c] : stray'[c] = stray[c] \ {w}
<1> USE DEF Goto, Moves
<1>1. /\ pc \in [Calls -> WriterPlaces \cup ReaderPlaces]
      /\ stray \in [Calls -> SUBSET Writers]
      /\ Loaded(c) \in {"mutate", "served"}
      /\ Rejecting(c) \in {"failed", "idle"}
  BY DEF IInv, TypeOK, Loaded, Rejecting
<1>2. CASE \E w \in Writers : UnlinkTemp(c, w)
  BY <1>1, <1>2 DEF UnlinkTemp
<1>3. CASE ReadState(c) \/ RereadState(c)
  BY <1>1, <1>3 DEF ReadState, RereadState, TakeDocument
<1>4. CASE ListTemps(c) \/ UnlinksDone(c)
  BY <1>1, <1>4 DEF ListTemps, UnlinksDone
<1>5. CASE CreateInitial(c) \/ FillInitial(c) \/ RejectLoad(c)
  BY <1>1, <1>5 DEF CreateInitial, FillInitial, RejectLoad
<1>6. CASE BeginUpdate(c) \/ ReturnRead(c) \/ Release(c)
  BY <1>1, <1>6 DEF BeginUpdate, ReturnRead, Release
<1>7. CASE Mutate(c) \/ OpenTemp(c) \/ WriteTemp(c) \/ WriteFails(c) \/ RenameTemp(c)
  BY <1>1, <1>7 DEF Mutate, OpenTemp, WriteTemp, WriteFails, RenameTemp
<1> QED
  BY <1>2, <1>3, <1>4, <1>5, <1>6, <1>7 DEF TakesStep, Update, Load

LEMMA StepAdvances ==
    ASSUME IInv, TypeOK', NEW c \in Calls, TakesStep(c)
    PROVE  /\ Left(c)' < Left(c)
           /\ \A d \in Calls \ {c} : Left(d)' = Left(d)
<1>1. stray[c] \in SUBSET Writers /\ stray'[c] \in SUBSET Writers
  BY DEF IInv, TypeOK
<1>2. CASE Moves(pc[c], pc'[c])
  BY <1>1, <1>2, MovesAdvance, StepMoves DEF Left
<1>3. CASE \E w \in stray[c] : /\ pc[c] = "unlink" /\ pc' = pc
                               /\ stray'[c] = stray[c] \ {w}
  <2>1. /\ Cardinality(stray[c]) \in Nat
        /\ Cardinality(stray'[c]) = Cardinality(stray[c]) - 1
    BY <1>1, <1>3, Unlinks
  <2>2. /\ StepsLeft("unlink", stray[c]) = 9 + Cardinality(stray[c])
        /\ StepsLeft("unlink", stray'[c]) = 9 + Cardinality(stray'[c])
    BY <1>1, StepsLeftAt
  <2>3. Left(c)' < Left(c)
    BY <1>3, <2>1, <2>2 DEF Left
  <2> QED
    BY <2>3, StepMoves DEF Left
<1> QED
  BY <1>2, <1>3, StepMoves

\* No call goes round in circles in load or update: each of its steps brings
\* it closer to its answer, and nobody else's takes it further away.  With
\* the fairness of the file-system calls this is why every call returns.
THEOREM CallsRunOut == Spec => CallsAdvance
<1> DEFINE Bounded == \A c \in Calls : Left(c) \in 0 .. Cardinality(Writers) + 11
           Forward == \A c \in Calls : pc[c] \notin {"new", "idle"} =>
                         /\ Left(c)' <= Left(c)
                         /\ TakesStep(c) => Left(c)' < Left(c)
<1>1. IInv => Bounded
  BY StepsLeftBounds DEF IInv, TypeOK, Left
<1>2. ASSUME IInv, IInv', [Next]_vars, ~UNCHANGED vars
      PROVE  Forward
  <2> SUFFICES ASSUME NEW c \in Calls, pc[c] \notin {"new", "idle"}
               PROVE  /\ Left(c)' <= Left(c)
                      /\ TakesStep(c) => Left(c)' < Left(c)
    OBVIOUS
  <2>1. TypeOK /\ TypeOK' /\ Left(c) \in Nat /\ Left(c)' \in Nat
    <3>1. /\ Cardinality(Writers) \in Nat /\ TypeOK /\ TypeOK'
          /\ pc[c] \in WriterPlaces \cup ReaderPlaces
          /\ pc'[c] \in WriterPlaces \cup ReaderPlaces
          /\ stray[c] \in SUBSET Writers /\ stray'[c] \in SUBSET Writers
      BY <1>2, Unlinks DEF IInv, TypeOK
    <3>2. StepsLeft(pc[c], stray[c]) \in Nat /\ StepsLeft(pc'[c], stray'[c]) \in Nat
      BY <3>1, StepsLeftBounds
    <3> QED
      BY <3>1, <3>2 DEF Left
  <2>2. CASE \E d \in Calls : TakesStep(d)
    BY <1>2, <2>1, <2>2, StepAdvances
  <2>3. CASE ~\E d \in Calls : TakesStep(d)
    <3>1. SUFFICES Left(c)' <= Left(c)
      BY <2>3
    <3>2. CASE \E d \in Calls : \/ pc[d] = "new" /\ Enqueue(d)
                                \/ pc[d] = "idle" /\ BeginRead(d)
      <4>1. pc'[c] = pc[c] /\ stray'[c] = stray[c]
        BY <2>1, <3>2 DEF Enqueue, BeginRead, Goto, TypeOK
      <4> QED
        BY <2>1, <4>1 DEF Left
    <3>3. CASE Crash
      <4>1. pc'[c] \in {"idle", "new"} \cup Answered /\ stray'[c] \in SUBSET Writers
        BY <2>1, <3>3 DEF Crash, Answered, TypeOK
      <4>2. Left(c)' = 0
        BY <4>1, StepsLeftAt DEF Left
      <4> QED
        BY <2>1, <4>2
    <3> QED
      BY <1>2, <2>3, <3>2, <3>3, StateStoreAssumption
         DEF Next, TakesStep, Calls, Enqueue, BeginRead
  <2> QED
    BY <2>2, <2>3
<1>3. IInv /\ IInv' /\ [Next]_vars => [Forward]_vars
  BY <1>2
<1> QED
  BY <1>1, <1>3, Invariance, PTL DEF Spec, CallsAdvance

\* The write queue is served in order and no update waits in it behind
\* nobody: StateStore.update releases it on every way out.
THEOREM QueueIsServed == Spec => QueueServesInOrder
<1> DEFINE Held == \A w \in Writers :
               /\ pc[w] \in {"queued"} \cup Loading \cup Saving <=> w \in ToSet(queue)
               /\ pc[w] \in Loading \cup Saving => w = Head(queue)
           Ordered ==
               \/ queue' = queue
               \/ \E w \in Writers : pc[w] = "new" /\ queue' = Append(queue, w)
               \/ /\ queue # <<>> /\ queue' = Tail(queue)
                  /\ pc'[Head(queue)] \in {"acked", "rejected"}
               \/ crashes' > crashes /\ queue' = <<>>
<1>1. IInv => Held
  BY DEF IInv, QueueInv, Running
<1>2. ASSUME IInv, [Next]_vars, ~UNCHANGED vars
      PROVE  Ordered
  <2>1. CASE \E w \in Writers : Enqueue(w)
    BY <2>1 DEF Enqueue
  <2>2. ASSUME NEW w \in Writers, Release(w)
        PROVE  Ordered
    <3>1. queue # <<>> /\ w = Head(queue) /\ pc \in [Calls -> WriterPlaces \cup ReaderPlaces]
      BY <1>2, <2>2 DEF Release, IInv, QueueInv, Running, Saving, TypeOK
    <3>2. queue' = Tail(queue) /\ pc'[w] \in {"acked", "rejected"}
      BY <2>2, <3>1 DEF Release, Goto, Calls
    <3> QED
      BY <3>1, <3>2
  <2>3. CASE Crash
    BY <1>2, <2>3, StateStoreAssumption DEF Crash, IInv, TypeOK
  <2>4. CASE queue' = queue
    BY <2>4
  <2> QED
    BY <1>2, <2>1, <2>2, <2>3, <2>4
       DEF Next, Update, Load, BeginUpdate, Mutate, OpenTemp, WriteTemp,
           WriteFails, RenameTemp, BeginRead, ReturnRead, ListTemps,
           UnlinkTemp, UnlinksDone, ReadState, CreateInitial, FillInitial,
           RereadState, RejectLoad
<1>3. IInv /\ [Next]_vars => [Ordered]_vars
  BY <1>2
<1> QED
  BY <1>1, <1>3, Invariance, PTL DEF Spec, QueueServesInOrder

=============================================================================
