-------------------------- MODULE NetworkingProofs --------------------------
(***************************************************************************)
(* What module Networking promises, for any number of overlapping calls,   *)
(* rules, interfaces, failures and changes from outside.                   *)
(***************************************************************************)
EXTENDS Networking, FiniteSetTheorems, TLAPS

\* Past the beginning, a call knows its interface.
Resolved ==
    \A c \in Calls :
        at[c] \in {"forward", "check", "append", "delete", "applied"}
            => egress[c] \in Egresses

\* A call starts with the first rule, and a rollback goes no further than
\* the rule that failed.
InOrder ==
    \A c \in Calls :
        /\ at[c] \in {"egress", "forward"} => marker[c] = 1
        /\ undo[c] <= marker[c]

\* A call that nobody has disturbed has the rules before its marker in
\* place, and when it is done that of its marker too.
Covered ==
    \A c \in Calls \ disturbed :
        at[c] \in {"check", "append", "applied"} =>
            /\ forwarding
            /\ \A m \in Markers :
                  m < marker[c] \/ at[c] = "applied" => rules[Rule(m, egress[c])] > 0

\* The calls about to append rule r.
Appending(r) == {c \in Calls : at[c] = "append" /\ Current(c) = r}

\* What is there and what is about to be there.
Counted ==
    \A r \in Rules :
        rules[r] + Cardinality(Appending(r)) <= Cardinality(Calls) + faults

IInv == TypeOK /\ Resolved /\ InOrder /\ Covered /\ Counted

-----------------------------------------------------------------------------
\* Rules towards known interfaces are rules, and a forward rule names none.
LEMMA RuleType ==
    /\ \A m \in Markers, e \in Egresses : Rule(m, e) \in Rules
    /\ \A m \in Markers : m # Masquerade => \A e, f : Rule(m, e) = Rule(m, f)
    /\ Masquerade \in Markers /\ 1 \in Markers
    /\ Markers \subseteq Nat
BY NetworkingAssumption DEF Rules, Rule, Masquerade, Markers

\* Sets of calls are finite and no larger than all of them.
LEMMA CallSets ==
    ASSUME NEW S, S \subseteq Calls
    PROVE  /\ IsFiniteSet(S) /\ Cardinality(S) \in Nat
           /\ Cardinality(Calls) \in Nat
           /\ Cardinality(S) <= Cardinality(Calls)
BY NetworkingAssumption, FS_Subset, FS_CardinalityType

\* A step that appends nothing, takes up no rule to append and takes no
\* failure back leaves the count in order.
LEMMA CountedKept ==
    ASSUME TypeOK, TypeOK', Counted,
           \A r \in Rules : rules'[r] <= rules[r] /\ Appending(r)' \subseteq Appending(r),
           faults' >= faults
    PROVE  Counted'
<1>1. ASSUME NEW r \in Rules
      PROVE  rules'[r] + Cardinality(Appending(r)') <= Cardinality(Calls) + faults'
  <2>1. Appending(r) \subseteq Calls
    BY DEF Appending
  <2>2. /\ Cardinality(Appending(r)') <= Cardinality(Appending(r))
        /\ Cardinality(Appending(r)') \in Nat /\ Cardinality(Appending(r)) \in Nat
        /\ Cardinality(Calls) \in Nat
    <3>1. Appending(r)' \subseteq Appending(r) /\ Appending(r)' \subseteq Calls
      BY <2>1
    <3>2. IsFiniteSet(Appending(r))
      BY <2>1, CallSets
    <3> QED
      BY <2>1, <3>1, <3>2, CallSets, FS_Subset
  <2>3. rules[r] + Cardinality(Appending(r)) <= Cardinality(Calls) + faults
    BY DEF Counted
  <2>4. rules[r] \in Nat /\ rules'[r] \in Nat /\ faults \in Nat /\ faults' \in Nat
    BY NetworkingAssumption DEF TypeOK
  <2> QED
    BY <2>2, <2>3, <2>4
<1> QED
  BY <1>1 DEF Counted

-----------------------------------------------------------------------------
LEMMA InitEstablishes == Init => IInv
<1> SUFFICES ASSUME Init PROVE IInv
  OBVIOUS
<1>1. TypeOK
  <2>1. 1 \in Markers /\ 0 \in 0 .. MaxFaults /\ 0 \in 0 .. MaxChanges
    BY NetworkingAssumption, RuleType
  <2>2. rules \in [Rules -> Nat] /\ created \in [Calls -> SUBSET Rules]
    BY DEF Init
  <2> QED
    BY <2>1, <2>2 DEF Init, TypeOK, Places
<1>2. Resolved /\ InOrder /\ Covered
  BY DEF Init, Resolved, InOrder, Covered
<1>3. Counted
  <2>1. \A r : Appending(r) = {}
    BY DEF Init, Appending
  <2> QED
    BY <2>1, FS_EmptySet, CallSets DEF Init, Counted
<1> QED
  BY <1>1, <1>2, <1>3 DEF IInv

LEMMA BeginKeeps ==
    ASSUME IInv, NEW c \in Calls, Begin(c)
    PROVE  IInv'
<1>1. TypeOK'
  BY NetworkingAssumption, RuleType DEF IInv, Begin, TypeOK, Goto, Fault, Places, host
<1>2. Resolved' /\ InOrder'
  BY RuleType DEF IInv, Begin, TypeOK, Resolved, InOrder, Goto
<1>3. Covered'
  BY DEF IInv, Begin, TypeOK, Covered, Goto, host
<1>4. Counted'
  <2>1. \A r \in Rules : Appending(r)' \subseteq Appending(r)
    BY DEF IInv, Begin, TypeOK, Appending, Current, Goto
  <2>2. rules' = rules /\ faults' >= faults
    BY NetworkingAssumption DEF IInv, Begin, TypeOK, Fault, host
  <2> QED
    BY <1>1, <2>1, <2>2, CountedKept DEF IInv, TypeOK
<1> QED
  BY <1>1, <1>2, <1>3, <1>4 DEF IInv

LEMMA ResolveKeeps ==
    ASSUME IInv, NEW c \in Calls, ResolveEgress(c)
    PROVE  IInv'
<1>1. TypeOK'
  BY NetworkingAssumption
     DEF IInv, ResolveEgress, Effective, TypeOK, Goto, Fault, Places, host
<1>2. Resolved' /\ InOrder' /\ Covered'
  BY <1>1 DEF IInv, ResolveEgress, TypeOK, Resolved, InOrder, Covered, Goto, host
<1>3. Counted'
  <2>1. \A r \in Rules : Appending(r)' \subseteq Appending(r)
    BY DEF IInv, ResolveEgress, TypeOK, Appending, Current, Goto
  <2>2. rules' = rules /\ faults' >= faults
    BY NetworkingAssumption DEF IInv, ResolveEgress, TypeOK, Fault, host
  <2> QED
    BY <1>1, <2>1, <2>2, CountedKept DEF IInv, TypeOK
<1> QED
  BY <1>1, <1>2, <1>3 DEF IInv

LEMMA ForwardKeeps ==
    ASSUME IInv, NEW c \in Calls, EnableForwarding(c)
    PROVE  IInv'
<1>0. TypeOK /\ Resolved /\ InOrder /\ Covered /\ Counted
  BY DEF IInv
<1>1. TypeOK'
  <2>1. forwarding' \in BOOLEAN
    BY <1>0 DEF EnableForwarding, TypeOK
  <2>2. faults' \in 0 .. MaxFaults
    BY <1>0, NetworkingAssumption DEF EnableForwarding, TypeOK, Fault
  <2>3. at' \in [Calls -> Places]
    BY <1>0 DEF EnableForwarding, TypeOK, Goto, Places
  <2> QED
    BY <1>0, <2>1, <2>2, <2>3 DEF EnableForwarding, TypeOK
<1>2. Resolved' /\ InOrder'
  BY <1>0 DEF EnableForwarding, TypeOK, Resolved, InOrder, Goto
<1>3. Covered'
  <2>1. \A m \in Markers : ~(m < 1)
    BY DEF Markers
  <2>2. /\ marker' = marker /\ rules' = rules /\ egress' = egress
        /\ disturbed' = disturbed
        /\ \A d \in Calls \ {c} : at'[d] = at[d]
        /\ at'[c] \in {"check", "failed"} /\ marker[c] = 1
        /\ forwarding => forwarding'
        /\ at'[c] = "check" => forwarding'
    BY <1>0 DEF EnableForwarding, TypeOK, InOrder, Goto
  <2> QED
    BY <1>0, <2>1, <2>2 DEF Covered
<1>4. Counted'
  <2>1. \A r \in Rules : Appending(r)' \subseteq Appending(r)
    BY <1>0 DEF EnableForwarding, TypeOK, Appending, Current, Goto
  <2>2. rules' = rules /\ faults' >= faults
    BY <1>0, NetworkingAssumption DEF EnableForwarding, TypeOK, Fault
  <2> QED
    BY <1>0, <1>1, <2>1, <2>2, CountedKept DEF TypeOK
<1> QED
  BY <1>1, <1>2, <1>3, <1>4 DEF IInv

\* Going on to the next rule, when the one at hand is in place.
LEMMA AdvanceKeeps ==
    ASSUME TypeOK, Resolved, InOrder, Covered, NEW c \in Calls,
           at[c] \in {"check", "append"}, Advance(c),
           egress' = egress, undo' = undo, disturbed' = disturbed,
           forwarding' = forwarding,
           \A r \in Rules : rules'[r] >= rules[r] /\ rules'[r] \in Nat,
           rules'[Current(c)] > 0
    PROVE  /\ at' \in [Calls -> Places] /\ marker' \in [Calls -> Markers]
           /\ Resolved' /\ InOrder' /\ Covered'
           /\ at'[c] \in {"check", "applied"}
           /\ \A d \in Calls \ {c} : at'[d] = at[d] /\ marker'[d] = marker[d]
<1>1. /\ at' \in [Calls -> Places] /\ marker' \in [Calls -> Markers]
      /\ at'[c] \in {"check", "applied"}
      /\ \A d \in Calls \ {c} : at'[d] = at[d] /\ marker'[d] = marker[d]
      /\ at'[c] = "applied" => marker[c] = Masquerade /\ marker'[c] = marker[c]
      /\ at'[c] = "check" => marker'[c] = marker[c] + 1
  BY NetworkingAssumption DEF TypeOK, Advance, Goto, Places, Markers, Masquerade
<1>2. egress[c] \in Egresses
  BY DEF Resolved
<1>3. Resolved'
  BY <1>1, <1>2 DEF Resolved
<1>4. marker[c] \in Nat /\ undo[c] \in Nat /\ undo[c] <= marker[c]
  BY RuleType DEF TypeOK, InOrder
<1>5. InOrder'
  BY <1>1, <1>4 DEF InOrder
<1>6. Covered'
  <2>1. ASSUME NEW d \in Calls \ disturbed, d # c,
               at'[d] \in {"check", "append", "applied"}, NEW m \in Markers,
               m < marker'[d] \/ at'[d] = "applied"
        PROVE  forwarding' /\ rules'[Rule(m, egress'[d])] > 0
    <3>1. rules[Rule(m, egress[d])] > 0 /\ forwarding
      BY <1>1, <2>1 DEF Covered
    <3>2. Rule(m, egress[d]) \in Rules
      BY <1>1, <2>1, RuleType DEF Resolved, TypeOK
    <3>3. rules[Rule(m, egress[d])] \in Nat
      BY <3>2 DEF TypeOK
    <3> QED
      BY <3>1, <3>2, <3>3
  <2>2. ASSUME c \notin disturbed, NEW m \in Markers,
               m < marker'[c] \/ at'[c] = "applied"
        PROVE  rules'[Rule(m, egress'[c])] > 0
    <3>1. m <= marker[c]
      BY <1>1, <1>4, <2>2 DEF Markers, Masquerade
    <3>2. CASE m = marker[c]
      BY <3>2 DEF Current
    <3>3. CASE m < marker[c]
      <4>1. rules[Rule(m, egress[c])] > 0
        BY <2>2, <3>3 DEF Covered
      <4>2. Rule(m, egress[c]) \in Rules
        BY <1>2, RuleType
      <4>3. rules[Rule(m, egress[c])] \in Nat
        BY <4>2 DEF TypeOK
      <4> QED
        BY <4>1, <4>2, <4>3
    <3> QED
      BY <1>4, <3>1, <3>2, <3>3 DEF Markers
  <2>3. c \notin disturbed => forwarding'
    BY DEF Covered
  <2>4. ASSUME NEW d \in Calls \ disturbed, d # c,
               at'[d] \in {"check", "append", "applied"}
        PROVE  forwarding'
    BY <1>1, <2>4 DEF Covered
  <2> QED
    BY <2>1, <2>2, <2>3, <2>4 DEF Covered
<1> QED
  BY <1>1, <1>3, <1>5, <1>6

\* A check that finds nothing makes room for one append, a check that fails
\* pays for it with a failure.
LEMMA CheckKeeps ==
    ASSUME IInv, NEW c \in Calls, Check(c)
    PROVE  IInv'
<1>0. TypeOK /\ Resolved /\ InOrder /\ Covered /\ Counted
  BY DEF IInv
<1>1. Current(c) \in Rules /\ rules[Current(c)] \in Nat
  BY <1>0, RuleType DEF Check, Resolved, TypeOK, Current
<1>2. CASE Present(c) /\ Advance(c) /\ UNCHANGED faults
  <2>1. \A r \in Rules : rules'[r] >= rules[r] /\ rules'[r] \in Nat
    BY <1>0 DEF Check, TypeOK, host
  <2>2. rules'[Current(c)] > 0
    BY <1>2 DEF Check, Present, host
  <2>3. /\ at[c] \in {"check", "append"}
        /\ egress' = egress /\ undo' = undo /\ disturbed' = disturbed
        /\ forwarding' = forwarding
    BY DEF Check, host
  <2>4. /\ at' \in [Calls -> Places] /\ marker' \in [Calls -> Markers]
        /\ Resolved' /\ InOrder' /\ Covered'
        /\ at'[c] \in {"check", "applied"}
        /\ \A d \in Calls \ {c} : at'[d] = at[d] /\ marker'[d] = marker[d]
    BY <1>0, <1>2, <2>1, <2>2, <2>3, AdvanceKeeps
  <2>5. TypeOK'
    BY <1>0, <1>2, <2>4 DEF Check, TypeOK, host
  <2>6. \A r \in Rules : Appending(r)' \subseteq Appending(r)
    BY <2>3, <2>4 DEF Appending, Current
  <2>7. faults' >= faults
    BY <1>0, <1>2, NetworkingAssumption DEF TypeOK
  <2>8. Counted'
    BY <1>0, <2>1, <2>5, <2>6, <2>7, CountedKept DEF Check, TypeOK, host
  <2> QED
    BY <2>4, <2>5, <2>8 DEF IInv
<1>3. CASE /\ Goto(c, "append") /\ UNCHANGED marker
           /\ \/ ~Present(c) /\ UNCHANGED faults
              \/ Fault
  <2>1. faults' \in 0 .. MaxFaults /\ faults \in Nat /\ faults' \in Nat /\ faults' >= faults
    BY <1>0, <1>3, NetworkingAssumption DEF TypeOK, Fault
  <2>2. at' \in [Calls -> Places] /\ at' = [at EXCEPT ![c] = "append"]
    BY <1>0, <1>3 DEF TypeOK, Goto, Places
  <2>3. TypeOK'
    BY <1>0, <1>3, <2>1, <2>2 DEF Check, TypeOK, host
  <2>4. Resolved' /\ InOrder' /\ Covered'
    BY <1>0, <1>3, <2>2
       DEF Check, TypeOK, Resolved, InOrder, Covered, host
  <2>5. ASSUME NEW r \in Rules
        PROVE  rules'[r] + Cardinality(Appending(r)') <= Cardinality(Calls) + faults'
    <3>1. Appending(r) \subseteq Calls /\ Appending(r)' \subseteq Calls
      BY DEF Appending
    <3>2. /\ IsFiniteSet(Appending(r))
          /\ Cardinality(Appending(r)) \in Nat /\ Cardinality(Appending(r)') \in Nat
          /\ Cardinality(Calls) \in Nat
          /\ Cardinality(Appending(r)') <= Cardinality(Calls)
      BY <3>1, CallSets
    <3>3. rules' = rules /\ rules[r] \in Nat
      BY <1>0 DEF Check, TypeOK, host
    <3>4. CASE r = Current(c) /\ ~Present(c)
      <4>1. rules[r] = 0
        BY <1>1, <3>4 DEF Present
      <4> QED
        BY <2>1, <3>2, <3>3, <4>1
    <3>5. CASE r = Current(c) /\ Fault
      <4>1. Appending(r)' \subseteq Appending(r) \cup {c}
        BY <1>3, <2>2 DEF Check, Appending, Current
      <4>2. /\ IsFiniteSet(Appending(r) \cup {c})
            /\ Cardinality(Appending(r) \cup {c}) <= Cardinality(Appending(r)) + 1
        <5>1. /\ IsFiniteSet(Appending(r) \cup {c})
              /\ Cardinality(Appending(r) \cup {c})
                    = IF c \in Appending(r) THEN Cardinality(Appending(r))
                      ELSE Cardinality(Appending(r)) + 1
          BY <3>2, FS_AddElement, Zenon
        <5> QED
          BY <3>2, <5>1
      <4>3. Cardinality(Appending(r) \cup {c}) \in Nat
        BY <4>2, FS_CardinalityType
      <4>4. Cardinality(Appending(r)') <= Cardinality(Appending(r) \cup {c})
        BY <4>1, <4>2, FS_Subset
      <4>5. faults' = faults + 1
        BY <3>5 DEF Fault
      <4>6. rules[r] + Cardinality(Appending(r)) <= Cardinality(Calls) + faults
        BY <1>0 DEF Counted
      <4> QED
        BY <2>1, <3>2, <3>3, <4>2, <4>3, <4>4, <4>5, <4>6
    <3>6. CASE r # Current(c)
      <4>1. Appending(r)' \subseteq Appending(r)
        BY <1>3, <2>2, <3>6 DEF Check, Appending, Current
      <4>2. Cardinality(Appending(r)') <= Cardinality(Appending(r))
        BY <3>2, <4>1, FS_Subset
      <4>3. rules[r] + Cardinality(Appending(r)) <= Cardinality(Calls) + faults
        BY <1>0 DEF Counted
      <4> QED
        BY <2>1, <3>2, <3>3, <4>2, <4>3
    <3> QED
      BY <1>3, <3>4, <3>5, <3>6
  <2>6. Counted'
    BY <2>5 DEF Counted
  <2> QED
    BY <2>3, <2>4, <2>6 DEF IInv
<1> QED
  BY <1>2, <1>3 DEF Check

\* An append turns what was about to be there into what is there.
LEMMA AppendKeeps ==
    ASSUME IInv, NEW c \in Calls, Append(c)
    PROVE  IInv'
<1>0. TypeOK /\ Resolved /\ InOrder /\ Covered /\ Counted
  BY DEF IInv
<1>1. Current(c) \in Rules /\ rules[Current(c)] \in Nat
  BY <1>0, RuleType DEF Append, Resolved, TypeOK, Current
<1>2. CASE /\ rules' = [rules EXCEPT ![Current(c)] = @ + 1]
           /\ created' = [created EXCEPT ![c] = @ \cup {Current(c)}]
           /\ Advance(c) /\ UNCHANGED faults
  <2>1. /\ \A r \in Rules : rules'[r] >= rules[r] /\ rules'[r] \in Nat
        /\ rules'[Current(c)] = rules[Current(c)] + 1
        /\ \A r \in Rules : r # Current(c) => rules'[r] = rules[r]
        /\ rules' \in [Rules -> Nat]
    BY <1>0, <1>1, <1>2 DEF TypeOK
  <2>2. rules'[Current(c)] > 0
    BY <1>1, <2>1
  <2>3. /\ at[c] \in {"check", "append"} /\ at[c] = "append"
        /\ egress' = egress /\ undo' = undo /\ disturbed' = disturbed
        /\ forwarding' = forwarding
    BY DEF Append
  <2>4. /\ at' \in [Calls -> Places] /\ marker' \in [Calls -> Markers]
        /\ Resolved' /\ InOrder' /\ Covered'
        /\ at'[c] \in {"check", "applied"}
        /\ \A d \in Calls \ {c} : at'[d] = at[d] /\ marker'[d] = marker[d]
    BY <1>0, <1>2, <2>1, <2>2, <2>3, AdvanceKeeps
  <2>5. created' \in [Calls -> SUBSET Rules]
    BY <1>0, <1>1, <1>2 DEF TypeOK
  <2>6. TypeOK'
    BY <1>0, <1>2, <2>1, <2>4, <2>5 DEF Append, TypeOK
  <2>7. ASSUME NEW r \in Rules
        PROVE  rules'[r] + Cardinality(Appending(r)') <= Cardinality(Calls) + faults'
    <3>1. Appending(r) \subseteq Calls /\ Appending(r)' = Appending(r) \ {c}
      BY <2>3, <2>4 DEF Appending, Current
    <3>2. /\ IsFiniteSet(Appending(r)) /\ Cardinality(Appending(r)) \in Nat
          /\ Cardinality(Calls) \in Nat
      BY <3>1, CallSets
    <3>3. Cardinality(Appending(r)')
             = IF c \in Appending(r) THEN Cardinality(Appending(r)) - 1
               ELSE Cardinality(Appending(r))
      BY <3>1, <3>2, FS_RemoveElement, Zenon
    <3>4. rules[r] + Cardinality(Appending(r)) <= Cardinality(Calls) + faults
      BY <1>0 DEF Counted
    <3>5. rules[r] \in Nat /\ faults \in Nat /\ faults' = faults
      BY <1>0, <1>2, NetworkingAssumption DEF TypeOK
    <3>6. c \in Appending(r) <=> r = Current(c)
      BY <2>3 DEF Appending
    <3> QED
      BY <2>1, <3>2, <3>3, <3>4, <3>5, <3>6
  <2>8. Counted'
    BY <2>7 DEF Counted
  <2> QED
    BY <2>4, <2>6, <2>8 DEF IInv
<1>3. CASE Goto(c, "delete") /\ Fault /\ UNCHANGED <<rules, created, marker>>
  <2>1. /\ faults' \in 0 .. MaxFaults /\ faults' >= faults
        /\ at' \in [Calls -> Places] /\ at' = [at EXCEPT ![c] = "delete"]
    <3>1. faults' \in 0 .. MaxFaults /\ faults' >= faults
      BY <1>0, <1>3, NetworkingAssumption DEF TypeOK, Fault
    <3> QED
      BY <1>0, <1>3, <3>1 DEF TypeOK, Goto, Places
  <2>2. TypeOK'
    BY <1>0, <1>3, <2>1 DEF Append, TypeOK
  <2>3. Resolved' /\ InOrder' /\ Covered'
    BY <1>0, <1>3, <2>1 DEF Append, TypeOK, Resolved, InOrder, Covered
  <2>4. \A r \in Rules : rules'[r] <= rules[r] /\ Appending(r)' \subseteq Appending(r)
    BY <1>0, <1>3, <2>1 DEF Append, TypeOK, Appending, Current
  <2>5. Counted'
    BY <1>0, <2>1, <2>2, <2>4, CountedKept
  <2> QED
    BY <2>2, <2>3, <2>5 DEF IInv
<1> QED
  BY <1>2, <1>3 DEF Append

LEMMA DeleteKeeps ==
    ASSUME IInv, NEW c \in Calls, Delete(c)
    PROVE  IInv'
<1>0. TypeOK /\ Resolved /\ InOrder /\ Covered /\ Counted
  BY DEF IInv
<1>1. CASE /\ undo[c] = marker[c] /\ Goto(c, "failed")
           /\ UNCHANGED <<rules, undo, disturbed, faults>>
  <2>1. at' = [at EXCEPT ![c] = "failed"] /\ at' \in [Calls -> Places]
    BY <1>0, <1>1 DEF TypeOK, Goto, Places
  <2>2. TypeOK'
    BY <1>0, <1>1, <2>1 DEF Delete, TypeOK
  <2>3. Resolved' /\ InOrder' /\ Covered'
    BY <1>0, <1>1, <2>1 DEF Delete, TypeOK, Resolved, InOrder, Covered
  <2>4. /\ \A r \in Rules : rules'[r] <= rules[r] /\ Appending(r)' \subseteq Appending(r)
        /\ faults' >= faults
    BY <1>0, <1>1, <2>1, NetworkingAssumption DEF Delete, TypeOK, Appending, Current
  <2>5. Counted'
    BY <1>0, <2>2, <2>4, CountedKept
  <2> QED
    BY <2>2, <2>3, <2>5 DEF IInv
<1>2. CASE undo[c] # marker[c]
  <2> DEFINE r == Rule(undo[c], None)
  <2>1. /\ at[c] = "delete" /\ undo' = [undo EXCEPT ![c] = @ + 1]
        /\ UNCHANGED <<at, forwarding, route, egress, marker, created, changes>>
    BY <1>2 DEF Delete
  <2>2. \/ /\ rules[r] > 0 /\ rules' = [rules EXCEPT ![r] = @ - 1]
           /\ disturbed' = Calls /\ UNCHANGED faults
        \/ /\ \/ Fault \/ UNCHANGED faults
           /\ UNCHANGED <<rules, disturbed>>
    BY <1>2 DEF Delete
  <2>3. /\ undo[c] \in Markers /\ undo[c] + 1 \in Markers
        /\ undo[c] + 1 <= marker[c] /\ undo[c] # Masquerade
    BY <1>0, <1>2, RuleType, NetworkingAssumption
       DEF TypeOK, InOrder, Markers, Masquerade
  <2>4. r \in Rules
    <3>1. egress[c] \in Egresses
      BY <1>0, <2>1 DEF Resolved
    <3>2. Rule(undo[c], egress[c]) = Rule(undo[c], None)
      BY <2>3, RuleType, Zenon
    <3> QED
      BY <2>3, <3>1, <3>2, RuleType
  <2>5. /\ rules' \in [Rules -> Nat]
        /\ \A q \in Rules : rules'[q] <= rules[q]
    BY <1>0, <2>2, <2>4 DEF TypeOK
  <2>6. faults' \in 0 .. MaxFaults /\ faults' >= faults
    BY <1>0, <2>2, NetworkingAssumption DEF TypeOK, Fault
  <2>7. undo' \in [Calls -> Markers] /\ disturbed' \in SUBSET Calls
    BY <1>0, <2>1, <2>2, <2>3 DEF TypeOK
  <2>8. TypeOK'
    BY <1>0, <2>1, <2>5, <2>6, <2>7 DEF TypeOK
  <2>9. Resolved' /\ InOrder'
    BY <1>0, <2>1, <2>3 DEF TypeOK, Resolved, InOrder
  <2>10. Covered'
    BY <1>0, <2>1, <2>2 DEF Covered
  <2>11. Counted'
    <3>1. \A q \in Rules : Appending(q)' \subseteq Appending(q)
      BY <2>1 DEF Appending, Current
    <3> QED
      BY <1>0, <2>5, <2>6, <2>8, <3>1, CountedKept
  <2> QED
    BY <2>8, <2>9, <2>10, <2>11 DEF IInv
<1> QED
  BY <1>1, <1>2 DEF Delete

LEMMA ChangeKeeps ==
    ASSUME IInv, Change
    PROVE  IInv'
<1>0. TypeOK /\ Resolved /\ InOrder /\ Covered /\ Counted
  BY DEF IInv
<1>1. /\ UNCHANGED <<at, egress, marker, undo, created, faults>>
      /\ disturbed' = Calls \/ UNCHANGED <<disturbed, rules, forwarding>>
  BY DEF Change, calls
<1>2. /\ route' \in Egresses \cup {None} /\ forwarding' \in BOOLEAN
      /\ changes' \in 0 .. MaxChanges
  <2>1. changes' \in 0 .. MaxChanges
    BY <1>0, NetworkingAssumption DEF Change, TypeOK
  <2> QED
    BY <1>0, <2>1 DEF Change, TypeOK
<1>3. rules' \in [Rules -> Nat] /\ \A r \in Rules : rules'[r] <= rules[r]
  BY <1>0 DEF Change, TypeOK
<1>4. TypeOK'
  BY <1>0, <1>1, <1>2, <1>3 DEF TypeOK
<1>5. Resolved' /\ InOrder' /\ Covered'
  BY <1>0, <1>1 DEF Resolved, InOrder, Covered
<1>6. Counted'
  <2>1. \A r \in Rules : Appending(r)' \subseteq Appending(r)
    BY <1>1 DEF Appending, Current
  <2>2. faults' >= faults
    BY <1>0, <1>1, NetworkingAssumption DEF TypeOK
  <2> QED
    BY <1>0, <1>3, <1>4, <2>1, <2>2, CountedKept
<1> QED
  BY <1>4, <1>5, <1>6 DEF IInv

LEMMA CrashKeeps ==
    ASSUME IInv, Crash
    PROVE  IInv'
<1>0. TypeOK /\ Resolved /\ InOrder /\ Covered /\ Counted
  BY DEF IInv
<1>1. faults' \in 0 .. MaxFaults /\ faults' >= faults
  BY <1>0, NetworkingAssumption DEF Crash, TypeOK, Fault
<1>2. TypeOK' /\ Resolved' /\ InOrder' /\ Covered'
  BY <1>0, <1>1 DEF Crash, TypeOK, Resolved, InOrder, Covered, Places, host
<1>3. Counted'
  <2>1. \A r \in Rules : rules'[r] <= rules[r] /\ Appending(r)' \subseteq Appending(r)
    BY <1>0 DEF Crash, Appending, TypeOK, host
  <2> QED
    BY <1>0, <1>1, <1>2, <2>1, CountedKept
<1> QED
  BY <1>2, <1>3 DEF IInv

-----------------------------------------------------------------------------
\* The invariant holds in every reachable state.
THEOREM InductiveInvariant == Spec => []IInv
<1>1. IInv /\ [Next]_vars => IInv'
  <2> SUFFICES ASSUME IInv, [Next]_vars PROVE IInv'
    OBVIOUS
  <2>1. CASE UNCHANGED vars
    BY <2>1 DEF IInv, TypeOK, Resolved, InOrder, Covered, Counted, Appending,
                Current, vars, host, calls
  <2>2. ASSUME NEW c \in Calls, Begin(c) \/ Step(c) PROVE IInv'
    BY <2>2, BeginKeeps, ResolveKeeps, ForwardKeeps, CheckKeeps, AppendKeeps,
       DeleteKeeps DEF Step
  <2> QED
    BY <2>1, <2>2, ChangeKeeps, CrashKeeps DEF Next
<1> QED
  BY <1>1, InitEstablishes, PTL DEF Spec

\* Every reachable state of host and calls is well-typed.
THEOREM TypeCorrect == Spec => []TypeOK
<1>1. IInv => TypeOK
  BY DEF IInv
<1> QED
  BY <1>1, InductiveInvariant, PTL

\* A call that reports success, undisturbed, has its whole policy in place.
THEOREM SuccessIsInPlace == Spec => []AppliedMeansInPlace
<1>1. IInv => AppliedMeansInPlace
  BY NetworkingAssumption
     DEF IInv, Covered, Resolved, AppliedMeansInPlace, InPlace
<1> QED
  BY <1>1, InductiveInvariant, PTL

\* No rule has more copies than there are overlapping calls and failures.
THEOREM CopiesAreFew == Spec => []FewCopies
<1>1. ASSUME IInv, NEW r \in Rules
      PROVE  rules[r] <= Cardinality(Calls) + faults
  <2>1. Cardinality(Appending(r)) \in Nat /\ Cardinality(Calls) \in Nat
    BY CallSets DEF Appending
  <2>2. rules[r] \in Nat /\ faults \in Nat
    BY <1>1, NetworkingAssumption DEF IInv, TypeOK
  <2>3. rules[r] + Cardinality(Appending(r)) <= Cardinality(Calls) + faults
    BY <1>1 DEF IInv, Counted
  <2> QED
    BY <2>1, <2>2, <2>3
<1>2. IInv => FewCopies
  BY <1>1 DEF FewCopies
<1> QED
  BY <1>2, InductiveInvariant, PTL

-----------------------------------------------------------------------------
(***************************************************************************)
(* Calls end, and a policy that is in place stays once things are calm.    *)
(***************************************************************************)
LEMMA StepsLeftBounds ==
    ASSUME NEW x, NEW m \in Markers, NEW u \in Markers, u <= m
    PROVE  StepsLeft(x, m, u) \in 0 .. 3 * Masquerade + 2
<1>1. Masquerade \in Nat /\ m \in 1 .. Masquerade /\ u \in 1 .. m
  BY NetworkingAssumption DEF Masquerade, Markers
<1> QED
  BY <1>1 DEF StepsLeft

LEMMA StepAdvances ==
    ASSUME IInv, IInv', NEW c \in Calls, Step(c)
    PROVE  /\ Left(c)' < Left(c)
           /\ \A d \in Calls \ {c} : Left(d)' = Left(d)
<1>1. /\ at \in [Calls -> Places]
      /\ marker \in [Calls -> Markers] /\ undo \in [Calls -> Markers]
      /\ marker'[c] \in Markers /\ undo'[c] \in Markers
      /\ undo[c] <= marker[c] /\ undo'[c] <= marker'[c]
      /\ at[c] = "forward" => marker[c] = 1
      /\ Masquerade \in Nat /\ Markers = 1 .. Masquerade
  BY NetworkingAssumption DEF IInv, TypeOK, InOrder, Masquerade, Markers
<1>2. \A d \in Calls \ {c} :
        at'[d] = at[d] /\ marker'[d] = marker[d] /\ undo'[d] = undo[d]
  BY <1>1 DEF Step, ResolveEgress, EnableForwarding, Check, Append, Delete,
              Advance, Goto
<1>3. \A d \in Calls \ {c} : Left(d)' = Left(d)
  BY <1>2 DEF Left
<1>4. CASE ResolveEgress(c)
  BY <1>1, <1>4 DEF ResolveEgress, Goto, Left, StepsLeft
<1>5. CASE EnableForwarding(c)
  BY <1>1, <1>5 DEF EnableForwarding, Goto, Left, StepsLeft
<1>6. CASE Check(c)
  BY <1>1, <1>6 DEF Check, Advance, Goto, Left, StepsLeft
<1>7. CASE Append(c)
  BY <1>1, <1>7 DEF Append, Advance, Goto, Left, StepsLeft
<1>8. CASE Delete(c)
  BY <1>1, <1>8 DEF Delete, Goto, Left, StepsLeft
<1> QED
  BY <1>3, <1>4, <1>5, <1>6, <1>7, <1>8 DEF Step

\* A call of applyNetworking goes once through its rules and once back at
\* most: each of its steps brings it closer to its end, and nobody else's
\* takes it further away.
THEOREM CallsRunOut == Spec => CallsAdvance
<1> DEFINE Bounded == \A c \in Calls : Left(c) \in 0 .. 3 * Masquerade + 2
           Forward == \A c \in Calls : at[c] \notin {"idle", "applied", "failed"} =>
                         /\ Left(c)' <= Left(c)
                         /\ Step(c) => Left(c)' < Left(c)
<1>1. IInv => Bounded
  BY StepsLeftBounds DEF IInv, TypeOK, InOrder, Left
<1>2. ASSUME IInv, IInv', [Next]_vars, ~UNCHANGED vars
      PROVE  Forward
  <2> SUFFICES ASSUME NEW c \in Calls, at[c] \notin {"idle", "applied", "failed"}
               PROVE  /\ Left(c)' <= Left(c)
                      /\ Step(c) => Left(c)' < Left(c)
    OBVIOUS
  <2>1. Left(c) \in Nat /\ Left(c)' \in Nat
    <3>1. /\ marker[c] \in Markers /\ undo[c] \in Markers /\ undo[c] <= marker[c]
          /\ marker'[c] \in Markers /\ undo'[c] \in Markers /\ undo'[c] <= marker'[c]
          /\ Masquerade \in Nat
      BY <1>2, NetworkingAssumption DEF IInv, TypeOK, InOrder, Masquerade
    <3>2. /\ StepsLeft(at[c], marker[c], undo[c]) \in Nat
          /\ StepsLeft(at'[c], marker'[c], undo'[c]) \in Nat
      BY <3>1, StepsLeftBounds
    <3> QED
      BY <3>2 DEF Left
  <2>2. CASE \E d \in Calls : Step(d)
    BY <1>2, <2>1, <2>2, StepAdvances
  <2>3. CASE ~\E d \in Calls : Step(d)
    <3>1. SUFFICES Left(c)' <= Left(c)
      BY <2>3
    <3>2. CASE \E d \in Calls : Begin(d)
      <4>1. at'[c] = at[c] /\ marker'[c] = marker[c] /\ undo'[c] = undo[c]
        BY <1>2, <3>2 DEF Begin, Goto, IInv, TypeOK
      <4> QED
        BY <2>1, <4>1 DEF Left
    <3>3. CASE Crash
      <4>1. at'[c] = "idle"
        BY <3>3 DEF Crash
      <4>2. Left(c)' = 0
        BY <4>1 DEF Left, StepsLeft
      <4> QED
        BY <2>1, <4>2
    <3>4. CASE Change
      BY <2>1, <3>4 DEF Change, calls, Left
    <3> QED
      BY <1>2, <2>3, <3>2, <3>3, <3>4 DEF Next
  <2> QED
    BY <2>2, <2>3
<1>3. IInv /\ IInv' /\ [Next]_vars => [Forward]_vars
  BY <1>2
<1> QED
  BY <1>1, <1>3, InductiveInvariant, PTL DEF Spec, CallsAdvance

\* The stable half of RulesConverge: without further failures no rollback
\* starts, and without rollbacks nothing takes a policy away again.
THEOREM PolicyStays == Spec => CalmKeepsPolicy
<1> DEFINE Calm == faults = MaxFaults /\ changes = MaxChanges
           Stays == Calm =>
               /\ \A c \in Calls : at'[c] = "delete" => at[c] = "delete"
               /\ (\A c \in Calls : at[c] # "delete") /\ InPlace(Effective)
                     => InPlace(Effective)'
<1>1. ASSUME IInv, [Next]_vars, Calm
      PROVE  /\ ~Fault /\ ~Change /\ ~Crash
             /\ route' = route
             /\ forwarding => forwarding'
  <2>1. ~Fault /\ ~Change /\ ~Crash
    BY <1>1, NetworkingAssumption DEF Fault, Change, Crash
  <2> QED
    BY <1>1, <2>1
       DEF Next, Begin, Step, ResolveEgress, EnableForwarding, Check, Append,
           Delete, vars, host
<1>2. ASSUME IInv, [Next]_vars, Calm, NEW c \in Calls, at'[c] = "delete"
      PROVE  at[c] = "delete"
  <2>1. at \in [Calls -> Places]
    BY <1>2 DEF IInv, TypeOK
  <2>2. ASSUME NEW d \in Calls, Begin(d) \/ Step(d)
        PROVE  at[c] = "delete"
    BY <1>1, <1>2, <2>1, <2>2
       DEF Begin, Step, ResolveEgress, EnableForwarding, Check, Append, Delete,
           Advance, Goto
  <2> QED
    BY <1>1, <1>2, <2>2 DEF Next, vars, calls
<1>3. ASSUME IInv, IInv', [Next]_vars, Calm, \A c \in Calls : at[c] # "delete",
             InPlace(Effective)
      PROVE  InPlace(Effective)'
  <2>1. rules \in [Rules -> Nat]
    BY <1>3 DEF IInv, TypeOK
  <2>2. \A r \in Rules : rules'[r] >= rules[r]
    <3>1. ASSUME NEW d \in Calls, Append(d)
          PROVE  \A r \in Rules : rules'[r] >= rules[r]
      BY <2>1, <3>1 DEF Append
    <3>2. CASE rules' = rules
      BY <2>1, <3>2
    <3> QED
      BY <1>1, <1>3, <3>1, <3>2
         DEF Next, Begin, Step, ResolveEgress, EnableForwarding, Check, Delete,
             vars, host
  <2>3. Effective' = Effective /\ Effective \in Egresses
    BY <1>1, <1>3, NetworkingAssumption DEF Effective, InPlace, IInv, TypeOK
  <2>4. ASSUME NEW m \in Markers
        PROVE  rules'[Rule(m, Effective)] > 0
    <3>1. Rule(m, Effective) \in Rules
      BY <2>3, RuleType
    <3>2. rules[Rule(m, Effective)] \in Nat /\ rules[Rule(m, Effective)] > 0
      BY <1>3, <2>1, <3>1 DEF InPlace
    <3>3. rules'[Rule(m, Effective)] \in Nat
      BY <1>3, <3>1 DEF IInv, TypeOK
    <3> QED
      BY <2>2, <3>1, <3>2, <3>3
  <2> QED
    BY <1>1, <1>3, <2>3, <2>4 DEF InPlace
<1>4. IInv /\ IInv' /\ [Next]_vars => [Stays]_vars
  BY <1>2, <1>3
<1> QED
  BY <1>4, InductiveInvariant, PTL DEF Spec, CalmKeepsPolicy

=============================================================================
