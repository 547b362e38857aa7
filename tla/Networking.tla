----------------------------- MODULE Networking -----------------------------
(***************************************************************************)
(* The networking policy of the host: applyNetworking and                  *)
(* rollbackNetworking (packages/engine/src/networking.ts), which reconcile *)
(* calls after the apply lock has been released, so that calls overlap.    *)
(*                                                                         *)
(* A call turns on IP forwarding and goes through its rules in a fixed     *)
(* order: check whether iptables has the rule, append it if not, and give  *)
(* up and delete the rules before it when appending fails.  The last rule  *)
(* masquerades towards the interface of the default route, read from the   *)
(* host when the call begins unless the configuration names one.           *)
(*                                                                         *)
(* iptables keeps as many copies of a rule as were appended; a delete      *)
(* takes one.  Any command may fail, the host's administrator may change   *)
(* route, rules and forwarding, and the engine may die at any step.        *)
(*                                                                         *)
(* Definitions marked MUTANT are not part of the specification: each is a  *)
(* definition with a mistake in it that a property has to detect.          *)
(***************************************************************************)
EXTENDS Integers, FiniteSets

CONSTANTS
    Calls,        \* concurrent calls of applyNetworking
    Forwards,     \* number of rules in the FORWARD chain
    Egresses,     \* network interfaces of the host
    Override,     \* config.wgEgressInterface, or None
    None,         \* no interface
    MaxFaults,    \* bound on failing commands and crashes
    MaxChanges    \* bound on changes from outside

ASSUME NetworkingAssumption ==
    /\ IsFiniteSet(Calls)
    /\ Forwards \in Nat
    /\ None \notin Egresses
    /\ Override \in Egresses \cup {None}
    /\ MaxFaults \in Nat /\ MaxChanges \in Nat

\* The rules' comment markers, in the order of insertion.
Masquerade == Forwards + 1
Markers == 1 .. Masquerade

\* Only the masquerading rule names the egress interface.
Rule(m, e) == <<m, IF m = Masquerade THEN e ELSE None>>
Rules == {Rule(m, e) : m \in Markers, e \in Egresses}

VARIABLES
    rules,       \* copies of each rule in iptables
    forwarding,  \* net.ipv4.ip_forward
    route,       \* interface of the default route
    at,          \* where each call is
    egress,      \* egress interface each call has resolved
    marker,      \* rule each call is at; it has gone through those before
    undo,        \* rule each call deletes next
    created,     \* rules each call has appended
    disturbed,   \* calls since whose begin something was taken away
    faults, changes

host == <<rules, forwarding, route>>
calls == <<at, egress, marker, undo, created>>
vars == <<host, calls, disturbed, faults, changes>>

Places == {"idle", "egress", "forward", "check", "append", "delete",
           "applied", "failed"}

TypeOK ==
    /\ rules \in [Rules -> Nat]
    /\ forwarding \in BOOLEAN
    /\ route \in Egresses \cup {None}
    /\ at \in [Calls -> Places]
    /\ egress \in [Calls -> Egresses \cup {None}]
    /\ marker \in [Calls -> Markers]
    /\ undo \in [Calls -> Markers]
    /\ created \in [Calls -> SUBSET Rules]
    /\ disturbed \in SUBSET Calls
    /\ faults \in 0 .. MaxFaults /\ changes \in 0 .. MaxChanges

Goto(c, place) == at' = [at EXCEPT ![c] = place]
Fault == faults < MaxFaults /\ faults' = faults + 1

\* The rule a call is at, and the interface it would use by now.
Current(c) == Rule(marker[c], egress[c])
Effective == IF Override # None THEN Override ELSE route

Init ==
    /\ rules = [r \in Rules |-> 0]
    /\ forwarding = FALSE
    /\ route \in Egresses \cup {None}
    /\ at = [c \in Calls |-> "idle"]
    /\ egress = [c \in Calls |-> None]
    /\ marker = [c \in Calls |-> 1]
    /\ undo = [c \in Calls |-> 1]
    /\ created = [c \in Calls |-> {}]
    /\ disturbed = {}
    /\ faults = 0 /\ changes = 0

\* An apply has succeeded; is there an iptables command?
Begin(c) ==
    /\ at[c] \in {"idle", "applied", "failed"}
    /\ \/ Goto(c, "egress") /\ UNCHANGED faults
       \/ Goto(c, "failed") /\ Fault
    /\ egress' = [egress EXCEPT ![c] = None]
    /\ marker' = [marker EXCEPT ![c] = 1]
    /\ undo' = [undo EXCEPT ![c] = 1]
    /\ created' = [created EXCEPT ![c] = {}]
    /\ disturbed' = disturbed \ {c}
    /\ UNCHANGED <<host, changes>>

ResolveEgress(c) ==
    /\ at[c] = "egress"
    /\ \/ egress' = [egress EXCEPT ![c] = Effective] /\ UNCHANGED faults
       \/ Override = None /\ Fault /\ UNCHANGED egress
    /\ Goto(c, IF egress'[c] = None THEN "failed" ELSE "forward")
    /\ UNCHANGED <<host, marker, undo, created, disturbed, changes>>

\* Read first and written only when it is off.
EnableForwarding(c) ==
    /\ at[c] = "forward"
    /\ \/ forwarding' = TRUE /\ Goto(c, "check") /\ UNCHANGED faults
       \/ Goto(c, "failed") /\ Fault /\ UNCHANGED forwarding
    /\ UNCHANGED <<rules, route, egress, marker, undo, created, disturbed, changes>>

\* MUTANT of Advance: the end of the list is missed.
AdvancePastEnd(c) ==
    /\ marker' = [marker EXCEPT ![c] = @ + 1]
    /\ Goto(c, IF marker[c] > Masquerade THEN "applied" ELSE "check")

\* The next rule, or all done.
Advance(c) ==
    IF marker[c] = Masquerade
    THEN Goto(c, "applied") /\ UNCHANGED marker
    ELSE Goto(c, "check") /\ marker' = [marker EXCEPT ![c] = @ + 1]

\* MUTANT of Present: any rule with the marker will do.
PresentByMarker(c) == \E e \in Egresses : rules[Rule(marker[c], e)] > 0

Present(c) == rules[Current(c)] > 0

\* MUTANT of Check: what is found is not told from what is not.
CheckIgnored(c) ==
    /\ at[c] = "check"
    /\ Goto(c, "append")
    /\ UNCHANGED <<host, egress, marker, undo, created, disturbed, faults, changes>>

\* iptables -C: any failure counts as absence.
Check(c) ==
    /\ at[c] = "check"
    /\ \/ Present(c) /\ Advance(c) /\ UNCHANGED faults
       \/ ~Present(c) /\ Goto(c, "append") /\ UNCHANGED <<marker, faults>>
       \/ Goto(c, "append") /\ Fault /\ UNCHANGED marker
    /\ UNCHANGED <<host, egress, undo, created, disturbed, changes>>

\* MUTANT of Append: the next rule is taken up although this one failed.
AppendOrIgnore(c) ==
    /\ at[c] = "append"
    /\ \/ /\ rules' = [rules EXCEPT ![Current(c)] = @ + 1]
          /\ created' = [created EXCEPT ![c] = @ \cup {Current(c)}]
          /\ Advance(c)
          /\ UNCHANGED faults
       \/ Advance(c) /\ Fault /\ UNCHANGED <<rules, created>>
    /\ UNCHANGED <<forwarding, route, egress, undo, disturbed, changes>>

\* iptables -A; a failure starts the rollback of the rules before it.
Append(c) ==
    /\ at[c] = "append"
    /\ \/ /\ rules' = [rules EXCEPT ![Current(c)] = @ + 1]
          /\ created' = [created EXCEPT ![c] = @ \cup {Current(c)}]
          /\ Advance(c)
          /\ UNCHANGED faults
       \/ Goto(c, "delete") /\ Fault /\ UNCHANGED <<rules, created, marker>>
    /\ UNCHANGED <<forwarding, route, egress, undo, disturbed, changes>>

\* rollbackNetworking, one iptables -D for each rule gone through, whether
\* appended or found; a failure is ignored.  The masquerading rule is never
\* among them, so that the egress interface does not matter.
Delete(c) ==
    /\ at[c] = "delete"
    /\ LET r == Rule(undo[c], None)
       IN IF undo[c] = marker[c]
          THEN Goto(c, "failed") /\ UNCHANGED <<rules, undo, disturbed, faults>>
          ELSE /\ undo' = [undo EXCEPT ![c] = @ + 1]
               /\ \/ /\ rules[r] > 0
                     /\ rules' = [rules EXCEPT ![r] = @ - 1]
                     /\ disturbed' = Calls
                     /\ UNCHANGED faults
                  \/ /\ IF rules[r] > 0 THEN Fault ELSE UNCHANGED faults
                     /\ UNCHANGED <<rules, disturbed>>
               /\ UNCHANGED at
    /\ UNCHANGED <<forwarding, route, egress, marker, created, changes>>

\* The administrator changes the default route, or takes a rule or
\* forwarding away.
Change ==
    /\ changes < MaxChanges
    /\ changes' = changes + 1
    /\ \/ /\ route' \in Egresses \cup {None}
          /\ UNCHANGED <<rules, forwarding, disturbed>>
       \/ /\ \/ \E r \in Rules : rules' = [rules EXCEPT ![r] = 0]
                                 /\ UNCHANGED forwarding
             \/ forwarding' = FALSE /\ UNCHANGED rules
          /\ disturbed' = Calls
          /\ UNCHANGED route
    /\ UNCHANGED <<calls, faults>>

\* The engine dies and is started again; the host stays as it is.
Crash ==
    /\ Fault
    /\ at' = [c \in Calls |-> "idle"]
    /\ UNCHANGED <<host, egress, marker, undo, created, disturbed, changes>>

Step(c) ==
    \/ ResolveEgress(c) \/ EnableForwarding(c)
    \/ Check(c) \/ Append(c) \/ Delete(c)

Next ==
    \/ \E c \in Calls : Begin(c) \/ Step(c)
    \/ Change
    \/ Crash

\* No fairness: iptables is run without a time limit (execIptables), so that
\* a command need not return.  What has to return is said where it matters.
Spec == Init /\ [][Next]_vars

-----------------------------------------------------------------------------
(***************************************************************************)
(* Properties.                                                             *)
(***************************************************************************)

\* The whole policy for interface e.
InPlace(e) ==
    /\ forwarding
    /\ e # None
    /\ \A m \in Markers : rules[Rule(m, e)] > 0

\* A call that reports success has every rule in place, for the egress it
\* resolved, and forwarding on, as long as no rollback of another call and
\* nobody outside has taken anything away since it began.
AppliedMeansInPlace ==
    \A c \in Calls \ disturbed : at[c] = "applied" => InPlace(egress[c])

\* Copies of a rule come only from calls that overlap and from checks that
\* fail: one call at a time never appends a rule twice.
FewCopies == \A r \in Rules : rules[r] <= Cardinality(Calls) + faults

\* The steps a call at a place, a rule and a rule to delete has at most ahead:
\* two for each rule from its marker on, and then the rollback.
StepsLeft(place, m, u) ==
    IF place = "egress" THEN 3 * Masquerade + 2
    ELSE IF place = "forward" THEN 3 * Masquerade + 1
    ELSE IF place = "check" THEN 3 * Masquerade - 2 * m + 2
    ELSE IF place = "append" THEN 3 * Masquerade - 2 * m + 1
    ELSE IF place = "delete" THEN m - u + 1
    ELSE 0

Left(c) == StepsLeft(at[c], marker[c], undo[c])

\* No call goes round in circles among its rules: whatever fails and whoever
\* else applies or deletes rules, it is through after at most three steps for
\* each rule and two more.
CallsAdvance ==
    /\ [](\A c \in Calls : Left(c) \in 0 .. 3 * Masquerade + 2)
    /\ [][\A c \in Calls : at[c] \notin {"idle", "applied", "failed"} =>
             /\ Left(c)' <= Left(c)
             /\ Step(c) => Left(c)' < Left(c)]_vars

\* Once failures and changes from outside are over no rollback starts, and
\* after the last rollback a policy that is in place stays in place, however
\* many calls go over it.
CalmKeepsPolicy ==
    [][faults = MaxFaults /\ changes = MaxChanges =>
          /\ \A c \in Calls : at'[c] = "delete" => at[c] = "delete"
          /\ (\A c \in Calls : at[c] # "delete") /\ InPlace(Effective)
                => InPlace(Effective)']_vars

\* The host's commands return: each call comes to its end time and again.
Returning == \A c \in Calls : []<>(at[c] \in {"idle", "applied", "failed"})

\* As long as commands return and calls keep getting as far as the rules, the
\* host comes to have all rules for the interface that is in use, once
\* failures and changes from outside are over.
RulesConverge ==
    Returning /\ []<>(\E c \in Calls : at[c] = "check")
        => <>[]InPlace(Effective)

\* "rules that already existed before this call (and therefore weren't
\* touched by it) are left alone" (networking.ts, rollbackNetworking).
RollbackSparesOthers ==
    [][\A c \in Calls : at[c] = "delete" /\ undo'[c] # undo[c] /\ rules' # rules
          => Rule(undo[c], None) \in created[c]]_vars

=============================================================================
