-------------------------- MODULE ReconcileProofs --------------------------
(***************************************************************************)
(* Proofs about Reconcile, for any number of peers and requests and any    *)
(* number of faults and crashes.  The inductive invariant says of each     *)
(* request, place by place, how what the kernel serves relates to what the *)
(* request planned; it is kept because only the holder of the apply lock   *)
(* touches the kernel, and because time only removes peers from the file   *)
(* that is rendered.                                                       *)
(***************************************************************************)
EXTENDS Reconcile, FiniteSetTheorems, TLAPS

\* Places after the plan is made and the interface is there.
Planned == {"reconfigure", "sync", "remove", "verify", "rollback", "ok"}

\* What a request may rely on at each place of the apply.
Relies(j) ==
    LET r == job[j] IN
    /\ r.at \in Locked \cup {"lock"} =>
          Rendered(j) \subseteq r.intended /\ r.intended \subseteq r.snap
    /\ r.at \in Locked => lock = j
    /\ r.at = "bootstrap" =>
          /\ r.before = {}
          /\ Rendered(j) \subseteq r.add
    /\ r.at \in Making =>
          /\ link /\ ~up /\ r.made
          /\ kernel = {}
          /\ Rendered(j) \subseteq r.before \cup r.add
    /\ r.at \in Planned =>
          /\ link /\ (up \/ cut)
          /\ r.bootstrap => r.made
          /\ Rendered(j) \subseteq r.before \cup r.add
    /\ r.at \in {"reconfigure", "sync"} =>
          kernel \subseteq r.before \cup (r.intended \cap r.add)
    /\ r.at = "remove" =>
          /\ Rendered(j) \subseteq kernel
          /\ kernel \subseteq r.intended \cup r.todo
          /\ kernel \subseteq r.before \cup r.add
          /\ r.todo \cap r.intended = {}
    /\ r.at \in {"verify", "ok"} =>
          /\ Rendered(j) \subseteq kernel
          /\ kernel \subseteq r.intended
          /\ kernel \subseteq r.before \cup r.add
    /\ r.at = "rollback" /\ r.undone => kernel \subseteq r.before \cup r.todo
    /\ r.at = "failed" /\ r.undone => kernel \subseteq r.before

\* A POST holds the write queue from its load to its end, and the registry
\* does not change under it.
HoldsQueue(j) ==
    /\ job[j].at \notin {"sweep", "load"}
    /\ job[j].at # "idle" => writer = j
    /\ job[j].at \in Locked \cup {"intend", "lock"} => job[j].snap = Active

\* An interface that is there and not up has been left so, or is being made.
LinkInv ==
    /\ ~link => kernel = {} /\ ~up
    /\ link /\ ~up /\ ~cut => \E j \in Jobs : job[j].at \in Making

IInv ==
    /\ TypeOK
    /\ LinkInv
    /\ \A j \in Jobs : Relies(j)
    /\ \A j \in Posts : HoldsQueue(j)

-----------------------------------------------------------------------------
(***************************************************************************)
(* What an assignment to one request's record does.                        *)
(***************************************************************************)
OnlyJob(j) ==
    /\ job' \in [Jobs -> JobRecord]
    /\ \A k \in Jobs \ {j} : job'[k] = job[k]

SamePlan(j) ==
    /\ job'[j].before = job[j].before
    /\ job'[j].add = job[j].add
    /\ job'[j].bootstrap = job[j].bootstrap

SameRegistryRead(j) ==
    /\ job'[j].snap = job[j].snap
    /\ job'[j].intended = job[j].intended

LEMMA GotoShape ==
    ASSUME job \in [Jobs -> JobRecord], NEW j \in Jobs, NEW x \in Places,
           Goto(j, x)
    PROVE  /\ OnlyJob(j) /\ SamePlan(j) /\ SameRegistryRead(j)
           /\ job'[j].at = x
           /\ job'[j].todo = job[j].todo
           /\ job'[j].made = job[j].made
           /\ job'[j].undone = job[j].undone
<1>1. job[j] \in JobRecord
  OBVIOUS
<1>2. job' = [job EXCEPT ![j] = [job[j] EXCEPT !.at = x]]
  BY DEF Goto
<1>3. job'[j] = [job[j] EXCEPT !.at = x]
  BY <1>2
<1>4. job'[j] \in JobRecord
  BY <1>1, <1>3 DEF JobRecord
<1>5. OnlyJob(j)
  BY <1>2, <1>4 DEF OnlyJob
<1> QED
  BY <1>1, <1>3, <1>5 DEF SamePlan, SameRegistryRead, JobRecord

LEMMA TodoShape ==
    ASSUME job \in [Jobs -> JobRecord], NEW j \in Jobs, NEW p \in Peers,
           job' = [job EXCEPT ![j].todo = @ \ {p}]
    PROVE  /\ OnlyJob(j) /\ SamePlan(j) /\ SameRegistryRead(j)
           /\ job'[j].at = job[j].at
           /\ job'[j].todo = job[j].todo \ {p}
           /\ job'[j].made = job[j].made
           /\ job'[j].undone = job[j].undone
<1>1. job[j] \in JobRecord
  OBVIOUS
<1>2. job' = [job EXCEPT ![j] = [job[j] EXCEPT !.todo = job[j].todo \ {p}]]
  OBVIOUS
<1>3. job'[j] = [job[j] EXCEPT !.todo = job[j].todo \ {p}]
  BY <1>2
<1>4. job'[j] \in JobRecord
  BY <1>1, <1>3 DEF JobRecord
<1>5. OnlyJob(j)
  BY <1>2, <1>4 DEF OnlyJob
<1> QED
  BY <1>1, <1>3, <1>5 DEF SamePlan, SameRegistryRead, JobRecord

LEMMA TodoUndoneShape ==
    ASSUME job \in [Jobs -> JobRecord], NEW j \in Jobs, NEW p \in Peers,
           job' = [job EXCEPT ![j].todo = @ \ {p}, ![j].undone = FALSE]
    PROVE  /\ OnlyJob(j) /\ SamePlan(j) /\ SameRegistryRead(j)
           /\ job'[j].at = job[j].at
           /\ job'[j].todo = job[j].todo \ {p}
           /\ job'[j].made = job[j].made
           /\ job'[j].undone = FALSE
<1>1. job[j] \in JobRecord
  OBVIOUS
<1>2. job' = [job EXCEPT ![j] = [job[j] EXCEPT !.todo = job[j].todo \ {p}, !.undone = FALSE]]
  OBVIOUS
<1>3. job'[j] = [job[j] EXCEPT !.todo = job[j].todo \ {p}, !.undone = FALSE]
  BY <1>2
<1>4. job'[j] \in JobRecord
  BY <1>1, <1>3 DEF JobRecord
<1>5. OnlyJob(j)
  BY <1>2, <1>4 DEF OnlyJob
<1> QED
  BY <1>1, <1>3, <1>5 DEF SamePlan, SameRegistryRead, JobRecord

GotoTodo(j, x, S) == job' = [job EXCEPT ![j].at = x, ![j].todo = S]

LEMMA GotoTodoShape ==
    ASSUME job \in [Jobs -> JobRecord], NEW j \in Jobs, NEW x \in Places,
           NEW S \in SUBSET Peers, GotoTodo(j, x, S)
    PROVE  /\ OnlyJob(j) /\ SamePlan(j) /\ SameRegistryRead(j)
           /\ job'[j].at = x
           /\ job'[j].todo = S
           /\ job'[j].made = job[j].made
           /\ job'[j].undone = job[j].undone
<1>1. job[j] \in JobRecord
  OBVIOUS
<1>2. job' = [job EXCEPT ![j] = [job[j] EXCEPT !.at = x, !.todo = S]]
  BY DEF GotoTodo
<1>3. job'[j] = [job[j] EXCEPT !.at = x, !.todo = S]
  BY <1>2
<1>4. job'[j] \in JobRecord
  BY <1>1, <1>3 DEF JobRecord
<1>5. OnlyJob(j)
  BY <1>2, <1>4 DEF OnlyJob
<1> QED
  BY <1>1, <1>3, <1>5 DEF SamePlan, SameRegistryRead, JobRecord

LEMMA GotoUndoneShape ==
    ASSUME job \in [Jobs -> JobRecord], NEW j \in Jobs, NEW x \in Places,
           job' = [job EXCEPT ![j].at = x, ![j].undone = FALSE]
    PROVE  /\ OnlyJob(j) /\ SamePlan(j) /\ SameRegistryRead(j)
           /\ job'[j].at = x
           /\ job'[j].made = job[j].made
           /\ job'[j].undone = FALSE
<1>1. job[j] \in JobRecord
  OBVIOUS
<1>2. job' = [job EXCEPT ![j] = [job[j] EXCEPT !.at = x, !.undone = FALSE]]
  OBVIOUS
<1>3. job'[j] = [job[j] EXCEPT !.at = x, !.undone = FALSE]
  BY <1>2
<1>4. job'[j] \in JobRecord
  BY <1>1, <1>3 DEF JobRecord
<1>5. OnlyJob(j)
  BY <1>2, <1>4 DEF OnlyJob
<1> QED
  BY <1>1, <1>3, <1>5 DEF SamePlan, SameRegistryRead, JobRecord

LEMMA GotoMadeShape ==
    ASSUME job \in [Jobs -> JobRecord], NEW j \in Jobs, NEW x \in Places,
           job' = [job EXCEPT ![j].at = x, ![j].made = TRUE]
    PROVE  /\ OnlyJob(j) /\ SamePlan(j) /\ SameRegistryRead(j)
           /\ job'[j].at = x
           /\ job'[j].made = TRUE
           /\ job'[j].undone = job[j].undone
<1>1. job[j] \in JobRecord
  OBVIOUS
<1>2. job' = [job EXCEPT ![j] = [job[j] EXCEPT !.at = x, !.made = TRUE]]
  OBVIOUS
<1>3. job'[j] = [job[j] EXCEPT !.at = x, !.made = TRUE]
  BY <1>2
<1>4. job'[j] \in JobRecord
  BY <1>1, <1>3 DEF JobRecord
<1>5. OnlyJob(j)
  BY <1>2, <1>4 DEF OnlyJob
<1> QED
  BY <1>1, <1>3, <1>5 DEF SamePlan, SameRegistryRead, JobRecord

LEMMA PlanShape ==
    ASSUME job \in [Jobs -> JobRecord], NEW j \in Jobs, NEW exists \in BOOLEAN,
           NEW seen \in SUBSET Peers, Plan(j, exists, seen)
    PROVE  /\ OnlyJob(j) /\ SameRegistryRead(j)
           /\ job'[j].at \in {"bootstrap", "reconfigure", "sync"}
           /\ exists <=> job'[j].at # "bootstrap"
           /\ exists <=> ~job'[j].bootstrap
           /\ job'[j].before = seen
           /\ job'[j].add = Rendered(j) \ seen
           /\ job'[j].made = job[j].made
           /\ job'[j].undone = job[j].undone
<1> DEFINE x == CASE ~exists -> "bootstrap"
                  [] exists /\ ~port -> "reconfigure"
                  [] OTHER -> "sync"
           S == Rendered(j) \ seen
           b == ~exists
<1>1. /\ x \in {"bootstrap", "reconfigure", "sync"}
      /\ exists <=> x # "bootstrap"
  OBVIOUS
<1>2. x \in Places /\ S \subseteq Peers /\ b \in BOOLEAN
  BY <1>1 DEF Places, Locked, Rendered, JobRecord
<1>3. job' = [job EXCEPT ![j].at = x, ![j].bootstrap = b,
                         ![j].before = seen, ![j].add = S]
  BY DEF Plan
<1>4. exists <=> ~b
  OBVIOUS
<1> HIDE DEF x, S, b
<1>5. job[j] \in JobRecord
  OBVIOUS
<1>6. job'[j] = [at |-> x, snap |-> job[j].snap, intended |-> job[j].intended,
                 before |-> seen, add |-> S, todo |-> job[j].todo,
                 bootstrap |-> b, made |-> job[j].made, undone |-> job[j].undone]
  BY <1>3, <1>5 DEF JobRecord
<1>7. job'[j] \in JobRecord
  BY <1>2, <1>5, <1>6 DEF JobRecord
<1>8. OnlyJob(j)
  BY <1>3, <1>7 DEF OnlyJob
<1> QED
  BY <1>1, <1>4, <1>6, <1>8 DEF S, SameRegistryRead

LEMMA GotoSnapShape ==
    ASSUME job \in [Jobs -> JobRecord], NEW j \in Jobs, NEW x \in Places,
           NEW S \in SUBSET Peers,
           job' = [job EXCEPT ![j].at = x, ![j].snap = S]
    PROVE  /\ OnlyJob(j)
           /\ job'[j].at = x
           /\ job'[j].snap = S
<1>1. job[j] \in JobRecord
  OBVIOUS
<1>2. job' = [job EXCEPT ![j] = [job[j] EXCEPT !.at = x, !.snap = S]]
  OBVIOUS
<1>3. job'[j] = [job[j] EXCEPT !.at = x, !.snap = S]
  BY <1>2
<1>4. job'[j] \in JobRecord
  BY <1>1, <1>3 DEF JobRecord
<1>5. OnlyJob(j)
  BY <1>2, <1>4 DEF OnlyJob
<1> QED
  BY <1>1, <1>3, <1>5 DEF JobRecord

LEMMA GotoIntendedShape ==
    ASSUME job \in [Jobs -> JobRecord], NEW j \in Jobs, NEW x \in Places,
           NEW S \in SUBSET Peers,
           job' = [job EXCEPT ![j].at = x, ![j].intended = S]
    PROVE  /\ OnlyJob(j)
           /\ job'[j].at = x
           /\ job'[j].snap = job[j].snap
           /\ job'[j].intended = S
<1>1. job[j] \in JobRecord
  OBVIOUS
<1>2. job' = [job EXCEPT ![j] = [job[j] EXCEPT !.at = x, !.intended = S]]
  OBVIOUS
<1>3. job'[j] = [job[j] EXCEPT !.at = x, !.intended = S]
  BY <1>2
<1>4. job'[j] \in JobRecord
  BY <1>1, <1>3 DEF JobRecord
<1>5. OnlyJob(j)
  BY <1>2, <1>4 DEF OnlyJob
<1> QED
  BY <1>1, <1>3, <1>5 DEF JobRecord

LEMMA IdleShape ==
    ASSUME job \in [Jobs -> JobRecord], NEW j \in Jobs,
           job' = [job EXCEPT ![j] = Idle]
    PROVE  OnlyJob(j) /\ job'[j] = Idle
BY DEF OnlyJob, JobRecord, Idle, Places

-----------------------------------------------------------------------------
(***************************************************************************)
(* Steps under the apply lock.  Kept(j) is what such a step of request j   *)
(* leaves true about j itself, and what it leaves alone.                   *)
(***************************************************************************)
Kept(j) ==
    /\ TypeOK'
    /\ LinkInv'
    /\ Relies(j)'
    /\ OnlyJob(j)
    /\ SameRegistryRead(j)
    /\ job'[j].at \notin {"idle", "sweep", "load"}
    /\ UNCHANGED <<status, expired, writer>>

LEMMA FaultType ==
    ASSUME faults \in 0..MaxFaults, Fault
    PROVE  faults' \in 0..MaxFaults
BY ReconcileAssumption DEF Fault

LEMMA HolderType ==
    ASSUME TypeOK, NEW j \in Jobs
    PROVE  /\ job \in [Jobs -> JobRecord]
           /\ Rendered(j) \subseteq Peers
           /\ Rendered(j) \subseteq job[j].snap
           /\ Stray(j) \subseteq Peers
           /\ job[j].add \subseteq Peers
           /\ job[j].todo \subseteq Peers
           /\ job[j].before \subseteq Peers
           /\ Locked \subseteq Places
BY DEF TypeOK, JobRecord, Rendered, Stray, Places

\* A step that leaves the interface alone, or leaves it up, or marks it cut,
\* keeps LinkInv.
LEMMA LinkStays ==
    ASSUME LinkInv, NEW j \in Jobs, OnlyJob(j), UNCHANGED interface,
           job[j].at \notin Making, ~link => kernel' = {}
    PROVE  LinkInv'
<1>1. link' = link /\ up' = up /\ cut' = cut
  BY DEF interface
<1>2. \A k \in Jobs : job[k].at \in Making => job'[k] = job[k]
  BY DEF OnlyJob
<1> QED
  BY <1>1, <1>2 DEF LinkInv

\* So does a step that leaves the requests alone as well.
LEMMA LinkKept ==
    ASSUME LinkInv, UNCHANGED <<interface, kernel, job>>
    PROVE  LinkInv'
BY DEF LinkInv, interface

LEMMA InspectStep ==
    ASSUME IInv, NEW j \in Jobs, Inspect(j)
    PROVE  Kept(j)
<1>1. PICK exists \in BOOLEAN, seen \in SUBSET Peers :
        /\ Plan(j, exists, seen)
        /\ exists => link /\ seen = kernel
        /\ ~exists => seen = {}
  <2>1. link \in BOOLEAN /\ kernel \in SUBSET Peers
    BY DEF IInv, TypeOK
  <2>2. CASE Plan(j, link, kernel)
    <3>1. link => link /\ kernel = kernel
      OBVIOUS
    <3>2. ~link => kernel = {}
      BY DEF IInv, LinkInv
    <3> QED
      BY <2>1, <2>2, <3>1, <3>2
  <2>3. CASE Plan(j, FALSE, {})
    BY <2>3
  <2> QED
    BY <2>2, <2>3 DEF Inspect
<1>2. TypeOK'
  <2>1. faults' \in 0..MaxFaults
    BY FaultType DEF Inspect, IInv, TypeOK
  <2> QED
    BY <1>1, <2>1, PlanShape
       DEF Inspect, IInv, TypeOK, OnlyJob, registry, host, interface
<1>3. Rendered(j)' = Rendered(j)
  BY <1>1, PlanShape DEF Inspect, IInv, TypeOK, Rendered, SameRegistryRead, registry
<1>4. Relies(j)'
  <2>1. /\ job[j].at = "inspect" /\ Relies(j) /\ LinkInv /\ lock = j
        /\ \A k \in Jobs : job[k].at \in Making => k = j
        /\ UNCHANGED <<link, up, cut, kernel, lock>>
    BY ReconcileAssumption
       DEF Inspect, At, IInv, Relies, Locked, Making, host, interface
  <2>2. link => up \/ cut
    BY <2>1 DEF LinkInv, Making
  <2> QED
    BY <1>1, <1>3, <2>1, <2>2, PlanShape
       DEF IInv, TypeOK, Relies, SameRegistryRead, Locked, Planned, Making
<1>5. /\ OnlyJob(j) /\ SameRegistryRead(j)
      /\ job'[j].at \in {"bootstrap", "reconfigure", "sync"}
  BY <1>1, PlanShape DEF IInv, TypeOK
<1>6. LinkInv'
  BY <1>5, LinkStays DEF Inspect, At, IInv, LinkInv, Making, host
<1> QED
  BY <1>2, <1>4, <1>5, <1>6 DEF Kept, Inspect, registry

LEMMA BootstrapStep ==
    ASSUME IInv, NEW j \in Jobs, Bootstrap(j)
    PROVE  Kept(j)
<1>1. /\ job \in [Jobs -> JobRecord] /\ faults' \in 0..MaxFaults
      /\ {"configure", "thrown"} \subseteq Places
      /\ Rendered(j)' = job'[j].snap \ expired
  BY FaultType DEF Bootstrap, IInv, TypeOK, Places, Locked, Rendered, registry
<1>2. CASE /\ ~link
           /\ link' = TRUE /\ kernel' = {} /\ port' = FALSE
           /\ job' = [job EXCEPT ![j].at = "configure", ![j].made = TRUE]
           /\ UNCHANGED <<up, cut>>
  <2>1. /\ OnlyJob(j) /\ SamePlan(j) /\ SameRegistryRead(j)
        /\ job'[j].at = "configure" /\ job'[j].made
    BY <1>1, <1>2, GotoMadeShape
  <2>2. TypeOK'
    BY <1>1, <1>2, <2>1 DEF Bootstrap, IInv, TypeOK, OnlyJob, registry
  <2>3. Relies(j)'
    BY <1>1, <1>2, <2>1
       DEF Bootstrap, At, IInv, LinkInv, Relies, SamePlan, SameRegistryRead,
           Rendered, Locked, Making, Planned
  <2>4. LinkInv'
    BY <1>2, <2>1 DEF LinkInv, Making
  <2> QED
    BY <2>1, <2>2, <2>3, <2>4 DEF Kept, Bootstrap, registry
<1>3. CASE Goto(j, "thrown") /\ UNCHANGED host
  <2>1. OnlyJob(j) /\ SameRegistryRead(j) /\ job'[j].at = "thrown"
    BY <1>1, <1>3, GotoShape
  <2>2. TypeOK'
    BY <1>1, <1>3, <2>1 DEF Bootstrap, IInv, TypeOK, OnlyJob, registry, host, interface
  <2>3. Relies(j)'
    BY <1>1, <1>3, <2>1
       DEF Bootstrap, At, IInv, Relies, SameRegistryRead, Rendered, Locked,
           Making, Planned
  <2>4. LinkInv'
    BY <1>3, <2>1, LinkStays DEF Bootstrap, At, IInv, LinkInv, Making, host
  <2> QED
    BY <1>3, <2>1, <2>2, <2>3, <2>4 DEF Kept, Bootstrap, registry
<1> QED
  BY <1>2, <1>3 DEF Bootstrap

\* The steps that complete a new interface.
LEMMA MakingStep ==
    ASSUME IInv, NEW j \in Jobs, Configure(j) \/ Raise(j)
    PROVE  Kept(j)
<1>1. PICK x \in {"raise", "sync", "thrown"} :
        /\ Goto(j, x)
        /\ x = "raise" => UNCHANGED interface
        /\ x = "sync" => up' /\ UNCHANGED <<link, cut>>
        /\ x = "thrown" => link' \in BOOLEAN /\ cut' = link' /\ up' = up
        /\ port' \in BOOLEAN /\ up' \in BOOLEAN /\ kernel' = kernel
        /\ faults' \in 0..MaxFaults
  BY FaultType DEF Configure, Raise, GiveUpMaking, IInv, TypeOK, interface
<1>2. /\ OnlyJob(j) /\ SamePlan(j) /\ SameRegistryRead(j)
      /\ job'[j].at = x /\ job'[j].made = job[j].made
  BY <1>1, GotoShape DEF IInv, TypeOK, Places, Locked
<1>3. /\ job[j].at \in Making /\ kernel = {} /\ link /\ ~up /\ job[j].made
      /\ Rendered(j) \subseteq job[j].before \cup job[j].add
      /\ Rendered(j) \subseteq job[j].intended /\ job[j].intended \subseteq job[j].snap
      /\ lock = j
      /\ UNCHANGED <<registry, writer, lock, crashes>>
  BY DEF Configure, Raise, At, IInv, Relies, Making, Locked
<1>4. TypeOK'
  <2>1. link' \in BOOLEAN /\ cut' \in BOOLEAN
    BY <1>1 DEF IInv, TypeOK, interface
  <2> QED
    BY <1>1, <1>2, <1>3, <2>1 DEF IInv, TypeOK, OnlyJob, registry
<1>5. Rendered(j)' = Rendered(j)
  BY <1>2, <1>3 DEF Rendered, SameRegistryRead, registry
<1>6. Relies(j)'
  <2>1. CASE x = "raise"
    BY <1>1, <1>2, <1>3, <1>5, <2>1
       DEF Relies, SamePlan, SameRegistryRead, Locked, Making, Planned, interface
  <2>2. CASE x = "sync"
    BY <1>1, <1>2, <1>3, <1>5, <2>2
       DEF Relies, SamePlan, SameRegistryRead, Locked, Making, Planned
  <2>3. CASE x = "thrown"
    BY <1>1, <1>2, <1>3, <1>5, <2>3
       DEF Relies, SamePlan, SameRegistryRead, Locked, Making, Planned
  <2> QED
    BY <2>1, <2>2, <2>3
<1>7. LinkInv'
  <2>1. CASE x = "raise"
    BY <1>1, <1>2, <1>3, <2>1 DEF LinkInv, Making, interface
  <2>2. CASE x = "sync"
    BY <1>1, <1>3, <2>2 DEF LinkInv
  <2>3. CASE x = "thrown"
    BY <1>1, <1>3, <2>3 DEF LinkInv
  <2> QED
    BY <2>1, <2>2, <2>3
<1> QED
  BY <1>2, <1>3, <1>4, <1>6, <1>7 DEF Kept, registry

LEMMA ReconfigureStep ==
    ASSUME IInv, NEW j \in Jobs, Reconfigure(j)
    PROVE  Kept(j)
<1>1. PICK x \in {"sync", "thrown"} :
        /\ Goto(j, x)
        /\ x = "sync" => kernel' \in Synced(j)
        /\ x = "thrown" => kernel' \in SUBSET (kernel \cup Rendered(j))
        /\ UNCHANGED interface /\ port' \in BOOLEAN
        /\ faults' \in 0..MaxFaults
  BY FaultType DEF Reconfigure, SyncPartly, IInv, TypeOK
<1>2. /\ OnlyJob(j) /\ SamePlan(j) /\ SameRegistryRead(j)
      /\ job'[j].at = x /\ job'[j].made = job[j].made
  BY <1>1, GotoShape DEF IInv, TypeOK, Places, Locked
<1>3. TypeOK'
  BY <1>1, <1>2, HolderType DEF Reconfigure, Synced, Rendered, JobRecord, IInv, TypeOK, OnlyJob, registry,
         interface
<1>4. Rendered(j)' = Rendered(j)
  BY <1>2 DEF Reconfigure, Rendered, SameRegistryRead, registry
<1>5. Relies(j)'
  BY <1>1, <1>2, <1>4
     DEF Reconfigure, At, IInv, Relies, SamePlan, SameRegistryRead,
         Synced, Locked, Making, Planned, registry, interface
<1>6. link
  BY DEF Reconfigure, At, IInv, Relies, Planned
<1>7. LinkInv'
  BY <1>1, <1>2, <1>6, LinkStays DEF Reconfigure, At, IInv, Making
<1> QED
  BY <1>2, <1>1, <1>3, <1>5, <1>7 DEF Kept, Reconfigure, registry

LEMMA SyncStep ==
    ASSUME IInv, NEW j \in Jobs, Sync(j)
    PROVE  Kept(j)
<1>1. /\ job \in [Jobs -> JobRecord]
      /\ "verify" \in Places /\ "remove" \in Places
      /\ "rollback" \in Places /\ "thrown" \in Places
      /\ Rendered(j) \subseteq Peers
      /\ Stray(j) \in SUBSET Peers /\ job[j].add \in SUBSET Peers
  BY HolderType DEF IInv, Places, Locked
<1>2. /\ link /\ (up \/ cut) /\ At(j, "sync") /\ lock = j
      /\ (job[j].bootstrap => job[j].made)
      /\ Rendered(j) \subseteq job[j].intended /\ job[j].intended \subseteq job[j].snap
      /\ Rendered(j) \subseteq job[j].before \cup job[j].add
      /\ kernel \subseteq job[j].before \cup (job[j].intended \cap job[j].add)
  BY DEF Sync, At, IInv, Relies, Locked, Planned
<1>9. OnlyJob(j) /\ UNCHANGED interface => LinkInv'
  BY <1>2, LinkStays DEF At, Making, IInv
<1>3. CASE /\ job[j].intended = {} /\ Stray(j) = {}
           /\ Goto(j, "verify") /\ UNCHANGED <<host, faults>>
  <2>1. /\ OnlyJob(j) /\ SamePlan(j) /\ SameRegistryRead(j)
        /\ job'[j].at = "verify" /\ job'[j].made = job[j].made
    BY <1>1, <1>3, GotoShape
  <2>2. TypeOK'
    BY <1>3, <2>1 DEF Sync, IInv, TypeOK, OnlyJob, registry, host, interface
  <2>3. kernel = {} /\ Rendered(j) = {}
    BY <1>2, <1>3 DEF Stray
  <2>4. Rendered(j)' = {}
    BY <2>1, <2>3 DEF Sync, Rendered, SameRegistryRead, registry
  <2>5. Relies(j)'
    BY <1>2, <1>3, <2>1, <2>3, <2>4
       DEF Sync, Relies, SamePlan, SameRegistryRead, Locked, Planned,
           Making, host, interface
  <2> QED
    BY <1>2, <1>9, <1>3, <2>1, <2>2, <2>5 DEF Kept, Sync, registry, host
<1>4. CASE /\ kernel' \in Synced(j)
           /\ port' = TRUE
           /\ job' = [job EXCEPT ![j].at = "remove", ![j].todo = Stray(j)]
           /\ UNCHANGED <<interface, faults>>
  <2>1. /\ OnlyJob(j) /\ SamePlan(j) /\ SameRegistryRead(j)
        /\ job'[j].at = "remove" /\ job'[j].made = job[j].made
        /\ job'[j].todo = Stray(j)
    <3>1. GotoTodo(j, "remove", Stray(j))
      BY <1>4 DEF GotoTodo
    <3> QED
      BY <1>1, <3>1, GotoTodoShape
  <2>2. TypeOK'
    BY <1>1, <1>4, <2>1 DEF Sync, Synced, IInv, TypeOK, OnlyJob, registry, interface
  <2>3. Rendered(j)' = Rendered(j)
    BY <2>1 DEF Sync, Rendered, SameRegistryRead, registry
  <2>4. Relies(j)'
    BY <1>2, <1>4, <2>1, <2>3
       DEF Sync, Synced, Relies, SamePlan, SameRegistryRead, Stray, Locked, Planned,
           Making, host, interface
  <2> QED
    BY <1>2, <1>9, <1>4, <2>1, <2>2, <2>4 DEF Kept, Sync, registry, host
<1>5. ASSUME SyncPartly(j),
             job' = [job EXCEPT ![j].at = "rollback", ![j].todo = job[j].add]
      PROVE  Kept(j)
  <2>5. /\ faults' \in 0..MaxFaults /\ UNCHANGED interface
        /\ kernel' \subseteq kernel \cup Rendered(j)
        /\ port' \in BOOLEAN
    BY <1>5, FaultType DEF SyncPartly, IInv, TypeOK
  <2>1. /\ OnlyJob(j) /\ SamePlan(j) /\ SameRegistryRead(j)
        /\ job'[j].at = "rollback" /\ job'[j].made = job[j].made
        /\ job'[j].todo = job[j].add
    <3>1. GotoTodo(j, "rollback", job[j].add)
      BY <1>5 DEF GotoTodo
    <3> QED
      BY <1>1, <3>1, GotoTodoShape
  <2>2. TypeOK'
    BY <1>1, <2>1, <2>5 DEF Sync, IInv, TypeOK, OnlyJob, registry, interface
  <2>3. Rendered(j)' = Rendered(j)
    BY <2>1 DEF Sync, Rendered, SameRegistryRead, registry
  <2>4. Relies(j)'
    BY <1>2, <2>1, <2>3, <2>5
       DEF Sync, Relies, SamePlan, SameRegistryRead, Locked, Planned,
           Making, host, interface
  <2> QED
    BY <1>2, <1>9, <2>1, <2>2, <2>4, <2>5 DEF Kept, Sync, registry, host
<1>6. CASE Fault /\ Goto(j, "thrown") /\ UNCHANGED host
  <2>1. OnlyJob(j) /\ SameRegistryRead(j) /\ job'[j].at = "thrown"
    BY <1>1, <1>6, GotoShape
  <2>2. TypeOK'
    BY <1>6, <2>1, FaultType DEF Sync, IInv, TypeOK, OnlyJob, registry, host, interface
  <2>3. Relies(j)'
    BY <1>2, <1>6, <2>1
       DEF Sync, Relies, SameRegistryRead, Rendered, Locked, Making, Planned, registry
  <2> QED
    BY <1>6, <1>9, <2>1, <2>2, <2>3 DEF Kept, Sync, registry, host
<1> QED
  BY <1>3, <1>4, <1>5, <1>6 DEF Sync

LEMMA RemoveStep ==
    ASSUME IInv, NEW j \in Jobs, Remove(j)
    PROVE  Kept(j)
<1>1. /\ job \in [Jobs -> JobRecord]
      /\ {"verify", "rollback"} \subseteq Places /\ "rollback" \in Places
      /\ job[j].todo \subseteq Peers /\ job[j].add \in SUBSET Peers
  BY HolderType DEF IInv, Places, Locked
<1>2. /\ link /\ (up \/ cut) /\ At(j, "remove") /\ lock = j
      /\ (job[j].bootstrap => job[j].made)
      /\ Rendered(j) \subseteq job[j].intended /\ job[j].intended \subseteq job[j].snap
      /\ Rendered(j) \subseteq job[j].before \cup job[j].add
      /\ Rendered(j) \subseteq kernel
      /\ kernel \subseteq job[j].intended \cup job[j].todo
      /\ kernel \subseteq job[j].before \cup job[j].add
      /\ job[j].todo \cap job[j].intended = {}
  BY DEF Remove, At, IInv, Relies, Locked, Planned
<1>9. OnlyJob(j) /\ UNCHANGED interface => LinkInv'
  BY <1>2, LinkStays DEF At, Making, IInv
<1>3. CASE /\ job[j].todo = {}
           /\ Goto(j, "verify") /\ UNCHANGED <<host, faults>>
  <2>1. /\ OnlyJob(j) /\ SamePlan(j) /\ SameRegistryRead(j)
        /\ job'[j].at = "verify" /\ job'[j].made = job[j].made
    BY <1>1, <1>3, GotoShape
  <2>2. TypeOK'
    BY <1>3, <2>1 DEF Remove, IInv, TypeOK, OnlyJob, registry, host, interface
  <2>3. Rendered(j)' = Rendered(j)
    BY <2>1 DEF Remove, Rendered, SameRegistryRead, registry
  <2>4. Relies(j)'
    BY <1>2, <1>3, <2>1, <2>3
       DEF Remove, Relies, SamePlan, SameRegistryRead, Locked, Planned,
           Making, host, interface
  <2> QED
    BY <1>2, <1>9, <1>3, <2>1, <2>2, <2>4 DEF Kept, Remove, registry, host
<1>4. ASSUME NEW p \in job[j].todo,
             kernel' = kernel \ {p},
             job' = [job EXCEPT ![j].todo = @ \ {p}],
             UNCHANGED <<interface, port, faults>>
      PROVE  Kept(j)
  <2>1. /\ OnlyJob(j) /\ SamePlan(j) /\ SameRegistryRead(j)
        /\ job'[j].at = "remove" /\ job'[j].made = job[j].made
        /\ job'[j].todo = job[j].todo \ {p}
    BY <1>1, <1>2, <1>4, TodoShape DEF At
  <2>2. TypeOK'
    BY <1>1, <1>4, <2>1 DEF Remove, IInv, TypeOK, OnlyJob, registry, interface
  <2>3. Rendered(j)' = Rendered(j)
    BY <2>1 DEF Remove, Rendered, SameRegistryRead, registry
  <2>4. Relies(j)'
    BY <1>2, <1>4, <2>1, <2>3
       DEF Remove, Relies, SamePlan, SameRegistryRead, Locked, Planned,
           Making, host, interface
  <2> QED
    BY <1>2, <1>9, <1>4, <2>1, <2>2, <2>4 DEF Kept, Remove, registry, host
<1>5. CASE /\ Fault
           /\ job' = [job EXCEPT ![j].at = "rollback", ![j].todo = job[j].add]
           /\ UNCHANGED host
  <2>1. /\ OnlyJob(j) /\ SamePlan(j) /\ SameRegistryRead(j)
        /\ job'[j].at = "rollback" /\ job'[j].made = job[j].made
        /\ job'[j].todo = job[j].add
    <3>1. GotoTodo(j, "rollback", job[j].add)
      BY <1>5 DEF GotoTodo
    <3> QED
      BY <1>1, <3>1, GotoTodoShape
  <2>2. TypeOK'
    BY <1>5, <2>1, FaultType DEF Remove, IInv, TypeOK, OnlyJob, registry, host, interface
  <2>3. Rendered(j)' = Rendered(j)
    BY <2>1 DEF Remove, Rendered, SameRegistryRead, registry
  <2>4. Relies(j)'
    BY <1>2, <1>5, <2>1, <2>3
       DEF Remove, Relies, SamePlan, SameRegistryRead, Locked, Planned,
           Making, host, interface
  <2> QED
    BY <1>2, <1>9, <1>5, <2>1, <2>2, <2>4 DEF Kept, Remove, registry, host
<1> QED
  BY <1>3, <1>4, <1>5 DEF Remove

LEMMA VerifyStep ==
    ASSUME IInv, NEW j \in Jobs, Verify(j)
    PROVE  Kept(j)
<1>1. /\ job \in [Jobs -> JobRecord]
      /\ "ok" \in Places /\ "rollback" \in Places /\ "failed" \in Places
      /\ job[j].add \in SUBSET Peers
  BY HolderType DEF IInv, Places, Locked
<1>2. /\ link /\ (up \/ cut) /\ At(j, "verify") /\ lock = j
      /\ (job[j].bootstrap => job[j].made)
      /\ Rendered(j) \subseteq job[j].intended /\ job[j].intended \subseteq job[j].snap
      /\ Rendered(j) \subseteq job[j].before \cup job[j].add
      /\ Rendered(j) \subseteq kernel
      /\ kernel \subseteq job[j].intended
      /\ kernel \subseteq job[j].before \cup job[j].add
  BY DEF Verify, At, IInv, Relies, Locked, Planned
<1>9. OnlyJob(j) /\ UNCHANGED interface => LinkInv'
  BY <1>2, LinkStays DEF At, Making, IInv
<1>3. CASE Goto(j, "ok") /\ UNCHANGED faults
  <2>1. /\ OnlyJob(j) /\ SamePlan(j) /\ SameRegistryRead(j)
        /\ job'[j].at = "ok" /\ job'[j].made = job[j].made
    BY <1>1, <1>3, GotoShape
  <2>2. TypeOK'
    BY <1>3, <2>1 DEF Verify, IInv, TypeOK, OnlyJob, registry, host, interface
  <2>3. Rendered(j)' = Rendered(j)
    BY <2>1 DEF Verify, Rendered, SameRegistryRead, registry
  <2>4. Relies(j)'
    BY <1>2, <1>3, <2>1, <2>3
       DEF Verify, Relies, SamePlan, SameRegistryRead, Locked, Planned,
           Making, host, interface
  <2> QED
    BY <1>2, <1>9, <2>1, <2>2, <2>4 DEF Kept, Verify, registry, host
<1>4. CASE /\ job' = [job EXCEPT ![j].at = "rollback", ![j].todo = job[j].add]
           /\ UNCHANGED faults
  <2>1. /\ OnlyJob(j) /\ SamePlan(j) /\ SameRegistryRead(j)
        /\ job'[j].at = "rollback" /\ job'[j].made = job[j].made
        /\ job'[j].todo = job[j].add
    <3>1. GotoTodo(j, "rollback", job[j].add)
      BY <1>4 DEF GotoTodo
    <3> QED
      BY <1>1, <3>1, GotoTodoShape
  <2>2. TypeOK'
    BY <1>4, <2>1 DEF Verify, IInv, TypeOK, OnlyJob, registry, host, interface
  <2>3. Rendered(j)' = Rendered(j)
    BY <2>1 DEF Verify, Rendered, SameRegistryRead, registry
  <2>4. Relies(j)'
    BY <1>2, <1>4, <2>1, <2>3
       DEF Verify, Relies, SamePlan, SameRegistryRead, Locked, Planned,
           Making, host, interface
  <2> QED
    BY <1>2, <1>9, <2>1, <2>2, <2>4 DEF Kept, Verify, registry, host
<1>5. CASE /\ Fault
           /\ job' = [job EXCEPT ![j].at = "failed", ![j].undone = FALSE]
  <2>1. /\ OnlyJob(j) /\ SamePlan(j) /\ SameRegistryRead(j)
        /\ job'[j].at = "failed" /\ job'[j].undone = FALSE
    BY <1>1, <1>5, GotoUndoneShape
  <2>2. TypeOK'
    BY <1>5, <2>1, FaultType DEF Verify, IInv, TypeOK, OnlyJob, registry, host, interface
  <2>3. Rendered(j)' = Rendered(j)
    BY <2>1 DEF Verify, Rendered, SameRegistryRead, registry
  <2>4. Relies(j)'
    BY <1>2, <1>5, <2>1, <2>3
       DEF Verify, Relies, SamePlan, SameRegistryRead, Locked, Planned,
           Making, host, interface
  <2> QED
    BY <1>2, <1>9, <2>1, <2>2, <2>4 DEF Kept, Verify, registry, host
<1> QED
  BY <1>3, <1>4, <1>5 DEF Verify

LEMMA RollbackStep ==
    ASSUME IInv, NEW j \in Jobs, Rollback(j)
    PROVE  Kept(j)
<1>1. /\ job \in [Jobs -> JobRecord]
      /\ "failed" \in Places
      /\ job[j].todo \subseteq Peers
  BY HolderType DEF IInv, Places, Locked
<1>2. /\ link /\ (up \/ cut) /\ At(j, "rollback") /\ lock = j
      /\ (job[j].bootstrap => job[j].made)
      /\ Rendered(j) \subseteq job[j].intended /\ job[j].intended \subseteq job[j].snap
      /\ Rendered(j) \subseteq job[j].before \cup job[j].add
      /\ job[j].undone => kernel \subseteq job[j].before \cup job[j].todo
  BY DEF Rollback, At, IInv, Relies, Locked, Planned
<1>9. OnlyJob(j) /\ UNCHANGED interface => LinkInv'
  BY <1>2, LinkStays DEF At, Making, IInv
<1>3. ASSUME NEW p \in job[j].todo,
             kernel' = kernel \ {p},
             job' = [job EXCEPT ![j].todo = @ \ {p}],
             UNCHANGED <<interface, port, faults>>
      PROVE  Kept(j)
  <2>1. /\ OnlyJob(j) /\ SamePlan(j) /\ SameRegistryRead(j)
        /\ job'[j].at = "rollback" /\ job'[j].made = job[j].made
        /\ job'[j].todo = job[j].todo \ {p}
        /\ job'[j].undone = job[j].undone
    BY <1>1, <1>2, <1>3, TodoShape DEF At
  <2>2. TypeOK'
    BY <1>1, <1>3, <2>1 DEF Rollback, IInv, TypeOK, OnlyJob, registry, interface
  <2>3. Rendered(j)' = Rendered(j)
    BY <2>1 DEF Rollback, Rendered, SameRegistryRead, registry
  <2>4. Relies(j)'
    BY <1>2, <1>3, <2>1, <2>3
       DEF Rollback, Relies, SamePlan, SameRegistryRead, Locked, Planned,
           Making, host, interface
  <2> QED
    BY <1>2, <1>9, <1>3, <2>1, <2>2, <2>4 DEF Kept, Rollback, registry, host
<1>4. ASSUME NEW p \in job[j].todo, Fault,
             job' = [job EXCEPT ![j].todo = @ \ {p}, ![j].undone = FALSE],
             UNCHANGED host
      PROVE  Kept(j)
  <2>1. /\ OnlyJob(j) /\ SamePlan(j) /\ SameRegistryRead(j)
        /\ job'[j].at = "rollback" /\ job'[j].made = job[j].made
        /\ job'[j].undone = FALSE
    BY <1>1, <1>2, <1>4, TodoUndoneShape DEF At
  <2>2. TypeOK'
    BY <1>1, <1>4, <2>1, FaultType DEF Rollback, IInv, TypeOK, OnlyJob, registry, host, interface
  <2>3. Rendered(j)' = Rendered(j)
    BY <2>1 DEF Rollback, Rendered, SameRegistryRead, registry
  <2>4. Relies(j)'
    BY <1>2, <1>4, <2>1, <2>3
       DEF Rollback, Relies, SamePlan, SameRegistryRead, Locked, Planned,
           Making, host, interface
  <2> QED
    BY <1>2, <1>9, <1>4, <2>1, <2>2, <2>4 DEF Kept, Rollback, registry, host
<1>5. ASSUME job[j].todo = {}, Goto(j, "failed"),
             \/ /\ link' = FALSE /\ up' = FALSE /\ cut' = FALSE
                /\ kernel' = {} /\ port' = port
             \/ UNCHANGED host,
             faults' \in 0..MaxFaults
      PROVE  Kept(j)
  <2>1. /\ OnlyJob(j) /\ SamePlan(j) /\ SameRegistryRead(j)
        /\ job'[j].at = "failed" /\ job'[j].undone = job[j].undone
    BY <1>1, <1>5, GotoShape
  <2>2. TypeOK'
    BY <1>5, <2>1 DEF Rollback, IInv, TypeOK, OnlyJob, registry, host, interface
  <2>3. Rendered(j)' = Rendered(j)
    BY <2>1 DEF Rollback, Rendered, SameRegistryRead, registry
  <2>4. Relies(j)'
    BY <1>2, <1>5, <2>1, <2>3
       DEF Rollback, Relies, SamePlan, SameRegistryRead, Locked, Planned,
           Making, host, interface
  <2>5. LinkInv'
    BY <1>5, <1>9, <2>1 DEF LinkInv, host
  <2> QED
    BY <2>1, <2>2, <2>4, <2>5 DEF Kept, Rollback, registry
<1>6. faults \in 0..MaxFaults
  BY DEF IInv, TypeOK
<1> QED
  BY <1>3, <1>4, <1>5, <1>6, FaultType DEF Rollback, host, interface

LEMMA ReleaseLockStep ==
    ASSUME IInv, NEW j \in Jobs, ReleaseLock(j)
    PROVE  Kept(j) /\ lock = j
<1>1. /\ OnlyJob(j) /\ SameRegistryRead(j) /\ job'[j].at = "end"
  BY GotoShape DEF ReleaseLock, IInv, TypeOK, Places
<1>2. lock' \in {None, Stale} /\ faults' \in 0..MaxFaults
  BY FaultType DEF ReleaseLock, IInv, TypeOK
<1>3. TypeOK'
  BY <1>1, <1>2 DEF ReleaseLock, IInv, TypeOK, OnlyJob, registry, host, interface
<1>4. Relies(j)'
  BY <1>1 DEF ReleaseLock, Relies, Locked, Making, Planned
<1>5. LinkInv'
  BY <1>1, LinkStays DEF ReleaseLock, IInv, LinkInv, Making, host
<1> QED
  BY <1>1, <1>3, <1>4, <1>5 DEF Kept, ReleaseLock, IInv, Relies, Locked, registry

-----------------------------------------------------------------------------
(***************************************************************************)
(* The invariant over all requests.                                        *)
(***************************************************************************)

\* A request that does not hold the lock disturbs nobody who does.
LEMMA OthersRely ==
    ASSUME IInv, NEW j \in Jobs, OnlyJob(j), UNCHANGED expired,
           lock \in Jobs \ {j} => lock' = lock /\ UNCHANGED host
    PROVE  \A k \in Jobs \ {j} : Relies(k)'
<1> SUFFICES ASSUME NEW k \in Jobs \ {j}
             PROVE  Relies(k)'
  OBVIOUS
<1>1. job'[k] = job[k] /\ Rendered(k)' = Rendered(k) /\ Relies(k)
  BY DEF OnlyJob, Rendered, IInv
<1>2. CASE job[k].at \in Locked
  <2>1. lock' = lock /\ UNCHANGED host
    BY <1>1, <1>2 DEF Relies
  <2> QED
    BY <1>1, <2>1 DEF Relies, host, interface
<1>3. CASE job[k].at \notin Locked
  BY <1>1, <1>3 DEF Relies, Locked, Making, Planned
<1> QED
  BY <1>2, <1>3

LEMMA ApplyStep ==
    ASSUME IInv, NEW j \in Jobs, Apply(j)
    PROVE  Kept(j) /\ job[j].at \in Locked /\ lock = j
<1>1. Kept(j)
  BY InspectStep, BootstrapStep, MakingStep, ReconfigureStep, SyncStep,
     RemoveStep, VerifyStep, RollbackStep, ReleaseLockStep
     DEF Apply, TimedApply
<1>2. job[j].at \in Locked
  BY DEF Apply, TimedApply, Inspect, Bootstrap, Configure, Raise, Reconfigure, Sync, Remove,
         Verify, Rollback, ReleaseLock, At, Locked
<1> QED
  BY <1>1, <1>2 DEF IInv, Relies

LEMMA ApplyKeepsIInv ==
    ASSUME IInv, NEW j \in Jobs, Apply(j)
    PROVE  IInv'
<1>1. Kept(j) /\ job[j].at \in Locked /\ lock = j
  BY ApplyStep
<1>2. \A k \in Jobs \ {j} : Relies(k)'
  BY <1>1, OthersRely DEF Kept
<1>3. \A k \in Posts : HoldsQueue(k)'
  <2> SUFFICES ASSUME NEW k \in Posts
               PROVE  HoldsQueue(k)'
    OBVIOUS
  <2>1. k \in Jobs /\ HoldsQueue(k) /\ Active' = Active
    BY <1>1 DEF IInv, Jobs, Kept, Active
  <2>2. CASE k = j
    BY <1>1, <2>1, <2>2 DEF HoldsQueue, Kept, SameRegistryRead, Locked
  <2>3. CASE k # j
    BY <1>1, <2>1, <2>3 DEF HoldsQueue, Kept, OnlyJob
  <2> QED
    BY <2>2, <2>3
<1> QED
  BY <1>1, <1>2, <1>3 DEF IInv, Kept

\* Steps of one request outside the lock leave the host alone.
LEMMA OutsideStep ==
    ASSUME IInv, NEW j \in Jobs,
           \/ LoadRegistry(j) /\ j \in Statuses
           \/ Intend(j) \/ AcquireLock(j) \/ LockTimeout(j)
    PROVE  IInv'
<1>1. PICK x \in {"intend", "lock", "inspect", "end"} :
        /\ OnlyJob(j)
        /\ job'[j].at = x
        /\ x \in {"lock", "inspect"} =>
              /\ Rendered(j)' \subseteq job'[j].intended
              /\ job'[j].intended \subseteq job'[j].snap
        /\ x = "inspect" => lock' = j
        /\ x \in {"lock", "inspect"} => job'[j].snap = job[j].snap
        /\ x = "intend" => j \in Statuses
        /\ job[j].at \in {"load", "intend", "lock"}
        /\ job[j].at = "load" => j \in Statuses
  <2>1. /\ job \in [Jobs -> JobRecord]
        /\ "intend" \in Places /\ "lock" \in Places
        /\ "inspect" \in Places /\ "end" \in Places
        /\ Active \in SUBSET Peers /\ Rendered(j) \in SUBSET Peers
    BY HolderType DEF IInv, TypeOK, Places, Locked, Active
  <2>2. CASE LoadRegistry(j) /\ j \in Statuses
    BY <2>1, <2>2, GotoSnapShape DEF LoadRegistry, At
  <2>3. CASE Intend(j)
    <3>1. CASE job' = [job EXCEPT ![j].at = "lock", ![j].intended = Rendered(j)]
      <4>1. /\ OnlyJob(j) /\ job'[j].at = "lock"
            /\ job'[j].snap = job[j].snap
            /\ job'[j].intended = Rendered(j)
        BY <2>1, <3>1, GotoIntendedShape
      <4>2. Rendered(j)' = Rendered(j)
        BY <2>3, <4>1 DEF Intend, Rendered, registry
      <4> QED
        BY <2>3, <4>1, <4>2 DEF Intend, At, Rendered
    <3>2. CASE Goto(j, "end")
      BY <2>1, <2>3, <3>2, GotoShape DEF Intend, At
    <3> QED
      BY <2>3, <3>1, <3>2 DEF Intend
  <2>4. CASE AcquireLock(j)
    <3>1. OnlyJob(j) /\ SameRegistryRead(j) /\ job'[j].at = "inspect"
      BY <2>1, <2>4, GotoShape DEF AcquireLock
    <3>2. Rendered(j)' = Rendered(j)
      BY <2>4, <3>1 DEF AcquireLock, Rendered, SameRegistryRead, registry
    <3>3. Rendered(j) \subseteq job[j].intended /\ job[j].intended \subseteq job[j].snap
      BY <2>4 DEF AcquireLock, At, IInv, Relies
    <3> QED
      BY <2>4, <3>1, <3>2, <3>3 DEF AcquireLock, At, SameRegistryRead
  <2>5. CASE LockTimeout(j)
    BY <2>1, <2>5, GotoShape DEF LockTimeout, At
  <2> QED
    BY <2>2, <2>3, <2>4, <2>5
<1>2. /\ UNCHANGED <<status, expired, writer, host, crashes>>
      /\ faults' \in 0..MaxFaults
      /\ lock' = lock \/ (lock = None /\ lock' = j)
  BY FaultType DEF LoadRegistry, Intend, AcquireLock, LockTimeout, registry, IInv, TypeOK
<1>3. TypeOK'
  BY <1>1, <1>2 DEF IInv, TypeOK, OnlyJob, host, interface
<1>4. Relies(j)'
  BY <1>1, <1>3 DEF Relies, Locked, Planned, Making, TypeOK
<1>5. lock \in Jobs \ {j} => lock' = lock
  BY <1>2, ReconcileAssumption
<1>6. \A k \in Jobs \ {j} : Relies(k)'
  BY <1>1, <1>2, <1>5, OthersRely
<1>7. \A k \in Posts : HoldsQueue(k)'
  <2> SUFFICES ASSUME NEW k \in Posts
               PROVE  HoldsQueue(k)'
    OBVIOUS
  <2>1. k \in Jobs /\ k \notin Statuses /\ HoldsQueue(k) /\ Active' = Active
    BY <1>2, ReconcileAssumption DEF IInv, Jobs, Active
  <2>2. CASE k = j
    BY <1>1, <1>2, <2>1, <2>2 DEF HoldsQueue, Locked
  <2>3. CASE k # j
    BY <1>1, <1>2, <2>1, <2>3 DEF HoldsQueue, OnlyJob
  <2> QED
    BY <2>2, <2>3
<1>8. LinkInv'
  BY <1>1, <1>2, LinkStays DEF IInv, LinkInv, Making, host
<1> QED
  BY <1>2, <1>3, <1>4, <1>6, <1>7, <1>8 DEF IInv

\* The registry only changes while nobody is inside the write queue, and
\* the clock only shortens what is rendered.
LEMMA RegistryStep ==
    ASSUME IInv, NEW p \in Peers, Create(p) \/ Revoke(p) \/ Expire(p)
    PROVE  IInv'
<1>1. /\ UNCHANGED <<host, writer, lock, job, faults, crashes>>
      /\ expired \subseteq expired'
      /\ Create(p) \/ Revoke(p) => writer = None
      /\ Expire(p) => Active' = Active
  BY DEF Create, Revoke, Expire, Active
<1>2. TypeOK'
  BY <1>1 DEF IInv, TypeOK, Create, Revoke, Expire, host, interface
<1>3. \A j \in Jobs : Relies(j)'
  <2> SUFFICES ASSUME NEW j \in Jobs
               PROVE  Relies(j)'
    OBVIOUS
  <2>1. job'[j] = job[j] /\ Rendered(j)' \subseteq Rendered(j)
    BY <1>1 DEF Rendered
  <2>2. Relies(j)
    BY DEF IInv
  <2> QED
    BY <1>1, <2>1, <2>2 DEF Relies, host, interface
<1>4. \A j \in Posts : HoldsQueue(j)'
  <2> SUFFICES ASSUME NEW j \in Posts
               PROVE  HoldsQueue(j)'
    OBVIOUS
  <2>1. HoldsQueue(j) /\ j # None
    BY ReconcileAssumption DEF IInv, Jobs
  <2> QED
    BY <1>1, <2>1 DEF HoldsQueue, Locked
<1>5. LinkInv'
  BY <1>1, LinkKept DEF IInv, host
<1> QED
  BY <1>2, <1>3, <1>4, <1>5 DEF IInv

LEMMA ChangePortStep == ASSUME IInv, ChangePort PROVE IInv'
<1>1. TypeOK'
  BY FaultType DEF IInv, TypeOK, ChangePort, registry, interface
<1>2. \A j \in Jobs : Relies(j)'
  <2> SUFFICES ASSUME NEW j \in Jobs
               PROVE  Relies(j)'
    OBVIOUS
  <2>1. job'[j] = job[j] /\ Rendered(j)' = Rendered(j) /\ Relies(j)
    BY DEF ChangePort, Rendered, registry, IInv
  <2> QED
    BY <2>1 DEF ChangePort, Relies, interface
<1>3. \A j \in Posts : HoldsQueue(j)'
  BY DEF IInv, ChangePort, HoldsQueue, Active, registry
<1>4. LinkInv'
  BY LinkKept DEF IInv, ChangePort
<1> QED
  BY <1>1, <1>2, <1>3, <1>4 DEF IInv

\* Requests that begin, sweep or end hold no lock before or after.
LEMMA EndsStep ==
    ASSUME IInv, NEW j \in Jobs,
           \/ BeginPost(j) /\ j \in Posts
           \/ BeginStatus(j) /\ j \in Statuses
           \/ Sweep(j) /\ j \in Statuses
           \/ Finish(j)
    PROVE  IInv'
<1>1. PICK x \in {"intend", "sweep", "idle", "load"} :
        /\ OnlyJob(j)
        /\ job'[j].at = x
        /\ x = "intend" => j \in Posts /\ writer' = j /\ job'[j].snap = Active
        /\ x \in {"sweep", "load"} => j \in Statuses
        /\ writer = None \/ writer = j \/ writer' = writer
        /\ writer' = j => j \in Posts
        /\ writer' # writer => writer' = j \/ writer = j
        /\ status' # status => writer = None /\ writer' = writer
        /\ status' \in [Peers -> {"absent", "active", "revoked"}]
        /\ writer' \in Posts \cup {None}
        /\ BeginPost(j) => writer = None
  <2>1. /\ job \in [Jobs -> JobRecord] /\ Active \in SUBSET Peers
        /\ "intend" \in Places /\ "sweep" \in Places
        /\ "idle" \in Places /\ "load" \in Places
        /\ status \in [Peers -> {"absent", "active", "revoked"}]
        /\ writer \in Posts \cup {None}
        /\ Posts \cap Statuses = {} /\ None \notin Jobs
    BY ReconcileAssumption DEF IInv, TypeOK, Places, Active
  <2>2. CASE BeginPost(j) /\ j \in Posts
    <3>1. OnlyJob(j) /\ job'[j].at = "intend" /\ job'[j].snap = Active
      BY <2>1, <2>2, GotoSnapShape DEF BeginPost
    <3> QED
      BY <2>1, <2>2, <3>1 DEF BeginPost, registry
  <2>3. CASE BeginStatus(j) /\ j \in Statuses
    <3>1. OnlyJob(j) /\ job'[j].at = "sweep"
      BY <2>1, <2>3, GotoShape DEF BeginStatus
    <3> QED
      BY <2>1, <2>3, <3>1 DEF BeginStatus, registry, BeginPost, At, Jobs
  <2>4. CASE Sweep(j) /\ j \in Statuses
    <3>1. PICK x \in {"idle", "load"} : Goto(j, x)
      BY <2>4 DEF Sweep
    <3>2. OnlyJob(j) /\ job'[j].at = x
      BY <2>1, <3>1, GotoShape
    <3>3. status' \in [Peers -> {"absent", "active", "revoked"}]
      BY <2>1, <2>4 DEF Sweep
    <3> QED
      BY <2>1, <2>4, <3>2, <3>3 DEF Sweep, BeginPost, At, Jobs
  <2>5. CASE Finish(j)
    <3>1. OnlyJob(j) /\ job'[j].at = "idle"
      BY <2>1, <2>5, IdleShape DEF Finish, Idle
    <3> QED
      BY <2>1, <2>5, <3>1 DEF Finish, registry, BeginPost, At
  <2> QED
    BY <2>2, <2>3, <2>4, <2>5
<1>2. UNCHANGED <<expired, host, lock, faults, crashes>>
  BY DEF BeginPost, BeginStatus, Sweep, Finish, registry
<1>3. TypeOK'
  BY <1>1, <1>2 DEF IInv, TypeOK, OnlyJob, host, interface
<1>4. Relies(j)'
  BY <1>1 DEF Relies, Locked, Planned, Making
<1>5. \A k \in Jobs \ {j} : Relies(k)'
  BY <1>1, <1>2, OthersRely
<1>6. \A k \in Posts : HoldsQueue(k)'
  <2> SUFFICES ASSUME NEW k \in Posts
               PROVE  HoldsQueue(k)'
    OBVIOUS
  <2>1. k \in Jobs /\ k \notin Statuses /\ HoldsQueue(k) /\ k # None
    BY ReconcileAssumption DEF IInv, Jobs
  <2>2. CASE k = j /\ job'[j].at = "intend"
    <3>1. status' = status
      BY <1>1, <2>2, ReconcileAssumption DEF Jobs
    <3> QED
      BY <1>1, <2>1, <2>2, <3>1 DEF HoldsQueue, Active
  <2>3. CASE k = j /\ job'[j].at # "intend"
    BY <1>1, <2>1, <2>3 DEF HoldsQueue, Locked
  <2>4. CASE k # j /\ job[k].at # "idle"
    <3>1. writer = k /\ status' = status
      BY <1>1, <2>1, <2>4 DEF HoldsQueue
    <3> QED
      BY <1>1, <2>1, <2>4, <3>1 DEF HoldsQueue, OnlyJob, Active
  <2>5. CASE k # j /\ job[k].at = "idle"
    BY <1>1, <2>1, <2>5 DEF HoldsQueue, OnlyJob, Locked
  <2> QED
    BY <2>2, <2>3, <2>4, <2>5
<1>7. job[j].at \notin Making
  BY DEF BeginPost, BeginStatus, Sweep, Finish, At, Making
<1>8. LinkInv'
  BY <1>1, <1>2, <1>7, LinkStays DEF IInv, LinkInv, host
<1> QED
  BY <1>2, <1>3, <1>4, <1>5, <1>6, <1>8 DEF IInv

\* A waiting request clears the lock of a dead process: nobody held it.
LEMMA ClearStaleLockStep ==
    ASSUME IInv, NEW j \in Jobs, ClearStaleLock(j)
    PROVE  IInv'
<1>1. TypeOK'
  BY DEF ClearStaleLock, IInv, TypeOK, registry, host, interface
<1>2. \A k \in Jobs : Relies(k)'
  <2> SUFFICES ASSUME NEW k \in Jobs
               PROVE  Relies(k)'
    OBVIOUS
  <2>1. /\ Relies(k) /\ job[k].at \notin Locked
        /\ job'[k] = job[k] /\ Rendered(k)' = Rendered(k)
    BY ReconcileAssumption DEF ClearStaleLock, IInv, Relies, Rendered, registry
  <2> QED
    BY <2>1 DEF Relies, Locked, Planned, Making
<1>3. \A k \in Posts : HoldsQueue(k)'
  BY DEF IInv, ClearStaleLock, HoldsQueue, Active, registry
<1>4. LinkInv'
  BY LinkKept DEF IInv, ClearStaleLock, host
<1> QED
  BY <1>1, <1>2, <1>3, <1>4 DEF IInv

LEMMA CrashStep == ASSUME IInv, Crash PROVE IInv'
<1>1. TypeOK'
  BY ReconcileAssumption
     DEF Crash, IInv, TypeOK, registry, host, interface, Idle, JobRecord, Places
<1>2. \A j \in Jobs : job'[j].at = "idle"
  BY DEF Crash, Idle
<1>3. \A j \in Jobs : Relies(j)'
  BY <1>2 DEF Relies, Locked, Planned, Making
<1>4. \A j \in Posts : HoldsQueue(j)'
  BY <1>2 DEF HoldsQueue, Locked, Jobs
<1>5. LinkInv'
  BY DEF Crash, IInv, LinkInv
<1> QED
  BY <1>1, <1>3, <1>4, <1>5 DEF IInv

LEMMA InitIInv == Init => IInv
<1> SUFFICES ASSUME Init
             PROVE  IInv
  OBVIOUS
<1>1. TypeOK
  <2>1. Idle \in JobRecord
    BY DEF Idle, JobRecord, Places
  <2>2. job \in [Jobs -> JobRecord]
    BY <2>1 DEF Init
  <2>3. status \in [Peers -> {"absent", "active", "revoked"}]
    BY DEF Init
  <2>4. faults \in 0..MaxFaults /\ crashes \in 0..MaxCrashes
    BY ReconcileAssumption DEF Init
  <2> QED
    BY <2>2, <2>3, <2>4 DEF Init, TypeOK
<1>2. \A j \in Jobs : job[j].at = "idle"
  BY DEF Init, Idle
<1> QED
  BY <1>1, <1>2 DEF Init, IInv, LinkInv, Relies, HoldsQueue, Locked, Planned, Making, Jobs

LEMMA NextKeepsIInv == ASSUME IInv, [Next]_vars PROVE IInv'
<1>1. CASE UNCHANGED vars
  <2>1. UNCHANGED <<status, expired, link, up, cut, kernel, port, writer, lock,
                    job, faults, crashes>>
    BY <1>1 DEF vars, registry, host, interface
  <2> QED
    BY <2>1 DEF IInv, TypeOK, LinkInv, Relies, HoldsQueue, Rendered, Active
<1>2. ASSUME NEW j \in Jobs, Step(j)
      PROVE  IInv'
  <2>1. LoadRegistry(j) => j \in Statuses
    BY DEF LoadRegistry, At, IInv, HoldsQueue, Jobs
  <2> QED
    BY <1>2, <2>1, OutsideStep, ClearStaleLockStep, ApplyKeepsIInv, EndsStep
       DEF Step, Timed, Apply
<1> QED
  BY <1>1, <1>2, RegistryStep, ChangePortStep, EndsStep, CrashStep
     DEF Next, Jobs

-----------------------------------------------------------------------------
(***************************************************************************)
(* Theorems.                                                               *)
(***************************************************************************)

\* IInv is an invariant: what a request relies on at each place of
\* executeApply holds whatever the others do.
THEOREM InductiveInvariant == Spec => []IInv
BY InitIInv, NextKeepsIInv, PTL DEF Spec

\* Every state of reconcile and of the host is well-typed.
THEOREM TypeCorrect == Spec => []TypeOK
BY InductiveInvariant, PTL DEF IInv

\* executeApply reports success only with the kernel in line with the
\* registry it read.
THEOREM SuccessIsSynced == Spec => []SuccessMeansSynced
<1>1. IInv => SuccessMeansSynced
  BY DEF IInv, Relies, SuccessMeansSynced, At, Planned
<1> QED
  BY <1>1, InductiveInvariant, PTL

\* A failed apply whose rollback met no failure leaves nobody in the kernel
\* that it did not find there.
THEOREM FailureGrantsNothing == Spec => []FailureAddsNobody
<1>1. IInv => FailureAddsNobody
  BY DEF IInv, Relies, FailureAddsNobody, At
<1> QED
  BY <1>1, InductiveInvariant, PTL

\* Only the request that created the interface takes it down.
THEOREM LinkIsKept == Spec => OthersLinkIsKept
<1> DEFINE Mine == \E j \in Jobs : job[j].made /\ job[j].at \in Locked
<1>1. ASSUME IInv, link, ~link', [Next]_vars
      PROVE  Mine
  <2>1. PICK j \in Jobs : Configure(j) \/ Raise(j) \/ Rollback(j)
    BY <1>1 DEF Next, Step, Timed, Apply, TimedApply, Create, Revoke, Expire, ChangePort,
                BeginPost, BeginStatus, Sweep, LoadRegistry, Intend,
                AcquireLock, ClearStaleLock, LockTimeout, Inspect, Bootstrap,
                Reconfigure, Sync, SyncPartly, Remove, Verify, ReleaseLock,
                Finish, Crash, vars, host, interface
  <2>2. Relies(j)
    BY <1>1 DEF IInv
  <2>3. CASE Configure(j) \/ Raise(j)
    BY <2>2, <2>3 DEF Configure, Raise, Relies, At, Locked, Making
  <2>4. CASE Rollback(j)
    <3>1. At(j, "rollback") /\ job[j].bootstrap
      BY <1>1, <2>4 DEF Rollback, host, interface
    <3> QED
      BY <2>2, <3>1 DEF Relies, At, Locked, Planned
  <2> QED
    BY <2>1, <2>3, <2>4
<1>2. IInv /\ [Next]_vars => [link /\ ~link' => Mine]_vars
  BY <1>1
<1> QED
  BY <1>2, InductiveInvariant, PTL DEF Spec, OthersLinkIsKept

\* What a reconcile adds to the kernel inside the write queue is active in
\* the registry at that moment.
THEOREM QueuedIsCurrent == Spec => QueuedApplyIsCurrent
<1> DEFINE Current == \A j \in Posts : job[j].at \in Locked /\ job'[j] # job[j]
                         => kernel' \ kernel \subseteq Active
<1>1. ASSUME IInv, [Next]_vars, NEW j \in Posts,
             job[j].at \in Locked, job'[j] # job[j]
      PROVE  kernel' \ kernel \subseteq Active
  <2>1. j \in Jobs /\ job \in [Jobs -> JobRecord]
    BY <1>1 DEF Jobs, IInv, TypeOK
  <2>2. Rendered(j) \subseteq Active
    BY <1>1 DEF IInv, HoldsQueue, Rendered
  <2>3. CASE \E k \in Jobs : Apply(k)
    <3>1. PICK k \in Jobs : Apply(k)
      BY <2>3
    <3>2. CASE k = j
      BY <2>2, <3>1, <3>2
         DEF Apply, TimedApply, Inspect, Bootstrap, Configure, Raise, GiveUpMaking, Reconfigure,
             Sync, SyncPartly, Synced,
             Remove, Verify, Rollback, ReleaseLock, host, interface
    <3>3. CASE k # j
      <4>1. job'[j] = job[j]
        BY <1>1, <2>1, <3>1, <3>3
           DEF Apply, TimedApply, Inspect, Plan, Bootstrap, Configure, Raise, Reconfigure, Sync,
               GiveUpMaking, Remove, Verify, Rollback, ReleaseLock, Goto
      <4> QED
        BY <1>1, <4>1
    <3> QED
      BY <3>2, <3>3
  <2>4. CASE UNCHANGED kernel
    BY <2>4
  <2> QED
    BY <1>1, <2>3, <2>4
       DEF Next, Step, Timed, Apply, Create, Revoke, Expire, ChangePort, BeginPost,
           BeginStatus, Sweep, LoadRegistry, Intend, AcquireLock,
           ClearStaleLock, LockTimeout, Finish, Crash, vars, host, interface
<1>2. IInv /\ [Next]_vars => [Current]_vars
  BY <1>1
<1> QED
  BY <1>2, InductiveInvariant, PTL DEF Spec, QueuedApplyIsCurrent

\* A queued reconcile that succeeds has brought the kernel in line with the
\* registry of that very moment.
THEOREM QueuedSuccess == Spec => []QueuedSuccessIsCurrent
<1>1. IInv => QueuedSuccessIsCurrent
  <2> SUFFICES ASSUME IInv, NEW j \in Posts, At(j, "ok")
               PROVE  /\ up \/ cut
                      /\ Active \ expired \subseteq kernel /\ kernel \subseteq Active
    BY DEF QueuedSuccessIsCurrent
  <2>1. j \in Jobs /\ job[j].at = "ok" /\ job[j].snap = Active
    BY DEF IInv, HoldsQueue, At, Locked, Jobs
  <2>2. /\ Rendered(j) \subseteq kernel
        /\ kernel \subseteq job[j].intended
        /\ job[j].intended \subseteq job[j].snap
        /\ up \/ cut
    BY <2>1 DEF IInv, Relies, Locked, Planned
  <2> QED
    BY <2>1, <2>2 DEF Rendered, IInv
<1> QED
  BY <1>1, InductiveInvariant, PTL

-----------------------------------------------------------------------------
(***************************************************************************)
(* The way of a request through its places.                                *)
(***************************************************************************)
Moves(r, s) ==
    \/ r.at = "load" /\ s.at = "intend"
    \/ r.at = "intend" /\ s.at \in {"lock", "end"}
    \/ r.at = "lock" /\ s.at \in {"inspect", "end"}
    \/ r.at = "inspect" /\ s.at \in {"bootstrap", "reconfigure", "sync"}
    \/ r.at = "bootstrap" /\ s.at \in {"configure", "thrown"}
    \/ r.at = "configure" /\ s.at \in {"raise", "thrown"}
    \/ r.at \in {"raise", "reconfigure"} /\ s.at \in {"sync", "thrown"}
    \/ r.at = "sync" /\ s.at \in {"remove", "verify", "rollback", "thrown"}
    \/ r.at = "remove" /\ s.at \in {"verify", "rollback"}
    \/ r.at = "verify" /\ s.at \in {"ok", "rollback", "failed"}
    \/ r.at = "rollback" /\ s.at = "failed"
    \/ r.at \in {"ok", "failed", "thrown"} /\ s.at = "end"
    \/ r.at = "end" /\ s.at = "idle"

CrossesOff(r, s) ==
    /\ r.at \in {"remove", "rollback"} /\ s.at = r.at
    /\ \E p \in r.todo : s.todo = r.todo \ {p}

LEMMA ApplyMoves ==
    ASSUME IInv, NEW j \in Jobs, Apply(j)
    PROVE  /\ Moves(job[j], job'[j]) \/ CrossesOff(job[j], job'[j])
           /\ job'[j].at \in Locked <=> ~ReleaseLock(j)
<1> USE DEF Moves, At
<1>1. /\ job \in [Jobs -> JobRecord]
      /\ job[j].todo \subseteq Peers /\ job[j].add \in SUBSET Peers
      /\ Stray(j) \in SUBSET Peers
      /\ \A x \in Locked \cup {"end"} : x \in Places
  BY HolderType DEF IInv, Places
<1>2. \A x \in Places : Goto(j, x) => job'[j].at = x
  BY <1>1, GotoShape
<1>3. \A x \in Places, S \in SUBSET Peers :
        job' = [job EXCEPT ![j].at = x, ![j].todo = S] => job'[j].at = x
  BY <1>1, GotoTodoShape DEF GotoTodo
<1>4. CASE Inspect(j)
  <2>1. PICK exists \in BOOLEAN, seen \in SUBSET Peers : Plan(j, exists, seen)
    BY <1>4 DEF Inspect, IInv, TypeOK
  <2> QED
    BY <1>1, <1>4, <2>1, PlanShape DEF Inspect, ReleaseLock, Locked
<1>5. CASE Bootstrap(j)
  BY <1>1, <1>2, <1>5, GotoMadeShape DEF Bootstrap, ReleaseLock, Locked
<1>6. CASE Configure(j) \/ Raise(j) \/ Reconfigure(j)
  BY <1>1, <1>2, <1>6 
     DEF Configure, Raise, GiveUpMaking, Reconfigure, ReleaseLock, Locked
<1>7. CASE Sync(j)
  BY <1>1, <1>2, <1>3, <1>7 DEF Sync, ReleaseLock, Locked
<1>8. CASE Remove(j)
  <2>1. CASE \E p \in job[j].todo : job' = [job EXCEPT ![j].todo = @ \ {p}]
    BY <1>1, <1>8, <2>1, TodoShape DEF Remove, CrossesOff, ReleaseLock, Locked
  <2>2. CASE ~\E p \in job[j].todo : job' = [job EXCEPT ![j].todo = @ \ {p}]
    BY <1>1, <1>2, <1>3, <1>8, <2>2 DEF Remove, ReleaseLock, Locked
  <2> QED
    BY <2>1, <2>2
<1>9. CASE Verify(j)
  BY <1>1, <1>2, <1>3, <1>9, GotoUndoneShape DEF Verify, ReleaseLock, Locked
<1>10. CASE Rollback(j)
  <2>1. CASE Goto(j, "failed")
    BY <1>1, <1>2, <1>10, <2>1 DEF Rollback, ReleaseLock, Locked
  <2>2. CASE ~Goto(j, "failed")
    BY <1>1, <1>10, <2>2, TodoShape, TodoUndoneShape
       DEF Rollback, CrossesOff, ReleaseLock, Locked
  <2> QED
    BY <2>1, <2>2
<1>11. CASE ReleaseLock(j)
  BY <1>1, <1>2, <1>11 DEF ReleaseLock, Locked
<1> QED
  BY <1>4, <1>5, <1>6, <1>7, <1>8, <1>9, <1>10, <1>11 DEF Apply, TimedApply

\* One step of a request is a move, or clears a stale lock file.
LEMMA StepMoves ==
    ASSUME IInv, NEW j \in Jobs, Step(j)
    PROVE  \/ OnlyJob(j) /\ Moves(job[j], job'[j])
           \/ OnlyJob(j) /\ CrossesOff(job[j], job'[j])
           \/ ClearStaleLock(j)
<1>1. /\ job \in [Jobs -> JobRecord]
      /\ \A x \in {"intend", "lock", "inspect", "end"} : x \in Places
      /\ Active \in SUBSET Peers /\ Rendered(j) \in SUBSET Peers
  BY HolderType DEF IInv, TypeOK, Places, Locked, Active
<1>2. \A x \in {"intend", "lock", "inspect", "end"} :
        Goto(j, x) => OnlyJob(j) /\ job'[j].at = x
  BY <1>1, GotoShape
<1>3. CASE Apply(j)
  BY <1>3, ApplyMoves, ApplyStep DEF Kept
<1>4. CASE LoadRegistry(j)
  BY <1>1, <1>4, GotoSnapShape DEF LoadRegistry, At, Moves
<1>5. CASE Intend(j)
  BY <1>1, <1>2, <1>5, GotoIntendedShape DEF Intend, At, Moves
<1>6. CASE AcquireLock(j) \/ LockTimeout(j)
  BY <1>2, <1>6 DEF AcquireLock, LockTimeout, At, Moves
<1>7. CASE Finish(j)
  BY <1>1, <1>7, IdleShape DEF Finish, At, Moves, Idle
<1> QED
  BY <1>3, <1>4, <1>5, <1>6, <1>7 DEF Step, Timed, Apply

-----------------------------------------------------------------------------
(***************************************************************************)
(* The apply lock is used as an exclusive lock.                            *)
(***************************************************************************)

LEMMA UnderLockAfter ==
    ASSUME NEW j \in Jobs, OnlyJob(j)
    PROVE  UnderLock' = IF job'[j].at \in Locked THEN UnderLock \cup {j}
                        ELSE UnderLock \ {j}
BY DEF OnlyJob, UnderLock

LEMMA StepIsLocks ==
    ASSUME IInv, NEW j \in Jobs, Step(j)
    PROVE  [Lock!Next]_<<lock, UnderLock>>
<1>1. \A k \in Jobs : job[k].at \in Locked => lock = k
  BY DEF IInv, Relies
<1>2. CASE Apply(j) /\ ~ReleaseLock(j)
  <2>1. OnlyJob(j) /\ job[j].at \in Locked /\ job'[j].at \in Locked
    BY <1>2, ApplyStep, ApplyMoves DEF Kept
  <2>2. UnderLock' = UnderLock
    BY <2>1, UnderLockAfter DEF UnderLock
  <2>3. lock' = lock
    BY <1>2 DEF Apply, TimedApply, Inspect, Bootstrap, Configure, Raise, Reconfigure, Sync,
                Remove, Verify, Rollback
  <2> QED
    BY <2>2, <2>3
<1>3. CASE ReleaseLock(j)
  <2>1. Kept(j) /\ lock = j /\ job[j].at \in Locked
    BY <1>3, ApplyStep DEF Apply, TimedApply
  <2>2. UnderLock = {j}
    BY <1>1, <2>1 DEF UnderLock
  <2>3. job'[j].at \notin Locked
    BY <1>3, ApplyMoves DEF Apply, TimedApply
  <2>4. UnderLock' = {}
    BY <2>1, <2>2, <2>3, UnderLockAfter DEF Kept
  <2>5. Lock!Leave(j)
    BY <1>3, <2>1, <2>2, <2>4 DEF ReleaseLock, Lock!Leave
  <2> QED
    BY <2>5 DEF Lock!Next
<1>4. CASE AcquireLock(j)
  <2>1. OnlyJob(j) /\ job'[j].at = "inspect"
    BY <1>4, GotoShape DEF AcquireLock, IInv, TypeOK, Places, Locked
  <2>2. lock = None /\ UnderLock = {}
    BY <1>1, <1>4, ReconcileAssumption DEF AcquireLock, UnderLock
  <2>3. UnderLock' = {j}
    BY <2>1, <2>2, UnderLockAfter DEF Locked
  <2>4. Lock!Acquire(j)
    BY <1>4, <2>2, <2>3 DEF AcquireLock, Lock!Acquire
  <2> QED
    BY <2>4 DEF Lock!Next
<1>5. CASE ClearStaleLock(j)
  <2>1. lock = Stale /\ UnderLock = {}
    BY <1>1, <1>5, ReconcileAssumption DEF ClearStaleLock, UnderLock
  <2>2. Lock!Clear
    BY <1>5, <2>1 DEF ClearStaleLock, UnderLock, Lock!Clear
  <2> QED
    BY <2>2 DEF Lock!Next
<1>6. CASE LoadRegistry(j) \/ Intend(j) \/ LockTimeout(j) \/ Finish(j)
  <2>1. /\ OnlyJob(j) /\ Moves(job[j], job'[j])
        /\ job[j].at \in {"load", "intend", "lock", "end"}
        /\ job'[j].at # "inspect" /\ lock' = lock
    <3>1. \/ OnlyJob(j) /\ Moves(job[j], job'[j])
          \/ OnlyJob(j) /\ CrossesOff(job[j], job'[j])
          \/ ClearStaleLock(j)
      BY StepMoves
    <3>2. /\ job[j].at \in {"load", "intend", "lock", "end"}
          /\ lock' = lock
      BY <1>6 DEF LoadRegistry, Intend, LockTimeout, Finish, At
    <3>3. LockTimeout(j) => job'[j].at = "end"
      BY GotoShape DEF LockTimeout, IInv, TypeOK, Places
    <3>4. ~ClearStaleLock(j)
      BY <3>2, ReconcileAssumption DEF ClearStaleLock
    <3> QED
      BY <1>6, <3>1, <3>2, <3>3, <3>4
         DEF CrossesOff, Moves, LoadRegistry, Intend, Finish, At
  <2>2. job[j].at \notin Locked /\ job'[j].at \notin Locked
    BY <2>1 DEF Moves, Locked
  <2>3. UnderLock' = UnderLock
    BY <2>1, <2>2, UnderLockAfter DEF UnderLock
  <2> QED
    BY <2>1, <2>3
<1> QED
  BY <1>2, <1>3, <1>4, <1>5, <1>6 DEF Step, Timed, Apply

\* Requests that begin or sweep are far from the lock.
LEMMA BeginIsLocks ==
    ASSUME IInv, NEW j \in Jobs, BeginPost(j) \/ BeginStatus(j) \/ Sweep(j)
    PROVE  UNCHANGED <<lock, UnderLock>>
<1>1. /\ job \in [Jobs -> JobRecord]
      /\ \A x \in {"intend", "sweep", "idle", "load"} : x \in Places
      /\ Active \in SUBSET Peers
  BY DEF IInv, TypeOK, Places, Active
<1>2. \A x \in {"sweep", "idle", "load"} :
        Goto(j, x) => OnlyJob(j) /\ job'[j].at = x
  BY <1>1, GotoShape
<1>3. OnlyJob(j) /\ job'[j].at \in {"intend", "sweep", "idle", "load"}
  BY <1>1, <1>2, GotoSnapShape DEF BeginPost, BeginStatus, Sweep
<1>4. job[j].at \notin Locked
  BY DEF BeginPost, BeginStatus, Sweep, At, Locked
<1>5. UnderLock' = UnderLock
  BY <1>3, <1>4, UnderLockAfter DEF UnderLock, Locked
<1> QED
  BY <1>5 DEF BeginPost, BeginStatus, Sweep

\* The apply path implements ExclusiveLock: one request at a time is between
\* plan and rollback, gives the lock back on every way out, and only a file
\* left by a crash is cleared.
THEOREM AppliesExclude == Spec => AppliesAreExclusive
<1>1. Init => Lock!Init
  BY DEF Init, Idle, Lock!Init, UnderLock, Locked
<1>2. ASSUME IInv, [Next]_vars
      PROVE  [Lock!Next]_<<lock, UnderLock>>
  <2>1. CASE Crash
    <3>1. UnderLock' = {}
      BY <2>1 DEF Crash, UnderLock, Idle, Locked
    <3>2. lock' = IF lock = None THEN None ELSE Stale
      BY <2>1, <1>2, ReconcileAssumption DEF Crash, IInv, TypeOK
    <3>3. Lock!Die
      BY <3>1, <3>2 DEF Lock!Die
    <3> QED
      BY <3>3 DEF Lock!Next
  <2>2. CASE \/ ChangePort \/ UNCHANGED vars
             \/ \E p \in Peers : Create(p) \/ Revoke(p) \/ Expire(p)
    BY <2>2 DEF ChangePort, Create, Revoke, Expire, vars, UnderLock
  <2> QED
    BY <1>2, <2>1, <2>2, StepIsLocks, BeginIsLocks DEF Next, Jobs
<1>3. IInv /\ [Next]_vars => [Lock!Next]_(Lock!vars)
  BY <1>2 DEF Lock!vars
<1> QED
  BY <1>1, <1>3, InductiveInvariant, PTL DEF Spec, AppliesAreExclusive, Lock!Spec

-----------------------------------------------------------------------------
(***************************************************************************)
(* Every step of a request brings it closer to its end.                    *)
(***************************************************************************)

LEMMA Removals ==
    ASSUME NEW S \in SUBSET Peers
    PROVE  /\ Cardinality(Peers) \in Nat
           /\ Cardinality(S) \in 0..Cardinality(Peers)
           /\ \A p \in S : Cardinality(S \ {p}) = Cardinality(S) - 1
<1>1. IsFiniteSet(S) /\ Cardinality(S) <= Cardinality(Peers)
  BY PeersAssumption, FS_Subset
<1>2. Cardinality(S) \in Nat /\ Cardinality(Peers) \in Nat
  BY <1>1, PeersAssumption, FS_CardinalityType
<1>3. \A p \in S : Cardinality(S \ {p}) = Cardinality(S) - 1
  BY <1>1, FS_RemoveElement
<1> QED
  BY <1>1, <1>2, <1>3

LEMMA Ranks ==
    /\ Rank["idle"] = 0 /\ Rank["end"] = 1
    /\ Rank["ok"] = 2 /\ Rank["failed"] = 2 /\ Rank["thrown"] = 2
    /\ Rank["rollback"] = 3 /\ Rank["verify"] = 4 /\ Rank["remove"] = 5
    /\ Rank["sync"] = 6 /\ Rank["raise"] = 7 /\ Rank["reconfigure"] = 7
    /\ Rank["configure"] = 8 /\ Rank["bootstrap"] = 9
    /\ Rank["inspect"] = 10 /\ Rank["lock"] = 11
    /\ Rank["intend"] = 13 /\ Rank["load"] = 14 /\ Rank["sweep"] = 15
BY DEF Rank

\* What StepsLeft is, place by place.
LEMMA StepsLeftAt ==
    ASSUME NEW r \in JobRecord, NEW b \in BOOLEAN, NEW n, NEW t,
           n = Cardinality(Peers), t = Cardinality(r.todo)
    PROVE  /\ r.at = "idle" => StepsLeft(r, b) = 0
           /\ r.at = "end" => StepsLeft(r, b) = 1
           /\ r.at \in {"ok", "failed", "thrown"} => StepsLeft(r, b) = 2
           /\ r.at = "rollback" => StepsLeft(r, b) = 3 + t
           /\ r.at = "verify" => StepsLeft(r, b) = 4 + n
           /\ r.at = "remove" => StepsLeft(r, b) = 5 + t + n
           /\ r.at = "sync" => StepsLeft(r, b) = 6 + 2 * n
           /\ r.at \in {"raise", "reconfigure"} => StepsLeft(r, b) = 7 + 2 * n
           /\ r.at = "configure" => StepsLeft(r, b) = 8 + 2 * n
           /\ r.at = "bootstrap" => StepsLeft(r, b) = 9 + 2 * n
           /\ r.at = "inspect" => StepsLeft(r, b) = 10 + 2 * n
           /\ r.at = "lock" => StepsLeft(r, b) = (IF b THEN 12 ELSE 11) + 2 * n
           /\ r.at = "intend" => StepsLeft(r, b) = 13 + 2 * n
           /\ r.at = "load" => StepsLeft(r, b) = 14 + 2 * n
           /\ r.at = "sweep" => StepsLeft(r, b) = 15 + 2 * n
<1>1. n \in Nat /\ t \in 0..n
  BY Removals DEF JobRecord
<1> DEFINE q == IF r.at = "lock" /\ b THEN 1 ELSE 0
           w == RemovalsLeft(r)
<1>2. StepsLeft(r, b) = Rank[r.at] + w + q
  BY DEF StepsLeft
<1>3. /\ r.at \in {"idle", "end", "ok", "failed", "thrown"} => w = 0
      /\ r.at = "rollback" => w = t
      /\ r.at = "verify" => w = n
      /\ r.at = "remove" => w = t + n
  BY <1>1, Ranks DEF RemovalsLeft
<1>4. /\ r.at \in {"sync", "raise", "reconfigure", "configure", "bootstrap"} => w = 2 * n
      /\ r.at \in {"inspect", "lock", "intend", "load", "sweep"} => w = 2 * n
  BY <1>1, Ranks DEF RemovalsLeft
<1>5. q = IF r.at = "lock" /\ b THEN 1 ELSE 0
  OBVIOUS
<1> HIDE DEF q, w
<1>6. /\ r.at = "idle" => StepsLeft(r, b) = 0
      /\ r.at = "end" => StepsLeft(r, b) = 1
      /\ r.at \in {"ok", "failed", "thrown"} => StepsLeft(r, b) = 2
  BY <1>2, <1>3, <1>5, Ranks
<1>7. /\ r.at = "rollback" => StepsLeft(r, b) = 3 + t
      /\ r.at = "verify" => StepsLeft(r, b) = 4 + n
      /\ r.at = "remove" => StepsLeft(r, b) = 5 + t + n
  BY <1>1, <1>2, <1>3, <1>5, Ranks
<1>8. /\ r.at = "sync" => StepsLeft(r, b) = 6 + 2 * n
      /\ r.at \in {"raise", "reconfigure"} => StepsLeft(r, b) = 7 + 2 * n
      /\ r.at = "configure" => StepsLeft(r, b) = 8 + 2 * n
      /\ r.at = "bootstrap" => StepsLeft(r, b) = 9 + 2 * n
  BY <1>1, <1>2, <1>4, <1>5, Ranks
<1>9. /\ r.at = "inspect" => StepsLeft(r, b) = 10 + 2 * n
      /\ r.at = "intend" => StepsLeft(r, b) = 13 + 2 * n
      /\ r.at = "load" => StepsLeft(r, b) = 14 + 2 * n
      /\ r.at = "sweep" => StepsLeft(r, b) = 15 + 2 * n
  BY <1>1, <1>2, <1>4, <1>5, Ranks
<1>10. r.at = "lock" => StepsLeft(r, b) = (IF b THEN 12 ELSE 11) + 2 * n
  BY <1>1, <1>2, <1>4, <1>5, Ranks
<1> QED
  BY <1>6, <1>7, <1>8, <1>9, <1>10

LEMMA StepsLeftBounds ==
    ASSUME NEW r \in JobRecord, NEW b \in BOOLEAN
    PROVE  StepsLeft(r, b) \in 0 .. 2 * Cardinality(Peers) + 15
<1> DEFINE n == Cardinality(Peers)
           t == Cardinality(r.todo)
<1>1. n \in Nat /\ t \in 0..n /\ r.at \in Places
  BY Removals DEF JobRecord
<1> HIDE DEF n, t
<1>2. /\ StepsLeft(r, b) \in 0 .. 2 * n + 15
  BY <1>1, StepsLeftAt DEF n, t, Places, Locked
<1> QED
  BY <1>2 DEF n

LEMMA MovesAdvance ==
    ASSUME NEW r \in JobRecord, NEW s \in JobRecord,
           NEW b \in BOOLEAN, NEW c \in BOOLEAN,
           Moves(r, s) \/ CrossesOff(r, s)
    PROVE  StepsLeft(s, c) < StepsLeft(r, b)
<1> DEFINE n == Cardinality(Peers)
           t == Cardinality(r.todo)
           u == Cardinality(s.todo)
<1>1. n \in Nat /\ t \in 0..n /\ u \in 0..n
  BY Removals DEF JobRecord
<1>2. CrossesOff(r, s) => u = t - 1
  BY Removals DEF CrossesOff, JobRecord
<1>5. CASE r.at \in {"load", "intend", "lock", "inspect", "bootstrap"}
  BY <1>1, <1>5, StepsLeftAt DEF Moves, CrossesOff
<1>6. CASE r.at \in {"configure", "raise", "reconfigure", "sync"}
  BY <1>1, <1>6, StepsLeftAt DEF Moves, CrossesOff
<1>7. CASE r.at \in {"remove", "verify", "rollback"}
  BY <1>1, <1>2, <1>7, StepsLeftAt DEF Moves, CrossesOff
<1>8. CASE r.at \in {"ok", "failed", "thrown", "end"}
  BY <1>1, <1>8, StepsLeftAt DEF Moves, CrossesOff
<1> QED
  BY <1>5, <1>6, <1>7, <1>8 DEF Moves, CrossesOff

\* A stale lock file costs a request that waits for the lock one step.
LEMMA StaleCostsAStep ==
    ASSUME NEW r \in JobRecord, NEW b \in BOOLEAN, NEW c \in BOOLEAN, c => b
    PROVE  /\ StepsLeft(r, b) \in Nat /\ StepsLeft(r, c) \in Nat
           /\ StepsLeft(r, c) <= StepsLeft(r, b)
           /\ r.at = "lock" /\ b /\ ~c => StepsLeft(r, c) < StepsLeft(r, b)
<1>1. Cardinality(Peers) \in Nat
  BY Removals
<1>2. StepsLeft(r, b) \in Nat /\ StepsLeft(r, c) \in Nat
  BY <1>1, StepsLeftBounds
<1>3. CASE r.at = "lock"
  <2>1. /\ StepsLeft(r, b) = (IF b THEN 12 ELSE 11) + 2 * Cardinality(Peers)
        /\ StepsLeft(r, c) = (IF c THEN 12 ELSE 11) + 2 * Cardinality(Peers)
    BY <1>3, StepsLeftAt
  <2> QED
    BY <1>1, <1>2, <2>1
<1>4. CASE r.at # "lock"
  <2>1. StepsLeft(r, c) = StepsLeft(r, b)
    BY <1>4 DEF StepsLeft
  <2> QED
    BY <1>2, <1>4, <2>1
<1> QED
  BY <1>3, <1>4

LEMMA StaleCostsOneStep ==
    ASSUME NEW r \in JobRecord, NEW b \in BOOLEAN, NEW c \in BOOLEAN
    PROVE  /\ StepsLeft(r, b) \in Nat /\ StepsLeft(r, c) \in Nat
           /\ StepsLeft(r, b) <= StepsLeft(r, c) + 1
<1>1. /\ Cardinality(Peers) \in Nat
      /\ StepsLeft(r, b) \in Nat /\ StepsLeft(r, c) \in Nat
  BY Removals, StepsLeftBounds
<1>2. CASE r.at = "lock"
  <2>1. /\ StepsLeft(r, b) = (IF b THEN 12 ELSE 11) + 2 * Cardinality(Peers)
        /\ StepsLeft(r, c) = (IF c THEN 12 ELSE 11) + 2 * Cardinality(Peers)
    BY <1>2, StepsLeftAt
  <2> QED
    BY <1>1, <2>1
<1>3. CASE r.at # "lock"
  <2>1. StepsLeft(r, b) = StepsLeft(r, c)
    BY <1>3 DEF StepsLeft
  <2> QED
    BY <1>1, <2>1
<1> QED
  BY <1>2, <1>3

\* What a request has ahead of it is its own steps and everybody's failures.
LEMMA LeftType ==
    ASSUME TypeOK, NEW j \in Jobs
    PROVE  /\ StepsLeft(job[j], lock = Stale) \in 0 .. 2 * Cardinality(Peers) + 15
           /\ MaxFaults - faults \in 0 .. MaxFaults
           /\ Left(j) \in 0 .. 2 * Cardinality(Peers) + 15 + MaxFaults
<1>1. job[j] \in JobRecord /\ Cardinality(Peers) \in Nat
  BY Removals DEF TypeOK
<1>2. StepsLeft(job[j], lock = Stale) \in 0 .. 2 * Cardinality(Peers) + 15
  BY <1>1, StepsLeftBounds
<1>3. MaxFaults - faults \in 0 .. MaxFaults
  BY ReconcileAssumption DEF TypeOK
<1> QED
  BY <1>1, <1>2, <1>3, ReconcileAssumption DEF Left

\* A lock file that somebody fails to unlink costs those who wait one step,
\* which that failure pays for.
LEMMA OthersStay ==
    ASSUME TypeOK, TypeOK', NEW k \in Jobs, job'[k] = job[k],
           faults <= faults',
           lock' = Stale /\ lock # Stale => faults < faults'
    PROVE  Left(k)' <= Left(k)
<1>1. /\ job[k] \in JobRecord /\ job'[k] = job[k]
      /\ faults \in Nat /\ faults' \in Nat /\ MaxFaults \in Nat
  BY ReconcileAssumption DEF TypeOK
<1>2. CASE lock' = Stale => lock = Stale
  <2>1. /\ StepsLeft(job[k], lock' = Stale) <= StepsLeft(job[k], lock = Stale)
        /\ StepsLeft(job[k], lock' = Stale) \in Nat
        /\ StepsLeft(job[k], lock = Stale) \in Nat
    BY <1>1, <1>2, StaleCostsAStep
  <2> QED
    BY <1>1, <2>1 DEF Left
<1>3. CASE lock' = Stale /\ lock # Stale
  <2>1. /\ StepsLeft(job[k], lock' = Stale) <= StepsLeft(job[k], lock = Stale) + 1
        /\ StepsLeft(job[k], lock' = Stale) \in Nat
        /\ StepsLeft(job[k], lock = Stale) \in Nat
    BY <1>1, StaleCostsOneStep
  <2>2. faults < faults'
    BY <1>3
  <2> QED
    BY <1>1, <2>1, <2>2 DEF Left
<1> QED
  BY <1>2, <1>3

\* Failures are counted, and a lock file that stays has cost one.
LEMMA StepFaults ==
    ASSUME IInv, NEW j \in Jobs, Step(j)
    PROVE  /\ faults <= faults'
           /\ lock' = Stale /\ lock # Stale => faults < faults'
<1>1. faults \in Nat
  BY DEF IInv, TypeOK
<1>2. faults' = faults \/ faults' = faults + 1
  BY DEF Step, Timed, TimedApply, LoadRegistry, Intend, AcquireLock,
         ClearStaleLock, LockTimeout, Finish, Inspect, Bootstrap, Configure,
         Raise, GiveUpMaking, Reconfigure, SyncPartly, Sync, Remove, Verify,
         Rollback, ReleaseLock, Fault
<1>3. lock' = Stale /\ lock # Stale => faults' = faults + 1
  BY ReconcileAssumption
     DEF Step, Timed, TimedApply, LoadRegistry, Intend, AcquireLock,
         ClearStaleLock, LockTimeout, Finish, Inspect, Bootstrap, Configure,
         Raise, Reconfigure, Sync, Remove, Verify, Rollback, ReleaseLock, Fault
<1> QED
  BY <1>1, <1>2, <1>3

\* A step of a request brings it forward and holds nobody back.
LEMMA StepAdvances ==
    ASSUME IInv, NEW j \in Jobs, Step(j), TypeOK'
    PROVE  /\ Left(j)' < Left(j)
           /\ \A k \in Jobs \ {j} : Left(k)' <= Left(k)
<1>1. /\ job[j] \in JobRecord /\ job'[j] \in JobRecord /\ TypeOK
      /\ faults \in Nat /\ faults' \in Nat /\ MaxFaults \in Nat
  BY ReconcileAssumption DEF IInv, TypeOK
<1>2. /\ faults <= faults'
      /\ lock' = Stale /\ lock # Stale => faults < faults'
  BY StepFaults
<1>3. CASE OnlyJob(j) /\ (Moves(job[j], job'[j]) \/ CrossesOff(job[j], job'[j]))
  <2>1. StepsLeft(job'[j], lock' = Stale) < StepsLeft(job[j], lock = Stale)
    BY <1>1, <1>3, MovesAdvance
  <2>2. /\ StepsLeft(job'[j], lock' = Stale) \in Nat
        /\ StepsLeft(job[j], lock = Stale) \in Nat
    BY <1>1, StaleCostsAStep
  <2>3. Left(j)' < Left(j)
    BY <1>1, <1>2, <2>1, <2>2 DEF Left
  <2>4. \A k \in Jobs \ {j} : Left(k)' <= Left(k)
    BY <1>1, <1>2, <1>3, OthersStay DEF OnlyJob
  <2> QED
    BY <2>3, <2>4
<1>4. CASE ClearStaleLock(j)
  <2>1. job' = job /\ faults' = faults
    BY <1>4 DEF ClearStaleLock
  <2>2. /\ job[j].at = "lock" /\ lock = Stale /\ lock' # Stale
    BY <1>4, ReconcileAssumption DEF ClearStaleLock, At
  <2>3. StepsLeft(job[j], lock' = Stale) < StepsLeft(job[j], lock = Stale)
    BY <1>1, <2>2, StaleCostsAStep
  <2>4. /\ StepsLeft(job[j], lock' = Stale) \in Nat
        /\ StepsLeft(job[j], lock = Stale) \in Nat
    BY <1>1, StaleCostsAStep
  <2>5. Left(j)' < Left(j)
    BY <1>1, <2>1, <2>3, <2>4 DEF Left
  <2>6. \A k \in Jobs \ {j} : Left(k)' <= Left(k)
    BY <1>1, <1>2, <2>1, OthersStay
  <2> QED
    BY <2>5, <2>6
<1> QED
  BY <1>3, <1>4, StepMoves

LEMMA SweepAdvances ==
    ASSUME IInv, NEW j \in Jobs, Sweep(j), TypeOK'
    PROVE  /\ Left(j)' < Left(j)
           /\ \A k \in Jobs \ {j} : Left(k)' <= Left(k)
<1>1. /\ OnlyJob(j) /\ job[j].at = "sweep"
      /\ job'[j].at \in {"idle", "load"} /\ lock' = lock /\ faults' = faults
  <2>1. "idle" \in Places /\ "load" \in Places
    BY DEF Places
  <2> QED
    BY <2>1, GotoShape DEF Sweep, At, IInv, TypeOK
<1>2. /\ job[j] \in JobRecord /\ job'[j] \in JobRecord /\ TypeOK
      /\ faults \in Nat /\ MaxFaults \in Nat
  BY ReconcileAssumption DEF IInv, TypeOK
<1>3. Cardinality(Peers) \in Nat
  BY Removals
<1>4. StepsLeft(job[j], lock = Stale) = 15 + 2 * Cardinality(Peers)
  BY <1>1, <1>2, StepsLeftAt
<1>5. StepsLeft(job'[j], lock' = Stale) \in {0, 14 + 2 * Cardinality(Peers)}
  BY <1>1, <1>2, StepsLeftAt
<1>6. Left(j)' < Left(j)
  BY <1>1, <1>2, <1>3, <1>4, <1>5 DEF Left
<1>7. \A k \in Jobs \ {j} : Left(k)' <= Left(k)
  BY <1>1, <1>2, OthersStay DEF OnlyJob
<1> QED
  BY <1>6, <1>7

\* No request goes round in circles: each of its own steps brings it closer
\* to its end, nobody else's takes it further away, and it is never more than
\* two steps for each peer, one for each failure and 15 more from its end.
\* With the fairness of the commands this is why every request ends.
THEOREM RequestsRunOut == Spec => RequestsAdvance
<1> DEFINE Bounded == \A j \in Jobs :
                          Left(j) \in 0 .. 2 * Cardinality(Peers) + 15 + MaxFaults
           Forward == \A j \in Jobs : job[j].at # "idle" =>
                         /\ Left(j)' <= Left(j)
                         /\ Step(j) \/ Sweep(j) => Left(j)' < Left(j)
<1>1. IInv => Bounded
  BY LeftType DEF IInv
<1>2. ASSUME IInv, IInv', [Next]_vars, ~UNCHANGED vars
      PROVE  Forward
  <2> SUFFICES ASSUME NEW j \in Jobs, job[j].at # "idle"
               PROVE  /\ Left(j)' <= Left(j)
                      /\ Step(j) \/ Sweep(j) => Left(j)' < Left(j)
    OBVIOUS
  <2>1. /\ TypeOK /\ TypeOK' /\ Left(j) \in Nat /\ Left(j)' \in Nat
    <3>1. TypeOK /\ TypeOK'
      BY <1>2 DEF IInv
    <3>2. /\ StepsLeft(job[j], lock = Stale) \in Nat
          /\ StepsLeft(job'[j], lock' = Stale) \in Nat
      BY <3>1, StaleCostsAStep DEF TypeOK
    <3>3. MaxFaults - faults \in Nat /\ MaxFaults - faults' \in Nat
      <4>1. faults \in 0..MaxFaults /\ faults' \in 0..MaxFaults
        BY <3>1 DEF TypeOK
      <4> QED
        BY <4>1, ReconcileAssumption
    <3> QED
      BY <3>1, <3>2, <3>3 DEF Left
  <2>2. CASE Step(j) \/ Sweep(j)
    BY <1>2, <2>1, <2>2, StepAdvances, SweepAdvances
  <2>3. CASE ~(Step(j) \/ Sweep(j))
    <3>1. SUFFICES Left(j)' <= Left(j)
      BY <2>3
    <3>2. CASE \E k \in Jobs : Step(k) \/ Sweep(k)
      BY <1>2, <2>1, <2>3, <3>2, StepAdvances, SweepAdvances
    <3>3. CASE \E k \in Jobs : BeginPost(k) \/ BeginStatus(k)
      <4>1. PICK k \in Jobs : BeginPost(k) \/ BeginStatus(k)
        BY <3>3
      <4>2. job'[j] = job[j] /\ lock' = lock /\ faults' = faults
        BY <1>2, <4>1 DEF BeginPost, BeginStatus, At, Goto, IInv, TypeOK
      <4> QED
        BY <2>1, <4>2 DEF Left
    <3>4. CASE Crash
      <4>1. job'[j] = Idle /\ Idle \in JobRecord /\ Idle.at = "idle"
        BY <3>4 DEF Crash, Idle, JobRecord, Places
      <4>2. StepsLeft(job'[j], lock' = Stale) = 0 /\ faults' = faults
        BY <3>4, <4>1, StepsLeftAt DEF Crash
      <4>3. /\ StepsLeft(job[j], lock = Stale) \in Nat
            /\ MaxFaults - faults \in Nat
        BY <2>1, LeftType
      <4> QED
        BY <4>2, <4>3 DEF Left
    <3>5. CASE \/ ChangePort
               \/ \E p \in Peers : Create(p) \/ Revoke(p) \/ Expire(p)
      <4>1. /\ job'[j] = job[j] /\ lock' = lock
            /\ faults' = faults \/ faults' = faults + 1
        BY <3>5 DEF ChangePort, Fault, Create, Revoke, Expire
      <4>2. faults \in Nat
        BY <2>1 DEF TypeOK
      <4> QED
        BY <2>1, <4>1, <4>2, OthersStay
    <3> QED
      BY <1>2, <3>2, <3>3, <3>4, <3>5 DEF Next, Jobs
  <2> QED
    BY <2>2, <2>3
<1>3. IInv /\ IInv' /\ [Next]_vars => [Forward]_vars
  BY <1>2
<1> QED
  BY <1>1, <1>3, InductiveInvariant, PTL DEF Spec, RequestsAdvance

-----------------------------------------------------------------------------
(***************************************************************************)
(* The registry of this module is the one module Registry promises.        *)
(***************************************************************************)

\* The registry beside the apply path takes the steps of PeerLife only, for
\* any number of peers and requests.
THEOREM RegistryLives == Spec => RegistryIsPeerLife
<1>1. Init => Life!Init
  BY DEF Init, Life!Init
<1>2. ASSUME TypeOK, [Next]_vars
      PROVE  Life!Next \/ UNCHANGED registry
  <2>1. ASSUME NEW p \in Peers, Create(p)
        PROVE  Life!Create(p)
    BY <2>1 DEF Create, Life!Create
  <2>2. ASSUME NEW p \in Peers, Revoke(p)
        PROVE  Life!End({p})
    BY <1>2, <2>2 DEF Revoke, Life!End, TypeOK
  <2>3. ASSUME NEW p \in Peers, Expire(p)
        PROVE  Life!Expire({p})
    BY <2>3 DEF Expire, Life!Expire
  <2>4. ASSUME NEW j \in Statuses, Sweep(j)
        PROVE  Life!End(Active \cap expired)
    BY <2>4 DEF Sweep, Life!End, Active
  <2>5. ASSUME NEW j \in Jobs, Step(j)
        PROVE  UNCHANGED registry
    BY <2>5 DEF Step, Timed, Apply, TimedApply, registry, LoadRegistry, Intend, AcquireLock,
         ClearStaleLock, LockTimeout, Inspect, Bootstrap, Configure, Raise, Reconfigure,
         Sync, Remove, Verify, Rollback, ReleaseLock, Finish
  <2>6. CASE \/ ChangePort \/ Crash \/ UNCHANGED vars
             \/ \E j \in Posts : BeginPost(j)
             \/ \E j \in Statuses : BeginStatus(j)
    BY <2>6 DEF ChangePort, Crash, BeginPost, BeginStatus, vars, registry
  <2>7. /\ \A p \in Peers : {p} \in SUBSET Peers
        /\ Active \cap expired \in SUBSET Peers
    BY DEF Active
  <2> QED
    BY <1>2, <2>1, <2>2, <2>3, <2>4, <2>5, <2>6, <2>7 DEF Next, Life!Next
<1>3. TypeOK /\ [Next]_vars => [Life!Next]_(Life!vars)
  BY <1>2 DEF Life!vars, registry
<1> QED
  BY <1>1, <1>3, TypeCorrect, PTL DEF Spec, RegistryIsPeerLife, Life!Spec

=============================================================================
