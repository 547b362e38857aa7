--------------------------- MODULE FileLockProofs ---------------------------
(***************************************************************************)
(* The lock of module FileLock excludes, for any number of callers and any *)
(* limits, until somebody finds stale the file of a holder at work or one  *)
(* that another is about to clear, and again once the lock is at rest.     *)
(* How long work takes under the lock is left open.                        *)
(***************************************************************************)
EXTENDS FileLock, TLAPS

(***************************************************************************)
(* While nothing is contested, a holder is alone and owns the file, and    *)
(* whoever is about to clear a stale file is the only one, and the file is *)
(* a dead owner's.                                                         *)
(***************************************************************************)
Alone == \A c \in Holders : owner = c /\ Holders = {c}

OneFinder ==
    \A c \in Callers : at[c] = "unlink" =>
        /\ owner = Dead
        /\ \A d \in Callers : at[d] = "unlink" => d = c

IInv ==
    /\ TypeOK
    /\ LeftoverOnlyByFailure
    /\ ~contested => Alone /\ OneFinder

\* Ageing stays within its limit.
LEMMA OlderType ==
    ASSUME NEW n \in Nat, NEW t \in 0 .. n
    PROVE  Older(t, n) \in 0 .. n
BY DEF Older

\* What the places of one caller say about who is under the lock.
LEMMA HoldersAfter ==
    ASSUME TypeOK, NEW c \in Callers, NEW x \in Places, Goto(c, x)
    PROVE  /\ Holders' = IF x \in {"hold", "release", "again"}
                         THEN Holders \cup {c} ELSE Holders \ {c}
           /\ at' \in [Callers -> Places]
           /\ \A d \in Callers :
                  at'[d] = "unlink" <=>
                      (d = c /\ x = "unlink") \/ (d # c /\ at[d] = "unlink")
<1>1. at' \in [Callers -> Places] /\ at'[c] = x
      /\ (\A d \in Callers : d # c => at'[d] = at[d])
  BY DEF TypeOK, Goto
<1> QED
  BY <1>1 DEF Holders

\* A fault leaves the count within its bound, and above zero.
LEMMA FaultType ==
    ASSUME TypeOK, Fault
    PROVE  faults' \in 0 .. MaxFaults /\ faults' > 0
BY FileLockAssumption DEF TypeOK, Fault

\* A sum above zero stays so when a summand grows.
LEMMA StaysPositive ==
    \A k, m, n \in Nat : m <= n /\ k + m > 0 => k + n > 0
OBVIOUS

LEMMA InitEstablishes == Init => IInv
<1> SUFFICES ASSUME Init PROVE IInv
  OBVIOUS
<1>1. TypeOK
  <2>1. contested \in BOOLEAN
    BY DEF Init
  <2>2. /\ owner = None /\ age \in 0 .. StaleAfter + 1
        /\ waited \in [Callers -> 0 .. Timeout]
        /\ faults \in 0 .. MaxFaults /\ crashes \in 0 .. MaxCrashes
    BY FileLockAssumption DEF Init
  <2>3. at \in [Callers -> Places]
    BY DEF Init, Places
  <2> QED
    BY <2>1, <2>2, <2>3 DEF TypeOK
<1>2. Holders = {} /\ \A c \in Callers : at[c] # "unlink"
  BY DEF Init, Holders
<1> QED
  BY <1>1, <1>2 DEF Init, IInv, Alone, OneFinder, LeftoverOnlyByFailure

LEMMA StepKeeps ==
    ASSUME IInv, NEW c \in Callers, Call(c) \/ Step(c) \/ EndWork(c)
    PROVE  IInv'
<1> USE FileLockAssumption
<1>1. TypeOK /\ c \notin {None, Dead} /\ LeftoverOnlyByFailure
  BY DEF IInv
<1>2. CASE Call(c)
  <2>1. Holders' = Holders /\ at' \in [Callers -> Places]
        /\ (\A d \in Callers : at'[d] = "unlink" => at[d] = "unlink")
    BY <1>1, <1>2, HoldersAfter DEF Call, Places, Holders
  <2>2. TypeOK'
    <3>1. waited' \in [Callers -> 0 .. Timeout]
      BY <1>1, <1>2 DEF Call, TypeOK
    <3> QED
      BY <1>1, <1>2, <2>1, <3>1 DEF Call, TypeOK
  <2> QED
    BY <1>1, <1>2, <2>1, <2>2
       DEF IInv, Call, Alone, OneFinder, LeftoverOnlyByFailure
<1>3. CASE Open(c) /\ owner = None
  <2>1. Holders' = Holders \cup {c} /\ at' \in [Callers -> Places]
        /\ (\A d \in Callers : at'[d] = "unlink" => at[d] = "unlink")
    BY <1>1, <1>3, HoldersAfter DEF Open, Places
  <2>2. TypeOK' /\ LeftoverOnlyByFailure'
    BY <1>1, <1>3, <2>1 DEF Open, TypeOK, LeftoverOnlyByFailure
  <2>3. ASSUME ~contested PROVE Alone' /\ OneFinder'
    <3>1. Holders = {} /\ \A d \in Callers : at[d] # "unlink"
      BY <1>1, <1>3, <2>3 DEF IInv, Alone, OneFinder, Holders
    <3>2. Holders' = {c} /\ owner' = c
      BY <1>3, <2>1, <3>1 DEF Open
    <3> QED
      BY <2>1, <3>1, <3>2 DEF Alone, OneFinder
  <2> QED
    BY <1>3, <2>2, <2>3 DEF IInv, Open
<1>4. CASE Open(c) /\ owner # None
  <2>1. Holders' = Holders /\ at' \in [Callers -> Places]
        /\ (\A d \in Callers : at'[d] = "unlink" => at[d] = "unlink")
    BY <1>1, <1>4, HoldersAfter DEF Open, Places, Holders
  <2> QED
    BY <1>1, <1>4, <2>1
       DEF IInv, Open, TypeOK, Alone, OneFinder, LeftoverOnlyByFailure
<1>5. CASE Stat(c) /\ IsStale
  <2>1. /\ Holders' = Holders /\ at' \in [Callers -> Places]
        /\ \A d \in Callers : at'[d] = "unlink" <=> (d = c \/ at[d] = "unlink")
    BY <1>1, <1>5, HoldersAfter DEF Stat, Places, Holders
  <2>2. TypeOK' /\ LeftoverOnlyByFailure'
    BY <1>1, <1>5, <2>1 DEF Stat, TypeOK, LeftoverOnlyByFailure
  <2>3. ASSUME ~contested' PROVE Alone' /\ OneFinder'
    <3>1. /\ ~contested /\ owner \notin Callers
          /\ \A d \in Callers \ {c} : at[d] # "unlink"
      BY <1>5, <2>3 DEF Stat, Contest
    <3>2. owner = Dead
      BY <1>1, <1>5, <3>1 DEF IsStale, TypeOK
    <3> QED
      BY <1>5, <2>1, <3>1, <3>2 DEF IInv, Stat, Alone, OneFinder
  <2> QED
    BY <2>2, <2>3 DEF IInv
<1>6. CASE Stat(c) /\ ~IsStale
  <2>1. PICK x \in {"idle", "sleep"} : Goto(c, x)
    BY <1>6 DEF Stat
  <2>2. Holders' = Holders /\ at' \in [Callers -> Places]
        /\ (\A d \in Callers : at'[d] = "unlink" => at[d] = "unlink")
    BY <1>1, <1>6, <2>1, HoldersAfter DEF Stat, Places, Holders
  <2> QED
    BY <1>1, <1>6, <2>2
       DEF IInv, Stat, TypeOK, Alone, OneFinder, LeftoverOnlyByFailure
<1>7. CASE UnlinkStale(c)
  <2>1. /\ Holders' = Holders /\ at' \in [Callers -> Places]
        /\ \A d \in Callers : at'[d] = "unlink" <=> (d # c /\ at[d] = "unlink")
    BY <1>1, <1>7, HoldersAfter DEF UnlinkStale, Places, Holders
  <2>2. /\ owner' \in {None, owner} /\ faults' \in 0 .. MaxFaults
        /\ faults' >= faults
    BY <1>1, <1>7, FaultType DEF UnlinkStale, TypeOK, Fault
  <2>3. TypeOK'
    <3>1. contested' \in BOOLEAN
      BY <1>7 DEF UnlinkStale
    <3> QED
      BY <1>1, <1>7, <2>1, <2>2, <3>1 DEF UnlinkStale, TypeOK
  <2>5. LeftoverOnlyByFailure'
    <3>1. crashes' = crashes /\ (crashes + faults > 0 => crashes' + faults' > 0)
      <4>1. /\ crashes' = crashes /\ crashes \in Nat
            /\ faults \in Nat /\ faults' \in Nat
        BY <1>1, <1>7, <2>2 DEF UnlinkStale, TypeOK
      <4>2. faults <= faults'
        BY <2>2, <4>1
      <4> QED
        BY <4>1, <4>2, StaysPositive
    <3> QED
      BY <1>1, <2>1, <2>2, <3>1 DEF LeftoverOnlyByFailure
  <2>4. ASSUME ~contested' PROVE Alone' /\ OneFinder'
    <3>1. CASE ~contested
      <4>1. owner = Dead /\ Holders = {}
        BY <1>1, <1>7, <3>1 DEF IInv, UnlinkStale, Alone, OneFinder, Holders
      <4>2. \A d \in Callers : at'[d] # "unlink"
        BY <1>7, <2>1, <3>1 DEF IInv, UnlinkStale, OneFinder
      <4> QED
        BY <2>1, <4>1, <4>2 DEF Alone, OneFinder
    <3>2. CASE contested
      <4>1. Calm'
        BY <1>7, <2>4, <3>2 DEF UnlinkStale
      <4> QED
        BY <4>1 DEF Calm, Alone, OneFinder, Holders
    <3> QED
      BY <3>1, <3>2
  <2> QED
    BY <2>3, <2>4, <2>5 DEF IInv
<1>8. CASE EndWork(c)
  <2>1. PICK x \in {"release", "again"} : Goto(c, x)
    BY <1>8 DEF EndWork
  <2>2. Holders' = Holders /\ at' \in [Callers -> Places]
        /\ (\A d \in Callers : at'[d] = "unlink" => at[d] = "unlink")
    BY <1>1, <1>8, <2>1, HoldersAfter DEF EndWork, Places, Holders
  <2>3. faults' \in 0 .. MaxFaults /\ faults' >= faults
    BY <1>1, <1>8, FaultType DEF EndWork, TypeOK, Fault
  <2>4. TypeOK'
    BY <1>1, <1>8, <2>2, <2>3 DEF EndWork, TypeOK
  <2>5. LeftoverOnlyByFailure'
    <3>1. owner' = owner /\ (crashes + faults > 0 => crashes' + faults' > 0)
      <4>1. /\ crashes' = crashes /\ crashes \in Nat /\ owner' = owner
            /\ faults \in Nat /\ faults' \in Nat
        BY <1>1, <1>8, <2>3 DEF EndWork, TypeOK
      <4>2. faults <= faults'
        BY <2>3, <4>1
      <4> QED
        BY <4>1, <4>2, StaysPositive
    <3> QED
      BY <1>1, <2>2, <3>1 DEF LeftoverOnlyByFailure
  <2> QED
    BY <1>1, <1>8, <2>2, <2>4, <2>5 DEF IInv, EndWork, Alone, OneFinder
<1>9. CASE Release(c)
  <2>1. PICK x \in {"idle", "stat"} : Goto(c, x)
    BY <1>9 DEF Release
  <2>2. /\ Holders' = Holders \ {c} /\ at' \in [Callers -> Places]
        /\ \A d \in Callers : at'[d] = "unlink" => at[d] = "unlink"
    BY <1>1, <1>9, <2>1, HoldersAfter DEF Release, Places
  <2>3. \/ owner' = None /\ faults' = faults
        \/ /\ owner' = IF owner = c THEN Dead ELSE owner
           /\ faults' \in 0 .. MaxFaults /\ crashes + faults' > 0
    BY <1>1, <1>9, FaultType DEF Release, TypeOK
  <2>4. TypeOK'
    BY <1>1, <1>9, <2>2, <2>3 DEF Release, TypeOK
  <2>5. LeftoverOnlyByFailure'
    BY <1>1, <1>9, <2>2, <2>3, <2>4
       DEF Release, TypeOK, LeftoverOnlyByFailure
  <2>6. ASSUME ~contested' PROVE Alone' /\ OneFinder'
    <3>1. CASE ~contested
      <4>1. owner = c /\ Holders = {c}
        BY <1>9, <3>1 DEF IInv, Release, Alone, Holders
      <4>2. \A d \in Callers : at[d] # "unlink"
        BY <1>1, <3>1, <4>1 DEF IInv, OneFinder
      <4> QED
        BY <2>2, <4>1, <4>2 DEF Alone, OneFinder
    <3>2. CASE contested
      <4>1. Calm'
        BY <1>9, <2>6, <3>2 DEF Release
      <4> QED
        BY <4>1 DEF Calm, Alone, OneFinder, Holders
    <3> QED
      BY <3>1, <3>2
  <2> QED
    BY <2>4, <2>5, <2>6 DEF IInv
<1> QED
  BY <1>2, <1>3, <1>4, <1>5, <1>6, <1>7, <1>8, <1>9 DEF Step

\* Time wakes sleepers and moves nobody else.
LEMMA TickMoves ==
    ASSUME TypeOK, Tick
    PROVE  /\ at' \in [Callers -> Places] /\ Holders' = Holders
           /\ \A d \in Callers : at'[d] = "unlink" => at[d] = "unlink"
BY DEF TypeOK, Tick, Places, Holders

LEMMA TickKeeps == IInv /\ Tick => IInv'
<1> SUFFICES ASSUME IInv, Tick PROVE IInv'
  OBVIOUS
<1> USE FileLockAssumption
<1>1. TypeOK /\ owner' = owner /\ crashes' = crashes /\ faults' = faults
      /\ contested' = contested
  BY DEF IInv, Tick
<1>2. age' \in 0 .. StaleAfter + 1
  BY <1>1, OlderType, StaleAfter + 1 \in Nat DEF Tick, TypeOK
<1>3. waited' \in [Callers -> 0 .. Timeout]
  BY <1>1, OlderType DEF Tick, TypeOK
<1>4. TypeOK'
  BY <1>1, <1>2, <1>3, TickMoves DEF TypeOK
<1> QED
  BY <1>1, <1>4, TickMoves DEF IInv, LeftoverOnlyByFailure, Alone, OneFinder

LEMMA CrashKeeps == IInv /\ Crash => IInv'
<1> SUFFICES ASSUME IInv, Crash PROVE IInv'
  OBVIOUS
<1> USE FileLockAssumption
<1>1. TypeOK /\ TypeOK' /\ crashes' + faults' > 0
  <2>1. TypeOK /\ crashes' \in 0 .. MaxCrashes /\ crashes' > 0
    BY DEF IInv, Crash, TypeOK
  <2>2. at' \in [Callers -> Places]
    BY DEF Crash, Places
  <2>3. faults' \in 0 .. MaxFaults /\ crashes' + faults' > 0
    BY <2>1 DEF Crash, TypeOK
  <2>4. contested' \in BOOLEAN
    BY DEF Crash
  <2> QED
    BY <2>1, <2>2, <2>3, <2>4 DEF Crash, TypeOK
<1>2. Holders' = {} /\ \A c \in Callers : at'[c] # "unlink"
  BY <1>1 DEF Crash, Holders
<1>3. LeftoverOnlyByFailure'
  BY <1>1 DEF Crash, LeftoverOnlyByFailure, TypeOK
<1> QED
  BY <1>1, <1>2, <1>3 DEF IInv, Alone, OneFinder

\* The inductive invariant of the lock.
THEOREM InductiveInvariant == Spec => []IInv
<1>1. IInv /\ [Next]_vars => IInv'
  <2> SUFFICES ASSUME IInv, [Next]_vars PROVE IInv'
    OBVIOUS
  <2>1. CASE UNCHANGED vars
    BY <2>1 DEF vars, IInv, TypeOK, Alone, OneFinder, Holders,
                LeftoverOnlyByFailure
  <2> QED
    BY <2>1, StepKeeps, TickKeeps, CrashKeeps DEF Next
<1> QED
  BY <1>1, InitEstablishes, PTL DEF Spec

\* Every reachable state of lock file and callers is well-typed.
THEOREM TypeCorrect == Spec => []TypeOK
<1>1. IInv => TypeOK
  BY DEF IInv
<1> QED
  BY <1>1, InductiveInvariant, PTL

\* Mutual exclusion, with each holder owning the lock file, unless a live
\* file was found stale, or one file by two, and the lock has not rested
\* since.
THEOREM LockExcludes == Spec => []ExclusiveUnlessContested
<1>1. IInv => ExclusiveUnlessContested
  BY DEF IInv, Alone, ExclusiveUnlessContested
<1> QED
  BY <1>1, InductiveInvariant, PTL

\* No lock file outlives its creator's work, except after a crash or an
\* unlink that failed.
THEOREM NoLeftover == Spec => []LeftoverOnlyByFailure
<1>1. IInv => LeftoverOnlyByFailure
  BY DEF IInv
<1> QED
  BY <1>1, InductiveInvariant, PTL

-----------------------------------------------------------------------------
(***************************************************************************)
(* The lock file implements ExclusiveLock.                                 *)
(***************************************************************************)

LEMMA StepIsLocks ==
    ASSUME IInv, NEW c \in Callers, Call(c) \/ Step(c) \/ EndWork(c), ~contested
    PROVE  [Lock!Next]_<<owner, Holders>>
<1> USE FileLockAssumption DEF Places
<1>1. TypeOK /\ c \notin {None, Dead} /\ Alone /\ OneFinder
  BY DEF IInv
<1>2. CASE Call(c) \/ Stat(c)
  <2>1. PICK x \in {"open", "unlink", "idle", "sleep"} : Goto(c, x)
    BY <1>2 DEF Call, Stat
  <2>2. c \notin Holders
    BY <1>2 DEF Call, Stat, Holders
  <2>3. Holders' = Holders
    BY <1>1, <2>1, <2>2, HoldersAfter
  <2> QED
    BY <1>2, <2>3 DEF Call, Stat
<1>3. CASE Open(c) /\ owner = None
  <2>1. Holders = {}
    BY <1>1, <1>3 DEF Alone, Holders
  <2>2. Holders' = {c}
    BY <1>1, <1>3, <2>1, HoldersAfter DEF Open
  <2>3. Lock!Acquire(c)
    BY <1>3, <2>1, <2>2 DEF Open, Lock!Acquire
  <2> QED
    BY <2>3 DEF Lock!Next
<1>4. CASE Open(c) /\ owner # None
  <2>1. Goto(c, "stat") /\ c \notin Holders
    BY <1>4 DEF Open, Holders
  <2>2. Holders' = Holders
    BY <1>1, <2>1, HoldersAfter
  <2> QED
    BY <1>4, <2>2 DEF Open
<1>5. CASE UnlinkStale(c)
  <2>1. owner = Dead /\ Holders = {}
    BY <1>1, <1>5 DEF UnlinkStale, OneFinder, Alone, Holders
  <2>2. Holders' = {}
    BY <1>1, <1>5, <2>1, HoldersAfter DEF UnlinkStale
  <2>3. CASE owner' = None
    <3>1. Lock!Clear
      BY <2>1, <2>2, <2>3 DEF Lock!Clear
    <3> QED
      BY <3>1 DEF Lock!Next
  <2>4. CASE owner' = owner
    BY <2>1, <2>2, <2>4
  <2> QED
    BY <1>5, <2>3, <2>4 DEF UnlinkStale
<1>6. CASE EndWork(c)
  <2>1. PICK x \in {"release", "again"} : Goto(c, x)
    BY <1>6 DEF EndWork
  <2>2. c \in Holders
    BY <1>6 DEF EndWork, Holders
  <2>3. Holders' = Holders
    BY <1>1, <2>1, <2>2, HoldersAfter
  <2> QED
    BY <1>6, <2>3 DEF EndWork
<1>7. CASE Release(c)
  <2>1. owner = c /\ Holders = {c}
    BY <1>1, <1>7 DEF Release, Alone, Holders
  <2>2. PICK x \in {"idle", "stat"} : Goto(c, x)
    BY <1>7 DEF Release
  <2>3. Holders' = {}
    BY <1>1, <2>1, <2>2, HoldersAfter
  <2>4. Lock!Leave(c)
    BY <1>7, <2>1, <2>3 DEF Release, Lock!Leave
  <2> QED
    BY <2>4 DEF Lock!Next
<1> QED
  BY <1>2, <1>3, <1>4, <1>5, <1>6, <1>7 DEF Step

LEMMA NextIsLocks ==
    ASSUME IInv, [Next]_vars, ~contested
    PROVE  [Lock!Next]_<<owner, Holders>>
<1>1. CASE Tick
  BY <1>1, TickMoves DEF Tick, IInv
<1>2. CASE UNCHANGED vars
  BY <1>2 DEF vars, Holders
<1>3. CASE Crash
  <2>1. Holders' = {}
    BY <1>3 DEF Crash, Holders
  <2>2. Lock!Die
    BY <1>3, <2>1 DEF Crash, Lock!Die
  <2> QED
    BY <2>2 DEF Lock!Next
<1> QED
  BY <1>1, <1>2, <1>3, StepIsLocks DEF Next

LEMMA InitIsLocks == Init => Lock!Init
BY DEF Init, Lock!Init, Holders

\* withFileLock is an exclusive lock, step by step, until somebody finds
\* stale a file that is not his alone to clear, and again once the lock is
\* at rest.
THEOREM FileLockActsAsLock == Spec => ActsAsLock
<1>1. IInv /\ [Next]_vars => [~contested => [Lock!Next]_<<owner, Holders>>]_vars
  BY NextIsLocks
<1> QED
  BY <1>1, InitIsLocks, InductiveInvariant, PTL DEF Spec, ActsAsLock

\* Where nothing is ever contested, every behaviour of lock file and callers
\* is one of ExclusiveLock.
THEOREM LockImplements == Spec /\ []~contested => Lock!Spec
<1>1. IInv /\ ~contested /\ [Next]_vars => [Lock!Next]_(Lock!vars)
  BY NextIsLocks DEF Lock!vars
<1> QED
  BY <1>1, InitIsLocks, InductiveInvariant, PTL DEF Spec, Lock!Spec

=============================================================================
