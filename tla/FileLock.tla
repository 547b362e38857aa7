------------------------------ MODULE FileLock ------------------------------
(***************************************************************************)
(* The lock file of withFileLock (packages/engine/src/state.ts), which     *)
(* guards the apply path and the backups.  It is taken by creating the     *)
(* file exclusively and given back by unlinking it.  A caller that finds   *)
(* it there stats it, clears it when it has not been touched for           *)
(* StaleAfter, gives up when its own deadline has passed, or sleeps and    *)
(* tries again.  Stat and unlink name the path, not the file: between the  *)
(* two another caller may have put a new file there.                       *)
(*                                                                         *)
(* All callers live in one process; when it dies the file stays.  Time is  *)
(* kept as ages, which are only told apart up to the limits they are       *)
(* compared with.  A sleeper sleeps until time passes; the calls from an   *)
(* open that failed to the next sleep or open that works take none that    *)
(* counts in minutes.  Work under the lock takes as long as it likes, for  *)
(* ever included.                                                          *)
(*                                                                         *)
(* Definitions marked MUTANT are not part of the specification: each is a  *)
(* definition with a mistake in it that a property has to detect.          *)
(***************************************************************************)
EXTENDS Integers

CONSTANTS
    Callers,      \* concurrent calls of withFileLock on one path
    None,         \* no lock file
    Dead,         \* owner of a lock file that nobody stands behind any more
    StaleAfter,   \* LOCK_STALE_AFTER_MS
    Timeout,      \* options.timeoutMs
    MaxFaults,    \* bound on failing calls
    MaxCrashes    \* bound on crashes

ASSUME FileLockAssumption ==
    /\ None \notin Callers /\ Dead \notin Callers /\ None # Dead
    /\ StaleAfter \in Nat /\ Timeout \in Nat
    /\ MaxFaults \in Nat /\ MaxCrashes \in Nat

VARIABLES
    owner,      \* who created the lock file
    age,        \* time since it was created
    at,         \* where each caller is
    waited,     \* time since each caller called
    contested,  \* a stale file had a live owner or a second finder
    faults,     \* failing calls so far
    crashes     \* crashes so far

vars == <<owner, age, at, waited, contested, faults, crashes>>

\* "retry": to open again, having cleared a stale file.  "again": as
\* "release", but the work threw EEXIST.
Places == {"idle", "open", "stat", "unlink", "retry", "sleep", "hold", "release",
           "again"}

TypeOK ==
    /\ owner \in Callers \cup {None, Dead}
    /\ age \in 0 .. StaleAfter + 1
    /\ at \in [Callers -> Places]
    /\ waited \in [Callers -> 0 .. Timeout]
    /\ contested \in BOOLEAN
    /\ faults \in 0 .. MaxFaults
    /\ crashes \in 0 .. MaxCrashes

Holders == {c \in Callers : at[c] \in {"hold", "release", "again"}}

Goto(c, place) == at' = [at EXCEPT ![c] = place]

Fault == faults < MaxFaults /\ faults' = faults + 1

Init ==
    /\ owner = None
    /\ age = 0
    /\ at = [c \in Callers |-> "idle"]
    /\ waited = [c \in Callers |-> 0]
    /\ contested = FALSE
    /\ faults = 0
    /\ crashes = 0

Call(c) ==
    /\ at[c] = "idle"
    /\ Goto(c, "open")
    /\ waited' = [waited EXCEPT ![c] = 0]
    /\ UNCHANGED <<owner, age, contested, faults, crashes>>

\* MUTANT of Open: flag "w", which opens a file that exists as well.
OpenAnyway(c) ==
    /\ at[c] \in {"open", "retry"}
    /\ owner' = c
    /\ age' = 0
    /\ Goto(c, "hold")
    /\ UNCHANGED <<waited, contested, faults, crashes>>

\* fs.open with flag "wx": fails with EEXIST when the file is there.
Open(c) ==
    /\ at[c] \in {"open", "retry"}
    /\ IF owner = None
       THEN owner' = c /\ age' = 0 /\ Goto(c, "hold")
       ELSE Goto(c, "stat") /\ UNCHANGED <<owner, age>>
    /\ UNCHANGED <<waited, contested, faults, crashes>>

IsStale == owner # None /\ age > StaleAfter

\* Whoever finds the file stale is not the only one, or wrong.
Contest(c) ==
    owner \in Callers \/ \E d \in Callers \ {c} : at[d] = "unlink"

\* MUTANT of Stat: the deadline is checked before staleness.
StatDeadlineFirst(c) ==
    /\ at[c] = "stat"
    /\ Goto(c, CASE waited[c] >= Timeout -> "idle"
                 [] waited[c] < Timeout /\ IsStale -> "unlink"
                 [] OTHER -> "sleep")
    /\ contested' = (contested \/ (waited[c] < Timeout /\ IsStale /\ Contest(c)))
    /\ UNCHANGED <<owner, age, waited, faults, crashes>>

\* MUTANT of Stat: nobody gives up.
StatForever(c) ==
    /\ at[c] = "stat"
    /\ Goto(c, IF IsStale THEN "unlink" ELSE "sleep")
    /\ contested' = (contested \/ (IsStale /\ Contest(c)))
    /\ UNCHANGED <<owner, age, waited, faults, crashes>>

\* After EEXIST: stale, too late, or try again.  A file that is gone by now
\* counts as fresh.
Stat(c) ==
    /\ at[c] = "stat"
    /\ Goto(c, CASE IsStale -> "unlink"
                 [] ~IsStale /\ waited[c] >= Timeout -> "idle"
                 [] OTHER -> "sleep")
    /\ contested' = (contested \/ (IsStale /\ Contest(c)))
    /\ UNCHANGED <<owner, age, waited, faults, crashes>>

\* Nobody is under the lock or about to unlink: what went wrong is over.
Calm ==
    /\ owner \in {None, Dead}
    /\ \A c \in Callers : c \notin Holders /\ at[c] # "unlink"

\* fs.unlink of whatever the path names by now; when it fails, the caller
\* goes on as if it had not.
UnlinkStale(c) ==
    /\ at[c] = "unlink"
    /\ \/ owner' = None /\ UNCHANGED faults
       \/ Fault /\ UNCHANGED owner
    /\ Goto(c, "retry")
    /\ contested' = (contested /\ ~Calm')
    /\ UNCHANGED <<age, waited, crashes>>

\* fn returns or throws; the file is closed.  An EEXIST that fn throws is
\* caught by the handler of open's EEXIST.
EndWork(c) ==
    /\ at[c] = "hold"
    /\ \/ Goto(c, "release") /\ UNCHANGED faults
       \/ Goto(c, "again") /\ Fault
    /\ UNCHANGED <<owner, age, waited, contested, crashes>>

\* The finally unlinks the path, again whatever it names, and swallows a
\* failure; the file then has nobody behind it.
Release(c) ==
    /\ at[c] \in {"release", "again"}
    /\ \/ owner' = None /\ UNCHANGED faults
       \/ Fault /\ owner' = IF owner = c THEN Dead ELSE owner
    /\ Goto(c, IF at[c] = "release" THEN "idle" ELSE "stat")
    /\ contested' = (contested /\ ~Calm')
    /\ UNCHANGED <<age, waited, crashes>>

\* MUTANT of Older: time is counted beyond the limit.
OlderUnbounded(t, limit) == IF t <= limit THEN t + 1 ELSE t

Older(t, limit) == IF t < limit THEN t + 1 ELSE t

\* Time passes, and ends the sleep of those who wait.
Tick ==
    /\ \A c \in Callers : at[c] \notin {"stat", "unlink", "retry"}
    /\ age' = Older(age, StaleAfter + 1)
    /\ waited' = [c \in Callers |-> Older(waited[c], Timeout)]
    /\ at' = [c \in Callers |-> IF at[c] = "sleep" THEN "open" ELSE at[c]]
    /\ UNCHANGED <<owner, contested, faults, crashes>>

\* The process dies with all its callers and is started again.
Crash ==
    /\ crashes < MaxCrashes
    /\ crashes' = crashes + 1
    /\ owner' = IF owner = None THEN None ELSE Dead
    /\ at' = [c \in Callers |-> "idle"]
    /\ contested' = FALSE
    /\ UNCHANGED <<age, waited, faults>>

\* The calls of withFileLock itself.
Step(c) == Open(c) \/ Stat(c) \/ UnlinkStale(c) \/ Release(c)

Next ==
    \/ \E c \in Callers : Call(c) \/ Step(c) \/ EndWork(c)
    \/ Tick
    \/ Crash

(***************************************************************************)
(* File-system calls and timers return, and time passes.  Nobody has to    *)
(* call, and work under the lock need not end: `wg show' and wg-quick run  *)
(* there without a time limit.                                             *)
(***************************************************************************)
Fairness == WF_vars(Tick) /\ \A c \in Callers : WF_vars(Step(c))

Spec == Init /\ [][Next]_vars /\ Fairness

-----------------------------------------------------------------------------
(***************************************************************************)
(* Properties.                                                             *)
(***************************************************************************)

\* Nobody else is under the lock, and the lock file is the holder's own,
\* unless a holder slower than StaleAfter has been found by somebody who
\* waits, or two have found the same stale file, and the lock has not come
\* to rest since.
ExclusiveUnlessContested ==
    ~contested => \A c \in Holders : owner = c /\ Holders = {c}

\* The abstract lock behind the lock file.
Lock == INSTANCE ExclusiveLock WITH Clients <- Callers, inside <- Holders

\* The lock file is an exclusive lock until somebody finds stale the file of
\* a holder that is still at work, or a file that another is about to clear,
\* and again from the moment on when nobody is under it.  Opening it with
\* "wx" takes the lock, the two unlinks that name the path only ever give back
\* one's own or clear a dead owner's, whether they work or fail, and every
\* other call leaves the lock as it is.
ActsAsLock ==
    /\ Lock!Init
    /\ [][~contested => [Lock!Next]_<<owner, Holders>>]_vars

\* A lock file outlives its creator's work only after a crash or an unlink
\* that failed: whoever created it is else still under the lock, whether or
\* not others have been there meanwhile.
LeftoverOnlyByFailure ==
    \/ owner \in Holders \cup {None}
    \/ owner = Dead /\ crashes + faults > 0

\* Every caller whose own work ends gets the lock or gives up, and then
\* leaves, also behind a holder that never comes back.
EveryCallEnds ==
    \A c \in Callers : ([]<>(at[c] # "hold")) => (at[c] # "idle" ~> at[c] = "idle")

\* While callers keep coming, an abandoned file does not block them for
\* ever, although each of them gives up long before the file is stale.
AbandonedIsCleared ==
    ([]<>(\E c \in Callers : at[c] = "open")) => (owner = Dead ~> owner # Dead)

\* "multiple callers contending for the same path serialize" (state.ts), as
\* long as nobody's work takes so long that his file is stale.
CallersSerialize ==
    [](owner \in Holders => age <= StaleAfter) => [](\A c, d \in Holders : c = d)

=============================================================================
