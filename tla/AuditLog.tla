------------------------------ MODULE AuditLog ------------------------------
(***************************************************************************)
(* The durable audit log: AuditStoreImpl (packages/engine/src/             *)
(* audit-store.ts), fed by StateStore.appendEvent and the emitAudit of the *)
(* apply and networking paths, and read by GET /v1/audit.                  *)
(*                                                                         *)
(* Events are numbered as they are emitted.  append chains each event      *)
(* behind the one before on writeQueue, so the events still pending are    *)
(* written lowest first, one at a time: open, write, sync, stat and, when  *)
(* audit.log has grown past maxBytes, close, rename and prune.  A query    *)
(* lists the directory and then reads one file after the other, beside all *)
(* that.                                                                   *)
(*                                                                         *)
(* createdAt is a time in milliseconds that the request takes before its   *)
(* events are emitted: a sweep or a cascade stamps all of them with one,   *)
(* and a request that waits in between (for keys, say) may be overtaken.   *)
(*                                                                         *)
(* A file is the set of events that can be parsed in it, its size in       *)
(* lines, and whether it ends in a torn line.  Rotated files are named by  *)
(* the time of rotation; rotations are more than a millisecond apart and   *)
(* the clock is not set back, so names are numbered in order.  The process *)
(* may die at any moment; loss of power is not modelled.                   *)
(*                                                                         *)
(* Definitions marked MUTANT are not part of the specification: each is a  *)
(* definition with a mistake in it that a property has to detect.          *)
(***************************************************************************)
EXTENDS Integers, Sequences, FiniteSets

CONSTANTS
    MaxEvents,       \* bound on the events emitted
    MaxLines,        \* lines after which audit.log exceeds maxBytes
    RetentionCount,  \* rotated files to keep
    Limit,           \* events a query returns at most
    CreatedAt,       \* createdAt of each event
    None,            \* no file
    MaxFaults,       \* bound on failing file-system calls
    MaxCrashes,      \* bound on crashes
    MaxQueries       \* bound on queries

Events == 1..MaxEvents

(***************************************************************************)
(* env.ts: a retention count of 1 to 100, a rotation size of at least 1024 *)
(* bytes; query clamps the limit to 1 .. 5000.                             *)
(***************************************************************************)
ASSUME AuditLogAssumption ==
    /\ MaxEvents \in Nat /\ MaxLines \in Nat
    /\ RetentionCount \in Nat \ {0} /\ Limit \in Nat \ {0}
    /\ CreatedAt \in [Events -> Nat]
    /\ MaxFaults \in Nat /\ MaxCrashes \in Nat /\ MaxQueries \in Nat
    /\ None \notin [events: SUBSET Events, size: Nat, torn: BOOLEAN]

VARIABLES
    settled,   \* what became of each event
    writing,   \* the event doAppend works on, 0 if none
    at,        \* where doAppend is
    handle,    \* this.handle: null, open, or one whose close failed
    current,   \* audit.log
    rotated,   \* events in each rotated file, also in those removed since
    present,   \* rotated files that are still there
    doomed,    \* rotated files pruneOldFiles has still to unlink
    cut,       \* events whose line was cut short
    faults, crashes,
    reading,   \* where the query is
    toRead,    \* rotated files the query has still to read
    found,     \* events the query has read
    head,      \* those of them that were in audit.log
    snapshot,  \* history: events in the log when the query read audit.log, or
               \* when it listed the files if there was no audit.log
    raced,     \* history: a file was renamed or unlinked since the query listed them
    queries    \* queries begun

log == <<writing, at, handle, current, rotated, present, doomed, cut>>
query == <<reading, toRead, found, head, snapshot, queries>>
vars == <<settled, log, faults, crashes, query, raced>>

File == [events: SUBSET Events, size: Nat, torn: BOOLEAN]
EmptyFile == [events |-> {}, size |-> 0, torn |-> FALSE]

Outcomes == {"none", "pending", "ok", "failed", "lost"}
Places == {"idle", "open", "write", "sync", "stat", "close", "rename",
           "list", "unlink"}

TypeOK ==
    /\ settled \in [Events -> Outcomes]
    /\ writing \in 0..MaxEvents
    /\ at \in Places
    /\ handle \in {"null", "open", "dead"}
    /\ current \in File \cup {None}
    /\ rotated \in Seq(SUBSET Events)
    /\ present \subseteq DOMAIN rotated
    /\ doomed \subseteq present
    /\ cut \subseteq Events
    /\ faults \in 0..MaxFaults /\ crashes \in 0..MaxCrashes
    /\ reading \in {"idle", "current", "rotated", "done"}
    /\ toRead \subseteq DOMAIN rotated
    /\ found \subseteq Events /\ head \subseteq found /\ snapshot \subseteq Events
    /\ raced \in BOOLEAN
    /\ queries \in 0..MaxQueries

-----------------------------------------------------------------------------
Pending == {e \in Events : settled[e] = "pending"}

InCurrent == IF current = None THEN {} ELSE current.events

\* Every event a reader of all files could find ...
Logged == InCurrent \cup UNION {rotated[n] : n \in present}

\* ... and with the files that retention has removed.
Written == InCurrent \cup UNION {rotated[n] : n \in DOMAIN rotated}

\* The n highest of the rotated names S.
Newest(S, n) == {x \in S : Cardinality({y \in S : y > x}) < n}

Fault == faults < MaxFaults /\ faults' = faults + 1

Init ==
    /\ settled = [e \in Events |-> "none"]
    /\ writing = 0 /\ at = "idle"
    /\ handle = "null"
    /\ current = None
    /\ rotated = <<>> /\ present = {} /\ doomed = {} /\ cut = {}
    /\ faults = 0 /\ crashes = 0
    /\ reading = "idle" /\ toRead = {} /\ found = {} /\ head = {} /\ snapshot = {}
    /\ raced = FALSE /\ queries = 0

-----------------------------------------------------------------------------
(***************************************************************************)
(* Writing.                                                                *)
(***************************************************************************)
\* appendEvent and emitAudit hand the event to sink.write, which queues it
\* and returns: nobody waits for it.
Emit(e) ==
    /\ settled[e] = "none"
    /\ \A f \in 1 .. e - 1 : settled[f] # "none"
    /\ settled' = [settled EXCEPT ![e] = "pending"]
    /\ UNCHANGED <<log, faults, crashes, query, raced>>

\* MUTANT of BeginAppend: appends do not wait for each other.
BeginAnyAppend(e) ==
    /\ at = "idle"
    /\ e \in Pending
    /\ writing' = e
    /\ at' = IF handle = "null" THEN "open" ELSE "write"
    /\ UNCHANGED <<settled, handle, current, rotated, present, doomed, cut,
                   faults, crashes, query, raced>>

\* append: the event's turn comes; the handle may still be open.
BeginAppend(e) ==
    /\ at = "idle"
    /\ e \in Pending /\ \A f \in Pending : e <= f
    /\ writing' = e
    /\ at' = IF handle = "null" THEN "open" ELSE "write"
    /\ UNCHANGED <<settled, handle, current, rotated, present, doomed, cut,
                   faults, crashes, query, raced>>

\* append: the outcome of doAppend; a failure is logged and swallowed.
Settle(outcome) ==
    /\ settled' = [settled EXCEPT ![writing] = outcome]
    /\ writing' = 0
    /\ at' = "idle"

\* MUTANT of Fail: the rejection stays on writeQueue.
FailForGood ==
    /\ Fault
    /\ at' = "rejected"
    /\ UNCHANGED <<settled, writing>>

Fail == Fault /\ Settle("failed")

Goto(place) == at' = place /\ UNCHANGED <<settled, writing, faults>>

\* MUTANT of Open: flag "w", which truncates.
OpenTruncating ==
    /\ at = "open"
    /\ handle' = "open"
    /\ current' = EmptyFile
    /\ Goto("write")
    /\ UNCHANGED <<rotated, present, doomed, cut, crashes, query, raced>>

\* mkdir and open with flag "a".
Open ==
    /\ at = "open"
    /\ \/ /\ handle' = "open"
          /\ current' = IF current = None THEN EmptyFile ELSE current
          /\ Goto("write")
       \/ Fail /\ UNCHANGED <<handle, current>>
    /\ UNCHANGED <<rotated, present, doomed, cut, crashes, query, raced>>

\* A line appended to a torn one makes one line that cannot be parsed.
WithLine(f, e) ==
    [events |-> IF f.torn THEN f.events ELSE f.events \cup {e},
     size |-> f.size + 1, torn |-> FALSE]

\* A write that stopped half-way.
Torn(f) == [events |-> f.events, size |-> f.size + 1, torn |-> TRUE]

CutShort == current' = Torn(current) /\ cut' = cut \cup {writing}

\* The number of bytes written is not looked at, so a short write counts as
\* success.  A handle whose close failed cannot be written to.
Write ==
    /\ at = "write"
    /\ \/ /\ handle = "open"
          /\ current' = WithLine(current, writing)
          /\ Goto("sync")
          /\ UNCHANGED cut
       \/ /\ handle = "open"
          /\ CutShort
          /\ Fault /\ at' = "sync" /\ UNCHANGED <<settled, writing>>
       \/ /\ handle = "open"
          /\ CutShort \/ UNCHANGED <<current, cut>>
          /\ Fail
       \/ /\ handle = "dead"
          /\ Settle("failed")
          /\ UNCHANGED <<current, cut, faults>>
    /\ UNCHANGED <<handle, rotated, present, doomed, crashes, query, raced>>

\* The line is in the file also when sync or stat fails.
Sync ==
    /\ at = "sync"
    /\ Goto("stat") \/ Fail
    /\ UNCHANGED <<handle, current, rotated, present, doomed, cut, crashes,
                   query, raced>>

Stat ==
    /\ at = "stat"
    /\ \/ current.size > MaxLines /\ Goto("close")
       \/ current.size <= MaxLines /\ Settle("ok") /\ UNCHANGED faults
       \/ Fail
    /\ UNCHANGED <<handle, current, rotated, present, doomed, cut, crashes,
                   query, raced>>

-----------------------------------------------------------------------------
(***************************************************************************)
(* doRotate and pruneOldFiles, part of the append that triggered them.     *)
(* this.handle is cleared after close: a close that fails leaves it set.   *)
(***************************************************************************)
Close ==
    /\ at = "close"
    /\ \/ handle' = "null" /\ Goto("rename")
       \/ handle' = "dead" /\ Fail
    /\ UNCHANGED <<current, rotated, present, doomed, cut, crashes, query, raced>>

Rename ==
    /\ at = "rename"
    /\ \/ /\ rotated' = Append(rotated, current.events)
          /\ present' = present \cup {Len(rotated) + 1}
          /\ current' = None
          /\ raced' = (raced \/ reading # "idle")
          /\ Goto("list")
       \/ Fail /\ UNCHANGED <<rotated, present, current, raced>>
    /\ UNCHANGED <<handle, doomed, cut, crashes, query>>

\* MUTANT of Excess: the oldest files are kept.
ExcessNewest ==
    {n \in present : Cardinality({m \in present : m < n}) >= RetentionCount}

\* Rotated files beyond the newest RetentionCount.
Excess == present \ Newest(present, RetentionCount)

ListRotated ==
    /\ at = "list"
    /\ \/ doomed' = Excess /\ Goto("unlink")
       \/ Fail /\ UNCHANGED doomed
    /\ UNCHANGED <<handle, current, rotated, present, cut, crashes, query, raced>>

\* MUTANT of Unlink: the list is walked from the start again.
UnlinkAgain(n) ==
    /\ at = "unlink"
    /\ n \in doomed /\ \A m \in doomed : m <= n
    /\ present' = present \ {n}
    /\ raced' = (raced \/ reading # "idle")
    /\ UNCHANGED <<settled, writing, at, handle, current, rotated, doomed, cut,
                   faults, crashes, query>>

\* The newest of the excess files goes first; an unlink that fails is
\* logged and the file stays until the next rotation.
Unlink(n) ==
    /\ at = "unlink"
    /\ n \in doomed /\ \A m \in doomed : m <= n
    /\ doomed' = doomed \ {n}
    /\ \/ /\ present' = present \ {n}
          /\ raced' = (raced \/ reading # "idle")
          /\ UNCHANGED faults
       \/ Fault /\ UNCHANGED <<present, raced>>
    /\ UNCHANGED <<settled, writing, at, handle, current, rotated, cut, crashes,
                   query>>

EndAppend ==
    /\ at = "unlink" /\ doomed = {}
    /\ Settle("ok")
    /\ UNCHANGED <<handle, current, rotated, present, doomed, cut, faults,
                   crashes, query, raced>>

-----------------------------------------------------------------------------
(***************************************************************************)
(* query.  Names sort audit.log before the rotated files; a file that is   *)
(* gone by the time it is read is skipped.  The filter by action, actor    *)
(* and time is left out: it is the same for every event.                   *)
(***************************************************************************)
ListFiles ==
    /\ reading = "idle"
    /\ queries < MaxQueries
    /\ queries' = queries + 1
    /\ reading' = IF current = None THEN "rotated" ELSE "current"
    /\ toRead' = present
    /\ found' = {} /\ head' = {} /\ snapshot' = Logged
    /\ raced' = FALSE
    /\ UNCHANGED <<settled, log, faults, crashes>>

ReadCurrent ==
    /\ reading = "current"
    /\ found' = InCurrent /\ head' = InCurrent
    /\ snapshot' = Logged
    /\ reading' = "rotated"
    /\ UNCHANGED <<settled, log, faults, crashes, toRead, queries, raced>>

ReadRotated(n) ==
    /\ reading = "rotated"
    /\ n \in toRead /\ \A m \in toRead : n <= m
    /\ toRead' = toRead \ {n}
    /\ found' = IF n \in present THEN found \cup rotated[n] ELSE found
    /\ UNCHANGED <<settled, log, faults, crashes, reading, head, snapshot,
                   queries, raced>>

\* The sort puts e before f: a later createdAt first and, since it is stable,
\* events of the same millisecond as they were read: those of audit.log, then
\* those of the rotated files, each from the oldest to the newest.
Before(e, f) ==
    \/ CreatedAt[e] > CreatedAt[f]
    \/ /\ CreatedAt[e] = CreatedAt[f]
       /\ \/ e \in head /\ f \notin head
          \/ (e \in head <=> f \in head) /\ e < f

\* MUTANT of EndQuery: cut at the limit as they were read, before the sort.
EndQueryUnsorted ==
    /\ reading = "rotated" /\ toRead = {}
    /\ found' = {e \in found : Cardinality({f \in found :
                   \/ f \in head /\ e \notin head
                   \/ (f \in head <=> e \in head) /\ f < e}) < Limit}
    /\ head' = head \cap found'
    /\ reading' = "done"
    /\ UNCHANGED <<settled, log, faults, crashes, toRead, snapshot, queries, raced>>

\* Sorted by createdAt, newest first, and cut at the limit.
EndQuery ==
    /\ reading = "rotated" /\ toRead = {}
    /\ found' = {e \in found : Cardinality({f \in found : Before(f, e)}) < Limit}
    /\ head' = head \cap found'
    /\ reading' = "done"
    /\ UNCHANGED <<settled, log, faults, crashes, toRead, snapshot, queries, raced>>

Answer ==
    /\ reading = "done"
    /\ reading' = "idle"
    /\ found' = {} /\ head' = {} /\ snapshot' = {} /\ raced' = FALSE
    /\ UNCHANGED <<settled, log, faults, crashes, toRead, queries>>

\* The engine dies, or is stopped: nothing flushes the queue.  A write in
\* progress may have been cut short.
Crash ==
    /\ crashes < MaxCrashes
    /\ crashes' = crashes + 1
    /\ settled' = [e \in Events |->
          IF settled[e] = "pending" THEN "lost" ELSE settled[e]]
    /\ \/ at = "write" /\ handle = "open" /\ CutShort
       \/ UNCHANGED <<current, cut>>
    /\ writing' = 0 /\ at' = "idle" /\ handle' = "null" /\ doomed' = {}
    /\ reading' = "idle" /\ toRead' = {} /\ found' = {} /\ head' = {} /\ snapshot' = {}
    /\ raced' = FALSE
    /\ UNCHANGED <<rotated, present, faults, queries>>

-----------------------------------------------------------------------------
Rotate ==
    \/ Close \/ Rename \/ ListRotated
    \/ \E n \in present : Unlink(n)
    \/ EndAppend

DoAppend ==
    \/ \E e \in Events : BeginAppend(e)
    \/ Open \/ Write \/ Sync \/ Stat
    \/ Rotate

Query ==
    \/ ListFiles \/ ReadCurrent
    \/ \E n \in toRead : ReadRotated(n)
    \/ EndQuery \/ Answer

Next ==
    \/ \E e \in Events : Emit(e)
    \/ DoAppend
    \/ Query
    \/ Crash

\* File-system calls return and promises run on; nobody has to emit or ask.
Spec == Init /\ [][Next]_vars /\ WF_vars(DoAppend)

-----------------------------------------------------------------------------
(***************************************************************************)
(* Properties.                                                             *)
(***************************************************************************)

\* The line of e was cut short, or it follows one that was, with nothing but
\* failed or lost events between them.
Garbled(e) ==
    \E f \in cut : f <= e /\ \A g \in f + 1 .. e - 1 :
                                settled[g] \in {"failed", "lost"}

\* An event whose append ended well is in the log, through any rotations,
\* failures and crashes, with one exception: its line, or the one right
\* before it, was cut short, and both are unreadable.
LoggedIsReadable ==
    \A e \in Events : settled[e] = "ok" => e \in Written \/ Garbled(e)

\* The order of the files is the order of the events: all of a rotated file
\* is older than all of the next one and than audit.log, and nothing still
\* pending is older than something written.
LogIsInOrder ==
    /\ \A m, n \in DOMAIN rotated : m < n =>
          \A e \in rotated[m], f \in rotated[n] : e < f
    /\ \A n \in DOMAIN rotated : \A e \in rotated[n], f \in InCurrent : e < f
    /\ \A e \in Written, f \in Pending : e <= f

\* Retention takes a file only while RetentionCount newer ones are there,
\* and those stay, although failures and crashes may interrupt it half-way.
RetentionKeepsNewest ==
    \A n \in DOMAIN rotated \ present :
        Cardinality({m \in present : m > n}) >= RetentionCount

\* A query that no rotation or retention overlapped answers from the log as
\* it was at one moment, although each file is read at another time: with all
\* of its events or, if there are more, with Limit of them, and none that it
\* leaves out was created later than one it returns.  Which of the events of
\* one millisecond it leaves out is not promised: the sort keeps the older.
\* A query that was overlapped may miss the events of a file renamed or
\* removed under it but invents none.
QueryIsSnapshot ==
    reading = "done" =>
        /\ found \subseteq Written
        /\ Cardinality(found) <= Limit
        /\ ~raced =>
              /\ found \subseteq snapshot
              /\ \A e \in snapshot \ found :
                    /\ Cardinality(found) = Limit
                    /\ \A f \in found : CreatedAt[e] <= CreatedAt[f]

\* An append is settled once, and never before an older event: whoever sees
\* that an event failed or was lost can tell what the log has without it.
EventsSettleInOrder ==
    /\ [](\A e, f \in Events :
             e < f /\ settled[f] \in {"ok", "failed", "lost"} =>
                settled[e] \in {"ok", "failed", "lost"})
    /\ [][\A e \in Events : settled[e] \in {"ok", "failed", "lost"} =>
             settled'[e] = settled[e]]_vars

\* The steps doAppend has at most ahead of it, rotation and pruning included,
\* when there are n rotated files and k of them to unlink.
Rank == [idle |-> 0, unlink |-> 1, list |-> 2, rename |-> 4, close |-> 5,
         stat |-> 6, sync |-> 7, write |-> 8, open |-> 9]

StepsLeft(place, n, k) ==
    Rank[place] + (IF place = "idle" THEN 0 ELSE IF place = "unlink" THEN k ELSE n)

Left == StepsLeft(at, Cardinality(present), Cardinality(doomed))

\* No append goes round in circles, whatever fails in it: every step of
\* doAppend brings it closer to its outcome, and neither queries nor further
\* events keep it from there.
AppendsAdvance ==
    /\ [](Left \in Nat)
    /\ [][at # "idle" => /\ Left' <= Left
                         /\ DoAppend => Left' < Left]_vars

\* Once calls have stopped failing, an event that is settled can be read, but
\* for two things that failures leave behind: a handle whose close failed,
\* with which every append fails until the engine is started again, and a torn
\* line, which swallows the next one although its append ends well.
CalmAppendsSucceed ==
    [][faults = MaxFaults /\ crashes = MaxCrashes =>
         \A e \in Pending : settled'[e] # "pending" =>
            IF handle = "dead" THEN settled'[e] = "failed"
            ELSE /\ settled'[e] = "ok"
                 /\ (e \in Written \/ Garbled(e))']_vars

\* No failure blocks the queue: everything handed over is settled in the end
\* (there are finitely many events here, so the queue runs empty again and
\* again), and once calls have stopped failing it is readable, with the two
\* exceptions of CalmAppendsSucceed.
EveryEventSettles ==
    /\ []<>(Pending = {})
    /\ CalmAppendsSucceed

=============================================================================
