------------------------------ MODULE Backups ------------------------------
(***************************************************************************)
(* The snapshots of createBackupStorage (packages/engine/src/backup.ts):   *)
(* creation with retention, import, deletion, and the safety snapshot of a *)
(* restore, whose other steps are in module Restore.                       *)
(*                                                                         *)
(* All of these run under the backup lock, so there is one at a time (what *)
(* the lock guarantees is in module FileLock).  Snapshots are numbered in  *)
(* the order they are published; a directory is known by which of its two  *)
(* files are there.  fs.rm removes the files one by one, each of which     *)
(* renews the time of the directory that retention sorts by.               *)
(*                                                                         *)
(* Any file-system call, and the update that records the events, may fail; *)
(* the process may die at any moment.  The clock is not set back.          *)
(*                                                                         *)
(* Definitions marked MUTANT are not part of the specification: each is a  *)
(* definition with a mistake in it that a property has to detect.          *)
(***************************************************************************)
EXTENDS Integers, FiniteSets

CONSTANTS
    MaxSnapshots,    \* bound on the snapshots published
    RetentionCount,  \* backupRetentionCount
    ImportTimes,     \* created_at of the manifests that are imported
    MaxFaults,       \* bound on failing calls
    MaxCrashes       \* bound on crashes

(***************************************************************************)
(* env.ts: a retention count of 1 to 1000.                                 *)
(***************************************************************************)
ASSUME BackupsAssumption ==
    /\ MaxSnapshots \in Nat
    /\ RetentionCount \in Nat \ {0}
    /\ ImportTimes \subseteq Nat
    /\ MaxFaults \in Nat /\ MaxCrashes \in Nat

VARIABLES
    published,  \* snapshots published so far: 1 .. published
    dirs,       \* those whose directory is there
    files,      \* the files in each directory
    newer,      \* the directories whose time is later, for each directory
    created,    \* created_at in each manifest
    at, kind,   \* the operation that holds the lock, and where it is
    doomed,     \* snapshots it has still to remove
    removed,    \* snapshots it has removed
    audited,    \* snapshots with a backup.pruned or backup.deleted event
    missed,     \* snapshots removed by an operation that did not get to that
    misread,    \* since the last publication, a deletion could not read a
                \* snapshot when it looked for the newest
    faults, crashes

disk == <<published, dirs, files, newer, created>>
records == <<audited, missed>>
bounds == <<faults, crashes>>
vars == <<disk, at, kind, doomed, removed, records, misread, bounds>>

Both == {"manifest.json", "state.json"}
Kinds == {"create", "import", "safety", "delete"}
Snapshots == 1..MaxSnapshots

TypeOK ==
    /\ published \in 0..MaxSnapshots
    /\ dirs \subseteq 1..published
    /\ files \in [Snapshots -> SUBSET Both]
    /\ newer \in [Snapshots -> SUBSET dirs]
    /\ created \in [Snapshots -> Nat]
    /\ at \in {"idle", "publish", "summary", "list", "remove", "update"}
    /\ kind \in Kinds
    /\ doomed \subseteq dirs
    /\ removed \subseteq 1..published
    /\ audited \subseteq 1..published /\ missed \subseteq 1..published
    /\ misread \in BOOLEAN
    /\ faults \in 0..MaxFaults /\ crashes \in 0..MaxCrashes

-----------------------------------------------------------------------------
\* Directories that buildSnapshotSummary can read, and what an interrupted
\* removal leaves.
Whole == {s \in dirs : files[s] = Both}
Leftovers == dirs \ Whole

\* The order of the directories once the time of s is set to now.
Renewed(s) == [t \in Snapshots |-> IF t \in dirs \ {s} THEN newer[t] \cup {s} ELSE {}]

\* Those that come first when sorted by created_at: imported snapshots keep
\* theirs, so it may be the same for several.
Latest(S) == {s \in S : \A t \in S : created[t] <= created[s]}

Fault == faults < MaxFaults /\ faults' = faults + 1 /\ UNCHANGED crashes

Init ==
    /\ published = 0 /\ dirs = {}
    /\ files = [s \in Snapshots |-> {}]
    /\ newer = [s \in Snapshots |-> {}]
    /\ created = [s \in Snapshots |-> 0]
    /\ at = "idle" /\ kind = "create"
    /\ doomed = {} /\ removed = {}
    /\ audited = {} /\ missed = {}
    /\ misread = FALSE
    /\ faults = 0 /\ crashes = 0

\* The operation ends with an error: what it removed goes unrecorded.
Abandon ==
    /\ at' = "idle"
    /\ doomed' = {} /\ removed' = {}
    /\ missed' = missed \cup removed
    /\ UNCHANGED <<kind, audited, misread>>

Fail == Fault /\ Abandon

-----------------------------------------------------------------------------
(***************************************************************************)
(* snapshotInternal, for a creation or before a restore, and backupImport. *)
(***************************************************************************)
Begin(k) ==
    /\ at = "idle"
    /\ published < MaxSnapshots
    /\ kind' = k
    /\ at' = "publish"
    /\ UNCHANGED <<disk, doomed, removed, records, misread, bounds>>

\* The files are written in a staging directory, which is then renamed: a
\* failure before that leaves nothing among the snapshots.
PublishAt(times) ==
    \/ LET s == published + 1 IN
       /\ published' = s
       /\ dirs' = dirs \cup {s}
       /\ files' = [files EXCEPT ![s] = Both]
       /\ newer' = Renewed(s)
       /\ \E time \in times : created' = [created EXCEPT ![s] = time]
       /\ misread' = FALSE
       /\ at' = "summary"
       /\ UNCHANGED <<kind, doomed, removed, records, bounds>>
    \/ Fail /\ UNCHANGED disk

\* writeSnapshotToStaging: the manifest has the current time.
PublishOwn == at = "publish" /\ kind # "import" /\ PublishAt({published + 1})

\* backupImport: the manifest keeps its created_at, which may come from
\* another host's clock.
PublishImported == at = "publish" /\ kind = "import" /\ PublishAt(ImportTimes)

Publish == PublishOwn \/ PublishImported

\* buildSnapshotSummary; only a creation goes on to retention, and the rest
\* of a restore is elsewhere.
Summarize ==
    /\ at = "summary"
    /\ \/ /\ at' = CASE kind = "create" -> "list"
                     [] kind = "import" -> "update"
                     [] OTHER -> "idle"
          /\ UNCHANGED <<kind, doomed, removed, records, misread, bounds>>
       \/ Fail
    /\ UNCHANGED disk

-----------------------------------------------------------------------------
(***************************************************************************)
(* pruneOldSnapshots and the removal by backupDelete.                      *)
(***************************************************************************)
\* MUTANT of Excess: sorted the other way round.
ExcessNewest(S) ==
    {s \in S : Cardinality({t \in S : s \in newer[t]}) >= RetentionCount}

\* All but the RetentionCount newest by the time of their directory, whole
\* or not.
Excess(S) == {s \in S : Cardinality(newer[s] \cap S) >= RetentionCount}

\* A directory whose stat fails is left out of the list.
ListSnapshots ==
    /\ at = "list"
    /\ \/ /\ at' = "remove"
          /\ \/ doomed' = Excess(dirs) /\ UNCHANGED bounds
             \/ \E s \in dirs : doomed' = Excess(dirs \ {s}) /\ Fault
          /\ UNCHANGED <<kind, removed, records, misread>>
       \/ Fail
    /\ UNCHANGED disk

\* MUTANT of Refused: the newest is not looked for.
RefusedNever(s, summaries) == FALSE

\* The snapshot comes first in the list of those that can be read.  Among
\* several of the same created_at the sort decides: then it may be refused
\* or not, and a refusal changes nothing.
Refused(s, summaries) == Latest(summaries) = {s}

\* backupDelete.  A snapshot without a manifest is not found, and one whose
\* files cannot be read is left out of the list.
BeginDelete(s) ==
    /\ at = "idle"
    /\ s \in dirs /\ "manifest.json" \in files[s]
    /\ \/ ~Refused(s, Whole) /\ UNCHANGED <<misread, bounds>>
       \/ /\ \E t \in Whole : ~Refused(s, Whole \ {t})
          /\ misread' = TRUE
          /\ Fault
    /\ kind' = "delete"
    /\ at' = "remove"
    /\ doomed' = {s}
    /\ UNCHANGED <<disk, removed, records>>

\* The snapshots are removed one after the other, the newest first.
Removing(s) ==
    /\ at = "remove"
    /\ s \in doomed /\ newer[s] \cap doomed = {}

RemoveFile(s, file) ==
    /\ Removing(s)
    /\ file \in files[s]
    /\ files' = [files EXCEPT ![s] = @ \ {file}]
    /\ newer' = Renewed(s)
    /\ UNCHANGED <<published, dirs, created, at, kind, doomed, removed, records,
                   misread, bounds>>

\* MUTANT of RemoveDir: the list still holds the snapshot.
RemoveDirOnly(s) ==
    /\ Removing(s)
    /\ files[s] = {}
    /\ dirs' = dirs \ {s}
    /\ removed' = removed \cup {s}
    /\ newer' = [t \in Snapshots |-> IF t = s THEN {} ELSE newer[t] \ {s}]
    /\ created' = [created EXCEPT ![s] = 0]
    /\ UNCHANGED <<published, files, at, kind, doomed, records, misread, bounds>>

RemoveDir(s) ==
    /\ Removing(s)
    /\ files[s] = {}
    /\ dirs' = dirs \ {s}
    /\ doomed' = doomed \ {s}
    /\ removed' = removed \cup {s}
    /\ newer' = [t \in Snapshots |-> IF t = s THEN {} ELSE newer[t] \ {s}]
    /\ created' = [created EXCEPT ![s] = 0]
    /\ UNCHANGED <<published, files, at, kind, records, misread, bounds>>

\* MUTANT of RemoveFails: the snapshot is reported although it stayed.
RemoveFailsReported(s) ==
    /\ Removing(s)
    /\ \/ /\ kind = "create"
          /\ doomed' = doomed \ {s}
          /\ removed' = removed \cup {s}
          /\ Fault
          /\ UNCHANGED <<at, kind, records, misread>>
       \/ kind = "delete" /\ Fail
    /\ UNCHANGED disk

\* Retention goes on with the next; a deletion fails.
RemoveFails(s) ==
    /\ Removing(s)
    /\ \/ /\ kind = "create"
          /\ doomed' = doomed \ {s}
          /\ Fault
          /\ UNCHANGED <<at, kind, removed, records, misread>>
       \/ kind = "delete" /\ Fail
    /\ UNCHANGED disk

EndRemoval ==
    /\ at = "remove" /\ doomed = {}
    /\ at' = "update"
    /\ UNCHANGED <<disk, kind, doomed, removed, records, misread, bounds>>

\* store.update with the events, after which the operation answers.
Update ==
    /\ at = "update"
    /\ \/ /\ audited' = audited \cup removed
          /\ removed' = {}
          /\ at' = "idle"
          /\ UNCHANGED <<kind, doomed, missed, misread, bounds>>
       \/ Fail
    /\ UNCHANGED disk

\* The engine dies; the lock file it leaves is cleared in time.
Crash ==
    /\ at # "idle"
    /\ crashes < MaxCrashes
    /\ crashes' = crashes + 1
    /\ Abandon
    /\ UNCHANGED <<disk, faults>>

-----------------------------------------------------------------------------
Remove ==
    \E s \in doomed :
        \/ \E file \in Both : RemoveFile(s, file)
        \/ RemoveDir(s)
        \/ RemoveFails(s)

Step == Publish \/ Summarize \/ ListSnapshots \/ Remove \/ EndRemoval \/ Update

Next ==
    \/ \E k \in Kinds \ {"delete"} : Begin(k)
    \/ \E s \in dirs : BeginDelete(s)
    \/ Step
    \/ Crash

Spec == Init /\ [][Next]_vars

-----------------------------------------------------------------------------
(***************************************************************************)
(* Properties.                                                             *)
(***************************************************************************)

\* From each publication on there is a whole snapshot: neither retention,
\* nor a deletion, nor a removal cut short takes the last.  The one way to
\* lose it is a deletion that cannot read a snapshot when it looks for the
\* newest (listBackupsForStorage leaves it out of the list), and then only
\* until the next snapshot is published.
WholeSnapshotStays ==
    published > 0 /\ ~misread => Whole # {}

\* Retention dooms a snapshot only if RetentionCount were published after
\* it, but for what interrupted removals have left: those directories look
\* new and push out whole ones.
RetentionKeepsRecent ==
    [][at = "list" => \A s \in doomed' :
            published - s >= RetentionCount - Cardinality(Leftovers)]_vars

\* The events tell what is gone: no snapshot that is there is recorded as
\* removed, and one that is gone is recorded, or about to be, unless the
\* operation that removed it failed or died before it could.
RemovalsAudited ==
    /\ audited \cap dirs = {}
    /\ 1..published \ dirs \subseteq audited \cup missed \cup removed
    /\ at = "idle" => removed = {}

=============================================================================
