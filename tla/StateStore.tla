----------------------------- MODULE StateStore -----------------------------
(***************************************************************************)
(* How StateStore (packages/engine/src/state.ts) keeps state.json under    *)
(* concurrent requests, file-system call by file-system call.              *)
(*                                                                         *)
(* A call is one run of store.update (a writer, once) or of store.load     *)
(* outside the write queue (a reader: GET handlers, /health, /metrics,     *)
(* again and again).  Writers take their turn through writeQueue, a chain  *)
(* of promises that is a FIFO queue; readers do not queue.  Both load: the *)
(* directory is listed, every *.tmp file in the listing is unlinked,       *)
(* state.json is read, and it is created when it is missing.  A writer     *)
(* then changes its own copy and saves it: temporary file, rename.         *)
(*                                                                         *)
(* A document is the list of updates applied to it, with the call that     *)
(* made its server key pair.  The engine may crash between any two calls   *)
(* and is restarted; what it had in memory is gone, the files stay.  Loss  *)
(* of power is not modelled: the code never calls fsync.                   *)
(*                                                                         *)
(* Definitions marked MUTANT are not part of the specification: each is a  *)
(* definition with a mistake in it that a property has to detect.          *)
(***************************************************************************)
EXTENDS Integers, Sequences, SequencesExt, FiniteSets

CONSTANTS
    Writers,     \* update requests, one store.update each
    Readers,     \* concurrent users of store.load outside the queue
    None,        \* no file
    Partial,     \* a file that was opened and is not fully written
    MaxCrashes   \* bound on the number of crashes

Calls == Writers \cup Readers

\* What a whole state.json holds: who made the server key pair, and the
\* updates in effect.
Documents == [server : Calls, applied : Seq(Writers)]

ASSUME StateStoreAssumption ==
    /\ Writers \cap Readers = {}
    /\ None # Partial
    /\ None \notin Documents /\ Partial \notin Documents
    /\ MaxCrashes \in Nat

\* A run of the engine gets finitely many requests at a time.
ASSUME WritersAssumption == IsFiniteSet(Writers)

VARIABLES
    disk,      \* content of state.json
    temp,      \* content of each writer's temporary file, None if not there
    queue,     \* writeQueue: the running update and those behind it
    pc,        \* where each call is
    stray,     \* *.tmp files each call still has to unlink
    doc,       \* the document each call holds in memory
    floor,     \* updates acknowledged when each reader started
    crashes    \* crashes so far

vars == <<disk, temp, queue, pc, stray, doc, floor, crashes>>

Loading == {"list", "unlink", "read", "create", "fill", "reread", "unparsable"}
Saving == {"mutate", "open", "write", "rename", "saved", "failed"}
Answered == {"acked", "rejected", "lost"}
WriterPlaces == {"new", "queued"} \cup Loading \cup Saving \cup Answered
ReaderPlaces == {"idle", "served"} \cup Loading

IsDocument(d) == d \notin {None, Partial}

TypeOK ==
    /\ disk \in Documents \cup {None, Partial}
    /\ temp \in [Writers -> Documents \cup {None, Partial}]
    /\ queue \in Seq(Writers)
    /\ pc \in [Calls -> WriterPlaces \cup ReaderPlaces]
    /\ \A w \in Writers : pc[w] \in WriterPlaces
    /\ \A r \in Readers : pc[r] \in ReaderPlaces
    /\ stray \in [Calls -> SUBSET Writers]
    /\ doc \in [Calls -> Documents \cup {None}]
    /\ floor \in [Readers -> SUBSET Writers]
    /\ crashes \in 0..MaxCrashes

-----------------------------------------------------------------------------
Goto(c, label) == pc' = [pc EXCEPT ![c] = label]

\* Where a call goes on when its load has returned, or has thrown.
Loaded(c) == IF c \in Writers THEN "mutate" ELSE "served"
Rejecting(c) == IF c \in Writers THEN "failed" ELSE "idle"

Acked == {w \in Writers : pc[w] = "acked"}

Init ==
    /\ disk = None
    /\ temp = [w \in Writers |-> None]
    /\ queue = <<>>
    /\ pc = [c \in Calls |-> IF c \in Writers THEN "new" ELSE "idle"]
    /\ stray = [c \in Calls |-> {}]
    /\ doc = [c \in Calls |-> None]
    /\ floor = [r \in Readers |-> {}]
    /\ crashes = 0

\* update: a request joins writeQueue as soon as it calls update.
Enqueue(w) ==
    /\ pc[w] = "new"
    /\ queue' = Append(queue, w)
    /\ Goto(w, "queued")
    /\ UNCHANGED <<disk, temp, stray, doc, floor, crashes>>

\* MUTANT of BeginUpdate: nobody waits for the update ahead.
BeginAtOnce(w) ==
    /\ pc[w] = "queued"
    /\ Goto(w, "list")
    /\ UNCHANGED <<disk, temp, queue, stray, doc, floor, crashes>>

\* update: await previous is over once the update ahead has released.
BeginUpdate(w) ==
    /\ pc[w] = "queued"
    /\ w = Head(queue)
    /\ Goto(w, "list")
    /\ UNCHANGED <<disk, temp, queue, stray, doc, floor, crashes>>

\* A GET handler, /health or /metrics calls store.load directly.
BeginRead(r) ==
    /\ pc[r] = "idle"
    /\ floor' = [floor EXCEPT ![r] = Acked]
    /\ Goto(r, "list")
    /\ UNCHANGED <<disk, temp, queue, stray, doc, crashes>>

-----------------------------------------------------------------------------
(***************************************************************************)
(* load.  The unlinks run concurrently and each is awaited; a file that is *)
(* no longer there is no error.                                            *)
(***************************************************************************)
ListTemps(c) ==
    /\ pc[c] = "list"
    /\ stray' = [stray EXCEPT ![c] = {w \in Writers : temp[w] # None}]
    /\ Goto(c, "unlink")
    /\ UNCHANGED <<disk, temp, queue, doc, floor, crashes>>

UnlinkTemp(c, w) ==
    /\ pc[c] = "unlink"
    /\ w \in stray[c]
    /\ stray' = [stray EXCEPT ![c] = @ \ {w}]
    /\ temp' = [temp EXCEPT ![w] = None]
    /\ UNCHANGED <<disk, queue, pc, doc, floor, crashes>>

UnlinksDone(c) ==
    /\ pc[c] = "unlink"
    /\ stray[c] = {}
    /\ Goto(c, "read")
    /\ UNCHANGED <<disk, temp, queue, stray, doc, floor, crashes>>

\* MUTANT of TakeDocument: whatever is in the file is taken for a document.
TakeAnything(c) ==
    /\ doc' = [doc EXCEPT ![c] = disk]
    /\ Goto(c, Loaded(c))

\* What a call has in hand after reading state.json and parsing it.
TakeDocument(c) ==
    /\ doc' = [doc EXCEPT ![c] = IF IsDocument(disk) THEN disk ELSE None]
    /\ Goto(c, IF IsDocument(disk) THEN Loaded(c) ELSE "unparsable")

\* readFile and JSON.parse; ENOENT leads to createInitialStateIfMissing.
ReadState(c) ==
    /\ pc[c] = "read"
    /\ IF disk = None
       THEN Goto(c, "create") /\ UNCHANGED doc
       ELSE TakeDocument(c)
    /\ UNCHANGED <<disk, temp, queue, stray, floor, crashes>>

\* MUTANT of CreateInitial: flag "w", which truncates a file that exists.
CreateAnyway(c) ==
    /\ pc[c] = "create"
    /\ disk' = Partial
    /\ Goto(c, "fill")
    /\ UNCHANGED <<temp, queue, stray, doc, floor, crashes>>

\* createInitialStateIfMissing: writeFile with flag "wx" opens the file
\* only if there is none, and writes into it afterwards.
CreateInitial(c) ==
    /\ pc[c] = "create"
    /\ IF disk = None
       THEN disk' = Partial /\ Goto(c, "fill")
       ELSE Goto(c, "reread") /\ UNCHANGED disk
    /\ UNCHANGED <<temp, queue, stray, doc, floor, crashes>>

FillInitial(c) ==
    /\ pc[c] = "fill"
    /\ disk' = [server |-> c, applied |-> <<>>]
    /\ doc' = [doc EXCEPT ![c] = disk']
    /\ Goto(c, Loaded(c))
    /\ UNCHANGED <<temp, queue, stray, floor, crashes>>

\* The call that lost the race reads what the winner has written so far.
RereadState(c) ==
    /\ pc[c] = "reread"
    /\ TakeDocument(c)
    /\ UNCHANGED <<disk, temp, queue, stray, floor, crashes>>

\* JSON.parse threw, or the first state.json could not be written: load
\* rejects, and with it the request.  Whatever is in the file stays, so that
\* half a document keeps every later call from loading.
RejectLoad(c) ==
    /\ pc[c] \in {"fill", "unparsable"}
    /\ Goto(c, Rejecting(c))
    /\ UNCHANGED <<disk, temp, queue, stray, doc, floor, crashes>>

ReturnRead(r) ==
    /\ pc[r] = "served"
    /\ doc' = [doc EXCEPT ![r] = None]
    /\ floor' = [floor EXCEPT ![r] = {}]
    /\ Goto(r, "idle")
    /\ UNCHANGED <<disk, temp, queue, stray, crashes>>

-----------------------------------------------------------------------------
\* update: mutate changes the copy in memory, or throws before save.
Mutate(w) ==
    /\ pc[w] = "mutate"
    /\ \/ /\ doc' = [doc EXCEPT ![w].applied = Append(@, w)]
          /\ Goto(w, "open")
       \/ Goto(w, "failed") /\ UNCHANGED doc
    /\ UNCHANGED <<disk, temp, queue, stray, floor, crashes>>

\* atomicWriteFile: writeFile creates the temporary file ...
OpenTemp(w) ==
    /\ pc[w] = "open"
    /\ temp' = [temp EXCEPT ![w] = Partial]
    /\ Goto(w, "write")
    /\ UNCHANGED <<disk, queue, stray, doc, floor, crashes>>

\* ... and fills it, which succeeds even when it has been unlinked since.
WriteTemp(w) ==
    /\ pc[w] = "write"
    /\ temp' = [temp EXCEPT ![w] = IF @ = None THEN None ELSE doc[w]]
    /\ Goto(w, "rename")
    /\ UNCHANGED <<disk, queue, stray, doc, floor, crashes>>

\* A full disk: the temporary file is removed and the error thrown on.
WriteFails(w) ==
    /\ pc[w] = "write"
    /\ temp' = [temp EXCEPT ![w] = None]
    /\ Goto(w, "failed")
    /\ UNCHANGED <<disk, queue, stray, doc, floor, crashes>>

\* MUTANT of RenameTemp: ENOENT is ignored.
RenameOrIgnore(w) ==
    /\ pc[w] = "rename"
    /\ disk' = IF temp[w] = None THEN disk ELSE temp[w]
    /\ temp' = [temp EXCEPT ![w] = None]
    /\ Goto(w, "saved")
    /\ UNCHANGED <<queue, stray, doc, floor, crashes>>

\* rename(2) over state.json, or ENOENT when the file has been unlinked.
RenameTemp(w) ==
    /\ pc[w] = "rename"
    /\ IF temp[w] = None
       THEN Goto(w, "failed") /\ UNCHANGED <<disk, temp>>
       ELSE /\ disk' = temp[w]
            /\ temp' = [temp EXCEPT ![w] = None]
            /\ Goto(w, "saved")
    /\ UNCHANGED <<queue, stray, doc, floor, crashes>>

\* MUTANT of Release: the queue is not released when the update failed.
ReleaseWhenSaved(w) ==
    /\ pc[w] \in {"saved", "failed"}
    /\ queue' = IF pc[w] = "saved" THEN Tail(queue) ELSE queue
    /\ Goto(w, IF pc[w] = "saved" THEN "acked" ELSE "rejected")
    /\ doc' = [doc EXCEPT ![w] = None]
    /\ UNCHANGED <<disk, temp, stray, floor, crashes>>

\* update: finally releases the queue, and the request is answered.
Release(w) ==
    /\ pc[w] \in {"saved", "failed"}
    /\ queue' = Tail(queue)
    /\ Goto(w, IF pc[w] = "saved" THEN "acked" ELSE "rejected")
    /\ doc' = [doc EXCEPT ![w] = None]
    /\ UNCHANGED <<disk, temp, stray, floor, crashes>>

\* The process dies and is started again: memory is lost, files are kept.
Crash ==
    /\ crashes < MaxCrashes
    /\ crashes' = crashes + 1
    /\ queue' = <<>>
    /\ pc' = [c \in Calls |->
          IF c \in Readers THEN "idle"
          ELSE IF pc[c] \in {"new"} \cup Answered THEN pc[c]
          ELSE "lost"]
    /\ stray' = [c \in Calls |-> {}]
    /\ doc' = [c \in Calls |-> None]
    /\ floor' = [r \in Readers |-> {}]
    /\ UNCHANGED <<disk, temp>>

-----------------------------------------------------------------------------
Load(c) ==
    \/ ListTemps(c)
    \/ \E w \in Writers : UnlinkTemp(c, w)
    \/ UnlinksDone(c)
    \/ ReadState(c)
    \/ CreateInitial(c)
    \/ FillInitial(c)
    \/ RereadState(c)
    \/ RejectLoad(c)

Update(w) ==
    \/ BeginUpdate(w)
    \/ Load(w)
    \/ Mutate(w)
    \/ OpenTemp(w)
    \/ WriteTemp(w)
    \/ WriteFails(w)
    \/ RenameTemp(w)
    \/ Release(w)

Next ==
    \/ \E w \in Writers : Enqueue(w) \/ Update(w)
    \/ \E r \in Readers : BeginRead(r) \/ Load(r) \/ ReturnRead(r)
    \/ Crash

(***************************************************************************)
(* Every file-system call returns and every promise that is resolved runs  *)
(* its continuation; no request has to be made and nothing has to crash.   *)
(***************************************************************************)
Fairness ==
    /\ \A w \in Writers : WF_vars(Update(w))
    /\ \A r \in Readers : WF_vars(Load(r) \/ ReturnRead(r))

Spec == Init /\ [][Next]_vars /\ Fairness

-----------------------------------------------------------------------------
(***************************************************************************)
(* Properties.                                                             *)
(***************************************************************************)
AppliedTo(d) == IF IsDocument(d) THEN d.applied ELSE <<>>

\* The abstract state behind the concrete one.
Undecided == IF queue # <<>> /\ pc[Head(queue)] = "saved"
             THEN Tail(queue) ELSE queue

Outcome(place) == IF place = "new" THEN "none"
                  ELSE IF place = "saved" THEN "committed"
                  ELSE IF place \in Answered THEN place
                  ELSE "waiting"

Atomic == INSTANCE AtomicStore WITH
    applied <- AppliedTo(disk),
    waiting <- Undecided,
    outcome <- [w \in Writers |-> Outcome(pc[w])]

\* Updates are serialised: the updates in state.json are what AtomicStore
\* has applied, although each one reads, changes and replaces the whole
\* file and readers delete temporary files under it.  An update leaves the
\* abstract queue when its rename takes effect, or when it is rejected.
SerialUpdates == Atomic!Spec

\* What a client was told is true from then on, across crashes and whatever
\* runs beside it: an update it was told succeeded is in state.json, and one
\* it was told failed is not, then or later: also when another call created
\* the file at the same time, or removed the temporary file of the update.
AnswersAreTrue ==
    /\ Acked \subseteq ToSet(AppliedTo(disk))
    /\ \A w \in Writers : pc[w] = "rejected" => w \notin ToSet(AppliedTo(disk))

\* A read that starts after an update was acknowledged returns it, and
\* every document that is returned has the one server key pair.
ReadsAreCurrent ==
    \A r \in Readers : pc[r] = "served" =>
        /\ floor[r] \subseteq ToSet(doc[r].applied)
        /\ IsDocument(disk)
        /\ doc[r].server = disk.server
        /\ IsPrefix(doc[r].applied, disk.applied)

\* The steps a call has at most ahead of it once it is its turn.
Rank == [new |-> 0, idle |-> 0, acked |-> 0, rejected |-> 0, lost |-> 0,
         saved |-> 1, failed |-> 1, served |-> 1, unparsable |-> 2, rename |-> 2,
         write |-> 3, open |-> 4, mutate |-> 5, fill |-> 6, reread |-> 6,
         create |-> 7, read |-> 8, unlink |-> 9, list |-> 10, queued |-> 11]

StepsLeft(place, files) ==
    Rank[place] + (IF place = "unlink" THEN Cardinality(files)
                   ELSE IF place \in {"list", "queued"} THEN Cardinality(Writers)
                   ELSE 0)

Left(c) == StepsLeft(pc[c], stray[c])

\* The steps of one call.
TakesStep(c) == IF c \in Writers THEN Update(c) ELSE Load(c) \/ ReturnRead(c)

\* No call goes round in circles: neither the race to create state.json nor
\* the clean-up of temporary files that others keep making sends it back.
\* It needs at most one step for each temporary file and 11 more, and what
\* other calls do never adds to them.
CallsAdvance ==
    /\ [](\A c \in Calls : Left(c) \in 0 .. Cardinality(Writers) + 11)
    /\ [][\A c \in Calls : pc[c] \notin {"new", "idle"} =>
             /\ Left(c)' <= Left(c)
             /\ TakesStep(c) => Left(c)' < Left(c)]_vars

\* Nobody is overtaken in the write queue and nobody is forgotten in it:
\* while an update waits, the one at the head of the queue is under way or
\* free to start, and the queue only ever loses its head, when that update
\* is answered, or everything, in a crash.
QueueServesInOrder ==
    /\ [](\A w \in Writers :
             /\ pc[w] \in {"queued"} \cup Loading \cup Saving <=> w \in ToSet(queue)
             /\ pc[w] \in Loading \cup Saving => w = Head(queue))
    /\ [][\/ queue' = queue
          \/ \E w \in Writers : pc[w] = "new" /\ queue' = Append(queue, w)
          \/ /\ queue # <<>> /\ queue' = Tail(queue)
             /\ pc'[Head(queue)] \in {"acked", "rejected"}
          \/ crashes' > crashes /\ queue' = <<>>]_vars

\* Every update that was queued is answered, and every read returns: no
\* failure ahead of a request leaves the write queue blocked.
EveryRequestAnswered ==
    /\ \A w \in Writers : pc[w] = "queued" ~> pc[w] \in Answered
    /\ \A r \in Readers : pc[r] # "idle" ~> pc[r] = "idle"

=============================================================================
