------------------------------ MODULE JournalLog ------------------------------
(***************************************************************************)
(* The journal of a session on disk: opening it (open.ts, paths.ts), the   *)
(* replay (replay.ts), the repair of a torn tail (recovery.ts) and the     *)
(* serial appends of the one writer (writer.ts), over a file system that   *)
(* loses what was not synced when the power fails.                         *)
(*                                                                         *)
(* The path log.jsonl names a file; a process works on the file it         *)
(* opened, which the path may have stopped naming.  A file is its complete *)
(* lines, the torn record that may follow them, and how many lines have    *)
(* been synced.  A record is known by the id of its event; the hash chain  *)
(* is the id of the predecessor.  The writer lease is the lock that        *)
(* WriterLease is shown to implement (ExclusiveLease).                     *)
(***************************************************************************)
EXTENDS Naturals, Sequences

CONSTANTS
  Procs, NoProc,  \* the commands started on the session; none of them
  MaxEvents,      \* bound: events written over all processes
  MaxFiles,       \* bound: files ever made under the path (1 + repairs begun)
  OpenAlone       \* TRUE: no command opens the log while another one opens it

ASSUME NoProcAssumption == NoProc \notin Procs
ASSUME BoundsAssumption == MaxEvents \in Nat /\ MaxFiles \in Nat \ {0}
ASSUME FlagAssumption   == OpenAlone \in BOOLEAN

Events  == 1..MaxEvents
NoEvent == 0
Files   == 1..MaxFiles
NoFile  == 0

VARIABLES
  path,      \* the file the path names
  durable,   \* the file it names after a power loss (last synced directory)
  lines,     \* lines[f]: the complete records of f
  torn,      \* torn[f]: the event whose record is cut short after them
  synced,    \* synced[f]: how many lines survive a power loss
  files,     \* how many files have been made
  events,    \* how many events have been made
  saved,     \* the torn records published in the recovery CAS
  writer,    \* the holder of the writer lease
  pc,        \* pc[p]: where p is
  fd,        \* fd[p]: the file p has open
  mem,       \* mem[p]: the records p has replayed and appended
  temp,      \* temp[p]: p's repair file
  acked,     \* history: the events whose append returned
  returned   \* history: the events an append or an open has returned

disk  == <<path, durable, lines, torn, synced, files, saved>>
local == <<pc, fd, mem, temp>>
vars  == <<path, durable, lines, torn, synced, files, events, saved, writer,
           pc, fd, mem, temp, acked, returned>>

Record == [id : Events, seq : Nat, prev : Events \cup {NoEvent},
           tail : Events \cup {NoEvent}]

Opening   == {"booted", "opened", "replaying"}
Repairing == {"publishing", "copying", "syncing_temp", "swapping", "syncing_dir", "reopening"}
Running   == {"ready", "writing", "syncing", "poisoned"}
Steps     == {"closed"} \cup Opening \cup Repairing \cup Running
\* The steps p takes with the lease in its hands.
Leased    == {"replaying"} \cup Repairing \cup Running

IdsOf(s) == {s[i].id : i \in DOMAIN s}
LastId(s) == IF s = << >> THEN NoEvent ELSE s[Len(s)].id

\* createVerifiedJournalEvent: the next record after the records s.
RecordAfter(s, e, tail) == [id |-> e, seq |-> Len(s) + 1, prev |-> LastId(s), tail |-> tail]

\* acceptLine on every line: consecutive numbers, each chained to the last.
Chained(s) ==
  \A i \in DOMAIN s :
    s[i].seq = i /\ s[i].prev = (IF i = 1 THEN NoEvent ELSE s[i - 1].id)

\* verifyRecoveryObjectReference: a recovery fact names a published object.
Explained(s) == \A i \in DOMAIN s : s[i].tail # NoEvent => s[i].tail \in saved

Goto(p, step) == pc' = [pc EXCEPT ![p] = step]

\* The command is over for p: handles closed, lease given back.
Leave(p) ==
  /\ pc' = [pc EXCEPT ![p] = "closed"]
  /\ fd' = [fd EXCEPT ![p] = NoFile]
  /\ mem' = [mem EXCEPT ![p] = << >>]
  /\ temp' = [temp EXCEPT ![p] = NoFile]
  /\ writer' = IF writer = p THEN NoProc ELSE writer

Init ==
  /\ path = 1 /\ durable = 1
  /\ lines = [f \in Files |-> << >>]
  /\ torn = [f \in Files |-> NoEvent]
  /\ synced = [f \in Files |-> 0]
  /\ files = 1 /\ events = 0
  /\ saved = {}
  /\ writer = NoProc
  /\ pc = [p \in Procs |-> "closed"]
  /\ fd = [p \in Procs |-> NoFile]
  /\ mem = [p \in Procs |-> << >>]
  /\ temp = [p \in Procs |-> NoFile]
  /\ acked = {} /\ returned = {}

-----------------------------------------------------------------------------
(* openJournal. *)

\* bootstrapSession: whoever opens first syncs the log and its directory.
Bootstrap(p) ==
  /\ pc[p] = "closed"
  /\ OpenAlone => \A q \in Procs : pc[q] \notin Opening \cup Repairing
  /\ synced' = [synced EXCEPT ![path] = Len(lines[path])]
  /\ durable' = path
  /\ Goto(p, "booted")
  /\ UNCHANGED <<path, lines, torn, files, events, saved, writer, fd, mem, temp, acked, returned>>

\* openExistingSessionLog: the handle is taken BEFORE the lease.
OpenLog(p) ==
  /\ pc[p] = "booted"
  /\ fd' = [fd EXCEPT ![p] = path]
  /\ Goto(p, "opened")
  /\ UNCHANGED <<disk, events, writer, mem, temp, acked, returned>>

\* acquireWriterLease, which also syncs the session directory.
Acquire(p) ==
  /\ pc[p] = "opened"
  /\ writer = NoProc
  /\ writer' = p
  /\ durable' = path
  /\ Goto(p, "replaying")
  /\ UNCHANGED <<path, lines, torn, synced, files, events, saved, fd, mem, temp, acked, returned>>

\* The lease is held by another command: the open fails.
Refused(p) ==
  /\ pc[p] = "opened" /\ writer # NoProc
  /\ Leave(p)
  /\ UNCHANGED <<disk, events, acked, returned>>

Replayable(f) == Chained(lines[f]) /\ Explained(lines[f])

\* replayJournal of a log that ends in a complete line: the open returns.
Replay(p) ==
  /\ pc[p] = "replaying"
  /\ Replayable(fd[p]) /\ torn[fd[p]] = NoEvent
  /\ mem' = [mem EXCEPT ![p] = lines[fd[p]]]
  /\ returned' = returned \cup IdsOf(lines[fd[p]])
  /\ Goto(p, "ready")
  /\ UNCHANGED <<disk, events, writer, fd, temp, acked>>

\* ... of a log with a torn tail after at least one event.
ReplayTorn(p) ==
  /\ pc[p] = "replaying"
  /\ Replayable(fd[p]) /\ torn[fd[p]] # NoEvent /\ lines[fd[p]] # << >>
  /\ mem' = [mem EXCEPT ![p] = lines[fd[p]]]
  /\ Goto(p, "publishing")
  /\ UNCHANGED <<disk, events, writer, fd, temp, acked, returned>>

\* ... of a log that is not acceptable: JOURNAL_SEQUENCE, a missing recovery
\* object, or JOURNAL_TORN_WITHOUT_PREFIX.  The open fails.
ReplayRejected(p) ==
  /\ pc[p] = "replaying"
  /\ ~ Replayable(fd[p]) \/ (torn[fd[p]] # NoEvent /\ lines[fd[p]] = << >>)
  /\ Leave(p)
  /\ UNCHANGED <<disk, events, acked, returned>>

-----------------------------------------------------------------------------
(* repairTornJournal. *)

\* Mutant: the torn bytes are dropped.
PublishNothing(p) ==
  /\ pc[p] = "publishing"
  /\ Goto(p, "copying")
  /\ UNCHANGED <<disk, events, writer, fd, mem, temp, acked, returned>>

\* The torn bytes are published in the recovery CAS first.
PublishTail(p) ==
  /\ pc[p] = "publishing"
  /\ saved' = saved \cup {torn[fd[p]]}
  /\ Goto(p, "copying")
  /\ UNCHANGED <<path, durable, lines, torn, synced, files, events, writer,
                 fd, mem, temp, acked, returned>>

\* Mutant: the prefix ends one line early.
CopyShortPrefix(p) ==
  /\ pc[p] = "copying"
  /\ files < MaxFiles /\ events < MaxEvents
  /\ files' = files + 1 /\ events' = events + 1
  /\ temp' = [temp EXCEPT ![p] = files + 1]
  /\ LET prefix == SubSeq(mem[p], 1, Len(mem[p]) - 1)
     IN  lines' = [lines EXCEPT ![files + 1] =
                     Append(prefix, RecordAfter(prefix, events + 1, torn[fd[p]]))]
  /\ Goto(p, "syncing_temp")
  /\ UNCHANGED <<path, durable, torn, synced, saved, writer, fd, mem, acked, returned>>

\* Mutant: the whole old file is copied, the torn tail behind the fact.
CopyWithTail(p) ==
  /\ pc[p] = "copying"
  /\ files < MaxFiles /\ events < MaxEvents
  /\ files' = files + 1 /\ events' = events + 1
  /\ temp' = [temp EXCEPT ![p] = files + 1]
  /\ lines' = [lines EXCEPT ![files + 1] =
                 Append(mem[p], RecordAfter(mem[p], events + 1, torn[fd[p]]))]
  /\ torn' = [torn EXCEPT ![files + 1] = torn[fd[p]]]
  /\ Goto(p, "syncing_temp")
  /\ UNCHANGED <<path, durable, synced, saved, writer, fd, mem, acked, returned>>

\* A new file receives the valid prefix and the recovery fact.
CopyPrefix(p) ==
  /\ pc[p] = "copying"
  /\ files < MaxFiles /\ events < MaxEvents
  /\ files' = files + 1 /\ events' = events + 1
  /\ temp' = [temp EXCEPT ![p] = files + 1]
  /\ lines' = [lines EXCEPT ![files + 1] =
                 Append(mem[p], RecordAfter(mem[p], events + 1, torn[fd[p]]))]
  /\ Goto(p, "syncing_temp")
  /\ UNCHANGED <<path, durable, torn, synced, saved, writer, fd, mem, acked, returned>>

\* Mutant: the new file is not synced before it is renamed.
SkipSyncTemp(p) ==
  /\ pc[p] = "syncing_temp"
  /\ Goto(p, "swapping")
  /\ UNCHANGED <<disk, events, writer, fd, mem, temp, acked, returned>>

SyncTemp(p) ==
  /\ pc[p] = "syncing_temp"
  /\ synced' = [synced EXCEPT ![temp[p]] = Len(lines[temp[p]])]
  /\ Goto(p, "swapping")
  /\ UNCHANGED <<path, durable, lines, torn, files, events, saved, writer,
                 fd, mem, temp, acked, returned>>

\* Mutant: the old log is unlinked to make room.
SwapByUnlink(p) ==
  /\ pc[p] = "swapping"
  /\ path' = NoFile
  /\ fd' = [fd EXCEPT ![p] = NoFile]
  /\ Goto(p, "syncing_dir")
  /\ UNCHANGED <<durable, lines, torn, synced, files, events, saved, writer,
                 mem, temp, acked, returned>>

\* The old handle is closed and the new file renamed over the path.
Swap(p) ==
  /\ pc[p] = "swapping"
  /\ path' = temp[p]
  /\ fd' = [fd EXCEPT ![p] = NoFile]
  /\ Goto(p, "syncing_dir")
  /\ UNCHANGED <<durable, lines, torn, synced, files, events, saved, writer,
                 mem, temp, acked, returned>>

SyncDirectory(p) ==
  /\ pc[p] = "syncing_dir"
  /\ durable' = path
  /\ Goto(p, "reopening")
  /\ UNCHANGED <<path, lines, torn, synced, files, events, saved, writer,
                 fd, mem, temp, acked, returned>>

\* The repaired log is opened and replayed again: one more event than before.
Reopen(p) ==
  /\ pc[p] = "reopening"
  /\ IF /\ Replayable(path) /\ torn[path] = NoEvent
        /\ Len(lines[path]) = Len(mem[p]) + 1
        /\ LastId(lines[path]) = LastId(lines[temp[p]])
     THEN /\ fd' = [fd EXCEPT ![p] = path]
          /\ mem' = [mem EXCEPT ![p] = lines[path]]
          /\ temp' = [temp EXCEPT ![p] = NoFile]
          /\ returned' = returned \cup IdsOf(lines[path])
          /\ Goto(p, "ready")
          /\ UNCHANGED writer
     ELSE Leave(p) /\ UNCHANGED returned
  /\ UNCHANGED <<disk, events, acked>>

\* Any call of the repair may fail; what it did so far stays.
RepairFails(p) ==
  /\ pc[p] \in Repairing
  /\ Leave(p)
  /\ UNCHANGED <<disk, events, acked, returned>>

-----------------------------------------------------------------------------
(* JournalWriter.append: appends are serial, one record at a time. *)

\* The first chunk of the record reaches the file.
WriteChunk(p) ==
  /\ pc[p] = "ready" /\ events < MaxEvents
  /\ events' = events + 1
  /\ torn' = [torn EXCEPT ![fd[p]] = events + 1]
  /\ Goto(p, "writing")
  /\ UNCHANGED <<path, durable, lines, synced, files, saved, writer, fd, mem, temp, acked, returned>>

\* Mutant: the log is not opened for appending.
WriteEndOver(p) ==
  /\ pc[p] = "writing"
  /\ lines' = [lines EXCEPT ![fd[p]] = << RecordAfter(mem[p], torn[fd[p]], NoEvent) >>]
  /\ torn' = [torn EXCEPT ![fd[p]] = NoEvent]
  /\ Goto(p, "syncing")
  /\ UNCHANGED <<path, durable, synced, files, events, saved, writer, fd, mem, temp, acked, returned>>

\* The last chunk completes the line.
WriteEnd(p) ==
  /\ pc[p] = "writing"
  /\ lines' = [lines EXCEPT ![fd[p]] = Append(@, RecordAfter(mem[p], torn[fd[p]], NoEvent))]
  /\ torn' = [torn EXCEPT ![fd[p]] = NoEvent]
  /\ Goto(p, "syncing")
  /\ UNCHANGED <<path, durable, synced, files, events, saved, writer, fd, mem, temp, acked, returned>>

\* fsync returned: the append is acknowledged and the head moves.
SyncLog(p) ==
  /\ pc[p] = "syncing"
  /\ LET r == lines[fd[p]][Len(lines[fd[p]])]
     IN  /\ mem' = [mem EXCEPT ![p] = Append(@, r)]
         /\ acked' = acked \cup {r.id}
         /\ returned' = returned \cup {r.id}
  /\ synced' = [synced EXCEPT ![fd[p]] = Len(lines[fd[p]])]
  /\ Goto(p, "ready")
  /\ UNCHANGED <<path, durable, lines, torn, files, events, saved, writer, fd, temp>>

\* Mutant: after a failed append the writer takes the next one.
PoisonForgiven(p) ==
  /\ pc[p] \in {"writing", "syncing"}
  /\ Goto(p, "ready")
  /\ UNCHANGED <<disk, events, writer, fd, mem, temp, acked, returned>>

\* A write or the fsync failed: the writer is poisoned and appends no more.
Poison(p) ==
  /\ pc[p] \in {"writing", "syncing"}
  /\ Goto(p, "poisoned")
  /\ UNCHANGED <<disk, events, writer, fd, mem, temp, acked, returned>>

\* JournalWriter.close waits for the append in progress, then releases.
Close(p) ==
  /\ pc[p] \in {"ready", "poisoned"}
  /\ Leave(p)
  /\ UNCHANGED <<disk, events, acked, returned>>

-----------------------------------------------------------------------------
(* Failures. *)

\* The process is killed; its lease is found stale and taken over.
Die(p) ==
  /\ pc[p] # "closed"
  /\ Leave(p)
  /\ UNCHANGED <<disk, events, acked, returned>>

\* The power fails: every process is gone, the path names one of its two
\* files, and that file keeps its synced lines and any more of what followed,
\* the last of them possibly cut short.
PowerLoss ==
  \E f \in {path, durable}, cut \in BOOLEAN :
   \E n \in synced[f]..Len(lines[f]) :
    /\ path' = f /\ durable' = f
    /\ lines' = [lines EXCEPT ![f] = SubSeq(@, 1, n)]
    /\ torn' = [torn EXCEPT ![f] =
                  IF ~ cut THEN NoEvent ELSE IF n = Len(lines[f]) THEN @ ELSE lines[f][n + 1].id]
    /\ synced' = [synced EXCEPT ![f] = n]
    /\ writer' = NoProc
    /\ pc' = [p \in Procs |-> "closed"]
    /\ fd' = [p \in Procs |-> NoFile]
    /\ mem' = [p \in Procs |-> << >>]
    /\ temp' = [p \in Procs |-> NoFile]
    /\ returned' = returned \cap IdsOf(lines'[f])
    /\ UNCHANGED <<files, events, saved, acked>>

Step(p) ==
  \/ Bootstrap(p) \/ OpenLog(p) \/ Acquire(p) \/ Refused(p)
  \/ Replay(p) \/ ReplayTorn(p) \/ ReplayRejected(p)
  \/ PublishTail(p) \/ CopyPrefix(p) \/ SyncTemp(p) \/ Swap(p)
  \/ SyncDirectory(p) \/ Reopen(p) \/ RepairFails(p)
  \/ WriteChunk(p) \/ WriteEnd(p) \/ SyncLog(p) \/ Poison(p) \/ Close(p)
  \/ Die(p)

Next == PowerLoss \/ \E p \in Procs : Step(p)

Spec == Init /\ [][Next]_vars

-----------------------------------------------------------------------------
(* Properties. *)

\* Every variable keeps its type.
TypeOK ==
  /\ path \in Files /\ durable \in Files
  /\ lines \in [Files -> Seq(Record)]
  /\ torn \in [Files -> Events \cup {NoEvent}]
  /\ synced \in [Files -> Nat]
  /\ files \in Files /\ events \in 0..MaxEvents
  /\ saved \subseteq Events \cup {NoEvent}
  /\ writer \in Procs \cup {NoProc}
  /\ pc \in [Procs -> Steps]
  /\ fd \in [Procs -> Files \cup {NoFile}]
  /\ mem \in [Procs -> Seq(Record)]
  /\ temp \in [Procs -> Files \cup {NoFile}]
  /\ acked \subseteq Events /\ returned \subseteq Events

\* An acknowledged event is on the log that the next open reads, among the
\* synced lines of whichever file the path names after a power loss.
AckedSurvive ==
  \A f \in {path, durable} : \A e \in acked :
    \E i \in 1..synced[f] : lines[f][i].id = e

\* What an open or an append has once returned is not taken back by crashes of
\* processes, failed writes or repairs: only a power loss takes away.
ReturnedStay == returned \subseteq IdsOf(lines[path])

\* The log at the path is always one that replay accepts: its records chain
\* and every recovery fact is explained by a published object.
LogReplayable == Replayable(path) /\ Replayable(durable)

\* However often a repair is cut short and repeated, a torn record is
\* accounted for by one recovery fact and never comes back as an event.
OneFactPerTail ==
  LET L == lines[path] IN
  \A i, j \in DOMAIN L :
    L[i].tail # NoEvent => L[i].tail # L[j].id /\ (L[i].tail = L[j].tail => i = j)

\* At most one event on the log is unknown to everyone: the one in flight.
OneInFlight ==
  \A i, j \in DOMAIN lines[path] :
    lines[path][i].id \notin returned /\ lines[path][j].id \notin returned => i = j

\* The journal implements the append-only log its readers rely on.
visible == [i \in 1..Len(lines[path]) |-> lines[path][i].id]
Promise == INSTANCE AppendOnlyLog WITH log <- visible
ImplementsAppendOnlyLog == Promise!Spec
=============================================================================
