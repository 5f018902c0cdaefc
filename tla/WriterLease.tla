----------------------------- MODULE WriterLease -----------------------------
(***************************************************************************)
(* The single-writer lease of a session (src/src/journal/lease.ts) and the *)
(* takeover a recovery command may ask for first (src/src/cli.ts).         *)
(*                                                                         *)
(* The lease is a directory called writer.lock holding one file,           *)
(* owner.json, that names the owner's pid and a nonce.  Nothing in the     *)
(* file system locks it: every operation is a sequence of separate calls   *)
(* on the PATH, and another process may run between any two of them.  One  *)
(* action here is one such call (or a run of calls whose last one decides).*)
(*                                                                         *)
(* A directory that has been made is known by a number that is never used  *)
(* again: it stands for what the fingerprint tells apart (inode, times,    *)
(* entries, bytes) and, since each directory receives one owner.json at    *)
(* most, for the nonce in it.                                              *)
(***************************************************************************)
EXTENDS Naturals

CONSTANTS
  Procs,          \* the pids of the commands that are started on the session
  NoProc,         \* no process
  MaxDirs,        \* bound: how many times writer.lock is made
  StaleAlone,     \* TRUE: `--quarantine-stale` never runs beside another takeover
  PidReuse        \* TRUE: the pid of a dead owner may belong to a new process

ASSUME NoProcAssumption  == NoProc \notin Procs
ASSUME MaxDirsAssumption == MaxDirs \in Nat
ASSUME FlagsAssumption   == StaleAlone \in BOOLEAN /\ PidReuse \in BOOLEAN

Dirs  == 1..MaxDirs
NoDir == 0

VARIABLES
  lock,     \* the directory the path writer.lock names, or NoDir
  made,     \* how many directories have been made
  owner,    \* owner[d]: who created owner.json in d, or NoProc
  whole,    \* the directories whose owner.json is completely written
  alive,    \* the processes that have not died
  pc,       \* pc[p]: the next call of p
  own,      \* own[p]: the directory p's owner.json went to
  seen,     \* seen[p]: the lease p inspected (directory, fingerprint)
  force     \* the processes run with --force-ambiguous

vars == <<lock, made, owner, whole, alive, pc, own, seen, force>>

TakingOver == {"inspecting", "judging", "rechecking", "deciding", "evicting"}
Acquiring  == {"making", "naming", "signing", "confirming"}
Writing    == {"holding"}
Ending     == {"checking", "freeing"}
Changing   == {"evicting", "making", "naming", "signing", "freeing"}
Steps      == {"idle"} \cup TakingOver \cup Acquiring \cup Writing \cup Ending

\* The fingerprint of a lease: which directory it is and how far its owner
\* file has come.
LeaseView == [dir : Dirs \cup {NoDir}, by : Procs \cup {NoProc}, signed : BOOLEAN,
              state : {"none", "stale", "ambiguous"}]
NoLease == [dir |-> NoDir, by |-> NoProc, signed |-> FALSE, state |-> "none"]

Snapshot == IF lock = NoDir THEN NoLease
            ELSE [dir |-> lock, by |-> owner[lock], signed |-> lock \in whole,
                  state |-> "none"]

SameFingerprint(a, b) == a.dir = b.dir /\ a.by = b.by /\ a.signed = b.signed

\* Mutant: a failed probe (EPERM) of a live owner counts as "no such process".
VerdictsOfNobody(s) ==
  IF s.dir = NoDir THEN {"absent"} ELSE IF ~ s.signed THEN {"ambiguous"} ELSE {"stale"}

\* Mutant: an owner file that is not complete yet counts as a dead owner's.
VerdictsOfTorn(s) ==
  IF s.dir = NoDir THEN {"absent"} ELSE IF s.signed /\ s.by \in alive THEN {"live"} ELSE {"stale"}

\* classifyLeaseSnapshot: the states the probe of the owner's pid can give.
Verdicts(s) ==
  IF s.dir = NoDir THEN {"absent"}
  ELSE IF ~ s.signed THEN {"ambiguous"}
  ELSE IF s.by \in alive THEN {"live"}
  ELSE {"stale"} \cup (IF PidReuse THEN {"live"} ELSE {})

\* The user of --force-ambiguous has confirmed that nothing is starting.
Quiet(p) == \A q \in alive \ {p} : pc[q] \in {"idle"} \cup Writing \cup Ending
ForcedTakeover(q) == q \in alive /\ q \in force /\ pc[q] \in TakingOver
MayStart(p) == \A q \in Procs \ {p} : ~ ForcedTakeover(q)

NoOtherTakeover(p) == \A q \in alive \ {p} : pc[q] \notin TakingOver

Goto(p, step) == pc' = [pc EXCEPT ![p] = step]

\* The command of p ends: what it remembered ends with it.
EndCommand(p) ==
  /\ pc' = [pc EXCEPT ![p] = "idle"]
  /\ own' = [own EXCEPT ![p] = NoDir]
  /\ seen' = [seen EXCEPT ![p] = NoLease]
  /\ force' = force \ {p}

\* p goes on at step if ok, and gives up otherwise.
ProceedIf(ok, p, step) ==
  IF ok THEN Goto(p, step) /\ UNCHANGED <<own, seen, force>> ELSE EndCommand(p)

\* p has done with the old lease and goes on to make its own.
ToAcquire(p) ==
  /\ Goto(p, "making")
  /\ seen' = [seen EXCEPT ![p] = NoLease]
  /\ force' = force \ {p}
  /\ UNCHANGED own

Init ==
  /\ lock = NoDir
  /\ made = 0
  /\ owner = [d \in Dirs |-> NoProc]
  /\ whole = {}
  /\ alive = Procs
  /\ pc = [p \in Procs |-> "idle"]
  /\ own = [p \in Procs |-> NoDir]
  /\ seen = [p \in Procs |-> NoLease]
  /\ force = {}

-----------------------------------------------------------------------------
(* Commands. *)

\* A command that opens the journal without touching an existing lease.
Start(p) ==
  /\ p \in alive /\ pc[p] = "idle" /\ MayStart(p)
  /\ Goto(p, "making")
  /\ UNCHANGED <<lock, made, owner, whole, alive, own, seen, force>>

\* recover/reconcile --quarantine-stale
StartQuarantineStale(p) ==
  /\ p \in alive /\ pc[p] = "idle" /\ MayStart(p)
  /\ StaleAlone => NoOtherTakeover(p)
  /\ Goto(p, "inspecting")
  /\ UNCHANGED <<lock, made, owner, whole, alive, own, seen, force>>

\* Mutant: --force-ambiguous without the confirmation that nothing starts.
StartForcedUnconfirmed(p) ==
  /\ p \in alive /\ pc[p] = "idle" /\ MayStart(p)
  /\ force' = force \cup {p}
  /\ Goto(p, "inspecting")
  /\ UNCHANGED <<lock, made, owner, whole, alive, own, seen>>

\* recover/reconcile --quarantine-fingerprint F --confirm-no-concurrent-start
\* --force-ambiguous, F being the fingerprint of the lease that is there.
StartQuarantineForced(p) ==
  /\ p \in alive /\ pc[p] = "idle" /\ MayStart(p)
  /\ Quiet(p)
  /\ force' = force \cup {p}
  /\ Goto(p, "inspecting")
  /\ UNCHANGED <<lock, made, owner, whole, alive, own, seen>>

-----------------------------------------------------------------------------
(* quarantineIfRequested and quarantineWriterLease. *)

\* inspectWriterLease, first half: the directory and owner.json are read ...
Inspect(p) ==
  /\ p \in alive /\ pc[p] = "inspecting"
  /\ seen' = [seen EXCEPT ![p] = Snapshot]
  /\ Goto(p, "judging")
  /\ UNCHANGED <<lock, made, owner, whole, alive, own, force>>

\* ... second half: the owner's pid is probed.
Judge(p) ==
  /\ p \in alive /\ pc[p] = "judging"
  /\ \E v \in Verdicts(seen[p]) :
       \/ /\ v = "absent" /\ p \notin force
          /\ ToAcquire(p)
       \/ /\ v = "live" \/ (v = "absent" /\ p \in force) \/ (v = "ambiguous" /\ p \notin force)
          /\ EndCommand(p)
       \/ /\ v = "stale" \/ (v = "ambiguous" /\ p \in force)
          /\ seen' = [seen EXCEPT ![p].state = v]
          /\ Goto(p, "rechecking")
          /\ UNCHANGED <<own, force>>
  /\ UNCHANGED <<lock, made, owner, whole, alive>>

\* quarantineWriterLease has made its container: the second snapshot ...
Recheck(p) ==
  /\ p \in alive /\ pc[p] = "rechecking"
  /\ ProceedIf(SameFingerprint(Snapshot, seen[p]), p, "deciding")
  /\ UNCHANGED <<lock, made, owner, whole, alive>>

\* ... and its classification, which must be the one of the inspection.
Decide(p) ==
  /\ p \in alive /\ pc[p] = "deciding"
  /\ \E v \in Verdicts(seen[p]) : ProceedIf(v = seen[p].state, p, "evicting")
  /\ UNCHANGED <<lock, made, owner, whole, alive>>

\* moveLeaseToQuarantine: rename(2) takes whatever the path names by now.
Evict(p) ==
  /\ p \in alive /\ pc[p] = "evicting"
  /\ lock' = NoDir
  /\ IF lock = NoDir THEN EndCommand(p) ELSE ToAcquire(p)
  /\ UNCHANGED <<made, owner, whole, alive>>

-----------------------------------------------------------------------------
(* acquireWriterLease. *)

\* mkdir writer.lock; EEXIST ends the command whatever is found there.
Make(p) ==
  /\ p \in alive /\ pc[p] = "making"
  /\ \/ /\ lock = NoDir /\ made < MaxDirs
        /\ made' = made + 1
        /\ lock' = made + 1
        /\ Goto(p, "naming")
        /\ UNCHANGED <<own, seen, force>>
     \/ /\ lock # NoDir
        /\ EndCommand(p)
        /\ UNCHANGED <<lock, made>>
  /\ UNCHANGED <<owner, whole, alive>>

\* open(writer.lock/owner.json, O_CREAT | O_EXCL): by path, so it lands in
\* the directory that is there now, made by p or not.
Name(p) ==
  /\ p \in alive /\ pc[p] = "naming"
  /\ IF lock # NoDir /\ owner[lock] = NoProc
     THEN /\ owner' = [owner EXCEPT ![lock] = p]
          /\ own' = [own EXCEPT ![p] = lock]
          /\ Goto(p, "signing")
          /\ UNCHANGED <<seen, force>>
     ELSE EndCommand(p) /\ UNCHANGED owner
  /\ UNCHANGED <<lock, made, whole, alive>>

\* The owner line is written and synced through the open handle.
Sign(p) ==
  /\ p \in alive /\ pc[p] = "signing"
  /\ whole' = whole \cup {own[p]}
  /\ Goto(p, "confirming")
  /\ UNCHANGED <<lock, made, owner, alive, own, seen, force>>

\* The lease at the path must be the one just signed.  The code reads it
\* twice; a directory never comes back to the path, so the last read decides.
Confirm(p) ==
  /\ p \in alive /\ pc[p] = "confirming"
  /\ ProceedIf(lock = own[p], p, "holding")
  /\ UNCHANGED <<lock, made, owner, whole, alive>>

-----------------------------------------------------------------------------
(* releaseWriterLease. *)

\* The log handle is closed: p writes no more.
Close(p) ==
  /\ p \in alive /\ pc[p] = "holding"
  /\ Goto(p, "checking")
  /\ UNCHANGED <<lock, made, owner, whole, alive, own, seen, force>>

\* The final snapshot must still be p's own lease.
CheckOwn(p) ==
  /\ p \in alive /\ pc[p] = "checking"
  /\ ProceedIf(lock = own[p], p, "freeing")
  /\ UNCHANGED <<lock, made, owner, whole, alive>>

\* rename(2) again takes whatever the path names.
Free(p) ==
  /\ p \in alive /\ pc[p] = "freeing"
  /\ lock' = NoDir
  /\ EndCommand(p)
  /\ UNCHANGED <<made, owner, whole, alive>>

-----------------------------------------------------------------------------
\* A snapshot taken while another process changes the directory may fail its
\* second stat: it is not verifiable, and every operation then gives up.  An
\* acquirer or a releaser that gives up leaves its lease where it is.
Unverifiable(p) ==
  /\ p \in alive
  /\ pc[p] \in {"inspecting", "rechecking", "confirming", "checking"}
  /\ \E q \in alive \ {p} : pc[q] \in Changing
  /\ EndCommand(p)
  /\ UNCHANGED <<lock, made, owner, whole, alive>>

\* The process is killed, or exits, at any point; what it left stays.
Die(p) ==
  /\ p \in alive
  /\ alive' = alive \ {p}
  /\ EndCommand(p)
  /\ UNCHANGED <<lock, made, owner, whole>>

Next == \E p \in Procs :
  \/ Start(p) \/ StartQuarantineStale(p) \/ StartQuarantineForced(p)
  \/ Inspect(p) \/ Judge(p) \/ Recheck(p) \/ Decide(p) \/ Evict(p)
  \/ Make(p) \/ Name(p) \/ Sign(p) \/ Confirm(p)
  \/ Close(p) \/ CheckOwn(p) \/ Free(p)
  \/ Unverifiable(p) \/ Die(p)

Spec == Init /\ [][Next]_vars
-----------------------------------------------------------------------------
(* Properties. *)

Holds(p) == p \in alive /\ pc[p] = "holding"

\* Every variable keeps its type; a step is one of the steps of the code.
TypeOK ==
  /\ lock \in Dirs \cup {NoDir}
  /\ made \in 0..MaxDirs
  /\ owner \in [Dirs -> Procs \cup {NoProc}]
  /\ whole \subseteq Dirs \cup {NoDir}
  /\ alive \subseteq Procs
  /\ pc \in [Procs -> Steps]
  /\ own \in [Procs -> Dirs \cup {NoDir}]
  /\ seen \in [Procs -> LeaseView]
  /\ force \subseteq Procs

\* acquireWriterLease returns to one process at a time: two live processes
\* never both have the journal open for appending.
Exclusion == \A p, q \in Procs : Holds(p) /\ Holds(q) => p = q

\* While a process writes, the lease at the path is the one it signed, so
\* another start is refused and its own close finds what it must remove.
HolderIsNamed ==
  \A p \in Procs : Holds(p) => lock = own[p] /\ lock \in whole /\ owner[lock] = p

\* A takeover removes only a lease whose owner is dead, or one whose owner
\* file never became complete (which only --force-ambiguous accepts).
EvictsOnlyTheDead ==
  [][\A p \in Procs : pc[p] = "evicting" /\ p \in alive /\ pc'[p] # "evicting" /\ lock' # lock =>
        (lock \in whole /\ owner[lock] \notin alive) \/ (lock \notin whole /\ p \in force)]_vars

\* A close removes only the lease of the process that closes.
ReleasesOnlyItsOwn ==
  [][\A p \in Procs : pc[p] = "freeing" /\ p \in alive /\ pc'[p] # "freeing" /\ lock' # lock =>
        owner[lock] = p]_vars

\* The process that may write, as the code above the lease sees it.
writer == IF \E p \in Procs : Holds(p) THEN CHOOSE p \in Procs : Holds(p) ELSE NoProc

\* The lease protocol implements a lock that passes through "nobody".
Exclusive == INSTANCE ExclusiveLease
ImplementsExclusiveLease == Exclusive!Spec
=============================================================================
