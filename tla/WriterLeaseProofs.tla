--------------------------- MODULE WriterLeaseProofs ---------------------------
(***************************************************************************)
(* Proofs about the writer lease for any set of processes and any number   *)
(* of lease directories: the types hold always; if a stale lease is taken  *)
(* over by one command at a time, at most one process writes, a takeover   *)
(* evicts only the dead, and the protocol implements ExclusiveLease.       *)
(***************************************************************************)
EXTENDS WriterLease, TLAPS

\* Directories are numbered in the order they are made; one that has not been
\* made has no owner, and only an owner completes its file.
DirInv ==
  /\ lock <= made
  /\ \A d \in Dirs : owner[d] # NoProc => d <= made
  /\ \A d \in whole : d \in Dirs /\ owner[d] # NoProc

\* A process past Name is alive and owns the directory it signs.
OwnInv ==
  \A p \in Procs :
    /\ pc[p] # "idle" => p \in alive
    /\ pc[p] \in {"signing", "confirming"} \cup Writing \cup Ending =>
         own[p] \in Dirs /\ owner[own[p]] = p
    /\ pc[p] \in {"confirming"} \cup Writing \cup Ending => own[p] \in whole

\* From Confirm to Free the lease at the path is the process's own.
HolderInv == \A p \in Procs : pc[p] \in Writing \cup Ending => lock = own[p]

\* What an inspection saw of a complete lease stays true of that directory.
SeenInv ==
  \A p \in Procs :
    /\ pc[p] \in {"judging", "rechecking", "deciding", "evicting"} /\ seen[p].signed =>
         seen[p].dir \in whole /\ owner[seen[p].dir] = seen[p].by
    /\ pc[p] \in {"rechecking", "deciding", "evicting"} =>
         /\ seen[p].dir \in Dirs
         /\ \/ seen[p].state = "stale" /\ seen[p].signed /\ seen[p].by \notin alive
            \/ seen[p].state = "ambiguous" /\ ~ seen[p].signed /\ p \in force

\* Between the second snapshot and the rename the lease does not change.
DecideInv ==
  \A p \in Procs : pc[p] \in {"deciding", "evicting"} =>
    lock = seen[p].dir /\ (lock \in whole <=> seen[p].signed)

\* Takeovers run one at a time, and beside a forced one nobody acquires.
TakeoverInv ==
  /\ \A p, q \in Procs : pc[p] \in TakingOver /\ pc[q] \in TakingOver => p = q
  /\ \A p \in force : /\ pc[p] \in TakingOver
                      /\ \A q \in Procs \ {p} : pc[q] \notin Acquiring

IInv == TypeOK /\ DirInv /\ OwnInv /\ HolderInv /\ SeenInv /\ DecideInv /\ TakeoverInv

-----------------------------------------------------------------------------
\* The variables of the commands, and the ways a step sets them.
LocalTypeOK ==
  /\ pc \in [Procs -> Steps]
  /\ own \in [Procs -> Dirs \cup {NoDir}]
  /\ seen \in [Procs -> LeaseView]
  /\ force \subseteq Procs

LEMMA LeaseViews == NoLease \in LeaseView /\ (TypeOK => Snapshot \in LeaseView)
  BY DEF NoLease, LeaseView, TypeOK, Snapshot, NoDir

LEMMA EndCommandTypes ==
  ASSUME LocalTypeOK, NEW p \in Procs, EndCommand(p) PROVE LocalTypeOK'
  BY LeaseViews DEF LocalTypeOK, EndCommand, Steps, NoDir

LEMMA ToAcquireTypes ==
  ASSUME LocalTypeOK, NEW p \in Procs, ToAcquire(p) PROVE LocalTypeOK'
  BY LeaseViews DEF LocalTypeOK, ToAcquire, Goto, Steps, Acquiring

LEMMA ProceedIfTypes ==
  ASSUME LocalTypeOK, NEW p \in Procs, NEW ok, NEW step \in Steps, ProceedIf(ok, p, step)
  PROVE  LocalTypeOK'
  BY EndCommandTypes DEF LocalTypeOK, ProceedIf, Goto

LEMMA TypeInit == Init => TypeOK
  BY MaxDirsAssumption, LeaseViews DEF Init, TypeOK, Dirs, NoDir, Steps

\* The types are inductive on their own: no step of a command leaves them.
LEMMA TypeInductive == TypeOK /\ [Next]_vars => TypeOK'
<1> SUFFICES ASSUME TypeOK, [Next]_vars PROVE TypeOK'
  OBVIOUS
<1> USE MaxDirsAssumption, NoProcAssumption
<1>0. LocalTypeOK /\ \A s : s \in TakingOver \cup Acquiring \cup Writing \cup Ending => s \in Steps
  BY DEF TypeOK, LocalTypeOK, Steps
<1>1. CASE UNCHANGED vars
  BY <1>1 DEF vars, TypeOK
<1>2. ASSUME NEW p \in Procs, Start(p) PROVE TypeOK'
  BY <1>2, <1>0 DEF Start, TypeOK, LocalTypeOK, Goto, TakingOver, Acquiring, Writing, Ending
<1>3. ASSUME NEW p \in Procs, StartQuarantineStale(p) PROVE TypeOK'
  BY <1>3, <1>0 DEF StartQuarantineStale, TypeOK, LocalTypeOK, Goto, TakingOver, Acquiring, Writing, Ending
<1>4. ASSUME NEW p \in Procs, StartQuarantineForced(p) PROVE TypeOK'
  BY <1>4, <1>0 DEF StartQuarantineForced, TypeOK, LocalTypeOK, Goto, TakingOver, Acquiring, Writing, Ending
<1>5. ASSUME NEW p \in Procs, Inspect(p) PROVE TypeOK'
  BY <1>5, <1>0, LeaseViews DEF Inspect, TypeOK, LocalTypeOK, Goto, TakingOver, Acquiring, Writing, Ending
<1>6. ASSUME NEW p \in Procs, Judge(p) PROVE TypeOK'
  <2>1. PICK v \in Verdicts(seen[p]) :
          \/ ToAcquire(p)
          \/ EndCommand(p)
          \/ /\ v = "stale" \/ v = "ambiguous"
             /\ seen' = [seen EXCEPT ![p].state = v]
             /\ Goto(p, "rechecking")
             /\ UNCHANGED <<own, force>>
    BY <1>6 DEF Judge
  <2>2. CASE ToAcquire(p)
    BY <1>6, <2>2, <1>0, ToAcquireTypes DEF Judge, TypeOK, LocalTypeOK
  <2>3. CASE EndCommand(p)
    BY <1>6, <2>3, <1>0, EndCommandTypes DEF Judge, TypeOK, LocalTypeOK
  <2>4. CASE /\ v = "stale" \/ v = "ambiguous"
             /\ seen' = [seen EXCEPT ![p].state = v]
             /\ Goto(p, "rechecking")
             /\ UNCHANGED <<own, force>>
    <3>1. [seen[p] EXCEPT !.state = v] \in LeaseView
      BY <2>4 DEF TypeOK, LeaseView
    <3>2. QED
      BY <1>6, <2>4, <3>1, <1>0 DEF Judge, TypeOK, Goto, TakingOver
  <2>5. QED
    BY <2>1, <2>2, <2>3, <2>4
<1>7. ASSUME NEW p \in Procs, Recheck(p) PROVE TypeOK'
  BY <1>7, <1>0, ProceedIfTypes DEF Recheck, TypeOK, LocalTypeOK, TakingOver, Acquiring, Writing, Ending
<1>8. ASSUME NEW p \in Procs, Decide(p) PROVE TypeOK'
  BY <1>8, <1>0, ProceedIfTypes DEF Decide, TypeOK, LocalTypeOK, TakingOver, Acquiring, Writing, Ending
<1>9. ASSUME NEW p \in Procs, Evict(p) PROVE TypeOK'
  BY <1>9, <1>0, EndCommandTypes, ToAcquireTypes DEF Evict, TypeOK, LocalTypeOK, TakingOver, Acquiring, Writing, Ending, Dirs, NoDir
<1>10. ASSUME NEW p \in Procs, Make(p) PROVE TypeOK'
  BY <1>10, <1>0, EndCommandTypes DEF Make, TypeOK, LocalTypeOK, Goto, TakingOver, Acquiring, Writing, Ending, Dirs, NoDir
<1>11. ASSUME NEW p \in Procs, Name(p) PROVE TypeOK'
  <2>1. CASE lock # NoDir /\ owner[lock] = NoProc
    <3>1. /\ owner' = [owner EXCEPT ![lock] = p] /\ own' = [own EXCEPT ![p] = lock]
          /\ pc' = [pc EXCEPT ![p] = "signing"]
          /\ UNCHANGED <<seen, force, lock, made, whole, alive>>
      BY <1>11, <2>1 DEF Name, Goto
    <3>2. "signing" \in Steps /\ lock \in Dirs
      BY <1>0, <2>1 DEF Acquiring, TypeOK
    <3>3. QED
      BY <3>1, <3>2 DEF TypeOK
  <2>2. CASE ~ (lock # NoDir /\ owner[lock] = NoProc)
    <3>1. EndCommand(p) /\ UNCHANGED <<owner, lock, made, whole, alive>>
      BY <1>11, <2>2 DEF Name
    <3>2. LocalTypeOK'
      BY <1>0, <3>1, EndCommandTypes
    <3>3. QED
      BY <3>1, <3>2 DEF TypeOK, LocalTypeOK
  <2>3. QED
    BY <2>1, <2>2
<1>12. ASSUME NEW p \in Procs, Sign(p) PROVE TypeOK'
  BY <1>12, <1>0 DEF Sign, TypeOK, LocalTypeOK, Goto, TakingOver, Acquiring, Writing, Ending, Dirs, NoDir
<1>13. ASSUME NEW p \in Procs, Confirm(p) PROVE TypeOK'
  BY <1>13, <1>0, ProceedIfTypes DEF Confirm, TypeOK, LocalTypeOK, TakingOver, Acquiring, Writing, Ending
<1>14. ASSUME NEW p \in Procs, Close(p) PROVE TypeOK'
  BY <1>14, <1>0 DEF Close, TypeOK, LocalTypeOK, Goto, TakingOver, Acquiring, Writing, Ending
<1>15. ASSUME NEW p \in Procs, CheckOwn(p) PROVE TypeOK'
  BY <1>15, <1>0, ProceedIfTypes DEF CheckOwn, TypeOK, LocalTypeOK, TakingOver, Acquiring, Writing, Ending
<1>16. ASSUME NEW p \in Procs, Free(p) PROVE TypeOK'
  BY <1>16, <1>0, EndCommandTypes DEF Free, TypeOK, LocalTypeOK, TakingOver, Acquiring, Writing, Ending, Dirs, NoDir
<1>17. ASSUME NEW p \in Procs, Unverifiable(p) PROVE TypeOK'
  BY <1>17, <1>0, EndCommandTypes DEF Unverifiable, TypeOK, LocalTypeOK, TakingOver, Acquiring, Writing, Ending
<1>18. ASSUME NEW p \in Procs, Die(p) PROVE TypeOK'
  BY <1>18, <1>0, EndCommandTypes DEF Die, TypeOK, LocalTypeOK, TakingOver, Acquiring, Writing, Ending
<1>19. QED
  BY <1>1, <1>2, <1>3, <1>4, <1>5, <1>6, <1>7, <1>8, <1>9, <1>10, <1>11, <1>12, <1>13, <1>14, <1>15, <1>16, <1>17, <1>18 DEF Next

\* Every variable keeps its type in every behaviour of the lease protocol.
THEOREM TypeCorrect == Spec => []TypeOK
  BY TypeInit, TypeInductive, PTL DEF Spec
-----------------------------------------------------------------------------
\* The inductive invariant holds at the start and every step keeps it, one conjunct
\* at a time.  Only the start of a --quarantine-stale needs StaleAlone.
LEMMA InvInit == Init => IInv
  BY TypeInit DEF Init, IInv, DirInv, OwnInv, HolderInv, SeenInv, DecideInv, TakeoverInv,
     TypeOK, TakingOver, Acquiring, Writing, Ending, NoDir, Dirs, LeaseView

\* What a snapshot reports of the lease at the path.
LEMMA SnapshotFields ==
  Snapshot.dir = lock /\ (lock # NoDir => Snapshot.signed = (lock \in whole))
  BY DEF Snapshot, NoLease, NoDir

\* A command that gives up or dies breaks nothing for the others: it leaves
\* the directories as they are and no longer claims anything about them.
LEMMA GiveUpInv ==
  ASSUME IInv, TypeOK', NEW p \in Procs, EndCommand(p), UNCHANGED <<lock, made, owner, whole>>,
         alive' = alive \/ alive' = alive \ {p}
  PROVE  IInv'
<1> USE DEF IInv, TypeOK, EndCommand, TakingOver, Acquiring, Writing, Ending, Dirs
<1>1. DirInv'
  BY DEF DirInv
<1>2. OwnInv'
  BY DEF OwnInv
<1>3. HolderInv'
  BY DEF HolderInv
<1>4. SeenInv'
  BY DEF SeenInv
<1>5. DecideInv'
  BY DEF DecideInv
<1>6. TakeoverInv'
  BY DEF TakeoverInv
<1>7. QED
  BY <1>1, <1>2, <1>3, <1>4, <1>5, <1>6

\* A takeover that is over goes on to acquire: nobody else takes over, so no
\* forced one is disturbed.
LEMMA ToAcquireInv ==
  ASSUME IInv, TypeOK', NEW p \in Procs, pc[p] \in TakingOver, p \in alive, ToAcquire(p),
         UNCHANGED <<lock, made, owner, whole, alive>>
  PROVE  IInv'
<1> USE DEF IInv, TypeOK, ToAcquire, Goto, TakingOver, Acquiring, Writing, Ending, Dirs
<1>1. DirInv'
  BY DEF DirInv
<1>2. OwnInv' /\ HolderInv'
  BY DEF OwnInv, HolderInv
<1>3. SeenInv'
  BY DEF SeenInv
<1>4. DecideInv'
  BY DEF DecideInv
<1>5. TakeoverInv'
  BY DEF TakeoverInv
<1>6. QED
  BY <1>1, <1>2, <1>3, <1>4, <1>5

LEMMA InvInductive ==
  ASSUME StaleAlone, IInv, [Next]_vars PROVE IInv'
<1> USE MaxDirsAssumption, NoProcAssumption
    DEF IInv, TypeOK, NoDir, Dirs, TakingOver, Acquiring, Writing, Ending
<1>0. TypeOK'
  BY TypeInductive
<1>1. CASE UNCHANGED vars
  BY <1>1 DEF vars, DirInv, OwnInv, HolderInv, SeenInv, DecideInv, TakeoverInv
<1>2. ASSUME NEW p \in Procs, Start(p) PROVE IInv'
  <2>1. DirInv'
    BY <1>0, <1>2 DEF DirInv, Start, Goto
  <2>2. OwnInv'
    BY <1>0, <1>2 DEF OwnInv, Start, Goto
  <2>3. HolderInv'
    BY <1>0, <1>2 DEF HolderInv, Start, Goto
  <2>4. SeenInv'
    BY <1>0, <1>2 DEF SeenInv, Start, Goto
  <2>5. DecideInv'
    BY <1>0, <1>2 DEF DecideInv, Start, Goto
  <2>6. TakeoverInv'
    BY <1>0, <1>2 DEF TakeoverInv, OwnInv, MayStart, ForcedTakeover, Start, Goto
  <2>7. QED
    BY <1>0, <2>1, <2>2, <2>3, <2>4, <2>5, <2>6
<1>3. ASSUME NEW p \in Procs, StartQuarantineStale(p) PROVE IInv'
  <2>1. DirInv'
    BY <1>0, <1>3 DEF DirInv, StartQuarantineStale, Goto
  <2>2. OwnInv'
    BY <1>0, <1>3 DEF OwnInv, StartQuarantineStale, Goto
  <2>3. HolderInv'
    BY <1>0, <1>3 DEF HolderInv, StartQuarantineStale, Goto
  <2>4. SeenInv'
    BY <1>0, <1>3 DEF SeenInv, StartQuarantineStale, Goto
  <2>5. DecideInv'
    BY <1>0, <1>3 DEF DecideInv, StartQuarantineStale, Goto
  <2>6. TakeoverInv'
    BY <1>0, <1>3 DEF TakeoverInv, OwnInv, MayStart, ForcedTakeover, NoOtherTakeover, StartQuarantineStale, Goto
  <2>7. QED
    BY <1>0, <2>1, <2>2, <2>3, <2>4, <2>5, <2>6
<1>4. ASSUME NEW p \in Procs, StartQuarantineForced(p) PROVE IInv'
  <2>1. DirInv'
    BY <1>0, <1>4 DEF DirInv, StartQuarantineForced, Goto
  <2>2. OwnInv'
    BY <1>0, <1>4 DEF OwnInv, StartQuarantineForced, Goto
  <2>3. HolderInv'
    BY <1>0, <1>4 DEF HolderInv, StartQuarantineForced, Goto
  <2>4. SeenInv'
    BY <1>0, <1>4 DEF SeenInv, StartQuarantineForced, Goto
  <2>5. DecideInv'
    BY <1>0, <1>4 DEF DecideInv, StartQuarantineForced, Goto
  <2>6. TakeoverInv'
    BY <1>0, <1>4 DEF TakeoverInv, OwnInv, Quiet, StartQuarantineForced, Goto
  <2>7. QED
    BY <1>0, <2>1, <2>2, <2>3, <2>4, <2>5, <2>6
<1>5. ASSUME NEW p \in Procs, Inspect(p) PROVE IInv'
  <2>1. DirInv'
    BY <1>0, <1>5 DEF DirInv, Inspect, Goto
  <2>2. OwnInv'
    BY <1>0, <1>5 DEF OwnInv, Inspect, Goto
  <2>3. HolderInv'
    BY <1>0, <1>5 DEF HolderInv, Inspect, Goto
  <2>4. SeenInv'
    BY <1>0, <1>5 DEF SeenInv, DirInv, Snapshot, NoLease, LeaseView, Inspect, Goto
  <2>5. DecideInv'
    BY <1>0, <1>5 DEF DecideInv, Inspect, Goto
  <2>6. TakeoverInv'
    BY <1>0, <1>5 DEF TakeoverInv, Inspect, Goto
  <2>7. QED
    BY <1>0, <2>1, <2>2, <2>3, <2>4, <2>5, <2>6
<1>6. ASSUME NEW p \in Procs, Judge(p) PROVE IInv'
  <2>1. PICK v \in Verdicts(seen[p]) :
          \/ ToAcquire(p)
          \/ EndCommand(p)
          \/ /\ v = "stale" \/ (v = "ambiguous" /\ p \in force)
             /\ seen' = [seen EXCEPT ![p].state = v]
             /\ Goto(p, "rechecking")
             /\ UNCHANGED <<own, force>>
    BY <1>6 DEF Judge
  <2>2. CASE ToAcquire(p)
    BY <1>0, <1>6, <2>2, ToAcquireInv DEF Judge
  <2>3. CASE EndCommand(p)
    BY <1>0, <1>6, <2>3, GiveUpInv DEF Judge
  <2>4. CASE /\ v = "stale" \/ (v = "ambiguous" /\ p \in force)
             /\ seen' = [seen EXCEPT ![p].state = v]
             /\ Goto(p, "rechecking")
             /\ UNCHANGED <<own, force>>
    <3> USE DEF Goto
    <3>1. /\ seen'[p].dir = seen[p].dir /\ seen'[p].by = seen[p].by
          /\ seen'[p].signed = seen[p].signed /\ seen'[p].state = v
          /\ \A q \in Procs \ {p} : seen'[q] = seen[q]
      BY <2>4 DEF LeaseView
    <3>2. seen[p].dir \in Dirs
      BY <2>1, <2>4 DEF Verdicts, LeaseView
    <3>3. \/ v = "stale" /\ seen[p].signed /\ seen[p].by \notin alive
          \/ v = "ambiguous" /\ ~ seen[p].signed /\ p \in force
      BY <2>1, <2>4 DEF Verdicts
    <3>4. DirInv' /\ OwnInv' /\ HolderInv'
      BY <1>6, <2>4 DEF DirInv, OwnInv, HolderInv, Judge
    <3>5. SeenInv'
      BY <1>6, <2>4, <3>1, <3>2, <3>3 DEF SeenInv, Judge
    <3>6. DecideInv'
      BY <1>6, <2>4, <3>1 DEF DecideInv, Judge
    <3>7. TakeoverInv'
      BY <1>6, <2>4 DEF TakeoverInv, Judge
    <3>8. QED
      BY <1>0, <3>4, <3>5, <3>6, <3>7
  <2>5. QED
    BY <2>1, <2>2, <2>3, <2>4
<1>7. ASSUME NEW p \in Procs, Recheck(p) PROVE IInv'
  <2>1. CASE EndCommand(p)
    BY <1>0, <1>7, <2>1, GiveUpInv DEF Recheck
  <2>2. CASE SameFingerprint(Snapshot, seen[p]) /\ Goto(p, "deciding") /\ UNCHANGED <<own, seen, force>>
    <3>1. DirInv'
      BY <1>7, <2>2 DEF DirInv, Recheck, Goto
    <3>2. OwnInv'
      BY <1>7, <2>2 DEF OwnInv, Recheck, Goto
    <3>3. HolderInv'
      BY <1>7, <2>2 DEF HolderInv, Recheck, Goto
    <3>4. SeenInv'
      BY <1>7, <2>2 DEF SeenInv, Recheck, Goto
    <3>5. DecideInv'
      <4>1. seen[p].dir \in Dirs /\ Snapshot.dir = seen[p].dir /\ Snapshot.signed = seen[p].signed
        BY <1>7, <2>2 DEF SeenInv, SameFingerprint, Recheck
      <4>2. lock = seen[p].dir /\ lock # 0
        BY <4>1, SnapshotFields
      <4>3. lock \in whole <=> seen[p].signed
        BY <4>1, <4>2, SnapshotFields, Zenon DEF NoDir
      <4>4. QED
        BY <1>7, <2>2, <4>2, <4>3 DEF DecideInv, Recheck, Goto
    <3>6. TakeoverInv'
      BY <1>7, <2>2 DEF TakeoverInv, Recheck, Goto
    <3>7. QED
      BY <1>0, <3>1, <3>2, <3>3, <3>4, <3>5, <3>6
  <2>3. QED
    BY <1>7, <2>1, <2>2 DEF Recheck, ProceedIf
<1>8. ASSUME NEW p \in Procs, Decide(p) PROVE IInv'
  <2>1. CASE EndCommand(p)
    BY <1>0, <1>8, <2>1, GiveUpInv DEF Decide
  <2>2. CASE seen[p].state \in Verdicts(seen[p]) /\ Goto(p, "evicting") /\ UNCHANGED <<own, seen, force>>
    <3>1. DirInv'
      BY <1>8, <2>2 DEF DirInv, Decide, Goto
    <3>2. OwnInv'
      BY <1>8, <2>2 DEF OwnInv, Decide, Goto
    <3>3. HolderInv'
      BY <1>8, <2>2 DEF HolderInv, Decide, Goto
    <3>4. SeenInv'
      BY <1>8, <2>2 DEF SeenInv, Decide, Goto
    <3>5. DecideInv'
      BY <1>8, <2>2 DEF DecideInv, Decide, Goto
    <3>6. TakeoverInv'
      BY <1>8, <2>2 DEF TakeoverInv, Decide, Goto
    <3>7. QED
      BY <1>0, <3>1, <3>2, <3>3, <3>4, <3>5, <3>6
  <2>3. QED
    BY <1>8, <2>1, <2>2 DEF Decide, ProceedIf
<1>9. ASSUME NEW p \in Procs, Evict(p) PROVE IInv'
  <2>1. CASE lock = NoDir
    BY <1>0, <1>9, <2>1, GiveUpInv DEF Evict
  <2>2. CASE lock # NoDir
    <3>1. /\ ToAcquire(p) /\ UNCHANGED <<made, owner, whole, alive>> /\ lock' = NoDir
          /\ pc[p] = "evicting" /\ p \in alive
      BY <1>9, <2>2 DEF Evict
    <3> USE DEF ToAcquire, Goto
    <3>2. DirInv'
      BY <3>1 DEF DirInv
    <3>3. OwnInv'
      BY <3>1 DEF OwnInv
    <3>4. \A q \in Procs : pc[q] \notin Writing \cup Ending
      BY <3>1 DEF OwnInv, HolderInv, SeenInv, DecideInv
    <3>5. HolderInv'
      BY <3>1, <3>4 DEF HolderInv
    <3>6. SeenInv'
      BY <3>1 DEF SeenInv
    <3>7. DecideInv'
      BY <3>1 DEF DecideInv, TakeoverInv
    <3>8. TakeoverInv'
      BY <3>1 DEF TakeoverInv
    <3>9. QED
      BY <1>0, <3>2, <3>3, <3>5, <3>6, <3>7, <3>8
  <2>3. QED
    BY <2>1, <2>2
<1>10. ASSUME NEW p \in Procs, Make(p) PROVE IInv'
  <2>1. CASE lock # NoDir
    BY <1>0, <1>10, <2>1, GiveUpInv DEF Make
  <2>2. CASE lock = NoDir
    <3>1. /\ p \in alive /\ pc[p] = "making" /\ Goto(p, "naming")
          /\ made < MaxDirs /\ made' = made + 1 /\ lock' = made + 1
          /\ UNCHANGED <<own, seen, force, owner, whole, alive>>
      BY <1>10, <2>2 DEF Make
    <3> USE <3>1, <2>2 DEF Goto
    <3>2. DirInv'
      BY DEF DirInv
    <3>3. OwnInv'
      BY DEF OwnInv
    <3>4. HolderInv'
      BY DEF HolderInv, OwnInv
    <3>5. SeenInv'
      BY DEF SeenInv
    <3>6. DecideInv'
      BY DEF DecideInv, SeenInv
    <3>7. TakeoverInv'
      BY DEF TakeoverInv
    <3>8. QED
      BY <1>0, <3>2, <3>3, <3>4, <3>5, <3>6, <3>7
  <2>3. QED
    BY <2>1, <2>2
<1>11. ASSUME NEW p \in Procs, Name(p) PROVE IInv'
  <2>1. CASE EndCommand(p) /\ UNCHANGED owner
    BY <1>0, <1>11, <2>1, GiveUpInv DEF Name
  <2>2. CASE lock # NoDir /\ owner[lock] = NoProc
    <3>1. /\ p \in alive /\ pc[p] = "naming" /\ Goto(p, "signing")
          /\ owner' = [owner EXCEPT ![lock] = p] /\ own' = [own EXCEPT ![p] = lock]
          /\ UNCHANGED <<lock, made, whole, alive, seen, force>>
      BY <1>11, <2>2 DEF Name
    <3> USE <3>1, <2>2 DEF Goto
    <3>2. DirInv'
      BY DEF DirInv
    <3>3. OwnInv'
      BY DEF OwnInv
    <3>4. HolderInv'
      BY DEF HolderInv
    <3>5. SeenInv'
      BY DEF SeenInv, DirInv
    <3>6. DecideInv'
      BY DEF DecideInv
    <3>7. TakeoverInv'
      BY DEF TakeoverInv
    <3>8. QED
      BY <1>0, <3>2, <3>3, <3>4, <3>5, <3>6, <3>7
  <2>3. QED
    BY <1>11, <2>1, <2>2 DEF Name
<1>12. ASSUME NEW p \in Procs, Sign(p) PROVE IInv'
  <2>1. DirInv'
    BY <1>0, <1>12 DEF DirInv, OwnInv, Sign, Goto
  <2>2. OwnInv'
    BY <1>0, <1>12 DEF OwnInv, Sign, Goto
  <2>3. HolderInv'
    BY <1>0, <1>12 DEF HolderInv, Sign, Goto
  <2>4. SeenInv'
    BY <1>0, <1>12 DEF SeenInv, Sign, Goto
  <2>5. DecideInv'
    BY <1>0, <1>12 DEF DecideInv, SeenInv, OwnInv, TakeoverInv, DirInv, Sign, Goto
  <2>6. TakeoverInv'
    BY <1>0, <1>12 DEF TakeoverInv, Sign, Goto
  <2>7. QED
    BY <1>0, <2>1, <2>2, <2>3, <2>4, <2>5, <2>6
<1>13. ASSUME NEW p \in Procs, Confirm(p) PROVE IInv'
  <2>1. CASE EndCommand(p)
    BY <1>0, <1>13, <2>1, GiveUpInv DEF Confirm
  <2>2. CASE lock = own[p] /\ Goto(p, "holding") /\ UNCHANGED <<own, seen, force>>
    <3>1. DirInv'
      BY <1>13, <2>2 DEF DirInv, Confirm, Goto
    <3>2. OwnInv'
      BY <1>13, <2>2 DEF OwnInv, Confirm, Goto
    <3>3. HolderInv'
      BY <1>13, <2>2 DEF HolderInv, Confirm, Goto
    <3>4. SeenInv'
      BY <1>13, <2>2 DEF SeenInv, Confirm, Goto
    <3>5. DecideInv'
      BY <1>13, <2>2 DEF DecideInv, Confirm, Goto
    <3>6. TakeoverInv'
      BY <1>13, <2>2 DEF TakeoverInv, Confirm, Goto
    <3>7. QED
      BY <1>0, <3>1, <3>2, <3>3, <3>4, <3>5, <3>6
  <2>3. QED
    BY <1>13, <2>1, <2>2 DEF Confirm, ProceedIf
<1>14. ASSUME NEW p \in Procs, Close(p) PROVE IInv'
  <2>1. DirInv'
    BY <1>0, <1>14 DEF DirInv, Close, Goto
  <2>2. OwnInv'
    BY <1>0, <1>14 DEF OwnInv, Close, Goto
  <2>3. HolderInv'
    BY <1>0, <1>14 DEF HolderInv, Close, Goto
  <2>4. SeenInv'
    BY <1>0, <1>14 DEF SeenInv, Close, Goto
  <2>5. DecideInv'
    BY <1>0, <1>14 DEF DecideInv, Close, Goto
  <2>6. TakeoverInv'
    BY <1>0, <1>14 DEF TakeoverInv, Close, Goto
  <2>7. QED
    BY <1>0, <2>1, <2>2, <2>3, <2>4, <2>5, <2>6
<1>15. ASSUME NEW p \in Procs, CheckOwn(p) PROVE IInv'
  <2>1. CASE EndCommand(p)
    BY <1>0, <1>15, <2>1, GiveUpInv DEF CheckOwn
  <2>2. CASE lock = own[p] /\ Goto(p, "freeing") /\ UNCHANGED <<own, seen, force>>
    <3>1. DirInv'
      BY <1>15, <2>2 DEF DirInv, CheckOwn, Goto
    <3>2. OwnInv'
      BY <1>15, <2>2 DEF OwnInv, CheckOwn, Goto
    <3>3. HolderInv'
      BY <1>15, <2>2 DEF HolderInv, CheckOwn, Goto
    <3>4. SeenInv'
      BY <1>15, <2>2 DEF SeenInv, CheckOwn, Goto
    <3>5. DecideInv'
      BY <1>15, <2>2 DEF DecideInv, CheckOwn, Goto
    <3>6. TakeoverInv'
      BY <1>15, <2>2 DEF TakeoverInv, CheckOwn, Goto
    <3>7. QED
      BY <1>0, <3>1, <3>2, <3>3, <3>4, <3>5, <3>6
  <2>3. QED
    BY <1>15, <2>1, <2>2 DEF CheckOwn, ProceedIf
<1>16. ASSUME NEW p \in Procs, Free(p) PROVE IInv'
  <2>1. /\ p \in alive /\ pc[p] = "freeing" /\ lock' = NoDir
        /\ UNCHANGED <<made, owner, whole, alive>>
    BY <1>16 DEF Free
  <2> USE <2>1 DEF EndCommand
  <2>2. DirInv'
    BY <1>16 DEF DirInv, Free
  <2>3. OwnInv'
    BY <1>16 DEF OwnInv, Free
  <2>4. HolderInv'
    BY <1>16 DEF HolderInv, OwnInv, Free
  <2>5. SeenInv'
    BY <1>16 DEF SeenInv, Free
  <2>6. \A q \in Procs : pc[q] \notin {"deciding", "evicting"}
    BY DEF DecideInv, SeenInv, HolderInv, OwnInv
  <2>7. DecideInv'
    BY <1>16, <2>6 DEF DecideInv, Free
  <2>8. TakeoverInv'
    BY <1>16 DEF TakeoverInv, Free
  <2>9. QED
    BY <1>0, <2>2, <2>3, <2>4, <2>5, <2>7, <2>8
<1>17. ASSUME NEW p \in Procs, Unverifiable(p) PROVE IInv'
  BY <1>0, <1>17, GiveUpInv DEF Unverifiable
<1>18. ASSUME NEW p \in Procs, Die(p) PROVE IInv'
  BY <1>0, <1>18, GiveUpInv DEF Die
<1>19. QED
  BY <1>1, <1>2, <1>3, <1>4, <1>5, <1>6, <1>7, <1>8, <1>9, <1>10, <1>11, <1>12, <1>13, <1>14, <1>15, <1>16, <1>17, <1>18 DEF Next

\* What the invariant says of the writers.
LEMMA InvImplies == IInv => Exclusion /\ HolderIsNamed
  BY DEF IInv, TypeOK, OwnInv, HolderInv, Exclusion, HolderIsNamed, Holds, Writing, Ending

\* The invariant holds in every behaviour in which stale leases are taken over
\* by one command at a time.
LEMMA InvCorrect == ASSUME StaleAlone PROVE Spec => []IInv
<1>1. IInv /\ [Next]_vars => IInv'
  BY InvInductive
<1>2. QED
  BY InvInit, <1>1, PTL DEF Spec

\* Two live processes never both hold the journal open for appending, however
\* many commands start, die, give up or take over a dead writer's lease.
THEOREM ExclusionHolds == ASSUME StaleAlone PROVE Spec => []Exclusion
  BY InvCorrect, InvImplies, PTL

\* A writer's lease stays at the path under its own name until it closes.
THEOREM HolderIsNamedHolds == ASSUME StaleAlone PROVE Spec => []HolderIsNamed
  BY InvCorrect, InvImplies, PTL

\* A takeover removes only the lease of a dead owner, or an unfinished one by
\* force.
THEOREM EvictsOnlyTheDeadHolds == ASSUME StaleAlone PROVE Spec => EvictsOnlyTheDead
<1> DEFINE Safe ==
      \A p \in Procs : pc[p] = "evicting" /\ p \in alive /\ pc'[p] # "evicting" /\ lock' # lock =>
        (lock \in whole /\ owner[lock] \notin alive) \/ (lock \notin whole /\ p \in force)
<1>1. IInv => Safe
  BY DEF IInv, SeenInv, DecideInv
<1>2. QED
  BY <1>1, InvCorrect, PTL DEF Spec, EvictsOnlyTheDead

\* A close removes only the lease of the process that closes.
THEOREM ReleasesOnlyItsOwnHolds == ASSUME StaleAlone PROVE Spec => ReleasesOnlyItsOwn
<1> DEFINE Safe ==
      \A p \in Procs : pc[p] = "freeing" /\ p \in alive /\ pc'[p] # "freeing" /\ lock' # lock =>
        owner[lock] = p
<1>1. IInv => Safe
  BY DEF IInv, OwnInv, HolderInv, Writing, Ending
<1>2. QED
  BY <1>1, InvCorrect, PTL DEF Spec, ReleasesOnlyItsOwn

-----------------------------------------------------------------------------
\* A step moves one process: every other one holds after it iff it did before.
LEMMA OneMoves ==
  ASSUME TypeOK, Next
  PROVE  \E p \in Procs : \A q \in Procs \ {p} : Holds(q)' <=> Holds(q)
<1>1. PICK p \in Procs :
        /\ \A q \in Procs \ {p} : pc'[q] = pc[q]
        /\ alive' = alive \/ alive' = alive \ {p}
  BY DEF Next, TypeOK, Start, StartQuarantineStale, StartQuarantineForced, Inspect, Judge,
     Recheck, Decide, Evict, Make, Name, Sign, Confirm, Close, CheckOwn, Free,
     Unverifiable, Die, Goto, EndCommand, ToAcquire, ProceedIf
<1>2. QED
  BY <1>1 DEF Holds

\* The mapped variable names the holder, and nobody when there is none.
LEMMA WriterIsHolder ==
  /\ Exclusion => \A p \in Procs : Holds(p) => writer = p
  /\ (\A p \in Procs : ~ Holds(p)) => writer = NoProc
  BY DEF Exclusion, writer

LEMMA WriterIsHolderNext ==
  /\ Exclusion' => \A p \in Procs : Holds(p)' => writer' = p
  /\ (\A p \in Procs : ~ Holds(p)') => writer' = NoProc
  BY DEF Exclusion, writer

\* Every step of the lease protocol is a grant, an end, or invisible to the
\* code above it.
LEMMA StepRefines ==
  ASSUME TypeOK, Exclusion, Exclusion', [Next]_vars PROVE [Exclusive!Next]_writer
<1>1. CASE UNCHANGED vars
  BY <1>1 DEF vars, writer, Holds
<1>2. CASE Next
  <2>1. PICK p \in Procs : \A q \in Procs \ {p} : Holds(q)' <=> Holds(q)
    BY <1>2, OneMoves
  <2>2. CASE Holds(p)' /\ ~ Holds(p)
    <3>1. \A q \in Procs : ~ Holds(q)
      BY <2>1, <2>2 DEF Exclusion
    <3>2. writer = NoProc /\ writer' = p
      BY <2>2, <3>1, WriterIsHolder, WriterIsHolderNext
    <3>3. QED
      BY <3>2 DEF Exclusive!Next, Exclusive!Grant
  <2>3. CASE Holds(p) /\ ~ Holds(p)'
    <3>1. \A q \in Procs : ~ Holds(q)'
      BY <2>1, <2>3 DEF Exclusion
    <3>2. writer = p /\ writer' = NoProc
      BY <2>3, <3>1, WriterIsHolder, WriterIsHolderNext
    <3>3. QED
      BY <3>2, NoProcAssumption DEF Exclusive!Next, Exclusive!End
  <2>4. CASE Holds(p) <=> Holds(p)'
    <3>1. \A q \in Procs : Holds(q)' <=> Holds(q)
      BY <2>1, <2>4
    <3>2. CASE \E q \in Procs : Holds(q)
      BY <3>1, <3>2, WriterIsHolder, WriterIsHolderNext
    <3>3. CASE \A q \in Procs : ~ Holds(q)
      BY <3>1, <3>3, WriterIsHolder, WriterIsHolderNext
    <3>4. QED
      BY <3>2, <3>3
  <2>5. QED
    BY <2>2, <2>3, <2>4
<1>3. QED
  BY <1>1, <1>2

\* The lease protocol implements the lock the journal is written under.
THEOREM LeaseImplementsExclusiveLease ==
  ASSUME StaleAlone PROVE Spec => ImplementsExclusiveLease
<1>1. Init => Exclusive!Init
  BY WriterIsHolder DEF Init, Exclusive!Init, Holds
<1>2. IInv /\ IInv' /\ [Next]_vars => [Exclusive!Next]_writer
  <2>1. IInv => TypeOK /\ Exclusion
    BY InvImplies DEF IInv
  <2>2. IInv' => Exclusion'
    BY DEF IInv, TypeOK, OwnInv, HolderInv, Exclusion, Holds, Writing, Ending
  <2>3. QED
    BY <2>1, <2>2, StepRefines
<1>3. QED
  BY <1>1, <1>2, InvCorrect, PTL DEF Spec, ImplementsExclusiveLease, Exclusive!Spec
=============================================================================
