---------------------------- MODULE JournalLogProofs ----------------------------
(***************************************************************************)
(* Proofs about the journal on disk, for any set of processes, any number  *)
(* of events and of files: if commands open the log one at a time, what an *)
(* append has acknowledged survives crashes, repairs and power losses, and *)
(* the log the next open reads is replayable and append-only.              *)
(***************************************************************************)
EXTENDS JournalLog, TLAPS

\* The ids of a file grow along its lines; a recovered tail was written after
\* the lines before its fact and before the fact itself.
Ordered(s) ==
  /\ \A i, j \in DOMAIN s : i < j => s[i].id < s[j].id
  /\ \A i \in DOMAIN s : s[i].tail # NoEvent => s[i].tail < s[i].id
  /\ \A i, j \in DOMAIN s : i < j /\ s[j].tail # NoEvent => s[i].id < s[j].tail

\* A record that carries a new id and a torn record of the same file, if any.
FitsAfter(s, e, tail) ==
  /\ \A i \in DOMAIN s : s[i].id < e
  /\ tail # NoEvent => tail < e /\ \A i \in DOMAIN s : s[i].id < tail

-----------------------------------------------------------------------------
(* Records. *)

LEMMA RecordAfterType ==
  ASSUME NEW s \in Seq(Record), NEW e \in Events, NEW tail \in Events \cup {NoEvent}
  PROVE  RecordAfter(s, e, tail) \in Record
<1>1. LastId(s) \in Events \cup {NoEvent}
  <2>1. CASE s = << >>
    BY <2>1 DEF LastId
  <2>2. CASE s # << >>
    <3>1. Len(s) \in DOMAIN s
      BY <2>2
    <3>2. s[Len(s)] \in Record
      BY <3>1
    <3>3. s[Len(s)].id \in Events
      BY <3>2 DEF Record
    <3>4. QED
      BY <2>2, <3>3 DEF LastId
  <2>3. QED
    BY <2>1, <2>2
<1>2. QED
  BY <1>1 DEF RecordAfter, Record

\* The lines of a file with one record more.
LEMMA AppendLines ==
  ASSUME NEW s \in Seq(Record), NEW r \in Record
  PROVE  /\ Append(s, r) \in Seq(Record)
         /\ Len(Append(s, r)) = Len(s) + 1
         /\ DOMAIN Append(s, r) = 1..(Len(s) + 1)
         /\ DOMAIN s = 1..Len(s)
         /\ \A i \in 1..Len(s) : Append(s, r)[i] = s[i]
         /\ Append(s, r)[Len(s) + 1] = r
  OBVIOUS

LEMMA AppendIds ==
  ASSUME NEW s \in Seq(Record), NEW r \in Record
  PROVE  IdsOf(Append(s, r)) = IdsOf(s) \cup {r.id}
  BY AppendLines DEF IdsOf

\* The fields of a line.
LEMMA LineTypes ==
  ASSUME NEW s \in Seq(Record), NEW i \in DOMAIN s
  PROVE  s[i].id \in Events /\ s[i].id \in Nat /\ s[i].tail \in Nat
<1>1. s[i] \in Record
  OBVIOUS
<1>2. QED
  BY <1>1 DEF Record, Events, NoEvent

LEMMA IdsTypes == ASSUME NEW s \in Seq(Record) PROVE IdsOf(s) \subseteq Events
  BY LineTypes DEF IdsOf

LEMMA LastIdIsLast ==
  ASSUME NEW s \in Seq(Record), NEW r \in Record
  PROVE  LastId(Append(s, r)) = r.id
  BY AppendLines DEF LastId

\* The first n lines of a file.
LEMMA PrefixLines ==
  ASSUME NEW s \in Seq(Record), NEW n \in 0..Len(s)
  PROVE  /\ SubSeq(s, 1, n) \in Seq(Record)
         /\ Len(SubSeq(s, 1, n)) = n
         /\ DOMAIN SubSeq(s, 1, n) = 1..n
         /\ DOMAIN s = 1..Len(s)
         /\ \A i \in 1..n : SubSeq(s, 1, n)[i] = s[i]
  OBVIOUS

\* createVerifiedJournalEvent extends the chain that acceptLine checks.
LEMMA ChainedAppend ==
  ASSUME NEW s \in Seq(Record), Chained(s), NEW e \in Events, NEW tail \in Events \cup {NoEvent}
  PROVE  Chained(Append(s, RecordAfter(s, e, tail)))
<1> DEFINE r == RecordAfter(s, e, tail)
<1>1. r \in Record
  BY RecordAfterType
<1>2. r.seq = Len(s) + 1 /\ r.prev = LastId(s)
  BY DEF RecordAfter
<1> HIDE DEF r
<1>3. \A i \in 1..Len(s) : Append(s, r)[i].seq = i /\ Append(s, r)[i].prev = (IF i = 1 THEN NoEvent ELSE Append(s, r)[i - 1].id)
  BY <1>1, AppendLines DEF Chained
<1>4. Append(s, r)[Len(s) + 1].prev = (IF Len(s) + 1 = 1 THEN NoEvent ELSE Append(s, r)[Len(s)].id)
  BY <1>1, <1>2, AppendLines DEF LastId
<1>5. QED
  BY <1>1, <1>2, <1>3, <1>4, AppendLines DEF Chained, r

LEMMA ChainedPrefix ==
  ASSUME NEW s \in Seq(Record), Chained(s), NEW n \in 0..Len(s)
  PROVE  Chained(SubSeq(s, 1, n))
<1> DEFINE t == SubSeq(s, 1, n)
<1>1. DOMAIN t = 1..n /\ DOMAIN s = 1..Len(s) /\ Len(s) \in Nat /\ \A i \in 1..n : t[i] = s[i]
  BY PrefixLines
<1> HIDE DEF t
<1>2. Chained(t)
  BY <1>1 DEF Chained
<1>3. QED
  BY <1>2 DEF t

LEMMA OrderedAppend ==
  ASSUME NEW s \in Seq(Record), Ordered(s), NEW e \in Events, NEW tail \in Events \cup {NoEvent},
         FitsAfter(s, e, tail)
  PROVE  Ordered(Append(s, RecordAfter(s, e, tail)))
<1> DEFINE r == RecordAfter(s, e, tail)
<1>1. r \in Record
  BY RecordAfterType
<1>2. r.id = e /\ r.tail = tail
  BY DEF RecordAfter
<1> HIDE DEF r
<1> DEFINE t == Append(s, r)
<1>3. /\ DOMAIN t = 1..(Len(s) + 1) /\ DOMAIN s = 1..Len(s) /\ Len(s) \in Nat
      /\ \A i \in 1..Len(s) : t[i] = s[i]
      /\ t[Len(s) + 1].id = e /\ t[Len(s) + 1].tail = tail
  BY <1>1, <1>2, AppendLines
<1>4. \A i \in 1..Len(s) : s[i].id < e /\ (tail # NoEvent => s[i].id < tail)
  BY <1>3 DEF FitsAfter
<1>5. tail # NoEvent => tail < e
  BY DEF FitsAfter
<1> HIDE DEF t
<1>6. \A i, j \in DOMAIN t : i < j => t[i].id < t[j].id
  BY <1>3, <1>4 DEF Ordered
<1>7. \A i \in DOMAIN t : t[i].tail # NoEvent => t[i].tail < t[i].id
  BY <1>3, <1>5 DEF Ordered
<1>8. \A i, j \in DOMAIN t : i < j /\ t[j].tail # NoEvent => t[i].id < t[j].tail
  BY <1>3, <1>4 DEF Ordered
<1>9. QED
  BY <1>6, <1>7, <1>8 DEF Ordered, t, r

LEMMA OrderedPrefix ==
  ASSUME NEW s \in Seq(Record), Ordered(s), NEW n \in 0..Len(s)
  PROVE  Ordered(SubSeq(s, 1, n))
  BY PrefixLines DEF Ordered
-----------------------------------------------------------------------------
(* The inductive invariant. *)

\* Of every file ever made: its records chain, carry growing ids and explain
\* their tails; a torn record is younger than the lines before it.
FileInv ==
  \A f \in Files :
    /\ Chained(lines[f]) /\ Ordered(lines[f]) /\ Explained(lines[f])
    /\ synced[f] <= Len(lines[f])
    /\ \A i \in DOMAIN lines[f] : lines[f][i].id <= events
    /\ torn[f] <= events
    /\ torn[f] # NoEvent => \A i \in DOMAIN lines[f] : lines[f][i].id < torn[f]
    /\ f > files => lines[f] = << >> /\ torn[f] = NoEvent /\ synced[f] = 0

\* The steps at which p's memory is the log at the path.
InStep == {"publishing", "copying", "syncing_temp", "swapping", "ready", "writing"}

\* One process has the lease, and one at a time opens or repairs.
LeaseInv ==
  /\ \A p \in Procs : pc[p] \in Leased <=> writer = p
  /\ \A p, q \in Procs :
       pc[p] \in Opening \cup Repairing /\ pc[q] \in Opening \cup Repairing => p = q

\* Where a process is, what it knows of the file at the path.
LocalInv ==
  \A p \in Procs :
    /\ pc[p] \in {"opened", "replaying", "syncing", "poisoned"} \cup InStep => fd[p] = path
    /\ pc[p] \in InStep => mem[p] = lines[path]
    /\ pc[p] \in {"publishing", "copying", "syncing_temp", "swapping"} =>
         torn[path] # NoEvent /\ lines[path] # << >>
    /\ pc[p] \in {"copying", "syncing_temp", "swapping"} => torn[path] \in saved
    /\ pc[p] \in {"ready", "syncing"} => torn[path] = NoEvent
    /\ pc[p] = "writing" => torn[path] # NoEvent
    /\ pc[p] = "syncing" =>
         \E e \in Events : lines[path] = Append(mem[p], RecordAfter(mem[p], e, NoEvent))
    /\ pc[p] \in {"ready", "writing", "syncing"} => IdsOf(mem[p]) \subseteq returned

\* The file a repair builds is not at the path before it is whole and synced.
TempInv ==
  \A p \in Procs :
    /\ pc[p] \in {"syncing_temp", "swapping"} =>
         /\ temp[p] \in Files /\ temp[p] <= files /\ temp[p] \notin {path, durable}
         /\ torn[temp[p]] = NoEvent
         /\ \E e \in Events : lines[temp[p]] = Append(mem[p], RecordAfter(mem[p], e, torn[path]))
    /\ pc[p] = "swapping" => synced[temp[p]] = Len(lines[temp[p]])

\* The path names a new file only until its directory is synced, and then
\* only with one fact more than the file it named before.
PathInv ==
  /\ path <= files /\ durable <= files
  /\ \A p \in Procs : pc[p] \in {"replaying"} \cup InStep \cup {"syncing", "poisoned", "reopening"} => durable = path
  /\ durable # path => \E r \in Record : lines[path] = Append(lines[durable], r)
  /\ durable # path => torn[path] = NoEvent /\ synced[path] = Len(lines[path])

\* What was promised is there, and only the last line may be unknown.
KeepInv ==
  /\ AckedSurvive
  /\ ReturnedStay
  /\ \A f \in {path, durable} :
       /\ \A i \in DOMAIN lines[f] : i < Len(lines[f]) => lines[f][i].id \in returned
       /\ torn[f] # NoEvent => IdsOf(lines[f]) \subseteq returned

IInv == TypeOK /\ FileInv /\ LeaseInv /\ LocalInv /\ TempInv /\ PathInv /\ KeepInv
-----------------------------------------------------------------------------
(* The invariant is inductive. *)

LEMMA EmptyLines == << >> \in Seq(Record) /\ Len(<< >>) = 0 /\ DOMAIN << >> = {}
  OBVIOUS

LEMMA InvInit == Init => IInv
<1> SUFFICES ASSUME Init PROVE IInv
  OBVIOUS
<1> USE BoundsAssumption, EmptyLines DEF Init, Files, NoFile, NoEvent
<1>1. TypeOK
  BY DEF TypeOK, Steps
<1>2. FileInv
  BY DEF FileInv, Chained, Ordered, Explained
<1>3. LeaseInv /\ LocalInv /\ TempInv
  BY NoProcAssumption DEF LeaseInv, LocalInv, TempInv, Leased, Opening, Repairing, Running, InStep
<1>4. PathInv
  BY DEF PathInv, InStep
<1>5. KeepInv
  BY DEF KeepInv, AckedSurvive, ReturnedStay
<1>6. QED
  BY <1>1, <1>2, <1>3, <1>4, <1>5 DEF IInv

\* A command that leaves takes nothing from the disk, whatever it was doing.
LEMMA LeaveInv ==
  ASSUME IInv, NEW p \in Procs, Leave(p), UNCHANGED <<disk, events, acked, returned>>
  PROVE  IInv'
<1> USE EmptyLines, NoProcAssumption DEF IInv, disk, Leave
<1>1. TypeOK'
  BY DEF TypeOK, Steps
<1>2. FileInv'
  BY DEF FileInv, Explained
<1>3. LeaseInv'
  BY DEF LeaseInv, TypeOK, Steps, Leased, Opening, Repairing, Running
<1>4. LocalInv'
  BY DEF LocalInv, TypeOK, InStep
<1>5. TempInv'
  BY DEF TempInv, TypeOK
<1>6. PathInv'
  BY DEF PathInv, TypeOK, InStep
<1>7. KeepInv'
  BY DEF KeepInv, AckedSurvive, ReturnedStay
<1>8. QED
  BY <1>1, <1>2, <1>3, <1>4, <1>5, <1>6, <1>7

\* Only the start of an open needs OpenAlone.
LEMMA BootstrapInv ==
  ASSUME OpenAlone, IInv, NEW p \in Procs, Bootstrap(p) PROVE IInv'
<1> USE NoProcAssumption, BoundsAssumption DEF IInv, Bootstrap, Goto, disk, NoFile, NoEvent
<1>1. TypeOK'
  BY DEF TypeOK, Steps, Opening, Repairing, Running
<1>2. FileInv'
  BY DEF FileInv, Explained, TypeOK
<1>3. LeaseInv'
  BY DEF LeaseInv, TypeOK, Steps, Leased, Opening, Repairing, Running
<1>4. LocalInv'
  BY DEF LocalInv, LeaseInv, TypeOK, Steps, Leased, Opening, Repairing, Running, InStep
<1>5. TempInv'
  BY DEF TempInv, TypeOK
<1>6. PathInv'
  BY DEF PathInv, TypeOK, InStep
<1>7. KeepInv'
  BY DEF KeepInv, AckedSurvive, ReturnedStay, FileInv, TypeOK
<1>8. QED
  BY <1>1, <1>2, <1>3, <1>4, <1>5, <1>6, <1>7

\* The handle is on the file at the path, and stays so while p opens.
LEMMA OpenLogInv ==
  ASSUME IInv, NEW p \in Procs, OpenLog(p) PROVE IInv'
<1> USE NoProcAssumption, BoundsAssumption DEF IInv, OpenLog, Goto, disk, NoFile, NoEvent
<1>1. TypeOK'
  BY DEF TypeOK, Steps, Opening, Repairing, Running
<1>2. FileInv'
  BY DEF FileInv, Explained, TypeOK
<1>3. LeaseInv'
  BY DEF LeaseInv, TypeOK, Steps, Leased, Opening, Repairing, Running
<1>4. LocalInv'
  BY DEF LocalInv, LeaseInv, TypeOK, Steps, Leased, Opening, Repairing, Running, InStep
<1>5. TempInv'
  BY DEF TempInv, TypeOK
<1>6. PathInv'
  BY DEF PathInv, TypeOK, InStep
<1>7. KeepInv'
  BY DEF KeepInv, AckedSurvive, ReturnedStay, FileInv, TypeOK
<1>8. QED
  BY <1>1, <1>2, <1>3, <1>4, <1>5, <1>6, <1>7

\* The lease passes to p.
LEMMA AcquireInv ==
  ASSUME IInv, NEW p \in Procs, Acquire(p) PROVE IInv'
<1> USE NoProcAssumption, BoundsAssumption DEF IInv, Acquire, Goto, disk, NoFile, NoEvent
<1>1. TypeOK'
  BY DEF TypeOK, Steps, Opening, Repairing, Running
<1>2. FileInv'
  BY DEF FileInv, Explained, TypeOK
<1>3. LeaseInv'
  BY DEF LeaseInv, TypeOK, Steps, Leased, Opening, Repairing, Running
<1>4. LocalInv'
  BY DEF LocalInv, LeaseInv, TypeOK, Steps, Leased, Opening, Repairing, Running, InStep
<1>5. TempInv'
  BY DEF TempInv, TypeOK
<1>6. PathInv'
  BY DEF PathInv, TypeOK, InStep
<1>7. KeepInv'
  BY DEF KeepInv, AckedSurvive, ReturnedStay, FileInv, TypeOK
<1>8. QED
  BY <1>1, <1>2, <1>3, <1>4, <1>5, <1>6, <1>7

\* What a replay returns is on the log at the path.
LEMMA ReplayInv ==
  ASSUME IInv, NEW p \in Procs, Replay(p) PROVE IInv'
<1> USE NoProcAssumption, BoundsAssumption DEF IInv, Replay, Goto, disk, NoFile, NoEvent
<1>1. TypeOK'
  <2>1. fd[p] \in Files /\ lines[fd[p]] \in Seq(Record)
    BY DEF LocalInv, TypeOK
  <2>2. IdsOf(lines[fd[p]]) \subseteq Events
    BY <2>1, IdsTypes
  <2>3. QED
    BY <2>1, <2>2 DEF TypeOK, Steps, Running
<1>2. FileInv'
  BY DEF FileInv, Explained, TypeOK
<1>3. LeaseInv'
  BY DEF LeaseInv, TypeOK, Steps, Leased, Opening, Repairing, Running
<1>4. LocalInv'
  BY DEF LocalInv, LeaseInv, TypeOK, Steps, Leased, Opening, Repairing, Running, InStep
<1>5. TempInv'
  BY DEF TempInv, TypeOK
<1>6. PathInv'
  BY DEF PathInv, TypeOK, InStep
<1>7. KeepInv'
  <2>1. fd[p] = path
    BY DEF LocalInv
  <2>2. \A s : IdsOf(s)' = IdsOf(s)
    BY DEF IdsOf
  <2>3. AckedSurvive' /\ ReturnedStay'
    BY <2>1 DEF KeepInv, AckedSurvive, ReturnedStay
  <2>4. QED
    BY <2>1, <2>3 DEF KeepInv
<1>8. QED
  BY <1>1, <1>2, <1>3, <1>4, <1>5, <1>6, <1>7

\* A torn log is remembered as it is.
LEMMA ReplayTornInv ==
  ASSUME IInv, NEW p \in Procs, ReplayTorn(p) PROVE IInv'
<1> USE NoProcAssumption, BoundsAssumption DEF IInv, ReplayTorn, Goto, disk, NoFile, NoEvent
<1>1. TypeOK'
  <2>1. lines[fd[p]] \in Seq(Record)
    BY DEF LocalInv, TypeOK
  <2>2. QED
    BY <2>1 DEF TypeOK, Steps, Repairing
<1>2. FileInv'
  BY DEF FileInv, Explained, TypeOK
<1>3. LeaseInv'
  BY DEF LeaseInv, TypeOK, Steps, Leased, Opening, Repairing, Running
<1>4. LocalInv'
  BY DEF LocalInv, LeaseInv, TypeOK, Steps, Leased, Opening, Repairing, Running, InStep
<1>5. TempInv'
  BY DEF TempInv, TypeOK
<1>6. PathInv'
  BY DEF PathInv, TypeOK, InStep
<1>7. KeepInv'
  BY DEF KeepInv, AckedSurvive, ReturnedStay, FileInv, TypeOK
<1>8. QED
  BY <1>1, <1>2, <1>3, <1>4, <1>5, <1>6, <1>7

\* The torn record becomes known to the recovery CAS.
LEMMA PublishTailInv ==
  ASSUME IInv, NEW p \in Procs, PublishTail(p) PROVE IInv'
<1> USE NoProcAssumption, BoundsAssumption DEF IInv, PublishTail, Goto, disk, NoFile, NoEvent
<1>1. TypeOK'
  <2>1. torn[fd[p]] \in Events \cup {NoEvent}
    BY DEF LocalInv, TypeOK, InStep
  <2>2. QED
    BY <2>1 DEF TypeOK, Steps, Repairing
<1>2. FileInv'
  BY DEF FileInv, Explained, TypeOK
<1>3. LeaseInv'
  BY DEF LeaseInv, TypeOK, Steps, Leased, Opening, Repairing, Running
<1>4. LocalInv'
  BY DEF LocalInv, LeaseInv, TypeOK, Steps, Leased, Opening, Repairing, Running, InStep
<1>5. TempInv'
  BY DEF TempInv, TypeOK
<1>6. PathInv'
  BY DEF PathInv, TypeOK, InStep
<1>7. KeepInv'
  BY DEF KeepInv, AckedSurvive, ReturnedStay, FileInv, TypeOK
<1>8. QED
  BY <1>1, <1>2, <1>3, <1>4, <1>5, <1>6, <1>7

\* The repair file is the log at the path and one fact more, with new ids.
LEMMA CopyPrefixInv ==
  ASSUME IInv, NEW p \in Procs, CopyPrefix(p) PROVE IInv'
<1> USE NoProcAssumption, BoundsAssumption DEF IInv, CopyPrefix, Goto, disk, NoFile, NoEvent
<1>1. TypeOK'
  <2>1. fd[p] = path /\ mem[p] = lines[path] /\ mem[p] \in Seq(Record)
    BY DEF LocalInv, TypeOK, InStep
  <2>2. events + 1 \in Events /\ files + 1 \in Files /\ torn[path] \in Events \cup {NoEvent}
    BY DEF TypeOK, Events, Files
  <2>3. Append(mem[p], RecordAfter(mem[p], events + 1, torn[path])) \in Seq(Record)
    BY <2>1, <2>2, RecordAfterType, AppendLines
  <2> DEFINE t == Append(mem[p], RecordAfter(mem[p], events + 1, torn[path]))
  <2>4. /\ lines' = [lines EXCEPT ![files + 1] = t] /\ t \in Seq(Record)
        /\ lines \in [Files -> Seq(Record)]
    BY <2>1, <2>3 DEF TypeOK
  <2> HIDE DEF t
  <2>5. lines' \in [Files -> Seq(Record)]
    BY <2>2, <2>4
  <2>6. files' \in Files /\ events' \in 0..MaxEvents
    BY <2>2 DEF TypeOK, Files, Events
  <2>7. temp' \in [Procs -> Files \cup {NoFile}] /\ pc' \in [Procs -> Steps]
    BY <2>2 DEF TypeOK, Steps, Repairing
  <2>8. QED
    BY <2>5, <2>6, <2>7 DEF TypeOK
<1>2. FileInv'
  <2> DEFINE r == RecordAfter(mem[p], events + 1, torn[path])
  <2>1. /\ fd[p] = path /\ mem[p] = lines[path] /\ mem[p] \in Seq(Record) /\ path \in Files
        /\ torn[path] \in saved /\ torn[path] \in Events \cup {NoEvent}
        /\ events \in Nat /\ events + 1 \in Events /\ files + 1 \in Files /\ files \in Nat
    BY DEF LocalInv, TypeOK, InStep, Events, Files
  <2>2. /\ r \in Record /\ r.id = events + 1 /\ r.tail = torn[path]
    BY <2>1, RecordAfterType DEF RecordAfter
  <2>3. FitsAfter(mem[p], events + 1, torn[path])
    <3>1. \A i \in DOMAIN mem[p] : mem[p][i].id \in Nat /\ mem[p][i].id <= events
      BY <2>1, LineTypes DEF FileInv
    <3>2. torn[path] \in Nat /\ torn[path] <= events
      BY <2>1 DEF FileInv, Events
    <3>3. QED
      BY <2>1, <3>1, <3>2 DEF FitsAfter, FileInv
  <2>4. Chained(Append(mem[p], r)) /\ Ordered(Append(mem[p], r))
    BY <2>1, <2>3, ChainedAppend, OrderedAppend DEF FileInv
  <2> HIDE DEF r
  <2> DEFINE t == Append(mem[p], r)
  <2>5. /\ DOMAIN t = 1..(Len(mem[p]) + 1) /\ Len(t) = Len(mem[p]) + 1 /\ Len(mem[p]) \in Nat
        /\ DOMAIN mem[p] = 1..Len(mem[p])
        /\ \A i \in 1..Len(mem[p]) : t[i] = mem[p][i]
        /\ t[Len(mem[p]) + 1] = r
    BY <2>1, <2>2, AppendLines
  <2> HIDE DEF t
  <2>6. /\ Explained(t) /\ \A i \in DOMAIN t : t[i].id <= events + 1
    <3>1. \A i \in DOMAIN mem[p] : mem[p][i].id \in Nat /\ mem[p][i].id <= events
      BY <2>1, LineTypes DEF FileInv
    <3>2. Explained(mem[p])
      BY <2>1 DEF FileInv
    <3>3. \A i \in DOMAIN t : t[i].tail # NoEvent => t[i].tail \in saved
      <4>1. \A i \in 1..Len(mem[p]) : mem[p][i].tail # NoEvent => mem[p][i].tail \in saved
        BY <2>5, <3>2 DEF Explained
      <4>2. t[Len(mem[p]) + 1].tail \in saved
        BY <2>1, <2>2, <2>5
      <4>3. SUFFICES ASSUME NEW i \in DOMAIN t PROVE t[i].tail # NoEvent => t[i].tail \in saved
        OBVIOUS
      <4>4. i \in 1..Len(mem[p]) \/ i = Len(mem[p]) + 1
        BY <2>5
      <4> HIDE DEF IInv, CopyPrefix, NoEvent
      <4>5. QED
        BY <2>5, <4>1, <4>2, <4>4
    <3>4. \A i \in DOMAIN t : t[i].id <= events + 1
      BY <2>1, <2>2, <2>5, <3>1
    <3>5. QED
      BY <3>3, <3>4 DEF Explained
  <2>7. lines' = [lines EXCEPT ![files + 1] = t] /\ torn[files + 1] = 0 /\ synced[files + 1] = 0
    BY <2>1 DEF t, r, FileInv
  <2>8. QED
    <3> SUFFICES ASSUME NEW f \in Files PROVE
          /\ Chained(lines'[f]) /\ Ordered(lines'[f]) /\ Explained(lines'[f])
          /\ synced[f] <= Len(lines'[f])
          /\ \A i \in DOMAIN lines'[f] : lines'[f][i].id <= events + 1
          /\ torn[f] <= events + 1
          /\ torn[f] # NoEvent => \A i \in DOMAIN lines'[f] : lines'[f][i].id < torn[f]
          /\ f > files + 1 => lines'[f] = << >> /\ torn[f] = NoEvent /\ synced[f] = 0
      BY DEF FileInv, Explained
    <3>1. CASE f = files + 1
      <4>1. Chained(t) /\ Ordered(t)
        BY <2>4 DEF t
      <4>2. lines'[f] = t
        BY <2>1, <2>7, <3>1 DEF TypeOK
      <4> HIDE DEF IInv, CopyPrefix
      <4>3. QED
        BY <2>1, <2>5, <2>6, <2>7, <3>1, <4>1, <4>2
    <3>2. CASE f # files + 1
      <4>1. lines'[f] = lines[f] /\ torn[f] \in Nat /\ lines[f] \in Seq(Record)
        <5>1. /\ lines \in [Files -> Seq(Record)]
              /\ torn \in [Files -> Events \cup {NoEvent}]
          BY DEF TypeOK
        <5> HIDE DEF IInv, CopyPrefix
        <5>2. QED
          BY <2>7, <3>2, <5>1 DEF Events
      <4>2. \A i \in DOMAIN lines[f] : lines[f][i].id \in Nat /\ lines[f][i].id <= events
        BY <4>1, LineTypes DEF FileInv
      <4>3. FileInv /\ (f > files + 1 => f > files)
        BY <2>1 DEF Files
      <4> HIDE DEF IInv, CopyPrefix
      <4>4. Chained(lines'[f]) /\ Ordered(lines'[f]) /\ Explained(lines'[f])
        BY <4>1, <4>3 DEF FileInv
      <4>5. synced[f] <= Len(lines'[f]) /\ torn[f] <= events + 1
        BY <2>1, <4>1, <4>3 DEF FileInv
      <4>6. \A i \in DOMAIN lines'[f] : lines'[f][i].id <= events + 1
        BY <2>1, <4>1, <4>2
      <4>7. /\ torn[f] # NoEvent => \A i \in DOMAIN lines'[f] : lines'[f][i].id < torn[f]
            /\ f > files + 1 => lines'[f] = << >> /\ torn[f] = NoEvent /\ synced[f] = 0
        BY <4>1, <4>3 DEF FileInv
      <4>8. QED
        BY <4>4, <4>5, <4>6, <4>7
    <3>3. QED
      BY <3>1, <3>2
<1>3. LeaseInv'
  BY DEF LeaseInv, TypeOK, Steps, Leased, Opening, Repairing, Running
<1>4. LocalInv'
  <2>1. path # files + 1
    BY DEF PathInv, TypeOK, Files
  <2>2. lines'[path] = lines[path]
    BY <2>1 DEF TypeOK
  <2>3. \A q \in Procs : pc'[q] = pc[q] \/ (q = p /\ pc'[q] = "syncing_temp")
    BY DEF TypeOK
  <2>4. QED
    BY <2>2, <2>3 DEF LocalInv, TypeOK, InStep
<1>5. TempInv'
  <2>1. /\ fd[p] = path /\ events + 1 \in Events /\ files \in Nat /\ files + 1 \in Files
        /\ path # files + 1 /\ durable # files + 1 /\ torn[files + 1] = NoEvent
    BY DEF LocalInv, InStep, PathInv, FileInv, TypeOK, Events, Files
  <2>2. \A q \in Procs : q # p => pc[q] \notin {"syncing_temp", "swapping"}
    BY DEF LeaseInv, Opening, Repairing
  <2>3. /\ lines'[files + 1] = Append(mem[p], RecordAfter(mem[p], events + 1, torn[path]))
        /\ temp'[p] = files + 1 /\ pc'[p] = "syncing_temp"
        /\ \A q \in Procs : q # p => pc'[q] = pc[q]
    BY <2>1 DEF TypeOK
  <2>4. QED
    BY <2>1, <2>2, <2>3 DEF TempInv
<1>6. PathInv'
  <2>1. /\ path # files + 1 /\ durable # files + 1 /\ files' = files + 1 /\ files \in Nat
        /\ path \in Nat /\ durable \in Nat
    BY DEF PathInv, TypeOK, Files
  <2>2. lines'[path] = lines[path] /\ lines'[durable] = lines[durable]
    BY <2>1 DEF TypeOK
  <2>3. \A q \in Procs : pc'[q] = pc[q] \/ (q = p /\ pc[p] = "copying" /\ pc'[q] = "syncing_temp")
    BY DEF TypeOK
  <2>4. QED
    BY <2>1, <2>2, <2>3 DEF PathInv, InStep
<1>7. KeepInv'
  <2>1. path # files + 1 /\ durable # files + 1
    BY DEF PathInv, TypeOK, Files
  <2>2. lines'[path] = lines[path] /\ lines'[durable] = lines[durable]
    BY <2>1 DEF TypeOK
  <2>3. UNCHANGED <<path, durable, synced, torn, acked, returned>>
    OBVIOUS
  <2> HIDE DEF CopyPrefix
  <2>4. AckedSurvive'
    BY <2>2, <2>3 DEF KeepInv, AckedSurvive
  <2>5. ReturnedStay'
    BY <2>2, <2>3 DEF KeepInv, ReturnedStay
  <2>6. QED
    BY <2>2, <2>3, <2>4, <2>5 DEF KeepInv
<1>8. QED
  BY <1>1, <1>2, <1>3, <1>4, <1>5, <1>6, <1>7

\* The repair file becomes durable before it is renamed.
LEMMA SyncTempInv ==
  ASSUME IInv, NEW p \in Procs, SyncTemp(p) PROVE IInv'
<1> USE NoProcAssumption, BoundsAssumption DEF IInv, SyncTemp, Goto, disk, NoFile, NoEvent
<1>1. TypeOK'
  <2>1. temp[p] \in Files /\ Len(lines[temp[p]]) \in Nat
    BY DEF TempInv, TypeOK
  <2>2. QED
    BY <2>1 DEF TypeOK, Steps, Repairing
<1>2. FileInv'
  BY DEF FileInv, Explained, TypeOK
<1>3. LeaseInv'
  BY DEF LeaseInv, TypeOK, Steps, Leased, Opening, Repairing, Running
<1>4. LocalInv'
  BY DEF LocalInv, LeaseInv, TypeOK, Steps, Leased, Opening, Repairing, Running, InStep
<1>5. TempInv'
  BY DEF TempInv, TypeOK
<1>6. PathInv'
  BY DEF PathInv, TypeOK, InStep
<1>7. KeepInv'
  <2>1. temp[p] \in Files /\ temp[p] \notin {path, durable}
    BY DEF TempInv
  <2>2. synced'[path] = synced[path] /\ synced'[durable] = synced[durable]
    BY <2>1 DEF TypeOK
  <2>3. UNCHANGED <<path, durable, lines, torn, acked, returned>>
    OBVIOUS
  <2>4. KeepInv
    OBVIOUS
  <2> HIDE DEF IInv, SyncTemp
  <2>5. AckedSurvive'
    BY <2>2, <2>3, <2>4 DEF KeepInv, AckedSurvive
  <2>6. ReturnedStay'
    BY <2>3, <2>4 DEF KeepInv, ReturnedStay
  <2>7. QED
    BY <2>3, <2>4, <2>5, <2>6 DEF KeepInv
<1>8. QED
  BY <1>1, <1>2, <1>3, <1>4, <1>5, <1>6, <1>7

\* The path names the repair file, one fact longer and whole on disk.
LEMMA SwapInv ==
  ASSUME IInv, NEW p \in Procs, Swap(p) PROVE IInv'
<1> USE NoProcAssumption, BoundsAssumption DEF IInv, Swap, Goto, disk, NoFile, NoEvent
<1>1. TypeOK'
  <2>1. temp[p] \in Files
    BY DEF TempInv
  <2>2. QED
    BY <2>1 DEF TypeOK, Steps, Repairing
<1>2. FileInv'
  BY DEF FileInv, Explained, TypeOK
<1>3. LeaseInv'
  BY DEF LeaseInv, TypeOK, Steps, Leased, Opening, Repairing, Running
<1>4. LocalInv'
  <2>1. \A q \in Procs : q # p => pc[q] \notin Leased \cup Opening \cup Repairing
    BY DEF LeaseInv, Repairing, Leased
  <2>2. \A q \in Procs : q # p => pc'[q] \notin {"opened", "replaying", "syncing", "poisoned"} \cup InStep
    BY <2>1 DEF TypeOK, Leased, Opening, Repairing, Running, InStep
  <2>3. pc'[p] = "syncing_dir"
    BY DEF TypeOK
  <2>4. QED
    BY <2>2, <2>3 DEF LocalInv, InStep
<1>5. TempInv'
  <2>1. \A q \in Procs : q # p => pc[q] \notin Repairing
    BY DEF LeaseInv, Repairing
  <2>2. \A q \in Procs : pc'[q] \notin {"syncing_temp", "swapping"}
    BY <2>1 DEF TypeOK, Repairing
  <2>3. QED
    BY <2>2 DEF TempInv
<1>6. PathInv'
  <2>1. /\ durable = path /\ temp[p] <= files /\ torn[temp[p]] = NoEvent /\ synced[temp[p]] = Len(lines[temp[p]])
        /\ mem[p] = lines[path]
    BY DEF PathInv, InStep, TempInv, LocalInv
  <2>2. \A q \in Procs : q # p => pc[q] \notin Leased
    BY DEF LeaseInv, Leased, Repairing
  <2>3. \A q \in Procs : pc'[q] \notin {"replaying", "syncing", "poisoned", "reopening"} \cup InStep
    BY <2>2 DEF TypeOK, Leased, Repairing, Running, InStep
  <2>4. \E r \in Record : lines[temp[p]] = Append(lines[path], r)
    <3>1. PICK e \in Events : lines[temp[p]] = Append(mem[p], RecordAfter(mem[p], e, torn[path]))
      BY DEF TempInv
    <3>2. mem[p] \in Seq(Record) /\ torn[path] \in Events \cup {NoEvent}
      BY DEF TypeOK
    <3>3. RecordAfter(mem[p], e, torn[path]) \in Record
      BY <3>2, RecordAfterType
    <3>4. QED
      BY <2>1, <3>1, <3>3
  <2>5. QED
    BY <2>1, <2>3, <2>4 DEF PathInv
<1>7. KeepInv'
  <2>1. /\ durable = path /\ synced[temp[p]] = Len(lines[temp[p]]) /\ mem[p] = lines[path]
        /\ torn[temp[p]] = NoEvent /\ torn[path] # NoEvent /\ mem[p] \in Seq(Record)
        /\ torn[path] \in Events \cup {NoEvent} /\ synced[path] \in Nat /\ synced[path] <= Len(lines[path])
    BY DEF PathInv, InStep, TempInv, LocalInv, TypeOK, FileInv
  <2>2. PICK e \in Events : lines[temp[p]] = Append(mem[p], RecordAfter(mem[p], e, torn[path]))
    BY DEF TempInv
  <2> DEFINE r == RecordAfter(mem[p], e, torn[path])
  <2> DEFINE t == Append(mem[p], r)
  <2>3. r \in Record
    BY <2>1, RecordAfterType
  <2> HIDE DEF r
  <2>4. /\ Len(t) = Len(mem[p]) + 1 /\ DOMAIN t = 1..(Len(mem[p]) + 1) /\ DOMAIN mem[p] = 1..Len(mem[p])
        /\ \A i \in 1..Len(mem[p]) : t[i] = mem[p][i]
        /\ Len(mem[p]) \in Nat /\ IdsOf(t) = IdsOf(mem[p]) \cup {r.id}
    BY <2>1, <2>3, AppendLines, AppendIds
  <2>5. lines[temp[p]] = t
    BY <2>2 DEF r
  <2>6. path' = temp[p] /\ UNCHANGED <<durable, lines, synced, torn, acked, returned>>
    OBVIOUS
  <2> HIDE DEF t, Swap
  <2>7. AckedSurvive'
    BY <2>1, <2>4, <2>5, <2>6 DEF KeepInv, AckedSurvive
  <2>8. ReturnedStay'
    BY <2>1, <2>4, <2>5, <2>6 DEF KeepInv, ReturnedStay
  <2>9. \A i \in DOMAIN t : i < Len(t) => t[i].id \in returned
    <3>1. IdsOf(mem[p]) \subseteq returned
      BY <2>1 DEF KeepInv
    <3>2. \A i \in 1..Len(mem[p]) : mem[p][i].id \in returned
      BY <2>4, <3>1 DEF IdsOf
    <3>3. QED
      BY <2>4, <3>2
  <2>10. QED
    BY <2>1, <2>5, <2>6, <2>7, <2>8, <2>9 DEF KeepInv
<1>8. QED
  BY <1>1, <1>2, <1>3, <1>4, <1>5, <1>6, <1>7

\* The path names the same file after a power loss.
LEMMA SyncDirectoryInv ==
  ASSUME IInv, NEW p \in Procs, SyncDirectory(p) PROVE IInv'
<1> USE NoProcAssumption, BoundsAssumption DEF IInv, SyncDirectory, Goto, disk, NoFile, NoEvent
<1>1. TypeOK'
  BY DEF TypeOK, Steps, Opening, Repairing, Running
<1>2. FileInv'
  BY DEF FileInv, Explained, TypeOK
<1>3. LeaseInv'
  BY DEF LeaseInv, TypeOK, Steps, Leased, Opening, Repairing, Running
<1>4. LocalInv'
  BY DEF LocalInv, LeaseInv, TypeOK, Steps, Leased, Opening, Repairing, Running, InStep
<1>5. TempInv'
  BY DEF TempInv, TypeOK
<1>6. PathInv'
  BY DEF PathInv, TypeOK, InStep
<1>7. KeepInv'
  BY DEF KeepInv, AckedSurvive, ReturnedStay, FileInv, TypeOK
<1>8. QED
  BY <1>1, <1>2, <1>3, <1>4, <1>5, <1>6, <1>7

\* A repaired log is opened like any other.
LEMMA ReopenInv ==
  ASSUME IInv, NEW p \in Procs, Reopen(p) PROVE IInv'
<1> USE NoProcAssumption, BoundsAssumption DEF IInv, Reopen, Goto, disk, NoFile, NoEvent
<1> SUFFICES ASSUME /\ Replayable(path) /\ torn[path] = NoEvent
                    /\ pc[p] = "reopening" /\ pc' = [pc EXCEPT ![p] = "ready"]
                    /\ fd' = [fd EXCEPT ![p] = path]
                    /\ mem' = [mem EXCEPT ![p] = lines[path]]
                    /\ temp' = [temp EXCEPT ![p] = NoFile]
                    /\ returned' = returned \cup IdsOf(lines[path])
                    /\ UNCHANGED <<disk, events, writer, acked>>
             PROVE  IInv'
  BY LeaveInv
<1> HIDE DEF Reopen
<1>1. TypeOK'
  <2>1. lines[path] \in Seq(Record)
    BY DEF TypeOK
  <2>2. IdsOf(lines[path]) \subseteq Events
    BY <2>1, IdsTypes
  <2>3. QED
    BY <2>1, <2>2 DEF TypeOK, Steps, Running, Files
<1>2. FileInv'
  BY DEF FileInv, Explained, TypeOK
<1>3. LeaseInv'
  BY DEF LeaseInv, TypeOK, Steps, Leased, Opening, Repairing, Running
<1>4. LocalInv'
  <2>1. \A q \in Procs : q # p => pc[q] \notin Leased \cup Opening \cup Repairing
    BY DEF LeaseInv, Repairing, Leased
  <2>2. \A q \in Procs : q # p => pc'[q] \notin {"opened", "replaying", "syncing", "poisoned"} \cup InStep
    BY <2>1 DEF TypeOK, Leased, Opening, Repairing, Running, InStep
  <2>3. pc'[p] = "ready" /\ fd'[p] = path /\ mem'[p] = lines[path] /\ IdsOf(lines[path]) \subseteq returned'
    BY DEF TypeOK
  <2>4. \A s : IdsOf(s)' = IdsOf(s)
    BY DEF IdsOf
  <2>5. QED
    BY <2>2, <2>3, <2>4 DEF LocalInv, InStep
<1>5. TempInv'
  BY DEF TempInv, TypeOK
<1>6. PathInv'
  BY DEF PathInv, TypeOK, InStep
<1>7. KeepInv'
  <2>1. \A s : IdsOf(s)' = IdsOf(s)
    BY DEF IdsOf
  <2>2. AckedSurvive' /\ ReturnedStay'
    BY <2>1 DEF KeepInv, AckedSurvive, ReturnedStay
  <2>3. QED
    BY <2>2 DEF KeepInv
<1>8. QED
  BY <1>1, <1>2, <1>3, <1>4, <1>5, <1>6, <1>7

\* A record is cut short at the end of the log until it is complete.
LEMMA WriteChunkInv ==
  ASSUME IInv, NEW p \in Procs, WriteChunk(p) PROVE IInv'
<1> USE NoProcAssumption, BoundsAssumption DEF IInv, WriteChunk, Goto, disk, NoFile, NoEvent
<1>1. TypeOK'
  <2>1. fd[p] \in Files /\ events + 1 \in Events
    BY DEF LocalInv, InStep, TypeOK, Events
  <2>2. QED
    BY <2>1 DEF TypeOK, Steps, Running, Events
<1>2. FileInv'
  <2>1. fd[p] = path /\ path \in Files /\ events \in Nat /\ path <= files /\ files \in Nat
    BY DEF LocalInv, InStep, TypeOK, PathInv, Files
  <2>2. \A f \in Files : \A i \in DOMAIN lines[f] : lines[f][i].id \in Nat /\ lines[f][i].id <= events
    <3>1. \A f \in Files : lines[f] \in Seq(Record)
      BY DEF TypeOK
    <3>2. QED
      BY <3>1, LineTypes DEF FileInv
  <2>3. /\ torn' = [torn EXCEPT ![path] = events + 1] /\ events' = events + 1
        /\ UNCHANGED <<lines, synced, files, saved>>
    BY <2>1
  <2>4. \A f \in Files : torn[f] \in Nat /\ f \in Nat
    BY DEF TypeOK, Events, Files
  <2> HIDE DEF WriteChunk
  <2>5. \A f \in Files : Explained(lines[f])'
    BY <2>3 DEF FileInv, Explained
  <2>6. \A f \in Files : torn'[f] = IF f = path THEN events + 1 ELSE torn[f]
    BY <2>1, <2>3 DEF TypeOK
  <2>7. \A f \in Files : /\ torn'[f] <= events'
                         /\ torn'[f] # NoEvent => \A i \in DOMAIN lines[f] : lines[f][i].id < torn'[f]
                         /\ f > files => torn'[f] = NoEvent
    BY <2>1, <2>2, <2>3, <2>4, <2>6 DEF FileInv
  <2>8. \A f \in Files : \A i \in DOMAIN lines[f] : lines[f][i].id <= events'
    BY <2>1, <2>2, <2>3
  <2>9. QED
    BY <2>3, <2>5, <2>7, <2>8 DEF FileInv
<1>3. LeaseInv'
  BY DEF LeaseInv, TypeOK, Steps, Leased, Opening, Repairing, Running
<1>4. LocalInv'
  BY DEF LocalInv, LeaseInv, TypeOK, Steps, Leased, Opening, Repairing, Running, InStep
<1>5. TempInv'
  <2>1. \A q \in Procs : q # p => pc[q] \notin {"syncing_temp", "swapping"}
    BY DEF LeaseInv, Leased, Running, Repairing
  <2>2. \A q \in Procs : pc'[q] \notin {"syncing_temp", "swapping"}
    BY <2>1 DEF TypeOK
  <2>3. QED
    BY <2>2 DEF TempInv
<1>6. PathInv'
  BY DEF PathInv, TypeOK, InStep
<1>7. KeepInv'
  <2>1. fd[p] = path /\ durable = path /\ IdsOf(lines[path]) \subseteq returned
    BY DEF LocalInv, PathInv, InStep
  <2>2. UNCHANGED <<path, durable, lines, synced, acked, returned>>
    OBVIOUS
  <2> HIDE DEF WriteChunk
  <2>3. AckedSurvive' /\ ReturnedStay'
    BY <2>2 DEF KeepInv, AckedSurvive, ReturnedStay
  <2>4. IdsOf(lines[path])' = IdsOf(lines[path])
    BY <2>2
  <2>5. QED
    BY <2>1, <2>2, <2>3, <2>4 DEF KeepInv
<1>8. QED
  BY <1>1, <1>2, <1>3, <1>4, <1>5, <1>6, <1>7

\* The record that completes the log chains to what the writer knows.
LEMMA WriteEndInv ==
  ASSUME IInv, NEW p \in Procs, WriteEnd(p) PROVE IInv'
<1> USE NoProcAssumption, BoundsAssumption DEF IInv, WriteEnd, Goto, disk, NoFile, NoEvent
<1>1. TypeOK'
  <2>1. fd[p] \in Files /\ torn[fd[p]] \in Events /\ mem[p] \in Seq(Record) /\ lines[fd[p]] \in Seq(Record)
    BY DEF LocalInv, InStep, TypeOK
  <2>2. Append(lines[fd[p]], RecordAfter(mem[p], torn[fd[p]], NoEvent)) \in Seq(Record)
    BY <2>1, RecordAfterType, AppendLines
  <2>3. QED
    BY <2>1, <2>2 DEF TypeOK, Steps, Running
<1>2. FileInv'
  <2> DEFINE r == RecordAfter(mem[p], torn[path], NoEvent)
  <2>1. /\ fd[p] = path /\ mem[p] = lines[path] /\ mem[p] \in Seq(Record) /\ path \in Files
        /\ torn[path] \in Events /\ torn[path] \in Nat /\ events \in Nat /\ path \in Nat
        /\ path <= files /\ files \in Nat
    BY DEF LocalInv, TypeOK, InStep, Events, Files, PathInv
  <2>2. /\ r \in Record /\ r.id = torn[path] /\ r.tail = NoEvent
    BY <2>1, RecordAfterType DEF RecordAfter
  <2>3. \A f \in Files : \A i \in DOMAIN lines[f] : lines[f][i].id \in Nat /\ lines[f][i].id <= events
    <3>1. \A f \in Files : lines[f] \in Seq(Record)
      BY DEF TypeOK
    <3>2. QED
      BY <3>1, LineTypes DEF FileInv
  <2>4. FitsAfter(mem[p], torn[path], NoEvent)
    <3>1. torn[path] # NoEvent
      BY DEF LocalInv
    <3>2. \A i \in DOMAIN lines[path] : lines[path][i].id < torn[path]
      BY <2>1, <3>1 DEF FileInv
    <3>3. QED
      BY <2>1, <3>2 DEF FitsAfter
  <2>5. Chained(Append(mem[p], r)) /\ Ordered(Append(mem[p], r))
    BY <2>1, <2>4, ChainedAppend, OrderedAppend DEF FileInv
  <2> HIDE DEF r
  <2> DEFINE t == Append(mem[p], r)
  <2>6. /\ DOMAIN t = 1..(Len(mem[p]) + 1) /\ Len(t) = Len(mem[p]) + 1 /\ Len(mem[p]) \in Nat
        /\ DOMAIN mem[p] = 1..Len(mem[p])
        /\ \A i \in 1..Len(mem[p]) : t[i] = mem[p][i]
        /\ t[Len(mem[p]) + 1] = r
    BY <2>1, <2>2, AppendLines
  <2>7. lines' = [lines EXCEPT ![path] = t] /\ torn' = [torn EXCEPT ![path] = NoEvent] /\ UNCHANGED <<synced, files, events, saved>>
    BY <2>1 DEF r
  <2> HIDE DEF t, WriteEnd
  <2>8. Explained(t)
    <3>1. Explained(mem[p])
      BY <2>1 DEF FileInv
    <3>2. \A i \in 1..Len(mem[p]) : mem[p][i].tail # NoEvent => mem[p][i].tail \in saved
      BY <2>6, <3>1 DEF Explained
    <3>3. t[Len(mem[p]) + 1].tail = NoEvent
      BY <2>2, <2>6
    <3>4. QED
      BY <2>6, <3>2, <3>3 DEF Explained
  <2>9. \A i \in DOMAIN t : t[i].id <= events
    BY <2>1, <2>2, <2>3, <2>6 DEF FileInv
  <2>10. synced[path] <= Len(t)
    BY <2>1, <2>6 DEF FileInv, TypeOK
  <2>11. ASSUME NEW f \in Files
         PROVE  /\ Chained(lines'[f]) /\ Ordered(lines'[f]) /\ Explained(lines'[f])
                /\ synced[f] <= Len(lines'[f])
                /\ \A i \in DOMAIN lines'[f] : lines'[f][i].id <= events
                /\ torn'[f] <= events
                /\ torn'[f] # NoEvent => \A i \in DOMAIN lines'[f] : lines'[f][i].id < torn'[f]
                /\ f > files => lines'[f] = << >> /\ torn'[f] = NoEvent /\ synced[f] = 0
    <3>1. CASE f = path
      <4>1. lines'[f] = t /\ torn'[f] = NoEvent
        BY <2>1, <2>7, <3>1 DEF TypeOK
      <4>2. Chained(t) /\ Ordered(t)
        BY <2>5 DEF t
      <4>3. QED
        BY <2>1, <2>8, <2>9, <2>10, <3>1, <4>1, <4>2 DEF Files
    <3>2. CASE f # path
      <4>1. lines'[f] = lines[f] /\ torn'[f] = torn[f]
        BY <2>7, <3>2 DEF TypeOK
      <4>2. QED
        BY <4>1 DEF FileInv
    <3>3. QED
      BY <3>1, <3>2
  <2>12. \A f \in Files : Explained(lines[f])' = Explained(lines'[f])
    BY <2>7 DEF Explained
  <2>13. \A f \in Files : Chained(lines[f])' = Chained(lines'[f]) /\ Ordered(lines[f])' = Ordered(lines'[f])
    BY DEF Chained, Ordered
  <2>14. QED
    BY <2>7, <2>11, <2>12, <2>13 DEF FileInv
<1>3. LeaseInv'
  BY DEF LeaseInv, TypeOK, Steps, Leased, Opening, Repairing, Running
<1>4. LocalInv'
  BY DEF LocalInv, LeaseInv, TypeOK, Steps, Leased, Opening, Repairing, Running, InStep
<1>5. TempInv'
  <2>1. \A q \in Procs : q # p => pc[q] \notin {"syncing_temp", "swapping"}
    BY DEF LeaseInv, Leased, Running, Repairing
  <2>2. \A q \in Procs : pc'[q] \notin {"syncing_temp", "swapping"}
    BY <2>1 DEF TypeOK
  <2>3. QED
    BY <2>2 DEF TempInv
<1>6. PathInv'
  BY DEF PathInv, TypeOK, InStep
<1>7. KeepInv'
  <2> DEFINE r == RecordAfter(mem[p], torn[path], NoEvent)
  <2>1. /\ fd[p] = path /\ durable = path /\ mem[p] = lines[path] /\ torn[path] # NoEvent
        /\ IdsOf(mem[p]) \subseteq returned
        /\ mem[p] \in Seq(Record) /\ torn[path] \in Events /\ path \in Files
        /\ synced[path] \in Nat /\ synced[path] <= Len(mem[p])
    BY DEF LocalInv, PathInv, InStep, TypeOK, FileInv
  <2>2. r \in Record
    BY <2>1, RecordAfterType
  <2> HIDE DEF r
  <2> DEFINE t == Append(mem[p], r)
  <2>3. /\ Len(t) = Len(mem[p]) + 1 /\ DOMAIN t = 1..(Len(mem[p]) + 1) /\ DOMAIN mem[p] = 1..Len(mem[p])
        /\ \A i \in 1..Len(mem[p]) : t[i] = mem[p][i]
        /\ Len(mem[p]) \in Nat /\ IdsOf(t) = IdsOf(mem[p]) \cup {r.id}
    BY <2>1, <2>2, AppendLines, AppendIds
  <2>4. lines'[path] = t /\ torn'[path] = NoEvent /\ UNCHANGED <<path, durable, synced, acked, returned>>
    BY <2>1 DEF r, TypeOK
  <2> HIDE DEF t, WriteEnd
  <2>5. AckedSurvive'
    BY <2>1, <2>3, <2>4 DEF KeepInv, AckedSurvive
  <2>6. ReturnedStay'
    <3>1. IdsOf(lines[path])' = IdsOf(t)
      BY <2>4 DEF IdsOf
    <3>2. QED
      BY <2>1, <2>3, <2>4, <3>1 DEF KeepInv, ReturnedStay
  <2>7. \A i \in DOMAIN t : i < Len(t) => t[i].id \in returned
    BY <2>1, <2>3 DEF IdsOf
  <2>8. QED
    BY <2>1, <2>4, <2>5, <2>6, <2>7 DEF KeepInv
<1>8. QED
  BY <1>1, <1>2, <1>3, <1>4, <1>5, <1>6, <1>7

\* What is acknowledged is synced.
LEMMA SyncLogInv ==
  ASSUME IInv, NEW p \in Procs, SyncLog(p) PROVE IInv'
<1> USE NoProcAssumption, BoundsAssumption DEF IInv, SyncLog, Goto, disk, NoFile, NoEvent
<1>1. TypeOK'
  <2>1. PICK e \in Events : lines[path] = Append(mem[p], RecordAfter(mem[p], e, NoEvent))
    BY DEF LocalInv
  <2> DEFINE r == RecordAfter(mem[p], e, NoEvent)
  <2>2. /\ pc[p] = "syncing"
        /\ fd[p] = path /\ path \in Files /\ mem[p] \in Seq(Record) /\ lines[path] \in Seq(Record)
    BY DEF LocalInv, TypeOK
  <2>3. r \in Record /\ r.id = e
    BY <2>2, RecordAfterType DEF RecordAfter
  <2>4. lines[path] = Append(mem[p], r)
    BY <2>1
  <2> HIDE DEF r
  <2>5. /\ Len(lines[path]) = Len(mem[p]) + 1 /\ Len(mem[p]) \in Nat /\ lines[path][Len(lines[path])] = r
        /\ DOMAIN lines[path] = 1..Len(lines[path])
        /\ IdsOf(lines[path]) = IdsOf(mem[p]) \cup {e}
        /\ Append(mem[p], r) \in Seq(Record)
    BY <2>2, <2>3, <2>4, AppendLines, AppendIds
  <2>6. /\ mem' = [mem EXCEPT ![p] = lines[path]]
        /\ acked' = acked \cup {e} /\ returned' = returned \cup {e}
        /\ synced' = [synced EXCEPT ![path] = Len(lines[path])]
        /\ pc' = [pc EXCEPT ![p] = "ready"]
        /\ UNCHANGED <<path, durable, lines, torn, files, events, saved, writer, fd, temp>>
    BY <2>2, <2>3, <2>4, <2>5
  <2> HIDE DEF SyncLog
  <2>7. QED
    BY <2>2, <2>5, <2>6 DEF TypeOK, Steps, Running
<1>2. FileInv'
  BY DEF FileInv, Explained, TypeOK
<1>3. LeaseInv'
  BY DEF LeaseInv, TypeOK, Steps, Leased, Opening, Repairing, Running
<1>4. LocalInv'
  <2>1. PICK e \in Events : lines[path] = Append(mem[p], RecordAfter(mem[p], e, NoEvent))
    BY DEF LocalInv
  <2> DEFINE r == RecordAfter(mem[p], e, NoEvent)
  <2>2. /\ pc[p] = "syncing"
        /\ fd[p] = path /\ path \in Files /\ mem[p] \in Seq(Record) /\ lines[path] \in Seq(Record)
    BY DEF LocalInv, TypeOK
  <2>3. r \in Record /\ r.id = e
    BY <2>2, RecordAfterType DEF RecordAfter
  <2>4. lines[path] = Append(mem[p], r)
    BY <2>1
  <2> HIDE DEF r
  <2>5. /\ Len(lines[path]) = Len(mem[p]) + 1 /\ Len(mem[p]) \in Nat /\ lines[path][Len(lines[path])] = r
        /\ DOMAIN lines[path] = 1..Len(lines[path])
        /\ IdsOf(lines[path]) = IdsOf(mem[p]) \cup {e}
        /\ Append(mem[p], r) \in Seq(Record)
    BY <2>2, <2>3, <2>4, AppendLines, AppendIds
  <2>6. /\ mem' = [mem EXCEPT ![p] = lines[path]]
        /\ acked' = acked \cup {e} /\ returned' = returned \cup {e}
        /\ synced' = [synced EXCEPT ![path] = Len(lines[path])]
        /\ pc' = [pc EXCEPT ![p] = "ready"]
        /\ UNCHANGED <<path, durable, lines, torn, files, events, saved, writer, fd, temp>>
    BY <2>2, <2>3, <2>4, <2>5
  <2> HIDE DEF SyncLog
  <2>7. \A q \in Procs : q # p => pc[q] \notin Leased
    BY <2>2 DEF LeaseInv, Leased, Running
  <2>8. \A q \in Procs : q # p => pc'[q] \notin Leased /\ pc'[q] = pc[q]
    BY <2>6, <2>7 DEF TypeOK
  <2>9. IdsOf(lines[path]) \subseteq returned'
    BY <2>2, <2>5, <2>6 DEF LocalInv
  <2>10. pc'[p] = "ready" /\ mem'[p] = lines[path] /\ torn[path] = NoEvent
    BY <2>2, <2>6 DEF TypeOK, LocalInv
  <2>11. IdsOf(mem[p])' = IdsOf(lines[path])
    BY <2>10 DEF IdsOf
  <2>12. QED
    BY <2>2, <2>6, <2>8, <2>9, <2>10, <2>11 DEF LocalInv, InStep, Leased, Repairing, Running
<1>5. TempInv'
  BY DEF TempInv, TypeOK
<1>6. PathInv'
  BY DEF PathInv, TypeOK, InStep
<1>7. KeepInv'
  <2>1. PICK e \in Events : lines[path] = Append(mem[p], RecordAfter(mem[p], e, NoEvent))
    BY DEF LocalInv
  <2> DEFINE r == RecordAfter(mem[p], e, NoEvent)
  <2>2. /\ pc[p] = "syncing"
        /\ fd[p] = path /\ path \in Files /\ mem[p] \in Seq(Record) /\ lines[path] \in Seq(Record)
    BY DEF LocalInv, TypeOK
  <2>3. r \in Record /\ r.id = e
    BY <2>2, RecordAfterType DEF RecordAfter
  <2>4. lines[path] = Append(mem[p], r)
    BY <2>1
  <2> HIDE DEF r
  <2>5. /\ Len(lines[path]) = Len(mem[p]) + 1 /\ Len(mem[p]) \in Nat /\ lines[path][Len(lines[path])] = r
        /\ DOMAIN lines[path] = 1..Len(lines[path])
        /\ IdsOf(lines[path]) = IdsOf(mem[p]) \cup {e}
        /\ Append(mem[p], r) \in Seq(Record)
    BY <2>2, <2>3, <2>4, AppendLines, AppendIds
  <2>6. /\ mem' = [mem EXCEPT ![p] = lines[path]]
        /\ acked' = acked \cup {e} /\ returned' = returned \cup {e}
        /\ synced' = [synced EXCEPT ![path] = Len(lines[path])]
        /\ pc' = [pc EXCEPT ![p] = "ready"]
        /\ UNCHANGED <<path, durable, lines, torn, files, events, saved, writer, fd, temp>>
    BY <2>2, <2>3, <2>4, <2>5
  <2> HIDE DEF SyncLog
  <2>7. durable = path /\ synced'[path] = Len(lines[path])
    BY <2>2, <2>6 DEF PathInv, TypeOK
  <2>8. synced[path] <= Len(lines[path]) /\ synced[path] \in Nat
    BY <2>2 DEF FileInv, TypeOK
  <2>9. AckedSurvive'
    <3>1. KeepInv
      OBVIOUS
    <3> HIDE DEF IInv
    <3>2. /\ path' = path /\ durable' = path /\ lines' = lines
          /\ synced'[path] = Len(lines[path]) /\ acked' = acked \cup {e}
      BY <2>6, <2>7
    <3>3. ASSUME NEW x \in acked PROVE \E i \in 1..Len(lines[path]) : lines[path][i].id = x
      BY <2>5, <2>8, <3>1 DEF KeepInv, AckedSurvive
    <3>4. \E i \in 1..Len(lines[path]) : lines[path][i].id = e
      BY <2>3, <2>5
    <3>5. QED
      BY <3>2, <3>3, <3>4 DEF AckedSurvive
  <2>10. IdsOf(lines[path])' = IdsOf(lines[path])
    BY <2>6
  <2>11. ReturnedStay'
    BY <2>5, <2>6, <2>10 DEF KeepInv, ReturnedStay
  <2>12. QED
    BY <2>6, <2>7, <2>9, <2>10, <2>11 DEF KeepInv
<1>8. QED
  BY <1>1, <1>2, <1>3, <1>4, <1>5, <1>6, <1>7

\* A poisoned writer leaves the log as it is.
LEMMA PoisonInv ==
  ASSUME IInv, NEW p \in Procs, Poison(p) PROVE IInv'
<1> USE NoProcAssumption, BoundsAssumption DEF IInv, Poison, Goto, disk, NoFile, NoEvent
<1>1. TypeOK'
  BY DEF TypeOK, Steps, Opening, Repairing, Running
<1>2. FileInv'
  BY DEF FileInv, Explained, TypeOK
<1>3. LeaseInv'
  BY DEF LeaseInv, TypeOK, Steps, Leased, Opening, Repairing, Running
<1>4. LocalInv'
  BY DEF LocalInv, LeaseInv, TypeOK, Steps, Leased, Opening, Repairing, Running, InStep
<1>5. TempInv'
  BY DEF TempInv, TypeOK
<1>6. PathInv'
  BY DEF PathInv, TypeOK, InStep
<1>7. KeepInv'
  BY DEF KeepInv, AckedSurvive, ReturnedStay, FileInv, TypeOK
<1>8. QED
  BY <1>1, <1>2, <1>3, <1>4, <1>5, <1>6, <1>7

\* A power loss leaves a prefix of one of the two files, and all that was
\* acknowledged.
LEMMA PowerLossInv == ASSUME IInv, PowerLoss PROVE IInv'
<1> USE NoProcAssumption, BoundsAssumption DEF IInv, NoFile, NoEvent
<1> DEFINE Left(f, cut, n) ==
        /\ path' = f /\ durable' = f
        /\ lines' = [lines EXCEPT ![f] = SubSeq(@, 1, n)]
        /\ torn' = [torn EXCEPT ![f] =
                      IF ~ cut THEN NoEvent ELSE IF n = Len(lines[f]) THEN @ ELSE lines[f][n + 1].id]
        /\ synced' = [synced EXCEPT ![f] = n]
        /\ writer' = NoProc
        /\ pc' = [p \in Procs |-> "closed"]
        /\ fd' = [p \in Procs |-> NoFile]
        /\ mem' = [p \in Procs |-> << >>]
        /\ temp' = [p \in Procs |-> NoFile]
        /\ returned' = returned \cap IdsOf(lines'[f])
        /\ UNCHANGED <<files, events, saved, acked>>
<1>a. PICK f \in {path, durable}, cut \in BOOLEAN : \E n \in synced[f]..Len(lines[f]) : Left(f, cut, n)
  BY Zenon DEF PowerLoss
<1>b. PICK n \in synced[f]..Len(lines[f]) : Left(f, cut, n)
  BY <1>a
<1>1. Left(f, cut, n)
  BY <1>b
<1> DEFINE s == lines[f]
<1> DEFINE t == SubSeq(s, 1, n)
<1>2. /\ f \in Files /\ f \in Nat /\ f <= files /\ files \in Nat /\ events \in Nat
      /\ s \in Seq(Record) /\ Len(s) \in Nat /\ n \in 0..Len(s) /\ n \in Nat
      /\ synced[f] \in Nat /\ synced[f] <= n
  BY DEF TypeOK, PathInv, Files
<1>3. /\ t \in Seq(Record) /\ Len(t) = n /\ DOMAIN t = 1..n /\ DOMAIN s = 1..Len(s)
      /\ \A i \in 1..n : t[i] = s[i]
  BY <1>2, PrefixLines
<1>4. \A i \in DOMAIN s : s[i].id \in Events /\ s[i].id \in Nat /\ s[i].id <= events
  BY <1>2, LineTypes DEF FileInv
<1>5. Chained(t) /\ Ordered(t)
  BY <1>2, ChainedPrefix, OrderedPrefix DEF FileInv
<1>6. \A i, j \in DOMAIN s : i < j => s[i].id < s[j].id
  BY <1>2 DEF FileInv, Ordered
<1>7. lines' = [lines EXCEPT ![f] = t]
  BY <1>1
<1> HIDE DEF s, t
<1>8. /\ torn'[f] \in Events \cup {NoEvent} /\ torn'[f] <= events
      /\ torn'[f] # NoEvent => \A i \in 1..n : t[i].id < torn'[f]
      /\ torn'[f] # NoEvent => n < Len(s) \/ torn[f] # NoEvent
  <2>1. torn'[f] = IF ~ cut THEN NoEvent ELSE IF n = Len(s) THEN torn[f] ELSE s[n + 1].id
    BY <1>1, <1>2 DEF s, TypeOK
  <2>2. CASE ~ cut
    BY <1>2, <2>1, <2>2
  <2>3. CASE cut /\ n = Len(s)
    <3>1. torn[f] \in Events \cup {NoEvent} /\ torn[f] <= events
      BY <1>2 DEF TypeOK, FileInv
    <3>2. torn[f] # NoEvent => \A i \in DOMAIN s : s[i].id < torn[f]
      BY <1>2 DEF FileInv, s
    <3>3. QED
      BY <1>2, <1>3, <2>1, <2>3, <3>1, <3>2
  <2>4. CASE cut /\ n # Len(s)
    <3>1. n < Len(s) /\ n + 1 \in DOMAIN s
      BY <1>2, <1>3, <2>4
    <3>2. \A i \in 1..n : s[i].id < s[n + 1].id
      BY <1>2, <1>3, <1>6, <3>1
    <3>3. QED
      BY <1>3, <1>4, <2>1, <2>4, <3>1, <3>2
  <2>5. QED
    BY <2>2, <2>3, <2>4
<1>9. TypeOK'
  <2>1. lines' \in [Files -> Seq(Record)] /\ synced' \in [Files -> Nat]
    BY <1>1, <1>2, <1>3, <1>7 DEF TypeOK
  <2>2. torn' \in [Files -> Events \cup {NoEvent}]
    BY <1>1, <1>2, <1>8 DEF TypeOK
  <2>3. << >> \in Seq(Record)
    BY EmptyLines
  <2>4. QED
    BY <1>1, <1>2, <2>1, <2>2, <2>3 DEF TypeOK, Steps
<1>10. FileInv'
  <2>1. Explained(t)
    <3>1. Explained(s)
      BY <1>2 DEF FileInv, s
    <3>2. QED
      BY <1>2, <1>3, <3>1 DEF Explained
  <2>2. UNCHANGED <<files, events, saved>>
    BY <1>1
  <2>3. ASSUME NEW g \in Files
        PROVE  /\ Chained(lines'[g]) /\ Ordered(lines'[g]) /\ Explained(lines'[g])
               /\ synced'[g] <= Len(lines'[g])
               /\ \A i \in DOMAIN lines'[g] : lines'[g][i].id <= events
               /\ torn'[g] <= events
               /\ torn'[g] # NoEvent => \A i \in DOMAIN lines'[g] : lines'[g][i].id < torn'[g]
               /\ g > files => lines'[g] = << >> /\ torn'[g] = NoEvent /\ synced'[g] = 0
    <3>1. CASE g = f
      <4>1. lines'[g] = t /\ synced'[g] = n
        BY <1>1, <1>2, <1>7, <3>1 DEF TypeOK
      <4>2. \A i \in DOMAIN t : t[i].id <= events
        BY <1>2, <1>3, <1>4
      <4>3. QED
        BY <1>2, <1>3, <1>5, <1>8, <2>1, <3>1, <4>1, <4>2
    <3>2. CASE g # f
      <4>1. lines'[g] = lines[g] /\ synced'[g] = synced[g] /\ torn'[g] = torn[g]
        BY <1>1, <1>7, <3>2 DEF TypeOK
      <4>2. QED
        BY <4>1 DEF FileInv
    <3>3. QED
      BY <3>1, <3>2
  <2>4. \A g \in Files : Explained(lines[g])' = Explained(lines'[g])
    BY <2>2 DEF Explained
  <2>5. \A g \in Files : Chained(lines[g])' = Chained(lines'[g]) /\ Ordered(lines[g])' = Ordered(lines'[g])
    BY DEF Chained, Ordered
  <2>6. QED
    BY <2>2, <2>3, <2>4, <2>5 DEF FileInv
<1>11. LeaseInv' /\ LocalInv' /\ TempInv'
  BY <1>1 DEF LeaseInv, LocalInv, TempInv, Leased, Opening, Repairing, Running, InStep
<1>12. PathInv'
  BY <1>1, <1>2 DEF PathInv, InStep
<1>13. KeepInv'
  <2>1. /\ path' = f /\ durable' = f /\ lines'[f] = t /\ synced'[f] = n /\ acked' = acked
        /\ returned' = returned \cap IdsOf(t)
    BY <1>1, <1>2, <1>7 DEF TypeOK
  <2>2. \A e \in acked : \E i \in 1..synced[f] : s[i].id = e
    BY DEF KeepInv, AckedSurvive, s
  <2>3. AckedSurvive'
    BY <1>2, <1>3, <2>1, <2>2 DEF AckedSurvive
  <2>4. IdsOf(lines[path])' = IdsOf(t)
    BY <2>1 DEF IdsOf
  <2>5. ReturnedStay'
    BY <2>1, <2>4 DEF ReturnedStay
  <2>6. \A i \in 1..n : t[i].id \in IdsOf(t)
    BY <1>3 DEF IdsOf
  <2>7. \A i \in DOMAIN s : i < Len(s) => s[i].id \in returned
    BY DEF KeepInv, s
  <2>8. \A i \in 1..n : i < n => t[i].id \in returned'
    BY <1>2, <1>3, <2>1, <2>6, <2>7
  <2>9. torn'[f] # NoEvent => \A i \in 1..n : t[i].id \in returned'
    <3>1. CASE n < Len(s)
      BY <1>2, <1>3, <2>1, <2>6, <2>7, <3>1
    <3>2. CASE torn[f] # NoEvent
      <4>1. \A i \in DOMAIN s : s[i].id \in returned
        BY <3>2 DEF KeepInv, IdsOf, s
      <4>2. QED
        BY <1>2, <1>3, <2>1, <2>6, <4>1
    <3>3. QED
      BY <1>8, <3>1, <3>2
  <2>10. torn'[f] # NoEvent => IdsOf(t) \subseteq returned'
    BY <1>3, <2>9 DEF IdsOf
  <2>11. QED
    BY <1>3, <2>1, <2>3, <2>4, <2>5, <2>8, <2>10 DEF KeepInv
<1>14. QED
  BY <1>9, <1>10, <1>11, <1>12, <1>13

LEMMA InvInductive == ASSUME OpenAlone, IInv, [Next]_vars PROVE IInv'
<1>1. CASE PowerLoss
  BY <1>1, PowerLossInv
<1>2. ASSUME NEW p \in Procs, Step(p) PROVE IInv'
  <2>1. CASE Bootstrap(p)
    BY <2>1, BootstrapInv
  <2>2. CASE OpenLog(p) \/ Acquire(p)
    BY <2>2, OpenLogInv, AcquireInv
  <2>3. CASE Replay(p) \/ ReplayTorn(p)
    BY <2>3, ReplayInv, ReplayTornInv
  <2>4. CASE PublishTail(p) \/ CopyPrefix(p) \/ SyncTemp(p)
    BY <2>4, PublishTailInv, CopyPrefixInv, SyncTempInv
  <2>5. CASE Swap(p) \/ SyncDirectory(p) \/ Reopen(p)
    BY <2>5, SwapInv, SyncDirectoryInv, ReopenInv
  <2>6. CASE WriteChunk(p) \/ WriteEnd(p) \/ SyncLog(p) \/ Poison(p)
    BY <2>6, WriteChunkInv, WriteEndInv, SyncLogInv, PoisonInv
  <2>7. CASE Refused(p) \/ ReplayRejected(p) \/ RepairFails(p) \/ Close(p) \/ Die(p)
    BY <2>7, LeaveInv DEF Refused, ReplayRejected, RepairFails, Close, Die
  <2>8. QED
    BY <1>2, <2>1, <2>2, <2>3, <2>4, <2>5, <2>6, <2>7 DEF Step
<1>3. CASE UNCHANGED vars
  <2>1. \A s : IdsOf(s)' = IdsOf(s) /\ Chained(s)' = Chained(s) /\ Ordered(s)' = Ordered(s)
    BY DEF IdsOf, Chained, Ordered
  <2>2. TypeOK' /\ FileInv' /\ LeaseInv'
    BY <1>3 DEF vars, IInv, TypeOK, FileInv, LeaseInv, Explained
  <2>3. LocalInv' /\ TempInv' /\ PathInv'
    BY <1>3, <2>1 DEF vars, IInv, LocalInv, TempInv, PathInv
  <2>4. KeepInv'
    BY <1>3, <2>1 DEF vars, IInv, KeepInv, AckedSurvive, ReturnedStay
  <2>5. QED
    BY <2>2, <2>3, <2>4 DEF IInv
<1>4. QED
  BY <1>1, <1>2, <1>3 DEF Next

LEMMA InvCorrect == ASSUME OpenAlone PROVE Spec => []IInv
<1>1. IInv /\ [Next]_vars => IInv'
  BY InvInductive
<1>2. QED
  BY InvInit, <1>1, PTL DEF Spec

-----------------------------------------------------------------------------
(* What follows from the invariant. *)

\* The type invariant of JournalLog, for commands that open one at a time.
THEOREM TypeCorrect == ASSUME OpenAlone PROVE Spec => []TypeOK
<1>1. IInv => TypeOK
  BY DEF IInv
<1>2. QED
  BY InvCorrect, <1>1, PTL

\* An event whose append returned survives crashes, failed appends, repairs
\* cut short anywhere and power losses.
THEOREM AckedEventsSurvive == ASSUME OpenAlone PROVE Spec => []AckedSurvive
<1>1. IInv => AckedSurvive
  BY DEF IInv, KeepInv
<1>2. QED
  BY InvCorrect, <1>1, PTL

\* Only a power loss takes back what an open or an append has returned.
THEOREM ReturnedEventsStay == ASSUME OpenAlone PROVE Spec => []ReturnedStay
<1>1. IInv => ReturnedStay
  BY DEF IInv, KeepInv
<1>2. QED
  BY InvCorrect, <1>1, PTL

\* Whatever the next open finds at the path, replayJournal accepts its lines.
THEOREM LogStaysReplayable == ASSUME OpenAlone PROVE Spec => []LogReplayable
<1>1. IInv => LogReplayable
  BY DEF IInv, FileInv, TypeOK, LogReplayable, Replayable
<1>2. QED
  BY InvCorrect, <1>1, PTL

\* A torn record has one recovery fact, and does not come back as an event.
THEOREM TailsHaveOneFact == ASSUME OpenAlone PROVE Spec => []OneFactPerTail
<1>1. ASSUME IInv PROVE OneFactPerTail
  <2> DEFINE L == lines[path]
  <2>1. L \in Seq(Record) /\ Ordered(L)
    BY <1>1 DEF IInv, TypeOK, FileInv
  <2>2. \A i \in DOMAIN L : L[i].id \in Nat /\ L[i].tail \in Nat
    BY <2>1, LineTypes
  <2>3. DOMAIN L = 1..Len(L)
    BY <2>1
  <2> HIDE DEF L
  <2>4. ASSUME NEW i \in DOMAIN L, NEW j \in DOMAIN L, L[i].tail # NoEvent
        PROVE  L[i].tail # L[j].id
    <3>1. CASE j < i
      BY <2>1, <2>2, <2>4, <3>1 DEF Ordered
    <3>2. CASE i <= j
      <4>1. L[i].tail < L[i].id /\ L[i].id <= L[j].id
        BY <2>1, <2>2, <2>3, <2>4, <3>2 DEF Ordered
      <4>2. QED
        BY <2>2, <4>1
    <3>3. QED
      BY <2>3, <3>1, <3>2
  <2>5. ASSUME NEW i \in DOMAIN L, NEW j \in DOMAIN L, L[i].tail # NoEvent, L[j].tail # NoEvent, i < j
        PROVE  L[i].tail # L[j].tail
    <3>1. L[i].tail < L[i].id /\ L[i].id < L[j].tail
      BY <2>1, <2>5 DEF Ordered
    <3>2. QED
      BY <2>2, <3>1
  <2>6. ASSUME NEW i \in DOMAIN L, NEW j \in DOMAIN L, L[i].tail # NoEvent, L[i].tail = L[j].tail
        PROVE  i = j
    BY <2>3, <2>5, <2>6
  <2>7. QED
    BY <2>4, <2>6 DEF OneFactPerTail, L
<1>2. QED
  BY InvCorrect, <1>1, PTL

\* A log holds at most one event nobody has been told of.
THEOREM OneEventInFlight == ASSUME OpenAlone PROVE Spec => []OneInFlight
<1>1. ASSUME IInv PROVE OneInFlight
  <2>1. lines[path] \in Seq(Record)
    BY <1>1 DEF IInv, TypeOK
  <2>2. \A i \in DOMAIN lines[path] : i < Len(lines[path]) => lines[path][i].id \in returned
    BY <1>1 DEF IInv, KeepInv
  <2>3. DOMAIN lines[path] = 1..Len(lines[path]) /\ Len(lines[path]) \in Nat
    BY <2>1
  <2>4. QED
    BY <2>2, <2>3 DEF OneInFlight
<1>2. QED
  BY InvCorrect, <1>1, PTL

-----------------------------------------------------------------------------
(* The journal implements the append-only log. *)

\* What a reader sees of the lines s.
View(s) == [i \in 1..Len(s) |-> s[i].id]

LEMMA ViewAppend ==
  ASSUME NEW s \in Seq(Record), NEW r \in Record
  PROVE  View(Append(s, r)) = Append(View(s), r.id)
<1> DEFINE t == Append(s, r)
<1>1. Len(t) = Len(s) + 1 /\ Len(s) \in Nat /\ \A i \in 1..Len(s) : t[i] = s[i]
  BY AppendLines
<1>2. t[Len(s) + 1] = r
  BY AppendLines
<1>3. View(s) \in Seq(Events) /\ Len(View(s)) = Len(s)
  <2>1. \A i \in 1..Len(s) : s[i].id \in Events
    BY LineTypes
  <2>2. QED
    BY <1>1, <2>1 DEF View
<1> HIDE DEF t
<1>4. Append(View(s), r.id) = [i \in 1..(Len(s) + 1) |-> IF i = Len(s) + 1 THEN r.id ELSE View(s)[i]]
  BY <1>1, <1>3
<1>5. View(t) = [i \in 1..(Len(s) + 1) |-> IF i = Len(s) + 1 THEN r.id ELSE View(s)[i]]
  BY <1>1, <1>2 DEF View
<1>6. QED
  BY <1>4, <1>5 DEF t

LEMMA ViewPrefix ==
  ASSUME NEW s \in Seq(Record), NEW n \in 0..Len(s)
  PROVE  View(SubSeq(s, 1, n)) = SubSeq(View(s), 1, n)
<1>1. Len(s) \in Nat /\ Len(SubSeq(s, 1, n)) = n /\ \A i \in 1..n : SubSeq(s, 1, n)[i] = s[i]
  BY PrefixLines
<1>2. View(SubSeq(s, 1, n)) = [i \in 1..n |-> s[i].id]
  BY <1>1 DEF View
<1>3. SubSeq(View(s), 1, n) = [i \in 1..n |-> View(s)[i]]
  BY <1>1 DEF View
<1>4. \A i \in 1..n : View(s)[i] = s[i].id
  BY <1>1 DEF View
<1>5. QED
  BY <1>2, <1>3, <1>4

\* A shorter log is a prefix of the log with one record more.
LEMMA PrefixOfAppend ==
  ASSUME NEW s \in Seq(Record), NEW r \in Record, NEW n \in 0..Len(s)
  PROVE  SubSeq(Append(s, r), 1, n) = SubSeq(s, 1, n)
<1>1. Len(s) \in Nat /\ \A i \in 1..n : Append(s, r)[i] = s[i]
  BY AppendLines
<1>2. SubSeq(Append(s, r), 1, n) = [i \in 1..n |-> Append(s, r)[i]]
  BY AppendLines
<1>3. SubSeq(s, 1, n) = [i \in 1..n |-> s[i]]
  BY <1>1
<1>4. QED
  BY <1>1, <1>2, <1>3

LEMMA ViewIds ==
  ASSUME NEW s \in Seq(Record)
  PROVE  Promise!EventsOf(View(s)) = IdsOf(s) /\ Len(View(s)) = Len(s)
<1>1. Len(s) \in Nat /\ DOMAIN s = 1..Len(s) /\ DOMAIN View(s) = 1..Len(s)
  BY DEF View
<1>2. \A i \in 1..Len(s) : View(s)[i] = s[i].id
  BY DEF View
<1>3. QED
  BY <1>1, <1>2 DEF Promise!EventsOf, IdsOf, View

LEMMA Stutters ==
  ASSUME lines'[path'] = lines[path], acked' = acked
  PROVE  UNCHANGED <<visible, acked>>
  BY DEF visible

\* A completed line is one event more.
LEMMA ExtendsBy ==
  ASSUME IInv, NEW r \in Record, lines'[path'] = Append(lines[path], r), acked' = acked
  PROVE  Promise!Next
<1>1. lines[path] \in Seq(Record) /\ r.id \in Events
  BY DEF IInv, TypeOK, Record
<1>2. visible' = Append(visible, r.id)
  BY <1>1, ViewAppend DEF visible, View
<1>3. QED
  BY <1>1, <1>2 DEF Promise!Next, Promise!Extend

\* Every step of the journal is a step of the log or leaves it alone.
LEMMA StepRefines ==
  ASSUME OpenAlone, IInv, IInv', [Next]_vars
  PROVE  [Promise!Next]_<<visible, acked>>
<1> USE DEF IInv
<1>1. CASE PowerLoss
  <2>1. PICK f \in {path, durable} : \E n \in synced[f]..Len(lines[f]) :
          path' = f /\ lines' = [lines EXCEPT ![f] = SubSeq(@, 1, n)] /\ acked' = acked
    BY <1>1 DEF PowerLoss
  <2>2. PICK n \in synced[f]..Len(lines[f]) :
          path' = f /\ lines' = [lines EXCEPT ![f] = SubSeq(@, 1, n)] /\ acked' = acked
    BY <2>1
  <2>3. f \in Files /\ lines[f] \in Seq(Record) /\ lines[path] \in Seq(Record) /\ n \in 0..Len(lines[f])
    <3>1. f \in Files /\ lines[f] \in Seq(Record) /\ lines[path] \in Seq(Record) /\ synced[f] \in Nat
      BY DEF TypeOK
    <3>2. Len(lines[f]) \in Nat
      BY <3>1
    <3>3. QED
      BY <3>1, <3>2
  <2>4. lines'[path'] = SubSeq(lines[f], 1, n)
    BY <2>2, <2>3 DEF TypeOK
  <2>5. SubSeq(lines[f], 1, n) = SubSeq(lines[path], 1, n) /\ n \in 0..Len(lines[path])
    <3>1. CASE f = path
      BY <2>3, <3>1
    <3>2. CASE f # path
      <4>1. PICK r \in Record : lines[path] = Append(lines[f], r)
        BY <3>2 DEF PathInv
      <4>2. Len(lines[path]) = Len(lines[f]) + 1 /\ Len(lines[f]) \in Nat
        BY <2>3, <4>1, AppendLines
      <4>3. QED
        BY <2>3, <4>1, <4>2, PrefixOfAppend
    <3>3. QED
      BY <3>1, <3>2
  <2>6. visible' = SubSeq(visible, 1, n) /\ Len(visible) = Len(lines[path])
    BY <2>3, <2>4, <2>5, ViewPrefix, ViewIds DEF visible, View
  <2>7. acked \subseteq Promise!EventsOf(visible')
    <3>1. lines'[path'] \in Seq(Record) /\ synced'[path'] <= Len(lines'[path']) /\ synced'[path'] \in Nat
      BY DEF TypeOK, FileInv
    <3>2. \A e \in acked' : \E i \in 1..synced'[path'] : lines'[path'][i].id = e
      BY DEF KeepInv, AckedSurvive
    <3>3. acked' \subseteq IdsOf(lines'[path'])
      BY <3>1, <3>2 DEF IdsOf
    <3>4. visible' = View(lines'[path'])
      BY DEF visible, View
    <3>5. QED
      BY <2>2, <3>1, <3>3, <3>4, ViewIds
  <2>8. Promise!PowerLoss(n)
    BY <2>2, <2>6, <2>7 DEF Promise!PowerLoss
  <2>9. QED
    BY <2>5, <2>6, <2>8 DEF Promise!Next
<1>2. ASSUME NEW p \in Procs, Step(p) PROVE [Promise!Next]_<<visible, acked>>
  <2>1. CASE Bootstrap(p) \/ OpenLog(p) \/ Acquire(p) \/ Refused(p) \/ Replay(p) \/ ReplayTorn(p) \/ ReplayRejected(p)
    BY <2>1, Stutters DEF Bootstrap, OpenLog, Acquire, Refused, Replay, ReplayTorn, ReplayRejected, disk
  <2>2. CASE PublishTail(p) \/ SyncTemp(p) \/ SyncDirectory(p) \/ Reopen(p) \/ RepairFails(p)
    BY <2>2, Stutters DEF PublishTail, SyncTemp, SyncDirectory, Reopen, RepairFails, disk
  <2>3. CASE WriteChunk(p) \/ Poison(p) \/ Close(p) \/ Die(p)
    BY <2>3, Stutters DEF WriteChunk, Poison, Close, Die, disk
  <2>4. CASE CopyPrefix(p)
    <3>1. path # files + 1 /\ path' = path /\ acked' = acked
      BY <2>4 DEF CopyPrefix, PathInv, TypeOK, Files
    <3>2. lines'[path] = lines[path]
      BY <2>4, <3>1 DEF CopyPrefix, TypeOK
    <3>3. QED
      BY <3>1, <3>2, Stutters
  <2>5. CASE Swap(p)
    <3>1. pc[p] = "swapping" /\ path' = temp[p] /\ lines' = lines /\ acked' = acked
      BY <2>5 DEF Swap
    <3>2. PICK e \in Events : lines[temp[p]] = Append(mem[p], RecordAfter(mem[p], e, torn[path]))
      BY <3>1 DEF TempInv
    <3>3. mem[p] = lines[path] /\ mem[p] \in Seq(Record) /\ torn[path] \in Events \cup {NoEvent}
      BY <3>1 DEF LocalInv, InStep, TypeOK
    <3>4. RecordAfter(mem[p], e, torn[path]) \in Record
      BY <3>3, RecordAfterType
    <3>5. QED
      BY <3>1, <3>2, <3>3, <3>4, ExtendsBy
  <2>6. CASE WriteEnd(p)
    <3>1. fd[p] = path /\ path \in Files /\ mem[p] = lines[path] /\ mem[p] \in Seq(Record) /\ torn[path] \in Events
      BY <2>6 DEF WriteEnd, LocalInv, InStep, TypeOK
    <3>2. lines'[path'] = Append(lines[path], RecordAfter(mem[p], torn[path], NoEvent)) /\ acked' = acked
      BY <2>6, <3>1 DEF WriteEnd, TypeOK
    <3>3. RecordAfter(mem[p], torn[path], NoEvent) \in Record
      BY <3>1, RecordAfterType
    <3>4. QED
      BY <3>2, <3>3, ExtendsBy
  <2>7. CASE SyncLog(p)
    <3>1. pc[p] = "syncing" /\ fd[p] = path /\ lines[path] \in Seq(Record)
      BY <2>7 DEF SyncLog, LocalInv, TypeOK
    <3>2. PICK e \in Events : lines[path] = Append(mem[p], RecordAfter(mem[p], e, NoEvent))
      BY <3>1 DEF LocalInv
    <3>3. mem[p] \in Seq(Record)
      BY DEF TypeOK
    <3>4. RecordAfter(mem[p], e, NoEvent) \in Record /\ RecordAfter(mem[p], e, NoEvent).id = e
      BY <3>3, RecordAfterType DEF RecordAfter
    <3>5. Len(lines[path]) \in DOMAIN lines[path] /\ lines[path][Len(lines[path])].id \in Events
      <4>1. Len(lines[path]) = Len(mem[p]) + 1 /\ Len(mem[p]) \in Nat
        BY <3>2, <3>3, <3>4, AppendLines
      <4>2. Len(lines[path]) \in DOMAIN lines[path]
        BY <3>1, <4>1
      <4>3. QED
        BY <3>1, <4>2, LineTypes
    <3> DEFINE d == lines[path][Len(lines[path])].id
    <3>6. d \in IdsOf(lines[path]) /\ d \in Events
      BY <3>5 DEF IdsOf
    <3>7. acked' = acked \cup {d} /\ lines' = lines /\ path' = path
      BY <2>7, <3>1 DEF SyncLog
    <3> HIDE DEF d
    <3>8. d \in Promise!EventsOf(visible)
      BY <3>1, <3>6, ViewIds DEF visible, View
    <3>9. visible' = visible
      BY <3>7 DEF visible
    <3>10. QED
      BY <3>6, <3>7, <3>8, <3>9 DEF Promise!Next, Promise!Acknowledge
  <2>8. QED
    BY <1>2, <2>1, <2>2, <2>3, <2>4, <2>5, <2>6, <2>7 DEF Step
<1>3. CASE UNCHANGED vars
  BY <1>3, Stutters DEF vars
<1>4. QED
  BY <1>1, <1>2, <1>3 DEF Next

\* The log the next open reads only grows at its end; a power loss takes a
\* suffix away, never an acknowledged event.
THEOREM JournalImplementsAppendOnlyLog == ASSUME OpenAlone PROVE Spec => ImplementsAppendOnlyLog
<1>1. Init => Promise!Init
  BY BoundsAssumption DEF Init, Promise!Init, visible, Files
<1>2. IInv /\ IInv' /\ [Next]_vars => [Promise!Next]_<<visible, acked>>
  BY StepRefines
<1>3. QED
  BY InvCorrect, <1>1, <1>2, PTL DEF Spec, Promise!Spec, ImplementsAppendOnlyLog
=============================================================================
