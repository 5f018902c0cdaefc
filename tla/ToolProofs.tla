------------------------------- MODULE ToolProofs -------------------------------
(***************************************************************************)
(* Proofs about what the tools leave on the disk, and about Tools, where a *)
(* call is of any of them.                                                 *)
(*                                                                         *)
(* The content addressed store, for any candidates of any processes, any   *)
(* bytes and any number of damaged files: a file that has a name holds     *)
(* what the name stands for, a name that was returned is there after every *)
(* crash and power loss, and the store implements ContentMap.              *)
(*                                                                         *)
(* Write and edit, for any contents of any sizes, any modes and any number *)
(* of changes by other programs, at any moment: the target is never        *)
(* partial, an edit changes what was looked at, what is lost was written   *)
(* after the last look, and the answer of a call is true.                  *)
(*                                                                         *)
(* The bash tool, for any number of processes and signals, any limits of   *)
(* the capture and any output in any chunks: what the result says of the   *)
(* run is what happened, the capture reports exactly the bytes of the      *)
(* streams that it says it reports, and nothing the tool started is left   *)
(* running.                                                                *)
(*                                                                         *)
(* The frames of raw output, for any streams, any payloads, any base and   *)
(* number of digits of the lengths and any limit that they can say: a      *)
(* length is read back as it was written, it does not matter where a       *)
(* chunk ends, and every scan of a published object gives its reader       *)
(* exactly what the calls of write were told was accepted.                 *)
(***************************************************************************)
EXTENDS Tools, Integers, FiniteSetTheorems, SequenceTheorems, WellFoundedInduction, TLAPS

-----------------------------------------------------------------------------
(* Content addressed storage. *)

\* The steps of a publication that follow the draining of the queue.
Closed == Publishing \ {"draining"}

\* Directories are made before they are synced, and candidates begin in both;
\* only then do names survive.
DirInv ==
  /\ \A c \in Candidates :
       /\ pc[c] = "namespace" => made >= 1
       /\ pc[c] = "namespace_synced" => safe >= 1
       /\ pc[c] = "directory" => made = 2
       /\ pc[c] \in {"ready", "begun"} => safe = 2
  /\ kept # {} => safe = 2

\* Calls are made of candidates that have begun, and a death ends them.
CallInv ==
  \A c \in Candidates :
    /\ pub[c] # "none" \/ abo[c] # "none" => pc[c] \in {"begun", "dead"}
    /\ pub[c] \in Publishing \/ abo[c] = "draining" \/ queue[c] # << >> => pc[c] = "begun"

\* A candidate that is published or aborted is not open, and what is poisoned
\* or aborted gets no further than the end of its queue.
StateInv ==
  \A c \in Candidates :
    /\ pub[c] # "none" => state[c] # "open"
    /\ abo[c] # "none" => state[c] \in {"poisoned", "aborted"}
    /\ state[c] \in {"poisoned", "aborted"} =>
         pub[c] \in {"none", "refused"} \/ (pub[c] = "draining" /\ c \in failed)

\* Behind the queue nothing is written, and what is linked was synced and read
\* back before.
QueueInv ==
  \A c \in Candidates :
    /\ pub[c] \in Closed \cup {"returned"} => queue[c] = << >>
    /\ Len(hashed[c]) + Len(queue[c]) <= MaxBytes
    /\ pub[c] \in {"scanning", "linking"} => c \in synced
    /\ pub[c] = "linking" => (damage = 0 => data[c] = hashed[c])

\* The file that has a name is the one of a candidate past its link.
EntryInv ==
  \A n \in Names : entry[n] # Nobody =>
    /\ hashed[entry[n]] = n /\ entry[n] \in synced
    /\ damage = 0 => data[entry[n]] = n
    /\ pc[entry[n]] = "dead" \/ pub[entry[n]] \in {"syncing_dir", "cleaning", "returned", "refused"}

\* A name is kept once its directory was synced, before it is returned.
KeptInv ==
  /\ promised \subseteq kept
  /\ \A n \in kept : entry[n] # Nobody
  /\ \A c \in Candidates :
       /\ pub[c] \in {"syncing_dir", "cleaning"} => entry[hashed[c]] # Nobody
       /\ pub[c] = "cleaning" => hashed[c] \in kept

IInv == TypeOK /\ DirInv /\ CallInv /\ StateInv /\ QueueInv /\ EntryInv /\ KeptInv

-----------------------------------------------------------------------------
(* Sequences of bounded length. *)

\* A name is no longer than a file may be.
LEMMA NamesAreBounded ==
  ASSUME NEW s
  PROVE  s \in Names <=> s \in Seq(Bytes) /\ Len(s) <= MaxBytes
<1>1. ASSUME s \in Names PROVE s \in Seq(Bytes) /\ Len(s) <= MaxBytes
  BY <1>1, BytesAssumption DEF Names
<1>2. ASSUME s \in Seq(Bytes), Len(s) <= MaxBytes PROVE s \in Names
  <2>1. Len(s) \in 0..MaxBytes /\ s \in [1..Len(s) -> Bytes]
    BY <1>2, BytesAssumption
  <2>2. QED
    BY <2>1 DEF Names
<1>3. QED
  BY <1>1, <1>2

LEMMA FilesAreBounded ==
  ASSUME NEW s
  PROVE  s \in Files <=> s \in Seq(Bytes \cup {Bad}) /\ Len(s) <= MaxBytes
<1>1. ASSUME s \in Files PROVE s \in Seq(Bytes \cup {Bad}) /\ Len(s) <= MaxBytes
  BY <1>1, BytesAssumption DEF Files
<1>2. ASSUME s \in Seq(Bytes \cup {Bad}), Len(s) <= MaxBytes PROVE s \in Files
  <2>1. Len(s) \in 0..MaxBytes /\ s \in [1..Len(s) -> Bytes \cup {Bad}]
    BY <1>2, BytesAssumption
  <2>2. QED
    BY <2>1 DEF Files
<1>3. QED
  BY <1>1, <1>2

LEMMA NamesAreFiles == Names \subseteq Files /\ << >> \in Names
<1>1. \A s : s \in Seq(Bytes) => s \in Seq(Bytes \cup {Bad})
  OBVIOUS
<1>2. << >> \in Seq(Bytes) /\ Len(<< >>) <= MaxBytes
  BY BytesAssumption
<1>3. QED
  BY <1>1, <1>2, NamesAreBounded, FilesAreBounded

LEMMA EmptyIsShort == Len(<< >>) = 0 /\ (\A n \in Nat : n + Len(<< >>) = n)
  OBVIOUS


\* One lemma for each step of a candidate, and for damage, deaths and power losses.
LEMMA MkdirKeeps == ASSUME IInv, NEW c \in Candidates, Mkdir(c) PROVE IInv'
<1>1. StateInv'
  BY DEF IInv, Mkdir, StateInv
<1>2. KeptInv'
  BY DEF IInv, Mkdir, KeptInv
<1>3. DirInv'
  BY DEF IInv, Mkdir, TypeOK, DirInv
<1>4. CallInv'
  BY DEF IInv, Mkdir, TypeOK, CallInv
<1>5. QueueInv'
  BY DEF IInv, Mkdir, TypeOK, QueueInv
<1>6. EntryInv'
  BY DEF IInv, Mkdir, TypeOK, EntryInv
<1>7. TypeOK'
  <2>1. made' \in 0..2 /\ safe' \in 0..made'
    BY DEF IInv, TypeOK, DirInv, Mkdir
  <2>2. pc' \in [Candidates -> Opening \cup {"ready", "begun", "dead"}]
    BY DEF IInv, TypeOK, Mkdir, Opening
  <2>3. QED
    BY <2>1, <2>2 DEF IInv, TypeOK, Mkdir, object
<1>8. QED
  BY <1>1, <1>2, <1>3, <1>4, <1>5, <1>6, <1>7 DEF IInv

LEMMA SyncParentKeeps == ASSUME IInv, NEW c \in Candidates, SyncParent(c) PROVE IInv'
<1>1. StateInv'
  BY DEF IInv, SyncParent, StateInv
<1>2. KeptInv'
  BY DEF IInv, SyncParent, KeptInv
<1>3. DirInv'
  BY DEF IInv, SyncParent, TypeOK, DirInv
<1>4. CallInv'
  BY DEF IInv, SyncParent, TypeOK, CallInv
<1>5. QueueInv'
  BY DEF IInv, SyncParent, TypeOK, QueueInv
<1>6. EntryInv'
  BY DEF IInv, SyncParent, TypeOK, EntryInv
<1>7. TypeOK'
  <2>1. made' \in 0..2 /\ safe' \in 0..made'
    BY DEF IInv, TypeOK, DirInv, SyncParent
  <2>2. pc' \in [Candidates -> Opening \cup {"ready", "begun", "dead"}]
    BY DEF IInv, TypeOK, SyncParent, Opening
  <2>3. QED
    BY <2>1, <2>2 DEF IInv, TypeOK, SyncParent, object
<1>8. QED
  BY <1>1, <1>2, <1>3, <1>4, <1>5, <1>6, <1>7 DEF IInv

LEMMA BeginKeeps == ASSUME IInv, NEW c \in Candidates, Begin(c) PROVE IInv'
<1>1. DirInv'
  BY DEF IInv, Begin, DirInv
<1>2. CallInv'
  BY DEF IInv, Begin, CallInv
<1>3. StateInv'
  BY DEF IInv, Begin, StateInv
<1>4. QueueInv'
  BY DEF IInv, Begin, QueueInv
<1>5. EntryInv'
  BY DEF IInv, Begin, EntryInv
<1>6. KeptInv'
  BY DEF IInv, Begin, KeptInv
<1>7. TypeOK'
  BY DEF IInv, Begin, TypeOK
<1>8. QED
  BY <1>1, <1>2, <1>3, <1>4, <1>5, <1>6, <1>7 DEF IInv

\* The queue of a candidate, and what its first write adds.
LEMMA FirstOfQueue ==
  ASSUME IInv, NEW c \in Candidates, queue[c] # << >>
  PROVE  /\ Tail(queue[c]) \in Seq(Chunks) /\ Len(Tail(queue[c])) = Len(queue[c]) - 1
         /\ Len(queue[c]) \in Nat \ {0}
         /\ hashed[c] \o Head(queue[c]) \in Names
         /\ hashed[c] \o Head(queue[c]) \in Files
         /\ Len(hashed[c] \o Head(queue[c])) = Len(hashed[c]) + 1
<1>1. /\ hashed[c] \in Seq(Bytes) /\ Len(hashed[c]) \in Nat
      /\ Len(hashed[c]) + Len(queue[c]) <= MaxBytes
  BY NamesAreBounded DEF IInv, TypeOK, QueueInv
<1>2. queue[c] \in Seq(Chunks)
  BY DEF IInv, TypeOK
<1>3. Tail(queue[c]) \in Seq(Chunks) /\ Len(Tail(queue[c])) = Len(queue[c]) - 1
  BY <1>2
<1>4. Len(queue[c]) \in Nat \ {0} /\ Head(queue[c]) \in Chunks
  BY <1>2
<1>5. PICK b \in Bytes : Head(queue[c]) = << b >>
  BY <1>4 DEF Chunks
<1>6. /\ hashed[c] \o << b >> \in Seq(Bytes)
      /\ Len(hashed[c] \o << b >>) = Len(hashed[c]) + 1
  BY <1>1
<1>7. /\ hashed[c] \o Head(queue[c]) \in Seq(Bytes)
      /\ Len(hashed[c] \o Head(queue[c])) = Len(hashed[c]) + 1
  BY <1>5, <1>6
<1>8. Len(hashed[c] \o Head(queue[c])) <= MaxBytes
  <2>1. \A x, y, m \in Nat : x + y <= m /\ y # 0 => x + 1 <= m
    OBVIOUS
  <2>2. QED
    BY <1>1, <1>4, <1>7, <2>1, BytesAssumption
<1>9. hashed[c] \o Head(queue[c]) \in Names
  BY <1>7, <1>8, NamesAreBounded
<1>10. QED
  BY <1>3, <1>4, <1>7, <1>9, NamesAreFiles

LEMMA WriteKeeps == ASSUME IInv, NEW c \in Candidates, NEW chunk \in Chunks, Write(c, chunk) PROVE IInv'
<1>0. queue[c] \in Seq(Chunks)
  BY DEF IInv, TypeOK
<1>1. /\ Append(queue[c], chunk) \in Seq(Chunks) /\ Append(queue[c], chunk) # << >>
      /\ Len(Append(queue[c], chunk)) = Len(queue[c]) + 1
      /\ Len(queue[c]) \in Nat
  BY <1>0
<1>2. hashed[c] \in Seq(Bytes) /\ Len(hashed[c]) \in Nat
  BY NamesAreBounded DEF IInv, TypeOK
<1>3. TypeOK'
  BY <1>1 DEF IInv, TypeOK, Write, store
<1>4. DirInv' /\ StateInv' /\ EntryInv' /\ KeptInv'
  BY DEF IInv, Write, store, DirInv, StateInv, EntryInv, KeptInv
<1>5. CallInv'
  BY DEF IInv, TypeOK, Write, CallInv
<1>6. QueueInv'
  <2>1. pub[c] \notin Closed \cup {"returned"}
    BY DEF IInv, Write, StateInv, Closed, Publishing
  <2>2. SUFFICES ASSUME NEW d \in Candidates
                 PROVE  /\ pub[d] \in Closed \cup {"returned"} => queue'[d] = << >>
                        /\ Len(hashed[d]) + Len(queue'[d]) <= MaxBytes
    BY DEF IInv, QueueInv, Write, store
  <2>3. CASE d = c
    BY <1>1, <1>2, <2>1, <2>3, BytesAssumption DEF IInv, TypeOK, Write
  <2>4. CASE d # c
    BY <2>4 DEF IInv, TypeOK, Write, QueueInv
  <2>5. QED
    BY <2>3, <2>4
<1>7. QED
  BY <1>3, <1>4, <1>5, <1>6 DEF IInv

LEMMA RunWriteKeeps == ASSUME IInv, NEW c \in Candidates, RunWrite(c) PROVE IInv'
<1> DEFINE text == hashed[c] \o Head(queue[c])
           open == c \notin failed /\ HandleOpen(c)
           rest == Tail(queue[c])
<1>1. /\ rest \in Seq(Chunks) /\ Len(rest) = Len(queue[c]) - 1 /\ Len(queue[c]) \in Nat \ {0}
      /\ text \in Names /\ text \in Files /\ Len(text) = Len(hashed[c]) + 1
  BY FirstOfQueue DEF RunWrite
<1>2. \/ data' = data /\ synced' = synced
      \/ open /\ data' = [data EXCEPT ![c] = text] /\ synced' = synced \ {c}
  BY DEF RunWrite
<1>3. \/ hashed' = hashed /\ failed' = failed \cup {c} /\ state' = [state EXCEPT ![c] = "poisoned"]
      \/ /\ open /\ data' = [data EXCEPT ![c] = text] /\ hashed' = [hashed EXCEPT ![c] = text]
         /\ state' = state /\ failed' = failed
  BY DEF RunWrite
<1>4. /\ queue' = [queue EXCEPT ![c] = rest]
      /\ UNCHANGED <<made, safe, entry, kept, temp, damage, pc, pub, abo, promised>>
  BY DEF RunWrite
<1>5. pc[c] = "begun" /\ queue[c] # << >>
  BY DEF RunWrite
<1>6. /\ pub[c] \notin Closed \cup {"returned"}
      /\ HandleOpen(c) => pub[c] \in {"none", "draining"}
  BY <1>5 DEF IInv, QueueInv, HandleOpen, Closed, Publishing
<1>7. \A n \in Names : open => entry[n] # c
  BY <1>5, <1>6, NobodyAssumption DEF IInv, EntryInv, TypeOK
<1> HIDE DEF text, open, rest
<1>8. hashed[c] \in Seq(Bytes) /\ Len(hashed[c]) \in Nat
  BY NamesAreBounded DEF IInv, TypeOK
<1>9. TypeOK'
  <2>1. data' \in [Candidates -> Files] /\ synced' \subseteq Candidates
    BY <1>1, <1>2 DEF IInv, TypeOK
  <2>2. hashed' \in [Candidates -> Names] /\ failed' \subseteq Candidates /\ state' \in [Candidates -> States]
    BY <1>1, <1>3 DEF IInv, TypeOK, States
  <2>3. queue' \in [Candidates -> Seq(Chunks)]
    BY <1>1, <1>4 DEF IInv, TypeOK
  <2>4. QED
    BY <1>4, <2>1, <2>2, <2>3 DEF IInv, TypeOK
<1>10. DirInv'
  BY <1>4 DEF IInv, DirInv
<1>11. CallInv'
  BY <1>4, <1>5 DEF IInv, TypeOK, CallInv
<1>12. StateInv'
  BY <1>3, <1>4, <1>6 DEF IInv, TypeOK, StateInv, Closed, Publishing
<1>13. QueueInv'
  <2>1. SUFFICES ASSUME NEW d \in Candidates
                 PROVE  /\ pub[d] \in Closed \cup {"returned"} => queue'[d] = << >>
                        /\ Len(hashed'[d]) + Len(queue'[d]) <= MaxBytes
                        /\ pub[d] \in {"scanning", "linking"} => d \in synced'
                        /\ pub[d] = "linking" => (damage = 0 => data'[d] = hashed'[d])
    BY <1>4 DEF QueueInv
  <2>2. CASE d = c
    <3>1. queue'[c] = rest /\ Len(hashed[c]) + Len(queue[c]) <= MaxBytes
      BY <1>4 DEF IInv, TypeOK, QueueInv
    <3>2. Len(hashed'[c]) \in {Len(hashed[c]), Len(hashed[c]) + 1}
      BY <1>1, <1>3 DEF IInv, TypeOK
    <3>3. Len(hashed[c]) + Len(queue[c]) <= MaxBytes /\ Len(hashed[c]) \in Nat /\ Len(queue[c]) \in Nat
          /\ Len(queue[c]) # 0 /\ MaxBytes \in Nat /\ Len(rest) = Len(queue[c]) - 1
      BY <1>1, <1>8, <3>1, BytesAssumption
    <3>4. \A z \in {Len(hashed[c]), Len(hashed[c]) + 1} : z + (Len(queue[c]) - 1) <= MaxBytes
      <4>1. \A x, y, m \in Nat : x + y <= m /\ y # 0 => x + (y - 1) <= m /\ (x + 1) + (y - 1) <= m
        OBVIOUS
      <4>2. QED
        BY <3>3, <4>1
    <3>5. Len(hashed'[c]) + Len(rest) <= MaxBytes
      BY <3>2, <3>3, <3>4
    <3>6. QED
      BY <1>6, <2>2, <3>1, <3>5 DEF Closed, Publishing
  <2>3. CASE d # c
    <3>1. queue'[d] = queue[d] /\ hashed'[d] = hashed[d] /\ data'[d] = data[d]
      BY <1>2, <1>3, <1>4, <2>3 DEF IInv, TypeOK
    <3>2. d \in synced => d \in synced'
      BY <1>2, <2>3
    <3>3. QED
      BY <3>1, <3>2 DEF IInv, QueueInv
  <2>4. QED
    BY <2>2, <2>3
<1>14. \A n \in Names : entry[n] # Nobody =>
         hashed'[entry[n]] = hashed[entry[n]] /\ data'[entry[n]] = data[entry[n]] /\ (entry[n] \in synced => entry[n] \in synced')
  BY <1>2, <1>3, <1>7 DEF IInv, TypeOK
<1>15. EntryInv'
  BY <1>4, <1>14 DEF IInv, EntryInv
<1>16. KeptInv'
  <2>1. \A d \in Candidates : pub[d] \in {"syncing_dir", "cleaning"} => hashed'[d] = hashed[d]
    BY <1>3, <1>6 DEF IInv, TypeOK, Closed, Publishing
  <2>2. QED
    BY <1>4, <2>1 DEF IInv, KeptInv
<1>17. QED
  BY <1>9, <1>10, <1>11, <1>12, <1>13, <1>15, <1>16 DEF IInv

LEMMA PublishPoisonedKeeps == ASSUME IInv, NEW c \in Candidates, PublishPoisoned(c) PROVE IInv'
<1>1. DirInv' /\ CallInv' /\ EntryInv'
  BY DEF IInv, PublishPoisoned, DirInv, CallInv, EntryInv
<1>2. KeptInv'
  BY DEF IInv, PublishPoisoned, KeptInv
<1>3. TypeOK'
  BY DEF IInv, PublishPoisoned, TypeOK
<1>4. StateInv'
  BY DEF IInv, PublishPoisoned, TypeOK, StateInv, Publishing, Closed
<1>5. QueueInv'
  BY DEF IInv, PublishPoisoned, TypeOK, QueueInv, Publishing, Closed
<1>6. QED
  BY <1>1, <1>2, <1>3, <1>4, <1>5 DEF IInv

LEMMA PublishKeeps == ASSUME IInv, NEW c \in Candidates, Publish(c) PROVE IInv'
<1>1. DirInv' /\ KeptInv'
  BY DEF IInv, Publish, DirInv, KeptInv, store
<1>2. CallInv'
  BY DEF IInv, Publish, TypeOK, CallInv
<1>3. TypeOK'
  BY DEF IInv, Publish, TypeOK, store, Publishing, States
<1>4. StateInv'
  BY DEF IInv, Publish, TypeOK, StateInv, store, Closed
<1>5. QueueInv'
  BY DEF IInv, Publish, TypeOK, QueueInv, store, Closed
<1>6. EntryInv'
  BY NobodyAssumption DEF IInv, Publish, TypeOK, StateInv, CallInv, EntryInv, store
<1>7. QED
  BY <1>1, <1>2, <1>3, <1>4, <1>5, <1>6 DEF IInv

LEMMA DrainedKeeps == ASSUME IInv, NEW c \in Candidates, Drained(c) PROVE IInv'
<1>1. DirInv'
  BY DEF IInv, Drained, TypeOK, DirInv
<1>2. CallInv'
  BY DEF IInv, Drained, TypeOK, CallInv
<1>3. StateInv'
  BY DEF IInv, Drained, TypeOK, StateInv
<1>4. QueueInv'
  BY DEF IInv, Drained, TypeOK, QueueInv
<1>5. KeptInv'
  BY DEF IInv, Drained, TypeOK, KeptInv
<1>6. TypeOK'
  BY DEF IInv, Drained, TypeOK, Publishing
<1>7. EntryInv'
  <2>1. \A n \in Names : entry[n] # c
    <3>1. pub[c] = "draining" /\ pc[c] # "dead"
      BY DEF IInv, Drained, CallInv, Publishing
    <3>2. QED
      BY <3>1, NobodyAssumption DEF IInv, TypeOK, EntryInv
  <2>2. \A d \in Candidates : d # c => pub'[d] = pub[d]
    BY DEF IInv, TypeOK, Drained
  <2>3. UNCHANGED <<entry, hashed, synced, damage, data, pc>>
    BY DEF Drained
  <2>4. QED
    BY <2>1, <2>2, <2>3 DEF IInv, TypeOK, EntryInv
<1>8. QED
  BY <1>1, <1>2, <1>3, <1>4, <1>5, <1>6, <1>7 DEF IInv

LEMMA PublishFailsKeeps == ASSUME IInv, NEW c \in Candidates, PublishFails(c) PROVE IInv'
<1>1. DirInv' /\ EntryInv' /\ KeptInv'
  BY DEF IInv, PublishFails, DirInv, EntryInv, KeptInv
<1>2. CallInv'
  BY DEF IInv, PublishFails, TypeOK, CallInv
<1>3. TypeOK'
  BY DEF IInv, PublishFails, TypeOK, States
<1>4. StateInv'
  BY DEF IInv, PublishFails, TypeOK, StateInv, Closed
<1>5. QueueInv'
  BY DEF IInv, PublishFails, TypeOK, QueueInv, Closed
<1>6. QED
  BY <1>1, <1>2, <1>3, <1>4, <1>5 DEF IInv

LEMMA SyncFileKeeps == ASSUME IInv, NEW c \in Candidates, SyncFile(c) PROVE IInv'
<1>1. EntryInv' /\ KeptInv'
  BY DEF IInv, SyncFile, EntryInv, KeptInv
<1>2. DirInv' /\ CallInv'
  BY DEF IInv, SyncFile, TypeOK, DirInv, CallInv
<1>3. TypeOK'
  BY DEF IInv, SyncFile, TypeOK, Publishing
<1>4. StateInv'
  BY DEF IInv, SyncFile, TypeOK, StateInv, Closed
<1>5. QueueInv'
  BY DEF IInv, SyncFile, TypeOK, QueueInv, Closed
<1>6. QED
  BY <1>1, <1>2, <1>3, <1>4, <1>5 DEF IInv

LEMMA ScanKeeps == ASSUME IInv, NEW c \in Candidates, Scan(c) PROVE IInv'
<1>1. EntryInv' /\ KeptInv'
  BY DEF IInv, Scan, EntryInv, KeptInv, store
<1>2. DirInv' /\ CallInv'
  BY DEF IInv, Scan, TypeOK, DirInv, CallInv, store
<1>3. TypeOK'
  BY DEF IInv, Scan, TypeOK, store, Publishing
<1>4. StateInv'
  BY DEF IInv, Scan, TypeOK, StateInv, store, Closed
<1>5. QueueInv'
  BY DEF IInv, Scan, TypeOK, QueueInv, store, Closed
<1>6. QED
  BY <1>1, <1>2, <1>3, <1>4, <1>5 DEF IInv

LEMMA LinkKeeps == ASSUME IInv, NEW c \in Candidates, Link(c) PROVE IInv'
<1>1. DirInv' /\ CallInv'
  BY DEF IInv, Link, TypeOK, DirInv, CallInv
<1>2. TypeOK'
  <2>1. hashed[c] \in Names
    BY DEF IInv, TypeOK
  <2>2. entry' \in [Names -> Candidates \cup {Nobody}]
    <3>1. entry' = entry \/ entry' = [entry EXCEPT ![hashed[c]] = c]
      BY DEF Link
    <3>2. QED
      BY <2>1, <3>1 DEF IInv, TypeOK
  <2>3. pub' \in [Candidates -> Publishing \cup {"none", "refused", "returned"}]
    BY DEF IInv, TypeOK, Link, Publishing
  <2>4. QED
    BY <2>2, <2>3 DEF IInv, TypeOK, Link
<1>3. StateInv'
  BY DEF IInv, Link, TypeOK, StateInv, Closed
<1>4. QueueInv'
  BY DEF IInv, Link, TypeOK, QueueInv, Closed
<1>5. EntryInv'
  <2>1. hashed[c] \in Names
    BY DEF IInv, TypeOK
  <2>2. SUFFICES ASSUME NEW n \in Names, entry'[n] # Nobody
                 PROVE  /\ hashed[entry'[n]] = n /\ entry'[n] \in synced
                        /\ damage = 0 => data[entry'[n]] = n
                        /\ \/ pc[entry'[n]] = "dead"
                           \/ pub'[entry'[n]] \in {"syncing_dir", "cleaning", "returned", "refused"}
    BY DEF EntryInv, Link
  <2>3. CASE entry[hashed[c]] = Nobody /\ n = hashed[c]
    BY <2>1, <2>3 DEF IInv, TypeOK, Link, QueueInv
  <2>4. CASE ~ (entry[hashed[c]] = Nobody /\ n = hashed[c])
    <3>1. entry'[n] = entry[n]
      BY <2>1, <2>4 DEF IInv, TypeOK, Link
    <3>2. entry[n] \in Candidates /\ (pub[entry[n]] # "linking" \/ pc[entry[n]] = "dead")
      BY <2>2, <3>1 DEF IInv, TypeOK, EntryInv
    <3>3. pub'[entry[n]] = pub[entry[n]] \/ pc[entry[n]] = "dead"
      BY <3>2 DEF IInv, TypeOK, Link
    <3>4. QED
      BY <2>2, <3>1, <3>3 DEF IInv, EntryInv
  <2>5. QED
    BY <2>3, <2>4
<1>6. KeptInv'
  BY NobodyAssumption DEF IInv, Link, TypeOK, KeptInv
<1>7. QED
  BY <1>1, <1>2, <1>3, <1>4, <1>5, <1>6 DEF IInv

LEMMA CompareKeeps == ASSUME IInv, NEW c \in Candidates, Compare(c) PROVE IInv'
<1>1. EntryInv' /\ KeptInv'
  BY DEF IInv, Compare, EntryInv, KeptInv
<1>2. DirInv' /\ CallInv'
  BY DEF IInv, Compare, TypeOK, DirInv, CallInv
<1>3. TypeOK'
  BY DEF IInv, Compare, TypeOK, Publishing
<1>4. StateInv'
  BY DEF IInv, Compare, TypeOK, StateInv, Closed
<1>5. QueueInv'
  BY DEF IInv, Compare, TypeOK, QueueInv, Closed
<1>6. QED
  BY <1>1, <1>2, <1>3, <1>4, <1>5 DEF IInv

LEMMA SyncDirectoryKeeps == ASSUME IInv, NEW c \in Candidates, SyncDirectory(c) PROVE IInv'
<1>1. CallInv'
  BY DEF IInv, SyncDirectory, TypeOK, CallInv
<1>2. EntryInv'
  BY DEF IInv, SyncDirectory, TypeOK, EntryInv
<1>3. KeptInv'
  BY DEF IInv, SyncDirectory, TypeOK, KeptInv
<1>4. TypeOK'
  BY DEF IInv, SyncDirectory, TypeOK, Publishing, States
<1>5. DirInv'
  BY DEF IInv, SyncDirectory, TypeOK, CallInv, DirInv, Publishing
<1>6. StateInv'
  BY DEF IInv, SyncDirectory, TypeOK, StateInv, Closed
<1>7. QueueInv'
  BY DEF IInv, SyncDirectory, TypeOK, QueueInv, Closed
<1>8. QED
  BY <1>1, <1>2, <1>3, <1>4, <1>5, <1>6, <1>7 DEF IInv

LEMMA ReturnKeeps == ASSUME IInv, NEW c \in Candidates, Return(c) PROVE IInv'
<1>1. EntryInv'
  BY DEF IInv, Return, EntryInv
<1>2. KeptInv'
  BY DEF IInv, Return, KeptInv
<1>3. TypeOK'
  BY DEF IInv, Return, TypeOK
<1>4. DirInv'
  BY DEF IInv, Return, TypeOK, DirInv
<1>5. CallInv'
  BY DEF IInv, Return, TypeOK, CallInv
<1>6. StateInv'
  BY DEF IInv, Return, TypeOK, StateInv, Closed
<1>7. QueueInv'
  BY DEF IInv, Return, TypeOK, QueueInv, Closed
<1>8. QED
  BY <1>1, <1>2, <1>3, <1>4, <1>5, <1>6, <1>7 DEF IInv

LEMMA AbortKeeps == ASSUME IInv, NEW c \in Candidates, Abort(c) PROVE IInv'
<1>1. DirInv' /\ QueueInv' /\ EntryInv'
  BY DEF IInv, Abort, DirInv, QueueInv, EntryInv, store
<1>2. KeptInv'
  BY DEF IInv, Abort, KeptInv, store
<1>3. CallInv' /\ StateInv'
  BY DEF IInv, Abort, TypeOK, CallInv, StateInv, store
<1>4. TypeOK'
  BY DEF IInv, Abort, TypeOK, store, States
<1>5. QED
  BY <1>1, <1>2, <1>3, <1>4 DEF IInv

LEMMA AbortDrainedKeeps == ASSUME IInv, NEW c \in Candidates, AbortDrained(c) PROVE IInv'
<1>1. DirInv'
  BY DEF IInv, AbortDrained, DirInv
<1>2. CallInv'
  BY DEF IInv, AbortDrained, CallInv
<1>3. StateInv'
  BY DEF IInv, AbortDrained, StateInv
<1>4. QueueInv'
  BY DEF IInv, AbortDrained, QueueInv
<1>5. EntryInv'
  BY DEF IInv, AbortDrained, EntryInv
<1>6. KeptInv'
  BY DEF IInv, AbortDrained, KeptInv
<1>7. TypeOK'
  BY DEF IInv, AbortDrained, TypeOK
<1>8. QED
  BY <1>1, <1>2, <1>3, <1>4, <1>5, <1>6, <1>7 DEF IInv

LEMMA DamageKeeps == ASSUME IInv, NEW c \in Candidates, Damage(c) PROVE IInv'
<1>1. DirInv' /\ CallInv' /\ KeptInv'
  BY DEF IInv, Damage, DirInv, CallInv, KeptInv, object
<1>2. StateInv' /\ QueueInv'
  BY DEF IInv, Damage, TypeOK, StateInv, QueueInv, object
<1>3. EntryInv'
  BY DEF IInv, Damage, TypeOK, EntryInv, object
<1>4. TypeOK'
  <2>1. [i \in DOMAIN data[c] |-> IF i = Len(data[c]) THEN Bad ELSE data[c][i]] \in Files
    <3>1. data[c] \in Seq(Bytes \cup {Bad}) /\ Len(data[c]) <= MaxBytes
      BY FilesAreBounded DEF IInv, TypeOK
    <3>2. DEFINE torn == [i \in DOMAIN data[c] |-> IF i = Len(data[c]) THEN Bad ELSE data[c][i]]
    <3>3. torn \in [1..Len(data[c]) -> Bytes \cup {Bad}]
      BY <3>1
    <3>4. Len(data[c]) \in 0..MaxBytes
      BY <3>1, BytesAssumption
    <3>5. QED
      BY <3>3, <3>4 DEF Files
  <2>2. data' \in [Candidates -> Files]
    BY <2>1 DEF IInv, TypeOK, Damage
  <2>3. QED
    BY <2>2 DEF IInv, TypeOK, Damage, object
<1>5. QED
  BY <1>1, <1>2, <1>3, <1>4 DEF IInv

LEMMA DieKeeps == ASSUME IInv, NEW c \in Candidates, Die(c) PROVE IInv'
<1>1. StateInv' /\ KeptInv'
  BY DEF IInv, Die, Stopped, StateInv, KeptInv, store
<1>2. TypeOK' /\ EntryInv'
  BY DEF IInv, Die, Stopped, TypeOK, EntryInv, store
<1>3. DirInv'
  BY DEF IInv, Die, Stopped, TypeOK, DirInv, store, Publishing
<1>4. CallInv'
  BY DEF IInv, Die, Stopped, TypeOK, CallInv, Publishing
<1>5. QueueInv'
  BY NamesAreBounded DEF IInv, TypeOK, Die, Stopped, QueueInv, CallInv, store, Publishing, Closed
<1>6. QED
  BY <1>1, <1>2, <1>3, <1>4, <1>5 DEF IInv

LEMMA PowerLossKeeps == ASSUME IInv, PowerLoss PROVE IInv'
<1>1. PICK m \in safe..made, gone \in SUBSET {n \in Names : entry[n] # Nobody /\ n \notin kept} :
        /\ made' = m /\ safe' = m
        /\ entry' = [n \in Names |-> IF m < 2 \/ n \in gone THEN Nobody ELSE entry[n]]
  BY DEF PowerLoss
<1>2. \A n \in Names : entry'[n] # Nobody => entry'[n] = entry[n] /\ m = 2
  BY <1>1 DEF IInv, TypeOK
<1>3. \A n \in kept : entry'[n] = entry[n] /\ m = 2
  BY <1>1 DEF IInv, TypeOK, DirInv
<1>4. kept' = {n \in Names : entry'[n] # Nobody} /\ synced' = Candidates
  BY DEF PowerLoss
<1>5. \A d \in Candidates : d \in synced => data'[d] = data[d]
  BY DEF PowerLoss, IInv, TypeOK
<1>6. \A d \in Candidates :
        /\ pc'[d] \in {"new", "dead"} /\ (pc[d] # "new" => pc'[d] = "dead")
        /\ pub'[d] = IF pub[d] \in Publishing THEN "none" ELSE pub[d]
        /\ abo'[d] = IF abo[d] = "draining" THEN "none" ELSE abo[d]
        /\ queue'[d] = << >>
  BY DEF PowerLoss
<1>7. UNCHANGED <<temp, damage, state, hashed, failed, promised>>
  BY DEF PowerLoss
<1>8. TypeOK'
  <2>1. made' \in 0..2 /\ safe' \in 0..made'
    BY <1>1 DEF IInv, TypeOK
  <2>2. entry' \in [Names -> Candidates \cup {Nobody}] /\ kept' \subseteq Names /\ synced' \subseteq Candidates
    BY <1>1, <1>4 DEF IInv, TypeOK
  <2>3. data' \in [Candidates -> Files]
    BY NamesAreFiles DEF IInv, TypeOK, PowerLoss
  <2>4. /\ pc' \in [Candidates -> Opening \cup {"ready", "begun", "dead"}]
        /\ pub' \in [Candidates -> Publishing \cup {"none", "refused", "returned"}]
        /\ abo' \in [Candidates -> {"none", "draining", "aborted"}]
    BY DEF IInv, TypeOK, PowerLoss, Opening
  <2>5. queue' \in [Candidates -> Seq(Chunks)]
    BY DEF PowerLoss
  <2>6. QED
    BY <1>7, <2>1, <2>2, <2>3, <2>4, <2>5 DEF IInv, TypeOK
<1>9. DirInv'
  <2>1. kept' # {} => safe' = 2
    BY <1>1, <1>2, <1>4
  <2>2. QED
    BY <1>6, <2>1 DEF DirInv
<1>10. CallInv'
  BY <1>6 DEF IInv, TypeOK, CallInv, Publishing
<1>11. StateInv'
  BY <1>6, <1>7 DEF IInv, TypeOK, StateInv, Publishing
<1>12. QueueInv'
  <2>1. \A d \in Candidates : pub'[d] \notin Publishing
    BY <1>6 DEF Publishing
  <2>2. \A d \in Candidates : Len(hashed[d]) + Len(queue'[d]) <= MaxBytes
    <3>1. \A d \in Candidates : hashed[d] \in Seq(Bytes) /\ Len(hashed[d]) <= MaxBytes
      BY NamesAreBounded DEF IInv, TypeOK
    <3>2. \A d \in Candidates : Len(hashed[d]) \in Nat
      BY <3>1
    <3>3. QED
      BY <1>6, <3>1, <3>2, EmptyIsShort, BytesAssumption
  <2>3. QED
    BY <1>6, <1>7, <2>1, <2>2 DEF QueueInv, Publishing
<1>13. EntryInv'
  <2>1. SUFFICES ASSUME NEW n \in Names, entry'[n] # Nobody
                 PROVE  /\ hashed'[entry'[n]] = n /\ entry'[n] \in synced'
                        /\ damage' = 0 => data'[entry'[n]] = n
                        /\ pc'[entry'[n]] = "dead"
    BY DEF EntryInv
  <2>2. entry'[n] = entry[n] /\ entry[n] \in Candidates
    BY <1>2, <2>1 DEF IInv, TypeOK
  <2>3. /\ hashed[entry[n]] = n /\ entry[n] \in synced
        /\ damage = 0 => data[entry[n]] = n
        /\ pub[entry[n]] # "none" \/ pc[entry[n]] = "dead"
    BY <2>1, <2>2 DEF IInv, EntryInv
  <2>4. pc[entry[n]] # "new"
    BY <2>2, <2>3 DEF IInv, CallInv
  <2>5. QED
    BY <1>4, <1>5, <1>6, <1>7, <2>2, <2>3, <2>4
<1>14. KeptInv'
  BY <1>3, <1>4, <1>6, <1>7 DEF IInv, TypeOK, KeptInv, Publishing
<1>15. QED
  BY <1>8, <1>9, <1>10, <1>11, <1>12, <1>13, <1>14 DEF IInv

\* There is nothing in the store at first.
LEMMA InitIInv == Init => IInv
<1>1. SUFFICES ASSUME Init PROVE IInv
  OBVIOUS
<1>2. /\ made = 0 /\ safe = 0 /\ kept = {} /\ temp = {} /\ synced = {} /\ damage = 0
      /\ failed = {} /\ promised = {}
      /\ entry = [n \in Names |-> Nobody]
  BY <1>1 DEF Init
<1>3. \A c \in Candidates :
        /\ pc[c] = "new" /\ state[c] = "open" /\ pub[c] = "none" /\ abo[c] = "none"
        /\ queue[c] = << >> /\ hashed[c] = << >> /\ data[c] = << >>
  BY <1>1 DEF Init
<1>4. TypeOK
  <2>1. /\ data \in [Candidates -> Files] /\ hashed \in [Candidates -> Names]
        /\ queue \in [Candidates -> Seq(Chunks)]
    BY <1>1, NamesAreFiles DEF Init
  <2>2. /\ pc \in [Candidates -> Opening \cup {"ready", "begun", "dead"}]
        /\ state \in [Candidates -> States]
        /\ pub \in [Candidates -> Publishing \cup {"none", "refused", "returned"}]
        /\ abo \in [Candidates -> {"none", "draining", "aborted"}]
    BY <1>1 DEF Init, Opening, States
  <2>3. QED
    BY <1>2, <2>1, <2>2 DEF TypeOK
<1>5. DirInv /\ CallInv /\ StateInv
  BY <1>2, <1>3 DEF DirInv, CallInv, StateInv, Publishing
<1>6. EntryInv /\ KeptInv
  BY <1>2, <1>3 DEF EntryInv, KeptInv
<1>7. QueueInv
  <2>1. Len(<< >>) + Len(<< >>) <= MaxBytes
    BY EmptyIsShort, BytesAssumption
  <2>2. QED
    BY <1>2, <1>3, <2>1 DEF QueueInv, Closed, Publishing
<1>8. QED
  BY <1>4, <1>5, <1>6, <1>7 DEF IInv

\* A step that only a load takes, or none.
LEMMA UnchangedKeeps == ASSUME IInv, UNCHANGED <<store, object, promised>> PROVE IInv'
<1>1. TypeOK' /\ DirInv' /\ CallInv' /\ StateInv'
  BY DEF IInv, TypeOK, DirInv, CallInv, StateInv, store, object
<1>2. QueueInv' /\ EntryInv' /\ KeptInv'
  BY DEF IInv, QueueInv, EntryInv, KeptInv, store, object
<1>3. QED
  BY <1>1, <1>2 DEF IInv

\* Reading changes nothing of what is stored.
LEMMA LoadsChangeNothing ==
  ASSUME NEW l \in Loaders,
         (\E n \in Names : \E from \in 0..Len(n) : StartLoad(l, n, from))
           \/ VerifyLoad(l) \/ LoadRange(l) \/ EndLoad(l) \/ ForgetLoad(l)
  PROVE  UNCHANGED <<store, object, promised>>
  BY DEF StartLoad, VerifyLoad, LoadRange, EndLoad, ForgetLoad

\* Every step of every candidate and of the system.
LEMMA NextKeeps == IInv /\ [Next]_vars => IInv'
<1>1. SUFFICES ASSUME IInv, [Next]_vars PROVE IInv'
  OBVIOUS
<1>2. ASSUME NEW c \in Candidates, Mkdir(c) \/ SyncParent(c) \/ Begin(c) PROVE IInv'
  BY <1>1, <1>2, MkdirKeeps, SyncParentKeeps, BeginKeeps
<1>3. ASSUME NEW c \in Candidates, NEW chunk \in Chunks, Write(c, chunk) PROVE IInv'
  BY <1>1, <1>3, WriteKeeps
<1>4. ASSUME NEW c \in Candidates, RunWrite(c) \/ PublishPoisoned(c) \/ Publish(c) \/ Drained(c) \/ PublishFails(c)
      PROVE  IInv'
  BY <1>1, <1>4, RunWriteKeeps, PublishPoisonedKeeps, PublishKeeps, DrainedKeeps, PublishFailsKeeps
<1>5. ASSUME NEW c \in Candidates,
             SyncFile(c) \/ Scan(c) \/ Link(c) \/ Compare(c) \/ SyncDirectory(c) \/ Return(c)
      PROVE  IInv'
  BY <1>1, <1>5, SyncFileKeeps, ScanKeeps, LinkKeeps, CompareKeeps, SyncDirectoryKeeps, ReturnKeeps
<1>6. ASSUME NEW c \in Candidates, Abort(c) \/ AbortDrained(c) \/ Damage(c) \/ Die(c) PROVE IInv'
  BY <1>1, <1>6, AbortKeeps, AbortDrainedKeeps, DamageKeeps, DieKeeps
<1>7. ASSUME NEW l \in Loaders,
             (\E n \in Names : \E from \in 0..Len(n) : StartLoad(l, n, from))
               \/ VerifyLoad(l) \/ LoadRange(l) \/ EndLoad(l) \/ ForgetLoad(l)
      PROVE  IInv'
  BY <1>1, <1>7, LoadsChangeNothing, UnchangedKeeps
<1>8. CASE PowerLoss
  BY <1>1, <1>8, PowerLossKeeps
<1>9. CASE UNCHANGED vars
  BY <1>1, <1>9, UnchangedKeeps DEF vars, store, object
<1>10. QED
  BY <1>1, <1>2, <1>3, <1>4, <1>5, <1>6, <1>7, <1>8, <1>9 DEF Next

-----------------------------------------------------------------------------
\* What the proofs rest on.
LEMMA Inductive == Spec => []IInv
  BY InitIInv, NextKeeps, PTL DEF Spec

\* The variables have their types, and no object is there without its directory
\* (artifact/internal-cas.ts).
THEOREM TypeCorrect == Spec => []TypeOK
<1>1. IInv => TypeOK
  BY DEF IInv
<1>2. QED
  BY <1>1, Inductive, PTL

\* However candidates race, fail and crash, and whatever a power loss takes: what
\* has a name holds what the name stands for, what publish has returned is still
\* there, and what was aborted is not published.
THEOREM StoredIsWholeHolds == Spec => []StoredIsWhole
<1>1. ASSUME IInv PROVE StoredIsWhole
  <2>1. NamedIsWhole
    BY <1>1 DEF IInv, EntryInv, NamedIsWhole, Readable
  <2>2. PromisedIsKept
    <3>1. \A n \in promised : n \in Names /\ n \in kept /\ entry[n] # Nobody /\ safe = 2
      BY <1>1 DEF IInv, TypeOK, KeptInv, DirInv
    <3>2. QED
      BY <1>1, <3>1 DEF IInv, EntryInv, PromisedIsKept, Readable
  <2>3. AbortedIsUnpublished
    BY <1>1 DEF IInv, StateInv, AbortedIsUnpublished
  <2>4. QED
    BY <2>1, <2>2, <2>3 DEF StoredIsWhole
<1>2. QED
  BY <1>1, Inductive, PTL

\* The store is ContentMap: an object that was promised to the journal is there
\* for ever; others appear, and may go in a power loss.
THEOREM StoreImplementsContentMap == Spec => ImplementsContentMap
<1> DEFINE readable == {n \in Names : entry[n] # Nobody /\ (damage = 0 => Readable(n))}
           named    == {n \in Names : entry[n] # Nobody}
<1>1. Init => Map!Init
  BY DEF Init, Map!Init
<1>2. ASSUME IInv, IInv', [Next]_vars PROVE [Map!Next]_<<readable, promised>>
  <2>1. readable = named /\ readable' = named'
    BY <1>2 DEF IInv, EntryInv, Readable
  <2>2. CASE \E c \in Candidates : Link(c)
    <3>1. PICK c \in Candidates : Link(c)
      BY <2>2
    <3>2. hashed[c] \in Names /\ promised' = promised
      BY <1>2, <3>1 DEF IInv, TypeOK, Link
    <3>3. CASE entry[hashed[c]] = Nobody
      <4>1. PICK n \in Names : n = hashed[c]
        BY <3>2
      <4>2. named' = named \cup {n} /\ n \notin named
        BY <1>2, <3>1, <3>2, <3>3, <4>1, NobodyAssumption DEF IInv, TypeOK, Link
      <4>3. Map!Appear(n)
        BY <2>1, <3>2, <4>2 DEF Map!Appear
      <4>4. QED
        BY <4>3 DEF Map!Next
    <3>4. CASE entry[hashed[c]] # Nobody
      BY <2>1, <3>1, <3>2, <3>4 DEF Link
    <3>5. QED
      BY <3>3, <3>4
  <2>3. CASE \E c \in Candidates : Return(c)
    <3>1. PICK c \in Candidates : Return(c)
      BY <2>3
    <3>2. hashed[c] \in named /\ named' = named /\ promised' = promised \cup {hashed[c]} /\ hashed[c] \in Names
      BY <1>2, <3>1 DEF IInv, TypeOK, KeptInv, Return
    <3>3. Map!Promise(hashed[c])
      BY <2>1, <3>2 DEF Map!Promise
    <3>4. QED
      BY <3>2, <3>3 DEF Map!Next
  <2>4. CASE PowerLoss
    <3>1. named' \subseteq named /\ promised' = promised
      BY <2>4 DEF PowerLoss
    <3>2. promised' \subseteq named'
      BY <1>2 DEF IInv, TypeOK, KeptInv
    <3>3. Map!PowerLoss
      BY <2>1, <3>1, <3>2 DEF Map!PowerLoss
    <3>4. QED
      BY <3>3 DEF Map!Next
  <2>5. CASE entry' = entry /\ promised' = promised
    BY <2>1, <2>5
  <2>6. \/ \E c \in Candidates : Link(c)
        \/ \E c \in Candidates : Return(c)
        \/ PowerLoss
        \/ entry' = entry /\ promised' = promised
    BY <1>2 DEF Next, vars, store, object, Mkdir, SyncParent, Begin, Write, RunWrite, PublishPoisoned, Publish,
      Drained, PublishFails, SyncFile, Scan, Compare, SyncDirectory, Abort, AbortDrained, Damage, Die,
      StartLoad, VerifyLoad, LoadRange, EndLoad, ForgetLoad
  <2>7. QED
    BY <2>2, <2>3, <2>4, <2>5, <2>6
<1>3. QED
  BY <1>1, <1>2, Inductive, PTL DEF Spec, ImplementsContentMap, Map!Spec

-----------------------------------------------------------------------------
(* Files that are written and edited. *)

\* What follows the preparation of a call, up to its publication; the steps in
\* which there is a temporary file, and those in which it is complete.
Looked == {"create", "source", "fill", "chmod", "recheck", "rehash", "publish"}
Undoing == {"recheck_undo", "rehash_undo", "remove"}
Unpublished == {"lstat", "inspect"} \cup Looked \cup Undoing
Whole == {"recheck", "rehash", "publish"}
Making == {"source", "fill", "chmod"} \cup Whole

Made(i) == inodes[i].content.made

\* Inodes are numbered without a gap, and every name is of one of them.
InodeInv ==
  /\ Cardinality(DOMAIN inodes) \in Nat
  /\ DOMAIN inodes = 1..Cardinality(DOMAIN inodes)
  /\ \A i \in DOMAIN inodes : inodes[i] = [content |-> inodes[i].content, mode |-> inodes[i].mode,
                                           links |-> inodes[i].links]
  /\ target \in DOMAIN inodes \cup {0} /\ beside \in DOMAIN inodes \cup {0}
  /\ fd \in DOMAIN inodes \cup {0}

\* The types that no inode has a part in.
PlainInv ==
  /\ tool \in {"write", "edit"}
  /\ outcome \in Writes!Settled \cup {"none", "crashed", "indeterminate", "observed_invalid", "observed_io_error"}
  /\ at_file \in Unpublished \cup {"unlink", "sync", "done"}
  /\ touches \in 0..MaxTouches /\ late \in BOOLEAN /\ published \in BOOLEAN
  /\ failure \in {"none", "io_error", "target_changed"}

\* What a step of the call says of its past.
StepInv ==
  /\ at_file \in Unpublished => ~published
  /\ at_file \in {"unlink", "sync"} => published
  /\ outcome \in Writes!Settled => at_file = "done"
  /\ at_file \in Undoing => failure \in {"io_error", "target_changed"}
  /\ failure = "target_changed" => touches > 0
  /\ at_file \in {"lstat", "inspect", "create", "sync"} => beside = 0
  /\ at_file \in Making \cup {"unlink"} => beside # 0
  /\ at_file \in {"lstat", "unlink"} => guard.ino = 0
  /\ target # 0 /\ target = beside => published /\ guard.ino = 0

\* Before publication the call has written into its temporary file only, and
\* what it has edited at all is what the guard has seen.
ContentInv ==
  /\ \A i \in DOMAIN inodes : Made(i) # "by_others" => published \/ i = beside \/ at_file = "done"
  /\ \A i \in DOMAIN inodes : Made(i) = "by_edit" => inodes[i].content = Writes!Edited(guard.content)
  /\ \A i \in DOMAIN inodes : Made(i) = "by_edit" => at_file \notin {"lstat", "inspect"}
  /\ target # 0 => inodes[target].content # Writes!Partial
  /\ target # 0 /\ ~published => Made(target) = "by_others"
  /\ at_file \in Whole \cup {"chmod"} => inodes[beside].content # Writes!Partial
  /\ at_file \in Whole => inodes[beside].mode = Writes!DesiredMode

\* As long as nobody else has touched the target it is what the guard has seen,
\* before publication by its inode, after it by its mode.
QuietInv ==
  touches = 0 =>
    /\ at_file = "inspect" => before.ino # 0 /\ before = Writes!Seen(target) /\ inodes[target].links = 1
    /\ at_file \in Looked => guard.ino = target
    /\ at_file \in Looked /\ target # 0 => guard = Writes!Seen(target) /\ inodes[target].links = 1
    /\ at_file \in Looked /\ tool = "edit" => target # 0
    /\ at_file = "source" => tool = "edit"
    /\ at_file = "fill" /\ tool = "edit" => fd = target
    /\ at_file = "rehash" => fd = target /\ target # 0
    /\ published /\ target # 0 => inodes[target].mode = Writes!DesiredMode

\* Between the last look and the replacement the target is what was looked at,
\* or has been changed since.
LateInv ==
  /\ at_file = "rehash" => guard.ino # 0
  /\ at_file = "publish" /\ guard.ino # 0 /\ target # 0 /\ ~late =>
       inodes[target].content = guard.content /\ inodes[target].mode = guard.mode
  /\ lost # {} => published /\ guard.ino # 0
  /\ Writes!OnlyLateChangesAreLost

FileInv == PlainInv /\ InodeInv /\ StepInv /\ ContentInv /\ QuietInv /\ LateInv /\ Writes!SettledLeavesNothing

-----------------------------------------------------------------------------
(* Contents and inodes. *)

\* The contents there can be, told apart by who made them.
LEMMA ContentsDiffer ==
  /\ \A c : Writes!Text(c).made = "by_others" /\ Writes!Text(c) # Writes!Partial
  /\ \A x : Writes!Edited(x).made # "by_others" /\ Writes!Edited(x) # Writes!Partial
  /\ Writes!Partial.made = "by_call" /\ Writes!Written.made = "by_call" /\ Writes!Written # Writes!Partial
<1>1. \A c : Writes!Text(c).made = "by_others"
  BY DEF Writes!Text
<1>2. \A x : Writes!Edited(x).made \in {"by_edit", "twice"}
  BY DEF Writes!Edited
<1>3. Writes!Partial.made = "by_call" /\ Writes!Written.made = "by_call"
  BY DEF Writes!Partial, Writes!Written
<1>4. Writes!Written # Writes!Partial
  <2>1. Writes!Written.text = "written" /\ Writes!Partial.text = "partial"
    BY DEF Writes!Partial, Writes!Written
  <2>2. QED
    BY <2>1
<1>5. QED
  BY <1>1, <1>2, <1>3, <1>4

\* A new inode is one there was not, and the numbers stay without a gap.
LEMMA NewInode ==
  ASSUME InodeInv, NEW inode,
         inodes' = Writes!With(Writes!Fresh, inode)
  PROVE  /\ Writes!Fresh \notin DOMAIN inodes /\ Writes!Fresh # 0
         /\ DOMAIN inodes' = DOMAIN inodes \cup {Writes!Fresh}
         /\ inodes'[Writes!Fresh] = inode
         /\ \A i \in DOMAIN inodes : inodes'[i] = inodes[i]
         /\ Cardinality(DOMAIN inodes') \in Nat
         /\ DOMAIN inodes' = 1..Cardinality(DOMAIN inodes')
<1> DEFINE n == Cardinality(DOMAIN inodes)
<1>1. n \in Nat /\ DOMAIN inodes = 1..n
  BY DEF InodeInv
<1>2. Writes!Fresh = n + 1
  BY DEF Writes!Fresh, Writes!Cardinality, Cardinality
<1> HIDE DEF n
<1>3. Writes!Fresh \notin DOMAIN inodes /\ Writes!Fresh # 0
  BY <1>1, <1>2
<1>4. DOMAIN inodes' = DOMAIN inodes \cup {Writes!Fresh}
  BY DEF Writes!With
<1>5. DOMAIN inodes' = 1..(n + 1)
  <2>1. 1..(n + 1) = (1..n) \cup {n + 1}
    BY <1>1
  <2>2. QED
    BY <1>1, <1>2, <1>4, <2>1
<1>6. Cardinality(DOMAIN inodes') = n + 1
  <2>1. Cardinality(1..(n + 1)) = n + 1
    BY <1>1, FS_Interval
  <2>2. QED
    BY <1>5, <2>1
<1>7. inodes'[Writes!Fresh] = inode
  BY DEF Writes!With
<1>8. \A i \in DOMAIN inodes : inodes'[i] = inodes[i]
  BY <1>3 DEF Writes!With
<1>9. QED
  <2>1. n + 1 \in Nat /\ DOMAIN inodes' = 1..Cardinality(DOMAIN inodes')
    BY <1>1, <1>5, <1>6
  <2>2. QED
    BY <1>3, <1>4, <1>6, <1>7, <1>8, <2>1

\* The form of InodeInv when the inodes there are stay the same.
LEMMA SameInodes ==
  ASSUME InodeInv, DOMAIN inodes' = DOMAIN inodes
  PROVE  /\ Cardinality(DOMAIN inodes') \in Nat
         /\ DOMAIN inodes' = 1..Cardinality(DOMAIN inodes')
BY DEF InodeInv

\* One field of one inode is changed, and nothing else.
LEMMA ContentChange ==
  ASSUME InodeInv, NEW i \in DOMAIN inodes, NEW c,
         inodes' = [inodes EXCEPT ![i].content = c]
  PROVE  /\ DOMAIN inodes' = DOMAIN inodes
         /\ inodes'[i] = [content |-> c, mode |-> inodes[i].mode, links |-> inodes[i].links]
         /\ \A j \in DOMAIN inodes \ {i} : inodes'[j] = inodes[j]
BY DEF InodeInv

LEMMA ModeChange ==
  ASSUME InodeInv, NEW i \in DOMAIN inodes, NEW m,
         inodes' = [inodes EXCEPT ![i].mode = m]
  PROVE  /\ DOMAIN inodes' = DOMAIN inodes
         /\ inodes'[i] = [content |-> inodes[i].content, mode |-> m, links |-> inodes[i].links]
         /\ \A j \in DOMAIN inodes \ {i} : inodes'[j] = inodes[j]
BY DEF InodeInv

LEMMA LinksChange ==
  ASSUME InodeInv, NEW i \in DOMAIN inodes, NEW l,
         inodes' = [inodes EXCEPT ![i].links = l]
  PROVE  /\ DOMAIN inodes' = DOMAIN inodes
         /\ inodes'[i] = [content |-> inodes[i].content, mode |-> inodes[i].mode, links |-> l]
         /\ \A j \in DOMAIN inodes \ {i} : inodes'[j] = inodes[j]
BY DEF InodeInv

-----------------------------------------------------------------------------
(* What an action does to the inodes, said once. *)

\* What another program may have done to the inodes: the one the target's path
\* names has come new, or has got other contents, mode or links; no other one
\* has changed.
Disturbed ==
  /\ Cardinality(DOMAIN inodes') \in Nat
  /\ DOMAIN inodes' = 1..Cardinality(DOMAIN inodes')
  /\ DOMAIN inodes \subseteq DOMAIN inodes'
  /\ \A i \in DOMAIN inodes' : inodes'[i] = [content |-> inodes'[i].content,
                               mode |-> inodes'[i].mode, links |-> inodes'[i].links]
  /\ target' \in DOMAIN inodes' \cup {0}
  /\ target' # 0 => target' = target \/ target' \notin DOMAIN inodes
  /\ \A i \in DOMAIN inodes' \ {target'} : i \in DOMAIN inodes /\ inodes'[i] = inodes[i]
  /\ target' # 0 =>
       \/ inodes'[target'].content.made = "by_others" /\ inodes'[target'].content # Writes!Partial
       \/ target' = target /\ inodes'[target'].content = inodes[target].content

\* Another program writes, replaces, deletes, or changes mode or links.
LEMMA OthersDisturb ==
  ASSUME InodeInv, Writes!Others
  PROVE  Writes!Touched /\ Disturbed
<1>0. \A i \in DOMAIN inodes : i # 0
  BY DEF InodeInv
<1>1. ASSUME NEW c \in Contents, Writes!WriteInPlace(c)
      PROVE  Writes!Touched /\ Disturbed
  <2>1. target \in DOMAIN inodes /\ target' = target /\ Writes!Touched
    BY <1>1 DEF Writes!WriteInPlace, InodeInv
  <2>2. inodes' = [inodes EXCEPT ![target].content = Writes!Text(c)]
    BY <1>1 DEF Writes!WriteInPlace
  <2>3. /\ DOMAIN inodes' = DOMAIN inodes
        /\ inodes'[target] = [content |-> Writes!Text(c), mode |-> inodes[target].mode,
                              links |-> inodes[target].links]
        /\ \A j \in DOMAIN inodes \ {target} : inodes'[j] = inodes[j]
    BY <2>1, <2>2, ContentChange
  <2>4. QED
    BY <2>1, <2>3, SameInodes, ContentsDiffer DEF Disturbed, InodeInv
<1>2. ASSUME NEW c \in Contents, NEW m \in Modes, Writes!ReplaceBy(c, m)
      PROVE  Writes!Touched /\ Disturbed
  <2>1. target' = Writes!Fresh /\ Writes!Touched
    BY <1>2 DEF Writes!ReplaceBy
  <2>2. inodes' = Writes!With(Writes!Fresh, Writes!File(Writes!Text(c), m))
    BY <1>2 DEF Writes!ReplaceBy
  <2> DEFINE inode == Writes!File(Writes!Text(c), m)
  <2>3. inode = [content |-> inode.content, mode |-> inode.mode, links |-> inode.links]
        /\ inode.content = Writes!Text(c)
    BY DEF Writes!File
  <2>4. inodes' = Writes!With(Writes!Fresh, inode)
    BY <2>2
  <2> HIDE DEF inode
  <2>5. /\ Writes!Fresh \notin DOMAIN inodes /\ Writes!Fresh # 0
        /\ DOMAIN inodes' = DOMAIN inodes \cup {Writes!Fresh}
        /\ inodes'[Writes!Fresh] = inode
        /\ \A i \in DOMAIN inodes : inodes'[i] = inodes[i]
        /\ Cardinality(DOMAIN inodes') \in Nat
        /\ DOMAIN inodes' = 1..Cardinality(DOMAIN inodes')
    BY <2>4, NewInode
  <2>6. QED
    BY <2>1, <2>3, <2>5, ContentsDiffer DEF Disturbed, InodeInv
<1>3. ASSUME Writes!Delete
      PROVE  Writes!Touched /\ Disturbed
  BY <1>3 DEF Writes!Delete, Disturbed, InodeInv
<1>4. ASSUME Writes!HardLink
      PROVE  Writes!Touched /\ Disturbed
  <2>1. target \in DOMAIN inodes /\ target' = target /\ Writes!Touched
    BY <1>4 DEF Writes!HardLink, InodeInv
  <2>2. inodes' = [inodes EXCEPT ![target].links = inodes[target].links + 1]
    BY <1>4 DEF Writes!HardLink
  <2>3. /\ DOMAIN inodes' = DOMAIN inodes
        /\ inodes'[target] = [content |-> inodes[target].content, mode |-> inodes[target].mode,
                              links |-> inodes[target].links + 1]
        /\ \A j \in DOMAIN inodes \ {target} : inodes'[j] = inodes[j]
    BY <2>1, <2>2, LinksChange
  <2>4. QED
    BY <2>1, <2>3, SameInodes DEF Disturbed, InodeInv
<1>5. ASSUME NEW m \in Modes, Writes!Chmod(m)
      PROVE  Writes!Touched /\ Disturbed
  <2>1. target \in DOMAIN inodes /\ target' = target /\ Writes!Touched
    BY <1>5 DEF Writes!Chmod, InodeInv
  <2>2. inodes' = [inodes EXCEPT ![target].mode = m]
    BY <1>5 DEF Writes!Chmod
  <2>3. /\ DOMAIN inodes' = DOMAIN inodes
        /\ inodes'[target] = [content |-> inodes[target].content, mode |-> m,
                              links |-> inodes[target].links]
        /\ \A j \in DOMAIN inodes \ {target} : inodes'[j] = inodes[j]
    BY <2>1, <2>2, ModeChange
  <2>4. QED
    BY <2>1, <2>3, SameInodes DEF Disturbed, InodeInv
<1>6. QED
  BY <1>1, <1>2, <1>3, <1>4, <1>5 DEF Writes!Others

-----------------------------------------------------------------------------
(* What the call itself does to the inodes. *)

\* The call leaves the inodes alone, makes its temporary file, or changes it.
CallDoes ==
  /\ Cardinality(DOMAIN inodes') \in Nat
  /\ DOMAIN inodes' = 1..Cardinality(DOMAIN inodes')
  /\ DOMAIN inodes \subseteq DOMAIN inodes'
  /\ \A i \in DOMAIN inodes' : inodes'[i] = [content |-> inodes'[i].content,
                               mode |-> inodes'[i].mode, links |-> inodes'[i].links]
  /\ \A i \in DOMAIN inodes' \ {beside, beside'} : i \in DOMAIN inodes /\ inodes'[i] = inodes[i]
  /\ beside' \in DOMAIN inodes' \cup {0}

LEMMA SameCallDoes ==
  ASSUME InodeInv, inodes' = inodes, beside' \in {beside, 0}
  PROVE  CallDoes
BY DEF InodeInv, CallDoes

LEMMA CreateTempMakes ==
  ASSUME InodeInv, Writes!CreateTemp
  PROVE  /\ CallDoes
         /\ beside' \notin DOMAIN inodes /\ beside' # 0
         /\ inodes'[beside'] = Writes!File(Writes!Partial, NewMode)
         /\ \A i \in DOMAIN inodes : inodes'[i] = inodes[i]
<1> DEFINE inode == Writes!File(Writes!Partial, NewMode)
<1>1. inodes' = Writes!With(Writes!Fresh, inode) /\ beside' = Writes!Fresh
  BY DEF Writes!CreateTemp
<1>2. inode = [content |-> inode.content, mode |-> inode.mode, links |-> inode.links]
  BY DEF Writes!File
<1> HIDE DEF inode
<1>3. /\ Writes!Fresh \notin DOMAIN inodes /\ Writes!Fresh # 0
      /\ DOMAIN inodes' = DOMAIN inodes \cup {Writes!Fresh}
      /\ inodes'[Writes!Fresh] = inode
      /\ \A i \in DOMAIN inodes : inodes'[i] = inodes[i]
      /\ Cardinality(DOMAIN inodes') \in Nat
      /\ DOMAIN inodes' = 1..Cardinality(DOMAIN inodes')
  BY <1>1, NewInode
<1>4. CallDoes
  BY <1>1, <1>2, <1>3 DEF CallDoes, InodeInv
<1>5. QED
  BY <1>1, <1>3, <1>4 DEF inode

\* What is written into the temporary file changes nothing but its contents.
LEMMA FillingFills ==
  ASSUME InodeInv, beside # 0, beside' = beside, NEW c, Writes!Filling(c)
  PROVE  CallDoes /\ inodes'[beside].content = c
<1>1. beside \in DOMAIN inodes /\ inodes' = [inodes EXCEPT ![beside].content = c]
  BY DEF InodeInv, Writes!Filling
<1>2. /\ DOMAIN inodes' = DOMAIN inodes
      /\ inodes'[beside] = [content |-> c, mode |-> inodes[beside].mode, links |-> inodes[beside].links]
      /\ \A j \in DOMAIN inodes \ {beside} : inodes'[j] = inodes[j]
  BY <1>1, ContentChange
<1>3. QED
  BY <1>1, <1>2, SameInodes DEF CallDoes, InodeInv

LEMMA ChmodTempSets ==
  ASSUME InodeInv, beside # 0, Writes!ChmodTemp
  PROVE  /\ CallDoes /\ inodes'[beside].mode = Writes!DesiredMode
         /\ inodes'[beside].content = inodes[beside].content
<1>1. beside \in DOMAIN inodes /\ inodes' = [inodes EXCEPT ![beside].mode = Writes!DesiredMode] /\ beside' = beside
  BY DEF InodeInv, Writes!ChmodTemp
<1>2. /\ DOMAIN inodes' = DOMAIN inodes
      /\ inodes'[beside] = [content |-> inodes[beside].content, mode |-> Writes!DesiredMode,
                          links |-> inodes[beside].links]
      /\ \A j \in DOMAIN inodes \ {beside} : inodes'[j] = inodes[j]
  BY <1>1, ModeChange
<1>3. QED
  BY <1>1, <1>2, SameInodes DEF CallDoes, InodeInv

LEMMA LinkNewLinks ==
  ASSUME InodeInv, beside # 0, Writes!LinkNew, target = 0
  PROVE  /\ CallDoes /\ inodes'[beside].mode = inodes[beside].mode
         /\ inodes'[beside].content = inodes[beside].content
<1>1. beside \in DOMAIN inodes /\ inodes' = [inodes EXCEPT ![beside].links = 2] /\ beside' = beside
  BY DEF InodeInv, Writes!LinkNew
<1>2. /\ DOMAIN inodes' = DOMAIN inodes
      /\ inodes'[beside] = [content |-> inodes[beside].content, mode |-> inodes[beside].mode, links |-> 2]
      /\ \A j \in DOMAIN inodes \ {beside} : inodes'[j] = inodes[j]
  BY <1>1, LinksChange
<1>3. QED
  BY <1>1, <1>2, SameInodes DEF CallDoes, InodeInv

LEMMA UnlinkTempUnlinks ==
  ASSUME InodeInv, beside # 0, Writes!UnlinkTemp
  PROVE  /\ CallDoes /\ inodes'[beside].mode = inodes[beside].mode
         /\ inodes'[beside].content = inodes[beside].content
<1>1. /\ beside \in DOMAIN inodes /\ beside' = 0
      /\ inodes' = [inodes EXCEPT ![beside].links = inodes[beside].links - 1]
  BY DEF InodeInv, Writes!UnlinkTemp
<1>2. /\ DOMAIN inodes' = DOMAIN inodes
      /\ inodes'[beside] = [content |-> inodes[beside].content, mode |-> inodes[beside].mode,
                          links |-> inodes[beside].links - 1]
      /\ \A j \in DOMAIN inodes \ {beside} : inodes'[j] = inodes[j]
  BY <1>1, LinksChange
<1>3. QED
  BY <1>1, <1>2, SameInodes DEF CallDoes, InodeInv

-----------------------------------------------------------------------------
(* As long as nobody else has touched the target, it is found unchanged. *)

\* The look by the path finds what the guard has seen.
LEMMA QuietIsFound ==
  ASSUME FileInv, touches = 0, at_file \in Looked
  PROVE  /\ target # 0 => Writes!SameStat(target, guard) /\ Writes!SameFile(target, guard)
         /\ Writes!Found # "changed"
         /\ Writes!Found = "same" => target = 0
<1>1. guard.ino = target
  BY DEF FileInv, QuietInv
<1>2. ASSUME target # 0
      PROVE  Writes!SameStat(target, guard) /\ inodes[target].content = guard.content
  <2>1. guard = Writes!Seen(target) /\ inodes[target].links = 1
    BY <1>2 DEF FileInv, QuietInv
  <2>2. guard.content = inodes[target].content /\ guard.mode = inodes[target].mode
    BY <2>1 DEF Writes!Seen
  <2>3. QED
    BY <1>1, <1>2, <2>1, <2>2 DEF Writes!SameStat, Writes!Links
<1>3. QED
  BY <1>1, <1>2 DEF Writes!SameFile, Writes!Found

-----------------------------------------------------------------------------
(* Every step keeps the inductive invariant, one part at a time. *)

\* The types that no inode has a part in.
LEMMA FilePlainKept ==
  ASSUME Writes!SizeAssumption, FileInv, Writes!Next
  PROVE  PlainInv'
<1>i. PlainInv /\ InodeInv /\ StepInv /\ ContentInv /\ QuietInv /\ LateInv /\ Writes!SettledLeavesNothing
  BY DEF FileInv
<1>1. CASE Writes!Lstat
  BY <1>i, <1>1 DEF Writes!Lstat, Writes!Answer, PlainInv, StepInv, Writes!SizeAssumption,
       Unpublished, Looked, Undoing, Making, Whole, Writes!Mutating, Writes!Settled
<1>2. CASE Writes!Inspect
  BY <1>i, <1>2 DEF Writes!Inspect, Writes!Answer, PlainInv, StepInv, Writes!SizeAssumption,
       Unpublished, Looked, Undoing, Making, Whole, Writes!Mutating, Writes!Settled
<1>3. CASE Writes!CreateTemp
  BY <1>i, <1>3 DEF Writes!CreateTemp, PlainInv, StepInv, Writes!SizeAssumption, Unpublished,
       Looked, Undoing, Making, Whole, Writes!Mutating, Writes!Settled
<1>4. CASE Writes!OpenSource
  BY <1>i, <1>4 DEF Writes!OpenSource, Writes!Undo, PlainInv, StepInv, Writes!SizeAssumption,
       Unpublished, Looked, Undoing, Making, Whole, Writes!Mutating, Writes!Settled
<1>5. CASE Writes!Fill
  BY <1>i, <1>5 DEF Writes!Fill, Writes!Filling, Writes!Unmoved, Writes!Undo, PlainInv, StepInv,
       Writes!SizeAssumption, Unpublished, Looked, Undoing, Making, Whole, Writes!Mutating,
       Writes!Settled
<1>6. CASE Writes!ChmodTemp
  BY <1>i, <1>6 DEF Writes!ChmodTemp, PlainInv, StepInv, Writes!SizeAssumption, Unpublished,
       Looked, Undoing, Making, Whole, Writes!Mutating, Writes!Settled
<1>7. CASE Writes!Recheck
  BY <1>i, <1>7 DEF Writes!Recheck, Writes!Undo, PlainInv, StepInv, Writes!SizeAssumption,
       Unpublished, Looked, Undoing, Making, Whole, Writes!Mutating, Writes!Settled
<1>8. CASE Writes!Rehash
  BY <1>i, <1>8 DEF Writes!Rehash, Writes!Undo, PlainInv, StepInv, Writes!SizeAssumption,
       Unpublished, Looked, Undoing, Making, Whole, Writes!Mutating, Writes!Settled
<1>9. CASE Writes!LinkNew
  BY <1>i, <1>9 DEF Writes!LinkNew, Writes!Undo, PlainInv, StepInv, Writes!SizeAssumption,
       Unpublished, Looked, Undoing, Making, Whole, Writes!Mutating, Writes!Settled
<1>10. CASE Writes!UnlinkTemp
  BY <1>i, <1>10 DEF Writes!UnlinkTemp, PlainInv, StepInv, Writes!SizeAssumption, Unpublished,
       Looked, Undoing, Making, Whole, Writes!Mutating, Writes!Settled
<1>11. CASE Writes!Rename
  BY <1>i, <1>11 DEF Writes!Rename, PlainInv, StepInv, Writes!SizeAssumption, Unpublished, Looked,
       Undoing, Making, Whole, Writes!Mutating, Writes!Settled
<1>12. CASE Writes!SyncParent
  BY <1>i, <1>12 DEF Writes!SyncParent, Writes!Answer, Writes!Kept, PlainInv, StepInv,
       Writes!SizeAssumption, Unpublished, Looked, Undoing, Making, Whole, Writes!Mutating,
       Writes!Settled
<1>13. CASE Writes!RecheckUndo
  BY <1>i, <1>13 DEF Writes!RecheckUndo, Writes!Verdict, Writes!Answer, PlainInv, StepInv,
       Writes!SizeAssumption, Unpublished, Looked, Undoing, Making, Whole, Writes!Mutating,
       Writes!Settled
<1>14. CASE Writes!RehashUndo
  BY <1>i, <1>14 DEF Writes!RehashUndo, Writes!Verdict, Writes!Answer, Writes!Kept, PlainInv,
       StepInv, Writes!SizeAssumption, Unpublished, Looked, Undoing, Making, Whole,
       Writes!Mutating, Writes!Settled
<1>15. CASE Writes!Remove
  BY <1>i, <1>15 DEF Writes!Remove, Writes!Answer, PlainInv, StepInv, Writes!SizeAssumption,
       Unpublished, Looked, Undoing, Making, Whole, Writes!Mutating, Writes!Settled
<1>16. CASE Writes!PreflightRefuses
  BY <1>i, <1>16 DEF Writes!PreflightRefuses, Writes!Answer, Writes!Kept, PlainInv, StepInv,
       Writes!SizeAssumption, Unpublished, Looked, Undoing, Making, Whole, Writes!Mutating,
       Writes!Settled
<1>17. CASE Writes!CallFails
  BY <1>i, <1>17 DEF Writes!CallFails, Writes!Answer, Writes!Kept, Writes!Undo, PlainInv, StepInv,
       Writes!SizeAssumption, Unpublished, Looked, Undoing, Making, Whole, Writes!Mutating,
       Writes!Settled
<1>18. CASE Writes!UndoFails
  BY <1>i, <1>18 DEF Writes!UndoFails, Writes!Answer, Writes!Kept, PlainInv, StepInv,
       Writes!SizeAssumption, Unpublished, Looked, Undoing, Making, Whole, Writes!Mutating,
       Writes!Settled
<1>19. CASE Writes!Crash
  BY <1>i, <1>19 DEF Writes!Crash, Writes!Answer, Writes!Kept, PlainInv, StepInv,
       Writes!SizeAssumption, Unpublished, Looked, Undoing, Making, Whole, Writes!Mutating,
       Writes!Settled
<1>20. CASE Writes!Others
  BY <1>i, <1>20, OthersDisturb DEF Disturbed, Writes!Touched, PlainInv, StepInv,
       Writes!SizeAssumption, Unpublished, Looked, Undoing, Making, Whole, Writes!Mutating,
       Writes!Settled
<1>21. QED
  BY <1>1, <1>2, <1>3, <1>4, <1>5, <1>6, <1>7, <1>8, <1>9, <1>10, <1>11, <1>12, <1>13, <1>14,
       <1>15, <1>16, <1>17, <1>18, <1>19, <1>20 DEF Writes!Next, Writes!Step

\* What a step of the call says of its past.
LEMMA StepKept ==
  ASSUME Writes!SizeAssumption, FileInv, Writes!Next
  PROVE  StepInv'
<1>i. PlainInv /\ InodeInv /\ StepInv /\ ContentInv /\ QuietInv /\ LateInv /\ Writes!SettledLeavesNothing
  BY DEF FileInv
<1>1. CASE Writes!Lstat
  BY <1>i, <1>1 DEF Writes!Lstat, Writes!Answer, StepInv, PlainInv, Unpublished, Looked, Undoing,
       Making, Whole, Writes!Mutating, Writes!Settled
<1>2. CASE Writes!Inspect
  BY <1>i, <1>2 DEF Writes!Inspect, Writes!Answer, StepInv, PlainInv, Unpublished, Looked,
       Undoing, Making, Whole, Writes!Mutating, Writes!Settled
<1>3. CASE Writes!CreateTemp
  <2>1. beside' # 0 /\ beside' \notin DOMAIN inodes
    BY <1>i, <1>3, CreateTempMakes
  <2>2. QED
    BY <1>i, <1>3, <2>1 DEF Writes!CreateTemp, InodeInv, StepInv, PlainInv, Unpublished, Looked,
         Undoing, Making, Whole, Writes!Mutating, Writes!Settled
<1>4. CASE Writes!OpenSource
  <2>1. touches = 0 => Writes!SameStat(target, guard)
    BY <1>i, <1>4, QuietIsFound DEF Writes!OpenSource, QuietInv, Looked
  <2>2. touches \in Nat
    BY <1>i DEF PlainInv, Writes!SizeAssumption
  <2>3. QED
    BY <1>i, <1>4, <2>1, <2>2 DEF Writes!OpenSource, Writes!Undo, StepInv, PlainInv, Unpublished,
         Looked, Undoing, Making, Whole, Writes!Mutating, Writes!Settled
<1>5. CASE Writes!Fill
  <2>1. touches = 0 /\ tool # "write" => inodes[fd].content = guard.content
    <3>1. touches = 0 /\ tool # "write" => fd = target /\ target # 0
      BY <1>i, <1>5 DEF Writes!Fill, QuietInv, PlainInv, Looked
    <3>2. QED
      BY <1>i, <1>5, <3>1, QuietIsFound DEF Writes!Fill, Writes!SameFile, Looked
  <2>2. touches \in Nat
    BY <1>i DEF PlainInv, Writes!SizeAssumption
  <2>3. QED
    BY <1>i, <1>5, <2>1, <2>2 DEF Writes!Fill, Writes!Filling, Writes!Unmoved, Writes!Undo,
         StepInv, PlainInv, Unpublished, Looked, Undoing, Making, Whole, Writes!Mutating,
         Writes!Settled
<1>6. CASE Writes!ChmodTemp
  BY <1>i, <1>6 DEF Writes!ChmodTemp, StepInv, PlainInv, Unpublished, Looked, Undoing, Making,
       Whole, Writes!Mutating, Writes!Settled
<1>7. CASE Writes!Recheck
  <2>1. touches = 0 => Writes!Found # "changed"
    BY <1>i, <1>7, QuietIsFound DEF Writes!Recheck, Looked
  <2>2. touches \in Nat
    BY <1>i DEF PlainInv, Writes!SizeAssumption
  <2>3. QED
    BY <1>i, <1>7, <2>1, <2>2 DEF Writes!Recheck, Writes!Undo, StepInv, PlainInv, Unpublished,
         Looked, Undoing, Making, Whole, Writes!Mutating, Writes!Settled
<1>8. CASE Writes!Rehash
  <2>1. touches = 0 => Writes!SameFile(fd, guard)
    BY <1>i, <1>8, QuietIsFound DEF Writes!Rehash, QuietInv, Looked
  <2>2. touches \in Nat
    BY <1>i DEF PlainInv, Writes!SizeAssumption
  <2>3. QED
    BY <1>i, <1>8, <2>1, <2>2 DEF Writes!Rehash, Writes!Undo, StepInv, PlainInv, Unpublished,
         Looked, Undoing, Making, Whole, Writes!Mutating, Writes!Settled
<1>9. CASE Writes!LinkNew
  BY <1>i, <1>9 DEF Writes!LinkNew, Writes!Undo, StepInv, PlainInv, Unpublished, Looked, Undoing,
       Making, Whole, Writes!Mutating, Writes!Settled
<1>10. CASE Writes!UnlinkTemp
  BY <1>i, <1>10 DEF Writes!UnlinkTemp, StepInv, PlainInv, Unpublished, Looked, Undoing, Making,
       Whole, Writes!Mutating, Writes!Settled
<1>11. CASE Writes!Rename
  BY <1>i, <1>11 DEF Writes!Rename, StepInv, PlainInv, Unpublished, Looked, Undoing, Making,
       Whole, Writes!Mutating, Writes!Settled
<1>12. CASE Writes!SyncParent
  BY <1>i, <1>12 DEF Writes!SyncParent, Writes!Answer, Writes!Kept, StepInv, PlainInv,
       Unpublished, Looked, Undoing, Making, Whole, Writes!Mutating, Writes!Settled
<1>13. CASE Writes!RecheckUndo
  BY <1>i, <1>13 DEF Writes!RecheckUndo, Writes!Verdict, Writes!Answer, StepInv, PlainInv,
       Unpublished, Looked, Undoing, Making, Whole, Writes!Mutating, Writes!Settled
<1>14. CASE Writes!RehashUndo
  BY <1>i, <1>14 DEF Writes!RehashUndo, Writes!Verdict, Writes!Answer, Writes!Kept, StepInv,
       PlainInv, Unpublished, Looked, Undoing, Making, Whole, Writes!Mutating, Writes!Settled
<1>15. CASE Writes!Remove
  BY <1>i, <1>15 DEF Writes!Remove, Writes!Answer, StepInv, PlainInv, Unpublished, Looked,
       Undoing, Making, Whole, Writes!Mutating, Writes!Settled
<1>16. CASE Writes!PreflightRefuses
  BY <1>i, <1>16 DEF Writes!PreflightRefuses, Writes!Answer, Writes!Kept, StepInv, PlainInv,
       Unpublished, Looked, Undoing, Making, Whole, Writes!Mutating, Writes!Settled
<1>17. CASE Writes!CallFails
  BY <1>i, <1>17 DEF Writes!CallFails, Writes!Answer, Writes!Kept, Writes!Undo, StepInv, PlainInv,
       Unpublished, Looked, Undoing, Making, Whole, Writes!Mutating, Writes!Settled
<1>18. CASE Writes!UndoFails
  BY <1>i, <1>18 DEF Writes!UndoFails, Writes!Answer, Writes!Kept, StepInv, PlainInv, Unpublished,
       Looked, Undoing, Making, Whole, Writes!Mutating, Writes!Settled
<1>19. CASE Writes!Crash
  BY <1>i, <1>19 DEF Writes!Crash, Writes!Answer, Writes!Kept, StepInv, PlainInv, Unpublished,
       Looked, Undoing, Making, Whole, Writes!Mutating, Writes!Settled
<1>20. CASE Writes!Others
  <2>1. Writes!Touched /\ Disturbed
    BY <1>i, <1>20, OthersDisturb
  <2>2. touches \in Nat
    BY <1>i DEF PlainInv, Writes!SizeAssumption
  <2>3. target' # 0 /\ target' = beside => target' = target
    BY <1>i, <2>1 DEF Disturbed, InodeInv
  <2>4. QED
    BY <1>i, <2>1, <2>2, <2>3 DEF Writes!Touched, StepInv, PlainInv, Unpublished, Looked, Undoing,
         Making, Whole, Writes!Mutating, Writes!Settled
<1>21. QED
  BY <1>1, <1>2, <1>3, <1>4, <1>5, <1>6, <1>7, <1>8, <1>9, <1>10, <1>11, <1>12, <1>13, <1>14,
       <1>15, <1>16, <1>17, <1>18, <1>19, <1>20 DEF Writes!Next, Writes!Step

\* Inodes are numbered without a gap, and every name is of one of them.
LEMMA InodeKept ==
  ASSUME Writes!SizeAssumption, FileInv, Writes!Next
  PROVE  InodeInv'
<1>i. PlainInv /\ InodeInv /\ StepInv /\ ContentInv /\ QuietInv /\ LateInv /\ Writes!SettledLeavesNothing
  BY DEF FileInv
<1>1. CASE Writes!Lstat
  BY <1>i, <1>1 DEF Writes!Lstat, Writes!Answer, InodeInv
<1>2. CASE Writes!Inspect
  BY <1>i, <1>2 DEF Writes!Inspect, Writes!Answer, InodeInv
<1>3. CASE Writes!CreateTemp
  BY <1>i, <1>3, CreateTempMakes DEF Writes!CreateTemp, CallDoes, InodeInv
<1>4. CASE Writes!OpenSource
  BY <1>i, <1>4 DEF Writes!OpenSource, Writes!Undo, InodeInv
<1>5. CASE Writes!Fill
  <2>0. beside # 0
    BY <1>i, <1>5 DEF Writes!Fill, StepInv, Making
  <2>1. CASE Writes!Undo("target_changed")
    BY <1>i, <1>5, <2>1 DEF Writes!Undo, InodeInv
  <2>2. CASE \E c : Writes!Filling(c) /\ Writes!Unmoved
    BY <1>i, <2>0, <2>2, FillingFills DEF Writes!Unmoved, CallDoes, InodeInv
  <2>3. QED
    BY <1>5, <2>1, <2>2 DEF Writes!Fill
<1>6. CASE Writes!ChmodTemp
  <2>1. beside # 0
    BY <1>i, <1>6 DEF Writes!ChmodTemp, StepInv, Making, Whole
  <2>2. QED
    BY <1>i, <1>6, <2>1, ChmodTempSets DEF Writes!ChmodTemp, CallDoes, InodeInv
<1>7. CASE Writes!Recheck
  BY <1>i, <1>7 DEF Writes!Recheck, Writes!Undo, InodeInv
<1>8. CASE Writes!Rehash
  BY <1>i, <1>8 DEF Writes!Rehash, Writes!Undo, InodeInv
<1>9. CASE Writes!LinkNew
  <2>1. beside # 0
    BY <1>i, <1>9 DEF Writes!LinkNew, StepInv, Making, Whole
  <2>2. CASE target # 0
    BY <1>i, <1>9, <2>2 DEF Writes!LinkNew, Writes!Undo, InodeInv
  <2>3. CASE target = 0
    BY <1>i, <1>9, <2>1, <2>3, LinkNewLinks DEF Writes!LinkNew, CallDoes, InodeInv
  <2>4. QED
    BY <2>2, <2>3
<1>10. CASE Writes!UnlinkTemp
  <2>1. beside # 0
    BY <1>i, <1>10 DEF Writes!UnlinkTemp, StepInv, Making, Whole
  <2>2. QED
    BY <1>i, <1>10, <2>1, UnlinkTempUnlinks DEF Writes!UnlinkTemp, CallDoes, InodeInv
<1>11. CASE Writes!Rename
  BY <1>i, <1>11 DEF Writes!Rename, InodeInv
<1>12. CASE Writes!SyncParent
  BY <1>i, <1>12 DEF Writes!SyncParent, Writes!Answer, Writes!Kept, InodeInv
<1>13. CASE Writes!RecheckUndo
  BY <1>i, <1>13 DEF Writes!RecheckUndo, Writes!Verdict, Writes!Answer, InodeInv
<1>14. CASE Writes!RehashUndo
  BY <1>i, <1>14 DEF Writes!RehashUndo, Writes!Verdict, Writes!Answer, Writes!Kept, InodeInv
<1>15. CASE Writes!Remove
  BY <1>i, <1>15 DEF Writes!Remove, Writes!Answer, InodeInv
<1>16. CASE Writes!PreflightRefuses
  BY <1>i, <1>16 DEF Writes!PreflightRefuses, Writes!Answer, Writes!Kept, InodeInv
<1>17. CASE Writes!CallFails
  BY <1>i, <1>17 DEF Writes!CallFails, Writes!Answer, Writes!Kept, Writes!Undo, InodeInv
<1>18. CASE Writes!UndoFails
  BY <1>i, <1>18 DEF Writes!UndoFails, Writes!Answer, Writes!Kept, InodeInv
<1>19. CASE Writes!Crash
  BY <1>i, <1>19 DEF Writes!Crash, Writes!Answer, Writes!Kept, InodeInv
<1>20. CASE Writes!Others
  <2>1. Writes!Touched /\ Disturbed
    BY <1>i, <1>20, OthersDisturb
  <2>2. QED
    BY <1>i, <2>1 DEF Writes!Touched, Disturbed, InodeInv
<1>21. QED
  BY <1>1, <1>2, <1>3, <1>4, <1>5, <1>6, <1>7, <1>8, <1>9, <1>10, <1>11, <1>12, <1>13, <1>14,
       <1>15, <1>16, <1>17, <1>18, <1>19, <1>20 DEF Writes!Next, Writes!Step

\* Before publication the call has written into its temporary file only.
LEMMA ContentKept ==
  ASSUME Writes!SizeAssumption, FileInv, Writes!Next
  PROVE  ContentInv'
<1>i. PlainInv /\ InodeInv /\ StepInv /\ ContentInv /\ QuietInv /\ LateInv /\ Writes!SettledLeavesNothing
  BY DEF FileInv
<1>1. CASE Writes!Lstat
  BY <1>i, <1>1 DEF Writes!Lstat, Writes!Answer, Writes!DesiredMode, StepInv, ContentInv, Made,
       Unpublished, Looked, Undoing, Making, Whole, Writes!Mutating, Writes!Settled
<1>2. CASE Writes!Inspect
  BY <1>i, <1>2, ContentsDiffer DEF Writes!Inspect, Writes!Answer, StepInv, InodeInv, ContentInv,
       Made, Unpublished, Looked, Undoing, Making, Whole, Writes!Mutating, Writes!Settled
<1>3. CASE Writes!CreateTemp
  <2>1. /\ beside' \notin DOMAIN inodes /\ beside' # 0
        /\ inodes'[beside'] = Writes!File(Writes!Partial, NewMode)
        /\ \A i \in DOMAIN inodes : inodes'[i] = inodes[i]
        /\ \A i \in DOMAIN inodes' \ {beside'} : i \in DOMAIN inodes
    BY <1>i, <1>3, CreateTempMakes DEF CallDoes, StepInv, InodeInv, Writes!CreateTemp
  <2>2. inodes'[beside'].content.made = "by_call"
    BY <2>1, ContentsDiffer DEF Writes!File
  <2>3. QED
    BY <1>i, <1>3, <2>1, <2>2 DEF Writes!CreateTemp, StepInv, InodeInv, ContentInv, Made,
         Unpublished, Looked, Undoing, Making, Whole, Writes!Mutating, Writes!Settled
<1>4. CASE Writes!OpenSource
  BY <1>i, <1>4 DEF Writes!OpenSource, Writes!Undo, Writes!DesiredMode, StepInv, ContentInv, Made,
       Unpublished, Looked, Undoing, Making, Whole, Writes!Mutating, Writes!Settled
<1>5. CASE Writes!Fill
  <2>0. at_file = "fill" /\ beside # 0 /\ guard' = guard /\ beside' = beside
    BY <1>i, <1>5 DEF Writes!Fill, StepInv, Making, Writes!Undo, Writes!Unmoved
  <2>1. CASE Writes!Undo("target_changed")
    BY <1>i, <2>0, <2>1 DEF Writes!Undo, StepInv, ContentInv, Made, Unpublished, Looked, Undoing,
         Making, Whole, Writes!Mutating, Writes!Settled
  <2>2. CASE \E c : c \in {Writes!Written, Writes!Edited(guard.content)} /\ Writes!Filling(c) /\ Writes!Unmoved
    <3>1. PICK c \in {Writes!Written, Writes!Edited(guard.content)} : Writes!Filling(c) /\ Writes!Unmoved
      BY <2>2
    <3>2. CallDoes /\ inodes'[beside].content = c
      BY <1>i, <2>0, <3>1, FillingFills
    <3>3. QED
      BY <1>i, <1>5, <2>0, <3>1, <3>2, ContentsDiffer
      DEF Writes!Fill, Writes!Filling, Writes!Unmoved, CallDoes, StepInv, InodeInv, ContentInv,
      Made, Unpublished, Looked, Undoing, Making, Whole, Writes!Mutating, Writes!Settled
  <2>3. QED
    BY <1>5, <2>1, <2>2 DEF Writes!Fill
<1>6. CASE Writes!ChmodTemp
  <2>1. beside # 0
    BY <1>i, <1>6 DEF Writes!ChmodTemp, StepInv, Making, Whole
  <2>2. QED
    BY <1>i, <1>6, <2>1, ChmodTempSets DEF Writes!ChmodTemp, CallDoes, Writes!DesiredMode,
         StepInv, InodeInv, ContentInv, Made, Unpublished, Looked, Undoing, Making, Whole,
         Writes!Mutating, Writes!Settled
<1>7. CASE Writes!Recheck
  BY <1>i, <1>7 DEF Writes!Recheck, Writes!Undo, Writes!DesiredMode, StepInv, ContentInv, Made,
       Unpublished, Looked, Undoing, Making, Whole, Writes!Mutating, Writes!Settled
<1>8. CASE Writes!Rehash
  BY <1>i, <1>8 DEF Writes!Rehash, Writes!Undo, Writes!DesiredMode, StepInv, ContentInv, Made,
       Unpublished, Looked, Undoing, Making, Whole, Writes!Mutating, Writes!Settled
<1>9. CASE Writes!LinkNew
  <2>1. beside # 0
    BY <1>i, <1>9 DEF Writes!LinkNew, StepInv, Making, Whole
  <2>2. CASE target # 0
    BY <1>i, <1>9, <2>2 DEF Writes!LinkNew, Writes!Undo, Writes!DesiredMode, StepInv, ContentInv,
         Made, Unpublished, Looked, Undoing, Making, Whole, Writes!Mutating, Writes!Settled
  <2>3. CASE target = 0
    BY <1>i, <1>9, <2>1, <2>3, LinkNewLinks DEF Writes!LinkNew, CallDoes, StepInv, InodeInv,
         ContentInv, Made, Unpublished, Looked, Undoing, Making, Whole, Writes!Mutating,
         Writes!Settled
  <2>4. QED
    BY <2>2, <2>3
<1>10. CASE Writes!UnlinkTemp
  <2>1. beside # 0
    BY <1>i, <1>10 DEF Writes!UnlinkTemp, StepInv, Making, Whole
  <2>2. QED
    BY <1>i, <1>10, <2>1, UnlinkTempUnlinks DEF Writes!UnlinkTemp, CallDoes, Writes!DesiredMode,
         StepInv, InodeInv, ContentInv, Made, Unpublished, Looked, Undoing, Making, Whole,
         Writes!Mutating, Writes!Settled
<1>11. CASE Writes!Rename
  BY <1>i, <1>11, ContentsDiffer DEF Writes!Rename, StepInv, InodeInv, ContentInv, Made,
       Unpublished, Looked, Undoing, Making, Whole, Writes!Mutating, Writes!Settled
<1>12. CASE Writes!SyncParent
  BY <1>i, <1>12 DEF Writes!SyncParent, Writes!Answer, Writes!Kept, Writes!DesiredMode, StepInv,
       ContentInv, Made, Unpublished, Looked, Undoing, Making, Whole, Writes!Mutating,
       Writes!Settled
<1>13. CASE Writes!RecheckUndo
  BY <1>i, <1>13 DEF Writes!RecheckUndo, Writes!Verdict, Writes!Answer, Writes!DesiredMode,
       StepInv, ContentInv, Made, Unpublished, Looked, Undoing, Making, Whole, Writes!Mutating,
       Writes!Settled
<1>14. CASE Writes!RehashUndo
  BY <1>i, <1>14 DEF Writes!RehashUndo, Writes!Verdict, Writes!Answer, Writes!Kept,
       Writes!DesiredMode, StepInv, ContentInv, Made, Unpublished, Looked, Undoing, Making, Whole,
       Writes!Mutating, Writes!Settled
<1>15. CASE Writes!Remove
  BY <1>i, <1>15 DEF Writes!Remove, Writes!Answer, Writes!DesiredMode, StepInv, ContentInv, Made,
       Unpublished, Looked, Undoing, Making, Whole, Writes!Mutating, Writes!Settled
<1>16. CASE Writes!PreflightRefuses
  BY <1>i, <1>16 DEF Writes!PreflightRefuses, Writes!Answer, Writes!Kept, Writes!DesiredMode,
       StepInv, ContentInv, Made, Unpublished, Looked, Undoing, Making, Whole, Writes!Mutating,
       Writes!Settled
<1>17. CASE Writes!CallFails
  BY <1>i, <1>17 DEF Writes!CallFails, Writes!Answer, Writes!Kept, Writes!Undo,
       Writes!DesiredMode, StepInv, ContentInv, Made, Unpublished, Looked, Undoing, Making, Whole,
       Writes!Mutating, Writes!Settled
<1>18. CASE Writes!UndoFails
  BY <1>i, <1>18 DEF Writes!UndoFails, Writes!Answer, Writes!Kept, Writes!DesiredMode, StepInv,
       ContentInv, Made, Unpublished, Looked, Undoing, Making, Whole, Writes!Mutating,
       Writes!Settled
<1>19. CASE Writes!Crash
  BY <1>i, <1>19 DEF Writes!Crash, Writes!Answer, Writes!Kept, Writes!DesiredMode, StepInv,
       ContentInv, Made, Unpublished, Looked, Undoing, Making, Whole, Writes!Mutating,
       Writes!Settled
<1>20. CASE Writes!Others
  <2>1. Writes!Touched /\ Disturbed
    BY <1>i, <1>20, OthersDisturb
  <2>2. at_file \in Unpublished /\ beside # 0 => beside # target' /\ inodes'[beside] = inodes[beside]
    BY <1>i, <2>1 DEF Disturbed, StepInv, InodeInv
  <2>3. QED
    BY <1>i, <2>1, <2>2, ContentsDiffer DEF Writes!Touched, Disturbed, Writes!DesiredMode,
         StepInv, InodeInv, ContentInv, Made, Unpublished, Looked, Undoing, Making, Whole,
         Writes!Mutating, Writes!Settled
<1>21. QED
  BY <1>1, <1>2, <1>3, <1>4, <1>5, <1>6, <1>7, <1>8, <1>9, <1>10, <1>11, <1>12, <1>13, <1>14,
       <1>15, <1>16, <1>17, <1>18, <1>19, <1>20 DEF Writes!Next, Writes!Step

\* What the call has answered is true.
LEMMA SettledKept ==
  ASSUME Writes!SizeAssumption, FileInv, Writes!Next
  PROVE  Writes!SettledLeavesNothing'
<1>i. PlainInv /\ InodeInv /\ StepInv /\ ContentInv /\ QuietInv /\ LateInv /\ Writes!SettledLeavesNothing
  BY DEF FileInv
<1>1. CASE Writes!Lstat
  BY <1>i, <1>1 DEF Writes!Lstat, Writes!Answer, Writes!SettledLeavesNothing, StepInv, PlainInv,
       Unpublished, Looked, Undoing, Making, Whole, Writes!Mutating, Writes!Settled
<1>2. CASE Writes!Inspect
  BY <1>i, <1>2 DEF Writes!Inspect, Writes!Answer, Writes!SettledLeavesNothing, StepInv, PlainInv,
       Unpublished, Looked, Undoing, Making, Whole, Writes!Mutating, Writes!Settled
<1>3. CASE Writes!CreateTemp
  BY <1>i, <1>3 DEF Writes!CreateTemp, Writes!SettledLeavesNothing, StepInv, PlainInv,
       Unpublished, Looked, Undoing, Making, Whole, Writes!Mutating, Writes!Settled
<1>4. CASE Writes!OpenSource
  BY <1>i, <1>4 DEF Writes!OpenSource, Writes!Undo, Writes!SettledLeavesNothing, StepInv,
       PlainInv, Unpublished, Looked, Undoing, Making, Whole, Writes!Mutating, Writes!Settled
<1>5. CASE Writes!Fill
  BY <1>i, <1>5 DEF Writes!Fill, Writes!Filling, Writes!Unmoved, Writes!Undo,
       Writes!SettledLeavesNothing, StepInv, PlainInv, Unpublished, Looked, Undoing, Making,
       Whole, Writes!Mutating, Writes!Settled
<1>6. CASE Writes!ChmodTemp
  BY <1>i, <1>6 DEF Writes!ChmodTemp, Writes!SettledLeavesNothing, StepInv, PlainInv, Unpublished,
       Looked, Undoing, Making, Whole, Writes!Mutating, Writes!Settled
<1>7. CASE Writes!Recheck
  BY <1>i, <1>7 DEF Writes!Recheck, Writes!Undo, Writes!SettledLeavesNothing, StepInv, PlainInv,
       Unpublished, Looked, Undoing, Making, Whole, Writes!Mutating, Writes!Settled
<1>8. CASE Writes!Rehash
  BY <1>i, <1>8 DEF Writes!Rehash, Writes!Undo, Writes!SettledLeavesNothing, StepInv, PlainInv,
       Unpublished, Looked, Undoing, Making, Whole, Writes!Mutating, Writes!Settled
<1>9. CASE Writes!LinkNew
  BY <1>i, <1>9 DEF Writes!LinkNew, Writes!Undo, Writes!SettledLeavesNothing, StepInv, PlainInv,
       Unpublished, Looked, Undoing, Making, Whole, Writes!Mutating, Writes!Settled
<1>10. CASE Writes!UnlinkTemp
  BY <1>i, <1>10 DEF Writes!UnlinkTemp, Writes!SettledLeavesNothing, StepInv, PlainInv,
       Unpublished, Looked, Undoing, Making, Whole, Writes!Mutating, Writes!Settled
<1>11. CASE Writes!Rename
  BY <1>i, <1>11 DEF Writes!Rename, Writes!SettledLeavesNothing, StepInv, PlainInv, Unpublished,
       Looked, Undoing, Making, Whole, Writes!Mutating, Writes!Settled
<1>12. CASE Writes!SyncParent
  BY <1>i, <1>12 DEF Writes!SyncParent, Writes!Answer, Writes!Kept, Writes!SettledLeavesNothing,
       StepInv, PlainInv, Unpublished, Looked, Undoing, Making, Whole, Writes!Mutating,
       Writes!Settled
<1>13. CASE Writes!RecheckUndo
  BY <1>i, <1>13 DEF Writes!RecheckUndo, Writes!Verdict, Writes!Answer,
       Writes!SettledLeavesNothing, StepInv, PlainInv, Unpublished, Looked, Undoing, Making,
       Whole, Writes!Mutating, Writes!Settled
<1>14. CASE Writes!RehashUndo
  BY <1>i, <1>14 DEF Writes!RehashUndo, Writes!Verdict, Writes!Answer, Writes!Kept,
       Writes!SettledLeavesNothing, StepInv, PlainInv, Unpublished, Looked, Undoing, Making,
       Whole, Writes!Mutating, Writes!Settled
<1>15. CASE Writes!Remove
  BY <1>i, <1>15 DEF Writes!Remove, Writes!Answer, Writes!SettledLeavesNothing, StepInv, PlainInv,
       Unpublished, Looked, Undoing, Making, Whole, Writes!Mutating, Writes!Settled
<1>16. CASE Writes!PreflightRefuses
  BY <1>i, <1>16 DEF Writes!PreflightRefuses, Writes!Answer, Writes!Kept,
       Writes!SettledLeavesNothing, StepInv, PlainInv, Unpublished, Looked, Undoing, Making,
       Whole, Writes!Mutating, Writes!Settled
<1>17. CASE Writes!CallFails
  BY <1>i, <1>17 DEF Writes!CallFails, Writes!Answer, Writes!Kept, Writes!Undo,
       Writes!SettledLeavesNothing, StepInv, PlainInv, Unpublished, Looked, Undoing, Making,
       Whole, Writes!Mutating, Writes!Settled
<1>18. CASE Writes!UndoFails
  BY <1>i, <1>18 DEF Writes!UndoFails, Writes!Answer, Writes!Kept, Writes!SettledLeavesNothing,
       StepInv, PlainInv, Unpublished, Looked, Undoing, Making, Whole, Writes!Mutating,
       Writes!Settled
<1>19. CASE Writes!Crash
  BY <1>i, <1>19 DEF Writes!Crash, Writes!Answer, Writes!Kept, Writes!SettledLeavesNothing,
       StepInv, PlainInv, Unpublished, Looked, Undoing, Making, Whole, Writes!Mutating,
       Writes!Settled
<1>20. CASE Writes!Others
  BY <1>i, <1>20, OthersDisturb DEF Writes!Touched, Writes!SettledLeavesNothing, StepInv,
       PlainInv, Writes!SizeAssumption, Unpublished, Looked, Undoing, Making, Whole,
       Writes!Mutating, Writes!Settled
<1>21. QED
  BY <1>1, <1>2, <1>3, <1>4, <1>5, <1>6, <1>7, <1>8, <1>9, <1>10, <1>11, <1>12, <1>13, <1>14,
       <1>15, <1>16, <1>17, <1>18, <1>19, <1>20 DEF Writes!Next, Writes!Step

\* What is lost was written after the last look.
LEMMA LateKept ==
  ASSUME Writes!SizeAssumption, FileInv, Writes!Next
  PROVE  LateInv'
<1>i. PlainInv /\ InodeInv /\ StepInv /\ ContentInv /\ QuietInv /\ LateInv /\ Writes!SettledLeavesNothing
  BY DEF FileInv
<1>1. CASE Writes!Lstat
  BY <1>i, <1>1 DEF Writes!Lstat, Writes!Answer, StepInv, LateInv, Writes!OnlyLateChangesAreLost,
       Unpublished, Looked, Undoing, Making, Whole, Writes!Mutating, Writes!Settled
<1>2. CASE Writes!Inspect
  BY <1>i, <1>2 DEF Writes!Inspect, Writes!Answer, StepInv, LateInv,
       Writes!OnlyLateChangesAreLost, Unpublished, Looked, Undoing, Making, Whole,
       Writes!Mutating, Writes!Settled
<1>3. CASE Writes!CreateTemp
  BY <1>i, <1>3 DEF Writes!CreateTemp, StepInv, LateInv, Writes!OnlyLateChangesAreLost,
       Unpublished, Looked, Undoing, Making, Whole, Writes!Mutating, Writes!Settled
<1>4. CASE Writes!OpenSource
  BY <1>i, <1>4 DEF Writes!OpenSource, Writes!Undo, StepInv, LateInv,
       Writes!OnlyLateChangesAreLost, Unpublished, Looked, Undoing, Making, Whole,
       Writes!Mutating, Writes!Settled
<1>5. CASE Writes!Fill
  BY <1>i, <1>5 DEF Writes!Fill, Writes!Filling, Writes!Unmoved, Writes!Undo, StepInv, LateInv,
       Writes!OnlyLateChangesAreLost, Unpublished, Looked, Undoing, Making, Whole,
       Writes!Mutating, Writes!Settled
<1>6. CASE Writes!ChmodTemp
  BY <1>i, <1>6 DEF Writes!ChmodTemp, StepInv, LateInv, Writes!OnlyLateChangesAreLost,
       Unpublished, Looked, Undoing, Making, Whole, Writes!Mutating, Writes!Settled
<1>7. CASE Writes!Recheck
  BY <1>i, <1>7 DEF Writes!Recheck, Writes!Undo, Writes!Found, StepInv, LateInv,
       Writes!OnlyLateChangesAreLost, Unpublished, Looked, Undoing, Making, Whole,
       Writes!Mutating, Writes!Settled
<1>8. CASE Writes!Rehash
  BY <1>i, <1>8 DEF Writes!Rehash, Writes!Undo, Writes!SameFile, Writes!SameStat, StepInv,
       LateInv, Writes!OnlyLateChangesAreLost, Unpublished, Looked, Undoing, Making, Whole,
       Writes!Mutating, Writes!Settled
<1>9. CASE Writes!LinkNew
  BY <1>i, <1>9 DEF Writes!LinkNew, Writes!Undo, StepInv, LateInv, Writes!OnlyLateChangesAreLost,
       Unpublished, Looked, Undoing, Making, Whole, Writes!Mutating, Writes!Settled
<1>10. CASE Writes!UnlinkTemp
  BY <1>i, <1>10 DEF Writes!UnlinkTemp, StepInv, LateInv, Writes!OnlyLateChangesAreLost,
       Unpublished, Looked, Undoing, Making, Whole, Writes!Mutating, Writes!Settled
<1>11. CASE Writes!Rename
  BY <1>i, <1>11 DEF Writes!Rename, StepInv, LateInv, Writes!OnlyLateChangesAreLost, Unpublished,
       Looked, Undoing, Making, Whole, Writes!Mutating, Writes!Settled
<1>12. CASE Writes!SyncParent
  BY <1>i, <1>12 DEF Writes!SyncParent, Writes!Answer, Writes!Kept, StepInv, LateInv,
       Writes!OnlyLateChangesAreLost, Unpublished, Looked, Undoing, Making, Whole,
       Writes!Mutating, Writes!Settled
<1>13. CASE Writes!RecheckUndo
  BY <1>i, <1>13 DEF Writes!RecheckUndo, Writes!Verdict, Writes!Answer, Writes!Found, StepInv,
       LateInv, Writes!OnlyLateChangesAreLost, Unpublished, Looked, Undoing, Making, Whole,
       Writes!Mutating, Writes!Settled
<1>14. CASE Writes!RehashUndo
  BY <1>i, <1>14 DEF Writes!RehashUndo, Writes!Verdict, Writes!Answer, Writes!Kept, StepInv,
       LateInv, Writes!OnlyLateChangesAreLost, Unpublished, Looked, Undoing, Making, Whole,
       Writes!Mutating, Writes!Settled
<1>15. CASE Writes!Remove
  BY <1>i, <1>15 DEF Writes!Remove, Writes!Answer, StepInv, LateInv,
       Writes!OnlyLateChangesAreLost, Unpublished, Looked, Undoing, Making, Whole,
       Writes!Mutating, Writes!Settled
<1>16. CASE Writes!PreflightRefuses
  BY <1>i, <1>16 DEF Writes!PreflightRefuses, Writes!Answer, Writes!Kept, StepInv, LateInv,
       Writes!OnlyLateChangesAreLost, Unpublished, Looked, Undoing, Making, Whole,
       Writes!Mutating, Writes!Settled
<1>17. CASE Writes!CallFails
  BY <1>i, <1>17 DEF Writes!CallFails, Writes!Answer, Writes!Kept, Writes!Undo, StepInv, LateInv,
       Writes!OnlyLateChangesAreLost, Unpublished, Looked, Undoing, Making, Whole,
       Writes!Mutating, Writes!Settled
<1>18. CASE Writes!UndoFails
  BY <1>i, <1>18 DEF Writes!UndoFails, Writes!Answer, Writes!Kept, StepInv, LateInv,
       Writes!OnlyLateChangesAreLost, Unpublished, Looked, Undoing, Making, Whole,
       Writes!Mutating, Writes!Settled
<1>19. CASE Writes!Crash
  BY <1>i, <1>19 DEF Writes!Crash, Writes!Answer, Writes!Kept, StepInv, LateInv,
       Writes!OnlyLateChangesAreLost, Unpublished, Looked, Undoing, Making, Whole,
       Writes!Mutating, Writes!Settled
<1>20. CASE Writes!Others
  BY <1>i, <1>20, OthersDisturb DEF Writes!Touched, StepInv, LateInv,
       Writes!OnlyLateChangesAreLost, Unpublished, Looked, Undoing, Making, Whole,
       Writes!Mutating, Writes!Settled
<1>21. QED
  BY <1>1, <1>2, <1>3, <1>4, <1>5, <1>6, <1>7, <1>8, <1>9, <1>10, <1>11, <1>12, <1>13, <1>14,
       <1>15, <1>16, <1>17, <1>18, <1>19, <1>20 DEF Writes!Next, Writes!Step

\* As long as nobody else has touched the target it is what the guard has seen.
LEMMA QuietKept ==
  ASSUME Writes!SizeAssumption, FileInv, Writes!Next
  PROVE  QuietInv'
<1>i. PlainInv /\ InodeInv /\ StepInv /\ ContentInv /\ QuietInv /\ LateInv /\ Writes!SettledLeavesNothing
  BY DEF FileInv
<1>1. CASE Writes!Lstat
  BY <1>i, <1>1 DEF Writes!Lstat, Writes!Answer, Writes!Absent, Writes!Seen, PlainInv, InodeInv,
       StepInv, QuietInv, Unpublished, Looked, Undoing, Making, Whole, Writes!Mutating,
       Writes!Settled
<1>2. CASE Writes!Inspect
  BY <1>i, <1>2 DEF Writes!Inspect, Writes!Answer, Writes!Seen, InodeInv, StepInv, QuietInv,
       Unpublished, Looked, Undoing, Making, Whole, Writes!Mutating, Writes!Settled
<1>3. CASE Writes!CreateTemp
  <2>1. /\ beside' \notin DOMAIN inodes /\ beside' # 0
        /\ \A i \in DOMAIN inodes : inodes'[i] = inodes[i]
    BY <1>i, <1>3, CreateTempMakes
  <2>2. Writes!Seen(target)' = Writes!Seen(target) \/ target = 0
    BY <1>i, <1>3, <2>1 DEF Writes!Seen, Writes!CreateTemp, InodeInv
  <2>3. QED
    BY <1>i, <1>3, <2>1, <2>2 DEF Writes!CreateTemp, StepInv, PlainInv, InodeInv, QuietInv,
         Unpublished, Looked, Undoing, Making, Whole, Writes!Mutating, Writes!Settled
<1>4. CASE Writes!OpenSource
  BY <1>i, <1>4 DEF Writes!OpenSource, Writes!Undo, Writes!Seen, Writes!SameStat, Writes!Found,
       StepInv, QuietInv, Unpublished, Looked, Undoing, Making, Whole, Writes!Mutating,
       Writes!Settled
<1>5. CASE Writes!Fill
  <2>1. /\ beside # 0 /\ ~published /\ at_file = "fill"
        /\ target # 0 => target # beside /\ target \in DOMAIN inodes /\ target' = target
    BY <1>i, <1>5 DEF Writes!Fill, Writes!Filling, Writes!Unmoved, Writes!Undo, StepInv, InodeInv,
         Unpublished, Making, Whole, Looked
  <2>2. CASE Writes!Undo("target_changed")
    BY <1>i, <2>1, <2>2 DEF Writes!Undo, StepInv, QuietInv, Unpublished, Looked, Undoing, Making,
         Whole, Writes!Mutating, Writes!Settled
  <2>3. CASE \E c : Writes!Filling(c) /\ Writes!Unmoved
    <3>1. target # 0 => inodes'[target] = inodes[target]
      BY <1>i, <2>1, <2>3, FillingFills DEF CallDoes, Writes!Unmoved, InodeInv
    <3>2. Writes!Seen(target)' = Writes!Seen(target) \/ target = 0
      BY <2>1, <3>1 DEF Writes!Seen
    <3>3. QED
      BY <1>i, <1>5, <2>1, <2>3, <3>1, <3>2 DEF Writes!Filling, Writes!Unmoved, StepInv, QuietInv,
           Unpublished, Looked, Undoing, Making, Whole, Writes!Mutating, Writes!Settled
  <2>4. QED
    BY <1>5, <2>2, <2>3 DEF Writes!Fill
<1>6. CASE Writes!ChmodTemp
  <2>1. /\ beside # 0 /\ ~published
        /\ target # 0 => target # beside /\ target \in DOMAIN inodes /\ target' = target
    BY <1>i, <1>6 DEF Writes!ChmodTemp, StepInv, InodeInv, Unpublished, Making, Whole, Looked
  <2>2. target # 0 => inodes'[target] = inodes[target]
    BY <1>i, <1>6, <2>1, ChmodTempSets DEF CallDoes, Writes!ChmodTemp, InodeInv
  <2>3. Writes!Seen(target)' = Writes!Seen(target) \/ target = 0
    BY <2>1, <2>2 DEF Writes!Seen
  <2>4. QED
    BY <1>i, <1>6, <2>1, <2>2, <2>3 DEF Writes!ChmodTemp, StepInv, QuietInv, Unpublished, Looked,
         Undoing, Making, Whole, Writes!Mutating, Writes!Settled
<1>7. CASE Writes!Recheck
  BY <1>i, <1>7 DEF Writes!Recheck, Writes!Undo, Writes!Seen, Writes!SameStat, Writes!Found,
       StepInv, QuietInv, Unpublished, Looked, Undoing, Making, Whole, Writes!Mutating,
       Writes!Settled
<1>8. CASE Writes!Rehash
  BY <1>i, <1>8 DEF Writes!Rehash, Writes!Undo, Writes!Seen, Writes!SameStat, Writes!Found,
       StepInv, QuietInv, Unpublished, Looked, Undoing, Making, Whole, Writes!Mutating,
       Writes!Settled
<1>9. CASE Writes!LinkNew
  <2>1. beside # 0
    BY <1>i, <1>9 DEF Writes!LinkNew, StepInv, Making, Whole
  <2>2. CASE target # 0
    BY <1>i, <1>9, <2>2 DEF Writes!LinkNew, Writes!Undo, StepInv, QuietInv, Unpublished, Looked,
         Undoing, Making, Whole, Writes!Mutating, Writes!Settled
  <2>3. CASE target = 0
    BY <1>i, <1>9, <2>1, <2>3, LinkNewLinks
    DEF Writes!LinkNew, Writes!DesiredMode, StepInv, ContentInv, QuietInv, Unpublished, Looked,
    Undoing, Making, Whole, Writes!Mutating, Writes!Settled
  <2>4. QED
    BY <2>2, <2>3
<1>10. CASE Writes!UnlinkTemp
  <2>1. beside # 0
    BY <1>i, <1>10 DEF Writes!UnlinkTemp, StepInv
  <2>2. target # 0 => target' = target /\ inodes'[target].mode = inodes[target].mode
    BY <1>i, <1>10, <2>1, UnlinkTempUnlinks DEF Writes!UnlinkTemp, CallDoes, InodeInv
  <2>3. QED
    BY <1>i, <1>10, <2>1, <2>2 DEF Writes!UnlinkTemp, Writes!DesiredMode, StepInv, QuietInv,
         Unpublished, Looked, Undoing, Making, Whole, Writes!Mutating, Writes!Settled
<1>11. CASE Writes!Rename
  BY <1>i, <1>11 DEF Writes!Rename, Writes!DesiredMode, StepInv, ContentInv, QuietInv,
       Unpublished, Looked, Undoing, Making, Whole, Writes!Mutating, Writes!Settled
<1>12. CASE Writes!SyncParent
  BY <1>i, <1>12 DEF Writes!SyncParent, Writes!Answer, Writes!Kept, Writes!DesiredMode, StepInv,
       QuietInv, Unpublished, Looked, Undoing, Making, Whole, Writes!Mutating, Writes!Settled
<1>13. CASE Writes!RecheckUndo
  BY <1>i, <1>13 DEF Writes!RecheckUndo, Writes!Verdict, Writes!Answer, Writes!DesiredMode,
       StepInv, QuietInv, Unpublished, Looked, Undoing, Making, Whole, Writes!Mutating,
       Writes!Settled
<1>14. CASE Writes!RehashUndo
  BY <1>i, <1>14 DEF Writes!RehashUndo, Writes!Verdict, Writes!Answer, Writes!Kept,
       Writes!DesiredMode, StepInv, QuietInv, Unpublished, Looked, Undoing, Making, Whole,
       Writes!Mutating, Writes!Settled
<1>15. CASE Writes!Remove
  BY <1>i, <1>15 DEF Writes!Remove, Writes!Answer, Writes!DesiredMode, StepInv, QuietInv,
       Unpublished, Looked, Undoing, Making, Whole, Writes!Mutating, Writes!Settled
<1>16. CASE Writes!PreflightRefuses
  BY <1>i, <1>16 DEF Writes!PreflightRefuses, Writes!Answer, Writes!Kept, Writes!DesiredMode,
       StepInv, QuietInv, Unpublished, Looked, Undoing, Making, Whole, Writes!Mutating,
       Writes!Settled
<1>17. CASE Writes!CallFails
  BY <1>i, <1>17 DEF Writes!CallFails, Writes!Answer, Writes!Kept, Writes!Undo,
       Writes!DesiredMode, StepInv, QuietInv, Unpublished, Looked, Undoing, Making, Whole,
       Writes!Mutating, Writes!Settled
<1>18. CASE Writes!UndoFails
  BY <1>i, <1>18 DEF Writes!UndoFails, Writes!Answer, Writes!Kept, Writes!DesiredMode, StepInv,
       QuietInv, Unpublished, Looked, Undoing, Making, Whole, Writes!Mutating, Writes!Settled
<1>19. CASE Writes!Crash
  BY <1>i, <1>19 DEF Writes!Crash, Writes!Answer, Writes!Kept, Writes!DesiredMode, StepInv,
       QuietInv, Unpublished, Looked, Undoing, Making, Whole, Writes!Mutating, Writes!Settled
<1>20. CASE Writes!Others
  BY <1>i, <1>20, OthersDisturb DEF Writes!Touched, QuietInv, PlainInv, Writes!SizeAssumption
<1>21. QED
  BY <1>1, <1>2, <1>3, <1>4, <1>5, <1>6, <1>7, <1>8, <1>9, <1>10, <1>11, <1>12, <1>13, <1>14,
       <1>15, <1>16, <1>17, <1>18, <1>19, <1>20 DEF Writes!Next, Writes!Step

-----------------------------------------------------------------------------
(* The invariant, and what it says of write and edit. *)

\* A call begins with a target that somebody else has made, or with none.
LEMMA InitInvariant ==
  ASSUME Writes!SizeAssumption, Writes!Init
  PROVE  FileInv
<1>1. Cardinality({}) = 0 /\ Cardinality(1..1) = 1 /\ {1} = 1..1 /\ {} = 1..0
  <2>1. Cardinality({1}) = 1
    BY FS_Singleton
  <2>2. {1} = 1..1 /\ {} = 1..0
    OBVIOUS
  <2>3. QED
    BY <2>1, <2>2, FS_EmptySet
<1>2. InodeInv
  <2>1. CASE target = 0 /\ inodes = [i \in {} |-> Writes!Absent]
    BY <1>1, <2>1 DEF Writes!Init, InodeInv
  <2>2. CASE target = 1 /\ \E c \in Contents, m \in Modes : inodes = [i \in {1} |-> Writes!File(Writes!Text(c), m)]
    BY <1>1, <2>2 DEF Writes!Init, InodeInv, Writes!File
  <2>3. QED
    BY <2>1, <2>2 DEF Writes!Init
<1>3. \A i \in DOMAIN inodes : Made(i) = "by_others" /\ inodes[i].content # Writes!Partial
  BY ContentsDiffer DEF Writes!Init, Made, Writes!File
<1>4. PlainInv
  <2>1. 0 \in 0..MaxTouches
    BY DEF Writes!SizeAssumption
  <2>2. QED
    BY <2>1 DEF Writes!Init, PlainInv, Unpublished, Writes!Settled
<1>8. StepInv
  BY DEF Writes!Init, Writes!Absent, StepInv, Unpublished, Looked, Undoing, Making, Whole,
       Writes!Settled
<1>5. ContentInv
  BY <1>2, <1>3 DEF Writes!Init, ContentInv, InodeInv, Made, Whole
<1>6. QuietInv /\ LateInv /\ Writes!SettledLeavesNothing
  BY DEF Writes!Init, QuietInv, LateInv, Writes!OnlyLateChangesAreLost,
       Writes!SettledLeavesNothing, Looked, Writes!Settled
<1>7. QED
  BY <1>2, <1>4, <1>5, <1>6, <1>8 DEF FileInv

LEMMA NextInvariant ==
  ASSUME Writes!SizeAssumption, FileInv, [Writes!Next]_(Writes!vars)
  PROVE  FileInv'
<1>1. CASE Writes!Next
  BY <1>1, FilePlainKept, InodeKept, StepKept, ContentKept, QuietKept, LateKept, SettledKept
       DEF FileInv
<1>2. CASE UNCHANGED Writes!vars
  BY <1>2 DEF Writes!vars, FileInv, PlainInv, InodeInv, StepInv, ContentInv, QuietInv, LateInv,
       Made, Writes!Seen,
     Writes!DesiredMode, Writes!OnlyLateChangesAreLost, Writes!SettledLeavesNothing
<1>3. QED
  BY <1>1, <1>2

LEMMA InvariantImplies ==
  ASSUME FileInv
  PROVE  Writes!NoChangeIsLost
<1>1. Writes!TypeOK
  BY DEF FileInv, PlainInv, InodeInv, StepInv, Writes!TypeOK, Unpublished, Looked, Undoing,
       Writes!Mutating
<1>2. Writes!TargetIsNeverPartial
  BY DEF FileInv, ContentInv, Writes!TargetIsNeverPartial
<1>3. Writes!EditOfWhatWasSeen
  BY DEF FileInv, InodeInv, ContentInv, QuietInv, Writes!EditOfWhatWasSeen, Made
<1>4. QED
  BY <1>1, <1>2, <1>3 DEF FileInv, LateInv, Writes!NoChangeIsLost

\* Whoever changes the file while write or edit replaces it, and whatever call
\* fails: the target is never partial, an edit changes what preflight looked at,
\* nothing is lost but what came after the last look of recheckTarget, and what
\* executePreparedFileMutation answers is true.
THEOREM WritesLoseNoChange ==
  ASSUME Writes!SizeAssumption
  PROVE  Writes!Spec => []Writes!NoChangeIsLost
<1>1. Writes!Init => FileInv
  BY InitInvariant
<1>2. FileInv /\ [Writes!Next]_(Writes!vars) => FileInv'
  BY NextInvariant
<1>3. FileInv => Writes!NoChangeIsLost
  BY InvariantImplies
<1>4. QED
  BY <1>1, <1>2, <1>3, PTL DEF Writes!Spec

-----------------------------------------------------------------------------
(* The bash tool.  What is a recursive function of a sequence is first given *)
(* step by step, by induction on a set of numbers.                          *)

\* What is true of 0, and of each number if of the one before, is true of all.
LEMMA UpTo ==
  ASSUME NEW n \in Nat, NEW T, 0 \in T, \A i \in 1..n : i - 1 \in T => i \in T
  PROVE  \A i \in 0..n : i \in T
<1> DEFINE Missed == {i \in 0..n : i \notin T}
<1>1. SUFFICES ASSUME Missed # {}
               PROVE  FALSE
  OBVIOUS
<1>2. Missed \subseteq Nat
  OBVIOUS
<1>3. PICK m \in Missed : \A k \in Missed : ~ (<<k, m>> \in OpToRel(<, Nat))
  <2> HIDE DEF Missed
  <2>1. QED
    BY <1>1, <1>2, NatLessThanWellFounded, WFMin
<1>4. m \in 0..n /\ m \notin T /\ m # 0
  OBVIOUS
<1>5. m \in 1..n /\ m - 1 \in 0..n /\ m - 1 \in Nat /\ m \in Nat /\ m - 1 < m
  BY <1>4
<1>6. m - 1 \in T
  <2>1. SUFFICES ASSUME m - 1 \notin T
                 PROVE  FALSE
    OBVIOUS
  <2>2. m - 1 \in Missed
    BY <1>5, <2>1
  <2>3. <<m - 1, m>> \in OpToRel(<, Nat)
    BY <1>5 DEF OpToRel
  <2>4. QED
    BY <1>3, <2>2, <2>3
<1>7. QED
  BY <1>4, <1>5, <1>6

\* A function can be given by its first value and by what makes each of the one before.
StepsIn(S, n) == [1..n -> [S -> S]]
Built(S, b, n, g) == {f \in [0..n -> S] : f[0] = b /\ \A i \in 1..n : f[i] = g[i][f[i - 1]]}

LEMMA StepByStep ==
  ASSUME NEW S, NEW b \in S, NEW n \in Nat, NEW g \in StepsIn(S, n)
  PROVE  \E f : f \in Built(S, b, n, g)
<1> DEFINE Stepped(m, f) == f[0] = b /\ \A i \in 1..m : f[i] = g[i][f[i - 1]]
           P(m) == \E f \in [0..m -> S] : Stepped(m, f)
           T == {m \in 0..n : P(m)}
<1>1. P(0)
  <2> DEFINE f == [i \in 0..0 |-> b]
  <2>1. f \in [0..0 -> S] /\ Stepped(0, f)
    OBVIOUS
  <2> HIDE DEF f, Stepped
  <2>2. QED
    BY <2>1
<1>2. ASSUME NEW m \in 1..n, P(m - 1)
      PROVE  P(m)
  <2>1. PICK h \in [0..(m - 1) -> S] : h[0] = b /\ \A i \in 1..(m - 1) : h[i] = g[i][h[i - 1]]
    BY <1>2
  <2>2. g[m] \in [S -> S] /\ h[m - 1] \in S
    BY DEF StepsIn
  <2>3. g[m][h[m - 1]] \in S
    BY <2>2
  <2> DEFINE f == [i \in 0..m |-> IF i = m THEN g[m][h[m - 1]] ELSE h[i]]
  <2>4. f \in [0..m -> S] /\ f[0] = b
    BY <2>1, <2>3
  <2>5. ASSUME NEW i \in 1..m
        PROVE  f[i] = g[i][f[i - 1]]
    <3>1. i - 1 \in 0..m /\ i - 1 # m /\ f[i - 1] = h[i - 1]
      OBVIOUS
    <3>2. CASE i = m
      BY <3>1, <3>2
    <3>3. CASE i # m
      <4>1. i \in 1..(m - 1) /\ f[i] = h[i]
        BY <3>3
      <4>2. QED
        BY <2>1, <3>1, <4>1
    <3>4. QED
      BY <3>2, <3>3
  <2> HIDE DEF f
  <2>6. Stepped(m, f)
    BY <2>4, <2>5
  <2> HIDE DEF Stepped
  <2>7. QED
    BY <2>4, <2>6
<1>3. n \in T
  <2>1. 0 \in T /\ \A m \in 1..n : m - 1 \in T => m \in T
    <3> HIDE DEF P
    <3>1. QED
      BY <1>1, <1>2
  <2> HIDE DEF T
  <2>2. \A m \in 0..n : m \in T
    BY <2>1, UpTo
  <2>3. n \in 0..n
    OBVIOUS
  <2>4. QED
    BY <2>2, <2>3
<1>4. P(n)
  <2> HIDE DEF P
  <2>1. QED
    BY <1>3
<1>5. PICK f \in [0..n -> S] : Stepped(n, f)
  <2> HIDE DEF Stepped
  <2>1. QED
    BY <1>4
<1>6. QED
  BY <1>5 DEF Built

\* There is one such function only.
LEMMA StepsAgree ==
  ASSUME NEW n \in Nat, NEW f, NEW h, f[0] = h[0],
         \A i \in 1..n : f[i - 1] = h[i - 1] => f[i] = h[i]
  PROVE  \A i \in 0..n : f[i] = h[i]
<1> DEFINE T == {i \in 0..n : f[i] = h[i]}
<1>1. 0 \in T
  OBVIOUS
<1>2. \A i \in 1..n : i - 1 \in T => i \in T
  OBVIOUS
<1>3. \A i \in 0..n : i \in T
  <2> HIDE DEF T
  <2>1. QED
    BY <1>1, <1>2, UpTo
<1>4. QED
  BY <1>3

-----------------------------------------------------------------------------
(* Records and their bytes. *)

Records == [stream : Bash!OutputStreams, bytes : Nat]
Run(r)  == [k \in 1..r.bytes |-> r.stream]

Summed(seq, f)    == [i \in 0..Len(seq) |-> IF i = 0 THEN 0 ELSE f[i - 1] + seq[i].bytes]
Flattened(seq, f) == [i \in 0..Len(seq) |-> IF i = 0 THEN << >> ELSE f[i - 1] \o Run(seq[i])]
Sum(seq)  == CHOOSE f : f = Summed(seq, f)
Flat(seq) == CHOOSE f : f = Flattened(seq, f)

LEMMA RunIsASeq ==
  ASSUME NEW r \in Records
  PROVE  Run(r) \in Seq(Bash!OutputStreams) /\ Len(Run(r)) = r.bytes
  BY DEF Run, Records

LEMMA InRecords ==
  ASSUME NEW seq \in Seq(Records)
  PROVE  Len(seq) \in Nat /\ \A i \in 1..Len(seq) : seq[i] \in Records /\ seq[i].bytes \in Nat
<1>1. Len(seq) \in Nat /\ \A i \in 1..Len(seq) : seq[i] \in Records
  BY ElementOfSeq, LenProperties
<1>2. \A r \in Records : r.bytes \in Nat
  BY DEF Records
<1>3. QED
  BY <1>1, <1>2

LEMMA SumUnfolds ==
  ASSUME NEW seq \in Seq(Records)
  PROVE  /\ Sum(seq) = Summed(seq, Sum(seq))
         /\ Bash!BytesIn(seq) = Sum(seq)[Len(seq)]
<1> DEFINE n == Len(seq)
           g == [i \in 1..n |-> [x \in Nat |-> x + seq[i].bytes]]
<1>1. n \in Nat /\ \A i \in 1..n : seq[i].bytes \in Nat
  BY InRecords
<1> HIDE DEF n
<1>2. g \in StepsIn(Nat, n)
  BY <1>1 DEF StepsIn
<1>3. \A i \in 1..n : \A x \in Nat : g[i][x] = x + seq[i].bytes
  OBVIOUS
<1> HIDE DEF g
<1>4. \E f : f \in Built(Nat, 0, n, g)
  <2>1. 0 \in Nat
    OBVIOUS
  <2>2. QED
    BY <1>1, <1>2, <2>1, StepByStep
<1>5. PICK f \in [0..n -> Nat] : f[0] = 0 /\ \A i \in 1..n : f[i] = g[i][f[i - 1]]
  BY <1>4 DEF Built
<1>6. \A i \in 1..n : f[i] = f[i - 1] + seq[i].bytes
  <2>1. \A i \in 1..n : i - 1 \in 0..n
    BY <1>1
  <2>2. \A i \in 1..n : f[i - 1] \in Nat
    BY <2>1
  <2>3. QED
    BY <1>3, <1>5, <2>2
<1>8. f = Summed(seq, f)
  <2>1. \A i \in 0..n : f[i] = IF i = 0 THEN 0 ELSE f[i - 1] + seq[i].bytes
    BY <1>1, <1>5, <1>6
  <2>2. QED
    BY <2>1 DEF Summed, n
<1>9. Sum(seq) = Summed(seq, Sum(seq))
  BY <1>8 DEF Sum
<1>10. Bash!BytesIn(seq) = Sum(seq)[Len(seq)]
  BY DEF Bash!BytesIn, Sum, Summed
<1>11. QED
  BY <1>9, <1>10

LEMMA FlatUnfolds ==
  ASSUME NEW seq \in Seq(Records)
  PROVE  /\ Flat(seq) = Flattened(seq, Flat(seq))
         /\ Bash!BytesOf(seq) = Flat(seq)[Len(seq)]
<1> DEFINE Q == Seq(Bash!OutputStreams)
           n == Len(seq)
           g == [i \in 1..n |-> [x \in Q |-> x \o Run(seq[i])]]
<1>1. n \in Nat /\ \A i \in 1..n : \A x \in Q : x \o Run(seq[i]) \in Q
  BY InRecords, RunIsASeq, ConcatProperties
<1> HIDE DEF n, Q
<1>2. g \in StepsIn(Q, n)
  BY <1>1 DEF StepsIn
<1>3. \A i \in 1..n : \A x \in Q : g[i][x] = x \o Run(seq[i])
  OBVIOUS
<1> HIDE DEF g
<1>4. \E f : f \in Built(Q, << >>, n, g)
  <2>1. << >> \in Q
    BY DEF Q
  <2>2. QED
    BY <1>1, <1>2, <2>1, StepByStep
<1>5. PICK f \in [0..n -> Q] : f[0] = << >> /\ \A i \in 1..n : f[i] = g[i][f[i - 1]]
  BY <1>4 DEF Built
<1>6. \A i \in 1..n : f[i] = f[i - 1] \o Run(seq[i])
  <2>1. \A i \in 1..n : i - 1 \in 0..n
    BY <1>1
  <2>2. \A i \in 1..n : f[i - 1] \in Q
    BY <2>1
  <2>3. QED
    BY <1>3, <1>5, <2>2
<1>8. f = Flattened(seq, f)
  <2>1. \A i \in 0..n : f[i] = IF i = 0 THEN << >> ELSE f[i - 1] \o Run(seq[i])
    <3>1. \A i \in 0..n : i = 0 \/ i \in 1..n
      BY <1>1
    <3>2. QED
      BY <1>5, <1>6, <3>1
  <2>2. QED
    BY <2>1 DEF Flattened, n
<1>9. Flat(seq) = Flattened(seq, Flat(seq))
  BY <1>8 DEF Flat
<1>10. Bash!BytesOf(seq) = Flat(seq)[Len(seq)]
  BY DEF Bash!BytesOf, Flat, Flattened, Run
<1>11. QED
  BY <1>9, <1>10

LEMMA NoBytes == Bash!BytesIn(<< >>) = 0 /\ Bash!BytesOf(<< >>) = << >>
<1>1. << >> \in Seq(Records) /\ Len(<< >>) = 0
  OBVIOUS
<1>2. Bash!BytesIn(<< >>) = Summed(<< >>, Sum(<< >>))[0]
  BY <1>1, SumUnfolds
<1>3. Bash!BytesOf(<< >>) = Flattened(<< >>, Flat(<< >>))[0]
  BY <1>1, FlatUnfolds
<1>4. QED
  BY <1>1, <1>2, <1>3 DEF Summed, Flattened

\* A further record adds its bytes to those of the others.
LEMMA OneMore ==
  ASSUME NEW seq \in Seq(Records), NEW r \in Records
  PROVE  /\ Append(seq, r) \in Seq(Records)
         /\ Bash!BytesIn(Append(seq, r)) = Bash!BytesIn(seq) + r.bytes
         /\ Bash!BytesOf(Append(seq, r)) = Bash!BytesOf(seq) \o Run(r)
<1> DEFINE more == Append(seq, r)
           n == Len(seq)
<1>1. /\ more \in Seq(Records) /\ Len(more) = n + 1 /\ n \in Nat
      /\ \A i \in 1..n : more[i] = seq[i]
      /\ more[n + 1] = r
  BY AppendProperties
<1> HIDE DEF more
<1>2. Sum(more) = Summed(more, Sum(more)) /\ Sum(seq) = Summed(seq, Sum(seq))
  BY <1>1, SumUnfolds
<1>3. Flat(more) = Flattened(more, Flat(more)) /\ Flat(seq) = Flattened(seq, Flat(seq))
  BY <1>1, FlatUnfolds
<1>4. /\ Sum(more)[0] = Sum(seq)[0] 
      /\ \A i \in 1..n : Sum(more)[i - 1] = Sum(seq)[i - 1] => Sum(more)[i] = Sum(seq)[i]
  <2>1. \A f, i : i \in 0..(n + 1) => Summed(more, f)[i] = IF i = 0 THEN 0 ELSE f[i - 1] + more[i].bytes
    BY <1>1 DEF Summed
  <2>2. \A f, i : i \in 0..n => Summed(seq, f)[i] = IF i = 0 THEN 0 ELSE f[i - 1] + seq[i].bytes
    BY DEF Summed
  <2>3. \A i \in 0..n : i \in 0..(n + 1)
    BY <1>1
  <2> HIDE DEF n
  <2>4. 0 \in 0..n /\ \A i \in 1..n : i \in 0..n /\ i # 0
    BY <1>1
  <2>5. QED
    BY <1>1, <1>2, <2>1, <2>2, <2>3, <2>4
<1>5. /\ Flat(more)[0] = Flat(seq)[0] 
      /\ \A i \in 1..n : Flat(more)[i - 1] = Flat(seq)[i - 1] => Flat(more)[i] = Flat(seq)[i]
  <2>1. \A f, i : i \in 0..(n + 1) => Flattened(more, f)[i] = IF i = 0 THEN << >> ELSE f[i - 1] \o Run(more[i])
    BY <1>1 DEF Flattened
  <2>2. \A f, i : i \in 0..n => Flattened(seq, f)[i] = IF i = 0 THEN << >> ELSE f[i - 1] \o Run(seq[i])
    BY DEF Flattened
  <2>3. \A i \in 0..n : i \in 0..(n + 1)
    BY <1>1
  <2> HIDE DEF n
  <2>4. 0 \in 0..n /\ \A i \in 1..n : i \in 0..n /\ i # 0
    BY <1>1
  <2>5. Flat(more)[0] = << >> /\ Flat(seq)[0] = << >>
    BY <1>3, <2>1, <2>2, <2>3, <2>4
  <2>6. \A i \in 1..n : /\ Flat(more)[i] = Flat(more)[i - 1] \o Run(more[i])
                       /\ Flat(seq)[i] = Flat(seq)[i - 1] \o Run(seq[i])
    BY <1>3, <2>1, <2>2, <2>3, <2>4
  <2>7. QED
    BY <1>1, <2>5, <2>6
<1>6. \A i \in 0..n : Sum(more)[i] = Sum(seq)[i]
  <2>1. n \in Nat
    BY <1>1
  <2> HIDE DEF n
  <2>2. QED
    BY <2>1, <1>4, StepsAgree
<1>7. \A i \in 0..n : Flat(more)[i] = Flat(seq)[i]
  <2>1. n \in Nat
    BY <1>1
  <2> HIDE DEF n
  <2>2. QED
    BY <2>1, <1>5, StepsAgree
<1>8. n \in 0..n /\ n + 1 \in 0..(n + 1) /\ n + 1 # 0 /\ (n + 1) - 1 = n
  BY <1>1
<1>9. Sum(more)[n + 1] = Sum(seq)[n] + r.bytes
  <2>1. Summed(more, Sum(more))[n + 1] = Sum(more)[n] + more[n + 1].bytes
    BY <1>1, <1>8 DEF Summed
  <2>2. QED
    BY <1>1, <1>2, <1>6, <1>8, <2>1
<1>10. Flat(more)[n + 1] = Flat(seq)[n] \o Run(r)
  <2>1. Flattened(more, Flat(more))[n + 1] = Flat(more)[n] \o Run(more[n + 1])
    BY <1>1, <1>8 DEF Flattened
  <2>2. QED
    BY <1>1, <1>3, <1>7, <1>8, <2>1
<1>11. QED
  BY <1>1, <1>9, <1>10, SumUnfolds, FlatUnfolds DEF more

\* There are as many bytes as the records have.
LEMMA AsManyBytes ==
  ASSUME NEW seq \in Seq(Records)
  PROVE  /\ Bash!BytesIn(seq) \in Nat
         /\ Bash!BytesOf(seq) \in Seq(Bash!OutputStreams)
         /\ Len(Bash!BytesOf(seq)) = Bash!BytesIn(seq)
<1> DEFINE Q == Seq(Bash!OutputStreams)
           s == Sum(seq)
           f == Flat(seq)
           n == Len(seq)
           T == {i \in 0..n : s[i] \in Nat /\ f[i] \in Q /\ Len(f[i]) = s[i]}
<1>1. s = Summed(seq, s) /\ f = Flattened(seq, f) /\ n \in Nat
  BY SumUnfolds, FlatUnfolds
<1>2. \A i \in 1..n : Run(seq[i]) \in Q /\ seq[i].bytes \in Nat /\ Len(Run(seq[i])) = seq[i].bytes
  BY InRecords, RunIsASeq
<1>3. /\ s[0] = 0 /\ f[0] = << >>
      /\ \A i \in 1..n : s[i] = s[i - 1] + seq[i].bytes /\ f[i] = f[i - 1] \o Run(seq[i])
  <2>1. \A h, i : i \in 0..n => /\ Summed(seq, h)[i] = IF i = 0 THEN 0 ELSE h[i - 1] + seq[i].bytes
                               /\ Flattened(seq, h)[i] = IF i = 0 THEN << >> ELSE h[i - 1] \o Run(seq[i])
    BY DEF Summed, Flattened
  <2> HIDE DEF s, f, n
  <2>2. 0 \in 0..n /\ \A i \in 1..n : i \in 0..n /\ i # 0
    BY <1>1
  <2>3. QED
    BY <1>1, <2>1, <2>2
<1> HIDE DEF s, f, n
<1>4. 0 \in T
  <2>1. 0 \in 0..n
    BY <1>1
  <2>2. << >> \in Q /\ Len(<< >>) = 0
    OBVIOUS
  <2>3. s[0] \in Nat /\ f[0] \in Q /\ Len(f[0]) = s[0]
    <3> HIDE DEF Q, T
    <3>1. QED
      BY <1>3, <2>2
  <2>4. QED
    BY <2>1, <2>3
<1>5. ASSUME NEW i \in 1..n, i - 1 \in T
      PROVE  i \in T
  <2>1. s[i - 1] \in Nat /\ f[i - 1] \in Q /\ Len(f[i - 1]) = s[i - 1]
    BY <1>5
  <2>2. f[i - 1] \o Run(seq[i]) \in Q /\ Len(f[i - 1] \o Run(seq[i])) = Len(f[i - 1]) + Len(Run(seq[i]))
    BY <1>2, <2>1, ConcatProperties
  <2>3. i \in 0..n
    OBVIOUS
  <2>4. s[i] \in Nat /\ f[i] \in Q /\ Len(f[i]) = s[i]
    <3>1. f[i] = f[i - 1] \o Run(seq[i]) /\ s[i] = s[i - 1] + seq[i].bytes
      BY <1>3
    <3>2. seq[i].bytes \in Nat /\ Len(Run(seq[i])) = seq[i].bytes
      BY <1>2
    <3> HIDE DEF Q, T
    <3>3. f[i] \in Q /\ Len(f[i]) = s[i - 1] + seq[i].bytes
      BY <2>1, <2>2, <3>1, <3>2
    <3>4. QED
      BY <2>1, <3>1, <3>2, <3>3
  <2>5. QED
    BY <2>3, <2>4
<1>6. \A i \in 0..n : i \in T
  <2> HIDE DEF T
  <2>1. QED
    BY <1>1, <1>4, <1>5, UpTo
<1>7. n \in T
  <2>1. n \in 0..n
    BY <1>1
  <2>2. QED
    BY <1>6, <2>1
<1>8. Bash!BytesIn(seq) = s[n] /\ Bash!BytesOf(seq) = f[n]
  BY SumUnfolds, FlatUnfolds DEF s, f, n
<1>9. QED
  BY <1>7, <1>8

-----------------------------------------------------------------------------
(* The capture: what it holds are the bytes that came, up to the limit. *)

Buffers  == [stream : Bash!OutputStreams \cup {"none"}, bytes : Nat]
Captures == [records : Seq(Records), pending : Buffers, limited : BOOLEAN]

Chars(c) == Bash!BytesOf(c.records) \o Run(c.pending)
Kept(s)  == IF Len(s) < CommandLimit THEN Len(s) ELSE CommandLimit

\* The buffer has an owner if and only if it has bytes.
Owned(c) == c.pending.stream = "none" <=> c.pending.bytes = 0

Holds(c, s) ==
  /\ c \in Captures /\ Owned(c) /\ c.pending.bytes < Coalesce
  /\ c.limited <=> Bash!Held(c) = CommandLimit
  /\ c.limited => c.pending.bytes = 0
  /\ Bash!Held(c) = Kept(s)
  /\ \A i \in 1..Kept(s) : Chars(c)[i] = s[i]

LEMMA CaptureFields ==
  ASSUME NEW c \in Captures
  PROVE  /\ c.records \in Seq(Records) /\ c.pending \in Buffers /\ c.limited \in BOOLEAN
         /\ c.pending.bytes \in Nat /\ c.pending.stream \in Bash!OutputStreams \cup {"none"}
  BY DEF Captures, Buffers

LEMMA NoRun ==
  ASSUME NEW r, r.bytes = 0
  PROVE  Run(r) = << >> /\ Run(r) \in Seq(Bash!OutputStreams) /\ Len(Run(r)) = 0
<1>1. Run(r) = << >>
  BY DEF Run
<1>2. << >> \in Seq(Bash!OutputStreams) /\ Len(<< >>) = 0
  OBVIOUS
<1>3. QED
  BY <1>1, <1>2

LEMMA RunGrows ==
  ASSUME NEW x \in Bash!OutputStreams, NEW r \in Buffers, r.stream = x \/ r.bytes = 0
  PROVE  /\ Run(r) \in Seq(Bash!OutputStreams) /\ Len(Run(r)) = r.bytes
         /\ Run([stream |-> x, bytes |-> r.bytes + 1]) = Append(Run(r), x)
<1> DEFINE n == r.bytes
           t == [stream |-> x, bytes |-> n + 1]
<1>1. n \in Nat
  BY DEF Buffers
<1>2. Run(r) \in Seq(Bash!OutputStreams) /\ Len(Run(r)) = n /\ \A i \in 1..n : Run(r)[i] = x
  <2>1. CASE r.bytes = 0
    <3>1. Run(r) \in Seq(Bash!OutputStreams) /\ Len(Run(r)) = 0
      BY <2>1, NoRun
    <3>2. 1..n = {}
      BY <2>1
    <3>3. QED
      BY <2>1, <3>1, <3>2
  <2>2. CASE r.bytes # 0
    <3>1. r.stream = x
      BY <2>2
    <3>2. QED
      BY <1>1, <3>1 DEF Run
  <2>3. QED
    BY <2>1, <2>2
<1>3. t \in Records /\ t.bytes = n + 1 /\ t.stream = x
  BY <1>1 DEF Records
<1>4. Run(t) \in Seq(Bash!OutputStreams) /\ Len(Run(t)) = n + 1 /\ \A i \in 1..(n + 1) : Run(t)[i] = x
  BY <1>3, RunIsASeq DEF Run
<1> HIDE DEF t, n
<1>5. /\ Append(Run(r), x) \in Seq(Bash!OutputStreams) /\ Len(Append(Run(r), x)) = n + 1
      /\ \A i \in 1..n : Append(Run(r), x)[i] = Run(r)[i]
      /\ Append(Run(r), x)[n + 1] = x
  BY <1>2, AppendProperties
<1>6. \A i \in 1..(n + 1) : Append(Run(r), x)[i] = x
  <2>1. \A i \in 1..(n + 1) : i \in 1..n \/ i = n + 1
    BY <1>1
  <2>2. QED
    BY <1>2, <1>5, <2>1
<1>7. Run(t) = Append(Run(r), x)
  BY <1>4, <1>5, <1>6, SeqEqual
<1>8. QED
  BY <1>2, <1>7 DEF t, n

\* The bytes of a capture are as many as it holds.
LEMMA HeldIsCounted ==
  ASSUME NEW c \in Captures, Owned(c)
  PROVE  /\ Bash!Held(c) \in Nat
         /\ Chars(c) \in Seq(Bash!OutputStreams) /\ Len(Chars(c)) = Bash!Held(c)
<1>1. c.records \in Seq(Records) /\ c.pending \in Buffers /\ c.pending.bytes \in Nat
      /\ c.pending.stream \in Bash!OutputStreams \cup {"none"}
  BY CaptureFields
<1>2. Bash!BytesIn(c.records) \in Nat /\ Bash!BytesOf(c.records) \in Seq(Bash!OutputStreams)
      /\ Len(Bash!BytesOf(c.records)) = Bash!BytesIn(c.records)
  BY <1>1, AsManyBytes
<1>3. Run(c.pending) \in Seq(Bash!OutputStreams) /\ Len(Run(c.pending)) = c.pending.bytes
  <2>1. CASE c.pending.bytes = 0
    BY <2>1, NoRun
  <2>2. CASE c.pending.bytes # 0
    <3>1. c.pending.stream \in Bash!OutputStreams
      BY <1>1, <2>2 DEF Owned
    <3>2. QED
      BY <1>1, <3>1, RunGrows
  <2>3. QED
    BY <2>1, <2>2
<1> DEFINE A == Bash!BytesOf(c.records)
           B == Run(c.pending)
<1>4. A \o B \in Seq(Bash!OutputStreams) /\ Len(A \o B) = Len(A) + Len(B)
  <2> HIDE DEF A, B
  <2>1. QED
    BY <1>2, <1>3, ConcatProperties DEF A, B
<1>5. Bash!Held(c) = Bash!BytesIn(c.records) + c.pending.bytes /\ Chars(c) = A \o B
  BY DEF Bash!Held, Chars
<1>6. Len(A) = Bash!BytesIn(c.records) /\ Len(B) = c.pending.bytes
  BY <1>2, <1>3
<1> HIDE DEF A, B
<1>7. QED
  BY <1>1, <1>2, <1>4, <1>5, <1>6

\* A flush changes nothing of it.
LEMMA FlushKeeps ==
  ASSUME NEW c \in Captures, Owned(c)
  PROVE  /\ Bash!Flush(c) \in Captures /\ Owned(Bash!Flush(c))
         /\ Bash!Flush(c).pending.bytes = 0 /\ Bash!Flush(c).pending.stream = "none"
         /\ Bash!Flush(c).limited = c.limited
         /\ Bash!Held(Bash!Flush(c)) = Bash!Held(c) /\ Chars(Bash!Flush(c)) = Chars(c)
         /\ Bash!BytesIn(Bash!Flush(c).records) = Bash!Held(c) /\ Bash!BytesOf(Bash!Flush(c).records) = Chars(c)
<1>1. c.records \in Seq(Records) /\ c.pending \in Buffers /\ c.pending.bytes \in Nat
      /\ c.pending.stream \in Bash!OutputStreams \cup {"none"} /\ c.limited \in BOOLEAN
  BY CaptureFields
<1>2. Bash!BytesIn(c.records) \in Nat /\ Bash!BytesOf(c.records) \in Seq(Bash!OutputStreams)
  BY <1>1, AsManyBytes
<1>3. CASE c.pending.bytes = 0
  <2>1. Bash!Flush(c) = c /\ c.pending.stream = "none"
    BY <1>3 DEF Bash!Flush, Owned
  <2>2. Bash!Held(c) = Bash!BytesIn(c.records)
    BY <1>2, <1>3 DEF Bash!Held
  <2>3. Chars(c) = Bash!BytesOf(c.records)
    BY <1>2, <1>3, NoRun, ConcatEmptySeq DEF Chars
  <2>4. QED
    BY <1>3, <2>1, <2>2, <2>3
<1>4. CASE c.pending.bytes # 0
  <2> DEFINE f == Bash!Flush(c)
             more == Append(c.records, c.pending)
  <2>1. c.pending \in Records
    BY <1>1, <1>4 DEF Owned, Buffers, Records
  <2>2. /\ more \in Seq(Records)
        /\ Bash!BytesIn(more) = Bash!BytesIn(c.records) + c.pending.bytes
        /\ Bash!BytesOf(more) = Bash!BytesOf(c.records) \o Run(c.pending)
    BY <1>1, <2>1, OneMore
  <2> HIDE DEF more
  <2>3. f.records = more /\ f.pending = Bash!Empty /\ f.limited = c.limited
        /\ f = [records |-> more, pending |-> Bash!Empty, limited |-> c.limited]
    BY <1>4 DEF Bash!Flush, Owned, Captures, more
  <2> HIDE DEF f
  <2>4. Bash!Empty \in Buffers /\ Bash!Empty.bytes = 0 /\ Bash!Empty.stream = "none"
    BY DEF Bash!Empty, Buffers
  <2>5. f \in Captures /\ Owned(f)
    BY <1>1, <2>2, <2>3, <2>4 DEF Captures, Owned
  <2>6. Bash!BytesIn(more) = Bash!Held(c) /\ Bash!BytesOf(more) = Chars(c)
    BY <2>2 DEF Bash!Held, Chars
  <2>7. Bash!Held(f) = Bash!BytesIn(more)
    <3>1. Bash!BytesIn(more) \in Nat
      BY <2>2, AsManyBytes
    <3>2. QED
      BY <2>3, <2>4, <3>1 DEF Bash!Held
  <2>8. Chars(f) = Bash!BytesOf(more)
    <3>1. Bash!BytesOf(more) \in Seq(Bash!OutputStreams)
      BY <2>2, AsManyBytes
    <3>2. QED
      BY <2>3, <2>4, <3>1, NoRun, ConcatEmptySeq DEF Chars
  <2>9. QED
    BY <2>3, <2>4, <2>5, <2>6, <2>7, <2>8 DEF f
<1>5. QED
  BY <1>3, <1>4

LEMMA FlushHolds ==
  ASSUME NEW c, NEW s, Holds(c, s), Coalesce \in Nat \ {0}
  PROVE  Holds(Bash!Flush(c), s)
<1>1. c \in Captures /\ Owned(c)
  BY DEF Holds
<1>2. QED
  BY <1>1, FlushKeeps DEF Holds

\* One byte more in the buffer.
Buffered(c, x) == [c EXCEPT !.pending = [stream |-> x, bytes |-> @.bytes + 1]]
Taken(c, x)    == IF c.limited THEN c ELSE Bash!Settled(Buffered(c, x))

LEMMA BufferedByte ==
  ASSUME NEW c \in Captures, Owned(c), NEW x \in Bash!OutputStreams, c.pending.stream \in {"none", x}
  PROVE  /\ Buffered(c, x) \in Captures /\ Owned(Buffered(c, x))
         /\ Buffered(c, x).pending.stream = x /\ Buffered(c, x).limited = c.limited
         /\ Buffered(c, x).pending.bytes = c.pending.bytes + 1
         /\ Bash!Held(Buffered(c, x)) = Bash!Held(c) + 1
         /\ Chars(Buffered(c, x)) = Append(Chars(c), x)
<1> DEFINE d == Buffered(c, x)
           p == [stream |-> x, bytes |-> c.pending.bytes + 1]
<1>1. c.records \in Seq(Records) /\ c.pending \in Buffers /\ c.pending.bytes \in Nat
      /\ c.limited \in BOOLEAN
  BY CaptureFields
<1>2. d = [records |-> c.records, pending |-> p, limited |-> c.limited]
  BY DEF Buffered, Captures
<1>3. p \in Buffers /\ p.stream = x /\ p.bytes = c.pending.bytes + 1
  BY <1>1 DEF Buffers
<1>4. d.records = c.records /\ d.pending = p /\ d.limited = c.limited
  BY <1>2
<1>5. d \in Captures
  BY <1>1, <1>2, <1>3 DEF Captures
<1>6. Owned(d)
  BY <1>1, <1>3, <1>4 DEF Owned, Bash!OutputStreams
<1>7. Bash!BytesIn(c.records) \in Nat /\ Bash!BytesOf(c.records) \in Seq(Bash!OutputStreams)
  BY <1>1, AsManyBytes
<1>8. Bash!Held(d) = Bash!Held(c) + 1
  BY <1>1, <1>3, <1>4, <1>7 DEF Bash!Held
<1>9. Run(c.pending) \in Seq(Bash!OutputStreams) /\ Run(p) = Append(Run(c.pending), x)
  <2>1. c.pending.stream = x \/ c.pending.bytes = 0
    BY DEF Owned
  <2>2. QED
    BY <1>1, <2>1, RunGrows
<1>10. Chars(d) = Append(Chars(c), x)
  <2>1. Append(Run(c.pending), x) = Run(c.pending) \o <<x>> /\ <<x>> \in Seq(Bash!OutputStreams)
    BY <1>9, AppendIsConcat
  <2>2. Bash!BytesOf(c.records) \o (Run(c.pending) \o <<x>>) = (Bash!BytesOf(c.records) \o Run(c.pending)) \o <<x>>
    BY <1>7, <1>9, <2>1, ConcatAssociative
  <2>3. Chars(c) \in Seq(Bash!OutputStreams)
    BY HeldIsCounted
  <2>4. Append(Chars(c), x) = Chars(c) \o <<x>>
    BY <2>3, AppendIsConcat
  <2> HIDE DEF d, p
  <2>5. QED
    BY <1>4, <1>9, <2>1, <2>2, <2>4 DEF Chars
<1> HIDE DEF p
<1>11. QED
  BY <1>3, <1>4, <1>5, <1>6, <1>8, <1>10

\* A full buffer is flushed, and so it is at the limit.
LEMMA SettledKeeps ==
  ASSUME NEW d \in Captures, Owned(d)
  PROVE  /\ Bash!Settled(d) \in Captures /\ Owned(Bash!Settled(d))
         /\ Bash!Held(Bash!Settled(d)) = Bash!Held(d) /\ Chars(Bash!Settled(d)) = Chars(d)
         /\ d.pending.bytes = Coalesce \/ Bash!Held(d) = CommandLimit =>
              /\ Bash!Settled(d).pending.bytes = 0 /\ Bash!Settled(d).pending.stream = "none"
              /\ Bash!Settled(d).limited <=> Bash!Held(d) = CommandLimit
         /\ d.pending.bytes # Coalesce /\ Bash!Held(d) # CommandLimit => Bash!Settled(d) = d
<1>1. CASE d.pending.bytes = Coalesce \/ Bash!Held(d) = CommandLimit
  <2> DEFINE f == Bash!Flush(d)
             full == Bash!Held(d) = CommandLimit
             e == Bash!Settled(d)
  <2>1. /\ f \in Captures /\ Owned(f) /\ f.pending.bytes = 0 /\ f.pending.stream = "none"
        /\ Bash!Held(f) = Bash!Held(d) /\ Chars(f) = Chars(d)
    BY FlushKeeps
  <2>2. e = [f EXCEPT !.limited = full]
    BY <1>1 DEF Bash!Settled
  <2> HIDE DEF f, full
  <2>3. e.records = f.records /\ e.pending = f.pending /\ e.limited = full /\ e \in Captures
    <3>1. full \in BOOLEAN
      BY DEF full
    <3>2. QED
      BY <2>1, <2>2, <3>1 DEF Captures
  <2> HIDE DEF e
  <2>4. Owned(e) /\ Bash!Held(e) = Bash!Held(f) /\ Chars(e) = Chars(f)
    BY <2>1, <2>3 DEF Owned, Bash!Held, Chars
  <2>5. QED
    BY <1>1, <2>1, <2>3, <2>4 DEF e, full
<1>2. CASE ~ (d.pending.bytes = Coalesce \/ Bash!Held(d) = CommandLimit)
  <2>1. Bash!Settled(d) = d
    BY <1>2 DEF Bash!Settled
  <2>2. QED
    BY <1>2, <2>1
<1>3. QED
  BY <1>1, <1>2

\* Captures whose buffer has bytes of one stream only.
Of(x) == {c \in Captures : Owned(c) /\ c.pending.stream \in {"none", x}}

LEMMA TakenOf ==
  ASSUME NEW x \in Bash!OutputStreams, NEW c \in Of(x)
  PROVE  Taken(c, x) \in Of(x)
<1>1. c \in Captures /\ Owned(c) /\ c.pending.stream \in {"none", x}
  BY DEF Of
<1>2. CASE c.limited
  BY <1>2 DEF Taken
<1>3. CASE ~ c.limited
  <2> DEFINE d == Buffered(c, x)
  <2>1. d \in Captures /\ Owned(d) /\ d.pending.stream = x
    BY <1>1, BufferedByte
  <2> HIDE DEF d
  <2>2. /\ Bash!Settled(d) \in Captures /\ Owned(Bash!Settled(d))
        /\ Bash!Settled(d).pending.stream = "none" \/ Bash!Settled(d) = d
    BY <2>1, SettledKeeps
  <2>3. Bash!Settled(d) \in Of(x)
    BY <2>1, <2>2 DEF Of
  <2>4. QED
    BY <1>3, <2>3 DEF Taken, d
<1>4. QED
  BY <1>2, <1>3

LEMMA TakenHolds ==
  ASSUME Bash!CaptureAssumption, NEW s \in Seq(Bash!OutputStreams), NEW x \in Bash!OutputStreams,
         NEW c \in Of(x), Holds(c, s)
  PROVE  Holds(Taken(c, x), Append(s, x))
<1> DEFINE t == Append(s, x)
           e == Taken(c, x)
<1>1. /\ c \in Captures /\ Owned(c) /\ c.pending.stream \in {"none", x}
      /\ c.pending.bytes \in Nat /\ c.pending.bytes < Coalesce
  BY CaptureFields DEF Of, Holds
<1>2. /\ t \in Seq(Bash!OutputStreams) /\ Len(t) = Len(s) + 1 /\ Len(s) \in Nat
      /\ \A i \in 1..Len(s) : t[i] = s[i]
      /\ t[Len(s) + 1] = x
  BY AppendProperties
<1>3. CommandLimit \in Nat /\ Coalesce \in Nat /\ CommandLimit > 0 /\ Coalesce > 0
  BY DEF Bash!CaptureAssumption
<1>4. /\ Bash!Held(c) \in Nat /\ Chars(c) \in Seq(Bash!OutputStreams) /\ Len(Chars(c)) = Bash!Held(c)
      /\ Bash!Held(c) = Kept(s) /\ \A i \in 1..Kept(s) : Chars(c)[i] = s[i]
      /\ c.limited <=> Bash!Held(c) = CommandLimit
  BY <1>1, HeldIsCounted DEF Holds
<1> HIDE DEF t
<1>5. CASE c.limited
  <2>1. Kept(t) = Kept(s) /\ Kept(s) <= Len(s)
    BY <1>2, <1>3, <1>4, <1>5 DEF Kept
  <2>2. \A i \in 1..Kept(t) : Chars(c)[i] = t[i]
    <3>1. \A i \in 1..Kept(t) : i \in 1..Kept(s) /\ i \in 1..Len(s)
      BY <1>2, <1>4, <2>1
    <3>2. QED
      BY <1>2, <1>4, <3>1
  <2>3. e = c
    BY <1>5 DEF Taken
  <2> HIDE DEF e
  <2>4. Holds(c, t)
    BY <1>4, <2>1, <2>2 DEF Holds
  <2>5. QED
    BY <2>3, <2>4 DEF e, t
<1>6. CASE ~ c.limited
  <2> DEFINE d == Buffered(c, x)
  <2>1. Kept(s) = Len(s) /\ Len(s) < CommandLimit /\ Kept(t) = Len(s) + 1
    BY <1>2, <1>3, <1>4, <1>6 DEF Kept
  <2>2. /\ d \in Captures /\ Owned(d) /\ d.limited = c.limited
        /\ d.pending.bytes = c.pending.bytes + 1
        /\ Bash!Held(d) = Bash!Held(c) + 1 /\ Chars(d) = Append(Chars(c), x)
    BY <1>1, BufferedByte
  <2>3. e = Bash!Settled(d)
    BY <1>6 DEF Taken
  <2> HIDE DEF d, e
  <2>4. /\ e \in Captures /\ Owned(e) /\ Bash!Held(e) = Bash!Held(d) /\ Chars(e) = Chars(d)
        /\ d.pending.bytes = Coalesce \/ Bash!Held(d) = CommandLimit =>
              e.pending.bytes = 0 /\ (e.limited <=> Bash!Held(d) = CommandLimit)
        /\ d.pending.bytes # Coalesce /\ Bash!Held(d) # CommandLimit => e = d
    BY <2>2, <2>3, SettledKeeps
  <2>5. \A i \in 1..Kept(t) : Chars(e)[i] = t[i]
    <3>1. /\ \A i \in 1..Len(s) : Append(Chars(c), x)[i] = Chars(c)[i]
          /\ Append(Chars(c), x)[Len(s) + 1] = x
      BY <1>4, <2>1, AppendProperties
    <3>2. \A i \in 1..Kept(t) : i \in 1..Len(s) \/ i = Len(s) + 1
      BY <1>2, <2>1
    <3>3. QED
      BY <1>2, <1>4, <2>1, <2>2, <2>4, <3>1, <3>2
  <2>6. Bash!Held(e) = Kept(t)
    BY <1>4, <2>1, <2>2, <2>4
  <2>7. e.pending.bytes < Coalesce
    <3>1. d.pending.bytes \in Nat /\ d.pending.bytes <= Coalesce
      BY <1>1, <1>3, <2>2
    <3>2. CASE d.pending.bytes = Coalesce \/ Bash!Held(d) = CommandLimit
      BY <1>3, <2>4, <3>2
    <3>3. CASE ~ (d.pending.bytes = Coalesce \/ Bash!Held(d) = CommandLimit)
      <4>1. e = d /\ d.pending.bytes # Coalesce
        BY <2>4, <3>3
      <4>2. QED
        BY <1>3, <3>1, <4>1
    <3>4. QED
      BY <3>2, <3>3
  <2>8. (e.limited <=> Bash!Held(e) = CommandLimit) /\ (e.limited => e.pending.bytes = 0)
    BY <1>6, <2>2, <2>4
  <2>9. Holds(e, t)
    BY <2>4, <2>5, <2>6, <2>7, <2>8 DEF Holds
  <2>10. QED
    BY <2>9 DEF e, t
<1>7. QED
  BY <1>5, <1>6

\* What accept makes of a chunk, byte after byte.
AfterBytes(c, x, length, f) ==
  [n \in 0..length |-> IF n = 0 THEN c ELSE Taken(f[n - 1], x)]
After(c, x, length) == CHOOSE f : f = AfterBytes(c, x, length, f)

LEMMA EachUnfolds ==
  ASSUME NEW x \in Bash!OutputStreams, NEW c \in Of(x), NEW length \in Nat
  PROVE  /\ Bash!Each(c, x, length) = After(c, x, length)[length]
         /\ After(c, x, length)[0] = c
         /\ \A n \in 1..length : After(c, x, length)[n] = Taken(After(c, x, length)[n - 1], x)
<1> DEFINE S == Of(x)
           g == [n \in 1..length |-> [d \in S |-> Taken(d, x)]]
           a == After(c, x, length)
<1>1. g \in StepsIn(S, length)
  BY TakenOf DEF StepsIn
<1>2. \A n \in 1..length : \A d \in S : g[n][d] = Taken(d, x)
  OBVIOUS
<1> HIDE DEF g, S
<1>3. c \in S
  BY DEF S
<1>4. \E f : f \in Built(S, c, length, g)
  BY <1>1, <1>3, StepByStep
<1>5. PICK f \in [0..length -> S] : f[0] = c /\ \A n \in 1..length : f[n] = g[n][f[n - 1]]
  BY <1>4 DEF Built
<1>6. \A n \in 1..length : f[n] = Taken(f[n - 1], x)
  <2>1. \A n \in 1..length : n - 1 \in 0..length
    OBVIOUS
  <2>2. \A n \in 1..length : f[n - 1] \in S
    BY <2>1
  <2>3. QED
    BY <1>2, <1>5, <2>2
<1>7. f = AfterBytes(c, x, length, f)
  <2>1. \A n \in 0..length : n = 0 \/ n \in 1..length
    OBVIOUS
  <2>2. \A n \in 0..length : f[n] = IF n = 0 THEN c ELSE Taken(f[n - 1], x)
    BY <1>5, <1>6, <2>1
  <2>3. QED
    BY <2>2 DEF AfterBytes
<1>8. a = AfterBytes(c, x, length, a)
  BY <1>7 DEF After
<1>9. Bash!Each(c, x, length) = a[length]
  BY DEF Bash!Each, After, AfterBytes, Taken, Buffered
<1> HIDE DEF a
<1>10. \A n \in 0..length : a[n] = IF n = 0 THEN c ELSE Taken(a[n - 1], x)
  <2>1. \A h : \A n \in 0..length : AfterBytes(c, x, length, h)[n] = IF n = 0 THEN c ELSE Taken(h[n - 1], x)
    BY DEF AfterBytes
  <2>2. QED
    BY <1>8, <2>1
<1>11. 0 \in 0..length /\ \A n \in 1..length : n \in 0..length /\ n # 0
  OBVIOUS
<1>12. a[0] = c /\ \A n \in 1..length : a[n] = Taken(a[n - 1], x)
  BY <1>10, <1>11
<1>13. QED
  BY <1>9, <1>12 DEF a

\* Further bytes of a stream.
Further(s, x, n) == s \o Run([stream |-> x, bytes |-> n])

LEMMA FurtherByte ==
  ASSUME NEW s \in Seq(Bash!OutputStreams), NEW x \in Bash!OutputStreams, NEW n \in Nat
  PROVE  /\ Further(s, x, n) \in Seq(Bash!OutputStreams)
         /\ Further(s, x, n + 1) = Append(Further(s, x, n), x)
         /\ Further(s, x, 0) = s
<1> DEFINE r == [stream |-> x, bytes |-> n]
           t == [stream |-> x, bytes |-> n + 1]
           z == [stream |-> x, bytes |-> 0]
<1>1. r \in Buffers /\ r.stream = x /\ r.bytes = n
  BY DEF Buffers
<1>2. Run(r) \in Seq(Bash!OutputStreams) /\ Run(t) = Append(Run(r), x)
  <2>1. t = [stream |-> x, bytes |-> r.bytes + 1]
    OBVIOUS
  <2> HIDE DEF r
  <2>2. QED
    BY <1>1, <2>1, RunGrows
<1>3. z.bytes = 0
  OBVIOUS
<1>4. Run(z) = << >>
  BY <1>3, NoRun
<1> HIDE DEF r, t, z
<1>5. Append(Run(r), x) = Run(r) \o <<x>> /\ <<x>> \in Seq(Bash!OutputStreams)
  BY <1>2, AppendIsConcat
<1>6. s \o Run(r) \in Seq(Bash!OutputStreams)
  BY <1>2, ConcatProperties
<1>7. Append(s \o Run(r), x) = (s \o Run(r)) \o <<x>>
  BY <1>6, AppendIsConcat
<1>8. s \o (Run(r) \o <<x>>) = (s \o Run(r)) \o <<x>>
  BY <1>2, <1>5, ConcatAssociative
<1>9. s \o << >> = s
  BY ConcatEmptySeq
<1>10. QED
  BY <1>2, <1>4, <1>5, <1>6, <1>7, <1>8, <1>9 DEF Further, r, t, z

LEMMA EachHolds ==
  ASSUME Bash!CaptureAssumption, NEW s \in Seq(Bash!OutputStreams), NEW x \in Bash!OutputStreams,
         NEW c \in Of(x), Holds(c, s), NEW length \in Nat
  PROVE  Bash!Each(c, x, length) \in Of(x) /\ Holds(Bash!Each(c, x, length), Further(s, x, length))
<1> DEFINE a == After(c, x, length)
           T == {n \in 0..length : a[n] \in Of(x) /\ Holds(a[n], Further(s, x, n))}
<1>1. /\ Bash!Each(c, x, length) = a[length] /\ a[0] = c
      /\ \A n \in 1..length : a[n] = Taken(a[n - 1], x)
  BY EachUnfolds
<1> HIDE DEF a
<1>2. 0 \in T
  <2>1. Further(s, x, 0) = s
    BY FurtherByte
  <2>2. 0 \in 0..length
    OBVIOUS
  <2>3. QED
    BY <1>1, <2>1, <2>2
<1>3. ASSUME NEW n \in 1..length, n - 1 \in T
      PROVE  n \in T
  <2>1. n - 1 \in Nat /\ (n - 1) + 1 = n /\ n \in 0..length
    OBVIOUS
  <2>2. a[n - 1] \in Of(x) /\ Holds(a[n - 1], Further(s, x, n - 1))
    BY <1>3
  <2>3. /\ Further(s, x, n - 1) \in Seq(Bash!OutputStreams)
        /\ Further(s, x, n) = Append(Further(s, x, n - 1), x)
    <3> DEFINE m == n - 1
    <3>1. m \in Nat /\ m + 1 = n
      BY <2>1
    <3> HIDE DEF m
    <3>2. Further(s, x, m) \in Seq(Bash!OutputStreams) /\ Further(s, x, m + 1) = Append(Further(s, x, m), x)
      BY <3>1, FurtherByte
    <3>3. QED
      BY <3>1, <3>2 DEF m
  <2> DEFINE b == a[n - 1]
             t == Further(s, x, n - 1)
  <2> HIDE DEF b, t
  <2>4. Taken(b, x) \in Of(x) /\ Holds(Taken(b, x), Append(t, x))
    BY <2>2, <2>3, TakenOf, TakenHolds DEF b, t
  <2>5. a[n] = Taken(b, x)
    BY <1>1 DEF b
  <2>6. QED
    BY <2>1, <2>3, <2>4, <2>5 DEF t
<1>4. \A n \in 0..length : n \in T
  <2> HIDE DEF T
  <2>1. QED
    BY <1>2, <1>3, UpTo
<1>5. length \in 0..length
  OBVIOUS
<1>6. QED
  BY <1>1, <1>4, <1>5

LEMMA LimitedHolds ==
  ASSUME Bash!CaptureAssumption, NEW s \in Seq(Bash!OutputStreams), NEW x \in Bash!OutputStreams,
         NEW c, Holds(c, s), c.limited, NEW length \in Nat
  PROVE  Holds(c, Further(s, x, length))
<1> DEFINE T == {n \in 0..length : Holds(c, Further(s, x, n))}
<1>1. c \in Captures /\ Owned(c) /\ c.pending.bytes = 0
  BY DEF Holds
<1>2. c \in Of(x)
  BY <1>1 DEF Of, Owned
<1>3. Taken(c, x) = c
  BY DEF Taken
<1>4. 0 \in T
  <2>1. Further(s, x, 0) = s
    BY FurtherByte
  <2>2. QED
    BY <2>1
<1>5. ASSUME NEW n \in 1..length, n - 1 \in T
      PROVE  n \in T
  <2> DEFINE t == Further(s, x, n - 1)
  <2>1. n - 1 \in Nat /\ (n - 1) + 1 = n /\ n \in 0..length
    OBVIOUS
  <2>2. t \in Seq(Bash!OutputStreams) /\ Further(s, x, n) = Append(t, x)
    <3> DEFINE m == n - 1
    <3>1. m \in Nat /\ m + 1 = n
      BY <2>1
    <3> HIDE DEF m
    <3>2. Further(s, x, m) \in Seq(Bash!OutputStreams) /\ Further(s, x, m + 1) = Append(Further(s, x, m), x)
      BY <3>1, FurtherByte
    <3>3. QED
      BY <3>1, <3>2 DEF m
  <2>3. Holds(c, t)
    BY <1>5
  <2> HIDE DEF t
  <2>4. Holds(c, Append(t, x))
    BY <1>2, <1>3, <2>2, <2>3, TakenHolds
  <2>5. QED
    BY <2>1, <2>2, <2>4
<1>6. \A n \in 0..length : n \in T
  <2> HIDE DEF T
  <2>1. QED
    BY <1>4, <1>5, UpTo
<1>7. length \in 0..length
  OBVIOUS
<1>8. QED
  BY <1>6, <1>7

\* accept keeps what it is given, and the limit once it is reached.
LEMMA AcceptHolds ==
  ASSUME Bash!CaptureAssumption, NEW s \in Seq(Bash!OutputStreams), NEW x \in Bash!OutputStreams,
         NEW c, Holds(c, s), NEW length \in Nat
  PROVE  /\ Holds(Bash!Accept(c, x, length), Further(s, x, length))
         /\ c.limited => Bash!Accept(c, x, length) = c
<1>1. CASE c.limited
  BY <1>1, LimitedHolds DEF Bash!Accept
<1>2. CASE ~ c.limited
  <2> DEFINE d == IF c.pending.stream \notin {"none", x} THEN Bash!Flush(c) ELSE c
  <2>1. c \in Captures /\ Owned(c)
    BY DEF Holds
  <2>2. d \in Of(x) /\ Holds(d, s)
    <3>1. Bash!Flush(c) \in Captures /\ Owned(Bash!Flush(c)) /\ Bash!Flush(c).pending.stream = "none"
      BY <2>1, FlushKeeps
    <3>2. Holds(Bash!Flush(c), s)
      BY FlushHolds DEF Bash!CaptureAssumption
    <3>3. QED
      BY <2>1, <3>1, <3>2 DEF Of
  <2>3. Bash!Accept(c, x, length) = Bash!Each(d, x, length)
    BY <1>2 DEF Bash!Accept
  <2> HIDE DEF d
  <2>4. QED
    BY <1>2, <2>2, <2>3, EachHolds
<1>3. QED
  BY <1>1, <1>2

-----------------------------------------------------------------------------
(* The inductive invariant. *)

\* Who lives, who has ended, and what has been seen of it.
ProcInv ==
  /\ at_run = "spawning" => /\ group = {} /\ escaped = {} /\ holders = {} /\ exit = "none"
                        /\ ~ observed /\ eof = {} /\ absence = "waiting"
  /\ observed => exit # "none"
  /\ terminal # "none" => observed /\ terminal = exit
  /\ eof # {} => holders = {}
  /\ absence = "absent" => group = {}

\* What runNativeBash has done, and why.
StopInv ==
  /\ at_run = "stopping" => observed \/ stop
  /\ outrun => stop
  /\ at_run \in {"waiting", "observing", "returned", "thrown"} /\ group # {} => killed

\* The capture holds what came, and the limit is the reason once it is reached.
CaptureInv ==
  /\ came \in Seq(Bash!OutputStreams) /\ Holds(Bash!Captured, came)
  /\ at_run = "spawning" => came = << >>
  /\ limited <=> reason = "output_limit"

\* There is a result when it is over.
ResultInv ==
  /\ ~ Bash!Over => result = Bash!NoResult
  /\ at_run = "returned" => result.kind = "result"
  /\ at_run = "thrown" => result.kind = "unknown"

BashInv == ProcInv /\ StopInv /\ CaptureInv /\ ResultInv /\ Bash!OutcomeIsTrue

\* The types of all but the buffer.
PlainTypes ==
  /\ group \subseteq Bash!Procs /\ escaped \subseteq Descendants /\ holders \subseteq Bash!Procs
  /\ unborn \subseteq Descendants /\ exit \in ExitKinds \cup {"none", "signal"}
  /\ observed \in BOOLEAN /\ eof \subseteq Bash!OutputStreams
  /\ at_run \in {"spawning", "racing", "stopping", "waiting", "observing", "returned", "thrown"}
  /\ reason \in {"none", "timeout", "cancelled", "output_limit", "io_error"}
  /\ stop \in BOOLEAN /\ armed \in BOOLEAN /\ (reason # "none") = stop
  /\ terminal \in Bash!Ends \cup {"none"}
  /\ (at_run # "spawning" /\ result.kind # "result" => (Bash!Child \in group) = (~ observed))

LEMMA TypesApart ==
  Bash!TypeOK <=> /\ PlainTypes
             /\ pending \in [stream : Bash!OutputStreams \cup {"none"}, bytes : 0..(Coalesce - 1)]
  BY DEF Bash!TypeOK, PlainTypes

LEMMA FurtherInSeq ==
  ASSUME NEW s \in Seq(Bash!OutputStreams), NEW x \in Bash!OutputStreams, NEW n \in Nat
  PROVE  Further(s, x, n) \in Seq(Bash!OutputStreams)
  BY FurtherByte

-----------------------------------------------------------------------------
(* The steps. *)

\* The types of all but the buffer.
LEMMA PlainKept ==
  ASSUME Bash!ProcessAssumption, Bash!CaptureAssumption, BashInv, [Bash!Next]_(Bash!vars)
  PROVE  PlainTypes'
<1>i. PlainTypes /\ ProcInv /\ ResultInv /\ Bash!Child \notin Descendants /\ ExitKinds \subseteq Bash!Ends
  BY TypesApart DEF BashInv, Bash!OutcomeIsTrue, Bash!ProcessAssumption, Bash!CaptureAssumption
<1>1. CASE Bash!Spawn
  <2>1. \/ /\ group' = {Bash!Child} /\ holders' = {Bash!Child} /\ at_run' = "racing"
           /\ armed' = armed /\ result' = result
        \/ /\ group' = group /\ holders' = holders /\ at_run' = "returned" /\ armed' = FALSE
           /\ result'.kind = "result"
    BY <1>1 DEF Bash!Spawn
  <2>2. UNCHANGED <<escaped, unborn, exit, observed, eof, reason, stop, terminal>> /\ ~ observed
    BY <1>i, <1>1 DEF Bash!Spawn, ProcInv
  <2>3. QED
    BY <1>i, <2>1, <2>2 DEF PlainTypes, Bash!Procs
<1>2. CASE Bash!Raced
  BY <1>i, <1>2 DEF Bash!Raced, Bash!RequestStop, Bash!Ended, Bash!Died, PlainTypes, ProcInv,
       ResultInv, Bash!NoResult, Bash!Procs, Bash!Over, Bash!LastTerminal, Bash!Ends, Bash!Known,
       Bash!vars, Bash!procs, Bash!capture, Bash!cleanup
<1>3. CASE Bash!SendTerm
  BY <1>i, <1>3 DEF Bash!SendTerm, Bash!RequestStop, Bash!Ended, Bash!Died, PlainTypes, ProcInv,
       ResultInv, Bash!NoResult, Bash!Procs, Bash!Over, Bash!LastTerminal, Bash!Ends, Bash!Known,
       Bash!vars, Bash!procs, Bash!capture, Bash!cleanup
<1>4. CASE Bash!GraceOver
  BY <1>i, <1>4 DEF Bash!GraceOver, Bash!RequestStop, Bash!Ended, Bash!Died, PlainTypes, ProcInv,
       ResultInv, Bash!NoResult, Bash!Procs, Bash!Over, Bash!LastTerminal, Bash!Ends, Bash!Known,
       Bash!vars, Bash!procs, Bash!capture, Bash!cleanup
<1>5. CASE Bash!Waited
  BY <1>i, <1>5 DEF Bash!Waited, Bash!RequestStop, Bash!Ended, Bash!Died, PlainTypes, ProcInv,
       ResultInv, Bash!NoResult, Bash!Procs, Bash!Over, Bash!LastTerminal, Bash!Ends, Bash!Known,
       Bash!vars, Bash!procs, Bash!capture, Bash!cleanup
<1>6. CASE Bash!ObserveGroup
  BY <1>i, <1>6 DEF Bash!ObserveGroup, Bash!RequestStop, Bash!Ended, Bash!Died, PlainTypes,
       ProcInv, ResultInv, Bash!NoResult, Bash!Procs, Bash!Over, Bash!LastTerminal, Bash!Ends,
       Bash!Known, Bash!vars, Bash!procs, Bash!capture, Bash!cleanup
<1>7. CASE Bash!ObserveEof
  BY <1>i, <1>7 DEF Bash!ObserveEof, Bash!RequestStop, Bash!Ended, Bash!Died, PlainTypes, ProcInv,
       ResultInv, Bash!NoResult, Bash!Procs, Bash!Over, Bash!LastTerminal, Bash!Ends, Bash!Known,
       Bash!vars, Bash!procs, Bash!capture, Bash!cleanup
<1>8. CASE Bash!Conclude
  <2>2. \/ /\ at_run' = "returned" /\ armed' = FALSE /\ result'.kind = "result"
        \/ /\ at_run' = "thrown" /\ armed' = FALSE /\ result.kind = "none" /\ at_run # "spawning"
    BY <1>i, <1>8 DEF Bash!Conclude, ResultInv, Bash!NoResult, Bash!Over
  <2>3. UNCHANGED <<group, escaped, holders, unborn, exit, observed, eof, reason, stop, terminal>>
    BY <1>8 DEF Bash!Conclude, Bash!procs
  <2>4. QED
    BY <1>i, <2>2, <2>3 DEF PlainTypes
<1>9. CASE Bash!Timeout
  BY <1>i, <1>9 DEF Bash!Timeout, Bash!RequestStop, Bash!Ended, Bash!Died, PlainTypes, ProcInv,
       ResultInv, Bash!NoResult, Bash!Procs, Bash!Over, Bash!LastTerminal, Bash!Ends, Bash!Known,
       Bash!vars, Bash!procs, Bash!capture, Bash!cleanup
<1>10. CASE Bash!Abort
  BY <1>i, <1>10 DEF Bash!Abort, Bash!RequestStop, Bash!Ended, Bash!Died, PlainTypes, ProcInv,
       ResultInv, Bash!NoResult, Bash!Procs, Bash!Over, Bash!LastTerminal, Bash!Ends, Bash!Known,
       Bash!vars, Bash!procs, Bash!capture, Bash!cleanup
<1>11. CASE Bash!StreamError
  BY <1>i, <1>11 DEF Bash!StreamError, Bash!RequestStop, Bash!Ended, Bash!Died, PlainTypes,
       ProcInv, ResultInv, Bash!NoResult, Bash!Procs, Bash!Over, Bash!LastTerminal, Bash!Ends,
       Bash!Known, Bash!vars, Bash!procs, Bash!capture, Bash!cleanup
<1>12. CASE Bash!ExitEvent
  <2>1. /\ group' = group \ {Bash!Child} /\ observed' = TRUE /\ armed' = FALSE
        /\ UNCHANGED <<escaped, holders, unborn, exit, eof, reason, stop, terminal, at_run, result>>
    BY <1>12 DEF Bash!ExitEvent
  <2>2. (Bash!Child \in group') = FALSE /\ observed \in BOOLEAN
    BY <1>i, <2>1 DEF PlainTypes
  <2>3. (Bash!Child \in group') = (~ observed')
    BY <2>1, <2>2
  <2>4. group' \subseteq Bash!Procs /\ observed' \in BOOLEAN /\ armed' \in BOOLEAN
    BY <1>i, <2>1 DEF PlainTypes
  <2>5. QED
    BY <1>i, <2>1, <2>3, <2>4 DEF PlainTypes
<1>13. ASSUME NEW s \in Bash!OutputStreams, Bash!EofEvent(s)
      PROVE  PlainTypes'
  BY <1>i, <1>13 DEF Bash!EofEvent, Bash!RequestStop, Bash!Ended, Bash!Died, PlainTypes, ProcInv,
       ResultInv, Bash!NoResult, Bash!Procs, Bash!Over, Bash!LastTerminal, Bash!Ends, Bash!Known,
       Bash!vars, Bash!procs, Bash!capture, Bash!cleanup
<1>14. ASSUME NEW s \in Bash!OutputStreams, NEW n \in 1..MaxChunk, Bash!DataEvent(s, n)
      PROVE  PlainTypes'
  BY <1>i, <1>14 DEF Bash!DataEvent, Bash!RequestStop, Bash!Ended, Bash!Died, PlainTypes, ProcInv,
       ResultInv, Bash!NoResult, Bash!Procs, Bash!Over, Bash!LastTerminal, Bash!Ends, Bash!Known,
       Bash!vars, Bash!procs, Bash!capture, Bash!cleanup
<1>15. ASSUME NEW p \in Bash!Procs, Bash!Fork(p), ~ Bash!Over
      PROVE  PlainTypes'
  BY <1>i, <1>15 DEF Bash!Fork, Bash!RequestStop, Bash!Ended, Bash!Died, PlainTypes, ProcInv,
       ResultInv, Bash!NoResult, Bash!Procs, Bash!Over, Bash!LastTerminal, Bash!Ends, Bash!Known,
       Bash!vars, Bash!procs, Bash!capture, Bash!cleanup
<1>16. ASSUME NEW p \in Bash!Procs, Bash!Escape(p), ~ Bash!Over
      PROVE  PlainTypes'
  BY <1>i, <1>16 DEF Bash!Escape, Bash!RequestStop, Bash!Ended, Bash!Died, PlainTypes, ProcInv,
       ResultInv, Bash!NoResult, Bash!Procs, Bash!Over, Bash!LastTerminal, Bash!Ends, Bash!Known,
       Bash!vars, Bash!procs, Bash!capture, Bash!cleanup
<1>17. ASSUME NEW p \in Bash!Procs, Bash!ClosePipes(p), ~ Bash!Over
      PROVE  PlainTypes'
  BY <1>i, <1>17 DEF Bash!ClosePipes, Bash!RequestStop, Bash!Ended, Bash!Died, PlainTypes,
       ProcInv, ResultInv, Bash!NoResult, Bash!Procs, Bash!Over, Bash!LastTerminal, Bash!Ends,
       Bash!Known, Bash!vars, Bash!procs, Bash!capture, Bash!cleanup
<1>18. ASSUME NEW p \in Bash!Procs, Bash!End(p), ~ Bash!Over
      PROVE  PlainTypes'
  BY <1>i, <1>18 DEF Bash!End, Bash!RequestStop, Bash!Ended, Bash!Died, PlainTypes, ProcInv,
       ResultInv, Bash!NoResult, Bash!Procs, Bash!Over, Bash!LastTerminal, Bash!Ends, Bash!Known,
       Bash!vars, Bash!procs, Bash!capture, Bash!cleanup
<1>19. CASE UNCHANGED Bash!vars
  BY <1>i, <1>19 DEF Bash!RequestStop, Bash!Ended, Bash!Died, PlainTypes, ProcInv, ResultInv,
       Bash!NoResult, Bash!Procs, Bash!Over, Bash!LastTerminal, Bash!Ends, Bash!Known, Bash!vars,
       Bash!procs, Bash!capture, Bash!cleanup
<1>20. QED
  BY <1>1, <1>2, <1>3, <1>4, <1>5, <1>6, <1>7, <1>8, <1>9, <1>10, <1>11, <1>12, <1>13, <1>14,
       <1>15, <1>16, <1>17, <1>18, <1>19 DEF Bash!Next, Bash!Main

\* What has been seen of the processes is so.
LEMMA ProcKept ==
  ASSUME Bash!ProcessAssumption, Bash!CaptureAssumption, BashInv, [Bash!Next]_(Bash!vars)
  PROVE  ProcInv'
<1>i. PlainTypes /\ ProcInv /\ StopInv
  BY TypesApart DEF BashInv, Bash!OutcomeIsTrue
<1>1. CASE Bash!Spawn
  BY <1>i, <1>1 DEF Bash!Spawn, Bash!Ended, Bash!Died, PlainTypes, ProcInv, Bash!Procs, Bash!Over,
       Bash!LastTerminal, Bash!vars, Bash!procs, Bash!capture, Bash!cleanup
<1>2. CASE Bash!Raced
  BY <1>i, <1>2 DEF Bash!Raced, Bash!Ended, Bash!Died, PlainTypes, ProcInv, Bash!Procs, Bash!Over,
       Bash!LastTerminal, Bash!vars, Bash!procs, Bash!capture, Bash!cleanup
<1>3. CASE Bash!SendTerm
  BY <1>i, <1>3 DEF Bash!SendTerm, Bash!Ended, Bash!Died, PlainTypes, ProcInv, Bash!Procs,
       Bash!Over, Bash!LastTerminal, Bash!vars, Bash!procs, Bash!capture, Bash!cleanup
<1>4. CASE Bash!GraceOver
  BY <1>i, <1>4 DEF Bash!GraceOver, Bash!Ended, Bash!Died, PlainTypes, ProcInv, Bash!Procs,
       Bash!Over, Bash!LastTerminal, Bash!vars, Bash!procs, Bash!capture, Bash!cleanup
<1>5. CASE Bash!Waited
  BY <1>i, <1>5 DEF Bash!Waited, Bash!Ended, Bash!Died, PlainTypes, ProcInv, Bash!Procs,
       Bash!Over, Bash!LastTerminal, Bash!vars, Bash!procs, Bash!capture, Bash!cleanup
<1>6. CASE Bash!ObserveGroup
  BY <1>i, <1>6 DEF Bash!ObserveGroup, Bash!Ended, Bash!Died, PlainTypes, ProcInv, Bash!Procs,
       Bash!Over, Bash!LastTerminal, Bash!vars, Bash!procs, Bash!capture, Bash!cleanup
<1>7. CASE Bash!ObserveEof
  BY <1>i, <1>7 DEF Bash!ObserveEof, Bash!Ended, Bash!Died, PlainTypes, ProcInv, Bash!Procs,
       Bash!Over, Bash!LastTerminal, Bash!vars, Bash!procs, Bash!capture, Bash!cleanup
<1>8. CASE Bash!Conclude
  BY <1>i, <1>8 DEF Bash!Conclude, Bash!Ended, Bash!Died, PlainTypes, ProcInv, Bash!Procs,
       Bash!Over, Bash!LastTerminal, Bash!vars, Bash!procs, Bash!capture, Bash!cleanup
<1>9. CASE Bash!Timeout
  BY <1>i, <1>9 DEF Bash!Timeout, Bash!Ended, Bash!Died, PlainTypes, ProcInv, Bash!Procs,
       Bash!Over, Bash!LastTerminal, Bash!vars, Bash!procs, Bash!capture, Bash!cleanup
<1>10. CASE Bash!Abort
  BY <1>i, <1>10 DEF Bash!Abort, Bash!Ended, Bash!Died, PlainTypes, ProcInv, Bash!Procs,
       Bash!Over, Bash!LastTerminal, Bash!vars, Bash!procs, Bash!capture, Bash!cleanup
<1>11. CASE Bash!StreamError
  BY <1>i, <1>11 DEF Bash!StreamError, Bash!Ended, Bash!Died, PlainTypes, ProcInv, Bash!Procs,
       Bash!Over, Bash!LastTerminal, Bash!vars, Bash!procs, Bash!capture, Bash!cleanup
<1>12. CASE Bash!ExitEvent
  BY <1>i, <1>12 DEF Bash!ExitEvent, Bash!Ended, Bash!Died, PlainTypes, ProcInv, Bash!Procs,
       Bash!Over, Bash!LastTerminal, Bash!vars, Bash!procs, Bash!capture, Bash!cleanup
<1>13. ASSUME NEW s \in Bash!OutputStreams, Bash!EofEvent(s)
      PROVE  ProcInv'
  BY <1>i, <1>13 DEF Bash!EofEvent, Bash!Ended, Bash!Died, PlainTypes, ProcInv, Bash!Procs,
       Bash!Over, Bash!LastTerminal, Bash!vars, Bash!procs, Bash!capture, Bash!cleanup
<1>14. ASSUME NEW s \in Bash!OutputStreams, NEW n \in 1..MaxChunk, Bash!DataEvent(s, n)
      PROVE  ProcInv'
  BY <1>i, <1>14 DEF Bash!DataEvent, Bash!Ended, Bash!Died, PlainTypes, ProcInv, Bash!Procs,
       Bash!Over, Bash!LastTerminal, Bash!vars, Bash!procs, Bash!capture, Bash!cleanup
<1>15. ASSUME NEW p \in Bash!Procs, Bash!Fork(p), ~ Bash!Over
      PROVE  ProcInv'
  BY <1>i, <1>15 DEF Bash!Fork, Bash!Ended, Bash!Died, PlainTypes, ProcInv, Bash!Procs, Bash!Over,
       Bash!LastTerminal, Bash!vars, Bash!procs, Bash!capture, Bash!cleanup
<1>16. ASSUME NEW p \in Bash!Procs, Bash!Escape(p), ~ Bash!Over
      PROVE  ProcInv'
  BY <1>i, <1>16 DEF Bash!Escape, Bash!Ended, Bash!Died, PlainTypes, ProcInv, Bash!Procs,
       Bash!Over, Bash!LastTerminal, Bash!vars, Bash!procs, Bash!capture, Bash!cleanup
<1>17. ASSUME NEW p \in Bash!Procs, Bash!ClosePipes(p), ~ Bash!Over
      PROVE  ProcInv'
  BY <1>i, <1>17 DEF Bash!ClosePipes, Bash!Ended, Bash!Died, PlainTypes, ProcInv, Bash!Procs,
       Bash!Over, Bash!LastTerminal, Bash!vars, Bash!procs, Bash!capture, Bash!cleanup
<1>18. ASSUME NEW p \in Bash!Procs, Bash!End(p), ~ Bash!Over
      PROVE  ProcInv'
  BY <1>i, <1>18 DEF Bash!End, Bash!Ended, Bash!Died, PlainTypes, ProcInv, Bash!Procs, Bash!Over,
       Bash!LastTerminal, Bash!vars, Bash!procs, Bash!capture, Bash!cleanup
<1>19. CASE UNCHANGED Bash!vars
  BY <1>i, <1>19 DEF Bash!Ended, Bash!Died, PlainTypes, ProcInv, Bash!Procs, Bash!Over,
       Bash!LastTerminal, Bash!vars, Bash!procs, Bash!capture, Bash!cleanup
<1>20. QED
  BY <1>1, <1>2, <1>3, <1>4, <1>5, <1>6, <1>7, <1>8, <1>9, <1>10, <1>11, <1>12, <1>13, <1>14,
       <1>15, <1>16, <1>17, <1>18, <1>19 DEF Bash!Next, Bash!Main

\* Nothing is done without its reason.
LEMMA StopKept ==
  ASSUME Bash!ProcessAssumption, Bash!CaptureAssumption, BashInv, [Bash!Next]_(Bash!vars)
  PROVE  StopInv'
<1>i. PlainTypes /\ ProcInv /\ StopInv
  BY TypesApart DEF BashInv, Bash!OutcomeIsTrue
<1>1. CASE Bash!Spawn
  BY <1>i, <1>1 DEF Bash!Spawn, Bash!RequestStop, Bash!Ended, Bash!Died, PlainTypes, ProcInv,
       StopInv, Bash!Procs, Bash!Over, Bash!vars, Bash!procs, Bash!capture, Bash!cleanup
<1>2. CASE Bash!Raced
  BY <1>i, <1>2 DEF Bash!Raced, Bash!RequestStop, Bash!Ended, Bash!Died, PlainTypes, ProcInv,
       StopInv, Bash!Procs, Bash!Over, Bash!vars, Bash!procs, Bash!capture, Bash!cleanup
<1>3. CASE Bash!SendTerm
  BY <1>i, <1>3 DEF Bash!SendTerm, Bash!RequestStop, Bash!Ended, Bash!Died, PlainTypes, ProcInv,
       StopInv, Bash!Procs, Bash!Over, Bash!vars, Bash!procs, Bash!capture, Bash!cleanup
<1>4. CASE Bash!GraceOver
  BY <1>i, <1>4 DEF Bash!GraceOver, Bash!RequestStop, Bash!Ended, Bash!Died, PlainTypes, ProcInv,
       StopInv, Bash!Procs, Bash!Over, Bash!vars, Bash!procs, Bash!capture, Bash!cleanup
<1>5. CASE Bash!Waited
  BY <1>i, <1>5 DEF Bash!Waited, Bash!RequestStop, Bash!Ended, Bash!Died, PlainTypes, ProcInv,
       StopInv, Bash!Procs, Bash!Over, Bash!vars, Bash!procs, Bash!capture, Bash!cleanup
<1>6. CASE Bash!ObserveGroup
  BY <1>i, <1>6 DEF Bash!ObserveGroup, Bash!RequestStop, Bash!Ended, Bash!Died, PlainTypes,
       ProcInv, StopInv, Bash!Procs, Bash!Over, Bash!vars, Bash!procs, Bash!capture, Bash!cleanup
<1>7. CASE Bash!ObserveEof
  BY <1>i, <1>7 DEF Bash!ObserveEof, Bash!RequestStop, Bash!Ended, Bash!Died, PlainTypes, ProcInv,
       StopInv, Bash!Procs, Bash!Over, Bash!vars, Bash!procs, Bash!capture, Bash!cleanup
<1>8. CASE Bash!Conclude
  BY <1>i, <1>8 DEF Bash!Conclude, Bash!RequestStop, Bash!Ended, Bash!Died, PlainTypes, ProcInv,
       StopInv, Bash!Procs, Bash!Over, Bash!vars, Bash!procs, Bash!capture, Bash!cleanup
<1>9. CASE Bash!Timeout
  BY <1>i, <1>9 DEF Bash!Timeout, Bash!RequestStop, Bash!Ended, Bash!Died, PlainTypes, ProcInv,
       StopInv, Bash!Procs, Bash!Over, Bash!vars, Bash!procs, Bash!capture, Bash!cleanup
<1>10. CASE Bash!Abort
  BY <1>i, <1>10 DEF Bash!Abort, Bash!RequestStop, Bash!Ended, Bash!Died, PlainTypes, ProcInv,
       StopInv, Bash!Procs, Bash!Over, Bash!vars, Bash!procs, Bash!capture, Bash!cleanup
<1>11. CASE Bash!StreamError
  BY <1>i, <1>11 DEF Bash!StreamError, Bash!RequestStop, Bash!Ended, Bash!Died, PlainTypes,
       ProcInv, StopInv, Bash!Procs, Bash!Over, Bash!vars, Bash!procs, Bash!capture, Bash!cleanup
<1>12. CASE Bash!ExitEvent
  BY <1>i, <1>12 DEF Bash!ExitEvent, Bash!RequestStop, Bash!Ended, Bash!Died, PlainTypes, ProcInv,
       StopInv, Bash!Procs, Bash!Over, Bash!vars, Bash!procs, Bash!capture, Bash!cleanup
<1>13. ASSUME NEW s \in Bash!OutputStreams, Bash!EofEvent(s)
      PROVE  StopInv'
  BY <1>i, <1>13 DEF Bash!EofEvent, Bash!RequestStop, Bash!Ended, Bash!Died, PlainTypes, ProcInv,
       StopInv, Bash!Procs, Bash!Over, Bash!vars, Bash!procs, Bash!capture, Bash!cleanup
<1>14. ASSUME NEW s \in Bash!OutputStreams, NEW n \in 1..MaxChunk, Bash!DataEvent(s, n)
      PROVE  StopInv'
  BY <1>i, <1>14 DEF Bash!DataEvent, Bash!RequestStop, Bash!Ended, Bash!Died, PlainTypes, ProcInv,
       StopInv, Bash!Procs, Bash!Over, Bash!vars, Bash!procs, Bash!capture, Bash!cleanup
<1>15. ASSUME NEW p \in Bash!Procs, Bash!Fork(p), ~ Bash!Over
      PROVE  StopInv'
  BY <1>i, <1>15 DEF Bash!Fork, Bash!RequestStop, Bash!Ended, Bash!Died, PlainTypes, ProcInv,
       StopInv, Bash!Procs, Bash!Over, Bash!vars, Bash!procs, Bash!capture, Bash!cleanup
<1>16. ASSUME NEW p \in Bash!Procs, Bash!Escape(p), ~ Bash!Over
      PROVE  StopInv'
  BY <1>i, <1>16 DEF Bash!Escape, Bash!RequestStop, Bash!Ended, Bash!Died, PlainTypes, ProcInv,
       StopInv, Bash!Procs, Bash!Over, Bash!vars, Bash!procs, Bash!capture, Bash!cleanup
<1>17. ASSUME NEW p \in Bash!Procs, Bash!ClosePipes(p), ~ Bash!Over
      PROVE  StopInv'
  BY <1>i, <1>17 DEF Bash!ClosePipes, Bash!RequestStop, Bash!Ended, Bash!Died, PlainTypes,
       ProcInv, StopInv, Bash!Procs, Bash!Over, Bash!vars, Bash!procs, Bash!capture, Bash!cleanup
<1>18. ASSUME NEW p \in Bash!Procs, Bash!End(p), ~ Bash!Over
      PROVE  StopInv'
  BY <1>i, <1>18 DEF Bash!End, Bash!RequestStop, Bash!Ended, Bash!Died, PlainTypes, ProcInv,
       StopInv, Bash!Procs, Bash!Over, Bash!vars, Bash!procs, Bash!capture, Bash!cleanup
<1>19. CASE UNCHANGED Bash!vars
  BY <1>i, <1>19 DEF Bash!RequestStop, Bash!Ended, Bash!Died, PlainTypes, ProcInv, StopInv,
       Bash!Procs, Bash!Over, Bash!vars, Bash!procs, Bash!capture, Bash!cleanup
<1>20. QED
  BY <1>1, <1>2, <1>3, <1>4, <1>5, <1>6, <1>7, <1>8, <1>9, <1>10, <1>11, <1>12, <1>13, <1>14,
       <1>15, <1>16, <1>17, <1>18, <1>19 DEF Bash!Next, Bash!Main

\* The capture holds what came.
LEMMA CaptureKept ==
  ASSUME Bash!ProcessAssumption, Bash!CaptureAssumption, BashInv, [Bash!Next]_(Bash!vars)
  PROVE  CaptureInv'
<1>i. CaptureInv /\ PlainTypes
  BY TypesApart DEF BashInv, Bash!OutcomeIsTrue
<1>f. ASSUME UNCHANGED Bash!capture, at_run' = "spawning" => at_run = "spawning",
             reason' = "output_limit" <=> reason = "output_limit"
      PROVE  CaptureInv'
  <2>1. Bash!Captured' = Bash!Captured /\ came' = came /\ limited' = limited
    BY <1>f DEF Bash!capture, Bash!Captured
  <2>2. Holds(Bash!Captured', came')
    BY <1>i, <2>1 DEF CaptureInv
  <2>3. QED
    BY <1>i, <1>f, <2>1, <2>2 DEF CaptureInv
<1>1. CASE Bash!Spawn
  BY <1>f, <1>i, <1>1 DEF Bash!Spawn, Bash!RequestStop, PlainTypes, Bash!Over, Bash!vars,
       Bash!procs, Bash!capture, Bash!cleanup
<1>2. CASE Bash!Raced
  BY <1>f, <1>i, <1>2 DEF Bash!Raced, Bash!RequestStop, PlainTypes, Bash!Over, Bash!vars,
       Bash!procs, Bash!capture, Bash!cleanup
<1>3. CASE Bash!SendTerm
  BY <1>f, <1>i, <1>3 DEF Bash!SendTerm, Bash!RequestStop, PlainTypes, Bash!Over, Bash!vars,
       Bash!procs, Bash!capture, Bash!cleanup
<1>4. CASE Bash!GraceOver
  BY <1>f, <1>i, <1>4 DEF Bash!GraceOver, Bash!RequestStop, PlainTypes, Bash!Over, Bash!vars,
       Bash!procs, Bash!capture, Bash!cleanup
<1>5. CASE Bash!Waited
  BY <1>f, <1>i, <1>5 DEF Bash!Waited, Bash!RequestStop, PlainTypes, Bash!Over, Bash!vars,
       Bash!procs, Bash!capture, Bash!cleanup
<1>6. CASE Bash!ObserveGroup
  BY <1>f, <1>i, <1>6 DEF Bash!ObserveGroup, Bash!RequestStop, PlainTypes, Bash!Over, Bash!vars,
       Bash!procs, Bash!capture, Bash!cleanup
<1>7. CASE Bash!ObserveEof
  BY <1>f, <1>i, <1>7 DEF Bash!ObserveEof, Bash!RequestStop, PlainTypes, Bash!Over, Bash!vars,
       Bash!procs, Bash!capture, Bash!cleanup
<1>8. CASE Bash!Conclude
  BY <1>f, <1>i, <1>8 DEF Bash!Conclude, Bash!RequestStop, PlainTypes, Bash!Over, Bash!vars,
       Bash!procs, Bash!capture, Bash!cleanup
<1>9. CASE Bash!Timeout
  BY <1>f, <1>i, <1>9 DEF Bash!Timeout, Bash!RequestStop, PlainTypes, Bash!Over, Bash!vars,
       Bash!procs, Bash!capture, Bash!cleanup
<1>10. CASE Bash!Abort
  BY <1>f, <1>i, <1>10 DEF Bash!Abort, Bash!RequestStop, PlainTypes, Bash!Over, Bash!vars,
       Bash!procs, Bash!capture, Bash!cleanup
<1>11. CASE Bash!StreamError
  BY <1>f, <1>i, <1>11 DEF Bash!StreamError, Bash!RequestStop, PlainTypes, Bash!Over, Bash!vars,
       Bash!procs, Bash!capture, Bash!cleanup
<1>12. CASE Bash!ExitEvent
  BY <1>f, <1>i, <1>12 DEF Bash!ExitEvent, Bash!RequestStop, PlainTypes, Bash!Over, Bash!vars,
       Bash!procs, Bash!capture, Bash!cleanup
<1>13. ASSUME NEW s \in Bash!OutputStreams, Bash!EofEvent(s)
      PROVE  CaptureInv'
  BY <1>f, <1>i, <1>13 DEF Bash!EofEvent, Bash!RequestStop, PlainTypes, Bash!Over, Bash!vars,
       Bash!procs, Bash!capture, Bash!cleanup
<1>14. ASSUME NEW s \in Bash!OutputStreams, NEW n \in 1..MaxChunk, Bash!DataEvent(s, n)
      PROVE  CaptureInv'
  <2> DEFINE c == Bash!Accept(Bash!Captured, s, n)
  <2>1. n \in Nat
    OBVIOUS
  <2>2. Holds(Bash!Captured, came) /\ came \in Seq(Bash!OutputStreams) /\ Bash!Captured.limited = limited
    BY <1>i DEF CaptureInv, Bash!Captured
  <2>3. Holds(c, Further(came, s, n)) /\ (limited => c = Bash!Captured)
    BY <2>1, <2>2, AcceptHolds
  <2> HIDE DEF c
  <2>4. /\ records' = c.records /\ pending' = c.pending /\ limited' = c.limited
        /\ at_run # "spawning" /\ at_run' = at_run
        /\ came' = came \o [i \in 1..n |-> s]
        /\ IF c.limited /\ ~ limited THEN Bash!RequestStop("output_limit") ELSE UNCHANGED <<reason, stop>>
    BY <1>14 DEF Bash!DataEvent, c
  <2>5. Further(came, s, n) = came'
    BY <2>4 DEF Further, Run
  <2>6. Bash!Captured' = c
    <3>1. c \in Captures
      BY <2>3 DEF Holds
    <3>2. QED
      BY <2>4, <3>1 DEF Bash!Captured, Captures
  <2>7. came' \in Seq(Bash!OutputStreams)
    BY <2>1, <2>2, <2>5, FurtherInSeq
  <2>8. limited' <=> reason' = "output_limit"
    BY <1>i, <2>2, <2>3, <2>4 DEF CaptureInv, Bash!RequestStop
  <2>9. Holds(Bash!Captured', came')
    BY <2>3, <2>5, <2>6
  <2>10. QED
    BY <2>4, <2>7, <2>8, <2>9 DEF CaptureInv
<1>15. ASSUME NEW p \in Bash!Procs, Bash!Fork(p), ~ Bash!Over
      PROVE  CaptureInv'
  BY <1>f, <1>i, <1>15 DEF Bash!Fork, Bash!RequestStop, PlainTypes, Bash!Over, Bash!vars,
       Bash!procs, Bash!capture, Bash!cleanup
<1>16. ASSUME NEW p \in Bash!Procs, Bash!Escape(p), ~ Bash!Over
      PROVE  CaptureInv'
  BY <1>f, <1>i, <1>16 DEF Bash!Escape, Bash!RequestStop, PlainTypes, Bash!Over, Bash!vars,
       Bash!procs, Bash!capture, Bash!cleanup
<1>17. ASSUME NEW p \in Bash!Procs, Bash!ClosePipes(p), ~ Bash!Over
      PROVE  CaptureInv'
  BY <1>f, <1>i, <1>17 DEF Bash!ClosePipes, Bash!RequestStop, PlainTypes, Bash!Over, Bash!vars,
       Bash!procs, Bash!capture, Bash!cleanup
<1>18. ASSUME NEW p \in Bash!Procs, Bash!End(p), ~ Bash!Over
      PROVE  CaptureInv'
  BY <1>f, <1>i, <1>18 DEF Bash!End, Bash!RequestStop, PlainTypes, Bash!Over, Bash!vars,
       Bash!procs, Bash!capture, Bash!cleanup
<1>19. CASE UNCHANGED Bash!vars
  BY <1>f, <1>i, <1>19 DEF Bash!RequestStop, PlainTypes, Bash!Over, Bash!vars, Bash!procs,
       Bash!capture, Bash!cleanup
<1>20. QED
  BY <1>1, <1>2, <1>3, <1>4, <1>5, <1>6, <1>7, <1>8, <1>9, <1>10, <1>11, <1>12, <1>13, <1>14,
       <1>15, <1>16, <1>17, <1>18, <1>19 DEF Bash!Next, Bash!Main

\* It is over with Spawn or Conclude, or not yet.
LEMMA OnlyOnce ==
  ASSUME BashInv, [Bash!Next]_(Bash!vars)
  PROVE  \/ Bash!Spawn \/ Bash!Conclude
         \/ UNCHANGED Bash!vars
         \/ (~ Bash!Over' /\ result' = Bash!NoResult)
<1>i. ~ Bash!Over => result = Bash!NoResult
  BY DEF BashInv, ResultInv
<1> DEFINE G == Bash!Spawn \/ Bash!Conclude \/ UNCHANGED Bash!vars \/ (~ Bash!Over' /\ result' = Bash!NoResult)
<1> SUFFICES G
  OBVIOUS
<1> HIDE DEF G
<1>1. CASE Bash!Spawn
  BY <1>1 DEF G
<1>2. CASE Bash!Raced
  BY <1>i, <1>2 DEF Bash!Raced, Bash!Over, G, Bash!vars, Bash!procs, Bash!capture, Bash!cleanup
<1>3. CASE Bash!SendTerm
  BY <1>i, <1>3 DEF Bash!SendTerm, Bash!Over, G, Bash!vars, Bash!procs, Bash!capture, Bash!cleanup
<1>4. CASE Bash!GraceOver
  BY <1>i, <1>4 DEF Bash!GraceOver, Bash!Over, G, Bash!vars, Bash!procs, Bash!capture,
       Bash!cleanup
<1>5. CASE Bash!Waited
  BY <1>i, <1>5 DEF Bash!Waited, Bash!Over, G, Bash!vars, Bash!procs, Bash!capture, Bash!cleanup
<1>6. CASE Bash!ObserveGroup
  BY <1>i, <1>6 DEF Bash!ObserveGroup, Bash!Over, G, Bash!vars, Bash!procs, Bash!capture,
       Bash!cleanup
<1>7. CASE Bash!ObserveEof
  BY <1>i, <1>7 DEF Bash!ObserveEof, Bash!Over, G, Bash!vars, Bash!procs, Bash!capture,
       Bash!cleanup
<1>8. CASE Bash!Conclude
  BY <1>8 DEF G
<1>9. CASE Bash!Timeout
  BY <1>i, <1>9 DEF Bash!Timeout, Bash!Over, G, Bash!vars, Bash!procs, Bash!capture, Bash!cleanup
<1>10. CASE Bash!Abort
  BY <1>i, <1>10 DEF Bash!Abort, Bash!Over, G, Bash!vars, Bash!procs, Bash!capture, Bash!cleanup
<1>11. CASE Bash!StreamError
  BY <1>i, <1>11 DEF Bash!StreamError, Bash!Over, G, Bash!vars, Bash!procs, Bash!capture,
       Bash!cleanup
<1>12. CASE Bash!ExitEvent
  BY <1>i, <1>12 DEF Bash!ExitEvent, Bash!Over, G, Bash!vars, Bash!procs, Bash!capture,
       Bash!cleanup
<1>13. ASSUME NEW s \in Bash!OutputStreams, Bash!EofEvent(s)
      PROVE  G
  BY <1>i, <1>13 DEF Bash!EofEvent, Bash!Over, G, Bash!vars, Bash!procs, Bash!capture,
       Bash!cleanup
<1>14. ASSUME NEW s \in Bash!OutputStreams, NEW n \in 1..MaxChunk, Bash!DataEvent(s, n)
      PROVE  G
  BY <1>i, <1>14 DEF Bash!DataEvent, Bash!Over, G, Bash!vars, Bash!procs, Bash!capture,
       Bash!cleanup
<1>15. ASSUME NEW p \in Bash!Procs, Bash!Fork(p), ~ Bash!Over
      PROVE  G
  BY <1>i, <1>15 DEF Bash!Fork, Bash!Over, G, Bash!vars, Bash!procs, Bash!capture, Bash!cleanup
<1>16. ASSUME NEW p \in Bash!Procs, Bash!Escape(p), ~ Bash!Over
      PROVE  G
  BY <1>i, <1>16 DEF Bash!Escape, Bash!Over, G, Bash!vars, Bash!procs, Bash!capture, Bash!cleanup
<1>17. ASSUME NEW p \in Bash!Procs, Bash!ClosePipes(p), ~ Bash!Over
      PROVE  G
  BY <1>i, <1>17 DEF Bash!ClosePipes, Bash!Over, G, Bash!vars, Bash!procs, Bash!capture,
       Bash!cleanup
<1>18. ASSUME NEW p \in Bash!Procs, Bash!End(p), ~ Bash!Over
      PROVE  G
  BY <1>i, <1>18 DEF Bash!End, Bash!Over, G, Bash!vars, Bash!procs, Bash!capture, Bash!cleanup
<1>19. CASE UNCHANGED Bash!vars
  BY <1>19 DEF G
<1>20. QED
  BY <1>1, <1>2, <1>3, <1>4, <1>5, <1>6, <1>7, <1>8, <1>9, <1>10, <1>11, <1>12, <1>13, <1>14,
       <1>15, <1>16, <1>17, <1>18, <1>19 DEF Bash!Next, Bash!Main

LEMMA ResultKept ==
  ASSUME BashInv, [Bash!Next]_(Bash!vars)
  PROVE  ResultInv'
<1>i. ResultInv
  BY DEF BashInv
<1>1. CASE Bash!Spawn
  <2>1. \/ at_run' = "racing" /\ result' = result /\ result = Bash!NoResult
        \/ at_run' = "returned" /\ result'.kind = "result"
    BY <1>i, <1>1 DEF Bash!Spawn, ResultInv, Bash!Over
  <2>2. QED
    BY <2>1 DEF ResultInv, Bash!Over
<1>2. CASE Bash!Conclude
  <2>1. \/ at_run' = "thrown" /\ result'.kind = "unknown"
        \/ at_run' = "returned" /\ result'.kind = "result"
    BY <1>2 DEF Bash!Conclude
  <2>2. QED
    BY <2>1 DEF ResultInv, Bash!Over
<1>3. CASE UNCHANGED Bash!vars
  BY <1>i, <1>3 DEF ResultInv, Bash!Over, Bash!vars
<1>4. CASE ~ Bash!Over' /\ result' = Bash!NoResult
  BY <1>4 DEF ResultInv, Bash!Over
<1>5. QED
  BY <1>1, <1>2, <1>3, <1>4, OnlyOnce

\* The classification of a report whose reason tells the limit.
LEMMA Classifiable ==
  ASSUME NEW r, r.reason \in {"natural", "timeout", "cancelled", "output_limit", "io_error"},
         r.reason = "output_limit" <=> Bash!HardLimitReached(r),
         r.reason # "io_error" => Bash!Known(r.exit)
  PROVE  LET code == Bash!Classified(r) IN
           Bash!ValidBashEffect(code, IF code = "io_error" THEN "none" ELSE r.exit, Bash!HardLimitReached(r))
<1> DEFINE h == Bash!HardLimitReached(r)
           code == Bash!Classified(r)
<1>1. h \in BOOLEAN
  BY DEF Bash!HardLimitReached
<1> HIDE DEF h
<1>2. (r.reason = "output_limit") = h
  BY <1>1 DEF h
<1>3. code = IF r.reason = "io_error" THEN "io_error"
             ELSE IF r.reason # "natural" THEN r.reason
             ELSE IF r.exit = "signal" THEN "signaled" ELSE IF r.exit = "zero" THEN "ok" ELSE "nonzero_exit"
  <2>1. ~ ((r.reason = "output_limit") # h)
    BY <1>1, <1>2
  <2>2. QED
    BY <2>1 DEF Bash!Classified, Bash!Known, h
<1> HIDE DEF code
<1>4. code = "output_limit" <=> r.reason = "output_limit"
  BY <1>3
<1>5. (code = "output_limit") = h
  BY <1>1, <1>2, <1>4
<1>6. Bash!ValidBashEffect(code, IF code = "io_error" THEN "none" ELSE r.exit, h)
  BY <1>3, <1>5 DEF Bash!ValidBashEffect, Bash!Known
<1>7. QED
  BY <1>6 DEF h, code

\* The records at the end have all that the capture holds, and so what came.
LEMMA OutputIsWhatCame ==
  ASSUME Bash!CaptureAssumption, CaptureInv
  PROVE  /\ Bash!BytesIn(Bash!Output(Bash!Captured)) = CommandLimit <=> reason = "output_limit"
         /\ Bash!BytesOf(Bash!Output(Bash!Captured)) = SubSeq(came, 1, Kept(came))
<1> DEFINE c == Bash!Captured
<1>1. /\ c \in Captures /\ Owned(c) /\ came \in Seq(Bash!OutputStreams)
      /\ c.limited <=> Bash!Held(c) = CommandLimit
      /\ Bash!Held(c) = Kept(came)
      /\ \A i \in 1..Kept(came) : Chars(c)[i] = came[i]
  BY DEF CaptureInv, Holds
<1>2. c.limited <=> reason = "output_limit"
  BY DEF Bash!Captured, CaptureInv
<1> HIDE DEF c
<1>3. Bash!BytesIn(Bash!Output(c)) = Bash!Held(c) /\ Bash!BytesOf(Bash!Output(c)) = Chars(c)
  BY <1>1, FlushKeeps DEF Bash!Output
<1>4. Bash!Held(c) \in Nat /\ Chars(c) \in Seq(Bash!OutputStreams) /\ Len(Chars(c)) = Kept(came)
  BY <1>1, HeldIsCounted
<1>5. Kept(came) \in 0..Len(came) /\ Len(came) \in Nat
  BY <1>1 DEF Kept, Bash!CaptureAssumption
<1>6. /\ SubSeq(came, 1, Kept(came)) \in Seq(Bash!OutputStreams)
      /\ Len(SubSeq(came, 1, Kept(came))) = Kept(came)
      /\ \A i \in 1..Kept(came) : SubSeq(came, 1, Kept(came))[i] = came[i]
  BY <1>1, <1>5
<1>7. Chars(c) = SubSeq(came, 1, Kept(came))
  BY <1>1, <1>4, <1>6, SeqEqual
<1>8. QED
  BY <1>1, <1>2, <1>3, <1>7 DEF c

LEMMA ConcludeIsTrue ==
  ASSUME Bash!CaptureAssumption, BashInv, Bash!Conclude
  PROVE  /\ Bash!ResultIsClassified' /\ Bash!OutputAsItCame' /\ Bash!ReapedMeansGone'
         /\ Bash!NaturalWasNotStopped' /\ Bash!UnknownWasUnseen'
<1> DEFINE r == result'
           told == IF reason = "none" THEN "natural" ELSE reason
<1>1. PlainTypes /\ ProcInv /\ StopInv /\ CaptureInv
  BY TypesApart DEF BashInv, Bash!OutcomeIsTrue
<1>2. /\ group' = group /\ holders' = holders /\ observed' = observed /\ exit' = exit
      /\ came' = came /\ outrun' = outrun
      /\ Bash!Over'
  BY DEF Bash!Conclude, Bash!Over, Bash!procs, Bash!cleanup, Bash!capture
<1>3. r.output = Bash!Output(Bash!Captured) /\ r.reaped = Bash!Reaped
  BY DEF Bash!Conclude
<1>4. \/ /\ r.kind = "unknown" /\ at_run' = "thrown" /\ ~ Bash!Known(Bash!LastTerminal)
      \/ /\ r.kind = "result" /\ at_run' = "returned" /\ Bash!Known(Bash!LastTerminal)
         /\ r.reason = told /\ r.exit = Bash!LastTerminal
  BY DEF Bash!Conclude
<1> HIDE DEF r
<1>5. /\ Bash!BytesIn(Bash!Output(Bash!Captured)) = CommandLimit <=> reason = "output_limit"
      /\ Bash!BytesOf(Bash!Output(Bash!Captured)) = SubSeq(came, 1, Kept(came))
  BY <1>1, OutputIsWhatCame
<1>6. Bash!ResultIsClassified'
  <2>1. SUFFICES ASSUME r.kind = "result"
                 PROVE  LET code == Bash!Classified(r) IN
                          Bash!ValidBashEffect(code, IF code = "io_error" THEN "none" ELSE r.exit,
                                          Bash!HardLimitReached(r))
    BY DEF Bash!ResultIsClassified, r
  <2>2. r.reason = told /\ r.exit = Bash!LastTerminal /\ Bash!Known(r.exit)
    BY <1>4, <2>1
  <2>3. told \in {"natural", "timeout", "cancelled", "output_limit", "io_error"}
        /\ (told = "output_limit" <=> reason = "output_limit")
    BY <1>1 DEF PlainTypes
  <2>4. r.reason = "output_limit" <=> Bash!HardLimitReached(r)
    BY <1>3, <1>5, <2>2, <2>3 DEF Bash!HardLimitReached
  <2> HIDE DEF told
  <2>5. QED
    BY <2>2, <2>3, <2>4, Classifiable
<1>7. Bash!OutputAsItCame'
  BY <1>2, <1>3, <1>5 DEF Bash!OutputAsItCame, Kept, r
<1>8. Bash!ReapedMeansGone'
  BY <1>1, <1>2, <1>3 DEF Bash!ReapedMeansGone, Bash!Reaped, ProcInv, Bash!OutputStreams, r
<1>9. Bash!NaturalWasNotStopped'
  BY <1>1, <1>2, <1>4 DEF Bash!NaturalWasNotStopped, StopInv, PlainTypes, r
<1>10. Bash!UnknownWasUnseen'
  <2>1. SUFFICES ASSUME at_run' = "thrown", observed
                 PROVE  exit = "unknown"
    BY <1>2 DEF Bash!UnknownWasUnseen
  <2>2. ~ Bash!Known(Bash!LastTerminal)
    BY <1>4, <2>1
  <2>3. Bash!LastTerminal = exit
    BY <1>1, <2>1 DEF Bash!LastTerminal, ProcInv
  <2>4. exit \in Bash!Ends
    BY <1>1, <2>1 DEF PlainTypes, ProcInv, Bash!CaptureAssumption, Bash!Ends
  <2>5. QED
    BY <2>2, <2>3, <2>4 DEF Bash!Known, Bash!Ends
<1>11. QED
  BY <1>6, <1>7, <1>8, <1>9, <1>10

\* A command that could not be started has no output.
LEMMA SpawnIsTrue ==
  ASSUME Bash!CaptureAssumption, BashInv, Bash!Spawn
  PROVE  /\ Bash!ResultIsClassified' /\ Bash!OutputAsItCame' /\ Bash!ReapedMeansGone'
         /\ Bash!NaturalWasNotStopped' /\ Bash!UnknownWasUnseen'
<1>1. ProcInv /\ CaptureInv /\ ResultInv
  BY DEF BashInv
<1> DEFINE r == result'
<1>2. CASE at_run' = "racing"
  <2>1. ~ Bash!Over' /\ r.kind = "none"
    BY <1>1, <1>2 DEF Bash!Spawn, Bash!Over, ResultInv, Bash!NoResult
  <2>2. QED
    BY <1>2, <2>1 DEF Bash!ResultIsClassified, Bash!OutputAsItCame, Bash!ReapedMeansGone,
         Bash!NaturalWasNotStopped,
                      Bash!UnknownWasUnseen, r
<1>3. CASE at_run' = "returned"
  <2>1. /\ r.kind = "result" /\ r.reason = "io_error" /\ r.exit = "none" /\ r.output = << >>
        /\ group' = group /\ holders' = holders /\ group = {} /\ holders = {}
        /\ came' = came /\ came = << >>
    BY <1>1, <1>3 DEF Bash!Spawn, ProcInv, CaptureInv, Bash!capture
  <2> HIDE DEF r
  <2>2. ~ Bash!HardLimitReached(r)
    BY <2>1, NoBytes DEF Bash!HardLimitReached, Bash!CaptureAssumption
  <2>3. Bash!ResultIsClassified'
    <3>1. LET code == Bash!Classified(r) IN
            Bash!ValidBashEffect(code, IF code = "io_error" THEN "none" ELSE r.exit, Bash!HardLimitReached(r))
      BY <2>1, <2>2, Classifiable
    <3>2. QED
      BY <3>1 DEF Bash!ResultIsClassified, r
  <2>4. Bash!OutputAsItCame'
    <3>1. Len(came) = 0 /\ SubSeq(came, 1, 0) = << >> /\ 0 < CommandLimit
      BY <2>1 DEF Bash!CaptureAssumption
    <3>2. Bash!BytesOf(r.output) = << >>
      BY <2>1, NoBytes
    <3>3. QED
      BY <2>1, <3>1, <3>2 DEF Bash!OutputAsItCame, r
  <2>5. Bash!ReapedMeansGone' /\ Bash!NaturalWasNotStopped' /\ Bash!UnknownWasUnseen'
    BY <1>3, <2>1 DEF Bash!ReapedMeansGone, Bash!NaturalWasNotStopped, Bash!UnknownWasUnseen, r
  <2>6. QED
    BY <2>3, <2>4, <2>5
<1>4. QED
  BY <1>2, <1>3 DEF Bash!Spawn

LEMMA OutcomeKept ==
  ASSUME Bash!ProcessAssumption, Bash!CaptureAssumption, BashInv, [Bash!Next]_(Bash!vars)
  PROVE  Bash!OutcomeIsTrue'
<1> DEFINE G == /\ Bash!ResultIsClassified' /\ Bash!OutputAsItCame' /\ Bash!ReapedMeansGone'
                /\ Bash!NaturalWasNotStopped' /\ Bash!UnknownWasUnseen'
<1>1. Bash!TypeOK'
  <2>1. PlainTypes' /\ CaptureInv'
    BY PlainKept, CaptureKept
  <2>2. pending' \in [stream : Bash!OutputStreams \cup {"none"}, bytes : 0..(Coalesce - 1)]
    <3>1. /\ Bash!Captured'.pending = pending' /\ Bash!Captured' \in Captures
          /\ Bash!Captured'.pending.bytes < Coalesce
      BY <2>1 DEF CaptureInv, Holds, Bash!Captured
    <3>2. pending' \in Buffers /\ pending'.bytes \in Nat /\ pending'.bytes < Coalesce
      BY <3>1 DEF Captures, Buffers
    <3>3. pending'.bytes \in 0..(Coalesce - 1)
      BY <3>2 DEF Bash!CaptureAssumption
    <3>4. QED
      BY <3>2, <3>3 DEF Buffers
  <2>3. QED
    BY <2>1, <2>2, TypesApart DEF PlainTypes, Bash!TypeOK
<1>2. Bash!SurvivorsWereKilled'
  BY StopKept DEF StopInv, Bash!SurvivorsWereKilled, Bash!Over
<1>3. G
  <2>1. CASE Bash!Spawn
    BY <2>1, SpawnIsTrue
  <2>2. CASE Bash!Conclude
    BY <2>2, ConcludeIsTrue
  <2>3. CASE UNCHANGED Bash!vars
    BY <2>3 DEF BashInv, Bash!OutcomeIsTrue, Bash!ResultIsClassified, Bash!OutputAsItCame,
         Bash!ReapedMeansGone,
                Bash!NaturalWasNotStopped, Bash!UnknownWasUnseen, Bash!Over, Bash!vars
  <2>4. CASE ~ Bash!Over' /\ result' = Bash!NoResult
    <3>1. at_run' # "thrown" /\ result'.kind = "none"
      BY <2>4 DEF Bash!Over, Bash!NoResult
    <3>2. QED
      BY <2>4, <3>1 DEF Bash!ResultIsClassified, Bash!OutputAsItCame, Bash!ReapedMeansGone,
                        Bash!NaturalWasNotStopped, Bash!UnknownWasUnseen
  <2> HIDE DEF G
  <2>5. QED
    BY <2>1, <2>2, <2>3, <2>4, OnlyOnce
<1>4. QED
  BY <1>1, <1>2, <1>3 DEF Bash!OutcomeIsTrue

-----------------------------------------------------------------------------
LEMMA InitBashInv ==
  ASSUME Bash!CaptureAssumption, Bash!Init
  PROVE  BashInv
<1>1. PlainTypes
  BY DEF Bash!Init, PlainTypes, Bash!Procs, Bash!NoResult
<1>2. ProcInv
  BY DEF Bash!Init, ProcInv
<1>3. StopInv
  BY DEF Bash!Init, StopInv
<1>4. CaptureInv
  <2>1. came = << >> /\ Bash!Captured = [records |-> << >>, pending |-> Bash!Empty, limited |-> FALSE]
        /\ reason = "none" /\ ~ limited
    BY DEF Bash!Init, Bash!Captured
  <2> DEFINE c == [records |-> << >>, pending |-> Bash!Empty, limited |-> FALSE]
  <2>2. /\ c.records = << >> /\ c.pending = Bash!Empty /\ c.limited = FALSE
        /\ Bash!Empty.bytes = 0 /\ Bash!Empty.stream = "none" /\ Bash!Empty \in Buffers
    BY DEF Bash!Empty, Buffers
  <2>3. c \in Captures /\ Owned(c)
    BY <2>2 DEF Captures, Owned
  <2> HIDE DEF c
  <2>4. Bash!Held(c) = 0
    BY <2>2, NoBytes DEF Bash!Held
  <2>5. << >> \in Seq(Bash!OutputStreams) /\ Len(<< >>) = 0
    OBVIOUS
  <2>6. Kept(<< >>) = 0 /\ 0 # CommandLimit /\ 0 < Coalesce
    BY <2>5 DEF Kept, Bash!CaptureAssumption
  <2>7. Holds(c, << >>)
    BY <2>2, <2>3, <2>4, <2>6 DEF Holds
  <2>8. QED
    BY <2>1, <2>5, <2>7 DEF CaptureInv, c
<1>5. ResultInv
  BY DEF Bash!Init, ResultInv, Bash!Over
<1>6. Bash!TypeOK
  <2>1. pending \in [stream : Bash!OutputStreams \cup {"none"}, bytes : 0..(Coalesce - 1)]
    BY DEF Bash!Init, Bash!Empty, Bash!CaptureAssumption
  <2>2. QED
    BY <1>1, <2>1, TypesApart
<1>7. ~ Bash!Over /\ result.kind = "none" /\ at_run # "thrown"
  BY DEF Bash!Init, Bash!Over, Bash!NoResult
<1>8. Bash!OutcomeIsTrue
  BY <1>6, <1>7 DEF Bash!OutcomeIsTrue, Bash!ResultIsClassified, Bash!OutputAsItCame,
       Bash!ReapedMeansGone,
                    Bash!SurvivorsWereKilled, Bash!NaturalWasNotStopped, Bash!UnknownWasUnseen
<1>9. QED
  BY <1>2, <1>3, <1>4, <1>5, <1>8 DEF BashInv

LEMMA StepBashInv ==
  ASSUME Bash!ProcessAssumption, Bash!CaptureAssumption, BashInv, [Bash!Next]_(Bash!vars)
  PROVE  BashInv'
<1>1. ProcInv' /\ StopInv' /\ CaptureInv' /\ ResultInv' /\ Bash!OutcomeIsTrue'
  BY ProcKept, StopKept, CaptureKept, ResultKept, OutcomeKept
<1>2. QED
  BY <1>1 DEF BashInv

\* What the bash tool reports is what happened, for any number of descendants, any
\* that no signal ends, any limits and chunks of any length: the result is one
\* that classifyBash and the journal accept, the records are the bytes that came
\* up to the limit, reaped means that nobody is left, nobody survives but SIGKILL.
THEOREM BashOutcomeIsTrue ==
  ASSUME Bash!ProcessAssumption, Bash!CaptureAssumption
  PROVE  Bash!Spec => []Bash!OutcomeIsTrue
<1>1. Bash!Init => BashInv
  BY InitBashInv
<1>2. BashInv /\ [Bash!Next]_(Bash!vars) => BashInv'
  BY StepBashInv
<1>3. BashInv => Bash!OutcomeIsTrue
  BY DEF BashInv
<1>4. QED
  BY <1>1, <1>2, <1>3, PTL DEF Bash!Spec

-----------------------------------------------------------------------------
(* The numbers in the headers of frames.                                     *)

\* What the theorem assumes of an instance.
FrameAssumptions ==
  Frames!StreamAssumption /\ Frames!PayloadAssumption /\ Frames!LimitAssumption

\* What is assumed of the bytes.
LEMMA BytesAre ==
  ASSUME FrameAssumptions
  PROVE  /\ Base \in Nat /\ Base > 3 /\ LengthBytes \in Nat \ {0}
         /\ Frames!Byte = 0..(Base - 1) /\ Frames!AllStreams = 1..3
         /\ Streams \subseteq 1..3 /\ OutputLimit \in 1..Frames!Longest
  BY DEF FrameAssumptions, Frames!StreamAssumption, Frames!LimitAssumption, Frames!Byte,
         Frames!AllStreams

\* Division leaves what the digits are made of.
LEMMA Divided ==
  ASSUME NEW n \in Nat, NEW b \in Nat \ {0}
  PROVE  n \div b \in Nat /\ n % b \in 0..(b - 1) /\ n = (n \div b) * b + (n % b)
  OBVIOUS

\* What is below t times b is divided by b to less than t.
LEMMA DividedBound ==
  ASSUME NEW n \in Nat, NEW b \in Nat \ {0}, NEW t \in Nat, n <= t * b + (b - 1)
  PROVE  n \div b <= t
<1>1. PICK q \in Nat : q = n \div b
  BY Divided
<1>2. PICK r \in 0..(b - 1) : r = n % b
  BY Divided
<1>3. n = q * b + r
  BY <1>1, <1>2, Divided
<1>4. SUFFICES ASSUME q >= t + 1
               PROVE  FALSE
  BY <1>1
<1>5. q * b >= (t + 1) * b
  BY <1>4
<1>6. (t + 1) * b = t * b + b
  OBVIOUS
<1>7. QED
  BY <1>3, <1>5, <1>6

\* Functions agree that begin alike and go on alike.
Alike(n, f, h) == f[0] = h[0] /\ \A i \in 1..n : f[i - 1] = h[i - 1] => f[i] = h[i]
LEMMA Agree ==
  \A n \in Nat : \A f, h : Alike(n, f, h) => \A i \in 0..n : f[i] = h[i]
<1>1. TAKE n \in Nat
<1>2. TAKE f, h
<1>3. HAVE Alike(n, f, h)
<1>4. f[0] = h[0]
  BY <1>3 DEF Alike
<1>5. \A i \in 1..n : f[i - 1] = h[i - 1] => f[i] = h[i]
  BY <1>3 DEF Alike
<1>6. QED
  BY <1>4, <1>5, StepsAgree

\* Number, digit by digit.
Reads(ds, f) == f[0] = 0 /\ \A i \in 1..Len(ds) : f[i] = f[i - 1] * Base + ds[i]
LEMMA NumberIs ==
  ASSUME Base \in Nat, NEW ds, Len(ds) \in Nat, NEW f \in [0..Len(ds) -> Nat], Reads(ds, f)
  PROVE  Frames!Number(ds) = f[Len(ds)]
<1> DEFINE n == Len(ds)
           Body(h) == [i \in 0..n |-> IF i = 0 THEN 0 ELSE h[i - 1] * Base + ds[i]]
           N == CHOOSE h : h = Body(h)
<1>1. f = Body(f)
  <2>1. \A i \in 0..n : i = 0 \/ i \in 1..n
    OBVIOUS
  <2>2. QED
    BY <2>1 DEF Reads
<1>2. N = Body(N)
  <2> HIDE DEF Body
  <2>1. QED
    BY <1>1
<1>3. n \in Nat /\ 0 \in 0..n /\ \A i \in 1..n : i \in 0..n /\ i # 0
  OBVIOUS
<1> HIDE DEF N, n
<1>4. N[0] = 0 /\ \A i \in 1..n : N[i] = N[i - 1] * Base + ds[i]
  BY <1>2, <1>3
<1>5. f[0] = N[0] /\ \A i \in 1..n : f[i - 1] = N[i - 1] => f[i] = N[i]
  BY <1>4 DEF Reads, n
<1>6. \A i \in 0..n : f[i] = N[i]
  <2>1. n \in Nat
    BY <1>3
  <2>2. Alike(n, f, N)
    BY <1>5 DEF Alike
  <2>3. QED
    BY <2>1, <2>2, Agree
<1>7. Frames!Number(ds) = N[n]
  BY DEF Frames!Number, N, n
<1>8. QED
  BY <1>3, <1>6, <1>7 DEF n

\* A number is read off its digits from the left.
LEMMA NumberReads ==
  ASSUME Base \in Nat, NEW n \in Nat, NEW ds, Len(ds) = n, \A i \in 1..n : ds[i] \in Nat
  PROVE  \E f \in [0..n -> Nat] : Reads(ds, f) /\ Frames!Number(ds) = f[n]
<1> DEFINE g == [i \in 1..n |-> [x \in Nat |-> x * Base + ds[i]]]
<1>1. g \in StepsIn(Nat, n)
  BY DEF StepsIn
<1>2. \A i \in 1..n : \A x \in Nat : g[i][x] = x * Base + ds[i]
  OBVIOUS
<1> HIDE DEF g
<1>3. \E f : f \in Built(Nat, 0, n, g)
  <2>1. 0 \in Nat
    OBVIOUS
  <2>2. QED
    BY <1>1, <2>1, StepByStep
<1>4. PICK f \in [0..n -> Nat] : f[0] = 0 /\ \A i \in 1..n : f[i] = g[i][f[i - 1]]
  BY <1>3 DEF Built
<1>5. \A i \in 1..n : f[i] = f[i - 1] * Base + ds[i]
  <2>1. \A i \in 1..n : i - 1 \in 0..n
    OBVIOUS
  <2>2. \A i \in 1..n : f[i - 1] \in Nat
    BY <2>1
  <2>3. QED
    BY <1>2, <1>4, <2>2
<1>6. Reads(ds, f)
  BY <1>4, <1>5 DEF Reads
<1>7. QED
  BY <1>6, NumberIs

\* There is a longest length.
LEMMA LongestIsANumber == FrameAssumptions => Frames!Longest \in Nat
<1> SUFFICES ASSUME FrameAssumptions
             PROVE  Frames!Longest \in Nat
  OBVIOUS
<1> DEFINE L == LengthBytes
           top == [i \in 1..L |-> Base - 1]
<1>1. Base \in Nat /\ Base > 3 /\ L \in Nat
  BY BytesAre
<1>2. Len(top) = L /\ \A i \in 1..L : top[i] \in Nat
  BY <1>1
<1> HIDE DEF top
<1>3. PICK t \in [0..L -> Nat] : Frames!Number(top) = t[L]
  BY <1>1, <1>2, NumberReads
<1>4. L \in 0..L
  BY <1>1
<1>5. QED
  BY <1>3, <1>4 DEF Frames!Longest, top

\* The digits of n, from what is left of it after each division.
LEMMA DigitsAre ==
  ASSUME Base \in Nat \ {0}, LengthBytes \in Nat, NEW n \in Nat
  PROVE  \E f \in [0..LengthBytes -> Nat] :
           /\ f[0] = n /\ \A k \in 1..LengthBytes : f[k] = f[k - 1] \div Base
           /\ Frames!Digits(n) = [i \in 1..LengthBytes |-> f[LengthBytes - i] % Base]
<1> DEFINE L == LengthBytes
           g == [i \in 1..L |-> [x \in Nat |-> x \div Base]]
           Body(h) == [k \in 0..L |-> IF k = 0 THEN n ELSE h[k - 1] \div Base]
           R == CHOOSE h : h = Body(h)
<1>1. g \in StepsIn(Nat, L)
  BY Divided DEF StepsIn
<1>2. \A i \in 1..L : \A x \in Nat : g[i][x] = x \div Base
  OBVIOUS
<1> HIDE DEF g
<1>3. \E f : f \in Built(Nat, n, L, g)
  BY <1>1, StepByStep
<1>4. PICK f \in [0..L -> Nat] : f[0] = n /\ \A i \in 1..L : f[i] = g[i][f[i - 1]]
  BY <1>3 DEF Built
<1>5. \A i \in 1..L : f[i] = f[i - 1] \div Base
  <2>1. \A i \in 1..L : i - 1 \in 0..L
    OBVIOUS
  <2>2. \A i \in 1..L : f[i - 1] \in Nat
    BY <2>1
  <2>3. QED
    BY <1>2, <1>4, <2>2
<1>6. f = Body(f)
  <2>1. \A i \in 0..L : i = 0 \/ i \in 1..L
    OBVIOUS
  <2>2. QED
    BY <1>4, <1>5, <2>1
<1>7. R = Body(R)
  <2> HIDE DEF Body
  <2>1. QED
    BY <1>6
<1>8. L \in Nat /\ 0 \in 0..L /\ \A i \in 1..L : i \in 0..L /\ i # 0 /\ L - i \in 0..L
  OBVIOUS
<1>9. Frames!Digits(n) = [i \in 1..L |-> R[L - i] % Base]
  BY DEF Frames!Digits
<1> HIDE DEF R, L
<1>10. R[0] = n /\ \A i \in 1..L : R[i] = R[i - 1] \div Base
  BY <1>7, <1>8
<1>11. \A i \in 0..L : f[i] = R[i]
  <2>1. L \in Nat /\ f[0] = R[0]
    BY <1>4, <1>8, <1>10
  <2>2. \A i \in 1..L : f[i - 1] = R[i - 1] => f[i] = R[i]
    BY <1>5, <1>10
  <2>3. Alike(L, f, R)
    BY <2>1, <2>2 DEF Alike
  <2>4. QED
    BY <2>1, <2>3, Agree
<1>12. Frames!Digits(n) = [i \in 1..L |-> f[L - i] % Base]
  BY <1>8, <1>9, <1>11
<1>13. QED
  BY <1>4, <1>5, <1>12 DEF L

\* A header says what it was given, unless that is too long for it.
LEMMA NumberOfDigits ==
  ASSUME FrameAssumptions, NEW n \in 0..Frames!Longest
  PROVE  /\ Frames!Digits(n) \in Seq(Frames!Byte) /\ Len(Frames!Digits(n)) = LengthBytes
         /\ Frames!Number(Frames!Digits(n)) = n
<1> DEFINE L == LengthBytes
           top == [i \in 1..L |-> Base - 1]
           ds == Frames!Digits(n)
<1>1. Base \in Nat /\ Base > 3 /\ L \in Nat \ {0} /\ Frames!Byte = 0..(Base - 1)
  BY BytesAre
<1>2. Len(top) = L /\ \A i \in 1..L : top[i] \in Nat /\ top[i] = Base - 1
  BY <1>1
<1> HIDE DEF top
<1>3. PICK t \in [0..L -> Nat] : Reads(top, t) /\ Frames!Number(top) = t[L]
  BY <1>1, <1>2, NumberReads
<1>4. Frames!Longest = t[L]
  BY <1>3 DEF Frames!Longest, top
<1>5. t[0] = 0 /\ \A i \in 1..L : t[i] = t[i - 1] * Base + (Base - 1)
  BY <1>2, <1>3 DEF Reads
<1>6. t[L] \in Nat /\ n \in Nat /\ n <= t[L]
  BY <1>1, <1>3, <1>4
<1>7. PICK f \in [0..L -> Nat] :
        /\ f[0] = n /\ \A k \in 1..L : f[k] = f[k - 1] \div Base
        /\ ds = [i \in 1..L |-> f[L - i] % Base]
  <2>1. Base \in Nat \ {0} /\ LengthBytes \in Nat /\ n \in Nat
    BY <1>1, <1>6
  <2>2. QED
    BY <2>1, DigitsAre
<1> HIDE DEF ds
<1> DEFINE T == {k \in 0..L : f[k] <= t[L - k]}
<1>8. 0 \in T
  BY <1>1, <1>6, <1>7
<1>9. ASSUME NEW k \in 1..L, k - 1 \in T
      PROVE  k \in T
  <2>1. k \in 0..L /\ k - 1 \in 0..L /\ L - k \in 0..L /\ L - (k - 1) \in 1..L
    BY <1>1
  <2>2. PICK x \in Nat : x = t[L - k]
    BY <2>1
  <2>3. (L - (k - 1)) - 1 = L - k
    BY <1>1
  <2>4. t[L - (k - 1)] = x * Base + (Base - 1)
    BY <1>5, <2>1, <2>2, <2>3
  <2>5. f[k - 1] \in Nat /\ f[k - 1] <= x * Base + (Base - 1)
    BY <1>9, <2>1, <2>4
  <2>6. f[k - 1] \div Base <= x
    BY <1>1, <2>5, DividedBound
  <2>7. QED
    BY <1>7, <2>1, <2>2, <2>6
<1>10. \A k \in 0..L : k \in T
  <2> HIDE DEF T
  <2>1. QED
    BY <1>1, <1>8, <1>9, UpTo
<1>11. f[L] = 0
  <2>1. L \in 0..L /\ L - L = 0 /\ f[L] \in Nat
    BY <1>1
  <2>2. QED
    BY <1>5, <1>10, <2>1
<1>12. \A i \in 1..L : L - i \in 0..L /\ f[L - i] \in Nat
  BY <1>1
<1>13. \A i \in 1..L : f[L - i] % Base \in 0..(Base - 1)
  <2>1. Base \in Nat \ {0}
    BY <1>1
  <2>2. TAKE i \in 1..L
  <2>3. f[L - i] \in Nat
    BY <1>12
  <2>4. QED
    BY <2>1, <2>3, Divided
<1>14. ds \in Seq(Frames!Byte) /\ Len(ds) = L
  BY <1>1, <1>7, <1>13
<1> DEFINE h == [i \in 0..L |-> f[L - i]]
<1>15. h \in [0..L -> Nat] /\ h[0] = 0 /\ h[L] = n
  <2>1. \A i \in 0..L : L - i \in 0..L
    BY <1>1
  <2>2. 0 \in 0..L /\ L \in 0..L /\ L - 0 = L /\ L - L = 0
    BY <1>1
  <2>3. QED
    BY <1>7, <1>11, <2>1, <2>2
<1>16. ASSUME NEW i \in 1..L
       PROVE  h[i] = h[i - 1] * Base + ds[i]
  <2>1. i \in 0..L /\ i - 1 \in 0..L /\ L - (i - 1) \in 1..L /\ (L - (i - 1)) - 1 = L - i
    BY <1>1
  <2>2. PICK x \in Nat : x = f[L - i]
    BY <1>12
  <2>3. h[i] = x /\ h[i - 1] = x \div Base
    BY <1>7, <2>1, <2>2
  <2>4. ds[i] = x % Base
    BY <1>7, <2>2
  <2>5. x = (x \div Base) * Base + (x % Base)
    <3>1. Base \in Nat \ {0}
      BY <1>1
    <3>2. QED
      BY <3>1, Divided
  <2>6. QED
    BY <2>3, <2>4, <2>5
<1>17. Frames!Number(ds) = h[L]
  <2> HIDE DEF h
  <2>1. Reads(ds, h)
    BY <1>14, <1>15, <1>16 DEF Reads
  <2>2. QED
    BY <1>1, <1>14, <1>15, <2>1, NumberIs
<1>18. QED
  BY <1>14, <1>15, <1>17 DEF ds

-----------------------------------------------------------------------------
(* The parser of frames, byte by byte.                                       *)

\* Less than a header is half read.
Heads   == {h \in Seq(Frames!Byte) : Len(h) < Frames!HeaderBytes}
Parsers == [head : Heads, left : Nat, stream : Nat, counts : [1..3 -> Nat], bytes : Nat,
            records : Nat, limit : Nat, failed : BOOLEAN, done : BOOLEAN, seen : Seq(Frames!Byte)]

\* A parser between frames has nothing of a header.
LEMMA NoHead == FrameAssumptions => << >> \in Heads
  BY BytesAre DEF Heads, Frames!HeaderBytes

\* A new parser is a parser.
LEMMA FreshParser == FrameAssumptions => Frames!Fresh \in Parsers
  BY BytesAre, NoHead DEF Frames!Fresh, Parsers, Frames!NoBytes

\* The parts of a parser.
LEMMA ParserFields ==
  \A p \in Parsers :
    /\ p.head \in Heads /\ p.head \in Seq(Frames!Byte) /\ p.left \in Nat /\ p.stream \in Nat /\ p.counts \in [1..3 -> Nat]
    /\ p.bytes \in Nat /\ p.records \in Nat /\ p.limit \in Nat /\ p.failed \in BOOLEAN
    /\ p.done \in BOOLEAN /\ p.seen \in Seq(Frames!Byte)
  BY DEF Parsers, Heads

\* Parsers with the same parts are the same.
LEMMA SameParser ==
  ASSUME NEW p \in Parsers, NEW q \in Parsers,
         p.head = q.head, p.left = q.left, p.stream = q.stream, p.counts = q.counts,
         p.bytes = q.bytes, p.records = q.records, p.limit = q.limit, p.failed = q.failed,
         p.done = q.done, p.seen = q.seen
  PROVE  p = q
  BY DEF Parsers

\* A header makes a parser of a parser.
LEMMA OpenedIsParser ==
  ASSUME FrameAssumptions, NEW p \in Parsers, NEW head \in Seq(Frames!Byte),
         Len(head) = Frames!HeaderBytes
  PROVE  Frames!Opened(p, head) \in Parsers
<1> DEFINE ds == SubSeq(head, 3, Frames!HeaderBytes)
           length == Frames!Number(ds)
           q == [p EXCEPT !.head = << >>, !.records = @ + 1]
<1>1. LengthBytes \in Nat \ {0} /\ Base \in Nat /\ Frames!Byte = 0..(Base - 1)
  BY BytesAre
<1>2. Len(ds) = LengthBytes /\ \A i \in 1..LengthBytes : ds[i] \in Nat
  BY <1>1 DEF Frames!HeaderBytes
<1> HIDE DEF ds
<1>3. length \in Nat
  <2>1. LengthBytes \in Nat /\ LengthBytes \in 0..LengthBytes
    BY <1>1
  <2>2. PICK f \in [0..LengthBytes -> Nat] : Frames!Number(ds) = f[LengthBytes]
    BY <1>1, <1>2, <2>1, NumberReads
  <2>3. QED
    BY <2>1, <2>2
<1>4. q \in Parsers
  <2>1. << >> \in Heads /\ p.records + 1 \in Nat
    BY NoHead DEF Parsers
  <2>2. QED
    BY <2>1 DEF Parsers
<1>5. head[1] \in Nat
  BY <1>1 DEF Frames!HeaderBytes
<1>6. Frames!Opened(p, head) =
        IF head[1] \in Frames!AllStreams /\ head[2] = 0 /\ length > 0
        THEN [q EXCEPT !.stream = head[1], !.left = length]
        ELSE IF head[1] \in Frames!AllStreams /\ head[2] = 1 /\ length = 0
        THEN [q EXCEPT !.limit = head[1]]
        ELSE [q EXCEPT !.failed = TRUE]
  BY DEF Frames!Opened, ds
<1> HIDE DEF q, length
<1>7. [q EXCEPT !.stream = head[1], !.left = length] \in Parsers
  BY <1>3, <1>4, <1>5 DEF Parsers
<1>8. [q EXCEPT !.limit = head[1]] \in Parsers
  BY <1>4, <1>5 DEF Parsers
<1>9. [q EXCEPT !.failed = TRUE] \in Parsers
  BY <1>4 DEF Parsers
<1>10. QED
  BY <1>6, <1>7, <1>8, <1>9

\* A byte makes a parser of a parser.
LEMMA TookIsParser ==
  ASSUME FrameAssumptions, NEW p \in Parsers, NEW b \in Frames!Byte
  PROVE  Frames!Took(p, b) \in Parsers
<1>1. LengthBytes \in Nat \ {0}
  BY BytesAre
<1>2. /\ p.left \in Nat /\ p.head \in Seq(Frames!Byte) /\ p.seen \in Seq(Frames!Byte)
      /\ Len(p.head) < Frames!HeaderBytes /\ Frames!HeaderBytes \in Nat /\ Len(p.head) \in Nat
      /\ p.stream \in Nat /\ p.counts \in [1..3 -> Nat]
  BY <1>1 DEF Parsers, Heads, Frames!HeaderBytes
<1>3. Append(p.head, b) \in Seq(Frames!Byte) /\ Len(Append(p.head, b)) = Len(p.head) + 1
  BY <1>2, AppendProperties
<1>4. CASE p.failed
  BY <1>4 DEF Frames!Took
<1>5. CASE ~ p.failed /\ p.limit # 0
  BY <1>5 DEF Frames!Took, Parsers
<1>6. CASE ~ p.failed /\ p.limit = 0 /\ p.left > 0
  <2>1. Append(p.seen, b) \in Seq(Frames!Byte) /\ p.left - 1 \in Nat
    BY <1>2, <1>6
  <2>2. [p.counts EXCEPT ![p.stream] = @ + 1] \in [1..3 -> Nat]
    <3>1. PICK c \in [1..3 -> Nat] : c = p.counts
      BY <1>2
    <3>2. PICK s \in Nat : s = p.stream
      BY <1>2
    <3>3. [c EXCEPT ![s] = @ + 1] = [k \in 1..3 |-> IF k = s THEN c[k] + 1 ELSE c[k]]
      OBVIOUS
    <3>4. [k \in 1..3 |-> IF k = s THEN c[k] + 1 ELSE c[k]] \in [1..3 -> Nat]
      OBVIOUS
    <3>5. QED
      BY <3>1, <3>2, <3>3, <3>4
  <2>3. Frames!Took(p, b) = [p EXCEPT !.left = p.left - 1,
                                      !.counts = [p.counts EXCEPT ![p.stream] = @ + 1],
                                      !.seen = Append(p.seen, b)]
    BY <1>6 DEF Frames!Took, Parsers
  <2>4. QED
    BY <2>1, <2>2, <2>3 DEF Parsers
<1>7. CASE ~ p.failed /\ p.limit = 0 /\ ~(p.left > 0) /\ Len(p.head) + 1 < Frames!HeaderBytes
  <2>1. Frames!Took(p, b) = [p EXCEPT !.head = Append(p.head, b)]
    BY <1>7 DEF Frames!Took
  <2>2. QED
    BY <1>3, <1>7, <2>1 DEF Parsers, Heads
<1>8. CASE ~ p.failed /\ p.limit = 0 /\ ~(p.left > 0) /\ ~(Len(p.head) + 1 < Frames!HeaderBytes)
  <2>1. Frames!Took(p, b) = Frames!Opened(p, Append(p.head, b))
    BY <1>8 DEF Frames!Took
  <2>2. PICK head \in Seq(Frames!Byte) : head = Append(p.head, b) /\ Len(head) = Len(p.head) + 1
    BY <1>3
  <2>3. Len(head) = Frames!HeaderBytes
    BY <1>2, <1>8, <2>2
  <2>4. QED
    BY <2>1, <2>2, <2>3, OpenedIsParser
<1>9. QED
  BY <1>4, <1>5, <1>6, <1>7, <1>8

\* TookAll, byte by byte.
Fed(c, p, f) == f[0] = p /\ \A i \in 1..Len(c) : f[i] = Frames!Took(f[i - 1], c[i])
LEMMA TookAllIs ==
  ASSUME NEW c, Len(c) \in Nat, NEW p, NEW S, NEW f \in [0..Len(c) -> S], Fed(c, p, f)
  PROVE  Frames!TookAll(p, c) = f[Len(c)]
<1> DEFINE n == Len(c)
           Body(h) == [i \in 0..n |-> IF i = 0 THEN p ELSE Frames!Took(h[i - 1], c[i])]
           A == CHOOSE h : h = Body(h)
<1>1. f = Body(f)
  <2>1. \A i \in 0..n : i = 0 \/ i \in 1..n
    OBVIOUS
  <2>2. QED
    BY <2>1 DEF Fed
<1>2. A = Body(A)
  <2> HIDE DEF Body
  <2>1. QED
    BY <1>1
<1>3. n \in Nat /\ 0 \in 0..n /\ \A i \in 1..n : i \in 0..n /\ i # 0
  OBVIOUS
<1> HIDE DEF A, n
<1>4. A[0] = p /\ \A i \in 1..n : A[i] = Frames!Took(A[i - 1], c[i])
  BY <1>2, <1>3
<1>5. Alike(n, f, A)
  BY <1>4 DEF Fed, Alike, n
<1>6. \A i \in 0..n : f[i] = A[i]
  BY <1>3, <1>5, Agree
<1>7. Frames!TookAll(p, c) = A[n]
  BY DEF Frames!TookAll, A, n
<1>8. QED
  BY <1>3, <1>6, <1>7 DEF n

\* A chunk is taken in byte by byte.
LEMMA TookAllUnfolds ==
  ASSUME FrameAssumptions, NEW p \in Parsers, NEW c \in Seq(Frames!Byte)
  PROVE  \E f \in [0..Len(c) -> Parsers] : Fed(c, p, f) /\ Frames!TookAll(p, c) = f[Len(c)]
<1> DEFINE n == Len(c)
           g == [i \in 1..n |-> [x \in Parsers |-> Frames!Took(x, c[i])]]
<1>1. n \in Nat /\ \A i \in 1..n : c[i] \in Frames!Byte
  OBVIOUS
<1>2. g \in StepsIn(Parsers, n)
  BY <1>1, TookIsParser DEF StepsIn
<1>3. \A i \in 1..n : \A x \in Parsers : g[i][x] = Frames!Took(x, c[i])
  OBVIOUS
<1> HIDE DEF g
<1>4. \E f : f \in Built(Parsers, p, n, g)
  BY <1>1, <1>2, StepByStep
<1>5. PICK f \in [0..n -> Parsers] : f[0] = p /\ \A i \in 1..n : f[i] = g[i][f[i - 1]]
  BY <1>4 DEF Built
<1>6. \A i \in 1..n : f[i] = Frames!Took(f[i - 1], c[i])
  <2>1. \A i \in 1..n : i - 1 \in 0..n
    BY <1>1
  <2>2. \A i \in 1..n : f[i - 1] \in Parsers
    BY <2>1
  <2>3. QED
    BY <1>3, <1>5, <2>2
<1>7. Fed(c, p, f)
  BY <1>5, <1>6 DEF Fed
<1>8. Frames!TookAll(p, c) = f[n]
  BY <1>1, <1>7, TookAllIs
<1>9. QED
  BY <1>7, <1>8

\* A chunk makes a parser of a parser.
LEMMA TookAllIsParser ==
  ASSUME FrameAssumptions, NEW p \in Parsers, NEW c \in Seq(Frames!Byte)
  PROVE  Frames!TookAll(p, c) \in Parsers
<1>1. PICK f \in [0..Len(c) -> Parsers] : Frames!TookAll(p, c) = f[Len(c)]
  BY TookAllUnfolds
<1>2. Len(c) \in 0..Len(c)
  OBVIOUS
<1>3. QED
  BY <1>1, <1>2

\* It does not matter where a chunk ends.
LEMMA TookInPieces ==
  ASSUME FrameAssumptions, NEW p \in Parsers, NEW a \in Seq(Frames!Byte), NEW b \in Seq(Frames!Byte)
  PROVE  Frames!TookAll(p, a \o b) = Frames!TookAll(Frames!TookAll(p, a), b)
<1> DEFINE m == Len(a)
           n == Len(b)
           c == a \o b
           q == Frames!TookAll(p, a)
<1>1. m \in Nat /\ n \in Nat
  OBVIOUS
<1>2. /\ c \in Seq(Frames!Byte) /\ Len(c) = m + n
      /\ \A i \in 1..(m + n) : c[i] = IF i <= m THEN a[i] ELSE b[i - m]
  BY ConcatProperties
<1>3. q \in Parsers
  BY TookAllIsParser
<1>4. PICK f \in [0..m -> Parsers] : Fed(a, p, f) /\ q = f[m]
  BY TookAllUnfolds
<1> HIDE DEF q
<1>5. PICK g \in [0..n -> Parsers] : Fed(b, q, g) /\ Frames!TookAll(q, b) = g[n]
  BY <1>3, TookAllUnfolds
<1> HIDE DEF c
<1> DEFINE h == [i \in 0..(m + n) |-> IF i <= m THEN f[i] ELSE g[i - m]]
<1>6. h \in [0..(m + n) -> Parsers]
  <2>1. \A i \in 0..(m + n) : IF i <= m THEN i \in 0..m ELSE i - m \in 0..n
    BY <1>1
  <2>2. QED
    BY <2>1
<1>7. h[0] = p
  BY <1>1, <1>4 DEF Fed
<1>8. ASSUME NEW i \in 1..(m + n)
      PROVE  h[i] = Frames!Took(h[i - 1], c[i])
  <2>1. i \in 0..(m + n) /\ i - 1 \in 0..(m + n)
    BY <1>1
  <2>2. CASE i <= m
    <3>1. i \in 1..m /\ i - 1 <= m /\ h[i] = f[i] /\ h[i - 1] = f[i - 1] /\ c[i] = a[i]
      BY <1>1, <1>2, <2>1, <2>2
    <3>2. QED
      BY <1>4, <3>1 DEF Fed
  <2>3. CASE i > m
    <3>1. i - m \in 1..n /\ h[i] = g[i - m] /\ c[i] = b[i - m]
      BY <1>1, <1>2, <2>1, <2>3
    <3>2. h[i - 1] = g[(i - m) - 1]
      <4>1. CASE i - 1 > m
        <5>1. (i - 1) - m = (i - m) - 1
          BY <1>1
        <5>2. QED
          BY <1>1, <2>1, <4>1, <5>1
      <4>2. CASE i - 1 = m
        <5>1. (i - m) - 1 = 0 /\ h[i - 1] = f[m]
          BY <1>1, <2>1, <4>2
        <5>2. QED
          BY <1>4, <1>5, <5>1 DEF Fed
      <4>3. QED
        BY <1>1, <2>3, <4>1, <4>2
    <3>3. QED
      BY <1>5, <3>1, <3>2 DEF Fed
  <2>4. QED
    BY <1>1, <2>2, <2>3
<1>9. h[m + n] = g[n]
  <2>1. m + n \in 0..(m + n) /\ (m + n) - m = n
    BY <1>1
  <2>2. CASE n = 0
    <3>1. h[m + n] = f[m] /\ g[n] = q
      BY <1>1, <1>5, <2>1, <2>2 DEF Fed
    <3>2. QED
      BY <1>4, <3>1
  <2>3. CASE n # 0
    BY <1>1, <2>1, <2>3
  <2>4. QED
    BY <2>2, <2>3
<1>10. Frames!TookAll(p, c) = h[m + n]
  <2> HIDE DEF h, m, n
  <2>1. Fed(c, p, h)
    BY <1>2, <1>7, <1>8 DEF Fed
  <2>2. Len(c) \in Nat /\ h \in [0..Len(c) -> Parsers]
    BY <1>1, <1>2, <1>6
  <2>3. QED
    BY <1>2, <2>1, <2>2, TookAllIs
<1>11. QED
  BY <1>5, <1>9, <1>10 DEF c, q

\* A parser that has failed takes nothing more.
LEMMA FailedForGood ==
  ASSUME NEW p \in Parsers, p.failed, NEW c \in Seq(Frames!Byte)
  PROVE  Frames!TookAll(p, c) = p
<1> DEFINE f == [i \in 0..Len(c) |-> p]
<1>1. Len(c) \in Nat /\ f \in [0..Len(c) -> Parsers] /\ f[Len(c)] = p
  OBVIOUS
<1>2. Fed(c, p, f)
  <2>1. f[0] = p /\ \A i \in 1..Len(c) : f[i - 1] = p /\ f[i] = p
    BY <1>1
  <2>2. \A b : Frames!Took(p, b) = p
    BY DEF Frames!Took
  <2> HIDE DEF f
  <2>3. QED
    BY <2>1, <2>2 DEF Fed
<1> HIDE DEF f
<1>3. QED
  BY <1>1, <1>2, TookAllIs

\* What the parser makes of bytes does not depend on how many it has been given, nor on
\* whether it is done.
With(p, n, d) == [p EXCEPT !.bytes = n, !.done = d]
LEMMA WithIsParser ==
  ASSUME NEW p \in Parsers, NEW n \in Nat, NEW d \in BOOLEAN
  PROVE  /\ With(p, n, d) \in Parsers /\ With(p, n, d).bytes = n /\ With(p, n, d).done = d
         /\ With(p, n, d).head = p.head /\ With(p, n, d).left = p.left
         /\ With(p, n, d).stream = p.stream /\ With(p, n, d).counts = p.counts
         /\ With(p, n, d).records = p.records /\ With(p, n, d).limit = p.limit
         /\ With(p, n, d).failed = p.failed /\ With(p, n, d).seen = p.seen
  BY DEF With, Parsers

\* A parser with its own count is itself.
LEMMA WithItsOwn ==
  ASSUME NEW p \in Parsers
  PROVE  With(p, p.bytes, p.done) = p
  BY DEF With, Parsers

\* Of two counts the last counts.
LEMMA WithTwice ==
  ASSUME NEW p \in Parsers, NEW n \in Nat, NEW d \in BOOLEAN, NEW m \in Nat, NEW e \in BOOLEAN
  PROVE  With(With(p, n, d), m, e) = With(p, m, e)
  BY DEF With, Parsers

\* What a header does has nothing to do with the bytes counted.
LEMMA OpenedWith ==
  ASSUME FrameAssumptions, NEW p \in Parsers, NEW n \in Nat, NEW d \in BOOLEAN,
         NEW head \in Seq(Frames!Byte), Len(head) = Frames!HeaderBytes
  PROVE  Frames!Opened(With(p, n, d), head) = With(Frames!Opened(p, head), n, d)
<1> DEFINE w == With(p, n, d)
           length == Frames!Number(SubSeq(head, 3, Frames!HeaderBytes))
           O == Frames!Opened(p, head)
           W == Frames!Opened(w, head)
<1>1. w \in Parsers /\ O \in Parsers /\ W \in Parsers /\ With(O, n, d) \in Parsers
  BY WithIsParser, OpenedIsParser
<1>2. CASE head[1] \in Frames!AllStreams /\ head[2] = 0 /\ length > 0
  BY <1>2 DEF With, Frames!Opened, Parsers
<1>3. CASE /\ ~(head[1] \in Frames!AllStreams /\ head[2] = 0 /\ length > 0)
           /\ head[1] \in Frames!AllStreams /\ head[2] = 1 /\ length = 0
  BY <1>3 DEF With, Frames!Opened, Parsers
<1>4. CASE /\ ~(head[1] \in Frames!AllStreams /\ head[2] = 0 /\ length > 0)
           /\ ~(head[1] \in Frames!AllStreams /\ head[2] = 1 /\ length = 0)
  BY <1>4 DEF With, Frames!Opened, Parsers
<1>5. QED
  BY <1>2, <1>3, <1>4

\* Nor has what a byte does.
LEMMA TookWith ==
  ASSUME FrameAssumptions, NEW p \in Parsers, NEW n \in Nat, NEW d \in BOOLEAN,
         NEW b \in Frames!Byte
  PROVE  Frames!Took(With(p, n, d), b) = With(Frames!Took(p, b), n, d)
<1> DEFINE w == With(p, n, d)
<1>1. /\ w \in Parsers /\ w.head = p.head /\ w.left = p.left /\ w.limit = p.limit
      /\ w.failed = p.failed
  BY WithIsParser
<1>2. /\ p.left \in Nat /\ p.head \in Seq(Frames!Byte)
      /\ Len(p.head) < Frames!HeaderBytes /\ Frames!HeaderBytes \in Nat /\ Len(p.head) \in Nat
  BY BytesAre DEF Parsers, Heads, Frames!HeaderBytes
<1>4. CASE p.failed
  BY <1>1, <1>4 DEF Frames!Took
<1>5. CASE ~ p.failed /\ p.limit # 0
  BY <1>5 DEF Frames!Took, Parsers, With
<1>6. CASE ~ p.failed /\ p.limit = 0 /\ p.left > 0
  BY <1>6 DEF Frames!Took, Parsers, With
<1>7. CASE ~ p.failed /\ p.limit = 0 /\ ~(p.left > 0) /\ Len(p.head) + 1 < Frames!HeaderBytes
  BY <1>7 DEF Frames!Took, Parsers, With
<1>8. CASE ~ p.failed /\ p.limit = 0 /\ ~(p.left > 0) /\ ~(Len(p.head) + 1 < Frames!HeaderBytes)
  <2>1. PICK head \in Seq(Frames!Byte) : head = Append(p.head, b) /\ Len(head) = Len(p.head) + 1
    BY <1>2, AppendProperties
  <2>2. Len(head) = Frames!HeaderBytes
    BY <1>2, <1>8, <2>1
  <2>3. Frames!Took(p, b) = Frames!Opened(p, head) /\ Frames!Took(w, b) = Frames!Opened(w, head)
    <3> HIDE DEF w
    <3>1. QED
      BY <1>1, <1>8, <2>1 DEF Frames!Took
  <2>4. QED
    BY <2>2, <2>3, OpenedWith
<1>9. QED
  BY <1>4, <1>5, <1>6, <1>7, <1>8

\* Nor has what a chunk does.
LEMMA TookAllWith ==
  ASSUME FrameAssumptions, NEW p \in Parsers, NEW n \in Nat, NEW d \in BOOLEAN,
         NEW c \in Seq(Frames!Byte)
  PROVE  Frames!TookAll(With(p, n, d), c) = With(Frames!TookAll(p, c), n, d)
<1>1. PICK f \in [0..Len(c) -> Parsers] : Fed(c, p, f) /\ Frames!TookAll(p, c) = f[Len(c)]
  BY TookAllUnfolds
<1> DEFINE h == [i \in 0..Len(c) |-> With(f[i], n, d)]
<1>2. Len(c) \in Nat /\ \A i \in 1..Len(c) : i \in 0..Len(c) /\ i - 1 \in 0..Len(c)
  OBVIOUS
<1>3. h \in [0..Len(c) -> Parsers]
  BY WithIsParser
<1>4. h[0] = With(p, n, d) /\ h[Len(c)] = With(f[Len(c)], n, d)
  BY <1>1, <1>2 DEF Fed
<1>5. ASSUME NEW i \in 1..Len(c)
      PROVE  h[i] = Frames!Took(h[i - 1], c[i])
  <2>1. f[i] = Frames!Took(f[i - 1], c[i]) /\ f[i - 1] \in Parsers /\ c[i] \in Frames!Byte
    BY <1>1, <1>2 DEF Fed
  <2>2. h[i] = With(f[i], n, d) /\ h[i - 1] = With(f[i - 1], n, d)
    BY <1>2
  <2> HIDE DEF h
  <2>3. QED
    BY <2>1, <2>2, TookWith
<1> HIDE DEF h
<1>6. Fed(c, With(p, n, d), h)
  BY <1>4, <1>5 DEF Fed
<1>7. Frames!TookAll(With(p, n, d), c) = h[Len(c)]
  BY <1>2, <1>3, <1>6, TookAllIs
<1>8. QED
  BY <1>1, <1>4, <1>7

\* push counts the bytes of the chunk and takes them.
LEMMA Pushed ==
  ASSUME FrameAssumptions, NEW p \in Parsers, NEW n \in Nat, NEW c \in Seq(Frames!Byte), ~ p.failed
  PROVE  /\ Len(c) \in Nat
         /\ Frames!Push(With(p, n, FALSE), c) = With(Frames!TookAll(p, c), n + Len(c), FALSE)
<1> DEFINE w == With(p, n, FALSE)
<1>1. Len(c) \in Nat /\ n + Len(c) \in Nat
  OBVIOUS
<1>2. w \in Parsers /\ ~ w.failed /\ ~ w.done /\ w.bytes = n
  BY WithIsParser
<1>3. [w EXCEPT !.bytes = @ + Len(c)] = With(p, n + Len(c), FALSE)
  BY <1>1 DEF With, Parsers
<1> HIDE DEF w
<1>4. Frames!Push(w, c) = Frames!TookAll(With(p, n + Len(c), FALSE), c)
  BY <1>2, <1>3 DEF Frames!Push
<1>5. QED
  BY <1>1, <1>4, TookAllWith DEF w

-----------------------------------------------------------------------------
(* Whole frames.                                                             *)

\* Between frames: the next byte begins a header.
Between(p) == p \in Parsers /\ ~ p.failed /\ p.limit = 0 /\ p.left = 0 /\ p.head = << >>

\* A byte appended to the second part is appended to the whole.
LEMMA AppendConcat ==
  \A s, t \in Seq(Frames!Byte), e \in Frames!Byte : Append(s \o t, e) = s \o Append(t, e)
<1> SUFFICES ASSUME NEW s \in Seq(Frames!Byte), NEW t \in Seq(Frames!Byte), NEW e \in Frames!Byte
             PROVE  Append(s \o t, e) = s \o Append(t, e)
  OBVIOUS
<1>1. <<e>> \in Seq(Frames!Byte) /\ s \o t \in Seq(Frames!Byte)
  BY ConcatProperties
<1>2. Append(s \o t, e) = (s \o t) \o <<e>> /\ Append(t, e) = t \o <<e>>
  BY <1>1, AppendIsConcat
<1>3. QED
  BY <1>1, <1>2, ConcatAssociative

\* Between two frames a header is taken as what it says.
LEMMA HeaderTaken ==
  ASSUME FrameAssumptions, NEW p, Between(p), NEW hd \in Seq(Frames!Byte),
         Len(hd) = Frames!HeaderBytes
  PROVE  Frames!TookAll(p, hd) = Frames!Opened(p, hd)
<1> DEFINE n == Len(hd)
           f == [i \in 0..n |-> IF i < n THEN [p EXCEPT !.head = SubSeq(hd, 1, i)]
                                ELSE Frames!Opened(p, hd)]
<1>1. p \in Parsers /\ ~ p.failed /\ p.limit = 0 /\ p.left = 0 /\ p.head = << >>
  BY DEF Between
<1>2. n \in Nat /\ n > 1 /\ n = Frames!HeaderBytes
  BY BytesAre DEF Frames!HeaderBytes
<1>3. ASSUME NEW i \in 0..n, i < n
      PROVE  /\ SubSeq(hd, 1, i) \in Heads /\ Len(SubSeq(hd, 1, i)) = i
             /\ [p EXCEPT !.head = SubSeq(hd, 1, i)] \in Parsers
  <2>1. SubSeq(hd, 1, i) \in Seq(Frames!Byte) /\ Len(SubSeq(hd, 1, i)) = i
    BY <1>2, <1>3
  <2>2. SubSeq(hd, 1, i) \in Heads
    BY <1>2, <1>3, <2>1 DEF Heads
  <2>3. QED
    BY <1>1, <2>1, <2>2 DEF Parsers
<1>4. Frames!Opened(p, hd) \in Parsers
  BY <1>1, <1>2, OpenedIsParser
<1>5. f \in [0..n -> Parsers]
  BY <1>3, <1>4
<1>6. f[0] = p
  <2>1. SubSeq(hd, 1, 0) = << >>
    OBVIOUS
  <2>2. [p EXCEPT !.head = << >>] = p
    BY <1>1 DEF Parsers
  <2>3. 0 \in 0..n /\ 0 < n
    BY <1>2
  <2>4. f[0] = [p EXCEPT !.head = SubSeq(hd, 1, 0)]
    BY <2>3
  <2>5. QED
    BY <2>1, <2>2, <2>4
<1>7. ASSUME NEW i \in 1..n
      PROVE  f[i] = Frames!Took(f[i - 1], hd[i])
  <2>0. i - 1 \in 0..n /\ i - 1 < n /\ i \in 0..n
    BY <1>2
  <2>a. hd[i] \in Frames!Byte
    BY ElementOfSeq
  <2>1. i - 1 \in 0..n /\ i - 1 < n /\ i \in 0..n /\ hd[i] \in Frames!Byte
    BY <2>0, <2>a
  <2>2. PICK h \in Seq(Frames!Byte) : h = SubSeq(hd, 1, i - 1) /\ Len(h) = i - 1 /\ h \in Heads
    <3>1. SubSeq(hd, 1, i - 1) \in Heads /\ Len(SubSeq(hd, 1, i - 1)) = i - 1
      BY <1>3, <2>1
    <3>2. QED
      BY <3>1 DEF Heads
  <2>3. PICK q \in Parsers : q = [p EXCEPT !.head = h]
    BY <1>3, <2>1, <2>2
  <2>4. f[i - 1] = q
    BY <2>1, <2>2, <2>3
  <2>5. Append(h, hd[i]) = SubSeq(hd, 1, i)
    BY <1>2, <2>1, <2>2
  <2>6. ~ q.failed /\ q.limit = 0 /\ ~(q.left > 0) /\ q.head = h
    BY <1>1, <2>3 DEF Parsers
  <2>7. CASE i < n
    <3>1. Frames!Took(q, hd[i]) = [q EXCEPT !.head = Append(h, hd[i])]
      BY <1>2, <2>2, <2>6, <2>7 DEF Frames!Took
    <3>2. [q EXCEPT !.head = Append(h, hd[i])] = [p EXCEPT !.head = Append(h, hd[i])]
      BY <1>1, <2>3 DEF Parsers
    <3>3. QED
      BY <2>1, <2>4, <2>5, <2>7, <3>1, <3>2
  <2>8. CASE i = n
    <3>1. SubSeq(hd, 1, i) = hd
      BY <1>2, <2>8
    <3>2. Frames!Took(q, hd[i]) = Frames!Opened(q, hd)
      <4>1. Append(q.head, hd[i]) = hd
        BY <2>5, <2>6, <3>1
      <4>2. ~(Len(q.head) + 1 < Frames!HeaderBytes)
        BY <1>2, <2>2, <2>6, <2>8
      <4>3. QED
        BY <2>6, <4>1, <4>2 DEF Frames!Took
    <3>3. Frames!Opened(q, hd) = Frames!Opened(p, hd)
      <4>1. [q EXCEPT !.head = << >>, !.records = @ + 1] = [p EXCEPT !.head = << >>, !.records = @ + 1]
        BY <1>1, <2>3 DEF Parsers
      <4>2. QED
        BY <4>1 DEF Frames!Opened
    <3>4. QED
      <4>1. f[i] = Frames!Opened(p, hd)
        BY <2>1, <2>8
      <4>2. QED
        BY <2>4, <3>2, <3>3, <4>1
  <2>9. QED
    BY <1>2, <2>7, <2>8
<1>8. f[n] = Frames!Opened(p, hd)
  BY <1>2
<1> HIDE DEF f
<1>9. Fed(hd, p, f)
  BY <1>6, <1>7 DEF Fed
<1>10. Frames!TookAll(p, hd) = f[n]
  BY <1>2, <1>5, <1>9, TookAllIs
<1>11. QED
  BY <1>8, <1>10

\* What is left of a payload goes to its stream.
PayloadTo(p, bytes, i) ==
  [p EXCEPT !.left = p.left - i, !.counts = [p.counts EXCEPT ![p.stream] = @ + i],
            !.seen = p.seen \o SubSeq(bytes, 1, i)]
Paid(p, bytes, i, q) ==
  /\ q.left = p.left - i /\ q.counts = [p.counts EXCEPT ![p.stream] = @ + i]
  /\ q.seen = p.seen \o SubSeq(bytes, 1, i) /\ q.stream = p.stream
  /\ q.head = p.head /\ q.records = p.records /\ q.limit = p.limit /\ q.failed = p.failed
  /\ q.bytes = p.bytes /\ q.done = p.done
Loaded(p, bytes) ==
  /\ p \in Parsers /\ p.stream \in 1..3 /\ bytes \in Seq(Frames!Byte) /\ p.left = Len(bytes)

\* The parts of a parser that has taken some of a payload.
LEMMA PayloadFields ==
  \A p, bytes : Loaded(p, bytes) => \A i \in 0..Len(bytes) :
    PayloadTo(p, bytes, i) \in Parsers /\ Paid(p, bytes, i, PayloadTo(p, bytes, i))
<1> SUFFICES ASSUME NEW p, NEW bytes, Loaded(p, bytes), NEW i \in 0..Len(bytes)
             PROVE  /\ PayloadTo(p, bytes, i) \in Parsers
                    /\ Paid(p, bytes, i, PayloadTo(p, bytes, i))
  OBVIOUS
<1>0. p \in Parsers /\ p.stream \in 1..3 /\ bytes \in Seq(Frames!Byte) /\ p.left = Len(bytes)
  BY DEF Loaded
<1>1. p.left - i \in Nat /\ p.counts \in [1..3 -> Nat] /\ p.seen \in Seq(Frames!Byte) /\ i \in Nat
  BY <1>0 DEF Parsers
<1>2. PICK c \in [1..3 -> Nat] : c = [p.counts EXCEPT ![p.stream] = @ + i]
  <2>1. PICK c \in [1..3 -> Nat] : c = p.counts
    BY <1>1
  <2>2. PICK s \in 1..3 : s = p.stream
    BY <1>0
  <2>3. [c EXCEPT ![s] = @ + i] \in [1..3 -> Nat]
    BY <1>1
  <2>4. QED
    BY <2>1, <2>2, <2>3
<1>3. PICK t \in Seq(Frames!Byte) : t = p.seen \o SubSeq(bytes, 1, i)
  <2>1. SubSeq(bytes, 1, i) \in Seq(Frames!Byte)
    BY <1>0
  <2>2. QED
    BY <1>1, <2>1, ConcatProperties
<1>4. PayloadTo(p, bytes, i) = [p EXCEPT !.left = p.left - i, !.counts = c, !.seen = t]
  BY <1>2, <1>3 DEF PayloadTo
<1>5. QED
  BY <1>0, <1>1, <1>2, <1>3, <1>4 DEF Parsers, Paid

\* As many bytes as a header announced are payload.
LEMMA PayloadTaken ==
  ASSUME FrameAssumptions, NEW p \in Parsers, ~ p.failed, p.limit = 0, p.stream \in 1..3,
         NEW bytes \in Seq(Frames!Byte), p.left = Len(bytes)
  PROVE  Frames!TookAll(p, bytes) = PayloadTo(p, bytes, Len(bytes))
<1> DEFINE n == Len(bytes)
           f == [i \in 0..n |-> PayloadTo(p, bytes, i)]
<1>1. n \in Nat /\ 0 \in 0..n /\ n \in 0..n
  OBVIOUS
<1>0. Loaded(p, bytes)
  BY DEF Loaded
<1>2. f \in [0..n -> Parsers]
  BY <1>0, PayloadFields
<1>3. f[0] = p
  <2>1. PICK q \in Parsers : q = PayloadTo(p, bytes, 0) /\ Paid(p, bytes, 0, q)
    BY <1>0, <1>1, PayloadFields
  <2>2. p.counts \in [1..3 -> Nat] /\ p.seen \in Seq(Frames!Byte) /\ p.left \in Nat
    BY DEF Parsers
  <2>3. [p.counts EXCEPT ![p.stream] = @ + 0] = p.counts
    <3>1. PICK c \in [1..3 -> Nat] : c = p.counts
      BY <2>2
    <3>2. PICK s \in 1..3 : s = p.stream
      OBVIOUS
    <3>3. [c EXCEPT ![s] = @ + 0] = c
      OBVIOUS
    <3>4. QED
      BY <3>1, <3>2, <3>3
  <2>4. p.seen \o SubSeq(bytes, 1, 0) = p.seen
    BY <2>2
  <2>5. /\ q.left = p.left - 0 /\ q.counts = p.counts /\ q.seen = p.seen /\ q.stream = p.stream
        /\ q.head = p.head /\ q.records = p.records /\ q.limit = p.limit /\ q.failed = p.failed
        /\ q.bytes = p.bytes /\ q.done = p.done
    BY <2>1, <2>3, <2>4 DEF Paid
  <2>6. q = p
    BY <2>2, <2>5, SameParser
  <2>7. QED
    BY <1>1, <2>1, <2>6
<1>4. ASSUME NEW i \in 1..n
      PROVE  f[i] = Frames!Took(f[i - 1], bytes[i])
  <2>1. i - 1 \in 0..n /\ i \in 0..n /\ bytes[i] \in Frames!Byte /\ i \in Nat
    BY <1>1
  <2>2. PICK q \in Parsers : q = PayloadTo(p, bytes, i - 1) /\ Paid(p, bytes, i - 1, q)
    BY <1>0, <2>1, PayloadFields
  <2>3. PICK r \in Parsers : r = PayloadTo(p, bytes, i) /\ Paid(p, bytes, i, r)
    BY <1>0, <2>1, PayloadFields
  <2>4. /\ q.left = p.left - (i - 1) /\ q.counts = [p.counts EXCEPT ![p.stream] = @ + (i - 1)]
        /\ q.seen = p.seen \o SubSeq(bytes, 1, i - 1) /\ q.stream = p.stream
        /\ q.head = p.head /\ q.records = p.records /\ q.limit = p.limit /\ q.failed = p.failed
        /\ q.bytes = p.bytes /\ q.done = p.done
    BY <2>2 DEF Paid
  <2>5. /\ r.left = p.left - i /\ r.counts = [p.counts EXCEPT ![p.stream] = @ + i]
        /\ r.seen = p.seen \o SubSeq(bytes, 1, i) /\ r.stream = p.stream
        /\ r.head = p.head /\ r.records = p.records /\ r.limit = p.limit /\ r.failed = p.failed
        /\ r.bytes = p.bytes /\ r.done = p.done
    BY <2>3 DEF Paid
  <2>6. /\ p.counts \in [1..3 -> Nat] /\ p.seen \in Seq(Frames!Byte) /\ p.left \in Nat
        /\ p.left = n
    BY DEF Parsers
  <2>7. [q.counts EXCEPT ![q.stream] = @ + 1] = r.counts
    <3>1. PICK c \in [1..3 -> Nat] : c = p.counts
      BY <2>6
    <3>2. PICK s \in 1..3 : s = p.stream
      OBVIOUS
    <3>0. PICK x \in Nat : x = i - 1 /\ x + 1 = i
      BY <2>1
    <3>3. PICK g \in [1..3 -> Nat] : g = [c EXCEPT ![s] = @ + x]
      <4>1. [c EXCEPT ![s] = @ + x] \in [1..3 -> Nat]
        OBVIOUS
      <4>2. QED
        BY <4>1
    <3>4. [g EXCEPT ![s] = @ + 1] = [c EXCEPT ![s] = @ + (x + 1)]
      BY <3>3
    <3>5. QED
      BY <2>4, <2>5, <3>0, <3>1, <3>2, <3>3, <3>4
  <2>8. Append(q.seen, bytes[i]) = r.seen
    <3>0. PICK a \in Seq(Frames!Byte) : a = SubSeq(bytes, 1, i - 1)
      <4>1. SubSeq(bytes, 1, i - 1) \in Seq(Frames!Byte)
        BY <1>1, <2>1
      <4>2. QED
        BY <4>1
    <3>1. Append(a, bytes[i]) = SubSeq(bytes, 1, i)
      BY <1>1, <2>1, <3>0
    <3>2. PICK t \in Seq(Frames!Byte) : t = p.seen
      BY <2>6
    <3>3. Append(t \o a, bytes[i]) = t \o Append(a, bytes[i])
      <4>1. PICK e \in Frames!Byte : e = bytes[i]
        BY <2>1
      <4>2. Append(t \o a, e) = t \o Append(a, e)
        BY <3>0, <3>2, <4>1, AppendConcat
      <4>3. QED
        BY <4>1, <4>2
    <3>4. QED
      BY <2>4, <2>5, <3>0, <3>1, <3>2, <3>3
  <2>9. q.left > 0 /\ q.left - 1 = r.left
    BY <1>1, <2>1, <2>4, <2>5, <2>6
  <2>10. PICK c \in [1..3 -> Nat] : c = r.counts
    BY <2>3, ParserFields
  <2>11. PICK t \in Seq(Frames!Byte) : t = r.seen
    BY <2>3, ParserFields
  <2>12. PICK l \in Nat : l = r.left
    BY <2>3, ParserFields
  <2>13. Frames!Took(q, bytes[i]) = [q EXCEPT !.left = l, !.counts = c, !.seen = t]
    <3>1. [q EXCEPT !.left = @ - 1, !.counts[q.stream] = @ + 1, !.seen = Append(@, bytes[i])] =
          [q EXCEPT !.left = q.left - 1, !.counts = [q.counts EXCEPT ![q.stream] = @ + 1],
                    !.seen = Append(q.seen, bytes[i])]
      BY <2>2 DEF Parsers
    <3>2. Frames!Took(q, bytes[i]) =
          [q EXCEPT !.left = @ - 1, !.counts[q.stream] = @ + 1, !.seen = Append(@, bytes[i])]
      BY <2>4, <2>9 DEF Frames!Took
    <3>3. QED
      BY <2>7, <2>8, <2>9, <2>10, <2>11, <2>12, <3>1, <3>2
  <2>14. [q EXCEPT !.left = l, !.counts = c, !.seen = t] = r
    <3>1. PICK x \in Parsers : x = [q EXCEPT !.left = l, !.counts = c, !.seen = t]
      BY <2>2 DEF Parsers
    <3>2. /\ x.left = r.left /\ x.counts = r.counts /\ x.seen = r.seen /\ x.stream = r.stream
          /\ x.head = r.head /\ x.records = r.records /\ x.limit = r.limit /\ x.failed = r.failed
          /\ x.bytes = r.bytes /\ x.done = r.done
      BY <2>2, <2>4, <2>5, <2>10, <2>11, <2>12, <3>1 DEF Parsers
    <3>3. x = r
      BY <3>2, SameParser
    <3>4. QED
      BY <3>1, <3>3
  <2>15. QED
    BY <2>1, <2>2, <2>3, <2>13, <2>14
<1>5. f[n] = PayloadTo(p, bytes, n)
  BY <1>1
<1> HIDE DEF f
<1>6. Fed(bytes, p, f)
  BY <1>3, <1>4 DEF Fed
<1>7. Frames!TookAll(p, bytes) = f[n]
  BY <1>1, <1>2, <1>6, TookAllIs
<1>8. QED
  BY <1>5, <1>7

\* A header is one of the parser's, and says what it was given.
LEMMA HeaderIs ==
  ASSUME FrameAssumptions, NEW s \in 1..3, NEW flags \in {0, 1}, NEW n \in 0..Frames!Longest
  PROVE  /\ Frames!Header(s, flags, n) \in Seq(Frames!Byte)
         /\ Len(Frames!Header(s, flags, n)) = Frames!HeaderBytes
         /\ Frames!Header(s, flags, n)[1] = s /\ Frames!Header(s, flags, n)[2] = flags
         /\ Frames!Number(SubSeq(Frames!Header(s, flags, n), 3, Frames!HeaderBytes)) = n
<1>1. Base \in Nat /\ Base > 3 /\ LengthBytes \in Nat \ {0} /\ Frames!Byte = 0..(Base - 1)
  BY BytesAre
<1>2. PICK ds \in Seq(Frames!Byte) :
        ds = Frames!Digits(n) /\ Len(ds) = LengthBytes /\ Frames!Number(ds) = n
  BY NumberOfDigits
<1>3. PICK top \in Seq(Frames!Byte) : top = <<s, flags>> /\ Len(top) = 2 /\ top[1] = s /\ top[2] = flags
  <2>1. s \in Frames!Byte /\ flags \in Frames!Byte
    BY <1>1
  <2>2. <<s, flags>> \in Seq(Frames!Byte)
    BY <2>1
  <2>3. QED
    BY <2>2
<1>4. PICK hd : hd = Frames!Header(s, flags, n)
  OBVIOUS
<1>5. hd = top \o ds
  BY <1>2, <1>3, <1>4 DEF Frames!Header
<1>6. /\ hd \in Seq(Frames!Byte) /\ Len(hd) = 2 + LengthBytes /\ hd[1] = s /\ hd[2] = flags
      /\ \A i \in 1..LengthBytes : hd[i + 2] = ds[i]
  <2>1. top \o ds \in Seq(Frames!Byte) /\ Len(top \o ds) = Len(top) + Len(ds)
    BY ConcatProperties
  <2>2. \A i \in 1..(Len(top) + Len(ds)) :
          (top \o ds)[i] = IF i <= Len(top) THEN top[i] ELSE ds[i - Len(top)]
    BY ConcatProperties
  <2>3. QED
    BY <1>1, <1>2, <1>3, <1>5, <2>1, <2>2
<1>7. SubSeq(hd, 3, 2 + LengthBytes) = ds
  <2>1. PICK t : t = SubSeq(hd, 3, 2 + LengthBytes)
    OBVIOUS
  <2>2. t \in Seq(Frames!Byte) /\ Len(t) = LengthBytes /\ \A i \in 1..LengthBytes : t[i] = hd[i + 2]
    <3>1. PICK k \in Nat : k = 2 + LengthBytes /\ k = Len(hd) /\ k >= 3 /\ (k - 3) + 1 = LengthBytes
      BY <1>1, <1>6
    <3>2. t \in Seq(Frames!Byte) /\ Len(t) = LengthBytes
      BY <1>6, <2>1, <3>1
    <3>3. ASSUME NEW i \in 1..LengthBytes
          PROVE  t[i] = hd[i + 2]
      BY <1>6, <2>1, <3>1
    <3>4. QED
      BY <3>2, <3>3
  <2>3. \A i \in 1..Len(ds) : t[i] = ds[i]
    BY <1>2, <1>6, <2>2
  <2>4. t = ds
    BY <1>2, <2>2, <2>3, SeqEqual
  <2>5. QED
    BY <2>1, <2>4
<1>8. QED
  BY <1>2, <1>4, <1>6, <1>7 DEF Frames!HeaderBytes

\* What the parser makes of a frame of data, and of the mark of the limit.
DataGiven(p, s, bytes, q) ==
  /\ q \in Parsers /\ Between(q)
  /\ q.counts = [p.counts EXCEPT ![s] = @ + Len(bytes)] /\ q.records = p.records + 1
  /\ q.seen = p.seen \o bytes /\ q.limit = 0 /\ q.bytes = p.bytes /\ q.done = p.done

\* A frame of data, read between two frames: its payload is given to the visitor.
LEMMA DataTaken ==
  ASSUME FrameAssumptions, NEW p, Between(p), NEW s \in 1..3, NEW bytes \in Seq(Frames!Byte),
         Len(bytes) \in 1..Frames!Longest
  PROVE  /\ Frames!Data(s, bytes) \in Seq(Frames!Byte)
         /\ Len(Frames!Data(s, bytes)) = Frames!HeaderBytes + Len(bytes)
         /\ DataGiven(p, s, bytes, Frames!TookAll(p, Frames!Data(s, bytes)))
<1>1. p \in Parsers /\ ~ p.failed /\ p.limit = 0 /\ p.left = 0 /\ p.head = << >>
  BY DEF Between
<1>2. PICK n \in Nat : n = Len(bytes) /\ n > 0 /\ n \in 0..Frames!Longest
  OBVIOUS
<1>3. PICK hd \in Seq(Frames!Byte) :
        /\ hd = Frames!Header(s, 0, n) /\ Len(hd) = Frames!HeaderBytes /\ hd[1] = s /\ hd[2] = 0
        /\ Frames!Number(SubSeq(hd, 3, Frames!HeaderBytes)) = n
  BY <1>2, HeaderIs
<1>4. Frames!Data(s, bytes) = hd \o bytes
  BY <1>2, <1>3 DEF Frames!Data
<1>5. PICK q \in Parsers : q = Frames!Opened(p, hd)
  BY <1>1, <1>3, OpenedIsParser
<1>6. q = [p EXCEPT !.head = << >>, !.records = p.records + 1, !.stream = s, !.left = n]
  <2>1. s \in Frames!AllStreams
    BY BytesAre
  <2>2. PICK w : w = [p EXCEPT !.head = << >>, !.records = @ + 1]
    OBVIOUS
  <2>3. q = [w EXCEPT !.stream = s, !.left = n]
    BY <1>2, <1>3, <1>5, <2>1, <2>2 DEF Frames!Opened
  <2>4. QED
    BY <1>1, <2>2, <2>3 DEF Parsers
<1>7. /\ q.stream = s /\ q.left = n /\ q.head = << >> /\ q.records = p.records + 1
      /\ q.counts = p.counts /\ q.seen = p.seen /\ q.limit = 0 /\ ~ q.failed
      /\ q.bytes = p.bytes /\ q.done = p.done
  BY <1>1, <1>2, <1>6 DEF Parsers
<1>8. Frames!TookAll(p, hd \o bytes) = Frames!TookAll(q, bytes)
  BY <1>1, <1>3, <1>5, TookInPieces, HeaderTaken
<1>9. Frames!TookAll(q, bytes) = PayloadTo(q, bytes, n)
  BY <1>2, <1>7, PayloadTaken
<1>10. PICK r \in Parsers : r = PayloadTo(q, bytes, n) /\ Paid(q, bytes, n, r)
  <2>1. Loaded(q, bytes) /\ n \in 0..Len(bytes)
    BY <1>2, <1>7 DEF Loaded
  <2>2. QED
    BY <1>2, <2>1, PayloadFields
<1>11. SubSeq(bytes, 1, n) = bytes
  BY <1>2
<1>12. DataGiven(p, s, bytes, r)
  <2>1. r.left = 0
    BY <1>2, <1>7, <1>10 DEF Paid
  <2>2. QED
    BY <1>2, <1>7, <1>10, <1>11, <2>1 DEF Paid, DataGiven, Between
<1>13. hd \o bytes \in Seq(Frames!Byte) /\ Len(hd \o bytes) = Frames!HeaderBytes + Len(bytes)
  BY <1>3, ConcatProperties
<1>14. QED
  BY <1>4, <1>8, <1>9, <1>10, <1>12, <1>13

\* The frame that marks the limit.
LEMMA MarkTaken ==
  ASSUME FrameAssumptions, NEW p, Between(p), NEW s \in 1..3
  PROVE  /\ Frames!LimitMark(s) \in Seq(Frames!Byte)
         /\ Len(Frames!LimitMark(s)) = Frames!HeaderBytes
         /\ Frames!TookAll(p, Frames!LimitMark(s)) \in Parsers
         /\ Frames!TookAll(p, Frames!LimitMark(s)) = [p EXCEPT !.records = p.records + 1, !.limit = s]
<1>1. p \in Parsers /\ ~ p.failed /\ p.limit = 0 /\ p.left = 0 /\ p.head = << >>
  BY DEF Between
<1>2. 0 \in 0..Frames!Longest
  BY LongestIsANumber
<1>3. PICK hd \in Seq(Frames!Byte) :
        /\ hd = Frames!Header(s, 1, 0) /\ Len(hd) = Frames!HeaderBytes /\ hd[1] = s /\ hd[2] = 1
        /\ Frames!Number(SubSeq(hd, 3, Frames!HeaderBytes)) = 0
  BY <1>2, HeaderIs
<1>4. Frames!LimitMark(s) = hd
  BY <1>3 DEF Frames!LimitMark
<1>5. PICK q \in Parsers : q = Frames!Opened(p, hd)
  BY <1>1, <1>3, OpenedIsParser
<1>6. q = [p EXCEPT !.records = p.records + 1, !.limit = s]
  <2>1. s \in Frames!AllStreams
    BY BytesAre
  <2>2. PICK w : w = [p EXCEPT !.head = << >>, !.records = @ + 1]
    OBVIOUS
  <2>3. q = [w EXCEPT !.limit = s]
    BY <1>3, <1>5, <2>1, <2>2 DEF Frames!Opened
  <2>4. QED
    BY <1>1, <2>2, <2>3 DEF Parsers
<1>7. Frames!TookAll(p, hd) = q
  BY <1>3, <1>5, HeaderTaken
<1>8. QED
  BY <1>3, <1>4, <1>5, <1>6, <1>7

-----------------------------------------------------------------------------
(* Sums and concatenations of any length.                                    *)

TotalOf(w, n) ==
  LET S[i \in 0..n] == IF i = 0 THEN 0 ELSE S[i - 1] + w[i] IN S[n]
JoinOf(w, n) ==
  LET S[i \in 0..n] == IF i = 0 THEN << >> ELSE S[i - 1] \o w[i] IN S[n]

\* w[1] .. w[n] are numbers, or bytes, and f adds them up.
Counted(w, n) == \A i \in 1..n : w[i] \in Nat
Totals(w, n, f) ==
  /\ f[0] = 0 /\ \A i \in 1..n : f[i] = f[i - 1] + w[i]
  /\ \A k \in 0..n : TotalOf(w, k) = f[k]
Spelt(w, n) == \A i \in 1..n : w[i] \in Seq(Frames!Byte)
Joins(w, n, f) ==
  /\ f[0] = << >> /\ \A i \in 1..n : f[i] = f[i - 1] \o w[i]
  /\ \A k \in 0..n : JoinOf(w, k) = f[k]

\* A sum, number by number.
LEMMA TotalIs ==
  \A n \in Nat : \A w : Counted(w, n) => \E f \in [0..n -> Nat] : Totals(w, n, f)
<1> SUFFICES ASSUME NEW n \in Nat, NEW w, Counted(w, n)
             PROVE  \E f \in [0..n -> Nat] : Totals(w, n, f)
  OBVIOUS
<1>0. \A i \in 1..n : w[i] \in Nat
  BY DEF Counted
<1> DEFINE g == [i \in 1..n |-> [x \in Nat |-> x + w[i]]]
<1>1. g \in StepsIn(Nat, n)
  BY <1>0 DEF StepsIn
<1>2. \A i \in 1..n : \A x \in Nat : g[i][x] = x + w[i]
  OBVIOUS
<1> HIDE DEF g
<1>3. \E f : f \in Built(Nat, 0, n, g)
  <2>1. 0 \in Nat
    OBVIOUS
  <2>2. QED
    BY <1>1, <2>1, StepByStep
<1>4. PICK f \in [0..n -> Nat] : f[0] = 0 /\ \A i \in 1..n : f[i] = g[i][f[i - 1]]
  BY <1>3 DEF Built
<1>5. \A i \in 1..n : f[i] = f[i - 1] + w[i]
  <2>1. \A i \in 1..n : i - 1 \in 0..n
    OBVIOUS
  <2>2. \A i \in 1..n : f[i - 1] \in Nat
    BY <2>1
  <2>3. QED
    BY <1>2, <1>4, <2>2
<1>6. ASSUME NEW k \in 0..n
      PROVE  TotalOf(w, k) = f[k]
  <2> DEFINE Body(h) == [i \in 0..k |-> IF i = 0 THEN 0 ELSE h[i - 1] + w[i]]
             N == CHOOSE h : h = Body(h)
             e == [i \in 0..k |-> f[i]]
  <2>1. e = Body(e)
    <3>1. ASSUME NEW i \in 0..k
          PROVE  e[i] = IF i = 0 THEN 0 ELSE e[i - 1] + w[i]
      <4>1. CASE i = 0
        BY <1>4, <4>1
      <4>2. CASE i # 0
        <5>1. i \in 1..n /\ i - 1 \in 0..k /\ i \in 0..k
          BY <4>2
        <5>2. e[i] = f[i] /\ e[i - 1] = f[i - 1]
          BY <5>1
        <5> HIDE DEF e
        <5>3. QED
          BY <1>5, <4>2, <5>1, <5>2
      <4>3. QED
        BY <4>1, <4>2
    <3>2. e = [i \in 0..k |-> e[i]]
      OBVIOUS
    <3> HIDE DEF e
    <3>3. QED
      BY <3>1, <3>2
  <2>2. N = Body(N)
    <3> HIDE DEF Body
    <3>1. QED
      BY <2>1
  <2>3. k \in Nat /\ 0 \in 0..k /\ k \in 0..k /\ \A i \in 1..k : i \in 0..k /\ i # 0 /\ i \in 1..n
    OBVIOUS
  <2>4. TotalOf(w, k) = N[k]
    BY DEF TotalOf
  <2> HIDE DEF N, e
  <2>5. N[0] = 0 /\ \A i \in 1..k : N[i] = N[i - 1] + w[i]
    BY <2>2, <2>3
  <2>6. Alike(k, f, N)
    BY <1>4, <1>5, <2>3, <2>5 DEF Alike
  <2>7. QED
    BY <2>3, <2>4, <2>6, Agree
<1>7. QED
  BY <1>4, <1>5, <1>6 DEF Totals

\* The sum of nothing, of one more, and of the same numbers.
LEMMA TotalOfNone == \A w : TotalOf(w, 0) = 0
<1> SUFFICES ASSUME NEW w
             PROVE  TotalOf(w, 0) = 0
  OBVIOUS
<1>1. Counted(w, 0)
  BY DEF Counted
<1>2. PICK f \in [0..0 -> Nat] : Totals(w, 0, f)
  BY <1>1, TotalIs
<1>3. QED
  BY <1>2 DEF Totals

LEMMA TotalOfMore ==
  \A n \in Nat : \A w : Counted(w, n + 1) =>
    TotalOf(w, n) \in Nat /\ TotalOf(w, n + 1) = TotalOf(w, n) + w[n + 1]
<1> SUFFICES ASSUME NEW n \in Nat, NEW w, Counted(w, n + 1)
             PROVE  TotalOf(w, n) \in Nat /\ TotalOf(w, n + 1) = TotalOf(w, n) + w[n + 1]
  OBVIOUS
<1>1. PICK m \in Nat : m = n + 1
  OBVIOUS
<1>2. PICK f \in [0..m -> Nat] : Totals(w, m, f)
  BY <1>1, TotalIs
<1>3. m \in 1..m /\ m \in 0..m /\ n \in 0..m /\ m - 1 = n
  BY <1>1
<1>4. f[m] = f[n] + w[m] /\ TotalOf(w, m) = f[m] /\ TotalOf(w, n) = f[n]
  BY <1>2, <1>3 DEF Totals
<1>5. f[n] \in Nat
  BY <1>2, <1>3
<1>6. QED
  BY <1>1, <1>4, <1>5

LEMMA TotalIsOne == \A n \in Nat : \A w : Counted(w, n) => TotalOf(w, n) \in Nat
<1> SUFFICES ASSUME NEW n \in Nat, NEW w, Counted(w, n)
             PROVE  TotalOf(w, n) \in Nat
  OBVIOUS
<1>1. PICK f \in [0..n -> Nat] : Totals(w, n, f)
  BY TotalIs
<1>2. n \in 0..n
  OBVIOUS
<1>3. QED
  BY <1>1, <1>2 DEF Totals

\* The first n are the same.
Same(v, w, n) == \A i \in 1..n : v[i] = w[i]
LEMMA TotalsAgree ==
  \A n \in Nat : \A v, w : Counted(w, n) /\ Same(v, w, n) => TotalOf(v, n) = TotalOf(w, n)
<1> SUFFICES ASSUME NEW n \in Nat, NEW v, NEW w, Counted(w, n), Same(v, w, n)
             PROVE  TotalOf(v, n) = TotalOf(w, n)
  OBVIOUS
<1>0. Counted(v, n)
  BY DEF Counted, Same
<1>1. PICK f \in [0..n -> Nat] : Totals(w, n, f)
  BY TotalIs
<1>2. PICK h \in [0..n -> Nat] : Totals(v, n, h)
  BY <1>0, TotalIs
<1>3. Alike(n, f, h)
  BY <1>1, <1>2 DEF Alike, Totals, Same
<1>4. \A i \in 0..n : f[i] = h[i]
  BY <1>3, Agree
<1>5. n \in 0..n
  OBVIOUS
<1>6. TotalOf(w, n) = f[n] /\ TotalOf(v, n) = h[n]
  BY <1>1, <1>2, <1>5 DEF Totals
<1>7. QED
  BY <1>4, <1>5, <1>6

\* A concatenation, part by part.
LEMMA JoinIs ==
  \A n \in Nat : \A w : Spelt(w, n) => \E f \in [0..n -> Seq(Frames!Byte)] : Joins(w, n, f)
<1> SUFFICES ASSUME NEW n \in Nat, NEW w, Spelt(w, n)
             PROVE  \E f \in [0..n -> Seq(Frames!Byte)] : Joins(w, n, f)
  OBVIOUS
<1>0. \A i \in 1..n : w[i] \in Seq(Frames!Byte)
  BY DEF Spelt
<1> DEFINE g == [i \in 1..n |-> [x \in Seq(Frames!Byte) |-> x \o w[i]]]
<1>1. g \in StepsIn(Seq(Frames!Byte), n)
  <2>1. \A i \in 1..n : \A x \in Seq(Frames!Byte) : x \o w[i] \in Seq(Frames!Byte)
    BY <1>0, ConcatProperties
  <2>2. QED
    BY <2>1 DEF StepsIn
<1>2. \A i \in 1..n : \A x \in Seq(Frames!Byte) : g[i][x] = x \o w[i]
  OBVIOUS
<1> HIDE DEF g
<1>3. \E f : f \in Built(Seq(Frames!Byte), << >>, n, g)
  <2>1. << >> \in Seq(Frames!Byte)
    OBVIOUS
  <2>2. QED
    BY <1>1, <2>1, StepByStep
<1>4. PICK f \in [0..n -> Seq(Frames!Byte)] : f[0] = << >> /\ \A i \in 1..n : f[i] = g[i][f[i - 1]]
  BY <1>3 DEF Built
<1>5. \A i \in 1..n : f[i] = f[i - 1] \o w[i]
  <2>1. \A i \in 1..n : i - 1 \in 0..n
    OBVIOUS
  <2>2. \A i \in 1..n : f[i - 1] \in Seq(Frames!Byte)
    BY <2>1
  <2>3. QED
    BY <1>2, <1>4, <2>2
<1>6. ASSUME NEW k \in 0..n
      PROVE  JoinOf(w, k) = f[k]
  <2> DEFINE Body(h) == [i \in 0..k |-> IF i = 0 THEN << >> ELSE h[i - 1] \o w[i]]
             N == CHOOSE h : h = Body(h)
             e == [i \in 0..k |-> f[i]]
  <2>1. e = Body(e)
    <3>1. ASSUME NEW i \in 0..k
          PROVE  e[i] = IF i = 0 THEN << >> ELSE e[i - 1] \o w[i]
      <4>1. CASE i = 0
        BY <1>4, <4>1
      <4>2. CASE i # 0
        <5>1. i \in 1..n /\ i - 1 \in 0..k /\ i \in 0..k
          BY <4>2
        <5>2. e[i] = f[i] /\ e[i - 1] = f[i - 1]
          BY <5>1
        <5> HIDE DEF e
        <5>3. QED
          BY <1>5, <4>2, <5>1, <5>2
      <4>3. QED
        BY <4>1, <4>2
    <3>2. e = [i \in 0..k |-> e[i]]
      OBVIOUS
    <3> HIDE DEF e
    <3>3. QED
      BY <3>1, <3>2
  <2>2. N = Body(N)
    <3> HIDE DEF Body
    <3>1. QED
      BY <2>1
  <2>3. k \in Nat /\ 0 \in 0..k /\ k \in 0..k /\ \A i \in 1..k : i \in 0..k /\ i # 0 /\ i \in 1..n
    OBVIOUS
  <2>4. JoinOf(w, k) = N[k]
    BY DEF JoinOf
  <2> HIDE DEF N, e
  <2>5. N[0] = << >> /\ \A i \in 1..k : N[i] = N[i - 1] \o w[i]
    BY <2>2, <2>3
  <2>6. Alike(k, f, N)
    BY <1>4, <1>5, <2>3, <2>5 DEF Alike
  <2>7. QED
    BY <2>3, <2>4, <2>6, Agree
<1>7. QED
  BY <1>4, <1>5, <1>6 DEF Joins

\* The concatenation of nothing, of one more, and of the same bytes.
LEMMA JoinOfNone == \A w : JoinOf(w, 0) = << >>
<1> SUFFICES ASSUME NEW w
             PROVE  JoinOf(w, 0) = << >>
  OBVIOUS
<1>1. Spelt(w, 0)
  BY DEF Spelt
<1>2. PICK f \in [0..0 -> Seq(Frames!Byte)] : Joins(w, 0, f)
  BY <1>1, JoinIs
<1>3. QED
  BY <1>2 DEF Joins

LEMMA JoinOfMore ==
  \A n \in Nat : \A w : Spelt(w, n + 1) =>
    JoinOf(w, n) \in Seq(Frames!Byte) /\ JoinOf(w, n + 1) = JoinOf(w, n) \o w[n + 1]
<1> SUFFICES ASSUME NEW n \in Nat, NEW w, Spelt(w, n + 1)
             PROVE  JoinOf(w, n) \in Seq(Frames!Byte) /\ JoinOf(w, n + 1) = JoinOf(w, n) \o w[n + 1]
  OBVIOUS
<1>1. PICK m \in Nat : m = n + 1
  OBVIOUS
<1>2. PICK f \in [0..m -> Seq(Frames!Byte)] : Joins(w, m, f)
  BY <1>1, JoinIs
<1>3. m \in 1..m /\ m \in 0..m /\ n \in 0..m /\ m - 1 = n
  BY <1>1
<1>4. f[m] = f[n] \o w[m] /\ JoinOf(w, m) = f[m] /\ JoinOf(w, n) = f[n]
  BY <1>2, <1>3 DEF Joins
<1>5. f[n] \in Seq(Frames!Byte)
  BY <1>2, <1>3
<1>6. QED
  BY <1>1, <1>4, <1>5

LEMMA JoinIsOne == \A n \in Nat : \A w : Spelt(w, n) => JoinOf(w, n) \in Seq(Frames!Byte)
<1> SUFFICES ASSUME NEW n \in Nat, NEW w, Spelt(w, n)
             PROVE  JoinOf(w, n) \in Seq(Frames!Byte)
  OBVIOUS
<1>1. PICK f \in [0..n -> Seq(Frames!Byte)] : Joins(w, n, f)
  BY JoinIs
<1>2. n \in 0..n
  OBVIOUS
<1>3. QED
  BY <1>1, <1>2 DEF Joins

LEMMA JoinsAgree ==
  \A n \in Nat : \A v, w : Spelt(w, n) /\ Same(v, w, n) => JoinOf(v, n) = JoinOf(w, n)
<1> SUFFICES ASSUME NEW n \in Nat, NEW v, NEW w, Spelt(w, n), Same(v, w, n)
             PROVE  JoinOf(v, n) = JoinOf(w, n)
  OBVIOUS
<1>0. Spelt(v, n)
  BY DEF Spelt, Same
<1>1. PICK f \in [0..n -> Seq(Frames!Byte)] : Joins(w, n, f)
  BY JoinIs
<1>2. PICK h \in [0..n -> Seq(Frames!Byte)] : Joins(v, n, h)
  BY <1>0, JoinIs
<1>3. Alike(n, f, h)
  BY <1>1, <1>2 DEF Alike, Joins, Same
<1>4. \A i \in 0..n : f[i] = h[i]
  BY <1>3, Agree
<1>5. n \in 0..n
  OBVIOUS
<1>6. JoinOf(w, n) = f[n] /\ JoinOf(v, n) = h[n]
  BY <1>1, <1>2, <1>5 DEF Joins
<1>7. QED
  BY <1>4, <1>5, <1>6


-----------------------------------------------------------------------------
(* What holds of the frames. *)

\* What the calls brought, what they were told, and what of it was accepted.
LengthsOf(cs) == [i \in 1..Len(cs) |-> Len(cs[i].bytes)]
AnswersOf(rs) == [i \in 1..Len(rs) |-> rs[i].accepted]
PiecesOf(cs, rs) == [i \in 1..Len(rs) |-> SubSeq(cs[i].bytes, 1, rs[i].accepted)]
Brought(cs, n) == TotalOf(LengthsOf(cs), n)
Told(rs) == TotalOf(AnswersOf(rs), Len(rs))
AcceptedOf(cs, rs) == JoinOf(PiecesOf(cs, rs), Len(rs))

\* What a reader makes of the object, and what is in its frames.
Parsed == Frames!TookAll(Frames!Fresh, framed)
Carried == Frames!Total(out.counts)
Cut(n) == IF n < OutputLimit THEN n ELSE OutputLimit

\* The types of the variables.
CallRecords == [stream : Streams, bytes : Payloads]
ResultRecords == [accepted : 0..OutputLimit, limit : BOOLEAN]
Steps == {"idle", "data", "end", "marker"}
Verdicts == {"none", "ok", "malformed"}

\* No call is told more than it brought.
Fits(cs, rs) == \A i \in 1..Len(rs) : rs[i].accepted <= Len(cs[i].bytes)

FrameTypes ==
  /\ calls \in Seq(CallRecords) /\ results \in Seq(ResultRecords)
  /\ Len(results) <= Len(calls) /\ Fits(calls, results)
  /\ step \in Steps /\ (step # "idle" => Len(results) < Len(calls) /\ ~ broken)
  /\ out \in [counts : [1..3 -> Nat], records : Nat, bytes : Nat, limit : 0..3]
  /\ broken \in BOOLEAN /\ finishing \in {"no", "called", "ok", "failed"}
  /\ sink \in [state : {"open", "published", "aborted", "refused"}, parser : Parsers,
               failed : BOOLEAN]
  /\ framed \in Seq(Frames!Byte)
  /\ scan \in [at : Nat, parser : Parsers, verdict : Verdicts]

\* The writer and the parser of the sink count the same: what a reader makes of
\* the whole object.
SinkInv ==
  /\ sink.parser = With(Parsed, Len(framed), sink.parser.done)
  /\ sink.state = "open" => ~ sink.parser.done
  /\ ~ Parsed.failed /\ Parsed.head = << >> /\ Parsed.left = 0
  /\ Parsed.counts = out.counts /\ Parsed.records = out.records /\ Parsed.limit = out.limit
  /\ out.bytes = Len(framed) /\ out.bytes = Carried + Frames!HeaderBytes * out.records

\* The end is the end of all calls.
EndInv ==
  /\ finishing \in {"ok", "failed"} => Len(results) = Len(calls)
  /\ finishing = "ok" => ~ broken
  /\ sink.state # "open" => finishing \in {"ok", "failed"}
  /\ sink.state = "published" => finishing = "ok"
  /\ sink.state # "refused"
  /\ sink.failed => broken

\* A scan has made of the bytes up to here what any scan makes of them.
ScanInv ==
  /\ sink.state # "published" => scan = Frames!NoScan
  /\ scan.at <= Len(framed)
  /\ scan.parser =
       With(Frames!TookAll(Frames!Fresh, SubSeq(framed, 1, scan.at)), scan.at, FALSE)
  /\ scan.verdict # "none" => scan.verdict = "ok" /\ scan.at = Len(framed)

\* What the calls that are answered brought is kept, as far as there is room; of
\* the call at the head, what its step says.
BeforeData ==
  /\ Carried = Cut(Brought(calls, Len(results))) /\ Carried = Told(results)
  /\ (out.limit # 0) = (Carried = OutputLimit)
  /\ Parsed.seen = AcceptedOf(calls, results)
AfterData ==
  /\ out.limit = 0
  /\ Told(results) = Brought(calls, Len(results)) /\ Told(results) < OutputLimit
  /\ Carried = Cut(Brought(calls, Len(results) + 1))
  /\ Parsed.seen = AcceptedOf(calls, results)
                     \o SubSeq(Frames!Next1.bytes, 1, Carried - Told(results))
TaskInv ==
  /\ Carried <= OutputLimit
  /\ ~ broken /\ step \in {"idle", "data"} => BeforeData
  /\ step = "data" => out.limit = 0 /\ Frames!Accepted # << >>
  /\ step \in {"end", "marker"} => AfterData
  /\ step = "marker" => Carried = OutputLimit

FramesInv == FrameTypes /\ SinkInv /\ EndInv /\ ScanInv /\ TaskInv

\* What calls and answers are.
LEMMA CallsAre ==
  FrameAssumptions =>
    \A cs \in Seq(CallRecords) : \A i \in 1..Len(cs) :
      cs[i].bytes \in Seq(Frames!Byte) /\ cs[i].stream \in 1..3 /\ Len(cs[i].bytes) \in Nat
<1> SUFFICES ASSUME FrameAssumptions, NEW cs \in Seq(CallRecords), NEW i \in 1..Len(cs)
             PROVE  /\ cs[i].bytes \in Seq(Frames!Byte) /\ cs[i].stream \in 1..3
                    /\ Len(cs[i].bytes) \in Nat
  OBVIOUS
<1>1. Payloads \subseteq Seq(Frames!Byte)
  BY DEF FrameAssumptions, Frames!PayloadAssumption
<1>2. cs[i] \in CallRecords
  OBVIOUS
<1>3. cs[i].bytes \in Payloads /\ cs[i].stream \in Streams
  BY <1>2 DEF CallRecords
<1>4. cs[i].bytes \in Seq(Frames!Byte)
  BY <1>1, <1>3
<1>5. QED
  BY <1>3, <1>4, BytesAre

\* Calls have lengths.
LEMMA LengthsAre ==
  FrameAssumptions =>
    \A cs \in Seq(CallRecords) : \A n \in 0..Len(cs) : Counted(LengthsOf(cs), n)
<1> SUFFICES ASSUME FrameAssumptions, NEW cs \in Seq(CallRecords), NEW n \in 0..Len(cs),
                    NEW i \in 1..n
             PROVE  LengthsOf(cs)[i] \in Nat
  BY DEF Counted
<1>1. i \in 1..Len(cs)
  OBVIOUS
<1>2. Len(cs[i].bytes) \in Nat
  BY <1>1, CallsAre
<1>3. QED
  BY <1>1, <1>2 DEF LengthsOf

\* What calls brought is a number of bytes.
LEMMA BroughtIs ==
  FrameAssumptions =>
    \A cs \in Seq(CallRecords) : \A n \in 0..Len(cs) : Brought(cs, n) \in Nat
<1> SUFFICES ASSUME FrameAssumptions, NEW cs \in Seq(CallRecords), NEW n \in 0..Len(cs)
             PROVE  Brought(cs, n) \in Nat
  OBVIOUS
<1>1. n \in Nat /\ Counted(LengthsOf(cs), n)
  BY LengthsAre
<1>2. QED
  BY <1>1, TotalIsOne DEF Brought

\* One call more.
LEMMA BroughtNext ==
  FrameAssumptions =>
    \A cs \in Seq(CallRecords) : \A n \in 0..Len(cs) :
      n < Len(cs) => Brought(cs, n + 1) = Brought(cs, n) + Len(cs[n + 1].bytes)
<1> SUFFICES ASSUME FrameAssumptions, NEW cs \in Seq(CallRecords), NEW n \in 0..Len(cs),
                    n < Len(cs)
             PROVE  Brought(cs, n + 1) = Brought(cs, n) + Len(cs[n + 1].bytes)
  OBVIOUS
<1>1. n \in Nat /\ n + 1 \in 0..Len(cs) /\ n + 1 \in 1..Len(cs)
  OBVIOUS
<1>2. Counted(LengthsOf(cs), n + 1)
  BY <1>1, LengthsAre
<1>3. TotalOf(LengthsOf(cs), n + 1) = TotalOf(LengthsOf(cs), n) + LengthsOf(cs)[n + 1]
  BY <1>1, <1>2, TotalOfMore
<1>4. LengthsOf(cs)[n + 1] = Len(cs[n + 1].bytes)
  BY <1>1 DEF LengthsOf
<1>5. QED
  BY <1>3, <1>4 DEF Brought

\* A call that joins the queue changes nothing for those before it.
LEMMA BroughtStays ==
  FrameAssumptions =>
    \A cs \in Seq(CallRecords) : \A c \in CallRecords : \A n \in 0..Len(cs) :
      Brought(Append(cs, c), n) = Brought(cs, n)
<1> SUFFICES ASSUME FrameAssumptions, NEW cs \in Seq(CallRecords), NEW c \in CallRecords,
                    NEW n \in 0..Len(cs)
             PROVE  Brought(Append(cs, c), n) = Brought(cs, n)
  OBVIOUS
<1>1. n \in Nat /\ Counted(LengthsOf(cs), n)
  BY LengthsAre
<1>2. /\ Append(cs, c) \in Seq(CallRecords) /\ Len(Append(cs, c)) = Len(cs) + 1
      /\ \A i \in 1..Len(cs) : Append(cs, c)[i] = cs[i]
  BY AppendProperties
<1>3. Same(LengthsOf(Append(cs, c)), LengthsOf(cs), n)
  <2>1. ASSUME NEW i \in 1..n
        PROVE  LengthsOf(Append(cs, c))[i] = LengthsOf(cs)[i]
    <3>1. i \in 1..Len(cs) /\ i \in 1..(Len(cs) + 1)
      OBVIOUS
    <3>2. LengthsOf(Append(cs, c))[i] = Len(Append(cs, c)[i].bytes)
      BY <1>2, <3>1 DEF LengthsOf
    <3>3. LengthsOf(cs)[i] = Len(cs[i].bytes)
      BY <3>1 DEF LengthsOf
    <3>4. QED
      BY <1>2, <3>1, <3>2, <3>3
  <2>2. QED
    BY <2>1 DEF Same
<1>4. QED
  BY <1>1, <1>3, TotalsAgree DEF Brought

\* Answers are numbers of bytes.
LEMMA AnswersAre ==
  FrameAssumptions =>
    \A rs \in Seq(ResultRecords) : \A n \in 0..Len(rs) : Counted(AnswersOf(rs), n)
<1> SUFFICES ASSUME FrameAssumptions, NEW rs \in Seq(ResultRecords), NEW n \in 0..Len(rs),
                    NEW i \in 1..n
             PROVE  AnswersOf(rs)[i] \in Nat
  BY DEF Counted
<1>1. i \in 1..Len(rs) /\ rs[i] \in ResultRecords
  OBVIOUS
<1>2. OutputLimit \in Nat
  BY BytesAre, LongestIsANumber
<1>3. rs[i].accepted \in Nat
  BY <1>1, <1>2 DEF ResultRecords
<1>4. QED
  BY <1>1, <1>3 DEF AnswersOf

\* One answer more.
LEMMA ToldMore ==
  FrameAssumptions =>
    \A rs \in Seq(ResultRecords) : \A r \in ResultRecords :
      Told(rs) \in Nat /\ Told(Append(rs, r)) = Told(rs) + r.accepted
<1> SUFFICES ASSUME FrameAssumptions, NEW rs \in Seq(ResultRecords), NEW r \in ResultRecords
             PROVE  Told(rs) \in Nat /\ Told(Append(rs, r)) = Told(rs) + r.accepted
  OBVIOUS
<1>1. PICK n \in Nat : n = Len(rs)
  OBVIOUS
<1>2. PICK qs \in Seq(ResultRecords) :
        /\ qs = Append(rs, r) /\ Len(qs) = n + 1 /\ qs[n + 1] = r
        /\ \A i \in 1..n : qs[i] = rs[i]
  <2>1. /\ Append(rs, r) \in Seq(ResultRecords) /\ Len(Append(rs, r)) = Len(rs) + 1
        /\ Append(rs, r)[Len(rs) + 1] = r
        /\ \A i \in 1..Len(rs) : Append(rs, r)[i] = rs[i]
    BY AppendProperties
  <2>2. QED
    BY <1>1, <2>1
<1>3. Counted(AnswersOf(qs), n + 1) /\ Counted(AnswersOf(rs), n)
  <2>1. n + 1 \in 0..Len(qs) /\ n \in 0..Len(rs)
    BY <1>1, <1>2
  <2>2. QED
    BY <2>1, AnswersAre
<1>4. /\ TotalOf(AnswersOf(qs), n) \in Nat
      /\ TotalOf(AnswersOf(qs), n + 1) = TotalOf(AnswersOf(qs), n) + AnswersOf(qs)[n + 1]
  BY <1>3, TotalOfMore
<1>5. AnswersOf(qs)[n + 1] = r.accepted
  BY <1>2 DEF AnswersOf
<1>6. Same(AnswersOf(qs), AnswersOf(rs), n)
  <2>1. ASSUME NEW i \in 1..n
        PROVE  AnswersOf(qs)[i] = AnswersOf(rs)[i]
    BY <1>1, <1>2 DEF AnswersOf
  <2>2. QED
    BY <2>1 DEF Same
<1>7. TotalOf(AnswersOf(qs), n) = TotalOf(AnswersOf(rs), n)
  BY <1>3, <1>6, TotalsAgree
<1>8. QED
  BY <1>1, <1>2, <1>4, <1>5, <1>7 DEF Told

\* What calls were told is a number of bytes.
LEMMA ToldIs ==
  FrameAssumptions => \A rs \in Seq(ResultRecords) : Told(rs) \in Nat
<1> SUFFICES ASSUME FrameAssumptions, NEW rs \in Seq(ResultRecords)
             PROVE  Told(rs) \in Nat
  OBVIOUS
<1>1. Len(rs) \in Nat /\ Len(rs) \in 0..Len(rs)
  OBVIOUS
<1>2. Counted(AnswersOf(rs), Len(rs))
  BY <1>1, AnswersAre
<1>3. QED
  BY <1>1, <1>2, TotalIsOne DEF Told

\* The beginning of a call that was accepted.
LEMMA Beginning ==
  \A s \in Seq(Frames!Byte) : \A k \in 0..Len(s) :
    /\ SubSeq(s, 1, k) \in Seq(Frames!Byte) /\ Len(SubSeq(s, 1, k)) = k
    /\ k = 0 => SubSeq(s, 1, k) = << >>
<1> SUFFICES ASSUME NEW s \in Seq(Frames!Byte), NEW k \in 0..Len(s)
             PROVE  /\ SubSeq(s, 1, k) \in Seq(Frames!Byte) /\ Len(SubSeq(s, 1, k)) = k
                    /\ k = 0 => SubSeq(s, 1, k) = << >>
  OBVIOUS
<1>1. SubSeq(s, 1, k) \in Seq(Frames!Byte) /\ Len(SubSeq(s, 1, k)) = k
  OBVIOUS
<1>2. QED
  BY <1>1, EmptySeq

\* Calls of which some are answered.
Dealt(cs, rs) ==
  /\ cs \in Seq(CallRecords) /\ rs \in Seq(ResultRecords) /\ Len(rs) <= Len(cs)
  /\ Fits(cs, rs)
LEMMA PiecesAre ==
  FrameAssumptions => \A cs, rs : Dealt(cs, rs) => Spelt(PiecesOf(cs, rs), Len(rs))
<1> SUFFICES ASSUME FrameAssumptions, NEW cs, NEW rs, Dealt(cs, rs), NEW i \in 1..Len(rs)
             PROVE  PiecesOf(cs, rs)[i] \in Seq(Frames!Byte)
  BY DEF Spelt
<1>1. /\ cs \in Seq(CallRecords) /\ rs \in Seq(ResultRecords) /\ Len(rs) <= Len(cs)
      /\ rs[i].accepted <= Len(cs[i].bytes)
  BY DEF Dealt, Fits
<1>2. i \in 1..Len(cs) /\ rs[i] \in ResultRecords
  BY <1>1
<1>3. cs[i].bytes \in Seq(Frames!Byte)
  BY <1>1, <1>2, CallsAre
<1>4. OutputLimit \in Nat
  BY BytesAre, LongestIsANumber
<1>5. rs[i].accepted \in Nat
  BY <1>2, <1>4 DEF ResultRecords
<1>6. rs[i].accepted \in 0..Len(cs[i].bytes)
  BY <1>1, <1>3, <1>5
<1>7. SubSeq(cs[i].bytes, 1, rs[i].accepted) \in Seq(Frames!Byte)
  BY <1>3, <1>6, Beginning
<1>8. QED
  BY <1>7 DEF PiecesOf

\* What was accepted is bytes.
LEMMA AcceptedIs ==
  FrameAssumptions => \A cs, rs : Dealt(cs, rs) => AcceptedOf(cs, rs) \in Seq(Frames!Byte)
<1> SUFFICES ASSUME FrameAssumptions, NEW cs, NEW rs, Dealt(cs, rs)
             PROVE  AcceptedOf(cs, rs) \in Seq(Frames!Byte)
  OBVIOUS
<1>1. Len(rs) \in Nat
  BY DEF Dealt
<1>2. Spelt(PiecesOf(cs, rs), Len(rs))
  BY PiecesAre
<1>3. QED
  BY <1>1, <1>2, JoinIsOne DEF AcceptedOf

\* One answer more.
LEMMA AcceptedMore ==
  FrameAssumptions => \A cs, rs : Dealt(cs, rs) => \A r \in ResultRecords :
    Dealt(cs, Append(rs, r)) =>
      AcceptedOf(cs, Append(rs, r)) =
        AcceptedOf(cs, rs) \o SubSeq(cs[Len(rs) + 1].bytes, 1, r.accepted)
<1> SUFFICES ASSUME FrameAssumptions, NEW cs, NEW rs, Dealt(cs, rs), NEW r \in ResultRecords,
                    Dealt(cs, Append(rs, r))
             PROVE  AcceptedOf(cs, Append(rs, r)) =
                      AcceptedOf(cs, rs) \o SubSeq(cs[Len(rs) + 1].bytes, 1, r.accepted)
  OBVIOUS
<1>0. rs \in Seq(ResultRecords)
  BY DEF Dealt
<1>1. PICK n \in Nat : n = Len(rs)
  BY <1>0
<1>2. PICK qs \in Seq(ResultRecords) :
        /\ qs = Append(rs, r) /\ Len(qs) = n + 1 /\ qs[n + 1] = r
        /\ \A i \in 1..n : qs[i] = rs[i]
  <2>1. /\ Append(rs, r) \in Seq(ResultRecords) /\ Len(Append(rs, r)) = Len(rs) + 1
        /\ Append(rs, r)[Len(rs) + 1] = r
        /\ \A i \in 1..Len(rs) : Append(rs, r)[i] = rs[i]
    BY <1>0, AppendProperties
  <2>2. QED
    BY <1>1, <2>1
<1>3. Spelt(PiecesOf(cs, qs), n + 1)
  <2>1. Dealt(cs, qs)
    BY <1>2
  <2>2. QED
    BY <1>2, <2>1, PiecesAre
<1>4. Spelt(PiecesOf(cs, rs), n)
  BY <1>1, PiecesAre
<1>5. JoinOf(PiecesOf(cs, qs), n + 1) = JoinOf(PiecesOf(cs, qs), n) \o PiecesOf(cs, qs)[n + 1]
  BY <1>3, JoinOfMore
<1>6. PiecesOf(cs, qs)[n + 1] = SubSeq(cs[n + 1].bytes, 1, r.accepted)
  <2>1. n + 1 \in 1..Len(qs)
    BY <1>2
  <2>2. PiecesOf(cs, qs)[n + 1] = SubSeq(cs[n + 1].bytes, 1, qs[n + 1].accepted)
    BY <2>1 DEF PiecesOf
  <2>3. QED
    BY <1>2, <2>2
<1>7. Same(PiecesOf(cs, qs), PiecesOf(cs, rs), n)
  <2>1. ASSUME NEW i \in 1..n
        PROVE  PiecesOf(cs, qs)[i] = PiecesOf(cs, rs)[i]
    <3>1. i \in 1..Len(qs) /\ i \in 1..Len(rs) /\ qs[i] = rs[i]
      BY <1>1, <1>2
    <3>2. PiecesOf(cs, qs)[i] = SubSeq(cs[i].bytes, 1, qs[i].accepted)
      BY <3>1 DEF PiecesOf
    <3>3. PiecesOf(cs, rs)[i] = SubSeq(cs[i].bytes, 1, rs[i].accepted)
      BY <3>1 DEF PiecesOf
    <3>4. QED
      BY <3>1, <3>2, <3>3
  <2>2. QED
    BY <2>1 DEF Same
<1>8. JoinOf(PiecesOf(cs, qs), n) = JoinOf(PiecesOf(cs, rs), n)
  BY <1>4, <1>7, JoinsAgree
<1>9. QED
  BY <1>1, <1>2, <1>5, <1>6, <1>8 DEF AcceptedOf

\* A call that joins the queue changes nothing for those before it.
LEMMA AcceptedStays ==
  FrameAssumptions => \A cs, rs : Dealt(cs, rs) => \A c \in CallRecords :
    Dealt(Append(cs, c), rs) /\ AcceptedOf(Append(cs, c), rs) = AcceptedOf(cs, rs)
<1> SUFFICES ASSUME FrameAssumptions, NEW cs, NEW rs, Dealt(cs, rs), NEW c \in CallRecords
             PROVE  /\ Dealt(Append(cs, c), rs)
                    /\ AcceptedOf(Append(cs, c), rs) = AcceptedOf(cs, rs)
  OBVIOUS
<1>1. /\ cs \in Seq(CallRecords) /\ rs \in Seq(ResultRecords) /\ Len(rs) <= Len(cs)
      /\ \A i \in 1..Len(rs) : rs[i].accepted <= Len(cs[i].bytes)
  BY DEF Dealt, Fits
<1>2. /\ Append(cs, c) \in Seq(CallRecords) /\ Len(Append(cs, c)) = Len(cs) + 1
      /\ \A i \in 1..Len(cs) : Append(cs, c)[i] = cs[i]
  BY <1>1, AppendProperties
<1>3. PICK ds \in Seq(CallRecords) :
        ds = Append(cs, c) /\ Len(ds) = Len(cs) + 1 /\ \A i \in 1..Len(cs) : ds[i] = cs[i]
  BY <1>2
<1>4. \A i \in 1..Len(rs) : i \in 1..Len(cs) /\ ds[i] = cs[i]
  BY <1>1, <1>3
<1>5. Dealt(ds, rs)
  BY <1>1, <1>3, <1>4 DEF Dealt, Fits
<1>6. Same(PiecesOf(ds, rs), PiecesOf(cs, rs), Len(rs))
  <2>1. ASSUME NEW i \in 1..Len(rs)
        PROVE  PiecesOf(ds, rs)[i] = PiecesOf(cs, rs)[i]
    BY <1>4 DEF PiecesOf
  <2>2. QED
    BY <2>1 DEF Same
<1>7. Len(rs) \in Nat /\ Spelt(PiecesOf(cs, rs), Len(rs))
  BY <1>1, PiecesAre
<1>8. AcceptedOf(ds, rs) = AcceptedOf(cs, rs)
  BY <1>6, <1>7, JoinsAgree DEF AcceptedOf
<1>9. QED
  BY <1>3, <1>5, <1>8

\* The frames say it in their own words.
LEMMA CallBytesIs ==
  FrameAssumptions /\ calls \in Seq(CallRecords) =>
    Frames!CallBytes = Brought(calls, Len(calls))
<1> SUFFICES ASSUME FrameAssumptions, calls \in Seq(CallRecords)
             PROVE  Frames!CallBytes = Brought(calls, Len(calls))
  OBVIOUS
<1> DEFINE n == Len(calls)
           w == LengthsOf(calls)
           Body(h) == [i \in 0..n |-> IF i = 0 THEN 0 ELSE h[i - 1] + Len(calls[i].bytes)]
           N == CHOOSE h : h = Body(h)
<1>1. n \in Nat /\ Counted(w, n)
  BY LengthsAre
<1>2. \A i \in 1..n : w[i] = Len(calls[i].bytes)
  BY DEF LengthsOf
<1> HIDE DEF w
<1>3. PICK f \in [0..n -> Nat] : Totals(w, n, f)
  BY <1>1, TotalIs
<1>4. /\ f[0] = 0 /\ \A i \in 1..n : f[i] = f[i - 1] + Len(calls[i].bytes)
      /\ TotalOf(w, n) = f[n]
  <2>1. n \in 0..n
    BY <1>1
  <2>2. QED
    BY <1>2, <1>3, <2>1 DEF Totals
<1>5. f = Body(f)
  <2>1. ASSUME NEW i \in 0..n
        PROVE  f[i] = IF i = 0 THEN 0 ELSE f[i - 1] + Len(calls[i].bytes)
    <3>1. CASE i = 0
      BY <1>4, <3>1
    <3>2. CASE i # 0
      <4>1. i \in 1..n
        BY <1>1, <3>2
      <4>2. QED
        BY <1>4, <3>2, <4>1
    <3>3. QED
      BY <3>1, <3>2
  <2>2. QED
    BY <2>1
<1>6. N = Body(N)
  <2> HIDE DEF Body
  <2>1. QED
    BY <1>5
<1>7. Frames!CallBytes = N[n]
  BY DEF Frames!CallBytes
<1> HIDE DEF N
<1>8. 0 \in 0..n /\ \A i \in 1..n : i \in 0..n /\ i # 0
  BY <1>1
<1>9. N[0] = 0 /\ \A i \in 1..n : N[i] = N[i - 1] + Len(calls[i].bytes)
  BY <1>6, <1>8
<1>10. Alike(n, f, N)
  BY <1>4, <1>9 DEF Alike
<1>11. n \in 0..n
  BY <1>1
<1>12. f[n] = N[n]
  BY <1>1, <1>10, <1>11, Agree
<1>13. QED
  BY <1>4, <1>7, <1>12 DEF Brought, w

\* Given is what is kept, less what was told before.
LEMMA GivenIs ==
  FrameAssumptions /\ results \in Seq(ResultRecords) => Frames!Given = Carried - Told(results)
<1> SUFFICES ASSUME FrameAssumptions, results \in Seq(ResultRecords)
             PROVE  Frames!Given = Carried - Told(results)
  OBVIOUS
<1> DEFINE n == Len(results)
           w == AnswersOf(results)
           Body(h) == [i \in 0..n |-> IF i = 0 THEN 0 ELSE h[i - 1] + results[i].accepted]
           N == CHOOSE h : h = Body(h)
<1>1. n \in Nat /\ Counted(w, n)
  BY AnswersAre
<1>2. \A i \in 1..n : w[i] = results[i].accepted
  BY DEF AnswersOf
<1> HIDE DEF w
<1>3. PICK f \in [0..n -> Nat] : Totals(w, n, f)
  BY <1>1, TotalIs
<1>4. /\ f[0] = 0 /\ \A i \in 1..n : f[i] = f[i - 1] + results[i].accepted
      /\ TotalOf(w, n) = f[n]
  <2>1. n \in 0..n
    BY <1>1
  <2>2. QED
    BY <1>2, <1>3, <2>1 DEF Totals
<1>5. f = Body(f)
  <2>1. ASSUME NEW i \in 0..n
        PROVE  f[i] = IF i = 0 THEN 0 ELSE f[i - 1] + results[i].accepted
    <3>1. CASE i = 0
      BY <1>4, <3>1
    <3>2. CASE i # 0
      <4>1. i \in 1..n
        BY <1>1, <3>2
      <4>2. QED
        BY <1>4, <3>2, <4>1
    <3>3. QED
      BY <3>1, <3>2
  <2>2. QED
    BY <2>1
<1>6. N = Body(N)
  <2> HIDE DEF Body
  <2>1. QED
    BY <1>5
<1>7. Frames!Given = Carried - N[n]
  BY DEF Frames!Given, Carried
<1> HIDE DEF N
<1>8. 0 \in 0..n /\ \A i \in 1..n : i \in 0..n /\ i # 0
  BY <1>1
<1>9. N[0] = 0 /\ \A i \in 1..n : N[i] = N[i - 1] + results[i].accepted
  BY <1>6, <1>8
<1>10. Alike(n, f, N)
  BY <1>4, <1>9 DEF Alike
<1>11. n \in 0..n
  BY <1>1
<1>12. f[n] = N[n]
  BY <1>1, <1>10, <1>11, Agree
<1>13. QED
  BY <1>4, <1>7, <1>12 DEF Told, w

\* AcceptedBytes joins what was accepted of each call.
LEMMA AcceptedBytesIs ==
  FrameAssumptions /\ Dealt(calls, results) =>
    Frames!AcceptedBytes = AcceptedOf(calls, results)
<1> SUFFICES ASSUME FrameAssumptions, Dealt(calls, results)
             PROVE  Frames!AcceptedBytes = AcceptedOf(calls, results)
  OBVIOUS
<1> DEFINE n == Len(results)
           w == PiecesOf(calls, results)
           Piece(i) == SubSeq(calls[i].bytes, 1, results[i].accepted)
           Body(h) == [i \in 0..n |-> IF i = 0 THEN << >> ELSE h[i - 1] \o Piece(i)]
           N == CHOOSE h : h = Body(h)
<1>1. n \in Nat /\ Spelt(w, n)
  BY PiecesAre DEF Dealt
<1>2. \A i \in 1..n : w[i] = Piece(i)
  BY DEF PiecesOf
<1> HIDE DEF w
<1>3. PICK f \in [0..n -> Seq(Frames!Byte)] : Joins(w, n, f)
  BY <1>1, JoinIs
<1>4. /\ f[0] = << >> /\ \A i \in 1..n : f[i] = f[i - 1] \o Piece(i)
      /\ JoinOf(w, n) = f[n]
  <2>1. n \in 0..n
    BY <1>1
  <2>2. QED
    BY <1>2, <1>3, <2>1 DEF Joins
<1>7. Frames!AcceptedBytes = N[n]
  BY DEF Frames!AcceptedBytes
<1> HIDE DEF Piece
<1>5. f = Body(f)
  <2>1. ASSUME NEW i \in 0..n
        PROVE  f[i] = IF i = 0 THEN << >> ELSE f[i - 1] \o Piece(i)
    <3>1. CASE i = 0
      BY <1>4, <3>1
    <3>2. CASE i # 0
      <4>1. i \in 1..n
        BY <1>1, <3>2
      <4>2. QED
        BY <1>4, <3>2, <4>1
    <3>3. QED
      BY <3>1, <3>2
  <2>2. QED
    BY <2>1
<1>6. N = Body(N)
  <2> HIDE DEF Body
  <2>1. QED
    BY <1>5
<1> HIDE DEF N
<1>8. 0 \in 0..n /\ \A i \in 1..n : i \in 0..n /\ i # 0
  BY <1>1
<1>9. N[0] = << >> /\ \A i \in 1..n : N[i] = N[i - 1] \o Piece(i)
  BY <1>6, <1>8
<1>10. Alike(n, f, N)
  BY <1>4, <1>9 DEF Alike
<1>11. n \in 0..n
  BY <1>1
<1>12. f[n] = N[n]
  BY <1>1, <1>10, <1>11, Agree
<1>13. QED
  BY <1>4, <1>7, <1>12 DEF AcceptedOf, w

\* Nothing read changes nothing.
LEMMA TookNothing ==
  ASSUME FrameAssumptions, NEW p \in Parsers
  PROVE  Frames!TookAll(p, << >>) = p
<1>1. << >> \in Seq(Frames!Byte) /\ Len(<< >>) = 0
  OBVIOUS
<1>2. PICK f \in [0..Len(<< >>) -> Parsers] :
        Fed(<< >>, p, f) /\ Frames!TookAll(p, << >>) = f[Len(<< >>)]
  BY <1>1, TookAllUnfolds
<1>3. f[0] = p
  BY <1>2 DEF Fed
<1>4. QED
  BY <1>1, <1>2, <1>3

\* What a reader makes of the object is a parser.
LEMMA ParsedIsParser ==
  ASSUME FrameAssumptions, framed \in Seq(Frames!Byte)
  PROVE  Parsed \in Parsers
  BY FreshParser, TookAllIsParser DEF Parsed

\* What follows from the types.
LEMMA TypesOfFrames ==
  ASSUME FrameAssumptions, FrameTypes
  PROVE  /\ OutputLimit \in Nat \ {0} /\ Carried \in Nat /\ Dealt(calls, results)
         /\ Told(results) \in Nat /\ Len(results) \in Nat /\ Len(calls) \in Nat
         /\ Brought(calls, Len(results)) \in Nat /\ AcceptedOf(calls, results) \in Seq(Frames!Byte)
         /\ out.counts \in [1..3 -> Nat] /\ Parsed \in Parsers /\ Frames!HeaderBytes \in Nat
         /\ Len(framed) \in Nat
<1>1. /\ calls \in Seq(CallRecords) /\ results \in Seq(ResultRecords) /\ Len(results) <= Len(calls)
      /\ Fits(calls, results) /\ framed \in Seq(Frames!Byte)
      /\ out \in [counts : [1..3 -> Nat], records : Nat, bytes : Nat, limit : 0..3]
  BY DEF FrameTypes
<1>2. OutputLimit \in Nat \ {0} /\ LengthBytes \in Nat
  BY BytesAre, LongestIsANumber
<1>3. out.counts \in [1..3 -> Nat] /\ Carried \in Nat
  BY <1>1 DEF Carried, Frames!Total
<1>4. Dealt(calls, results)
  BY <1>1 DEF Dealt
<1>5. Told(results) \in Nat /\ AcceptedOf(calls, results) \in Seq(Frames!Byte)
  BY <1>1, <1>4, ToldIs, AcceptedIs
<1>6. Len(results) \in 0..Len(calls) /\ Len(results) \in Nat /\ Len(calls) \in Nat
  BY <1>1
<1>7. Brought(calls, Len(results)) \in Nat
  BY <1>1, <1>6, BroughtIs
<1>8. Frames!HeaderBytes \in Nat /\ Len(framed) \in Nat
  BY <1>1, <1>2 DEF Frames!HeaderBytes
<1>9. QED
  BY <1>1, <1>2, <1>3, <1>4, <1>5, <1>6, <1>7, <1>8, ParsedIsParser

\* The call at the head of the queue.
LEMMA HeadOfTheQueue ==
  ASSUME FrameAssumptions, FrameTypes, Len(results) < Len(calls)
  PROVE  /\ Frames!Next1 \in CallRecords /\ Frames!Next1.bytes \in Seq(Frames!Byte)
         /\ Frames!Next1.stream \in 1..3 /\ Len(Frames!Next1.bytes) \in Nat
         /\ Brought(calls, Len(results) + 1)
              = Brought(calls, Len(results)) + Len(Frames!Next1.bytes)
<1>1. calls \in Seq(CallRecords) /\ Len(results) \in Nat /\ Len(calls) \in Nat
  BY TypesOfFrames DEF FrameTypes
<1>2. Len(results) + 1 \in 1..Len(calls) /\ Len(results) \in 0..Len(calls)
  BY <1>1
<1>3. calls[Len(results) + 1] \in CallRecords
  BY <1>1, <1>2
<1>4. /\ calls[Len(results) + 1].bytes \in Seq(Frames!Byte)
      /\ calls[Len(results) + 1].stream \in 1..3
      /\ Len(calls[Len(results) + 1].bytes) \in Nat
  BY <1>1, <1>2, CallsAre
<1>5. Brought(calls, Len(results) + 1)
        = Brought(calls, Len(results)) + Len(calls[Len(results) + 1].bytes)
  BY <1>1, <1>2, BroughtNext
<1>6. QED
  BY <1>3, <1>4, <1>5 DEF Frames!Next1

\* A call that is answered.
LEMMA Answered ==
  ASSUME FrameAssumptions, FrameTypes, Len(results) < Len(calls), NEW r \in ResultRecords,
         r.accepted <= Len(Frames!Next1.bytes)
  PROVE  /\ Append(results, r) \in Seq(ResultRecords)
         /\ Len(Append(results, r)) = Len(results) + 1
         /\ Len(Append(results, r)) <= Len(calls)
         /\ Fits(calls, Append(results, r)) /\ Dealt(calls, Append(results, r))
<1>1. /\ calls \in Seq(CallRecords) /\ results \in Seq(ResultRecords)
      /\ Len(results) \in Nat /\ Len(calls) \in Nat
      /\ \A i \in 1..Len(results) : results[i].accepted <= Len(calls[i].bytes)
  BY TypesOfFrames DEF FrameTypes, Fits
<1>2. /\ Append(results, r) \in Seq(ResultRecords)
      /\ Len(Append(results, r)) = Len(results) + 1
      /\ Append(results, r)[Len(results) + 1] = r
      /\ \A i \in 1..Len(results) : Append(results, r)[i] = results[i]
  BY <1>1, AppendProperties
<1>3. Len(Append(results, r)) <= Len(calls)
  BY <1>1, <1>2
<1>4. Fits(calls, Append(results, r))
  <2>1. ASSUME NEW i \in 1..(Len(results) + 1)
        PROVE  Append(results, r)[i].accepted <= Len(calls[i].bytes)
    <3>1. CASE i = Len(results) + 1
      BY <1>2, <3>1 DEF Frames!Next1
    <3>2. CASE i # Len(results) + 1
      <4>1. i \in 1..Len(results)
        BY <1>1, <3>2
      <4>2. QED
        BY <1>1, <1>2, <4>1
    <3>3. QED
      BY <3>1, <3>2
  <2>2. QED
    BY <1>2, <2>1 DEF Fits
<1>5. QED
  BY <1>1, <1>2, <1>3, <1>4 DEF Dealt

\* What the call at the head is told.
LEMMA GivenFits ==
  ASSUME FrameAssumptions, FrameTypes, Len(results) < Len(calls), Carried <= OutputLimit, AfterData
  PROVE  /\ Frames!Given = Carried - Told(results) /\ Frames!Given \in 0..OutputLimit
         /\ Frames!Given <= Len(Frames!Next1.bytes)
         /\ Told(results) + Frames!Given = Carried
<1>1. /\ OutputLimit \in Nat \ {0} /\ Carried \in Nat /\ Told(results) \in Nat
      /\ Len(Frames!Next1.bytes) \in Nat /\ results \in Seq(ResultRecords)
  BY TypesOfFrames, HeadOfTheQueue DEF FrameTypes
<1>2. /\ Told(results) < OutputLimit
      /\ Carried = Cut(Told(results) + Len(Frames!Next1.bytes))
  BY HeadOfTheQueue DEF AfterData
<1>3. Frames!Given = Carried - Told(results)
  BY <1>1, GivenIs
<1>4. QED
  BY <1>1, <1>2, <1>3 DEF Cut

-----------------------------------------------------------------------------
(* The parts that a step leaves alone. *)

\* The sink and the object are as they were.
LEMMA SinkStays ==
  ASSUME SinkInv, UNCHANGED <<sink, framed, out>>
  PROVE  SinkInv'
  BY DEF SinkInv, Parsed, Carried

\* The end is as it was.
LEMMA EndStays ==
  ASSUME EndInv, UNCHANGED <<calls, results, finishing, broken, sink>>
  PROVE  EndInv'
  BY DEF EndInv

\* The scan is as it was.
LEMMA ScanStays ==
  ASSUME ScanInv, UNCHANGED <<sink, framed, scan>>
  PROVE  ScanInv'
  BY DEF ScanInv

\* The task is as it was.
LEMMA TaskStays ==
  ASSUME TaskInv, UNCHANGED <<calls, results, step, out, broken, framed>>
  PROVE  TaskInv'
<1>1. /\ Carried' = Carried /\ Parsed' = Parsed /\ Frames!Next1' = Frames!Next1
      /\ Frames!Accepted' = Frames!Accepted
  BY DEF Carried, Parsed, Frames!Next1, Frames!Accepted, Frames!Room
<1>2. BeforeData' <=> BeforeData
  BY <1>1 DEF BeforeData
<1>3. AfterData' <=> AfterData
  BY <1>1 DEF AfterData
<1>4. QED
  BY <1>1, <1>2, <1>3 DEF TaskInv

\* A scan that has not begun.
LEMMA NothingRead ==
  ASSUME FrameAssumptions
  PROVE  scan = Frames!NoScan => scan \in [at : Nat, parser : Parsers, verdict : Verdicts]
  BY FreshParser DEF Frames!NoScan, Verdicts

-----------------------------------------------------------------------------
(* The steps. *)

\* The beginning.
LEMMA InitFrames ==
  ASSUME FrameAssumptions, Frames!Init
  PROVE  FramesInv
<1>1. /\ calls = << >> /\ results = << >> /\ step = "idle"
      /\ out = [counts |-> Frames!NoBytes, records |-> 0, bytes |-> 0, limit |-> 0]
      /\ broken = FALSE /\ finishing = "no"
      /\ sink = [state |-> "open", parser |-> Frames!Fresh, failed |-> FALSE]
      /\ framed = << >> /\ scan = Frames!NoScan
  BY DEF Frames!Init, Frames!Summary
<1>2. Frames!NoBytes \in [1..3 -> Nat] /\ \A i \in 1..3 : Frames!NoBytes[i] = 0
  BY DEF Frames!NoBytes, Frames!AllStreams
<1>3. Carried = 0
  BY <1>1, <1>2 DEF Carried, Frames!Total
<1>4. Frames!Fresh \in Parsers /\ Parsed = Frames!Fresh
  BY <1>1, FreshParser, TookNothing DEF Parsed
<1>5. FrameTypes
  <2>1. calls \in Seq(CallRecords) /\ results \in Seq(ResultRecords) /\ framed \in Seq(Frames!Byte)
    BY <1>1
  <2>2. Fits(calls, results) /\ Len(results) <= Len(calls)
    BY <1>1 DEF Fits
  <2>3. out \in [counts : [1..3 -> Nat], records : Nat, bytes : Nat, limit : 0..3]
    BY <1>1, <1>2
  <2>4. sink \in [state : {"open", "published", "aborted", "refused"}, parser : Parsers,
                  failed : BOOLEAN]
    BY <1>1, <1>4
  <2>5. scan \in [at : Nat, parser : Parsers, verdict : Verdicts]
    BY <1>1, NothingRead
  <2>6. QED
    BY <1>1, <2>1, <2>2, <2>3, <2>4, <2>5 DEF FrameTypes, Steps
<1>6. With(Frames!Fresh, 0, FALSE) = Frames!Fresh
  <2>1. Frames!Fresh.bytes = 0 /\ Frames!Fresh.done = FALSE
    BY DEF Frames!Fresh
  <2>2. QED
    BY <1>4, <2>1, WithItsOwn
<1>7. SinkInv
  <2>1. sink.parser = Frames!Fresh /\ sink.parser.done = FALSE /\ Len(framed) = 0
    BY <1>1 DEF Frames!Fresh
  <2>2. /\ ~ Parsed.failed /\ Parsed.head = << >> /\ Parsed.left = 0
        /\ Parsed.counts = Frames!NoBytes /\ Parsed.records = 0 /\ Parsed.limit = 0
    BY <1>4 DEF Frames!Fresh
  <2>3. out.counts = Frames!NoBytes /\ out.records = 0 /\ out.limit = 0 /\ out.bytes = 0
    BY <1>1
  <2>4. Frames!HeaderBytes \in Nat
    BY <1>5, TypesOfFrames
  <2>5. out.bytes = Carried + Frames!HeaderBytes * out.records
    BY <1>3, <2>3, <2>4
  <2>6. QED
    BY <1>4, <1>6, <2>1, <2>2, <2>3, <2>5 DEF SinkInv
<1>8. EndInv
  BY <1>1 DEF EndInv
<1>9. ScanInv
  <2>1. /\ scan.at = 0 /\ scan.parser = Frames!Fresh /\ scan.verdict = "none"
        /\ Len(framed) = 0 /\ SubSeq(framed, 1, 0) = << >>
    BY <1>1 DEF Frames!NoScan
  <2>2. Frames!TookAll(Frames!Fresh, SubSeq(framed, 1, scan.at)) = Frames!Fresh
    BY <1>4, <2>1, TookNothing
  <2>3. scan.parser =
          With(Frames!TookAll(Frames!Fresh, SubSeq(framed, 1, scan.at)), scan.at, FALSE)
    BY <1>6, <2>1, <2>2
  <2>4. scan.at <= Len(framed)
    BY <2>1
  <2>5. QED
    BY <1>1, <2>1, <2>3, <2>4 DEF ScanInv
<1>10. TaskInv
  <2>1. Brought(calls, 0) = 0 /\ Told(results) = 0 /\ AcceptedOf(calls, results) = << >>
    BY <1>1, TotalOfNone, JoinOfNone DEF Brought, Told, AcceptedOf
  <2>2. OutputLimit \in Nat \ {0}
    BY <1>5, TypesOfFrames
  <2>3. Len(results) = 0 /\ Parsed.seen = << >> /\ out.limit = 0
    BY <1>1, <1>4 DEF Frames!Fresh
  <2>4. BeforeData
    BY <1>3, <2>1, <2>2, <2>3 DEF BeforeData, Cut
  <2>5. QED
    BY <1>1, <1>3, <2>2, <2>4 DEF TaskInv
<1>11. QED
  BY <1>5, <1>7, <1>8, <1>9, <1>10 DEF FramesInv

\* write: the calls before this one are as they were.
LEMMA StepWrite ==
  ASSUME FrameAssumptions, FramesInv, NEW s \in Streams, NEW b \in Payloads, Frames!Write(s, b)
  PROVE  FramesInv'
<1>0. FrameTypes /\ SinkInv /\ EndInv /\ ScanInv /\ TaskInv
  BY DEF FramesInv
<1> DEFINE c == [stream |-> s, bytes |-> b]
<1>1. c \in CallRecords
  BY DEF CallRecords
<1> HIDE DEF c
<1>2. /\ finishing = "no" /\ calls' = Append(calls, c)
      /\ UNCHANGED <<results, step, out, broken, finishing, sink, framed, scan>>
  BY DEF Frames!Write, c
<1>3. /\ calls \in Seq(CallRecords) /\ results \in Seq(ResultRecords)
      /\ Dealt(calls, results) /\ Len(results) \in Nat /\ Len(calls) \in Nat
      /\ Len(results) <= Len(calls) /\ Len(results) \in 0..Len(calls)
  BY <1>0, TypesOfFrames DEF FrameTypes
<1>4. /\ calls' \in Seq(CallRecords) /\ Len(calls') = Len(calls) + 1
      /\ \A i \in 1..Len(calls) : calls'[i] = calls[i]
  BY <1>1, <1>2, <1>3, AppendProperties
<1>5. Dealt(calls', results') /\ AcceptedOf(calls', results') = AcceptedOf(calls, results)
  BY <1>1, <1>2, <1>3, AcceptedStays
<1>6. \A n \in 0..Len(calls) : Brought(calls', n) = Brought(calls, n)
  BY <1>1, <1>2, <1>3, BroughtStays
<1>7. FrameTypes'
  <2>1. Fits(calls', results') /\ Len(results') <= Len(calls')
    BY <1>5 DEF Dealt
  <2>2. step' # "idle" => Len(results') < Len(calls') /\ ~ broken'
    BY <1>0, <1>2, <1>3, <1>4 DEF FrameTypes
  <2>3. QED
    BY <1>0, <1>2, <1>4, <2>1, <2>2 DEF FrameTypes
<1>8. SinkInv'
  BY <1>0, <1>2, SinkStays
<1>9. EndInv'
  BY <1>0, <1>2 DEF EndInv
<1>10. ScanInv'
  BY <1>0, <1>2, ScanStays
<1>11. TaskInv'
  <2>1. Carried' = Carried /\ Parsed' = Parsed
    BY <1>2 DEF Carried, Parsed
  <2>2. BeforeData => BeforeData'
    BY <1>2, <1>3, <1>5, <1>6, <2>1 DEF BeforeData
  <2>3. CASE step = "idle"
    BY <1>0, <1>2, <2>1, <2>2, <2>3 DEF TaskInv
  <2>4. CASE step # "idle"
    <3>1. /\ Len(results) < Len(calls) /\ Len(results) + 1 \in 1..Len(calls)
          /\ Len(results) + 1 \in 0..Len(calls)
      BY <1>0, <1>3, <2>4 DEF FrameTypes
    <3>2. Frames!Next1' = Frames!Next1
      BY <1>2, <1>4, <3>1 DEF Frames!Next1
    <3>3. Frames!Accepted' = Frames!Accepted
      BY <1>2, <3>2 DEF Frames!Accepted, Frames!Room
    <3>4. Brought(calls', Len(results') + 1) = Brought(calls, Len(results) + 1)
      BY <1>2, <1>6, <3>1
    <3>5. AfterData => AfterData'
      BY <1>2, <1>3, <1>5, <1>6, <2>1, <3>2, <3>4 DEF AfterData
    <3>6. QED
      BY <1>0, <1>2, <2>1, <2>2, <3>3, <3>5 DEF TaskInv
  <2>5. QED
    BY <2>3, <2>4
<1>12. QED
  BY <1>7, <1>8, <1>9, <1>10, <1>11 DEF FramesInv

\* What the first call of the queue has room for.
LEMMA AcceptedFits ==
  ASSUME FrameAssumptions, FrameTypes, Len(results) < Len(calls), Carried < OutputLimit
  PROVE  /\ Frames!Accepted \in Seq(Frames!Byte)
         /\ Len(Frames!Accepted) <= Len(Frames!Next1.bytes)
         /\ Len(Frames!Accepted) \in Nat
         /\ Carried + Len(Frames!Accepted) = Cut(Carried + Len(Frames!Next1.bytes))
         /\ Frames!Accepted = SubSeq(Frames!Next1.bytes, 1, Len(Frames!Accepted))
<1> DEFINE b == Frames!Next1.bytes
           room == OutputLimit - Carried
           k == IF Len(b) < room THEN Len(b) ELSE room
<1>1. /\ b \in Seq(Frames!Byte) /\ Len(b) \in Nat /\ OutputLimit \in Nat \ {0} /\ Carried \in Nat
  BY TypesOfFrames, HeadOfTheQueue
<1>2. Frames!Room = room
  BY DEF Frames!Room, Carried
<1>3. Frames!Accepted = SubSeq(b, 1, k)
  BY <1>2 DEF Frames!Accepted
<1> HIDE DEF b
<1>4. k \in 0..Len(b)
  BY <1>1
<1>5. SubSeq(b, 1, k) \in Seq(Frames!Byte) /\ Len(SubSeq(b, 1, k)) = k
  BY <1>1, <1>4, Beginning
<1>6. Carried + k = Cut(Carried + Len(b))
  BY <1>1 DEF Cut
<1> HIDE DEF k
<1>7. QED
  BY <1>3, <1>4, <1>5, <1>6 DEF b

\* The task of the first call begins, or is over at once.
LEMMA StepStartTask ==
  ASSUME FrameAssumptions, FramesInv, Frames!StartTask
  PROVE  FramesInv'
<1>0. FrameTypes /\ SinkInv /\ EndInv /\ ScanInv /\ TaskInv
  BY DEF FramesInv
<1>1. /\ Len(results) < Len(calls) /\ step = "idle"
      /\ UNCHANGED <<calls, out, broken, finishing, sink, framed, scan>>
  BY DEF Frames!StartTask, Frames!Queued
<1>2. /\ OutputLimit \in Nat \ {0} /\ Carried \in Nat /\ Dealt(calls, results)
      /\ Told(results) \in Nat /\ Len(results) \in Nat /\ Len(calls) \in Nat
      /\ Brought(calls, Len(results)) \in Nat
      /\ AcceptedOf(calls, results) \in Seq(Frames!Byte)
  BY <1>0, TypesOfFrames
<1>3. /\ Frames!Next1.bytes \in Seq(Frames!Byte) /\ Len(Frames!Next1.bytes) \in Nat
      /\ Brought(calls, Len(results) + 1)
           = Brought(calls, Len(results)) + Len(Frames!Next1.bytes)
  BY <1>0, <1>1, HeadOfTheQueue
<1>4. SinkInv' /\ ScanInv'
  BY <1>0, <1>1, SinkStays, ScanStays
<1>5. Carried' = Carried /\ Parsed' = Parsed
  BY <1>1 DEF Carried, Parsed
<1>6. finishing \notin {"ok", "failed"}
  BY <1>0, <1>1, <1>2 DEF EndInv
<1>7. EndInv'
  BY <1>0, <1>1, <1>6 DEF EndInv
<1>8. ASSUME NEW r \in ResultRecords, r.accepted = 0, results' = Append(results, r), step' = step
      PROVE  FrameTypes' /\ (broken \/ out.limit # 0 => TaskInv')
  <2>1. /\ results' \in Seq(ResultRecords) /\ Len(results') = Len(results) + 1
        /\ Len(results') <= Len(calls') /\ Fits(calls', results')
        /\ Dealt(calls, results')
    BY <1>0, <1>1, <1>2, <1>3, <1>8, Answered
  <2>2. FrameTypes'
    BY <1>0, <1>1, <1>8, <2>1 DEF FrameTypes
  <2>3. ASSUME ~ broken, out.limit # 0
        PROVE  BeforeData'
    <3>1. /\ Carried = Cut(Brought(calls, Len(results))) /\ Carried = Told(results)
          /\ (out.limit # 0) = (Carried = OutputLimit)
          /\ Parsed.seen = AcceptedOf(calls, results)
      BY <1>0, <1>1, <2>3 DEF TaskInv, BeforeData
    <3>2. Carried = OutputLimit
      BY <2>3, <3>1
    <3>3. Brought(calls, Len(results')) = Brought(calls, Len(results)) + Len(Frames!Next1.bytes)
      BY <1>3, <2>1
    <3>4. Cut(Brought(calls, Len(results'))) = OutputLimit
      BY <1>2, <1>3, <3>1, <3>2, <3>3 DEF Cut
    <3>5. Told(results') = Told(results)
      <4>1. Told(Append(results, r)) = Told(results) + r.accepted
        BY <1>0, ToldMore DEF FrameTypes
      <4>2. QED
        BY <1>2, <1>8, <4>1
    <3>6. AcceptedOf(calls, results') = AcceptedOf(calls, results)
      <4>1. Dealt(calls, Append(results, r))
        BY <1>8, <2>1
      <4>2. AcceptedOf(calls, results') = AcceptedOf(calls, results)
                 \o SubSeq(calls[Len(results) + 1].bytes, 1, r.accepted)
        BY <1>2, <1>8, <4>1, AcceptedMore
      <4>3. SubSeq(calls[Len(results) + 1].bytes, 1, r.accepted) = << >>
        BY <1>3, <1>8, Beginning DEF Frames!Next1
      <4>4. AcceptedOf(calls, results) \o << >> = AcceptedOf(calls, results)
        BY <1>2
      <4>5. QED
        BY <4>2, <4>3, <4>4
    <3>7. QED
      BY <1>1, <1>5, <3>1, <3>2, <3>4, <3>5, <3>6 DEF BeforeData
  <2>4. QED
    BY <1>0, <1>1, <1>5, <1>8, <2>2, <2>3 DEF TaskInv
<1>9. CASE broken
  <2>1. results' = Append(results, [accepted |-> 0, limit |-> FALSE]) /\ step' = step
    BY <1>9 DEF Frames!StartTask
  <2>2. [accepted |-> 0, limit |-> FALSE] \in ResultRecords
    BY <1>2 DEF ResultRecords
  <2>3. FrameTypes' /\ TaskInv'
    BY <1>8, <1>9, <2>1, <2>2
  <2>4. QED
    BY <1>4, <1>7, <2>3 DEF FramesInv
<1>10. CASE ~ broken /\ out.limit # 0
  <2>1. results' = Append(results, [accepted |-> 0, limit |-> TRUE]) /\ step' = step
    BY <1>10 DEF Frames!StartTask, Frames!Answer
  <2>2. [accepted |-> 0, limit |-> TRUE] \in ResultRecords
    BY <1>2 DEF ResultRecords
  <2>3. FrameTypes' /\ TaskInv'
    BY <1>8, <1>10, <2>1, <2>2
  <2>4. QED
    BY <1>4, <1>7, <2>3 DEF FramesInv
<1>11. CASE ~ broken /\ out.limit = 0
  <2>1. /\ step' = (IF Frames!Accepted # << >> THEN "data" ELSE "end")
        /\ results' = results
    BY <1>11 DEF Frames!StartTask
  <2>2. /\ Carried = Cut(Brought(calls, Len(results))) /\ Carried = Told(results)
        /\ (out.limit # 0) = (Carried = OutputLimit)
        /\ Parsed.seen = AcceptedOf(calls, results) /\ Carried <= OutputLimit
    BY <1>0, <1>1, <1>11 DEF TaskInv, BeforeData
  <2>3. Carried < OutputLimit
    BY <1>2, <1>11, <2>2
  <2>4. Brought(calls, Len(results)) = Carried
    BY <1>2, <2>2, <2>3 DEF Cut
  <2>5. FrameTypes'
    BY <1>0, <1>1, <1>11, <2>1 DEF FrameTypes, Steps
  <2>6. Frames!Next1' = Frames!Next1 /\ Frames!Accepted' = Frames!Accepted
    BY <1>1, <2>1 DEF Frames!Next1, Frames!Accepted, Frames!Room
  <2>7. BeforeData'
    BY <1>1, <1>5, <2>1, <2>2 DEF BeforeData
  <2>8. CASE Frames!Accepted # << >>
    <3>1. TaskInv'
      BY <1>1, <1>5, <1>11, <2>1, <2>2, <2>6, <2>7, <2>8 DEF TaskInv
    <3>2. QED
      BY <1>4, <1>7, <2>5, <3>1 DEF FramesInv
  <2>9. CASE Frames!Accepted = << >>
    <3>1. /\ Len(Frames!Accepted) = 0
          /\ Carried + Len(Frames!Accepted) = Cut(Carried + Len(Frames!Next1.bytes))
      BY <1>0, <1>1, <2>3, <2>9, AcceptedFits
    <3>2. Carried = Cut(Brought(calls, Len(results) + 1))
      BY <1>2, <1>3, <2>4, <3>1
    <3>3. SubSeq(Frames!Next1.bytes, 1, Carried - Told(results)) = << >>
      BY <1>2, <1>3, <2>2, Beginning
    <3>4. AcceptedOf(calls, results) \o << >> = AcceptedOf(calls, results)
      BY <1>2
    <3>5. AfterData
      BY <1>11, <2>2, <2>3, <2>4, <3>2, <3>3, <3>4 DEF AfterData
    <3>6. AfterData'
      BY <1>1, <1>5, <2>1, <2>6, <3>5 DEF AfterData
    <3>7. TaskInv'
      BY <1>1, <1>5, <2>1, <2>2, <2>9, <3>6 DEF TaskInv
    <3>8. QED
      BY <1>4, <1>7, <2>5, <3>7 DEF FramesInv
  <2>10. QED
    BY <2>8, <2>9
<1>12. QED
  BY <1>9, <1>10, <1>11

\* A frame that is written is parsed by the sink as by any reader.
LEMMA FrameWritten ==
  ASSUME FrameAssumptions, FrameTypes, SinkInv, NEW frame \in Seq(Frames!Byte),
         Frames!SinkWrites(frame)
  PROVE  /\ sink.state = "open" /\ framed' = framed \o frame /\ framed' \in Seq(Frames!Byte)
         /\ Len(framed') = Len(framed) + Len(frame) /\ Len(frame) \in Nat
         /\ Parsed' = Frames!TookAll(Parsed, frame) /\ Parsed' \in Parsers
         /\ sink' = [state |-> "open", failed |-> sink.failed,
                     parser |-> With(Parsed', Len(framed'), FALSE)]
<1>1. /\ sink \in [state : {"open", "published", "aborted", "refused"}, parser : Parsers,
                   failed : BOOLEAN]
      /\ framed \in Seq(Frames!Byte) /\ Len(framed) \in Nat /\ Parsed \in Parsers
  BY TypesOfFrames DEF FrameTypes
<1>2. /\ sink.state = "open" /\ framed' = framed \o frame
      /\ sink' = [sink EXCEPT !.parser = Frames!Push(sink.parser, frame)]
  BY DEF Frames!SinkWrites
<1>3. /\ framed \o frame \in Seq(Frames!Byte)
      /\ Len(framed \o frame) = Len(framed) + Len(frame) /\ Len(frame) \in Nat
  BY <1>1, ConcatProperties
<1>4. /\ sink.parser = With(Parsed, Len(framed), sink.parser.done) /\ sink.parser.done \in BOOLEAN
      /\ (sink.state = "open" => ~ sink.parser.done) /\ ~ Parsed.failed
  <2>1. sink.parser \in Parsers
    BY <1>1
  <2>2. sink.parser.done \in BOOLEAN
    BY <2>1 DEF Parsers
  <2>3. QED
    BY <2>2 DEF SinkInv
<1>5. sink.parser = With(Parsed, Len(framed), FALSE)
  BY <1>2, <1>4
<1>6. Frames!Push(sink.parser, frame)
        = With(Frames!TookAll(Parsed, frame), Len(framed) + Len(frame), FALSE)
  BY <1>1, <1>4, <1>5, Pushed
<1>7. Parsed' = Frames!TookAll(Frames!Fresh, framed \o frame)
  BY <1>2 DEF Parsed
<1>8. Parsed' = Frames!TookAll(Parsed, frame)
  BY <1>1, <1>7, FreshParser, TookInPieces DEF Parsed
<1>9. Parsed' \in Parsers
  BY <1>1, <1>8, TookAllIsParser
<1>10. Frames!Push(sink.parser, frame) = With(Parsed', Len(framed'), FALSE)
  BY <1>2, <1>3, <1>6, <1>8
<1>11. sink' = [state |-> "open", failed |-> sink.failed,
                parser |-> With(Parsed', Len(framed'), FALSE)]
  BY <1>1, <1>2, <1>10
<1>12. QED
  BY <1>2, <1>3, <1>8, <1>9, <1>11

\* One stream grows, and so do all together.
LEMMA TotalGrows ==
  \A c \in [1..3 -> Nat] : \A s \in 1..3 : \A k \in Nat :
    /\ [c EXCEPT ![s] = c[s] + k] \in [1..3 -> Nat]
    /\ Frames!Total([c EXCEPT ![s] = c[s] + k]) = Frames!Total(c) + k
  BY DEF Frames!Total

\* A write that fails.
LEMMA StepSinkFails ==
  ASSUME FrameAssumptions, FramesInv, step # "idle", Frames!SinkFails, UNCHANGED out
  PROVE  FramesInv'
<1>0. FrameTypes /\ SinkInv /\ EndInv /\ ScanInv /\ TaskInv
  BY DEF FramesInv
<1> DEFINE r == [accepted |-> 0, limit |-> FALSE]
<1>1. /\ sink' = [sink EXCEPT !.failed = TRUE] /\ broken' = TRUE
      /\ results' = Append(results, r) /\ step' = "idle"
      /\ UNCHANGED <<calls, out, finishing, framed, scan>>
  BY DEF Frames!SinkFails
<1>2. /\ Len(results) < Len(calls) /\ OutputLimit \in Nat \ {0}
      /\ Len(Frames!Next1.bytes) \in Nat /\ Len(results) \in Nat /\ Len(calls) \in Nat
  BY <1>0, TypesOfFrames, HeadOfTheQueue DEF FrameTypes
<1>3. r \in ResultRecords /\ r.accepted = 0
  BY <1>2 DEF ResultRecords
<1> HIDE DEF r
<1>4. /\ results' \in Seq(ResultRecords) /\ Len(results') = Len(results) + 1
      /\ Len(results') <= Len(calls') /\ Fits(calls', results')
  BY <1>0, <1>1, <1>2, <1>3, Answered
<1>5. /\ sink \in [state : {"open", "published", "aborted", "refused"}, parser : Parsers,
                   failed : BOOLEAN]
  BY <1>0 DEF FrameTypes
<1>6. sink'.state = sink.state /\ sink'.parser = sink.parser /\ sink'.failed = TRUE
  BY <1>1, <1>5
<1>7. sink' \in [state : {"open", "published", "aborted", "refused"}, parser : Parsers,
                 failed : BOOLEAN]
  BY <1>1, <1>5
<1>8. Carried' = Carried /\ Parsed' = Parsed
  BY <1>1 DEF Carried, Parsed
<1>9. FrameTypes'
  BY <1>0, <1>1, <1>4, <1>7 DEF FrameTypes, Steps
<1>10. SinkInv'
  BY <1>0, <1>1, <1>6, <1>8 DEF SinkInv
<1>11. finishing \notin {"ok", "failed"}
  BY <1>0, <1>2 DEF EndInv
<1>12. EndInv'
  BY <1>0, <1>1, <1>6, <1>11 DEF EndInv
<1>13. ScanInv'
  BY <1>0, <1>1, <1>6 DEF ScanInv
<1>14. TaskInv'
  BY <1>0, <1>1, <1>8 DEF TaskInv
<1>15. QED
  BY <1>9, <1>10, <1>12, <1>13, <1>14 DEF FramesInv

\* What the first call has room for is written, or cannot be.
LEMMA StepWriteData ==
  ASSUME FrameAssumptions, FramesInv, Frames!WriteData
  PROVE  FramesInv'
<1>0. FrameTypes /\ SinkInv /\ EndInv /\ ScanInv /\ TaskInv
  BY DEF FramesInv
<1>1. step = "data"
  BY DEF Frames!WriteData
<1>2. CASE Frames!SinkFails /\ UNCHANGED out
  BY <1>1, <1>2, StepSinkFails
<1>3. ASSUME Frames!SinkWrites(Frames!Data(Frames!Next1.stream, Frames!Accepted)),
             out' = [out EXCEPT !.counts[Frames!Next1.stream] = @ + Len(Frames!Accepted),
                                !.records = @ + 1,
                                !.bytes = @ + Frames!HeaderBytes + Len(Frames!Accepted)],
             step' = "end", UNCHANGED <<calls, results, broken, finishing, scan>>
      PROVE  FramesInv'
  <2> DEFINE s == Frames!Next1.stream
             b == Frames!Accepted
             k == Len(b)
  <2>1. /\ Len(results) < Len(calls) /\ ~ broken
        /\ out \in [counts : [1..3 -> Nat], records : Nat, bytes : Nat, limit : 0..3]
    BY <1>0, <1>1 DEF FrameTypes
  <2>2. /\ Carried = Cut(Brought(calls, Len(results))) /\ Carried = Told(results)
        /\ (out.limit # 0) = (Carried = OutputLimit)
        /\ Parsed.seen = AcceptedOf(calls, results) /\ Carried <= OutputLimit
        /\ out.limit = 0 /\ b # << >>
    BY <1>0, <1>1, <2>1 DEF TaskInv, BeforeData
  <2>3. /\ OutputLimit \in Nat \ {0} /\ Carried \in Nat /\ Told(results) \in Nat
        /\ Len(results) \in Nat /\ Len(calls) \in Nat /\ Brought(calls, Len(results)) \in Nat
        /\ AcceptedOf(calls, results) \in Seq(Frames!Byte) /\ Parsed \in Parsers
        /\ Frames!HeaderBytes \in Nat /\ Len(framed) \in Nat
    BY <1>0, TypesOfFrames
  <2>4. Carried < OutputLimit
    BY <2>2, <2>3
  <2>5. /\ s \in 1..3 /\ Len(Frames!Next1.bytes) \in Nat
        /\ Brought(calls, Len(results) + 1)
             = Brought(calls, Len(results)) + Len(Frames!Next1.bytes)
    BY <1>0, <2>1, HeadOfTheQueue
  <2>6. /\ b \in Seq(Frames!Byte) /\ k \in Nat
        /\ Carried + k = Cut(Carried + Len(Frames!Next1.bytes))
        /\ b = SubSeq(Frames!Next1.bytes, 1, k)
    BY <1>0, <2>1, <2>4, AcceptedFits
  <2>7. Brought(calls, Len(results)) = Carried
    BY <2>2, <2>3, <2>4 DEF Cut
  <2>8. k \in 1..Frames!Longest
    <3>1. OutputLimit <= Frames!Longest /\ Frames!Longest \in Nat
      BY <2>3, BytesAre, LongestIsANumber
    <3>2. Carried + k <= OutputLimit
      BY <2>3, <2>5, <2>6 DEF Cut
    <3>3. k # 0
      BY <2>2, <2>6, EmptySeq
    <3>4. QED
      BY <2>3, <2>6, <3>1, <3>2, <3>3
  <2>9. Between(Parsed)
    BY <1>0, <2>2, <2>3 DEF Between, SinkInv
  <2> DEFINE frame == Frames!Data(s, b)
  <2>10. /\ frame \in Seq(Frames!Byte) /\ Len(frame) = Frames!HeaderBytes + k
         /\ DataGiven(Parsed, s, b, Frames!TookAll(Parsed, frame))
    BY <2>5, <2>6, <2>8, <2>9, DataTaken
  <2>11. Frames!SinkWrites(frame)
    BY <1>3
  <2>12. /\ out'.counts = [out.counts EXCEPT ![s] = out.counts[s] + k]
         /\ out'.records = out.records + 1
         /\ out'.bytes = out.bytes + Frames!HeaderBytes + k /\ out'.limit = out.limit
    BY <1>3, <2>1, <2>5
  <2>13. out' = [counts |-> out'.counts, records |-> out'.records, bytes |-> out'.bytes,
                 limit |-> out'.limit]
    BY <1>3, <2>1
  <2> HIDE DEF frame, s, k, b
  <2>14. /\ sink.state = "open" /\ framed' = framed \o frame /\ framed' \in Seq(Frames!Byte)
         /\ Len(framed') = Len(framed) + Len(frame)
         /\ Parsed' = Frames!TookAll(Parsed, frame) /\ Parsed' \in Parsers
         /\ sink' = [state |-> "open", failed |-> sink.failed,
                     parser |-> With(Parsed', Len(framed'), FALSE)]
    BY <1>0, <2>10, <2>11, FrameWritten
  <2>15. /\ Parsed' \in Parsers /\ Between(Parsed')
         /\ Parsed'.counts = [Parsed.counts EXCEPT ![s] = @ + k]
         /\ Parsed'.records = Parsed.records + 1 /\ Parsed'.seen = Parsed.seen \o b
         /\ Parsed'.limit = 0
    BY <2>10, <2>14 DEF DataGiven, k
  <2>16. out'.counts \in [1..3 -> Nat] /\ Carried' = Carried + k
    <3>1. out.counts \in [1..3 -> Nat]
      BY <2>1
    <3>2. QED
      BY <2>5, <2>6, <2>12, <3>1, TotalGrows DEF Carried
  <2>17. FrameTypes'
    <3>1. out' \in [counts : [1..3 -> Nat], records : Nat, bytes : Nat, limit : 0..3]
      <4>1. out.records \in Nat /\ out.bytes \in Nat /\ out.limit \in 0..3
        BY <2>1
      <4>2. out'.records \in Nat /\ out'.bytes \in Nat /\ out'.limit \in 0..3
        <5>1. out'.records = out.records + 1 /\ out'.limit = out.limit
          BY <2>12
        <5>2. out'.bytes = out.bytes + Frames!HeaderBytes + k /\ k \in Nat
          BY <2>6, <2>12
        <5>3. Frames!HeaderBytes \in Nat
          BY <2>3
        <5>4. QED
          BY <4>1, <5>1, <5>2, <5>3
      <4>3. out'.counts \in [1..3 -> Nat]
        BY <2>16
      <4>4. QED
        BY <2>13, <4>2, <4>3
    <3>2. With(Parsed', Len(framed'), FALSE) \in Parsers
      <4>1. Len(framed') \in Nat /\ FALSE \in BOOLEAN
        BY <2>14
      <4>2. QED
        BY <2>14, <4>1, WithIsParser
    <3>3. sink.failed \in BOOLEAN
      BY <1>0 DEF FrameTypes
    <3>4. sink' \in [state : {"open", "published", "aborted", "refused"}, parser : Parsers,
                     failed : BOOLEAN]
      BY <2>14, <3>2, <3>3
    <3>5. QED
      BY <1>0, <1>3, <2>1, <2>14, <3>1, <3>4 DEF FrameTypes, Steps
  <2>18. SinkInv'
    <3>1. Len(framed') \in Nat /\ FALSE \in BOOLEAN
      BY <2>14
    <3>2. /\ sink'.parser = With(Parsed', Len(framed'), FALSE) /\ sink'.parser.done = FALSE
      BY <2>14, <3>1, WithIsParser
    <3>3. ~ Parsed'.failed /\ Parsed'.head = << >> /\ Parsed'.left = 0
      BY <2>15 DEF Between
    <3>4. Parsed.counts = out.counts /\ Parsed.records = out.records
      BY <1>0 DEF SinkInv
    <3>5. Parsed'.counts = out'.counts /\ Parsed'.records = out'.records /\ Parsed'.limit = out'.limit
      BY <2>2, <2>12, <2>15, <3>4
    <3>6. out.bytes = Len(framed) /\ out.bytes = Carried + Frames!HeaderBytes * out.records
      BY <1>0 DEF SinkInv
    <3>7. out'.bytes = Len(framed')
      BY <2>3, <2>6, <2>10, <2>12, <2>14, <3>6
    <3>8. out.records \in Nat
      BY <2>1
    <3>9. Frames!HeaderBytes * (out.records + 1)
            = Frames!HeaderBytes * out.records + Frames!HeaderBytes
      BY <2>3, <3>8
    <3>10. Frames!HeaderBytes * out.records \in Nat
      BY <2>3, <3>8
    <3>11. out'.bytes = Carried' + Frames!HeaderBytes * out'.records
      BY <2>3, <2>6, <2>12, <2>16, <3>6, <3>9, <3>10
    <3>12. QED
      BY <3>2, <3>3, <3>5, <3>7, <3>11 DEF SinkInv
  <2>19. finishing \notin {"ok", "failed"}
    BY <1>0, <2>1, <2>3 DEF EndInv
  <2>20. EndInv'
    BY <1>0, <1>3, <2>14, <2>19 DEF EndInv
  <2>21. ScanInv'
    <3>1. scan = Frames!NoScan
      BY <1>0, <2>14 DEF ScanInv
    <3>2. scan.at = 0 /\ scan.parser = Frames!Fresh /\ scan.verdict = "none"
      BY <3>1 DEF Frames!NoScan
    <3>3. SubSeq(framed', 1, 0) = SubSeq(framed, 1, 0)
      BY <2>14, EmptySeq, Beginning
    <3>4. scan.parser =
            With(Frames!TookAll(Frames!Fresh, SubSeq(framed, 1, scan.at)), scan.at, FALSE)
      BY <1>0 DEF ScanInv
    <3>5. scan'.parser =
            With(Frames!TookAll(Frames!Fresh, SubSeq(framed', 1, scan'.at)), scan'.at, FALSE)
      BY <1>3, <3>2, <3>3, <3>4
    <3>6. scan'.at <= Len(framed')
      BY <1>3, <2>14, <3>2
    <3>7. QED
      BY <1>3, <3>1, <3>2, <3>5, <3>6 DEF ScanInv
  <2>22. TaskInv'
    <3>1. Carried' = Cut(Brought(calls, Len(results) + 1))
      BY <2>5, <2>6, <2>7, <2>16
    <3>2. Frames!Next1' = Frames!Next1
      BY <1>3 DEF Frames!Next1
    <3>3. Carried' - Told(results) = k
      BY <2>2, <2>3, <2>6, <2>16
    <3>4. Parsed'.seen = AcceptedOf(calls, results)
                           \o SubSeq(Frames!Next1.bytes, 1, Carried' - Told(results))
      BY <2>2, <2>6, <2>15, <3>3
    <3>5. AfterData'
      BY <1>3, <2>2, <2>4, <2>7, <2>12, <3>1, <3>2, <3>4 DEF AfterData
    <3>6. Carried' <= OutputLimit
      BY <2>3, <2>5, <2>6, <2>16 DEF Cut
    <3>7. QED
      BY <1>3, <3>5, <3>6 DEF TaskInv
  <2>23. QED
    BY <2>17, <2>18, <2>20, <2>21, <2>22 DEF FramesInv
<1>4. QED
  BY <1>2, <1>3 DEF Frames!WriteData

\* The call at the head is told what was kept of it, and the next may begin.
LEMMA HeadAnswered ==
  ASSUME FrameAssumptions, FrameTypes, Len(results) < Len(calls), Carried <= OutputLimit,
         AfterData, NEW l \in BOOLEAN,
         results' = Append(results, [accepted |-> Frames!Given, limit |-> l]), calls' = calls
  PROVE  /\ results' \in Seq(ResultRecords) /\ Len(results') = Len(results) + 1
         /\ Len(results') <= Len(calls') /\ Fits(calls', results')
         /\ Carried = Cut(Brought(calls', Len(results'))) /\ Carried = Told(results')
         /\ Parsed.seen = AcceptedOf(calls', results')
<1> DEFINE r == [accepted |-> Frames!Given, limit |-> l]
<1>1. /\ Frames!Given = Carried - Told(results) /\ Frames!Given \in 0..OutputLimit
      /\ Frames!Given <= Len(Frames!Next1.bytes)
      /\ Told(results) + Frames!Given = Carried
  BY GivenFits
<1>2. r \in ResultRecords /\ r.accepted = Frames!Given
  BY <1>1 DEF ResultRecords
<1>3. results' = Append(results, r)
  OBVIOUS
<1> HIDE DEF r
<1>4. /\ results' \in Seq(ResultRecords) /\ Len(results') = Len(results) + 1
      /\ Len(results') <= Len(calls') /\ Fits(calls', results') /\ Dealt(calls, results')
  BY <1>1, <1>2, <1>3, Answered
<1>5. Carried = Cut(Brought(calls', Len(results')))
  BY <1>4 DEF AfterData
<1>6. Told(results') = Told(results) + r.accepted
  BY <1>2, <1>3, ToldMore DEF FrameTypes
<1>7. AcceptedOf(calls, results')
        = AcceptedOf(calls, results) \o SubSeq(calls[Len(results) + 1].bytes, 1, r.accepted)
  <2>1. Dealt(calls, results) /\ Dealt(calls, Append(results, r))
    BY <1>3, <1>4, TypesOfFrames
  <2>2. QED
    BY <1>2, <1>3, <2>1, AcceptedMore
<1>8. Parsed.seen = AcceptedOf(calls', results')
  BY <1>1, <1>2, <1>7 DEF AfterData, Frames!Next1
<1>9. QED
  BY <1>1, <1>2, <1>4, <1>5, <1>6, <1>8

\* The limit is to be marked, or the call is answered.
LEMMA StepEndTask ==
  ASSUME FrameAssumptions, FramesInv, Frames!EndTask
  PROVE  FramesInv'
<1>0. FrameTypes /\ SinkInv /\ EndInv /\ ScanInv /\ TaskInv
  BY DEF FramesInv
<1>1. step = "end" /\ UNCHANGED <<calls, out, broken, finishing, sink, framed, scan>>
  BY DEF Frames!EndTask
<1>2. Len(results) < Len(calls) /\ ~ broken
  BY <1>0, <1>1 DEF FrameTypes
<1>3. /\ Len(results) \in Nat /\ Len(calls) \in Nat /\ Carried \in Nat /\ OutputLimit \in Nat \ {0}
  BY <1>0, TypesOfFrames
<1>4. AfterData /\ Carried <= OutputLimit /\ out.limit = 0
  BY <1>0, <1>1 DEF TaskInv, AfterData
<1>5. SinkInv' /\ ScanInv'
  BY <1>0, <1>1, SinkStays, ScanStays
<1>6. finishing \notin {"ok", "failed"}
  BY <1>0, <1>2, <1>3 DEF EndInv
<1>7. EndInv'
  BY <1>0, <1>1, <1>6 DEF EndInv
<1>8. Carried' = Carried /\ Parsed' = Parsed
  BY <1>1 DEF Carried, Parsed
<1>9. CASE Carried = OutputLimit
  <2>1. step' = "marker" /\ results' = results
    BY <1>9 DEF Frames!EndTask, Carried
  <2>2. FrameTypes'
    BY <1>0, <1>1, <2>1 DEF FrameTypes, Steps
  <2>3. Frames!Next1' = Frames!Next1
    BY <1>1, <2>1 DEF Frames!Next1
  <2>4. AfterData'
    BY <1>1, <1>4, <1>8, <2>1, <2>3 DEF AfterData
  <2>5. TaskInv'
    BY <1>1, <1>4, <1>8, <1>9, <2>1, <2>4 DEF TaskInv
  <2>6. QED
    BY <1>5, <1>7, <2>2, <2>5 DEF FramesInv
<1>10. CASE Carried # OutputLimit
  <2>1. step' = "idle" /\ results' = Append(results, [accepted |-> Frames!Given, limit |-> FALSE])
    BY <1>4, <1>10 DEF Frames!EndTask, Frames!Answer, Carried
  <2>2. /\ results' \in Seq(ResultRecords) /\ Len(results') = Len(results) + 1
        /\ Len(results') <= Len(calls') /\ Fits(calls', results')
        /\ Carried = Cut(Brought(calls', Len(results'))) /\ Carried = Told(results')
        /\ Parsed.seen = AcceptedOf(calls', results')
    BY <1>0, <1>1, <1>2, <1>4, <2>1, HeadAnswered
  <2>3. FrameTypes'
    BY <1>0, <1>1, <2>1, <2>2 DEF FrameTypes, Steps
  <2>4. BeforeData'
    BY <1>1, <1>4, <1>8, <1>10, <2>2 DEF BeforeData
  <2>5. TaskInv'
    BY <1>1, <1>4, <1>8, <2>1, <2>4 DEF TaskInv
  <2>6. QED
    BY <1>5, <1>7, <2>3, <2>5 DEF FramesInv
<1>11. QED
  BY <1>9, <1>10

\* The limit is marked, or cannot be.
LEMMA StepWriteMarker ==
  ASSUME FrameAssumptions, FramesInv, Frames!WriteMarker
  PROVE  FramesInv'
<1>0. FrameTypes /\ SinkInv /\ EndInv /\ ScanInv /\ TaskInv
  BY DEF FramesInv
<1>1. step = "marker"
  BY DEF Frames!WriteMarker
<1>2. CASE Frames!SinkFails /\ UNCHANGED out
  BY <1>1, <1>2, StepSinkFails
<1>3. ASSUME Frames!SinkWrites(Frames!LimitMark(Frames!Next1.stream)),
             out' = [out EXCEPT !.records = @ + 1, !.bytes = @ + Frames!HeaderBytes,
                                !.limit = Frames!Next1.stream],
             results' = Append(results, [accepted |-> Frames!Given, limit |-> TRUE]),
             step' = "idle", UNCHANGED <<calls, broken, finishing, scan>>
      PROVE  FramesInv'
  <2> DEFINE s == Frames!Next1.stream
             frame == Frames!LimitMark(s)
  <2>1. /\ Len(results) < Len(calls) /\ ~ broken
        /\ out \in [counts : [1..3 -> Nat], records : Nat, bytes : Nat, limit : 0..3]
    BY <1>0, <1>1 DEF FrameTypes
  <2>2. AfterData /\ Carried <= OutputLimit /\ Carried = OutputLimit /\ out.limit = 0
    BY <1>0, <1>1 DEF TaskInv, AfterData
  <2>3. /\ OutputLimit \in Nat \ {0} /\ Carried \in Nat
        /\ Len(results) \in Nat /\ Len(calls) \in Nat /\ Parsed \in Parsers
        /\ Frames!HeaderBytes \in Nat /\ Len(framed) \in Nat
    BY <1>0, TypesOfFrames
  <2>4. s \in 1..3
    BY <1>0, <2>1, HeadOfTheQueue
  <2>5. Between(Parsed)
    BY <1>0, <2>2, <2>3 DEF Between, SinkInv
  <2>6. /\ frame \in Seq(Frames!Byte) /\ Len(frame) = Frames!HeaderBytes
        /\ Frames!TookAll(Parsed, frame) \in Parsers
        /\ Frames!TookAll(Parsed, frame)
             = [Parsed EXCEPT !.records = Parsed.records + 1, !.limit = s]
    BY <2>4, <2>5, MarkTaken
  <2>7. Frames!SinkWrites(frame)
    BY <1>3
  <2>8. /\ out'.counts = out.counts /\ out'.records = out.records + 1
        /\ out'.bytes = out.bytes + Frames!HeaderBytes /\ out'.limit = s
    BY <1>3, <2>1
  <2>9. out' \in [counts : [1..3 -> Nat], records : Nat, bytes : Nat, limit : 0..3]
    <3>1. out.records \in Nat /\ out.bytes \in Nat /\ out.counts \in [1..3 -> Nat]
      BY <2>1
    <3>2. out' = [counts |-> out'.counts, records |-> out'.records, bytes |-> out'.bytes,
                  limit |-> out'.limit]
      BY <1>3, <2>1
    <3>3. out'.records \in Nat /\ out'.counts \in [1..3 -> Nat]
      BY <2>8, <3>1
    <3>4. out'.bytes \in Nat
      BY <2>3, <2>8, <3>1
    <3>5. out'.limit \in 0..3
      BY <2>4, <2>8
    <3>6. QED
      BY <3>2, <3>3, <3>4, <3>5
  <2> HIDE DEF frame, s
  <2>10. /\ sink.state = "open" /\ framed' = framed \o frame /\ framed' \in Seq(Frames!Byte)
         /\ Len(framed') = Len(framed) + Len(frame)
         /\ Parsed' = Frames!TookAll(Parsed, frame) /\ Parsed' \in Parsers
         /\ sink' = [state |-> "open", failed |-> sink.failed,
                     parser |-> With(Parsed', Len(framed'), FALSE)]
    BY <1>0, <2>6, <2>7, FrameWritten
  <2>11. /\ Parsed'.counts = Parsed.counts /\ Parsed'.records = Parsed.records + 1
         /\ Parsed'.limit = s /\ Parsed'.seen = Parsed.seen /\ Parsed'.failed = Parsed.failed
         /\ Parsed'.head = Parsed.head /\ Parsed'.left = Parsed.left
    BY <2>3, <2>6, <2>10 DEF Parsers
  <2>12. Carried' = Carried
    BY <2>8 DEF Carried
  <2>13. /\ results' \in Seq(ResultRecords) /\ Len(results') = Len(results) + 1
         /\ Len(results') <= Len(calls') /\ Fits(calls', results')
         /\ Carried = Cut(Brought(calls', Len(results'))) /\ Carried = Told(results')
         /\ Parsed.seen = AcceptedOf(calls', results')
    BY <1>0, <1>3, <2>1, <2>2, HeadAnswered
  <2>14. With(Parsed', Len(framed'), FALSE) \in Parsers
    <3>1. Len(framed') \in Nat /\ FALSE \in BOOLEAN
      BY <2>10
    <3>2. QED
      BY <2>10, <3>1, WithIsParser
  <2>15. FrameTypes'
    <3>1. sink.failed \in BOOLEAN
      BY <1>0 DEF FrameTypes
    <3>2. sink' \in [state : {"open", "published", "aborted", "refused"}, parser : Parsers,
                     failed : BOOLEAN]
      BY <2>10, <2>14, <3>1
    <3>3. QED
      BY <1>0, <1>3, <2>9, <2>10, <2>13, <3>2 DEF FrameTypes, Steps
  <2>16. SinkInv'
    <3>1. Len(framed') \in Nat /\ FALSE \in BOOLEAN
      BY <2>10
    <3>2. /\ sink'.parser = With(Parsed', Len(framed'), FALSE) /\ sink'.parser.done = FALSE
      BY <2>10, <3>1, WithIsParser
    <3>3. ~ Parsed'.failed /\ Parsed'.head = << >> /\ Parsed'.left = 0
      BY <2>5, <2>11 DEF Between
    <3>4. Parsed.counts = out.counts /\ Parsed.records = out.records
      BY <1>0 DEF SinkInv
    <3>5. Parsed'.counts = out'.counts /\ Parsed'.records = out'.records /\ Parsed'.limit = out'.limit
      BY <2>8, <2>11, <3>4
    <3>6. out.bytes = Len(framed) /\ out.bytes = Carried + Frames!HeaderBytes * out.records
      BY <1>0 DEF SinkInv
    <3>7. out'.bytes = Len(framed')
      BY <2>6, <2>8, <2>10, <3>6
    <3>8. out.records \in Nat
      BY <2>1
    <3>9. Frames!HeaderBytes * (out.records + 1)
            = Frames!HeaderBytes * out.records + Frames!HeaderBytes
      BY <2>3, <3>8
    <3>10. Frames!HeaderBytes * out.records \in Nat
      BY <2>3, <3>8
    <3>11. out'.bytes = Carried' + Frames!HeaderBytes * out'.records
      BY <2>3, <2>8, <2>12, <3>6, <3>9, <3>10
    <3>12. QED
      BY <3>2, <3>3, <3>5, <3>7, <3>11 DEF SinkInv
  <2>17. finishing \notin {"ok", "failed"}
    BY <1>0, <2>1, <2>3 DEF EndInv
  <2>18. EndInv'
    BY <1>0, <1>3, <2>10, <2>17 DEF EndInv
  <2>19. ScanInv'
    <3>1. scan = Frames!NoScan
      BY <1>0, <2>10 DEF ScanInv
    <3>2. scan.at = 0 /\ scan.parser = Frames!Fresh /\ scan.verdict = "none"
      BY <3>1 DEF Frames!NoScan
    <3>3. SubSeq(framed', 1, 0) = SubSeq(framed, 1, 0)
      BY <2>10, EmptySeq, Beginning
    <3>4. scan.parser =
            With(Frames!TookAll(Frames!Fresh, SubSeq(framed, 1, scan.at)), scan.at, FALSE)
      BY <1>0 DEF ScanInv
    <3>5. scan'.parser =
            With(Frames!TookAll(Frames!Fresh, SubSeq(framed', 1, scan'.at)), scan'.at, FALSE)
      BY <1>3, <3>2, <3>3, <3>4
    <3>6. scan'.at <= Len(framed')
      BY <1>3, <2>10, <3>2
    <3>7. QED
      BY <1>3, <3>1, <3>2, <3>5, <3>6 DEF ScanInv
  <2>20. BeforeData'
    <3>1. (out'.limit # 0) = (Carried' = OutputLimit)
      BY <2>2, <2>4, <2>8, <2>12
    <3>2. QED
      BY <2>11, <2>12, <2>13, <3>1 DEF BeforeData
  <2>21. TaskInv'
    BY <1>3, <2>2, <2>12, <2>20 DEF TaskInv
  <2>22. QED
    BY <2>15, <2>16, <2>18, <2>19, <2>21 DEF FramesInv
<1>4. QED
  BY <1>2, <1>3 DEF Frames!WriteMarker

\* finish is called.
LEMMA StepFinish ==
  ASSUME FrameAssumptions, FramesInv, Frames!Finish
  PROVE  FramesInv'
<1>0. FrameTypes /\ SinkInv /\ EndInv /\ ScanInv /\ TaskInv
  BY DEF FramesInv
<1>1. /\ finishing = "no" /\ finishing' = "called"
      /\ UNCHANGED <<calls, results, step, out, broken, sink, framed, scan>>
  BY DEF Frames!Finish
<1>2. FrameTypes'
  BY <1>0, <1>1 DEF FrameTypes
<1>3. EndInv'
  BY <1>0, <1>1 DEF EndInv
<1>4. SinkInv' /\ ScanInv' /\ TaskInv'
  BY <1>0, <1>1, SinkStays, ScanStays, TaskStays
<1>5. QED
  BY <1>2, <1>3, <1>4 DEF FramesInv

\* All calls are answered.
LEMMA StepFinished ==
  ASSUME FrameAssumptions, FramesInv, Frames!Finished
  PROVE  FramesInv'
<1>0. FrameTypes /\ SinkInv /\ EndInv /\ ScanInv /\ TaskInv
  BY DEF FramesInv
<1>1. /\ finishing = "called" /\ ~ (Len(results) < Len(calls))
      /\ finishing' \in {"ok", "failed"} /\ (finishing' = "ok" => ~ broken)
      /\ UNCHANGED <<calls, results, step, out, broken, sink, framed, scan>>
  BY DEF Frames!Finished, Frames!Queued
<1>2. Len(results) = Len(calls)
  BY <1>0, <1>1, TypesOfFrames DEF FrameTypes
<1>3. FrameTypes'
  BY <1>0, <1>1 DEF FrameTypes
<1>4. EndInv'
  BY <1>0, <1>1, <1>2 DEF EndInv
<1>5. SinkInv' /\ ScanInv' /\ TaskInv'
  BY <1>0, <1>1, SinkStays, ScanStays, TaskStays
<1>6. QED
  BY <1>3, <1>4, <1>5 DEF FramesInv

\* What was finished is what the parser says of the whole object.
LEMMA WholeIsValid ==
  ASSUME FrameAssumptions, FramesInv, finishing = "ok", NEW p, p = With(Parsed, Len(framed), FALSE)
  PROVE  Frames!Valid(out, p)
<1>0. FrameTypes /\ SinkInv /\ EndInv /\ ScanInv /\ TaskInv
  BY DEF FramesInv
<1>1. /\ OutputLimit \in Nat \ {0} /\ Carried \in Nat /\ Len(results) \in Nat /\ Len(calls) \in Nat
      /\ Parsed \in Parsers /\ Len(framed) \in Nat /\ FALSE \in BOOLEAN
  BY <1>0, TypesOfFrames
<1>2. /\ p \in Parsers /\ p.bytes = Len(framed) /\ p.done = FALSE
      /\ p.head = Parsed.head /\ p.left = Parsed.left /\ p.counts = Parsed.counts
      /\ p.records = Parsed.records /\ p.limit = Parsed.limit /\ p.failed = Parsed.failed
  BY <1>1, WithIsParser
<1>3. /\ ~ Parsed.failed /\ Parsed.head = << >> /\ Parsed.left = 0
      /\ Parsed.counts = out.counts /\ Parsed.records = out.records /\ Parsed.limit = out.limit
      /\ out.bytes = Len(framed) /\ out.bytes = Carried + Frames!HeaderBytes * out.records
  BY <1>0 DEF SinkInv
<1>4. Frames!Whole(p)
  BY <1>2, <1>3 DEF Frames!Whole, Carried
<1>5. Frames!ParserSummary(p) = [out EXCEPT !.records = p.records]
  <2>1. out \in [counts : [1..3 -> Nat], records : Nat, bytes : Nat, limit : 0..3]
    BY <1>0 DEF FrameTypes
  <2>2. out = [counts |-> out.counts, records |-> out.records, bytes |-> out.bytes,
               limit |-> out.limit]
    BY <2>1
  <2>3. [out EXCEPT !.records = p.records] = out
    BY <1>2, <1>3, <2>1
  <2>4. QED
    BY <1>2, <1>3, <2>2, <2>3 DEF Frames!ParserSummary, Frames!Summary
<1>6. Len(results) = Len(calls) /\ ~ broken
  BY <1>0 DEF EndInv
<1>7. step = "idle"
  BY <1>0, <1>1, <1>6 DEF FrameTypes
<1>8. Carried <= OutputLimit /\ (out.limit # 0) = (Carried = OutputLimit)
  BY <1>0, <1>6, <1>7 DEF TaskInv, BeforeData
<1>9. QED
  BY <1>4, <1>5, <1>8 DEF Frames!Valid, Carried

\* The parser of an open sink is that of the bytes so far.
LEMMA SinkParser ==
  ASSUME FrameAssumptions, FrameTypes, SinkInv, sink.state = "open"
  PROVE  sink.parser = With(Parsed, Len(framed), FALSE)
<1>1. sink.parser \in Parsers
  BY DEF FrameTypes
<1>2. sink.parser.done \in BOOLEAN
  BY <1>1 DEF Parsers
<1>3. QED
  BY <1>2 DEF SinkInv

\* Nothing that was finished is refused.
LEMMA StepPublish ==
  ASSUME FrameAssumptions, FramesInv, Frames!Publish
  PROVE  FramesInv'
<1>0. FrameTypes /\ SinkInv /\ EndInv /\ ScanInv /\ TaskInv
  BY DEF FramesInv
<1>1. /\ finishing = "ok" /\ sink.state = "open"
      /\ UNCHANGED <<calls, results, step, out, broken, finishing, framed, scan>>
  BY DEF Frames!Publish
<1>2. sink.parser = With(Parsed, Len(framed), FALSE)
  BY <1>0, <1>1, SinkParser
<1>3. Frames!Valid(out, sink.parser)
  BY <1>1, <1>2, WholeIsValid
<1>4. PICK how \in {"published", "aborted"} :
        sink' = [sink EXCEPT !.parser.done = TRUE, !.state = how]
  BY <1>3 DEF Frames!Publish
<1>5. sink \in [state : {"open", "published", "aborted", "refused"}, parser : Parsers,
                failed : BOOLEAN]
  BY <1>0 DEF FrameTypes
<1>6. sink' = [state |-> how, parser |-> [sink.parser EXCEPT !.done = TRUE],
               failed |-> sink.failed]
  BY <1>4, <1>5
<1>7. Parsed \in Parsers /\ Len(framed) \in Nat /\ TRUE \in BOOLEAN /\ FALSE \in BOOLEAN
  BY <1>0, TypesOfFrames
<1>8. [sink.parser EXCEPT !.done = TRUE] = With(Parsed, Len(framed), TRUE)
  BY <1>2, <1>7 DEF With, Parsers
<1>9. /\ With(Parsed, Len(framed), TRUE) \in Parsers
      /\ With(Parsed, Len(framed), TRUE).done = TRUE
  BY <1>7, WithIsParser
<1>10. Parsed' = Parsed /\ Carried' = Carried
  BY <1>1 DEF Parsed, Carried
<1>11. FrameTypes'
  <2>1. sink' \in [state : {"open", "published", "aborted", "refused"}, parser : Parsers,
                   failed : BOOLEAN]
    BY <1>4, <1>5, <1>6, <1>8, <1>9
  <2>2. QED
    BY <1>0, <1>1, <2>1 DEF FrameTypes
<1>12. SinkInv'
  <2>1. sink'.parser = With(Parsed', Len(framed'), sink'.parser.done)
    BY <1>1, <1>6, <1>8, <1>9, <1>10
  <2>2. sink'.state # "open"
    BY <1>4, <1>6
  <2>3. QED
    BY <1>0, <1>1, <1>10, <2>1, <2>2 DEF SinkInv
<1>13. EndInv'
  BY <1>0, <1>1, <1>4, <1>6 DEF EndInv
<1>14. ScanInv'
  <2>1. scan = Frames!NoScan
    BY <1>0, <1>1 DEF ScanInv
  <2>2. QED
    BY <1>0, <1>1, <2>1 DEF ScanInv
<1>15. TaskInv'
  BY <1>0, <1>1, TaskStays
<1>16. QED
  BY <1>11, <1>12, <1>13, <1>14, <1>15 DEF FramesInv

\* Who could not finish aborts.
LEMMA StepAbort ==
  ASSUME FrameAssumptions, FramesInv, Frames!Abort
  PROVE  FramesInv'
<1>0. FrameTypes /\ SinkInv /\ EndInv /\ ScanInv /\ TaskInv
  BY DEF FramesInv
<1>1. /\ finishing = "failed" /\ sink.state = "open"
      /\ sink' = [sink EXCEPT !.state = "aborted"]
      /\ UNCHANGED <<calls, results, step, out, broken, finishing, framed, scan>>
  BY DEF Frames!Abort
<1>2. sink \in [state : {"open", "published", "aborted", "refused"}, parser : Parsers,
                failed : BOOLEAN]
  BY <1>0 DEF FrameTypes
<1>3. sink' \in [state : {"open", "published", "aborted", "refused"}, parser : Parsers,
                 failed : BOOLEAN]
  BY <1>1, <1>2
<1>4. sink'.state = "aborted" /\ sink'.parser = sink.parser /\ sink'.failed = sink.failed
  BY <1>1, <1>2
<1>5. Parsed' = Parsed /\ Carried' = Carried
  BY <1>1 DEF Parsed, Carried
<1>6. FrameTypes'
  BY <1>0, <1>1, <1>3 DEF FrameTypes
<1>7. SinkInv'
  BY <1>0, <1>1, <1>4, <1>5 DEF SinkInv
<1>8. EndInv'
  BY <1>0, <1>1, <1>4 DEF EndInv
<1>9. ScanInv'
  BY <1>0, <1>1, <1>4 DEF ScanInv
<1>10. TaskInv'
  BY <1>0, <1>1, TaskStays
<1>11. QED
  BY <1>6, <1>7, <1>8, <1>9, <1>10 DEF FramesInv

\* The bytes that follow, and what they make with those before.
LEMMA Following ==
  \A s \in Seq(Frames!Byte) : \A m \in 0..Len(s) : \A n \in m..Len(s) :
    /\ SubSeq(s, m + 1, n) \in Seq(Frames!Byte) /\ Len(SubSeq(s, m + 1, n)) = n - m
    /\ SubSeq(s, 1, m) \o SubSeq(s, m + 1, n) = SubSeq(s, 1, n)
<1> SUFFICES ASSUME NEW s \in Seq(Frames!Byte), NEW m \in 0..Len(s), NEW n \in m..Len(s)
             PROVE  /\ SubSeq(s, m + 1, n) \in Seq(Frames!Byte)
                    /\ Len(SubSeq(s, m + 1, n)) = n - m
                    /\ SubSeq(s, 1, m) \o SubSeq(s, m + 1, n) = SubSeq(s, 1, n)
  OBVIOUS
<1>1. m \in Nat /\ n \in Nat /\ m + 1 \in Int /\ n \in Int /\ m <= n /\ Len(s) \in Nat
  OBVIOUS
<1>2. \A i \in (m + 1)..n : s[i] \in Frames!Byte
  BY <1>1
<1>3. /\ SubSeq(s, m + 1, n) \in Seq(Frames!Byte)
      /\ Len(SubSeq(s, m + 1, n)) = IF m + 1 <= n THEN n - (m + 1) + 1 ELSE 0
  BY <1>1, <1>2, SubSeqProperties
<1>4. Len(SubSeq(s, m + 1, n)) = n - m
  BY <1>1, <1>3
<1>5. SubSeq(s, 1, m) \o SubSeq(s, m + 1, n) = SubSeq(s, 1, n)
  <2>1. 1 \in 1..(Len(s) + 1) /\ m \in (1 - 1)..Len(s) /\ n \in m..Len(s)
    BY <1>1
  <2>2. QED
    BY <2>1, ConcatAdjacentSubSeq
<1>6. QED
  BY <1>3, <1>4, <1>5

\* A scan reads on: it does not matter how far it had read.
LEMMA StepScanChunk ==
  ASSUME FrameAssumptions, FramesInv, NEW n, Frames!ScanChunk(n)
  PROVE  FramesInv'
<1>0. FrameTypes /\ SinkInv /\ EndInv /\ ScanInv /\ TaskInv
  BY DEF FramesInv
<1> DEFINE at1 == scan.at
           a == SubSeq(framed, 1, at1)
           b == SubSeq(framed, at1 + 1, at1 + n)
           c == SubSeq(framed, at1 + n + 1, Len(framed))
           q == Frames!TookAll(Frames!Fresh, a)
<1>1. /\ sink.state = "published" /\ scan.verdict = "none"
      /\ n \in 1..(Len(framed) - scan.at)
      /\ scan' = [scan EXCEPT !.at = scan.at + n, !.parser = Frames!Push(scan.parser, b)]
      /\ UNCHANGED <<calls, results, step, out, broken, finishing, sink, framed>>
  BY DEF Frames!ScanChunk
<1>2. /\ framed \in Seq(Frames!Byte) /\ Len(framed) \in Nat
      /\ scan \in [at : Nat, parser : Parsers, verdict : Verdicts]
  BY <1>0, TypesOfFrames DEF FrameTypes
<1>3. at1 \in Nat /\ at1 <= Len(framed) /\ n \in Nat /\ at1 + n <= Len(framed)
  BY <1>0, <1>1, <1>2 DEF ScanInv
<1>4. scan.parser = With(q, at1, FALSE)
  BY <1>0 DEF ScanInv
<1>5. /\ a \in Seq(Frames!Byte) /\ b \in Seq(Frames!Byte) /\ c \in Seq(Frames!Byte)
      /\ Len(b) = n /\ a \o b = SubSeq(framed, 1, at1 + n) /\ (a \o b) \o c = framed
  <2>1. /\ at1 \in 0..Len(framed) /\ at1 + n \in at1..Len(framed)
        /\ at1 + n \in 0..Len(framed) /\ Len(framed) \in (at1 + n)..Len(framed)
    BY <1>2, <1>3
  <2>2. a \in Seq(Frames!Byte)
    BY <1>2, <2>1, Beginning
  <2>3. /\ b \in Seq(Frames!Byte) /\ Len(b) = (at1 + n) - at1
        /\ a \o b = SubSeq(framed, 1, at1 + n)
    BY <1>2, <2>1, Following
  <2>4. /\ c \in Seq(Frames!Byte)
        /\ SubSeq(framed, 1, at1 + n) \o c = SubSeq(framed, 1, Len(framed))
    BY <1>2, <2>1, Following
  <2>5. SubSeq(framed, 1, Len(framed)) = framed
    BY <1>2, SubSeqFull
  <2> HIDE DEF a, b, c, at1
  <2>6. (a \o b) \o c = framed
    BY <2>3, <2>4, <2>5
  <2>7. Len(b) = n
    BY <1>3, <2>3
  <2>8. QED
    BY <2>2, <2>3, <2>4, <2>6, <2>7
<1> HIDE DEF a, b, c, at1
<1>8. q \in Parsers /\ Frames!Fresh \in Parsers /\ a \o b \in Seq(Frames!Byte)
  BY <1>5, FreshParser, TookAllIsParser, ConcatProperties
<1>9. Frames!TookAll(Frames!Fresh, a \o b) = Frames!TookAll(q, b)
  BY <1>5, <1>8, TookInPieces
<1>10. Frames!TookAll(Frames!Fresh, (a \o b) \o c) = Frames!TookAll(Frames!TookAll(q, b), c)
  <2>1. Frames!TookAll(Frames!Fresh, (a \o b) \o c)
          = Frames!TookAll(Frames!TookAll(Frames!Fresh, a \o b), c)
    BY <1>5, <1>8, TookInPieces
  <2>2. QED
    BY <1>9, <2>1
<1>11. ~ q.failed
  <2>1. SUFFICES ASSUME q.failed
                 PROVE  FALSE
    OBVIOUS
  <2>2. Frames!TookAll(q, b) = q
    BY <1>5, <1>8, <2>1, FailedForGood
  <2>3. Frames!TookAll(q, c) = q
    BY <1>5, <1>8, <2>1, FailedForGood
  <2>4. Parsed = q
    BY <1>5, <1>10, <2>2, <2>3 DEF Parsed
  <2>5. QED
    BY <1>0, <2>1, <2>4 DEF SinkInv
<1>12. Frames!Push(scan.parser, b) = With(Frames!TookAll(q, b), at1 + n, FALSE)
  BY <1>3, <1>4, <1>5, <1>8, <1>11, Pushed
<1>13. Frames!Push(scan.parser, b) \in Parsers
  <2>1. Frames!TookAll(q, b) \in Parsers
    BY <1>5, <1>8, TookAllIsParser
  <2>2. at1 + n \in Nat /\ FALSE \in BOOLEAN
    BY <1>3
  <2>3. QED
    BY <1>12, <2>1, <2>2, WithIsParser
<1>14. /\ scan'.at = at1 + n /\ scan'.parser = Frames!Push(scan.parser, b)
       /\ scan'.verdict = "none" /\ scan' \in [at : Nat, parser : Parsers, verdict : Verdicts]
  <2>1. scan' = [at |-> at1 + n, parser |-> Frames!Push(scan.parser, b), verdict |-> scan.verdict]
    BY <1>1, <1>2 DEF at1, b
  <2>2. at1 + n \in Nat /\ scan.verdict \in Verdicts /\ scan.verdict = "none"
    BY <1>1, <1>2, <1>3
  <2>3. QED
    BY <1>13, <2>1, <2>2
<1>15. FrameTypes'
  BY <1>0, <1>1, <1>14 DEF FrameTypes
<1>16. ScanInv'
  <2>1. scan'.parser
          = With(Frames!TookAll(Frames!Fresh, SubSeq(framed', 1, scan'.at)), scan'.at, FALSE)
    BY <1>1, <1>5, <1>9, <1>12, <1>14
  <2>2. QED
    BY <1>1, <1>3, <1>14, <2>1 DEF ScanInv
<1>17. SinkInv' /\ EndInv' /\ TaskInv'
  BY <1>0, <1>1, SinkStays, EndStays, TaskStays
<1>18. QED
  BY <1>15, <1>16, <1>17 DEF FramesInv

\* A scan that has read all finds what the sink found.
LEMMA StepScanEnd ==
  ASSUME FrameAssumptions, FramesInv, Frames!ScanEnd
  PROVE  FramesInv'
<1>0. FrameTypes /\ SinkInv /\ EndInv /\ ScanInv /\ TaskInv
  BY DEF FramesInv
<1>1. /\ sink.state = "published" /\ scan.at = Len(framed)
      /\ scan' = [scan EXCEPT !.verdict = IF Frames!Valid(out, scan.parser) THEN "ok"
                                          ELSE "malformed"]
      /\ UNCHANGED <<calls, results, step, out, broken, finishing, sink, framed>>
  BY DEF Frames!ScanEnd
<1>2. /\ framed \in Seq(Frames!Byte) /\ Len(framed) \in Nat
      /\ scan \in [at : Nat, parser : Parsers, verdict : Verdicts]
  BY <1>0, TypesOfFrames DEF FrameTypes
<1>3. scan.parser = With(Parsed, Len(framed), FALSE)
  <2>1. SubSeq(framed, 1, Len(framed)) = framed
    BY <1>2
  <2>2. scan.parser =
          With(Frames!TookAll(Frames!Fresh, SubSeq(framed, 1, scan.at)), scan.at, FALSE)
    BY <1>0 DEF ScanInv
  <2>3. QED
    BY <1>1, <2>1, <2>2 DEF Parsed
<1>4. finishing = "ok"
  BY <1>0, <1>1 DEF EndInv
<1>5. Frames!Valid(out, scan.parser)
  BY <1>3, <1>4, WholeIsValid
<1>6. scan' = [scan EXCEPT !.verdict = "ok"]
  BY <1>1, <1>5
<1>7. /\ scan'.at = scan.at /\ scan'.parser = scan.parser /\ scan'.verdict = "ok"
      /\ scan' \in [at : Nat, parser : Parsers, verdict : Verdicts]
  BY <1>2, <1>6 DEF Verdicts
<1>8. FrameTypes'
  BY <1>0, <1>1, <1>7 DEF FrameTypes
<1>9. ScanInv'
  BY <1>0, <1>1, <1>7 DEF ScanInv
<1>10. SinkInv' /\ EndInv' /\ TaskInv'
  BY <1>0, <1>1, SinkStays, EndStays, TaskStays
<1>11. QED
  BY <1>8, <1>9, <1>10 DEF FramesInv

\* Every step.
LEMMA StepFrames ==
  ASSUME FrameAssumptions, FramesInv, [Frames!Next]_(Frames!vars)
  PROVE  FramesInv'
<1>0. FrameTypes /\ SinkInv /\ EndInv /\ ScanInv /\ TaskInv
  BY DEF FramesInv
<1>1. ASSUME NEW s \in Streams, NEW b \in Payloads, Frames!Write(s, b)
      PROVE  FramesInv'
  BY <1>1, StepWrite
<1>2. CASE Frames!StartTask
  BY <1>2, StepStartTask
<1>3. CASE Frames!WriteData
  BY <1>3, StepWriteData
<1>4. CASE Frames!EndTask
  BY <1>4, StepEndTask
<1>5. CASE Frames!WriteMarker
  BY <1>5, StepWriteMarker
<1>6. CASE Frames!Finish
  BY <1>6, StepFinish
<1>7. CASE Frames!Finished
  BY <1>7, StepFinished
<1>8. CASE Frames!Publish
  BY <1>8, StepPublish
<1>9. CASE Frames!Abort
  BY <1>9, StepAbort
<1>10. ASSUME NEW n \in 1..Len(framed), Frames!ScanChunk(n)
       PROVE  FramesInv'
  BY <1>10, StepScanChunk
<1>11. CASE Frames!ScanEnd
  BY <1>11, StepScanEnd
<1>12. CASE UNCHANGED Frames!vars
  <2>1. UNCHANGED <<calls, results, step, out, broken, finishing, sink, framed, scan>>
    BY <1>12 DEF Frames!vars
  <2>2. FrameTypes'
    BY <1>0, <2>1 DEF FrameTypes
  <2>3. SinkInv' /\ EndInv' /\ ScanInv' /\ TaskInv'
    BY <1>0, <2>1, SinkStays, EndStays, ScanStays, TaskStays
  <2>4. QED
    BY <2>2, <2>3 DEF FramesInv
<1>13. QED
  BY <1>1, <1>2, <1>3, <1>4, <1>5, <1>6, <1>7, <1>8, <1>9, <1>10, <1>11, <1>12
  DEF Frames!Next, Frames!Tasks

\* What holds of the frames is what is said of them.
LEMMA FramesInvImplies ==
  ASSUME FrameAssumptions, FramesInv
  PROVE  /\ Frames!TypeOK /\ Frames!ScanGivesWhatWasAccepted /\ Frames!LimitIsExact
         /\ Frames!NeverRefused /\ Frames!NoPartialOutput
<1>0. FrameTypes /\ SinkInv /\ EndInv /\ ScanInv /\ TaskInv
  BY DEF FramesInv
<1>1. /\ OutputLimit \in Nat \ {0} /\ Carried \in Nat /\ Dealt(calls, results)
      /\ Len(results) \in Nat /\ Len(calls) \in Nat /\ Len(framed) \in Nat
      /\ out.counts \in [1..3 -> Nat] /\ Parsed \in Parsers /\ calls \in Seq(CallRecords)
  BY <1>0, TypesOfFrames DEF FrameTypes
<1>2. Carried <= OutputLimit
  BY <1>0 DEF TaskInv
<1>3. Frames!TypeOK
  <2>1. out.counts \in [Frames!AllStreams -> 0..OutputLimit]
    <3>1. ASSUME NEW i \in 1..3
          PROVE  out.counts[i] \in 0..OutputLimit
      <4>1. out.counts[1] \in Nat /\ out.counts[2] \in Nat /\ out.counts[3] \in Nat
        BY <1>1
      <4>2. out.counts[1] + out.counts[2] + out.counts[3] <= OutputLimit
        BY <1>2 DEF Carried, Frames!Total
      <4>3. i = 1 \/ i = 2 \/ i = 3
        OBVIOUS
      <4>4. QED
        BY <1>1, <4>1, <4>2, <4>3
    <3>2. QED
      BY <1>1, <3>1 DEF Frames!AllStreams
  <2>2. out.limit \in 0..3 /\ Frames!Total(out.counts) <= OutputLimit
    BY <1>0, <1>2 DEF FrameTypes, Carried
  <2>3. scan.at \in 0..Len(framed) /\ scan.verdict \in {"none", "ok", "malformed"}
    BY <1>0, <1>1 DEF FrameTypes, ScanInv, Verdicts
  <2>4. /\ calls \in Seq([stream : Streams, bytes : Payloads])
        /\ results \in Seq([accepted : 0..OutputLimit, limit : BOOLEAN])
        /\ Len(results) <= Len(calls)
        /\ step \in {"idle", "data", "end", "marker"} /\ (step # "idle" => Frames!Queued)
        /\ finishing \in {"no", "called", "ok", "failed"} /\ framed \in Seq(Frames!Byte)
    BY <1>0 DEF FrameTypes, CallRecords, ResultRecords, Steps, Frames!Queued
  <2>5. sink.state \in {"open", "published", "aborted", "refused"}
    BY <1>0 DEF FrameTypes
  <2>6. QED
    BY <2>1, <2>2, <2>3, <2>4, <2>5 DEF Frames!TypeOK
<1>4. ASSUME finishing = "ok"
      PROVE  /\ ~ broken /\ Len(results) = Len(calls)
             /\ Carried = Cut(Brought(calls, Len(calls))) /\ (out.limit # 0) = (Carried = OutputLimit)
             /\ Parsed.seen = AcceptedOf(calls, results)
  <2>1. ~ broken /\ Len(results) = Len(calls)
    BY <1>0, <1>4 DEF EndInv
  <2>2. step = "idle"
    BY <1>0, <1>1, <2>1 DEF FrameTypes
  <2>3. BeforeData
    BY <1>0, <2>1, <2>2 DEF TaskInv
  <2>4. QED
    BY <2>1, <2>3 DEF BeforeData
<1>5. sink.state = "published" => finishing = "ok"
  BY <1>0 DEF EndInv
<1>6. Frames!ScanGivesWhatWasAccepted
  <2>1. SUFFICES ASSUME scan.verdict # "none"
                 PROVE  scan.verdict = "ok" /\ scan.parser.seen = Frames!AcceptedBytes
    BY DEF Frames!ScanGivesWhatWasAccepted
  <2>2. scan.verdict = "ok" /\ scan.at = Len(framed)
    BY <1>0, <2>1 DEF ScanInv
  <2>3. sink.state = "published"
    BY <1>0, <2>1 DEF ScanInv, Frames!NoScan
  <2>4. scan.parser = With(Parsed, Len(framed), FALSE)
    <3>1. SubSeq(framed, 1, Len(framed)) = framed
      BY <1>0 DEF FrameTypes
    <3>2. scan.parser =
            With(Frames!TookAll(Frames!Fresh, SubSeq(framed, 1, scan.at)), scan.at, FALSE)
      BY <1>0 DEF ScanInv
    <3>3. QED
      BY <2>2, <3>1, <3>2 DEF Parsed
  <2>5. scan.parser.seen = Parsed.seen
    <3>1. FALSE \in BOOLEAN
      OBVIOUS
    <3>2. With(Parsed, Len(framed), FALSE).seen = Parsed.seen
      BY <1>1, <3>1, WithIsParser
    <3>3. QED
      BY <2>4, <3>2
  <2>6. Frames!AcceptedBytes = AcceptedOf(calls, results)
    BY <1>1, AcceptedBytesIs
  <2>7. QED
    BY <1>4, <1>5, <2>2, <2>3, <2>5, <2>6
<1>7. Frames!LimitIsExact
  <2>1. Frames!CallBytes = Brought(calls, Len(calls))
    BY <1>1, CallBytesIs
  <2>2. Brought(calls, Len(calls)) \in Nat
    <3>1. Len(calls) \in 0..Len(calls)
      BY <1>1
    <3>2. QED
      BY <1>1, <3>1, BroughtIs
  <2>3. SUFFICES ASSUME sink.state = "published"
                 PROVE  /\ Carried = (IF Frames!CallBytes < OutputLimit THEN Frames!CallBytes
                                   ELSE OutputLimit)
                        /\ (out.limit # 0) = (Frames!CallBytes >= OutputLimit)
    BY DEF Frames!LimitIsExact, Carried
  <2>4. /\ Carried = Cut(Brought(calls, Len(calls))) /\ (out.limit # 0) = (Carried = OutputLimit)
    BY <1>4, <1>5, <2>3
  <2>5. QED
    BY <1>1, <2>1, <2>2, <2>4 DEF Cut
<1>8. Frames!NeverRefused
  BY <1>0 DEF EndInv, Frames!NeverRefused
<1>9. Frames!NoPartialOutput
  BY <1>0, <1>4, <1>5 DEF EndInv, Frames!NoPartialOutput
<1>10. QED
  BY <1>3, <1>6, <1>7, <1>8, <1>9

-----------------------------------------------------------------------------
(* The tools together: a step is one of the component a behaviour is about. *)

LEMMA SceneStays ==
  ASSUME [ToolsNext]_toolsVars
  PROVE  /\ scene' = scene
         /\ [Next]_vars
         /\ scene = "bash" => [Bash!Next]_(Bash!vars)
         /\ scene = "frames" => [Frames!Next]_(Frames!vars)
         /\ scene = "file" => [Writes!Next]_(Writes!vars)
<1>1. CASE ToolsNext
  BY <1>1 DEF ToolsNext, vars, bashVars, framesVars, fileVars, Bash!vars, Frames!vars, Writes!vars
<1>2. CASE UNCHANGED toolsVars
  <2>1. UNCHANGED <<scene, vars, bashVars, framesVars, fileVars>>
    BY <1>2 DEF toolsVars
  <2>2. /\ UNCHANGED vars /\ UNCHANGED Bash!vars /\ UNCHANGED Frames!vars
        /\ UNCHANGED Writes!vars
    BY <2>1 DEF bashVars, framesVars, fileVars, Bash!vars, Bash!procs, Bash!capture,
                Bash!cleanup, Frames!vars, Writes!vars
  <2>3. QED
    BY <2>1, <2>2
<1>3. QED
  BY <1>1, <1>2

\* OutcomeIsTrue of whatever tool is called: what is reported of a command is what
\* became of its processes and of its output.
THEOREM OutcomeIsTrueHolds ==
  ASSUME Bash!ProcessAssumption, Bash!CaptureAssumption
  PROVE  ToolsSpec => []OutcomeIsTrue
<1> DEFINE Inv == scene = "bash" => BashInv
<1>1. ToolsInit => Inv
  BY InitBashInv DEF ToolsInit
<1>2. Inv /\ [ToolsNext]_toolsVars => Inv'
  BY SceneStays, StepBashInv
<1>3. Inv => OutcomeIsTrue
  BY DEF BashInv, OutcomeIsTrue
<1>4. QED
  BY <1>1, <1>2, <1>3, PTL DEF ToolsSpec

\* FramesAreExact of whatever tool is called: however the streams interleave, what
\* a reader of the published object is given is what write was told it accepted,
\* cut at the limit to the byte and marked if and only if it was reached.
THEOREM FramesAreExactHolds ==
  ASSUME Frames!StreamAssumption, Frames!PayloadAssumption, Frames!LimitAssumption
  PROVE  ToolsSpec => []FramesAreExact
<1> DEFINE Inv == scene = "frames" => FramesInv
<1>a. FrameAssumptions
  BY DEF FrameAssumptions
<1>1. ToolsInit => Inv
  BY <1>a, InitFrames DEF ToolsInit
<1>2. Inv /\ [ToolsNext]_toolsVars => Inv'
  BY <1>a, SceneStays, StepFrames
<1>3. Inv => FramesAreExact
  BY <1>a, FramesInvImplies DEF FramesAreExact
<1>4. QED
  BY <1>1, <1>2, <1>3, PTL DEF ToolsSpec

\* NoChangeIsLost of whatever tool is called: of the changes of others write and
\* edit lose only those that came after their last look.
THEOREM NoChangeIsLostHolds ==
  ASSUME Writes!SizeAssumption
  PROVE  ToolsSpec => []NoChangeIsLost
<1> DEFINE Inv == scene = "file" => FileInv
<1>1. ToolsInit => Inv
  BY InitInvariant DEF ToolsInit
<1>2. Inv /\ [ToolsNext]_toolsVars => Inv'
  BY SceneStays, NextInvariant
<1>3. Inv => NoChangeIsLost
  BY InvariantImplies DEF NoChangeIsLost
<1>4. QED
  BY <1>1, <1>2, <1>3, PTL DEF ToolsSpec
=============================================================================
