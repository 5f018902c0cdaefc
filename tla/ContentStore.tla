----------------------------- MODULE ContentStore -----------------------------
(***************************************************************************)
(* A namespace of the content addressed store (artifact/internal-cas.ts):  *)
(* candidates are written to temporary files and published by linking them *)
(* under the name of their content, over a file system that loses what was *)
(* not synced when the power fails.  blob/store.ts and snapshot/store.ts   *)
(* load an object range by range.                                          *)
(*                                                                         *)
(* A hash is the content it stands for, so that a name is a sequence of    *)
(* bytes.  A candidate's temporary file and the name it is linked under    *)
(* are one file: "the file of c".  Candidates may belong to one process or *)
(* to several.  A candidate that is done is not used again.                *)
(***************************************************************************)
EXTENDS Naturals, Sequences, FiniteSets

CONSTANTS
  Candidates, Nobody,   \* the candidates ever begun; none of them
  Loaders,              \* concurrent loads of an object
  Bytes, Bad,           \* the bytes written; what damage makes of one
  MaxBytes,             \* bound: bytes of one candidate
  MaxDamage,            \* bound: files damaged from outside
  IoBuffer, RangeLimit  \* the size of a read of the scan, and of a range

ASSUME NobodyAssumption == Nobody \notin Candidates
ASSUME BytesAssumption == Bad \notin Bytes /\ MaxBytes \in Nat
ASSUME ReadAssumption == IoBuffer \in Nat \ {0} /\ RangeLimit \in Nat \ {0}

Names  == UNION {[1..n -> Bytes] : n \in 0..MaxBytes}
Chunks == {<< b >> : b \in Bytes}
Files  == UNION {[1..n -> Bytes \cup {Bad}] : n \in 0..MaxBytes}

VARIABLES
  made, safe,   \* directories made below the session's, and how many are synced
  entry,        \* entry[n]: the candidate whose file has the name n
  kept,         \* the names that survive a power loss
  temp,         \* the candidates whose temporary name is still there
  data,         \* data[c]: the bytes in the file of c
  synced,       \* the candidates whose file survives a power loss
  damage,       \* how many files have been damaged
  pc,           \* pc[c]: how far the making of the candidate is
  state,        \* state[c]: #state of the candidate
  queue,        \* queue[c]: chunks whose write was called and has not ended
  hashed,       \* hashed[c]: what #hasher and #byteCount have taken
  failed,       \* the candidates with a #failure
  pub, abo,     \* pub[c], abo[c]: where the calls of publish and abort are
  promised,     \* history: the names that publish has returned
  load          \* load[l]: the load in progress

store  == <<made, safe, entry, kept, temp, data, synced, damage>>
object == <<pc, state, queue, hashed, failed, pub, abo>>
vars   == <<made, safe, entry, kept, temp, data, synced, damage, pc, state, queue,
            hashed, failed, pub, abo, promised, load>>

Opening    == {"new", "namespace", "namespace_synced", "directory"}
Publishing == {"draining", "syncing", "scanning", "linking", "comparing",
               "syncing_dir", "cleaning"}
States     == {"open", "finalizing", "published", "aborted", "poisoned"}

NoLoad == [of |-> << >>, from |-> 0, at |-> 0, got |-> << >>, step |-> "none"]

\* verifyObject: a name can be read when the file it stands for holds what the
\* name says.
Readable(n) == entry[n] # Nobody /\ data[entry[n]] = n

Init ==
  /\ made = 0 /\ safe = 0
  /\ entry = [n \in Names |-> Nobody]
  /\ kept = {} /\ temp = {}
  /\ data = [c \in Candidates |-> << >>]
  /\ synced = {} /\ damage = 0
  /\ pc = [c \in Candidates |-> "new"]
  /\ state = [c \in Candidates |-> "open"]
  /\ queue = [c \in Candidates |-> << >>]
  /\ hashed = [c \in Candidates |-> << >>]
  /\ failed = {}
  /\ pub = [c \in Candidates |-> "none"]
  /\ abo = [c \in Candidates |-> "none"]
  /\ promised = {}
  /\ load = [l \in Loaders |-> NoLoad]

-----------------------------------------------------------------------------
(* prepareNamespace and begin. *)

\* mkdir of the namespace and of sha256 in it; EEXIST is as good.  The parent
\* of a directory is synced by whoever finds it, not only by its maker.
Mkdir(c) ==
  /\ \/ pc[c] = "new" /\ made' = (IF made = 0 THEN 1 ELSE made)
        /\ pc' = [pc EXCEPT ![c] = "namespace"]
     \/ pc[c] = "namespace_synced" /\ made' = 2
        /\ pc' = [pc EXCEPT ![c] = "directory"]
  /\ UNCHANGED <<safe, entry, kept, temp, data, synced, damage, state, queue,
                 hashed, failed, pub, abo, promised, load>>

SyncParent(c) ==
  /\ \/ pc[c] = "namespace" /\ safe' = (IF safe = 0 THEN 1 ELSE safe)
        /\ pc' = [pc EXCEPT ![c] = "namespace_synced"]
     \/ pc[c] = "directory" /\ safe' = 2
        /\ pc' = [pc EXCEPT ![c] = "ready"]
  /\ UNCHANGED <<made, entry, kept, temp, data, synced, damage, state, queue,
                 hashed, failed, pub, abo, promised, load>>

\* begin: the temporary file is created with O_EXCL under a random name.
Begin(c) ==
  /\ pc[c] = "ready"
  /\ temp' = temp \cup {c}
  /\ pc' = [pc EXCEPT ![c] = "begun"]
  /\ UNCHANGED <<made, safe, entry, kept, data, synced, damage, state, queue, hashed,
                 failed, pub, abo, promised, load>>

-----------------------------------------------------------------------------
(* NamespaceCandidate: write, publish and abort may be called at any time.  *)

\* write: refused unless open, else queued behind the writes before it.
Write(c, chunk) ==
  /\ pc[c] = "begun" /\ state[c] = "open"
  /\ Len(hashed[c]) + Len(queue[c]) < MaxBytes
  /\ queue' = [queue EXCEPT ![c] = Append(@, chunk)]
  /\ UNCHANGED <<store, pc, state, hashed, failed, pub, abo, promised, load>>

\* The task of the first write of the queue, at the position of #byteCount.  A
\* failed one may have written its bytes; it poisons the candidate, whatever
\* its state is by then.
HandleOpen(c) == pub[c] \in {"none", "draining", "syncing", "scanning"}

RunWrite(c) ==
  /\ pc[c] = "begun" /\ queue[c] # << >>
  /\ queue' = [queue EXCEPT ![c] = Tail(@)]
  /\ \/ /\ c \notin failed /\ HandleOpen(c)
        /\ data' = [data EXCEPT ![c] = hashed[c] \o Head(queue[c])]
        /\ synced' = synced \ {c}
        /\ hashed' = [hashed EXCEPT ![c] = @ \o Head(queue[c])]
        /\ UNCHANGED <<state, failed>>
     \/ /\ data' \in {data} \cup (IF c \in failed \/ ~ HandleOpen(c) THEN {}
                               ELSE {[data EXCEPT ![c] = hashed[c] \o Head(queue[c])]})
        /\ synced' = IF data' = data THEN synced ELSE synced \ {c}
        /\ failed' = failed \cup {c}
        /\ state' = [state EXCEPT ![c] = "poisoned"]
        /\ UNCHANGED hashed
  /\ UNCHANGED <<made, safe, entry, kept, temp, damage, pc, pub, abo, promised, load>>

\* publish of a poisoned candidate only cleans up.
PublishPoisoned(c) ==
  /\ pc[c] = "begun" /\ state[c] = "poisoned" /\ pub[c] = "none"
  /\ temp' = temp \ {c}
  /\ pub' = [pub EXCEPT ![c] = "refused"]
  /\ UNCHANGED <<made, safe, entry, kept, data, synced, damage, pc, state, queue, hashed,
                 failed, abo, promised, load>>

Publish(c) ==
  /\ pc[c] = "begun" /\ state[c] = "open"
  /\ state' = [state EXCEPT ![c] = "finalizing"]
  /\ pub' = [pub EXCEPT ![c] = "draining"]
  /\ UNCHANGED <<store, pc, queue, hashed, failed, abo, promised, load>>

\* Mutant: publish does not wait for the writes before it.
DrainedAtOnce(c) ==
  /\ pub[c] = "draining"
  /\ pub' = [pub EXCEPT ![c] = "syncing"]
  /\ UNCHANGED <<store, pc, state, queue, hashed, failed, abo, promised, load>>

\* The queue has drained: a failed write ends the publication.
Drained(c) ==
  /\ pub[c] = "draining" /\ queue[c] = << >>
  /\ IF c \in failed
     THEN temp' = temp \ {c} /\ pub' = [pub EXCEPT ![c] = "refused"]
     ELSE pub' = [pub EXCEPT ![c] = "syncing"] /\ UNCHANGED temp
  /\ UNCHANGED <<made, safe, entry, kept, data, synced, damage, pc, state, queue, hashed,
                 failed, abo, promised, load>>

\* An error on the way poisons the candidate and removes the temporary file.
PublishFails(c) ==
  /\ pub[c] \in Publishing \ {"draining", "cleaning"}
  /\ state' = [state EXCEPT ![c] = "poisoned"]
  /\ temp' = temp \ {c}
  /\ pub' = [pub EXCEPT ![c] = "refused"]
  /\ UNCHANGED <<made, safe, entry, kept, data, synced, damage, pc, queue, hashed, failed,
                 abo, promised, load>>

\* Mutant: linked before it is synced.
SyncNothing(c) ==
  /\ pub[c] = "syncing"
  /\ pub' = [pub EXCEPT ![c] = "scanning"]
  /\ UNCHANGED <<store, pc, state, queue, hashed, failed, abo, promised, load>>

SyncFile(c) ==
  /\ pub[c] = "syncing"
  /\ synced' = synced \cup {c}
  /\ pub' = [pub EXCEPT ![c] = "scanning"]
  /\ UNCHANGED <<made, safe, entry, kept, temp, data, damage, pc, state, queue, hashed,
                 failed, abo, promised, load>>

\* scanFile: the file is read back and must be what was hashed.
Scan(c) ==
  /\ pub[c] = "scanning" /\ data[c] = hashed[c]
  /\ pub' = [pub EXCEPT ![c] = "linking"]
  /\ UNCHANGED <<store, pc, state, queue, hashed, failed, abo, promised, load>>

\* link under the name of the content; a name that exists is never replaced.
Link(c) ==
  /\ pub[c] = "linking"
  /\ IF entry[hashed[c]] = Nobody
     THEN /\ entry' = [entry EXCEPT ![hashed[c]] = c]
          /\ pub' = [pub EXCEPT ![c] = "syncing_dir"]
     ELSE /\ pub' = [pub EXCEPT ![c] = "comparing"]
          /\ UNCHANGED entry
  /\ UNCHANGED <<made, safe, kept, temp, data, synced, damage, pc, state, queue, hashed,
                 failed, abo, promised, load>>

\* compareFiles: the object that has the name is compared byte by byte with
\* the temporary file and with the digest, and synced once more.
Compare(c) ==
  /\ pub[c] = "comparing"
  /\ LET other == entry[hashed[c]] IN
       /\ other # Nobody /\ c \in temp
       /\ data[other] = data[c] /\ data[other] = hashed[c]
       /\ synced' = synced \cup {other}
  /\ pub' = [pub EXCEPT ![c] = "syncing_dir"]
  /\ UNCHANGED <<made, safe, entry, kept, temp, data, damage, pc, state, queue, hashed,
                 failed, abo, promised, load>>

SyncDirectory(c) ==
  /\ pub[c] = "syncing_dir"
  /\ kept' = kept \cup {n \in Names : entry[n] # Nobody}
  /\ state' = [state EXCEPT ![c] = "published"]
  /\ pub' = [pub EXCEPT ![c] = "cleaning"]
  /\ UNCHANGED <<made, safe, entry, temp, data, synced, damage, pc, queue, hashed, failed,
                 abo, promised, load>>

\* The temporary name is removed, and the name of the object returned.
Return(c) ==
  /\ pub[c] = "cleaning"
  /\ temp' = temp \ {c}
  /\ pub' = [pub EXCEPT ![c] = "returned"]
  /\ promised' = promised \cup {hashed[c]}
  /\ UNCHANGED <<made, safe, entry, kept, data, synced, damage, pc, state, queue, hashed,
                 failed, abo, load>>

\* abort: refused once a publication is under way.
Abort(c) ==
  /\ pc[c] = "begun" /\ state[c] \in {"open", "poisoned"} /\ abo[c] = "none"
  /\ state' = [state EXCEPT ![c] = "aborted"]
  /\ abo' = [abo EXCEPT ![c] = "draining"]
  /\ UNCHANGED <<store, pc, queue, hashed, failed, pub, promised, load>>

AbortDrained(c) ==
  /\ abo[c] = "draining" /\ queue[c] = << >>
  /\ temp' = temp \ {c}
  /\ abo' = [abo EXCEPT ![c] = "aborted"]
  /\ UNCHANGED <<made, safe, entry, kept, data, synced, damage, pc, state, queue, hashed,
                 failed, pub, promised, load>>

-----------------------------------------------------------------------------
(* Loading an object: every range is verified against the whole of it.      *)

Least(a, b) == IF a < b THEN a ELSE b
Most(a, b)  == IF a > b THEN a ELSE b

\* Mutant: the end of the range is not cut to the read.
RangeOfPast(file, offset, max) ==
  LET length == Least(max, Len(file) - offset)
      From[start \in Nat] ==
        IF start >= Len(file) THEN << >>
        ELSE SubSeq(file, Most(start, offset) + 1, offset + length) \o From[start + IoBuffer]
  IN  From[0]

\* scanFile: what the reads of the file, one IoBuffer after the other, put
\* into the buffer of the range.
RangeOf(file, offset, max) ==
  LET length == Least(max, Len(file) - offset)
      Piece(start) ==
        SubSeq(file, Most(start, offset) + 1,
                     Least(Least(start + IoBuffer, Len(file)), offset + length))
      From[start \in Nat] ==
        IF start >= Len(file) THEN << >> ELSE Piece(start) \o From[start + IoBuffer]
  IN  From[0]

\* loadExternal and load verify the object before its first range; a tool reads
\* ranges from wherever it likes.
StartLoad(l, n, from) ==
  /\ load[l].step = "none" /\ entry[n] # Nobody
  /\ load' = [load EXCEPT ![l] = [of |-> n, from |-> from, at |-> from, got |-> << >>,
                                  step |-> "verify"]]
  /\ UNCHANGED <<store, object, promised>>

VerifyLoad(l) ==
  /\ load[l].step = "verify"
  /\ load' = [load EXCEPT ![l].step = IF Readable(load[l].of) THEN "ranges" ELSE "error"]
  /\ UNCHANGED <<store, object, promised>>

LoadRange(l) ==
  LET n == load[l].of
      range == RangeOf(data[entry[n]], load[l].at, Least(RangeLimit, Len(n) - load[l].at))
  IN
  /\ load[l].step = "ranges" /\ load[l].at < Len(n)
  /\ load' = IF Readable(n) /\ range # << >>
             THEN [load EXCEPT ![l].got = @ \o range, ![l].at = @ + Len(range)]
             ELSE [load EXCEPT ![l].step = "error"]
  /\ UNCHANGED <<store, object, promised>>

EndLoad(l) ==
  /\ load[l].step = "ranges" /\ load[l].at >= Len(load[l].of)
  /\ load' = [load EXCEPT ![l].step = "loaded"]
  /\ UNCHANGED <<store, object, promised>>

ForgetLoad(l) ==
  /\ load[l].step \in {"loaded", "error"}
  /\ load' = [load EXCEPT ![l] = NoLoad]
  /\ UNCHANGED <<store, object, promised>>

-----------------------------------------------------------------------------
(* What the world does. *)

\* A file that has a name is damaged from outside.
Damage(c) ==
  /\ damage < MaxDamage /\ \E n \in Names : entry[n] = c
  /\ data[c] # << >>
  /\ data' = [data EXCEPT ![c] = [i \in DOMAIN @ |-> IF i = Len(@) THEN Bad ELSE @[i]]]
  /\ damage' = damage + 1
  /\ UNCHANGED <<made, safe, entry, kept, temp, synced, object, promised, load>>

Stopped(c) ==
  /\ pc[c] # "dead"
  /\ pc' = [pc EXCEPT ![c] = "dead"]
  /\ pub' = [pub EXCEPT ![c] = IF @ \in Publishing THEN "none" ELSE @]
  /\ abo' = [abo EXCEPT ![c] = IF @ = "draining" THEN "none" ELSE @]
  /\ queue' = [queue EXCEPT ![c] = << >>]

\* The process of a candidate dies; its temporary file stays.
Die(c) ==
  /\ Stopped(c)
  /\ UNCHANGED <<store, state, hashed, failed, promised, load>>

\* Directories, names and bytes that were not synced may be lost.  Candidates
\* that had not begun are those of the processes started afterwards.
PowerLoss ==
  /\ \E m \in safe..made, lost \in SUBSET {n \in Names : entry[n] # Nobody /\ n \notin kept} :
       /\ made' = m /\ safe' = m
       /\ entry' = [n \in Names |-> IF m < 2 \/ n \in lost THEN Nobody ELSE entry[n]]
  /\ kept' = {n \in Names : entry'[n] # Nobody}
  /\ data' \in {data, [c \in Candidates |-> IF c \in synced THEN data[c] ELSE << >>]}
  /\ pc' = [c \in Candidates |-> IF pc[c] = "new" THEN "new" ELSE "dead"]
  /\ pub' = [c \in Candidates |-> IF pub[c] \in Publishing THEN "none" ELSE pub[c]]
  /\ abo' = [c \in Candidates |-> IF abo[c] = "draining" THEN "none" ELSE abo[c]]
  /\ queue' = [c \in Candidates |-> << >>]
  /\ load' = [l \in Loaders |-> NoLoad]
  /\ synced' = Candidates
  /\ UNCHANGED <<temp, damage, state, hashed, failed, promised>>

Next ==
  \/ \E c \in Candidates :
       \/ Mkdir(c) \/ SyncParent(c) \/ Begin(c)
       \/ \E chunk \in Chunks : Write(c, chunk)
       \/ RunWrite(c) \/ PublishPoisoned(c) \/ Publish(c) \/ Drained(c) \/ PublishFails(c)
       \/ SyncFile(c) \/ Scan(c) \/ Link(c) \/ Compare(c) \/ SyncDirectory(c) \/ Return(c)
       \/ Abort(c) \/ AbortDrained(c) \/ Damage(c) \/ Die(c)
  \/ \E l \in Loaders :
       \/ \E n \in Names : \E from \in 0..Len(n) : StartLoad(l, n, from)
       \/ VerifyLoad(l) \/ LoadRange(l) \/ EndLoad(l) \/ ForgetLoad(l)
  \/ PowerLoss

Spec == Init /\ [][Next]_vars

-----------------------------------------------------------------------------
\* Types, and names as far as directories: no object without its directory.
TypeOK ==
  /\ made \in 0..2 /\ safe \in 0..made
  /\ entry \in [Names -> Candidates \cup {Nobody}]
  /\ kept \subseteq Names /\ temp \subseteq Candidates /\ synced \subseteq Candidates
  /\ data \in [Candidates -> Files] /\ damage \in Nat
  /\ pc \in [Candidates -> Opening \cup {"ready", "begun", "dead"}]
  /\ state \in [Candidates -> States]
  /\ queue \in [Candidates -> Seq(Chunks)]
  /\ hashed \in [Candidates -> Names] /\ failed \subseteq Candidates
  /\ pub \in [Candidates -> Publishing \cup {"none", "refused", "returned"}]
  /\ abo \in [Candidates -> {"none", "draining", "aborted"}]
  /\ promised \subseteq Names

\* However candidates of equal content race, fail and crash, and whatever a
\* power loss takes: a file that has a name holds exactly the bytes that the
\* name stands for, unless it was damaged from outside.
NamedIsWhole == damage = 0 => \A n \in Names : entry[n] # Nobody => Readable(n)

\* An object that publish has returned, to be named by an event of the journal,
\* is there after every crash and power loss.
PromisedIsKept ==
  \A n \in promised :
    /\ entry[n] # Nobody /\ n \in kept /\ safe = 2
    /\ damage = 0 => Readable(n) /\ entry[n] \in synced

\* A candidate whose abort has ended well has not been, and will not be,
\* published.
AbortedIsUnpublished ==
  \A c \in Candidates : abo[c] = "aborted" => pub[c] \notin {"cleaning", "returned"}

\* What a name promises, in all three respects.
StoredIsWhole == NamedIsWhole /\ PromisedIsKept /\ AbortedIsUnpublished

\* Whatever happens to the object between two ranges, what a load returns is
\* the content its name stands for.
LoadsWhatItNames ==
  \A l \in Loaders : load[l].step = "loaded" =>
    load[l].got = SubSeq(load[l].of, load[l].from + 1, Len(load[l].of))

\* The store is a map that keeps what it has promised.
Map == INSTANCE ContentMap
  WITH there <- {n \in Names : entry[n] # Nobody /\ (damage = 0 => Readable(n))}
ImplementsContentMap == Map!Spec
=============================================================================
