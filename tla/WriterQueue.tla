------------------------------ MODULE WriterQueue ------------------------------
(***************************************************************************)
(* The one writer of a journal (src/src/journal/writer.ts) and those who   *)
(* call it: tool calls of a slice append beside each other, and whoever    *)
(* closes the session does not ask whether they are done.  Every call of   *)
(* append is chained to the one before by #serial, and so is the close.    *)
(*                                                                         *)
(* JournalLog has what becomes of the bytes when processes die and repair  *)
(* them, with one append at a time; here nothing dies, and the question is *)
(* whether there is one append at a time.  A record is written in two      *)
(* pieces, an event known by the call that made it.                        *)
(***************************************************************************)
EXTENDS Naturals, Sequences

CONSTANT MaxAppends   \* bound: calls of append, a natural number

VARIABLES
  appends,   \* the calls, in their order: where each is, and what its event follows
  head,      \* #head: the call whose event is the last
  state,     \* #state: "open", "poisoned", "closed"
  closing,   \* close: "none", "asked" (#accepting is false), "releasing", "done"
  bytes,     \* the pieces of the file since the writer was made
  held       \* the process has the lease of the session

queueVars == <<appends, head, state, closing, bytes, held>>

Calls == DOMAIN appends
Over  == {"acked", "refused", "failed"}
Piece(k, half) == [of |-> k, half |-> half]
To(k, at) == appends' = [appends EXCEPT ![k].at = at]

Init ==
  /\ appends = << >> /\ head = 0 /\ bytes = << >>
  /\ state = "open" /\ closing = "none" /\ held = TRUE

\* Somebody calls append: it is refused at once, or comes behind the calls before.
CallAppend ==
  /\ Len(appends) < MaxAppends
  /\ LET at == IF closing # "none" \/ state # "open" THEN "refused" ELSE "waiting"
     IN  appends' = Append(appends, [at |-> at, prev |-> 0])
  /\ UNCHANGED <<head, state, closing, bytes, held>>

\* Mutant: a call does not wait for the ones before.
BeginAtOnce(k) ==
  /\ appends[k].at = "waiting"
  /\ IF state = "open"
     THEN appends' = [appends EXCEPT ![k] = [at |-> "preparing", prev |-> head]]
     ELSE To(k, "refused")
  /\ UNCHANGED <<head, state, closing, bytes, held>>

\* The calls before it are over, well or not: the event is made, to follow the head.
Begin(k) ==
  /\ appends[k].at = "waiting"
  /\ \A m \in 1..(k - 1) : appends[m].at \in Over
  /\ IF state = "open"
     THEN appends' = [appends EXCEPT ![k] = [at |-> "preparing", prev |-> head]]
     ELSE To(k, "refused")
  /\ UNCHANGED <<head, state, closing, bytes, held>>

\* The projection of the journal admits the event after a while, or refuses it.
Prepared(k) ==
  /\ appends[k].at = "preparing"
  /\ \E at \in {"writing", "refused"} : To(k, at)
  /\ UNCHANGED <<head, state, closing, bytes, held>>

Written(k) == {half \in {1, 2} : \E p \in DOMAIN bytes : bytes[p] = Piece(k, half)}

\* A call of write takes the rest of the record, or a part of it.
WriteChunk(k) ==
  /\ appends[k].at = "writing" /\ Written(k) # {1, 2}
  /\ \/ bytes' = Append(bytes, Piece(k, IF 1 \in Written(k) THEN 2 ELSE 1))
     \/ Written(k) = {} /\ bytes' = bytes \o <<Piece(k, 1), Piece(k, 2)>>
  /\ UNCHANGED <<appends, head, state, closing, held>>

\* The log is synced; the projection and the head go on, and the caller is answered.
Sync(k) ==
  /\ appends[k].at = "writing" /\ Written(k) = {1, 2}
  /\ To(k, "acked") /\ head' = k
  /\ UNCHANGED <<state, closing, bytes, held>>

\* A write or the sync fails: what is in the file is not known any more.
Fail(k) ==
  /\ appends[k].at = "writing"
  /\ To(k, "failed") /\ state' = "poisoned"
  /\ UNCHANGED <<head, closing, bytes, held>>

\* close() is called for the first time; every later call gets the same promise.
CallClose ==
  /\ closing = "none"
  /\ closing' = "asked"
  /\ UNCHANGED <<appends, head, state, bytes, held>>

\* The calls before it are over: the lease is let go, while others may still call.
Release ==
  /\ closing = "asked" /\ \A k \in Calls : appends[k].at \in Over
  /\ closing' = "releasing" /\ held' = FALSE
  /\ UNCHANGED <<appends, head, state, bytes>>

\* The lease is released, or could not be.
Closed ==
  /\ closing = "releasing"
  /\ closing' = "done" /\ state' = "closed"
  /\ UNCHANGED <<appends, head, bytes, held>>

Steps ==
  \/ \E k \in Calls : Begin(k) \/ Prepared(k) \/ WriteChunk(k) \/ Sync(k) \/ Fail(k)
  \/ Release \/ Closed

Next == Steps \/ CallAppend \/ CallClose
Spec == Init /\ [][Next]_queueVars /\ WF_queueVars(Steps)

-----------------------------------------------------------------------------
\* Every call is answered, and who closes the writer sees it closed.
Quiet ==
  /\ \A k \in Calls : appends[k].at \in Over
  /\ closing \in {"none", "done"}

\* A record of the file is whole, or the last one; it follows the record it was made to
\* follow; those the callers were told of are all there, and the head is the last of them.
FileIsAChain ==
  LET acked == {k \in Calls : appends[k].at = "acked"} IN
  /\ \A p \in DOMAIN bytes :
       LET before == IF p = 1 THEN Piece(0, 2) ELSE bytes[p - 1] IN
       IF bytes[p].half = 2 THEN before = Piece(bytes[p].of, 1)
                            ELSE before = Piece(appends[bytes[p].of].prev, 2)
  /\ \A k \in acked : Written(k) = {1, 2}
  /\ head \in acked \cup {0} /\ \A k \in acked : k <= head

\* Behind the head there is at most one record, of the one call that writes or has failed.
OneBehindTheHead ==
  \A k \in Calls : Written(k) # {} /\ appends[k].at # "acked" =>
    /\ k > head /\ appends[k].at \in {"writing", "failed"}
    /\ appends[k].at = "failed" => state # "open"

\* Nobody writes without the lease, or to a writer that is closed.
WritesUnderLease ==
  held \/ \A k \in Calls : appends[k].at \in Over

\* What is appended through one writer, by whoever calls it and while it is being closed,
\* is one chain in the file: no event is made to follow one that another call is about to
\* follow too, nothing is put behind bytes whose fate is not known, and the lease is let
\* go when no call is under way (writer.ts:87-164).
AppendsAreChained == FileIsAChain /\ OneBehindTheHead /\ WritesUnderLease
=============================================================================
