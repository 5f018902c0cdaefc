---------------------------- MODULE ResponseStream ----------------------------
(***************************************************************************)
(* The parser of one streamed answer of the model (ds/sse.ts): lines out of *)
(* the chunks of the network, each line a piece of the answer, staged until *)
(* the unique usage record and the terminal [DONE] have come.  Every piece  *)
(* is announced to a hook, and staged only when the hook has answered; the  *)
(* hook may fail.                                                           *)
(*                                                                         *)
(* A line of the body is a record of what JSON.parse finds in it, or a kind *)
(* that stands for all that is malformed.  On the wire it is two halves and *)
(* an ending, so that a chunk may cut it anywhere.                          *)
(***************************************************************************)
EXTENDS Naturals, Sequences, FiniteSets

CONSTANTS
  None,         \* an absent field, undefined
  Lines,        \* the lines a body may have
  Endings,      \* how they may end
  Cuts,         \* sizes of chunks, besides all there is
  Indexes,      \* indexes of tool calls
  IdLimit,      \* MAX_TOOL_CALL_ID_UTF8_BYTES
  MaxLines      \* bound: lines of a body

LF == [half |-> 0, of |-> [kind |-> "LF"]]
CR == [half |-> 0, of |-> [kind |-> "CR"]]

\* What an instance assumes of the constants.
EndingAssumption == Endings \subseteq {<<LF>>, <<CR, LF>>}
BoundAssumption == Indexes \subseteq Nat /\ IdLimit \in Nat /\ MaxLines \in Nat

VARIABLES
  lines,       \* the lines served
  wire,        \* what of them has not arrived
  closed,      \* the body is over
  chunk,       \* the rest of the chunk the parser works on
  parts,       \* lineParts
  todo,        \* the fields of the current line it has still to read
  line,        \* the current line
  hook,        \* the hook it waits for: "none" or what it was told
  p,           \* the staged response
  told,        \* what the hook was told and has acknowledged
  status       \* "reading", "completed", "refused", "hook_failed"

vars == <<lines, wire, closed, chunk, parts, todo, line, hook, p, told, status>>

NoCall == [id |-> None, type |-> FALSE, name |-> None, args |-> None]
Empty == [identity |-> None, content |-> << >>, reasoning |-> << >>, reasoned |-> FALSE,
          finish |-> None, usage |-> None, count |-> 0, done |-> FALSE,
          calls |-> [i \in {} |-> NoCall]]

Init ==
  /\ lines = << >> /\ wire = << >> /\ closed = FALSE
  /\ chunk = << >> /\ parts = << >> /\ todo = << >> /\ line = None
  /\ hook = None /\ p = Empty /\ told = << >>
  /\ status = "reading"

-----------------------------------------------------------------------------
(* The server and the network. *)

OnWire(l, ending) ==
  (IF l.kind = "blank" THEN << >> ELSE <<[half |-> 1, of |-> l], [half |-> 2, of |-> l]>>)
    \o ending

\* Another line.  Only the last one may lack its ending.
Serve(l, ending) ==
  /\ status = "reading" /\ ~ closed /\ Len(lines) < MaxLines
  /\ Len(wire) <= 2   \* bound: the network is not behind by more than a line
  /\ lines' = Append(lines, l)
  /\ wire' = wire \o OnWire(l, ending)
  /\ closed' = (ending = << >>)
  /\ UNCHANGED <<chunk, parts, todo, line, hook, p, told, status>>

Close ==
  /\ status = "reading" /\ ~ closed
  /\ closed' = TRUE
  /\ UNCHANGED <<lines, wire, chunk, parts, todo, line, hook, p, told, status>>

Idle == status = "reading" /\ chunk = << >> /\ todo = << >> /\ hook = None

\* A chunk comes when the parser asks for one.
Arrive(n) ==
  /\ Idle /\ n \in 1..Len(wire) /\ n \in Cuts \cup {Len(wire)}
  /\ chunk' = SubSeq(wire, 1, n)
  /\ wire' = SubSeq(wire, n + 1, Len(wire))
  /\ UNCHANGED <<lines, closed, parts, todo, line, hook, p, told, status>>

-----------------------------------------------------------------------------
(* Lines. *)

Upto(s, x) == IF \E i \in 1..Len(s) : s[i] = x
              THEN CHOOSE i \in 1..Len(s) : s[i] = x /\ \A k \in 1..(i - 1) : s[k] # x
              ELSE 0

\* joinLine and decodeLine: the line without a carriage return at its end.
Joined(bytes) ==
  LET text == IF bytes # << >> /\ bytes[Len(bytes)] = CR
              THEN SubSeq(bytes, 1, Len(bytes) - 1) ELSE bytes
  IN  CASE text = << >> -> [kind |-> "blank"]
        [] Len(text) = 2 /\ text[1].of = text[2].of /\ text[1].half = 1 -> text[1].of
        [] OTHER -> [kind |-> "malformed"]

Choice(l) == l.choices[1]
HasFinish(l) == l.choices # << >> /\ Choice(l).finish # None

\* What parseLine, parseData and bindIdentity refuse before a field is read.
Refused(l) ==
  \/ l.kind = "malformed"
  \/ l.kind = "done" /\ (p.done \/ p.finish = None \/ p.usage = None)
  \/ /\ l.kind = "data"
     /\ \/ p.done
        \/ p.identity \notin {None, l.identity}
        \/ l.usage # None /\ (p.usage # None \/ Len(l.choices) > 1)
        \/ l.usage # None /\ l.choices # << >> /\ ~ HasFinish(l)
        \/ l.usage = None /\ Len(l.choices) # 1
        \/ l.choices # << >> /\ p.finish # None

Fields(l) ==
  (IF l.choices # << >> THEN <<"reasoning", "content", "tools", "finish">> ELSE << >>)
    \o (IF l.usage # None THEN <<"usage">> ELSE << >>)

Parse(l) ==
  \/ Refused(l) /\ status' = "refused" /\ UNCHANGED <<p, todo, line>>
  \/ /\ ~ Refused(l)
     /\ CASE l.kind = "done" -> p' = [p EXCEPT !.done = TRUE] /\ UNCHANGED <<todo, line>>
          [] l.kind = "data" -> /\ p' = [p EXCEPT !.identity = l.identity]
                                /\ todo' = Fields(l) /\ line' = l
          [] OTHER -> UNCHANGED <<p, todo, line>>
     /\ UNCHANGED status

ParseLine ==
  /\ status = "reading" /\ todo = << >> /\ chunk # << >> /\ Upto(chunk, LF) # 0
  /\ Parse(Joined(parts \o SubSeq(chunk, 1, Upto(chunk, LF) - 1)))
  /\ chunk' = SubSeq(chunk, Upto(chunk, LF) + 1, Len(chunk)) /\ parts' = << >>
  /\ UNCHANGED <<lines, wire, closed, hook, told>>

\* The rest of a chunk waits for the next one.
KeepPart ==
  /\ status = "reading" /\ todo = << >> /\ chunk # << >> /\ Upto(chunk, LF) = 0
  /\ parts' = parts \o chunk /\ chunk' = << >>
  /\ UNCHANGED <<lines, wire, closed, todo, line, hook, p, told, status>>

\* A last line without an ending.
ParseRest ==
  /\ Idle /\ closed /\ wire = << >> /\ parts # << >>
  /\ Parse(Joined(parts)) /\ parts' = << >>
  /\ UNCHANGED <<lines, wire, closed, chunk, hook, told>>

-----------------------------------------------------------------------------
(* Fields. *)

Reading(field) == status = "reading" /\ hook = None /\ todo # << >> /\ Head(todo) = field
Done == todo' = Tail(todo)

Fragments == Choice(line).tools

\* parseToolCallDeltas: an id may come in parts, but not grow too long.
IdLength(i) == IF i \in DOMAIN p.calls /\ p.calls[i].id # None THEN Len(p.calls[i].id) ELSE 0
IdTooLong ==
  \E k \in 1..Len(Fragments) : LET f == Fragments[k] IN
    f.id # None /\ IdLength(f.index) + Len(f.id) > IdLimit

ToolsRefused ==
  \/ \E i, k \in 1..Len(Fragments) : i # k /\ Fragments[i].index = Fragments[k].index
  \/ IdTooLong

Text(field) == IF field = "reasoning" THEN Choice(line).reasoning ELSE Choice(line).content

\* What a field has to announce: an empty text, or none, is not announced.
Announces(field) ==
  IF field = "tools" THEN Fragments # << >> ELSE Text(field) \notin {None, << >>}

Joint(a, b) == IF b = None THEN a ELSE IF a = None THEN b ELSE a \o b

\* Mutant: the last part of the arguments stands for all of them.
WithLastPart(calls, f) ==
  LET c == IF f.index \in DOMAIN calls THEN calls[f.index] ELSE NoCall
      more == [id |-> Joint(c.id, f.id), type |-> c.type \/ f.type,
               name |-> Joint(c.name, f.name), args |-> IF f.args = None THEN c.args ELSE f.args]
  IN  [i \in DOMAIN calls \cup {f.index} |-> IF i = f.index THEN more ELSE calls[i]]

WithCall(calls, f) ==
  LET c == IF f.index \in DOMAIN calls THEN calls[f.index] ELSE NoCall
      more == [id |-> Joint(c.id, f.id), type |-> c.type \/ f.type,
               name |-> Joint(c.name, f.name), args |-> Joint(c.args, f.args)]
  IN  [i \in DOMAIN calls \cup {f.index} |-> IF i = f.index THEN more ELSE calls[i]]

WithCalls(calls) ==
  LET After[i \in 0..Len(Fragments)] ==
        IF i = 0 THEN calls ELSE WithCall(After[i - 1], Fragments[i])
  IN  After[Len(Fragments)]

\* p with the field in it.
Staged(field) ==
  CASE field = "tools" -> [p EXCEPT !.calls = WithCalls(@)]
    [] field = "reasoning" /\ Text(field) # None ->
         [p EXCEPT !.reasoning = @ \o Text(field), !.reasoned = TRUE]
    [] field = "content" /\ Text(field) # None -> [p EXCEPT !.content = @ \o Text(field)]
    [] OTHER -> p

SemanticFields == {"reasoning", "content", "tools"}

\* emitSemantic is called.
Announce ==
  \E field \in SemanticFields :
    /\ Reading(field)
    /\ ~ (field = "tools" /\ ToolsRefused) /\ Announces(field)
    /\ hook' = field
    /\ UNCHANGED <<lines, wire, closed, chunk, parts, todo, line, p, told, status>>

Quiet ==
  \E field \in SemanticFields :
    /\ Reading(field) /\ ~ Announces(field)
    /\ p' = Staged(field) /\ Done
    /\ UNCHANGED <<lines, wire, closed, chunk, parts, line, hook, told, status>>

RefuseTools ==
  /\ Reading("tools") /\ ToolsRefused
  /\ status' = "refused"
  /\ UNCHANGED <<lines, wire, closed, chunk, parts, todo, line, hook, p, told>>

Fragment(field) ==
  IF field = "tools" THEN [kind |-> "tools", what |-> Fragments]
  ELSE [kind |-> field, what |-> Text(field)]

HookAnswers ==
  /\ status = "reading" /\ hook # None
  /\ told' = Append(told, Fragment(hook))
  /\ p' = [Staged(hook) EXCEPT !.count = @ + 1]
  /\ hook' = None /\ Done
  /\ UNCHANGED <<lines, wire, closed, chunk, parts, line, status>>

HookFails ==
  /\ status = "reading" /\ hook # None
  /\ hook' = None /\ status' = "hook_failed"
  /\ UNCHANGED <<lines, wire, closed, chunk, parts, todo, line, p, told>>

Finish ==
  /\ Reading("finish")
  /\ p' = [p EXCEPT !.finish = Choice(line).finish] /\ Done
  /\ UNCHANGED <<lines, wire, closed, chunk, parts, line, hook, told, status>>

\* parseUsage: counts that do not add up are refused.
Usage ==
  /\ Reading("usage")
  /\ IF p.finish = None \/ line.usage = "inconsistent"
     THEN status' = "refused" /\ UNCHANGED <<p, todo>>
     ELSE p' = [p EXCEPT !.usage = line.usage] /\ Done /\ UNCHANGED status
  /\ UNCHANGED <<lines, wire, closed, chunk, parts, line, hook, told>>

-----------------------------------------------------------------------------
(* The end of the body. *)

CompleteCall(c) == c.id \notin {None, << >>} /\ c.type /\ c.name \notin {None, << >>} /\ c.args # None

EndAccepted ==
  /\ p.done
  /\ DOMAIN p.calls = {i \in Indexes : i < Cardinality(DOMAIN p.calls)}
  /\ \A i \in DOMAIN p.calls : CompleteCall(p.calls[i])
  /\ DOMAIN p.calls # {} => p.reasoned

EndOfBody ==
  /\ Idle /\ closed /\ wire = << >> /\ parts = << >>
  /\ status' = IF EndAccepted THEN "completed" ELSE "refused"
  /\ UNCHANGED <<lines, wire, closed, chunk, parts, todo, line, hook, p, told>>

ParserStep ==
  \/ ParseLine \/ KeepPart \/ ParseRest \/ Announce \/ Quiet \/ RefuseTools
  \/ HookAnswers \/ Finish \/ Usage \/ EndOfBody

Next ==
  \/ \E l \in Lines, ending \in Endings \cup {<< >>} : Serve(l, ending)
  \/ Close
  \/ \E n \in 1..Len(wire) : Arrive(n)
  \/ ParserStep \/ HookFails

Spec == Init /\ [][Next]_vars

-----------------------------------------------------------------------------
(* The body as a whole. *)

Data == SelectSeq(lines, LAMBDA l : l.kind \in {"data", "done"})
Before(k) == {Data[i] : i \in 1..(k - 1)}
Ends(l) == l.kind = "data" /\ HasFinish(l)

\* The k-th line may stand where it stands.
InPlace(k) ==
  LET l == Data[k] IN
    /\ \A b \in Before(k) : b.kind # "done"
    /\ l.kind = "done" => /\ \E b \in Before(k) : Ends(b)
                          /\ \E b \in Before(k) : b.usage # None
    /\ l.kind = "data" =>
         /\ \A b \in Before(k) : b.identity = l.identity
         /\ l.choices # << >> => \A b \in Before(k) : ~ Ends(b)
         /\ IF l.usage = None THEN Len(l.choices) = 1
            ELSE /\ l.usage = "consistent"
                 /\ Len(l.choices) <= 1 /\ \A b \in Before(k) : b.usage = None
                 /\ Ends(l) \/ (l.choices = << >> /\ \E b \in Before(k) : Ends(b))

Deltas == SelectSeq(Data, LAMBDA l : l.kind = "data" /\ l.choices # << >>)

\* What the deltas say one after the other.
Said(Of(_), from) ==
  LET F[i \in 0..Len(Deltas)] ==
        IF i = 0 THEN from
        ELSE IF Of(Deltas[i]) = None THEN F[i - 1]
        ELSE IF F[i - 1] = None THEN Of(Deltas[i]) ELSE F[i - 1] \o Of(Deltas[i])
  IN  F[Len(Deltas)]

FragmentsOf(l, index) == {f \in {Choice(l).tools[i] : i \in 1..Len(Choice(l).tools)} : f.index = index}
OfCall(l, index, Field(_)) ==
  IF FragmentsOf(l, index) = {} THEN None ELSE Field(CHOOSE f \in FragmentsOf(l, index) : TRUE)

Called == {i \in Indexes : \E k \in 1..Len(Deltas) : FragmentsOf(Deltas[k], i) # {}}
TheCall(i) ==
  [id   |-> Said(LAMBDA l : OfCall(l, i, LAMBDA f : f.id), None),
   type |-> \E k \in 1..Len(Deltas) : \E f \in FragmentsOf(Deltas[k], i) : f.type,
   name |-> Said(LAMBDA l : OfCall(l, i, LAMBDA f : f.name), None),
   args |-> Said(LAMBDA l : OfCall(l, i, LAMBDA f : f.args), None)]

ToolsInPlace ==
  /\ \A k \in 1..Len(Deltas) : \A i \in Indexes : Cardinality(FragmentsOf(Deltas[k], i)) <= 1
  /\ \A k \in 1..Len(Deltas) : Cardinality({Choice(Deltas[k]).tools[i].index :
                                 i \in 1..Len(Choice(Deltas[k]).tools)}) = Len(Choice(Deltas[k]).tools)
  /\ \A i \in Called : TheCall(i).id # None => Len(TheCall(i).id) <= IdLimit

Viable == (\A l \in {lines[i] : i \in 1..Len(lines)} : l.kind # "malformed")
          /\ (\A k \in 1..Len(Data) : InPlace(k)) /\ ToolsInPlace

Complete ==
  /\ Viable /\ Data # << >> /\ Data[Len(Data)].kind = "done"
  /\ Called = {i \in Indexes : i < Cardinality(Called)}
  /\ \A i \in Called : CompleteCall(TheCall(i))
  /\ Called # {} => \E k \in 1..Len(Deltas) : Choice(Deltas[k]).reasoning # None

-----------------------------------------------------------------------------
\* Types; the parser waits for one hook at most, and for none once it is done.
TypeOK ==
  /\ lines \in Seq(Lines) /\ closed \in BOOLEAN
  /\ status \in {"reading", "completed", "refused", "hook_failed"}
  /\ hook \in SemanticFields \cup {None} /\ (hook # None => status = "reading" /\ Head(todo) = hook)
  /\ p.count = Len(told) /\ DOMAIN p.calls \subseteq Indexes
  /\ p.done \in BOOLEAN /\ p.reasoned \in BOOLEAN

\* A body is taken for an answer exactly when it is one as a whole, wherever
\* the network cut it.
OnlyAnswersAreAccepted == status = "completed" => Complete
OnlyFaultsAreRefused   == status = "refused" => ~ (IF closed THEN Complete ELSE Viable)

\* The response holds the deltas in their order, and the right call has each
\* part of its id, name and arguments.
ResponseIsWhatWasSaid ==
  status = "completed" =>
    /\ p.content = Said(LAMBDA l : Choice(l).content, << >>)
    /\ p.reasoning = Said(LAMBDA l : Choice(l).reasoning, << >>)
    /\ DOMAIN p.calls = Called /\ \A i \in Called : p.calls[i] = TheCall(i)

\* No text is staged of which the hook has not been told and has not answered.
TextOf(kind) ==
  LET F[i \in 0..Len(told)] ==
        IF i = 0 THEN << >> ELSE IF told[i].kind = kind THEN F[i - 1] \o told[i].what ELSE F[i - 1]
  IN  F[Len(told)]
StagedWasAcknowledged ==
  /\ p.content = TextOf("content") /\ p.reasoning = TextOf("reasoning")
  /\ DOMAIN p.calls = UNION {{told[i].what[k].index : k \in 1..Len(told[i].what)} :
                             i \in {n \in 1..Len(told) : told[n].kind = "tools"}}
=============================================================================
