------------------------------ MODULE KeyInput ------------------------------
(***************************************************************************)
(* From the bytes of the terminal to keys and pastes: the splitting of     *)
(* chunks into sequences (src/src/tui/stdin-buffer.ts) and the negotiation *)
(* of the keyboard protocol with the terminal (src/src/tui/terminal.ts).   *)
(*                                                                         *)
(* The user and the terminal produce units; their characters arrive in     *)
(* chunks that are cut anywhere, and timers run out between chunks.        *)
(* Numbers in sequences are one character long: E is the escape, E[0~ and  *)
(* E[1~ stand for the start and the end of a bracketed paste, E[7u is the  *)
(* sequence of the key x, and a mouse sequence has one number.             *)
(***************************************************************************)
EXTENDS Integers, Sequences

CONSTANTS
  Units,     \* what is pressed, pasted or answered: a subset of AllUnits
  MaxUnits,  \* bound: units
  Restarts,  \* bound: how often the screen is given away and taken back
  None

AllUnits == {"x", "up", "home", "escape", "altBracket", "mouse", "version", "paste",
             "kitty", "legacy", "attributes", "doubled"}

\* What an instance assumes of the constants.
KeyInputAssumption ==
  /\ Units \subseteq AllUnits /\ MaxUnits \in Nat \ {0} /\ Restarts \in Nat

VARIABLES
  units,     \* what was produced
  rest,      \* its characters that have not arrived
  t,         \* the terminal and its buffer
  late,      \* a timer ran out
  restarts

vars == <<units, rest, t, late, restarts>>

PasteStart == <<"E", "[", "0", "~">>
PasteEnd   == <<"E", "[", "1", "~">>

\* The characters of a unit, and the events it should become.
Chars(unit) ==
  CASE unit = "x"          -> <<"x">>
    [] unit = "up"         -> <<"E", "[", "A">>
    [] unit = "home"       -> <<"E", "O", "A">>
    [] unit = "escape"     -> <<"E">>
    [] unit = "altBracket" -> <<"E", "[">>
    [] unit = "mouse"      -> <<"E", "[", "<", "3", "M">>
    [] unit = "version"    -> <<"E", "P", "x", "E", "\\">>
    [] unit = "paste"      -> PasteStart \o <<"x">> \o PasteEnd
    [] unit = "kitty"      -> <<"E", "[", "?", "3", "u">>
    [] unit = "legacy"     -> <<"E", "[", "?", "0", "u">>
    [] unit = "attributes" -> <<"E", "[", "?", "3", "c">>
    [] unit = "doubled"    -> <<"E", "[", "7", "u", "x">>

Event(kind, chars) == [kind |-> kind, chars |-> chars]

Events(unit) ==
  CASE unit = "paste" -> <<Event("paste", <<"x">>)>>
    [] unit \in {"kitty", "legacy", "attributes"} -> <<Event("reply", Chars(unit))>>
    [] unit = "doubled" -> <<Event("key", <<"E", "[", "7", "u">>), Event("double", <<"x">>)>>
    [] OTHER -> <<Event("key", Chars(unit))>>

-----------------------------------------------------------------------------
(* Sequences. *)

StartsWith(s, head) == Len(s) >= Len(head) /\ SubSeq(s, 1, Len(head)) = head
EndsIn(s, tail)     == Len(s) >= Len(tail) /\ SubSeq(s, Len(s) - Len(tail) + 1, Len(s)) = tail
Digit(ch)           == ch \in {"0", "1", "3", "7"}
Final(ch)           == ch \in {"A", "M", "u", "c", "x", "P", "O", "~", "[", "]", "\\"}

\* isCompleteCsiSequence; a mouse sequence ends at its own last character.
CompleteCsi(s) ==
  /\ Len(s) >= 3 /\ Final(s[Len(s)])
  /\ s[3] = "<" => Len(s) = 5 /\ Digit(s[4]) /\ s[5] = "M"

\* isCompleteSequence.
Complete(s) ==
  /\ Len(s) # 1
  /\ IF StartsWith(s, <<"E", "[", "M">>) THEN Len(s) >= 6
     ELSE CASE s[2] = "[" -> CompleteCsi(s)
            [] s[2] = "P" -> EndsIn(s, <<"E", "\\">>)
            [] s[2] = "O" -> Len(s) >= 3
            [] OTHER      -> TRUE

\* The number of characters of the sequence at the start of s, which begins
\* with an escape; 0 when it is not complete.  An escape before a sequence
\* is a key of its own.
SequenceLength(s) ==
  LET ends == {n \in 1..Len(s) : Complete(SubSeq(s, 1, n))}
      n    == CHOOSE n \in ends : \A m \in ends : n <= m
  IN IF ends = {} THEN 0
     ELSE IF /\ SubSeq(s, 1, n) = <<"E", "E">> /\ Len(s) > 2
             /\ s[3] \in {"[", "]", "O", "P", "_"}
     THEN 1 ELSE n

RECURSIVE Extract(_)
\* extractCompleteSequences: the sequences and what remains.
Extract(s) ==
  IF s = << >> THEN [sequences |-> << >>, remainder |-> << >>]
  ELSE LET n == IF s[1] = "E" THEN SequenceLength(s) ELSE 1 IN
       IF n = 0 THEN [sequences |-> << >>, remainder |-> s]
       ELSE LET more == Extract(SubSeq(s, n + 1, Len(s))) IN
            [more EXCEPT !.sequences = <<SubSeq(s, 1, n)>> \o @]

\* indexOf, or -1.
IndexOf(s, part) ==
  LET places == {i \in 0..(Len(s) - Len(part)) : SubSeq(s, i + 1, i + Len(part)) = part} IN
  IF places = {} THEN -1 ELSE CHOOSE i \in places : \A k \in places : i <= k

From(s, n) == SubSeq(s, n + 1, Len(s))

-----------------------------------------------------------------------------
(* The terminal. *)

\* The state of a terminal that was started: the query was written, which
\* pushes the flags of the Kitty protocol.
Started ==
  [buffer |-> << >>, timer |-> FALSE, paste |-> None, double |-> None,
   reply |-> << >>, replyTimer |-> FALSE,
   kitty |-> FALSE, other |-> FALSE, pushed |-> TRUE, stack |-> 1,
   log |-> << >>, on |-> TRUE]

Log(x, kind, chars) == [x EXCEPT !.log = Append(@, Event(kind, chars))]

\* forwardInputSequence.
Forward(x, chars) == Log(x, "key", chars)

\* parseKeyboardProtocolNegotiationSequence.
IsFlags(s)      == Len(s) = 5 /\ StartsWith(s, <<"E", "[", "?">>) /\ Digit(s[4]) /\ s[5] = "u"
IsAttributes(s) == StartsWith(s, <<"E", "[", "?">>) /\ s[Len(s)] = "c"
                   /\ \A i \in 4..(Len(s) - 1) : Digit(s[i])
IsReply(s)      == IsFlags(s) \/ IsAttributes(s)

\* isKeyboardProtocolNegotiationSequencePrefix.
IsReplyPrefix(s) ==
  s = <<"E", "[">> \/ (StartsWith(s, <<"E", "[", "?">>) /\ \A i \in 4..Len(s) : Digit(s[i]))

\* enableModifyOtherKeys.
EnableOther(x) == IF x.kitty THEN x ELSE [x EXCEPT !.other = TRUE]

\* handleKeyboardProtocolNegotiationSequence.
HandledReply(x, s) ==
  LET y == Log([x EXCEPT !.reply = << >>, !.replyTimer = FALSE], "reply", s) IN
  IF IsFlags(s) /\ s[4] # "0" THEN [y EXCEPT !.other = FALSE, !.kitty = TRUE] ELSE EnableOther(y)

\* A reply may come in parts: they are held back for 150 ms.
Held(x, s) == [x EXCEPT !.reply = s, !.replyTimer = TRUE]

\* flushKeyboardProtocolNegotiationBufferAsInput.
FlushedReply(x) ==
  IF x.reply = << >> THEN x ELSE Forward([x EXCEPT !.reply = << >>, !.replyTimer = FALSE], x.reply)

\* readKeyboardProtocolNegotiationSequence and the handler of "data".
Data(x, s) ==
  LET joined == x.reply \o s IN
  IF x.reply # << >> /\ IsReply(joined) THEN HandledReply(x, joined)
  ELSE IF x.reply # << >> /\ IsReplyPrefix(joined) THEN Held(x, joined)
  ELSE LET y == FlushedReply(x) IN
       IF IsReply(s) THEN HandledReply(y, s)
       ELSE IF IsReplyPrefix(s) THEN Held(y, s)
       ELSE Forward(y, s)

\* parseUnmodifiedKittyPrintableCodepoint.
PrintableOf(s) == IF s = <<"E", "[", "7", "u">> THEN "x" ELSE None

\* emitDataSequence: a character that only repeats the sequence before it
\* is swallowed.
Emit(x, s) ==
  IF Len(s) = 1 /\ s[1] = x.double THEN Log([x EXCEPT !.double = None], "double", s)
  ELSE Data([x EXCEPT !.double = PrintableOf(s)], s)

EmitAll(x, sequences) ==
  LET after[i \in 0..Len(sequences)] == IF i = 0 THEN x ELSE Emit(after[i - 1], sequences[i]) IN
  after[Len(sequences)]

RECURSIVE Process(_, _)

\* Mutant: what follows the end of the paste is dropped.
PastedLost(x) ==
  LET end == IndexOf(x.paste, PasteEnd) IN
  IF end = -1 THEN x
  ELSE Log([x EXCEPT !.paste = None, !.double = None], "paste", SubSeq(x.paste, 1, end))

\* A paste of which the end has come is reported, and what follows it is
\* processed.
Pasted(x) ==
  LET end   == IndexOf(x.paste, PasteEnd)
      after == From(x.paste, end + Len(PasteEnd))
      y     == Log([x EXCEPT !.paste = None, !.double = None], "paste", SubSeq(x.paste, 1, end))
  IN IF end = -1 THEN x ELSE IF after # << >> THEN Process(y, after) ELSE y

\* StdinBuffer.process.
Process(x, chunk) ==
  LET all   == x.buffer \o chunk
      y     == [x EXCEPT !.timer = FALSE, !.buffer = << >>]
      start == IndexOf(all, PasteStart)
      found == Extract(all)
  IN IF x.paste # None THEN Pasted([y EXCEPT !.paste = @ \o all])
     ELSE IF start # -1
     THEN Pasted([EmitAll(y, Extract(SubSeq(all, 1, start)).sequences) EXCEPT
                    !.double = None, !.paste = From(all, start + Len(PasteStart))])
     ELSE EmitAll([y EXCEPT !.buffer = found.remainder, !.timer = found.remainder # << >>],
                  found.sequences)

\* The timer of 10 ms: what is buffered is passed on as it is.
Flushed(x) == Emit([x EXCEPT !.timer = FALSE, !.buffer = << >>, !.double = None], x.buffer)

\* stop.
Stopped(x) ==
  [Started EXCEPT !.log = x.log, !.on = FALSE, !.pushed = FALSE,
                  !.stack = IF x.pushed \/ x.kitty THEN x.stack - 1 ELSE x.stack]

-----------------------------------------------------------------------------
Init ==
  /\ units = << >> /\ rest = << >> /\ t = Started /\ late = FALSE /\ restarts = 0

Produce(unit) ==
  /\ Len(units) < MaxUnits /\ t.on
  /\ units' = Append(units, unit) /\ rest' = rest \o Chars(unit)
  /\ UNCHANGED <<t, late, restarts>>

\* A chunk arrives.
Arrive(n) ==
  /\ t.on /\ n <= Len(rest)
  /\ t' = Process(t, SubSeq(rest, 1, n)) /\ rest' = From(rest, n)
  /\ UNCHANGED <<units, late, restarts>>

FlushTimer ==
  /\ t.on /\ t.timer
  /\ t' = Flushed(t) /\ late' = TRUE
  /\ UNCHANGED <<units, rest, restarts>>

ReplyTimer ==
  /\ t.on /\ t.replyTimer
  /\ t' = FlushedReply(t) /\ late' = TRUE
  /\ UNCHANGED <<units, rest, restarts>>

\* The screen is given away, with nothing on its way, and taken back.
Stop ==
  /\ t.on /\ restarts < Restarts /\ rest = << >>
  /\ t.buffer = << >> /\ t.reply = << >> /\ t.paste = None
  /\ t' = Stopped(t) /\ restarts' = restarts + 1
  /\ UNCHANGED <<units, rest, late>>

Start ==
  /\ ~t.on
  /\ t' = [Started EXCEPT !.log = t.log, !.stack = t.stack + 1]
  /\ UNCHANGED <<units, rest, late, restarts>>

Done == Len(units) = MaxUnits /\ rest = << >> /\ ~t.timer /\ ~t.replyTimer /\ UNCHANGED vars

MaxChunk == 10

Next ==
  \/ \E unit \in Units : Produce(unit)
  \/ \E n \in 1..MaxChunk : Arrive(n)
  \/ FlushTimer \/ ReplyTimer \/ Stop \/ Start \/ Done

Spec == Init /\ [][Next]_vars

\* Characters arrive and timers run out.
FairSpec ==
  Spec /\ WF_vars(\E n \in 1..MaxChunk : Arrive(n)) /\ WF_vars(FlushTimer) /\ WF_vars(ReplyTimer)

-----------------------------------------------------------------------------
TypeOK ==
  /\ units \in Seq(Units) /\ Len(units) <= MaxUnits
  /\ t.timer = (t.buffer # << >>)
  /\ t.replyTimer = (t.reply # << >>)
  /\ t.paste # None => t.buffer = << >>
  /\ t.double \in {None, "x"}

FlatEvents(log) ==
  LET flat[i \in 0..Len(log)] ==
        IF i = 0 THEN << >>
        ELSE flat[i - 1] \o (IF log[i].kind = "paste" THEN PasteStart \o log[i].chars \o PasteEnd
                             ELSE log[i].chars)
  IN flat[Len(log)]

FlatUnits(list) ==
  LET flat[i \in 0..Len(list)] == IF i = 0 THEN << >> ELSE flat[i - 1] \o Chars(list[i])
  IN flat[Len(list)]

FlatExpected(list) ==
  LET flat[i \in 0..Len(list)] == IF i = 0 THEN << >> ELSE flat[i - 1] \o Events(list[i])
  IN flat[Len(list)]

\* Nothing is lost, doubled or put in another order, however the characters
\* are cut into chunks and whichever timers run out: what was passed on,
\* what is held back and what is to come are what was produced.
NothingIsLost ==
  FlatEvents(t.log) \o t.reply \o t.buffer
    \o (IF t.paste = None THEN << >> ELSE PasteStart \o t.paste) \o rest
  = FlatUnits(units)

\* As long as the chunks follow each other before a timer runs out, every
\* key, reply and paste is passed on as one, wherever the chunks are cut.
UnitsAreWhole ==
  ~late /\ rest = << >> /\ t.buffer = << >> /\ t.reply = << >> /\ t.paste = None =>
    t.log = FlatExpected(units)

\* The two ways of reporting modified keys are never on together, and what
\* was asked of the terminal is taken back when the screen is given away.
ModesAreTakenBack ==
  /\ ~(t.kitty /\ t.other)
  /\ ~t.on => t.stack = 0 /\ ~t.kitty /\ ~t.other

=============================================================================
