------------------------------- MODULE BashRun -------------------------------
(***************************************************************************)
(* One command of the bash tool: proc/index.ts starts it in a process group *)
(* of its own, captures its output, stops it for one of several reasons and *)
(* reports how it ended; tool/runtime.ts classifies the report.             *)
(*                                                                         *)
(* Callbacks of Node (data, end, error, exit, abort, timers) run one at a   *)
(* time, in any order that the processes allow.  Time is left out: a bounded*)
(* wait may end at any moment.  A byte of output is the stream it came from.*)
(***************************************************************************)
EXTENDS Naturals, Sequences, FiniteSets

CONSTANTS
  Descendants,   \* processes that the direct child may come to have
  Stuck,         \* processes that no signal ends
  HardLimit,     \* RAW_TOOL_OUTPUT_HARD_LIMIT_BYTES
  Coalesce,      \* OUTPUT_COALESCE_BYTES
  MaxChunk, MaxChunks,     \* bounds: bytes of a data event, data events
  ExitKinds      \* how the direct child may end: see Ends

Child   == "child"
Procs   == Descendants \cup {Child}
OutputStreams == {"stdout", "stderr"}

\* A code of 0, one of 1..255, a signal that is known, and a terminal that is none.
Ends == {"zero", "nonzero", "signal", "unknown"}

\* What an instance assumes of the constants.
ProcessAssumption == Child \notin Descendants /\ Stuck \subseteq Procs
CaptureAssumption ==
  HardLimit \in Nat \ {0} /\ Coalesce \in Nat \ {0} /\ ExitKinds \subseteq Ends

VARIABLES
  group, escaped,   \* living processes in the group, and out of it
  holders,          \* the processes that hold the write ends of the pipes
  unborn,           \* descendants still to be started
  exit,             \* how the child ended, "none" while it runs
  observed,         \* the exit event has come
  eof,              \* streams whose end event has come
  pc,               \* runNativeBash
  armed,            \* the time limit runs and the abort signal is listened to
  reason, stop,     \* reason and stopRequested
  terminal,         \* the terminal as runNativeBash has it, "none" if undefined
  absence, ends,    \* the two bounded observations of the cleanup
  termed, killed,   \* history: SIGTERM, SIGKILL were sent
  outrun,           \* history: the first signal was sent before the child's end was seen
  records, pending, limited,   \* the capture
  came, chunks,     \* history: the bytes of all data events; how many events
  result            \* what is returned, or thrown

procs   == <<group, escaped, holders, unborn, exit>>
capture == <<records, pending, limited, came, chunks>>
cleanup == <<absence, ends, termed, killed, outrun>>
vars == <<group, escaped, holders, unborn, exit, observed, eof, pc, armed, reason, stop,
          terminal, absence, ends, termed, killed, outrun, records, pending, limited,
          came, chunks, result>>

NoResult == [kind |-> "none"]
Empty    == [stream |-> "none", bytes |-> 0]

Init ==
  /\ group = {} /\ escaped = {} /\ holders = {} /\ unborn = Descendants
  /\ exit = "none" /\ observed = FALSE /\ eof = {}
  /\ pc = "spawning" /\ armed = TRUE /\ reason = "none" /\ stop = FALSE
  /\ terminal = "none" /\ absence = "waiting" /\ ends = "waiting"
  /\ termed = FALSE /\ killed = FALSE /\ outrun = FALSE
  /\ records = << >> /\ pending = Empty /\ limited = FALSE /\ came = << >> /\ chunks = 0
  /\ result = NoResult

Over == pc \in {"returned", "thrown"}

-----------------------------------------------------------------------------
(* Reasons to stop. *)

\* Mutant: the last reason wins.
RequestStopLast(next) ==
  /\ reason' = IF observed /\ next # "io_error" /\ next # "output_limit" THEN reason ELSE next
  /\ stop' = TRUE

\* requestStop: the first reason wins, the output limit over every other, and
\* once the child has ended only a failure of its streams counts.
RequestStop(next) ==
  IF next = "output_limit" THEN reason' = next /\ stop' = TRUE
  ELSE IF reason # "none" \/ (observed /\ next # "io_error") THEN UNCHANGED <<reason, stop>>
  ELSE reason' = next /\ stop' = TRUE

Timeout ==
  /\ armed /\ ~ Over /\ RequestStop("timeout")
  /\ UNCHANGED <<procs, observed, eof, pc, armed, terminal, cleanup, capture, result>>

Abort ==
  /\ armed /\ ~ Over /\ RequestStop("cancelled")
  /\ UNCHANGED <<procs, observed, eof, pc, armed, terminal, cleanup, capture, result>>

\* The error event of a stream, or of the child once it was spawned.
StreamError ==
  /\ pc # "spawning" /\ ~ Over /\ RequestStop("io_error")
  /\ UNCHANGED <<procs, observed, eof, pc, armed, terminal, cleanup, capture, result>>

-----------------------------------------------------------------------------
(* The capture. *)

BytesIn(seq) ==
  LET Sum[i \in 0..Len(seq)] == IF i = 0 THEN 0 ELSE Sum[i - 1] + seq[i].bytes
  IN  Sum[Len(seq)]

Held(c) == BytesIn(c.records) + c.pending.bytes

Flush(c) ==
  IF c.pending.stream = "none" \/ c.pending.bytes = 0 THEN c
  ELSE [c EXCEPT !.records = Append(@, c.pending), !.pending = Empty]

\* A full buffer, or the limit, ends the record.
Settled(c) ==
  IF c.pending.bytes = Coalesce \/ Held(c) = HardLimit
  THEN [Flush(c) EXCEPT !.limited = Held(c) = HardLimit] ELSE c

\* accept puts byte after byte into the buffer, and names its owner anew for each:
\* a full record has cleared it.
Each(c, stream, length) ==
  LET After[n \in 0..length] ==
        IF n = 0 THEN c
        ELSE IF After[n - 1].limited THEN After[n - 1]
        ELSE Settled([After[n - 1] EXCEPT
                        !.pending = [stream |-> stream, bytes |-> @.bytes + 1]])
  IN  After[length]

\* accept: bytes of the other stream are flushed first; after the limit nothing
\* is taken.
Accept(c, stream, length) ==
  IF c.limited THEN c
  ELSE Each(IF c.pending.stream \notin {"none", stream} THEN Flush(c) ELSE c, stream, length)

Captured == [records |-> records, pending |-> pending, limited |-> limited]

\* A data event: bytes that were in the pipe, whoever has written them.
DataEvent(stream, length) ==
  LET c == Accept(Captured, stream, length) IN
  /\ pc # "spawning" /\ ~ Over /\ stream \notin eof /\ chunks < MaxChunks
  /\ records' = c.records /\ pending' = c.pending /\ limited' = c.limited
  /\ chunks' = chunks + 1
  /\ came' = came \o [i \in 1..length |-> stream]
  /\ IF c.limited /\ ~ limited THEN RequestStop("output_limit") ELSE UNCHANGED <<reason, stop>>
  /\ UNCHANGED <<procs, observed, eof, pc, armed, terminal, cleanup, result>>

\* A stream ends when nobody can write to it.
EofEvent(stream) ==
  /\ pc # "spawning" /\ ~ Over /\ holders = {} /\ stream \notin eof
  /\ eof' = eof \cup {stream}
  /\ UNCHANGED <<procs, observed, pc, armed, reason, stop, terminal, cleanup, capture, result>>

-----------------------------------------------------------------------------
(* The processes. *)

Fork(p) ==
  /\ p \in group \cup escaped /\ (p = Child => exit = "none")
  /\ \E d \in unborn :
       /\ unborn' = unborn \ {d}
       /\ IF p \in group THEN group' = group \cup {d} /\ UNCHANGED escaped
          ELSE escaped' = escaped \cup {d} /\ UNCHANGED group
       /\ holders' = IF p \in holders THEN holders \cup {d} ELSE holders
  /\ UNCHANGED <<exit, observed, eof, pc, armed, reason, stop, terminal, cleanup, capture, result>>

\* A descendant takes a session of its own, and with it leaves the group.
Escape(d) ==
  /\ d \in group \cap Descendants
  /\ group' = group \ {d} /\ escaped' = escaped \cup {d}
  /\ UNCHANGED <<holders, unborn, exit, observed, eof, pc, armed, reason, stop, terminal,
                 cleanup, capture, result>>

ClosePipes(p) ==
  /\ p \in holders
  /\ holders' = holders \ {p}
  /\ UNCHANGED <<group, escaped, unborn, exit, observed, eof, pc, armed, reason, stop, terminal,
                 cleanup, capture, result>>

\* Processes that end.  The child stays in the group until Node has waited for it.
Ended(dead, how) ==
  /\ group' = group \ (dead \ {Child}) /\ escaped' = escaped \ dead
  /\ holders' = holders \ dead
  /\ exit' = IF Child \in dead /\ exit = "none" THEN how ELSE exit
  /\ UNCHANGED unborn

End(p) ==
  /\ p \in group \cup escaped /\ (p = Child => exit = "none")
  /\ \E how \in ExitKinds : Ended({p}, how)
  /\ UNCHANGED <<observed, eof, pc, armed, reason, stop, terminal, cleanup, capture, result>>

\* The exit event: Node has reaped the child, and the triggers from outside stop.
ExitEvent ==
  /\ exit # "none" /\ ~ observed /\ ~ Over
  /\ observed' = TRUE /\ group' = group \ {Child}
  /\ armed' = FALSE
  /\ UNCHANGED <<escaped, holders, unborn, exit, eof, pc, reason, stop, terminal, cleanup,
                 capture, result>>

-----------------------------------------------------------------------------
(* runNativeBash. *)

Output(c) == Flush(c).records

\* The spawn event, or the error event in its place.
Spawn ==
  /\ pc = "spawning"
  /\ \/ /\ group' = {Child} /\ holders' = {Child}
        /\ pc' = "racing"
        /\ UNCHANGED <<armed, result>>
     \/ /\ pc' = "returned" /\ armed' = FALSE
        /\ result' = [kind |-> "result", reason |-> "io_error", exit |-> "none",
                      reaped |-> TRUE, output |-> << >>]
        /\ UNCHANGED <<group, holders>>
  /\ UNCHANGED <<escaped, unborn, exit, observed, eof, reason, stop, terminal, cleanup, capture>>

\* The race of the exit event with a request to stop; the microtasks of one
\* callback run before the next one.
Raced ==
  /\ pc = "racing" /\ (observed \/ stop)
  /\ pc' = "stopping"
  /\ terminal' = IF observed THEN exit ELSE terminal
  /\ UNCHANGED <<procs, observed, eof, armed, reason, stop, cleanup, capture, result>>

Died(signalled) == signalled \ Stuck

\* stopOriginalGroup: SIGTERM, a grace period, SIGKILL if somebody is left.  Of
\* those who get SIGTERM anybody may end; End says so.
SendTerm ==
  /\ pc = "stopping" /\ ~ termed
  /\ IF group = {} THEN pc' = "waiting" /\ UNCHANGED <<termed, outrun>>
     ELSE termed' = TRUE /\ outrun' = (~ observed) /\ UNCHANGED pc
  /\ UNCHANGED <<procs, observed, eof, armed, reason, stop, terminal, absence, ends, killed,
                 capture, result>>

GraceOver ==
  /\ pc = "stopping" /\ termed
  /\ IF group = {} THEN UNCHANGED <<procs, killed>>
     ELSE Ended(Died(group), "signal") /\ killed' = TRUE
  /\ pc' = "waiting"
  /\ UNCHANGED <<observed, eof, armed, reason, stop, terminal, absence, ends, termed, outrun,
                 capture, result>>

\* boundedValue of the terminal: it is there, or the wait is over.
Waited ==
  /\ pc = "waiting"
  /\ terminal' = IF terminal = "none" /\ observed THEN exit ELSE terminal
  /\ pc' = "observing"
  /\ UNCHANGED <<procs, observed, eof, armed, reason, stop, cleanup, capture, result>>

ObserveGroup ==
  /\ pc = "observing" /\ absence = "waiting"
  /\ absence' = IF group = {} THEN "absent" ELSE "gave up"
  /\ UNCHANGED <<procs, observed, eof, pc, armed, reason, stop, terminal, ends, termed, killed,
                 outrun, capture, result>>

ObserveEof ==
  /\ pc = "observing" /\ ends = "waiting"
  /\ ends' = IF eof = OutputStreams THEN "both" ELSE "gave up"
  /\ UNCHANGED <<procs, observed, eof, pc, armed, reason, stop, terminal, absence, termed, killed,
                 outrun, capture, result>>

Reaped == absence = "absent" /\ ends = "both" /\ eof = OutputStreams

\* A child that has ended while the cleanup was observed is known all the same.
LastTerminal == IF terminal = "none" /\ observed THEN exit ELSE terminal

\* normalizeDirectTerminal: a code of a byte or a signal that is known.
Known(t) == t \in {"zero", "nonzero", "signal"}

Conclude ==
  /\ pc = "observing" /\ absence # "waiting" /\ ends # "waiting"
  /\ armed' = FALSE
  /\ IF ~ Known(LastTerminal)
     THEN /\ pc' = "thrown"
          /\ result' = [kind |-> "unknown", reaped |-> Reaped, output |-> Output(Captured)]
     ELSE /\ pc' = "returned"
          /\ result' = [kind |-> "result", reason |-> IF reason = "none" THEN "natural" ELSE reason,
                        exit |-> LastTerminal, reaped |-> Reaped, output |-> Output(Captured)]
  /\ UNCHANGED <<procs, observed, eof, reason, stop, terminal, cleanup, capture>>

Main == Spawn \/ Raced \/ SendTerm \/ GraceOver \/ Waited \/ ObserveGroup \/ ObserveEof \/ Conclude

Next ==
  \/ Main \/ Timeout \/ Abort \/ StreamError \/ ExitEvent
  \/ \E s \in OutputStreams : EofEvent(s) \/ \E n \in 1..MaxChunk : DataEvent(s, n)
  \/ ~ Over /\ \E p \in Procs : Fork(p) \/ Escape(p) \/ ClosePipes(p) \/ End(p)

Fairness == WF_vars(Main) /\ WF_vars(Timeout)
Spec == Init /\ [][Next]_vars /\ Fairness

-----------------------------------------------------------------------------
(* What the runtime makes of it. *)

\* The marker of the artifact that the records are written to; see ToolOutput.
HardLimitReached(r) == BytesIn(r.output) = HardLimit

\* classifyBash, "none" where it throws.
Classified(r) ==
  IF (r.reason = "output_limit") # HardLimitReached(r) THEN "none"
  ELSE IF r.reason \in {"output_limit", "timeout", "cancelled"}
       THEN IF r.exit = "none" THEN "none" ELSE r.reason
  ELSE IF r.reason = "io_error" THEN "io_error"
  ELSE CASE r.exit = "signal"  -> "signaled"
         [] r.exit = "zero"    -> "ok"
         [] r.exit = "nonzero" -> "nonzero_exit"
         [] OTHER              -> "none"

\* validateToolTerminalForSource of an effect, with the pairs of normalizeToolTerminal.
ValidBashEffect(code, exitCode, hardLimit) ==
  /\ code \in {"ok", "io_error", "nonzero_exit", "signaled", "timeout", "cancelled", "output_limit"}
  /\ (code = "output_limit") = hardLimit
  /\ CASE code = "ok" -> exitCode = "zero"
       [] code = "nonzero_exit" -> exitCode = "nonzero"
       [] code = "signaled" -> exitCode = "signal"
       [] code = "io_error" -> exitCode = "none"
       [] OTHER -> exitCode \in {"zero", "nonzero", "signal"}

-----------------------------------------------------------------------------
\* Types; the child belongs to its group until its end has been seen.
TypeOK ==
  /\ group \subseteq Procs /\ escaped \subseteq Descendants /\ holders \subseteq Procs
  /\ unborn \subseteq Descendants /\ exit \in ExitKinds \cup {"none", "signal"}
  /\ observed \in BOOLEAN /\ eof \subseteq OutputStreams
  /\ pc \in {"spawning", "racing", "stopping", "waiting", "observing", "returned", "thrown"}
  /\ reason \in {"none", "timeout", "cancelled", "output_limit", "io_error"}
  /\ stop \in BOOLEAN /\ armed \in BOOLEAN /\ (reason # "none") = stop
  /\ terminal \in Ends \cup {"none"}
  /\ pending \in [stream : OutputStreams \cup {"none"}, bytes : 0..(Coalesce - 1)]
  /\ (pc # "spawning" /\ result.kind # "result" => (Child \in group) = (~ observed))

\* Whatever races with whatever, a command that has ended for a known reason is
\* classified, and as a terminal that the journal accepts: the reason says that
\* the limit was reached if and only if the recorded output has been cut there.
ResultIsClassified ==
  result.kind = "result" =>
    LET code == Classified(result) IN
      ValidBashEffect(code, IF code = "io_error" THEN "none" ELSE result.exit,
                      HardLimitReached(result))

\* The bytes that records hold, in their order.
BytesOf(seq) ==
  LET Flat[i \in 0..Len(seq)] ==
        IF i = 0 THEN << >> ELSE Flat[i - 1] \o [k \in 1..seq[i].bytes |-> seq[i].stream]
  IN  Flat[Len(seq)]

\* The records give every byte to the pipe it came from, in the order of arrival,
\* and all of it up to the limit.
OutputAsItCame ==
  LET kept == IF Len(came) < HardLimit THEN Len(came) ELSE HardLimit
  IN  Over => BytesOf(result.output) = SubSeq(came, 1, kept)

\* What is reported as reaped has left nobody in the group, and nobody anywhere
\* who could still write to the pipes.
ReapedMeansGone == Over /\ result.reaped => group = {} /\ holders = {}

\* Nobody is left in the group unless SIGKILL has been sent, in vain.
SurvivorsWereKilled == Over /\ group # {} => killed

\* A command reported to have ended by itself was not stopped: no signal went
\* out before its end was seen.
NaturalWasNotStopped ==
  result.kind = "result" /\ result.reason = "natural" => ~ outrun

\* The terminal is unknown only if the end of the child has not been seen at
\* all, or was no terminal.
UnknownWasUnseen == pc = "thrown" => ~ observed \/ exit = "unknown"

\* What is reported of a command is what became of its processes and of its
\* output, whatever of exit, time limit, cancellation, end of output and errors
\* comes first.
OutcomeIsTrue ==
  /\ TypeOK /\ ResultIsClassified /\ OutputAsItCame /\ ReapedMeansGone
  /\ SurvivorsWereKilled /\ NaturalWasNotStopped /\ UnknownWasUnseen
=============================================================================
