------------------------------ MODULE ToolOutput ------------------------------
(***************************************************************************)
(* The raw output of a tool as an artifact: frames (artifact/tool-output.ts)*)
(* that several streams write through one queue, the sink that parses them  *)
(* on their way to the object (artifact/store.ts), and the scan that later  *)
(* parses the object again, in whatever chunks it is read.                  *)
(*                                                                         *)
(* A byte is a digit of Base.  A frame is a header (the stream, the flags   *)
(* and LengthBytes digits of length) and its payload.  Hashes and the       *)
(* descriptor's other fields are left out; the object is immutable, as      *)
(* ContentStore has it.                                                     *)
(***************************************************************************)
EXTENDS Naturals, Sequences

CONSTANTS
  Streams,       \* codes of the streams that write
  Payloads,      \* the byte sequences a call of write may bring
  Base, LengthBytes,
  HardLimit,     \* RAW_TOOL_OUTPUT_HARD_LIMIT_BYTES
  MaxCalls       \* bound: calls of write

Byte == 0..(Base - 1)
AllStreams == 1..3   \* read, stdout, stderr
\* What an instance assumes of the constants.
StreamAssumption ==
  Base \in Nat /\ Streams \subseteq AllStreams /\ AllStreams \subseteq Byte
PayloadAssumption == Payloads \subseteq Seq(Byte)

VARIABLES
  calls,       \* the calls of write, in order: stream and bytes
  results,     \* what each has answered: how many bytes, and the limit
  step,        \* of the call at the head of the queue: "idle", "data",
               \* "end" or "marker"
  out,         \* the counters of the frame writer
  failure,     \* #failure of the writer
  finishing,   \* finish: "no", "called", "ok", "failed"
  sink,        \* the sink: its state, parser, whether parser or write failed
  object,      \* the bytes of the object
  scan         \* a scan of the published object

vars == <<calls, results, step, out, failure, finishing, sink, object, scan>>

-----------------------------------------------------------------------------
(* Frames. *)

NoBytes == [s \in AllStreams |-> 0]
Total(counts) == counts[1] + counts[2] + counts[3]

Digits(n) ==
  LET Rest[k \in 0..LengthBytes] == IF k = 0 THEN n ELSE Rest[k - 1] \div Base
  IN  [i \in 1..LengthBytes |-> Rest[LengthBytes - i] % Base]
Number(ds) ==
  LET Upto[i \in 0..Len(ds)] == IF i = 0 THEN 0 ELSE Upto[i - 1] * Base + ds[i]
  IN  Upto[Len(ds)]

\* The greatest length a header can say.
Longest == Number([i \in 1..LengthBytes |-> Base - 1])
\* What an instance assumes of the limit.
LimitAssumption ==
  LengthBytes \in Nat \ {0} /\ MaxCalls \in Nat /\ HardLimit \in 1..Longest

HeaderBytes == 2 + LengthBytes
Header(stream, flags, length) == <<stream, flags>> \o Digits(length)
Data(stream, bytes)    == Header(stream, 0, Len(bytes)) \o bytes
LimitMark(stream)      == Header(stream, 1, 0)

Fresh == [head |-> << >>, left |-> 0, stream |-> 0, counts |-> NoBytes, bytes |-> 0,
          records |-> 0, limit |-> 0, failed |-> FALSE, done |-> FALSE, seen |-> << >>]

\* What the parser makes of a complete header.
Opened(p, head) ==
  LET length == Number(SubSeq(head, 3, HeaderBytes))
      q == [p EXCEPT !.head = << >>, !.records = @ + 1]
  IN  IF head[1] \in AllStreams /\ head[2] = 0 /\ length > 0
      THEN [q EXCEPT !.stream = head[1], !.left = length]
      ELSE IF head[1] \in AllStreams /\ head[2] = 1 /\ length = 0
      THEN [q EXCEPT !.limit = head[1]]
      ELSE [q EXCEPT !.failed = TRUE]

\* One byte of a chunk.
Took(p, b) ==
  IF p.failed THEN p
  ELSE IF p.limit # 0 THEN [p EXCEPT !.failed = TRUE]
  ELSE IF p.left > 0
  THEN [p EXCEPT !.left = @ - 1, !.counts[p.stream] = @ + 1, !.seen = Append(@, b)]
  ELSE IF Len(p.head) + 1 < HeaderBytes THEN [p EXCEPT !.head = Append(@, b)]
  ELSE Opened(p, Append(p.head, b))

\* The bytes of a chunk, one after the other.
TookAll(p, chunk) ==
  LET After[i \in 0..Len(chunk)] == IF i = 0 THEN p ELSE Took(After[i - 1], chunk[i])
  IN  After[Len(chunk)]

\* push: what a chunk does to the parser.  seen is what the visitor was given.
Push(p, chunk) ==
  IF p.done \/ p.failed THEN [p EXCEPT !.failed = TRUE]
  ELSE TookAll([p EXCEPT !.bytes = @ + Len(chunk)], chunk)

\* finish: nothing is half read, and payload and headers add up to the bytes.
Whole(p) ==
  /\ ~ p.failed /\ ~ p.done /\ p.head = << >> /\ p.left = 0
  /\ Total(p.counts) + HeaderBytes * p.records = p.bytes

Summary(counts, records, bytes, limit) ==
  [counts |-> counts, records |-> records, bytes |-> bytes, limit |-> limit]
ParserSummary(p) == Summary(p.counts, p.records, p.bytes, p.limit)

-----------------------------------------------------------------------------
NoScan == [at |-> 0, parser |-> Fresh, verdict |-> "none"]

Init ==
  /\ calls = << >> /\ results = << >> /\ step = "idle"
  /\ out = Summary(NoBytes, 0, 0, 0)
  /\ failure = FALSE /\ finishing = "no"
  /\ sink = [state |-> "open", parser |-> Fresh, failed |-> FALSE]
  /\ object = << >>
  /\ scan = NoScan

\* write of the frame writer: copied, and queued behind the calls before it.
Write(stream, bytes) ==
  /\ finishing = "no" /\ Len(calls) < MaxCalls
  /\ calls' = Append(calls, [stream |-> stream, bytes |-> bytes])
  /\ UNCHANGED <<results, step, out, failure, finishing, sink, object, scan>>

Queued == Len(results) < Len(calls)
Next1  == calls[Len(results) + 1]

Room == HardLimit - Total(out.counts)

\* Mutant: a chunk there is no room for is dropped, not cut.
AcceptedWhole == IF Len(Next1.bytes) > Room THEN << >> ELSE Next1.bytes

Accepted == SubSeq(Next1.bytes, 1, IF Len(Next1.bytes) < Room THEN Len(Next1.bytes) ELSE Room)

Answer(n) == Append(results, [accepted |-> n, limit |-> out.limit # 0])

\* The task of the first call of the queue: what there is no room for is cut,
\* and after the limit nothing is written any more.
StartTask ==
  /\ Queued /\ step = "idle"
  /\ IF failure
     THEN results' = Append(results, [accepted |-> 0, limit |-> FALSE]) /\ UNCHANGED step
     ELSE IF out.limit # 0 THEN results' = Answer(0) /\ UNCHANGED step
     ELSE step' = (IF Accepted # << >> THEN "data" ELSE "end") /\ UNCHANGED results
  /\ UNCHANGED <<calls, out, failure, finishing, sink, object, scan>>

\* write of the sink: parsed, then written to the candidate, which may fail; a
\* parser that fails only spoils the publication.
SinkWrites(frame) ==
  /\ sink.state = "open"
  /\ sink' = [sink EXCEPT !.parser = Push(@, frame)]
  /\ object' = object \o frame

SinkFails ==
  /\ sink' = [sink EXCEPT !.failed = TRUE]
  /\ failure' = TRUE
  /\ results' = Append(results, [accepted |-> 0, limit |-> FALSE])
  /\ step' = "idle"
  /\ UNCHANGED <<calls, out, finishing, object, scan>>

WriteData ==
  /\ step = "data"
  /\ \/ /\ SinkWrites(Data(Next1.stream, Accepted))
        /\ out' = [out EXCEPT !.counts[Next1.stream] = @ + Len(Accepted), !.records = @ + 1,
                              !.bytes = @ + HeaderBytes + Len(Accepted)]
        /\ step' = "end"
        /\ UNCHANGED <<calls, results, failure, finishing, scan>>
     \/ SinkFails /\ UNCHANGED out

\* What the data of the call at the head has come to.
Given ==
  LET Sum[i \in 0..Len(results)] == IF i = 0 THEN 0 ELSE Sum[i - 1] + results[i].accepted
  IN  Total(out.counts) - Sum[Len(results)]

\* The limit is marked by the call that reaches it, and the call answered.
EndTask ==
  /\ step = "end"
  /\ IF Total(out.counts) = HardLimit
     THEN step' = "marker" /\ UNCHANGED results
     ELSE step' = "idle" /\ results' = Answer(Given)
  /\ UNCHANGED <<calls, out, failure, finishing, sink, object, scan>>

WriteMarker ==
  /\ step = "marker"
  /\ \/ /\ SinkWrites(LimitMark(Next1.stream))
        /\ out' = [out EXCEPT !.records = @ + 1, !.bytes = @ + HeaderBytes,
                              !.limit = Next1.stream]
        /\ results' = Append(results, [accepted |-> Given, limit |-> TRUE])
        /\ step' = "idle"
        /\ UNCHANGED <<calls, failure, finishing, scan>>
     \/ SinkFails /\ UNCHANGED out

Finish ==
  /\ finishing = "no"
  /\ finishing' = "called"
  /\ UNCHANGED <<calls, results, step, out, failure, sink, object, scan>>

Finished ==
  /\ finishing = "called" /\ ~ Queued
  /\ finishing' = IF failure \/ Total(out.counts) + HeaderBytes * out.records # out.bytes
                  THEN "failed" ELSE "ok"
  /\ UNCHANGED <<calls, results, step, out, failure, sink, object, scan>>

\* validateMetadata: the summary of the writer against that of the parser.
Valid(summary, p) ==
  /\ Whole(p) /\ ParserSummary(p) = [summary EXCEPT !.records = p.records]
  /\ Total(summary.counts) <= HardLimit
  /\ (summary.limit # 0) = (Total(summary.counts) = HardLimit)

\* publish of the sink with the writer's summary; the candidate may fail.
Publish ==
  /\ finishing = "ok" /\ sink.state = "open"
  /\ \/ /\ ~ sink.failed /\ Valid(out, sink.parser)
        /\ sink' = [sink EXCEPT !.parser.done = TRUE, !.state = "published"]
     \/ sink' = [sink EXCEPT !.parser.done = TRUE, !.state = "aborted"]
     \/ /\ ~ sink.failed /\ ~ Valid(out, sink.parser)
        /\ sink' = [sink EXCEPT !.parser.done = TRUE, !.state = "refused"]
  /\ UNCHANGED <<calls, results, step, out, failure, finishing, object, scan>>

\* Who could not finish aborts.
Abort ==
  /\ finishing = "failed" /\ sink.state = "open"
  /\ sink' = [sink EXCEPT !.state = "aborted"]
  /\ UNCHANGED <<calls, results, step, out, failure, finishing, object, scan>>

-----------------------------------------------------------------------------
(* scanArtifact: chunks of any size. *)

ScanChunk(n) ==
  /\ sink.state = "published" /\ scan.verdict = "none"
  /\ n \in 1..(Len(object) - scan.at)
  /\ scan' = [scan EXCEPT !.at = @ + n,
                          !.parser = Push(@, SubSeq(object, scan.at + 1, scan.at + n))]
  /\ UNCHANGED <<calls, results, step, out, failure, finishing, sink, object>>

ScanEnd ==
  /\ sink.state = "published" /\ scan.verdict = "none" /\ scan.at = Len(object)
  /\ scan' = [scan EXCEPT !.verdict = IF Valid(out, scan.parser) THEN "ok" ELSE "malformed"]
  /\ UNCHANGED <<calls, results, step, out, failure, finishing, sink, object>>

Tasks == StartTask \/ WriteData \/ EndTask \/ WriteMarker

Next ==
  \/ \E s \in Streams, b \in Payloads : Write(s, b)
  \/ Tasks
  \/ Finish \/ Finished \/ Publish \/ Abort
  \/ \E n \in 1..Len(object) : ScanChunk(n)
  \/ ScanEnd

Fairness == WF_vars(Tasks) /\ WF_vars(Finished)
Spec == Init /\ [][Next]_vars /\ Fairness

-----------------------------------------------------------------------------
\* Types; one task at a time, and all streams together within the limit.
TypeOK ==
  /\ calls \in Seq([stream : Streams, bytes : Payloads])
  /\ results \in Seq([accepted : 0..HardLimit, limit : BOOLEAN])
  /\ Len(results) <= Len(calls)
  /\ step \in {"idle", "data", "end", "marker"} /\ (step # "idle" => Queued)
  /\ out.counts \in [AllStreams -> 0..HardLimit] /\ out.limit \in 0..3
  /\ Total(out.counts) <= HardLimit
  /\ finishing \in {"no", "called", "ok", "failed"}
  /\ sink.state \in {"open", "published", "aborted", "refused"}
  /\ object \in Seq(Byte)
  /\ scan.at \in 0..Len(object) /\ scan.verdict \in {"none", "ok", "malformed"}

AcceptedBytes ==
  LET Upto[i \in 0..Len(results)] ==
        IF i = 0 THEN << >>
        ELSE Upto[i - 1] \o SubSeq(calls[i].bytes, 1, results[i].accepted)
  IN  Upto[Len(results)]

CallBytes ==
  LET Sum[i \in 0..Len(calls)] == IF i = 0 THEN 0 ELSE Sum[i - 1] + Len(calls[i].bytes)
  IN  Sum[Len(calls)]

\* What the calls of write were told is exactly what a reader of the published
\* object gets, however the streams interleave and however the scan is cut into
\* chunks.
ScanGivesWhatWasAccepted ==
  scan.verdict # "none" => scan.verdict = "ok" /\ scan.parser.seen = AcceptedBytes

\* Two streams at the limit together: what is published is cut at the limit to
\* the byte, and marked if and only if it is.
LimitIsExact ==
  sink.state = "published" =>
    LET kept == Total(out.counts) IN
      /\ kept = (IF CallBytes < HardLimit THEN CallBytes ELSE HardLimit)
      /\ (out.limit # 0) = (CallBytes >= HardLimit)

\* Writer and sink account for the same bytes: the sink never refuses what the
\* writer says of its own frames.
NeverRefused == sink.state # "refused"

\* An object that lacks a frame is not published: a failed write is remembered
\* until the end.
NoPartialOutput ==
  sink.state = "published" => ~ failure /\ ~ sink.failed /\ Len(results) = Len(calls)

=============================================================================
