------------------------------ MODULE Transport ------------------------------
(***************************************************************************)
(* Sending one request snapshot to the model (ds/transport.ts,              *)
(* ds/errors.ts) under the lifecycle the kernel gives it                    *)
(* (session/kernel.ts): physical attempts, their timers and failures, the   *)
(* barrier before the first semantic delta, the decision to retry.          *)
(*                                                                         *)
(* The callbacks append events to the journal, one after the other.  While  *)
(* an append is under way anything else may happen: a timer fires, the user *)
(* cancels, the connection breaks.  An attempt that was given up may still  *)
(* have a parser at work.  The parser itself is ResponseStream.             *)
(***************************************************************************)
EXTENDS Naturals, Sequences, FiniteSets

CONSTANTS
  RetryAfters,   \* what a refusal may say in its retry-after header
  MaxDeltas,     \* bound: semantic deltas of one answer
  RandomSteps    \* randomUnit is one of 0, 1/RandomSteps, ...

MaxAttempts   == 3
BaseDelay     == 500
BackoffCap    == 8000
RetryAfterCap == 60000

Attempts == 1..MaxAttempts

\* delay-seconds and dates in milliseconds from now, both sides of the cap.
ASSUME RetryAfterAssumption ==
  RetryAfters \subseteq [form : {"none", "seconds", "date", "past", "malformed"}, ms : Nat]
ASSUME BoundAssumption == MaxDeltas \in Nat /\ RandomSteps \in Nat \ {0}

VARIABLES
  pc,        \* of the send: "before", "attempt", "after", "delay", "stopping",
             \* "returned", "threw"
  now,       \* the attempt it is at
  att,       \* the attempts
  decision,  \* decideDeepSeekRetry after the last failure: retry and delay
  asked,     \* the header that decision is about
  signal,    \* the user has cancelled
  queue,     \* appends that are under way
  log,       \* the journal
  writer,    \* "open", "poisoned"
  shown      \* the attempts whose deltas were shown as a preview

vars == <<pc, now, att, decision, asked, signal, queue, log, writer, shown>>

NoHeader == [form |-> "none", ms |-> 0]
Idle == [net |-> "none", timers |-> {}, parser |-> "none", rest |-> 0, count |-> 0,
         sem |-> "pre", settled |-> "no"]

Event(type, a, of) == [type |-> type, attempt |-> a, of |-> of]
AttemptStarted(a)  == Event("request_attempt_started", a, "none")
SemanticStarted(a) == Event("request_semantic_started", a, "none")
Interrupted(a, s)  == Event("request_interrupted", a, s)
RunInterrupted     == Event("run_interrupted", 0, "none")

Init ==
  /\ pc = "before" /\ now = 1
  /\ att = [a \in Attempts |-> Idle]
  /\ decision = [retry |-> FALSE, delay |-> 0] /\ asked = NoHeader
  /\ signal = FALSE
  /\ queue = <<AttemptStarted(1)>> /\ log = << >> /\ writer = "open"
  /\ shown = {}

-----------------------------------------------------------------------------
(* The decision (errors.ts). *)

Least(x, y) == IF x < y THEN x ELSE y
Most(x, y) == IF x > y THEN x ELSE y

Backoff(a) == IF a >= 5 THEN BackoffCap ELSE BaseDelay * 2 ^ (a - 1)

\* bounded429Jitter: between half of the nominal delay and all of it.
Jitter(nominal, r) ==
  (nominal \div 2) + (r * (nominal - (nominal \div 2) + 1)) \div RandomSteps

\* parseDeepSeekRetryAfter; a header that says nothing asks for no delay.
RetryAfter(header) ==
  IF header.form \in {"seconds", "date"} THEN Least(header.ms, RetryAfterCap) ELSE 0

Delays(a, failure, header) ==
  LET backoffs == IF failure = "http_429"
                  THEN {Jitter(Backoff(a), r) : r \in 0..(RandomSteps - 1)} ELSE {Backoff(a)}
  IN  {Most(b, RetryAfter(header)) : b \in backoffs}

HttpFailures == {"http_429", "http_5xx", "http_other"}
Failures == HttpFailures \cup {"timeout", "cancelled", "transport", "protocol", "durability"}

Retryable(a, failure, sem) ==
  /\ failure \in {"timeout", "http_429", "http_5xx"}
  /\ sem = "pre"
  /\ a < MaxAttempts

Decisions(a, failure, sem, header) ==
  IF Retryable(a, failure, sem)
  THEN {[retry |-> TRUE, delay |-> d] : d \in Delays(a, failure, header)}
  ELSE {[retry |-> FALSE, delay |-> 0]}

-----------------------------------------------------------------------------
(* The end of an attempt. *)

\* rejectOnce, and the handler of the retry loop up to its call of
\* afterInterrupted.  A request that is over brings nothing any more.
Reject(a, failure, header, as, q) ==
  /\ att' = [as EXCEPT ![a].settled = failure, ![a].timers = {}, ![a].net = "gone"]
  /\ decision' \in Decisions(a, failure, as[a].sem, header)
  /\ asked' = header
  /\ pc' = "after" /\ queue' = Append(q, Interrupted(a, as[a].sem))

Open(a) == pc = "attempt" /\ a = now

Fails(a, failure, header) ==
  /\ Open(a)
  /\ Reject(a, failure, header, att, queue)
  /\ UNCHANGED <<now, signal, log, writer, shown>>

TimerFires(a, t) == t \in att[a].timers /\ Fails(a, "timeout", NoHeader)

\* A timer that an attempt has set after its end does nothing.
LateTimer(a, t) ==
  /\ t \in att[a].timers /\ ~ Open(a)
  /\ att' = [att EXCEPT ![a].timers = @ \ {t}]
  /\ UNCHANGED <<pc, now, decision, asked, signal, queue, log, writer, shown>>

RequestError(a) == Fails(a, "transport", NoHeader)

-----------------------------------------------------------------------------
(* One attempt. *)

OnlyAttempt(as) ==
  att' = as /\ UNCHANGED <<pc, now, decision, asked, signal, queue, log, writer, shown>>

\* Mutant: a connection ends all time limits.
ConnectedUntimed(a) ==
  /\ Open(a) /\ att[a].net = "connecting"
  /\ OnlyAttempt([att EXCEPT ![a].net = "connected", ![a].timers = {}])

Connected(a) ==
  /\ Open(a) /\ att[a].net = "connecting"
  /\ OnlyAttempt([att EXCEPT ![a].net = "connected", ![a].timers = @ \ {"connect"}])

\* A status other than 200 ...
Refused(a) ==
  /\ att[a].net = "connected"
  /\ \E f \in HttpFailures, h \in RetryAfters : Fails(a, f, h)

\* ... or another type of content.
NotAStream(a) == att[a].net = "connected" /\ Fails(a, "protocol", NoHeader)

Responds(a) ==
  /\ Open(a) /\ att[a].net = "connected"
  /\ OnlyAttempt([att EXCEPT ![a].net = "streaming", ![a].parser = "reading"])

\* n deltas have come: no more time limit for the first, a new one for the next.
Taken(a, n) ==
  [att EXCEPT ![a].count = @ + n, ![a].timers = (@ \ {"ttfb"}) \cup {"idle"}]

Streaming(a) == att[a].parser = "reading" /\ att[a].net = "streaming"

\* Mutant: the state of the attempt changes when the barrier is passed.
ChunkStillPre(a, n) ==
  /\ Streaming(a) /\ n \in 1..(MaxDeltas - att[a].count)
  /\ IF att[a].sem = "pre"
     THEN /\ att' = [Taken(a, 1) EXCEPT ![a].parser = "hook", ![a].rest = n - 1]
          /\ queue' = Append(queue, SemanticStarted(a)) /\ UNCHANGED shown
     ELSE att' = Taken(a, n) /\ shown' = shown \cup {a} /\ UNCHANGED queue
  /\ UNCHANGED <<pc, now, decision, asked, signal, log, writer>>

\* A chunk with n deltas.  The first delta of an answer has to wait for
\* onSemanticStarted, and with it the rest of its chunk.
Chunk(a, n) ==
  /\ Streaming(a) /\ n \in 1..(MaxDeltas - att[a].count)
  /\ IF att[a].sem = "pre"
     THEN /\ att' = [Taken(a, 1) EXCEPT ![a].sem = "post", ![a].parser = "hook", ![a].rest = n - 1]
          /\ queue' = Append(queue, SemanticStarted(a)) /\ UNCHANGED shown
     ELSE att' = Taken(a, n) /\ shown' = shown \cup {a} /\ UNCHANGED queue
  /\ UNCHANGED <<pc, now, decision, asked, signal, log, writer>>

\* Malformed data, or a stream that breaks or ends too early.
StreamFails(a) ==
  /\ Streaming(a)
  /\ \E f \in {"protocol", "transport"} : Fails(a, f, NoHeader)

\* A complete answer: the send is over.
Completes(a) ==
  /\ Open(a) /\ Streaming(a)
  /\ att' = [att EXCEPT ![a].settled = "ok", ![a].timers = {}, ![a].parser = "ended",
                        ![a].net = "gone"]
  /\ pc' = "returned"
  /\ UNCHANGED <<now, decision, asked, signal, queue, log, writer, shown>>

-----------------------------------------------------------------------------
(* Appends, and who waits for them. *)

Done(type) ==
  /\ queue # << >> /\ Head(queue).type = type
  /\ log' = Append(log, Head(queue))
  /\ UNCHANGED <<now, signal, writer>>

\* beforeAttempt has returned: the request and its first timers, unless the
\* send was cancelled.
AttemptRecorded ==
  /\ Done("request_attempt_started")
  /\ IF signal THEN Reject(now, "cancelled", NoHeader, att, Tail(queue))
     ELSE /\ att' = [att EXCEPT ![now].net = "connecting", ![now].timers = {"connect", "ttfb"}]
          /\ pc' = "attempt" /\ queue' = Tail(queue)
          /\ UNCHANGED <<decision, asked>>
  /\ UNCHANGED shown

\* onSemanticStarted has returned: the first delta is shown, and what came
\* with it, also of an attempt that was given up meanwhile.
SemanticRecorded ==
  /\ Done("request_semantic_started")
  /\ LET a == Head(queue).attempt IN
       /\ att' = [att EXCEPT ![a].parser = "reading", ![a].rest = 0,
                             ![a].count = @ + att[a].rest,
                             ![a].timers = IF att[a].rest > 0 THEN @ \cup {"idle"} ELSE @]
       /\ shown' = shown \cup {a}
  /\ queue' = Tail(queue)
  /\ UNCHANGED <<pc, decision, asked>>

\* The interruption is recorded: the delay, unless the send is cancelled, or
\* the end of the run.
InterruptionRecorded ==
  /\ Done("request_interrupted")
  /\ IF decision.retry /\ ~ signal
     THEN pc' = "delay" /\ queue' = Tail(queue)
     ELSE pc' = "stopping" /\ queue' = Append(Tail(queue), RunInterrupted)
  /\ UNCHANGED <<att, decision, asked, shown>>

EndRecorded ==
  /\ Done("run_interrupted")
  /\ pc' = "threw" /\ queue' = Tail(queue)
  /\ UNCHANGED <<att, decision, asked, shown>>

\* An append fails, whether or not the event is in the file: the writer is
\* poisoned, every append behind it is refused, and the send ends without
\* another event.  A barrier that fails leaves the state of its attempt unknown.
AppendFails ==
  /\ queue # << >>
  /\ log' \in {log, Append(log, Head(queue))}
  /\ writer' = "poisoned" /\ queue' = << >> /\ pc' = "threw"
  /\ att' = [a \in Attempts |->
               IF att[a].parser # "hook" THEN [att[a] EXCEPT !.timers = {}]
               ELSE [att[a] EXCEPT !.sem = "unknown", !.parser = "ended", !.timers = {}, !.net = "gone",
                                   !.settled = IF @ = "no" THEN "durability" ELSE @]]
  /\ UNCHANGED <<now, decision, asked, signal, shown>>

\* abortableDelay is over.
Retry ==
  /\ pc = "delay"
  /\ now' = now + 1 /\ pc' = "before"
  /\ queue' = Append(queue, AttemptStarted(now + 1))
  /\ UNCHANGED <<att, decision, asked, signal, log, writer, shown>>

Abort ==
  /\ ~ signal /\ signal' = TRUE
  /\ CASE pc = "attempt" -> Reject(now, "cancelled", NoHeader, att, queue)
       [] pc = "delay" -> /\ pc' = "stopping" /\ queue' = Append(queue, RunInterrupted)
                          /\ UNCHANGED <<att, decision, asked>>
       [] OTHER -> UNCHANGED <<pc, att, decision, asked, queue>>
  /\ UNCHANGED <<now, log, writer, shown>>

Appends == AttemptRecorded \/ SemanticRecorded \/ InterruptionRecorded \/ EndRecorded
Timer   == \E a \in Attempts : \E t \in att[a].timers : TimerFires(a, t) \/ LateTimer(a, t)
Network ==
  \E a \in Attempts :
    \/ Connected(a) \/ Refused(a) \/ NotAStream(a) \/ Responds(a) \/ RequestError(a)
    \/ \E n \in 1..MaxDeltas : Chunk(a, n)
    \/ StreamFails(a) \/ Completes(a)

Next == Appends \/ AppendFails \/ Timer \/ Network \/ Retry \/ Abort

\* Appends end, and timers that stay set fire: the network owes nothing.
Fairness == WF_vars(Appends) /\ WF_vars(Timer) /\ WF_vars(Retry)
Spec == Init /\ [][Next]_vars /\ Fairness

-----------------------------------------------------------------------------
Over == pc \in {"returned", "threw"}
Logged(e) == e \in {log[i] : i \in 1..Len(log)}
Position(e) == CHOOSE i \in 1..Len(log) : log[i] = e

\* Types; an attempt that the send waits for has a timer set, and the journal
\* gets at most two events at a time.
TypeOK ==
  /\ pc \in {"before", "attempt", "after", "delay", "stopping", "returned", "threw"}
  /\ now \in Attempts /\ signal \in BOOLEAN /\ writer \in {"open", "poisoned"}
  /\ \A a \in Attempts :
       /\ att[a].net \in {"none", "connecting", "connected", "streaming", "gone"}
       /\ att[a].timers \subseteq {"connect", "ttfb", "idle"}
       /\ att[a].parser \in {"none", "reading", "hook", "ended"}
       /\ att[a].sem \in {"pre", "post", "unknown"}
       /\ att[a].settled \in Failures \cup {"no", "ok"}
       /\ att[a].count + att[a].rest <= MaxDeltas
  /\ pc = "attempt" => att[now].timers # {}
  /\ Len(queue) <= 2 /\ shown \subseteq Attempts

\* What the journal says of an interrupted attempt is what became of it: the
\* answer had begun exactly if the journal says so first, although a failure
\* may come while that is being written.
InterruptionTellsTheTruth ==
  \A a \in Attempts, s \in {"pre", "post", "unknown"} : Logged(Interrupted(a, s)) =>
    /\ (s = "pre") = ~ Logged(SemanticStarted(a))
    /\ s # "pre" => Position(SemanticStarted(a)) < Position(Interrupted(a, s))
    /\ a \in shown => s # "pre"

\* Nothing of an answer is shown before the journal says that it has begun.
ShownIsRecorded == \A a \in shown : Logged(SemanticStarted(a))

\* A request whose answer has begun is never sent a second time; an attempt is
\* sent only when the one before it has been closed.
NoRetryAfterSemantic ==
  \A a \in Attempts : Logged(AttemptStarted(a)) /\ a > 1 =>
    /\ Logged(Interrupted(a - 1, "pre")) /\ (a - 1) \notin shown
    /\ Position(Interrupted(a - 1, "pre")) < Position(AttemptStarted(a))

\* A send has one outcome: an answer whose deltas the journal announces, or a
\* run that ends, after its last attempt was closed.
OneOutcome ==
  /\ pc = "returned" => /\ ~ Logged(RunInterrupted)
                        /\ (att[now].count > 0) = Logged(SemanticStarted(now))
                        /\ \A s \in {"pre", "post", "unknown"} : ~ Logged(Interrupted(now, s))
  /\ Logged(RunInterrupted) =>
       /\ Position(RunInterrupted) = Len(log)
       /\ \E s \in {"pre", "post", "unknown"} : Logged(Interrupted(now, s))
  /\ pc = "threw" /\ writer = "open" => Logged(RunInterrupted)

\* However it is computed, a delay is at least half of the nominal one and what
\* the server asks for, and never longer than the caps.
DelayInBounds ==
  pc = "delay" =>
    /\ decision.delay >= Backoff(now) \div 2
    /\ decision.delay <= Most(Backoff(now), RetryAfterCap)
    /\ asked.form \in {"seconds", "date"} => decision.delay >= Least(asked.ms, RetryAfterCap)
    /\ asked.form \notin {"seconds", "date"} => decision.delay <= Backoff(now)

\* What the journal, the screen and the caller say of a send agree.
SendIsRecorded ==
  /\ TypeOK /\ InterruptionTellsTheTruth /\ ShownIsRecorded /\ NoRetryAfterSemantic
  /\ OneOutcome /\ DelayInBounds

=============================================================================
