---------------------------- MODULE TransportProofs ----------------------------
(***************************************************************************)
(* Proofs about sending a request (Transport), for any headers of a        *)
(* refusal, any number of deltas and any random numbers: what the journal, *)
(* the screen and the caller say of a send agree, however its timers,      *)
(* failures, appends and cancellations interleave.                         *)
(***************************************************************************)
EXTENDS Transport, Integers, SequenceTheorems, TLAPS

Sems == {"pre", "post", "unknown"}

AttemptStates ==
  [net : {"none", "connecting", "connected", "streaming", "gone"},
   timers : SUBSET {"connect", "ttfb", "idle"},
   parser : {"none", "reading", "hook", "ended"},
   rest : Nat, count : Nat, sem : Sems, settled : Failures \cup {"no", "ok"}]

Events ==
  {AttemptStarted(a) : a \in Attempts} \cup {SemanticStarted(a) : a \in Attempts}
    \cup {Interrupted(a, s) : a \in Attempts, s \in Sems} \cup {RunInterrupted}

\* The place of an event in the story of a send.
Rank(e) ==
  CASE e.type = "request_attempt_started"  -> 4 * e.attempt
    [] e.type = "request_semantic_started" -> 4 * e.attempt + 1
    [] e.type = "request_interrupted"      -> 4 * e.attempt + 2
    [] OTHER                               -> 4 * MaxAttempts + 3

\* The types, in more detail than TypeOK.
StateInv ==
  /\ TypeOK
  /\ att \in [Attempts -> AttemptStates]
  /\ log \in Seq(Events) /\ queue \in Seq(Events)

\* Attempts to come are idle, those that were given up took nothing from the
\* answer, and only the one the send waits for has a connection.
Sound(a) ==
  /\ a > now \/ (a = now /\ pc = "before") => att[a] = Idle
  /\ a < now => att[a].sem = "pre"
  /\ att[a].net \in {"connecting", "connected", "streaming"} => a = now /\ pc = "attempt"
  /\ att[a].net \in {"connecting", "connected"} => att[a].parser = "none" /\ att[a].sem = "pre"
  /\ att[a].parser = "hook" => a = now /\ pc \in {"attempt", "after"} /\ att[a].sem = "post"
  /\ att[a].parser \in {"none", "reading"} => att[a].rest = 0
  /\ att[a].sem # "unknown" => (att[a].count = 0) = (att[a].sem = "pre")
  /\ att[a].sem = "unknown" => pc = "threw" /\ writer = "poisoned"

AttemptInv == \A a \in Attempts : Sound(a)

\* While the send waits for an attempt, one of its timers is set.
TimerInv ==
  pc = "attempt" =>
    /\ att[now].sem \in {"pre", "post"}
    /\ att[now].sem = "pre" => "ttfb" \in att[now].timers
    /\ att[now].sem = "post" => "idle" \in att[now].timers

\* What is being appended.
Barrier == IF att[now].parser = "hook" THEN <<SemanticStarted(now)>> ELSE << >>

QueueInv ==
  queue =
    CASE pc = "before"   -> <<AttemptStarted(now)>>
      [] pc = "attempt"  -> Barrier
      [] pc = "after"    -> Append(Barrier, Interrupted(now, att[now].sem))
      [] pc = "stopping" -> <<RunInterrupted>>
      [] OTHER           -> << >>

\* How far the journal has come.
Reached ==
  CASE pc = "before" -> 4 * now - 1
    [] pc \in {"attempt", "after"} ->
         IF att[now].sem = "pre" \/ att[now].parser = "hook" THEN 4 * now ELSE 4 * now + 1
    [] pc = "returned" -> 4 * now + 1
    [] pc \in {"delay", "stopping"} -> 4 * now + 2
    [] OTHER -> 4 * MaxAttempts + 3

OrderInv ==
  /\ \A i, j \in 1..Len(log) : i < j => Rank(log[i]) < Rank(log[j])
  /\ \A i \in 1..Len(log) : Rank(log[i]) <= Reached

\* The journal says of an attempt what became of it, and once it is closed it
\* says everything.
Told(a) ==
  /\ Logged(SemanticStarted(a)) => att[a].sem # "pre"
  /\ att[a].sem = "post" => Logged(SemanticStarted(a)) \/ att[a].parser = "hook" \/ writer = "poisoned"
  /\ \A s \in Sems : Logged(Interrupted(a, s)) =>
       /\ s = att[a].sem
       /\ s # "pre" => Logged(SemanticStarted(a))
  /\ a < now => Logged(Interrupted(a, "pre"))
  /\ Logged(AttemptStarted(a)) => a <= now

LogInv ==
  /\ \A a \in Attempts : Told(a)
  /\ pc \in {"delay", "stopping"} \/ Logged(RunInterrupted) => Logged(Interrupted(now, att[now].sem))
  /\ pc = "threw" /\ writer = "open" => Logged(RunInterrupted)
  /\ Logged(RunInterrupted) => pc = "threw"
  /\ writer = "poisoned" => pc = "threw"

\* Only what was announced is shown.
ShownInv == \A a \in shown : att[a].sem # "pre" /\ Logged(SemanticStarted(a))

\* The decision is about the failure that has ended the attempt.
DecisionInv ==
  /\ asked \in RetryAfters \cup {NoHeader}
  /\ pc \in {"after", "delay"} => decision \in Decisions(now, att[now].settled, att[now].sem, asked)
  /\ pc = "delay" => decision.retry

IInv ==
  /\ StateInv /\ AttemptInv /\ TimerInv /\ QueueInv /\ OrderInv /\ LogInv /\ ShownInv
  /\ DecisionInv

-----------------------------------------------------------------------------
(* Events, and a journal that grows. *)

LEMMA EventsDiffer ==
  /\ \A a \in Attempts : /\ AttemptStarted(a) \in Events /\ SemanticStarted(a) \in Events
                         /\ Rank(AttemptStarted(a)) = 4 * a /\ Rank(SemanticStarted(a)) = 4 * a + 1
                         /\ AttemptStarted(a).type = "request_attempt_started"
                         /\ SemanticStarted(a).type = "request_semantic_started"
                         /\ SemanticStarted(a).attempt = a
  /\ \A a \in Attempts, s \in Sems :
       /\ Interrupted(a, s) \in Events /\ Rank(Interrupted(a, s)) = 4 * a + 2
       /\ Interrupted(a, s).type = "request_interrupted"
  /\ RunInterrupted \in Events /\ Rank(RunInterrupted) = 4 * MaxAttempts + 3
  /\ RunInterrupted.type = "run_interrupted"
<1>1. /\ \A a \in Attempts : AttemptStarted(a) \in Events /\ SemanticStarted(a) \in Events
      /\ \A a \in Attempts, s \in Sems : Interrupted(a, s) \in Events
      /\ RunInterrupted \in Events
  BY DEF Events
<1>2. \A a : /\ AttemptStarted(a).type = "request_attempt_started" /\ AttemptStarted(a).attempt = a
            /\ SemanticStarted(a).type = "request_semantic_started" /\ SemanticStarted(a).attempt = a
  BY DEF AttemptStarted, SemanticStarted, Event
<1>3. /\ \A a, s : Interrupted(a, s).type = "request_interrupted" /\ Interrupted(a, s).attempt = a
      /\ RunInterrupted.type = "run_interrupted"
  BY DEF Interrupted, RunInterrupted, Event
<1>4. QED
  BY <1>1, <1>2, <1>3 DEF Rank

LEMMA EventsAreEqual ==
  ASSUME NEW a \in Attempts, NEW b \in Attempts, NEW s \in Sems, NEW t \in Sems
  PROVE  /\ AttemptStarted(a) = AttemptStarted(b) => a = b
         /\ SemanticStarted(a) = SemanticStarted(b) => a = b
         /\ Interrupted(a, s) = Interrupted(b, t) => a = b /\ s = t
  BY DEF AttemptStarted, SemanticStarted, Interrupted, Event

LEMMA RanksAreNatural == \A e \in Events : Rank(e) \in Nat /\ Rank(e) <= 4 * MaxAttempts + 3
  BY EventsDiffer DEF Events, Attempts, MaxAttempts

LEMMA OneInARow == \A e : Append(<< >>, e) = <<e>>
  OBVIOUS

LEMMA TwoInARow == \A e, f : Append(<<e>>, f) = <<e, f>>
<1> SUFFICES ASSUME NEW e, NEW f PROVE Append(<<e>>, f) = <<e, f>>
  OBVIOUS
<1> DEFINE S == {e, f}
<1>1. Append(<<e>>, f) \in Seq(S) /\ <<e, f>> \in Seq(S)
  OBVIOUS
<1>2. Len(Append(<<e>>, f)) = 2 /\ Len(<<e, f>>) = 2
  OBVIOUS
<1>3. \A i \in 1..2 : Append(<<e>>, f)[i] = <<e, f>>[i]
  OBVIOUS
<1>4. QED
  BY <1>1, <1>2, <1>3, SeqEqual

LEMMA Growth ==
  ASSUME log \in Seq(Events), NEW e \in Events, log' = Append(log, e)
  PROVE  /\ log' \in Seq(Events)
         /\ \A f : Logged(f)' <=> (Logged(f) \/ f = e)
<1>1. /\ log' \in Seq(Events) /\ Len(log') = Len(log) + 1 /\ Len(log) \in Nat
      /\ log'[Len(log) + 1] = e /\ \A i \in 1..Len(log) : log'[i] = log[i]
  OBVIOUS
<1>2. {log'[i] : i \in 1..Len(log')} = {log[i] : i \in 1..Len(log)} \cup {e}
  BY <1>1
<1>3. QED
  BY <1>1, <1>2 DEF Logged

LEMMA Unlogged ==
  ASSUME log' = log
  PROVE  \A f : Logged(f)' <=> Logged(f)
  BY DEF Logged

LEMMA OrderGrows ==
  ASSUME log \in Seq(Events), OrderInv, NEW e \in Events, log' = Append(log, e),
         Reached \in Int, Reached' \in Int, Reached < Rank(e), Rank(e) <= Reached'
  PROVE  OrderInv'
<1>1. /\ Len(log') = Len(log) + 1 /\ Len(log) \in Nat
      /\ log'[Len(log) + 1] = e /\ \A i \in 1..Len(log) : log'[i] = log[i] /\ log[i] \in Events
  OBVIOUS
<1>2. \A i \in 1..Len(log) : Rank(log[i]) \in Nat /\ Rank(log[i]) < Rank(e) /\ Rank(log[i]) <= Reached'
  BY <1>1, RanksAreNatural DEF OrderInv
<1>3. \A i, j \in 1..Len(log') : i < j => Rank(log'[i]) < Rank(log'[j])
  BY <1>1, <1>2 DEF OrderInv
<1>4. \A i \in 1..Len(log') : Rank(log'[i]) <= Reached'
  BY <1>1, <1>2
<1>5. QED
  BY <1>3, <1>4 DEF OrderInv

LEMMA OrderStays ==
  ASSUME log \in Seq(Events), OrderInv, log' = log, Reached \in Int, Reached' \in Int, Reached <= Reached'
  PROVE  OrderInv'
<1>1. \A i \in 1..Len(log) : Rank(log[i]) \in Nat
  BY RanksAreNatural
<1>2. QED
  BY <1>1 DEF OrderInv

\* What is logged has been reached.
LEMMA LoggedIsReached ==
  ASSUME log \in Seq(Events), OrderInv
  PROVE  \A e : Logged(e) => Rank(e) <= Reached
  BY DEF OrderInv, Logged

-----------------------------------------------------------------------------
(* The delays. *)

LEMMA BackoffIsNatural == \A a \in Attempts : Backoff(a) \in Nat
<1>1. Backoff(1) \in Nat
  BY DEF Backoff, BaseDelay, BackoffCap
<1>2. Backoff(2) \in Nat
  BY DEF Backoff, BaseDelay, BackoffCap
<1>3. Backoff(3) \in Nat
  BY DEF Backoff, BaseDelay, BackoffCap
<1>4. QED
  BY <1>1, <1>2, <1>3 DEF Attempts, MaxAttempts

LEMMA JitterIsBounded ==
  ASSUME NEW nominal \in Nat, NEW r \in 0..(RandomSteps - 1)
  PROVE  Jitter(nominal, r) \in (nominal \div 2)..nominal
<1> DEFINE floor == nominal \div 2
           span  == nominal - floor + 1
           part  == (r * span) \div RandomSteps
<1>1. floor \in Nat /\ floor <= nominal /\ span \in Nat \ {0} /\ RandomSteps \in Nat \ {0} /\ r \in Nat
  BY BoundAssumption
<1>2. r * span < RandomSteps * span /\ r * span \in Nat
  <2> HIDE DEF span
  <2>1. QED
    BY <1>1
<1>3. part \in Nat /\ part < span
  <2> HIDE DEF span
  <2>1. QED
    BY <1>1, <1>2
<1>4. QED
  BY <1>1, <1>3 DEF Jitter

LEMMA LeastAndMost ==
  \A x, y \in Nat : /\ Least(x, y) \in {x, y} /\ Least(x, y) <= x /\ Least(x, y) <= y
                    /\ Most(x, y) \in {x, y} /\ Most(x, y) >= x /\ Most(x, y) >= y
  BY DEF Least, Most

LEMMA RetryAfterIsBounded ==
  \A h \in RetryAfters \cup {NoHeader} :
    /\ RetryAfter(h) \in Nat /\ RetryAfter(h) <= RetryAfterCap
    /\ h.form \in {"seconds", "date"} => RetryAfter(h) = Least(h.ms, RetryAfterCap)
    /\ h.form \notin {"seconds", "date"} => RetryAfter(h) = 0
<1>1. \A h \in RetryAfters \cup {NoHeader} : h.ms \in Nat
  BY RetryAfterAssumption DEF NoHeader
<1>2. RetryAfterCap \in Nat
  BY DEF RetryAfterCap
<1>3. QED
  BY <1>1, <1>2, LeastAndMost DEF RetryAfter

LEMMA DelaysAreBounded ==
  ASSUME NEW a \in Attempts, NEW f, NEW h \in RetryAfters \cup {NoHeader}, NEW d \in Delays(a, f, h)
  PROVE  /\ d \in Nat
         /\ d >= Backoff(a) \div 2 /\ d >= RetryAfter(h)
         /\ d <= Most(Backoff(a), RetryAfter(h))
<1>1. PICK b \in (Backoff(a) \div 2)..Backoff(a) : d = Most(b, RetryAfter(h))
  <2>1. CASE f = "http_429"
    BY <2>1, BackoffIsNatural, JitterIsBounded DEF Delays
  <2>2. CASE f # "http_429"
    BY <2>2, BackoffIsNatural DEF Delays
  <2>3. QED
    BY <2>1, <2>2
<1>2. /\ Backoff(a) \in Nat /\ RetryAfter(h) \in Nat /\ Backoff(a) \div 2 \in Nat
  BY BackoffIsNatural, RetryAfterIsBounded
<1>3. b \in Nat /\ b >= Backoff(a) \div 2 /\ b <= Backoff(a)
  BY <1>1, <1>2
<1>6. d \in {b, RetryAfter(h)} /\ d >= b /\ d >= RetryAfter(h)
  BY <1>1, <1>2, <1>3, LeastAndMost
<1>4. /\ Most(Backoff(a), RetryAfter(h)) >= Backoff(a) /\ Most(Backoff(a), RetryAfter(h)) >= RetryAfter(h)
      /\ Most(Backoff(a), RetryAfter(h)) \in Nat
  BY <1>2, LeastAndMost
<1>5. QED
  BY <1>2, <1>3, <1>4, <1>6

LEMMA DelayHolds == IInv => DelayInBounds
<1> SUFFICES ASSUME IInv, pc = "delay"
             PROVE  /\ decision.delay >= Backoff(now) \div 2
                    /\ decision.delay <= Most(Backoff(now), RetryAfterCap)
                    /\ asked.form \in {"seconds", "date"} => decision.delay >= Least(asked.ms, RetryAfterCap)
                    /\ asked.form \notin {"seconds", "date"} => decision.delay <= Backoff(now)
  BY DEF DelayInBounds
<1>1. now \in Attempts /\ asked \in RetryAfters \cup {NoHeader}
  BY DEF IInv, StateInv, TypeOK, DecisionInv
<1>2. decision.delay \in Delays(now, att[now].settled, asked)
  BY DEF IInv, DecisionInv, Decisions
<1>3. /\ decision.delay >= Backoff(now) \div 2 /\ decision.delay >= RetryAfter(asked)
      /\ decision.delay \in Nat /\ decision.delay <= Most(Backoff(now), RetryAfter(asked))
  BY <1>1, <1>2, DelaysAreBounded
<1>4. Backoff(now) \in Nat /\ RetryAfter(asked) \in Nat /\ RetryAfter(asked) <= RetryAfterCap /\ RetryAfterCap \in Nat
  BY <1>1, BackoffIsNatural, RetryAfterIsBounded DEF RetryAfterCap
<1>5. decision.delay <= Most(Backoff(now), RetryAfterCap)
  BY <1>3, <1>4, LeastAndMost
<1>6. ASSUME asked.form \notin {"seconds", "date"} PROVE decision.delay <= Backoff(now)
  <2>1. RetryAfter(asked) = 0
    BY <1>1, <1>6, RetryAfterIsBounded
  <2>2. Most(Backoff(now), 0) \in {Backoff(now), 0}
    BY <1>4, LeastAndMost
  <2>3. QED
    BY <1>3, <1>4, <2>1, <2>2
<1>7. asked.form \in {"seconds", "date"} => decision.delay >= Least(asked.ms, RetryAfterCap)
  BY <1>1, <1>3, RetryAfterIsBounded
<1>8. QED
  BY <1>3, <1>5, <1>6, <1>7

-----------------------------------------------------------------------------
(* Every step keeps the invariant. *)

LEMMA InitIInv == Init => IInv
<1> SUFFICES ASSUME Init PROVE IInv
  OBVIOUS
<1>1. Idle \in AttemptStates
  BY DEF Idle, AttemptStates, Sems, Failures, HttpFailures
<1>2. 1 \in Attempts /\ \A a \in Attempts : a \in Nat /\ a >= 1
  BY DEF Attempts, MaxAttempts
<1>3. StateInv
  <2>1. /\ Idle.net = "none" /\ Idle.timers = {} /\ Idle.parser = "none" /\ Idle.sem = "pre"
        /\ Idle.settled = "no" /\ Idle.count + Idle.rest <= MaxDeltas
    BY BoundAssumption DEF Idle
  <2>2. Len(queue) = 1
    BY DEF Init
  <2>3. TypeOK
    <3>1. \A a \in Attempts : att[a] = Idle
      BY DEF Init
    <3>2. pc = "before" /\ now = 1 /\ signal = FALSE /\ writer = "open" /\ shown = {}
      BY DEF Init
    <3>3. Len(queue) <= 2 /\ now \in Attempts
      BY <1>2, <2>2, <3>2
    <3>4. \A a \in Attempts :
            /\ att[a].net \in {"none", "connecting", "connected", "streaming", "gone"}
            /\ att[a].timers \subseteq {"connect", "ttfb", "idle"}
            /\ att[a].parser \in {"none", "reading", "hook", "ended"}
            /\ att[a].sem \in {"pre", "post", "unknown"}
            /\ att[a].settled \in Failures \cup {"no", "ok"}
            /\ att[a].count + att[a].rest <= MaxDeltas
      BY <2>1, <3>1
    <3>5. QED
      BY <3>2, <3>3, <3>4 DEF TypeOK
  <2>4. log \in Seq(Events) /\ queue \in Seq(Events)
    BY <1>2, EventsDiffer DEF Init
  <2>5. QED
    BY <1>1, <2>3, <2>4 DEF Init, StateInv
<1>4. AttemptInv
  BY <1>2 DEF Init, AttemptInv, Sound, Idle
<1>5. TimerInv /\ QueueInv /\ ShownInv /\ DecisionInv
  BY DEF Init, TimerInv, QueueInv, ShownInv, DecisionInv
<1>6. Len(log) = 0 /\ \A e : ~ Logged(e)
  BY DEF Init, Logged
<1>7. OrderInv /\ LogInv
  BY <1>2, <1>6 DEF Init, OrderInv, LogInv, Told, Idle
<1>8. QED
  BY <1>3, <1>4, <1>5, <1>7 DEF IInv

LEMMA ReachedIsInt ==
  IInv => /\ Reached \in Int /\ now \in Attempts /\ now \in Int
          /\ 1 <= now /\ now <= MaxAttempts /\ MaxAttempts \in Nat
  BY DEF IInv, StateInv, TypeOK, Reached, Attempts, MaxAttempts

\* The event at the head of the queue, and what the send is at.
LEMMA HeadOfQueue ==
  ASSUME IInv, queue # << >>
  PROVE  /\ Head(queue) \in Events
         /\ writer = "open" /\ Reached < Rank(Head(queue))
         /\ \/ /\ pc = "before" /\ Head(queue) = AttemptStarted(now) /\ Tail(queue) = << >>
               /\ att[now] = Idle
            \/ /\ pc = "attempt" /\ att[now].parser = "hook" /\ att[now].sem = "post"
               /\ Head(queue) = SemanticStarted(now) /\ Tail(queue) = << >>
            \/ /\ pc = "after" /\ att[now].parser = "hook" /\ att[now].sem = "post"
               /\ Head(queue) = SemanticStarted(now) /\ Tail(queue) = <<Interrupted(now, att[now].sem)>>
            \/ /\ pc = "after" /\ att[now].parser # "hook" /\ att[now].sem \in {"pre", "post"}
               /\ Head(queue) = Interrupted(now, att[now].sem) /\ Tail(queue) = << >>
            \/ /\ pc = "stopping" /\ att[now].parser # "hook"
               /\ Head(queue) = RunInterrupted /\ Tail(queue) = << >>
<1>1. now \in Attempts /\ now \in Int /\ 1 <= now /\ now <= MaxAttempts /\ MaxAttempts \in Nat
  BY ReachedIsInt
<1>2. /\ pc \in {"before", "attempt", "after", "delay", "stopping", "returned", "threw"}
      /\ writer \in {"open", "poisoned"} /\ att[now].sem \in Sems
  BY <1>1 DEF IInv, StateInv, TypeOK, AttemptStates
<1>3. \/ /\ pc = "before" /\ queue = <<AttemptStarted(now)>> /\ att[now] = Idle
      \/ /\ pc = "attempt" /\ att[now].parser = "hook" /\ att[now].sem = "post"
         /\ queue = <<SemanticStarted(now)>>
      \/ /\ pc = "after" /\ att[now].parser = "hook" /\ att[now].sem = "post"
         /\ queue = <<SemanticStarted(now), Interrupted(now, att[now].sem)>>
      \/ /\ pc = "after" /\ att[now].parser # "hook" /\ att[now].sem \in {"pre", "post"}
         /\ queue = <<Interrupted(now, att[now].sem)>>
      \/ /\ pc = "stopping" /\ att[now].parser # "hook" /\ queue = <<RunInterrupted>>
  <2>1. CASE pc \in {"delay", "returned", "threw"}
    BY <2>1 DEF IInv, QueueInv
  <2>2. CASE pc = "before"
    BY <1>1, <2>2 DEF IInv, QueueInv, AttemptInv, Sound
  <2>3. CASE pc = "stopping"
    BY <1>1, <2>3 DEF IInv, QueueInv, AttemptInv, Sound
  <2>4. CASE pc \in {"attempt", "after"} /\ att[now].parser = "hook"
    <3>1. Barrier = <<SemanticStarted(now)>> /\ att[now].sem = "post"
      BY <1>1, <2>4 DEF IInv, AttemptInv, Sound, Barrier
    <3>2. queue = IF pc = "attempt" THEN Barrier ELSE Append(Barrier, Interrupted(now, att[now].sem))
      BY <2>4 DEF IInv, QueueInv
    <3>3. QED
      BY <2>4, <3>1, <3>2, TwoInARow
  <2>5. CASE pc \in {"attempt", "after"} /\ att[now].parser # "hook"
    <3>1. Barrier = << >> /\ att[now].sem \in {"pre", "post"}
      BY <1>1, <1>2, <2>5 DEF IInv, AttemptInv, Sound, Barrier, Sems
    <3>2. queue = IF pc = "attempt" THEN Barrier ELSE Append(Barrier, Interrupted(now, att[now].sem))
      BY <2>5 DEF IInv, QueueInv
    <3>3. QED
      BY <2>5, <3>1, <3>2
  <2>6. QED
    BY <1>2, <2>1, <2>2, <2>3, <2>4, <2>5
<1>4. pc # "threw" /\ writer = "open"
  BY <1>2, <1>3 DEF IInv, LogInv, Told
<1>5. Head(queue) \in Events
  BY DEF IInv, StateInv
<1>6. Reached < Rank(Head(queue))
  BY <1>1, <1>2, <1>3, EventsDiffer DEF Reached, MaxAttempts
<1>7. /\ \A e : Head(<<e>>) = e /\ Tail(<<e>>) = << >>
      /\ \A e, f : Head(<<e, f>>) = e /\ Tail(<<e, f>>) = <<f>>
  OBVIOUS
<1>8. QED
  BY <1>3, <1>4, <1>5, <1>6, <1>7

LEMMA StateStays ==
  ASSUME pc' \in {"before", "attempt", "after", "delay", "stopping", "returned", "threw"},
         now' \in Attempts, signal' \in BOOLEAN, writer' \in {"open", "poisoned"},
         att' \in [Attempts -> AttemptStates],
         \A a \in Attempts : att'[a].count + att'[a].rest <= MaxDeltas,
         pc' = "attempt" => att'[now'].timers # {},
         log' \in Seq(Events), queue' \in Seq(Events), Len(queue') <= 2, shown' \subseteq Attempts
  PROVE  StateInv'
<1>1. \A a \in Attempts :
        /\ att'[a].net \in {"none", "connecting", "connected", "streaming", "gone"}
        /\ att'[a].timers \subseteq {"connect", "ttfb", "idle"}
        /\ att'[a].parser \in {"none", "reading", "hook", "ended"}
        /\ att'[a].sem \in {"pre", "post", "unknown"}
        /\ att'[a].settled \in Failures \cup {"no", "ok"}
  BY DEF AttemptStates, Sems
<1>2. TypeOK'
  BY <1>1 DEF TypeOK
<1>3. QED
  BY <1>2 DEF StateInv

LEMMA OthersStaySound ==
  ASSUME IInv, now' = now, NEW a \in Attempts \ {now}, att'[a] = att[a]
  PROVE  Sound(a)'
<1>1. a \in Int /\ now \in Int /\ Sound(a)
  BY ReachedIsInt DEF IInv, AttemptInv, Attempts, MaxAttempts
<1>2. att[a].net \notin {"connecting", "connected", "streaming"} /\ att[a].parser # "hook" /\ att[a].sem = "pre"
  BY <1>1 DEF Sound, Idle
<1>3. QED
  BY <1>1, <1>2 DEF Sound

LEMMA RejectKeeps ==
  ASSUME IInv, pc = "attempt", NEW f \in Failures, NEW h \in RetryAfters \cup {NoHeader},
         Reject(now, f, h, att, queue), signal' \in BOOLEAN, UNCHANGED <<now, log, writer, shown>>
  PROVE  IInv'
<1>1. /\ now \in Attempts /\ Reached \in Int
      /\ 1 <= now /\ now <= MaxAttempts /\ MaxAttempts \in Nat /\ now \in Int
  BY ReachedIsInt
<1>2. /\ att \in [Attempts -> AttemptStates] /\ att[now] \in AttemptStates
      /\ \A a \in Attempts : a # now => att'[a] = att[a]
      /\ att'[now] = [att[now] EXCEPT !.settled = f, !.timers = {}, !.net = "gone"]
      /\ pc' = "after"
  BY <1>1 DEF IInv, StateInv, Reject
<1>3. att' \in [Attempts -> AttemptStates]
  BY <1>1, <1>2 DEF Reject, AttemptStates
<1>4. att[now].sem \in {"pre", "post"} /\ att'[now].sem = att[now].sem /\ att'[now].parser = att[now].parser
  BY <1>1, <1>2 DEF IInv, TimerInv, AttemptStates
<1>5. queue = Barrier /\ queue' = Append(Barrier, Interrupted(now, att[now].sem)) /\ Barrier' = Barrier
  BY <1>1, <1>2, <1>4 DEF IInv, QueueInv, Reject, Barrier
<1>6. QueueInv'
  BY <1>2, <1>4, <1>5 DEF QueueInv
<1>7. StateInv'
  <2>1. queue' \in Seq(Events) /\ Len(queue') <= 2
    BY <1>1, <1>4, <1>5, EventsDiffer DEF Barrier, Sems
  <2>2. att'[now].count = att[now].count /\ att'[now].rest = att[now].rest
    BY <1>1, <1>2 DEF AttemptStates
  <2>3. \A a \in Attempts : att'[a].count = att[a].count /\ att'[a].rest = att[a].rest
    BY <1>2, <2>2
  <2>4. \A a \in Attempts : att'[a].count + att'[a].rest <= MaxDeltas
    BY <2>3 DEF IInv, StateInv, TypeOK
  <2>5. QED
    BY <1>1, <1>2, <1>3, <2>1, <2>4, StateStays DEF IInv, StateInv, TypeOK
<1>8. AttemptInv'
  <2>1. att'[now].net = "gone" /\ att'[now].count = att[now].count
    BY <1>1, <1>2 DEF AttemptStates
  <2>2. att'[now].sem \in {"pre", "post"} /\ (att'[now].count = 0) = (att'[now].sem = "pre")
    BY <1>1, <1>4, <2>1 DEF IInv, AttemptInv, Sound
  <2>3. att'[now].parser = "hook" => att'[now].sem = "post"
    BY <1>1, <1>4 DEF IInv, AttemptInv, Sound
  <2>4. att'[now].parser \in {"none", "reading"} => att'[now].rest = 0
    BY <1>1, <1>2 DEF IInv, AttemptInv, Sound, AttemptStates
  <2>5. Sound(now)'
    BY <1>1, <1>2, <2>1, <2>2, <2>3, <2>4 DEF Sound
  <2>6. QED
    BY <1>1, <1>2, <2>5, OthersStaySound DEF AttemptInv
<1>9. OrderInv'
  <2>1. Reached' = Reached
    BY <1>1, <1>2, <1>4 DEF Reached
  <2>2. QED
    BY <1>1, <2>1, OrderStays DEF IInv, StateInv
<1>10. LogInv' /\ ShownInv'
  <2>1. \A e : Logged(e)' <=> Logged(e)
    BY Unlogged
  <2>2. \A a \in Attempts : att'[a].sem = att[a].sem /\ att'[a].parser = att[a].parser
    BY <1>1, <1>2, <1>4
  <2>3. ~ Logged(RunInterrupted)
    BY DEF IInv, LogInv, Told
  <2>4. LogInv'
    BY <1>1, <1>2, <2>1, <2>2, <2>3 DEF IInv, LogInv, Told
  <2>5. ShownInv'
    BY <1>1, <2>1, <2>2 DEF IInv, ShownInv, StateInv, TypeOK
  <2>6. QED
    BY <2>4, <2>5
<1>11. TimerInv' /\ DecisionInv'
  BY <1>1, <1>2, <1>4 DEF TimerInv, DecisionInv, Reject, AttemptStates
<1>12. QED
  BY <1>6, <1>7, <1>8, <1>9, <1>10, <1>11 DEF IInv

\* What the send does while it waits for the attempt, without the journal.
LEMMA AttemptStepKeeps ==
  ASSUME IInv, pc = "attempt", pc' = "attempt", att' \in [Attempts -> AttemptStates],
         \A a \in Attempts \ {now} : att'[a] = att[a],
         UNCHANGED <<now, decision, asked, signal, queue, log, writer>>,
         shown' = shown \/ (shown' = shown \cup {now} /\ att[now].sem = "post"),
         att[now].parser # "hook", att'[now].parser # "hook",
         att'[now].sem = att[now].sem, att'[now].rest = att[now].rest,
         att'[now].count + att[now].rest <= MaxDeltas,
         (att'[now].count = 0) = (att[now].sem = "pre"),
         IF att[now].sem = "pre" THEN "ttfb" \in att'[now].timers ELSE "idle" \in att'[now].timers,
         att'[now].net \in {"connecting", "connected"} => att'[now].parser = "none" /\ att[now].sem = "pre",
         att'[now].parser \in {"none", "reading"} => att[now].rest = 0
  PROVE  IInv'
<1>1. /\ now \in Attempts /\ Reached \in Int /\ now' = now
      /\ 1 <= now /\ now <= MaxAttempts /\ MaxAttempts \in Nat /\ now \in Int
  BY ReachedIsInt
<1>2. att[now].sem \in {"pre", "post"}
  BY DEF IInv, TimerInv
<1>3. StateInv'
  <2>1. \A a \in Attempts : att'[a].count + att'[a].rest <= MaxDeltas
    BY DEF IInv, StateInv, TypeOK
  <2>2. att'[now].timers # {}
    BY <1>2
  <2>3. QED
    BY <1>1, <2>1, <2>2, StateStays DEF IInv, StateInv, TypeOK
<1>4. AttemptInv'
  <2>1. Sound(now)'
    BY <1>1, <1>2 DEF IInv, AttemptInv, Sound
  <2>2. QED
    BY <1>1, <2>1, OthersStaySound DEF AttemptInv
<1>5. QueueInv'
  BY <1>1 DEF IInv, QueueInv, Barrier
<1>6. OrderInv'
  <2>1. Reached' = Reached
    BY <1>1, <1>2 DEF Reached
  <2>2. QED
    BY <1>1, <2>1, OrderStays DEF IInv, StateInv
<1>7. LogInv' /\ ShownInv'
  <2>1. \A e : Logged(e)' <=> Logged(e)
    BY Unlogged
  <2>2. \A a \in Attempts : att'[a].sem = att[a].sem /\ (att'[a].parser = "hook") = (att[a].parser = "hook")
    BY <1>1
  <2>3. ~ Logged(RunInterrupted)
    BY DEF IInv, LogInv, Told
  <2>4. LogInv'
    BY <1>1, <2>1, <2>2, <2>3 DEF IInv, LogInv, Told
  <2>5. att[now].sem = "post" => Logged(SemanticStarted(now))
    BY <1>1 DEF IInv, LogInv, Told
  <2>6. \A a \in shown : a \in Attempts /\ att[a].sem # "pre" /\ Logged(SemanticStarted(a))
    BY DEF IInv, ShownInv, StateInv, TypeOK
  <2>7. \A a \in shown' : a \in Attempts /\ att[a].sem # "pre" /\ Logged(SemanticStarted(a))
    BY <1>1, <2>5, <2>6
  <2>8. ShownInv'
    BY <2>1, <2>2, <2>7 DEF ShownInv
  <2>9. QED
    BY <2>4, <2>8
<1>8. TimerInv' /\ DecisionInv'
  BY <1>1, <1>2 DEF IInv, TimerInv, DecisionInv
<1>9. QED
  BY <1>3, <1>4, <1>5, <1>6, <1>7, <1>8 DEF IInv

\* The attempt the send waits for.
LEMMA OpenAttempt ==
  ASSUME IInv, pc = "attempt"
  PROVE  /\ now \in Attempts /\ att \in [Attempts -> AttemptStates] /\ att[now] \in AttemptStates
         /\ Sound(now) /\ att[now].count + att[now].rest <= MaxDeltas
         /\ att[now].count \in Nat /\ att[now].rest \in Nat
         /\ att[now].sem \in {"pre", "post"}
         /\ IF att[now].sem = "pre" THEN "ttfb" \in att[now].timers ELSE "idle" \in att[now].timers
         /\ signal \in BOOLEAN /\ MaxDeltas \in Nat
<1>1. now \in Attempts /\ att[now].sem \in {"pre", "post"}
  BY DEF IInv, StateInv, TypeOK, TimerInv
<1>2. att \in [Attempts -> AttemptStates] /\ att[now] \in AttemptStates
  BY <1>1 DEF IInv, StateInv
<1>3. att[now].count \in Nat /\ att[now].rest \in Nat
  BY <1>2 DEF AttemptStates
<1>4. QED
  BY <1>1, <1>2, <1>3, BoundAssumption DEF IInv, StateInv, TypeOK, TimerInv, AttemptInv

LEMMA FailsKeeps ==
  ASSUME IInv, NEW a \in Attempts, NEW f \in Failures, NEW h \in RetryAfters \cup {NoHeader}, Fails(a, f, h)
  PROVE  IInv'
<1>1. pc = "attempt" /\ a = now
  BY DEF Fails, Open
<1>2. Reject(now, f, h, att, queue) /\ UNCHANGED <<now, signal, log, writer, shown>>
  BY <1>1 DEF Fails
<1>3. signal' \in BOOLEAN
  BY <1>1, <1>2, OpenAttempt
<1>4. QED
  BY <1>1, <1>2, <1>3, RejectKeeps

LEMMA FailuresKeep ==
  ASSUME IInv, NEW a \in Attempts,
         \/ \E t \in att[a].timers : TimerFires(a, t)
         \/ RequestError(a) \/ Refused(a) \/ NotAStream(a) \/ StreamFails(a)
  PROVE  IInv'
<1>1. PICK f \in Failures, h \in RetryAfters \cup {NoHeader} : Fails(a, f, h)
  BY DEF TimerFires, RequestError, Refused, NotAStream, StreamFails, Failures, HttpFailures
<1>2. QED
  BY <1>1, FailsKeeps

LEMMA ConnectedKeeps == ASSUME IInv, NEW a \in Attempts, Connected(a) PROVE IInv'
<1>1. pc = "attempt" /\ a = now /\ att[now].net = "connecting" /\ pc' = "attempt"
  BY DEF Connected, OnlyAttempt, Open
<1>2. att' = [att EXCEPT ![now].net = "connected", ![now].timers = @ \ {"connect"}]
  BY <1>1 DEF Connected, OnlyAttempt
<1>3. /\ att' \in [Attempts -> AttemptStates] /\ \A b \in Attempts \ {now} : att'[b] = att[b]
      /\ att'[now].net = "connected" /\ att'[now].timers = att[now].timers \ {"connect"}
      /\ att'[now].parser = att[now].parser /\ att'[now].sem = att[now].sem
      /\ att'[now].rest = att[now].rest /\ att'[now].count = att[now].count
  BY <1>1, <1>2, OpenAttempt DEF AttemptStates
<1>4. att[now].parser = "none" /\ att[now].sem = "pre" /\ att[now].rest = 0 /\ att[now].count = 0
  BY <1>1, OpenAttempt DEF Sound
<1>5. QED
  BY <1>1, <1>3, <1>4, OpenAttempt, AttemptStepKeeps DEF Connected, OnlyAttempt

LEMMA RespondsKeeps == ASSUME IInv, NEW a \in Attempts, Responds(a) PROVE IInv'
<1>1. pc = "attempt" /\ a = now /\ att[now].net = "connected" /\ pc' = "attempt"
  BY DEF Responds, OnlyAttempt, Open
<1>2. att' = [att EXCEPT ![now].net = "streaming", ![now].parser = "reading"]
  BY <1>1 DEF Responds, OnlyAttempt
<1>3. /\ att' \in [Attempts -> AttemptStates] /\ \A b \in Attempts \ {now} : att'[b] = att[b]
      /\ att'[now].net = "streaming" /\ att'[now].timers = att[now].timers
      /\ att'[now].parser = "reading" /\ att'[now].sem = att[now].sem
      /\ att'[now].rest = att[now].rest /\ att'[now].count = att[now].count
  BY <1>1, <1>2, OpenAttempt DEF AttemptStates
<1>4. att[now].parser = "none" /\ att[now].sem = "pre" /\ att[now].rest = 0 /\ att[now].count = 0
  BY <1>1, OpenAttempt DEF Sound
<1>5. QED
  BY <1>1, <1>3, <1>4, OpenAttempt, AttemptStepKeeps DEF Responds, OnlyAttempt

LEMMA LateTimerKeeps ==
  ASSUME IInv, NEW a \in Attempts, NEW t \in att[a].timers, LateTimer(a, t)
  PROVE  IInv'
<1>1. /\ now \in Attempts /\ Reached \in Int /\ now' = now /\ now \in Int /\ a \in Int
      /\ att \in [Attempts -> AttemptStates] /\ ~ (pc = "attempt" /\ a = now)
      /\ UNCHANGED <<pc, decision, asked, signal, queue, log, writer, shown>>
  BY ReachedIsInt DEF LateTimer, Open, IInv, StateInv, Attempts, MaxAttempts
<1>2. /\ att' \in [Attempts -> AttemptStates] /\ \A b \in Attempts \ {a} : att'[b] = att[b]
      /\ att'[a].timers = att[a].timers \ {t} /\ att'[a].net = att[a].net
      /\ att'[a].parser = att[a].parser /\ att'[a].sem = att[a].sem /\ att'[a].settled = att[a].settled
      /\ att'[a].rest = att[a].rest /\ att'[a].count = att[a].count
  BY <1>1 DEF LateTimer, AttemptStates
<1>3. /\ \A b \in Attempts :
           /\ att'[b].net = att[b].net /\ att'[b].parser = att[b].parser /\ att'[b].sem = att[b].sem
           /\ att'[b].settled = att[b].settled /\ att'[b].rest = att[b].rest /\ att'[b].count = att[b].count
      /\ pc = "attempt" => att'[now] = att[now]
  BY <1>1, <1>2
<1>4. StateInv'
  <2>1. \A b \in Attempts : att'[b].count + att'[b].rest <= MaxDeltas
    BY <1>3 DEF IInv, StateInv, TypeOK
  <2>2. QED
    BY <1>1, <1>2, <1>3, <2>1, StateStays DEF IInv, StateInv, TypeOK
<1>5. AttemptInv'
  <2>1. att[a] # Idle
    BY DEF Idle
  <2>2. \A b \in Attempts : att[b] = Idle => att'[b] = Idle
    BY <1>2, <2>1
  <2>3. QED
    BY <1>1, <1>3, <2>2 DEF IInv, AttemptInv, Sound
<1>6. QueueInv' /\ TimerInv' /\ DecisionInv'
  <2>1. QueueInv'
    BY <1>1, <1>3 DEF IInv, QueueInv, Barrier
  <2>2. TimerInv'
    BY <1>1, <1>3 DEF IInv, TimerInv
  <2>3. DecisionInv'
    BY <1>1, <1>3 DEF IInv, DecisionInv
  <2>4. QED
    BY <2>1, <2>2, <2>3
<1>7. OrderInv'
  <2>1. Reached' = Reached
    BY <1>1, <1>3 DEF Reached
  <2>2. QED
    BY <1>1, <2>1, OrderStays DEF IInv, StateInv
<1>8. LogInv' /\ ShownInv'
  <2>1. \A e : Logged(e)' <=> Logged(e)
    BY <1>1, Unlogged
  <2>2. LogInv'
    BY <1>1, <1>3, <2>1 DEF IInv, LogInv, Told
  <2>3. ShownInv'
    BY <1>1, <1>3, <2>1 DEF IInv, ShownInv, StateInv, TypeOK
  <2>4. QED
    BY <2>2, <2>3
<1>9. QED
  BY <1>4, <1>5, <1>6, <1>7, <1>8 DEF IInv

\* Deltas that were taken.
LEMMA TakenIs ==
  ASSUME NEW a \in Attempts, NEW k \in Nat, att \in [Attempts -> AttemptStates]
  PROVE  /\ Taken(a, k) \in [Attempts -> AttemptStates]
         /\ \A b \in Attempts \ {a} : Taken(a, k)[b] = att[b]
         /\ Taken(a, k)[a].net = att[a].net /\ Taken(a, k)[a].settled = att[a].settled
         /\ Taken(a, k)[a].timers = (att[a].timers \ {"ttfb"}) \cup {"idle"}
         /\ Taken(a, k)[a].parser = att[a].parser /\ Taken(a, k)[a].sem = att[a].sem
         /\ Taken(a, k)[a].rest = att[a].rest /\ Taken(a, k)[a].count = att[a].count + k
<1> DEFINE more == att[a].count + k
           timers == (att[a].timers \ {"ttfb"}) \cup {"idle"}
           r == [att[a] EXCEPT !.count = more, !.timers = timers]
<1>1. Taken(a, k) = [att EXCEPT ![a] = r]
  BY DEF Taken
<1>2. att[a] \in AttemptStates
  OBVIOUS
<1>3. more \in Nat /\ timers \in SUBSET {"connect", "ttfb", "idle"}
  BY <1>2 DEF AttemptStates
<1>4. /\ r \in AttemptStates /\ r.count = more /\ r.timers = timers /\ r.net = att[a].net
      /\ r.settled = att[a].settled /\ r.parser = att[a].parser /\ r.sem = att[a].sem /\ r.rest = att[a].rest
  <2> HIDE DEF more, timers
  <2>1. QED
    BY <1>2, <1>3 DEF AttemptStates
<1>5. QED
  <2> HIDE DEF r
  <2>1. QED
    BY <1>1, <1>4

LEMMA ChunkKeeps == ASSUME IInv, NEW a \in Attempts, NEW n \in 1..MaxDeltas, Chunk(a, n) PROVE IInv'
<1>1. /\ pc = "attempt" /\ a = now /\ att[now].parser = "reading" /\ att[now].net = "streaming"
      /\ UNCHANGED <<pc, now, decision, asked, signal, log, writer>>
  BY DEF Chunk, Streaming, IInv, AttemptInv, Sound
<1>2. /\ now \in Attempts /\ att \in [Attempts -> AttemptStates] /\ att[now] \in AttemptStates
      /\ att[now].rest = 0 /\ att[now].count \in Nat /\ MaxDeltas \in Nat
      /\ n \in Nat /\ n >= 1 /\ att[now].count + n <= MaxDeltas
  BY <1>1, OpenAttempt DEF Sound, Chunk
<1>3. CASE att[now].sem = "post"
  <2>1. att' = Taken(now, n) /\ shown' = shown \cup {now} /\ queue' = queue
    BY <1>1, <1>3 DEF Chunk
  <2>2. /\ att' \in [Attempts -> AttemptStates] /\ \A b \in Attempts \ {now} : att'[b] = att[b]
        /\ att'[now].net = att[now].net /\ att'[now].timers = (att[now].timers \ {"ttfb"}) \cup {"idle"}
        /\ att'[now].parser = att[now].parser /\ att'[now].sem = att[now].sem
        /\ att'[now].rest = att[now].rest /\ att'[now].count = att[now].count + n
    BY <1>2, <2>1, TakenIs
  <2>3. att'[now].count # 0 /\ att'[now].count + att[now].rest <= MaxDeltas
    BY <1>2, <2>2
  <2>4. QED
    BY <1>1, <1>2, <1>3, <2>1, <2>2, <2>3, AttemptStepKeeps
<1>4. CASE att[now].sem = "pre"
  <2>1. /\ att' = [Taken(now, 1) EXCEPT ![now].sem = "post", ![now].parser = "hook", ![now].rest = n - 1]
        /\ queue' = Append(queue, SemanticStarted(now)) /\ shown' = shown
    BY <1>1, <1>4 DEF Chunk
  <2>2. /\ Taken(now, 1) \in [Attempts -> AttemptStates]
        /\ \A b \in Attempts \ {now} : Taken(now, 1)[b] = att[b]
        /\ Taken(now, 1)[now].net = att[now].net
        /\ Taken(now, 1)[now].timers = (att[now].timers \ {"ttfb"}) \cup {"idle"}
        /\ Taken(now, 1)[now].count = att[now].count + 1
    BY <1>2, TakenIs
  <2>3. /\ att' \in [Attempts -> AttemptStates] /\ \A b \in Attempts \ {now} : att'[b] = att[b]
        /\ att'[now].net = "streaming" /\ "idle" \in att'[now].timers
        /\ att'[now].parser = "hook" /\ att'[now].sem = "post"
        /\ att'[now].rest = n - 1 /\ att'[now].count = att[now].count + 1
    <3> DEFINE t == Taken(now, 1)[now]
               m == n - 1
               r == [t EXCEPT !.sem = "post", !.parser = "hook", !.rest = m]
    <3>1. t \in AttemptStates /\ m \in Nat
      BY <1>2, <2>2
    <3>4. att' = [Taken(now, 1) EXCEPT ![now] = r]
      BY <2>1
    <3>2. /\ r \in AttemptStates /\ r.sem = "post" /\ r.parser = "hook" /\ r.rest = m
          /\ r.net = t.net /\ r.timers = t.timers /\ r.count = t.count
      <4> HIDE DEF t, m
      <4>1. QED
        BY <3>1 DEF AttemptStates, Sems
    <3>3. QED
      <4> HIDE DEF r
      <4>1. QED
        BY <1>1, <1>2, <2>2, <3>1, <3>2, <3>4
  <2>4. queue = << >> /\ queue' = <<SemanticStarted(now)>>
    <3>1. queue = << >>
      BY <1>1 DEF IInv, QueueInv, Barrier
    <3>2. QED
      BY <2>1, <3>1
  <2>5. StateInv'
    <3>1. att'[now].count + att'[now].rest <= MaxDeltas
      BY <1>2, <2>3
    <3>2. \A b \in Attempts : att'[b].count + att'[b].rest <= MaxDeltas
      BY <2>3, <3>1 DEF IInv, StateInv, TypeOK
    <3>3. queue' \in Seq(Events) /\ Len(queue') <= 2
      BY <1>2, <2>4, EventsDiffer
    <3>4. QED
      BY <1>1, <1>2, <2>1, <2>3, <3>2, <3>3, StateStays DEF IInv, StateInv, TypeOK
  <2>6. AttemptInv'
    <3>1. att'[now].count # 0 /\ now \in Int /\ now' = now
      BY <1>1, <1>2, <2>3, ReachedIsInt
    <3>2. Sound(now)'
      BY <1>1, <2>3, <3>1 DEF Sound
    <3>3. QED
      BY <1>1, <2>3, <3>2, OthersStaySound DEF AttemptInv
  <2>7. QueueInv' /\ TimerInv' /\ DecisionInv'
    BY <1>1, <2>3, <2>4 DEF IInv, QueueInv, Barrier, TimerInv, DecisionInv
  <2>8. OrderInv'
    <3>1. Reached' = Reached
      BY <1>1, <1>4, <2>3 DEF Reached
    <3>2. QED
      BY <1>1, <3>1, ReachedIsInt, OrderStays DEF IInv, StateInv
  <2>9. LogInv' /\ ShownInv'
    <3>1. \A e : Logged(e)' <=> Logged(e)
      BY <1>1, Unlogged
    <3>2. \A s \in Sems : ~ Logged(Interrupted(now, s))
      <4>1. Reached = 4 * now /\ now \in Int
        BY <1>1, <1>4, ReachedIsInt DEF Reached
      <4>2. QED
        BY <1>2, <4>1, EventsDiffer, LoggedIsReached DEF IInv, StateInv
    <3>3. ~ Logged(RunInterrupted) /\ writer # "poisoned" /\ now \notin shown
      BY <1>1, <1>4 DEF IInv, LogInv, Told, ShownInv
    <3>4. LogInv'
      <4>1. \A b \in Attempts \ {now} : att'[b] = att[b] /\ now' = now /\ writer' = writer /\ pc' = pc
        BY <1>1, <2>3
      <4>2. ~ Logged(SemanticStarted(now))
        BY <1>2, <1>4 DEF IInv, LogInv, Told
      <4>3. QED
        BY <1>1, <1>2, <2>3, <3>1, <3>2, <3>3, <4>1, <4>2 DEF IInv, LogInv, Told
    <3>5. ShownInv'
      BY <2>1, <2>3, <3>1, <3>3 DEF IInv, ShownInv, StateInv, TypeOK
    <3>6. QED
      BY <3>4, <3>5
  <2>10. QED
    BY <2>5, <2>6, <2>7, <2>8, <2>9 DEF IInv
<1>5. QED
  BY <1>1, <1>3, <1>4, OpenAttempt

LEMMA CompletesKeeps == ASSUME IInv, NEW a \in Attempts, Completes(a) PROVE IInv'
<1>1. /\ pc = "attempt" /\ a = now /\ att[now].parser = "reading" /\ att[now].net = "streaming"
      /\ pc' = "returned"
      /\ att' = [att EXCEPT ![now].settled = "ok", ![now].timers = {}, ![now].parser = "ended", ![now].net = "gone"]
      /\ UNCHANGED <<now, decision, asked, signal, queue, log, writer, shown>>
  BY DEF Completes, Open, Streaming
<1>2. /\ now \in Attempts /\ att \in [Attempts -> AttemptStates] /\ Sound(now) /\ Reached \in Int /\ now \in Int
      /\ att[now].sem \in {"pre", "post"}
  BY <1>1, OpenAttempt, ReachedIsInt
<1>3. /\ att' \in [Attempts -> AttemptStates] /\ \A b \in Attempts \ {now} : att'[b] = att[b]
      /\ att'[now].net = "gone" /\ att'[now].parser = "ended" /\ att'[now].sem = att[now].sem
      /\ att'[now].rest = att[now].rest /\ att'[now].count = att[now].count
  BY <1>1, <1>2 DEF AttemptStates
<1>4. StateInv'
  <2>1. \A b \in Attempts : att'[b].count + att'[b].rest <= MaxDeltas
    BY <1>3 DEF IInv, StateInv, TypeOK
  <2>2. QED
    BY <1>1, <1>2, <1>3, <2>1, StateStays DEF IInv, StateInv, TypeOK
<1>5. AttemptInv'
  <2>1. Sound(now)'
    BY <1>1, <1>2, <1>3 DEF Sound
  <2>2. QED
    BY <1>1, <1>3, <2>1, OthersStaySound DEF AttemptInv
<1>6. QueueInv' /\ TimerInv' /\ DecisionInv'
  BY <1>1 DEF IInv, QueueInv, Barrier, TimerInv, DecisionInv
<1>7. OrderInv'
  <2>1. Reached <= Reached' /\ Reached' \in Int
    BY <1>1, <1>2 DEF Reached
  <2>2. QED
    BY <1>1, <1>2, <2>1, OrderStays DEF IInv, StateInv
<1>8. LogInv' /\ ShownInv'
  <2>1. \A e : Logged(e)' <=> Logged(e)
    BY <1>1, Unlogged
  <2>2. /\ \A b \in Attempts : att'[b].sem = att[b].sem /\ (att'[b].parser = "hook") = (att[b].parser = "hook")
        /\ ~ Logged(RunInterrupted)
    BY <1>1, <1>3 DEF IInv, LogInv, Told
  <2>3. LogInv'
    BY <1>1, <2>1, <2>2 DEF IInv, LogInv, Told
  <2>4. ShownInv'
    BY <1>1, <2>1, <2>2 DEF IInv, ShownInv, StateInv, TypeOK
  <2>5. QED
    BY <2>3, <2>4
<1>9. QED
  BY <1>4, <1>5, <1>6, <1>7, <1>8 DEF IInv

LEMMA RetryKeeps == ASSUME IInv, Retry PROVE IInv'
<1>1. /\ pc = "delay" /\ pc' = "before" /\ now' = now + 1 /\ queue' = Append(queue, AttemptStarted(now + 1))
      /\ UNCHANGED <<att, decision, asked, signal, log, writer, shown>>
  BY DEF Retry
<1>2. /\ now \in Attempts /\ Reached \in Int /\ now \in Int /\ 1 <= now /\ now <= MaxAttempts
      /\ \A a \in Attempts : a \in Int
  BY ReachedIsInt DEF Attempts, MaxAttempts
<1>3. att[now].sem = "pre" /\ now < MaxAttempts /\ now + 1 \in Attempts
  <2>1. Retryable(now, att[now].settled, att[now].sem)
    BY <1>1 DEF IInv, DecisionInv, Decisions
  <2>2. QED
    BY <1>2, <2>1 DEF Retryable, Attempts, MaxAttempts
<1>4. queue' = <<AttemptStarted(now + 1)>>
  <2>1. queue = << >>
    BY <1>1 DEF IInv, QueueInv
  <2>2. QED
    BY <1>1, <2>1
<1>5. StateInv'
  <2>1. AttemptStarted(now + 1) \in Events
    BY <1>3, EventsDiffer
  <2>3. queue' \in Seq(Events) /\ Len(queue') <= 2
    BY <1>4, <2>1
  <2>2. QED
    BY <1>1, <1>3, <2>3, StateStays DEF IInv, StateInv, TypeOK
<1>6. AttemptInv'
  <2>1. SUFFICES ASSUME NEW a \in Attempts PROVE Sound(a)'
    BY DEF AttemptInv
  <2>2. Sound(a) /\ att'[a] = att[a] /\ a \in Int
    BY <1>1, <1>2 DEF IInv, AttemptInv
  <2>3. att[a].net \notin {"connecting", "connected", "streaming"} /\ att[a].parser # "hook" /\ att[a].sem # "unknown"
    BY <1>1, <2>2 DEF Sound
  <2>4. CASE a <= now
    <3>1. att[a].sem = "pre" /\ a < now + 1
      BY <1>2, <1>3, <2>2, <2>4 DEF Sound
    <3>2. QED
      BY <1>1, <1>2, <2>2, <2>3, <3>1 DEF Sound
  <2>5. CASE a > now
    <3>1. ~ (a < now + 1)
      BY <1>2, <2>2, <2>5
    <3>2. QED
      BY <1>1, <1>2, <2>2, <2>3, <2>5, <3>1 DEF Sound
  <2>6. QED
    BY <1>2, <2>2, <2>4, <2>5
<1>7. QueueInv' /\ TimerInv' /\ DecisionInv'
  BY <1>1, <1>4 DEF IInv, QueueInv, TimerInv, DecisionInv
<1>8. OrderInv'
  <2>1. Reached <= Reached' /\ Reached' \in Int
    BY <1>1, <1>2 DEF Reached
  <2>2. QED
    BY <1>1, <1>2, <2>1, OrderStays DEF IInv, StateInv
<1>9. LogInv' /\ ShownInv'
  <2>1. \A e : Logged(e)' <=> Logged(e)
    BY <1>1, Unlogged
  <2>2. ~ Logged(RunInterrupted) /\ writer # "poisoned" /\ Logged(Interrupted(now, "pre"))
    BY <1>1, <1>3 DEF IInv, LogInv, Told
  <2>3. \A a \in Attempts : (a < now' => a < now \/ a = now) /\ (a <= now => a <= now')
    BY <1>1, <1>2
  <2>4. LogInv'
    BY <1>1, <2>1, <2>2, <2>3 DEF IInv, LogInv, Told
  <2>5. ShownInv'
    BY <1>1, <2>1 DEF IInv, ShownInv
  <2>6. QED
    BY <2>4, <2>5
<1>10. QED
  BY <1>5, <1>6, <1>7, <1>8, <1>9 DEF IInv

LEMMA AbortKeeps == ASSUME IInv, Abort PROVE IInv'
<1>1. signal' = TRUE /\ UNCHANGED <<now, log, writer, shown>>
  BY DEF Abort
<1>2. CASE pc = "attempt"
  <2>1. Reject(now, "cancelled", NoHeader, att, queue)
    BY <1>2 DEF Abort
  <2>2. "cancelled" \in Failures /\ NoHeader \in RetryAfters \cup {NoHeader} /\ signal' \in BOOLEAN
    BY <1>1 DEF Failures
  <2>3. QED
    BY <1>1, <1>2, <2>1, <2>2, RejectKeeps
<1>3. CASE pc # "attempt"
  <2>1. /\ UNCHANGED <<att, decision, asked>>
        /\ \/ pc' = pc /\ queue' = queue
           \/ pc = "delay" /\ pc' = "stopping" /\ queue' = Append(queue, RunInterrupted)
    BY <1>3 DEF Abort
  <2>2. \/ pc' = pc /\ queue' = queue
        \/ pc = "delay" /\ pc' = "stopping" /\ queue' = <<RunInterrupted>>
    <3>1. pc = "delay" => queue = << >>
      BY DEF IInv, QueueInv
    <3>2. QED
      BY <2>1, <3>1, OneInARow
  <2>3. StateInv'
    <3>3. <<RunInterrupted>> \in Seq(Events) /\ Len(<<RunInterrupted>>) = 1
      BY EventsDiffer
    <3>4. queue \in Seq(Events) /\ Len(queue) <= 2
      BY DEF IInv, StateInv, TypeOK
    <3>1. queue' \in Seq(Events) /\ Len(queue') <= 2
      <4>1. CASE queue' = queue
        BY <3>4, <4>1
      <4>2. CASE queue' = <<RunInterrupted>>
        BY <3>3, <4>2
      <4>3. QED
        BY <2>2, <4>1, <4>2
    <3>2. QED
      BY <1>1, <1>3, <2>1, <2>2, <3>1, StateStays DEF IInv, StateInv, TypeOK
  <2>4. AttemptInv'
    BY <1>1, <2>1, <2>2 DEF IInv, AttemptInv, Sound
  <2>5. QueueInv' /\ TimerInv' /\ DecisionInv'
    <3>1. QueueInv'
      BY <1>1, <1>3, <2>1, <2>2 DEF IInv, QueueInv, Barrier
    <3>2. TimerInv' /\ DecisionInv'
      BY <1>1, <1>3, <2>1, <2>2 DEF IInv, TimerInv, DecisionInv
    <3>3. QED
      BY <3>1, <3>2
  <2>6. OrderInv'
    <3>1. Reached' = Reached
      BY <1>1, <2>1, <2>2 DEF Reached
    <3>2. QED
      BY <1>1, <3>1, ReachedIsInt, OrderStays DEF IInv, StateInv
  <2>7. LogInv' /\ ShownInv'
    <3>1. \A e : Logged(e)' <=> Logged(e)
      BY <1>1, Unlogged
    <3>2. QED
      BY <1>1, <2>1, <2>2, <3>1 DEF IInv, LogInv, Told, ShownInv
  <2>8. QED
    BY <2>3, <2>4, <2>5, <2>6, <2>7 DEF IInv
<1>4. QED
  BY <1>2, <1>3

\* An append has ended, and nothing is wrong with the journal.
LEMMA AppendGrows ==
  ASSUME IInv, NEW e \in Events, log' = Append(log, e), Reached < Rank(e), Rank(e) = Reached',
         Reached' \in Int
  PROVE  /\ OrderInv' /\ log' \in Seq(Events)
         /\ \A f : Logged(f)' <=> (Logged(f) \/ f = e)
         /\ \A f : Logged(f) => Rank(f) < Rank(e)
<1>1. log \in Seq(Events) /\ OrderInv /\ Reached \in Int
  BY ReachedIsInt DEF IInv, StateInv
<1>2. OrderInv'
  BY <1>1, OrderGrows
<1>3. \A f : Logged(f) => Rank(f) < Rank(e)
  <2>1. \A f : Logged(f) => f \in Events
    BY <1>1 DEF Logged
  <2>2. QED
    BY <1>1, <2>1, LoggedIsReached, RanksAreNatural
<1>4. QED
  BY <1>1, <1>2, <1>3, Growth

LEMMA AttemptRecordedKeeps == ASSUME IInv, AttemptRecorded PROVE IInv'
<1>1. /\ queue # << >> /\ Head(queue).type = "request_attempt_started"
      /\ log' = Append(log, Head(queue)) /\ UNCHANGED <<now, signal, writer, shown>>
  BY DEF AttemptRecorded, Done
<1>2. now \in Attempts /\ Reached \in Int /\ now \in Int /\ att \in [Attempts -> AttemptStates]
  BY ReachedIsInt DEF IInv, StateInv
<1>3. /\ pc = "before" /\ Head(queue) = AttemptStarted(now) /\ Tail(queue) = << >> /\ att[now] = Idle
      /\ writer = "open" /\ Reached < Rank(Head(queue))
  <2>1. att[now].sem \in Sems
    BY <1>2 DEF AttemptStates
  <2>2. QED
    BY <1>1, <1>2, <2>1, HeadOfQueue, EventsDiffer
<1>4. /\ att' \in [Attempts -> AttemptStates] /\ \A a \in Attempts \ {now} : att'[a] = att[a]
      /\ att'[now].parser = "none" /\ att'[now].sem = "pre" /\ att'[now].rest = 0 /\ att'[now].count = 0
      /\ \/ /\ pc' = "attempt" /\ queue' = << >> /\ UNCHANGED <<decision, asked>>
            /\ att'[now].net = "connecting" /\ att'[now].timers = {"connect", "ttfb"}
         \/ /\ pc' = "after" /\ queue' = <<Interrupted(now, "pre")>>
            /\ att'[now].net = "gone" /\ att'[now].settled = "cancelled"
            /\ asked' = NoHeader /\ decision' \in Decisions(now, "cancelled", "pre", NoHeader)
  <2>1. CASE signal
    <3>1. /\ att' = [att EXCEPT ![now].settled = "cancelled", ![now].timers = {}, ![now].net = "gone"]
          /\ pc' = "after" /\ queue' = <<Interrupted(now, "pre")>> /\ asked' = NoHeader
          /\ decision' \in Decisions(now, "cancelled", "pre", NoHeader)
      BY <1>3, <2>1, OneInARow DEF AttemptRecorded, Reject, Idle
    <3> DEFINE r == [Idle EXCEPT !.settled = "cancelled", !.timers = {}, !.net = "gone"]
    <3>2. /\ r \in AttemptStates /\ r.parser = "none" /\ r.sem = "pre" /\ r.rest = 0 /\ r.count = 0
          /\ r.net = "gone" /\ r.settled = "cancelled"
      BY DEF Idle, AttemptStates, Failures, Sems
    <3>3. att' = [att EXCEPT ![now] = r]
      BY <1>2, <1>3, <3>1
    <3>4. QED
      <4> HIDE DEF r
      <4>1. QED
        BY <1>2, <3>1, <3>2, <3>3
  <2>2. CASE ~ signal
    <3>1. /\ att' = [att EXCEPT ![now].net = "connecting", ![now].timers = {"connect", "ttfb"}]
          /\ pc' = "attempt" /\ queue' = << >> /\ UNCHANGED <<decision, asked>>
      BY <1>3, <2>2 DEF AttemptRecorded
    <3> DEFINE r == [Idle EXCEPT !.net = "connecting", !.timers = {"connect", "ttfb"}]
    <3>2. /\ r \in AttemptStates /\ r.parser = "none" /\ r.sem = "pre" /\ r.rest = 0 /\ r.count = 0
          /\ r.net = "connecting" /\ r.timers = {"connect", "ttfb"}
      BY DEF Idle, AttemptStates, Sems
    <3>3. att' = [att EXCEPT ![now] = r]
      BY <1>2, <1>3, <3>1
    <3>4. QED
      <4> HIDE DEF r
      <4>1. QED
        BY <1>2, <3>1, <3>2, <3>3
  <2>3. QED
    BY <2>1, <2>2
<1>5. /\ OrderInv' /\ log' \in Seq(Events)
      /\ \A f : Logged(f)' <=> (Logged(f) \/ f = AttemptStarted(now))
      /\ \A f : Logged(f) => Rank(f) < 4 * now
  <2>1. AttemptStarted(now) \in Events /\ Rank(AttemptStarted(now)) = 4 * now
    BY <1>2, EventsDiffer
  <2>2. Reached' = 4 * now /\ Reached' \in Int
    BY <1>1, <1>2, <1>4 DEF Reached
  <2>3. QED
    BY <1>1, <1>3, <2>1, <2>2, AppendGrows
<1>6. StateInv'
  <2>1. \A a \in Attempts : att'[a].count + att'[a].rest <= MaxDeltas
    <3>1. att'[now].count + att'[now].rest <= MaxDeltas
      BY <1>4, BoundAssumption
    <3>2. QED
      BY <1>4, <3>1 DEF IInv, StateInv, TypeOK
  <2>2. queue' \in Seq(Events) /\ Len(queue') <= 2
    <3>1. Interrupted(now, "pre") \in Events
      BY <1>2, EventsDiffer DEF Sems
    <3>2. /\ << >> \in Seq(Events) /\ Len(<< >>) <= 2
          /\ <<Interrupted(now, "pre")>> \in Seq(Events) /\ Len(<<Interrupted(now, "pre")>>) <= 2
      BY <3>1
    <3>3. QED
      BY <1>4, <3>2
  <2>3. QED
    BY <1>1, <1>2, <1>4, <1>5, <2>1, <2>2, StateStays DEF IInv, StateInv, TypeOK
<1>7. AttemptInv'
  <2>1. Sound(now)'
    BY <1>1, <1>2, <1>4 DEF Sound
  <2>2. QED
    BY <1>1, <1>4, <2>1, OthersStaySound DEF AttemptInv
<1>8. QueueInv'
  <2>1. CASE pc' = "attempt"
    BY <1>1, <1>4, <2>1 DEF QueueInv, Barrier
  <2>2. CASE pc' = "after"
    BY <1>1, <1>4, <2>2, OneInARow DEF QueueInv, Barrier
  <2>3. QED
    BY <1>4, <2>1, <2>2
<1>9. TimerInv' /\ DecisionInv'
  BY <1>1, <1>4 DEF IInv, TimerInv, DecisionInv
<1>10. LogInv' /\ ShownInv'
  <2>1. /\ \A a \in Attempts : Logged(SemanticStarted(a))' <=> Logged(SemanticStarted(a))
        /\ \A a \in Attempts, s \in Sems : Logged(Interrupted(a, s))' <=> Logged(Interrupted(a, s))
        /\ Logged(RunInterrupted)' <=> Logged(RunInterrupted)
    BY <1>2, <1>5, EventsDiffer
  <2>2. \A a \in Attempts : Logged(AttemptStarted(a))' => Logged(AttemptStarted(a)) \/ a = now
    BY <1>2, <1>5, EventsAreEqual DEF Sems
  <2>3. ~ Logged(RunInterrupted) /\ writer' = "open" /\ writer = "open" /\ now' = now
    BY <1>1, <1>3 DEF IInv, LogInv, Told
  <2>4. \A a \in Attempts : att'[a].sem = att[a].sem /\ att'[a].parser = att[a].parser
    BY <1>3, <1>4 DEF Idle
  <2>5. pc' \in {"attempt", "after"}
    BY <1>4
  <2>8. LogInv'
    <3>1. \A a \in Attempts : Told(a)'
      BY <1>2, <2>1, <2>2, <2>3, <2>4 DEF IInv, LogInv, Told, Sems
    <3>2. QED
      BY <2>1, <2>3, <2>5, <3>1 DEF LogInv
  <2>6. ShownInv'
    BY <1>1, <2>1, <2>4 DEF IInv, ShownInv, StateInv, TypeOK
  <2>7. QED
    BY <2>6, <2>8
<1>11. QED
  BY <1>5, <1>6, <1>7, <1>8, <1>9, <1>10 DEF IInv

LEMMA SemanticRecordedKeeps == ASSUME IInv, SemanticRecorded PROVE IInv'
<1>1. /\ queue # << >> /\ Head(queue).type = "request_semantic_started"
      /\ log' = Append(log, Head(queue)) /\ queue' = Tail(queue)
      /\ UNCHANGED <<pc, decision, asked, now, signal, writer>>
  BY DEF SemanticRecorded, Done
<1>2. now \in Attempts /\ Reached \in Int /\ now \in Int /\ att \in [Attempts -> AttemptStates]
  BY ReachedIsInt DEF IInv, StateInv
<1>3. /\ pc \in {"attempt", "after"} /\ Head(queue) = SemanticStarted(now)
      /\ Tail(queue) = IF pc = "attempt" THEN << >> ELSE <<Interrupted(now, "post")>>
      /\ att[now].sem = "post" /\ att[now].parser = "hook"
      /\ writer = "open" /\ Reached < Rank(Head(queue))
  <2>1. att[now].sem \in Sems
    BY <1>2 DEF AttemptStates
  <2>2. QED
    BY <1>1, <1>2, <2>1, HeadOfQueue, EventsDiffer
<1>4. SemanticStarted(now).attempt = now
  BY <1>2, EventsDiffer
<1>5. /\ att' \in [Attempts -> AttemptStates] /\ \A a \in Attempts \ {now} : att'[a] = att[a]
      /\ att'[now].parser = "reading" /\ att'[now].sem = "post" /\ att'[now].rest = 0
      /\ att'[now].count = att[now].count + att[now].rest /\ att'[now].net = att[now].net
      /\ att'[now].settled = att[now].settled /\ att[now].timers \subseteq att'[now].timers
  <2> DEFINE more   == att[now].count + att[now].rest
             timers == IF att[now].rest > 0 THEN att[now].timers \cup {"idle"} ELSE att[now].timers
             r      == [att[now] EXCEPT !.parser = "reading", !.rest = 0, !.count = more, !.timers = timers]
  <2>1. att' = [att EXCEPT ![now] = r]
    BY <1>3, <1>4 DEF SemanticRecorded
  <2>2. att[now] \in AttemptStates
    BY <1>2
  <2>3. more \in Nat /\ timers \in SUBSET {"connect", "ttfb", "idle"} /\ att[now].timers \subseteq timers
    BY <2>2 DEF AttemptStates
  <2>4. /\ r \in AttemptStates /\ r.parser = "reading" /\ r.sem = att[now].sem /\ r.rest = 0
        /\ r.count = more /\ r.net = att[now].net /\ r.settled = att[now].settled /\ r.timers = timers
    <3> HIDE DEF more, timers
    <3>1. QED
      BY <2>2, <2>3 DEF AttemptStates
  <2>5. QED
    <3> HIDE DEF r, timers
    <3>1. QED
      BY <1>2, <1>3, <2>1, <2>3, <2>4
<1>6. shown' = shown \cup {now}
  BY <1>3, <1>4 DEF SemanticRecorded
<1>7. /\ OrderInv' /\ log' \in Seq(Events)
      /\ \A f : Logged(f)' <=> (Logged(f) \/ f = SemanticStarted(now))
      /\ \A f : Logged(f) => Rank(f) < 4 * now + 1
  <2>1. SemanticStarted(now) \in Events /\ Rank(SemanticStarted(now)) = 4 * now + 1
    BY <1>2, EventsDiffer
  <2>2. Reached' = 4 * now + 1 /\ Reached' \in Int
    BY <1>1, <1>2, <1>3, <1>5 DEF Reached
  <2>3. QED
    BY <1>1, <1>3, <2>1, <2>2, AppendGrows
<1>8. att[now].count \in Nat /\ att[now].rest \in Nat /\ att[now].count # 0 /\ Sound(now)
  BY <1>2, <1>3 DEF IInv, AttemptInv, Sound, AttemptStates
<1>9. StateInv'
  <2>1. \A a \in Attempts : att'[a].count + att'[a].rest <= MaxDeltas
    <3>1. att'[now].count + att'[now].rest <= MaxDeltas
      BY <1>2, <1>5, <1>8 DEF IInv, StateInv, TypeOK
    <3>2. QED
      BY <1>5, <3>1 DEF IInv, StateInv, TypeOK
  <2>2. queue' \in Seq(Events) /\ Len(queue') <= 2
    <3>1. Interrupted(now, "post") \in Events
      BY <1>2, EventsDiffer DEF Sems
    <3>2. /\ << >> \in Seq(Events) /\ Len(<< >>) <= 2
          /\ <<Interrupted(now, "post")>> \in Seq(Events) /\ Len(<<Interrupted(now, "post")>>) <= 2
      BY <3>1
    <3>3. QED
      BY <1>1, <1>3, <3>2
  <2>3. pc' = "attempt" => att'[now'].timers # {}
    BY <1>1, <1>5 DEF IInv, StateInv, TypeOK
  <2>4. QED
    BY <1>1, <1>2, <1>5, <1>6, <1>7, <2>1, <2>2, <2>3, StateStays DEF IInv, StateInv, TypeOK
<1>10. AttemptInv'
  <2>1. att'[now].count # 0
    BY <1>5, <1>8
  <2>2. Sound(now)'
    BY <1>1, <1>2, <1>3, <1>5, <1>8, <2>1 DEF Sound
  <2>3. QED
    BY <1>1, <1>5, <2>2, OthersStaySound DEF AttemptInv
<1>11. QueueInv'
  <2>1. Barrier' = << >>
    BY <1>1, <1>5 DEF Barrier
  <2>2. CASE pc = "attempt"
    BY <1>1, <1>3, <2>1, <2>2 DEF QueueInv
  <2>3. CASE pc = "after"
    BY <1>1, <1>3, <1>5, <2>1, <2>3, OneInARow DEF QueueInv
  <2>4. QED
    BY <1>3, <2>2, <2>3
<1>12. TimerInv' /\ DecisionInv'
  <2>1. TimerInv'
    BY <1>1, <1>3, <1>5 DEF IInv, TimerInv
  <2>2. DecisionInv'
    BY <1>1, <1>3, <1>5 DEF IInv, DecisionInv
  <2>3. QED
    BY <2>1, <2>2
<1>13. LogInv' /\ ShownInv'
  <2>1. /\ \A a \in Attempts : Logged(AttemptStarted(a))' <=> Logged(AttemptStarted(a))
        /\ \A a \in Attempts, s \in Sems : Logged(Interrupted(a, s))' <=> Logged(Interrupted(a, s))
        /\ Logged(RunInterrupted)' <=> Logged(RunInterrupted)
    BY <1>2, <1>7, EventsDiffer
  <2>2. \A a \in Attempts : Logged(SemanticStarted(a))' <=> (Logged(SemanticStarted(a)) \/ a = now)
    BY <1>2, <1>7, EventsAreEqual DEF Sems
  <2>3. ~ Logged(RunInterrupted) /\ writer' = "open" /\ writer = "open" /\ now' = now /\ pc' = pc
    BY <1>1, <1>3 DEF IInv, LogInv, Told
  <2>4. \A a \in Attempts : att'[a].sem = att[a].sem /\ (a # now => att'[a] = att[a])
    BY <1>3, <1>5
  <2>5. LogInv'
    <3>1. \A a \in Attempts \ {now} : Told(a)'
      BY <2>1, <2>2, <2>3, <2>4 DEF IInv, LogInv, Told, Sems
    <3>2. Told(now)'
      BY <1>2, <1>3, <2>1, <2>2, <2>3, <2>4 DEF IInv, LogInv, Told
    <3>3. QED
      BY <1>3, <2>1, <2>3, <3>1, <3>2 DEF LogInv
  <2>6. ShownInv'
    BY <1>2, <1>3, <1>6, <2>2, <2>4 DEF IInv, ShownInv, StateInv, TypeOK
  <2>7. QED
    BY <2>5, <2>6
<1>14. QED
  BY <1>7, <1>9, <1>10, <1>11, <1>12, <1>13 DEF IInv

LEMMA InterruptionRecordedKeeps == ASSUME IInv, InterruptionRecorded PROVE IInv'
<1>1. /\ queue # << >> /\ Head(queue).type = "request_interrupted"
      /\ log' = Append(log, Head(queue))
      /\ UNCHANGED <<att, decision, asked, shown, now, signal, writer>>
  BY DEF InterruptionRecorded, Done
<1>2. now \in Attempts /\ Reached \in Int /\ now \in Int /\ att[now].sem \in Sems
  BY ReachedIsInt DEF IInv, StateInv, AttemptStates
<1>3. /\ pc = "after" /\ Head(queue) = Interrupted(now, att[now].sem) /\ Tail(queue) = << >>
      /\ att[now].parser # "hook" /\ writer = "open" /\ Reached < Rank(Head(queue))
  BY <1>1, <1>2, HeadOfQueue, EventsDiffer
<1>4. \/ pc' = "delay" /\ queue' = << >> /\ decision.retry
      \/ pc' = "stopping" /\ queue' = <<RunInterrupted>>
  BY <1>3, OneInARow DEF InterruptionRecorded
<1>5. /\ OrderInv' /\ log' \in Seq(Events)
      /\ \A f : Logged(f)' <=> (Logged(f) \/ f = Interrupted(now, att[now].sem))
  <2>1. /\ Interrupted(now, att[now].sem) \in Events
        /\ Rank(Interrupted(now, att[now].sem)) = 4 * now + 2
    BY <1>2, EventsDiffer
  <2>2. Reached' = 4 * now + 2 /\ Reached' \in Int
    BY <1>1, <1>2, <1>4 DEF Reached
  <2>3. QED
    BY <1>1, <1>3, <2>1, <2>2, AppendGrows
<1>6. StateInv'
  <2>1. /\ << >> \in Seq(Events) /\ Len(<< >>) <= 2
        /\ <<RunInterrupted>> \in Seq(Events) /\ Len(<<RunInterrupted>>) <= 2
    BY EventsDiffer
  <2>2. queue' \in Seq(Events) /\ Len(queue') <= 2
    BY <1>4, <2>1
  <2>3. QED
    BY <1>1, <1>2, <1>4, <1>5, <2>2, StateStays DEF IInv, StateInv, TypeOK
<1>7. AttemptInv'
  BY <1>1, <1>3, <1>4 DEF IInv, AttemptInv, Sound
<1>8. QueueInv' /\ TimerInv' /\ DecisionInv'
  BY <1>1, <1>3, <1>4 DEF IInv, QueueInv, TimerInv, DecisionInv
<1>9. LogInv' /\ ShownInv'
  <2>1. /\ \A a \in Attempts : Logged(AttemptStarted(a))' <=> Logged(AttemptStarted(a))
        /\ \A a \in Attempts : Logged(SemanticStarted(a))' <=> Logged(SemanticStarted(a))
        /\ Logged(RunInterrupted)' <=> Logged(RunInterrupted)
    BY <1>2, <1>5, EventsDiffer
  <2>2. \A a \in Attempts, s \in Sems :
          Logged(Interrupted(a, s))' <=> (Logged(Interrupted(a, s)) \/ (a = now /\ s = att[now].sem))
    BY <1>2, <1>5, EventsAreEqual
  <2>3. ~ Logged(RunInterrupted) /\ writer' = "open" /\ writer = "open" /\ now' = now /\ att' = att
    BY <1>1, <1>3 DEF IInv, LogInv
  <2>4. att[now].sem # "unknown"
    BY <1>2, <1>3 DEF IInv, AttemptInv, Sound
  <2>5. LogInv'
    <3>1. \A a \in Attempts \ {now} : Told(a)'
      BY <2>1, <2>2, <2>3 DEF IInv, LogInv, Told, Sems
    <3>2. Told(now)'
      BY <1>2, <1>3, <2>1, <2>2, <2>3, <2>4 DEF IInv, LogInv, Told, Sems
    <3>3. QED
      BY <1>2, <1>4, <2>1, <2>2, <2>3, <3>1, <3>2 DEF LogInv
  <2>6. ShownInv'
    BY <1>1, <2>1 DEF IInv, ShownInv, StateInv, TypeOK
  <2>7. QED
    BY <2>5, <2>6
<1>10. QED
  BY <1>5, <1>6, <1>7, <1>8, <1>9 DEF IInv

LEMMA EndRecordedKeeps == ASSUME IInv, EndRecorded PROVE IInv'
<1>1. /\ queue # << >> /\ Head(queue).type = "run_interrupted"
      /\ log' = Append(log, Head(queue)) /\ pc' = "threw" /\ queue' = Tail(queue)
      /\ UNCHANGED <<att, decision, asked, shown, now, signal, writer>>
  BY DEF EndRecorded, Done
<1>2. now \in Attempts /\ Reached \in Int /\ now \in Int /\ att[now].sem \in Sems
  BY ReachedIsInt DEF IInv, StateInv, AttemptStates
<1>3. /\ pc = "stopping" /\ Head(queue) = RunInterrupted /\ queue' = << >>
      /\ att[now].parser # "hook" /\ writer = "open" /\ Reached < Rank(Head(queue))
  BY <1>1, <1>2, HeadOfQueue, EventsDiffer
<1>4. /\ OrderInv' /\ log' \in Seq(Events)
      /\ \A f : Logged(f)' <=> (Logged(f) \/ f = RunInterrupted)
  <2>1. RunInterrupted \in Events /\ Rank(RunInterrupted) = 4 * MaxAttempts + 3
    BY EventsDiffer
  <2>2. Reached' = 4 * MaxAttempts + 3 /\ Reached' \in Int
    BY <1>1 DEF Reached, MaxAttempts
  <2>3. QED
    BY <1>1, <1>3, <2>1, <2>2, AppendGrows
<1>5. StateInv'
  <2>1. queue' \in Seq(Events) /\ Len(queue') <= 2
    BY <1>3
  <2>2. QED
    BY <1>1, <1>2, <1>4, <2>1, StateStays DEF IInv, StateInv, TypeOK
<1>6. AttemptInv'
  BY <1>1, <1>3 DEF IInv, AttemptInv, Sound
<1>7. QueueInv' /\ TimerInv' /\ DecisionInv'
  BY <1>1, <1>3 DEF IInv, QueueInv, TimerInv, DecisionInv
<1>8. LogInv' /\ ShownInv'
  <2>1. /\ \A a \in Attempts : Logged(AttemptStarted(a))' <=> Logged(AttemptStarted(a))
        /\ \A a \in Attempts : Logged(SemanticStarted(a))' <=> Logged(SemanticStarted(a))
        /\ \A a \in Attempts, s \in Sems : Logged(Interrupted(a, s))' <=> Logged(Interrupted(a, s))
        /\ Logged(RunInterrupted)'
    BY <1>2, <1>4, EventsDiffer
  <2>2. writer' = "open" /\ writer = "open" /\ now' = now /\ att' = att
    BY <1>1, <1>3
  <2>3. LogInv'
    <3>1. \A a \in Attempts : Told(a)'
      BY <2>1, <2>2 DEF IInv, LogInv, Told, Sems
    <3>2. QED
      BY <1>1, <1>2, <1>3, <2>1, <2>2, <3>1 DEF IInv, LogInv
  <2>4. ShownInv'
    BY <1>1, <2>1 DEF IInv, ShownInv, StateInv, TypeOK
  <2>5. QED
    BY <2>3, <2>4
<1>9. QED
  BY <1>4, <1>5, <1>6, <1>7, <1>8 DEF IInv

LEMMA AppendFailsKeeps == ASSUME IInv, AppendFails PROVE IInv'
<1> DEFINE e == Head(queue)
<1>1. /\ queue # << >> /\ log' \in {log, Append(log, e)}
      /\ writer' = "poisoned" /\ queue' = << >> /\ pc' = "threw"
      /\ UNCHANGED <<now, decision, asked, signal, shown>>
  BY DEF AppendFails
<1>2. /\ now \in Attempts /\ Reached \in Int /\ now \in Int /\ now <= MaxAttempts
      /\ att \in [Attempts -> AttemptStates] /\ log \in Seq(Events)
      /\ \A a \in Attempts : a \in Int
  BY ReachedIsInt DEF IInv, StateInv, Attempts, MaxAttempts
<1>3. /\ e \in Events /\ writer = "open" /\ Reached < Rank(e)
      /\ pc \in {"before", "attempt", "after", "stopping"}
      /\ \/ e = AttemptStarted(now) /\ pc = "before"
         \/ e = SemanticStarted(now) /\ att[now].sem = "post" /\ att[now].parser = "hook"
         \/ e = Interrupted(now, att[now].sem) /\ pc = "after" /\ att[now].parser # "hook"
         \/ e = RunInterrupted /\ pc = "stopping" /\ att[now].parser # "hook"
  BY <1>1, HeadOfQueue
<1>4. /\ att' \in [Attempts -> AttemptStates]
      /\ \A a \in Attempts :
           /\ att'[a].count = att[a].count /\ att'[a].rest = att[a].rest
           /\ att[a].parser # "hook" => /\ att'[a].sem = att[a].sem /\ att'[a].parser = att[a].parser
                                        /\ att'[a].net = att[a].net
           /\ att[a].parser = "hook" => /\ att'[a].sem = "unknown" /\ att'[a].parser = "ended"
                                        /\ att'[a].net = "gone"
           /\ att[a] = Idle => att'[a] = Idle
  <2> DEFINE Untimed(x) == [x EXCEPT !.timers = {}]
             Lost(x)   == [x EXCEPT !.sem = "unknown", !.parser = "ended", !.timers = {}, !.net = "gone",
                                    !.settled = IF @ = "no" THEN "durability" ELSE @]
  <2>1. att' = [a \in Attempts |-> IF att[a].parser # "hook" THEN Untimed(att[a]) ELSE Lost(att[a])]
    BY DEF AppendFails
  <2>2. \A x \in AttemptStates :
          /\ Untimed(x) \in AttemptStates /\ Untimed(x).count = x.count /\ Untimed(x).rest = x.rest
          /\ Untimed(x).sem = x.sem /\ Untimed(x).parser = x.parser /\ Untimed(x).net = x.net
    BY DEF AttemptStates
  <2>3. \A x \in AttemptStates :
          /\ Lost(x) \in AttemptStates /\ Lost(x).count = x.count /\ Lost(x).rest = x.rest
          /\ Lost(x).sem = "unknown" /\ Lost(x).parser = "ended" /\ Lost(x).net = "gone"
    <3> SUFFICES ASSUME NEW x \in AttemptStates
                 PROVE  /\ Lost(x) \in AttemptStates /\ Lost(x).count = x.count /\ Lost(x).rest = x.rest
                        /\ Lost(x).sem = "unknown" /\ Lost(x).parser = "ended" /\ Lost(x).net = "gone"
      OBVIOUS
    <3> DEFINE end == IF x.settled = "no" THEN "durability" ELSE x.settled
    <3>1. end \in Failures \cup {"no", "ok"}
      BY DEF AttemptStates, Failures
    <3>2. Lost(x) = [x EXCEPT !.sem = "unknown", !.parser = "ended", !.timers = {}, !.net = "gone", !.settled = end]
      OBVIOUS
    <3>3. QED
      <4> HIDE DEF end, Lost
      <4>1. QED
        BY <3>1, <3>2 DEF AttemptStates, Sems
  <2>4. Untimed(Idle) = Idle /\ Idle.parser # "hook"
    BY DEF Idle
  <2>5. QED
    <3> HIDE DEF Untimed, Lost
    <3>1. QED
      BY <1>2, <2>1, <2>2, <2>3, <2>4
<1>5. OrderInv' /\ log' \in Seq(Events) /\ \A f : Logged(f)' => (Logged(f) \/ f = e)
  <2>1. Reached' = 4 * MaxAttempts + 3 /\ Reached' \in Int /\ Rank(e) <= Reached' /\ Rank(e) \in Nat
    BY <1>1, <1>3, RanksAreNatural DEF Reached, MaxAttempts
  <2>2. CASE log' = log
    <3>1. Reached <= Reached'
      BY <1>2, <1>3, <2>1
    <3>2. QED
      BY <1>2, <2>1, <2>2, <3>1, OrderStays, Unlogged DEF IInv
  <2>3. CASE log' = Append(log, e)
    BY <1>2, <1>3, <2>1, <2>3, OrderGrows, Growth DEF IInv
  <2>4. QED
    BY <1>1, <2>2, <2>3
<1>6. \A f : Logged(f) => Logged(f)' /\ Rank(f) <= Reached
  <2>1. \A f : Logged(f) => Logged(f)'
    BY <1>1, <1>2, <1>3, Unlogged, Growth
  <2>2. QED
    BY <1>2, <2>1, LoggedIsReached DEF IInv
<1>7. StateInv'
  <2>1. \A a \in Attempts : att'[a].count + att'[a].rest <= MaxDeltas
    BY <1>4 DEF IInv, StateInv, TypeOK
  <2>2. queue' \in Seq(Events) /\ Len(queue') <= 2
    BY <1>1
  <2>3. QED
    BY <1>1, <1>2, <1>4, <1>5, <2>1, <2>2, StateStays DEF IInv, StateInv, TypeOK
<1>8. AttemptInv'
  <2>1. SUFFICES ASSUME NEW a \in Attempts PROVE Sound(a)'
    BY DEF AttemptInv
  <2>2. Sound(a) /\ now' = now /\ a \in Int
    BY <1>1, <1>2 DEF IInv, AttemptInv
  <2>3. att[a].net \in {"connecting", "connected", "streaming"} => att[a].parser = "hook"
    BY <1>3, <2>2, EventsDiffer, <1>2 DEF Sound
  <2>4. CASE att[a].parser = "hook"
    <3>1. a = now
      BY <2>2, <2>4 DEF Sound
    <3>2. QED
      BY <1>1, <1>2, <1>4, <2>2, <2>4, <3>1 DEF Sound
  <2>5. CASE att[a].parser # "hook"
    <3>1. att[a].sem # "unknown"
      BY <1>3, <2>2 DEF Sound
    <3>2. QED
      BY <1>1, <1>2, <1>4, <2>2, <2>3, <2>5, <3>1 DEF Sound
  <2>6. QED
    BY <2>4, <2>5
<1>9. QueueInv' /\ TimerInv' /\ DecisionInv'
  BY <1>1 DEF IInv, QueueInv, TimerInv, DecisionInv
<1>10. LogInv'
  <2>1. ~ Logged(RunInterrupted) /\ now' = now
    BY <1>1, <1>3 DEF IInv, LogInv
  <2>2. ASSUME NEW a \in Attempts PROVE Told(a)'
    <3>1. Told(a) /\ Sound(a) /\ a \in Int
      BY <1>2 DEF IInv, LogInv, AttemptInv
    <3>2. Logged(SemanticStarted(a))' => att'[a].sem # "pre"
      <4>1. CASE Logged(SemanticStarted(a))
        BY <1>4, <3>1, <4>1 DEF Told
      <4>2. CASE e = SemanticStarted(a)
        <5>1. a = now /\ att[now].parser = "hook"
          <6>1. att[now].sem \in Sems
            BY <1>2 DEF AttemptStates
          <6>2. QED
            BY <1>2, <1>3, <4>2, <6>1, EventsDiffer, EventsAreEqual
        <5>2. QED
          BY <1>4, <5>1
      <4>3. QED
        BY <1>5, <4>1, <4>2
    <3>3. ASSUME NEW s \in Sems, Logged(Interrupted(a, s))'
          PROVE  s = att'[a].sem /\ (s # "pre" => Logged(SemanticStarted(a))')
      <4>1. CASE Logged(Interrupted(a, s))
        <5>1. att[a].parser # "hook"
          <6>1. SUFFICES ASSUME att[a].parser = "hook" PROVE FALSE
            OBVIOUS
          <6>2. a = now /\ Reached = 4 * now
            BY <1>3, <3>1, <6>1 DEF Sound, Reached
          <6>3. Rank(Interrupted(a, s)) = 4 * now + 2
            BY <6>2, EventsDiffer
          <6>4. QED
            BY <1>2, <1>6, <4>1, <6>2, <6>3
        <5>2. QED
          BY <1>4, <1>6, <3>1, <4>1, <5>1 DEF Told
      <4>2. CASE e = Interrupted(a, s)
        <5>1. att[now].sem \in Sems
          BY <1>2 DEF AttemptStates
        <5>2. a = now /\ s = att[now].sem /\ att[now].parser # "hook"
          BY <1>2, <1>3, <4>2, <5>1, EventsDiffer, EventsAreEqual
        <5>3. s # "unknown" /\ (s = "post" => Logged(SemanticStarted(now)))
          BY <1>3, <3>1, <5>2 DEF Sound, Told
        <5>4. QED
          BY <1>4, <1>6, <5>1, <5>2, <5>3 DEF Sems
      <4>3. QED
        BY <1>5, <3>3, <4>1, <4>2
    <3>4. Logged(AttemptStarted(a))' => a <= now
      <4>1. e = AttemptStarted(a) => a = now
        <5>1. att[now].sem \in Sems
          BY <1>2 DEF AttemptStates
        <5>2. QED
          BY <1>2, <1>3, <5>1, EventsDiffer, EventsAreEqual
      <4>2. QED
        BY <1>2, <1>5, <3>1, <4>1 DEF Told
    <3>5. a < now => Logged(Interrupted(a, "pre"))'
      BY <1>6, <3>1 DEF Told
    <3>6. QED
      BY <1>1, <2>1, <3>2, <3>3, <3>4, <3>5 DEF Told
  <2>3. Logged(RunInterrupted)' => Logged(Interrupted(now, att[now].sem))'
    <3>1. SUFFICES ASSUME e = RunInterrupted PROVE Logged(Interrupted(now, att[now].sem))'
      BY <1>5, <2>1
    <3>2. pc = "stopping" /\ att[now].parser # "hook"
      <4>1. att[now].sem \in Sems
        BY <1>2 DEF AttemptStates
      <4>2. QED
        BY <1>2, <1>3, <3>1, <4>1, EventsDiffer
    <3>3. Logged(Interrupted(now, att[now].sem))
      BY <3>2 DEF IInv, LogInv
    <3>4. QED
      BY <1>1, <1>2, <1>4, <1>6, <3>2, <3>3
  <2>4. QED
    BY <1>1, <2>1, <2>2, <2>3 DEF LogInv
<1>11. ShownInv'
  BY <1>1, <1>4, <1>6 DEF IInv, ShownInv, StateInv, TypeOK
<1>12. QED
  BY <1>5, <1>7, <1>8, <1>9, <1>10, <1>11 DEF IInv

LEMMA NextKeeps == IInv /\ [Next]_vars => IInv'
<1> SUFFICES ASSUME IInv, [Next]_vars PROVE IInv'
  OBVIOUS
<1>1. CASE Appends
  BY <1>1, AttemptRecordedKeeps, SemanticRecordedKeeps, InterruptionRecordedKeeps, EndRecordedKeeps DEF Appends
<1>2. CASE Timer
  BY <1>2, FailuresKeep, LateTimerKeeps DEF Timer
<1>3. CASE Network
  BY <1>3, ConnectedKeeps, FailuresKeep, RespondsKeeps, ChunkKeeps, CompletesKeeps DEF Network
<1>4. CASE UNCHANGED vars
  <2>1. /\ UNCHANGED <<pc, now, att, decision, asked, signal, queue, log, writer, shown>>
        /\ \A e : Logged(e)' <=> Logged(e)
    BY <1>4, Unlogged DEF vars
  <2>2. StateInv' /\ AttemptInv' /\ TimerInv' /\ DecisionInv'
    BY <2>1 DEF IInv, StateInv, TypeOK, AttemptInv, Sound, TimerInv, DecisionInv
  <2>3. QueueInv' /\ OrderInv'
    BY <2>1 DEF IInv, QueueInv, Barrier, OrderInv, Reached
  <2>4. LogInv' /\ ShownInv'
    BY <2>1 DEF IInv, LogInv, Told, ShownInv
  <2>5. QED
    BY <2>2, <2>3, <2>4 DEF IInv
<1>5. QED
  BY <1>1, <1>2, <1>3, <1>4, AppendFailsKeeps, RetryKeeps, AbortKeeps DEF Next

LEMMA Inductive == Spec => []IInv
  BY InitIInv, NextKeeps, PTL DEF Spec

-----------------------------------------------------------------------------
(* What the invariant says of a send. *)

LEMMA PositionsFollowRanks ==
  ASSUME IInv, NEW e, NEW f, Logged(e), Logged(f), Rank(e) < Rank(f)
  PROVE  Position(e) < Position(f)
<1>1. log \in Seq(Events) /\ \A i, j \in 1..Len(log) : i < j => Rank(log[i]) < Rank(log[j])
  BY DEF IInv, StateInv, OrderInv
<1>2. \A g : Logged(g) => Position(g) \in 1..Len(log) /\ log[Position(g)] = g
  <2>1. \A g : Logged(g) => \E i \in 1..Len(log) : log[i] = g
    BY DEF Logged
  <2>2. QED
    BY <2>1 DEF Position
<1>3. Position(e) \in 1..Len(log) /\ log[Position(e)] = e /\ Position(f) \in 1..Len(log) /\ log[Position(f)] = f
  BY <1>2
<1>4. Rank(e) \in Nat /\ Rank(f) \in Nat /\ Len(log) \in Nat
  BY <1>1, <1>3, RanksAreNatural
<1>5. ~ (Position(f) < Position(e)) /\ Position(f) # Position(e)
  BY <1>1, <1>3, <1>4
<1>6. QED
  BY <1>3, <1>4, <1>5

LEMMA TruthHolds == IInv => InterruptionTellsTheTruth
<1> SUFFICES ASSUME IInv, NEW a \in Attempts, NEW s \in Sems, Logged(Interrupted(a, s))
             PROVE  /\ (s = "pre") = ~ Logged(SemanticStarted(a))
                    /\ s # "pre" => Position(SemanticStarted(a)) < Position(Interrupted(a, s))
                    /\ a \in shown => s # "pre"
  BY DEF InterruptionTellsTheTruth, Sems
<1>1. Told(a) /\ a \in Int
  BY DEF IInv, LogInv, Attempts, MaxAttempts
<1>2. Rank(SemanticStarted(a)) = 4 * a + 1 /\ Rank(Interrupted(a, s)) = 4 * a + 2
  BY EventsDiffer
<1>3. (s = "pre") = ~ Logged(SemanticStarted(a))
  BY <1>1 DEF Told
<1>4. s # "pre" => Position(SemanticStarted(a)) < Position(Interrupted(a, s))
  BY <1>1, <1>2, <1>3, PositionsFollowRanks
<1>5. a \in shown => s # "pre"
  BY <1>1 DEF IInv, ShownInv, Told
<1>6. QED
  BY <1>3, <1>4, <1>5

LEMMA NoRetryHolds == IInv => NoRetryAfterSemantic
<1> SUFFICES ASSUME IInv, NEW a \in Attempts, Logged(AttemptStarted(a)), a > 1
             PROVE  /\ Logged(Interrupted(a - 1, "pre")) /\ (a - 1) \notin shown
                    /\ Position(Interrupted(a - 1, "pre")) < Position(AttemptStarted(a))
  BY DEF NoRetryAfterSemantic
<1>1. a - 1 \in Attempts /\ a \in Int /\ now \in Int
  BY ReachedIsInt DEF Attempts, MaxAttempts
<1>2. a <= now /\ a - 1 < now
  BY <1>1 DEF IInv, LogInv, Told
<1>3. Logged(Interrupted(a - 1, "pre")) /\ att[a - 1].sem = "pre"
  BY <1>1, <1>2 DEF IInv, LogInv, Told, AttemptInv, Sound
<1>4. a - 1 \notin shown
  BY <1>3 DEF IInv, ShownInv
<1>5. Rank(Interrupted(a - 1, "pre")) < Rank(AttemptStarted(a))
  BY <1>1, EventsDiffer DEF Sems
<1>6. QED
  BY <1>3, <1>4, <1>5, PositionsFollowRanks

LEMMA OutcomeHolds == IInv => OneOutcome
<1> SUFFICES ASSUME IInv PROVE OneOutcome
  OBVIOUS
<1>1. now \in Attempts /\ now \in Int /\ Sound(now) /\ Told(now) /\ att[now] \in AttemptStates /\ log \in Seq(Events)
  BY ReachedIsInt DEF IInv, AttemptInv, LogInv, StateInv
<1>2. ASSUME pc = "returned"
      PROVE  /\ ~ Logged(RunInterrupted)
             /\ (att[now].count > 0) = Logged(SemanticStarted(now))
             /\ \A s \in Sems : ~ Logged(Interrupted(now, s))
  <2>1. ~ Logged(RunInterrupted) /\ writer # "poisoned"
    BY <1>2 DEF IInv, LogInv
  <2>2. att[now].count \in Nat /\ att[now].sem \in {"pre", "post"} /\ att[now].parser # "hook"
    BY <1>1, <1>2 DEF Sound, AttemptStates, Sems
  <2>3. (att[now].count > 0) = (att[now].sem # "pre")
    BY <1>1, <2>2 DEF Sound
  <2>4. (att[now].sem # "pre") = Logged(SemanticStarted(now))
    BY <1>1, <2>1, <2>2 DEF Told, Logged
  <2>5. \A s \in Sems : ~ Logged(Interrupted(now, s))
    <3>1. Reached = 4 * now + 1
      BY <1>2 DEF Reached
    <3>2. QED
      BY <1>1, <3>1, EventsDiffer, LoggedIsReached DEF IInv
  <2>6. QED
    BY <2>1, <2>3, <2>4, <2>5
<1>3. ASSUME Logged(RunInterrupted)
      PROVE  /\ Position(RunInterrupted) = Len(log)
             /\ \E s \in Sems : Logged(Interrupted(now, s))
  <2>1. Position(RunInterrupted) \in 1..Len(log) /\ log[Position(RunInterrupted)] = RunInterrupted
    <3>1. \E i \in 1..Len(log) : log[i] = RunInterrupted
      BY <1>3 DEF Logged
    <3>2. QED
      BY <3>1 DEF Position
  <2>2. Len(log) \in Nat /\ Len(log) \in 1..Len(log) /\ log[Len(log)] \in Events
    BY <1>1, <2>1
  <2>3. ~ (Position(RunInterrupted) < Len(log))
    <3>1. Rank(log[Len(log)]) \in Nat /\ Rank(log[Len(log)]) <= Rank(RunInterrupted)
      BY <2>2, EventsDiffer, RanksAreNatural
    <3>2. Position(RunInterrupted) < Len(log) => Rank(RunInterrupted) < Rank(log[Len(log)])
      BY <2>1, <2>2 DEF IInv, OrderInv
    <3>3. Rank(RunInterrupted) \in Nat
      BY EventsDiffer, RanksAreNatural
    <3>4. QED
      BY <3>1, <3>2, <3>3
  <2>4. Logged(Interrupted(now, att[now].sem)) /\ att[now].sem \in Sems
    BY <1>1, <1>3 DEF IInv, LogInv, AttemptStates
  <2>5. QED
    BY <2>1, <2>2, <2>3, <2>4
<1>4. pc = "threw" /\ writer = "open" => Logged(RunInterrupted)
  BY DEF IInv, LogInv
<1>5. QED
  BY <1>2, <1>3, <1>4 DEF OneOutcome, Sems

\* The variables have their types, and an attempt that the send waits for has a
\* timer set (ds/transport.ts).
THEOREM TypeCorrect == Spec => []TypeOK
<1>1. IInv => TypeOK
  BY DEF IInv, StateInv
<1>2. QED
  BY <1>1, Inductive, PTL

\* However timers, failures, appends and cancellations interleave: what the
\* journal says of an attempt is what became of it, nothing is shown before it is
\* announced, an answer that has begun is not asked for again, a send has one
\* outcome, and delays keep to their bounds (ds/transport.ts, session/kernel.ts).
THEOREM SendIsRecordedHolds == Spec => []SendIsRecorded
<1>1. IInv => SendIsRecorded
  <2>1. IInv => TypeOK /\ ShownIsRecorded
    BY DEF IInv, StateInv, ShownInv, ShownIsRecorded
  <2>2. QED
    BY <2>1, TruthHolds, NoRetryHolds, OutcomeHolds, DelayHolds DEF SendIsRecorded
<1>2. QED
  BY <1>1, Inductive, PTL
=============================================================================
