------------------------------ MODULE CostLedger ------------------------------
(***************************************************************************)
(* What a session has cost (src/src/cost/project.ts, prices.ts) and what a *)
(* turn may cost (src/src/session/budget.ts).                              *)
(*                                                                         *)
(* The ledger is a third reducer of the journal: it reads every event the  *)
(* binding projection let in, sums the usage of the answers at the price   *)
(* in force when their attempt began, and says whether the sum is complete *)
(* or a lower bound.  The budget counts the same usage while the turn is   *)
(* running and stops the turn before the next step once it is used up.     *)
(* `bill` is what the provider charges; nobody in the program knows it.    *)
(*                                                                         *)
(* Tokens, prices and instants are small numbers.  A web search is a tool  *)
(* call of the kind "search"; its usage is in the memory of the run that   *)
(* made it until its result is committed, and is priced at the instant of  *)
(* that commit, when the price may be another one than the search was      *)
(* charged at; `risen` says by how much.                                   *)
(***************************************************************************)
EXTENDS JournalBindings, FiniteSets

CONSTANTS
  Usages,        \* the usages of one answer: [hit, miss, out], in tokens
  Book,          \* the price book: [from, hit, miss, out], in the order of `from`
  MaxTime,       \* bound: instants
  Limit,         \* maxCostPicodollars of a turn
  MaxRuns,       \* bound: runs of one lineage
  MaxRoles,      \* bound: messages of one lineage
  MaxAttempts,   \* bound: attempts of the session
  MaxLineages,   \* bound: lineages of the session
  None

\* What an instance assumes of the constants: a book has prices, and later ones
\* after earlier ones.
BookAssumption ==
  /\ Book \in Seq([from : Nat, hit : Nat, miss : Nat, out : Nat]) /\ Book # << >>
  /\ \A k, m \in DOMAIN Book : k < m => Book[k].from < Book[m].from
UsagesAssumption == Usages \subseteq [hit : Nat, miss : Nat, out : Nat] /\ IsFiniteSet(Usages)
LimitAssumption == Limit \in Nat \ {0}
CostBoundsAssumption ==
  {MaxTime, MaxRuns, MaxRoles, MaxAttempts} \subseteq Nat /\ MaxLineages \in Nat \ {0}
NoneAssumption ==
  /\ None \notin Usages \cup {Book[k] : k \in DOMAIN Book}
  /\ None \notin [run : Nat, usage : Usages, at : Nat]
CostAssumption ==
  /\ BookAssumption /\ UsagesAssumption /\ LimitAssumption
  /\ CostBoundsAssumption /\ NoneAssumption

VARIABLES
  j,        \* the projection of the active lineage
  ledger,   \* what projectSessionCostV1 has made of the events so far
  turn,     \* the turn in progress and its budget
  search,   \* the searches whose result is published, by call
  bill,     \* what the provider has charged, by lineage
  risen     \* what searches were priced at above what they were charged, by lineage

vars == <<j, ledger, turn, search, bill, risen>>

CostOf(usage, price) ==
  usage.hit * price.hit + usage.miss * price.miss + usage.out * price.out

\* selectFlashRegularPriceV1: the last entry the book reaches.
SelectPrice(at) ==
  LET reached == {k \in DOMAIN Book : \A m \in 1..k : Book[m].from <= at} IN
  IF reached = {} THEN None ELSE Book[Cardinality(reached)]

-----------------------------------------------------------------------------
(* The ledger. *)

NewLineage == [attempts |-> 0, answered |-> 0, interrupted |-> 0, complete |-> TRUE, cost |-> 0]

EmptyLedger ==
  [attempts |-> << >>,                      \* [line, run, at, terminal]
   effects  |-> << >>,                      \* the state of each effect
   of       |-> [i \in 1..MaxCalls |-> 0],  \* the effect a call has by now
   lines    |-> << NewLineage >>,
   session  |-> [complete |-> TRUE, cost |-> 0],
   refused  |-> FALSE]

Line(l) == Len(l.lines)

\* The last attempt is the one an answer or an interruption names: it is open,
\* and of the lineage and the run of that event.
NamesOpenAttempt(l, run) ==
  LET n == Len(l.attempts) IN
  n > 0 /\ LET a == l.attempts[n] IN a.terminal = "none" /\ a.line = Line(l) /\ a.run = run

EffectOf(l, i) == IF l.of[i] = 0 THEN "none" ELSE l.effects[l.of[i]]

\* The state an effect has to be in, by the event that settles it.
SettlesFrom == [effect_completed |-> "prepared", effect_indeterminate |-> "prepared",
                effect_reconciled |-> "indeterminate"]

LedgerReads(l, e, run) ==
  CASE e.type \in {"assistant_committed", "request_interrupted"} -> NamesOpenAttempt(l, run)
    [] e.type \in DOMAIN SettlesFrom -> EffectOf(l, e.call) = SettlesFrom[e.type]
    [] OTHER -> TRUE

\* Mutant: a usage is added to the session and not to its lineage.
PricedForSession(l, usage, at) ==
  IF SelectPrice(at) = None
  THEN [l EXCEPT !.lines[Line(l)].complete = FALSE, !.session.complete = FALSE]
  ELSE [l EXCEPT !.session.cost = @ + CostOf(usage, SelectPrice(at))]

\* Usage at a price, or a sum that is no longer complete.
Priced(l, usage, at) ==
  IF SelectPrice(at) = None
  THEN [l EXCEPT !.lines[Line(l)].complete = FALSE, !.session.complete = FALSE]
  ELSE [l EXCEPT !.lines[Line(l)].cost = @ + CostOf(usage, SelectPrice(at)),
                 !.session.cost = @ + CostOf(usage, SelectPrice(at))]

WithAttempt(l, run, at) ==
  [l EXCEPT !.lines[Line(l)].attempts = @ + 1,
            !.attempts = Append(@, [line |-> Line(l), run |-> run, at |-> at, terminal |-> "none"])]

WithAnswer(l, usage) ==
  LET n == Len(l.attempts) IN
  Priced([l EXCEPT !.attempts[n].terminal = "assistant", !.lines[Line(l)].answered = @ + 1],
         usage, l.attempts[n].at)

WithInterruption(l) ==
  [l EXCEPT !.attempts[Len(l.attempts)].terminal = "interrupted",
            !.lines[Line(l)].interrupted = @ + 1,
            !.lines[Line(l)].complete = FALSE, !.session.complete = FALSE]

WithEffect(l, i) ==
  [l EXCEPT !.effects = Append(@, "prepared"), !.of[i] = Len(l.effects) + 1]

SettledState(e) ==
  CASE e.type = "effect_completed" -> "completed"
    [] e.type = "effect_indeterminate" -> "indeterminate"
    [] e.type = "effect_reconciled" -> e.resolution

\* What an event adds; x has the instant of the event and the usage it carries.
Recorded(l, e, x) ==
  IF ~ LedgerReads(l, e, j.run) THEN [l EXCEPT !.refused = TRUE]
  ELSE CASE e.type = "request_attempt_started" -> WithAttempt(l, j.run, x.at)
         [] e.type = "assistant_committed" -> WithAnswer(l, x.usage)
         [] e.type = "request_interrupted" -> WithInterruption(l)
         [] e.type = "tool_result_committed" /\ x.usage # None -> Priced(l, x.usage, x.at)
         [] e.type = "effect_prepared" -> WithEffect(l, e.call)
         [] e.type \in DOMAIN SettlesFrom -> [l EXCEPT !.effects[l.of[e.call]] = SettledState(e)]
         [] OTHER -> l

\* The report: an attempt that has not ended leaves the sum a lower bound.
OpenAttempts(l, line) ==
  Cardinality({n \in DOMAIN l.attempts : l.attempts[n].line = line /\ l.attempts[n].terminal = "none"})

LineComplete(l, line) == l.lines[line].complete /\ OpenAttempts(l, line) = 0

SessionComplete(l) == l.session.complete /\ \A line \in DOMAIN l.lines : OpenAttempts(l, line) = 0

-----------------------------------------------------------------------------
(* The budget of a turn. *)

NoTurn == [spent |-> 0, counted |-> 0, price |-> Book[1], bounded |-> FALSE, stopped |-> FALSE]

\* The price of the day the program first asked for one.
NewTurn(price) ==
  [spent |-> 0, counted |-> 0, price |-> price, bounded |-> TRUE, stopped |-> FALSE]

\* recordSemanticResponse
Counted(t, usage) ==
  IF t.bounded THEN [t EXCEPT !.counted = @ + CostOf(usage, t.price)] ELSE t

\* beforeSemanticRequest and beforeEffect look at the cost; so does an effect
\* that is a search.
IsStep(e) ==
  \/ e.type = "request_snapshot_stored" /\ e.mode = "fresh"
  \/ e.type = "effect_prepared"
  \/ e.type = "result_published" /\ j.calls[e.call].kind = "search"

MayStep(e) == turn.bounded /\ IsStep(e) => turn.counted < Limit

\* Where the budget looks at the clock as well: before an attempt too.
IsGuarded(e) == turn.bounded /\ (IsStep(e) \/ e.type = "request_attempt_started")

-----------------------------------------------------------------------------

Init ==
  /\ j = EmptyJournal
  /\ ledger = EmptyLedger
  /\ turn = NoTurn
  /\ search = [i \in 1..MaxCalls |-> None]
  /\ bill = [line \in 1..MaxLineages |-> 0]
  /\ risen = [line \in 1..MaxLineages |-> 0]

Bounded(e) ==
  /\ e.type = "run_started" => j.run < MaxRuns
  /\ e.type \in {"user_committed", "assistant_committed"} => j.blobs < MaxRoles
  /\ e.type = "user_committed" => j.cause # "recovery" /\ j.boundRun # j.run
  /\ e.type = "request_attempt_started" => Len(ledger.attempts) < MaxAttempts
  /\ e.type \in {"effect_reconciled", "effect_completed", "effect_indeterminate"} =>
       e.call \in DOMAIN j.calls

\* The provider's price at an instant, before the book's first entry too.
TruePrice(at) ==
  LET before == {k \in DOMAIN Book : Book[k].from <= at} IN
  Book[IF before = {} THEN 1 ELSE CHOOSE k \in before : \A m \in before : m <= k]

Charged(amount) == bill' = [bill EXCEPT ![Line(ledger)] = @ + amount]

\* A plain event: neither usage nor an instant matters.
Event ==
  \E e \in KernelEvents(j) :
    /\ Bounded(e) /\ Admits(j, e) /\ MayStep(e)
    /\ e.type \notin {"run_started", "request_attempt_started", "assistant_committed",
                      "request_interrupted", "result_published", "tool_result_committed"}
    /\ turn.stopped => e.type = "run_interrupted"
    /\ j' = After(j, e)
    /\ ledger' = Recorded(ledger, e, [at |-> 0, usage |-> None])
    /\ UNCHANGED <<turn, search, bill, risen>>

\* A message begins a turn, or a reply that was cut off is continued in the
\* same one; a recovery goes on with the turn, and without its budget.
StartRun ==
  \E cause \in Causes :
    /\ Bounded(RunStarted(cause)) /\ Admits(j, RunStarted(cause))
    /\ j' = After(j, RunStarted(cause))
    /\ \/ /\ cause # "recovery"
          /\ \E at \in 0..MaxTime : SelectPrice(at) # None /\ turn' = NewTurn(SelectPrice(at))
       \/ /\ cause = "continue" /\ j.status = "completed" /\ turn' = turn
       \/ /\ cause = "recovery" /\ turn' = [turn EXCEPT !.bounded = FALSE, !.stopped = FALSE]
    /\ UNCHANGED <<ledger, search, bill, risen>>

Attempt ==
  /\ Bounded(AttemptStarted) /\ Admits(j, AttemptStarted) /\ ~ turn.stopped
  /\ j' = After(j, AttemptStarted)
  /\ \E at \in 0..MaxTime :
       ledger' = Recorded(ledger, AttemptStarted, [at |-> at, usage |-> None])
  /\ UNCHANGED <<turn, search, bill, risen>>

\* The answer is there: the budget counts it, the journal has its usage.
Answer ==
  \E u \in Usages, calls \in {<< >>} \cup {<<k>> : k \in Kinds} :
    LET e == AssistantCommitted(calls)
        amount == CostOf(u, TruePrice(ledger.attempts[Len(ledger.attempts)].at)) IN
    /\ Bounded(e) /\ Admits(j, e)
    /\ j' = After(j, e)
    /\ ledger' = Recorded(ledger, e, [at |-> 0, usage |-> u])
    /\ turn' = [Counted(turn, u) EXCEPT !.spent = @ + amount]
    /\ search' = [i \in 1..MaxCalls |-> None]
    /\ Charged(amount)
    /\ UNCHANGED risen

\* An attempt ends without an answer; one the model had begun to answer may
\* be charged for.
Interrupt ==
  \E semantic \in {"pre_semantic", "post_semantic"},
     u \in Usages \cup {[hit |-> 0, miss |-> 0, out |-> 0]} :
    LET e == RequestInterrupted(semantic) IN
    /\ Admits(j, e)
    /\ semantic = "pre_semantic" => CostOf(u, Book[1]) = 0
    /\ j' = After(j, e)
    /\ ledger' = Recorded(ledger, e, [at |-> 0, usage |-> None])
    /\ Charged(CostOf(u, TruePrice(ledger.attempts[Len(ledger.attempts)].at)))
    /\ UNCHANGED <<turn, search, risen>>

\* A tool that has no effect publishes what it found.  A search that succeeds
\* has a usage, which only the run that made it knows.
Publish ==
  \E i \in DOMAIN j.calls :
    LET e == ResultPublished(i) IN
    /\ Admits(j, e) /\ MayStep(e) /\ ~ turn.stopped /\ j.calls[i].direct = 0
    /\ j' = After(j, e)
    /\ IF j.calls[i].kind = "search"
       THEN \/ \E u \in Usages, at \in 0..MaxTime :
                 /\ search' = [search EXCEPT ![i] = [run |-> j.run, usage |-> u, at |-> at]]
                 /\ Charged(CostOf(u, TruePrice(at)))
                 /\ turn' = [turn EXCEPT !.spent = @ + CostOf(u, TruePrice(at))]
            \/ UNCHANGED <<search, bill, turn>>
       ELSE UNCHANGED <<search, bill, turn>>
    /\ UNCHANGED <<ledger, risen>>

\* The usage a result carries.
Remembered(i) == IF search[i] # None /\ search[i].run = j.run THEN search[i] ELSE None

\* By how much a result is priced above what its search was charged: the ledger
\* takes the price in force when the result is committed.
Rise(s, at) ==
  LET paid   == CostOf(s.usage, TruePrice(s.at))
      priced == IF SelectPrice(at) = None THEN 0 ELSE CostOf(s.usage, SelectPrice(at)) IN
  IF priced > paid THEN priced - paid ELSE 0

CommitResult ==
  \E i \in DOMAIN j.calls, at \in 0..MaxTime :
    LET e == ResultCommitted(i)  s == Remembered(i) IN
    /\ Admits(j, e) /\ ~ turn.stopped
    /\ j' = After(j, e)
    /\ ledger' = Recorded(ledger, e, [at |-> at, usage |-> IF s = None THEN None ELSE s.usage])
    /\ risen' = IF s = None THEN risen ELSE [risen EXCEPT ![Line(ledger)] = @ + Rise(s, at)]
    /\ UNCHANGED <<turn, search, bill>>

\* The budget refuses a step, by the cost or by the clock: what is left of the
\* turn is the end of its run.
Stop ==
  /\ ~ turn.stopped /\ \E e \in KernelEvents(j) : Bounded(e) /\ Admits(j, e) /\ IsGuarded(e)
  /\ turn' = [turn EXCEPT !.stopped = TRUE]
  /\ UNCHANGED <<j, ledger, search, bill, risen>>

\* The session goes on under a new lineage, as LineageSwitch lets it.
Switch ==
  /\ j.status = "completed" /\ Line(ledger) < MaxLineages
  /\ j' = EmptyJournal
  /\ ledger' = [ledger EXCEPT !.lines = Append(@, NewLineage)]
  /\ search' = [i \in 1..MaxCalls |-> None]
  /\ turn' = NoTurn
  /\ UNCHANGED <<bill, risen>>

Next ==
  \/ Event \/ StartRun \/ Attempt \/ Answer \/ Interrupt \/ Publish \/ CommitResult
  \/ Stop \/ Switch

Spec == Init /\ [][Next]_vars

-----------------------------------------------------------------------------

SumOver(f, n) == LET sum[k \in 0..n] == IF k = 0 THEN 0 ELSE sum[k - 1] + f[k] IN sum[n]

LineCosts == [line \in DOMAIN ledger.lines |-> ledger.lines[line].cost]

MaxStep ==   \* the most an answer costs
  LET costs == {CostOf(u, Book[k]) : u \in Usages, k \in DOMAIN Book} IN
  CHOOSE c \in costs : \A d \in costs : d <= c

TypeOK ==
  /\ j.calls \in Seq(Call) /\ j.gate \in Gates /\ j.status \in Statuses
  /\ Len(ledger.attempts) \in 0..MaxAttempts /\ Line(ledger) \in 1..MaxLineages
  /\ \A line \in DOMAIN ledger.lines : LET r == ledger.lines[line] IN
       /\ r.complete \in BOOLEAN /\ r.cost \in Nat
       /\ r.attempts = r.answered + r.interrupted + OpenAttempts(ledger, line)
  /\ turn.counted \in Nat /\ turn.spent \in Nat /\ {turn.bounded, turn.stopped} \subseteq BOOLEAN

\* Every journal the binding projection lets in has a report: the ledger never
\* takes an event for invalid, so `inspect` works on every session.
LedgerReadsEveryJournal == ~ ledger.refused

\* What a lineage may come to: what the provider charges, and the rise of the
\* prices between a search and the commit of its result.
Due == [line \in 1..MaxLineages |-> bill[line] + risen[line]]

\* The sum is never more than what the provider charges, lineage by lineage, but
\* for results of searches that were committed at a higher price; and the
\* session's sum is that of its lineages.
LedgerIsLowerBound ==
  /\ \A line \in DOMAIN ledger.lines : ledger.lines[line].cost <= Due[line]
  /\ ledger.session.cost = SumOver(LineCosts, Line(ledger))

\* `costCompleteness: "complete" | "lower_bound"` (project.ts:151): a sum is never
\* more than what was charged, also where prices change while a search waits for
\* its commit.
SumIsLowerBound == \A line \in DOMAIN ledger.lines : ledger.lines[line].cost <= bill[line]

\* A sum that is called complete is what the provider charges; while a tool
\* call waits for its result, a search may be under way.
CompleteIsExact ==
  ~ Pending(j) =>
  /\ \A line \in DOMAIN ledger.lines :
       LineComplete(ledger, line) => ledger.lines[line].cost = bill[line]
  /\ SessionComplete(ledger) => ledger.session.cost = SumOver(bill, MaxLineages)

\* The ledger and the projection agree on what is settled: when the tail of the
\* active lineage is closed, no attempt of the session is open and no effect is
\* prepared or indeterminate.
ClosedMeansSettled ==
  Closed(j) => /\ \A line \in DOMAIN ledger.lines : OpenAttempts(ledger, line) = 0
               /\ \A n \in DOMAIN ledger.effects :
                    ledger.effects[n] \notin {"prepared", "indeterminate"}

\* "crossing a limit stops the turn instead of paying for it first"
\* (budget.ts:66): while the budget is with it, a turn costs less than its
\* limit and one more answer.
SpendIsBounded == turn.bounded => turn.spent < Limit + MaxStep

\* "Bounds one user turn" (budget.ts:6): so does a turn that was recovered.
TurnIsBounded == turn.spent < Limit + MaxStep

\* "each turn stops cleanly at a boundary" (cli.ts:90), "the session is intact;
\* send another message to go on" (interactive.ts:488): after the budget has
\* stopped a turn, the next message may start a run.
StopsAtBoundary == turn.stopped /\ ~ Active(j) => AdmitsRun(j, "continue")
=============================================================================
