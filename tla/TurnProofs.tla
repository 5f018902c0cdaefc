------------------------------- MODULE TurnProofs -------------------------------
(***************************************************************************)
(* Proofs about what a turn goes through outside the kernel: the check     *)
(* that judges it, the switch to another lineage, the ledger that pays for *)
(* it and the objects that are loaded.                                     *)
(*                                                                         *)
(* The check and the loop of turns around it, for any tree of paths, any   *)
(* protected ones, any number of changes by others and any limits: a       *)
(* command that reports success has had its last turn judged on inputs     *)
(* that have not moved at any depth, and what it reports is what the       *)
(* journal says.                                                           *)
(*                                                                         *)
(* The switch, for any efforts, any number of lineages, runs, messages,    *)
(* calls and attempts and a death of the process between any two appends:  *)
(* what the projection of the journal admits the selection of the prefix   *)
(* takes, a lineage owes the last summary, and opens with it unless a      *)
(* process died.                                                           *)
(*                                                                         *)
(* The ledger and the acceptance budget, from CostLedgerProofs, where they *)
(* are proved for a ledger on its own.                                     *)
(*                                                                         *)
(* The loads, for objects and ranges of any size and reads of any length,  *)
(* while the disk damages what is stored: what a loader returns is what    *)
(* was saved, or the range of it that was asked for.                       *)
(***************************************************************************)
EXTENDS Turns, Integers, SequenceTheorems, WellFoundedInduction, TLAPS

Entries == Contents \cup {"dir", "missing"}
Trees   == [Paths -> Entries]

\* What is in no directory is not there.
Consistent(t) == \A p \in Paths : t[p] # "dir" => \A q \in Under[p] : t[q] = "missing"

Results == [n : Nat, verdict : Verdicts, changed : SUBSET Paths]
Turns   == [n : Nat \ {0}, kind : {"first", "continue", "retry"}, verified : BOOLEAN,
            phase : {"model", "measure", "check", "record", "answered", "broken", "ended"},
            truncated : BOOLEAN, changed : SUBSET Paths,
            verdict : Verdicts \cup {"unavailable", None}, threw : BOOLEAN]
Loops   == [continued : 0..MAX_TRUNCATION_CONTINUATIONS, retried : 0..MAX_VERIFICATION_RETRIES,
            resumed : 0..MAX_AUTO_RESUMES, told : Results \cup {None},
            exit : {None, "ok", "unverified", "error"}]
Judgements == [n : Nat, measured : Trees, started : Trees \cup {<< >>}, code : {0, 1, None}]

\* Types, and a tree as a file system has it.
ShapeInv ==
  /\ tree \in Trees /\ Consistent(tree)
  /\ turn \in Turns /\ loop \in Loops
  /\ last \in Results \cup {None} /\ judged \in Judgements \cup {None}
  /\ journal \in Seq([n : Nat, verdict : Verdicts])
  /\ others \in 0..Others
  /\ baseline = TakeInventory(Start)

\* A turn has a verdict from its check on, and a command its result at the end.
PhaseInv ==
  /\ turn.phase \in {"model", "measure", "check", "broken"} => turn.verdict = None
  /\ turn.phase = "record" => turn.verdict \in Verdicts
  /\ turn.phase = "answered" => turn.verdict # None
  /\ loop.exit # None <=> turn.phase = "ended"
  /\ loop.exit = "ok" => turn.verdict = "passed"

\* What the check has seen is of this turn, and a pass is of unmoved inputs.
JudgedInv ==
  /\ turn.phase = "check" =>
       /\ judged \in Judgements /\ judged.n = turn.n /\ Consistent(judged.measured)
       /\ turn.changed = ChangedProtectedPaths(baseline, TakeInventory(judged.measured))
  /\ turn.verdict = "passed" =>
       judged \in Judgements /\ judged.n = turn.n /\ judged.code = 0 /\ Unmoved(judged.measured)

\* What the program keeps of the last result is the verdict of this turn.
LastInv ==
  /\ turn.phase \in {"record", "answered"} /\ turn.verdict \in Verdicts =>
       last = [n |-> turn.n, verdict |-> turn.verdict, changed |-> turn.changed]
  /\ turn.verdict = "failed" => turn.changed = {}
  /\ RetryNamesItsFailure

\* The journal has one verdict of a turn at most, and that of this one once it
\* is recorded.
JournalInv ==
  /\ \A a, b \in DOMAIN journal : a < b => journal[a].n < journal[b].n
  /\ \A a \in DOMAIN journal : journal[a].n <= turn.n
  /\ turn.phase \notin {"answered", "ended"} => \A a \in DOMAIN journal : journal[a].n < turn.n
  /\ turn.phase = "answered" \/ loop.exit \in {"ok", "unverified"} =>
       (turn.verdict \in Verdicts =>
          journal # << >> /\ journal[Len(journal)] = [n |-> turn.n, verdict |-> turn.verdict])

\* The turns there can have been by now: as many as the counters say.
Resumes   == 1 + MAX_AUTO_RESUMES
Continues == (1 + MAX_TRUNCATION_CONTINUATIONS) * Resumes
WorkInv   == turn.n <= loop.retried * Continues + loop.continued * Resumes + loop.resumed + 1

IInv == ShapeInv /\ PhaseInv /\ JudgedInv /\ LastInv /\ JournalInv /\ WorkInv

-----------------------------------------------------------------------------
(* What is beneath a path, and what a walk finds. *)

\* Beneath(p) has the entries of p and of whatever it has, and nothing else.
LEMMA BeneathClosed ==
  ASSUME NEW p \in Paths
  PROVE  /\ Beneath(p) \subseteq Paths /\ Under[p] \subseteq Beneath(p)
         /\ \A r \in Beneath(p) : Under[r] \subseteq Beneath(p)
<1>1. Under[p] \subseteq Paths /\ \A r \in Paths : Under[r] \subseteq Paths
  BY UnderAssumption
<1>2. Under[p] \subseteq Beneath(p)
  BY <1>1 DEF Beneath
<1>3. ASSUME NEW r \in Beneath(p), NEW q \in Under[r]
      PROVE  q \in Beneath(p)
  <2>1. r \in Paths /\ q \in Paths
    BY <1>1 DEF Beneath
  <2>2. ASSUME NEW S \in SUBSET Paths, Under[p] \cup UNION {Under[d] : d \in S} \subseteq S
        PROVE  q \in S
    <3>1. r \in S
      BY <2>2 DEF Beneath
    <3>2. QED
      BY <2>2, <3>1
  <2>3. QED
    BY <2>1, <2>2 DEF Beneath
<1>4. QED
  BY <1>2, <1>3 DEF Beneath

LEMMA BeneathLeast ==
  ASSUME NEW p \in Paths, NEW S \in SUBSET Paths, Under[p] \subseteq S,
         \A r \in S : Under[r] \subseteq S
  PROVE  Beneath(p) \subseteq S
<1>1. Under[p] \cup UNION {Under[r] : r \in S} \subseteq S
  OBVIOUS
<1>2. QED
  BY <1>1 DEF Beneath

\* Nothing is beneath itself.
LEMMA NotBeneathItself ==
  ASSUME NEW p \in Paths
  PROVE  p \notin Beneath(p)
<1> DEFINE S == {q \in Paths : p \in Beneath(q)}
<1>1. SUFFICES ASSUME p \in Beneath(p)
               PROVE  FALSE
  OBVIOUS
<1>2. PICK m \in S : Under[m] \cap S = {}
  <2>1. S \in (SUBSET Paths) \ {{}}
    BY <1>1
  <2>2. QED
    BY <2>1, TreeAssumption
<1> DEFINE B == Under[m] \cup UNION {Beneath(c) : c \in Under[m]}
<1>3. m \in Paths /\ Under[m] \subseteq Paths
  BY UnderAssumption
<1>4. Beneath(m) \subseteq B
  <2>1. B \in SUBSET Paths /\ Under[m] \subseteq B
    BY <1>3, BeneathClosed
  <2>2. ASSUME NEW r \in B
        PROVE  Under[r] \subseteq B
    BY <1>3, BeneathClosed
  <2> HIDE DEF B
  <2>3. QED
    BY <1>3, <2>1, <2>2, BeneathLeast
<1>5. CASE p \in Under[m]
  BY <1>1, <1>2, <1>5
<1>6. CASE \E c \in Under[m] : p \in Beneath(c)
  BY <1>2, <1>3, <1>6
<1>7. QED
  BY <1>2, <1>4, <1>5, <1>6

\* A tree stays one when an entry of a directory changes.
LEMMA ChangedConsistent ==
  ASSUME NEW p \in Paths, NEW item \in Entries, tree \in Trees, Consistent(tree), MayHold(p, item)
  PROVE  Changed(p, item) \in Trees /\ Consistent(Changed(p, item))
<1> DEFINE t == Changed(p, item)
<1>1. t \in Trees
  BY DEF Changed, Trees, Entries
<1>2. \A q \in Paths : t[q] = IF q = p THEN item ELSE IF q \in Beneath(p) THEN "missing" ELSE tree[q]
  BY DEF Changed
<1> HIDE DEF t
<1>3. ASSUME NEW q \in Paths, t[q] # "dir", NEW c \in Under[q]
      PROVE  t[c] = "missing"
  <2>1. c \in Paths
    BY UnderAssumption
  <2>2. CASE c = p
    <3>1. tree[q] = "dir"
      BY <2>2 DEF MayHold
    <3>2. q # p /\ q \notin Beneath(p)
      BY <2>2, BeneathClosed, NotBeneathItself
    <3>3. QED
      BY <1>2, <1>3, <3>1, <3>2
  <2>3. CASE c # p /\ c \in Beneath(p)
    BY <1>2, <2>1, <2>3
  <2>4. CASE c # p /\ c \notin Beneath(p)
    <3>1. q # p /\ q \notin Beneath(p)
      BY <2>4, BeneathClosed
    <3>2. t[q] = tree[q] /\ t[c] = tree[c]
      BY <1>2, <2>1, <2>4, <3>1
    <3>3. QED
      BY <1>3, <3>2 DEF Consistent
  <2>5. QED
    BY <2>2, <2>3, <2>4
<1>4. QED
  BY <1>1, <1>3 DEF Consistent, t

\* The entries that a walk goes on with, and the paths that it comes to.
Entered(t, p) == IF t[p] = "dir" THEN {c \in Under[p] : t[c] # "missing"} ELSE {}
Reach(t, p) ==
  {q \in Paths : \A S \in SUBSET Paths : p \in S /\ (\A r \in S : Entered(t, r) \subseteq S) => q \in S}
Lines(t, p) == {<<q, t[q]>> : q \in Reach(t, p)}

LEMMA ReachClosed ==
  ASSUME NEW t, NEW p \in Paths
  PROVE  /\ p \in Reach(t, p) /\ Reach(t, p) \subseteq Paths
         /\ \A r \in Reach(t, p) : Entered(t, r) \subseteq Reach(t, p)
<1>1. p \in Reach(t, p) /\ Reach(t, p) \subseteq Paths
  BY DEF Reach
<1>2. ASSUME NEW r \in Reach(t, p), NEW c \in Entered(t, r)
      PROVE  c \in Reach(t, p)
  <2>1. r \in Paths /\ c \in Paths
    BY <1>1, UnderAssumption DEF Entered
  <2>2. ASSUME NEW S \in SUBSET Paths, p \in S, \A d \in S : Entered(t, d) \subseteq S
        PROVE  c \in S
    <3>1. r \in S
      BY <2>2 DEF Reach
    <3>2. QED
      BY <2>2, <3>1
  <2>3. QED
    BY <2>1, <2>2 DEF Reach
<1>3. QED
  BY <1>1, <1>2

LEMMA ReachUnfolds ==
  ASSUME NEW t, NEW p \in Paths
  PROVE  Reach(t, p) = {p} \cup UNION {Reach(t, c) : c \in Entered(t, p)}
<1> DEFINE R == {p} \cup UNION {Reach(t, c) : c \in Entered(t, p)}
<1>1. Entered(t, p) \subseteq Paths
  BY UnderAssumption DEF Entered
<1>2. R \in SUBSET Paths /\ p \in R
  BY <1>1, ReachClosed
<1>3. ASSUME NEW r \in R
      PROVE  Entered(t, r) \subseteq R
  <2>1. CASE r = p
    BY <1>1, <2>1, ReachClosed
  <2>2. CASE \E c \in Entered(t, p) : r \in Reach(t, c)
    BY <1>1, <2>2, ReachClosed
  <2>3. QED
    BY <2>1, <2>2
<1>4. ASSUME NEW c \in Entered(t, p), NEW q \in Reach(t, c)
      PROVE  q \in Reach(t, p)
  <2>1. q \in Paths
    BY DEF Reach
  <2>2. ASSUME NEW S \in SUBSET Paths, p \in S, \A d \in S : Entered(t, d) \subseteq S
        PROVE  q \in S
    <3>1. c \in S
      BY <2>2
    <3>2. QED
      BY <2>2, <3>1 DEF Reach
  <2>3. QED
    BY <2>1, <2>2 DEF Reach
<1> HIDE DEF R
<1>5. Reach(t, p) \subseteq R
  BY <1>2, <1>3 DEF Reach
<1>6. R \subseteq Reach(t, p)
  BY <1>4, ReachClosed DEF R
<1>7. QED
  BY <1>5, <1>6 DEF R

\* walk is defined by its own results: there is a function that is so defined.
Walked(t, f) ==
  [p \in Paths |-> {<<p, t[p]>>} \cup
     IF t[p] = "dir" THEN UNION {f[c] : c \in {d \in Under[p] : t[d] # "missing"}} ELSE {}]

LEMMA WalkUnfolds ==
  ASSUME NEW t
  PROVE  /\ Walk(t) = Walked(t, Walk(t))
         /\ \A p \in Paths : Walk(t)[p] = {<<p, t[p]>>} \cup UNION {Walk(t)[c] : c \in Entered(t, p)}
<1> DEFINE L == [p \in Paths |-> Lines(t, p)]
<1>1. ASSUME NEW f, NEW p \in Paths
      PROVE  Walked(t, f)[p] = {<<p, t[p]>>} \cup UNION {f[c] : c \in Entered(t, p)}
  BY DEF Walked, Entered
<1>2. ASSUME NEW p \in Paths
      PROVE  L[p] = Walked(t, L)[p]
  <2>1. Entered(t, p) \subseteq Paths
    BY UnderAssumption DEF Entered
  <2>2. Lines(t, p) = {<<p, t[p]>>} \cup UNION {Lines(t, c) : c \in Entered(t, p)}
    BY ReachUnfolds DEF Lines
  <2>3. UNION {Lines(t, c) : c \in Entered(t, p)} = UNION {L[c] : c \in Entered(t, p)}
    BY <2>1
  <2>4. QED
    BY <1>1, <2>2, <2>3
<1>3. L = Walked(t, L)
  <2>1. Walked(t, L) = [p \in Paths |-> Walked(t, L)[p]]
    BY DEF Walked
  <2>2. QED
    BY <1>2, <2>1
<1>4. Walk(t) = CHOOSE f : f = Walked(t, f)
  BY DEF Walk, Walked
<1>5. Walk(t) = Walked(t, Walk(t))
  BY <1>3, <1>4
<1>6. QED
  BY <1>1, <1>5

\* Directories do not contain themselves, so that it finds what it comes to,
\* each path with its entry.
LEMMA WalkFindsReach ==
  ASSUME NEW t, NEW p \in Paths
  PROVE  Walk(t)[p] = Lines(t, p)
<1> DEFINE S == {q \in Paths : Walk(t)[q] # Lines(t, q)}
<1>1. SUFFICES ASSUME S # {}
               PROVE  FALSE
  OBVIOUS
<1>2. PICK m \in S : Under[m] \cap S = {}
  BY <1>1, TreeAssumption
<1>3. Entered(t, m) \subseteq Paths \ S
  BY <1>2, UnderAssumption DEF Entered
<1>4. UNION {Walk(t)[c] : c \in Entered(t, m)} = UNION {Lines(t, c) : c \in Entered(t, m)}
  BY <1>3
<1>5. Walk(t)[m] = {<<m, t[m]>>} \cup UNION {Walk(t)[c] : c \in Entered(t, m)}
  BY WalkUnfolds
<1>6. Lines(t, m) = {<<m, t[m]>>} \cup UNION {Lines(t, c) : c \in Entered(t, m)}
  BY ReachUnfolds DEF Lines
<1>7. QED
  BY <1>2, <1>4, <1>5, <1>6

\* An inventory has the protected paths, and what is in a directory it has.
LEMMA InventoryHas ==
  ASSUME NEW t
  PROVE  /\ \A line \in TakeInventory(t) : \E q \in Paths : line = <<q, t[q]>>
         /\ \A p \in Protected : <<p, t[p]>> \in TakeInventory(t)
         /\ \A q \in Paths : <<q, t[q]>> \in TakeInventory(t) =>
              \A c \in Entered(t, q) : <<c, t[c]>> \in TakeInventory(t)
<1>1. TakeInventory(t) = UNION {Lines(t, p) : p \in Protected}
  BY WalkFindsReach, ProtectedAssumption DEF TakeInventory
<1>2. \A line \in TakeInventory(t) : \E p \in Protected : \E q \in Reach(t, p) : line = <<q, t[q]>>
  BY <1>1 DEF Lines
<1>3. \A p \in Protected : \A q \in Reach(t, p) : <<q, t[q]>> \in TakeInventory(t)
  BY <1>1 DEF Lines
<1>4. \A p \in Protected : /\ p \in Reach(t, p) /\ Reach(t, p) \subseteq Paths
                           /\ \A r \in Reach(t, p) : Entered(t, r) \subseteq Reach(t, p)
  BY ReachClosed, ProtectedAssumption
<1>5. ASSUME NEW q \in Paths, <<q, t[q]>> \in TakeInventory(t), NEW c \in Entered(t, q)
      PROVE  <<c, t[c]>> \in TakeInventory(t)
  <2>1. PICK p \in Protected : \E r \in Reach(t, p) : <<q, t[q]>> = <<r, t[r]>>
    BY <1>2, <1>5
  <2>2. q \in Reach(t, p)
    BY <2>1
  <2>3. QED
    BY <1>3, <1>4, <2>2
<1>6. QED
  BY <1>2, <1>3, <1>4, <1>5

\* If nothing has changed between two inventories, nothing protected has, at any
\* depth: what is not in the inventories is in neither tree.
LEMMA SameInventoryUnmoved ==
  ASSUME NEW t \in Trees, Consistent(t),
         ChangedProtectedPaths(TakeInventory(Start), TakeInventory(t)) = {}
  PROVE  Unmoved(t)
<1>1. TakeInventory(t) = TakeInventory(Start)
  BY DEF ChangedProtectedPaths, PathsOf
<1> DEFINE I == TakeInventory(t)
           G == {q \in Paths : t[q] = Start[q] /\ (<<q, t[q]>> \in I \/ t[q] = "missing")}
<1>2. ASSUME NEW q \in Paths, <<q, t[q]>> \in I
      PROVE  t[q] = Start[q]
  <2>1. PICK r \in Paths : <<q, t[q]>> = <<r, Start[r]>>
    BY <1>1, <1>2, InventoryHas
  <2>2. QED
    BY <2>1
<1>3. ASSUME NEW q \in Paths, <<q, Start[q]>> \in I
      PROVE  t[q] = Start[q]
  <2>1. PICK r \in Paths : <<q, Start[q]>> = <<r, t[r]>>
    BY <1>3, InventoryHas
  <2>2. QED
    BY <2>1
<1>4. ASSUME NEW q \in G, NEW c \in Under[q]
      PROVE  c \in G
  <2>1. q \in Paths /\ c \in Paths /\ t[q] = Start[q]
    BY UnderAssumption
  <2>2. CASE t[q] # "dir"
    <3>1. t[c] = "missing" /\ Start[c] = "missing"
      BY <2>1, <2>2, TreeAssumption DEF Consistent
    <3>2. QED
      BY <2>1, <3>1
  <2>3. CASE t[q] = "dir"
    <3>1. <<q, t[q]>> \in I
      BY <2>3
    <3>2. t[c] # "missing" => <<c, t[c]>> \in I
      BY <2>1, <2>3, <3>1, InventoryHas DEF Entered
    <3>3. Start[c] # "missing" => <<c, Start[c]>> \in I
      BY <1>1, <2>1, <2>3, <3>1, InventoryHas DEF Entered
    <3>4. QED
      BY <1>2, <1>3, <2>1, <3>2, <3>3
  <2>4. QED
    BY <2>2, <2>3
<1>5. ASSUME NEW p \in Protected
      PROVE  p \in G /\ Beneath(p) \subseteq G
  <2>1. p \in Paths /\ <<p, t[p]>> \in I
    BY ProtectedAssumption, InventoryHas
  <2>2. p \in G
    BY <1>2, <2>1
  <2>3. Under[p] \subseteq G /\ G \in SUBSET Paths
    BY <1>4, <2>2
  <2> HIDE DEF G
  <2>4. QED
    BY <1>4, <2>1, <2>2, <2>3, BeneathLeast
<1>6. QED
  BY <1>5 DEF Unmoved

-----------------------------------------------------------------------------
(* What the steps do, field by field. *)

TurnIs(n, kind, verified, phase, changed, verdict) ==
  /\ turn' \in Turns
  /\ turn'.n = n /\ turn'.kind = kind /\ turn'.verified = verified /\ turn'.phase = phase
  /\ turn'.changed = changed /\ turn'.verdict = verdict

LoopIs(continued, retried, resumed, told, exit) ==
  /\ loop' \in Loops
  /\ loop'.continued = continued /\ loop'.retried = retried /\ loop'.resumed = resumed
  /\ loop'.told = told /\ loop'.exit = exit

\* The same turn in another phase.
TurnAt(phase) == TurnIs(turn.n, turn.kind, turn.verified, phase, turn.changed, turn.verdict)
ExitIs(exit) == LoopIs(loop.continued, loop.retried, loop.resumed, loop.told, exit)

Exits  == {None, "ok", "unverified", "error"}
Phases == {"model", "measure", "check", "record", "answered", "broken", "ended"}

LEMMA NewTurnIs ==
  ASSUME turn \in Turns, NEW kind \in {"first", "continue", "retry"}, NEW verified \in BOOLEAN,
         turn' = NewTurn(turn.n + 1, kind, verified)
  PROVE  TurnIs(turn.n + 1, kind, verified, "model", {}, None)
BY DEF Turns, NewTurn, TurnIs

LEMMA PhaseChange ==
  ASSUME turn \in Turns, NEW phase \in Phases, turn' = [turn EXCEPT !.phase = phase]
  PROVE  TurnAt(phase)
BY DEF Turns, Phases, TurnAt, TurnIs

LEMMA VerdictChange ==
  ASSUME turn \in Turns, NEW phase \in Phases, NEW verdict \in Verdicts,
         turn' = [turn EXCEPT !.phase = phase, !.verdict = verdict]
  PROVE  TurnIs(turn.n, turn.kind, turn.verified, phase, turn.changed, verdict)
BY DEF Turns, Phases, TurnIs

LEMMA ExitChange ==
  ASSUME loop \in Loops, NEW exit \in Exits, loop' = [loop EXCEPT !.exit = exit]
  PROVE  ExitIs(exit)
BY DEF Loops, Exits, ExitIs, LoopIs

LEMMA EndedDoes ==
  ASSUME turn \in Turns, loop \in Loops, NEW exit \in Exits, Ended(exit)
  PROVE  TurnAt("ended") /\ ExitIs(exit)
BY PhaseChange, ExitChange DEF Ended, Phases

LEMMA TurnCompletesDoes ==
  ASSUME turn \in Turns, NEW truncated \in BOOLEAN, TurnCompletes(truncated)
  PROVE  \/ /\ turn.verified
            /\ TurnIs(turn.n, turn.kind, turn.verified, "measure", turn.changed, None)
         \/ /\ ~turn.verified
            /\ TurnIs(turn.n, turn.kind, turn.verified, "answered", turn.changed, "unavailable")
<1>1. CASE turn.verified
  <2>1. turn' = [turn EXCEPT !.truncated = truncated, !.phase = "measure", !.verdict = None]
    BY <1>1 DEF TurnCompletes
  <2>2. QED
    BY <1>1, <2>1 DEF Turns, TurnIs
<1>2. CASE ~turn.verified
  <2>1. turn' = [turn EXCEPT !.truncated = truncated, !.phase = "answered", !.verdict = "unavailable"]
    BY <1>2 DEF TurnCompletes
  <2>2. QED
    BY <1>2, <2>1 DEF Turns, TurnIs
<1>3. QED
  BY <1>1, <1>2

LEMMA ResumeDoes ==
  ASSUME turn \in Turns, loop \in Loops, Resume
  PROVE  \/ /\ TurnIs(turn.n + 1, turn.kind, FALSE, "model", {}, None)
            /\ LoopIs(loop.continued, loop.retried, loop.resumed + 1, loop.told, loop.exit)
         \/ TurnAt("ended") /\ ExitIs("error")
<1>1. CASE MayResume
  <2>1. turn' = NewTurn(turn.n + 1, turn.kind, FALSE) /\ loop' = [loop EXCEPT !.resumed = loop.resumed + 1]
    BY <1>1 DEF Resume
  <2>2. turn.kind \in {"first", "continue", "retry"}
    BY DEF Turns
  <2>3. TurnIs(turn.n + 1, turn.kind, FALSE, "model", {}, None)
    BY <2>1, <2>2, NewTurnIs
  <2>4. loop.resumed + 1 \in 0..MAX_AUTO_RESUMES
    BY <1>1, GateBoundsAssumption DEF Loops, MayResume
  <2>5. LoopIs(loop.continued, loop.retried, loop.resumed + 1, loop.told, loop.exit)
    BY <2>1, <2>4 DEF Loops, LoopIs
  <2>6. QED
    BY <2>3, <2>5
<1>2. CASE ~MayResume
  BY <1>2, EndedDoes DEF Resume, ResumesUsedUp, Exits
<1>3. QED
  BY <1>1, <1>2

LEMMA ContinueDoes ==
  ASSUME turn \in Turns, loop \in Loops, Continue
  PROVE  /\ TurnIs(turn.n + 1, "continue", TRUE, "model", {}, None)
         /\ LoopIs(loop.continued + 1, loop.retried, 0, loop.told, loop.exit)
<1>1. turn' = NewTurn(turn.n + 1, "continue", TRUE)
  BY DEF Continue
<1>2. TurnIs(turn.n + 1, "continue", TRUE, "model", {}, None)
  BY <1>1, NewTurnIs
<1>3. loop' = [loop EXCEPT !.continued = loop.continued + 1, !.resumed = 0]
  BY DEF Continue
<1>4. loop.continued + 1 \in 0..MAX_TRUNCATION_CONTINUATIONS /\ 0 \in 0..MAX_AUTO_RESUMES
  BY GateBoundsAssumption DEF Loops, Continue, MayContinue
<1>5. QED
  BY <1>2, <1>3, <1>4 DEF Loops, LoopIs

LEMMA RetryDoes ==
  ASSUME turn \in Turns, loop \in Loops, last \in Results \cup {None}, Retry
  PROVE  /\ TurnIs(turn.n + 1, "retry", TRUE, "model", {}, None)
         /\ LoopIs(0, loop.retried + 1, 0, last, loop.exit)
         /\ turn.verdict = "failed" /\ last # None
<1>1. turn' = NewTurn(turn.n + 1, "retry", TRUE)
  BY DEF Retry
<1>2. TurnIs(turn.n + 1, "retry", TRUE, "model", {}, None)
  BY <1>1, NewTurnIs
<1>3. loop' = [loop EXCEPT !.continued = 0, !.resumed = 0, !.retried = loop.retried + 1, !.told = last]
  BY DEF Retry, Retried
<1>4. /\ loop.retried + 1 \in 0..MAX_VERIFICATION_RETRIES
      /\ 0 \in 0..MAX_AUTO_RESUMES /\ 0 \in 0..MAX_TRUNCATION_CONTINUATIONS
  BY GateBoundsAssumption DEF Loops, Retry, MayRetry
<1>5. LoopIs(0, loop.retried + 1, 0, last, loop.exit)
  BY <1>3, <1>4 DEF Loops, LoopIs
<1>6. QED
  BY <1>2, <1>5 DEF Retry, MayRetry, IsRetryable

LEMMA MeasureDoes ==
  ASSUME turn \in Turns, tree \in Trees, baseline = TakeInventory(Start), Measure
  PROVE  /\ TurnIs(turn.n, turn.kind, turn.verified, "check",
                   ChangedProtectedPaths(baseline, TakeInventory(tree)), turn.verdict)
         /\ judged' \in Judgements /\ judged'.n = turn.n /\ judged'.measured = tree
<1> DEFINE moved == ChangedProtectedPaths(baseline, TakeInventory(tree))
<1>1. moved \subseteq Paths
  <2>1. \A line \in baseline \cup TakeInventory(tree) : line[1] \in Paths
    <3>1. \A t : \A line \in TakeInventory(t) : line[1] \in Paths
      BY InventoryHas
    <3>2. QED
      BY <3>1
  <2>2. QED
    BY <2>1 DEF ChangedProtectedPaths, PathsOf
<1>2. turn' = [turn EXCEPT !.phase = "check", !.changed = moved]
  BY DEF Measure
<1> HIDE DEF moved
<1>3. TurnIs(turn.n, turn.kind, turn.verified, "check", moved, turn.verdict)
  BY <1>1, <1>2 DEF Turns, TurnIs
<1>4. judged' = [n |-> turn.n, measured |-> tree, started |-> << >>, code |-> None]
  BY DEF Measure
<1>5. turn.n \in Nat
  BY DEF Turns
<1>6. judged' \in Judgements /\ judged'.n = turn.n /\ judged'.measured = tree
  BY <1>4, <1>5 DEF Judgements
<1>7. QED
  BY <1>3, <1>6 DEF moved

LEMMA CheckDoes ==
  ASSUME turn \in Turns, judged \in Judgements, tree \in Trees, NEW reason, NEW code \in {0, 1, None},
         Check(reason, code)
  PROVE  LET verdict == VerdictOf(turn.changed, reason, code) IN
         /\ verdict \in Verdicts
         /\ TurnIs(turn.n, turn.kind, turn.verified, "record", turn.changed, verdict)
         /\ last' = [n |-> turn.n, verdict |-> verdict, changed |-> turn.changed]
         /\ judged' \in Judgements /\ judged'.n = judged.n /\ judged'.measured = judged.measured
         /\ verdict = "passed" => turn.changed = {} /\ judged'.code = 0
         /\ verdict = "failed" => turn.changed = {}
<1> DEFINE verdict == VerdictOf(turn.changed, reason, code)
<1>1. /\ verdict \in Verdicts
      /\ verdict = "passed" => turn.changed = {} /\ reason = "natural" /\ code = 0
      /\ verdict = "failed" => turn.changed = {}
  BY DEF VerdictOf, Verdicts
<1>2. /\ turn' = [turn EXCEPT !.phase = "record", !.verdict = verdict]
      /\ last' = [n |-> turn.n, verdict |-> verdict, changed |-> turn.changed]
      /\ judged' = [judged EXCEPT !.started = tree, !.code = IF reason = "natural" THEN code ELSE None]
  BY DEF Check, LastOf
<1> HIDE DEF verdict
<1>3. TurnIs(turn.n, turn.kind, turn.verified, "record", turn.changed, verdict)
  BY <1>1, <1>2, VerdictChange DEF Phases
<1> DEFINE c == IF reason = "natural" THEN code ELSE None
<1>4. c \in {0, 1, None} /\ (reason = "natural" => c = code)
  OBVIOUS
<1>5. judged' = [judged EXCEPT !.started = tree, !.code = c]
  BY <1>2
<1> HIDE DEF c
<1>6. /\ judged' \in Judgements /\ judged'.n = judged.n /\ judged'.measured = judged.measured
      /\ judged'.code = c
  BY <1>4, <1>5 DEF Judgements
<1>7. QED
  BY <1>1, <1>2, <1>3, <1>4, <1>6 DEF verdict

LEMMA MeasureThrowsDoes ==
  ASSUME turn \in Turns, loop \in Loops, MeasureThrows
  PROVE  /\ TurnIs(turn.n, turn.kind, turn.verified, "ended", turn.changed, turn.verdict)
         /\ ExitIs("error")
<1>1. turn' = [turn EXCEPT !.phase = "ended", !.threw = TRUE] /\ loop' = [loop EXCEPT !.exit = "error"]
  BY DEF MeasureThrows
<1>2. ExitIs("error")
  BY <1>1, ExitChange DEF Exits
<1>3. QED
  BY <1>1, <1>2 DEF Turns, TurnIs

-----------------------------------------------------------------------------
(* Every step keeps the inductive invariant, one part at a time. *)

\* Types, and a tree as a file system has it.
LEMMA ShapeKept ==
  ASSUME IInv, [Next]_vars
  PROVE  ShapeInv'
<1>i. ShapeInv /\ PhaseInv /\ JudgedInv /\ LastInv /\ JournalInv /\ WorkInv
  BY DEF IInv
<1>t. /\ turn.n \in Nat \ {0} /\ turn.verified \in BOOLEAN /\ turn.phase \in Phases
      /\ turn.verdict \in Verdicts \cup {"unavailable", None}
      /\ loop.exit \in Exits
      /\ loop.continued \in Nat /\ loop.retried \in Nat /\ loop.resumed \in Nat
  BY <1>i, GateBoundsAssumption DEF ShapeInv, Turns, Loops, Phases, Exits
<1>1. CASE \E p \in Paths, item \in Entries : ModelEdits(p, item)
  <2>1. tree' \in Trees /\ Consistent(tree')
    BY <1>i, <1>1, ChangedConsistent DEF ModelEdits, ShapeInv
  <2>2. QED
    BY <1>i, <1>1, <2>1 DEF ModelEdits, ShapeInv
<1>2. CASE \E p \in Paths, item \in Entries : SomebodyEdits(p, item)
  <2>1. tree' \in Trees /\ Consistent(tree')
    BY <1>i, <1>2, ChangedConsistent DEF SomebodyEdits, ShapeInv
  <2>2. others' \in 0..Others
    BY <1>i, <1>2, GateBoundsAssumption DEF SomebodyEdits, ShapeInv
  <2>3. QED
    BY <1>i, <1>2, <2>1, <2>2 DEF SomebodyEdits, ShapeInv
<1>3. CASE \E truncated \in BOOLEAN : TurnCompletes(truncated)
  <2>1. \/ turn.verified /\ TurnIs(turn.n, turn.kind, turn.verified, "measure", turn.changed, None)
        \/ ~turn.verified /\ TurnIs(turn.n, turn.kind, turn.verified, "answered", turn.changed, "unavailable")
    BY <1>i, <1>3, TurnCompletesDoes DEF ShapeInv
  <2>2. turn.phase = "model" /\ UNCHANGED <<tree, baseline, last, loop, journal, judged, others>>
    BY <1>3 DEF TurnCompletes
  <2>3. QED
    BY <1>i, <1>t, <2>1, <2>2, NoneAssumption DEF TurnIs, TurnAt, LoopIs, ExitIs, ShapeInv
<1>4. CASE \E resumable \in BOOLEAN : TurnBreaks(resumable)
  <2>1. \/ TurnAt("broken") /\ UNCHANGED loop
        \/ TurnAt("ended") /\ ExitIs("error")
    BY <1>i, <1>4, PhaseChange, EndedDoes DEF TurnBreaks, ShapeInv, Phases, Exits
  <2>2. turn.phase = "model" /\ UNCHANGED <<tree, baseline, last, journal, judged, others>>
    BY <1>4 DEF TurnBreaks
  <2>3. QED
    BY <1>i, <1>t, <2>1, <2>2, NoneAssumption DEF TurnIs, TurnAt, LoopIs, ExitIs, ShapeInv
<1>5. CASE Resume
  <2>1. \/ /\ TurnIs(turn.n + 1, turn.kind, FALSE, "model", {}, None)
           /\ LoopIs(loop.continued, loop.retried, loop.resumed + 1, loop.told, loop.exit)
        \/ TurnAt("ended") /\ ExitIs("error")
    BY <1>i, <1>5, ResumeDoes DEF ShapeInv
  <2>2. turn.phase = "broken" /\ UNCHANGED <<tree, baseline, last, journal, judged, others>>
    BY <1>5 DEF Resume
  <2>3. QED
    BY <1>i, <1>t, <2>1, <2>2, NoneAssumption DEF TurnIs, TurnAt, LoopIs, ExitIs, ShapeInv
<1>6. CASE Measure
  <2>1. /\ TurnIs(turn.n, turn.kind, turn.verified, "check",
                  ChangedProtectedPaths(baseline, TakeInventory(tree)), turn.verdict)
        /\ judged' \in Judgements /\ judged'.n = turn.n /\ judged'.measured = tree
    BY <1>i, <1>6, MeasureDoes DEF ShapeInv
  <2>2. turn.phase = "measure" /\ UNCHANGED <<tree, baseline, last, loop, journal, others>>
    BY <1>6 DEF Measure, Measured
  <2>3. QED
    BY <1>i, <1>t, <2>1, <2>2, NoneAssumption DEF TurnIs, TurnAt, LoopIs, ExitIs, ShapeInv
<1>7. CASE MeasureThrows
  <2>1. TurnIs(turn.n, turn.kind, turn.verified, "ended", turn.changed, turn.verdict)
        /\ ExitIs("error")
    BY <1>i, <1>7, MeasureThrowsDoes DEF ShapeInv
  <2>2. turn.phase = "measure" /\ UNCHANGED <<tree, baseline, last, journal, judged, others>>
    BY <1>7 DEF MeasureThrows
  <2>3. QED
    BY <1>i, <1>t, <2>1, <2>2, NoneAssumption DEF TurnIs, TurnAt, LoopIs, ExitIs, ShapeInv
<1>8. CASE \E reason \in {"natural", "stopped"}, code \in {0, 1, None} :
                Check(reason, code) /\ (reason = "natural" => code \in {0, 1})
  <2>1. PICK reason \in {"natural", "stopped"}, code \in {0, 1, None} : Check(reason, code)
    BY <1>8
  <2>2. judged \in Judgements /\ turn \in Turns /\ tree \in Trees
    BY <1>i, <2>1 DEF Check, JudgedInv, ShapeInv
  <2> DEFINE verdict == VerdictOf(turn.changed, reason, code)
  <2>3. /\ verdict \in Verdicts
        /\ TurnIs(turn.n, turn.kind, turn.verified, "record", turn.changed, verdict)
        /\ last' = [n |-> turn.n, verdict |-> verdict, changed |-> turn.changed]
        /\ judged' \in Judgements /\ judged'.n = judged.n /\ judged'.measured = judged.measured
        /\ verdict = "passed" => turn.changed = {} /\ judged'.code = 0
        /\ verdict = "failed" => turn.changed = {}
    BY <2>1, <2>2, CheckDoes
  <2>4. turn.phase = "check" /\ UNCHANGED <<tree, baseline, loop, journal, others>>
    BY <2>1 DEF Check
  <2> HIDE DEF verdict
  <2>5. last' \in Results
    BY <1>t, <2>2, <2>3 DEF Results, Turns
  <2>6. QED
    BY <1>i, <1>t, <2>2, <2>3, <2>4, <2>5, NoneAssumption DEF TurnIs, ShapeInv
<1>9. CASE CheckThrows
  <2>1. /\ TurnIs(turn.n, turn.kind, turn.verified, "record", turn.changed, "errored")
        /\ last' = [n |-> turn.n, verdict |-> "errored", changed |-> turn.changed]
    BY <1>i, <1>9, VerdictChange DEF CheckThrows, LastOf, ShapeInv, Phases, Verdicts
  <2>2. turn.phase = "check" /\ UNCHANGED <<tree, baseline, loop, journal, judged, others>>
    BY <1>9 DEF CheckThrows
  <2>3. last' \in Results
    BY <1>i, <1>t, <2>1 DEF Results, Verdicts, ShapeInv, Turns
  <2>4. QED
    BY <1>i, <2>1, <2>2, <2>3 DEF TurnIs, ShapeInv
<1>10. CASE Record
  <2>1. TurnAt("answered") /\ journal' = Append(journal, [n |-> turn.n, verdict |-> turn.verdict])
    BY <1>i, <1>10, PhaseChange DEF Record, ShapeInv, Phases
  <2>2. turn.phase = "record" /\ UNCHANGED <<tree, baseline, last, loop, judged, others>>
    BY <1>10 DEF Record
  <2>3. [n |-> turn.n, verdict |-> turn.verdict] \in [n : Nat, verdict : Verdicts]
    BY <1>i, <1>t, <2>2 DEF PhaseInv
  <2>4. journal' \in Seq([n : Nat, verdict : Verdicts])
    BY <1>i, <2>1, <2>3, AppendProperties DEF ShapeInv
  <2>5. QED
    BY <1>i, <2>1, <2>2, <2>4 DEF TurnAt, TurnIs, ShapeInv
<1>11. CASE RecordFails
  <2>1. TurnAt("ended") /\ ExitIs("error")
    BY <1>i, <1>11, EndedDoes DEF RecordFails, RecordFailed, ShapeInv, Exits
  <2>2. turn.phase = "record" /\ UNCHANGED <<tree, baseline, last, journal, judged, others>>
    BY <1>11 DEF RecordFails
  <2>3. QED
    BY <1>i, <1>t, <2>1, <2>2, NoneAssumption DEF TurnIs, TurnAt, LoopIs, ExitIs, ShapeInv
<1>12. CASE Continue
  <2>1. /\ TurnIs(turn.n + 1, "continue", TRUE, "model", {}, None)
        /\ LoopIs(loop.continued + 1, loop.retried, 0, loop.told, loop.exit)
    BY <1>i, <1>12, ContinueDoes DEF ShapeInv
  <2>2. turn.phase = "answered" /\ UNCHANGED <<tree, baseline, last, journal, judged, others>>
    BY <1>12 DEF Continue
  <2>3. QED
    BY <1>i, <1>t, <2>1, <2>2, NoneAssumption DEF TurnIs, TurnAt, LoopIs, ExitIs, ShapeInv
<1>13. CASE Retry
  <2>1. /\ TurnIs(turn.n + 1, "retry", TRUE, "model", {}, None)
        /\ LoopIs(0, loop.retried + 1, 0, last, loop.exit)
        /\ turn.verdict = "failed" /\ last # None
    BY <1>i, <1>13, RetryDoes DEF ShapeInv
  <2>2. turn.phase = "answered" /\ UNCHANGED <<tree, baseline, last, journal, judged, others>>
    BY <1>13 DEF Retry
  <2>3. QED
    BY <1>i, <1>t, <2>1, <2>2, NoneAssumption DEF TurnIs, TurnAt, LoopIs, ExitIs, ShapeInv
<1>14. CASE Finish
  <2>1. TurnAt("ended") /\ ExitIs(IF turn.verdict = "passed" THEN "ok" ELSE "unverified")
    BY <1>i, <1>14, EndedDoes DEF Finish, ShapeInv, Exits
  <2>2. turn.phase = "answered" /\ UNCHANGED <<tree, baseline, last, journal, judged, others>>
    BY <1>14 DEF Finish
  <2>3. QED
    BY <1>i, <1>t, <2>1, <2>2, NoneAssumption DEF TurnIs, TurnAt, LoopIs, ExitIs, ShapeInv
<1>15. CASE UNCHANGED vars
  BY <1>i, <1>15 DEF vars, ShapeInv
<1>16. QED
  BY <1>1, <1>2, <1>3, <1>4, <1>5, <1>6, <1>7, <1>8, <1>9, <1>10, <1>11, <1>12, <1>13, <1>14, <1>15 DEF Next, TurnEnds, CheckStep, LoopStep, Entries

\* A turn has a verdict from its check on, and a command its result at the end.
LEMMA PhaseKept ==
  ASSUME IInv, [Next]_vars
  PROVE  PhaseInv'
<1>i. ShapeInv /\ PhaseInv /\ JudgedInv /\ LastInv /\ JournalInv /\ WorkInv
  BY DEF IInv
<1>t. /\ turn.n \in Nat \ {0} /\ turn.verified \in BOOLEAN /\ turn.phase \in Phases
      /\ turn.verdict \in Verdicts \cup {"unavailable", None}
      /\ loop.exit \in Exits
      /\ loop.continued \in Nat /\ loop.retried \in Nat /\ loop.resumed \in Nat
  BY <1>i, GateBoundsAssumption DEF ShapeInv, Turns, Loops, Phases, Exits
<1>1. CASE \E p \in Paths, item \in Entries : ModelEdits(p, item)
  BY <1>i, <1>1 DEF ModelEdits, PhaseInv, Verdicts
<1>2. CASE \E p \in Paths, item \in Entries : SomebodyEdits(p, item)
  BY <1>i, <1>2 DEF SomebodyEdits, PhaseInv, Verdicts
<1>3. CASE \E truncated \in BOOLEAN : TurnCompletes(truncated)
  <2>1. \/ turn.verified /\ TurnIs(turn.n, turn.kind, turn.verified, "measure", turn.changed, None)
        \/ ~turn.verified /\ TurnIs(turn.n, turn.kind, turn.verified, "answered", turn.changed, "unavailable")
    BY <1>i, <1>3, TurnCompletesDoes DEF ShapeInv
  <2>2. turn.phase = "model" /\ UNCHANGED <<tree, baseline, last, loop, journal, judged, others>>
    BY <1>3 DEF TurnCompletes
  <2>3. QED
    BY <1>i, <1>t, <2>1, <2>2, NoneAssumption DEF TurnIs, TurnAt, LoopIs, ExitIs, PhaseInv, Verdicts
<1>4. CASE \E resumable \in BOOLEAN : TurnBreaks(resumable)
  <2>1. \/ TurnAt("broken") /\ UNCHANGED loop
        \/ TurnAt("ended") /\ ExitIs("error")
    BY <1>i, <1>4, PhaseChange, EndedDoes DEF TurnBreaks, ShapeInv, Phases, Exits
  <2>2. turn.phase = "model" /\ UNCHANGED <<tree, baseline, last, journal, judged, others>>
    BY <1>4 DEF TurnBreaks
  <2>3. QED
    BY <1>i, <1>t, <2>1, <2>2, NoneAssumption DEF TurnIs, TurnAt, LoopIs, ExitIs, PhaseInv, Verdicts
<1>5. CASE Resume
  <2>1. \/ /\ TurnIs(turn.n + 1, turn.kind, FALSE, "model", {}, None)
           /\ LoopIs(loop.continued, loop.retried, loop.resumed + 1, loop.told, loop.exit)
        \/ TurnAt("ended") /\ ExitIs("error")
    BY <1>i, <1>5, ResumeDoes DEF ShapeInv
  <2>2. turn.phase = "broken" /\ UNCHANGED <<tree, baseline, last, journal, judged, others>>
    BY <1>5 DEF Resume
  <2>3. QED
    BY <1>i, <1>t, <2>1, <2>2, NoneAssumption DEF TurnIs, TurnAt, LoopIs, ExitIs, PhaseInv, Verdicts
<1>6. CASE Measure
  <2>1. /\ TurnIs(turn.n, turn.kind, turn.verified, "check",
                  ChangedProtectedPaths(baseline, TakeInventory(tree)), turn.verdict)
        /\ judged' \in Judgements /\ judged'.n = turn.n /\ judged'.measured = tree
    BY <1>i, <1>6, MeasureDoes DEF ShapeInv
  <2>2. turn.phase = "measure" /\ UNCHANGED <<tree, baseline, last, loop, journal, others>>
    BY <1>6 DEF Measure, Measured
  <2>3. QED
    BY <1>i, <1>t, <2>1, <2>2, NoneAssumption DEF TurnIs, TurnAt, LoopIs, ExitIs, PhaseInv, Verdicts
<1>7. CASE MeasureThrows
  <2>1. TurnIs(turn.n, turn.kind, turn.verified, "ended", turn.changed, turn.verdict)
        /\ ExitIs("error")
    BY <1>i, <1>7, MeasureThrowsDoes DEF ShapeInv
  <2>2. turn.phase = "measure" /\ UNCHANGED <<tree, baseline, last, journal, judged, others>>
    BY <1>7 DEF MeasureThrows
  <2>3. QED
    BY <1>i, <1>t, <2>1, <2>2, NoneAssumption DEF TurnIs, TurnAt, LoopIs, ExitIs, PhaseInv, Verdicts
<1>8. CASE \E reason \in {"natural", "stopped"}, code \in {0, 1, None} :
                Check(reason, code) /\ (reason = "natural" => code \in {0, 1})
  <2>1. PICK reason \in {"natural", "stopped"}, code \in {0, 1, None} : Check(reason, code)
    BY <1>8
  <2>2. judged \in Judgements /\ turn \in Turns /\ tree \in Trees
    BY <1>i, <2>1 DEF Check, JudgedInv, ShapeInv
  <2> DEFINE verdict == VerdictOf(turn.changed, reason, code)
  <2>3. /\ verdict \in Verdicts
        /\ TurnIs(turn.n, turn.kind, turn.verified, "record", turn.changed, verdict)
        /\ last' = [n |-> turn.n, verdict |-> verdict, changed |-> turn.changed]
        /\ judged' \in Judgements /\ judged'.n = judged.n /\ judged'.measured = judged.measured
        /\ verdict = "passed" => turn.changed = {} /\ judged'.code = 0
        /\ verdict = "failed" => turn.changed = {}
    BY <2>1, <2>2, CheckDoes
  <2>4. turn.phase = "check" /\ UNCHANGED <<tree, baseline, loop, journal, others>>
    BY <2>1 DEF Check
  <2> HIDE DEF verdict
  <2>5. QED
    BY <1>i, <1>t, <2>2, <2>3, <2>4, NoneAssumption DEF TurnIs, PhaseInv, Verdicts
<1>9. CASE CheckThrows
  <2>1. /\ TurnIs(turn.n, turn.kind, turn.verified, "record", turn.changed, "errored")
        /\ last' = [n |-> turn.n, verdict |-> "errored", changed |-> turn.changed]
    BY <1>i, <1>9, VerdictChange DEF CheckThrows, LastOf, ShapeInv, Phases, Verdicts
  <2>2. turn.phase = "check" /\ UNCHANGED <<tree, baseline, loop, journal, judged, others>>
    BY <1>9 DEF CheckThrows
  <2>3. QED
    BY <1>i, <1>t, <2>1, <2>2, NoneAssumption DEF TurnIs, TurnAt, LoopIs, ExitIs, PhaseInv, Verdicts
<1>10. CASE Record
  <2>1. TurnAt("answered") /\ journal' = Append(journal, [n |-> turn.n, verdict |-> turn.verdict])
    BY <1>i, <1>10, PhaseChange DEF Record, ShapeInv, Phases
  <2>2. turn.phase = "record" /\ UNCHANGED <<tree, baseline, last, loop, judged, others>>
    BY <1>10 DEF Record
  <2>3. QED
    BY <1>i, <1>t, <2>1, <2>2, NoneAssumption DEF TurnIs, TurnAt, LoopIs, ExitIs, PhaseInv, Verdicts
<1>11. CASE RecordFails
  <2>1. TurnAt("ended") /\ ExitIs("error")
    BY <1>i, <1>11, EndedDoes DEF RecordFails, RecordFailed, ShapeInv, Exits
  <2>2. turn.phase = "record" /\ UNCHANGED <<tree, baseline, last, journal, judged, others>>
    BY <1>11 DEF RecordFails
  <2>3. QED
    BY <1>i, <1>t, <2>1, <2>2, NoneAssumption DEF TurnIs, TurnAt, LoopIs, ExitIs, PhaseInv, Verdicts
<1>12. CASE Continue
  <2>1. /\ TurnIs(turn.n + 1, "continue", TRUE, "model", {}, None)
        /\ LoopIs(loop.continued + 1, loop.retried, 0, loop.told, loop.exit)
    BY <1>i, <1>12, ContinueDoes DEF ShapeInv
  <2>2. turn.phase = "answered" /\ UNCHANGED <<tree, baseline, last, journal, judged, others>>
    BY <1>12 DEF Continue
  <2>3. QED
    BY <1>i, <1>t, <2>1, <2>2, NoneAssumption DEF TurnIs, TurnAt, LoopIs, ExitIs, PhaseInv, Verdicts
<1>13. CASE Retry
  <2>1. /\ TurnIs(turn.n + 1, "retry", TRUE, "model", {}, None)
        /\ LoopIs(0, loop.retried + 1, 0, last, loop.exit)
        /\ turn.verdict = "failed" /\ last # None
    BY <1>i, <1>13, RetryDoes DEF ShapeInv
  <2>2. turn.phase = "answered" /\ UNCHANGED <<tree, baseline, last, journal, judged, others>>
    BY <1>13 DEF Retry
  <2>3. QED
    BY <1>i, <1>t, <2>1, <2>2, NoneAssumption DEF TurnIs, TurnAt, LoopIs, ExitIs, PhaseInv, Verdicts
<1>14. CASE Finish
  <2>1. TurnAt("ended") /\ ExitIs(IF turn.verdict = "passed" THEN "ok" ELSE "unverified")
    BY <1>i, <1>14, EndedDoes DEF Finish, ShapeInv, Exits
  <2>2. turn.phase = "answered" /\ UNCHANGED <<tree, baseline, last, journal, judged, others>>
    BY <1>14 DEF Finish
  <2>3. QED
    BY <1>i, <1>t, <2>1, <2>2, NoneAssumption DEF TurnIs, TurnAt, LoopIs, ExitIs, PhaseInv, Verdicts
<1>15. CASE UNCHANGED vars
  BY <1>i, <1>15 DEF vars, PhaseInv, Verdicts
<1>16. QED
  BY <1>1, <1>2, <1>3, <1>4, <1>5, <1>6, <1>7, <1>8, <1>9, <1>10, <1>11, <1>12, <1>13, <1>14, <1>15 DEF Next, TurnEnds, CheckStep, LoopStep, Entries

\* A pass is of inputs that have not moved.
LEMMA JudgedKept ==
  ASSUME IInv, [Next]_vars
  PROVE  JudgedInv'
<1>i. ShapeInv /\ PhaseInv /\ JudgedInv /\ LastInv /\ JournalInv /\ WorkInv
  BY DEF IInv
<1>t. /\ turn.n \in Nat \ {0} /\ turn.verified \in BOOLEAN /\ turn.phase \in Phases
      /\ turn.verdict \in Verdicts \cup {"unavailable", None}
      /\ loop.exit \in Exits
      /\ loop.continued \in Nat /\ loop.retried \in Nat /\ loop.resumed \in Nat
  BY <1>i, GateBoundsAssumption DEF ShapeInv, Turns, Loops, Phases, Exits
<1>1. CASE \E p \in Paths, item \in Entries : ModelEdits(p, item)
  BY <1>i, <1>1 DEF ModelEdits, JudgedInv, Verdicts
<1>2. CASE \E p \in Paths, item \in Entries : SomebodyEdits(p, item)
  BY <1>i, <1>2 DEF SomebodyEdits, JudgedInv, Verdicts
<1>3. CASE \E truncated \in BOOLEAN : TurnCompletes(truncated)
  <2>1. \/ turn.verified /\ TurnIs(turn.n, turn.kind, turn.verified, "measure", turn.changed, None)
        \/ ~turn.verified /\ TurnIs(turn.n, turn.kind, turn.verified, "answered", turn.changed, "unavailable")
    BY <1>i, <1>3, TurnCompletesDoes DEF ShapeInv
  <2>2. turn.phase = "model" /\ UNCHANGED <<tree, baseline, last, loop, journal, judged, others>>
    BY <1>3 DEF TurnCompletes
  <2>3. QED
    BY <1>i, <1>t, <2>1, <2>2, NoneAssumption DEF TurnIs, TurnAt, LoopIs, ExitIs, JudgedInv, Verdicts
<1>4. CASE \E resumable \in BOOLEAN : TurnBreaks(resumable)
  <2>1. \/ TurnAt("broken") /\ UNCHANGED loop
        \/ TurnAt("ended") /\ ExitIs("error")
    BY <1>i, <1>4, PhaseChange, EndedDoes DEF TurnBreaks, ShapeInv, Phases, Exits
  <2>2. turn.phase = "model" /\ UNCHANGED <<tree, baseline, last, journal, judged, others>>
    BY <1>4 DEF TurnBreaks
  <2>3. QED
    BY <1>i, <1>t, <2>1, <2>2, NoneAssumption DEF TurnIs, TurnAt, LoopIs, ExitIs, JudgedInv, Verdicts
<1>5. CASE Resume
  <2>1. \/ /\ TurnIs(turn.n + 1, turn.kind, FALSE, "model", {}, None)
           /\ LoopIs(loop.continued, loop.retried, loop.resumed + 1, loop.told, loop.exit)
        \/ TurnAt("ended") /\ ExitIs("error")
    BY <1>i, <1>5, ResumeDoes DEF ShapeInv
  <2>2. turn.phase = "broken" /\ UNCHANGED <<tree, baseline, last, journal, judged, others>>
    BY <1>5 DEF Resume
  <2>3. QED
    BY <1>i, <1>t, <2>1, <2>2, NoneAssumption DEF TurnIs, TurnAt, LoopIs, ExitIs, JudgedInv, Verdicts
<1>6. CASE Measure
  <2>1. /\ TurnIs(turn.n, turn.kind, turn.verified, "check",
                  ChangedProtectedPaths(baseline, TakeInventory(tree)), turn.verdict)
        /\ judged' \in Judgements /\ judged'.n = turn.n /\ judged'.measured = tree
    BY <1>i, <1>6, MeasureDoes DEF ShapeInv
  <2>2. turn.phase = "measure" /\ UNCHANGED <<tree, baseline, last, loop, journal, others>>
    BY <1>6 DEF Measure, Measured
  <2>3. Consistent(judged'.measured)
    BY <1>i, <2>1 DEF ShapeInv
  <2>4. turn'.verdict = None
    BY <1>i, <2>1, <2>2 DEF PhaseInv, TurnIs
  <2>5. QED
    BY <2>1, <2>2, <2>3, <2>4, NoneAssumption DEF TurnIs, JudgedInv
<1>7. CASE MeasureThrows
  <2>1. TurnIs(turn.n, turn.kind, turn.verified, "ended", turn.changed, turn.verdict)
        /\ ExitIs("error")
    BY <1>i, <1>7, MeasureThrowsDoes DEF ShapeInv
  <2>2. turn.phase = "measure" /\ UNCHANGED <<tree, baseline, last, journal, judged, others>>
    BY <1>7 DEF MeasureThrows
  <2>3. QED
    BY <1>i, <1>t, <2>1, <2>2, NoneAssumption DEF TurnIs, TurnAt, LoopIs, ExitIs, JudgedInv, Verdicts
<1>8. CASE \E reason \in {"natural", "stopped"}, code \in {0, 1, None} :
                Check(reason, code) /\ (reason = "natural" => code \in {0, 1})
  <2>1. PICK reason \in {"natural", "stopped"}, code \in {0, 1, None} : Check(reason, code)
    BY <1>8
  <2>2. judged \in Judgements /\ turn \in Turns /\ tree \in Trees
    BY <1>i, <2>1 DEF Check, JudgedInv, ShapeInv
  <2> DEFINE verdict == VerdictOf(turn.changed, reason, code)
  <2>3. /\ verdict \in Verdicts
        /\ TurnIs(turn.n, turn.kind, turn.verified, "record", turn.changed, verdict)
        /\ last' = [n |-> turn.n, verdict |-> verdict, changed |-> turn.changed]
        /\ judged' \in Judgements /\ judged'.n = judged.n /\ judged'.measured = judged.measured
        /\ verdict = "passed" => turn.changed = {} /\ judged'.code = 0
        /\ verdict = "failed" => turn.changed = {}
    BY <2>1, <2>2, CheckDoes
  <2>4. turn.phase = "check" /\ UNCHANGED <<tree, baseline, loop, journal, others>>
    BY <2>1 DEF Check
  <2> HIDE DEF verdict
  <2>5. Unmoved(judged.measured) \/ turn.changed # {}
    <3>1. judged.measured \in Trees /\ Consistent(judged.measured)
      BY <1>i, <2>2, <2>4 DEF JudgedInv, Judgements
    <3>2. turn.changed = ChangedProtectedPaths(TakeInventory(Start), TakeInventory(judged.measured))
      BY <1>i, <2>4 DEF JudgedInv, ShapeInv
    <3>3. QED
      BY <3>1, <3>2, SameInventoryUnmoved
  <2>6. judged.n = turn.n
    BY <1>i, <2>4 DEF JudgedInv
  <2>7. judged'.measured = judged.measured /\ Unmoved(judged.measured) => Unmoved(judged'.measured)
    OBVIOUS
  <2>8. QED
    BY <1>i, <1>t, <2>2, <2>3, <2>4, <2>5, <2>6, <2>7, NoneAssumption DEF TurnIs, JudgedInv, Verdicts
<1>9. CASE CheckThrows
  <2>1. /\ TurnIs(turn.n, turn.kind, turn.verified, "record", turn.changed, "errored")
        /\ last' = [n |-> turn.n, verdict |-> "errored", changed |-> turn.changed]
    BY <1>i, <1>9, VerdictChange DEF CheckThrows, LastOf, ShapeInv, Phases, Verdicts
  <2>2. turn.phase = "check" /\ UNCHANGED <<tree, baseline, loop, journal, judged, others>>
    BY <1>9 DEF CheckThrows
  <2>3. QED
    BY <1>i, <1>t, <2>1, <2>2, NoneAssumption DEF TurnIs, TurnAt, LoopIs, ExitIs, JudgedInv, Verdicts
<1>10. CASE Record
  <2>1. TurnAt("answered") /\ journal' = Append(journal, [n |-> turn.n, verdict |-> turn.verdict])
    BY <1>i, <1>10, PhaseChange DEF Record, ShapeInv, Phases
  <2>2. turn.phase = "record" /\ UNCHANGED <<tree, baseline, last, loop, judged, others>>
    BY <1>10 DEF Record
  <2>3. QED
    BY <1>i, <1>t, <2>1, <2>2, NoneAssumption DEF TurnIs, TurnAt, LoopIs, ExitIs, JudgedInv, Verdicts
<1>11. CASE RecordFails
  <2>1. TurnAt("ended") /\ ExitIs("error")
    BY <1>i, <1>11, EndedDoes DEF RecordFails, RecordFailed, ShapeInv, Exits
  <2>2. turn.phase = "record" /\ UNCHANGED <<tree, baseline, last, journal, judged, others>>
    BY <1>11 DEF RecordFails
  <2>3. QED
    BY <1>i, <1>t, <2>1, <2>2, NoneAssumption DEF TurnIs, TurnAt, LoopIs, ExitIs, JudgedInv, Verdicts
<1>12. CASE Continue
  <2>1. /\ TurnIs(turn.n + 1, "continue", TRUE, "model", {}, None)
        /\ LoopIs(loop.continued + 1, loop.retried, 0, loop.told, loop.exit)
    BY <1>i, <1>12, ContinueDoes DEF ShapeInv
  <2>2. turn.phase = "answered" /\ UNCHANGED <<tree, baseline, last, journal, judged, others>>
    BY <1>12 DEF Continue
  <2>3. QED
    BY <1>i, <1>t, <2>1, <2>2, NoneAssumption DEF TurnIs, TurnAt, LoopIs, ExitIs, JudgedInv, Verdicts
<1>13. CASE Retry
  <2>1. /\ TurnIs(turn.n + 1, "retry", TRUE, "model", {}, None)
        /\ LoopIs(0, loop.retried + 1, 0, last, loop.exit)
        /\ turn.verdict = "failed" /\ last # None
    BY <1>i, <1>13, RetryDoes DEF ShapeInv
  <2>2. turn.phase = "answered" /\ UNCHANGED <<tree, baseline, last, journal, judged, others>>
    BY <1>13 DEF Retry
  <2>3. QED
    BY <1>i, <1>t, <2>1, <2>2, NoneAssumption DEF TurnIs, TurnAt, LoopIs, ExitIs, JudgedInv, Verdicts
<1>14. CASE Finish
  <2>1. TurnAt("ended") /\ ExitIs(IF turn.verdict = "passed" THEN "ok" ELSE "unverified")
    BY <1>i, <1>14, EndedDoes DEF Finish, ShapeInv, Exits
  <2>2. turn.phase = "answered" /\ UNCHANGED <<tree, baseline, last, journal, judged, others>>
    BY <1>14 DEF Finish
  <2>3. QED
    BY <1>i, <1>t, <2>1, <2>2, NoneAssumption DEF TurnIs, TurnAt, LoopIs, ExitIs, JudgedInv, Verdicts
<1>15. CASE UNCHANGED vars
  BY <1>i, <1>15 DEF vars, JudgedInv, Verdicts
<1>16. QED
  BY <1>1, <1>2, <1>3, <1>4, <1>5, <1>6, <1>7, <1>8, <1>9, <1>10, <1>11, <1>12, <1>13, <1>14, <1>15 DEF Next, TurnEnds, CheckStep, LoopStep, Entries

\* What the program keeps of the last result is the verdict of this turn.
LEMMA LastKept ==
  ASSUME IInv, [Next]_vars
  PROVE  LastInv'
<1>i. ShapeInv /\ PhaseInv /\ JudgedInv /\ LastInv /\ JournalInv /\ WorkInv
  BY DEF IInv
<1>t. /\ turn.n \in Nat \ {0} /\ turn.verified \in BOOLEAN /\ turn.phase \in Phases
      /\ turn.verdict \in Verdicts \cup {"unavailable", None}
      /\ loop.exit \in Exits
      /\ loop.continued \in Nat /\ loop.retried \in Nat /\ loop.resumed \in Nat
  BY <1>i, GateBoundsAssumption DEF ShapeInv, Turns, Loops, Phases, Exits
<1>1. CASE \E p \in Paths, item \in Entries : ModelEdits(p, item)
  BY <1>i, <1>1 DEF ModelEdits, LastInv, PhaseInv, Verdicts, RetryNamesItsFailure
<1>2. CASE \E p \in Paths, item \in Entries : SomebodyEdits(p, item)
  BY <1>i, <1>2 DEF SomebodyEdits, LastInv, PhaseInv, Verdicts, RetryNamesItsFailure
<1>3. CASE \E truncated \in BOOLEAN : TurnCompletes(truncated)
  <2>1. \/ turn.verified /\ TurnIs(turn.n, turn.kind, turn.verified, "measure", turn.changed, None)
        \/ ~turn.verified /\ TurnIs(turn.n, turn.kind, turn.verified, "answered", turn.changed, "unavailable")
    BY <1>i, <1>3, TurnCompletesDoes DEF ShapeInv
  <2>2. turn.phase = "model" /\ UNCHANGED <<tree, baseline, last, loop, journal, judged, others>>
    BY <1>3 DEF TurnCompletes
  <2>3. QED
    BY <1>i, <1>t, <2>1, <2>2, NoneAssumption DEF TurnIs, TurnAt, LoopIs, ExitIs, LastInv, PhaseInv, Verdicts, RetryNamesItsFailure
<1>4. CASE \E resumable \in BOOLEAN : TurnBreaks(resumable)
  <2>1. \/ TurnAt("broken") /\ UNCHANGED loop
        \/ TurnAt("ended") /\ ExitIs("error")
    BY <1>i, <1>4, PhaseChange, EndedDoes DEF TurnBreaks, ShapeInv, Phases, Exits
  <2>2. turn.phase = "model" /\ UNCHANGED <<tree, baseline, last, journal, judged, others>>
    BY <1>4 DEF TurnBreaks
  <2>3. QED
    BY <1>i, <1>t, <2>1, <2>2, NoneAssumption DEF TurnIs, TurnAt, LoopIs, ExitIs, LastInv, PhaseInv, Verdicts, RetryNamesItsFailure
<1>5. CASE Resume
  <2>1. \/ /\ TurnIs(turn.n + 1, turn.kind, FALSE, "model", {}, None)
           /\ LoopIs(loop.continued, loop.retried, loop.resumed + 1, loop.told, loop.exit)
        \/ TurnAt("ended") /\ ExitIs("error")
    BY <1>i, <1>5, ResumeDoes DEF ShapeInv
  <2>2. turn.phase = "broken" /\ UNCHANGED <<tree, baseline, last, journal, judged, others>>
    BY <1>5 DEF Resume
  <2>3. QED
    BY <1>i, <1>t, <2>1, <2>2, NoneAssumption DEF TurnIs, TurnAt, LoopIs, ExitIs, LastInv, PhaseInv, Verdicts, RetryNamesItsFailure
<1>6. CASE Measure
  <2>1. /\ TurnIs(turn.n, turn.kind, turn.verified, "check",
                  ChangedProtectedPaths(baseline, TakeInventory(tree)), turn.verdict)
        /\ judged' \in Judgements /\ judged'.n = turn.n /\ judged'.measured = tree
    BY <1>i, <1>6, MeasureDoes DEF ShapeInv
  <2>2. turn.phase = "measure" /\ UNCHANGED <<tree, baseline, last, loop, journal, others>>
    BY <1>6 DEF Measure, Measured
  <2>3. QED
    BY <1>i, <1>t, <2>1, <2>2, NoneAssumption DEF TurnIs, TurnAt, LoopIs, ExitIs, LastInv, PhaseInv, Verdicts, RetryNamesItsFailure
<1>7. CASE MeasureThrows
  <2>1. TurnIs(turn.n, turn.kind, turn.verified, "ended", turn.changed, turn.verdict)
        /\ ExitIs("error")
    BY <1>i, <1>7, MeasureThrowsDoes DEF ShapeInv
  <2>2. turn.phase = "measure" /\ UNCHANGED <<tree, baseline, last, journal, judged, others>>
    BY <1>7 DEF MeasureThrows
  <2>3. QED
    BY <1>i, <1>t, <2>1, <2>2, NoneAssumption DEF TurnIs, TurnAt, LoopIs, ExitIs, LastInv, PhaseInv, Verdicts, RetryNamesItsFailure
<1>8. CASE \E reason \in {"natural", "stopped"}, code \in {0, 1, None} :
                Check(reason, code) /\ (reason = "natural" => code \in {0, 1})
  <2>1. PICK reason \in {"natural", "stopped"}, code \in {0, 1, None} : Check(reason, code)
    BY <1>8
  <2>2. judged \in Judgements /\ turn \in Turns /\ tree \in Trees
    BY <1>i, <2>1 DEF Check, JudgedInv, ShapeInv
  <2> DEFINE verdict == VerdictOf(turn.changed, reason, code)
  <2>3. /\ verdict \in Verdicts
        /\ TurnIs(turn.n, turn.kind, turn.verified, "record", turn.changed, verdict)
        /\ last' = [n |-> turn.n, verdict |-> verdict, changed |-> turn.changed]
        /\ judged' \in Judgements /\ judged'.n = judged.n /\ judged'.measured = judged.measured
        /\ verdict = "passed" => turn.changed = {} /\ judged'.code = 0
        /\ verdict = "failed" => turn.changed = {}
    BY <2>1, <2>2, CheckDoes
  <2>4. turn.phase = "check" /\ UNCHANGED <<tree, baseline, loop, journal, others>>
    BY <2>1 DEF Check
  <2> HIDE DEF verdict
  <2>5. QED
    BY <1>i, <1>t, <2>2, <2>3, <2>4, NoneAssumption DEF TurnIs, LastInv, PhaseInv, Verdicts, RetryNamesItsFailure
<1>9. CASE CheckThrows
  <2>1. /\ TurnIs(turn.n, turn.kind, turn.verified, "record", turn.changed, "errored")
        /\ last' = [n |-> turn.n, verdict |-> "errored", changed |-> turn.changed]
    BY <1>i, <1>9, VerdictChange DEF CheckThrows, LastOf, ShapeInv, Phases, Verdicts
  <2>2. turn.phase = "check" /\ UNCHANGED <<tree, baseline, loop, journal, judged, others>>
    BY <1>9 DEF CheckThrows
  <2>3. QED
    BY <1>i, <1>t, <2>1, <2>2, NoneAssumption DEF TurnIs, TurnAt, LoopIs, ExitIs, LastInv, PhaseInv, Verdicts, RetryNamesItsFailure
<1>10. CASE Record
  <2>1. TurnAt("answered") /\ journal' = Append(journal, [n |-> turn.n, verdict |-> turn.verdict])
    BY <1>i, <1>10, PhaseChange DEF Record, ShapeInv, Phases
  <2>2. turn.phase = "record" /\ UNCHANGED <<tree, baseline, last, loop, judged, others>>
    BY <1>10 DEF Record
  <2>3. QED
    BY <1>i, <1>t, <2>1, <2>2, NoneAssumption DEF TurnIs, TurnAt, LoopIs, ExitIs, LastInv, PhaseInv, Verdicts, RetryNamesItsFailure
<1>11. CASE RecordFails
  <2>1. TurnAt("ended") /\ ExitIs("error")
    BY <1>i, <1>11, EndedDoes DEF RecordFails, RecordFailed, ShapeInv, Exits
  <2>2. turn.phase = "record" /\ UNCHANGED <<tree, baseline, last, journal, judged, others>>
    BY <1>11 DEF RecordFails
  <2>3. QED
    BY <1>i, <1>t, <2>1, <2>2, NoneAssumption DEF TurnIs, TurnAt, LoopIs, ExitIs, LastInv, PhaseInv, Verdicts, RetryNamesItsFailure
<1>12. CASE Continue
  <2>1. /\ TurnIs(turn.n + 1, "continue", TRUE, "model", {}, None)
        /\ LoopIs(loop.continued + 1, loop.retried, 0, loop.told, loop.exit)
    BY <1>i, <1>12, ContinueDoes DEF ShapeInv
  <2>2. turn.phase = "answered" /\ UNCHANGED <<tree, baseline, last, journal, judged, others>>
    BY <1>12 DEF Continue
  <2>3. QED
    BY <1>i, <1>t, <2>1, <2>2, NoneAssumption DEF TurnIs, TurnAt, LoopIs, ExitIs, LastInv, PhaseInv, Verdicts, RetryNamesItsFailure
<1>13. CASE Retry
  <2>1. /\ TurnIs(turn.n + 1, "retry", TRUE, "model", {}, None)
        /\ LoopIs(0, loop.retried + 1, 0, last, loop.exit)
        /\ turn.verdict = "failed" /\ last # None
    BY <1>i, <1>13, RetryDoes DEF ShapeInv
  <2>2. turn.phase = "answered" /\ UNCHANGED <<tree, baseline, last, journal, judged, others>>
    BY <1>13 DEF Retry
  <2>3. last.n = turn.n /\ last.verdict = "failed" /\ last.changed = {}
    BY <1>i, <2>1, <2>2 DEF LastInv, Verdicts
  <2>4. loop'.told.n = turn'.n - 1 /\ loop'.told.verdict = "failed" /\ loop'.told.changed = {}
    BY <1>t, <2>1, <2>3 DEF TurnIs, LoopIs
  <2>5. turn'.phase = "model" /\ turn'.verdict = None
    BY <2>1 DEF TurnIs
  <2>6. QED
    BY <2>4, <2>5, NoneAssumption DEF LastInv, RetryNamesItsFailure, Verdicts
<1>14. CASE Finish
  <2>1. TurnAt("ended") /\ ExitIs(IF turn.verdict = "passed" THEN "ok" ELSE "unverified")
    BY <1>i, <1>14, EndedDoes DEF Finish, ShapeInv, Exits
  <2>2. turn.phase = "answered" /\ UNCHANGED <<tree, baseline, last, journal, judged, others>>
    BY <1>14 DEF Finish
  <2>3. QED
    BY <1>i, <1>t, <2>1, <2>2, NoneAssumption DEF TurnIs, TurnAt, LoopIs, ExitIs, LastInv, PhaseInv, Verdicts, RetryNamesItsFailure
<1>15. CASE UNCHANGED vars
  BY <1>i, <1>15 DEF vars, LastInv, PhaseInv, Verdicts, RetryNamesItsFailure
<1>16. QED
  BY <1>1, <1>2, <1>3, <1>4, <1>5, <1>6, <1>7, <1>8, <1>9, <1>10, <1>11, <1>12, <1>13, <1>14, <1>15 DEF Next, TurnEnds, CheckStep, LoopStep, Entries

\* The journal has one verdict of a turn at most.
LEMMA JournalKept ==
  ASSUME IInv, [Next]_vars
  PROVE  JournalInv'
<1>i. ShapeInv /\ PhaseInv /\ JudgedInv /\ LastInv /\ JournalInv /\ WorkInv
  BY DEF IInv
<1>t. /\ turn.n \in Nat \ {0} /\ turn.verified \in BOOLEAN /\ turn.phase \in Phases
      /\ turn.verdict \in Verdicts \cup {"unavailable", None}
      /\ loop.exit \in Exits
      /\ loop.continued \in Nat /\ loop.retried \in Nat /\ loop.resumed \in Nat
  BY <1>i, GateBoundsAssumption DEF ShapeInv, Turns, Loops, Phases, Exits
<1>j. journal \in Seq([n : Nat, verdict : Verdicts]) /\ \A a \in DOMAIN journal : journal[a].n \in Nat
  <2>1. journal \in Seq([n : Nat, verdict : Verdicts])
    BY <1>i DEF ShapeInv
  <2> DEFINE E == [n : Nat, verdict : Verdicts]
  <2>2. journal \in Seq(E)
    BY <2>1
  <2>3. \A e \in E : e.n \in Nat
    OBVIOUS
  <2>4. DOMAIN journal = 1..Len(journal) /\ \A a \in DOMAIN journal : journal[a] \in E
    <3> HIDE DEF E
    <3>1. QED
      BY <2>2, ElementOfSeq, LenProperties
  <2>5. QED
    <3> HIDE DEF E
    <3>1. QED
      BY <2>1, <2>3, <2>4
<1>1. CASE \E p \in Paths, item \in Entries : ModelEdits(p, item)
  BY <1>i, <1>1 DEF ModelEdits, JournalInv, PhaseInv, Verdicts
<1>2. CASE \E p \in Paths, item \in Entries : SomebodyEdits(p, item)
  BY <1>i, <1>2 DEF SomebodyEdits, JournalInv, PhaseInv, Verdicts
<1>3. CASE \E truncated \in BOOLEAN : TurnCompletes(truncated)
  <2>1. \/ turn.verified /\ TurnIs(turn.n, turn.kind, turn.verified, "measure", turn.changed, None)
        \/ ~turn.verified /\ TurnIs(turn.n, turn.kind, turn.verified, "answered", turn.changed, "unavailable")
    BY <1>i, <1>3, TurnCompletesDoes DEF ShapeInv
  <2>2. turn.phase = "model" /\ UNCHANGED <<tree, baseline, last, loop, journal, judged, others>>
    BY <1>3 DEF TurnCompletes
  <2>3. QED
    BY <1>i, <1>t, <2>1, <2>2, NoneAssumption, <1>j DEF TurnIs, TurnAt, LoopIs, ExitIs, JournalInv, PhaseInv, Verdicts
<1>4. CASE \E resumable \in BOOLEAN : TurnBreaks(resumable)
  <2>1. \/ TurnAt("broken") /\ UNCHANGED loop
        \/ TurnAt("ended") /\ ExitIs("error")
    BY <1>i, <1>4, PhaseChange, EndedDoes DEF TurnBreaks, ShapeInv, Phases, Exits
  <2>2. turn.phase = "model" /\ UNCHANGED <<tree, baseline, last, journal, judged, others>>
    BY <1>4 DEF TurnBreaks
  <2>3. QED
    BY <1>i, <1>t, <2>1, <2>2, NoneAssumption, <1>j DEF TurnIs, TurnAt, LoopIs, ExitIs, JournalInv, PhaseInv, Verdicts
<1>5. CASE Resume
  <2>1. \/ /\ TurnIs(turn.n + 1, turn.kind, FALSE, "model", {}, None)
           /\ LoopIs(loop.continued, loop.retried, loop.resumed + 1, loop.told, loop.exit)
        \/ TurnAt("ended") /\ ExitIs("error")
    BY <1>i, <1>5, ResumeDoes DEF ShapeInv
  <2>2. turn.phase = "broken" /\ UNCHANGED <<tree, baseline, last, journal, judged, others>>
    BY <1>5 DEF Resume
  <2>3. QED
    BY <1>i, <1>t, <2>1, <2>2, NoneAssumption, <1>j DEF TurnIs, TurnAt, LoopIs, ExitIs, JournalInv, PhaseInv, Verdicts
<1>6. CASE Measure
  <2>1. /\ TurnIs(turn.n, turn.kind, turn.verified, "check",
                  ChangedProtectedPaths(baseline, TakeInventory(tree)), turn.verdict)
        /\ judged' \in Judgements /\ judged'.n = turn.n /\ judged'.measured = tree
    BY <1>i, <1>6, MeasureDoes DEF ShapeInv
  <2>2. turn.phase = "measure" /\ UNCHANGED <<tree, baseline, last, loop, journal, others>>
    BY <1>6 DEF Measure, Measured
  <2>3. QED
    BY <1>i, <1>t, <2>1, <2>2, NoneAssumption, <1>j DEF TurnIs, TurnAt, LoopIs, ExitIs, JournalInv, PhaseInv, Verdicts
<1>7. CASE MeasureThrows
  <2>1. TurnIs(turn.n, turn.kind, turn.verified, "ended", turn.changed, turn.verdict)
        /\ ExitIs("error")
    BY <1>i, <1>7, MeasureThrowsDoes DEF ShapeInv
  <2>2. turn.phase = "measure" /\ UNCHANGED <<tree, baseline, last, journal, judged, others>>
    BY <1>7 DEF MeasureThrows
  <2>3. QED
    BY <1>i, <1>t, <2>1, <2>2, NoneAssumption, <1>j DEF TurnIs, TurnAt, LoopIs, ExitIs, JournalInv, PhaseInv, Verdicts
<1>8. CASE \E reason \in {"natural", "stopped"}, code \in {0, 1, None} :
                Check(reason, code) /\ (reason = "natural" => code \in {0, 1})
  <2>1. PICK reason \in {"natural", "stopped"}, code \in {0, 1, None} : Check(reason, code)
    BY <1>8
  <2>2. judged \in Judgements /\ turn \in Turns /\ tree \in Trees
    BY <1>i, <2>1 DEF Check, JudgedInv, ShapeInv
  <2> DEFINE verdict == VerdictOf(turn.changed, reason, code)
  <2>3. /\ verdict \in Verdicts
        /\ TurnIs(turn.n, turn.kind, turn.verified, "record", turn.changed, verdict)
        /\ last' = [n |-> turn.n, verdict |-> verdict, changed |-> turn.changed]
        /\ judged' \in Judgements /\ judged'.n = judged.n /\ judged'.measured = judged.measured
        /\ verdict = "passed" => turn.changed = {} /\ judged'.code = 0
        /\ verdict = "failed" => turn.changed = {}
    BY <2>1, <2>2, CheckDoes
  <2>4. turn.phase = "check" /\ UNCHANGED <<tree, baseline, loop, journal, others>>
    BY <2>1 DEF Check
  <2> HIDE DEF verdict
  <2>5. QED
    BY <1>i, <1>t, <2>2, <2>3, <2>4, NoneAssumption, <1>j DEF TurnIs, JournalInv, PhaseInv, Verdicts
<1>9. CASE CheckThrows
  <2>1. /\ TurnIs(turn.n, turn.kind, turn.verified, "record", turn.changed, "errored")
        /\ last' = [n |-> turn.n, verdict |-> "errored", changed |-> turn.changed]
    BY <1>i, <1>9, VerdictChange DEF CheckThrows, LastOf, ShapeInv, Phases, Verdicts
  <2>2. turn.phase = "check" /\ UNCHANGED <<tree, baseline, loop, journal, judged, others>>
    BY <1>9 DEF CheckThrows
  <2>3. QED
    BY <1>i, <1>t, <2>1, <2>2, NoneAssumption, <1>j DEF TurnIs, TurnAt, LoopIs, ExitIs, JournalInv, PhaseInv, Verdicts
<1>10. CASE Record
  <2>1. TurnAt("answered") /\ journal' = Append(journal, [n |-> turn.n, verdict |-> turn.verdict])
    BY <1>i, <1>10, PhaseChange DEF Record, ShapeInv, Phases
  <2>2. turn.phase = "record" /\ UNCHANGED <<tree, baseline, last, loop, judged, others>>
    BY <1>10 DEF Record
  <2> DEFINE e == [n |-> turn.n, verdict |-> turn.verdict]
  <2>3. e \in [n : Nat, verdict : Verdicts] /\ e.n = turn.n
    BY <1>i, <1>t, <2>2 DEF PhaseInv
  <2>4. journal' = Append(journal, e)
    BY <2>1
  <2> HIDE DEF e
  <2>5. /\ Len(journal') = Len(journal) + 1 /\ DOMAIN journal' = 1..(Len(journal) + 1)
        /\ journal'[Len(journal) + 1] = e /\ \A a \in 1..Len(journal) : journal'[a] = journal[a]
        /\ Len(journal) \in Nat /\ DOMAIN journal = 1..Len(journal)
    BY <1>j, <2>3, <2>4, AppendProperties
  <2>6. \A a \in DOMAIN journal : journal[a].n < turn.n
    BY <1>i, <2>2 DEF JournalInv
  <2>7. \A a \in DOMAIN journal' : journal'[a].n <= turn.n
    BY <1>t, <1>j, <2>3, <2>5, <2>6
  <2>8. \A a, b \in DOMAIN journal' : a < b => journal'[a].n < journal'[b].n
    BY <1>i, <2>3, <2>5, <2>6 DEF JournalInv
  <2>9. journal' # << >> /\ journal'[Len(journal')] = e
    BY <2>5
  <2>10. QED
    BY <2>1, <2>7, <2>8, <2>9 DEF TurnAt, TurnIs, JournalInv, e
<1>11. CASE RecordFails
  <2>1. TurnAt("ended") /\ ExitIs("error")
    BY <1>i, <1>11, EndedDoes DEF RecordFails, RecordFailed, ShapeInv, Exits
  <2>2. turn.phase = "record" /\ UNCHANGED <<tree, baseline, last, journal, judged, others>>
    BY <1>11 DEF RecordFails
  <2>3. QED
    BY <1>i, <1>t, <2>1, <2>2, NoneAssumption, <1>j DEF TurnIs, TurnAt, LoopIs, ExitIs, JournalInv, PhaseInv, Verdicts
<1>12. CASE Continue
  <2>1. /\ TurnIs(turn.n + 1, "continue", TRUE, "model", {}, None)
        /\ LoopIs(loop.continued + 1, loop.retried, 0, loop.told, loop.exit)
    BY <1>i, <1>12, ContinueDoes DEF ShapeInv
  <2>2. turn.phase = "answered" /\ UNCHANGED <<tree, baseline, last, journal, judged, others>>
    BY <1>12 DEF Continue
  <2>3. QED
    BY <1>i, <1>t, <2>1, <2>2, NoneAssumption, <1>j DEF TurnIs, TurnAt, LoopIs, ExitIs, JournalInv, PhaseInv, Verdicts
<1>13. CASE Retry
  <2>1. /\ TurnIs(turn.n + 1, "retry", TRUE, "model", {}, None)
        /\ LoopIs(0, loop.retried + 1, 0, last, loop.exit)
        /\ turn.verdict = "failed" /\ last # None
    BY <1>i, <1>13, RetryDoes DEF ShapeInv
  <2>2. turn.phase = "answered" /\ UNCHANGED <<tree, baseline, last, journal, judged, others>>
    BY <1>13 DEF Retry
  <2>3. QED
    BY <1>i, <1>t, <2>1, <2>2, NoneAssumption, <1>j DEF TurnIs, TurnAt, LoopIs, ExitIs, JournalInv, PhaseInv, Verdicts
<1>14. CASE Finish
  <2>1. TurnAt("ended") /\ ExitIs(IF turn.verdict = "passed" THEN "ok" ELSE "unverified")
    BY <1>i, <1>14, EndedDoes DEF Finish, ShapeInv, Exits
  <2>2. turn.phase = "answered" /\ UNCHANGED <<tree, baseline, last, journal, judged, others>>
    BY <1>14 DEF Finish
  <2>3. QED
    BY <1>i, <1>t, <2>1, <2>2, NoneAssumption, <1>j DEF TurnIs, TurnAt, LoopIs, ExitIs, JournalInv, PhaseInv, Verdicts
<1>15. CASE UNCHANGED vars
  BY <1>i, <1>15 DEF vars, JournalInv, PhaseInv, Verdicts
<1>16. QED
  BY <1>1, <1>2, <1>3, <1>4, <1>5, <1>6, <1>7, <1>8, <1>9, <1>10, <1>11, <1>12, <1>13, <1>14, <1>15 DEF Next, TurnEnds, CheckStep, LoopStep, Entries

LEMMA TimesGrows ==
  ASSUME NEW a \in Nat, NEW b \in Nat, NEW c \in Nat, a <= b
  PROVE  a * c <= b * c
<1>1. PICK d \in Nat : b = a + d
  <2>1. b - a \in Nat /\ b = a + (b - a)
    OBVIOUS
  <2>2. QED
    BY <2>1
<1>2. b * c = a * c + d * c
  BY <1>1
<1>3. a * c \in Nat /\ d * c \in Nat
  BY <1>1
<1>4. QED
  BY <1>2, <1>3

\* There are as many turns as the counters say.
LEMMA WorkKept ==
  ASSUME IInv, [Next]_vars
  PROVE  WorkInv'
<1>i. ShapeInv /\ PhaseInv /\ JudgedInv /\ LastInv /\ JournalInv /\ WorkInv
  BY DEF IInv
<1>t. /\ turn.n \in Nat \ {0} /\ turn.verified \in BOOLEAN /\ turn.phase \in Phases
      /\ turn.verdict \in Verdicts \cup {"unavailable", None}
      /\ loop.exit \in Exits
      /\ loop.continued \in Nat /\ loop.retried \in Nat /\ loop.resumed \in Nat
  BY <1>i, GateBoundsAssumption DEF ShapeInv, Turns, Loops, Phases, Exits
<1>1. CASE \E p \in Paths, item \in Entries : ModelEdits(p, item)
  BY <1>i, <1>1 DEF ModelEdits, WorkInv
<1>2. CASE \E p \in Paths, item \in Entries : SomebodyEdits(p, item)
  BY <1>i, <1>2 DEF SomebodyEdits, WorkInv
<1>3. CASE \E truncated \in BOOLEAN : TurnCompletes(truncated)
  <2>1. \/ turn.verified /\ TurnIs(turn.n, turn.kind, turn.verified, "measure", turn.changed, None)
        \/ ~turn.verified /\ TurnIs(turn.n, turn.kind, turn.verified, "answered", turn.changed, "unavailable")
    BY <1>i, <1>3, TurnCompletesDoes DEF ShapeInv
  <2>2. turn.phase = "model" /\ UNCHANGED <<tree, baseline, last, loop, journal, judged, others>>
    BY <1>3 DEF TurnCompletes
  <2>3. QED
    BY <1>i, <1>t, <2>1, <2>2, NoneAssumption DEF TurnIs, TurnAt, LoopIs, ExitIs, WorkInv
<1>4. CASE \E resumable \in BOOLEAN : TurnBreaks(resumable)
  <2>1. \/ TurnAt("broken") /\ UNCHANGED loop
        \/ TurnAt("ended") /\ ExitIs("error")
    BY <1>i, <1>4, PhaseChange, EndedDoes DEF TurnBreaks, ShapeInv, Phases, Exits
  <2>2. turn.phase = "model" /\ UNCHANGED <<tree, baseline, last, journal, judged, others>>
    BY <1>4 DEF TurnBreaks
  <2>3. QED
    BY <1>i, <1>t, <2>1, <2>2, NoneAssumption DEF TurnIs, TurnAt, LoopIs, ExitIs, WorkInv
<1>5. CASE Resume
  <2>1. \/ /\ TurnIs(turn.n + 1, turn.kind, FALSE, "model", {}, None)
           /\ LoopIs(loop.continued, loop.retried, loop.resumed + 1, loop.told, loop.exit)
        \/ TurnAt("ended") /\ ExitIs("error")
    BY <1>i, <1>5, ResumeDoes DEF ShapeInv
  <2>2. turn.phase = "broken" /\ UNCHANGED <<tree, baseline, last, journal, judged, others>>
    BY <1>5 DEF Resume
  <2> DEFINE x == loop.retried * Continues
             y == loop.continued * Resumes
  <2>3. x \in Nat /\ y \in Nat /\ Resumes \in Nat /\ Continues \in Nat
    BY <1>t, GateBoundsAssumption DEF Continues, Resumes
  <2>4. turn.n <= x + y + loop.resumed + 1
    BY <1>i DEF WorkInv
  <2> HIDE DEF x, y
  <2>5. CASE TurnIs(turn.n + 1, turn.kind, FALSE, "model", {}, None)
             /\ LoopIs(loop.continued, loop.retried, loop.resumed + 1, loop.told, loop.exit)
    <3>1. turn'.n <= x + y + loop'.resumed + 1
      BY <1>t, <2>3, <2>4, <2>5 DEF TurnIs, LoopIs
    <3>2. QED
      BY <2>5, <3>1 DEF LoopIs, WorkInv, x, y
  <2>6. CASE TurnAt("ended") /\ ExitIs("error")
    BY <1>i, <2>6 DEF TurnAt, TurnIs, ExitIs, LoopIs, WorkInv
  <2>7. QED
    BY <2>1, <2>5, <2>6
<1>6. CASE Measure
  <2>1. /\ TurnIs(turn.n, turn.kind, turn.verified, "check",
                  ChangedProtectedPaths(baseline, TakeInventory(tree)), turn.verdict)
        /\ judged' \in Judgements /\ judged'.n = turn.n /\ judged'.measured = tree
    BY <1>i, <1>6, MeasureDoes DEF ShapeInv
  <2>2. turn.phase = "measure" /\ UNCHANGED <<tree, baseline, last, loop, journal, others>>
    BY <1>6 DEF Measure, Measured
  <2>3. QED
    BY <1>i, <1>t, <2>1, <2>2, NoneAssumption DEF TurnIs, TurnAt, LoopIs, ExitIs, WorkInv
<1>7. CASE MeasureThrows
  <2>1. TurnIs(turn.n, turn.kind, turn.verified, "ended", turn.changed, turn.verdict)
        /\ ExitIs("error")
    BY <1>i, <1>7, MeasureThrowsDoes DEF ShapeInv
  <2>2. turn.phase = "measure" /\ UNCHANGED <<tree, baseline, last, journal, judged, others>>
    BY <1>7 DEF MeasureThrows
  <2>3. QED
    BY <1>i, <1>t, <2>1, <2>2, NoneAssumption DEF TurnIs, TurnAt, LoopIs, ExitIs, WorkInv
<1>8. CASE \E reason \in {"natural", "stopped"}, code \in {0, 1, None} :
                Check(reason, code) /\ (reason = "natural" => code \in {0, 1})
  <2>1. PICK reason \in {"natural", "stopped"}, code \in {0, 1, None} : Check(reason, code)
    BY <1>8
  <2>2. judged \in Judgements /\ turn \in Turns /\ tree \in Trees
    BY <1>i, <2>1 DEF Check, JudgedInv, ShapeInv
  <2> DEFINE verdict == VerdictOf(turn.changed, reason, code)
  <2>3. /\ verdict \in Verdicts
        /\ TurnIs(turn.n, turn.kind, turn.verified, "record", turn.changed, verdict)
        /\ last' = [n |-> turn.n, verdict |-> verdict, changed |-> turn.changed]
        /\ judged' \in Judgements /\ judged'.n = judged.n /\ judged'.measured = judged.measured
        /\ verdict = "passed" => turn.changed = {} /\ judged'.code = 0
        /\ verdict = "failed" => turn.changed = {}
    BY <2>1, <2>2, CheckDoes
  <2>4. turn.phase = "check" /\ UNCHANGED <<tree, baseline, loop, journal, others>>
    BY <2>1 DEF Check
  <2> HIDE DEF verdict
  <2>5. QED
    BY <1>i, <1>t, <2>2, <2>3, <2>4, NoneAssumption DEF TurnIs, WorkInv
<1>9. CASE CheckThrows
  <2>1. /\ TurnIs(turn.n, turn.kind, turn.verified, "record", turn.changed, "errored")
        /\ last' = [n |-> turn.n, verdict |-> "errored", changed |-> turn.changed]
    BY <1>i, <1>9, VerdictChange DEF CheckThrows, LastOf, ShapeInv, Phases, Verdicts
  <2>2. turn.phase = "check" /\ UNCHANGED <<tree, baseline, loop, journal, judged, others>>
    BY <1>9 DEF CheckThrows
  <2>3. QED
    BY <1>i, <1>t, <2>1, <2>2, NoneAssumption DEF TurnIs, TurnAt, LoopIs, ExitIs, WorkInv
<1>10. CASE Record
  <2>1. TurnAt("answered") /\ journal' = Append(journal, [n |-> turn.n, verdict |-> turn.verdict])
    BY <1>i, <1>10, PhaseChange DEF Record, ShapeInv, Phases
  <2>2. turn.phase = "record" /\ UNCHANGED <<tree, baseline, last, loop, judged, others>>
    BY <1>10 DEF Record
  <2>3. QED
    BY <1>i, <1>t, <2>1, <2>2, NoneAssumption DEF TurnIs, TurnAt, LoopIs, ExitIs, WorkInv
<1>11. CASE RecordFails
  <2>1. TurnAt("ended") /\ ExitIs("error")
    BY <1>i, <1>11, EndedDoes DEF RecordFails, RecordFailed, ShapeInv, Exits
  <2>2. turn.phase = "record" /\ UNCHANGED <<tree, baseline, last, journal, judged, others>>
    BY <1>11 DEF RecordFails
  <2>3. QED
    BY <1>i, <1>t, <2>1, <2>2, NoneAssumption DEF TurnIs, TurnAt, LoopIs, ExitIs, WorkInv
<1>12. CASE Continue
  <2>1. /\ TurnIs(turn.n + 1, "continue", TRUE, "model", {}, None)
        /\ LoopIs(loop.continued + 1, loop.retried, 0, loop.told, loop.exit)
    BY <1>i, <1>12, ContinueDoes DEF ShapeInv
  <2>2. turn.phase = "answered" /\ UNCHANGED <<tree, baseline, last, journal, judged, others>>
    BY <1>12 DEF Continue
  <2> DEFINE x == loop.retried * Continues
             y == loop.continued * Resumes
  <2>3. x \in Nat /\ y \in Nat /\ Resumes \in Nat /\ Continues \in Nat
    BY <1>t, GateBoundsAssumption DEF Continues, Resumes
  <2>4. turn.n <= x + y + loop.resumed + 1
    BY <1>i DEF WorkInv
  <2>5. (loop.continued + 1) * Resumes = y + Resumes
    BY <1>t, <2>3
  <2>6. loop.resumed + 1 <= Resumes
    BY <1>i, GateBoundsAssumption DEF ShapeInv, Loops, Resumes
  <2> HIDE DEF x, y
  <2>7. turn.n + 1 <= x + (y + Resumes) + 0 + 1
    BY <1>t, <2>3, <2>4, <2>6
  <2>8. QED
    BY <2>1, <2>5, <2>7 DEF TurnIs, LoopIs, WorkInv, x
<1>13. CASE Retry
  <2>1. /\ TurnIs(turn.n + 1, "retry", TRUE, "model", {}, None)
        /\ LoopIs(0, loop.retried + 1, 0, last, loop.exit)
        /\ turn.verdict = "failed" /\ last # None
    BY <1>i, <1>13, RetryDoes DEF ShapeInv
  <2>2. turn.phase = "answered" /\ UNCHANGED <<tree, baseline, last, journal, judged, others>>
    BY <1>13 DEF Retry
  <2> DEFINE x == loop.retried * Continues
             y == loop.continued * Resumes
  <2>3. x \in Nat /\ y \in Nat /\ Resumes \in Nat /\ Continues \in Nat
    BY <1>t, GateBoundsAssumption DEF Continues, Resumes
  <2>4. turn.n <= x + y + loop.resumed + 1
    BY <1>i DEF WorkInv
  <2>5. (loop.retried + 1) * Continues = x + Continues
    BY <1>t, <2>3
  <2>6. loop.resumed + 1 <= Resumes /\ loop.continued <= MAX_TRUNCATION_CONTINUATIONS
    BY <1>i, GateBoundsAssumption DEF ShapeInv, Loops, Resumes
  <2>7. y <= MAX_TRUNCATION_CONTINUATIONS * Resumes
    BY <1>t, <2>3, <2>6, GateBoundsAssumption, TimesGrows
  <2>8. Continues = MAX_TRUNCATION_CONTINUATIONS * Resumes + Resumes
    BY <2>3, GateBoundsAssumption DEF Continues
  <2> DEFINE z == MAX_TRUNCATION_CONTINUATIONS * Resumes
  <2>9. z \in Nat
    BY <2>3, GateBoundsAssumption
  <2> HIDE DEF x, y, z
  <2>10. turn.n + 1 <= (x + Continues) + 0 + 0 + 1
    BY <1>t, <2>3, <2>4, <2>6, <2>7, <2>8, <2>9 DEF z
  <2>11. 0 * Resumes = 0
    BY <2>3
  <2>12. QED
    BY <2>1, <2>5, <2>10, <2>11 DEF TurnIs, LoopIs, WorkInv
<1>14. CASE Finish
  <2>1. TurnAt("ended") /\ ExitIs(IF turn.verdict = "passed" THEN "ok" ELSE "unverified")
    BY <1>i, <1>14, EndedDoes DEF Finish, ShapeInv, Exits
  <2>2. turn.phase = "answered" /\ UNCHANGED <<tree, baseline, last, journal, judged, others>>
    BY <1>14 DEF Finish
  <2>3. QED
    BY <1>i, <1>t, <2>1, <2>2, NoneAssumption DEF TurnIs, TurnAt, LoopIs, ExitIs, WorkInv
<1>15. CASE UNCHANGED vars
  BY <1>i, <1>15 DEF vars, WorkInv
<1>16. QED
  BY <1>1, <1>2, <1>3, <1>4, <1>5, <1>6, <1>7, <1>8, <1>9, <1>10, <1>11, <1>12, <1>13, <1>14, <1>15 DEF Next, TurnEnds, CheckStep, LoopStep, Entries

-----------------------------------------------------------------------------
(* The invariant, and what it says of the command. *)

LEMMA InitInvariant ==
  ASSUME Init
  PROVE  IInv
<1>1. tree = Start /\ Start \in Trees /\ Consistent(Start)
  BY StartAssumption, TreeAssumption DEF Init, Trees, Entries, Consistent
<1>2. turn \in Turns /\ turn.n = 1 /\ turn.kind = "first" /\ turn.phase = "model" /\ turn.verdict = None
  BY DEF Init, NewTurn, Turns
<1>3. 0 \in 0..MAX_TRUNCATION_CONTINUATIONS /\ 0 \in 0..MAX_VERIFICATION_RETRIES
      /\ 0 \in 0..MAX_AUTO_RESUMES /\ 0 \in 0..Others
  BY GateBoundsAssumption
<1>4. /\ loop \in Loops /\ loop.continued = 0 /\ loop.retried = 0 /\ loop.resumed = 0
      /\ loop.exit = None
  BY <1>3 DEF Init, Loops
<1>5. journal = << >> /\ journal \in Seq([n : Nat, verdict : Verdicts])
  BY DEF Init
<1>6. ShapeInv
  BY <1>1, <1>2, <1>3, <1>4, <1>5 DEF Init, ShapeInv, Declare
<1>7. PhaseInv /\ JudgedInv /\ LastInv
  BY <1>2, <1>4, NoneAssumption DEF PhaseInv, JudgedInv, LastInv, RetryNamesItsFailure, Verdicts
<1>8. JournalInv
  BY <1>2, <1>4, <1>5, NoneAssumption DEF JournalInv, Verdicts
<1>9. WorkInv
  <2>1. Continues \in Nat /\ Resumes \in Nat
    BY GateBoundsAssumption DEF Continues, Resumes
  <2>2. 0 * Continues = 0 /\ 0 * Resumes = 0
    BY <2>1
  <2>3. QED
    BY <1>2, <1>4, <2>2 DEF WorkInv
<1>10. QED
  BY <1>6, <1>7, <1>8, <1>9 DEF IInv

LEMMA NextInvariant ==
  ASSUME IInv, [Next]_vars
  PROVE  IInv'
BY ShapeKept, PhaseKept, JudgedKept, LastKept, JournalKept, WorkKept DEF IInv

\* The counters have limits, and so has the number of turns.
LEMMA WorkInvBounds ==
  ASSUME IInv
  PROVE  WorkIsBounded
<1> DEFINE r == MAX_VERIFICATION_RETRIES
           c == MAX_TRUNCATION_CONTINUATIONS
           a == MAX_AUTO_RESUMES
<1>1. r \in Nat /\ c \in Nat /\ a \in Nat
  BY GateBoundsAssumption
<1>2. /\ loop.retried \in Nat /\ loop.retried <= r /\ loop.continued \in Nat /\ loop.continued <= c
      /\ loop.resumed \in Nat /\ loop.resumed <= a /\ turn.n \in Nat
  BY <1>1 DEF IInv, ShapeInv, Loops, Turns
<1>3. Resumes = 1 + a /\ Continues = (1 + c) * (1 + a)
  BY DEF Resumes, Continues
<1>4. turn.n <= loop.retried * Continues + loop.continued * Resumes + loop.resumed + 1
  BY DEF IInv, WorkInv
<1> HIDE DEF r, c, a
<1>5. Resumes \in Nat /\ Continues \in Nat /\ Continues = Resumes + c * Resumes
  BY <1>1, <1>3
<1>6. loop.retried * Continues <= r * Continues /\ loop.continued * Resumes <= c * Resumes
  BY <1>1, <1>2, <1>5, TimesGrows
<1>7. /\ loop.retried * Continues \in Nat /\ r * Continues \in Nat
      /\ loop.continued * Resumes \in Nat /\ c * Resumes \in Nat
  BY <1>1, <1>2, <1>5
<1>8. turn.n <= r * Continues + Continues
  BY <1>1, <1>2, <1>3, <1>4, <1>5, <1>6, <1>7
<1>9. (1 + r) * (1 + c) * (1 + a) = r * Continues + Continues
  <2>1. (1 + r) * ((1 + c) * (1 + a)) = (1 + r) * (1 + c) * (1 + a)
    BY <1>1
  <2>2. (1 + r) * Continues = r * Continues + Continues
    BY <1>1, <1>5
  <2>3. QED
    BY <1>3, <2>1, <2>2
<1>10. QED
  BY <1>8, <1>9 DEF WorkIsBounded, r, c, a

LEMMA InvariantImplies ==
  ASSUME IInv
  PROVE  VerdictIsEarned /\ TypeOK
<1>1. PassedIsEarned
  BY DEF IInv, PhaseInv, JudgedInv, PassedIsEarned
<1>2. RetryNamesItsFailure
  BY DEF IInv, LastInv
<1>3. VerdictIsDurable
  BY DEF IInv, JournalInv, VerdictIsDurable
<1>4. TypeOK
  <2>1. baseline \subseteq Paths \X (Contents \cup {"dir", "missing"})
    <3>1. \A line \in TakeInventory(Start) : \E q \in Paths : line = <<q, Start[q]>>
      BY InventoryHas
    <3>2. \A q \in Paths : Start[q] \in Contents \cup {"dir", "missing"}
      BY StartAssumption
    <3>3. QED
      BY <3>1, <3>2 DEF IInv, ShapeInv
  <2>2. turn \in Turns /\ loop \in Loops /\ (turn.phase = "record" => turn.verdict \in Verdicts)
    BY DEF IInv, ShapeInv, PhaseInv
  <2>3. QED
    BY <2>1, <2>2 DEF IInv, ShapeInv, TypeOK, Turns, Loops, Trees, Entries
<1>5. QED
  BY <1>1, <1>2, <1>3, <1>4, WorkInvBounds DEF VerdictIsEarned

LEMMA Invariant == Spec => []IInv
<1>1. Init => IInv
  BY InitInvariant
<1>2. IInv /\ [Next]_vars => IInv'
  BY NextInvariant
<1>3. QED
  BY <1>1, <1>2, PTL DEF Spec

\* The tree, the turn, the loop and the inventory have their types.
THEOREM TypeCorrect == Spec => []TypeOK
<1>1. IInv => TypeOK
  BY InvariantImplies
<1>2. QED
  BY <1>1, Invariant, PTL

\* A run that exits with 0 has had its last turn judged by a check that exited
\* with 0, with everything protected, at any depth, as it was before the first
\* turn (runGate, DeclaredVerification); a turn that is given to repair a failure
\* is told of the one before it; turns are bounded by the three limits of the
\* loops of cli.ts; and what is reported is in the journal.
THEOREM VerdictIsEarnedHolds == Spec => []VerdictIsEarned
<1>1. IInv => VerdictIsEarned
  BY InvariantImplies
<1>2. QED
  BY <1>1, Invariant, PTL

-----------------------------------------------------------------------------
(* The switch: the two reducers of the journal. *)

Selections ==
  [causes : Seq(Switch!Causes), status : Switch!Statuses,
   phase : {"normal", "must_interrupt", "finalizing"}, retry : Nat,
   checkpointDue : BOOLEAN, boundaryDue : {"none", "user", "results"},
   finalCheckpoint : BOOLEAN, finalBoundary : BOOLEAN, roles : Nat,
   boundaries : Seq([run : Nat, roles : Nat]),
   snapshots : Seq([run : Nat, boundary : Nat, attempts : Nat]),
   open : BOOLEAN, semantic : BOOLEAN, checkpointed : BOOLEAN,
   calls : Seq(Switch!Call), group : BOOLEAN, results : Nat,
   last : {"none"} \cup Switch!EventTypes \cup Switch!FrameTypes]

\* The same runs, and the same calls of the last answer.
RunsAgree(J, r) ==
  /\ Len(r.causes) = J.run /\ r.status = J.status
  /\ J.run > 0 => r.causes[J.run] = J.cause
  /\ J.status = "none" <=> J.run = 0

CallsAgree(J, r) ==
  /\ Len(r.calls) = Len(J.calls) /\ r.results = J.next
  /\ J.next <= Len(J.calls) /\ r.group = Switch!Pending(J)
  /\ \A i \in DOMAIN J.calls :
       /\ r.calls[i].kind = J.calls[i].kind /\ r.calls[i].perm = J.calls[i].perm
       /\ r.calls[i].effect = J.calls[i].effect /\ r.calls[i].effectRun = J.calls[i].effectRun
       /\ r.calls[i].output = J.calls[i].output /\ r.calls[i].direct = J.calls[i].direct

\* What the one calls a gate the other has in six fields.
GatesAgree(J, r) ==
  Switch!Active(J) =>
    /\ r.phase = IF J.gate = "must_interrupt" THEN "must_interrupt"
                 ELSE IF J.gate \in {"final_checkpoint", "final_boundary", "final_complete"}
                 THEN "finalizing" ELSE "normal"
    /\ r.retry = IF J.gate = "retry" THEN Len(r.snapshots) ELSE 0
    /\ r.checkpointDue <=> J.gate = "checkpoint"
    /\ r.boundaryDue = "none" <=> J.gate # "boundary"
    /\ r.finalCheckpoint <=> J.gate \in {"final_boundary", "final_complete"}
    /\ r.finalBoundary <=> J.gate = "final_complete"
    /\ J.gate \in {"checkpoint", "final_checkpoint"} => ~ r.checkpointed /\ r.roles > 0

AttemptsAgree(J, r) ==
  /\ r.open <=> J.att # "none"
  /\ J.att # "none" => (r.semantic <=> J.att = "semantic") /\ Switch!Active(J)
  /\ J.att # "none" \/ (Switch!Active(J) /\ J.gate = "retry") => J.snap = J.run /\ J.tries > 0

\* The projection keeps the last boundary, and the last snapshot if it is of that.
BoundariesAgree(J, r) ==
  LET b == Len(r.boundaries) IN
  /\ r.roles = J.blobs /\ J.bound <= J.blobs /\ J.boundRun <= J.run
  /\ b = 0 => J.bound = 0 /\ J.boundRun = 0
  /\ b > 0 => J.bound > 0 /\ r.boundaries[b].run = J.boundRun /\ r.boundaries[b].roles = J.bound
  /\ \A k \in 1..b : r.boundaries[k].roles <= J.bound
  /\ J.fresh <=> r.last = "commit_boundary_created"
  /\ J.fresh => b > 0 /\ J.bound = J.blobs

SnapshotsAgree(J, r) ==
  LET b == Len(r.boundaries)  s == Len(r.snapshots) IN
  /\ J.snap <= J.run
  /\ \A k \in 1..s : r.snapshots[k].boundary <= b
  /\ J.snap = 0 => \A k \in 1..s : r.snapshots[k].boundary # b
  /\ J.snap # 0 => s > 0 /\ r.snapshots[s].run = J.snap /\ r.snapshots[s].attempts = J.tries

Agree(J, r) ==
  /\ J \in Switch!Projection /\ r \in Selections
  /\ RunsAgree(J, r) /\ CallsAgree(J, r) /\ GatesAgree(J, r) /\ AttemptsAgree(J, r)
  /\ BoundariesAgree(J, r) /\ SnapshotsAgree(J, r)

-----------------------------------------------------------------------------
(* The session. *)

\* The frames agree, and no lineage is activated twice.
FrameInv ==
  /\ frame = [declared |-> frame.declared, abis |-> frame.abis,
              active |-> frame.active, change |-> frame.change]
  /\ sel = [frame |-> [declared |-> frame.declared, abis |-> frame.abis,
                       activated |-> sel.frame.activated, active |-> frame.active,
                       break |-> frame.change],
            runs |-> sel.runs, refused |-> FALSE]
  /\ sel.frame.activated \subseteq 1..frame.active
  /\ frame.declared \subseteq Abis
  /\ frame.abis \in Seq(frame.declared) /\ Len(frame.abis) <= MaxLineages
  /\ frame.active \in DOMAIN frame.abis
  /\ frame.change \in [from : 0..MaxLineages, to : 0..MaxLineages]
  /\ frame.change # Switch!NoBreak => tail.status = "completed" /\ frame.change.from = frame.active

\* What is left of a switch to abi, by how much of it is done.
Changes(abi)     == abi # frame.abis[frame.active]
Reason(abi)      == IF Changes(abi) THEN "abi_change" ELSE "compaction"
NoteOf(abi, n)   == IF Changes(abi) THEN 0 ELSE n
Leaves(abi, l, n) == Switch!CacheBreak(Reason(abi), frame.active, l, NoteOf(abi, n))
Enters(abi, l)    == Switch!LineageActivated(Reason(abi), frame.active, l)

Unstarted(abi) ==
  LET l == Len(frame.abis) + 1  n == notes + 1 IN
  /\ l <= MaxLineages /\ n <= MaxNotes
  /\ \/ /\ Changes(abi)
        /\ todo = << Switch!NotePublished(n), Switch!AbiDeclared(abi), Switch!LineageStarted(l, abi),
                     Leaves(abi, l, n), Enters(abi, l) >>
     \/ /\ ~ Changes(abi)
        /\ todo = << Switch!NotePublished(n), Switch!LineageStarted(l, abi), Leaves(abi, l, n),
                     Enters(abi, l) >>

Summarised(abi) ==
  LET l == Len(frame.abis) + 1 IN
  /\ l <= MaxLineages /\ notes > 0
  /\ \/ /\ Changes(abi)
        /\ todo = << Switch!AbiDeclared(abi), Switch!LineageStarted(l, abi), Leaves(abi, l, notes),
                     Enters(abi, l) >>
     \/ todo = << Switch!LineageStarted(l, abi), Leaves(abi, l, notes), Enters(abi, l) >>

LineageThere(abi) ==
  LET l == Len(frame.abis) IN
  /\ frame.active < l /\ frame.abis[l] = abi /\ notes > 0
  /\ \/ todo = << Leaves(abi, l, notes), Enters(abi, l) >>
     \/ /\ todo = << Enters(abi, l) >>
        /\ frame.change = [from |-> frame.active, to |-> l]
        /\ broken[l] = [reason |-> Reason(abi), note |-> NoteOf(abi, notes), before |-> notes]

LeftOf(abi) == Unstarted(abi) \/ Summarised(abi) \/ LineageThere(abi)

TodoInv ==
  todo # << >> => tail.status = "completed" /\ \E abi \in Abis : LeftOf(abi)

\* A turn is of an active run; what is committed last is of one too.
TurnInv ==
  /\ input # None => Switch!Active(tail)
  /\ tail.fresh => Switch!Active(tail)
  /\ tail.blobs = 0 => tail.calls = << >>

\* The summary of a lineage that has no run yet is the last one written.
OwnInv ==
  /\ tail.run = 0 /\ frame.active > 1 => broken[frame.active].before = notes
  /\ frame.active > 1 =>
       LET b == broken[frame.active] IN
       \/ b.reason = "compaction" /\ b.note = b.before
       \/ b.reason = "abi_change"

\* The first run of a lineage has that summary, and gives it to its message.
CarryInv ==
  crashes = 0 /\ frame.active > 1 =>
    /\ tail.run > 0 /\ tail.blobs = 0 =>
         /\ tail.run = 1 /\ tail.status = "active" /\ tail.cause = "user" /\ tail.gate = "open"
         /\ tail.att = "none" /\ tail.snap = 0
         /\ input = broken[frame.active].before
    /\ tail.blobs > 0 => carried[frame.active] = broken[frame.active].before

TypesInv ==
  /\ notes \in 0..MaxNotes
  /\ broken \in [1..MaxLineages -> [reason : {"none", "compaction", "abi_change"},
                                    note : 0..notes, before : 0..notes]]
  /\ carried \in [1..MaxLineages -> 0..notes]
  /\ input \in {None} \cup 0..notes
  /\ refused \in BOOLEAN /\ crashes \in 0..MaxCrashes
  /\ tail.blobs <= MaxRoles + tail.next /\ Len(tail.calls) <= MaxCalls

SwitchInv ==
  /\ Agree(tail, sel.runs)
  /\ FrameInv /\ TodoInv /\ TurnInv /\ OwnInv /\ CarryInv /\ TypesInv

\* What an instance assumes of the constants of the switch.
LEMMA SwitchConstants ==
  /\ FirstAbi \in Abis
  /\ MaxLineages \in Nat \ {0}
  /\ {MaxRuns, MaxRoles, MaxSteps, MaxCrashes, MaxNotes} \subseteq Nat
BY LineagesAssumption
DEF Switch!AbisAssumption, Switch!LineagesAssumption, Switch!BoundsAssumption

-----------------------------------------------------------------------------
(* What the projection admits, the selection takes. *)

Noted(r, e) == [Switch!Keeps(r, e) EXCEPT !.last = e.type]

\* The gates by name.
LEMMA GateNames ==
  Switch!Gates = {"open", "checkpoint", "boundary", "must_interrupt", "retry", "final_checkpoint",
           "final_boundary", "final_complete"}
BY DEF Switch!Gates, Switch!GateAdmits

\* An active run takes what its gate waits for.
LEMMA GateOfEvent ==
  ASSUME NEW J \in Switch!Projection, NEW e, Switch!Admits(J, e), Switch!Active(J),
         e.type # "journal_tail_recovered"
  PROVE  \/ J.gate = "open"
         \/ J.gate \in {"checkpoint", "final_checkpoint"} /\ e.type = "cache_checkpoint_created"
         \/ J.gate \in {"boundary", "final_boundary"} /\ e.type = "commit_boundary_created"
         \/ J.gate = "must_interrupt" /\ e.type = "run_interrupted"
         \/ J.gate = "retry" /\ e.type \in {"request_attempt_started", "run_interrupted"}
         \/ J.gate = "final_complete" /\ e.type = "run_completed"
<1>1. e.type \in Switch!GateAdmits[J.gate]
  BY DEF Switch!Admits
<1>2. J.gate \in {"open", "checkpoint", "boundary", "must_interrupt", "retry",
                  "final_checkpoint", "final_boundary", "final_complete"}
  BY GateNames DEF Switch!Projection
<1>3. QED
  BY <1>1, <1>2 DEF Switch!GateAdmits

\* What is settled for the one is settled for the other.
LEMMA ClosedIsClosure ==
  ASSUME NEW J, NEW r, Agree(J, r)
  PROVE  Switch!Closed(J) <=> Switch!IsClosure(r)
<1>1. J \in Switch!Projection /\ r \in Selections
  BY DEF Agree
<1>2. DOMAIN J.calls = DOMAIN r.calls
  BY <1>1 DEF Agree, CallsAgree, Switch!Projection, Selections
<1>3. r.open <=> J.att # "none"
  BY DEF Agree, AttemptsAgree
<1>4. r.group = Switch!Pending(J)
  BY DEF Agree, CallsAgree
<1>5. \A i \in DOMAIN J.calls : r.calls[i].effect = J.calls[i].effect
  BY DEF Agree, CallsAgree
<1>6. QED
  BY <1>2, <1>3, <1>4, <1>5 DEF Switch!Closed, Switch!IsClosure, Switch!Effect

\* A run whose gate is open takes any event.
LEMMA OpenGate ==
  ASSUME NEW J, NEW r, Agree(J, r), Switch!Active(J), J.gate = "open", NEW type
  PROVE  /\ Switch!IsActive(r) /\ Switch!PhaseAdmits(r, type)
         /\ r.boundaryDue = "none" /\ ~ r.checkpointDue /\ r.phase = "normal" /\ r.retry = 0
<1>1. /\ r.boundaryDue = "none" /\ ~ r.checkpointDue /\ r.phase = "normal" /\ r.retry = 0
  BY DEF Agree, GatesAgree
<1>2. Switch!IsActive(r)
  BY DEF Agree, RunsAgree, Switch!IsActive, Switch!Active
<1>3. QED
  BY <1>1, <1>2 DEF Switch!PhaseAdmits

\* The boundaries and the snapshots of a selection.
LEMMA BoundaryFields ==
  ASSUME NEW J, NEW r, Agree(J, r)
  PROVE  /\ r.boundaries \in Seq([run : Nat, roles : Nat]) /\ Len(r.boundaries) \in Nat
         /\ J.bound \in Nat /\ J.blobs \in Nat /\ J.bound <= J.blobs /\ r.roles = J.blobs
         /\ \A k \in 1..Len(r.boundaries) :
              r.boundaries[k].roles \in Nat /\ r.boundaries[k].roles <= J.bound
<1>1. /\ r.boundaries \in Seq([run : Nat, roles : Nat]) /\ Len(r.boundaries) \in Nat
      /\ J.bound \in Nat /\ J.blobs \in Nat
  BY DEF Agree, Switch!Projection, Selections
<1>2. /\ J.bound <= J.blobs /\ r.roles = J.blobs
      /\ \A k \in 1..Len(r.boundaries) : r.boundaries[k].roles <= J.bound
  BY DEF Agree, BoundariesAgree
<1>3. ASSUME NEW k \in 1..Len(r.boundaries)
      PROVE  r.boundaries[k].roles \in Nat
  <2>1. r.boundaries[k] \in [run : Nat, roles : Nat]
    BY <1>1, ElementOfSeq
  <2>2. QED
    BY <2>1
<1>4. QED
  BY <1>1, <1>2, <1>3

LEMMA SnapshotFields ==
  ASSUME NEW J, NEW r, Agree(J, r)
  PROVE  /\ r.snapshots \in Seq([run : Nat, boundary : Nat, attempts : Nat])
         /\ Len(r.snapshots) \in Nat
         /\ \A k \in 1..Len(r.snapshots) :
              r.snapshots[k].boundary \in Nat /\ r.snapshots[k].boundary <= Len(r.boundaries)
<1>1. r.snapshots \in Seq([run : Nat, boundary : Nat, attempts : Nat]) /\ Len(r.snapshots) \in Nat
  BY DEF Agree, Selections
<1>2. ASSUME NEW k \in 1..Len(r.snapshots)
      PROVE  r.snapshots[k].boundary \in Nat
  <2>1. r.snapshots[k] \in [run : Nat, boundary : Nat, attempts : Nat]
    BY <1>1, ElementOfSeq
  <2>2. QED
    BY <2>1
<1>3. QED
  BY <1>1, <1>2 DEF Agree, SnapshotsAgree

\* What the planner and the projection count can be counted on.
LEMMA CountsGrow ==
  ASSUME NEW J \in Switch!Projection, NEW r \in Selections
  PROVE  /\ J.run + 1 \in Nat /\ J.blobs + 1 \in Nat /\ J.tries + 1 \in Nat
         /\ r.roles + 1 \in Nat
<1>1. J.run \in Nat /\ J.blobs \in Nat /\ J.tries \in Nat
  BY DEF Switch!Projection
<1>2. r.roles \in Nat
  BY DEF Selections
<1>3. QED
  BY <1>1, <1>2

\* A message.
LEMMA UserAgrees ==
  ASSUME NEW J, NEW r, Agree(J, r), Switch!Admits(J, Switch!UserCommitted)
  PROVE  /\ Switch!Selects(r, Switch!UserCommitted)
         /\ Agree(Switch!After(J, Switch!UserCommitted), Noted(r, Switch!UserCommitted))
<1> DEFINE K == Switch!After(J, Switch!UserCommitted)
           s == Noted(r, Switch!UserCommitted)
<1>t. J \in Switch!Projection /\ r \in Selections
  BY DEF Agree
<1>n. /\ J.run + 1 \in Nat /\ J.blobs + 1 \in Nat /\ J.tries + 1 \in Nat
      /\ r.roles + 1 \in Nat
  BY <1>t, CountsGrow
<1>a. Switch!Active(J) /\ Switch!Closed(J) /\ J.gate = "open" /\ r.phase = "normal"
      /\ r.retry = 0 /\ ~ r.checkpointDue
  BY <1>t, GateOfEvent, OpenGate DEF Switch!Admits, Switch!UserCommitted
<1>1. K = [J EXCEPT !.blobs = J.blobs + 1, !.tip = "user", !.gate = "boundary", !.fresh = FALSE]
  BY <1>t DEF Switch!After, Switch!Adds, Switch!UserCommitted
<1>2. s = [r EXCEPT !.roles = r.roles + 1, !.boundaryDue = "user", !.last = "user_committed"]
  BY <1>t DEF Noted, Switch!Keeps, Switch!UserCommitted
<1>3. Switch!Selects(r, Switch!UserCommitted)
  <2>1. Switch!IsClosure(r) /\ Switch!PhaseAdmits(r, "user_committed")
        /\ Switch!SelectsUser(r) /\ Switch!IsActive(r)
    BY <1>t, <1>a, ClosedIsClosure, OpenGate DEF Switch!SelectsUser
  <2>2. QED
    BY <2>1 DEF Switch!Selects, Switch!UserCommitted
<1> HIDE DEF K, s
<1>4. K \in Switch!Projection
  BY <1>t, <1>n, <1>1, GateNames DEF Switch!Projection, Switch!Statuses, Switch!Causes
<1>5. s \in Selections
  BY <1>t, <1>n, <1>2 DEF Selections, Switch!Statuses, Switch!Causes, Switch!EventTypes
<1>6. RunsAgree(K, s)
  BY <1>t, <1>a, <1>1, <1>2
  DEF Agree, RunsAgree, Switch!Projection, Selections, Switch!Active, Switch!Pending
<1>7. CallsAgree(K, s)
  BY <1>t, <1>a, <1>1, <1>2
  DEF Agree, CallsAgree, Switch!Projection, Selections, Switch!Active, Switch!Pending
<1>8. GatesAgree(K, s)
  BY <1>t, <1>a, <1>1, <1>2
  DEF Agree, GatesAgree, Switch!Projection, Selections, Switch!Active, Switch!Pending
<1>9. AttemptsAgree(K, s)
  BY <1>t, <1>a, <1>1, <1>2
  DEF Agree, AttemptsAgree, Switch!Projection, Selections, Switch!Active, Switch!Pending
<1>10. BoundariesAgree(K, s)
  BY <1>t, <1>a, <1>1, <1>2
  DEF Agree, BoundariesAgree, Switch!Projection, Selections, Switch!Active, Switch!Pending
<1>11. SnapshotsAgree(K, s)
  BY <1>t, <1>a, <1>1, <1>2
  DEF Agree, SnapshotsAgree, Switch!Projection, Selections, Switch!Active, Switch!Pending
<1>12. QED
  BY <1>3, <1>4, <1>5, <1>6, <1>7, <1>8, <1>9, <1>10, <1>11 DEF Agree, K, s

\* A run.
LEMMA RunAgrees ==
  ASSUME NEW J, NEW r, Agree(J, r), NEW cause \in Switch!Causes, Switch!Admits(J,
         Switch!RunStarted(cause))
  PROVE  /\ Switch!Selects(r, Switch!RunStarted(cause))
         /\ Agree(Switch!After(J, Switch!RunStarted(cause)), Noted(r, Switch!RunStarted(cause)))
<1> DEFINE K == Switch!After(J, Switch!RunStarted(cause))
           s == Noted(r, Switch!RunStarted(cause))
           x == Append(r.causes, cause)
<1>t. J \in Switch!Projection /\ r \in Selections
  BY DEF Agree
<1>n. /\ J.run + 1 \in Nat /\ J.blobs + 1 \in Nat /\ J.tries + 1 \in Nat
      /\ r.roles + 1 \in Nat
  BY <1>t, CountsGrow
<1>a. Switch!AdmitsRun(J, cause) /\ ~ Switch!Active(J) /\ J.att = "none"
  BY <1>t DEF Switch!Admits, Switch!AdmitsRun, Switch!RunStarted, Agree, AttemptsAgree
<1>1. K = [J EXCEPT !.run = J.run + 1, !.cause = cause, !.status = "active", !.gate = "open",
                    !.fresh = FALSE]
  BY <1>t DEF Switch!After, Switch!Adds, Switch!RunStarted
<1>2. s = [r EXCEPT !.causes = x, !.status = "active", !.phase = "normal", !.retry = 0,
                    !.checkpointDue = FALSE, !.boundaryDue = "none", !.finalCheckpoint = FALSE,
                    !.finalBoundary = FALSE, !.last = "run_started"]
  BY <1>t DEF Noted, Switch!Keeps, Switch!RunStarted, Switch!KeepsRun, x
<1>3. Switch!Selects(r, Switch!RunStarted(cause))
  <2>1. ~ Switch!IsActive(r) /\ Switch!Run(r) = J.run /\ r.status = J.status
    BY <1>a DEF Agree, RunsAgree, Switch!Active, Switch!IsActive, Switch!Run
  <2>2. Switch!SelectsRun(r, cause) /\ Switch!PhaseAdmits(r, "run_started")
    BY <1>a, <2>1 DEF Switch!SelectsRun, Switch!AdmitsRun, Switch!PhaseAdmits
  <2>3. QED
    BY <2>2 DEF Switch!Selects, Switch!RunStarted
<1>x. /\ x \in Seq(Switch!Causes) /\ Len(x) = Len(r.causes) + 1 /\ x[Len(r.causes) + 1] = cause
      /\ J.run = Len(r.causes) /\ J.run \in Nat /\ cause \in Switch!Causes
  BY <1>t, AppendProperties DEF Selections, Agree, RunsAgree, Switch!Projection
<1> HIDE DEF K, s, x
<1>4. K \in Switch!Projection
  BY <1>t, <1>n, <1>1, <1>x, GateNames DEF Switch!Projection, Switch!Statuses, Switch!Causes
<1>5. s \in Selections
  BY <1>t, <1>n, <1>2, <1>x DEF Selections, Switch!Statuses, Switch!Causes, Switch!EventTypes
<1>6. RunsAgree(K, s)
  BY <1>t, <1>a, <1>1, <1>2, <1>x
  DEF Agree, RunsAgree, Switch!Projection, Selections, Switch!Active, Switch!Pending
<1>7. CallsAgree(K, s)
  BY <1>t, <1>a, <1>1, <1>2, <1>x
  DEF Agree, CallsAgree, Switch!Projection, Selections, Switch!Active, Switch!Pending
<1>8. GatesAgree(K, s)
  BY <1>t, <1>a, <1>1, <1>2, <1>x
  DEF Agree, GatesAgree, Switch!Projection, Selections, Switch!Active, Switch!Pending
<1>9. AttemptsAgree(K, s)
  BY <1>t, <1>a, <1>1, <1>2, <1>x
  DEF Agree, AttemptsAgree, Switch!Projection, Selections, Switch!Active, Switch!Pending
<1>10. BoundariesAgree(K, s)
  BY <1>t, <1>a, <1>1, <1>2, <1>x
  DEF Agree, BoundariesAgree, Switch!Projection, Selections, Switch!Active, Switch!Pending
<1>11. SnapshotsAgree(K, s)
  BY <1>t, <1>a, <1>1, <1>2, <1>x
  DEF Agree, SnapshotsAgree, Switch!Projection, Selections, Switch!Active, Switch!Pending
<1>12. QED
  BY <1>3, <1>4, <1>5, <1>6, <1>7, <1>8, <1>9, <1>10, <1>11 DEF Agree, K, s

\* A commit boundary.
LEMMA BoundaryAgrees ==
  ASSUME NEW J, NEW r, Agree(J, r), Switch!Admits(J, Switch!BoundaryCreated)
  PROVE  /\ Switch!Selects(r, Switch!BoundaryCreated)
         /\ Agree(Switch!After(J, Switch!BoundaryCreated), Noted(r, Switch!BoundaryCreated))
<1> DEFINE K == Switch!After(J, Switch!BoundaryCreated)
           s == Noted(r, Switch!BoundaryCreated)
           x == Append(r.boundaries, [run |-> Switch!Run(r), roles |-> r.roles])
<1>t. J \in Switch!Projection /\ r \in Selections
  BY DEF Agree
<1>n. /\ J.run + 1 \in Nat /\ J.blobs + 1 \in Nat /\ J.tries + 1 \in Nat
      /\ r.roles + 1 \in Nat
  BY <1>t, CountsGrow
<1>a. Switch!Active(J) /\ Switch!Closed(J) /\ J.att = "none"
      /\ J.gate \in {"boundary", "final_boundary"} /\ J.bound < J.blobs
  BY <1>t
  DEF Switch!Admits, Switch!BoundaryCreated, Agree, BoundariesAgree, Switch!Projection,
      Switch!Closed
<1>1. K = [J EXCEPT !.bound = J.blobs, !.boundRun = J.run, !.snap = 0, !.tries = 0,
                    !.gate = IF J.gate = "final_boundary" THEN "final_complete" ELSE "open",
                    !.fresh = TRUE]
  BY <1>t DEF Switch!After, Switch!Adds, Switch!BoundaryCreated, Switch!AfterBoundary
<1>2. s = [r EXCEPT !.boundaries = x, !.finalBoundary = (r.boundaryDue = "none"),
                    !.boundaryDue = "none", !.last = "commit_boundary_created"]
  BY <1>t DEF Noted, Switch!Keeps, Switch!BoundaryCreated, Switch!KeepsBoundary, x
<1>3. Switch!Selects(r, Switch!BoundaryCreated)
  <2>1. Switch!IsClosure(r) /\ Switch!IsActive(r) /\ Switch!PhaseAdmits(r, "commit_boundary_created")
    BY <1>t, <1>a, ClosedIsClosure
    DEF Switch!PhaseAdmits, Agree, GatesAgree, RunsAgree, Switch!Active, Switch!IsActive
  <2>2. r.boundaryDue # "none" \/ (r.phase = "finalizing" /\ r.finalCheckpoint)
    BY <1>a DEF Agree, GatesAgree
  <2>3. r.roles > 0 /\ \A k \in DOMAIN r.boundaries : r.boundaries[k].roles # r.roles
    <3>1. /\ J.bound \in Nat /\ J.blobs \in Nat /\ J.bound < J.blobs /\ r.roles = J.blobs
          /\ \A k \in 1..Len(r.boundaries) :
               r.boundaries[k].roles \in Nat /\ r.boundaries[k].roles <= J.bound
      BY <1>a, BoundaryFields
    <3>2. DOMAIN r.boundaries = 1..Len(r.boundaries)
      BY <1>t DEF Selections
    <3>3. QED
      BY <3>1, <3>2
  <2>4. QED
    BY <2>1, <2>2, <2>3 DEF Switch!Selects, Switch!SelectsBoundary, Switch!BoundaryCreated
<1>x. /\ x \in Seq([run : Nat, roles : Nat]) /\ Len(x) = Len(r.boundaries) + 1
      /\ x[Len(x)] = [run |-> J.run, roles |-> J.blobs]
      /\ \A k \in 1..Len(x) : x[k].roles <= J.blobs
      /\ \A k \in 1..Len(r.snapshots) :
           r.snapshots[k].boundary \in Nat /\ r.snapshots[k].boundary < Len(x)
  <2>1. /\ r.boundaries \in Seq([run : Nat, roles : Nat])
        /\ [run |-> Switch!Run(r), roles |-> r.roles] \in [run : Nat, roles : Nat]
        /\ Switch!Run(r) = J.run /\ r.roles = J.blobs
    BY <1>t DEF Selections, Switch!Run, Agree, RunsAgree, BoundariesAgree, Switch!Projection
  <2>2. /\ x \in Seq([run : Nat, roles : Nat]) /\ Len(x) = Len(r.boundaries) + 1
        /\ x[Len(x)] = [run |-> J.run, roles |-> J.blobs]
        /\ \A k \in 1..Len(r.boundaries) : x[k] = r.boundaries[k]
    BY <2>1, AppendProperties
  <2> HIDE DEF x
  <2>3. ASSUME NEW k \in 1..Len(x)
        PROVE  x[k].roles <= J.blobs
    <3>1. CASE k = Len(x)
      BY <2>2, <3>1, BoundaryFields
    <3>2. CASE k # Len(x)
      <4>1. k \in 1..Len(r.boundaries)
        BY <2>2, <3>2, BoundaryFields
      <4>2. r.boundaries[k].roles \in Nat /\ r.boundaries[k].roles <= J.bound
        BY <4>1, BoundaryFields
      <4>3. J.bound \in Nat /\ J.blobs \in Nat /\ J.bound <= J.blobs
        BY BoundaryFields
      <4>4. x[k] = r.boundaries[k]
        BY <2>2, <4>1
      <4>5. QED
        BY <4>2, <4>3, <4>4
    <3>3. QED
      BY <3>1, <3>2
  <2>4. Len(r.boundaries) \in Nat
    BY BoundaryFields
  <2>5. ASSUME NEW k \in 1..Len(r.snapshots)
        PROVE  r.snapshots[k].boundary \in Nat /\ r.snapshots[k].boundary < Len(x)
    <3>1. r.snapshots[k].boundary \in Nat /\ r.snapshots[k].boundary <= Len(r.boundaries)
      BY SnapshotFields
    <3>2. QED
      BY <2>2, <2>4, <3>1
  <2>6. QED
    BY <2>2, <2>3, <2>5
<1> HIDE DEF K, s, x
<1>4. K \in Switch!Projection
  BY <1>t, <1>n, <1>1, <1>x, GateNames DEF Switch!Projection, Switch!Statuses, Switch!Causes
<1>5. s \in Selections
  BY <1>t, <1>n, <1>2, <1>x DEF Selections, Switch!Statuses, Switch!Causes, Switch!EventTypes
<1>6. RunsAgree(K, s)
  BY <1>t, <1>a, <1>1, <1>2, <1>x
  DEF Agree, RunsAgree, Switch!Projection, Selections, Switch!Active, Switch!Pending
<1>7. CallsAgree(K, s)
  BY <1>t, <1>a, <1>1, <1>2, <1>x
  DEF Agree, CallsAgree, Switch!Projection, Selections, Switch!Active, Switch!Pending
<1>8. GatesAgree(K, s)
  BY <1>t, <1>a, <1>1, <1>2, <1>x
  DEF Agree, GatesAgree, Switch!Projection, Selections, Switch!Active, Switch!Pending
<1>9. AttemptsAgree(K, s)
  BY <1>t, <1>a, <1>1, <1>2, <1>x
  DEF Agree, AttemptsAgree, Switch!Projection, Selections, Switch!Active, Switch!Pending
<1>10. BoundariesAgree(K, s)
  <2>1. /\ s.roles = r.roles /\ s.last = "commit_boundary_created" /\ s.boundaries = x
    BY <1>t, <1>2 DEF Selections
  <2>2. /\ K.run = J.run /\ K.bound = J.blobs /\ K.blobs = J.blobs /\ K.boundRun = J.run /\ K.fresh
        /\ J.run \in Nat
    BY <1>t, <1>1 DEF Switch!Projection
  <2>3. /\ J.blobs \in Nat /\ r.roles = J.blobs /\ Len(r.boundaries) \in Nat /\ J.blobs > 0
    BY <1>a, BoundaryFields
  <2>4. Len(x) > 0 /\ x[Len(x)].run = J.run /\ x[Len(x)].roles = J.blobs
    BY <1>x, <2>3
  <2>5. \A k \in 1..Len(x) : x[k].roles <= J.blobs
    BY <1>x
  <2>6. QED
    BY <2>1, <2>2, <2>3, <2>4, <2>5 DEF BoundariesAgree
<1>11. SnapshotsAgree(K, s)
  <2>1. s.boundaries = x /\ s.snapshots = r.snapshots
    BY <1>t, <1>2 DEF Selections
  <2>2. K.run = J.run /\ K.snap = 0 /\ J.run \in Nat
    BY <1>t, <1>1 DEF Switch!Projection
  <2>3. QED
    BY <1>x, <2>1, <2>2, BoundaryFields DEF SnapshotsAgree
<1>12. QED
  BY <1>3, <1>4, <1>5, <1>6, <1>7, <1>8, <1>9, <1>10, <1>11 DEF Agree, K, s

\* A snapshot of the last boundary.
LEMMA SnapshotAgrees ==
  ASSUME NEW J, NEW r, Agree(J, r), NEW mode \in {"fresh", "alias"}, Switch!Admits(J,
         Switch!SnapshotStored(mode))
  PROVE  /\ Switch!Selects(r, Switch!SnapshotStored(mode))
         /\ Agree(Switch!After(J, Switch!SnapshotStored(mode)),
                  Noted(r, Switch!SnapshotStored(mode)))
<1> DEFINE K == Switch!After(J, Switch!SnapshotStored(mode))
           s == Noted(r, Switch!SnapshotStored(mode))
           x == Append(r.snapshots, [run |-> Switch!Run(r), boundary |-> Len(r.boundaries), attempts |-> 0])
<1>t. J \in Switch!Projection /\ r \in Selections
  BY DEF Agree
<1>n. /\ J.run + 1 \in Nat /\ J.blobs + 1 \in Nat /\ J.tries + 1 \in Nat
      /\ r.roles + 1 \in Nat
  BY <1>t, CountsGrow
<1>a. Switch!Active(J) /\ Switch!Closed(J) /\ J.gate = "open"
      /\ Switch!AdmitsSnapshot(J, mode) /\ J.att = "none"
  <2>1. /\ Switch!SnapshotStored(mode).type = "request_snapshot_stored"
        /\ Switch!SnapshotStored(mode).mode = mode
    BY DEF Switch!SnapshotStored
  <2>2. Switch!Active(J) /\ Switch!AdmitsSnapshot(J, mode)
    BY <2>1 DEF Switch!Admits
  <2>3. J.gate = "open"
    BY <1>t, <2>1, <2>2, GateOfEvent
  <2>4. Switch!Closed(J)
    BY <2>2 DEF Switch!AdmitsSnapshot
  <2>5. QED
    BY <2>2, <2>3, <2>4 DEF Switch!Closed
<1>1. K = [J EXCEPT !.snap = J.run, !.tries = 0, !.fresh = FALSE]
  BY <1>t DEF Switch!After, Switch!Adds, Switch!SnapshotStored
<1>2. s = [r EXCEPT !.snapshots = x, !.last = "request_snapshot_stored"]
  BY <1>t DEF Noted, Switch!Keeps, Switch!SnapshotStored, x
<1>3. Switch!Selects(r, Switch!SnapshotStored(mode))
  <2>1. Switch!IsClosure(r) /\ Switch!IsActive(r) /\ Switch!PhaseAdmits(r, "request_snapshot_stored")
    BY <1>t, <1>a, ClosedIsClosure, OpenGate
  <2> DEFINE b == Len(r.boundaries)
             n == Len(r.snapshots)
  <2>2. /\ b \in Nat /\ b > 0 /\ r.boundaries[b].roles = r.roles /\ r.boundaries[b].run = J.boundRun
        /\ J.boundRun <= J.run
        /\ J.fresh => r.last = "commit_boundary_created"
    BY <1>t, <1>a DEF Agree, BoundariesAgree, Switch!AdmitsSnapshot, Switch!Projection, Selections
  <2>3. /\ Switch!Run(r) = J.run
        /\ Switch!Recovers(r) <=> J.cause = "recovery"
        /\ J.run \in Nat /\ J.run > 0 /\ J.snap \in Nat /\ J.boundRun \in Nat
    BY <1>t, <1>a
    DEF Switch!Run, Switch!Recovers, Agree, RunsAgree, Switch!Active, Switch!Projection
  <2>4. mode = "fresh" => \A k \in 1..n : r.snapshots[k].boundary # b
    BY <1>a DEF Agree, SnapshotsAgree, Switch!AdmitsSnapshot
  <2>5. mode = "alias" => n > 0 /\ r.snapshots[n].run = J.snap /\ J.snap < J.run
    BY <1>a, <2>3 DEF Agree, SnapshotsAgree, Switch!AdmitsSnapshot
  <2>6. Switch!SelectsSnapshot(r, mode)
    <3>1. CASE mode = "fresh"
      BY <1>a, <2>1, <2>2, <2>3, <2>4, <3>1 DEF Switch!SelectsSnapshot, Switch!AdmitsSnapshot
    <3>2. CASE mode = "alias"
      BY <1>a, <2>1, <2>2, <2>3, <2>5, <3>2 DEF Switch!SelectsSnapshot, Switch!AdmitsSnapshot
    <3>3. QED
      BY <3>1, <3>2
  <2>7. QED
    BY <2>1, <2>6 DEF Switch!Selects, Switch!SnapshotStored
<1>x. /\ x \in Seq([run : Nat, boundary : Nat, attempts : Nat]) /\ Len(x) = Len(r.snapshots) + 1
      /\ x[Len(x)] = [run |-> J.run, boundary |-> Len(r.boundaries), attempts |-> 0]
      /\ \A k \in 1..Len(r.snapshots) : x[k] = r.snapshots[k]
      /\ \A k \in 1..Len(x) : x[k].boundary <= Len(r.boundaries)
      /\ J.run > 0 /\ Len(r.boundaries) \in Nat
  <2>1. /\ r.snapshots \in Seq([run : Nat, boundary : Nat, attempts : Nat])
        /\ Switch!Run(r) = J.run /\ J.run \in Nat /\ J.run > 0 /\ Len(r.boundaries) \in Nat
    <3>1. J \in Switch!Projection /\ r \in Selections /\ RunsAgree(J, r)
      BY DEF Agree
    <3>2. J.run \in Nat /\ (J.status = "active" => J.run > 0)
      BY <3>1 DEF Switch!Projection, RunsAgree
    <3>3. J.run > 0
      BY <1>a, <3>2 DEF Switch!Active
    <3>4. r.snapshots \in Seq([run : Nat, boundary : Nat, attempts : Nat])
      BY <3>1 DEF Selections
    <3>5. Len(r.boundaries) \in Nat
      BY <3>1 DEF Selections
    <3>6. Switch!Run(r) = J.run
      BY <3>1 DEF RunsAgree, Switch!Run
    <3>7. QED
      BY <3>2, <3>3, <3>4, <3>5, <3>6
  <2>2. \A k \in 1..Len(r.snapshots) : r.snapshots[k].boundary <= Len(r.boundaries)
    BY <2>1 DEF Agree, SnapshotsAgree
  <2> DEFINE S == [run : Nat, boundary : Nat, attempts : Nat]
             e == [run |-> J.run, boundary |-> Len(r.boundaries), attempts |-> 0]
             n == Len(r.snapshots)
  <2>3. x = Append(r.snapshots, e) /\ e \in S /\ e.boundary = Len(r.boundaries)
    BY <2>1
  <2>4. n \in Nat /\ r.snapshots \in Seq(S)
    BY <2>1
  <2> HIDE DEF x, e, S, n
  <2>5. /\ x \in Seq(S) /\ Len(x) = n + 1 /\ x[n + 1] = e
        /\ \A k \in 1..n : x[k] = r.snapshots[k]
    BY <2>3, <2>4, AppendProperties DEF n
  <2>6. \A k \in 1..(n + 1) : k \in 1..n \/ k = n + 1
    BY <2>4
  <2>7. \A k \in 1..(n + 1) : x[k].boundary <= Len(r.boundaries)
    <3>1. x[n + 1].boundary <= Len(r.boundaries)
      BY <2>1, <2>3, <2>5
    <3>2. \A k \in 1..n : x[k].boundary <= Len(r.boundaries)
      BY <2>2, <2>5 DEF n
    <3>3. QED
      BY <2>6, <3>1, <3>2
  <2>8. QED
    BY <2>1, <2>5, <2>7 DEF S, e, n
<1> HIDE DEF K, s, x
<1>4. K \in Switch!Projection
  BY <1>t, <1>n, <1>1, <1>x, GateNames DEF Switch!Projection, Switch!Statuses, Switch!Causes
<1>5. s \in Selections
  BY <1>t, <1>n, <1>2, <1>x DEF Selections, Switch!Statuses, Switch!Causes, Switch!EventTypes
<1>6. RunsAgree(K, s)
  BY <1>t, <1>a, <1>1, <1>2, <1>x
  DEF Agree, RunsAgree, Switch!Projection, Selections, Switch!Active, Switch!Pending
<1>7. CallsAgree(K, s)
  BY <1>t, <1>a, <1>1, <1>2, <1>x
  DEF Agree, CallsAgree, Switch!Projection, Selections, Switch!Active, Switch!Pending
<1>8. GatesAgree(K, s)
  BY <1>t, <1>a, <1>1, <1>2, <1>x
  DEF Agree, GatesAgree, Switch!Projection, Selections, Switch!Active, Switch!Pending
<1>9. AttemptsAgree(K, s)
  BY <1>t, <1>a, <1>1, <1>2, <1>x
  DEF Agree, AttemptsAgree, Switch!Projection, Selections, Switch!Active, Switch!Pending
<1>10. BoundariesAgree(K, s)
  BY <1>t, <1>a, <1>1, <1>2, <1>x
  DEF Agree, BoundariesAgree, Switch!Projection, Selections, Switch!Active, Switch!Pending
<1>11. SnapshotsAgree(K, s)
  <2>1. s.boundaries = r.boundaries /\ s.snapshots = x
    BY <1>t, <1>2 DEF Selections
  <2>2. K.run = J.run /\ K.snap = J.run /\ K.tries = 0 /\ J.run \in Nat
    BY <1>t, <1>1 DEF Switch!Projection
  <2>3. Len(x) > 0
    BY <1>x, SnapshotFields
  <2>4. QED
    BY <1>x, <2>1, <2>2, <2>3 DEF SnapshotsAgree
<1>12. QED
  BY <1>3, <1>4, <1>5, <1>6, <1>7, <1>8, <1>9, <1>10, <1>11 DEF Agree, K, s

\* An attempt.
LEMMA AttemptAgrees ==
  ASSUME NEW J, NEW r, Agree(J, r), Switch!Admits(J, Switch!AttemptStarted)
  PROVE  /\ Switch!Selects(r, Switch!AttemptStarted)
         /\ Agree(Switch!After(J, Switch!AttemptStarted), Noted(r, Switch!AttemptStarted))
<1> DEFINE K == Switch!After(J, Switch!AttemptStarted)
           s == Noted(r, Switch!AttemptStarted)
           x == [r.snapshots EXCEPT ![Len(r.snapshots)].attempts = @ + 1]
<1>t. J \in Switch!Projection /\ r \in Selections
  BY DEF Agree
<1>n. /\ J.run + 1 \in Nat /\ J.blobs + 1 \in Nat /\ J.tries + 1 \in Nat
      /\ r.roles + 1 \in Nat
  BY <1>t, CountsGrow
<1>a. Switch!Active(J) /\ Switch!Closed(J) /\ J.gate \in {"open", "retry"}
      /\ Switch!AdmitsAttempt(J) /\ J.att = "none"
  BY <1>t, GateOfEvent DEF Switch!Admits, Switch!AdmitsAttempt, Switch!AttemptStarted, Switch!Closed
<1>1. K = [J EXCEPT !.att = "open", !.tries = J.tries + 1, !.gate = "open", !.fresh = FALSE]
  BY <1>t DEF Switch!After, Switch!Adds, Switch!AttemptStarted
<1>2. s = [r EXCEPT !.snapshots = x, !.retry = 0, !.open = TRUE, !.semantic = FALSE,
                    !.last = "request_attempt_started"]
  BY <1>t DEF Noted, Switch!Keeps, Switch!AttemptStarted, Switch!KeepsAttempt, x
<1>3. Switch!Selects(r, Switch!AttemptStarted)
  <2>1. /\ J.run \in Nat /\ J.run > 0 /\ J.snap = J.run /\ Switch!Run(r) = J.run /\ Switch!IsActive(r)
        /\ Switch!IsClosure(r)
    BY <1>t, <1>a, ClosedIsClosure
    DEF Agree, RunsAgree, Switch!Projection, Switch!Active, Switch!AdmitsAttempt, Switch!Run,
        Switch!IsActive
  <2>2. /\ Len(r.snapshots) > 0 /\ r.snapshots[Len(r.snapshots)].run = J.run
        /\ r.snapshots[Len(r.snapshots)].attempts = J.tries /\ Len(r.snapshots) \in Nat
    BY <1>t, <2>1 DEF Agree, SnapshotsAgree, Selections
  <2>3. /\ r.retry = IF J.gate = "retry" THEN Len(r.snapshots) ELSE 0
        /\ r.phase = "normal" /\ ~ r.checkpointDue /\ r.boundaryDue = "none"
    BY <1>a DEF Agree, GatesAgree
  <2>4. Switch!SelectsAttempt(r) /\ Switch!PhaseAdmits(r, "request_attempt_started")
    BY <1>a, <2>1, <2>2, <2>3 DEF Switch!SelectsAttempt, Switch!AdmitsAttempt, Switch!PhaseAdmits
  <2>5. QED
    BY <2>1, <2>4 DEF Switch!Selects, Switch!AttemptStarted
<1>x. /\ x \in Seq([run : Nat, boundary : Nat, attempts : Nat]) /\ Len(x) = Len(r.snapshots)
      /\ Len(x) > 0 /\ x[Len(x)].run = J.run /\ x[Len(x)].attempts = J.tries + 1
      /\ \A k \in 1..Len(x) : x[k].boundary = r.snapshots[k].boundary
      /\ J.run > 0 /\ J.snap = J.run
  <2>1. J.run \in Nat /\ J.run > 0 /\ J.snap = J.run
    BY <1>t, <1>a DEF Agree, RunsAgree, Switch!Projection, Switch!Active, Switch!AdmitsAttempt
  <2>2. /\ r.snapshots \in Seq([run : Nat, boundary : Nat, attempts : Nat]) /\ Len(r.snapshots) > 0
        /\ r.snapshots[Len(r.snapshots)].run = J.run
        /\ r.snapshots[Len(r.snapshots)].attempts = J.tries
    BY <1>t, <2>1 DEF Agree, SnapshotsAgree, Selections
  <2> DEFINE n == Len(r.snapshots)
             c == [r.snapshots[n] EXCEPT !.attempts = @ + 1]
  <2>m. n \in 1..Len(r.snapshots)
    BY <2>2
  <2>3. r.snapshots[n] \in [run : Nat, boundary : Nat, attempts : Nat] /\ n \in 1..n
    <3>1. r.snapshots[n] \in [run : Nat, boundary : Nat, attempts : Nat]
      BY <2>2, <2>m, ElementOfSeq
    <3>2. QED
      BY <2>m, <3>1
  <2>4. /\ c \in [run : Nat, boundary : Nat, attempts : Nat] /\ c.run = J.run
        /\ c.attempts = J.tries + 1 /\ c.boundary = r.snapshots[n].boundary
    BY <2>2, <2>3
  <2>5. x = [r.snapshots EXCEPT ![n] = c]
    OBVIOUS
  <2> HIDE DEF c, x
  <2>6. /\ x \in Seq([run : Nat, boundary : Nat, attempts : Nat]) /\ Len(x) = n /\ x[n] = c
        /\ \A k \in 1..n : k # n => x[k] = r.snapshots[k]
    BY <2>2, <2>3, <2>4, <2>5
  <2>7. QED
    BY <2>1, <2>2, <2>4, <2>6
<1> HIDE DEF K, s, x
<1>4. K \in Switch!Projection
  BY <1>t, <1>n, <1>1, <1>x, GateNames DEF Switch!Projection, Switch!Statuses, Switch!Causes
<1>5. s \in Selections
  BY <1>t, <1>n, <1>2, <1>x DEF Selections, Switch!Statuses, Switch!Causes, Switch!EventTypes
<1>6. RunsAgree(K, s)
  BY <1>t, <1>a, <1>1, <1>2, <1>x
  DEF Agree, RunsAgree, Switch!Projection, Selections, Switch!Active, Switch!Pending
<1>7. CallsAgree(K, s)
  BY <1>t, <1>a, <1>1, <1>2, <1>x
  DEF Agree, CallsAgree, Switch!Projection, Selections, Switch!Active, Switch!Pending
<1>8. GatesAgree(K, s)
  BY <1>t, <1>a, <1>1, <1>2, <1>x
  DEF Agree, GatesAgree, Switch!Projection, Selections, Switch!Active, Switch!Pending
<1>9. AttemptsAgree(K, s)
  BY <1>t, <1>a, <1>1, <1>2, <1>x
  DEF Agree, AttemptsAgree, Switch!Projection, Selections, Switch!Active, Switch!Pending
<1>10. BoundariesAgree(K, s)
  BY <1>t, <1>a, <1>1, <1>2, <1>x
  DEF Agree, BoundariesAgree, Switch!Projection, Selections, Switch!Active, Switch!Pending
<1>11. SnapshotsAgree(K, s)
  BY <1>t, <1>1, <1>2, <1>x DEF Agree, SnapshotsAgree, Switch!Projection, Selections
<1>12. QED
  BY <1>3, <1>4, <1>5, <1>6, <1>7, <1>8, <1>9, <1>10, <1>11 DEF Agree, K, s

\* The model begins to answer.
LEMMA SemanticAgrees ==
  ASSUME NEW J, NEW r, Agree(J, r), Switch!Admits(J, Switch!SemanticStarted)
  PROVE  /\ Switch!Selects(r, Switch!SemanticStarted)
         /\ Agree(Switch!After(J, Switch!SemanticStarted), Noted(r, Switch!SemanticStarted))
<1> DEFINE K == Switch!After(J, Switch!SemanticStarted)
           s == Noted(r, Switch!SemanticStarted)
<1>t. J \in Switch!Projection /\ r \in Selections
  BY DEF Agree
<1>n. /\ J.run + 1 \in Nat /\ J.blobs + 1 \in Nat /\ J.tries + 1 \in Nat
      /\ r.roles + 1 \in Nat
  BY <1>t, CountsGrow
<1>a. Switch!Active(J) /\ J.gate = "open" /\ J.att = "open"
  BY <1>t, GateOfEvent DEF Switch!Admits, Switch!SemanticStarted
<1>1. K = [J EXCEPT !.att = "semantic", !.fresh = FALSE]
  BY <1>t DEF Switch!After, Switch!Adds, Switch!SemanticStarted
<1>2. s = [r EXCEPT !.semantic = TRUE, !.last = "request_semantic_started"]
  BY <1>t DEF Noted, Switch!Keeps, Switch!SemanticStarted
<1>3. Switch!Selects(r, Switch!SemanticStarted)
  <2>1. r.open /\ ~ r.semantic /\ Switch!IsActive(r) /\ Switch!PhaseAdmits(r, "request_semantic_started")
    BY <1>t, <1>a, OpenGate DEF Agree, AttemptsAgree
  <2>2. QED
    BY <2>1 DEF Switch!Selects, Switch!SemanticStarted
<1> HIDE DEF K, s
<1>4. K \in Switch!Projection
  BY <1>t, <1>n, <1>1, GateNames DEF Switch!Projection, Switch!Statuses, Switch!Causes
<1>5. s \in Selections
  BY <1>t, <1>n, <1>2 DEF Selections, Switch!Statuses, Switch!Causes, Switch!EventTypes
<1>6. RunsAgree(K, s)
  BY <1>t, <1>a, <1>1, <1>2
  DEF Agree, RunsAgree, Switch!Projection, Selections, Switch!Active, Switch!Pending
<1>7. CallsAgree(K, s)
  BY <1>t, <1>a, <1>1, <1>2
  DEF Agree, CallsAgree, Switch!Projection, Selections, Switch!Active, Switch!Pending
<1>8. GatesAgree(K, s)
  BY <1>t, <1>a, <1>1, <1>2
  DEF Agree, GatesAgree, Switch!Projection, Selections, Switch!Active, Switch!Pending
<1>9. AttemptsAgree(K, s)
  BY <1>t, <1>a, <1>1, <1>2
  DEF Agree, AttemptsAgree, Switch!Projection, Selections, Switch!Active, Switch!Pending
<1>10. BoundariesAgree(K, s)
  BY <1>t, <1>a, <1>1, <1>2
  DEF Agree, BoundariesAgree, Switch!Projection, Selections, Switch!Active, Switch!Pending
<1>11. SnapshotsAgree(K, s)
  BY <1>t, <1>a, <1>1, <1>2
  DEF Agree, SnapshotsAgree, Switch!Projection, Selections, Switch!Active, Switch!Pending
<1>12. QED
  BY <1>3, <1>4, <1>5, <1>6, <1>7, <1>8, <1>9, <1>10, <1>11 DEF Agree, K, s

\* An attempt fails.
LEMMA FailureAgrees ==
  ASSUME NEW J, NEW r, Agree(J, r), NEW semantic \in {"pre_semantic", "post_semantic"},
         Switch!Admits(J, Switch!RequestInterrupted(semantic))
  PROVE  /\ Switch!Selects(r, Switch!RequestInterrupted(semantic))
         /\ Agree(Switch!After(J, Switch!RequestInterrupted(semantic)),
                  Noted(r, Switch!RequestInterrupted(semantic)))
<1> DEFINE K == Switch!After(J, Switch!RequestInterrupted(semantic))
           s == Noted(r, Switch!RequestInterrupted(semantic))
<1>t. J \in Switch!Projection /\ r \in Selections
  BY DEF Agree
<1>n. /\ J.run + 1 \in Nat /\ J.blobs + 1 \in Nat /\ J.tries + 1 \in Nat
      /\ r.roles + 1 \in Nat
  BY <1>t, CountsGrow
<1>a. /\ Switch!Active(J) /\ J.gate = "open" /\ J.att # "none"
      /\ semantic = "pre_semantic" => J.att = "open"
      /\ semantic = "post_semantic" => J.att = "semantic"
  BY <1>t, GateOfEvent DEF Switch!Admits, Switch!RequestInterrupted
<1>1. K = [J EXCEPT !.att = "none",
                    !.gate = IF semantic = "pre_semantic" THEN "retry" ELSE "must_interrupt",
                    !.fresh = FALSE]
  BY <1>t DEF Switch!After, Switch!Adds, Switch!RequestInterrupted, Switch!AfterFailure
<1>2. s = [r EXCEPT !.open = FALSE,
                    !.retry = IF semantic = "pre_semantic" THEN Len(r.snapshots) ELSE r.retry,
                    !.phase = IF semantic = "pre_semantic" THEN r.phase ELSE "must_interrupt",
                    !.last = "request_interrupted"]
  BY <1>t DEF Noted, Switch!Keeps, Switch!RequestInterrupted
<1>3. Switch!Selects(r, Switch!RequestInterrupted(semantic))
  <2>1. Switch!SelectsInterruption(r, semantic) /\ Switch!IsActive(r)
        /\ Switch!PhaseAdmits(r, "request_interrupted")
    BY <1>t, <1>a, OpenGate DEF Agree, AttemptsAgree, Switch!SelectsInterruption, Switch!Projection
  <2>2. QED
    BY <2>1 DEF Switch!Selects, Switch!RequestInterrupted
<1>x. Len(r.snapshots) \in Nat
  BY <1>t DEF Selections
<1> HIDE DEF K, s
<1>4. K \in Switch!Projection
  BY <1>t, <1>n, <1>1, <1>x, GateNames DEF Switch!Projection, Switch!Statuses, Switch!Causes
<1>5. s \in Selections
  BY <1>t, <1>n, <1>2, <1>x DEF Selections, Switch!Statuses, Switch!Causes, Switch!EventTypes
<1>6. RunsAgree(K, s)
  BY <1>t, <1>a, <1>1, <1>2, <1>x
  DEF Agree, RunsAgree, Switch!Projection, Selections, Switch!Active, Switch!Pending
<1>7. CallsAgree(K, s)
  BY <1>t, <1>a, <1>1, <1>2, <1>x
  DEF Agree, CallsAgree, Switch!Projection, Selections, Switch!Active, Switch!Pending
<1>8. GatesAgree(K, s)
  BY <1>t, <1>a, <1>1, <1>2, <1>x
  DEF Agree, GatesAgree, Switch!Projection, Selections, Switch!Active, Switch!Pending
<1>9. AttemptsAgree(K, s)
  BY <1>t, <1>a, <1>1, <1>2, <1>x
  DEF Agree, AttemptsAgree, Switch!Projection, Selections, Switch!Active, Switch!Pending
<1>10. BoundariesAgree(K, s)
  BY <1>t, <1>a, <1>1, <1>2, <1>x
  DEF Agree, BoundariesAgree, Switch!Projection, Selections, Switch!Active, Switch!Pending
<1>11. SnapshotsAgree(K, s)
  BY <1>t, <1>a, <1>1, <1>2, <1>x
  DEF Agree, SnapshotsAgree, Switch!Projection, Selections, Switch!Active, Switch!Pending
<1>12. QED
  BY <1>3, <1>4, <1>5, <1>6, <1>7, <1>8, <1>9, <1>10, <1>11 DEF Agree, K, s

\* A checkpoint.
LEMMA CheckpointAgrees ==
  ASSUME NEW J, NEW r, Agree(J, r), Switch!Admits(J, Switch!CheckpointCreated)
  PROVE  /\ Switch!Selects(r, Switch!CheckpointCreated)
         /\ Agree(Switch!After(J, Switch!CheckpointCreated), Noted(r, Switch!CheckpointCreated))
<1> DEFINE K == Switch!After(J, Switch!CheckpointCreated)
           s == Noted(r, Switch!CheckpointCreated)
<1>t. J \in Switch!Projection /\ r \in Selections
  BY DEF Agree
<1>n. /\ J.run + 1 \in Nat /\ J.blobs + 1 \in Nat /\ J.tries + 1 \in Nat
      /\ r.roles + 1 \in Nat
  BY <1>t, CountsGrow
<1>a. Switch!Active(J) /\ J.gate \in {"checkpoint", "final_checkpoint"}
  BY <1>t DEF Switch!Admits, Switch!CheckpointCreated
<1>1. K = [J EXCEPT !.gate = IF J.gate = "checkpoint" THEN "open" ELSE "final_boundary",
                    !.fresh = FALSE]
  BY <1>t DEF Switch!After, Switch!Adds, Switch!CheckpointCreated
<1>2. s = [r EXCEPT !.checkpointDue = FALSE, !.checkpointed = TRUE,
                    !.finalCheckpoint = (r.phase = "finalizing"), !.last = "cache_checkpoint_created"]
  BY <1>t DEF Noted, Switch!Keeps, Switch!CheckpointCreated
<1>3. Switch!Selects(r, Switch!CheckpointCreated)
  <2>1. /\ r.roles > 0 /\ ~ r.checkpointed /\ Switch!IsActive(r)
        /\ r.checkpointDue \/ (r.phase = "finalizing" /\ ~ r.finalCheckpoint)
        /\ r.boundaryDue = "none" /\ r.phase # "must_interrupt" /\ r.retry = 0
    BY <1>a DEF Agree, GatesAgree, RunsAgree, Switch!Active, Switch!IsActive
  <2>2. QED
    BY <2>1
    DEF Switch!Selects, Switch!SelectsCheckpoint, Switch!PhaseAdmits, Switch!CheckpointCreated
<1> HIDE DEF K, s
<1>4. K \in Switch!Projection
  BY <1>t, <1>n, <1>1, GateNames DEF Switch!Projection, Switch!Statuses, Switch!Causes
<1>5. s \in Selections
  BY <1>t, <1>n, <1>2 DEF Selections, Switch!Statuses, Switch!Causes, Switch!EventTypes
<1>6. RunsAgree(K, s)
  BY <1>t, <1>a, <1>1, <1>2
  DEF Agree, RunsAgree, Switch!Projection, Selections, Switch!Active, Switch!Pending
<1>7. CallsAgree(K, s)
  BY <1>t, <1>a, <1>1, <1>2
  DEF Agree, CallsAgree, Switch!Projection, Selections, Switch!Active, Switch!Pending
<1>8. GatesAgree(K, s)
  BY <1>t, <1>a, <1>1, <1>2
  DEF Agree, GatesAgree, Switch!Projection, Selections, Switch!Active, Switch!Pending
<1>9. AttemptsAgree(K, s)
  BY <1>t, <1>a, <1>1, <1>2
  DEF Agree, AttemptsAgree, Switch!Projection, Selections, Switch!Active, Switch!Pending
<1>10. BoundariesAgree(K, s)
  BY <1>t, <1>a, <1>1, <1>2
  DEF Agree, BoundariesAgree, Switch!Projection, Selections, Switch!Active, Switch!Pending
<1>11. SnapshotsAgree(K, s)
  BY <1>t, <1>a, <1>1, <1>2
  DEF Agree, SnapshotsAgree, Switch!Projection, Selections, Switch!Active, Switch!Pending
<1>12. QED
  BY <1>3, <1>4, <1>5, <1>6, <1>7, <1>8, <1>9, <1>10, <1>11 DEF Agree, K, s

\* A run is complete.
LEMMA CompleteAgrees ==
  ASSUME NEW J, NEW r, Agree(J, r), Switch!Admits(J, Switch!RunCompleted)
  PROVE  /\ Switch!Selects(r, Switch!RunCompleted)
         /\ Agree(Switch!After(J, Switch!RunCompleted), Noted(r, Switch!RunCompleted))
<1> DEFINE K == Switch!After(J, Switch!RunCompleted)
           s == Noted(r, Switch!RunCompleted)
<1>t. J \in Switch!Projection /\ r \in Selections
  BY DEF Agree
<1>n. /\ J.run + 1 \in Nat /\ J.blobs + 1 \in Nat /\ J.tries + 1 \in Nat
      /\ r.roles + 1 \in Nat
  BY <1>t, CountsGrow
<1>a. Switch!Active(J) /\ J.gate = "final_complete" /\ Switch!Closed(J) /\ J.att = "none"
  BY <1>t DEF Switch!Admits, Switch!RunCompleted, Switch!Closed
<1>1. K = [J EXCEPT !.status = "completed", !.fresh = FALSE]
  BY <1>t DEF Switch!After, Switch!Adds, Switch!RunCompleted
<1>2. s = [r EXCEPT !.status = "completed", !.last = "run_completed"]
  BY <1>t DEF Noted, Switch!Keeps, Switch!RunCompleted
<1>3. Switch!Selects(r, Switch!RunCompleted)
  <2>1. /\ Switch!IsActive(r) /\ Switch!IsClosure(r)
        /\ r.phase = "finalizing" /\ r.finalCheckpoint /\ r.finalBoundary
        /\ ~ r.checkpointDue /\ r.boundaryDue = "none" /\ r.retry = 0
    BY <1>a, ClosedIsClosure DEF Agree, GatesAgree, RunsAgree, Switch!Active, Switch!IsActive
  <2>2. QED
    BY <2>1 DEF Switch!Selects, Switch!SelectsRunCompleted, Switch!PhaseAdmits, Switch!RunCompleted
<1> HIDE DEF K, s
<1>4. K \in Switch!Projection
  BY <1>t, <1>n, <1>1, GateNames DEF Switch!Projection, Switch!Statuses, Switch!Causes
<1>5. s \in Selections
  BY <1>t, <1>n, <1>2 DEF Selections, Switch!Statuses, Switch!Causes, Switch!EventTypes
<1>6. RunsAgree(K, s)
  BY <1>t, <1>a, <1>1, <1>2
  DEF Agree, RunsAgree, Switch!Projection, Selections, Switch!Active, Switch!Pending
<1>7. CallsAgree(K, s)
  BY <1>t, <1>a, <1>1, <1>2
  DEF Agree, CallsAgree, Switch!Projection, Selections, Switch!Active, Switch!Pending
<1>8. GatesAgree(K, s)
  BY <1>t, <1>a, <1>1, <1>2
  DEF Agree, GatesAgree, Switch!Projection, Selections, Switch!Active, Switch!Pending
<1>9. AttemptsAgree(K, s)
  BY <1>t, <1>a, <1>1, <1>2
  DEF Agree, AttemptsAgree, Switch!Projection, Selections, Switch!Active, Switch!Pending
<1>10. BoundariesAgree(K, s)
  BY <1>t, <1>a, <1>1, <1>2
  DEF Agree, BoundariesAgree, Switch!Projection, Selections, Switch!Active, Switch!Pending
<1>11. SnapshotsAgree(K, s)
  BY <1>t, <1>a, <1>1, <1>2
  DEF Agree, SnapshotsAgree, Switch!Projection, Selections, Switch!Active, Switch!Pending
<1>12. QED
  BY <1>3, <1>4, <1>5, <1>6, <1>7, <1>8, <1>9, <1>10, <1>11 DEF Agree, K, s

\* A run is interrupted.
LEMMA InterruptAgrees ==
  ASSUME NEW J, NEW r, Agree(J, r), NEW source, Switch!Admits(J, Switch!RunInterrupted(source))
  PROVE  /\ Switch!Selects(r, Switch!RunInterrupted(source))
         /\ Agree(Switch!After(J, Switch!RunInterrupted(source)),
                  Noted(r, Switch!RunInterrupted(source)))
<1> DEFINE K == Switch!After(J, Switch!RunInterrupted(source))
           s == Noted(r, Switch!RunInterrupted(source))
<1>t. J \in Switch!Projection /\ r \in Selections
  BY DEF Agree
<1>n. /\ J.run + 1 \in Nat /\ J.blobs + 1 \in Nat /\ J.tries + 1 \in Nat
      /\ r.roles + 1 \in Nat
  BY <1>t, CountsGrow
<1>a. Switch!Active(J) /\ J.gate \in {"open", "retry", "must_interrupt"} /\ J.att = "none"
  BY <1>t, GateOfEvent DEF Switch!Admits, Switch!RunInterrupted
<1>1. K = [J EXCEPT !.status = "interrupted", !.fresh = FALSE]
  BY <1>t DEF Switch!After, Switch!Adds, Switch!RunInterrupted
<1>2. s = [r EXCEPT !.status = "interrupted", !.last = "run_interrupted"]
  BY <1>t DEF Noted, Switch!Keeps, Switch!RunInterrupted
<1>3. Switch!Selects(r, Switch!RunInterrupted(source))
  <2>1. /\ Switch!IsActive(r) /\ ~ r.open /\ ~ r.checkpointDue /\ r.boundaryDue = "none"
        /\ r.phase # "finalizing"
    BY <1>a DEF Agree, GatesAgree, RunsAgree, AttemptsAgree, Switch!Active, Switch!IsActive
  <2>2. QED
    BY <2>1
    DEF Switch!Selects, Switch!SelectsRunInterrupted, Switch!PhaseAdmits, Switch!RunInterrupted
<1> HIDE DEF K, s
<1>4. K \in Switch!Projection
  BY <1>t, <1>n, <1>1, GateNames DEF Switch!Projection, Switch!Statuses, Switch!Causes
<1>5. s \in Selections
  BY <1>t, <1>n, <1>2 DEF Selections, Switch!Statuses, Switch!Causes, Switch!EventTypes
<1>6. RunsAgree(K, s)
  BY <1>t, <1>a, <1>1, <1>2
  DEF Agree, RunsAgree, Switch!Projection, Selections, Switch!Active, Switch!Pending
<1>7. CallsAgree(K, s)
  BY <1>t, <1>a, <1>1, <1>2
  DEF Agree, CallsAgree, Switch!Projection, Selections, Switch!Active, Switch!Pending
<1>8. GatesAgree(K, s)
  BY <1>t, <1>a, <1>1, <1>2
  DEF Agree, GatesAgree, Switch!Projection, Selections, Switch!Active, Switch!Pending
<1>9. AttemptsAgree(K, s)
  BY <1>t, <1>a, <1>1, <1>2
  DEF Agree, AttemptsAgree, Switch!Projection, Selections, Switch!Active, Switch!Pending
<1>10. BoundariesAgree(K, s)
  BY <1>t, <1>a, <1>1, <1>2
  DEF Agree, BoundariesAgree, Switch!Projection, Selections, Switch!Active, Switch!Pending
<1>11. SnapshotsAgree(K, s)
  BY <1>t, <1>a, <1>1, <1>2
  DEF Agree, SnapshotsAgree, Switch!Projection, Selections, Switch!Active, Switch!Pending
<1>12. QED
  BY <1>3, <1>4, <1>5, <1>6, <1>7, <1>8, <1>9, <1>10, <1>11 DEF Agree, K, s

\* An answer, with or without tool calls.
LEMMA AnswerAgrees ==
  ASSUME NEW J, NEW r, Agree(J, r), NEW kinds \in Seq(Switch!AllKinds), Switch!Admits(J,
         Switch!AssistantCommitted(kinds))
  PROVE  /\ Switch!Selects(r, Switch!AssistantCommitted(kinds))
         /\ Agree(Switch!After(J, Switch!AssistantCommitted(kinds)),
                  Noted(r, Switch!AssistantCommitted(kinds)))
<1> DEFINE K == Switch!After(J, Switch!AssistantCommitted(kinds))
           s == Noted(r, Switch!AssistantCommitted(kinds))
           x == [i \in DOMAIN kinds |-> Switch!NewCall(kinds[i])]
           y == kinds # << >>
<1>t. J \in Switch!Projection /\ r \in Selections
  BY DEF Agree
<1>n. /\ J.run + 1 \in Nat /\ J.blobs + 1 \in Nat /\ J.tries + 1 \in Nat
      /\ r.roles + 1 \in Nat
  BY <1>t, CountsGrow
<1>a. /\ Switch!Active(J) /\ J.gate = "open" /\ J.att # "none" /\ ~ Switch!Pending(J)
      /\ r.phase = "normal" /\ r.retry = 0 /\ ~ r.checkpointDue /\ r.boundaryDue = "none"
  BY <1>t, GateOfEvent, OpenGate DEF Switch!Admits, Switch!AssistantCommitted
<1>1. K = [J EXCEPT !.att = "none", !.blobs = J.blobs + 1, !.tip = "assistant", !.next = 0,
                    !.calls = x, !.gate = IF y THEN "checkpoint" ELSE "final_checkpoint",
                    !.fresh = FALSE]
  BY <1>t DEF Switch!After, Switch!Adds, Switch!AssistantCommitted, Switch!AfterAssistant, x, y
<1>2. s = [r EXCEPT !.open = FALSE, !.roles = r.roles + 1, !.checkpointed = FALSE, !.results = 0,
                    !.calls = x, !.group = y, !.checkpointDue = y,
                    !.phase = IF y THEN "normal" ELSE "finalizing",
                    !.last = "assistant_committed"]
  BY <1>t, <1>a DEF Noted, Switch!Keeps, Switch!AssistantCommitted, Switch!KeepsAssistant
<1>3. Switch!Selects(r, Switch!AssistantCommitted(kinds))
  <2>1. r.open /\ ~ r.group /\ Switch!IsActive(r) /\ Switch!PhaseAdmits(r, "assistant_committed")
    BY <1>t, <1>a, OpenGate DEF Agree, AttemptsAgree, CallsAgree
  <2>2. Switch!SelectsAssistant(r, kinds)
    BY <1>a, <2>1 DEF Switch!SelectsAssistant
  <2>3. QED
    BY <2>1, <2>2 DEF Switch!Selects, Switch!AssistantCommitted
<1>x. x \in Seq(Switch!Call) /\ Len(x) = Len(kinds) /\ Len(x) \in Nat /\ (Len(x) > 0 <=> y) /\ y \in BOOLEAN
  <2>1. ASSUME NEW i \in DOMAIN kinds
        PROVE  Switch!NewCall(kinds[i]) \in Switch!Call
    <3>1. kinds[i] \in Switch!AllKinds
      BY ElementOfSeq
    <3>2. QED
      BY <3>1 DEF Switch!NewCall, Switch!Call, Switch!Effects
  <2>2. Len(kinds) \in Nat /\ DOMAIN kinds = 1..Len(kinds)
    OBVIOUS
  <2>3. x \in [1..Len(kinds) -> Switch!Call]
    BY <2>1, <2>2
  <2>4. x \in Seq(Switch!Call) /\ Len(x) = Len(kinds)
    BY <2>2, <2>3
  <2>5. QED
    BY <2>2, <2>4, EmptySeq
<1> HIDE DEF K, s, x, y
<1>4. K \in Switch!Projection
  BY <1>t, <1>n, <1>1, <1>x, GateNames DEF Switch!Projection, Switch!Statuses, Switch!Causes
<1>5. s \in Selections
  <2>1. CASE y
    BY <1>t, <1>n, <1>2, <1>x, <2>1 DEF Selections, Switch!EventTypes
  <2>2. CASE ~ y
    BY <1>t, <1>n, <1>2, <1>x, <2>2 DEF Selections, Switch!EventTypes
  <2>3. QED
    BY <2>1, <2>2
<1>6. RunsAgree(K, s)
  BY <1>t, <1>a, <1>1, <1>2, <1>x
  DEF Agree, RunsAgree, Switch!Projection, Selections, Switch!Active, Switch!Pending
<1>7. CallsAgree(K, s)
  <2>1. /\ K.calls = x /\ K.next = 0 /\ s.calls = x /\ s.results = 0
        /\ s.group = y
    BY <1>t, <1>1, <1>2 DEF Switch!Projection, Selections
  <2>2. QED
    BY <1>x, <2>1 DEF CallsAgree, Switch!Pending
<1>8. GatesAgree(K, s)
  BY <1>t, <1>a, <1>1, <1>2, <1>x
  DEF Agree, GatesAgree, Switch!Projection, Selections, Switch!Active, Switch!Pending
<1>9. AttemptsAgree(K, s)
  BY <1>t, <1>a, <1>1, <1>2, <1>x
  DEF Agree, AttemptsAgree, Switch!Projection, Selections, Switch!Active, Switch!Pending
<1>10. BoundariesAgree(K, s)
  BY <1>t, <1>a, <1>1, <1>2, <1>x
  DEF Agree, BoundariesAgree, Switch!Projection, Selections, Switch!Active, Switch!Pending
<1>11. SnapshotsAgree(K, s)
  BY <1>t, <1>a, <1>1, <1>2, <1>x
  DEF Agree, SnapshotsAgree, Switch!Projection, Selections, Switch!Active, Switch!Pending
<1>12. QED
  BY <1>3, <1>4, <1>5, <1>6, <1>7, <1>8, <1>9, <1>10, <1>11 DEF Agree, K, s

\* A result.
LEMMA ResultAgrees ==
  ASSUME NEW J, NEW r, Agree(J, r), NEW i, Switch!Admits(J, Switch!ResultCommitted(i))
  PROVE  /\ Switch!Selects(r, Switch!ResultCommitted(i))
         /\ Agree(Switch!After(J, Switch!ResultCommitted(i)), Noted(r, Switch!ResultCommitted(i)))
<1> DEFINE K == Switch!After(J, Switch!ResultCommitted(i))
           s == Noted(r, Switch!ResultCommitted(i))
           x == J.next + 1 = Len(J.calls)
           y == J.next + 1 # Len(J.calls)
<1>t. J \in Switch!Projection /\ r \in Selections
  BY DEF Agree
<1>n. /\ J.run + 1 \in Nat /\ J.blobs + 1 \in Nat /\ J.tries + 1 \in Nat
      /\ r.roles + 1 \in Nat
  BY <1>t, CountsGrow
<1>a. /\ Switch!Active(J) /\ J.gate = "open" /\ Switch!AdmitsResult(J, i) /\ Switch!Pending(J)
      /\ i = J.next + 1
      /\ r.phase = "normal" /\ r.retry = 0 /\ ~ r.checkpointDue /\ r.boundaryDue = "none"
  BY <1>t, GateOfEvent, OpenGate DEF Switch!Admits, Switch!AdmitsResult, Switch!ResultCommitted
<1>1. K = [J EXCEPT !.next = J.next + 1, !.blobs = J.blobs + 1,
                    !.tip = IF x THEN "results" ELSE "assistant",
                    !.gate = IF x THEN "boundary" ELSE "open", !.fresh = FALSE]
  BY <1>t DEF Switch!After, Switch!Adds, Switch!ResultCommitted, Switch!AfterResult, x
<1>2. s = [r EXCEPT !.results = r.results + 1, !.roles = r.roles + 1, !.group = y,
                    !.boundaryDue = IF x THEN "results" ELSE "none", !.last = "tool_result_committed"]
  BY <1>t DEF Noted, Switch!Keeps, Switch!ResultCommitted, Switch!KeepsResult, Agree, CallsAgree
<1>3. Switch!Selects(r, Switch!ResultCommitted(i))
  <2>1. r.group /\ r.results = J.next /\ Switch!IsActive(r)
        /\ Switch!PhaseAdmits(r, "tool_result_committed")
    BY <1>t, <1>a, OpenGate DEF Agree, CallsAgree
  <2>2. /\ i \in DOMAIN J.calls /\ r.calls[i].kind = J.calls[i].kind /\ r.calls[i].perm = J.calls[i].perm
        /\ r.calls[i].effect = J.calls[i].effect /\ r.calls[i].direct = J.calls[i].direct
    <3>1. i \in DOMAIN J.calls
      BY <1>t, <1>a DEF Switch!Projection, Switch!Pending
    <3>2. QED
      BY <3>1 DEF Agree, CallsAgree
  <2>3. Switch!Run(r) = J.run /\ J.run > 0 /\ (Switch!Recovers(r) <=> J.cause = "recovery")
    BY <1>t, <1>a
    DEF Switch!Run, Switch!Recovers, Agree, RunsAgree, Switch!Active, Switch!Projection
  <2>4. J.calls[i].direct \in Nat /\ J.run \in Nat
    <3>1. J.calls[i] \in Switch!Call
      BY <1>t, <2>2, ElementOfSeq DEF Switch!Projection
    <3>2. QED
      BY <1>t, <3>1 DEF Switch!Call, Switch!Projection
  <2>5. Switch!SelectsResult(r, i)
    BY <1>a, <2>1, <2>2, <2>3, <2>4 DEF Switch!SelectsResult, Switch!AdmitsResult, Switch!NoEffect
  <2>6. QED
    BY <2>1, <2>5 DEF Switch!Selects, Switch!ResultCommitted
<1>x. /\ J.next + 1 \in Nat /\ r.results + 1 \in Nat /\ x \in BOOLEAN /\ y \in BOOLEAN /\ (y <=> ~ x)
      /\ Len(J.calls) \in Nat /\ J.next + 1 <= Len(J.calls) /\ r.results = J.next
  <2>1. J.next \in Nat /\ Len(J.calls) \in Nat /\ r.results = J.next
    BY <1>t DEF Switch!Projection, Agree, CallsAgree
  <2>2. QED
    BY <1>a, <2>1 DEF Switch!Pending
<1> HIDE DEF K, s, x, y
<1>4. K \in Switch!Projection
  BY <1>t, <1>n, <1>1, <1>x, GateNames DEF Switch!Projection, Switch!Statuses, Switch!Causes
<1>5. s \in Selections
  BY <1>t, <1>n, <1>2, <1>x DEF Selections, Switch!Statuses, Switch!Causes, Switch!EventTypes
<1>6. RunsAgree(K, s)
  BY <1>t, <1>a, <1>1, <1>2, <1>x
  DEF Agree, RunsAgree, Switch!Projection, Selections, Switch!Active, Switch!Pending
<1>7. CallsAgree(K, s)
  <2>1. /\ K.calls = J.calls /\ K.next = J.next + 1
        /\ s.calls = r.calls /\ s.results = r.results + 1
        /\ s.group = y
    BY <1>t, <1>1, <1>2, <1>x DEF Switch!Projection, Selections
  <2>2. QED
    BY <1>x, <2>1 DEF CallsAgree, Switch!Pending, Agree, y
<1>8. GatesAgree(K, s)
  BY <1>t, <1>a, <1>1, <1>2, <1>x
  DEF Agree, GatesAgree, Switch!Projection, Selections, Switch!Active, Switch!Pending
<1>9. AttemptsAgree(K, s)
  BY <1>t, <1>a, <1>1, <1>2, <1>x
  DEF Agree, AttemptsAgree, Switch!Projection, Selections, Switch!Active, Switch!Pending
<1>10. BoundariesAgree(K, s)
  BY <1>t, <1>a, <1>1, <1>2, <1>x
  DEF Agree, BoundariesAgree, Switch!Projection, Selections, Switch!Active, Switch!Pending
<1>11. SnapshotsAgree(K, s)
  BY <1>t, <1>a, <1>1, <1>2, <1>x
  DEF Agree, SnapshotsAgree, Switch!Projection, Selections, Switch!Active, Switch!Pending
<1>12. QED
  BY <1>3, <1>4, <1>5, <1>6, <1>7, <1>8, <1>9, <1>10, <1>11 DEF Agree, K, s

\* What the two have of one call.
LEMMA CallFields ==
  ASSUME NEW J, NEW r, Agree(J, r), NEW i \in DOMAIN J.calls
  PROVE  /\ J.calls \in Seq(Switch!Call) /\ r.calls \in Seq(Switch!Call)
         /\ DOMAIN r.calls = DOMAIN J.calls
         /\ J.calls[i] \in Switch!Call /\ r.calls[i] \in Switch!Call
         /\ r.calls[i].kind = J.calls[i].kind /\ r.calls[i].perm = J.calls[i].perm
         /\ r.calls[i].effect = J.calls[i].effect /\ r.calls[i].effectRun = J.calls[i].effectRun
         /\ r.calls[i].output = J.calls[i].output /\ r.calls[i].direct = J.calls[i].direct
<1>1. J.calls \in Seq(Switch!Call) /\ r.calls \in Seq(Switch!Call) /\ Len(r.calls) = Len(J.calls)
  BY DEF Agree, Switch!Projection, Selections, CallsAgree
<1>2. /\ DOMAIN J.calls = 1..Len(J.calls) /\ DOMAIN r.calls = 1..Len(r.calls)
  BY <1>1
<1>3. J.calls[i] \in Switch!Call /\ r.calls[i] \in Switch!Call
  BY <1>1, <1>2, ElementOfSeq
<1>4. QED
  BY <1>1, <1>2, <1>3 DEF Agree, CallsAgree

\* An active run is counted by both.
LEMMA RunFields ==
  ASSUME NEW J, NEW r, Agree(J, r), Switch!Active(J)
  PROVE  /\ J.run \in Nat /\ Switch!Run(r) = J.run /\ Switch!IsActive(r) /\ r.results = J.next
         /\ (Switch!Recovers(r) <=> J.cause = "recovery")
<1>1. J.run \in Nat /\ J.run > 0
  BY DEF Agree, Switch!Projection, RunsAgree, Switch!Active
<1>2. QED
  BY <1>1
  DEF Agree, RunsAgree, CallsAgree, Switch!Run, Switch!Recovers, Switch!IsActive, Switch!Active

\* One call of the last answer changes for both, in what they both keep of it.
LEMMA CallAgrees ==
  ASSUME NEW J, NEW r, Agree(J, r), NEW i \in DOMAIN J.calls, NEW c \in Switch!Call,
         NEW d \in Switch!Call,
         d.kind = c.kind, d.perm = c.perm, d.effect = c.effect, d.effectRun = c.effectRun,
         d.output = c.output, d.direct = c.direct,
         NEW K, NEW s, NEW type \in Switch!EventTypes \ {"commit_boundary_created"},
         K = [J EXCEPT !.calls = [J.calls EXCEPT ![i] = c], !.fresh = FALSE],
         s = [r EXCEPT !.calls = [r.calls EXCEPT ![i] = d], !.last = type]
  PROVE  Agree(K, s)
<1> DEFINE x == [J.calls EXCEPT ![i] = c]
           y == [r.calls EXCEPT ![i] = d]
<1>t. J \in Switch!Projection /\ r \in Selections
  BY DEF Agree
<1>x. /\ x \in Seq(Switch!Call) /\ y \in Seq(Switch!Call)
      /\ Len(x) = Len(J.calls) /\ Len(y) = Len(r.calls)
      /\ DOMAIN x = DOMAIN J.calls
      /\ x[i] = c /\ y[i] = d
      /\ \A k \in DOMAIN J.calls : k # i => x[k] = J.calls[k] /\ y[k] = r.calls[k]
  <2>1. J.calls \in Seq(Switch!Call) /\ r.calls \in Seq(Switch!Call) /\ DOMAIN r.calls = DOMAIN J.calls
    BY CallFields
  <2>2. QED
    BY <2>1, ExceptSeq
<1>1. K = [J EXCEPT !.calls = x, !.fresh = FALSE]
  OBVIOUS
<1>2. s = [r EXCEPT !.calls = y, !.last = type]
  OBVIOUS
<1> HIDE DEF x, y
<1>4. K \in Switch!Projection
  BY <1>t, <1>1, <1>x DEF Switch!Projection
<1>5. s \in Selections
  BY <1>t, <1>2, <1>x DEF Selections
<1>6. RunsAgree(K, s)
  BY <1>t, <1>1, <1>2 DEF Agree, RunsAgree, Switch!Projection, Selections
<1>7. CallsAgree(K, s)
  <2>1. /\ K.calls = x /\ K.next = J.next /\ s.calls = y /\ s.results = r.results
        /\ s.group = r.group
    BY <1>t, <1>1, <1>2 DEF Switch!Projection, Selections
  <2>2. /\ Len(r.calls) = Len(J.calls) /\ r.results = J.next
        /\ J.next <= Len(J.calls) /\ r.group = Switch!Pending(J)
    BY DEF Agree, CallsAgree
  <2>3. ASSUME NEW k \in DOMAIN x
        PROVE  /\ y[k].kind = x[k].kind /\ y[k].perm = x[k].perm
               /\ y[k].effect = x[k].effect /\ y[k].effectRun = x[k].effectRun
               /\ y[k].output = x[k].output /\ y[k].direct = x[k].direct
    <3>1. CASE k = i
      BY <3>1, <1>x
    <3>2. CASE k # i
      BY <3>2, <1>x, CallFields
    <3>3. QED
      BY <3>1, <3>2
  <2>4. QED
    BY <1>x, <2>1, <2>2, <2>3 DEF CallsAgree, Switch!Pending
<1>8. GatesAgree(K, s)
  BY <1>t, <1>1, <1>2 DEF Agree, GatesAgree, Switch!Projection, Selections, Switch!Active
<1>9. AttemptsAgree(K, s)
  BY <1>t, <1>1, <1>2 DEF Agree, AttemptsAgree, Switch!Projection, Selections, Switch!Active
<1>10. BoundariesAgree(K, s)
  BY <1>t, <1>1, <1>2 DEF Agree, BoundariesAgree, Switch!Projection, Selections
<1>11. SnapshotsAgree(K, s)
  BY <1>t, <1>1, <1>2 DEF Agree, SnapshotsAgree, Switch!Projection, Selections
<1>12. QED
  BY <1>4, <1>5, <1>6, <1>7, <1>8, <1>9, <1>10, <1>11 DEF Agree

\* A decision.
LEMMA PermissionAgrees ==
  ASSUME NEW J, NEW r, Agree(J, r), NEW i, NEW p \in {"allow", "deny"},
         Switch!Admits(J, Switch!PermissionDecided(i, p))
  PROVE  /\ Switch!Selects(r, Switch!PermissionDecided(i, p))
         /\ Agree(Switch!After(J, Switch!PermissionDecided(i, p)), Noted(r, Switch!PermissionDecided(i, p)))
<1> DEFINE K == Switch!After(J, Switch!PermissionDecided(i, p))
           s == Noted(r, Switch!PermissionDecided(i, p))
           c == [J.calls[i] EXCEPT !.perm = p, !.permRun = J.run]
           d == [r.calls[i] EXCEPT !.perm = p]
<1>t. J \in Switch!Projection /\ r \in Selections
  BY DEF Agree
<1>a. /\ Switch!Active(J) /\ J.gate = "open" /\ i \in DOMAIN J.calls
      /\ Switch!Unresolved(J, i) /\ J.calls[i].perm = "none"
  BY <1>t, GateOfEvent
  DEF Switch!Admits, Switch!PermissionDecided, Switch!Unresolved, Switch!AdmitsPrepare,
      Switch!AdmitsOutput, Switch!Effects
<1>b. /\ J.calls \in Seq(Switch!Call) /\ r.calls \in Seq(Switch!Call) /\ i \in DOMAIN r.calls
      /\ J.calls[i] \in Switch!Call /\ r.calls[i] \in Switch!Call
      /\ r.calls[i].kind = J.calls[i].kind /\ r.calls[i].perm = J.calls[i].perm
      /\ r.calls[i].effect = J.calls[i].effect /\ r.calls[i].effectRun = J.calls[i].effectRun
      /\ r.calls[i].output = J.calls[i].output /\ r.calls[i].direct = J.calls[i].direct
  BY <1>a, CallFields
<1>r. /\ J.run \in Nat /\ Switch!Run(r) = J.run /\ Switch!IsActive(r) /\ r.results = J.next
      /\ (Switch!Recovers(r) <=> J.cause = "recovery")
  BY <1>a, RunFields
<1>1. K = [J EXCEPT !.calls = [J.calls EXCEPT ![i] = c], !.fresh = FALSE]
  BY <1>t, <1>a, <1>b DEF Switch!After, Switch!Adds, Switch!PermissionDecided
<1>2. s = [r EXCEPT !.calls = [r.calls EXCEPT ![i] = d], !.last = "permission_decided"]
  BY <1>t, <1>b, <1>r DEF Noted, Switch!Keeps, Switch!PermissionDecided
<1>3. Switch!Selects(r, Switch!PermissionDecided(i, p))
  <2>1. Switch!PhaseAdmits(r, "permission_decided")
    BY <1>a, OpenGate
  <2>2. Switch!Bindable(r, i) /\ r.calls[i].perm = "none"
    BY <1>a, <1>b, <1>r DEF Switch!Bindable, Switch!Unresolved
  <2>3. QED
    BY <1>r, <2>1, <2>2 DEF Switch!Selects, Switch!PermissionDecided
<1>4. /\ c \in Switch!Call /\ d \in Switch!Call
      /\ d.kind = c.kind /\ d.perm = c.perm /\ d.effect = c.effect /\ d.effectRun = c.effectRun
      /\ d.output = c.output /\ d.direct = c.direct
  BY <1>a, <1>b, <1>r DEF Switch!Call, Switch!Effects
<1>5. "permission_decided" \in Switch!EventTypes \ {"commit_boundary_created"}
  BY DEF Switch!EventTypes
<1> HIDE DEF K, s, c, d
<1>6. Agree(K, s)
  BY <1>a, <1>1, <1>2, <1>4, <1>5, CallAgrees
<1>7. QED
  BY <1>3, <1>6 DEF K, s

\* An effect is prepared.
LEMMA PrepareAgrees ==
  ASSUME NEW J, NEW r, Agree(J, r), NEW i,
         Switch!Admits(J, Switch!EffectPrepared(i))
  PROVE  /\ Switch!Selects(r, Switch!EffectPrepared(i))
         /\ Agree(Switch!After(J, Switch!EffectPrepared(i)), Noted(r, Switch!EffectPrepared(i)))
<1> DEFINE K == Switch!After(J, Switch!EffectPrepared(i))
           s == Noted(r, Switch!EffectPrepared(i))
           c == [J.calls[i] EXCEPT !.effect = "prepared", !.effectRun = J.run]
           d == [r.calls[i] EXCEPT !.effect = "prepared", !.effectRun = J.run]
<1>t. J \in Switch!Projection /\ r \in Selections
  BY DEF Agree
<1>a. /\ Switch!Active(J) /\ J.gate = "open" /\ i \in DOMAIN J.calls
      /\ Switch!AdmitsPrepare(J, i)
  BY <1>t, GateOfEvent
  DEF Switch!Admits, Switch!EffectPrepared, Switch!Unresolved, Switch!AdmitsPrepare,
      Switch!AdmitsOutput, Switch!Effects
<1>b. /\ J.calls \in Seq(Switch!Call) /\ r.calls \in Seq(Switch!Call) /\ i \in DOMAIN r.calls
      /\ J.calls[i] \in Switch!Call /\ r.calls[i] \in Switch!Call
      /\ r.calls[i].kind = J.calls[i].kind /\ r.calls[i].perm = J.calls[i].perm
      /\ r.calls[i].effect = J.calls[i].effect /\ r.calls[i].effectRun = J.calls[i].effectRun
      /\ r.calls[i].output = J.calls[i].output /\ r.calls[i].direct = J.calls[i].direct
  BY <1>a, CallFields
<1>r. /\ J.run \in Nat /\ Switch!Run(r) = J.run /\ Switch!IsActive(r) /\ r.results = J.next
      /\ (Switch!Recovers(r) <=> J.cause = "recovery")
  BY <1>a, RunFields
<1>1. K = [J EXCEPT !.calls = [J.calls EXCEPT ![i] = c], !.fresh = FALSE]
  BY <1>t, <1>a, <1>b DEF Switch!After, Switch!Adds, Switch!EffectPrepared
<1>2. s = [r EXCEPT !.calls = [r.calls EXCEPT ![i] = d], !.last = "effect_prepared"]
  BY <1>t, <1>b, <1>r DEF Noted, Switch!Keeps, Switch!EffectPrepared
<1>3. Switch!Selects(r, Switch!EffectPrepared(i))
  <2>1. Switch!PhaseAdmits(r, "effect_prepared")
    BY <1>a, OpenGate
  <2>2. Switch!SelectsPrepare(r, i)
    BY <1>a, <1>b, <1>r
    DEF Switch!Bindable, Switch!Unresolved, Switch!SelectsPrepare, Switch!AdmitsPrepare,
        Switch!HasEffect
  <2>3. QED
    BY <1>r, <2>1, <2>2 DEF Switch!Selects, Switch!EffectPrepared
<1>4. /\ c \in Switch!Call /\ d \in Switch!Call
      /\ d.kind = c.kind /\ d.perm = c.perm /\ d.effect = c.effect /\ d.effectRun = c.effectRun
      /\ d.output = c.output /\ d.direct = c.direct
  BY <1>a, <1>b, <1>r DEF Switch!Call, Switch!Effects
<1>5. "effect_prepared" \in Switch!EventTypes \ {"commit_boundary_created"}
  BY DEF Switch!EventTypes
<1> HIDE DEF K, s, c, d
<1>6. Agree(K, s)
  BY <1>a, <1>1, <1>2, <1>4, <1>5, CallAgrees
<1>7. QED
  BY <1>3, <1>6 DEF K, s

\* The output of an effect.
LEMMA OutputAgrees ==
  ASSUME NEW J, NEW r, Agree(J, r), NEW i,
         Switch!Admits(J, Switch!OutputPublished(i))
  PROVE  /\ Switch!Selects(r, Switch!OutputPublished(i))
         /\ Agree(Switch!After(J, Switch!OutputPublished(i)), Noted(r, Switch!OutputPublished(i)))
<1> DEFINE K == Switch!After(J, Switch!OutputPublished(i))
           s == Noted(r, Switch!OutputPublished(i))
           c == [J.calls[i] EXCEPT !.output = J.run]
           d == [r.calls[i] EXCEPT !.output = J.run]
<1>t. J \in Switch!Projection /\ r \in Selections
  BY DEF Agree
<1>a. /\ Switch!Active(J) /\ J.gate = "open" /\ i \in DOMAIN J.calls
      /\ Switch!AdmitsOutput(J, i)
  BY <1>t, GateOfEvent
  DEF Switch!Admits, Switch!OutputPublished, Switch!Unresolved, Switch!AdmitsPrepare,
      Switch!AdmitsOutput, Switch!Effects
<1>b. /\ J.calls \in Seq(Switch!Call) /\ r.calls \in Seq(Switch!Call) /\ i \in DOMAIN r.calls
      /\ J.calls[i] \in Switch!Call /\ r.calls[i] \in Switch!Call
      /\ r.calls[i].kind = J.calls[i].kind /\ r.calls[i].perm = J.calls[i].perm
      /\ r.calls[i].effect = J.calls[i].effect /\ r.calls[i].effectRun = J.calls[i].effectRun
      /\ r.calls[i].output = J.calls[i].output /\ r.calls[i].direct = J.calls[i].direct
  BY <1>a, CallFields
<1>r. /\ J.run \in Nat /\ Switch!Run(r) = J.run /\ Switch!IsActive(r) /\ r.results = J.next
      /\ (Switch!Recovers(r) <=> J.cause = "recovery")
  BY <1>a, RunFields
<1>1. K = [J EXCEPT !.calls = [J.calls EXCEPT ![i] = c], !.fresh = FALSE]
  BY <1>t, <1>a, <1>b DEF Switch!After, Switch!Adds, Switch!OutputPublished
<1>2. s = [r EXCEPT !.calls = [r.calls EXCEPT ![i] = d], !.last = "output_published"]
  BY <1>t, <1>b, <1>r DEF Noted, Switch!Keeps, Switch!OutputPublished
<1>3. Switch!Selects(r, Switch!OutputPublished(i))
  <2>1. Switch!PhaseAdmits(r, "output_published")
    BY <1>a, OpenGate
  <2>2. Switch!SelectsOutput(r, i)
    BY <1>a, <1>b, <1>r
    DEF Switch!Bindable, Switch!Unresolved, Switch!SelectsOutput, Switch!AdmitsOutput
  <2>3. QED
    BY <1>r, <2>1, <2>2 DEF Switch!Selects, Switch!OutputPublished
<1>4. /\ c \in Switch!Call /\ d \in Switch!Call
      /\ d.kind = c.kind /\ d.perm = c.perm /\ d.effect = c.effect /\ d.effectRun = c.effectRun
      /\ d.output = c.output /\ d.direct = c.direct
  BY <1>a, <1>b, <1>r DEF Switch!Call, Switch!Effects
<1>5. "output_published" \in Switch!EventTypes \ {"commit_boundary_created"}
  BY DEF Switch!EventTypes
<1> HIDE DEF K, s, c, d
<1>6. Agree(K, s)
  BY <1>a, <1>1, <1>2, <1>4, <1>5, CallAgrees
<1>7. QED
  BY <1>3, <1>6 DEF K, s

\* An artifact that ends its call.
LEMMA DirectAgrees ==
  ASSUME NEW J, NEW r, Agree(J, r), NEW i,
         Switch!Admits(J, Switch!ResultPublished(i))
  PROVE  /\ Switch!Selects(r, Switch!ResultPublished(i))
         /\ Agree(Switch!After(J, Switch!ResultPublished(i)), Noted(r, Switch!ResultPublished(i)))
<1> DEFINE K == Switch!After(J, Switch!ResultPublished(i))
           s == Noted(r, Switch!ResultPublished(i))
           c == [J.calls[i] EXCEPT !.direct = J.run]
           d == [r.calls[i] EXCEPT !.direct = J.run]
<1>t. J \in Switch!Projection /\ r \in Selections
  BY DEF Agree
<1>a. /\ Switch!Active(J) /\ J.gate = "open" /\ i \in DOMAIN J.calls
      /\ Switch!Unresolved(J, i) /\ J.calls[i].perm = "allow" /\ Switch!NoEffect(J.calls[i])
  BY <1>t, GateOfEvent
  DEF Switch!Admits, Switch!ResultPublished, Switch!Unresolved, Switch!AdmitsPrepare,
      Switch!AdmitsOutput, Switch!Effects
<1>b. /\ J.calls \in Seq(Switch!Call) /\ r.calls \in Seq(Switch!Call) /\ i \in DOMAIN r.calls
      /\ J.calls[i] \in Switch!Call /\ r.calls[i] \in Switch!Call
      /\ r.calls[i].kind = J.calls[i].kind /\ r.calls[i].perm = J.calls[i].perm
      /\ r.calls[i].effect = J.calls[i].effect /\ r.calls[i].effectRun = J.calls[i].effectRun
      /\ r.calls[i].output = J.calls[i].output /\ r.calls[i].direct = J.calls[i].direct
  BY <1>a, CallFields
<1>r. /\ J.run \in Nat /\ Switch!Run(r) = J.run /\ Switch!IsActive(r) /\ r.results = J.next
      /\ (Switch!Recovers(r) <=> J.cause = "recovery")
  BY <1>a, RunFields
<1>1. K = [J EXCEPT !.calls = [J.calls EXCEPT ![i] = c], !.fresh = FALSE]
  BY <1>t, <1>a, <1>b DEF Switch!After, Switch!Adds, Switch!ResultPublished
<1>2. s = [r EXCEPT !.calls = [r.calls EXCEPT ![i] = d], !.last = "result_published"]
  BY <1>t, <1>b, <1>r DEF Noted, Switch!Keeps, Switch!ResultPublished
<1>3. Switch!Selects(r, Switch!ResultPublished(i))
  <2>1. Switch!PhaseAdmits(r, "result_published")
    BY <1>a, OpenGate
  <2>2. Switch!SelectsDirect(r, i)
    BY <1>a, <1>b, <1>r
    DEF Switch!Bindable, Switch!Unresolved, Switch!SelectsDirect, Switch!NoEffect
  <2>3. QED
    BY <1>r, <2>1, <2>2 DEF Switch!Selects, Switch!ResultPublished
<1>4. /\ c \in Switch!Call /\ d \in Switch!Call
      /\ d.kind = c.kind /\ d.perm = c.perm /\ d.effect = c.effect /\ d.effectRun = c.effectRun
      /\ d.output = c.output /\ d.direct = c.direct
  BY <1>a, <1>b, <1>r DEF Switch!Call, Switch!Effects
<1>5. "result_published" \in Switch!EventTypes \ {"commit_boundary_created"}
  BY DEF Switch!EventTypes
<1> HIDE DEF K, s, c, d
<1>6. Agree(K, s)
  BY <1>a, <1>1, <1>2, <1>4, <1>5, CallAgrees
<1>7. QED
  BY <1>3, <1>6 DEF K, s

\* An effect is done.
LEMMA CompletionAgrees ==
  ASSUME NEW J, NEW r, Agree(J, r), NEW i \in DOMAIN J.calls,
         Switch!Admits(J, Switch!EffectCompleted(i))
  PROVE  /\ Switch!Selects(r, Switch!EffectCompleted(i))
         /\ Agree(Switch!After(J, Switch!EffectCompleted(i)), Noted(r, Switch!EffectCompleted(i)))
<1> DEFINE K == Switch!After(J, Switch!EffectCompleted(i))
           s == Noted(r, Switch!EffectCompleted(i))
           c == [J.calls[i] EXCEPT !.effect = "completed"]
           d == [r.calls[i] EXCEPT !.effect = "completed"]
<1>t. J \in Switch!Projection /\ r \in Selections
  BY DEF Agree
<1>a. /\ Switch!Active(J) /\ J.gate = "open" /\ i \in DOMAIN J.calls
      /\ J.calls[i].effect = "prepared" /\ J.calls[i].effectRun = J.run /\ J.calls[i].output = J.run
  BY <1>t, GateOfEvent
  DEF Switch!Admits, Switch!EffectCompleted, Switch!Unresolved, Switch!AdmitsPrepare,
      Switch!AdmitsOutput, Switch!Effects
<1>b. /\ J.calls \in Seq(Switch!Call) /\ r.calls \in Seq(Switch!Call) /\ i \in DOMAIN r.calls
      /\ J.calls[i] \in Switch!Call /\ r.calls[i] \in Switch!Call
      /\ r.calls[i].kind = J.calls[i].kind /\ r.calls[i].perm = J.calls[i].perm
      /\ r.calls[i].effect = J.calls[i].effect /\ r.calls[i].effectRun = J.calls[i].effectRun
      /\ r.calls[i].output = J.calls[i].output /\ r.calls[i].direct = J.calls[i].direct
  BY <1>a, CallFields
<1>r. /\ J.run \in Nat /\ Switch!Run(r) = J.run /\ Switch!IsActive(r) /\ r.results = J.next
      /\ (Switch!Recovers(r) <=> J.cause = "recovery")
  BY <1>a, RunFields
<1>1. K = [J EXCEPT !.calls = [J.calls EXCEPT ![i] = c], !.fresh = FALSE]
  BY <1>t, <1>a, <1>b DEF Switch!After, Switch!Adds, Switch!EffectCompleted
<1>2. s = [r EXCEPT !.calls = [r.calls EXCEPT ![i] = d], !.last = "effect_completed"]
  BY <1>t, <1>b, <1>r DEF Noted, Switch!Keeps, Switch!EffectCompleted
<1>3. Switch!Selects(r, Switch!EffectCompleted(i))
  <2>1. Switch!PhaseAdmits(r, "effect_completed")
    BY <1>a, OpenGate
  <2>2. Switch!SelectsCompletion(r, i)
    BY <1>a, <1>b, <1>r DEF Switch!Bindable, Switch!Unresolved, Switch!SelectsCompletion
  <2>3. QED
    BY <1>r, <2>1, <2>2 DEF Switch!Selects, Switch!EffectCompleted
<1>4. /\ c \in Switch!Call /\ d \in Switch!Call
      /\ d.kind = c.kind /\ d.perm = c.perm /\ d.effect = c.effect /\ d.effectRun = c.effectRun
      /\ d.output = c.output /\ d.direct = c.direct
  BY <1>a, <1>b, <1>r DEF Switch!Call, Switch!Effects
<1>5. "effect_completed" \in Switch!EventTypes \ {"commit_boundary_created"}
  BY DEF Switch!EventTypes
<1> HIDE DEF K, s, c, d
<1>6. Agree(K, s)
  BY <1>a, <1>1, <1>2, <1>4, <1>5, CallAgrees
<1>7. QED
  BY <1>3, <1>6 DEF K, s

\* An effect may have happened.
LEMMA IndeterminateAgrees ==
  ASSUME NEW J, NEW r, Agree(J, r), NEW i \in DOMAIN J.calls,
         Switch!Admits(J, Switch!EffectIndeterminate(i))
  PROVE  /\ Switch!Selects(r, Switch!EffectIndeterminate(i))
         /\ Agree(Switch!After(J, Switch!EffectIndeterminate(i)), Noted(r, Switch!EffectIndeterminate(i)))
<1> DEFINE K == Switch!After(J, Switch!EffectIndeterminate(i))
           s == Noted(r, Switch!EffectIndeterminate(i))
           c == [J.calls[i] EXCEPT !.effect = "indeterminate"]
           d == [r.calls[i] EXCEPT !.effect = "indeterminate"]
<1>t. J \in Switch!Projection /\ r \in Selections
  BY DEF Agree
<1>a. /\ Switch!Active(J) /\ J.gate = "open" /\ i \in DOMAIN J.calls
      /\ J.calls[i].effect = "prepared"
  BY <1>t, GateOfEvent
  DEF Switch!Admits, Switch!EffectIndeterminate, Switch!Unresolved, Switch!AdmitsPrepare,
      Switch!AdmitsOutput, Switch!Effects
<1>b. /\ J.calls \in Seq(Switch!Call) /\ r.calls \in Seq(Switch!Call) /\ i \in DOMAIN r.calls
      /\ J.calls[i] \in Switch!Call /\ r.calls[i] \in Switch!Call
      /\ r.calls[i].kind = J.calls[i].kind /\ r.calls[i].perm = J.calls[i].perm
      /\ r.calls[i].effect = J.calls[i].effect /\ r.calls[i].effectRun = J.calls[i].effectRun
      /\ r.calls[i].output = J.calls[i].output /\ r.calls[i].direct = J.calls[i].direct
  BY <1>a, CallFields
<1>r. /\ J.run \in Nat /\ Switch!Run(r) = J.run /\ Switch!IsActive(r) /\ r.results = J.next
      /\ (Switch!Recovers(r) <=> J.cause = "recovery")
  BY <1>a, RunFields
<1>1. K = [J EXCEPT !.calls = [J.calls EXCEPT ![i] = c], !.fresh = FALSE]
  BY <1>t, <1>a, <1>b DEF Switch!After, Switch!Adds, Switch!EffectIndeterminate
<1>2. s = [r EXCEPT !.calls = [r.calls EXCEPT ![i] = d], !.last = "effect_indeterminate"]
  BY <1>t, <1>b, <1>r DEF Noted, Switch!Keeps, Switch!EffectIndeterminate
<1>3. Switch!Selects(r, Switch!EffectIndeterminate(i))
  <2>1. Switch!PhaseAdmits(r, "effect_indeterminate")
    BY <1>a, OpenGate
  <2>2. r.calls[i].effect = "prepared"
    BY <1>a, <1>b, <1>r DEF Switch!Bindable, Switch!Unresolved
  <2>3. QED
    BY <1>r, <2>1, <2>2 DEF Switch!Selects, Switch!EffectIndeterminate
<1>4. /\ c \in Switch!Call /\ d \in Switch!Call
      /\ d.kind = c.kind /\ d.perm = c.perm /\ d.effect = c.effect /\ d.effectRun = c.effectRun
      /\ d.output = c.output /\ d.direct = c.direct
  BY <1>a, <1>b, <1>r DEF Switch!Call, Switch!Effects
<1>5. "effect_indeterminate" \in Switch!EventTypes \ {"commit_boundary_created"}
  BY DEF Switch!EventTypes
<1> HIDE DEF K, s, c, d
<1>6. Agree(K, s)
  BY <1>a, <1>1, <1>2, <1>4, <1>5, CallAgrees
<1>7. QED
  BY <1>3, <1>6 DEF K, s

\* The operator says what became of an effect.
LEMMA ReconciledAgrees ==
  ASSUME NEW J, NEW r, Agree(J, r),
         NEW i \in DOMAIN J.calls,
         NEW p \in {"reconciled_completed", "reconciled_denied", "reconciled_not_executed"},
         Switch!Admits(J, Switch!EffectReconciled(i, p))
  PROVE  /\ Switch!Selects(r, Switch!EffectReconciled(i, p))
         /\ Agree(Switch!After(J, Switch!EffectReconciled(i, p)), Noted(r, Switch!EffectReconciled(i, p)))
<1> DEFINE K == Switch!After(J, Switch!EffectReconciled(i, p))
           s == Noted(r, Switch!EffectReconciled(i, p))
           c == [J.calls[i] EXCEPT !.effect = p]
           d == [r.calls[i] EXCEPT !.effect = p]
<1>t. J \in Switch!Projection /\ r \in Selections
  BY DEF Agree
<1>a. /\ Switch!Active(J) /\ J.gate = "open" /\ i \in DOMAIN J.calls
      /\ J.calls[i].effect = "indeterminate" /\ J.cause = "recovery"
      /\ p = "reconciled_completed" => J.calls[i].output = J.run
  BY <1>t, GateOfEvent
  DEF Switch!Admits, Switch!EffectReconciled, Switch!Unresolved, Switch!AdmitsPrepare,
      Switch!AdmitsOutput, Switch!Effects
<1>b. /\ J.calls \in Seq(Switch!Call) /\ r.calls \in Seq(Switch!Call) /\ i \in DOMAIN r.calls
      /\ J.calls[i] \in Switch!Call /\ r.calls[i] \in Switch!Call
      /\ r.calls[i].kind = J.calls[i].kind /\ r.calls[i].perm = J.calls[i].perm
      /\ r.calls[i].effect = J.calls[i].effect /\ r.calls[i].effectRun = J.calls[i].effectRun
      /\ r.calls[i].output = J.calls[i].output /\ r.calls[i].direct = J.calls[i].direct
  BY <1>a, CallFields
<1>r. /\ J.run \in Nat /\ Switch!Run(r) = J.run /\ Switch!IsActive(r) /\ r.results = J.next
      /\ (Switch!Recovers(r) <=> J.cause = "recovery")
  BY <1>a, RunFields
<1>1. K = [J EXCEPT !.calls = [J.calls EXCEPT ![i] = c], !.fresh = FALSE]
  BY <1>t, <1>a, <1>b DEF Switch!After, Switch!Adds, Switch!EffectReconciled
<1>2. s = [r EXCEPT !.calls = [r.calls EXCEPT ![i] = d], !.last = "effect_reconciled"]
  BY <1>t, <1>b, <1>r DEF Noted, Switch!Keeps, Switch!EffectReconciled
<1>3. Switch!Selects(r, Switch!EffectReconciled(i, p))
  <2>1. Switch!PhaseAdmits(r, "effect_reconciled")
    BY <1>a, OpenGate
  <2>2. Switch!SelectsReconciliation(r, i, p)
    BY <1>a, <1>b, <1>r DEF Switch!Bindable, Switch!Unresolved, Switch!SelectsReconciliation
  <2>3. QED
    BY <1>r, <2>1, <2>2 DEF Switch!Selects, Switch!EffectReconciled
<1>4. /\ c \in Switch!Call /\ d \in Switch!Call
      /\ d.kind = c.kind /\ d.perm = c.perm /\ d.effect = c.effect /\ d.effectRun = c.effectRun
      /\ d.output = c.output /\ d.direct = c.direct
  BY <1>a, <1>b, <1>r DEF Switch!Call, Switch!Effects
<1>5. "effect_reconciled" \in Switch!EventTypes \ {"commit_boundary_created"}
  BY DEF Switch!EventTypes
<1> HIDE DEF K, s, c, d
<1>6. Agree(K, s)
  BY <1>a, <1>1, <1>2, <1>4, <1>5, CallAgrees
<1>7. QED
  BY <1>3, <1>6 DEF K, s

\* Whatever a command appends.
LEMMA EventAgrees ==
  ASSUME NEW J, NEW r, Agree(J, r), NEW e \in Switch!KernelEvents(J), Switch!Admits(J, e),
         e.type = "effect_reconciled" => e.call \in DOMAIN J.calls
  PROVE  Switch!Selects(r, e) /\ Agree(Switch!After(J, e), Noted(r, e))
<1> DEFINE G == Switch!Selects(r, e) /\ Agree(Switch!After(J, e), Noted(r, e))
<1>1. CASE \E cause \in Switch!Causes : e = Switch!RunStarted(cause)
  BY <1>1, RunAgrees
<1>2. CASE e \in {Switch!UserCommitted, Switch!BoundaryCreated, Switch!AttemptStarted, Switch!SemanticStarted,
                  Switch!CheckpointCreated, Switch!RunCompleted, Switch!RunInterrupted(J.run)}
  BY <1>2, UserAgrees, BoundaryAgrees, AttemptAgrees, SemanticAgrees, CheckpointAgrees,
     CompleteAgrees, InterruptAgrees
<1>3. CASE \E m \in {"fresh", "alias"} : e = Switch!SnapshotStored(m)
  BY <1>3, SnapshotAgrees
<1>4. CASE \E f \in {"pre_semantic", "post_semantic"} : e = Switch!RequestInterrupted(f)
  BY <1>4, FailureAgrees
<1>5. CASE \E ks \in {<< >>} \cup {<<k>> : k \in Kinds} : e = Switch!AssistantCommitted(ks)
  <2>1. PICK ks \in {<< >>} \cup {<<k>> : k \in Kinds} : e = Switch!AssistantCommitted(ks)
    BY <1>5
  <2>2. ks \in Seq(Switch!AllKinds)
    <3>1. CASE ks = << >>
      BY <3>1
    <3>2. CASE \E k \in Kinds : ks = <<k>>
      <4>1. PICK k \in Switch!AllKinds : ks = <<k>>
        BY <3>2, CallsAssumption
      <4>2. QED
        BY <4>1
    <3>3. QED
      BY <2>1, <3>1, <3>2
  <2>3. QED
    BY <2>1, <2>2, AnswerAgrees
<1>6. CASE \E i \in 1..MaxCalls, p \in {"allow", "deny"} : e = Switch!PermissionDecided(i, p)
  BY <1>6, PermissionAgrees
<1>7. CASE \E i \in 1..MaxCalls : e \in {Switch!EffectPrepared(i), Switch!OutputPublished(i),
                                         Switch!ResultPublished(i), Switch!ResultCommitted(i)}
  BY <1>7, PrepareAgrees, OutputAgrees, DirectAgrees, ResultAgrees
<1>8. CASE \E i \in DOMAIN J.calls : e \in {Switch!EffectCompleted(i), Switch!EffectIndeterminate(i)}
  BY <1>8, CompletionAgrees, IndeterminateAgrees
<1>9. CASE \E i \in 1..MaxCalls,
              p \in {"reconciled_completed", "reconciled_denied", "reconciled_not_executed"} :
              e = Switch!EffectReconciled(i, p)
  <2>1. PICK i \in 1..MaxCalls,
             p \in {"reconciled_completed", "reconciled_denied", "reconciled_not_executed"} :
             e = Switch!EffectReconciled(i, p)
    BY <1>9
  <2>2. i \in DOMAIN J.calls
    BY <2>1 DEF Switch!EffectReconciled
  <2>3. QED
    BY <2>1, <2>2, ReconciledAgrees
<1>10. QED
  <2> HIDE DEF G
  <2>1. \/ \E cause \in Switch!Causes : e = Switch!RunStarted(cause)
        \/ e \in {Switch!UserCommitted, Switch!BoundaryCreated, Switch!AttemptStarted, Switch!SemanticStarted,
                  Switch!CheckpointCreated, Switch!RunCompleted, Switch!RunInterrupted(J.run)}
        \/ \E m \in {"fresh", "alias"} : e = Switch!SnapshotStored(m)
        \/ \E f \in {"pre_semantic", "post_semantic"} : e = Switch!RequestInterrupted(f)
        \/ \E ks \in {<< >>} \cup {<<k>> : k \in Kinds} : e = Switch!AssistantCommitted(ks)
        \/ \E i \in 1..MaxCalls, p \in {"allow", "deny"} : e = Switch!PermissionDecided(i, p)
        \/ \E i \in 1..MaxCalls : e \in {Switch!EffectPrepared(i), Switch!OutputPublished(i),
                                         Switch!ResultPublished(i), Switch!ResultCommitted(i)}
        \/ \E i \in DOMAIN J.calls : e \in {Switch!EffectCompleted(i), Switch!EffectIndeterminate(i)}
        \/ \E i \in 1..MaxCalls,
              p \in {"reconciled_completed", "reconciled_denied", "reconciled_not_executed"} :
              e = Switch!EffectReconciled(i, p)
    BY DEF Switch!KernelEvents
  <2>2. QED
    BY <2>1, <1>1, <1>2, <1>3, <1>4, <1>5, <1>6, <1>7, <1>8, <1>9 DEF G

\* A lineage that has just begun.
LEMMA NothingAgrees == Agree(Switch!EmptyJournal, Switch!NewRuns)
<1> DEFINE J == Switch!EmptyJournal
           r == Switch!NewRuns
<1>1. J \in Switch!Projection
  BY GateNames DEF Switch!EmptyJournal, Switch!Projection, Switch!Statuses, Switch!Causes
<1>2. r \in Selections
  BY DEF Switch!NewRuns, Selections, Switch!Statuses
<1>3. RunsAgree(J, r)
  BY DEF Switch!EmptyJournal, Switch!NewRuns, RunsAgree
<1>4. CallsAgree(J, r)
  <2>1. J.calls = << >> /\ r.calls = << >> /\ J.next = 0 /\ r.results = 0 /\ r.group = FALSE
    BY DEF Switch!EmptyJournal, Switch!NewRuns
  <2>2. Len(J.calls) = 0 /\ Len(r.calls) = 0 /\ DOMAIN J.calls = {}
    BY <2>1
  <2>3. Switch!Pending(J) = FALSE
    BY <2>1, <2>2 DEF Switch!Pending
  <2>4. \A i \in DOMAIN J.calls : FALSE
    BY <2>2
  <2> HIDE DEF J, r
  <2>5. QED
    <3>1. Len(r.calls) = Len(J.calls) /\ r.results = J.next /\ J.next <= Len(J.calls)
      BY <2>1, <2>2
    <3>2. r.group = Switch!Pending(J)
      BY <2>1, <2>3
    <3>3. QED
      BY <3>1, <3>2, <2>4 DEF CallsAgree
<1>5. GatesAgree(J, r) /\ AttemptsAgree(J, r)
  BY DEF Switch!EmptyJournal, Switch!NewRuns, GatesAgree, AttemptsAgree, Switch!Active
<1>6. BoundariesAgree(J, r) /\ SnapshotsAgree(J, r)
  BY DEF Switch!EmptyJournal, Switch!NewRuns, BoundariesAgree, SnapshotsAgree
<1>7. QED
  BY <1>1, <1>2, <1>3, <1>4, <1>5, <1>6 DEF Agree

\* An event of the frame is no event of a run; it only comes last.
LEMMA FrameAgrees ==
  ASSUME NEW J, NEW r, Agree(J, r), NEW type \in Switch!FrameTypes
  PROVE  Agree([J EXCEPT !.fresh = FALSE], [r EXCEPT !.last = type])
<1> DEFINE K == [J EXCEPT !.fresh = FALSE]
           s == [r EXCEPT !.last = type]
<1>t. J \in Switch!Projection /\ r \in Selections /\ type # "commit_boundary_created"
  BY DEF Agree, Switch!FrameTypes
<1>1. K = [J EXCEPT !.fresh = FALSE] /\ s = [r EXCEPT !.last = type]
  OBVIOUS
<1> HIDE DEF K, s
<1>2. K \in Switch!Projection /\ s \in Selections
  BY <1>t, <1>1 DEF Switch!Projection, Selections
<1>3. RunsAgree(K, s)
  BY <1>t, <1>1 DEF Agree, RunsAgree, Switch!Projection, Selections
<1>4. CallsAgree(K, s)
  <2>1. /\ K.calls = J.calls /\ K.next = J.next /\ s.calls = r.calls /\ s.results = r.results
        /\ s.group = r.group
    BY <1>t, <1>1 DEF Switch!Projection, Selections
  <2>2. QED
    BY <2>1 DEF Agree, CallsAgree, Switch!Pending
<1>5. GatesAgree(K, s)
  BY <1>t, <1>1 DEF Agree, GatesAgree, Switch!Projection, Selections, Switch!Active
<1>6. AttemptsAgree(K, s)
  BY <1>t, <1>1 DEF Agree, AttemptsAgree, Switch!Projection, Selections, Switch!Active
<1>7. BoundariesAgree(K, s)
  BY <1>t, <1>1 DEF Agree, BoundariesAgree, Switch!Projection, Selections
<1>8. SnapshotsAgree(K, s)
  BY <1>t, <1>1 DEF Agree, SnapshotsAgree, Switch!Projection, Selections
<1>9. QED
  BY <1>2, <1>3, <1>4, <1>5, <1>6, <1>7, <1>8 DEF Agree, K, s

\* Events about a call that is there.
OfCall(e) ==
  e.type \in {"permission_decided", "effect_prepared", "output_published", "result_published",
              "effect_completed", "effect_indeterminate", "effect_reconciled"}

\* What an event has by its type.
LEMMA EventShapes ==
  ASSUME NEW J, NEW e \in Switch!KernelEvents(J)
  PROVE  /\ e.type \in Switch!EventTypes \ {"journal_tail_recovered"}
         /\ e.type = "run_started" => e.cause \in Switch!Causes
         /\ e.type = "assistant_committed" => Len(e.kinds) <= 1
         /\ e.type \in {"effect_completed", "effect_indeterminate"} => e.call \in DOMAIN J.calls
<1>1. CASE e \in {Switch!RunStarted(c) : c \in Switch!Causes}
  BY <1>1 DEF Switch!RunStarted, Switch!EventTypes
<1>2. CASE e \in {Switch!UserCommitted, Switch!BoundaryCreated, Switch!AttemptStarted, Switch!SemanticStarted,
                  Switch!CheckpointCreated, Switch!RunCompleted, Switch!RunInterrupted(J.run)}
  BY <1>2
  DEF Switch!UserCommitted, Switch!BoundaryCreated, Switch!AttemptStarted, Switch!SemanticStarted,
              Switch!CheckpointCreated, Switch!RunCompleted, Switch!RunInterrupted, Switch!EventTypes
<1>3. CASE e \in {Switch!SnapshotStored(m) : m \in {"fresh", "alias"}}
  BY <1>3 DEF Switch!SnapshotStored, Switch!EventTypes
<1>4. CASE e \in {Switch!RequestInterrupted(f) : f \in {"pre_semantic", "post_semantic"}}
  BY <1>4 DEF Switch!RequestInterrupted, Switch!EventTypes
<1>5. CASE e \in {Switch!AssistantCommitted(ks) : ks \in {<< >>} \cup {<<k>> : k \in Kinds}}
  <2>1. PICK ks \in {<< >>} \cup {<<k>> : k \in Kinds} : e = Switch!AssistantCommitted(ks)
    BY <1>5
  <2>2. Len(ks) <= 1
    <3>1. CASE ks = << >>
      BY <3>1
    <3>2. CASE \E k \in Kinds : ks = <<k>>
      BY <3>2
    <3>3. QED
      BY <2>1, <3>1, <3>2
  <2>3. QED
    BY <2>1, <2>2 DEF Switch!AssistantCommitted, Switch!EventTypes
<1>6. CASE e \in {Switch!PermissionDecided(i, d) : i \in 1..MaxCalls, d \in {"allow", "deny"}}
  BY <1>6 DEF Switch!PermissionDecided, Switch!EventTypes
<1>7. CASE \E i \in 1..MaxCalls : e \in {Switch!EffectPrepared(i), Switch!OutputPublished(i),
                                         Switch!ResultPublished(i), Switch!ResultCommitted(i)}
  BY <1>7
  DEF Switch!EffectPrepared, Switch!OutputPublished, Switch!ResultPublished,
      Switch!ResultCommitted, Switch!EventTypes
<1>8. CASE \E i \in DOMAIN J.calls : e \in {Switch!EffectCompleted(i), Switch!EffectIndeterminate(i)}
  BY <1>8 DEF Switch!EffectCompleted, Switch!EffectIndeterminate, Switch!EventTypes
<1>9. CASE e \in {Switch!EffectReconciled(i, p) : i \in 1..MaxCalls,
                    p \in {"reconciled_completed", "reconciled_denied", "reconciled_not_executed"}}
  BY <1>9 DEF Switch!EffectReconciled, Switch!EventTypes
<1>10. QED
  BY <1>1, <1>2, <1>3, <1>4, <1>5, <1>6, <1>7, <1>8, <1>9 DEF Switch!KernelEvents

\* An event of a call finds it.
LEMMA CallIsThere ==
  ASSUME NEW J, NEW e \in Switch!KernelEvents(J), Switch!Admits(J, e), OfCall(e),
         e.type = "effect_reconciled" => e.call \in DOMAIN J.calls
  PROVE  e.call \in DOMAIN J.calls
BY EventShapes
DEF Switch!Admits, OfCall, Switch!Unresolved, Switch!AdmitsPrepare, Switch!AdmitsOutput

\* A run starts between runs; every other event is of the active run.
LEMMA RunsMove ==
  ASSUME NEW J \in Switch!Projection, NEW e \in Switch!KernelEvents(J), Switch!Admits(J, e)
  PROVE  /\ e.type = "run_started" =>
              /\ Switch!AdmitsRun(J, e.cause) /\ Switch!After(J, e).run = J.run + 1
              /\ Switch!After(J, e).cause = e.cause
              /\ Switch!After(J, e).status = "active" /\ Switch!After(J, e).gate = "open"
              /\ Switch!After(J, e).att = J.att /\ Switch!After(J, e).snap = J.snap
         /\ e.type # "run_started" => Switch!Active(J) /\ Switch!After(J, e).run = J.run
         /\ e.type \notin {"run_started", "run_completed", "run_interrupted"} =>
              Switch!After(J, e).status = J.status
         /\ Switch!After(J, e).fresh <=> e.type = "commit_boundary_created"
<1>1. e.type \in Switch!EventTypes \ {"journal_tail_recovered"}
  BY EventShapes
<1>2. Switch!Adds(J, e).run \in Nat => TRUE
  OBVIOUS
<1>3. CASE e.type = "run_started"
  BY <1>3 DEF Switch!Admits, Switch!After, Switch!Adds, Switch!Projection
<1>4. CASE e.type # "run_started"
  <2>1. Switch!Active(J)
    BY <1>1, <1>4 DEF Switch!Admits
  <2>2. Switch!After(J, e).run = J.run
    BY <1>1, <1>4
    DEF Switch!After, Switch!Adds, Switch!Projection, Switch!EventTypes, Switch!AfterBoundary,
        Switch!AfterAssistant,
       Switch!AfterResult, Switch!AfterFailure
  <2>3. e.type \notin {"run_completed", "run_interrupted"} => Switch!After(J, e).status = J.status
    BY <1>1, <1>4
    DEF Switch!After, Switch!Adds, Switch!Projection, Switch!EventTypes, Switch!AfterBoundary,
        Switch!AfterAssistant,
       Switch!AfterResult, Switch!AfterFailure
  <2>4. Switch!After(J, e).fresh <=> e.type = "commit_boundary_created"
    BY <1>1, <1>4
    DEF Switch!After, Switch!Adds, Switch!Projection, Switch!EventTypes, Switch!AfterBoundary,
        Switch!AfterAssistant,
       Switch!AfterResult, Switch!AfterFailure
  <2>5. QED
    BY <1>4, <2>1, <2>2, <2>3, <2>4
<1>5. QED
  BY <1>3, <1>4

\* How the messages and the calls of the last answer grow.
LEMMA MessagesGrow ==
  ASSUME NEW J \in Switch!Projection, NEW e \in Switch!KernelEvents(J), Switch!Admits(J, e),
         Switch!After(J, e) \in Switch!Projection,
         e.type = "effect_reconciled" => e.call \in DOMAIN J.calls
  PROVE  /\ e.type \in {"user_committed", "assistant_committed", "tool_result_committed"} =>
              Switch!After(J, e).blobs = J.blobs + 1
         /\ e.type \notin {"user_committed", "assistant_committed", "tool_result_committed"} =>
              Switch!After(J, e).blobs = J.blobs /\ Switch!After(J, e).next = J.next
         /\ e.type = "user_committed" => Switch!After(J, e).next = J.next
         /\ e.type = "tool_result_committed" => Switch!After(J, e).next = J.next + 1 /\ Switch!Pending(J)
         /\ e.type = "assistant_committed" => Len(Switch!After(J, e).calls) <= 1 /\ J.att # "none"
         /\ e.type # "assistant_committed" => Len(Switch!After(J, e).calls) = Len(J.calls)
<1>1. e.type \in Switch!EventTypes \ {"journal_tail_recovered"}
  BY EventShapes
<1>2. CASE e.type \in {"user_committed", "run_started", "commit_boundary_created",
                       "request_snapshot_stored", "request_attempt_started",
                       "request_semantic_started", "request_interrupted",
                       "cache_checkpoint_created", "run_completed", "run_interrupted"}
  BY <1>2
  DEF Switch!After, Switch!Adds, Switch!Projection, Switch!AfterBoundary, Switch!AfterFailure
<1>3. CASE e.type = "tool_result_committed"
  BY <1>3
  DEF Switch!After, Switch!Adds, Switch!Projection, Switch!AfterResult, Switch!Admits,
      Switch!AdmitsResult
<1>4. CASE e.type = "assistant_committed"
  <2>1. /\ Switch!After(J, e).blobs = J.blobs + 1 /\ J.att # "none"
        /\ Switch!After(J, e).calls = [i \in DOMAIN e.kinds |-> Switch!NewCall(e.kinds[i])]
    BY <1>4 DEF Switch!After, Switch!Adds, Switch!Projection, Switch!AfterAssistant, Switch!Admits
  <2>2. Len(e.kinds) <= 1
    BY <1>4, EventShapes
  <2>3. QED
    BY <1>4, <2>1, <2>2
<1>5. CASE OfCall(e)
  <2>1. Switch!After(J, e).blobs = J.blobs /\ Switch!After(J, e).next = J.next
    BY <1>5 DEF Switch!After, Switch!Adds, Switch!Projection, OfCall
  <2>2. DOMAIN Switch!After(J, e).calls = DOMAIN J.calls
    BY <1>5 DEF Switch!After, Switch!Adds, Switch!Projection, OfCall
  <2>3. J.calls \in Seq(Switch!Call) /\ Switch!After(J, e).calls \in Seq(Switch!Call)
    BY DEF Switch!Projection
  <2>4. Len(Switch!After(J, e).calls) = Len(J.calls)
    BY <2>2, <2>3
  <2>5. QED
    BY <1>5, <2>1, <2>4 DEF OfCall
<1>6. QED
  BY <1>1, <1>2, <1>3, <1>4, <1>5 DEF Switch!EventTypes, OfCall

\* The first event of the first run of a lineage that commits or ends anything.
LEMMA FirstMessage ==
  ASSUME NEW J \in Switch!Projection, NEW e \in Switch!KernelEvents(J), Switch!Admits(J, e),
         e.type = "effect_reconciled" => e.call \in DOMAIN J.calls,
         Switch!Active(J), J.run = 1, J.cause = "user", J.gate = "open", J.att = "none", J.snap = 0,
         J.blobs = 0, J.bound = 0, J.calls = << >>
  PROVE  e.type \in {"user_committed", "run_interrupted"}
<1>1. e.type \in Switch!EventTypes \ {"journal_tail_recovered"}
  BY EventShapes
<1>2. ~ OfCall(e)
  <2>1. SUFFICES ASSUME OfCall(e) PROVE FALSE
    OBVIOUS
  <2>2. e.call \in DOMAIN J.calls
    BY <2>1, CallIsThere
  <2>3. QED
    BY <2>2
<1>3. e.type # "tool_result_committed"
  <2>1. SUFFICES ASSUME e.type = "tool_result_committed" PROVE FALSE
    OBVIOUS
  <2>2. Switch!Pending(J)
    BY <2>1 DEF Switch!Admits, Switch!AdmitsResult
  <2>3. J.next \in Nat /\ Len(J.calls) = 0
    BY DEF Switch!Projection
  <2>4. QED
    BY <2>2, <2>3 DEF Switch!Pending
<1>4. e.type \notin {"run_started", "commit_boundary_created", "request_snapshot_stored",
                     "request_attempt_started", "request_semantic_started",
                     "request_interrupted", "assistant_committed", "cache_checkpoint_created",
                     "run_completed"}
  <2>1. e.type # "run_started"
    BY DEF Switch!Admits, Switch!AdmitsRun
  <2>2. e.type # "request_snapshot_stored"
    <3>1. SUFFICES ASSUME e.type = "request_snapshot_stored" PROVE FALSE
      OBVIOUS
    <3>2. Switch!AdmitsSnapshot(J, e.mode)
      BY <3>1 DEF Switch!Admits
    <3>3. QED
      BY <3>2 DEF Switch!AdmitsSnapshot
  <2>3. e.type # "request_attempt_started"
    <3>1. SUFFICES ASSUME e.type = "request_attempt_started" PROVE FALSE
      OBVIOUS
    <3>2. Switch!AdmitsAttempt(J)
      BY <3>1 DEF Switch!Admits
    <3>3. QED
      BY <3>2 DEF Switch!AdmitsAttempt
  <2>4. e.type \notin {"commit_boundary_created", "cache_checkpoint_created", "run_completed"}
    BY DEF Switch!Admits
  <2>5. e.type \notin {"request_semantic_started", "request_interrupted", "assistant_committed"}
    BY DEF Switch!Admits
  <2>6. QED
    BY <2>1, <2>2, <2>3, <2>4, <2>5
<1>5. QED
  BY <1>1, <1>2, <1>3, <1>4 DEF Switch!EventTypes, OfCall

-----------------------------------------------------------------------------
(* What a step leaves of the session. *)

\* A session that begins.
LEMMA InitIsFine ==
  ASSUME Switch!Init PROVE SwitchInv
<1>1. Agree(tail, sel.runs)
  BY NothingAgrees DEF Switch!Init, Switch!NewSelection
<1>2. FrameInv
  <2>1. << FirstAbi >> \in Seq({FirstAbi}) /\ Len(<< FirstAbi >>) = 1 /\ 1 \in DOMAIN << FirstAbi >>
    OBVIOUS
  <2>2. /\ frame = [declared |-> {FirstAbi}, abis |-> << FirstAbi >>, active |-> 1,
                    change |-> [from |-> 0, to |-> 0]]
        /\ sel = [frame |-> [declared |-> {FirstAbi}, abis |-> << FirstAbi >>, activated |-> {1},
                             active |-> 1, break |-> [from |-> 0, to |-> 0]],
                  runs |-> Switch!NewRuns, refused |-> FALSE]
    BY DEF Switch!Init, Switch!NewSelection, Switch!NewFrame, Switch!NoBreak
  <2>3. frame.abis \in Seq(frame.declared) /\ Len(frame.abis) <= MaxLineages
    BY <2>1, <2>2, SwitchConstants
  <2>4. frame.active \in DOMAIN frame.abis /\ frame.declared \subseteq Abis
    BY <2>1, <2>2, SwitchConstants
  <2>5. /\ frame.change \in [from : 0..MaxLineages, to : 0..MaxLineages]
        /\ frame.change = Switch!NoBreak
    BY <2>2, SwitchConstants DEF Switch!NoBreak
  <2>6. /\ frame = [declared |-> frame.declared, abis |-> frame.abis,
                    active |-> frame.active, change |-> frame.change]
        /\ sel = [frame |-> [declared |-> frame.declared, abis |-> frame.abis,
                             activated |-> sel.frame.activated, active |-> frame.active,
                             break |-> frame.change],
                  runs |-> sel.runs, refused |-> FALSE]
    BY <2>2
  <2>7. sel.frame.activated \subseteq 1..frame.active
    BY <2>2
  <2>8. QED
    BY <2>3, <2>4, <2>5, <2>6, <2>7 DEF FrameInv
<1>3. TodoInv /\ TurnInv /\ OwnInv /\ CarryInv
  BY DEF Switch!Init, TodoInv, TurnInv, OwnInv, CarryInv, Switch!EmptyJournal
<1>4. TypesInv
  <2>1. MaxNotes \in Nat /\ MaxCrashes \in Nat /\ MaxRoles \in Nat /\ MaxCalls \in Nat
    BY SwitchConstants, CallsAssumption
  <2>2. tail.calls = << >> /\ tail.next = 0 /\ tail.blobs = 0
    BY DEF Switch!Init, Switch!EmptyJournal
  <2>3. tail.blobs <= MaxRoles + tail.next /\ Len(tail.calls) <= MaxCalls
    <3>1. Len(tail.calls) = 0
      BY <2>2
    <3>2. QED
      BY <2>1, <2>2, <3>1
  <2>4. /\ broken \in [1..MaxLineages -> [reason : {"none", "compaction", "abi_change"},
                                           note : 0..notes, before : 0..notes]]
        /\ carried \in [1..MaxLineages -> 0..notes]
    BY DEF Switch!Init, Switch!NoNote
  <2>5. /\ notes \in 0..MaxNotes /\ input \in {None} \cup 0..notes
        /\ refused \in BOOLEAN /\ crashes \in 0..MaxCrashes
    <3>1. notes = 0 /\ input = None /\ refused = FALSE /\ crashes = 0
      BY DEF Switch!Init
    <3>2. notes \in 0..MaxNotes /\ crashes \in 0..MaxCrashes
      BY <2>1, <3>1
    <3>3. input \in {None} \cup 0..notes /\ refused \in BOOLEAN
      BY <3>1
    <3>4. QED
      BY <3>2, <3>3
  <2>6. QED
    BY <2>3, <2>4, <2>5 DEF TypesInv
<1>5. QED
  BY <1>1, <1>2, <1>3, <1>4 DEF SwitchInv

\* What a frame event leaves of the session, where the lineage stays the same.
LEMMA PlainAppend ==
  ASSUME SwitchInv, tail.status = "completed", NEW type \in Switch!FrameTypes,
         tail' = [tail EXCEPT !.fresh = FALSE], sel'.runs = [sel.runs EXCEPT !.last = type],
         frame'.active = frame.active, broken'[frame.active] = broken[frame.active],
         notes' \in 0..MaxNotes, notes <= notes',
         broken' \in [1..MaxLineages -> [reason : {"none", "compaction", "abi_change"},
                                        note : 0..notes', before : 0..notes']],
         UNCHANGED <<input, carried, refused, crashes>>
  PROVE  Agree(tail, sel.runs)' /\ TurnInv' /\ OwnInv' /\ CarryInv' /\ TypesInv'
<1>1. Agree(tail, sel.runs)'
  BY FrameAgrees DEF SwitchInv
<1>2. /\ tail'.run = tail.run /\ tail'.status = tail.status /\ tail'.blobs = tail.blobs
      /\ tail'.calls = tail.calls
      /\ tail'.next = tail.next /\ tail'.fresh = FALSE
      /\ tail.run # 0 /\ tail.blobs \in Nat /\ tail.next \in Nat
  BY DEF SwitchInv, Agree, Switch!Projection, RunsAgree
<1>3. TurnInv'
  BY <1>2 DEF SwitchInv, TurnInv, Switch!Active
<1>4. OwnInv'
  BY <1>2 DEF SwitchInv, OwnInv
<1>5. CarryInv'
  BY <1>2 DEF SwitchInv, CarryInv
<1>6. TypesInv'
  <2>1. TypesInv /\ notes' \in 0..MaxNotes
    BY DEF SwitchInv
  <2>2. carried' \in [1..MaxLineages -> 0..notes'] /\ input' \in {None} \cup 0..notes'
    BY <2>1, SwitchConstants DEF TypesInv
  <2>3. /\ refused' \in BOOLEAN /\ crashes' \in 0..MaxCrashes
        /\ tail'.blobs <= MaxRoles + tail'.next /\ Len(tail'.calls) <= MaxCalls
    BY <1>2, <2>1 DEF TypesInv
  <2>4. QED
    BY <2>1, <2>2, <2>3 DEF TypesInv
<1>7. QED
  BY <1>1, <1>3, <1>4, <1>5, <1>6

\* Nothing is left to append, and nothing else has changed.
LEMMA NothingLeft ==
  ASSUME SwitchInv, todo' = << >>, refused' \in BOOLEAN,
         UNCHANGED <<frame, broken, notes, tail, sel, input, carried, crashes>>
  PROVE  SwitchInv'
<1>1. FrameInv' /\ TurnInv' /\ OwnInv' /\ CarryInv' /\ Agree(tail, sel.runs)'
  BY DEF SwitchInv, FrameInv, TurnInv, OwnInv, CarryInv, Switch!Active
<1>2. TypesInv'
  BY DEF SwitchInv, TypesInv
<1>3. TodoInv'
  BY DEF TodoInv
<1>4. QED
  BY <1>1, <1>2, <1>3 DEF SwitchInv

\* The frame of the projection, and that of the selection, one field changed.
LEMMA FrameDeclares ==
  ASSUME NEW f, NEW x, f = [declared |-> f.declared, abis |-> f.abis, active |-> f.active,
         change |-> f.change]
  PROVE  [f EXCEPT !.declared = x] =
           [declared |-> x, abis |-> f.abis, active |-> f.active, change |-> f.change]
<1>1. PICK d, a, c, b : /\ f = [declared |-> d, abis |-> a, active |-> c, change |-> b]
                    /\ f.declared = d /\ f.abis = a /\ f.active = c /\ f.change = b
  OBVIOUS
<1>2. QED
  BY <1>1

LEMMA FrameStarts ==
  ASSUME NEW f, NEW x, f = [declared |-> f.declared, abis |-> f.abis, active |-> f.active,
         change |-> f.change]
  PROVE  [f EXCEPT !.abis = x] =
           [declared |-> f.declared, abis |-> x, active |-> f.active, change |-> f.change]
<1>1. PICK d, a, c, b : /\ f = [declared |-> d, abis |-> a, active |-> c, change |-> b]
                    /\ f.declared = d /\ f.abis = a /\ f.active = c /\ f.change = b
  OBVIOUS
<1>2. QED
  BY <1>1

LEMMA FrameBreaks ==
  ASSUME NEW f, NEW x, f = [declared |-> f.declared, abis |-> f.abis, active |-> f.active,
         change |-> f.change]
  PROVE  [f EXCEPT !.change = x] =
           [declared |-> f.declared, abis |-> f.abis, active |-> f.active, change |-> x]
<1>1. PICK d, a, c, b : /\ f = [declared |-> d, abis |-> a, active |-> c, change |-> b]
                    /\ f.declared = d /\ f.abis = a /\ f.active = c /\ f.change = b
  OBVIOUS
<1>2. QED
  BY <1>1

MovedFrame(f, y, x) == [f EXCEPT !.active = y, !.change = x]
MovedSelection(f, y, z, x) == [f EXCEPT !.active = y, !.activated = z, !.break = x]

LEMMA FrameMoves ==
  ASSUME NEW f, NEW x, NEW y, f = [declared |-> f.declared, abis |-> f.abis, active |-> f.active,
         change |-> f.change]
  PROVE  MovedFrame(f, y, x) =
           [declared |-> f.declared, abis |-> f.abis, active |-> y, change |-> x]
<1> DEFINE g == [f EXCEPT !.active = y]
<1>1. g = [declared |-> f.declared, abis |-> f.abis, active |-> y, change |-> f.change]
  OBVIOUS
<1>2. MovedFrame(f, y, x) = [g EXCEPT !.change = x]
  BY DEF MovedFrame
<1> HIDE DEF g
<1>3. [g EXCEPT !.change = x] = [declared |-> f.declared, abis |-> f.abis, active |-> y, change |-> x]
  BY <1>1
<1>4. QED
  BY <1>2, <1>3

LEMMA SelectedDeclares ==
  ASSUME NEW f, NEW x, f = [declared |-> f.declared, abis |-> f.abis, activated |-> f.activated,
         active |-> f.active, break |-> f.break]
  PROVE  [f EXCEPT !.declared = x] =
           [declared |-> x, abis |-> f.abis, activated |-> f.activated, active |-> f.active, break |-> f.break]
OBVIOUS

LEMMA SelectedStarts ==
  ASSUME NEW f, NEW x, f = [declared |-> f.declared, abis |-> f.abis, activated |-> f.activated,
         active |-> f.active, break |-> f.break]
  PROVE  [f EXCEPT !.abis = x] =
           [declared |-> f.declared, abis |-> x, activated |-> f.activated, active |-> f.active, break |-> f.break]
OBVIOUS

LEMMA SelectedBreaks ==
  ASSUME NEW f, NEW x, f = [declared |-> f.declared, abis |-> f.abis, activated |-> f.activated,
         active |-> f.active, break |-> f.break]
  PROVE  [f EXCEPT !.break = x] =
           [declared |-> f.declared, abis |-> f.abis, activated |-> f.activated, active |-> f.active, break |-> x]
OBVIOUS

LEMMA SelectedMoves ==
  ASSUME NEW f, NEW x, NEW y, NEW z, f = [declared |-> f.declared, abis |-> f.abis,
         activated |-> f.activated, active |-> f.active, break |-> f.break]
  PROVE  MovedSelection(f, y, z, x) =
           [declared |-> f.declared, abis |-> f.abis, activated |-> z, active |-> y, break |-> x]
<1> DEFINE g == [f EXCEPT !.active = y]
           h == [g EXCEPT !.activated = z]
<1>1. g = [declared |-> f.declared, abis |-> f.abis, activated |-> f.activated, active |-> y, break |-> f.break]
  OBVIOUS
<1>2. MovedSelection(f, y, z, x) = [h EXCEPT !.break = x]
  BY DEF MovedSelection
<1> HIDE DEF g
<1>3. h = [declared |-> f.declared, abis |-> f.abis, activated |-> z, active |-> y, break |-> f.break]
  BY <1>1
<1> HIDE DEF h
<1>4. [h EXCEPT !.break = x] = [declared |-> f.declared, abis |-> f.abis, activated |-> z, active |-> y, break |-> x]
  BY <1>3
<1>5. QED
  BY <1>2, <1>4

\* What is left of a switch after its next event.
LEMMA TailsOf ==
  ASSUME NEW a, NEW b, NEW c, NEW d, NEW e
  PROVE  /\ Head(<< a, b, c, d, e >>) = a /\ Tail(<< a, b, c, d, e >>) = << b, c, d, e >>
         /\ Head(<< b, c, d, e >>) = b /\ Tail(<< b, c, d, e >>) = << c, d, e >>
         /\ Head(<< c, d, e >>) = c /\ Tail(<< c, d, e >>) = << d, e >>
         /\ Head(<< d, e >>) = d /\ Tail(<< d, e >>) = << e >>
         /\ Head(<< e >>) = e /\ Tail(<< e >>) = << >>
OBVIOUS

\* The lineages are numbered from one, and the active one is of them.
LEMMA FrameTyped ==
  ASSUME SwitchInv
  PROVE  /\ Len(frame.abis) \in Nat /\ Len(frame.abis) <= MaxLineages
         /\ frame.active \in 1..Len(frame.abis) /\ frame.active \in 1..MaxLineages
         /\ frame.abis \in Seq(frame.declared) /\ DOMAIN frame.abis = 1..Len(frame.abis)
         /\ frame.abis[frame.active] \in frame.declared
         /\ notes \in 0..MaxNotes /\ MaxNotes \in Nat /\ MaxLineages \in Nat
<1>1. /\ frame.abis \in Seq(frame.declared) /\ Len(frame.abis) <= MaxLineages
      /\ frame.active \in DOMAIN frame.abis /\ notes \in 0..MaxNotes
  BY DEF SwitchInv, FrameInv, TypesInv
<1>2. /\ Len(frame.abis) \in Nat /\ DOMAIN frame.abis = 1..Len(frame.abis)
      /\ MaxNotes \in Nat /\ MaxLineages \in Nat
  BY <1>1, SwitchConstants
<1>3. frame.abis[frame.active] \in frame.declared
  BY <1>1, <1>2, ElementOfSeq
<1>4. QED
  BY <1>1, <1>2, <1>3

\* An append that leaves the frame alone.
LEMMA FrameStays ==
  ASSUME FrameInv, frame' = frame, tail'.status = tail.status,
         sel' = [frame |-> sel.frame, runs |-> sel'.runs, refused |-> FALSE]
  PROVE  FrameInv'
<1>1. sel.frame = [declared |-> frame.declared, abis |-> frame.abis,
                   activated |-> sel.frame.activated, active |-> frame.active,
                   break |-> frame.change]
  BY DEF FrameInv
<1>2. sel'.frame = sel.frame
  OBVIOUS
<1>3. sel' = [frame |-> [declared |-> frame'.declared, abis |-> frame'.abis,
                         activated |-> sel'.frame.activated, active |-> frame'.active,
                         break |-> frame'.change],
              runs |-> sel'.runs, refused |-> FALSE]
  BY <1>1, <1>2
<1>4. QED
  BY <1>2, <1>3 DEF FrameInv

\* With no break the runs do not matter.
LEMMA FrameStaysOpen ==
  ASSUME FrameInv, frame' = frame, frame.change = Switch!NoBreak,
         sel' = [frame |-> sel.frame, runs |-> sel'.runs, refused |-> FALSE]
  PROVE  FrameInv'
<1>1. sel.frame = [declared |-> frame.declared, abis |-> frame.abis,
                   activated |-> sel.frame.activated, active |-> frame.active,
                   break |-> frame.change]
  BY DEF FrameInv
<1>2. sel'.frame = sel.frame
  OBVIOUS
<1>3. sel' = [frame |-> [declared |-> frame'.declared, abis |-> frame'.abis,
                         activated |-> sel'.frame.activated, active |-> frame'.active,
                         break |-> frame'.change],
              runs |-> sel'.runs, refused |-> FALSE]
  BY <1>1, <1>2
<1>4. QED
  BY <1>2, <1>3 DEF FrameInv

\* The summary is written.
LEMMA NoteKeeps ==
  ASSUME SwitchInv, Switch!AppendNext, NEW abi \in Abis, Unstarted(abi)
  PROVE  SwitchInv'
<1> DEFINE l == Len(frame.abis) + 1
           n == notes + 1
           e == Switch!NotePublished(n)
<1>1. /\ Head(todo) = e /\ l <= MaxLineages /\ n <= MaxNotes
      /\ \/ Changes(abi) /\ Tail(todo) = << Switch!AbiDeclared(abi), Switch!LineageStarted(l, abi),
                                            Leaves(abi, l, n), Enters(abi, l) >>
         \/ Tail(todo) = << Switch!LineageStarted(l, abi), Leaves(abi, l, n), Enters(abi, l) >>
  <2>1. CASE /\ Changes(abi)
             /\ todo = << e, Switch!AbiDeclared(abi), Switch!LineageStarted(l, abi), Leaves(abi, l, n), Enters(abi, l) >>
    BY <2>1, TailsOf DEF Unstarted
  <2>2. CASE todo = << e, Switch!LineageStarted(l, abi), Leaves(abi, l, n), Enters(abi, l) >>
    BY <2>2, TailsOf DEF Unstarted
  <2>3. QED
    BY <2>1, <2>2 DEF Unstarted
<1>2. /\ todo # << >> /\ tail.status = "completed"
  BY DEF SwitchInv, TodoInv, Switch!AppendNext
<1>3. /\ Switch!FrameAdmits(frame, e) /\ Switch!FrameAfter(frame, e) = frame
      /\ e.type = "artifact_published" /\ e.note = n
  BY DEF Switch!FrameAdmits, Switch!FrameAfter, Switch!NotePublished
<1>4. /\ frame' = frame /\ notes' = n /\ broken' = broken /\ tail' = [tail EXCEPT !.fresh = FALSE]
      /\ sel' = Switch!Selected(sel, e) /\ todo' = Tail(todo)
      /\ UNCHANGED <<input, carried, refused, crashes>>
  BY <1>1, <1>3 DEF Switch!AppendNext
<1>5. sel' = [frame |-> sel.frame, runs |-> [sel.runs EXCEPT !.last = "artifact_published"],
              refused |-> FALSE]
  <2>1. /\ e.type \in Switch!FrameTypes /\ e.type # "lineage_activated"
        /\ Switch!KeepsFrame(sel.frame, e) = sel.frame /\ Switch!SelectsFrame(sel.frame, sel.runs, e)
    BY <1>3 DEF Switch!FrameTypes, Switch!SelectsFrame, Switch!KeepsFrame
  <2>2. sel.refused = FALSE
    BY DEF SwitchInv, FrameInv
  <2>3. QED
    BY <1>3, <1>4, <2>1, <2>2 DEF Switch!Selected
<1>t. notes \in 0..MaxNotes /\ notes \in Nat /\ MaxNotes \in Nat
  BY FrameTyped
<1>6. FrameInv'
  <2>1. FrameInv
    BY DEF SwitchInv
  <2>2. sel'.frame = sel.frame /\ sel'.refused = FALSE
        /\ sel' = [frame |-> sel.frame, runs |-> sel'.runs, refused |-> FALSE]
    BY <1>5
  <2>3. tail'.status = tail.status
    BY <1>4 DEF SwitchInv, Agree, Switch!Projection
  <2>4. QED
    BY <1>4, <2>1, <2>2, <2>3, FrameStays
<1>7. /\ frame'.active = frame.active /\ broken'[frame.active] = broken[frame.active]
      /\ notes' \in 0..MaxNotes /\ notes <= notes'
      /\ broken' \in [1..MaxLineages -> [reason : {"none", "compaction", "abi_change"},
                                        note : 0..notes', before : 0..notes']]
      /\ sel'.runs = [sel.runs EXCEPT !.last = "artifact_published"]
  BY <1>1, <1>4, <1>5, <1>t DEF SwitchInv, TypesInv
<1>8. Agree(tail, sel.runs)' /\ TurnInv' /\ OwnInv' /\ CarryInv' /\ TypesInv'
  BY <1>2, <1>4, <1>7, PlainAppend DEF Switch!FrameTypes
<1>9. TodoInv'
  <2>1. tail'.status = "completed"
    BY <1>2, <1>4 DEF SwitchInv, Agree, Switch!Projection
  <2>2. Summarised(abi)'
    BY <1>1, <1>4, <1>t DEF Summarised, Changes, Leaves, Enters, Reason, NoteOf
  <2>3. QED
    BY <2>1, <2>2 DEF TodoInv, LeftOf
<1>10. QED
  BY <1>6, <1>8, <1>9 DEF SwitchInv

\* When the projection refuses an event, nothing is left to append.
LEMMA RefusedKeeps ==
  ASSUME SwitchInv, Switch!AppendNext, ~ Switch!FrameAdmits(frame, Head(todo))
  PROVE  SwitchInv'
BY NothingLeft DEF Switch!AppendNext

\* The ABI of another effort is declared.
LEMMA DeclareKeeps ==
  ASSUME SwitchInv, Switch!AppendNext, NEW abi \in Abis, Changes(abi),
         Len(frame.abis) < MaxLineages, notes > 0,
         todo = << Switch!AbiDeclared(abi), Switch!LineageStarted(Len(frame.abis) + 1, abi),
                   Leaves(abi, Len(frame.abis) + 1, notes), Enters(abi, Len(frame.abis) + 1) >>,
         Switch!FrameAdmits(frame, Head(todo))
  PROVE  SwitchInv'
<1> DEFINE l == Len(frame.abis) + 1
           e == Switch!AbiDeclared(abi)
           D == frame.declared \cup {abi}
<1>1. /\ Head(todo) = e /\ e.type = "cache_abi_declared" /\ e.abi = abi
      /\ Tail(todo) = << Switch!LineageStarted(l, abi), Leaves(abi, l, notes), Enters(abi, l) >>
  BY TailsOf DEF Switch!AbiDeclared
<1>2. /\ todo # << >> /\ tail.status = "completed" /\ FrameInv /\ abi \notin frame.declared
  BY <1>1 DEF SwitchInv, TodoInv, Switch!AppendNext, Switch!FrameAdmits
<1>3. /\ frame' = [frame EXCEPT !.declared = D] /\ UNCHANGED <<notes, broken>>
      /\ tail' = [tail EXCEPT !.fresh = FALSE]
      /\ sel' = Switch!Selected(sel, e) /\ todo' = Tail(todo)
      /\ UNCHANGED <<input, carried, refused, crashes>>
  BY <1>1 DEF Switch!AppendNext, Switch!FrameAfter
<1>4. /\ frame' = [declared |-> D, abis |-> frame.abis, active |-> frame.active,
                   change |-> frame.change]
      /\ sel.frame = [declared |-> frame.declared, abis |-> frame.abis,
                      activated |-> sel.frame.activated, active |-> frame.active,
                      break |-> frame.change]
  <2>1. /\ frame = [declared |-> frame.declared, abis |-> frame.abis,
                    active |-> frame.active, change |-> frame.change]
        /\ sel.frame = [declared |-> frame.declared, abis |-> frame.abis,
                        activated |-> sel.frame.activated, active |-> frame.active,
                        break |-> frame.change]
    BY <1>2 DEF FrameInv
  <2>2. [frame EXCEPT !.declared = D] =
          [declared |-> D, abis |-> frame.abis, active |-> frame.active,
           change |-> frame.change]
    BY <2>1, FrameDeclares
  <2>3. QED
    BY <1>3, <2>1, <2>2
<1>5. sel' = [frame |-> [declared |-> D, abis |-> frame.abis, activated |-> sel.frame.activated,
                         active |-> frame.active, break |-> frame.change],
              runs |-> [sel.runs EXCEPT !.last = "cache_abi_declared"], refused |-> FALSE]
  <2>1. /\ e.type \in Switch!FrameTypes /\ e.type # "lineage_activated"
        /\ Switch!KeepsFrame(sel.frame, e) = [sel.frame EXCEPT !.declared = @ \cup {abi}]
    BY <1>1 DEF Switch!FrameTypes, Switch!KeepsFrame
  <2>2. Switch!SelectsFrame(sel.frame, sel.runs, e)
    BY <1>1, <1>2, <1>4 DEF Switch!SelectsFrame
  <2>3. sel.refused = FALSE
    BY <1>2 DEF FrameInv
  <2>4. Switch!KeepsFrame(sel.frame, e) =
          [declared |-> D, abis |-> frame.abis, activated |-> sel.frame.activated,
           active |-> frame.active, break |-> frame.change]
    <3>1. Switch!KeepsFrame(sel.frame, e) = [sel.frame EXCEPT !.declared = @ \cup {abi}]
      BY <2>1
    <3>2. /\ sel.frame.declared = frame.declared /\ sel.frame.abis = frame.abis
          /\ sel.frame.active = frame.active /\ sel.frame.break = frame.change
      BY <1>4
    <3>3. sel.frame = [declared |-> sel.frame.declared, abis |-> sel.frame.abis,
                       activated |-> sel.frame.activated, active |-> sel.frame.active,
                       break |-> sel.frame.break]
      BY <1>4
    <3>4. [sel.frame EXCEPT !.declared = sel.frame.declared \cup {abi}] =
            [declared |-> sel.frame.declared \cup {abi},
             abis |-> sel.frame.abis,
             activated |-> sel.frame.activated, active |-> sel.frame.active,
             break |-> sel.frame.break]
      BY <3>3, SelectedDeclares
    <3>5. QED
      BY <3>1, <3>2, <3>4
  <2>5. QED
    BY <1>1, <1>3, <2>1, <2>2, <2>3, <2>4 DEF Switch!Selected
<1>6. FrameInv'
  <2>1. frame'.abis \in Seq(frame'.declared)
    <3>1. frame.abis \in Seq(frame.declared)
      BY <1>2 DEF FrameInv
    <3>2. \A k \in 1..Len(frame.abis) : frame.abis[k] \in D
      BY <3>1, ElementOfSeq
    <3>3. QED
      BY <1>4, <3>1, <3>2
  <2>2. sel' = [frame |-> [declared |-> frame'.declared, abis |-> frame'.abis,
                           activated |-> sel'.frame.activated, active |-> frame'.active,
                           break |-> frame'.change],
                runs |-> sel'.runs, refused |-> FALSE]
    BY <1>4, <1>5
  <2>3. tail'.status = tail.status
    BY <1>3 DEF SwitchInv, Agree, Switch!Projection
  <2>4. sel'.frame.activated \subseteq 1..frame'.active
    BY <1>2, <1>4, <1>5 DEF FrameInv
  <2>5. frame'.declared \subseteq Abis
    BY <1>2, <1>4 DEF FrameInv
  <2> HIDE DEF D
  <2>6. QED
    BY <1>2, <1>4, <2>1, <2>2, <2>3, <2>4, <2>5 DEF FrameInv
<1>7. /\ frame'.active = frame.active /\ broken'[frame.active] = broken[frame.active]
      /\ notes' \in 0..MaxNotes /\ notes <= notes'
      /\ broken' \in [1..MaxLineages -> [reason : {"none", "compaction", "abi_change"},
                                        note : 0..notes', before : 0..notes']]
      /\ sel'.runs = [sel.runs EXCEPT !.last = "cache_abi_declared"]
  BY <1>3, <1>4, <1>5, FrameTyped DEF SwitchInv, TypesInv
<1>8. Agree(tail, sel.runs)' /\ TurnInv' /\ OwnInv' /\ CarryInv' /\ TypesInv'
  BY <1>2, <1>3, <1>7, PlainAppend DEF Switch!FrameTypes
<1>9. TodoInv'
  <2>1. tail'.status = "completed"
    BY <1>2, <1>3 DEF SwitchInv, Agree, Switch!Projection
  <2>2. Summarised(abi)'
    BY <1>1, <1>3, <1>4, FrameTyped DEF Summarised, Changes, Leaves, Enters, Reason, NoteOf
  <2>3. QED
    BY <2>1, <2>2 DEF TodoInv, LeftOf
<1>10. QED
  BY <1>6, <1>8, <1>9 DEF SwitchInv

\* The ABIs of the lineages and of a new one.
LEMMA AbiAppended ==
  ASSUME NEW abi, abi \in frame.declared, frame.abis \in Seq(frame.declared)
  PROVE  /\ Append(frame.abis, abi) \in Seq(frame.declared)
         /\ Len(Append(frame.abis, abi)) = Len(frame.abis) + 1
         /\ Append(frame.abis, abi)[Len(frame.abis) + 1] = abi
         /\ \A i \in 1..Len(frame.abis) : Append(frame.abis, abi)[i] = frame.abis[i]
<1>1. PICK S, s : S = frame.declared /\ s = frame.abis
  OBVIOUS
<1>2. s \in Seq(S) /\ abi \in S
  BY <1>1
<1>3. /\ Append(s, abi) \in Seq(S) /\ Len(Append(s, abi)) = Len(s) + 1
      /\ Append(s, abi)[Len(s) + 1] = abi
      /\ \A i \in 1..Len(s) : Append(s, abi)[i] = s[i]
  BY <1>2, AppendProperties
<1>4. QED
  BY <1>1, <1>3

\* The lineage is started.
LEMMA StartKeeps ==
  ASSUME SwitchInv, Switch!AppendNext, NEW abi \in Abis, Len(frame.abis) < MaxLineages, notes > 0,
         todo = << Switch!LineageStarted(Len(frame.abis) + 1, abi),
                   Leaves(abi, Len(frame.abis) + 1, notes), Enters(abi, Len(frame.abis) + 1) >>,
         Switch!FrameAdmits(frame, Head(todo))
  PROVE  SwitchInv'
<1> DEFINE l == Len(frame.abis) + 1
           e == Switch!LineageStarted(l, abi)
           A == Append(frame.abis, abi)
<1>1. /\ Head(todo) = e /\ e.type = "lineage_started" /\ e.abi = abi /\ e.lineage = l
      /\ Tail(todo) = << Leaves(abi, l, notes), Enters(abi, l) >>
  BY TailsOf DEF Switch!LineageStarted
<1>2. /\ todo # << >> /\ tail.status = "completed" /\ FrameInv
      /\ abi \in frame.declared /\ l \notin DOMAIN frame.abis
  BY <1>1 DEF SwitchInv, TodoInv, Switch!AppendNext, Switch!FrameAdmits
<1>3. /\ frame' = [frame EXCEPT !.abis = A] /\ UNCHANGED <<notes, broken>>
      /\ tail' = [tail EXCEPT !.fresh = FALSE]
      /\ sel' = Switch!Selected(sel, e) /\ todo' = Tail(todo)
      /\ UNCHANGED <<input, carried, refused, crashes>>
  BY <1>1 DEF Switch!AppendNext, Switch!FrameAfter
<1>4. /\ frame' = [declared |-> frame.declared, abis |-> A, active |-> frame.active,
                   change |-> frame.change]
      /\ sel.frame = [declared |-> frame.declared, abis |-> frame.abis,
                      activated |-> sel.frame.activated, active |-> frame.active,
                      break |-> frame.change]
  <2>1. /\ frame = [declared |-> frame.declared, abis |-> frame.abis,
                    active |-> frame.active, change |-> frame.change]
        /\ sel.frame = [declared |-> frame.declared, abis |-> frame.abis,
                        activated |-> sel.frame.activated, active |-> frame.active,
                        break |-> frame.change]
    BY <1>2 DEF FrameInv
  <2>2. [frame EXCEPT !.abis = A] =
          [declared |-> frame.declared, abis |-> A, active |-> frame.active,
           change |-> frame.change]
    BY <2>1, FrameStarts
  <2>3. QED
    BY <1>3, <2>1, <2>2
<1>5. sel' = [frame |-> [declared |-> frame.declared, abis |-> A, activated |-> sel.frame.activated,
                         active |-> frame.active, break |-> frame.change],
              runs |-> [sel.runs EXCEPT !.last = "lineage_started"], refused |-> FALSE]
  <2>1. /\ e.type \in Switch!FrameTypes /\ e.type # "lineage_activated"
        /\ Switch!KeepsFrame(sel.frame, e) = [sel.frame EXCEPT !.abis = Append(@, abi)]
    BY <1>1 DEF Switch!FrameTypes, Switch!KeepsFrame
  <2>2. Switch!SelectsFrame(sel.frame, sel.runs, e)
    BY <1>1, <1>2, <1>4 DEF Switch!SelectsFrame
  <2>3. sel.refused = FALSE
    BY <1>2 DEF FrameInv
  <2>4. Switch!KeepsFrame(sel.frame, e) =
          [declared |-> frame.declared, abis |-> A, activated |-> sel.frame.activated,
           active |-> frame.active, break |-> frame.change]
    <3>1. Switch!KeepsFrame(sel.frame, e) = [sel.frame EXCEPT !.abis = Append(@, abi)]
      BY <2>1
    <3>2. /\ sel.frame.declared = frame.declared /\ sel.frame.abis = frame.abis
          /\ sel.frame.active = frame.active /\ sel.frame.break = frame.change
      BY <1>4
    <3>3. sel.frame = [declared |-> sel.frame.declared, abis |-> sel.frame.abis,
                       activated |-> sel.frame.activated, active |-> sel.frame.active,
                       break |-> sel.frame.break]
      BY <1>4
    <3>4. [sel.frame EXCEPT !.abis = Append(sel.frame.abis, abi)] =
            [declared |-> sel.frame.declared,
             abis |-> Append(sel.frame.abis, abi),
             activated |-> sel.frame.activated, active |-> sel.frame.active,
             break |-> sel.frame.break]
      BY <3>3, SelectedStarts
    <3>5. QED
      BY <3>1, <3>2, <3>4
  <2>5. QED
    BY <1>1, <1>3, <2>1, <2>2, <2>3, <2>4 DEF Switch!Selected
<1>t. /\ frame.abis \in Seq(frame.declared) /\ Len(frame.abis) \in Nat
      /\ frame.active \in 1..Len(frame.abis)
  BY FrameTyped
<1>x. /\ A \in Seq(frame.declared) /\ Len(A) = l /\ A[l] = abi /\ DOMAIN A = 1..l
      /\ A[frame.active] = frame.abis[frame.active]
  <2>1. /\ A \in Seq(frame.declared) /\ Len(A) = Len(frame.abis) + 1
        /\ A[Len(frame.abis) + 1] = abi
        /\ \A i \in 1..Len(frame.abis) : A[i] = frame.abis[i]
    <3>1. abi \in frame.declared /\ frame.abis \in Seq(frame.declared)
      BY <1>2, <1>t
    <3>2. QED
      BY <3>1, AbiAppended
  <2> HIDE DEF A
  <2>2. DOMAIN A = 1..Len(A)
    BY <2>1
  <2>3. QED
    BY <1>t, <2>1, <2>2
<1> HIDE DEF A
<1>6. FrameInv'
  <2>1. frame'.abis \in Seq(frame'.declared) /\ Len(frame'.abis) <= MaxLineages
        /\ frame'.active \in DOMAIN frame'.abis
    BY <1>4, <1>x, <1>t, FrameTyped
  <2>2. sel' = [frame |-> [declared |-> frame'.declared, abis |-> frame'.abis,
                           activated |-> sel'.frame.activated, active |-> frame'.active,
                           break |-> frame'.change],
                runs |-> sel'.runs, refused |-> FALSE]
    BY <1>4, <1>5
  <2>3. tail'.status = tail.status
    BY <1>3 DEF SwitchInv, Agree, Switch!Projection
  <2>4. sel'.frame.activated \subseteq 1..frame'.active /\ frame'.declared \subseteq Abis
    BY <1>2, <1>4, <1>5 DEF FrameInv
  <2>5. frame'.change = frame.change /\ frame'.active = frame.active
    BY <1>4
  <2>6. frame' = [declared |-> frame'.declared, abis |-> frame'.abis,
                  active |-> frame'.active, change |-> frame'.change]
    BY <1>4
  <2>7. QED
    BY <1>2, <2>1, <2>2, <2>3, <2>4, <2>5, <2>6 DEF FrameInv
<1>7. /\ frame'.active = frame.active /\ broken'[frame.active] = broken[frame.active]
      /\ notes' \in 0..MaxNotes /\ notes <= notes'
      /\ broken' \in [1..MaxLineages -> [reason : {"none", "compaction", "abi_change"},
                                        note : 0..notes', before : 0..notes']]
      /\ sel'.runs = [sel.runs EXCEPT !.last = "lineage_started"]
  <2>1. frame'.active = frame.active /\ notes' = notes /\ broken' = broken
    BY <1>3, <1>4
  <2>2. sel'.runs = [sel.runs EXCEPT !.last = "lineage_started"]
    BY <1>5
  <2>3. QED
    BY <2>1, <2>2, FrameTyped DEF SwitchInv, TypesInv
<1>8. Agree(tail, sel.runs)' /\ TurnInv' /\ OwnInv' /\ CarryInv' /\ TypesInv'
  BY <1>2, <1>3, <1>7, PlainAppend DEF Switch!FrameTypes
<1>9. TodoInv'
  <2>1. tail'.status = "completed"
    BY <1>2, <1>3 DEF SwitchInv, Agree, Switch!Projection
  <2>2. /\ frame'.active = frame.active /\ Len(frame'.abis) = l /\ frame'.abis[l] = abi
        /\ frame'.abis[frame.active] = frame.abis[frame.active] /\ notes' = notes
        /\ frame'.active < l
    BY <1>3, <1>4, <1>x, <1>t
  <2>3. todo' = << Leaves(abi, Len(frame.abis), notes)', Enters(abi, Len(frame.abis))' >>
    <3>1. Changes(abi)' <=> Changes(abi)
      BY <2>2 DEF Changes
    <3>2. /\ Leaves(abi, Len(frame.abis), notes)' = Leaves(abi, l, notes)
          /\ Enters(abi, Len(frame.abis))' = Enters(abi, l)
      BY <2>2, <3>1 DEF Leaves, Enters, Reason, NoteOf
    <3>3. QED
      BY <1>1, <1>3, <3>2
  <2>4. LineageThere(abi)'
    BY <2>2, <2>3 DEF LineageThere
  <2>5. QED
    BY <2>1, <2>4 DEF TodoInv, LeftOf
<1>10. QED
  BY <1>6, <1>8, <1>9 DEF SwitchInv

\* Tuples put together.
LEMMA TwoThree ==
  ASSUME NEW a, NEW b, NEW c, NEW d, NEW e
  PROVE  << a, b >> \o << c, d, e >> = << a, b, c, d, e >>
<1> DEFINE S == {a, b, c, d, e}
           l == << a, b >>
           m == << c, d, e >>
           n == << a, b, c, d, e >>
<1>1. /\ l \in Seq(S) /\ m \in Seq(S) /\ n \in Seq(S)
      /\ Len(l) = 2 /\ Len(m) = 3 /\ Len(n) = 5
  OBVIOUS
<1>2. \A i \in 1..5 : n[i] = IF i <= 2 THEN l[i] ELSE m[i - 2]
  OBVIOUS
<1> HIDE DEF l, m, n, S
<1> DEFINE k == l \o m
<1>3. /\ k \in Seq(S) /\ Len(k) = Len(l) + Len(m)
      /\ \A i \in 1..Len(l) + Len(m) : k[i] = IF i <= Len(l) THEN l[i] ELSE m[i - Len(l)]
  BY <1>1, ConcatProperties, Zenon
<1> HIDE DEF k
<1>4. k = n
  <2>1. Len(k) = 5 /\ \A i \in 1..5 : k[i] = IF i <= 2 THEN l[i] ELSE m[i - 2]
    BY <1>1, <1>3
  <2>2. Len(k) = Len(n) /\ \A i \in 1..Len(k) : k[i] = n[i]
    BY <1>1, <1>2, <2>1
  <2>3. QED
    BY <1>1, <1>3, <2>2, SeqEqual, Zenon
<1>5. l \o m = n
  BY <1>4 DEF k
<1>6. QED
  BY <1>5 DEF l, m, n

LEMMA OneThree ==
  ASSUME NEW a, NEW c, NEW d, NEW e
  PROVE  << a >> \o << c, d, e >> = << a, c, d, e >>
<1> DEFINE S == {a, c, d, e}
           l == << a >>
           m == << c, d, e >>
           n == << a, c, d, e >>
<1>1. /\ l \in Seq(S) /\ m \in Seq(S) /\ n \in Seq(S)
      /\ Len(l) = 1 /\ Len(m) = 3 /\ Len(n) = 4
  OBVIOUS
<1>2. \A i \in 1..4 : n[i] = IF i <= 1 THEN l[i] ELSE m[i - 1]
  OBVIOUS
<1> HIDE DEF l, m, n, S
<1> DEFINE k == l \o m
<1>3. /\ k \in Seq(S) /\ Len(k) = Len(l) + Len(m)
      /\ \A i \in 1..Len(l) + Len(m) : k[i] = IF i <= Len(l) THEN l[i] ELSE m[i - Len(l)]
  BY <1>1, ConcatProperties, Zenon
<1> HIDE DEF k
<1>4. k = n
  <2>1. Len(k) = 4 /\ \A i \in 1..4 : k[i] = IF i <= 1 THEN l[i] ELSE m[i - 1]
    BY <1>1, <1>3
  <2>2. Len(k) = Len(n) /\ \A i \in 1..Len(k) : k[i] = n[i]
    BY <1>1, <1>2, <2>1
  <2>3. QED
    BY <1>1, <1>3, <2>2, SeqEqual, Zenon
<1>5. l \o m = n
  BY <1>4 DEF k
<1>6. QED
  BY <1>5 DEF l, m, n

LEMMA OneOne ==
  ASSUME NEW a, NEW b
  PROVE  << a >> \o << b >> = << a, b >> /\ << a >> \o << >> = << a >>
<1>1. << a >> \in Seq({a, b})
  OBVIOUS
<1>2. << a >> \o << >> = << a >>
  BY <1>1, ConcatEmptySeq
<1>3. Append(<< a >>, b) = << a >> \o << b >>
  BY <1>1, AppendIsConcat
<1>4. Append(<< a >>, b) = << a, b >>
  <2> DEFINE S == {a, b}
             l == << a >>
             n == << a, b >>
             k == Append(l, b)
  <2>1. /\ l \in Seq(S) /\ n \in Seq(S) /\ Len(l) = 1 /\ Len(n) = 2 /\ b \in S
        /\ l[1] = a /\ n[1] = a /\ n[2] = b
    OBVIOUS
  <2>2. /\ k \in Seq(S) /\ Len(k) = 2 /\ k[1] = a /\ k[2] = b
    OBVIOUS
  <2> HIDE DEF k, l, n, S
  <2>3. k = n
    BY <2>1, <2>2, SeqEqual
  <2>4. QED
    BY <2>3 DEF k, l, n
<1>5. QED
  BY <1>2, <1>3, <1>4

\* The lineage is left.
LEMMA LeaveKeeps ==
  ASSUME SwitchInv, Switch!AppendNext, NEW abi \in Abis,
         frame.active < Len(frame.abis), frame.abis[Len(frame.abis)] = abi, notes > 0,
         todo = << Leaves(abi, Len(frame.abis), notes), Enters(abi, Len(frame.abis)) >>,
         Switch!FrameAdmits(frame, Head(todo))
  PROVE  SwitchInv'
<1> DEFINE l == Len(frame.abis)
           e == Leaves(abi, l, notes)
           c == [from |-> frame.active, to |-> l]
           b == [reason |-> Reason(abi), note |-> NoteOf(abi, notes), before |-> notes]
<1>1. /\ Head(todo) = e /\ Tail(todo) = << Enters(abi, l) >>
      /\ e.type = "cache_break" /\ e.reason = Reason(abi) /\ e.from = frame.active /\ e.to = l
      /\ e.note = NoteOf(abi, notes)
  BY TailsOf DEF Leaves, Switch!CacheBreak
<1>2. /\ todo # << >> /\ tail.status = "completed" /\ FrameInv /\ Switch!BreakAdmits(frame, e)
  BY <1>1 DEF SwitchInv, TodoInv, Switch!AppendNext, Switch!FrameAdmits
<1>3. /\ frame' = [frame EXCEPT !.change = c] /\ notes' = notes
      /\ broken' = [broken EXCEPT ![l] = b]
      /\ tail' = [tail EXCEPT !.fresh = FALSE]
      /\ sel' = Switch!Selected(sel, e) /\ todo' = Tail(todo)
      /\ UNCHANGED <<input, carried, refused, crashes>>
  BY <1>1 DEF Switch!AppendNext, Switch!FrameAfter
<1>4. /\ frame' = [declared |-> frame.declared, abis |-> frame.abis, active |-> frame.active,
                   change |-> c]
      /\ sel.frame = [declared |-> frame.declared, abis |-> frame.abis,
                      activated |-> sel.frame.activated, active |-> frame.active,
                      break |-> frame.change]
  <2>1. /\ frame = [declared |-> frame.declared, abis |-> frame.abis,
                    active |-> frame.active, change |-> frame.change]
        /\ sel.frame = [declared |-> frame.declared, abis |-> frame.abis,
                        activated |-> sel.frame.activated, active |-> frame.active,
                        break |-> frame.change]
    BY <1>2 DEF FrameInv
  <2>2. [frame EXCEPT !.change = c] =
          [declared |-> frame.declared, abis |-> frame.abis, active |-> frame.active,
           change |-> c]
    BY <2>1, FrameBreaks
  <2>3. QED
    BY <1>3, <2>1, <2>2
<1>t. /\ l \in Nat /\ l <= MaxLineages /\ frame.active \in 1..l /\ frame.active # l
      /\ DOMAIN frame.abis = 1..l /\ MaxLineages \in Nat
      /\ notes \in 0..MaxNotes /\ notes \in Nat
  BY FrameTyped
<1>5. sel' = [frame |-> [declared |-> frame.declared, abis |-> frame.abis,
                         activated |-> sel.frame.activated, active |-> frame.active, break |-> c],
              runs |-> [sel.runs EXCEPT !.last = "cache_break"], refused |-> FALSE]
  <2>1. /\ e.type \in Switch!FrameTypes /\ e.type # "lineage_activated"
        /\ Switch!KeepsFrame(sel.frame, e) = [sel.frame EXCEPT !.break = c]
    BY <1>1 DEF Switch!FrameTypes, Switch!KeepsFrame
  <2>2. Switch!SelectsFrame(sel.frame, sel.runs, e)
    <3>1. sel.frame.break = Switch!NoBreak /\ sel.frame.active = e.from
      BY <1>1, <1>2, <1>4 DEF Switch!BreakAdmits
    <3>2. e.to \in DOMAIN sel.frame.abis
      BY <1>1, <1>4, <1>t
    <3>3. (sel.frame.abis[e.from] = sel.frame.abis[e.to]) = (e.reason = "compaction")
      BY <1>1, <1>4 DEF Reason, Changes
    <3> HIDE DEF e
    <3>4. QED
      BY <1>1, <3>1, <3>2, <3>3 DEF Switch!SelectsFrame
  <2>3. sel.refused = FALSE
    BY <1>2 DEF FrameInv
  <2>4. Switch!KeepsFrame(sel.frame, e) =
          [declared |-> frame.declared, abis |-> frame.abis, activated |-> sel.frame.activated,
           active |-> frame.active, break |-> c]
    <3>2. /\ sel.frame.declared = frame.declared /\ sel.frame.abis = frame.abis
          /\ sel.frame.active = frame.active /\ sel.frame.break = frame.change
      BY <1>4
    <3>3. sel.frame = [declared |-> sel.frame.declared, abis |-> sel.frame.abis,
                       activated |-> sel.frame.activated, active |-> sel.frame.active,
                       break |-> sel.frame.break]
      BY <1>4
    <3>4. [sel.frame EXCEPT !.break = c] =
            [declared |-> sel.frame.declared, abis |-> sel.frame.abis,
             activated |-> sel.frame.activated, active |-> sel.frame.active, break |-> c]
      BY <3>3, SelectedBreaks
    <3>5. QED
      BY <2>1, <3>2, <3>4
  <2>5. QED
    BY <1>1, <1>3, <2>1, <2>2, <2>3, <2>4 DEF Switch!Selected
<1>6. FrameInv'
  <2>1. /\ frame'.abis = frame.abis /\ frame'.active = frame.active
        /\ frame'.declared = frame.declared /\ frame'.change = c
    BY <1>4
  <2>2. sel' = [frame |-> [declared |-> frame'.declared, abis |-> frame'.abis,
                           activated |-> sel'.frame.activated, active |-> frame'.active,
                           break |-> frame'.change],
                runs |-> sel'.runs, refused |-> FALSE]
    BY <1>4, <1>5
  <2>3. tail'.status = "completed"
    BY <1>2, <1>3 DEF SwitchInv, Agree, Switch!Projection
  <2>4. sel'.frame.activated \subseteq 1..frame'.active
    BY <1>2, <1>4, <1>5 DEF FrameInv
  <2>5. /\ frame'.change \in [from : 0..MaxLineages, to : 0..MaxLineages]
        /\ frame'.change.from = frame'.active
    BY <1>t, <2>1
  <2>6. frame' = [declared |-> frame'.declared, abis |-> frame'.abis,
                  active |-> frame'.active, change |-> frame'.change]
    BY <1>4
  <2>7. QED
    BY <1>2, <2>1, <2>2, <2>3, <2>4, <2>5, <2>6 DEF FrameInv
<1>b. b \in [reason : {"none", "compaction", "abi_change"}, note : 0..notes, before : 0..notes]
  BY <1>t DEF Reason, NoteOf
<1>c. /\ broken' \in [1..MaxLineages -> [reason : {"none", "compaction", "abi_change"},
                                        note : 0..notes, before : 0..notes]]
      /\ broken'[frame.active] = broken[frame.active] /\ broken'[l] = b
  <2>1. broken \in [1..MaxLineages -> [reason : {"none", "compaction", "abi_change"},
                                      note : 0..notes, before : 0..notes]]
    BY DEF SwitchInv, TypesInv
  <2> HIDE DEF b, l
  <2>2. QED
    BY <1>3, <1>t, <1>b, <2>1
<1>7. frame'.active = frame.active /\ sel'.runs = [sel.runs EXCEPT !.last = "cache_break"]
  BY <1>4, <1>5
<1>8. Agree(tail, sel.runs)' /\ TurnInv' /\ OwnInv' /\ CarryInv' /\ TypesInv'
  BY <1>2, <1>3, <1>7, <1>c, <1>t, PlainAppend DEF Switch!FrameTypes
<1>9. TodoInv'
  <2>1. tail'.status = "completed"
    BY <1>2, <1>3 DEF SwitchInv, Agree, Switch!Projection
  <2>2. /\ frame'.active = frame.active /\ frame'.abis = frame.abis /\ frame'.change = c
        /\ notes' = notes
    BY <1>3, <1>4
  <2>3. (Changes(abi)' <=> Changes(abi)) /\ Len(frame'.abis) = Len(frame.abis)
    BY <2>2 DEF Changes
  <2>4. /\ Reason(abi)' = Reason(abi) /\ NoteOf(abi, notes)' = NoteOf(abi, notes)
        /\ Enters(abi, Len(frame.abis))' = Enters(abi, Len(frame.abis))
    BY <2>2, <2>3 DEF Enters, Reason, NoteOf
  <2>5. /\ todo' = << Enters(abi, Len(frame.abis))' >>
        /\ broken'[Len(frame'.abis)] = [reason |-> Reason(abi)', note |-> NoteOf(abi, notes)',
                                        before |-> notes']
    BY <1>1, <1>3, <1>c, <2>2, <2>3, <2>4
  <2>6. LineageThere(abi)'
    BY <2>2, <2>3, <2>5 DEF LineageThere
  <2>7. QED
    BY <2>1, <2>6 DEF TodoInv, LeftOf
<1>10. QED
  BY <1>6, <1>8, <1>9 DEF SwitchInv

\* The other lineage becomes the active one.
LEMMA EnterKeeps ==
  ASSUME SwitchInv, Switch!AppendNext, NEW abi \in Abis,
         frame.active < Len(frame.abis), frame.abis[Len(frame.abis)] = abi, notes > 0,
         todo = << Enters(abi, Len(frame.abis)) >>,
         broken[Len(frame.abis)] = [reason |-> Reason(abi), note |-> NoteOf(abi, notes),
                                    before |-> notes],
         Switch!FrameAdmits(frame, Head(todo))
  PROVE  SwitchInv'
<1> DEFINE l == Len(frame.abis)
           e == Enters(abi, l)
<1>1. /\ Head(todo) = e /\ Tail(todo) = << >>
      /\ e.type = "lineage_activated" /\ e.from = frame.active /\ e.to = l
  BY TailsOf DEF Enters, Switch!LineageActivated
<1>2. /\ todo # << >> /\ tail.status = "completed" /\ FrameInv /\ Switch!ActivationAdmits(frame, e)
  BY <1>1 DEF SwitchInv, TodoInv, Switch!AppendNext, Switch!FrameAdmits
<1>3. /\ frame' = [frame EXCEPT !.active = l, !.change = Switch!NoBreak]
      /\ tail' = Switch!EmptyJournal /\ notes' = notes /\ broken' = broken
      /\ sel' = Switch!Selected(sel, e) /\ todo' = << >>
      /\ UNCHANGED <<input, carried, refused, crashes>>
  BY <1>1 DEF Switch!AppendNext, Switch!FrameAfter
<1>4. /\ frame' = [declared |-> frame.declared, abis |-> frame.abis, active |-> l,
                   change |-> Switch!NoBreak]
      /\ sel.frame = [declared |-> frame.declared, abis |-> frame.abis,
                      activated |-> sel.frame.activated, active |-> frame.active,
                      break |-> frame.change]
  <2>1. /\ frame = [declared |-> frame.declared, abis |-> frame.abis,
                    active |-> frame.active, change |-> frame.change]
        /\ sel.frame = [declared |-> frame.declared, abis |-> frame.abis,
                        activated |-> sel.frame.activated, active |-> frame.active,
                        break |-> frame.change]
    BY <1>2 DEF FrameInv
  <2>2. [frame EXCEPT !.active = l, !.change = Switch!NoBreak] =
          [declared |-> frame.declared, abis |-> frame.abis, active |-> l, change |-> Switch!NoBreak]
    <3>1. MovedFrame(frame, l, Switch!NoBreak) =
            [declared |-> frame.declared, abis |-> frame.abis, active |-> l, change |-> Switch!NoBreak]
      BY <2>1, FrameMoves
    <3>2. QED
      BY <3>1 DEF MovedFrame
  <2>3. QED
    BY <1>3, <2>1, <2>2
<1>t. /\ l \in Nat /\ l <= MaxLineages /\ frame.active \in 1..l /\ frame.active # l
      /\ DOMAIN frame.abis = 1..l /\ MaxLineages \in Nat
  BY FrameTyped
<1>a. sel.frame.activated \subseteq 1..frame.active
  BY <1>2 DEF FrameInv
<1>5. sel' = [frame |-> [declared |-> frame.declared, abis |-> frame.abis,
                         activated |-> sel.frame.activated \cup {l}, active |-> l,
                         break |-> Switch!NoBreak],
              runs |-> Switch!NewRuns, refused |-> FALSE]
  <2>1. /\ e.type \in Switch!FrameTypes /\ e.type = "lineage_activated"
        /\ Switch!KeepsFrame(sel.frame, e) =
             [sel.frame EXCEPT !.active = l, !.activated = @ \cup {l}, !.break = Switch!NoBreak]
    BY <1>1 DEF Switch!FrameTypes, Switch!KeepsFrame
  <2>2. Switch!SelectsFrame(sel.frame, sel.runs, e)
    <3>1. sel.frame.break = [from |-> e.from, to |-> e.to] /\ sel.frame.active = e.from
      BY <1>1, <1>2, <1>4 DEF Switch!ActivationAdmits
    <3>2. e.to \in DOMAIN sel.frame.abis \ sel.frame.activated
      BY <1>1, <1>4, <1>t, <1>a
    <3>3. ~ Switch!IsActive(sel.runs)
      BY <1>2 DEF SwitchInv, Agree, RunsAgree, Switch!IsActive
    <3> HIDE DEF e
    <3>4. QED
      BY <1>1, <3>1, <3>2, <3>3 DEF Switch!SelectsFrame
  <2>3. sel.refused = FALSE
    BY <1>2 DEF FrameInv
  <2>4. Switch!KeepsFrame(sel.frame, e) =
          [declared |-> frame.declared, abis |-> frame.abis,
           activated |-> sel.frame.activated \cup {l}, active |-> l, break |-> Switch!NoBreak]
    <3>2. /\ sel.frame.declared = frame.declared /\ sel.frame.abis = frame.abis
          /\ sel.frame.active = frame.active /\ sel.frame.break = frame.change
      BY <1>4
    <3>3. sel.frame = [declared |-> sel.frame.declared, abis |-> sel.frame.abis,
                       activated |-> sel.frame.activated, active |-> sel.frame.active,
                       break |-> sel.frame.break]
      BY <1>4
    <3>4. [sel.frame EXCEPT !.active = l, !.activated = sel.frame.activated \cup {l},
                            !.break = Switch!NoBreak] =
            [declared |-> sel.frame.declared, abis |-> sel.frame.abis,
             activated |-> sel.frame.activated \cup {l}, active |-> l, break |-> Switch!NoBreak]
      <4>1. MovedSelection(sel.frame, l, sel.frame.activated \cup {l}, Switch!NoBreak) =
              [declared |-> sel.frame.declared, abis |-> sel.frame.abis,
               activated |-> sel.frame.activated \cup {l}, active |-> l, break |-> Switch!NoBreak]
        <5>1. PICK f, z : f = sel.frame /\ z = sel.frame.activated \cup {l}
          OBVIOUS
        <5>2. f = [declared |-> f.declared, abis |-> f.abis, activated |-> f.activated,
                   active |-> f.active, break |-> f.break]
          BY <3>3, <5>1
        <5>3. MovedSelection(f, l, z, Switch!NoBreak) =
                [declared |-> f.declared, abis |-> f.abis, activated |-> z, active |-> l,
                 break |-> Switch!NoBreak]
          BY <5>2, SelectedMoves
        <5>4. QED
          BY <5>1, <5>3
      <4>2. QED
        BY <4>1 DEF MovedSelection
    <3>5. QED
      BY <2>1, <3>2, <3>4
  <2>5. QED
    BY <1>1, <1>3, <2>1, <2>2, <2>3, <2>4 DEF Switch!Selected
<1>6. FrameInv'
  <2>1. /\ frame'.abis = frame.abis /\ frame'.active = l
        /\ frame'.declared = frame.declared /\ frame'.change = Switch!NoBreak
    BY <1>4
  <2>2. sel' = [frame |-> [declared |-> frame'.declared, abis |-> frame'.abis,
                           activated |-> sel'.frame.activated, active |-> frame'.active,
                           break |-> frame'.change],
                runs |-> sel'.runs, refused |-> FALSE]
    BY <1>4, <1>5
  <2>3. sel'.frame.activated \subseteq 1..frame'.active
    <3>1. sel'.frame.activated = sel.frame.activated \cup {l}
      BY <1>5
    <3>2. QED
      BY <1>a, <1>t, <2>1, <3>1
  <2>4. frame'.change \in [from : 0..MaxLineages, to : 0..MaxLineages]
    BY <1>t, <2>1 DEF Switch!NoBreak
  <2>5. frame' = [declared |-> frame'.declared, abis |-> frame'.abis,
                  active |-> frame'.active, change |-> frame'.change]
    BY <1>4
  <2>6. frame'.active \in DOMAIN frame'.abis
    BY <1>t, <2>1
  <2>7. QED
    BY <1>2, <2>1, <2>2, <2>3, <2>4, <2>5, <2>6 DEF FrameInv
<1>7. Agree(tail, sel.runs)'
  <2>1. sel'.runs = Switch!NewRuns
    BY <1>5
  <2>2. QED
    BY <1>3, <2>1, NothingAgrees
<1>8. /\ tail'.run = 0 /\ tail'.blobs = 0 /\ tail'.next = 0 /\ tail'.calls = << >> /\ tail'.fresh = FALSE
      /\ input = None
  BY <1>2, <1>3 DEF Switch!EmptyJournal, SwitchInv, TurnInv, Switch!Active
<1>9. TurnInv'
  BY <1>3, <1>8 DEF TurnInv
<1>10. OwnInv'
  <2>1. /\ frame'.active = l
        /\ broken'[l] = [reason |-> Reason(abi), note |-> NoteOf(abi, notes), before |-> notes]
    BY <1>3, <1>4
  <2>2. /\ broken'[frame'.active].before = notes'
        /\ broken'[frame'.active].reason = Reason(abi)
        /\ broken'[frame'.active].note = NoteOf(abi, notes)
    BY <1>3, <2>1
  <2>3. QED
    BY <1>3, <2>2 DEF OwnInv, Reason, NoteOf
<1>11. CarryInv'
  BY <1>8 DEF CarryInv
<1>12. TypesInv'
  <2>1. tail'.blobs <= MaxRoles + tail'.next /\ Len(tail'.calls) <= MaxCalls
    <3>1. Len(tail'.calls) = 0
      BY <1>8
    <3>2. QED
      BY <1>8, <3>1, SwitchConstants, CallsAssumption
  <2>2. QED
    BY <1>3, <2>1 DEF SwitchInv, TypesInv
<1>13. TodoInv'
  BY <1>3 DEF TodoInv
<1>14. QED
  BY <1>6, <1>7, <1>9, <1>10, <1>11, <1>12, <1>13 DEF SwitchInv

\* The next event of a switch, whichever it is.
LEMMA AppendKeeps ==
  ASSUME SwitchInv, Switch!AppendNext
  PROVE  SwitchInv'
<1>1. PICK abi \in Abis : LeftOf(abi)
  BY DEF SwitchInv, TodoInv, Switch!AppendNext
<1>2. CASE ~ Switch!FrameAdmits(frame, Head(todo))
  BY <1>2, RefusedKeeps
<1>3. CASE Switch!FrameAdmits(frame, Head(todo))
  <2>1. CASE Unstarted(abi)
    BY <2>1, NoteKeeps
  <2>2. CASE Summarised(abi)
    <3>1. Len(frame.abis) < MaxLineages /\ notes > 0
      BY <2>2, FrameTyped DEF Summarised
    <3>2. CASE /\ Changes(abi)
               /\ todo = << Switch!AbiDeclared(abi), Switch!LineageStarted(Len(frame.abis) + 1, abi),
                            Leaves(abi, Len(frame.abis) + 1, notes), Enters(abi, Len(frame.abis) + 1) >>
      BY <1>3, <3>1, <3>2, DeclareKeeps
    <3>3. CASE todo = << Switch!LineageStarted(Len(frame.abis) + 1, abi),
                         Leaves(abi, Len(frame.abis) + 1, notes), Enters(abi, Len(frame.abis) + 1) >>
      BY <1>3, <3>1, <3>3, StartKeeps
    <3>4. QED
      BY <2>2, <3>2, <3>3 DEF Summarised
  <2>3. CASE LineageThere(abi)
    <3>1. CASE todo = << Leaves(abi, Len(frame.abis), notes), Enters(abi, Len(frame.abis)) >>
      BY <1>3, <2>3, <3>1, LeaveKeeps DEF LineageThere
    <3>2. CASE /\ todo = << Enters(abi, Len(frame.abis)) >>
               /\ broken[Len(frame.abis)] = [reason |-> Reason(abi), note |-> NoteOf(abi, notes),
                                             before |-> notes]
      BY <1>3, <2>3, <3>2, EnterKeeps DEF LineageThere
    <3>3. QED
      BY <2>3, <3>1, <3>2 DEF LineageThere
  <2>4. QED
    BY <1>1, <2>1, <2>2, <2>3 DEF LeftOf
<1>4. QED
  BY <1>2, <1>3

\* A switch begins.
LEMMA BeginKeeps ==
  ASSUME SwitchInv, Switch!Begin
  PROVE  SwitchInv'
<1>1. UNCHANGED <<frame, broken, notes, tail, sel, input, carried, refused, crashes>>
  BY DEF Switch!Begin
<1>2. FrameInv' /\ TurnInv' /\ OwnInv' /\ CarryInv' /\ Agree(tail, sel.runs)'
  BY <1>1 DEF SwitchInv, FrameInv, TurnInv, OwnInv, CarryInv, Switch!Active
<1>3. TypesInv'
  BY <1>1 DEF SwitchInv, TypesInv
<1>4. TodoInv'
  <2> DEFINE l == Len(frame.abis) + 1
             n == notes + 1
  <2>1. PICK abi \in Abis :
          todo' = << Switch!NotePublished(n) >>
                    \o (IF Changes(abi) THEN << Switch!AbiDeclared(abi) >> ELSE << >>)
                    \o << Switch!LineageStarted(l, abi), Leaves(abi, l, n), Enters(abi, l) >>
    BY DEF Switch!Begin, Changes, Leaves, Enters, Reason, NoteOf
  <2>2. tail.status = "completed" /\ notes < MaxNotes /\ Len(frame.abis) < MaxLineages
    BY DEF Switch!Begin
  <2>3. l <= MaxLineages /\ n <= MaxNotes
    BY <2>2, FrameTyped
  <2>4. \/ /\ Changes(abi)
           /\ todo' = << Switch!NotePublished(n), Switch!AbiDeclared(abi), Switch!LineageStarted(l, abi),
                         Leaves(abi, l, n), Enters(abi, l) >>
        \/ /\ ~ Changes(abi)
           /\ todo' = << Switch!NotePublished(n), Switch!LineageStarted(l, abi), Leaves(abi, l, n),
                         Enters(abi, l) >>
    <3>1. CASE Changes(abi)
      <4>1. << Switch!NotePublished(n) >> \o << Switch!AbiDeclared(abi) >> = << Switch!NotePublished(n), Switch!AbiDeclared(abi) >>
        BY OneOne
      <4>2. QED
        BY <2>1, <3>1, <4>1, TwoThree
    <3>2. CASE ~ Changes(abi)
      <4>1. << Switch!NotePublished(n) >> \o << >> = << Switch!NotePublished(n) >>
        BY OneOne
      <4>2. QED
        BY <2>1, <3>2, <4>1, OneThree
    <3>3. QED
      BY <3>1, <3>2
  <2>5. Unstarted(abi)'
    BY <1>1, <2>3, <2>4 DEF Unstarted, Changes, Leaves, Enters, Reason, NoteOf
  <2>6. QED
    BY <1>1, <2>2, <2>5 DEF TodoInv, LeftOf
<1>5. QED
  BY <1>2, <1>3, <1>4 DEF SwitchInv

\* The process dies.
LEMMA CrashKeeps ==
  ASSUME SwitchInv, Switch!Crash
  PROVE  SwitchInv'
<1>1. /\ UNCHANGED <<frame, broken, notes, tail, sel, carried, refused>>
      /\ todo' = << >> /\ input' = None /\ crashes' = crashes + 1
      /\ crashes' \in 0..MaxCrashes /\ crashes' # 0
  BY SwitchConstants DEF Switch!Crash, SwitchInv, TypesInv
<1>2. FrameInv' /\ TurnInv' /\ OwnInv' /\ CarryInv' /\ Agree(tail, sel.runs)'
  BY <1>1 DEF SwitchInv, FrameInv, TurnInv, OwnInv, CarryInv, Switch!Active
<1>3. TypesInv'
  BY <1>1 DEF SwitchInv, TypesInv
<1>4. TodoInv'
  BY <1>1 DEF TodoInv
<1>5. QED
  BY <1>2, <1>3, <1>4 DEF SwitchInv

\* An event of a run.
LEMMA TurnKeeps ==
  ASSUME SwitchInv, Switch!Turn
  PROVE  SwitchInv'
<1> DEFINE r == sel.runs
<1>1. PICK e \in Switch!KernelEvents(tail) :
        /\ Switch!InBounds(e) /\ Switch!Commits(e) /\ Switch!RunAdmits(e)
        /\ tail' = Switch!After(tail, e) /\ sel' = Switch!Selected(sel, e)
        /\ input' = CASE e.type = "run_started" ->
                           IF e.cause = "recovery" THEN None ELSE Switch!PendingSummary
                      [] e.type \in {"run_completed", "run_interrupted"} -> None
                      [] OTHER -> input
        /\ carried' = IF e.type = "user_committed" /\ tail.blobs = 0
                      THEN [carried EXCEPT ![frame.active] = input] ELSE carried
  BY DEF Switch!Turn
<1>2. /\ UNCHANGED <<frame, broken, notes, todo, refused, crashes>> /\ todo = << >>
  BY DEF Switch!Turn
<1>3. /\ Agree(tail, r) /\ tail \in Switch!Projection
      /\ Switch!Admits(tail, e) /\ (e.type = "effect_reconciled" => e.call \in DOMAIN tail.calls)
      /\ e.type = "run_started" => frame.change = Switch!NoBreak
  BY <1>1 DEF SwitchInv, Agree, Switch!RunAdmits, Switch!InBounds
<1>4. Switch!Selects(r, e) /\ Agree(Switch!After(tail, e), Noted(r, e))
  BY <1>3, EventAgrees
<1>5. e.type \in Switch!EventTypes \ {"journal_tail_recovered"} /\ e.type \notin Switch!FrameTypes
  BY EventShapes DEF Switch!EventTypes, Switch!FrameTypes
<1>6. sel' = [frame |-> sel.frame, runs |-> Noted(r, e), refused |-> FALSE]
  <2>1. sel = [frame |-> sel.frame, runs |-> sel.runs, refused |-> FALSE]
    BY DEF SwitchInv, FrameInv
  <2>2. sel' = [sel EXCEPT !.runs = Noted(r, e), !.refused = sel.refused \/ ~ Switch!Selects(r, e)]
    BY <1>1, <1>5 DEF Switch!Selected, Noted
  <2>3. (sel.refused \/ ~ Switch!Selects(r, e)) = FALSE
    BY <1>4, <2>1
  <2>4. sel' = [sel EXCEPT !.runs = Noted(r, e), !.refused = FALSE]
    BY <2>2, <2>3
  <2>5. QED
    BY <2>1, <2>4
<1>7. Agree(tail, sel.runs)'
  <2>1. sel'.runs = Noted(r, e)
    BY <1>6
  <2>2. QED
    BY <1>1, <1>4, <2>1
<1> DEFINE K == Switch!After(tail, e)
<1>8. K \in Switch!Projection /\ tail' = K
  BY <1>1, <1>4 DEF Agree
<1>m. /\ e.type = "run_started" =>
           /\ Switch!AdmitsRun(tail, e.cause) /\ K.run = tail.run + 1 /\ K.cause = e.cause
           /\ K.status = "active" /\ K.gate = "open" /\ K.att = tail.att /\ K.snap = tail.snap
      /\ e.type # "run_started" => Switch!Active(tail) /\ K.run = tail.run
      /\ e.type \notin {"run_started", "run_completed", "run_interrupted"} => K.status = tail.status
      /\ K.fresh <=> e.type = "commit_boundary_created"
  BY <1>3, RunsMove
<1>g. /\ e.type \in {"user_committed", "assistant_committed", "tool_result_committed"} =>
           K.blobs = tail.blobs + 1
      /\ e.type \notin {"user_committed", "assistant_committed", "tool_result_committed"} =>
           K.blobs = tail.blobs /\ K.next = tail.next
      /\ e.type = "user_committed" => K.next = tail.next
      /\ e.type = "tool_result_committed" => K.next = tail.next + 1 /\ Switch!Pending(tail)
      /\ e.type = "assistant_committed" => Len(K.calls) <= 1 /\ tail.att # "none"
      /\ e.type # "assistant_committed" => Len(K.calls) = Len(tail.calls)
  BY <1>3, <1>8, MessagesGrow
<1>n. /\ tail.blobs \in Nat /\ tail.next \in Nat /\ tail.run \in Nat /\ K.blobs \in Nat /\ K.next \in Nat
      /\ tail.calls \in Seq(Switch!Call) /\ K.calls \in Seq(Switch!Call)
  BY <1>3, <1>8 DEF Switch!Projection
<1> HIDE DEF K
<1>9. FrameInv'
  <2>1. frame.change = Switch!NoBreak
    BY <1>m, <1>3 DEF SwitchInv, FrameInv, Switch!Active
  <2>2. sel'.frame = sel.frame /\ sel' = [frame |-> sel.frame, runs |-> sel'.runs, refused |-> FALSE]
    BY <1>6
  <2>3. QED
    BY <1>2, <2>1, <2>2, FrameStaysOpen DEF SwitchInv
<1>10. TodoInv'
  BY <1>2 DEF TodoInv
<1>11. TurnInv'
  <2>1. input' # None => Switch!Active(tail)'
    <3>1. CASE e.type = "run_started"
      BY <1>8, <1>m, <3>1 DEF Switch!Active
    <3>2. CASE e.type \in {"run_completed", "run_interrupted"}
      BY <1>1, <3>2
    <3>3. CASE e.type \notin {"run_started", "run_completed", "run_interrupted"}
      BY <1>8, <1>m, <3>3 DEF Switch!Active
    <3>4. QED
      BY <3>1, <3>2, <3>3
  <2>2. tail'.fresh => Switch!Active(tail)'
    BY <1>8, <1>m DEF Switch!Active
  <2>3. tail'.blobs = 0 => tail'.calls = << >>
    <3>1. SUFFICES ASSUME K.blobs = 0 PROVE K.calls = << >>
      BY <1>8
    <3>2. tail.blobs = 0 /\ e.type # "assistant_committed"
      BY <1>n, <1>g, <3>1
    <3>3. tail.calls = << >>
      BY <3>2 DEF SwitchInv, TurnInv
    <3>4. Len(K.calls) = 0
      BY <1>g, <3>2, <3>3
    <3>5. QED
      BY <1>n, <3>4, EmptySeq
  <2>4. QED
    BY <2>1, <2>2, <2>3 DEF TurnInv
<1>12. OwnInv'
  BY <1>2, <1>8, <1>m, <1>n DEF SwitchInv, OwnInv
<1>o. Switch!PendingSummary \in 0..notes
  <2>1. frame.active \in 1..MaxLineages /\ notes \in 0..MaxNotes
    BY FrameTyped
  <2>2. broken[frame.active] \in [reason : {"none", "compaction", "abi_change"},
                                  note : 0..notes, before : 0..notes]
    BY <2>1 DEF SwitchInv, TypesInv
  <2>3. QED
    BY <2>1, <2>2 DEF Switch!PendingSummary
<1>13. TypesInv'
  <2>1. input' \in {None} \cup 0..notes
    BY <1>1, <1>o DEF SwitchInv, TypesInv
  <2>2. carried' \in [1..MaxLineages -> 0..notes]
    <3>1. carried \in [1..MaxLineages -> 0..notes] /\ frame.active \in 1..MaxLineages
      BY FrameTyped DEF SwitchInv, TypesInv
    <3>2. CASE e.type = "user_committed" /\ tail.blobs = 0
      <4>1. input \in 0..notes
        BY <1>1, <3>2 DEF Switch!Commits, SwitchInv, TypesInv
      <4>2. carried' = [carried EXCEPT ![frame.active] = input]
        BY <1>1, <3>2
      <4>3. QED
        BY <3>1, <4>1, <4>2
    <3>3. CASE ~ (e.type = "user_committed" /\ tail.blobs = 0)
      <4>1. carried' = carried
        BY <1>1, <3>3
      <4>2. QED
        BY <3>1, <4>1
    <3>4. QED
      BY <3>2, <3>3
  <2>3. K.blobs <= MaxRoles + K.next
    <3>1. MaxRoles \in Nat /\ tail.blobs <= MaxRoles + tail.next
      BY SwitchConstants DEF SwitchInv, TypesInv
    <3>2. e.type \in {"user_committed", "assistant_committed"} => tail.blobs < MaxRoles
      BY <1>1 DEF Switch!InBounds
    <3>3. QED
      BY <1>n, <1>g, <3>1, <3>2
  <2>4. Len(K.calls) <= MaxCalls
    <3>1. Len(tail.calls) <= MaxCalls /\ MaxCalls \in Nat /\ MaxCalls >= 1
      BY CallsAssumption DEF SwitchInv, TypesInv
    <3>2. Len(K.calls) \in Nat
      BY <1>n
    <3>3. QED
      BY <1>g, <3>1, <3>2
  <2>5. QED
    BY <1>2, <1>8, <2>1, <2>2, <2>3, <2>4 DEF SwitchInv, TypesInv
<1>14. CarryInv'
  <2>1. SUFFICES ASSUME crashes = 0, frame.active > 1
                 PROVE  /\ tail'.run > 0 /\ tail'.blobs = 0 =>
                             /\ tail'.run = 1 /\ tail'.status = "active" /\ tail'.cause = "user"
                             /\ tail'.gate = "open" /\ tail'.att = "none" /\ tail'.snap = 0
                             /\ input' = broken[frame.active].before
                        /\ tail'.blobs > 0 =>
                             carried'[frame.active] = broken[frame.active].before
    BY <1>2 DEF CarryInv
  <2>a. frame.active \in 1..MaxLineages /\ broken[frame.active].before \in 0..notes
        /\ notes \in Nat /\ carried \in [1..MaxLineages -> 0..notes]
    <3>1. frame.active \in 1..MaxLineages /\ notes \in 0..MaxNotes /\ MaxNotes \in Nat
      BY FrameTyped
    <3>2. /\ broken \in [1..MaxLineages -> [reason : {"none", "compaction", "abi_change"},
                                            note : 0..notes, before : 0..notes]]
          /\ carried \in [1..MaxLineages -> 0..notes]
      BY DEF SwitchInv, TypesInv
    <3>3. broken[frame.active] \in [reason : {"none", "compaction", "abi_change"},
                                    note : 0..notes, before : 0..notes]
      BY <3>1, <3>2
    <3>4. QED
      BY <3>1, <3>2, <3>3
  <2>b. /\ tail.run > 0 /\ tail.blobs = 0 =>
             /\ tail.run = 1 /\ tail.status = "active" /\ tail.cause = "user" /\ tail.gate = "open"
             /\ tail.att = "none" /\ tail.snap = 0 /\ input = broken[frame.active].before
        /\ tail.blobs > 0 => carried[frame.active] = broken[frame.active].before
    BY <2>1 DEF SwitchInv, CarryInv
  <2>2. CASE e.type = "run_started"
    <3>1. tail'.blobs = tail.blobs /\ carried' = carried
      BY <1>1, <1>8, <1>g, <2>2
    <3>2. CASE tail.blobs > 0
      BY <1>n, <2>b, <3>1, <3>2
    <3>3. CASE tail.blobs = 0
      <4>1. ~ Switch!Active(tail)
        BY <1>m, <2>2 DEF Switch!AdmitsRun
      <4>2. tail.run = 0
        BY <1>n, <2>b, <3>3, <4>1 DEF Switch!Active
      <4>3. tail.status = "none"
        BY <1>3, <4>2 DEF Agree, RunsAgree
      <4>4. e.cause = "user"
        <5>1. e.cause \in {"user", "continue", "recovery"}
          BY <2>2, EventShapes DEF Switch!Causes
        <5>2. QED
          BY <1>m, <2>2, <4>3, <5>1 DEF Switch!AdmitsRun
      <4>5. tail.att = "none" /\ tail.snap = 0
        BY <1>3, <4>1, <4>2 DEF Agree, AttemptsAgree, SnapshotsAgree, Switch!Projection
      <4>6. input' = Switch!PendingSummary
        BY <1>1, <2>2, <4>4
      <4>7. Switch!PendingSummary = broken[frame.active].before
        BY <2>1, <4>2 DEF SwitchInv, OwnInv, Switch!PendingSummary
      <4>8. QED
        BY <1>8, <1>m, <1>n, <2>2, <3>1, <3>3, <4>2, <4>4, <4>5, <4>6, <4>7
    <3>4. QED
      BY <1>n, <3>2, <3>3
  <2>3. CASE e.type # "run_started" /\ tail.blobs > 0
    <3>1. tail'.blobs > 0 /\ carried' = carried
      BY <1>1, <1>8, <1>g, <1>n, <2>3
    <3>2. QED
      BY <2>b, <2>3, <3>1
  <2>4. CASE e.type # "run_started" /\ tail.blobs = 0
    <3>1. Switch!Active(tail) /\ tail.run > 0
      <4>1. Switch!Active(tail)
        BY <1>m, <2>4
      <4>2. tail.run # 0
        BY <1>3, <4>1 DEF Agree, RunsAgree, Switch!Active
      <4>3. QED
        BY <1>n, <4>1, <4>2
    <3>2. /\ tail.run = 1 /\ tail.cause = "user" /\ tail.gate = "open" /\ tail.att = "none"
          /\ tail.snap = 0
          /\ input = broken[frame.active].before /\ input # None
      BY <2>a, <2>b, <2>4, <3>1, NumbersAssumption
    <3>3. tail.bound = 0 /\ tail.boundRun # tail.run /\ tail.calls = << >>
      <4>1. tail.bound = 0 /\ tail.calls = << >>
        BY <1>3, <2>4 DEF Agree, BoundariesAgree, Switch!Projection, SwitchInv, TurnInv
      <4>2. Len(r.boundaries) = 0
        BY <1>3, <4>1, BoundaryFields DEF Agree, BoundariesAgree
      <4>3. tail.boundRun = 0
        BY <1>3, <4>2 DEF Agree, BoundariesAgree
      <4>4. QED
        BY <3>2, <4>1, <4>3
    <3>4. e.type \in {"user_committed", "run_interrupted"}
      BY <1>3, <2>4, <3>1, <3>2, <3>3, FirstMessage
    <3>5. e.type = "user_committed"
      BY <1>1, <3>2, <3>3, <3>4 DEF Switch!Commits
    <3>6. carried' = [carried EXCEPT ![frame.active] = input] /\ tail'.blobs = 1
      BY <1>1, <1>8, <1>g, <2>4, <3>5
    <3>7. carried'[frame.active] = broken[frame.active].before
      BY <2>a, <3>2, <3>6
    <3>8. QED
      BY <3>6, <3>7
  <2>5. QED
    BY <1>n, <2>2, <2>3, <2>4
<1>15. QED
  BY <1>7, <1>9, <1>10, <1>11, <1>12, <1>13, <1>14 DEF SwitchInv

\* What the invariant says of the session is what the run checks.
LEMMA SwitchInvShows ==
  ASSUME SwitchInv
  PROVE  Switch!TypeOK /\ Switch!BoundaryIsSelectable /\ Switch!SummaryIsItsOwn
         /\ Switch!NothingForgotten /\ Switch!NoRunInASwitch
<1>t. /\ tail \in Switch!Projection /\ sel.runs \in Selections /\ FrameInv /\ TypesInv
  BY DEF SwitchInv, Agree
<1>1. Switch!TypeOK
  <2>1. frame.abis \in UNION {[1..n -> frame.declared] : n \in 1..MaxLineages}
    <3>1. /\ frame.abis \in [1..Len(frame.abis) -> frame.declared]
          /\ Len(frame.abis) \in 1..MaxLineages
      BY FrameTyped, LenProperties
    <3>2. QED
      BY <3>1
  <2>2. \A l \in 1..MaxLineages : broken[l].note \in 0..notes /\ carried[l] \in 0..notes
    BY <1>t DEF TypesInv
  <2>3. sel.refused \in BOOLEAN /\ frame.active \in 1..MaxLineages
    <3>1. sel.refused = FALSE
      BY <1>t DEF FrameInv
    <3>2. frame.active \in 1..MaxLineages
      BY FrameTyped
    <3>3. QED
      BY <3>1, <3>2
  <2>4. sel.runs.roles \in 0..MaxRoles + MaxCalls
    <3>1. /\ tail.blobs \in Nat /\ tail.next \in Nat /\ MaxRoles \in Nat /\ MaxCalls \in Nat
          /\ Len(tail.calls) \in Nat
      BY <1>t, SwitchConstants, CallsAssumption DEF Switch!Projection
    <3>2. sel.runs.roles = tail.blobs /\ tail.next <= Len(tail.calls)
      BY DEF SwitchInv, Agree, BoundariesAgree, CallsAgree
    <3>3. tail.blobs <= MaxRoles + tail.next /\ Len(tail.calls) <= MaxCalls
      BY <1>t DEF TypesInv
    <3>4. QED
      BY <3>1, <3>2, <3>3
  <2>5. tail.calls \in Seq(Switch!Call) /\ tail.gate \in Switch!Gates /\ tail.status \in Switch!Statuses
    BY <1>t DEF Switch!Projection
  <2>6. /\ frame.declared \subseteq Abis
        /\ frame.change \in [from : 0..MaxLineages, to : 0..MaxLineages]
        /\ notes \in 0..MaxNotes /\ input \in {None} \cup 0..notes
        /\ refused \in BOOLEAN /\ crashes \in 0..MaxCrashes
    BY <1>t DEF FrameInv, TypesInv
  <2>7. QED
    BY <2>1, <2>2, <2>3, <2>4, <2>5, <2>6 DEF Switch!TypeOK
<1>2. Switch!BoundaryIsSelectable
  <2>1. SUFFICES ASSUME tail.fresh
                 PROVE  Switch!Selectable(sel) /\ sel.frame.active = frame.active
                        /\ sel.runs.roles = tail.blobs
    BY DEF Switch!BoundaryIsSelectable
  <2>2. /\ sel.refused = FALSE /\ sel.frame.break = frame.change
        /\ sel.frame.active = frame.active
    BY <1>t DEF FrameInv
  <2>3. frame.change = Switch!NoBreak
    BY <1>t, <2>1 DEF FrameInv, SwitchInv, TurnInv, Switch!Active
  <2>4. /\ sel.runs.roles = tail.blobs /\ Len(sel.runs.boundaries) > 0
        /\ sel.runs.last = "commit_boundary_created"
        /\ sel.runs.boundaries[Len(sel.runs.boundaries)].roles = tail.blobs
    BY <2>1 DEF SwitchInv, Agree, BoundariesAgree
  <2>5. QED
    BY <2>2, <2>3, <2>4 DEF Switch!Selectable
<1>3. Switch!SummaryIsItsOwn
  <2>1. SUFFICES ASSUME Switch!PendingSummary # 0
                 PROVE  Switch!PendingSummary = notes
                        /\ broken[frame.active].before = Switch!PendingSummary
    BY DEF Switch!SummaryIsItsOwn
  <2>2. frame.active # 1 /\ ~ (tail.run > 0) /\ broken[frame.active].reason # "none"
    BY <2>1 DEF Switch!PendingSummary
  <2>3. frame.active > 1 /\ tail.run = 0
    BY <1>t, <2>2, FrameTyped DEF Switch!Projection
  <2>4. QED
    BY <2>2, <2>3 DEF SwitchInv, OwnInv, Switch!PendingSummary
<1>4. Switch!NothingForgotten
  BY DEF SwitchInv, CarryInv, Switch!NothingForgotten
<1>5. Switch!NoRunInASwitch
  BY <1>t DEF FrameInv, Switch!NoRunInASwitch, Switch!Active
<1>6. QED
  BY <1>1, <1>2, <1>3, <1>4, <1>5

\* Every step.
LEMMA StepKeeps ==
  ASSUME SwitchInv, [Switch!Next]_switchVars
  PROVE  SwitchInv'
<1>1. CASE Switch!Next
  BY <1>1, TurnKeeps, BeginKeeps, AppendKeeps, CrashKeeps DEF Switch!Next
<1>2. CASE UNCHANGED switchVars
  <2>1. UNCHANGED <<frame, broken, notes, tail, sel, todo, input, carried, refused, crashes>>
    BY <1>2 DEF switchVars
  <2>2. FrameInv' /\ TurnInv' /\ OwnInv' /\ CarryInv' /\ Agree(tail, sel.runs)'
    BY <2>1 DEF SwitchInv, FrameInv, TurnInv, OwnInv, CarryInv, Switch!Active
  <2>3. TypesInv' /\ TodoInv'
    BY <2>1 DEF SwitchInv, TypesInv, TodoInv, LeftOf, Unstarted, Summarised, LineageThere, Changes,
       Reason, NoteOf, Leaves, Enters
  <2>4. QED
    BY <2>2, <2>3 DEF SwitchInv
<1>3. QED
  BY <1>1, <1>2

\* A session that is about to begin is fine, and every step leaves it so: the
\* two reducers agree, and what a lineage owes and carries is the summary of the
\* one it replaced.
LEMMA SwitchIsInvariant == TurnsSpec => [](scene = "switch" => SwitchInv)
<1>1. TurnsInit => (scene = "switch" => SwitchInv)
  BY InitIsFine DEF TurnsInit, TurnsBegin
<1>2. (scene = "switch" => SwitchInv) /\ [TurnsNext]_turnsVars => (scene = "switch" => SwitchInv)'
  <2>1. SUFFICES ASSUME scene = "switch" => SwitchInv, [TurnsNext]_turnsVars, scene' = "switch"
                 PROVE  SwitchInv'
    OBVIOUS
  <2>2. scene = "switch" /\ SwitchInv /\ [Switch!Next]_switchVars
    BY <2>1 DEF TurnsNext, turnsVars
  <2>3. QED
    BY <2>2, StepKeeps
<1>3. QED
  BY <1>1, <1>2, PTL DEF TurnsSpec

\* The two reducers of the journal agree on every boundary; a lineage owes the
\* summary of the one it replaced, opens with it unless a process died on the way,
\* and no run starts in the middle of a switch.
THEOREM SwitchIsWholeHolds == TurnsSpec => []SwitchIsWhole
<1>1. (scene = "switch" => SwitchInv) => SwitchIsWhole
  BY SwitchInvShows DEF SwitchIsWhole
<1>2. QED
  BY <1>1, SwitchIsInvariant, PTL
-----------------------------------------------------------------------------
(* The ledger of the session and the budget of a turn: what CostLedgerProofs *)
(* proves, of the three scenes that use it.                                  *)

\* What the proofs of the ledger assume.
LEMMA LedgerConstants ==
  /\ Ledger!KindsAssumption /\ Ledger!MaxCallsAssumption /\ Ledger!CostAssumption
  /\ Searches!KindsAssumption /\ Searches!MaxCallsAssumption /\ Searches!CostAssumption
  /\ Budget!KindsAssumption /\ Budget!MaxCallsAssumption /\ Budget!CostAssumption
  /\ "search" \notin PlainKinds /\ Budget!FixedPrice
<1>1. MaxCalls \in Nat \ {0}
  BY CallsAssumption
<1>2. PlainKinds \subseteq Switch!AllKinds \ {"search"} /\ SearchKinds \subseteq Switch!AllKinds
  BY UsesAssumption
<1>3. Ledger!KindsAssumption /\ Searches!KindsAssumption /\ Budget!KindsAssumption
  BY <1>2 DEF Ledger!KindsAssumption, Searches!KindsAssumption, Budget!KindsAssumption,
     Switch!AllKinds, Ledger!AllKinds, Searches!AllKinds, Budget!AllKinds
<1>4. Ledger!MaxCallsAssumption /\ Searches!MaxCallsAssumption /\ Budget!MaxCallsAssumption
  BY <1>1 DEF Ledger!MaxCallsAssumption, Searches!MaxCallsAssumption, Budget!MaxCallsAssumption
<1>5. Ledger!CostAssumption /\ Searches!CostAssumption /\ Budget!CostAssumption
  BY PricesAssumption
<1>6. Budget!FixedPrice
  BY <1>2, UsesAssumption DEF Budget!FixedPrice
<1>7. QED
  BY <1>2, <1>3, <1>4, <1>5, <1>6

LedgerInvariant ==
  /\ scene = "ledger" => Ledger!IInv
  /\ scene = "searches" => Searches!IInv
  /\ scene = "budget" => Budget!IInv /\ Budget!SpendInv

\* Each scene begins in the invariant of its ledger.
LEMMA LedgerBegins ==
  ASSUME TurnsInit
  PROVE  LedgerInvariant
<1>1. ASSUME scene = "ledger" PROVE Ledger!IInv
  <2>1. Ledger!Init
    BY <1>1 DEF TurnsInit, TurnsBegin
  <2>2. QED
    BY <2>1, LedgerConstants, Ledger!InitIInv
<1>2. ASSUME scene = "searches" PROVE Searches!IInv
  <2>1. Searches!Init
    BY <1>2 DEF TurnsInit, TurnsBegin
  <2>2. QED
    BY <2>1, LedgerConstants, Searches!InitIInv
<1>3. ASSUME scene = "budget" PROVE Budget!IInv /\ Budget!SpendInv
  <2>1. Budget!Init
    BY <1>3 DEF TurnsInit, TurnsBegin
  <2>2. QED
    BY <2>1, LedgerConstants, Budget!InitIInv, Budget!InitSpend
<1>4. QED
  BY <1>1, <1>2, <1>3 DEF LedgerInvariant

\* Each step of a scene keeps it.
LEMMA LedgerKeeps ==
  ASSUME LedgerInvariant, [TurnsNext]_turnsVars
  PROVE  LedgerInvariant'
<1>0. scene' = scene
  BY DEF TurnsNext, turnsVars
<1>1. ASSUME scene = "ledger" PROVE Ledger!IInv'
  <2>1. Ledger!IInv
    BY <1>1 DEF LedgerInvariant
  <2>2. [Ledger!Next]_(Ledger!vars)
    BY <1>1 DEF TurnsNext, turnsVars, ledgerVars, Ledger!vars
  <2>3. QED
    BY <2>1, <2>2, LedgerConstants, Ledger!NextIInv
<1>2. ASSUME scene = "searches" PROVE Searches!IInv'
  <2>1. Searches!IInv
    BY <1>2 DEF LedgerInvariant
  <2>2. [Searches!Next]_(Searches!vars)
    BY <1>2 DEF TurnsNext, turnsVars, ledgerVars, Searches!vars
  <2>3. QED
    BY <2>1, <2>2, LedgerConstants, Searches!NextIInv
<1>3. ASSUME scene = "budget" PROVE Budget!IInv' /\ Budget!SpendInv'
  <2>1. Budget!IInv /\ Budget!SpendInv
    BY <1>3 DEF LedgerInvariant
  <2>2. [Budget!Next]_(Budget!vars)
    BY <1>3 DEF TurnsNext, turnsVars, ledgerVars, Budget!vars
  <2>3. QED
    BY <2>1, <2>2, LedgerConstants, Budget!NextIInv, Budget!SpendStep
<1>4. QED
  BY <1>0, <1>1, <1>2, <1>3 DEF LedgerInvariant

\* The invariant shows what the ledger promises.
LEMMA LedgerShows ==
  ASSUME LedgerInvariant
  PROVE  LedgerIsTrue
<1>1. ASSUME scene = "ledger"
      PROVE  /\ Ledger!TypeOK /\ Ledger!LedgerReadsEveryJournal /\ Ledger!LedgerIsLowerBound
             /\ Ledger!CompleteIsExact /\ Ledger!ClosedMeansSettled
  <2>1. Ledger!IInv
    BY <1>1 DEF LedgerInvariant
  <2>2. QED
    BY <2>1, LedgerConstants, Ledger!IInvTypes, Ledger!IInvLowerBound, Ledger!IInvExact,
       Ledger!IInvSettled
<1>2. ASSUME scene = "searches"
      PROVE  Searches!LedgerReadsEveryJournal /\ Searches!LedgerIsLowerBound
  <2>1. Searches!IInv
    BY <1>2 DEF LedgerInvariant
  <2>2. QED
    BY <2>1, LedgerConstants, Searches!IInvLowerBound
<1>3. ASSUME scene = "budget" PROVE Budget!SpendIsBounded
  <2>1. Budget!SpendInv
    BY <1>3 DEF LedgerInvariant
  <2>2. QED
    BY <2>1, LedgerConstants, Budget!SpendBounded
<1>4. QED
  BY <1>1, <1>2, <1>3 DEF LedgerIsTrue

\* Every journal has a report; it never says more than the provider charges, says
\* exactly that when it calls itself complete, and agrees with the projection on
\* what is settled, over lineages, searches, prices that change and answers that
\* were lost.  A turn with a budget spends less than its limit and one answer.
THEOREM LedgerIsTrueHolds == TurnsSpec => []LedgerIsTrue
<1>1. TurnsInit => LedgerInvariant
  BY LedgerBegins
<1>2. LedgerInvariant /\ [TurnsNext]_turnsVars => LedgerInvariant'
  BY LedgerKeeps
<1>3. LedgerInvariant => LedgerIsTrue
  BY LedgerShows
<1>4. QED
  BY <1>1, <1>2, <1>3, PTL DEF TurnsSpec
-----------------------------------------------------------------------------
(* The loads of stored objects.                                              *)

\* What is true of 0, and of each number if of the one before, is true of all.
LEMMA UpTo ==
  ASSUME NEW n \in Nat, NEW T, 0 \in T, \A i \in 1..n : i - 1 \in T => i \in T
  PROVE  \A i \in 0..n : i \in T
<1> DEFINE Missed == {i \in 0..n : i \notin T}
<1>1. SUFFICES ASSUME Missed # {}
               PROVE  FALSE
  OBVIOUS
<1>2. Missed \subseteq Nat
  OBVIOUS
<1>3. PICK m \in Missed : \A k \in Missed : ~ (<<k, m>> \in OpToRel(<, Nat))
  <2> HIDE DEF Missed
  <2>1. QED
    BY <1>1, <1>2, NatLessThanWellFounded, WFMin
<1>4. m \in 0..n /\ m \notin T /\ m # 0
  OBVIOUS
<1>5. m \in 1..n /\ m - 1 \in 0..n /\ m - 1 \in Nat /\ m \in Nat /\ m - 1 < m
  BY <1>4
<1>6. m - 1 \in T
  <2>1. SUFFICES ASSUME m - 1 \notin T
                 PROVE  FALSE
    OBVIOUS
  <2>2. m - 1 \in Missed
    BY <1>5, <2>1
  <2>3. <<m - 1, m>> \in OpToRel(<, Nat)
    BY <1>5 DEF OpToRel
  <2>4. QED
    BY <1>3, <2>2, <2>3
<1>7. QED
  BY <1>4, <1>5, <1>6

\* A stretch of a sequence is a shorter one and the rest.
LEMMA Stretches ==
  ASSUME NEW S, NEW s \in Seq(S), NEW a \in Nat, NEW b \in Nat, NEW c \in Nat,
         a <= b, b <= c, c <= Len(s)
  PROVE  SubSeq(s, a + 1, b) \o SubSeq(s, b + 1, c) = SubSeq(s, a + 1, c)
  OBVIOUS

\* What the scan puts into the buffer from a read on: the rest of the range.
RestOf(file, offset, length, start) ==
  SubSeq(file, Loads!Most(start, offset) + 1, offset + length)

PieceOf(file, offset, length, start) ==
  SubSeq(file, Loads!Most(start, offset) + 1,
               Loads!Least(Loads!Least(start + IoBuffer, Len(file)), offset + length))

\* A read of the scan puts in its part of the range, and the reads after it the rest.
LEMMA ReadByRead ==
  ASSUME NEW S, NEW file \in Seq(S), NEW offset \in Nat, NEW length \in Nat,
         offset + length <= Len(file), NEW start \in Nat
  PROVE  RestOf(file, offset, length, start) =
           IF start >= Len(file) THEN << >>
           ELSE PieceOf(file, offset, length, start)
                  \o RestOf(file, offset, length, start + IoBuffer)
<1> DEFINE o == offset + length
           e == start + IoBuffer
<1>1. IoBuffer \in Nat \ {0} /\ Len(file) \in Nat /\ o \in Nat /\ e \in Nat
  BY LoadsAssumption DEF Loads!ReadAssumption
<1>2. PICK n \in Nat : n = Len(file)
  BY <1>1
<1>3. CASE start >= Len(file)
  BY <1>1, <1>2, <1>3 DEF RestOf, Loads!Most
<1>4. CASE start < Len(file) /\ offset >= e
  <2>1. PieceOf(file, offset, length, start) = << >>
    <3>1. Loads!Most(start, offset) = offset
      BY <1>1, <1>4 DEF Loads!Most
    <3>2. PICK lim \in Nat : lim = Loads!Least(Loads!Least(e, Len(file)), o) /\ lim <= offset
      BY <1>1, <1>2, <1>4 DEF Loads!Least
    <3>3. SubSeq(file, offset + 1, lim) = << >>
      BY <3>2
    <3>4. QED
      BY <3>1, <3>2, <3>3 DEF PieceOf
  <2>2. RestOf(file, offset, length, start) = RestOf(file, offset, length, e)
    BY <1>1, <1>2, <1>4 DEF RestOf, Loads!Most
  <2>3. RestOf(file, offset, length, e) \in Seq(S)
    BY <1>1, <1>2, <1>4 DEF RestOf, Loads!Most
  <2>4. QED
    BY <1>1, <1>2, <1>4, <2>1, <2>2, <2>3
<1>5. CASE start < Len(file) /\ offset < e /\ e <= o
  <2> DEFINE m == Loads!Most(start, offset)
  <2>1. m \in Nat /\ m <= e /\ Loads!Most(e, offset) = e
    BY <1>1, <1>5 DEF Loads!Most
  <2>2. Loads!Least(Loads!Least(e, Len(file)), o) = e
    BY <1>1, <1>2, <1>5 DEF Loads!Least
  <2>3. PieceOf(file, offset, length, start) = SubSeq(file, m + 1, e)
    BY <2>2 DEF PieceOf
  <2>4. RestOf(file, offset, length, e) = SubSeq(file, e + 1, o)
    BY <2>1 DEF RestOf
  <2>5. RestOf(file, offset, length, start) = SubSeq(file, m + 1, o)
    BY DEF RestOf
  <2> HIDE DEF m, e, o
  <2>6. SubSeq(file, m + 1, e) \o SubSeq(file, e + 1, o) = SubSeq(file, m + 1, o)
    BY <1>1, <1>5, <2>1, Stretches DEF o
  <2>7. QED
    <3>1. RestOf(file, offset, length, start) =
            PieceOf(file, offset, length, start) \o RestOf(file, offset, length, e)
      BY <2>3, <2>4, <2>5, <2>6
    <3>2. ~ (start >= Len(file))
      BY <1>2, <1>5
    <3>3. QED
      BY <3>1, <3>2 DEF e
<1>6. CASE start < Len(file) /\ offset < e /\ e > o
  <2>1. Loads!Most(e, offset) = e /\ Loads!Most(start, offset) \in Nat
    BY <1>1, <1>6 DEF Loads!Most
  <2>2. RestOf(file, offset, length, e) = << >>
    BY <1>1, <1>2, <1>6, <2>1 DEF RestOf
  <2>3. Loads!Least(Loads!Least(e, Len(file)), o) = o
    BY <1>1, <1>2, <1>6 DEF Loads!Least
  <2>4. PieceOf(file, offset, length, start) = RestOf(file, offset, length, start)
    BY <2>3 DEF PieceOf, RestOf
  <2>5. RestOf(file, offset, length, start) \in Seq(S)
    <3>1. PICK m \in Nat : m = Loads!Most(start, offset)
      BY <2>1
    <3>2. SubSeq(file, m + 1, o) \in Seq(S)
      BY <1>1, <1>2
    <3>3. QED
      BY <3>1, <3>2 DEF RestOf
  <2>6. QED
    BY <1>1, <1>2, <1>6, <2>2, <2>4, <2>5
<1>7. QED
  BY <1>1, <1>2, <1>3, <1>4, <1>5, <1>6

\* scanFile: the buffer holds the range that was asked for.
LEMMA RangeIsOfTheFile ==
  ASSUME NEW S, NEW file \in Seq(S), NEW offset \in Nat, NEW max \in Nat,
         offset + max <= Len(file)
  PROVE  Loads!RangeOf(file, offset, max) = SubSeq(file, offset + 1, offset + max)
<1> DEFINE Step(f, start) ==
             IF start >= Len(file) THEN << >>
             ELSE PieceOf(file, offset, max, start) \o f[start + IoBuffer]
           Scans(f) == f = [start \in Nat |-> Step(f, start)]
           From == CHOOSE f : Scans(f)
           g == [start \in Nat |-> RestOf(file, offset, max, start)]
<1>1. IoBuffer \in Nat \ {0} /\ Len(file) \in Nat
  BY LoadsAssumption DEF Loads!ReadAssumption
<1>2. PICK n \in Nat : n = Len(file)
  BY <1>1
<1>3. Loads!Least(max, Len(file) - offset) = max
  BY <1>1, <1>2 DEF Loads!Least
<1>4. Loads!RangeOf(file, offset, max) = From[0]
  BY <1>3 DEF Loads!RangeOf, PieceOf
<1>5. Scans(g)
  <2>1. ASSUME NEW start \in Nat
        PROVE  g[start] = Step(g, start)
    <3>1. start + IoBuffer \in Nat
      BY <1>1
    <3>2. QED
      BY <3>1, ReadByRead
  <2>2. QED
    BY <2>1
<1>6. Scans(From)
  <2> HIDE DEF Scans, g
  <2>1. QED
    BY <1>5
<1>7. ASSUME NEW start \in Nat
      PROVE  From[start] = Step(From, start)
  <2>1. From = [i \in Nat |-> Step(From, i)]
    BY <1>6
  <2> HIDE DEF From, Step
  <2>2. QED
    BY <2>1
<1> HIDE DEF From
<1> DEFINE T == {k \in 0..n : \A start \in Nat : start + k >= n => From[start] = RestOf(file, offset, max, start)}
<1>8. 0 \in T
  <2>1. ASSUME NEW start \in Nat, start >= n
        PROVE  From[start] = RestOf(file, offset, max, start)
    BY <1>1, <1>2, <1>7, <2>1, ReadByRead
  <2>2. QED
    BY <2>1
<1>9. \A k \in 1..n : k - 1 \in T => k \in T
  <2> SUFFICES ASSUME NEW k \in 1..n, k - 1 \in T
               PROVE  k \in T
    OBVIOUS
  <2>1. \A start \in Nat : start + (k - 1) >= n => From[start] = RestOf(file, offset, max, start)
    OBVIOUS
  <2>2. ASSUME NEW start \in Nat, start + k >= n
        PROVE  From[start] = RestOf(file, offset, max, start)
    <3> HIDE DEF T
    <3>1. From[start] = Step(From, start)
      BY <1>7
    <3>2. CASE start >= Len(file)
      <4>1. From[start] = << >>
        BY <3>1, <3>2
      <4>2. QED
        BY <3>2, <4>1, ReadByRead
    <3>3. CASE ~ (start >= Len(file))
      <4>1. From[start] = PieceOf(file, offset, max, start) \o From[start + IoBuffer]
        BY <3>1, <3>3
      <4>2. start + IoBuffer \in Nat /\ (start + IoBuffer) + (k - 1) >= n
        BY <1>1, <2>2
      <4>3. From[start + IoBuffer] = RestOf(file, offset, max, start + IoBuffer)
        BY <2>1, <4>2
      <4> HIDE DEF Step
      <4>4. RestOf(file, offset, max, start) =
              PieceOf(file, offset, max, start) \o RestOf(file, offset, max, start + IoBuffer)
        BY <3>3, ReadByRead
      <4>5. QED
        BY <4>1, <4>3, <4>4
    <3>4. QED
      BY <3>2, <3>3
  <2>3. k \in 0..n
    OBVIOUS
  <2>4. QED
    BY <2>2, <2>3
<1>10. n \in T
  <2> HIDE DEF T
  <2>1. \A k \in 0..n : k \in T
    BY <1>8, <1>9, UpTo
  <2>2. QED
    BY <2>1
<1>11. From[0] = RestOf(file, offset, max, 0)
  BY <1>10
<1>12. Loads!Most(0, offset) = offset
  BY DEF Loads!Most
<1>13. QED
  BY <1>4, <1>11, <1>12 DEF RestOf

\* What a load has got is the part of the name from where it began to where it is.
LoadSteps == {"none", "verify", "ranges", "loaded", "error"}
LoadRecords == [of : Loads!Names, from : Nat, at : Nat, got : Seq(Bytes), step : LoadSteps]
Got(r) ==
  /\ r.from <= r.at /\ r.at <= Len(r.of)
  /\ r.got = SubSeq(r.of, r.from + 1, r.at)
  /\ r.step = "loaded" => r.at = Len(r.of)
LoadInv ==
  /\ load \in [Loaders -> LoadRecords]
  /\ \A l \in Loaders : Got(load[l])

\* A name is the bytes of an object.
LEMMA NamesAreSequences ==
  ASSUME NEW n \in Loads!Names
  PROVE  n \in Seq(Bytes) /\ Len(n) \in Nat
  BY LoadsAssumption DEF Loads!Names, Loads!BytesAssumption

\* Where nothing has been read yet, nothing has been got.
LEMMA FreshLoad ==
  ASSUME NEW n \in Loads!Names, NEW from \in 0..Len(n), NEW step \in LoadSteps \ {"loaded"}
  PROVE  /\ [of |-> n, from |-> from, at |-> from, got |-> << >>, step |-> step] \in LoadRecords
         /\ Got([of |-> n, from |-> from, at |-> from, got |-> << >>, step |-> step])
<1>1. n \in Seq(Bytes) /\ Len(n) \in Nat /\ from \in Nat /\ from <= Len(n)
  BY NamesAreSequences
<1>2. SubSeq(n, from + 1, from) = << >> /\ << >> \in Seq(Bytes)
  BY <1>1
<1>3. QED
  BY <1>1, <1>2 DEF LoadRecords, Got

\* A loader without a load has got nothing.
LEMMA NoLoadIsFine == Loads!NoLoad \in LoadRecords /\ Got(Loads!NoLoad)
<1>1. << >> \in Loads!Names
  <2>1. << >> \in [1..0 -> Bytes] /\ 0 \in 0..MaxBytes
    BY LoadsAssumption DEF Loads!BytesAssumption
  <2>2. QED
    BY <2>1 DEF Loads!Names
<1>2. 0 \in 0..Len(<< >>) /\ "none" \in LoadSteps \ {"loaded"}
  BY DEF LoadSteps
<1>3. QED
  BY <1>1, <1>2, FreshLoad DEF Loads!NoLoad

\* A load whose record is replaced by another that is fine.
LEMMA OneLoadChanges ==
  ASSUME LoadInv, NEW l \in Loaders, NEW r \in LoadRecords, Got(r),
         load' = [load EXCEPT ![l] = r]
  PROVE  LoadInv'
  BY DEF LoadInv, Got

\* Nothing is loaded at first.
LEMMA LoadsBegin ==
  ASSUME Loads!Init
  PROVE  LoadInv
  BY NoLoadIsFine DEF Loads!Init, LoadInv

\* VerifyLoad, EndLoad: only the step of the record changes.
LEMMA OnlyTheStep ==
  ASSUME LoadInv, NEW l \in Loaders, NEW s \in LoadSteps,
         s = "loaded" => load[l].at >= Len(load[l].of),
         load' = [load EXCEPT ![l].step = s]
  PROVE  LoadInv'
<1>1. PICK q \in LoadRecords : q = load[l]
  BY DEF LoadInv
<1>2. q.of \in Loads!Names /\ q.from \in Nat /\ q.at \in Nat /\ q.got \in Seq(Bytes)
  BY <1>1 DEF LoadRecords
<1>3. Len(q.of) \in Nat
  BY <1>2, NamesAreSequences
<1> DEFINE r == [of |-> q.of, from |-> q.from, at |-> q.at, got |-> q.got, step |-> s]
<1>4. r \in LoadRecords
  BY <1>2 DEF LoadRecords
<1>5. Got(q)
  BY <1>1 DEF LoadInv
<1>6. Got(r)
  <2>1. PICK m \in Nat : m = Len(q.of)
    BY <1>3
  <2>2. q.from <= q.at /\ q.at <= m /\ q.got = SubSeq(q.of, q.from + 1, q.at)
    BY <1>5, <2>1 DEF Got
  <2>3. s = "loaded" => q.at = m
    BY <1>1, <1>2, <2>1, <2>2
  <2>4. QED
    BY <2>1, <2>2, <2>3 DEF Got
<1>7. load' = [load EXCEPT ![l] = r]
  <2>1. [q EXCEPT !.step = s] = r
    BY <1>1 DEF LoadRecords
  <2>2. QED
    BY <1>1, <2>1 DEF LoadInv
<1> HIDE DEF r
<1>8. QED
  BY <1>4, <1>6, <1>7, OneLoadChanges

\* Two fields of a load change, and the others stay.
LEMMA MoreIsGot ==
  ASSUME NEW q \in LoadRecords, NEW got, NEW at
  PROVE  [q EXCEPT !.got = got, !.at = at]
           = [of |-> q.of, from |-> q.from, at |-> at, got |-> got, step |-> q.step]
<1>1. q \in [of : Loads!Names, from : Nat, at : Nat, got : Seq(Bytes), step : LoadSteps]
  BY DEF LoadRecords
<1> DEFINE h == [q EXCEPT !.got = got]
<1>2. h = [of |-> q.of, from |-> q.from, at |-> q.at, got |-> got, step |-> q.step]
  BY <1>1
<1>3. [h EXCEPT !.at = at] = [of |-> q.of, from |-> q.from, at |-> at, got |-> got, step |-> q.step]
  <2> HIDE DEF h
  <2>1. QED
    BY <1>2
<1>4. [q EXCEPT !.got = got, !.at = at] = [h EXCEPT !.at = at]
  OBVIOUS
<1>5. QED
  BY <1>3, <1>4

\* LoadRange: the object was whole when its range was read.
LEMMA RangeIsGot ==
  ASSUME LoadInv, NEW l \in Loaders, Loads!LoadRange(l)
  PROVE  LoadInv'
<1>1. PICK q \in LoadRecords : q = load[l]
  BY DEF LoadInv
<1>2. q.of \in Loads!Names /\ q.from \in Nat /\ q.at \in Nat /\ q.got \in Seq(Bytes)
  BY <1>1 DEF LoadRecords
<1>3. q.of \in Seq(Bytes) /\ Len(q.of) \in Nat
  BY <1>2, NamesAreSequences
<1>4. Got(q) /\ q.step = "ranges" /\ q.at < Len(q.of)
  BY <1>1 DEF LoadInv, Loads!LoadRange
<1> DEFINE k == Loads!Least(RangeLimit, Len(q.of) - q.at)
           range == Loads!RangeOf(data[entry[q.of]], q.at, k)
<1>5. CASE Loads!Readable(q.of) /\ range # << >>
  <2>1. k \in Nat /\ q.at + k <= Len(q.of)
    <3>1. RangeLimit \in Nat
      BY LoadsAssumption DEF Loads!ReadAssumption
    <3>2. PICK m \in Nat : m = Len(q.of)
      BY <1>3
    <3>3. QED
      BY <1>2, <1>4, <3>1, <3>2 DEF Loads!Least
  <2>2. data[entry[q.of]] = q.of
    BY <1>5 DEF Loads!Readable
  <2>3. range = SubSeq(q.of, q.at + 1, q.at + k)
    <3> HIDE DEF k
    <3>1. QED
      BY <1>2, <1>3, <2>1, <2>2, RangeIsOfTheFile
  <2>4. load' = [load EXCEPT ![l].got = @ \o range, ![l].at = @ + Len(range)]
    BY <1>1, <1>5 DEF Loads!LoadRange
  <2> HIDE DEF range, k
  <2>5. Len(range) = k /\ range \in Seq(Bytes)
    <3>1. PICK m \in Nat : m = Len(q.of)
      BY <1>3
    <3>2. q.at + 1 \in 1..(m + 1) /\ q.at + k \in q.at..m
      BY <1>2, <1>4, <2>1, <3>1
    <3>3. SubSeq(q.of, q.at + 1, q.at + k) \in Seq(Bytes)
      BY <1>3, <3>1, <3>2
    <3>4. Len(SubSeq(q.of, q.at + 1, q.at + k)) = k
      BY <1>2, <1>3, <2>1, <3>1, <3>2
    <3>5. QED
      BY <2>3, <3>3, <3>4
  <2> DEFINE r == [of |-> q.of, from |-> q.from, at |-> q.at + k, got |-> q.got \o range,
                   step |-> q.step]
  <2>6. q.got = SubSeq(q.of, q.from + 1, q.at) /\ q.from <= q.at
    BY <1>4 DEF Got
  <2>7. q.got \o range = SubSeq(q.of, q.from + 1, q.at + k)
    <3>1. PICK b \in Nat : b = q.at + k
      BY <1>2, <2>1
    <3>2. q.from <= q.at /\ q.at <= b /\ b <= Len(q.of)
      BY <1>2, <2>1, <2>6, <3>1
    <3>3. SubSeq(q.of, q.from + 1, q.at) \o SubSeq(q.of, q.at + 1, b) = SubSeq(q.of, q.from + 1, b)
      BY <1>2, <1>3, <3>2, Stretches
    <3>4. QED
      BY <2>3, <2>6, <3>1, <3>3
  <2>8. q.got \o range \in Seq(Bytes)
    BY <1>2, <2>5
  <2>9. r \in LoadRecords
    <3>1. q.at + k \in Nat /\ q.step \in LoadSteps
      BY <1>1, <1>2, <2>1 DEF LoadRecords
    <3>2. QED
      BY <1>2, <2>8, <3>1 DEF LoadRecords
  <2>10. Got(r)
    <3>1. PICK b \in Nat : b = q.at + k
      BY <1>2, <2>1
    <3>2. q.from <= b /\ b <= Len(q.of)
      BY <1>2, <2>1, <2>6, <3>1
    <3>3. q.got \o range = SubSeq(q.of, q.from + 1, b)
      BY <2>7, <3>1
    <3>4. QED
      BY <1>4, <3>1, <3>2, <3>3 DEF Got
  <2>11. load' = [load EXCEPT ![l] = r]
    <3> DEFINE got == q.got \o range
               at == q.at + k
    <3> HIDE DEF got, at
    <3>2. [q EXCEPT !.got = got, !.at = at]
            = [of |-> q.of, from |-> q.from, at |-> at, got |-> got, step |-> q.step]
      BY MoreIsGot
    <3>3. [load EXCEPT ![l].got = @ \o range, ![l].at = @ + k]
            = [load EXCEPT ![l] = [q EXCEPT !.got = got, !.at = at]]
      BY <1>1 DEF LoadInv, got, at
    <3>4. QED
      BY <2>4, <2>5, <3>2, <3>3 DEF got, at
  <2> HIDE DEF r
  <2>12. QED
    BY <2>9, <2>10, <2>11, OneLoadChanges
<1>6. CASE ~ (Loads!Readable(q.of) /\ range # << >>)
  <2>1. load' = [load EXCEPT ![l].step = "error"]
    BY <1>1, <1>6 DEF Loads!LoadRange
  <2>2. "error" \in LoadSteps
    BY DEF LoadSteps
  <2>3. QED
    BY <2>1, <2>2, OnlyTheStep
<1>7. QED
  BY <1>5, <1>6

\* Every step of the store, of which only the loads and a power loss touch a load.
LEMMA LoadsKeep ==
  ASSUME LoadInv, [Loads!Next]_loadVars
  PROVE  LoadInv'
<1>1. ASSUME UNCHANGED load
      PROVE  LoadInv'
  BY <1>1 DEF LoadInv
<1>2. ASSUME NEW l \in Loaders, NEW n \in Loads!Names, NEW from \in 0..Len(n),
             Loads!StartLoad(l, n, from)
      PROVE  LoadInv'
  <2> DEFINE r == [of |-> n, from |-> from, at |-> from, got |-> << >>, step |-> "verify"]
  <2>1. r \in LoadRecords /\ Got(r)
    BY FreshLoad DEF LoadSteps
  <2>2. load' = [load EXCEPT ![l] = r]
    BY <1>2 DEF Loads!StartLoad
  <2> HIDE DEF r
  <2>3. QED
    BY <2>1, <2>2, OneLoadChanges
<1>3. ASSUME NEW l \in Loaders, Loads!VerifyLoad(l)
      PROVE  LoadInv'
  <2>1. PICK s \in {"ranges", "error"} : load' = [load EXCEPT ![l].step = s]
    BY <1>3 DEF Loads!VerifyLoad
  <2>2. QED
    BY <2>1, OnlyTheStep DEF LoadSteps
<1>4. ASSUME NEW l \in Loaders, Loads!EndLoad(l)
      PROVE  LoadInv'
  <2>1. load' = [load EXCEPT ![l].step = "loaded"] /\ load[l].at >= Len(load[l].of)
    BY <1>4 DEF Loads!EndLoad
  <2>2. "loaded" \in LoadSteps
    BY DEF LoadSteps
  <2>3. QED
    BY <2>1, <2>2, OnlyTheStep
<1>5. ASSUME NEW l \in Loaders, Loads!ForgetLoad(l)
      PROVE  LoadInv'
  <2>1. load' = [load EXCEPT ![l] = Loads!NoLoad]
    BY <1>5 DEF Loads!ForgetLoad
  <2>2. QED
    BY <2>1, NoLoadIsFine, OneLoadChanges
<1>6. CASE Loads!PowerLoss
  BY <1>6, NoLoadIsFine DEF Loads!PowerLoss, LoadInv
<1>7. ASSUME NEW c \in Candidates,
             \/ Loads!Mkdir(c) \/ Loads!SyncParent(c) \/ Loads!Begin(c)
             \/ \E chunk \in Loads!Chunks : Loads!Write(c, chunk)
             \/ Loads!RunWrite(c) \/ Loads!PublishPoisoned(c) \/ Loads!Publish(c)
             \/ Loads!Drained(c) \/ Loads!PublishFails(c)
             \/ Loads!SyncFile(c) \/ Loads!Scan(c) \/ Loads!Link(c) \/ Loads!Compare(c)
             \/ Loads!SyncDirectory(c) \/ Loads!Return(c)
             \/ Loads!Abort(c) \/ Loads!AbortDrained(c) \/ Loads!Damage(c) \/ Loads!Die(c)
      PROVE  UNCHANGED load
  BY <1>7 DEF Loads!Mkdir, Loads!SyncParent, Loads!Begin, Loads!Write, Loads!RunWrite,
     Loads!PublishPoisoned, Loads!Publish, Loads!Drained, Loads!PublishFails, Loads!SyncFile,
     Loads!Scan, Loads!Link, Loads!Compare, Loads!SyncDirectory, Loads!Return, Loads!Abort,
     Loads!AbortDrained, Loads!Damage, Loads!Die
<1>8. CASE UNCHANGED loadVars
  BY <1>1, <1>8 DEF loadVars
<1>9. CASE Loads!Next
  BY <1>1, <1>2, <1>3, RangeIsGot, <1>4, <1>5, <1>6, <1>7, <1>9 DEF Loads!Next
<1>10. QED
  BY <1>8, <1>9

\* Whatever happens to the object between two ranges, what a load returns is
\* the content its name stands for.
THEOREM LoadsAreWholeHolds == TurnsSpec => []LoadsAreWhole
<1>1. TurnsInit => (scene = "load" => LoadInv)
  BY LoadsBegin DEF TurnsInit, TurnsBegin
<1>2. (scene = "load" => LoadInv) /\ [TurnsNext]_turnsVars => (scene = "load" => LoadInv)'
  <2>1. SUFFICES ASSUME scene = "load" => LoadInv, [TurnsNext]_turnsVars, scene' = "load"
                 PROVE  LoadInv'
    OBVIOUS
  <2>2. scene = "load" /\ LoadInv /\ [Loads!Next]_loadVars
    BY <2>1 DEF TurnsNext, turnsVars
  <2>3. QED
    BY <2>2, LoadsKeep
<1>3. (scene = "load" => LoadInv) => LoadsAreWhole
  BY DEF LoadInv, Got, LoadsAreWhole, Loads!LoadsWhatItNames
<1>4. QED
  BY <1>1, <1>2, <1>3, PTL DEF TurnsSpec
===============================================================================
