-------------------------------- MODULE MCTurns --------------------------------
(* TLC instance of what a turn goes through outside the kernel: objects are      *)
(* loaded, the answer is parsed, paid for and judged by the check of the user,   *)
(* the session moves to another lineage.  The components share nothing here.     *)
(* `scene` says which of them a behaviour is about; the others are None, the     *)
(* gate has not begun.                                                           *)
EXTENDS Turns

VARIABLES
  lines, wire, closed, chunk, parts,
  hooks, line, hook, p, told, status

\* Of the gate: a protected directory with a file in it and room for another one
\* in a directory of its own.
MCPaths     == {"dir", "dir/x", "dir/y", "dir/y/z"}
MCUnder     == [q \in MCPaths |-> CASE q = "dir" -> {"dir/x", "dir/y"}
                                    [] q = "dir/y" -> {"dir/y/z"} [] OTHER -> {}]
MCProtected == {"dir"}
MCContents  == {"kept", "moved"}
MCStart     ==
  [q \in MCPaths |-> CASE q = "dir" -> "dir" [] q \in {"dir/y", "dir/y/z"} -> "missing" [] OTHER -> "kept"]

\* Prices that begin after the first instant, or have always been there: a session of two
\* lineages, one with searches, and a turn with a budget of a few answers.
SomeUsages == {[hit |-> 1, miss |-> 0, out |-> 1], [hit |-> 0, miss |-> 2, out |-> 1]}
LateBook   == << [from |-> 1, hit |-> 1, miss |-> 2, out |-> 3],
                 [from |-> 2, hit |-> 1, miss |-> 3, out |-> 4] >>
OldBook    == << [from |-> 0, hit |-> 1, miss |-> 2, out |-> 3] >>
Within(time, limit, runs, roles, attempts, linesOf) ==
  [time |-> time, limit |-> limit, runs |-> runs, roles |-> roles, attempts |-> attempts,
   lines |-> linesOf]
MCLedgerBounds == Within(2, 20, 2, 3, 2, 2)
MCSearchBounds == Within(2, 20, 2, 3, 2, 1)
MCBudgetBounds == Within(0, 6, 2, 5, 3, 1)

\* The lines of an answer.
Chunk(id, choices, usage) == [kind |-> "data", identity |-> id, choices |-> choices, usage |-> usage]
Says(reasoning, content, tools, finish) ==
  <<[reasoning |-> reasoning, content |-> content, tools |-> tools, finish |-> finish]>>
Part(index, id, name, args) ==
  [index |-> index, id |-> id, type |-> id # None, name |-> name, args |-> args]
Blank == [kind |-> "blank"]
End   == [kind |-> "done"]
Torn  == [kind |-> "malformed"]
Ok    == "consistent"

\* Two texts, one of them with two endings.
FewLines == {
  Blank, End,
  Chunk("r", Says(None, <<"a">>, << >>, None), None),
  Chunk("r", Says(<<"b">>, << >>, << >>, "stop"), Ok)}

\* Texts and the places of finish reason, usage and end.
TextLines == {
  Torn, End,
  Chunk("r", Says(<<"a">>, None, << >>, None), None),
  Chunk("r", Says(<<"b">>, <<"c">>, << >>, None), None),
  Chunk("s", Says(None, <<"a">>, << >>, None), None),
  Chunk("r", Says(None, << >>, << >>, "stop"), None),
  Chunk("r", Says(None, <<"d">>, << >>, "stop"), Ok),
  Chunk("r", << >>, Ok), Chunk("r", << >>, "inconsistent"), Chunk("r", << >>, None),
  Chunk("r", Says(None, <<"a">>, << >>, None), Ok)}

\* Tool calls, in parts that come interleaved.
ToolLines == {
  End,
  Chunk("r", Says(<< >>, None, <<Part(0, <<"i">>, <<"n">>, None)>>, None), None),
  Chunk("r", Says(None, None, <<Part(1, <<"j">>, <<"m">>, << >>), Part(0, None, None, <<"x">>)>>, None), None),
  Chunk("r", Says(None, None, <<Part(0, <<"k">>, None, <<"y">>)>>, None), None),
  Chunk("r", Says(<<"b">>, None, <<Part(1, <<"j">>, <<"m">>, << >>)>>, None), None),
  Chunk("r", Says(None, None, <<Part(1, <<"j">>, <<"m">>, << >>), Part(1, None, None, <<"z">>)>>, None), None),
  Chunk("r", Says(None, None, << >>, "tool_calls"), Ok)}

LineFeeds == {<<[half |-> 0, of |-> [kind |-> "LF"]]>>}
BothEnds  == LineFeeds \cup {<<[half |-> 0, of |-> [kind |-> "CR"]], [half |-> 0, of |-> [kind |-> "LF"]]>>}
Texts == INSTANCE ResponseStream
  WITH Lines <- TextLines, Endings <- LineFeeds, Cuts <- {}, Indexes <- {0, 1},
       IdLimit <- 2, MaxLines <- 5, todo <- hooks
Calls == INSTANCE ResponseStream
  WITH Lines <- ToolLines, Endings <- LineFeeds, Cuts <- {}, Indexes <- {0, 1},
       IdLimit <- 2, MaxLines <- 5, todo <- hooks
CutUp == INSTANCE ResponseStream
  WITH Lines <- FewLines, Endings <- BothEnds, Cuts <- 1..5, Indexes <- {0, 1}, IdLimit <- 2,
       MaxLines <- 4, todo <- hooks

ASSUME
  /\ CutUp!EndingAssumption /\ CutUp!BoundAssumption /\ Calls!BoundAssumption

answerVars ==
  <<lines, wire, closed, chunk, parts, hooks, line, hook, p, told, status>>
AnswerOff ==
  /\ lines = None /\ wire = None /\ closed = None /\ chunk = None /\ parts = None
  /\ hooks = None /\ line = None /\ hook = None /\ p = None /\ told = None /\ status = None

MCInit ==
  /\ scene \in {"gate", "ledger", "searches", "budget", "switch", "texts",
                "calls", "cuts", "load"}
  /\ TurnsBegin
  /\ CASE scene = "texts" -> Texts!Init [] scene = "calls" -> Calls!Init
       [] scene = "cuts" -> CutUp!Init [] OTHER -> AnswerOff

MCNext ==
  \/ TurnsNext /\ UNCHANGED answerVars
  \/ /\ UNCHANGED turnsVars
     /\ \/ scene = "texts" /\ Texts!Next
        \/ scene = "calls" /\ Calls!Next
        \/ scene = "cuts" /\ CutUp!Next

MCSpec == MCInit /\ [][MCNext]_<<turnsVars, answerVars>>

-----------------------------------------------------------------------------
\* A body is taken for an answer exactly when it is one as a whole, however the
\* network cuts it, and the answer is what its deltas say, of which the hooks have
\* been told before.
AnswerIsWhatWasSaid ==
  /\ scene = "texts" =>
       /\ Texts!TypeOK /\ Texts!OnlyAnswersAreAccepted /\ Texts!OnlyFaultsAreRefused
       /\ Texts!ResponseIsWhatWasSaid /\ Texts!StagedWasAcknowledged
  /\ scene = "calls" =>
       /\ Calls!TypeOK /\ Calls!OnlyAnswersAreAccepted /\ Calls!OnlyFaultsAreRefused
       /\ Calls!ResponseIsWhatWasSaid /\ Calls!StagedWasAcknowledged
  /\ scene = "cuts" => CutUp!OnlyFaultsAreRefused
=============================================================================
