-------------------------------- MODULE MCInput --------------------------------
(* TLC instance of the prompt: the characters that arrive become keys, the keys   *)
(* edit lines, the lines are wrapped, a picker offers completions, what was       *)
(* entered is a message or a command of the interactive loop.  The components     *)
(* share nothing here.  `scene` says which of them a behaviour is about; the      *)
(* others are None, the loop has not begun.                                       *)
EXTENDS Prompt, Integers, TLC

CONSTANTS s1, s2

VARIABLES
  e, steps, killBase, came, line, units, rest, t, late, restarts

\* Of the loop: two sessions, one of them recorded.
MCSessions == {s1, s2}
MCRecorded == {s2}
MCEfforts  == {"high", "max"}

Ch(c) == [ch |-> c, id |-> 0, k |-> 1, of |-> None]
Word(n) == [i \in 1..n |-> Ch("a")]
NoText == << << >> >>

\* Of the editor: edits and a history, pastes with markers, kills and yanks, moves over
\* long, short and wrapped lines, drawing while the terminal is resized.
Edits == INSTANCE LineEditor
  WITH MarkerWidth <- 3, Ten <- 99, MarkerGaps <- {2}, Typed <- {"a", "\\", "."}, Large <- {},
       Small <- { << <<Ch(".")>>, <<Ch("b")>> >> }, Texts <- {NoText}, Widths <- {3},
       VisibleLines <- 2, MaxHistory <- 2, MaxCells <- 5, MaxSteps <- 6,
       Keys <- {"type", "paste", "pasteSmall", "newLine", "enter", "clear", "backspace", "delete",
                "undo", "up", "down", "left", "right"}
Pastes == INSTANCE LineEditor
  WITH MarkerWidth <- 3, Ten <- 99, MarkerGaps <- {2}, Typed <- {"a", " "}, Large <- {"P", "Q"},
       Small <- {},
       Texts <- {NoText}, Widths <- {2}, VisibleLines <- 2, MaxHistory <- 2, MaxCells <- 10,
       MaxSteps <- 7,
       Keys <- {"paste", "newLine", "enter", "backspace", "delete", "undo", "left", "right", "up",
                "down"}
Kills == INSTANCE LineEditor
  WITH MarkerWidth <- 3, Ten <- 99, MarkerGaps <- {2}, Typed <- {"a", " "}, Large <- {},
       Small <- {},
       Texts <- { <<Word(2) \o <<Ch(" ")>> \o Word(1), Word(1)>> }, Widths <- {3},
       VisibleLines <- 2, MaxHistory <- 2, MaxCells <- 9, MaxSteps <- 6,
       Keys <- {"killStart", "killEnd", "killWordBack", "killWord", "yank", "yankPop", "undo",
                "left", "wordRight", "lineEnd", "wordLeft", "lineStart", "type"}
Landscapes == { <<Word(4), Word(1), Word(3)>>, <<Word(5) \o <<Ch(" ")>> \o Word(4), << >>, Word(2)>>,
                <<Word(1), <<Ch("W"), Ch("W")>> \o Word(3)>> }
Moves == INSTANCE LineEditor
  WITH MarkerWidth <- 3, Ten <- 99, MarkerGaps <- {2}, Typed <- {"a", " "}, Large <- {},
       Small <- {},
       Texts <- Landscapes, Widths <- {3, 4, 6}, VisibleLines <- 2, MaxHistory <- 2,
       MaxCells <- 20, MaxSteps <- 16,
       Keys <- {"up", "down", "left", "right", "pageUp", "pageDown", "lineEnd", "jump"}
Drawn == INSTANCE LineEditor
  WITH MarkerWidth <- 3, Ten <- 99, MarkerGaps <- {2}, Typed <- {"a", " "}, Large <- {},
       Small <- {},
       Texts <- Landscapes, Widths <- {3, 4, 6}, VisibleLines <- 2, MaxHistory <- 2,
       MaxCells <- 22, MaxSteps <- 6,
       Keys <- {"up", "down", "left", "right", "pageDown", "newLine", "render"}

\* A word character, a space, punctuation and a wide character; two markers in the
\* registry and one that is not.
Wrap == INSTANCE WordWrap
  WITH MarkerWidth <- 3, Ten <- 2, MarkerGaps <- {2},
       Characters <- {"a", " ", ".", "W"}, Ids <- 1..3,
       Registered <- {1, 2}, Widths <- 1..4, MaxLength <- 6

\* A lone escape is told from Alt and a key only by the timer: it is not among the units,
\* which are cut anywhere.  The other instance has the timers run out.
Arrivals == INSTANCE KeyInput
  WITH Units <- {"x", "up", "home", "mouse", "version", "paste", "kitty", "attributes", "doubled"},
       MaxUnits <- 3, Restarts <- 1
Delays == INSTANCE KeyInput
  WITH Units <- {"x", "altBracket", "kitty", "legacy"}, MaxUnits <- 3, Restarts <- 1

ASSUME
  /\ SessionsAssumption /\ EffortsAssumption /\ BoundsAssumption /\ CalmAssumption /\ NoneAssumption
  /\ Edits!MarkerAssumption /\ Edits!EditorAssumption /\ Drawn!EditorAssumption
  /\ Wrap!MarkerAssumption /\ Wrap!WrapAssumption
  /\ Arrivals!KeyInputAssumption /\ Delays!KeyInputAssumption

editorVars == <<e, steps, killBase, came>>
EditorOff ==
  /\ e = None /\ steps = None /\ killBase = None /\ came = None
wrapVars == <<line>>
WrapOff ==
  /\ line = None
keysVars == <<units, rest, t, late, restarts>>
KeysOff ==
  /\ units = None /\ rest = None /\ t = None /\ late = None /\ restarts = None

InputInit ==
  /\ scene \in {"edits", "pastes", "kills", "moves", "drawn", "wrap", "picker", "keys", "delays",
                "loop"}
  /\ PromptBegin
  /\ CASE scene = "edits" -> Edits!Init [] scene = "pastes" -> Pastes!Init
       [] scene = "kills" -> Kills!Init [] scene = "moves" -> Moves!Init
       [] scene = "drawn" -> Drawn!Init [] OTHER -> EditorOff
  /\ IF scene = "wrap" THEN Wrap!Init ELSE WrapOff
  /\ CASE scene = "keys" -> Arrivals!Init [] scene = "delays" -> Delays!Init [] OTHER -> KeysOff

InputNext ==
  \/ PromptNext /\ UNCHANGED <<editorVars, wrapVars, keysVars>>
  \/ /\ UNCHANGED promptVars
     /\ \/ /\ \/ scene = "edits" /\ Edits!Next
              \/ scene = "pastes" /\ Pastes!Next
              \/ scene = "kills" /\ Kills!Next
              \/ scene = "moves" /\ Moves!Next
              \/ scene = "drawn" /\ Drawn!Next
           /\ UNCHANGED <<wrapVars, keysVars>>
        \/ /\ scene = "wrap" /\ Wrap!Next
           /\ UNCHANGED <<editorVars, keysVars>>
        \/ /\ \/ scene = "keys" /\ Arrivals!Next
              \/ scene = "delays" /\ Delays!Next
           /\ UNCHANGED <<editorVars, wrapVars>>

inputVars == <<promptVars, editorVars, wrapVars, keysVars>>
InputSpec == InputInit /\ [][InputNext]_inputVars

-----------------------------------------------------------------------------
\* After any keys the cursor is in the text and never inside a marker; a marker
\* stands for the paste it was put in for, also where undo or the history would
\* bring it back; while the history is browsed an entry of it is shown; kills that
\* follow each other are one; what was yanked is before the cursor; the cursor is
\* drawn where it moves.
EditorIsSound ==
  /\ scene = "edits" => Edits!TypeOK /\ Edits!CursorInText /\ Edits!BrowsingShowsHistory
  /\ scene = "pastes" => Pastes!CursorNotInMarker /\ Pastes!MarkersHoldTheirPaste
  /\ scene = "kills" => Kills!KillsRunTogether /\ Kills!YankedIsBeforeCursor
  /\ scene = "drawn" => Drawn!DrawnWhereItMoves

\* No key makes a text disappear for good, a backspace takes one character or
\* marker, a step down and a step up lead back, the cursor's line is on the screen,
\* and a picker that was closed is opened by a key only.
KeysDoNoHarm ==
  [][/\ scene = "edits" => Edits!EditsAreUndoable
     /\ scene = "kills" => Kills!EditsAreUndoable
     /\ scene = "pastes" => Pastes!BackspaceTakesOne
     /\ scene = "moves" => Moves!VerticalReturns
     /\ scene = "drawn" => Drawn!CursorIsVisible
     /\ scene = "picker" => Picker!ClosedStaysClosed]_inputVars

\* A wrapped line is the line, within the width, broken inside a word only if the
\* word is wider; the ends of words are where the cursor stops.
WrapIsTheLine ==
  scene = "wrap" =>
    /\ Wrap!WrapIsTheLine /\ Wrap!WrapFits /\ Wrap!WrapKeepsWords /\ Wrap!WordsAreStops

\* Wherever the characters are cut, a key, a reply and a paste is passed on as one;
\* if the timers run out in between, nothing is lost or changes its place all the
\* same, and the modes of the terminal are taken back when it is given away.
UnitsAreWhole ==
  /\ scene = "keys" => Arrivals!TypeOK /\ Arrivals!UnitsAreWhole /\ Arrivals!ModesAreTakenBack
  /\ scene = "delays" => Delays!NothingIsLost /\ Delays!ModesAreTakenBack
=============================================================================
