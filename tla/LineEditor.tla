----------------------------- MODULE LineEditor -----------------------------
(***************************************************************************)
(* The editor of the prompt (src/src/tui/components/editor.ts), key by     *)
(* key: typing, pastes and their markers, kills and the kill ring, undo,   *)
(* history and the movements of the cursor.                                *)
(*                                                                         *)
(* `e` is the state of the Editor object; each handler is an operator from *)
(* the state before to the state after it.  Texts are sequences of lines   *)
(* of cells (module EditorText); a large paste is one character of the set *)
(* Large when it is expanded.  Suggestions are left to the module          *)
(* Suggestions.                                                            *)
(***************************************************************************)
EXTENDS EditorText

CONSTANTS
  Keys,          \* the keys that are pressed
  Typed,         \* the characters that are typed
  Large,         \* the pastes that are replaced by a marker
  Small,         \* the pastes that are put in as they are: texts
  Texts,         \* the texts the editor begins with
  Widths,        \* the widths of the terminal
  VisibleLines,  \* maxVisibleLines, which is the page size, too
  MaxHistory,    \* the entries of the history that are kept
  MaxCells,      \* bound: cells of a text
  MaxSteps       \* bound: keys

\* What an instance assumes of the constants.
EditorAssumption ==
  /\ Widths \subseteq Nat \ {0, 1} /\ Widths # {}
  /\ {VisibleLines, MaxHistory} \subseteq Nat \ {0}
  /\ {MaxCells, MaxSteps} \subseteq Nat

VARIABLES
  e,         \* the editor
  steps,     \* keys so far
  killBase,  \* the text before the first of the kills that belong together
  came       \* the last vertical move: its direction and where it began

vars == <<e, steps, killBase, came>>

NoText == << << >> >>

Fresh(lines, width) ==
  [lines |-> lines, row |-> 1, col |-> 0, pastes |-> << >>, counter |-> 0, undo |-> << >>,
   ring |-> << >>, last |-> None, history |-> << >>, index |-> 0, draft |-> None,
   preferred |-> None, snapped |-> None, width |-> width, scroll |-> 0]

-----------------------------------------------------------------------------
(* The parts of the handlers. *)

Valid(x) == DOMAIN x.pastes
Line(x)  == x.lines[x.row]

\* setCursorCol.
At(x, row, col) == [x EXCEPT !.row = row, !.col = col, !.preferred = None, !.snapped = None]

\* The line of the cursor without its cells from column `from` to column `to`.
Without(x, from, to) ==
  [x EXCEPT !.lines[x.row] = Slice(@, 0, from) \o Slice(@, to, Len(@))]

PushUndo(x) ==
  [x EXCEPT !.undo = Append(@, [lines |-> x.lines, row |-> x.row, col |-> x.col,
                                pastes |-> x.pastes, counter |-> x.counter])]

ExitHistory(x) == [x EXCEPT !.index = 0, !.draft = None]

\* Two texts, one after the other.
Joined(a, b) ==
  SubSeq(a, 1, Len(a) - 1) \o <<a[Len(a)] \o b[1]>> \o SubSeq(b, 2, Len(b))

\* The text before and the text after the cursor.
TextBefore(x) == Append(SubSeq(x.lines, 1, x.row - 1), Slice(Line(x), 0, x.col))
TextAfter(x)  == <<Slice(Line(x), x.col, Len(Line(x)))>> \o SubSeq(x.lines, x.row + 1, Len(x.lines))

\* insertTextAtCursorInternal, insertYankedText.
InsertText(x, text) ==
  At([x EXCEPT !.lines = Joined(Joined(TextBefore(x), text), TextAfter(x))],
     x.row + Len(text) - 1,
     (IF Len(text) = 1 THEN x.col ELSE 0) + Len(text[Len(text)]))

\* The line below becomes the end of the line of the cursor.
MergeBelow(x) ==
  [x EXCEPT !.lines = SubSeq(@, 1, x.row - 1) \o <<@[x.row] \o @[x.row + 1]>>
                        \o SubSeq(@, x.row + 2, Len(@))]

\* The line of the cursor becomes the end of the line above.
MergeAbove(x) ==
  LET above == Len(x.lines[x.row - 1]) IN
  At(MergeBelow([x EXCEPT !.row = @ - 1]), x.row - 1, above)

-----------------------------------------------------------------------------
(* Typing and pasting. *)

\* Consecutive characters of a word are undone together; a space keeps the
\* text before itself.
InsertCharacter(x, ch) ==
  LET y == ExitHistory(x)
      z == IF ch = " " \/ x.last # "type-word" THEN PushUndo(y) ELSE y
  IN InsertText([z EXCEPT !.last = "type-word"], << <<Char(ch)>> >>)

IsWordCharacter(cell) == cell.ch \notin {" ", ".", "\\", "m", "W"}

\* A path after a word character gets a space.
PathApart(x, text) ==
  IF text[1] # << >> /\ text[1][1].ch = "." /\ x.col > 0 /\ IsWordCharacter(Line(x)[x.col])
  THEN [text EXCEPT ![1] = <<Char(" ")>> \o @] ELSE text

PasteBegun(x) == PushUndo([ExitHistory(x) EXCEPT !.last = None])

PasteSmall(x, text) == InsertText(PasteBegun(x), PathApart(x, text))

\* More than 10 lines or 1000 characters: a marker is put in.
PasteLarge(x, content) ==
  LET y  == PasteBegun(x)
      id == x.counter + 1
  IN InsertText([y EXCEPT !.counter = id,
                   !.pastes = [i \in DOMAIN @ \cup {id} |-> IF i = id THEN content ELSE @[i]]],
                <<Marker(id, content)>>)

AddNewLine(x) == InsertText(PushUndo([ExitHistory(x) EXCEPT !.last = None]), << << >>, << >> >>)

\* expandPasteMarkers.
ExpandSegments(line, segments, pastes) ==
  [i \in DOMAIN segments |->
     LET cell == line[segments[i].at + 1] IN
     IF segments[i].len > 1 THEN Char(pastes[cell.id]) ELSE cell]

ExpandLine(line, pastes) == ExpandSegments(line, Segments(line, DOMAIN pastes), pastes)

\* trim.
Ink(line) == {p \in DOMAIN line : ~IsSpace(line[p])}

Cropped(lines, solid) ==
  IF solid = {} THEN NoText
  ELSE [i \in 1..(Last(solid, 0) - First(solid, 0) + 1) |->
          LET row == First(solid, 0) + i - 1 IN
          SubSeq(lines[row], IF i = 1 THEN First(Ink(lines[row]), 0) ELSE 1,
                 IF row = Last(solid, 0) THEN Last(Ink(lines[row]), 0) ELSE Len(lines[row]))]

Trimmed(lines) == Cropped(lines, {i \in DOMAIN lines : Ink(lines[i]) # {}})

\* addToHistory, called by the application for what was submitted.
AddToHistory(history, text) ==
  IF text = NoText \/ (history # << >> /\ history[1] = text) THEN history
  ELSE SubSeq(<<text>> \o history, 1,
              IF Len(history) < MaxHistory THEN Len(history) + 1 ELSE MaxHistory)

\* submitValue; the columns kept for vertical moves are not reset.
SubmitValue(x) ==
  [ExitHistory(x) EXCEPT !.lines = NoText, !.row = 1, !.col = 0, !.pastes = << >>, !.counter = 0,
     !.undo = << >>, !.last = None, !.scroll = 0,
     !.history = AddToHistory(@, Trimmed([i \in DOMAIN x.lines |-> ExpandLine(x.lines[i], x.pastes)]))]

SetText(x, text) ==
  LET y == ExitHistory([x EXCEPT !.last = None])
      z == IF x.lines = text THEN y ELSE PushUndo(y)
  IN At([z EXCEPT !.lines = text, !.pastes = << >>, !.counter = 0, !.scroll = 0],
        Len(text), Len(text[Len(text)]))

-----------------------------------------------------------------------------
(* Deleting. *)

\* Mutant: the markers in the text keep their numbers.
RenumberNone(line, target) == line

RenumberSegments(line, segments, target) ==
  LET upto[i \in 0..Len(segments)] ==
        IF i = 0 THEN << >>
        ELSE LET s    == segments[i]
                 cell == line[s.at + 1]
             IN upto[i - 1] \o
                  IF s.len > 1 /\ cell.id > target THEN Marker(cell.id - 1, cell.of)
                  ELSE Slice(line, s.at, s.at + s.len)
  IN upto[Len(segments)]

\* The markers with a number above `target` are counted down.
RenumberLine(line, target) ==
  RenumberSegments(line, Segments(line, {line[p].id : p \in DOMAIN line}), target)

RenumberLines(lines, target) ==
  [i \in DOMAIN lines |-> RenumberLine(lines[i], target)]

\* The registry without `target`, the numbers above it counted down.
Shift(pastes, target) ==
  [i \in {i \in DOMAIN pastes : i < target} \cup {i - 1 : i \in {i \in DOMAIN pastes : i > target}} |->
     IF i < target THEN pastes[i] ELSE pastes[i + 1]]

\* The segment before the cursor is deleted; a marker is taken out of the
\* registry.
DeleteBefore(x, s) ==
  LET id == Line(x)[s.at + 1].id
      r  == IF s.len = 1 THEN x
            ELSE [x EXCEPT !.pastes = Shift(@, id), !.counter = @ - 1, !.lines = RenumberLines(@, id)]
  IN At(Without(r, s.at, x.col), x.row, s.at)

HandleBackspace(x) ==
  LET y == [ExitHistory(x) EXCEPT !.last = None] IN
  IF x.col > 0 THEN DeleteBefore(PushUndo(y), SegmentBefore(Line(x), x.col, Valid(x)))
  ELSE IF x.row > 1 THEN MergeAbove(PushUndo(y)) ELSE y

\* The length of the segment after the cursor.
LengthAhead(x) == SegmentLength(Slice(Line(x), x.col, Len(Line(x))), 0, Valid(x))

\* Mutant: joining the lines cannot be undone.
ForwardDeleteForGood(x) ==
  LET y == [ExitHistory(x) EXCEPT !.last = None] IN
  IF x.col < Len(Line(x)) THEN Without(PushUndo(y), x.col, x.col + LengthAhead(x))
  ELSE IF x.row < Len(x.lines) THEN MergeBelow(y) ELSE y

HandleForwardDelete(x) ==
  LET y == [ExitHistory(x) EXCEPT !.last = None] IN
  IF x.col < Len(Line(x)) THEN Without(PushUndo(y), x.col, x.col + LengthAhead(x))
  ELSE IF x.row < Len(x.lines) THEN MergeBelow(PushUndo(y)) ELSE y

\* KillRing.push: kills that follow each other make one entry.
Killed(x, text, prepend) ==
  LET n == Len(x.ring) IN
  [x EXCEPT !.last = "kill",
     !.ring = IF x.last = "kill" /\ n > 0
              THEN [@ EXCEPT ![n] = IF prepend THEN Joined(text, @) ELSE Joined(@, text)]
              ELSE Append(@, text)]

NewLineText == << << >>, << >> >>

KillAbove(x) ==
  IF x.row > 1 THEN MergeAbove(Killed(PushUndo(x), NewLineText, TRUE)) ELSE x

KillBelow(x) ==
  IF x.row < Len(x.lines) THEN MergeBelow(Killed(PushUndo(x), NewLineText, FALSE)) ELSE x

\* From column `from` to the cursor.
KillBackTo(x, from) ==
  At(Without(Killed(PushUndo(x), <<Slice(Line(x), from, x.col)>>, TRUE), from, x.col), x.row, from)

\* From the cursor to column `to`.
KillAheadTo(x, to) ==
  Without(Killed(PushUndo(x), <<Slice(Line(x), x.col, to)>>, FALSE), x.col, to)

DeleteToStartOfLine(x) ==
  LET y == ExitHistory(x) IN IF x.col > 0 THEN KillBackTo(y, 0) ELSE KillAbove(y)

\* The cursor does not move, and its columns are kept.
DeleteToEndOfLine(x) ==
  LET y == ExitHistory(x) IN
  IF x.col < Len(Line(x)) THEN KillAheadTo(y, Len(Line(x))) ELSE KillBelow(y)

DeleteWordBackwards(x) ==
  LET y == ExitHistory(x) IN
  IF x.col = 0 THEN KillAbove(y) ELSE KillBackTo(y, WordBackward(Line(x), x.col, Valid(x)))

DeleteWordForward(x) ==
  LET y == ExitHistory(x) IN
  IF x.col >= Len(Line(x)) THEN KillBelow(y)
  ELSE At(KillAheadTo(y, WordForward(Line(x), x.col, Valid(x))), x.row, x.col)

\* The newest entry of the kill ring.
Newest(x) == x.ring[Len(x.ring)]

Yanked(x) == [InsertText(ExitHistory(x), Newest(x)) EXCEPT !.last = "yank"]

Yank(x) == IF x.ring = << >> THEN x ELSE Yanked(PushUndo(x))

\* deleteYankedText: what was yanked ends at the cursor.
DeleteYanked(x) ==
  LET first == Newest(x)[1]
      row   == x.row - (Len(Newest(x)) - 1)
      col   == (IF row = x.row THEN x.col ELSE Len(x.lines[row])) - Len(first)
  IN At([x EXCEPT !.lines = SubSeq(@, 1, row - 1)
                              \o <<Slice(@[row], 0, col) \o Slice(Line(x), x.col, Len(Line(x)))>>
                              \o SubSeq(@, x.row + 1, Len(@))], row, col)

Rotated(ring) == <<ring[Len(ring)]>> \o SubSeq(ring, 1, Len(ring) - 1)

YankPop(x) ==
  IF x.last # "yank" \/ Len(x.ring) <= 1 THEN x
  ELSE Yanked([DeleteYanked(PushUndo(x)) EXCEPT !.ring = Rotated(@)])

\* undo; the column the cursor was snapped from is kept.
Undo(x) ==
  LET y == ExitHistory(x) IN
  IF x.undo = << >> THEN y
  ELSE LET s == x.undo[Len(x.undo)] IN
       [y EXCEPT !.lines = s.lines, !.row = s.row, !.col = s.col, !.pastes = s.pastes,
          !.counter = s.counter, !.last = None, !.preferred = None,
          !.undo = SubSeq(@, 1, Len(@) - 1)]

-----------------------------------------------------------------------------
(* Moving. *)

Visual(x) == VisualLines(x.lines, x.width, Valid(x))

\* The visual line of the cursor, among all of them.
CurrentVisual(x, visual) == VisualLineAt(visual, x.row, x.col)

\* computeVerticalMoveColumn: the column to move to, and the one to keep.
VerticalColumn(preferred, current, source, target) ==
  IF preferred = None \/ current < source
  THEN IF target < current THEN [col |-> target, preferred |-> current]
       ELSE [col |-> current, preferred |-> None]
  ELSE IF target < current \/ target < preferred THEN [col |-> target, preferred |-> preferred]
  ELSE [col |-> preferred, preferred |-> None]

\* The column in the visual line, of the cursor or of where it was snapped
\* from.
VisualColumn(x, visual, current) ==
  IF x.snapped # None
  THEN x.snapped - visual[VisualLineAt(visual, visual[current].row, x.snapped)].from
  ELSE x.col - visual[current].from

\* The first visual line after `v` that does not begin inside the segment.
PastSegment(visual, v, s) ==
  First({u \in (v + 1)..Len(visual) :
           visual[u].row # visual[v].row \/ visual[u].from >= s.at + s.len}, Len(visual) + 1)

\* The markers that the cursor is in or before.
MarkersAround(x, segments) ==
  {s \in {segments[i] : i \in DOMAIN segments} :
     s.len > 1 /\ s.at <= x.col /\ x.col < s.at + s.len}

\* The cursor has moved to `move.col` of the target line.
Landed(x, visual, target, move) ==
  LET row    == visual[target].row
      wanted == visual[target].from + move.col
  IN [x EXCEPT !.row = row, !.preferred = move.preferred,
               !.col = IF wanted < Len(x.lines[row]) THEN wanted ELSE Len(x.lines[row])]

RECURSIVE MoveToVisualLine(_, _, _, _)

\* A cursor that has landed in a marker is put at its start, or, on the way
\* down out of it, past it.
Settled(x, visual, current, target, around) ==
  IF around = {} THEN [x EXCEPT !.snapped = None]
  ELSE LET s    == CHOOSE s \in around : TRUE
           past == PastSegment(visual, target, s)
       IN IF s.at < visual[target].from /\ target > current /\ past <= Len(visual)
          THEN MoveToVisualLine(x, visual, current, past)
          ELSE [x EXCEPT !.snapped = x.col, !.col = s.at]

Aground(x, visual, current, target) ==
  Settled(x, visual, current, target, MarkersAround(x, Segments(Line(x), Valid(x))))

\* moveToVisualLine.
MoveToVisualLine(x, visual, current, target) ==
  Aground(Landed(x, visual, target,
                 VerticalColumn(x.preferred, VisualColumn(x, visual, current),
                                LastColumn(visual, current), LastColumn(visual, target))),
          visual, current, target)

\* moveCursor, pageScroll: by `delta` visual lines, as far as there are any.
MoveVertically(x, visual, delta) ==
  LET current == CurrentVisual(x, visual)
      target  == current + delta
  IN MoveToVisualLine([x EXCEPT !.last = None], visual, current,
                      IF target < 1 THEN 1 ELSE IF target > Len(visual) THEN Len(visual) ELSE target)

MoveRight(x, visual) ==
  LET y == [x EXCEPT !.last = None] IN
  IF x.col < Len(Line(x)) THEN At(y, x.row, x.col + LengthAhead(x))
  ELSE IF x.row < Len(x.lines) THEN At(y, x.row + 1, 0)
  ELSE [y EXCEPT !.preferred = x.col - visual[CurrentVisual(x, visual)].from]

MoveLeft(x) ==
  LET y == [x EXCEPT !.last = None] IN
  IF x.col > 0 THEN At(y, x.row, SegmentBefore(Line(x), x.col, Valid(x)).at)
  ELSE IF x.row > 1 THEN At(y, x.row - 1, Len(x.lines[x.row - 1]))
  ELSE y

MoveWordForwards(x) ==
  LET y == [x EXCEPT !.last = None] IN
  IF x.col < Len(Line(x)) THEN At(y, x.row, WordForward(Line(x), x.col, Valid(x)))
  ELSE IF x.row < Len(x.lines) THEN At(y, x.row + 1, 0) ELSE y

MoveWordBackwards(x) ==
  LET y == [x EXCEPT !.last = None] IN
  IF x.col > 0 THEN At(y, x.row, WordBackward(Line(x), x.col, Valid(x)))
  ELSE IF x.row > 1 THEN At(y, x.row - 1, Len(x.lines[x.row - 1])) ELSE y

MoveToLineStart(x) == At([x EXCEPT !.last = None], x.row, 0)
MoveToLineEnd(x)   == At([x EXCEPT !.last = None], x.row, Len(Line(x)))

\* jumpToChar: the next cell with the character, wherever it is.
JumpForward(x, ch) ==
  LET here(i) == {p \in DOMAIN x.lines[i] :
                    x.lines[i][p].ch = ch /\ (i = x.row => p > x.col + 1)}
      row == First({i \in x.row..Len(x.lines) : here(i) # {}}, 0)
      y   == [x EXCEPT !.last = None]
  IN IF row = 0 THEN y ELSE At(y, row, First(here(row), 0) - 1)

JumpBackward(x, ch) ==
  LET here(i) == {p \in DOMAIN x.lines[i] :
                    x.lines[i][p].ch = ch /\ (i = x.row => p <= x.col)}
      row == Last({i \in 1..x.row : here(i) # {}}, 0)
      y   == [x EXCEPT !.last = None]
  IN IF row = 0 THEN y ELSE At(y, row, Last(here(row), 0) - 1)

-----------------------------------------------------------------------------
(* History. *)

\* setTextInternal.
ShowEntry(x, index, atStart) ==
  LET text == x.history[index]
      y    == [x EXCEPT !.lines = text, !.index = index, !.scroll = 0]
  IN IF atStart THEN At(y, 1, 0) ELSE At(y, Len(text), Len(text[Len(text)]))

HistoryBack(x) ==
  LET y == [x EXCEPT !.last = None] IN
  IF x.index = Len(x.history) THEN y
  ELSE ShowEntry(IF x.index > 0 THEN y
                 ELSE [PushUndo(y) EXCEPT !.draft = [lines |-> x.lines, row |-> x.row, col |-> x.col]],
                 x.index + 1, TRUE)

HistoryForward(x) ==
  LET y == [x EXCEPT !.last = None] IN
  IF x.index > 1 THEN ShowEntry(y, x.index - 1, FALSE)
  ELSE [y EXCEPT !.index = 0, !.draft = None, !.lines = x.draft.lines, !.row = x.draft.row,
          !.col = x.draft.col, !.preferred = None, !.snapped = None, !.scroll = 0]

IsEmpty(x) == x.lines = NoText

CursorUp(x, visual) ==
  IF CurrentVisual(x, visual) = 1
  THEN IF IsEmpty(x) \/ x.index > 0 \/ x.col = 0 THEN HistoryBack(x) ELSE MoveToLineStart(x)
  ELSE MoveVertically(x, visual, -1)

CursorDown(x, visual) ==
  IF CurrentVisual(x, visual) = Len(visual)
  THEN IF x.index > 0 THEN HistoryForward(x) ELSE MoveToLineEnd(x)
  ELSE MoveVertically(x, visual, 1)

\* A \ before the cursor makes Enter a new line.
Enter(x) ==
  IF x.col > 0 /\ Line(x)[x.col].ch = "\\" THEN AddNewLine(HandleBackspace(x)) ELSE SubmitValue(x)

\* The first visual line that is drawn, of `count`.
Scrolled(scroll, cursor, count) ==
  LET kept == IF cursor < scroll THEN cursor
              ELSE IF cursor >= scroll + VisibleLines THEN cursor - VisibleLines + 1
              ELSE scroll
      most == IF count > VisibleLines THEN count - VisibleLines ELSE 0
  IN IF kept > most THEN most ELSE kept

\* The visual lines that are drawn with the cursor.
CursorLinesOf(x, visual) == CursorLines(visual, x.lines, x.row, x.col, x.width)

\* render.
RenderedAs(x, visual) ==
  [x EXCEPT !.scroll = Scrolled(@, (CHOOSE v \in CursorLinesOf(x, visual) : TRUE) - 1, Len(visual))]

Rendered(x, width) ==
  LET y == [x EXCEPT !.width = width] IN RenderedAs(y, Visual(y))

-----------------------------------------------------------------------------
CellsOf(lines) ==
  LET n[i \in 0..Len(lines)] == IF i = 0 THEN 0 ELSE n[i - 1] + 1 + Len(lines[i]) IN n[Len(lines)]

Init ==
  /\ e \in {Fresh(text, width) : text \in Texts, width \in Widths}
  /\ steps = 0 /\ killBase = None /\ came = None

Edit(key) ==
  \/ key = "type" /\ \E ch \in Typed : e' = InsertCharacter(e, ch)
  \/ key = "pasteSmall" /\ \E text \in Small : e' = PasteSmall(e, text)
  \/ key = "paste" /\ \E content \in Large : e' = PasteLarge(e, content)
  \/ key = "newLine" /\ e' = AddNewLine(e)
  \/ key = "enter" /\ e' = Enter(e)
  \/ key = "clear" /\ e' = SetText(e, NoText)
  \/ key = "backspace" /\ e' = HandleBackspace(e)
  \/ key = "delete" /\ e' = HandleForwardDelete(e)
  \/ key = "undo" /\ e' = Undo(e)

Kill(key) ==
  \/ key = "killStart" /\ e' = DeleteToStartOfLine(e)
  \/ key = "killEnd" /\ e' = DeleteToEndOfLine(e)
  \/ key = "killWordBack" /\ e' = DeleteWordBackwards(e)
  \/ key = "killWord" /\ e' = DeleteWordForward(e)
  \/ key = "yank" /\ e' = Yank(e)
  \/ key = "yankPop" /\ e' = YankPop(e)

Move(key, visual) ==
  \/ key = "up" /\ e' = CursorUp(e, visual)
  \/ key = "down" /\ e' = CursorDown(e, visual)
  \/ key = "left" /\ e' = MoveLeft(e)
  \/ key = "right" /\ e' = MoveRight(e, visual)
  \/ key = "wordLeft" /\ e' = MoveWordBackwards(e)
  \/ key = "wordRight" /\ e' = MoveWordForwards(e)
  \/ key = "lineStart" /\ e' = MoveToLineStart(e)
  \/ key = "lineEnd" /\ e' = MoveToLineEnd(e)
  \/ key = "pageUp" /\ e' = MoveVertically(e, visual, -VisibleLines)
  \/ key = "pageDown" /\ e' = MoveVertically(e, visual, VisibleLines)
  \/ key = "jump" /\ \E ch \in Typed \cup {"m"} : e' = JumpForward(e, ch) \/ e' = JumpBackward(e, ch)
  \/ key = "render" /\ \E width \in Widths : e' = Rendered(e, width)

\* The key is noted: for the kills that belong together, and for a step
\* back.
Noted(key, visual) ==
  /\ killBase' = IF e'.last # "kill" THEN None ELSE IF e.last = "kill" THEN killBase ELSE e.lines
  /\ came' = IF key \in {"up", "down"} /\ e'.lines = e.lines /\ e'.index = e.index
                  /\ CurrentVisual(e, visual) + (IF key = "up" THEN -1 ELSE 1) \in DOMAIN visual
               THEN [key |-> key, row |-> e.row, col |-> e.col] ELSE None

Press(key, visual) ==
  /\ Edit(key) \/ Kill(key) \/ Move(key, visual)
  /\ CellsOf(e'.lines) <= MaxCells + 1
  /\ Noted(key, visual)

Next ==
  \/ /\ steps < MaxSteps /\ steps' = steps + 1
     /\ \E key \in Keys : Press(key, Visual(e))
  \/ steps = MaxSteps /\ UNCHANGED vars

Spec == Init /\ [][Next]_vars

-----------------------------------------------------------------------------
AllLines(x) == {x.lines} \cup {x.undo[i].lines : i \in DOMAIN x.undo}
                 \cup (IF x.draft = None THEN {} ELSE {x.draft.lines})

TypeOK ==
  /\ e.row \in 1..Len(e.lines)
  /\ DOMAIN e.pastes \subseteq 1..MaxSteps /\ e.counter \in 0..MaxSteps
  /\ e.last \in {"kill", "yank", "type-word", None}
  /\ e.index \in 0..Len(e.history) /\ Len(e.history) <= MaxHistory
  /\ (e.index = 0) = (e.draft = None)
  /\ \A lines \in AllLines(e) : Len(lines) >= 1
  /\ e.width \in Widths /\ e.scroll \in Nat

\* The cursor is in the text.
CursorInText == e.row \in 1..Len(e.lines) /\ e.col \in 0..Len(e.lines[e.row])

Outside(segments, col) ==
  \A i \in DOMAIN segments : ~(segments[i].at < col /\ col < segments[i].at + segments[i].len)

\* The cursor is never in the middle of a marker.
CursorNotInMarker == Outside(Segments(Line(e), Valid(e)), e.col)

\* What a marker of these lines expands to is what was pasted for it, and
\* no marker is only text.
Kept(lines, pastes) ==
  \A i \in DOMAIN lines : \A p \in DOMAIN lines[i] :
    lines[i][p].ch = "m" =>
      /\ lines[i][p].id \in DOMAIN pastes
      /\ pastes[lines[i][p].id] = lines[i][p].of

\* Every marker on the screen, and every one that undo or the history would
\* bring back, stands for the paste it was put in for, after any number of
\* pastes, deletions, renumberings and undos.
MarkersHoldTheirPaste ==
  /\ Kept(e.lines, e.pastes)
  /\ e.draft # None => Kept(e.draft.lines, e.pastes)
  /\ \A i \in DOMAIN e.undo : Kept(e.undo[i].lines, e.undo[i].pastes)

\* A text of units: a marker is one, without its number.
UnitsOf(line, segments) ==
  [n \in DOMAIN segments |->
     LET cell == line[segments[n].at + 1] IN
     IF segments[n].len > 1 THEN <<"marker", cell.of>> ELSE <<cell.ch, cell.k>>]

Units(lines, pastes) ==
  [i \in DOMAIN lines |-> UnitsOf(lines[i], Segments(lines[i], DOMAIN pastes))]

\* Backspace takes the character or the marker before the cursor and leaves
\* everything else in its place.
BackspaceTakesOne ==
  e' = HandleBackspace(e) /\ e.col > 0 /\ e'.lines # e.lines =>
    Units(e'.lines, e'.pastes) =
      Units(Without(e, SegmentBefore(Line(e), e.col, Valid(e)).at, e.col).lines, e.pastes)

\* No key makes a text disappear for good: the text before it is added to
\* the undo stack, unless characters of one word are typed, the text is
\* submitted or taken back, or an entry of the history is left.
EditsAreUndoable ==
  e'.lines # e.lines =>
    \/ \E i \in (Len(e.undo) + 1)..Len(e'.undo) : e'.undo[i].lines = e.lines
    \/ e.last = "type-word" /\ e'.last = "type-word"
    \/ e'.undo = << >>
    \/ Len(e'.undo) < Len(e.undo) /\ e'.lines = e.undo[Len(e.undo)].lines
    \/ e.index > 0 /\ e'.undo = e.undo

\* While the history is browsed, what is shown is an entry of it: every
\* edit ends the browsing, so that going on cannot overwrite it.
BrowsingShowsHistory == e.index > 0 => e.lines = e.history[e.index]

\* Kills that follow each other, forward and backward, make one entry:
\* yanked at the cursor it gives back the text before the first of them.
KillsRunTogether == e.last = "kill" => InsertText(e, Newest(e)).lines = killBase

\* While the next yank-pop would replace it, what was yanked ends at the
\* cursor.
YankedIsBeforeCursor ==
  e.last = "yank" =>
    /\ e.row >= Len(Newest(e)) /\ DeleteYanked(e).col >= 0
    /\ InsertText(DeleteYanked(e), Newest(e)).lines = e.lines

\* A step down and a step up, or the other way round, lead back to where
\* the cursor was (the decision table of computeVerticalMoveColumn).
VerticalReturns ==
  came # None /\ came'  # None /\ came'.key # came.key =>
    e'.row = came.row /\ e'.col = came.col

\* The two computations of where the cursor is agree: the one that draws it
\* and the one that moves it.
DrawnWhereItMoves ==
  \A visual \in {Visual(e)} : CursorLinesOf(e, visual) = {CurrentVisual(e, visual)}

\* After it is drawn, the line of the cursor is on the screen.
CursorIsVisible ==
  \A width \in Widths : e' = Rendered(e, width) =>
    CurrentVisual(e', Visual(e')) - 1 \in e'.scroll..(e'.scroll + VisibleLines - 1)
=============================================================================
