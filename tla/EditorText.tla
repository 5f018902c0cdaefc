----------------------------- MODULE EditorText -----------------------------
(***************************************************************************)
(* The text of the editor (src/src/tui/components/editor.ts) and what it   *)
(* computes from it: segments, word wrap, visual lines and words.          *)
(*                                                                         *)
(* A line is a sequence of cells, a column the number of cells before it.  *)
(* A cell is a typed character, or one of the cells of the marker that     *)
(* stands for a large paste: [ch |-> "m", id, k, of], the k-th cell of the *)
(* marker with the number `id`.  `of` is the paste the marker was put in   *)
(* for; it is not in the text, and no operator of the editor looks at it.  *)
(* A marker with two digits is one cell wider.                             *)
(***************************************************************************)
EXTENDS Integers, Sequences, FiniteSets

CONSTANTS
  MarkerWidth,   \* the cells of a marker whose number has one digit
  Ten,           \* the first number with two digits
  MarkerGaps,    \* the columns of a marker that are behind a space
  None

\* What an instance assumes of the constants.
MarkerAssumption ==
  /\ MarkerWidth \in Nat \ {0, 1} /\ Ten \in Nat \ {0, 1}
  /\ MarkerGaps \subseteq 1..(MarkerWidth - 1)

Char(ch) == [ch |-> ch, id |-> 0, k |-> 1, of |-> None]

MarkerLength(id) == IF id >= Ten THEN MarkerWidth + 1 ELSE MarkerWidth

Marker(id, of) == [k \in 1..MarkerLength(id) |-> [ch |-> "m", id |-> id, k |-> k, of |-> of]]

IsSpace(cell) == cell.ch = " " \/ (cell.ch = "m" /\ cell.k \in MarkerGaps)
IsWide(cell)  == cell.ch = "W"

CellWidth(cell) == IF IsWide(cell) THEN 2 ELSE 1

\* The first and the last of a set of numbers, or what stands for none.
First(S, none) == IF S = {} THEN none ELSE CHOOSE i \in S : \A k \in S : i <= k
Last(S, none)  == IF S = {} THEN none ELSE CHOOSE i \in S : \A k \in S : i >= k

\* slice, with columns counted from 0.
Slice(line, from, to) == SubSeq(line, from + 1, IF to > Len(line) THEN Len(line) ELSE to)

-----------------------------------------------------------------------------
(* Segments: a whole marker whose number is in the registry is one.        *)

\* segmentWithMarkers: a whole marker of the registry begins at column p.
MarkerAt(line, p, valid) ==
  \E id \in valid :
    \A i \in 1..MarkerLength(id) :
      p + i <= Len(line) /\ line[p + i].ch = "m" /\ line[p + i].id = id /\ line[p + i].k = i

SegmentLength(line, p, valid) ==
  IF MarkerAt(line, p, valid) THEN MarkerLength(line[p + 1].id) ELSE 1

Segments(line, valid) ==
  LET from[p \in 0..Len(line)] ==
        IF p = Len(line) THEN << >>
        ELSE LET n == SegmentLength(line, p, valid) IN
             <<[at |-> p, len |-> n]>> \o from[p + n]
  IN from[0]

\* The segment that ends at column p.
SegmentBefore(line, p, valid) ==
  LET start == First({q \in 0..(p - 1) : /\ MarkerAt(Slice(line, 0, p), q, valid)
                                         /\ q + MarkerLength(line[q + 1].id) = p}, p - 1)
  IN [at |-> start, len |-> p - start]

SegmentWidth(line, s) ==
  IF s.len > 1 THEN s.len ELSE CellWidth(line[s.at + 1])

-----------------------------------------------------------------------------
(* Word wrap: chunks [from, to) of a line. *)

Width(line) ==
  LET w[i \in 0..Len(line)] == IF i = 0 THEN 0 ELSE w[i - 1] + CellWidth(line[i]) IN w[Len(line)]

\* A marker wider than the line is wrapped as a text of its own: where its
\* pieces begin, behind a space if there is one in reach.
MarkerCuts(len, max) ==
  LET from[p \in 0..len] ==
        IF len - p <= max THEN <<p>>
        ELSE <<p>> \o from[Last({q \in MarkerGaps : p < q /\ q <= p + max}, p + max)]
  IN from[0]

\* The last piece begins the next chunk.
CutMarker(w, s, cuts) ==
  [w EXCEPT !.chunks = @ \o [j \in 1..(Len(cuts) - 1) |->
                                [from |-> s.at + cuts[j], to |-> s.at + cuts[j + 1]]],
            !.start = s.at + cuts[Len(cuts)], !.width = s.len - cuts[Len(cuts)],
            !.opportunity = -1]

SpaceIn(line, s) == s.len = 1 /\ IsSpace(line[s.at + 1])
WideIn(line, s)  == s.len = 1 /\ IsWide(line[s.at + 1])

\* A line may be broken after the last of some spaces and beside a wide
\* character.
MayBreakBetween(line, s, next) ==
  /\ ~SpaceIn(line, next)
  /\ SpaceIn(line, s) \/ WideIn(line, s) \/ WideIn(line, next)

\* Mutant: the chunk ends at the opportunity even if the rest is too wide.
OverflowBack(w, s, width, max) ==
  IF w.width + width <= max THEN w
  ELSE IF w.opportunity >= 0
  THEN [w EXCEPT !.chunks = Append(@, [from |-> w.start, to |-> w.opportunity]),
                 !.start = w.opportunity, !.width = @ - w.before, !.opportunity = -1]
  ELSE IF w.start < s.at
  THEN [w EXCEPT !.chunks = Append(@, [from |-> w.start, to |-> s.at]),
                 !.start = s.at, !.width = 0, !.opportunity = -1]
  ELSE [w EXCEPT !.opportunity = -1]

\* The segment does not fit: the chunk ends at the last place where it may
\* be broken, if what follows fits then, or else right here.
Overflow(w, s, width, max) ==
  IF w.width + width <= max THEN w
  ELSE IF w.opportunity >= 0 /\ w.width - w.before + width <= max
  THEN [w EXCEPT !.chunks = Append(@, [from |-> w.start, to |-> w.opportunity]),
                 !.start = w.opportunity, !.width = @ - w.before, !.opportunity = -1]
  ELSE IF w.start < s.at
  THEN [w EXCEPT !.chunks = Append(@, [from |-> w.start, to |-> s.at]),
                 !.start = s.at, !.width = 0, !.opportunity = -1]
  ELSE [w EXCEPT !.opportunity = -1]

\* The i-th segment is put after what `w` holds.
Advance(w, line, segments, i, max) ==
  LET width == SegmentWidth(line, segments[i]) IN
  IF width > max THEN CutMarker(w, segments[i], MarkerCuts(segments[i].len, max))
  ELSE IF i < Len(segments) /\ MayBreakBetween(line, segments[i], segments[i + 1])
  THEN [w EXCEPT !.width = @ + width, !.opportunity = segments[i + 1].at, !.before = w.width + width]
  ELSE [w EXCEPT !.width = @ + width]

WordWrapSegments(line, segments, max) ==
  LET walk[i \in 0..Len(segments)] ==
        IF i = 0 THEN [chunks |-> << >>, start |-> 0, width |-> 0, opportunity |-> -1, before |-> 0]
        ELSE Advance(Overflow(walk[i - 1], segments[i], SegmentWidth(line, segments[i]), max),
                     line, segments, i, max)
  IN walk[Len(segments)]

\* A single character wider than the line is wrapped as a line of its own,
\* which never ends.
Diverges(line, max) == max < 2 /\ Width(line) > max /\ \E i \in DOMAIN line : IsWide(line[i])

LastChunk(w, line) == Append(w.chunks, [from |-> w.start, to |-> Len(line)])

WordWrapLine(line, max, valid) ==
  IF Width(line) <= max THEN <<[from |-> 0, to |-> Len(line)]>>
  ELSE LastChunk(WordWrapSegments(line, Segments(line, valid), max), line)

-----------------------------------------------------------------------------
(* Visual lines. *)

ChunkLines(row, chunks) ==
  [c \in DOMAIN chunks |->
     [row |-> row, from |-> chunks[c].from, len |-> chunks[c].to - chunks[c].from]]

\* buildVisualLineMap.
VisualLines(lines, max, valid) ==
  LET upto[i \in 0..Len(lines)] ==
        IF i = 0 THEN << >>
        ELSE upto[i - 1] \o ChunkLines(i, WordWrapLine(lines[i], max, valid))
  IN upto[Len(lines)]

IsLastOfRow(visual, v) == v = Len(visual) \/ visual[v + 1].row # visual[v].row

\* findVisualLineAt: the last visual line when there is none.
VisualLineAt(visual, row, col) ==
  First({v \in DOMAIN visual :
           /\ visual[v].row = row /\ col >= visual[v].from
           /\ \/ col - visual[v].from < visual[v].len
              \/ IsLastOfRow(visual, v) /\ col - visual[v].from = visual[v].len}, Len(visual))

\* layoutText: the visual lines that are drawn with the cursor.
CursorLines(visual, lines, row, col, max) ==
  {v \in DOMAIN visual :
     /\ visual[v].row = row
     /\ \/ Width(lines[row]) <= max
        \/ /\ col >= visual[v].from
           /\ IsLastOfRow(visual, v) \/ col < visual[v].from + visual[v].len}

\* A visual line that is continued has no column after its last one.
LastColumn(visual, v) ==
  IF IsLastOfRow(visual, v) THEN visual[v].len
  ELSE IF visual[v].len = 0 THEN 0 ELSE visual[v].len - 1

-----------------------------------------------------------------------------
(* Words. *)

\* The word segmenter and the ASCII punctuation rule: a marker is a unit,
\* the brackets of one that is none are punctuation.
Class(line, s) ==
  LET cell == line[s.at + 1] IN
  IF s.len > 1 THEN "marker"
  ELSE IF IsSpace(cell) THEN "space"
  ELSE IF cell.ch = "." \/ (cell.ch = "m" /\ cell.k \in {1, MarkerLength(cell.id)}) THEN "punctuation"
  ELSE "word"

\* The end of the run of segments of one class that starts at the i-th.
RunEnd(line, segments, i, class) ==
  First({j \in i..Len(segments) : Class(line, segments[j]) # class}, Len(segments) + 1)

\* The end of the word that starts at the i-th segment.
WordEnd(line, segments, i) ==
  IF i > Len(segments) THEN i
  ELSE IF segments[i].len > 1 THEN i + 1
  ELSE RunEnd(line, segments, i, Class(line, segments[i]))

Forward(rest, segments) ==
  LET after == WordEnd(rest, segments, RunEnd(rest, segments, 1, "space")) IN
  IF after > Len(segments) THEN Len(rest) ELSE segments[after].at

\* findWordForward, from column p.
WordForward(line, p, valid) ==
  LET rest == Slice(line, p, Len(line)) IN p + Forward(rest, Segments(rest, valid))

\* The first segment of the run of one class that ends with the i-th.
RunStart(line, segments, i, class) ==
  1 + Last({j \in 1..i : Class(line, segments[j]) # class}, 0)

\* The first segment of the word that ends with the i-th.
WordStart(line, segments, i) ==
  IF i = 0 THEN 1 ELSE IF segments[i].len > 1 THEN i
  ELSE RunStart(line, segments, i, Class(line, segments[i]))

Backward(before, segments) ==
  IF segments = << >> THEN 0
  ELSE segments[WordStart(before, segments,
                          RunStart(before, segments, Len(segments), "space") - 1)].at

\* findWordBackward, from column p.
WordBackward(line, p, valid) ==
  LET before == Slice(line, 0, p) IN Backward(before, Segments(before, valid))

-----------------------------------------------------------------------------
(* What is checked of a line that is wrapped. *)

\* The chunks are the line, in order, and none of them is empty.
ChunksTile(line, chunks) ==
  /\ chunks[1].from = 0 /\ chunks[Len(chunks)].to = Len(line)
  /\ \A c \in 1..(Len(chunks) - 1) : chunks[c].to = chunks[c + 1].from
  /\ line # << >> => \A c \in DOMAIN chunks : chunks[c].from < chunks[c].to

ChunksFit(line, max, chunks) ==
  \A c \in DOMAIN chunks : Width(Slice(line, chunks[c].from, chunks[c].to)) <= max

\* A column between two cells of the same word; a marker has no spaces.
InWord(line, segments, p) ==
  /\ 0 < p /\ p < Len(line)
  /\ \A n \in DOMAIN segments :
       (\E i \in {p, p + 1} : segments[n].at < i /\ i <= segments[n].at + segments[n].len) =>
         ~SpaceIn(line, segments[n]) /\ ~WideIn(line, segments[n])

\* A word is broken only if it is wider than the line.
WordsKept(line, segments, max, chunks) ==
  \A c \in 1..(Len(chunks) - 1) : InWord(line, segments, chunks[c].to) =>
    \E from, to \in 0..Len(line) :
      /\ from < chunks[c].to /\ chunks[c].to < to /\ to - from > max
      /\ \A p \in (from + 1)..(to - 1) : InWord(line, segments, p)
=============================================================================
