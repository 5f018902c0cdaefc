------------------------------ MODULE WordWrap ------------------------------
(***************************************************************************)
(* Every line up to a length, wrapped at some widths: what wordWrapLine,   *)
(* findWordForward and findWordBackward of the editor compute.             *)
(***************************************************************************)
EXTENDS EditorText

CONSTANTS
  Characters,    \* the characters that are typed
  Ids,           \* the markers that are put in
  Registered,    \* the markers that are in the registry
  Widths,        \* the widths of the terminal
  MaxLength      \* bound: cells of a line

\* What an instance assumes of the constants.
WrapAssumption == Widths \subseteq Nat \ {0} /\ Registered \subseteq Ids /\ MaxLength \in Nat

VARIABLE line

Init == line = << >>

Type(ch) == Len(line) < MaxLength /\ line' = Append(line, Char(ch))

Put(id) == Len(line) + MarkerLength(id) <= MaxLength /\ line' = line \o Marker(id, None)

\* submitValue.
Clear == line # << >> /\ line' = << >>

Next == Clear \/ (\E ch \in Characters : Type(ch)) \/ (\E id \in Ids : Put(id))

Spec == Init /\ [][Next]_line

-----------------------------------------------------------------------------
Chunks(max) == WordWrapLine(line, max, Registered)

\* The widths at which the line is wrapped at all: no wide character in one column.
Wrapping == {max \in Widths : ~ Diverges(line, max)}

\* What is drawn is the line: nothing is lost, doubled or out of order.
WrapIsTheLine == \A max \in Wrapping : ChunksTile(line, Chunks(max))

\* Nothing is drawn past the edge, whatever is in the line.
WrapFits == \A max \in Wrapping : ChunksFit(line, max, Chunks(max))

\* A break is inside a word only if the word is wider than the line.
WrapKeepsWords == \A max \in Wrapping : WordsKept(line, Segments(line, Registered), max, Chunks(max))

\* A word to the right and a word to the left: from every segment boundary
\* both move, stop at a boundary, and never jump over a word of their own.
Stops(bounds) ==
  \A p \in bounds :
    /\ p < Len(line) =>
         \E to \in {WordForward(line, p, Registered)} :
           /\ to \in bounds /\ to > p
           /\ WordBackward(line, to, Registered) <= p \/ IsSpace(line[p + 1])
    /\ p > 0 => WordBackward(line, p, Registered) \in {q \in bounds : q < p}

Bounds(segments) == {segments[i].at : i \in DOMAIN segments} \cup {Len(line)}

WordsAreStops == Stops(Bounds(Segments(line, Registered)))

\* editor.ts, wordWrapLine: a segment wider than the line is wrapped again
\* by its characters, so every line is wrapped.
WrapReturns == \A max \in Widths : ~Diverges(line, max)
=============================================================================
