------------------------------- MODULE FileText -------------------------------
(***************************************************************************)
(* What the file tools do with the bytes of a file as it is read in pieces  *)
(* (tool/file.ts): the lines that read takes out of it, how often the text  *)
(* to be edited occurs, and its replacement.  An artifact is read the same  *)
(* way, in the pieces its frames come in.                                   *)
(*                                                                         *)
(* Decoding is left out: a byte is a number, and 0 the line feed.           *)
(***************************************************************************)
EXTENDS Naturals, Sequences

CONSTANTS
  Bytes,        \* besides the line feed
  MaxLength,    \* bound: bytes of a file
  Needles,      \* texts to be edited: oldString
  Replacement,  \* newString
  Slices,       \* offset and limit of a read
  HardLimit     \* RAW_TOOL_OUTPUT_HARD_LIMIT_BYTES

LineFeed == 0

\* What an instance assumes of the constants.
NeedleAssumption == Needles \subseteq Seq(Bytes \cup {LineFeed}) \ {<< >>}
SliceAssumption == Slices \subseteq [offset : Nat, limit : Nat \ {0}]

VARIABLES
  file, needle, slice,   \* the file, the text, the lines asked for
  at,                    \* bytes read
  over,                  \* the end of the file was seen
  matcher,               \* NonOverlappingMatcher: #matched and #count
  edit,                  \* streamReplacement: pending, what is written, matches
  slicer                 \* RecordSliceWriter, and what it has written

vars == <<file, needle, slice, at, over, matcher, edit, slicer>>

Init ==
  /\ file \in UNION {[1..n -> Bytes \cup {LineFeed}] : n \in 0..MaxLength}
  /\ needle \in Needles /\ slice \in Slices
  /\ at = 0 /\ over = FALSE
  /\ matcher = [matched |-> 0, count |-> 0]
  /\ edit = [pending |-> << >>, written |-> << >>, matches |-> 0]
  /\ slicer = [record |-> 0, written |-> << >>, filled |-> FALSE, stopped |-> FALSE,
               more |-> FALSE, limit |-> FALSE]

-----------------------------------------------------------------------------
(* NonOverlappingMatcher. *)

\* From matched bytes of the text, with a byte that may not go on with it.
Fallback(border, byte) ==
  LET Fall[m \in 0..Len(needle)] ==
        IF m > 0 /\ byte # needle[m + 1] THEN Fall[border[m]] ELSE m
  IN  Fall

Border ==
  LET B[k \in 1..Len(needle)] ==
        IF k = 1 THEN 0
        ELSE LET m == Fallback(B, needle[k])[B[k - 1]]
             IN  IF needle[k] = needle[m + 1] THEN m + 1 ELSE m
  IN  B

Matched(m, byte) ==
  LET k == Fallback(Border, byte)[m.matched]
      n == IF byte = needle[k + 1] THEN k + 1 ELSE k
  IN  IF n = Len(needle) THEN [matched |-> 0, count |-> m.count + 1]
      ELSE [m EXCEPT !.matched = n]

MatchedAll(m, chunk) ==
  LET After[i \in 0..Len(chunk)] == IF i = 0 THEN m ELSE Matched(After[i - 1], chunk[i])
  IN  After[Len(chunk)]

-----------------------------------------------------------------------------
(* streamReplacement. *)

Occurs(data, i) == i + Len(needle) - 1 <= Len(data) /\ SubSeq(data, i, i + Len(needle) - 1) = needle

\* indexOf: the first place at or behind cursor, or 0.
IndexOf(data, cursor) ==
  IF \E i \in cursor..Len(data) : Occurs(data, i)
  THEN CHOOSE i \in cursor..Len(data) : Occurs(data, i) /\ \A k \in cursor..(i - 1) : ~ Occurs(data, k)
  ELSE 0

\* Mutant: nothing is held back at the end of a piece.
RetainNothing(data, final) == 0

Retain(data, final) ==
  IF final THEN 0 ELSE IF Len(needle) - 1 < Len(data) THEN Len(needle) - 1 ELSE Len(data)

\* process: from cursor on, up to what the next piece may yet complete.
Process(e, data, final) ==
  LET safeEnd == Len(data) - Retain(data, final)
      From[cursor \in 1..(Len(data) + 1)] ==
        LET index == IndexOf(data, cursor)
            end   == IF final THEN Len(data) ELSE IF cursor - 1 > safeEnd THEN cursor - 1 ELSE safeEnd
            rest  == From[index + Len(needle)]
        IN  IF index = 0 \/ (~ final /\ index > safeEnd)
            THEN [written |-> SubSeq(data, cursor, end), matches |-> 0,
                  pending |-> SubSeq(data, end + 1, Len(data))]
            ELSE [rest EXCEPT !.written = SubSeq(data, cursor, index - 1) \o Replacement \o @,
                              !.matches = @ + 1]
      all == From[1]
  IN  [pending |-> all.pending, written |-> e.written \o all.written, matches |-> e.matches + all.matches]

-----------------------------------------------------------------------------
(* RecordSliceWriter. *)

Wanted(record) == record >= slice.offset /\ record < slice.offset + slice.limit

\* The frame writer takes what there is room for.
Wrote(s, byte) ==
  LET reached == Len(s.written) + 1 = HardLimit
  IN  [s EXCEPT !.written = Append(@, byte), !.limit = reached, !.stopped = reached]

Counted(s) ==
  [s EXCEPT !.record = @ + 1, !.filled = s.record + 1 >= slice.offset + slice.limit]

\* push, for each byte of a piece: once the slice is full, one more byte says
\* that the file goes on, in this piece or the next one.
Taken(s, byte) ==
  IF s.stopped THEN s
  ELSE IF s.filled THEN [s EXCEPT !.more = TRUE, !.stopped = TRUE]
  ELSE LET w == IF Wanted(s.record) THEN Wrote(s, byte) ELSE s
       IN  IF w.stopped \/ byte # LineFeed THEN w ELSE Counted(w)

TakenAll(s, chunk) ==
  LET After[i \in 0..Len(chunk)] == IF i = 0 THEN s ELSE Taken(After[i - 1], chunk[i])
  IN  After[Len(chunk)]

\* noteMoreFollows and continuationOffset.
NextOffset == IF slicer.more THEN slice.offset + slice.limit ELSE 0

-----------------------------------------------------------------------------
\* The next n bytes of the file, for each of the three.
Read(n) ==
  /\ ~ over /\ n \in 1..(Len(file) - at)
  /\ LET chunk == SubSeq(file, at + 1, at + n) IN
       /\ matcher' = MatchedAll(matcher, chunk)
       /\ edit' = Process(edit, edit.pending \o chunk, FALSE)
       /\ slicer' = TakenAll(slicer, chunk)
  /\ at' = at + n
  /\ UNCHANGED <<file, needle, slice, over>>

\* A read that brings nothing.
End ==
  /\ ~ over /\ at = Len(file)
  /\ over' = TRUE
  /\ edit' = Process(edit, edit.pending, TRUE)
  /\ UNCHANGED <<file, needle, slice, at, matcher, slicer>>

Next == (\E n \in 1..Len(file) : Read(n)) \/ End

Spec == Init /\ [][Next]_vars

-----------------------------------------------------------------------------
(* What the tools promise, of the file as a whole. *)

\* The text is looked for from left to right, behind the last place it was found.
FromLeft ==
  LET F[i \in 1..(Len(file) + Len(needle) + 1)] ==
        IF i > Len(file) THEN [count |-> 0, text |-> << >>]
        ELSE IF Occurs(file, i)
        THEN [count |-> F[i + Len(needle)].count + 1,
              text  |-> Replacement \o F[i + Len(needle)].text]
        ELSE [count |-> F[i + 1].count, text |-> <<file[i]>> \o F[i + 1].text]
  IN  F[1]

LineOf(i) == Len(SelectSeq(SubSeq(file, 1, i - 1), LAMBDA b : b = LineFeed))
InSlice == LET F[i \in 0..Len(file)] ==
                 IF i = 0 THEN << >> ELSE IF Wanted(LineOf(i)) THEN Append(F[i - 1], file[i]) ELSE F[i - 1]
           IN  F[Len(file)]

-----------------------------------------------------------------------------
\* Types; no more is held back than could begin the text.
TypeOK ==
  /\ at \in 0..Len(file) /\ over \in BOOLEAN
  /\ matcher.matched < Len(needle) /\ Len(edit.pending) < Len(needle)
  /\ slicer.record \in 0..Len(file) /\ Len(slicer.written) <= HardLimit

\* The count that decides whether an edit is unique, and the edit, find the
\* same places, wherever a read of the file cuts them.
CountIsExact == over => matcher.count = FromLeft.count /\ edit.matches = FromLeft.count
EditIsExact  == over => edit.written = FromLeft.text /\ edit.pending = << >>

\* A read brings the lines asked for, or their beginning up to the limit, and
\* says that more follow exactly if they do.
SliceIsExact ==
  over =>
    /\ slicer.written = SubSeq(InSlice, 1, IF Len(InSlice) < HardLimit THEN Len(InSlice) ELSE HardLimit)
    /\ slicer.limit = (Len(InSlice) >= HardLimit)
    /\ ~ slicer.limit =>
         NextOffset = (IF \E i \in 1..Len(file) : LineOf(i) >= slice.offset + slice.limit
                       THEN slice.offset + slice.limit ELSE 0)
=============================================================================
