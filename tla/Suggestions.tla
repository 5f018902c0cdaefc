---------------------------- MODULE Suggestions ----------------------------
(***************************************************************************)
(* The suggestions of the prompt: the picker of the editor                 *)
(* (src/src/tui/components/editor.ts) and the provider it asks             *)
(* (src/src/tui/autocomplete.ts).                                          *)
(*                                                                         *)
(* A key may ask for suggestions; the request waits for a timer, for the   *)
(* requests before it and for the provider, and other keys are pressed     *)
(* meanwhile.  The text is one line of characters; what is suggested is a  *)
(* word that is one character long, and how many words there are is up to  *)
(* the file system and the list of the commands.                           *)
(***************************************************************************)
EXTENDS Naturals, Integers, Sequences

CONSTANTS
  Typed,     \* the characters that are typed
  Shifts,    \* kills and jumps that are used: a subset of AllShifts
  MaxText,   \* bound: characters of the text
  MaxKeys,   \* bound: keys
  None

AllShifts == {"killStart", "killEnd", "lineStart", "lineEnd"}

Word == "c"

Chars    == {"/", "a", " ", "#", Word}
Places   == [text : Seq(Chars), col : Nat]
Pickers  == [state : {"regular", "force"}, prefix : Seq(Chars)]
Requests == [token : Nat, force : BOOLEAN, tab : BOOLEAN]

\* What an instance assumes of the constants.
SuggestionsAssumption ==
  /\ Typed \subseteq {"/", "a", " ", "#"} /\ Shifts \subseteq AllShifts
  /\ {MaxText, MaxKeys} \subseteq Nat
  /\ None \notin Places /\ None \notin Pickers /\ None \notin Requests

VARIABLES
  text, col,  \* the line and the cursor
  picker,     \* autocompleteState and autocompletePrefix, None when closed
  token,      \* autocompleteStartToken
  timer,      \* autocompleteDebounceTimer: the request that waits for it
  tasks,      \* the chain of autocompleteRequestTask, the running one first
  keys,       \* keys so far
  wanted,     \* the text and the cursor the last key asked for
  asked,      \* those the provider was asked for last
  closed      \* nothing was asked for since the picker was closed

vars == <<text, col, picker, token, timer, tasks, keys, wanted, asked, closed>>

-----------------------------------------------------------------------------
(* Texts. *)

\* line.slice(0, n): from the end when n is negative.
Head0(line, n) ==
  SubSeq(line, 1, IF n >= 0 THEN n ELSE IF Len(line) + n > 0 THEN Len(line) + n ELSE 0)

Before(line, at) == SubSeq(line, 1, at)
After(line, at)  == SubSeq(line, at + 1, Len(line))

LeadingSpaces(line) ==
  LET n[i \in 0..Len(line)] ==
        IF i < Len(line) /\ line[i + 1] = " " THEN n[i + 1] ELSE i
  IN n[0]

TrimStart(line) == After(line, LeadingSpaces(line))

Holds(line, ch) == \E i \in DOMAIN line : line[i] = ch
Blank(line)     == \A i \in DOMAIN line : line[i] = " "

\* What follows the last space.
LastWord(line) ==
  LET spaces == {i \in DOMAIN line : line[i] = " "}
      last   == IF spaces = {} THEN 0 ELSE CHOOSE i \in spaces : \A k \in spaces : k <= i
  IN After(line, last)

EndsWith(line, tail) ==
  Len(tail) <= Len(line) /\ After(line, Len(line) - Len(tail)) = tail

-----------------------------------------------------------------------------
(* When a key asks. *)

InSlashCommand(before) == TrimStart(before) # << >> /\ TrimStart(before)[1] = "/"

\* isAtStartOfMessage, after the / was typed.
AtStartOfMessage(before) ==
  \A i \in DOMAIN before : before[i] = " " \/ (before[i] = "/" /\ Blank(After(before, i)))

\* autocompleteTriggerPattern and autocompleteDebouncePattern.
InSymbolWord(before) == LastWord(before) # << >> /\ LastWord(before)[1] = "#"

\* What insertCharacter asks about while no picker is open.
CharacterTriggers(ch, before) ==
  \/ ch = "/" /\ AtStartOfMessage(before)
  \/ ch = "#" /\ LastWord(before) = <<"#">>
  \/ ch \in {"a", Word} /\ (InSlashCommand(before) \/ InSymbolWord(before))

\* What backspace and delete ask about while no picker is open.
DeletionTriggers(before) == InSlashCommand(before) \/ InSymbolWord(before)

\* shouldTriggerFileCompletion.
MayForce(before) ==
  ~(InSlashCommand(before)
    /\ LET rest == TrimStart(before) IN
       \A i \in DOMAIN rest : rest[i] = " " => Blank(After(rest, i)))

-----------------------------------------------------------------------------
(* The provider. *)

\* The prefix of CombinedAutocompleteProvider.getSuggestions, None when it
\* returns null: the commands of the program have no completions of their
\* arguments.
PrefixFor(before, force) ==
  IF ~force /\ before # << >> /\ before[1] = "/"
  THEN IF Holds(before, " ") THEN None ELSE before
  ELSE LET path == LastWord(before) IN
       IF \/ force \/ Holds(path, "/")
          \/ path = << >> /\ EndsWith(before, <<" ">>)
       THEN path ELSE None

\* applyCompletion.
Completed(line, at, prefix) ==
  LET kept    == Head0(line, at - Len(prefix))
      command == /\ prefix # << >> /\ prefix[1] = "/" /\ Blank(kept)
                 /\ ~Holds(Tail(prefix), "/")
      put     == IF command THEN <<"/", Word, " ">> ELSE <<Word>>
  IN [text |-> kept \o put \o After(line, at), col |-> Len(kept) + Len(put)]

-----------------------------------------------------------------------------
(* Requests. *)

\* cancelAutocompleteRequest: the request that was handed to the provider
\* is aborted; the others see that their token is old.
AbortedRequest == [token |-> token + 1, timer |-> None,
                   tasks |-> [i \in DOMAIN tasks |-> [tasks[i] EXCEPT !.aborted = @ \/ tasks[i].at # None]]]

Waiting(request) == [token |-> request.token, force |-> request.force, tab |-> request.tab,
                     at |-> None, prefix |-> None, aborted |-> FALSE]

\* startAutocompleteRequest: it awaits the request before it.
Chained(chain, request) == Append(chain, Waiting(request))

\* requestAutocomplete, of the text `line` with the cursor at `at`.
Request(line, at, force, tab) ==
  LET before  == Before(line, at)
      off     == AbortedRequest
      mine    == [token |-> off.token + 1, force |-> force, tab |-> tab]
      debounced == ~force /\ ~tab /\ InSymbolWord(before)
  IN /\ token' = mine.token
     /\ IF debounced THEN timer' = mine /\ tasks' = off.tasks
        ELSE timer' = None /\ tasks' = Chained(off.tasks, mine)
     /\ wanted' = [text |-> line, col |-> at]
     /\ closed' = FALSE

NoRequest == UNCHANGED <<token, timer, tasks>>

\* cancelAutocomplete.
Cancel ==
  LET off == AbortedRequest IN
  /\ token' = off.token /\ timer' = off.timer /\ tasks' = off.tasks
  /\ picker' = None /\ wanted' = None /\ closed' = TRUE

\* Nothing is asked and nothing is called off.
Silent(line, at) ==
  /\ NoRequest /\ UNCHANGED closed
  /\ wanted' = IF line = text /\ at = col THEN wanted ELSE None

-----------------------------------------------------------------------------
(* Keys. *)

Key == keys < MaxKeys /\ keys' = keys + 1 /\ UNCHANGED asked

Show(line, at) == Len(line) <= MaxText /\ text' = line /\ col' = at

\* An open picker is asked for again (updateAutocomplete); a closed one is
\* opened where the key triggers it.
Follow(line, at, triggers) ==
  /\ IF picker # None THEN Request(line, at, picker.state = "force", FALSE)
     ELSE IF triggers THEN Request(line, at, FALSE, FALSE)
     ELSE Silent(line, at)
  /\ UNCHANGED picker

\* insertCharacter.
Type(ch) ==
  LET line == Append(Before(text, col), ch) \o After(text, col) IN
  /\ Key /\ Show(line, col + 1)
  /\ Follow(line, col + 1, CharacterTriggers(ch, Before(line, col + 1)))

\* handleBackspace and handleForwardDelete: they ask, too, when there is
\* nothing to delete.
Backspace ==
  LET line == Head0(text, IF col > 0 THEN col - 1 ELSE 0) \o After(text, col)
      at   == IF col > 0 THEN col - 1 ELSE 0
  IN Key /\ Show(line, at) /\ Follow(line, at, DeletionTriggers(Before(line, at)))

ForwardDelete ==
  LET line == IF col < Len(text) THEN Before(text, col) \o After(text, col + 1) ELSE text IN
  Key /\ Show(line, col) /\ Follow(line, col, DeletionTriggers(Before(line, col)))

\* Mutant: the picker stays as it is.
MovedFrom(at) == Silent(text, at) /\ UNCHANGED picker

\* moveCursor keeps an open picker in sync.
Moved(at) == Follow(text, at, FALSE)

Left ==
  LET at == IF col > 0 THEN col - 1 ELSE 0 IN Key /\ Show(text, at) /\ Moved(at)
Right ==
  LET at == IF col < Len(text) THEN col + 1 ELSE col IN Key /\ Show(text, at) /\ Moved(at)

\* Kills and jumps of the cursor say nothing to the picker.
Shift(kind) ==
  LET line == CASE kind = "killStart" -> After(text, col)
                [] kind = "killEnd"   -> Before(text, col)
                [] OTHER              -> text
      at   == CASE kind \in {"killStart", "lineStart"} -> 0
                [] kind = "killEnd" -> col
                [] kind = "lineEnd" -> Len(text)
  IN /\ Key /\ <<line, at>> # <<text, col>>
     /\ Show(line, at) /\ Silent(line, at) /\ UNCHANGED picker

\* Tab takes the word that is selected, or asks for words.
Tab ==
  /\ Key
  /\ IF picker # None
     THEN LET done == Completed(text, col, picker.prefix) IN Show(done.text, done.col) /\ Cancel
     ELSE LET before  == Before(text, col)
              command == InSlashCommand(before) /\ ~Holds(TrimStart(before), " ")
          IN /\ Show(text, col) /\ UNCHANGED picker
             /\ IF command THEN Request(text, col, FALSE, TRUE)
                ELSE IF MayForce(before) THEN Request(text, col, TRUE, TRUE)
                ELSE Silent(text, col)

\* Enter takes the word that is selected; a command, and a text without a
\* picker, is submitted.
Enter ==
  /\ Key
  /\ IF picker = None \/ (picker.prefix # << >> /\ picker.prefix[1] = "/")
     THEN Show(<< >>, 0)
     ELSE LET done == Completed(text, col, picker.prefix) IN Show(done.text, done.col)
  /\ Cancel

Escape == Key /\ picker # None /\ Show(text, col) /\ Cancel

\* handlePaste: nothing is asked about what is pasted.
Paste ==
  LET line == Append(Before(text, col), "a") \o After(text, col) IN
  Key /\ Show(line, col + 1) /\ Cancel

-----------------------------------------------------------------------------
(* What runs between the keys. *)

\* The timer of 20 ms.
Debounced ==
  /\ timer # None
  /\ timer' = None /\ tasks' = Chained(tasks, timer)
  /\ UNCHANGED <<text, col, picker, token, keys, wanted, asked, closed>>

\* The chain when its first request is skipped.
ChainAfter == Tail(tasks)

\* The provider is asked about the text as it is now, unless the request is
\* out of date.
Start ==
  /\ tasks # << >> /\ tasks[1].at = None
  /\ IF tasks[1].token # token
     THEN tasks' = ChainAfter /\ UNCHANGED asked
     ELSE /\ tasks' = [tasks EXCEPT ![1].at = [text |-> text, col |-> col],
                                    ![1].prefix = PrefixFor(Before(text, col), tasks[1].force)]
          /\ asked' = [text |-> text, col |-> col]
  /\ UNCHANGED <<text, col, picker, token, timer, keys, wanted, closed>>

\* isAutocompleteRequestCurrent.
Current(task) == ~task.aborted /\ task.at = [text |-> text, col |-> col]

\* An answer with n words.  A single word that Tab asked for is put in.
Answer(n) ==
  /\ tasks # << >> /\ tasks[1].at # None
  /\ tasks[1].prefix = None => n = 0
  /\ LET task == tasks[1] IN
     IF ~Current(task)
     THEN /\ tasks' = Tail(tasks)
          /\ UNCHANGED <<text, col, picker, token, timer, wanted, closed>>
     ELSE IF n = 0
     THEN \* cancelAutocomplete; the abort of this request was forgotten.
          /\ token' = token + 1 /\ timer' = None /\ tasks' = Tail(tasks)
          /\ picker' = None /\ closed' = TRUE
          /\ UNCHANGED <<text, col, wanted>>
     ELSE IF task.force /\ task.tab /\ n = 1
     THEN LET done == Completed(text, col, task.prefix) IN
          /\ text' = done.text /\ col' = done.col
          /\ tasks' = Tail(tasks) /\ wanted' = None
          /\ UNCHANGED <<picker, token, timer, closed>>
     ELSE /\ picker' = [state |-> IF task.force THEN "force" ELSE "regular", prefix |-> task.prefix]
          /\ tasks' = Tail(tasks)
          /\ UNCHANGED <<text, col, token, timer, wanted, closed>>
  /\ UNCHANGED <<keys, asked>>

-----------------------------------------------------------------------------
Init ==
  /\ text = << >> /\ col = 0 /\ picker = None
  /\ token = 0 /\ timer = None /\ tasks = << >>
  /\ keys = 0 /\ wanted = None /\ asked = None /\ closed = TRUE

Press ==
  \/ \E ch \in Typed : Type(ch)
  \/ Backspace \/ ForwardDelete \/ Left \/ Right
  \/ Tab \/ Enter \/ Escape \/ Paste

Quiet == timer = None /\ tasks = << >>

Idle == keys = MaxKeys /\ Quiet /\ UNCHANGED vars

Background == Debounced \/ Start \/ \E n \in 0..2 : Answer(n)

Next == Press \/ (\E kind \in Shifts : Shift(kind)) \/ Background \/ Idle

Spec == Init /\ [][Next]_vars

\* Timers fire, promises settle and the provider, which reads directories,
\* answers.
FairSpec == Spec /\ WF_vars(Background)

-----------------------------------------------------------------------------
TypeOK ==
  /\ text \in Seq(Chars) /\ col \in 0..Len(text)
  /\ picker # None => picker.state \in {"regular", "force"}
  /\ token \in Nat /\ (timer # None => timer.token = token)
  /\ \A i \in DOMAIN tasks : tasks[i].token <= token /\ (i > 1 => tasks[i].at = None)

\* When nothing is on its way, an open picker is the one for the text
\* before the cursor: no later key, and no answer that came late or out of
\* date, left it behind.
PickerFollowsTheText ==
  Quiet /\ picker # None =>
    picker.prefix = PrefixFor(Before(text, col), picker.state = "force")

\* Taking a word replaces the word that is before the cursor, however fast
\* the keys follow each other.
CompletionFitsTheText ==
  [][Tab /\ picker # None => EndsWith(Before(text, col), picker.prefix)]_vars

\* What the last key asked for is answered: requests that are aborted,
\* debounced or queued behind others never lose the last one.
LastRequestIsAnswered == Quiet /\ wanted # None => asked = wanted

\* Once the picker was closed, nothing that was asked before opens it again
\* or changes the text, until a key asks.
ClosedStaysClosed ==
  closed /\ keys' = keys => UNCHANGED <<text, col, picker>>

=============================================================================
