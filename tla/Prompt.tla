--------------------------------- MODULE Prompt ---------------------------------
(***************************************************************************)
(* What the user types at: the interactive loop, and the suggestions of    *)
(* the editor while a line is typed.  They share nothing in here: `scene`  *)
(* says which of them a behaviour is about; the loop has then not begun,   *)
(* or the picker is None.                                                  *)
(***************************************************************************)
EXTENDS Interactive

CONSTANTS Typed, MaxText, MaxKeys    \* of the suggestions

VARIABLES scene, text, col, picker, token, timer, tasks, pressed, wanted, asked, closed

\* Kills and jumps of the cursor, which say nothing to the picker, are left out.
Picker == INSTANCE Suggestions WITH Shifts <- {}, keys <- pressed

ASSUME SuggestedAssumption == Picker!SuggestionsAssumption

pickerVars ==
  <<text, col, picker, token, timer, tasks, pressed, wanted, asked, closed>>
PickerOff ==
  /\ text = None /\ col = None /\ picker = None /\ token = None /\ timer = None
  /\ tasks = None /\ pressed = None /\ wanted = None /\ asked = None /\ closed = None

PromptBegin ==
  /\ Init /\ (scene # "loop" => calm = FALSE)
  /\ IF scene = "picker" THEN Picker!Init ELSE PickerOff

PromptInit == scene \in {"loop", "picker"} /\ PromptBegin

PromptNext ==
  /\ UNCHANGED scene
  /\ \/ /\ scene = "loop" /\ Next
        /\ UNCHANGED pickerVars
     \/ /\ scene = "picker" /\ Picker!Next
        /\ UNCHANGED vars

promptVars == <<scene, vars, pickerVars>>
PromptSpec == PromptInit /\ [][PromptNext]_promptVars

-----------------------------------------------------------------------------
\* When nothing is on its way, an open picker is the one for the text before the
\* cursor, and what the last key asked for was answered, whatever was aborted,
\* delayed or came late.
PickerFollowsTheText ==
  scene = "picker" =>
    Picker!TypeOK /\ Picker!PickerFollowsTheText /\ Picker!LastRequestIsAnswered
=============================================================================
