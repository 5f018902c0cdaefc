------------------------------ MODULE Conversation ------------------------------
(***************************************************************************)
(* What a session promises about its conversation: a user speaks when the  *)
(* model has no tool call outstanding, the model answers a user's message  *)
(* or a complete set of tool results and nothing else, and each of its     *)
(* tool calls gets one result.                                             *)
(***************************************************************************)
EXTENDS Naturals

CONSTANT MaxCalls        \* the most tool calls one answer makes

VARIABLES
  turn,     \* who may speak: nobody has, the model, the tools, or the user
  pending   \* the tool calls that have no result yet

Turns == {"empty", "model", "tools", "answered"}

Init == turn = "empty" /\ pending = 0

UserSpeaks ==
  /\ pending = 0
  /\ turn' = "model"
  /\ UNCHANGED pending

ModelAnswers ==
  /\ turn = "model"
  /\ \E n \in 0..MaxCalls :
       /\ pending' = n
       /\ turn' = IF n = 0 THEN "answered" ELSE "tools"

ResultComes ==
  /\ turn = "tools"
  /\ pending' = pending - 1
  /\ turn' = IF pending = 1 THEN "model" ELSE "tools"

Next == UserSpeaks \/ ModelAnswers \/ ResultComes

Spec == Init /\ [][Next]_<<turn, pending>>
=============================================================================
