------------------------------ MODULE ContentMap ------------------------------
(***************************************************************************)
(* What a content addressed store promises to the journal that names its   *)
(* objects: an object that a publication has returned is there for ever.   *)
(* Objects nobody was promised may come, and may go in a power loss.       *)
(***************************************************************************)
CONSTANT Names

VARIABLES
  there,     \* the names under which the whole object can be read
  promised   \* the names a publication has returned

Init == there = {} /\ promised = {}

Appear(n) == n \notin there /\ there' = there \cup {n} /\ UNCHANGED promised

Promise(n) == n \in there /\ promised' = promised \cup {n} /\ UNCHANGED there

PowerLoss == there' \in SUBSET there /\ promised \subseteq there' /\ UNCHANGED promised

Next == PowerLoss \/ \E n \in Names : Appear(n) \/ Promise(n)

Spec == Init /\ [][Next]_<<there, promised>>
=============================================================================
