----------------------------- MODULE LineageSwitch -----------------------------
(***************************************************************************)
(* Compaction and the change of effort (src/src/session/compaction.ts): a  *)
(* session replaces its conversation by a summary and goes on under a new  *)
(* lineage.  The replacement is a handful of events, appended one by one;  *)
(* the process may die between two of them, and the projection             *)
(* (src/src/journal/bindings.ts) may refuse one.  Between switches the     *)
(* lineage has runs, as JournalBindings lets it.                           *)
(*                                                                         *)
(* Every event goes through the binding projection and is given to the     *)
(* selection of LineagePrefix as well.                                     *)
(***************************************************************************)
EXTENDS LineagePrefix, FiniteSets

CONSTANTS
  MaxRuns,      \* bound: runs of one lineage
  MaxRoles,     \* bound: messages of one lineage
  MaxSteps,     \* bound: attempts of one run's request
  MaxCrashes,   \* bound: deaths of the process
  MaxNotes      \* bound: summaries written

\* What an instance assumes of the constants.
BoundsAssumption ==
  {MaxRuns, MaxRoles, MaxSteps, MaxCrashes, MaxNotes} \subseteq Nat

VARIABLES
  frame,    \* the projection: cache ABIs, lineages, the active one, the open break
  broken,   \* the planned breaks, by the lineage they lead to
  notes,    \* the summaries that were published; the last one
  j,        \* the projection of the active lineage
  sel,      \* what the selection knows of the same events
  todo,     \* the events recordCompaction has still to append
  input,    \* the summary the turn in progress opens with, or None outside a turn
  carried,  \* by lineage, the summary its first message has (0: none)
  refused,  \* an append of recordCompaction was refused
  crashes

CONSTANT None

vars == <<frame, broken, notes, j, sel, todo, input, carried, refused, crashes>>

\* A break as pendingCompactionSummary reads it: what the break names, and
\* the last summary published before it.
NoNote == [reason |-> "none", note |-> 0, before |-> 0]

Init ==
  /\ frame = [declared |-> {FirstAbi}, abis |-> << FirstAbi >>, active |-> 1, change |-> NoBreak]
  /\ broken = [l \in 1..MaxLineages |-> NoNote]
  /\ notes = 0
  /\ j = EmptyJournal
  /\ sel = NewSelection
  /\ todo = << >>
  /\ input = None
  /\ carried = [l \in 1..MaxLineages |-> 0]
  /\ refused = FALSE
  /\ crashes = 0

-----------------------------------------------------------------------------
(* The projection and the frame. *)

\* A compaction leaves the active lineage while no run is active; a change of
\* ABI leaves it for one of another ABI.  Breaks do not nest.
BreakAdmits(f, e) ==
  /\ f.change = NoBreak /\ f.active = e.from
  /\ IF e.reason = "compaction" THEN ~ Active(j) /\ e.note \in 1..notes
     ELSE f.abis[e.from] # f.abis[e.to]

ActivationAdmits(f, e) ==
  /\ ~ Active(j) /\ f.active = e.from
  /\ (f.abis[e.from] = f.abis[e.to]) = (e.reason = "compaction")
  /\ f.change = [from |-> e.from, to |-> e.to]

FrameAdmits(f, e) ==
  CASE e.type = "cache_abi_declared" -> e.abi \notin f.declared
    [] e.type = "lineage_started" -> e.abi \in f.declared /\ e.lineage \notin DOMAIN f.abis
    [] e.type = "cache_break" -> BreakAdmits(f, e)
    [] e.type = "lineage_activated" -> ActivationAdmits(f, e)
    [] OTHER -> TRUE

FrameAfter(f, e) ==
  CASE e.type = "cache_abi_declared" -> [f EXCEPT !.declared = @ \cup {e.abi}]
    [] e.type = "lineage_started" -> [f EXCEPT !.abis = Append(@, e.abi)]
    [] e.type = "cache_break" -> [f EXCEPT !.change = [from |-> e.from, to |-> e.to]]
    [] e.type = "lineage_activated" -> [f EXCEPT !.active = e.to, !.change = NoBreak]
    [] OTHER -> f

\* No run starts while a break is open.
RunAdmits(e) == Admits(j, e) /\ (e.type = "run_started" => frame.change = NoBreak)

-----------------------------------------------------------------------------
(* The summary a lineage owes. *)

\* Mutant: a change of effort has no summary of its own.
PendingSummaryOfBreak ==
  IF frame.active = 1 \/ j.run > 0 THEN 0 ELSE broken[frame.active].note

\* pendingCompactionSummary, lastSummaryArtifactId
PendingSummary ==
  LET b == broken[frame.active] IN
  IF frame.active = 1 \/ j.run > 0 \/ b.reason = "none" THEN 0
  ELSE IF b.reason = "compaction" THEN b.note
  ELSE b.before

-----------------------------------------------------------------------------
(* A turn. *)

InBounds(e) ==
  /\ e.type = "run_started" => j.run < MaxRuns
  /\ e.type \in {"user_committed", "assistant_committed"} => j.blobs < MaxRoles
  /\ e.type = "request_attempt_started" => j.tries < MaxSteps
  /\ e.type \in {"effect_reconciled", "effect_completed", "effect_indeterminate"} =>
       e.call \in DOMAIN j.calls

\* The message of a turn is committed once, by the command that began its run;
\* that command does not end the run before.
Commits(e) ==
  /\ e.type = "user_committed" =>
       input # None /\ j.cause # "recovery" /\ j.boundRun # j.run
  /\ e.type = "run_interrupted" => input = None \/ j.boundRun = j.run

\* initialize, initializeContinuation and what follows: a turn reads the
\* summary its lineage owes before its run starts and has it in its message.
Turn ==
  /\ todo = << >>
  /\ \E e \in KernelEvents(j) :
       /\ InBounds(e) /\ Commits(e)
       /\ RunAdmits(e)
       /\ j' = After(j, e)
       /\ sel' = Selected(sel, e)
       /\ input' = CASE e.type = "run_started" ->
                          IF e.cause = "recovery" THEN None ELSE PendingSummary
                     [] e.type \in {"run_completed", "run_interrupted"} -> None
                     [] OTHER -> input
       /\ carried' = IF e.type = "user_committed" /\ j.blobs = 0
                     THEN [carried EXCEPT ![frame.active] = input] ELSE carried
  /\ UNCHANGED <<frame, broken, notes, todo, refused, crashes>>

-----------------------------------------------------------------------------
(* A switch: recordCompaction. *)

\* The summary request ended a run; its answer is published, the ABI of
\* another effort declared, and the new lineage started and activated.
Begin ==
  /\ todo = << >> /\ j.status = "completed"
  /\ notes < MaxNotes /\ Len(frame.abis) < MaxLineages
  /\ \E abi \in Abis :
       LET from == frame.active  to == Len(frame.abis) + 1  n == notes + 1
           changes == abi # frame.abis[from]
           reason  == IF changes THEN "abi_change" ELSE "compaction" IN
       todo' = << NotePublished(n) >>
               \o (IF changes THEN << AbiDeclared(abi) >> ELSE << >>)
               \o << LineageStarted(to, abi),
                     CacheBreak(reason, from, to, IF changes THEN 0 ELSE n),
                     LineageActivated(reason, from, to) >>
  /\ UNCHANGED <<frame, broken, notes, j, sel, input, carried, refused, crashes>>

\* The next append of the switch.
AppendNext ==
  /\ todo # << >>
  /\ LET e == Head(todo) IN
       IF ~ FrameAdmits(frame, e)
       THEN /\ refused' = TRUE /\ todo' = << >>
            /\ UNCHANGED <<frame, broken, notes, j, sel>>
       ELSE /\ frame' = FrameAfter(frame, e)
            /\ notes' = IF e.type = "artifact_published" THEN e.note ELSE notes
            /\ broken' = IF e.type = "cache_break"
                         THEN [broken EXCEPT ![e.to] =
                                [reason |-> e.reason, note |-> e.note, before |-> notes]]
                         ELSE broken
            /\ j' = IF e.type = "lineage_activated" THEN EmptyJournal ELSE [j EXCEPT !.fresh = FALSE]
            /\ sel' = Selected(sel, e)
            /\ todo' = Tail(todo)
            /\ UNCHANGED refused
  /\ UNCHANGED <<input, carried, crashes>>

\* The process dies, in a turn or between two appends of a switch.
Crash ==
  /\ crashes < MaxCrashes
  /\ input # None \/ todo # << >>
  /\ todo' = << >> /\ input' = None
  /\ crashes' = crashes + 1
  /\ UNCHANGED <<frame, broken, notes, j, sel, carried, refused>>

Next == Turn \/ Begin \/ AppendNext \/ Crash

Spec == Init /\ [][Next]_vars

-----------------------------------------------------------------------------

TypeOK ==
  /\ frame.declared \subseteq Abis /\ frame.active \in 1..MaxLineages
  /\ frame.abis \in UNION {[1..n -> frame.declared] : n \in 1..MaxLineages}
  /\ frame.change \in [from : 0..MaxLineages, to : 0..MaxLineages]
  /\ notes \in 0..MaxNotes
  /\ \A l \in 1..MaxLineages : broken[l].note \in 0..notes /\ carried[l] \in 0..notes
  /\ j.calls \in Seq(Call) /\ j.gate \in Gates /\ j.status \in Statuses
  /\ sel.refused \in BOOLEAN /\ sel.runs.roles \in 0..MaxRoles + MaxCalls
  /\ input \in {None} \cup 0..notes
  /\ refused \in BOOLEAN /\ crashes \in 0..MaxCrashes

\* A commit boundary the projection let into the journal can be selected: the
\* second reducer refused nothing before it, it finds the same lineage active
\* and as many messages.
BoundaryIsSelectable ==
  j.fresh => /\ Selectable(sel)
             /\ sel.frame.active = frame.active
             /\ sel.runs.roles = j.blobs

\* The summary a lineage owes is the one written on the lineage it replaced:
\* its own break, and no summary a crash left behind.
SummaryIsItsOwn ==
  PendingSummary # 0 => /\ PendingSummary = notes
                        /\ broken[frame.active].before = PendingSummary

\* A conversation that replaced another opens with its summary, if no process
\* died on the way.
NothingForgotten ==
  crashes = 0 /\ frame.active > 1 /\ j.blobs > 0 =>
    carried[frame.active] = broken[frame.active].before

\* A lineage is left between two turns: its tail is closed and its last run
\* has ended.
LeavesClosedTail ==
  [][frame'.active # frame.active => Closed(j) /\ ~ Active(j) /\ input = None]_vars

\* No run of a lineage starts while the session is between two lineages, and
\* a switch leads away from the lineage it began on.
NoRunInASwitch ==
  frame.change # NoBreak => ~ Active(j) /\ frame.change.from = frame.active

-----------------------------------------------------------------------------
(* What the comments say, and the code does not do. *)

\* "The summary rides across either way, which is what makes changing effort
\* mid-session possible at all" (compaction.ts:97): without a crash no append
\* of a switch is refused.
SwitchIsNeverRefused == ~ refused

\* "Nothing was written ... the conversation is unchanged; try /compact again"
\* (interactive.ts:624): when no switch is in progress, none is half done.
NoSwitchIsLeftOpen == todo = << >> => frame.change = NoBreak

\* "Returns null once that Lineage has a Run of its own, because by then the
\* summary is already in its prefix" (compaction.ts:281): outside a turn, a
\* lineage that replaced another owes its summary or has it.
SummaryOwedOrCarried ==
  input = None /\ frame.active > 1 => PendingSummary # 0 \/ carried[frame.active] # 0
=============================================================================
