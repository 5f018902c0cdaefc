------------------------------ MODULE Interactive ------------------------------
(***************************************************************************)
(* The interactive loop (src/src/cli/interactive.ts, resume.ts,            *)
(* truncation.ts): one program in which a loop that runs the queued turns, *)
(* a compaction, the session picker and the keys of the user take turns at *)
(* every await.  They share the fields of one object: the session, the     *)
(* controller that Ctrl-C aborts, and the flags #running and #compacting.  *)
(*                                                                         *)
(* A command of the kernel is one call that takes the session's writer     *)
(* lease when it begins, finds it taken or a session it cannot work on and *)
(* fails, or ends some time later; SessionKernel is what happens inside.   *)
(* An argument an action changes is a field of `ui`; what the journals     *)
(* keep is in `disk`.                                                      *)
(***************************************************************************)
EXTENDS Naturals, Sequences, FiniteSets

CONSTANTS
  Sessions,       \* the identities of sessions
  Recorded,       \* the sessions that are there when the loop begins
  Efforts,        \* the reasoning efforts
  DefaultEffort,
  MaxMessages,    \* bound: messages the user sends
  MaxCommands,    \* bound: commands, picks and Ctrl-Cs of the user
  MaxResumes,     \* MAX_AUTO_RESUMES
  MaxContinues,   \* MAX_TRUNCATION_CONTINUATIONS
  Calm,           \* whether it is calm, or not: what a behaviour may begin with
  None

\* What an instance assumes of the constants.
SessionsAssumption == Recorded \subseteq Sessions /\ IsFiniteSet(Sessions)
EffortsAssumption == DefaultEffort \in Efforts
BoundsAssumption == {MaxMessages, MaxCommands, MaxResumes, MaxContinues} \subseteq Nat
CalmAssumption == Calm \subseteq BOOLEAN
NoneAssumption == None \notin Sessions \cup Efforts \cup {"turn", "compact"}

VARIABLES
  ui,      \* the fields of InteractiveSession, and what the screen shows of them;
           \* `wake` says that #wake is set, which is when the loop sleeps
  loop,    \* the loop and the turn it is in
  comp,    \* the compaction, if one is going on
  disk,    \* the sessions' journals: state, effort of the active lineage, lease
  seen,    \* what happened: messages by fate, summaries by where they went
  calm     \* the user gives no command while something is going on, and no turn
           \* fails between the choice of its session and its call

vars == <<ui, loop, comp, disk, seen, calm>>

\* A call of the kernel that has begun and not ended; a session with an open
\* tail has to be recovered before it is continued.
Stages    == {"idle", "switching", "awaiting", "preparing", "calling", "failed", "recovering", "over", "crashed"}
CompSteps == {"none", "gathering", "asking", "resuming", "recording"}
States    == {"absent", "settled", "open"}

Init ==
  /\ ui = [session |-> None, started |-> FALSE, running |-> FALSE, compacting |-> FALSE,
           controller |-> None, aborted |-> {}, exiting |-> FALSE, effort |-> None,
           listing |-> FALSE, picker |-> FALSE, offered |-> {}, queue |-> << >>,
           wake |-> FALSE]
  /\ loop = [at |-> "idle", message |-> 0, session |-> None, calls |-> 0, resumes |-> 0]
  /\ comp = [at |-> "none", session |-> None, effort |-> None, resumes |-> 0, byLoop |-> FALSE]
  /\ disk = [s \in Sessions |->
              [state |-> IF s \in Recorded THEN "settled" ELSE "absent",
               effort |-> DefaultEffort, lease |-> None]]
  /\ seen = [submitted |-> 0, sent |-> << >>, cleared |-> {}, notes |-> {}, commands |-> 0]
  /\ calm \in Calm

\* Something is going on, or is about to.
Busy == loop.at # "idle" \/ ui.compacting \/ ui.listing \/ ui.queue # << >>

\* The user may give a command: the picker, when it is up, takes every key.
MayCommand ==
  /\ seen.commands < MaxCommands /\ ~ ui.picker
  /\ ~ ui.exiting
  /\ calm => ~ Busy

Commanded == seen' = [seen EXCEPT !.commands = @ + 1]

-----------------------------------------------------------------------------
(* Calls of the kernel: runOfficialSession, continueOfficialSession,       *)
(* recoverOfficialSession.                                                 *)

Callable(s, kind) ==
  /\ disk[s].lease = None
  /\ disk[s].state = CASE kind = "run" -> "absent" [] kind = "continue" -> "settled"
                       [] kind = "recover" -> "open"

Held(s, who) == disk[s].lease = who

Leased(s, who, kind) ==
  [disk EXCEPT ![s].lease = who,
               ![s].state = "open",
               ![s].effort = IF kind = "run" /\ ui.effort # None THEN ui.effort ELSE @]

Freed(s, state) == [disk EXCEPT ![s].lease = None, ![s].state = state]

-----------------------------------------------------------------------------
(* The loop. *)

Taken(queue) == [message |-> Head(queue), rest |-> Tail(queue)]

\* The loop takes the next message; #runTurn begins.
Take ==
  /\ loop.at = "idle" /\ ~ ui.wake /\ ~ ui.exiting /\ ui.queue # << >>
  /\ ui' = [ui EXCEPT !.queue = Taken(ui.queue).rest]
  /\ loop' = [loop EXCEPT !.at = "switching", !.message = Taken(ui.queue).message]
  /\ seen' = [seen EXCEPT !.sent = Append(@, Taken(ui.queue).message)]
  /\ UNCHANGED <<comp, disk>>

\* Nothing is queued: the loop sleeps until #wake is called.
Sleep ==
  /\ loop.at = "idle" /\ ~ ui.wake /\ ~ ui.exiting /\ ui.queue = << >>
  /\ ui' = [ui EXCEPT !.wake = TRUE]
  /\ UNCHANGED <<loop, comp, disk, seen>>

Exit ==
  /\ loop.at = "idle" /\ ~ ui.wake /\ ui.exiting
  /\ loop' = [loop EXCEPT !.at = "over"]
  /\ UNCHANGED <<ui, comp, disk, seen>>

\* #compact asks no question twice: it is refused without a started session,
\* and while another one goes on.
MayCompact == ui.session # None /\ ui.started /\ ~ ui.compacting

Compacting(effort, byLoop) ==
  /\ ui' = [ui EXCEPT !.compacting = TRUE]
  /\ comp' = [at |-> "gathering", session |-> None, effort |-> effort, resumes |-> 0,
              byLoop |-> byLoop]

\* The context has grown large: #runTurn awaits a compaction first.
CompactFirst ==
  /\ loop.at = "switching"
  /\ MayCompact /\ Compacting(None, TRUE)
  /\ loop' = [loop EXCEPT !.at = "awaiting"]
  /\ UNCHANGED <<disk, seen>>

\* Mutant: the compaction is not awaited.
TurnMayBeginAtOnce == loop.at \in {"switching", "awaiting"}

TurnMayBegin == loop.at = "switching" \/ (loop.at = "awaiting" /\ ~ comp.byLoop)

BeginTurn ==
  /\ TurnMayBegin
  /\ loop' = [loop EXCEPT !.at = "preparing", !.calls = 0, !.resumes = 0]
  /\ ui' = [ui EXCEPT !.running = TRUE, !.controller = "turn", !.aborted = @ \ {"turn"}]
  /\ UNCHANGED <<comp, disk, seen>>

\* A session of its own, once.
NewSession(s) == disk[s].state = "absent" /\ s # ui.session

\* No credential, or the environment cannot be read.
PrepareFails ==
  /\ loop.at = "preparing"
  /\ loop' = [loop EXCEPT !.at = "failed"]
  /\ UNCHANGED <<ui, comp, disk, seen>>

\* The session has its identity, and no price covers the day.
PriceFails ==
  /\ loop.at = "preparing" /\ ~ calm
  /\ \E s \in Sessions : (IF ui.session = None THEN NewSession(s) ELSE s = ui.session) /\
       ui' = [ui EXCEPT !.session = s]
  /\ loop' = [loop EXCEPT !.at = "failed"]
  /\ UNCHANGED <<comp, disk, seen>>

\* The input of the turn is composed, with the session it is for, and the
\* first call begins, or fails at once.
Call ==
  /\ loop.at = "preparing"
  /\ \E s \in Sessions :
       /\ IF ui.session = None THEN NewSession(s) ELSE s = ui.session
       /\ ui' = [ui EXCEPT !.session = s]
       /\ LET kind == IF ui.started THEN "continue" ELSE "run" IN
            IF ui.controller # None /\ Callable(s, kind)
            THEN /\ disk' = Leased(s, "turn", kind)
                 /\ loop' = [loop EXCEPT !.at = "calling", !.session = s, !.calls = 1]
            ELSE /\ loop' = [loop EXCEPT !.at = "failed", !.session = s]
                 /\ UNCHANGED disk
  /\ UNCHANGED <<comp, seen>>

\* The finally block of #runTurn.
Idle ==
  /\ loop' = [loop EXCEPT !.at = "idle", !.session = None]
  /\ ui' = [ui EXCEPT !.running = FALSE, !.controller = None, !.started = TRUE]

\* The call ends with an answer: a whole one, or one cut off that another turn
\* of the same session goes on with.
Answered ==
  /\ loop.at = "calling" /\ Held(loop.session, "turn")
  /\ disk' = Freed(loop.session, "settled")
  /\ \/ Idle
     \/ /\ loop.calls <= MaxContinues
        /\ loop' = [loop EXCEPT !.calls = @ + 1]
        /\ ui' = [ui EXCEPT !.started = TRUE]
  /\ UNCHANGED <<comp, seen>>

\* withTruncationContinuation calls again.
CallAgain ==
  /\ loop.at = "calling" /\ ~ Held(loop.session, "turn")
  /\ IF Callable(loop.session, "continue")
     THEN /\ disk' = Leased(loop.session, "turn", "continue") /\ UNCHANGED loop
     ELSE /\ loop' = [loop EXCEPT !.at = "failed"] /\ UNCHANGED disk
  /\ UNCHANGED <<ui, comp, seen>>

\* The call fails: for good, by the budget or by Ctrl-C; it may leave the
\* session with an open tail.
CallFails ==
  /\ loop.at = "calling" /\ Held(loop.session, "turn")
  /\ \E state \in {"settled", "open"} : disk' = Freed(loop.session, state)
  /\ loop' = [loop EXCEPT !.at = "failed"]
  /\ UNCHANGED <<ui, comp, seen>>

\* The stream broke, or the request failed for now: the catch block asks the
\* controller whether the user has stopped the turn.
CallBreaks ==
  /\ loop.at = "calling" /\ Held(loop.session, "turn")
  /\ disk' = Freed(loop.session, "open")
  /\ IF ui.controller = None
     THEN /\ loop' = [loop EXCEPT !.at = "crashed"]
          /\ ui' = [ui EXCEPT !.running = FALSE, !.started = TRUE]
     ELSE /\ ui' = [ui EXCEPT !.started = TRUE]
          /\ loop' = [loop EXCEPT !.at = IF ui.controller \in ui.aborted THEN "failed"
                                         ELSE "recovering"]
  /\ UNCHANGED <<comp, seen>>

StartedAfterFailure == ui.started \/ ui.session # None

Failed ==
  /\ loop.at = "failed"
  /\ loop' = [loop EXCEPT !.at = "idle", !.session = None]
  /\ ui' = [ui EXCEPT !.running = FALSE, !.controller = None,
                      !.started = StartedAfterFailure]
  /\ UNCHANGED <<comp, disk, seen>>

MayRecover(s) ==
  loop.resumes < MaxResumes /\ ui.controller \notin ui.aborted /\ Callable(s, "recover")

ToRecover == ui.session

\* #autoRecover, on the session the screen is in.
Recover ==
  /\ loop.at = "recovering" /\ ~ \E s \in Sessions : Held(s, "turn")
  /\ IF MayRecover(ToRecover)
     THEN /\ disk' = Leased(ToRecover, "turn", "recover")
          /\ loop' = [loop EXCEPT !.resumes = @ + 1, !.session = ToRecover]
     ELSE loop' = [loop EXCEPT !.at = "failed"] /\ UNCHANGED disk
  /\ UNCHANGED <<ui, comp, seen>>

\* The recovery ends, breaks as the turn did, or fails for good.
Recovered ==
  /\ loop.at = "recovering"
  /\ \E s \in Sessions :
       /\ Held(s, "turn")
       /\ \/ disk' = Freed(s, "settled") /\ loop' = [loop EXCEPT !.at = "failed"]
          \/ disk' = Freed(s, "open") /\ UNCHANGED loop
          \/ disk' = Freed(s, "open") /\ loop' = [loop EXCEPT !.at = "failed"]
  /\ UNCHANGED <<ui, comp, seen>>

-----------------------------------------------------------------------------
(* A compaction. *)

\* The finally block of #compact.
CompactEnds ==
  /\ comp' = [comp EXCEPT !.at = "none", !.session = None, !.byLoop = FALSE]
  /\ ui' = [ui EXCEPT !.controller = None, !.compacting = FALSE]

\* The facts are there; the summary is asked for, by a turn of its own.
Ask ==
  /\ comp.at = "gathering"
  /\ IF Callable(ui.session, "continue")
     THEN /\ disk' = Leased(ui.session, "compact", "continue")
          /\ comp' = [comp EXCEPT !.at = "asking", !.session = ui.session]
          /\ ui' = [ui EXCEPT !.controller = "compact", !.aborted = @ \ {"compact"}]
     ELSE CompactEnds /\ UNCHANGED disk
  /\ UNCHANGED <<loop, seen>>

AskFails ==
  /\ comp.at \in {"asking", "resuming"} /\ Held(comp.session, "compact")
  /\ \E state \in {"settled", "open"} : disk' = Freed(comp.session, state)
  /\ CompactEnds
  /\ UNCHANGED <<loop, seen>>

\* withAutoResume
AskBreaks ==
  /\ comp.at \in {"asking", "resuming"} /\ Held(comp.session, "compact")
  /\ disk' = Freed(comp.session, "open")
  /\ IF comp.resumes < MaxResumes
     THEN comp' = [comp EXCEPT !.at = "resuming"] /\ UNCHANGED ui
     ELSE CompactEnds
  /\ UNCHANGED <<loop, seen>>

Resume ==
  /\ comp.at = "resuming" /\ ~ Held(comp.session, "compact")
  /\ IF Callable(comp.session, "recover")
     THEN /\ disk' = Leased(comp.session, "compact", "recover")
          /\ comp' = [comp EXCEPT !.resumes = @ + 1] /\ UNCHANGED ui
     ELSE CompactEnds /\ UNCHANGED disk
  /\ UNCHANGED <<loop, seen>>

\* The answer is there: an empty one ends the compaction.
Summarized ==
  /\ comp.at \in {"asking", "resuming"} /\ Held(comp.session, "compact")
  /\ disk' = Freed(comp.session, "settled")
  /\ \/ comp' = [comp EXCEPT !.at = "recording"] /\ UNCHANGED ui
     \/ CompactEnds
  /\ UNCHANGED <<loop, seen>>

RecordedEffort(s) == IF comp.effort = None THEN disk[s].effort ELSE comp.effort

\* recordCompaction, in the session the screen is in by then.
Record ==
  /\ comp.at = "recording"
  /\ IF disk[ui.session].lease = None
     THEN /\ seen' = [seen EXCEPT !.notes = @ \cup
                        {[from |-> comp.session, into |-> ui.session,
                          tail |-> disk[ui.session].state]}]
          /\ disk' = [disk EXCEPT ![ui.session].effort = RecordedEffort(ui.session)]
     ELSE UNCHANGED <<seen, disk>>
  /\ CompactEnds
  /\ UNCHANGED loop

-----------------------------------------------------------------------------
(* The user. *)

\* Mutant: a message that comes while the loop sleeps does not wake it.
QueuedQuietly(message) == [ui EXCEPT !.queue = Append(@, message)]

Queued(message) == [ui EXCEPT !.queue = Append(@, message), !.wake = FALSE]

\* #onSubmit: a message waits in the queue, whatever goes on.
Submit ==
  /\ seen.submitted < MaxMessages /\ ~ ui.picker /\ loop.at \notin {"over", "crashed"}
  /\ calm => ~ ui.listing /\ (ui.compacting => comp.byLoop)
  /\ ui' = Queued(seen.submitted + 1)
  /\ seen' = [seen EXCEPT !.submitted = @ + 1]
  /\ UNCHANGED <<loop, comp, disk>>

\* /compact
AskToCompact ==
  /\ MayCommand /\ loop.at \notin {"over", "crashed"}
  /\ MayCompact /\ Compacting(None, FALSE)
  /\ Commanded /\ UNCHANGED <<loop, disk>>

Shown == IF ui.effort = None THEN DefaultEffort ELSE ui.effort

\* #chooseEffort: shown at once; a started session changes by a compaction.
ChooseEffort ==
  /\ MayCommand /\ loop.at \notin {"over", "crashed"}
  /\ \E e \in Efforts \ {Shown} :
       IF MayCompact
       THEN /\ ui' = [ui EXCEPT !.effort = e, !.compacting = TRUE]
            /\ comp' = [at |-> "gathering", session |-> None, effort |-> e, resumes |-> 0,
                        byLoop |-> FALSE]
       ELSE ui' = [ui EXCEPT !.effort = e] /\ UNCHANGED comp
  /\ Commanded /\ UNCHANGED <<loop, disk>>

MayShow == ~ ui.running

\* /session reads the journals, and then looks whether a turn is running.
ListSessions ==
  /\ MayCommand /\ loop.at \notin {"over", "crashed"}
  /\ ~ ui.listing
  /\ ui' = [ui EXCEPT !.listing = TRUE]
  /\ Commanded /\ UNCHANGED <<loop, comp, disk>>

ShowSessions ==
  /\ ui.listing
  /\ LET listed == {s \in Sessions : disk[s].state # "absent"} IN
       ui' = [ui EXCEPT !.listing = FALSE,
                !.picker = listed # {} /\ MayShow,
                !.offered = IF MayShow THEN {s \in listed : disk[s].state = "settled"} ELSE {}]
  /\ UNCHANGED <<loop, comp, disk, seen>>

\* #onChoose: a session that was listed as completed is taken up, any other
\* left alone; the picker may be left without a choice.
Choose ==
  /\ ui.picker
  /\ LET closed == [ui EXCEPT !.picker = FALSE, !.offered = {}] IN
       \/ ui' = closed
       \/ \E s \in ui.offered : ui' = [closed EXCEPT !.session = s, !.started = TRUE]
  /\ UNCHANGED <<loop, comp, disk, seen>>

\* #onInterrupt: stop the work, else drop what is queued.
Interrupt ==
  /\ seen.commands < MaxCommands /\ ~ ui.picker
  /\ ui' = IF ui.running THEN [ui EXCEPT !.aborted = @ \cup ({ui.controller} \ {None})]
           ELSE [ui EXCEPT !.queue = << >>]
  /\ seen' = [seen EXCEPT !.commands = @ + 1,
       !.cleared = IF ui.running THEN @ ELSE @ \cup {ui.queue[k] : k \in DOMAIN ui.queue}]
  /\ UNCHANGED <<loop, comp, disk>>

\* #requestExit
RequestExit ==
  /\ MayCommand /\ ~ ui.running
  /\ ui' = [ui EXCEPT !.exiting = TRUE, !.wake = FALSE]
  /\ Commanded /\ UNCHANGED <<loop, comp, disk>>

-----------------------------------------------------------------------------

LoopSteps ==
  \/ Take \/ Sleep \/ Exit \/ BeginTurn \/ PrepareFails \/ PriceFails \/ Call \/ Answered \/ CallAgain
  \/ CallFails \/ CallBreaks \/ Failed \/ Recover \/ Recovered

CompactSteps == Ask \/ AskFails \/ AskBreaks \/ Resume \/ Summarized \/ Record

UserSteps ==
  \/ Submit \/ AskToCompact \/ ChooseEffort \/ ListSessions \/ Choose \/ Interrupt \/ RequestExit

Next ==
  /\ LoopSteps \/ CompactSteps \/ CompactFirst \/ ShowSessions \/ UserSteps
  /\ UNCHANGED calm

\* An await that is served goes on: the program runs its callbacks, and a call
\* of the kernel comes to an end (a turn has a budget of time).
Spec ==
  /\ Init /\ [][Next]_vars
  /\ WF_vars(LoopSteps /\ UNCHANGED calm) /\ WF_vars(CompactSteps /\ UNCHANGED calm)

-----------------------------------------------------------------------------

TypeOK ==
  /\ ui.session \in Sessions \cup {None} /\ ui.controller \in {None, "turn", "compact"}
  /\ ui.aborted \subseteq {"turn", "compact"} /\ ui.effort \in Efforts \cup {None}
  /\ ui.offered \subseteq Sessions /\ (ui.offered # {} => ui.picker) /\ ui.queue \in Seq(1..MaxMessages)
  /\ ui.wake \in BOOLEAN
  /\ loop.at \in Stages /\ loop.resumes \in 0..MaxResumes /\ loop.calls \in 0..MaxContinues + 1
  /\ comp.at \in CompSteps /\ comp.resumes \in 0..MaxResumes
  /\ \A s \in Sessions : disk[s].state \in States /\ disk[s].effort \in Efforts
                         /\ disk[s].lease \in {None, "turn", "compact"}
  /\ ui.started => ui.session # None

\* Every message is sent once, in the order it was typed, or is still queued,
\* or was dropped by Ctrl-C; nothing else loses one.
EveryMessageAccounted ==
  /\ \A a, b \in DOMAIN seen.sent : a < b => seen.sent[a] < seen.sent[b]
  /\ LET sent == {seen.sent[k] : k \in DOMAIN seen.sent}
         queued == {ui.queue[k] : k \in DOMAIN ui.queue} IN
       /\ sent \cup queued \cup seen.cleared = 1..seen.submitted
       /\ sent \cap queued = {} /\ sent \cap seen.cleared = {}

\* A turn's lease is given back before the loop takes the next message, and a
\* compaction's before it ends.
LeasesAreReturned ==
  /\ loop.at \in {"idle", "switching", "awaiting", "preparing", "failed"} => ~ \E s \in Sessions : Held(s, "turn")
  /\ comp.at \in {"none", "gathering", "recording"} => ~ \E s \in Sessions : Held(s, "compact")

\* The loop never sleeps over a message or over the wish to leave.
NoneSleptOver == ui.wake => loop.at = "idle" /\ ui.queue = << >> /\ ~ ui.exiting

\* "Replace the conversation with a summary of itself" (interactive.ts:545).
SummaryGoesHome == \A n \in seen.notes : n.from = n.into

\* "The caller must already hold a closed tail: no active Run, no pending tool
\* call" (compaction.ts:82).
RecordsOnClosedTail == \A n \in seen.notes : n.tail = "settled"

\* "Ctrl-C, in the order a person expects: stop the work ..." (interactive.ts:678):
\* while a turn is running, its controller is the one that Ctrl-C aborts.
InterruptReachesTurn == ui.running => ui.controller = "turn"

\* "interrupting it leaves the conversation as it was" (screen.ts:307): Ctrl-C
\* while only a compaction is going on aborts it.
InterruptStopsCompaction ==
  [][comp.at \in {"asking", "resuming"} /\ ui.controller = "compact" /\ Interrupt =>
       "compact" \in ui'.aborted]_vars

\* "A turn that stops early is a durable fact, not a crash: the Journal already
\* recorded why, and the next turn continues" (interactive.ts:305): between
\* turns, a session that counts as started is on disk.
StartedMeansRecorded ==
  loop.at = "idle" /\ ui.started => ui.session # None /\ disk[ui.session].state # "absent"

\* "What the next turn will use, before any of it has been used"
\* (interactive.ts:177): the effort in the footer is that of the session.
EffortShownIsUsed ==
  loop.at = "idle" /\ ~ ui.compacting /\ ui.session # None /\ disk[ui.session].state # "absent" =>
    disk[ui.session].effort = Shown

\* Whatever is typed while turns, compactions and recoveries go on: every message is
\* sent once and in order, waits, or was dropped by Ctrl-C; the loop sleeps over none;
\* no lease outlives its turn or compaction.  If it is calm, a summary is recorded on the closed tail of its
\* session, Ctrl-C reaches the turn, and what counts as started is on disk.
LoopIsOrderly ==
  /\ TypeOK /\ EveryMessageAccounted /\ LeasesAreReturned /\ NoneSleptOver
  /\ calm =>
       /\ SummaryGoesHome /\ RecordsOnClosedTail /\ InterruptReachesTurn /\ StartedMeansRecorded

=============================================================================
