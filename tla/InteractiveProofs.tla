--------------------------- MODULE InteractiveProofs ---------------------------
(***************************************************************************)
(* Proofs about what the user types at.                                    *)
(*                                                                         *)
(* First, that the interactive loop is orderly, for any number of          *)
(* sessions, messages, commands, resumes and continuations.                *)
(* LoopIsOrderly is not inductive.  That a lease is returned needs to know *)
(* in which call its holder is, and that the flags #running and            *)
(* #compacting say so; that messages are sent in order, that what waits    *)
(* was typed after what was sent; where a summary goes, that while it is   *)
(* calm the loop stands still as long as a session is chosen or compacted. *)
(*                                                                         *)
(* Then, that the picker follows the text, for lines of any length and any *)
(* number of keys, requests and answers.  What is inductive says which     *)
(* request of the chain will still answer for the text as it is, and that  *)
(* the tokens of the chain rise, so that it is the last one.               *)
(***************************************************************************)
EXTENDS Prompt, Integers, SequenceTheorems, WellFoundedInduction, TLAPS

\* The types of the variables: TypeOK, and what it leaves open.
UiFields ==
  [session : Sessions \cup {None}, started : BOOLEAN, running : BOOLEAN, compacting : BOOLEAN,
   controller : {None, "turn", "compact"}, aborted : SUBSET {"turn", "compact"},
   exiting : BOOLEAN, effort : Efforts \cup {None}, listing : BOOLEAN, picker : BOOLEAN,
   offered : SUBSET Sessions, queue : Seq(1..MaxMessages), wake : BOOLEAN]
LoopFields ==
  [at : Stages, message : Nat, session : Sessions \cup {None}, calls : 0..MaxContinues + 1,
   resumes : 0..MaxResumes]
CompFields ==
  [at : CompSteps, session : Sessions \cup {None}, effort : Efforts \cup {None},
   resumes : 0..MaxResumes, byLoop : BOOLEAN]
Journals == [state : States, effort : Efforts, lease : {None, "turn", "compact"}]
Notes == [from : Sessions \cup {None}, into : Sessions, tail : States]
SeenFields ==
  [submitted : 0..MaxMessages, sent : Seq(1..MaxMessages), cleared : SUBSET (1..MaxMessages),
   notes : SUBSET Notes, commands : Nat]

TypeInv ==
  /\ ui \in UiFields /\ loop \in LoopFields /\ comp \in CompFields
  /\ disk \in [Sessions -> Journals] /\ seen \in SeenFields /\ calm \in BOOLEAN

\* The stages of a turn in which #running is set, and those that need a session.
Turning == {"preparing", "calling", "failed", "recovering"}
Served  == {"calling", "recovering"}
Asking  == {"asking", "resuming"}

\* Who holds a lease is in the middle of a call, on the session of that call.
LeaseInv ==
  /\ \A s \in Sessions : Held(s, "turn") => loop.at \in Served /\ loop.session = s
  /\ \A s \in Sessions : Held(s, "compact") => comp.at \in Asking /\ comp.session = s
  /\ \A s \in Sessions : disk[s].lease # None => disk[s].state # "absent"
  /\ comp.at = "resuming" => Held(comp.session, "compact") \/ comp.resumes < MaxResumes

\* The flags say what goes on, and what goes on has a session.
FlagInv ==
  /\ ui.running <=> loop.at \in Turning
  /\ ui.compacting <=> comp.at # "none"
  /\ comp.byLoop => ui.compacting
  /\ ui.started \/ ui.compacting \/ loop.at \in Served => ui.session # None
  /\ loop.at \in Served => loop.session # None
  /\ comp.at \in Asking \cup {"recording"} => comp.session # None
  /\ ui.offered # {} => ui.picker
  /\ \A s \in ui.offered : disk[s].state # "absent"

Elements(seq) == {seq[k] : k \in DOMAIN seq}
Increasing(seq) == \A a, b \in DOMAIN seq : a < b => seq[a] < seq[b]

\* What waits was typed after what was sent, and is neither sent nor dropped.
MessageInv ==
  /\ Increasing(seen.sent) /\ Increasing(ui.queue)
  /\ \A a \in Elements(seen.sent), b \in Elements(ui.queue) : a < b
  /\ Elements(seen.sent) \cup Elements(ui.queue) \cup seen.cleared = 1..seen.submitted
  /\ seen.cleared \cap (Elements(seen.sent) \cup Elements(ui.queue)) = {}

\* If it is calm, the loop stands still while a session is chosen or compacted.
CalmInv ==
  calm =>
    /\ ui.compacting /\ ~ comp.byLoop => loop.at = "idle" /\ ui.queue = << >> /\ ~ ui.exiting
    /\ ui.compacting /\ comp.byLoop => loop.at = "awaiting"
    /\ ui.listing \/ ui.picker =>
         loop.at = "idle" /\ ui.queue = << >> /\ ~ ui.compacting /\ ~ ui.exiting
    /\ ui.running => ui.controller = "turn"
    /\ ui.session # None => disk[ui.session].state # "absent"
    /\ comp.at \in Asking \cup {"recording"} => comp.session = ui.session
    /\ comp.at = "recording" => disk[ui.session].state = "settled"
    /\ \A n \in seen.notes : n.from = n.into /\ n.tail = "settled"

IInv == TypeInv /\ LeaseInv /\ FlagInv /\ MessageInv /\ CalmInv /\ NoneSleptOver

\* A call of the kernel takes the lease of its session and leaves it open.
LEMMA LeasedFields ==
  ASSUME disk \in [Sessions -> Journals], NEW s \in Sessions, NEW who, NEW kind,
         disk' = Leased(s, who, kind)
  PROVE  /\ disk'[s].lease = who /\ disk'[s].state = "open"
         /\ \A t \in Sessions \ {s} : disk'[t] = disk[t]
BY DEF Leased, Journals

\* A call that ends gives back its own lease.
LEMMA FreedFields ==
  ASSUME disk \in [Sessions -> Journals], NEW s \in Sessions, NEW state, disk' = Freed(s, state)
  PROVE  /\ disk'[s].lease = None /\ disk'[s].state = state
         /\ \A t \in Sessions \ {s} : disk'[t] = disk[t]
BY DEF Freed, Journals

\* The finally block of #compact.
LEMMA CompactEndsFields ==
  ASSUME ui \in UiFields, comp \in CompFields, CompactEnds
  PROVE  /\ comp'.at = "none" /\ comp'.session = None /\ comp'.byLoop = FALSE
         /\ comp'.resumes = comp.resumes
         /\ ui'.controller = None /\ ui'.compacting = FALSE /\ ui'.session = ui.session
         /\ ui'.started = ui.started /\ ui'.running = ui.running /\ ui'.exiting = ui.exiting
         /\ ui'.listing = ui.listing /\ ui'.picker = ui.picker /\ ui'.offered = ui.offered
         /\ ui'.queue = ui.queue /\ ui'.wake = ui.wake
BY DEF CompactEnds, UiFields, CompFields

\* Every step keeps the types.
LEMMA TypeKept ==
  ASSUME BoundsAssumption, EffortsAssumption, TypeInv, LeaseInv, FlagInv, Next
  PROVE  TypeInv'
<1>c. calm' = calm
  BY DEF Next
<1>u. ui \in UiFields
  BY DEF TypeInv
<1>l. loop \in LoopFields
  BY DEF TypeInv
<1>p. comp \in CompFields
  BY DEF TypeInv
<1>d. disk \in [Sessions -> Journals]
  BY DEF TypeInv
<1>e. seen \in SeenFields
  BY DEF TypeInv
<1>b. MaxMessages \in Nat /\ MaxResumes \in Nat /\ MaxContinues \in Nat /\ DefaultEffort \in Efforts
  BY DEF BoundsAssumption, EffortsAssumption
<1>n. /\ 0 \in 0..MaxResumes /\ 0 \in 0..MaxContinues + 1 /\ 1 \in 0..MaxContinues + 1
      /\ loop.resumes < MaxResumes => loop.resumes + 1 \in 0..MaxResumes
      /\ comp.resumes < MaxResumes => comp.resumes + 1 \in 0..MaxResumes
      /\ loop.calls <= MaxContinues => loop.calls + 1 \in 0..MaxContinues + 1
  <2>1. loop.resumes \in 0..MaxResumes /\ comp.resumes \in 0..MaxResumes
        /\ loop.calls \in 0..MaxContinues + 1
    BY <1>l, <1>p DEF LoopFields, CompFields
  <2>2. QED
    BY <1>b, <2>1
<1>s. /\ comp.at # "none" => ui.session \in Sessions
      /\ loop.at \in Served => ui.session \in Sessions /\ loop.session \in Sessions
      /\ comp.at \in Asking => comp.session \in Sessions
      /\ comp.session \in Sessions \cup {None} /\ comp.effort \in Efforts \cup {None}
      /\ ui.effort \in Efforts \cup {None}
      /\ ui.queue \in Seq(1..MaxMessages) /\ ui.controller \in {None, "turn", "compact"}
  BY <1>u, <1>l, <1>p DEF FlagInv, UiFields, LoopFields, CompFields
<1>m. seen.commands \in Nat /\ seen.commands + 1 \in Nat /\ seen.submitted \in Nat
      /\ seen.sent \in Seq(1..MaxMessages) /\ seen.notes \subseteq Notes
  BY <1>b, <1>e DEF SeenFields
<1>j. \A s \in Sessions : disk[s].state \in States /\ disk[s].effort \in Efforts
  BY <1>d DEF Journals
<1>1. CASE Take
  <2>h. Head(ui.queue) \in 1..MaxMessages /\ Tail(ui.queue) \in Seq(1..MaxMessages)
    BY <1>s, <1>1, HeadTailProperties DEF Take
  <2>m. Head(ui.queue) \in Nat
    BY <1>b, <2>h
  <2>a. Append(seen.sent, Head(ui.queue)) \in Seq(1..MaxMessages)
    BY <2>h, <1>m, AppendProperties
  <2>u. ui' \in UiFields
    BY <1>1, <1>u, <2>h DEF Take, Taken, UiFields
  <2>s. seen' \in SeenFields
    BY <1>1, <1>e, <2>a, <1>e DEF Take, Taken, SeenFields
  <2>l. loop' \in LoopFields
    BY <1>1, <1>l, <2>m DEF Take, Taken, LoopFields, Stages
  <2>q. QED
    BY <1>c, <1>1, <1>p, <1>d, <2>u, <2>s, <2>l DEF Take, Taken, TypeInv
<1>2. CASE Exit
  <2>l. loop' \in LoopFields
    BY <1>2, <1>l DEF Exit, LoopFields, Stages
  <2>q. QED
    BY <1>c, <1>2, <1>u, <1>p, <1>d, <1>e, <2>l DEF Exit, TypeInv
<1>3. CASE BeginTurn
  <2>l. loop' \in LoopFields
    BY <1>3, <1>l, <1>n DEF BeginTurn, TurnMayBegin, LoopFields, Stages
  <2>u. ui' \in UiFields
    BY <1>3, <1>u DEF BeginTurn, TurnMayBegin, UiFields
  <2>q. QED
    BY <1>c, <1>3, <1>p, <1>d, <1>e, <2>l, <2>u DEF BeginTurn, TurnMayBegin, TypeInv
<1>4. CASE PrepareFails
  <2>l. loop' \in LoopFields
    BY <1>4, <1>l DEF PrepareFails, LoopFields, Stages
  <2>q. QED
    BY <1>c, <1>4, <1>u, <1>p, <1>d, <1>e, <2>l DEF PrepareFails, TypeInv
<1>5. CASE PriceFails
  <2>l. loop' \in LoopFields
    BY <1>5, <1>l DEF PriceFails, NewSession, LoopFields, Stages
  <2>u. ui' \in UiFields
    BY <1>5, <1>u DEF PriceFails, NewSession, UiFields
  <2>q. QED
    BY <1>c, <1>5, <1>p, <1>d, <1>e, <2>l, <2>u DEF PriceFails, NewSession, TypeInv
<1>6. CASE Call
  <2>l. loop' \in LoopFields
    BY <1>6, <1>l, <1>n DEF Call, NewSession, Callable, Leased, LoopFields, Stages
  <2>u. ui' \in UiFields
    BY <1>6, <1>u DEF Call, NewSession, Callable, Leased, UiFields
  <2>d. disk' \in [Sessions -> Journals]
    BY <1>6, <1>d DEF Call, NewSession, Callable, Leased, Journals, States
  <2>q. QED
    BY <1>c, <1>6, <1>p, <1>e, <2>l, <2>u, <2>d DEF Call, NewSession, Callable, Leased, TypeInv
<1>7. CASE Answered
  <2>l. loop' \in LoopFields
    BY <1>7, <1>l, <1>n DEF Answered, Freed, Idle, Held, LoopFields, Stages
  <2>u. ui' \in UiFields
    BY <1>7, <1>u DEF Answered, Freed, Idle, Held, UiFields
  <2>d. disk' \in [Sessions -> Journals]
    BY <1>7, <1>d DEF Answered, Freed, Idle, Held, Journals, States
  <2>q. QED
    BY <1>c, <1>7, <1>p, <1>e, <2>l, <2>u, <2>d DEF Answered, Freed, Idle, Held, TypeInv
<1>8. CASE CallAgain
  <2>l. loop' \in LoopFields
    BY <1>8, <1>l DEF CallAgain, Callable, Leased, LoopFields, Stages
  <2>d. disk' \in [Sessions -> Journals]
    BY <1>8, <1>d DEF CallAgain, Callable, Leased, Journals, States
  <2>q. QED
    BY <1>c, <1>8, <1>u, <1>p, <1>e, <2>l, <2>d DEF CallAgain, Callable, Leased, TypeInv
<1>9. CASE CallFails
  <2>l. loop' \in LoopFields
    BY <1>9, <1>l DEF CallFails, Freed, LoopFields, Stages
  <2>d. disk' \in [Sessions -> Journals]
    <3>1. PICK state \in {"settled", "open"} : disk' = Freed(loop.session, state)
      BY <1>9 DEF CallFails
    <3>2. QED
      BY <1>d, <3>1 DEF Freed, Journals, States
  <2>q. QED
    BY <1>c, <1>9, <1>u, <1>p, <1>e, <2>l, <2>d DEF CallFails, Freed, TypeInv
<1>10. CASE CallBreaks
  <2>l. loop' \in LoopFields
    BY <1>10, <1>l DEF CallBreaks, Freed, LoopFields, Stages
  <2>u. ui' \in UiFields
    BY <1>10, <1>u DEF CallBreaks, Freed, UiFields
  <2>d. disk' \in [Sessions -> Journals]
    BY <1>10, <1>d DEF CallBreaks, Freed, Journals, States
  <2>q. QED
    BY <1>c, <1>10, <1>p, <1>e, <2>l, <2>u, <2>d DEF CallBreaks, Freed, TypeInv
<1>11. CASE Failed
  <2>l. loop' \in LoopFields
    BY <1>11, <1>l DEF Failed, StartedAfterFailure, LoopFields, Stages
  <2>u. ui' \in UiFields
    BY <1>11, <1>u DEF Failed, StartedAfterFailure, UiFields
  <2>q. QED
    BY <1>c, <1>11, <1>p, <1>d, <1>e, <2>l, <2>u DEF Failed, StartedAfterFailure, TypeInv
<1>12. CASE Recover
  <2>l. loop' \in LoopFields
    BY <1>12, <1>l, <1>n, <1>s
       DEF Recover, ToRecover, MayRecover, Callable, Leased, Served, LoopFields, Stages
  <2>d. disk' \in [Sessions -> Journals]
    BY <1>12, <1>d, <1>s
       DEF Recover, ToRecover, MayRecover, Callable, Leased, Served, Journals, States
  <2>q. QED
    BY <1>c, <1>12, <1>u, <1>p, <1>e, <2>l, <2>d
       DEF Recover, ToRecover, MayRecover, Callable, Leased, TypeInv
<1>13. CASE Recovered
  <2>l. loop' \in LoopFields
    BY <1>13, <1>l DEF Recovered, Freed, LoopFields, Stages
  <2>d. disk' \in [Sessions -> Journals]
    BY <1>13, <1>d DEF Recovered, Freed, Journals, States
  <2>q. QED
    BY <1>c, <1>13, <1>u, <1>p, <1>e, <2>l, <2>d DEF Recovered, Freed, TypeInv
<1>14. CASE Ask
  <2>u. ui' \in UiFields
    <3>1. \/ ui' = [ui EXCEPT !.controller = "compact", !.aborted = @ \ {"compact"}]
          \/ ui' = [ui EXCEPT !.controller = None, !.compacting = FALSE]
      BY <1>14 DEF Ask, CompactEnds
    <3>2. ui.aborted \ {"compact"} \subseteq {"turn", "compact"}
      BY <1>u DEF UiFields
    <3>3. CASE ui' = [ui EXCEPT !.controller = "compact", !.aborted = @ \ {"compact"}]
      BY <1>u, <3>2, <3>3 DEF UiFields
    <3>4. CASE ui' = [ui EXCEPT !.controller = None, !.compacting = FALSE]
      BY <1>u, <3>4 DEF UiFields
    <3>5. QED
      BY <3>1, <3>3, <3>4
  <2>c. comp' \in CompFields
    BY <1>14, <1>p, <1>s DEF Ask, Callable, Leased, CompactEnds, CompFields, CompSteps
  <2>d. disk' \in [Sessions -> Journals]
    BY <1>14, <1>d, <1>s DEF Ask, Callable, Leased, CompactEnds, Journals, States
  <2>q. QED
    BY <1>c, <1>14, <1>l, <1>e, <2>u, <2>c, <2>d DEF Ask, Callable, Leased, CompactEnds, TypeInv
<1>15. CASE AskFails
  <2>u. ui' \in UiFields
    <3>1. ui' = ui \/ ui' = [ui EXCEPT !.controller = None, !.compacting = FALSE]
      BY <1>15 DEF AskFails, CompactEnds
    <3>2. QED
      BY <1>u, <3>1 DEF UiFields
  <2>c. comp' \in CompFields
    BY <1>15, <1>p DEF AskFails, Freed, CompactEnds, CompFields, CompSteps
  <2>d. disk' \in [Sessions -> Journals]
    <3>1. PICK state \in {"settled", "open"} : disk' = Freed(comp.session, state)
      BY <1>15 DEF AskFails
    <3>2. QED
      BY <1>d, <3>1 DEF Freed, Journals, States
  <2>q. QED
    BY <1>c, <1>15, <1>l, <1>e, <2>u, <2>c, <2>d DEF AskFails, Freed, CompactEnds, TypeInv
<1>16. CASE AskBreaks
  <2>u. ui' \in UiFields
    <3>1. ui' = ui \/ ui' = [ui EXCEPT !.controller = None, !.compacting = FALSE]
      BY <1>16 DEF AskBreaks, CompactEnds
    <3>2. QED
      BY <1>u, <3>1 DEF UiFields
  <2>c. comp' \in CompFields
    BY <1>16, <1>p DEF AskBreaks, Freed, CompactEnds, CompFields, CompSteps
  <2>d. disk' \in [Sessions -> Journals]
    BY <1>16, <1>d DEF AskBreaks, Freed, CompactEnds, Journals, States
  <2>q. QED
    BY <1>c, <1>16, <1>l, <1>e, <2>u, <2>c, <2>d DEF AskBreaks, Freed, CompactEnds, TypeInv
<1>17. CASE Resume
  <2>u. ui' \in UiFields
    <3>1. ui' = ui \/ ui' = [ui EXCEPT !.controller = None, !.compacting = FALSE]
      BY <1>17 DEF Resume, CompactEnds
    <3>2. QED
      BY <1>u, <3>1 DEF UiFields
  <2>c. comp' \in CompFields
    <3>1. \/ comp' = [comp EXCEPT !.at = "none", !.session = None, !.byLoop = FALSE]
          \/ comp' = [comp EXCEPT !.resumes = @ + 1] /\ comp.resumes < MaxResumes
      BY <1>17 DEF Resume, CompactEnds, LeaseInv
    <3>2. QED
      BY <1>p, <1>n, <3>1 DEF CompFields, CompSteps
  <2>d. disk' \in [Sessions -> Journals]
    BY <1>17, <1>d DEF Resume, Callable, Leased, CompactEnds, Journals, States
  <2>q. QED
    BY <1>c, <1>17, <1>l, <1>e, <2>u, <2>c, <2>d DEF Resume, Callable, Leased, CompactEnds, TypeInv
<1>18. CASE Summarized
  <2>u. ui' \in UiFields
    <3>1. ui' = ui \/ ui' = [ui EXCEPT !.controller = None, !.compacting = FALSE]
      BY <1>18 DEF Summarized, CompactEnds
    <3>2. QED
      BY <1>u, <3>1 DEF UiFields
  <2>c. comp' \in CompFields
    BY <1>18, <1>p DEF Summarized, Freed, CompactEnds, CompFields, CompSteps
  <2>d. disk' \in [Sessions -> Journals]
    BY <1>18, <1>d DEF Summarized, Freed, CompactEnds, Journals, States
  <2>q. QED
    BY <1>c, <1>18, <1>l, <1>e, <2>u, <2>c, <2>d DEF Summarized, Freed, CompactEnds, TypeInv
<1>19. CASE Record
  <2>a. RecordedEffort(ui.session) \in Efforts
    BY <1>s, <1>j, <1>19 DEF Record, RecordedEffort
  <2>b. [from |-> comp.session, into |-> ui.session, tail |-> disk[ui.session].state] \in Notes
    BY <1>s, <1>j, <1>19 DEF Record, Notes
  <2>u. ui' \in UiFields
    BY <1>19, <1>u DEF Record, CompactEnds, UiFields
  <2>c. comp' \in CompFields
    BY <1>19, <1>p DEF Record, CompactEnds, CompFields, CompSteps
  <2>d. disk' \in [Sessions -> Journals]
    BY <1>19, <1>d, <2>a, <1>s DEF Record, CompactEnds, Journals, States
  <2>s. seen' \in SeenFields
    BY <1>19, <1>e, <2>b, <1>m DEF Record, CompactEnds, SeenFields
  <2>q. QED
    BY <1>c, <1>19, <1>l, <2>u, <2>c, <2>d, <2>s DEF Record, RecordedEffort, CompactEnds, TypeInv
<1>20. CASE CompactFirst
  <2>l. loop' \in LoopFields
    BY <1>20, <1>l DEF CompactFirst, MayCompact, Compacting, LoopFields, Stages
  <2>u. ui' \in UiFields
    BY <1>20, <1>u DEF CompactFirst, MayCompact, Compacting, UiFields
  <2>c. comp' \in CompFields
    BY <1>20, <1>p, <1>n DEF CompactFirst, MayCompact, Compacting, CompFields, CompSteps
  <2>q. QED
    BY <1>c, <1>20, <1>d, <1>e, <2>l, <2>u, <2>c DEF CompactFirst, MayCompact, Compacting, TypeInv
<1>21. CASE ShowSessions
  <2>u. ui' \in UiFields
    BY <1>21, <1>u DEF ShowSessions, MayShow, UiFields
  <2>q. QED
    BY <1>c, <1>21, <1>l, <1>p, <1>d, <1>e, <2>u DEF ShowSessions, MayShow, TypeInv
<1>22. CASE Submit
  <2>n. seen.submitted + 1 \in 1..MaxMessages /\ seen.submitted + 1 \in 0..MaxMessages
    BY <1>b, <1>m, <1>22 DEF Submit, Queued
  <2>a. Append(ui.queue, seen.submitted + 1) \in Seq(1..MaxMessages)
    BY <1>s, <2>n, AppendProperties
  <2>u. ui' \in UiFields
    BY <1>22, <1>u, <2>a DEF Submit, Queued, UiFields
  <2>s. seen' \in SeenFields
    BY <1>22, <1>e, <2>n DEF Submit, Queued, SeenFields
  <2>q. QED
    BY <1>c, <1>22, <1>l, <1>p, <1>d, <2>u, <2>s DEF Submit, Queued, TypeInv
<1>23. CASE AskToCompact
  <2>u. ui' \in UiFields
    BY <1>23, <1>u DEF AskToCompact, MayCompact, Compacting, Commanded, MayCommand, UiFields
  <2>c. comp' \in CompFields
    BY <1>23, <1>p, <1>n
       DEF AskToCompact, MayCompact, Compacting, Commanded, MayCommand, CompFields, CompSteps
  <2>s. seen' \in SeenFields
    BY <1>23, <1>e, <1>m DEF AskToCompact, MayCompact, Compacting, Commanded, MayCommand, SeenFields
  <2>q. QED
    BY <1>c, <1>23, <1>l, <1>d, <2>u, <2>c, <2>s
       DEF AskToCompact, MayCompact, Compacting, Commanded, MayCommand, TypeInv
<1>24. CASE ChooseEffort
  <2>e. PICK e \in Efforts :
          \/ /\ ui' = [ui EXCEPT !.effort = e, !.compacting = TRUE]
             /\ comp' = [at |-> "gathering", session |-> None, effort |-> e, resumes |-> 0,
                          byLoop |-> FALSE]
          \/ ui' = [ui EXCEPT !.effort = e] /\ comp' = comp
    BY <1>24 DEF ChooseEffort
  <2>u. ui' \in UiFields
    BY <1>u, <2>e DEF UiFields
  <2>c. comp' \in CompFields
    <3>1. CASE comp' = comp
      BY <1>p, <3>1
    <3>2. CASE comp' = [at |-> "gathering", session |-> None, effort |-> e, resumes |-> 0,
                        byLoop |-> FALSE]
      BY <1>n, <3>2 DEF CompFields, CompSteps
    <3>3. QED
      BY <2>e, <3>1, <3>2
  <2>s. seen' \in SeenFields
    BY <1>24, <1>e, <1>m DEF ChooseEffort, MayCompact, Commanded, MayCommand, Shown, SeenFields
  <2>q. QED
    BY <1>c, <1>24, <1>l, <1>d, <2>u, <2>c, <2>s
       DEF ChooseEffort, MayCompact, Commanded, MayCommand, Shown, TypeInv
<1>25. CASE ListSessions
  <2>u. ui' \in UiFields
    BY <1>25, <1>u DEF ListSessions, Commanded, MayCommand, UiFields
  <2>s. seen' \in SeenFields
    BY <1>25, <1>e, <1>m DEF ListSessions, Commanded, MayCommand, SeenFields
  <2>q. QED
    BY <1>c, <1>25, <1>l, <1>p, <1>d, <2>u, <2>s DEF ListSessions, Commanded, MayCommand, TypeInv
<1>26. CASE Choose
  <2>u. ui' \in UiFields
    BY <1>26, <1>u DEF Choose, UiFields
  <2>q. QED
    BY <1>c, <1>26, <1>l, <1>p, <1>d, <1>e, <2>u DEF Choose, TypeInv
<1>27. CASE Interrupt
  <2>a. << >> \in Seq(1..MaxMessages) /\ {ui.controller} \ {None} \subseteq {"turn", "compact"}
    BY <1>s
  <2>b. {ui.queue[k] : k \in DOMAIN ui.queue} \subseteq 1..MaxMessages
    BY <1>s, ElementOfSeq, LenProperties
  <2>u. ui' \in UiFields
    BY <1>27, <1>u, <2>a DEF Interrupt, UiFields
  <2>s. seen' \in SeenFields
    BY <1>27, <1>e, <2>b, <1>m DEF Interrupt, SeenFields
  <2>q. QED
    BY <1>c, <1>27, <1>l, <1>p, <1>d, <2>u, <2>s DEF Interrupt, TypeInv
<1>28. CASE RequestExit
  <2>u. ui' \in UiFields
    BY <1>28, <1>u DEF RequestExit, Commanded, MayCommand, UiFields
  <2>s. seen' \in SeenFields
    BY <1>28, <1>e, <1>m DEF RequestExit, Commanded, MayCommand, SeenFields
  <2>q. QED
    BY <1>c, <1>28, <1>l, <1>p, <1>d, <2>u, <2>s DEF RequestExit, Commanded, MayCommand, TypeInv
<1>29. CASE Sleep
  <2>u. ui' \in UiFields
    BY <1>29, <1>u DEF Sleep, UiFields
  <2>q. QED
    BY <1>c, <1>29, <1>l, <1>p, <1>d, <1>e, <2>u DEF Sleep, TypeInv
<1>30. QED
  BY <1>1, <1>2, <1>3, <1>4, <1>5, <1>6, <1>7, <1>8, <1>9, <1>10, <1>11, <1>12, <1>13, <1>14,
         <1>15, <1>16, <1>17, <1>18, <1>19, <1>20, <1>21, <1>22, <1>23, <1>24, <1>25, <1>26,
         <1>27, <1>28, <1>29
     DEF Next, LoopSteps, CompactSteps, UserSteps

\* A lease is taken and given back by the call that holds it.
LEMMA LeaseKept ==
  ASSUME NoneAssumption, TypeInv, LeaseInv, FlagInv, Next
  PROVE  LeaseInv'
<1>c. calm' = calm
  BY DEF Next
<1>n. None # "turn" /\ None # "compact"
  BY DEF NoneAssumption
<1>k. comp.at \in Asking => comp.session \in Sessions /\ comp.at # "none"
  BY DEF TypeInv, FlagInv, CompFields, Asking
<1>1. CASE Take
  BY <1>c, <1>1
     DEF Take, Taken, LeaseInv, FlagInv, Held, Turning, Served, Asking, NoneAssumption, TypeInv,
         UiFields, LoopFields, CompFields, Journals, Notes, SeenFields, Stages, CompSteps, States
<1>2. CASE Exit
  BY <1>c, <1>2
     DEF Exit, LeaseInv, FlagInv, Held, Turning, Served, Asking, NoneAssumption, TypeInv,
         UiFields, LoopFields, CompFields, Journals, Notes, SeenFields, Stages, CompSteps, States
<1>3. CASE BeginTurn
  BY <1>c, <1>3
     DEF BeginTurn, TurnMayBegin, LeaseInv, FlagInv, Held, Turning, Served, Asking,
         NoneAssumption, TypeInv, UiFields, LoopFields, CompFields, Journals, Notes, SeenFields,
         Stages, CompSteps, States
<1>4. CASE PrepareFails
  BY <1>c, <1>4
     DEF PrepareFails, LeaseInv, FlagInv, Held, Turning, Served, Asking, NoneAssumption, TypeInv,
         UiFields, LoopFields, CompFields, Journals, Notes, SeenFields, Stages, CompSteps, States
<1>5. CASE PriceFails
  BY <1>c, <1>5
     DEF PriceFails, NewSession, LeaseInv, FlagInv, Held, Turning, Served, Asking, NoneAssumption,
         TypeInv, UiFields, LoopFields, CompFields, Journals, Notes, SeenFields, Stages,
         CompSteps, States
<1>6. CASE Call
  BY <1>c, <1>6
     DEF Call, NewSession, Callable, Leased, LeaseInv, FlagInv, Held, Turning, Served, Asking,
         NoneAssumption, TypeInv, UiFields, LoopFields, CompFields, Journals, Notes, SeenFields,
         Stages, CompSteps, States
<1>7. CASE Answered
  BY <1>c, <1>7
     DEF Answered, Freed, Idle, Held, LeaseInv, FlagInv, Held, Turning, Served, Asking,
         NoneAssumption, TypeInv, UiFields, LoopFields, CompFields, Journals, Notes, SeenFields,
         Stages, CompSteps, States
<1>8. CASE CallAgain
  BY <1>c, <1>8
     DEF CallAgain, Callable, Leased, LeaseInv, FlagInv, Held, Turning, Served, Asking,
         NoneAssumption, TypeInv, UiFields, LoopFields, CompFields, Journals, Notes, SeenFields,
         Stages, CompSteps, States
<1>9. CASE CallFails
  BY <1>c, <1>9
     DEF CallFails, Freed, LeaseInv, FlagInv, Held, Turning, Served, Asking, NoneAssumption,
         TypeInv, UiFields, LoopFields, CompFields, Journals, Notes, SeenFields, Stages,
         CompSteps, States
<1>10. CASE CallBreaks
  BY <1>c, <1>10
     DEF CallBreaks, Freed, LeaseInv, FlagInv, Held, Turning, Served, Asking, NoneAssumption,
         TypeInv, UiFields, LoopFields, CompFields, Journals, Notes, SeenFields, Stages,
         CompSteps, States
<1>11. CASE Failed
  BY <1>c, <1>11
     DEF Failed, StartedAfterFailure, LeaseInv, FlagInv, Held, Turning, Served, Asking,
         NoneAssumption, TypeInv, UiFields, LoopFields, CompFields, Journals, Notes, SeenFields,
         Stages, CompSteps, States
<1>12. CASE Recover
  <2>t. /\ ui \in UiFields /\ loop \in LoopFields /\ comp \in CompFields
        /\ disk \in [Sessions -> Journals]
    BY DEF TypeInv
  <2>1. CASE /\ MayRecover(ui.session) /\ disk' = Leased(ui.session, "turn", "recover")
             /\ loop' = [loop EXCEPT !.resumes = @ + 1, !.session = ui.session]
    <3>1. ui.session \in Sessions
      BY <1>12, <2>t DEF Recover, FlagInv, Served, UiFields
    <3>2. disk'[ui.session].lease = "turn" /\ disk'[ui.session].state = "open"
          /\ \A t \in Sessions \ {ui.session} : disk'[t] = disk[t]
      BY <2>t, <2>1, <3>1, LeasedFields
    <3>3. loop'.at = "recovering" /\ loop'.session = ui.session /\ comp' = comp
      BY <1>12, <2>t, <2>1 DEF Recover, LoopFields
    <3>4. disk[ui.session].lease = None /\ ~ \E s \in Sessions : Held(s, "turn")
      BY <1>12, <2>1 DEF MayRecover, Callable, Recover
    <3>5. QED
      BY <1>n, <1>k, <3>1, <3>2, <3>3, <3>4 DEF LeaseInv, Held, Served, Asking
  <2>2. CASE loop' = [loop EXCEPT !.at = "failed"] /\ disk' = disk
    BY <1>12, <2>t, <2>2 DEF Recover, LeaseInv, Held, LoopFields
  <2>3. QED
    BY <1>12, <2>1, <2>2 DEF Recover, ToRecover
<1>13. CASE Recovered
  <2>t. /\ ui \in UiFields /\ loop \in LoopFields /\ comp \in CompFields
        /\ disk \in [Sessions -> Journals]
    BY DEF TypeInv
  <2>1. PICK s \in Sessions :
          /\ Held(s, "turn")
          /\ \E state \in {"settled", "open"} : disk' = Freed(s, state)
          /\ loop' = loop \/ loop' = [loop EXCEPT !.at = "failed"]
    BY <1>13 DEF Recovered
  <2>2. PICK state \in {"settled", "open"} : disk' = Freed(s, state)
    BY <2>1
  <2>3. disk'[s].lease = None /\ disk'[s].state = state
        /\ \A t \in Sessions \ {s} : disk'[t] = disk[t]
    BY <2>t, <2>2, FreedFields
  <2>4. loop.session = s /\ comp' = comp
    BY <1>13, <2>1 DEF LeaseInv, Recovered
  <2>5. loop' = loop \/ ~ \E r \in Sessions : disk'[r].lease = "turn"
    BY <1>n, <2>1, <2>3, <2>4 DEF LeaseInv, Held
  <2>6. comp.session # s \/ ~ Held(s, "compact")
    BY <2>1 DEF Held
  <2>7. QED
    BY <1>n, <1>k, <2>1, <2>3, <2>4, <2>5, <2>6 DEF LeaseInv, Held, Asking
<1>14. CASE Ask
  <2>t. /\ ui \in UiFields /\ loop \in LoopFields /\ comp \in CompFields
        /\ disk \in [Sessions -> Journals]
    BY DEF TypeInv
  <2>0. ui.session \in Sessions /\ comp.at = "gathering" /\ loop' = loop
    BY <1>14, <2>t DEF Ask, FlagInv, UiFields
  <2>9. ~ \E s \in Sessions : Held(s, "compact")
    BY <2>0 DEF LeaseInv, Asking
  <2>1. CASE /\ Callable(ui.session, "continue")
             /\ disk' = Leased(ui.session, "compact", "continue")
             /\ comp' = [comp EXCEPT !.at = "asking", !.session = ui.session]
    <3>1. /\ disk'[ui.session].lease = "compact" /\ disk'[ui.session].state = "open"
          /\ \A t \in Sessions \ {ui.session} : disk'[t] = disk[t]
      BY <2>t, <2>0, <2>1, LeasedFields
    <3>2. comp'.at = "asking" /\ comp'.session = ui.session
      BY <2>t, <2>1 DEF CompFields
    <3>3. QED
      BY <1>n, <2>0, <2>1, <2>9, <3>1, <3>2 DEF LeaseInv, Held, Callable, Asking
  <2>2. CASE CompactEnds /\ disk' = disk
    <3>1. comp'.at = "none"
      BY <2>t, <2>2, CompactEndsFields
    <3>2. QED
      BY <2>0, <2>2, <2>9, <3>1 DEF LeaseInv, Held
  <2>3. QED
    BY <1>14, <2>1, <2>2 DEF Ask
<1>15. CASE AskFails
  <2>t. /\ ui \in UiFields /\ loop \in LoopFields /\ comp \in CompFields
        /\ disk \in [Sessions -> Journals]
    BY DEF TypeInv
  <2>0. comp.session \in Sessions /\ Held(comp.session, "compact") /\ loop' = loop
        /\ comp.at \in Asking
    BY <1>15, <2>t DEF AskFails, FlagInv, Asking, CompFields
  <2>1. PICK state \in {"settled", "open"} : disk' = Freed(comp.session, state)
    BY <1>15 DEF AskFails
  <2>2. disk'[comp.session].lease = None /\ disk'[comp.session].state = state
        /\ \A t \in Sessions \ {comp.session} : disk'[t] = disk[t]
    BY <2>t, <2>0, <2>1, FreedFields
  <2>3. /\ \A s \in Sessions : disk'[s].lease # "compact"
        /\ \A s \in Sessions : disk'[s].lease = "turn" => disk[s].lease = "turn"
        /\ \A s \in Sessions : disk'[s].lease # None => disk'[s].state # "absent"
    BY <1>n, <2>0, <2>2 DEF LeaseInv, Held
  <2>4. comp'.at = "resuming" => comp'.resumes < MaxResumes
    BY <1>15, <2>t, CompactEndsFields DEF AskFails, CompFields
  <2>5. QED
    BY <2>0, <2>3, <2>4 DEF LeaseInv, Held
<1>16. CASE AskBreaks
  <2>t. /\ ui \in UiFields /\ loop \in LoopFields /\ comp \in CompFields
        /\ disk \in [Sessions -> Journals]
    BY DEF TypeInv
  <2>0. comp.session \in Sessions /\ Held(comp.session, "compact") /\ loop' = loop
        /\ comp.at \in Asking
    BY <1>16, <2>t DEF AskBreaks, FlagInv, Asking, CompFields
  <2>1. PICK state \in {"settled", "open"} : disk' = Freed(comp.session, state)
    BY <1>16 DEF AskBreaks
  <2>2. disk'[comp.session].lease = None /\ disk'[comp.session].state = state
        /\ \A t \in Sessions \ {comp.session} : disk'[t] = disk[t]
    BY <2>t, <2>0, <2>1, FreedFields
  <2>3. /\ \A s \in Sessions : disk'[s].lease # "compact"
        /\ \A s \in Sessions : disk'[s].lease = "turn" => disk[s].lease = "turn"
        /\ \A s \in Sessions : disk'[s].lease # None => disk'[s].state # "absent"
    BY <1>n, <2>0, <2>2 DEF LeaseInv, Held
  <2>4. comp'.at = "resuming" => comp'.resumes < MaxResumes
    BY <1>16, <2>t, CompactEndsFields DEF AskBreaks, CompFields
  <2>5. QED
    BY <2>0, <2>3, <2>4 DEF LeaseInv, Held
<1>17. CASE Resume
  <2>t. /\ ui \in UiFields /\ loop \in LoopFields /\ comp \in CompFields
        /\ disk \in [Sessions -> Journals]
    BY DEF TypeInv
  <2>0. comp.session \in Sessions /\ ~ Held(comp.session, "compact") /\ comp.at = "resuming"
    BY <1>17, <2>t DEF Resume, FlagInv, Asking, CompFields
  <2>1. CASE /\ Callable(comp.session, "recover")
             /\ disk' = Leased(comp.session, "compact", "recover")
             /\ comp' = [comp EXCEPT !.resumes = @ + 1]
    <3>1. /\ disk'[comp.session].lease = "compact" /\ disk'[comp.session].state = "open"
          /\ \A t \in Sessions \ {comp.session} : disk'[t] = disk[t]
      BY <2>t, <2>0, <2>1, LeasedFields
    <3>2. comp'.at = comp.at /\ comp'.session = comp.session /\ loop' = loop
      BY <1>17, <2>t, <2>1 DEF Resume, CompFields
    <3>3. QED
      BY <1>n, <2>0, <2>1, <3>1, <3>2 DEF LeaseInv, Held, Callable, Asking
  <2>2. CASE CompactEnds /\ disk' = disk
    <3>1. comp'.at = "none" /\ loop' = loop
      BY <1>17, <2>t, <2>2, CompactEndsFields DEF Resume
    <3>2. ~ \E s \in Sessions : Held(s, "compact")
      BY <2>0 DEF LeaseInv
    <3>3. QED
      BY <2>2, <3>1, <3>2 DEF LeaseInv, Held
  <2>3. QED
    BY <1>17, <2>1, <2>2 DEF Resume
<1>18. CASE Summarized
  <2>t. /\ ui \in UiFields /\ loop \in LoopFields /\ comp \in CompFields
        /\ disk \in [Sessions -> Journals]
    BY DEF TypeInv
  <2>0. comp.session \in Sessions /\ Held(comp.session, "compact") /\ loop' = loop
        /\ comp.at \in Asking
    BY <1>18, <2>t DEF Summarized, FlagInv, Asking, CompFields
  <2>1. PICK state \in {"settled", "open"} : disk' = Freed(comp.session, state)
    BY <1>18 DEF Summarized
  <2>2. disk'[comp.session].lease = None /\ disk'[comp.session].state = state
        /\ \A t \in Sessions \ {comp.session} : disk'[t] = disk[t]
    BY <2>t, <2>0, <2>1, FreedFields
  <2>3. /\ \A s \in Sessions : disk'[s].lease # "compact"
        /\ \A s \in Sessions : disk'[s].lease = "turn" => disk[s].lease = "turn"
        /\ \A s \in Sessions : disk'[s].lease # None => disk'[s].state # "absent"
    BY <1>n, <2>0, <2>2 DEF LeaseInv, Held
  <2>4. comp'.at = "resuming" => comp'.resumes < MaxResumes
    BY <1>18, <2>t, CompactEndsFields DEF Summarized, CompFields
  <2>5. QED
    BY <2>0, <2>3, <2>4 DEF LeaseInv, Held
<1>19. CASE Record
  <2>t. /\ ui \in UiFields /\ loop \in LoopFields /\ comp \in CompFields
        /\ disk \in [Sessions -> Journals]
    BY DEF TypeInv
  <2>1. comp'.at = "none" /\ loop' = loop
    BY <1>19, <2>t, CompactEndsFields DEF Record
  <2>2. \A s \in Sessions : disk'[s].lease = disk[s].lease /\ disk'[s].state = disk[s].state
    BY <1>19, <2>t DEF Record, Journals
  <2>3. ~ \E s \in Sessions : Held(s, "compact")
    BY <1>19 DEF LeaseInv, Record, Asking
  <2>4. QED
    BY <2>1, <2>2, <2>3 DEF LeaseInv, Held
<1>20. CASE CompactFirst
  BY <1>c, <1>20
     DEF CompactFirst, MayCompact, Compacting, LeaseInv, FlagInv, Held, Turning, Served, Asking,
         NoneAssumption, TypeInv, UiFields, LoopFields, CompFields, Journals, Notes, SeenFields,
         Stages, CompSteps, States
<1>21. CASE ShowSessions
  BY <1>c, <1>21
     DEF ShowSessions, MayShow, LeaseInv, FlagInv, Held, Turning, Served, Asking, NoneAssumption,
         TypeInv, UiFields, LoopFields, CompFields, Journals, Notes, SeenFields, Stages,
         CompSteps, States
<1>22. CASE Submit
  BY <1>c, <1>22
     DEF Submit, Queued, LeaseInv, FlagInv, Held, Turning, Served, Asking, NoneAssumption, TypeInv,
         UiFields, LoopFields, CompFields, Journals, Notes, SeenFields, Stages, CompSteps, States
<1>23. CASE AskToCompact
  BY <1>c, <1>23
     DEF AskToCompact, MayCompact, Compacting, Commanded, MayCommand, LeaseInv, FlagInv, Held,
         Turning, Served, Asking, NoneAssumption, TypeInv, UiFields, LoopFields, CompFields,
         Journals, Notes, SeenFields, Stages, CompSteps, States
<1>24. CASE ChooseEffort
  BY <1>c, <1>24
     DEF ChooseEffort, MayCompact, Commanded, MayCommand, Shown, LeaseInv, FlagInv, Held, Turning,
         Served, Asking, NoneAssumption, TypeInv, UiFields, LoopFields, CompFields, Journals,
         Notes, SeenFields, Stages, CompSteps, States
<1>25. CASE ListSessions
  BY <1>c, <1>25
     DEF ListSessions, Commanded, MayCommand, LeaseInv, FlagInv, Held, Turning, Served, Asking,
         NoneAssumption, TypeInv, UiFields, LoopFields, CompFields, Journals, Notes, SeenFields,
         Stages, CompSteps, States
<1>26. CASE Choose
  BY <1>c, <1>26
     DEF Choose, LeaseInv, FlagInv, Held, Turning, Served, Asking, NoneAssumption, TypeInv,
         UiFields, LoopFields, CompFields, Journals, Notes, SeenFields, Stages, CompSteps, States
<1>27. CASE Interrupt
  BY <1>c, <1>27
     DEF Interrupt, LeaseInv, FlagInv, Held, Turning, Served, Asking, NoneAssumption, TypeInv,
         UiFields, LoopFields, CompFields, Journals, Notes, SeenFields, Stages, CompSteps, States
<1>28. CASE RequestExit
  BY <1>c, <1>28
     DEF RequestExit, Commanded, MayCommand, LeaseInv, FlagInv, Held, Turning, Served, Asking,
         NoneAssumption, TypeInv, UiFields, LoopFields, CompFields, Journals, Notes, SeenFields,
         Stages, CompSteps, States
<1>29. CASE Sleep
  BY <1>c, <1>29
     DEF Sleep, LeaseInv, FlagInv, Held, Turning, Served, Asking, NoneAssumption, TypeInv,
         UiFields, LoopFields, CompFields, Journals, Notes, SeenFields, Stages, CompSteps, States
<1>30. QED
  BY <1>1, <1>2, <1>3, <1>4, <1>5, <1>6, <1>7, <1>8, <1>9, <1>10, <1>11, <1>12, <1>13, <1>14,
         <1>15, <1>16, <1>17, <1>18, <1>19, <1>20, <1>21, <1>22, <1>23, <1>24, <1>25, <1>26,
         <1>27, <1>28, <1>29
     DEF Next, LoopSteps, CompactSteps, UserSteps

\* No journal that is there disappears.
LEMMA NoneVanishes ==
  ASSUME TypeInv, FlagInv, Next
  PROVE  \A s \in Sessions : disk'[s].state = "absent" => disk[s].state = "absent"
<1>c. calm' = calm
  BY DEF Next
<1>1. CASE Take
  BY <1>c, <1>1 DEF Take, Taken, TypeInv, Journals
<1>2. CASE Exit
  BY <1>c, <1>2 DEF Exit, TypeInv, Journals
<1>3. CASE BeginTurn
  BY <1>c, <1>3 DEF BeginTurn, TurnMayBegin, TypeInv, Journals
<1>4. CASE PrepareFails
  BY <1>c, <1>4 DEF PrepareFails, TypeInv, Journals
<1>5. CASE PriceFails
  BY <1>c, <1>5 DEF PriceFails, NewSession, TypeInv, Journals
<1>6. CASE Call
  BY <1>c, <1>6 DEF Call, NewSession, Callable, Leased, TypeInv, Journals
<1>7. CASE Answered
  BY <1>c, <1>7 DEF Answered, Freed, Idle, Held, TypeInv, Journals
<1>8. CASE CallAgain
  BY <1>c, <1>8 DEF CallAgain, Callable, Leased, TypeInv, Journals
<1>9. CASE CallFails
  BY <1>c, <1>9 DEF CallFails, Freed, TypeInv, Journals
<1>10. CASE CallBreaks
  BY <1>c, <1>10 DEF CallBreaks, Freed, TypeInv, Journals
<1>11. CASE Failed
  BY <1>c, <1>11 DEF Failed, StartedAfterFailure, TypeInv, Journals
<1>12. CASE Recover
  BY <1>c, <1>12 DEF Recover, ToRecover, MayRecover, Callable, Leased, TypeInv, Journals
<1>13. CASE Recovered
  BY <1>c, <1>13 DEF Recovered, Freed, TypeInv, Journals
<1>14. CASE Ask
  BY <1>c, <1>14 DEF Ask, Callable, Leased, CompactEnds, TypeInv, Journals
<1>15. CASE AskFails
  BY <1>c, <1>15 DEF AskFails, Freed, CompactEnds, TypeInv, Journals
<1>16. CASE AskBreaks
  BY <1>c, <1>16 DEF AskBreaks, Freed, CompactEnds, TypeInv, Journals
<1>17. CASE Resume
  BY <1>c, <1>17 DEF Resume, Callable, Leased, CompactEnds, TypeInv, Journals
<1>18. CASE Summarized
  BY <1>c, <1>18 DEF Summarized, Freed, CompactEnds, TypeInv, Journals
<1>19. CASE Record
  BY <1>c, <1>19 DEF Record, RecordedEffort, CompactEnds, TypeInv, Journals
<1>20. CASE CompactFirst
  BY <1>c, <1>20 DEF CompactFirst, MayCompact, Compacting, TypeInv, Journals
<1>21. CASE ShowSessions
  BY <1>c, <1>21 DEF ShowSessions, MayShow, TypeInv, Journals
<1>22. CASE Submit
  BY <1>c, <1>22 DEF Submit, Queued, TypeInv, Journals
<1>23. CASE AskToCompact
  BY <1>c, <1>23 DEF AskToCompact, MayCompact, Compacting, Commanded, MayCommand, TypeInv, Journals
<1>24. CASE ChooseEffort
  BY <1>c, <1>24 DEF ChooseEffort, MayCompact, Commanded, MayCommand, Shown, TypeInv, Journals
<1>25. CASE ListSessions
  BY <1>c, <1>25 DEF ListSessions, Commanded, MayCommand, TypeInv, Journals
<1>26. CASE Choose
  BY <1>c, <1>26 DEF Choose, TypeInv, Journals
<1>27. CASE Interrupt
  BY <1>c, <1>27 DEF Interrupt, TypeInv, Journals
<1>28. CASE RequestExit
  BY <1>c, <1>28 DEF RequestExit, Commanded, MayCommand, TypeInv, Journals
<1>29. CASE Sleep
  BY <1>c, <1>29 DEF Sleep, TypeInv, Journals
<1>30. QED
  BY <1>1, <1>2, <1>3, <1>4, <1>5, <1>6, <1>7, <1>8, <1>9, <1>10, <1>11, <1>12, <1>13, <1>14,
         <1>15, <1>16, <1>17, <1>18, <1>19, <1>20, <1>21, <1>22, <1>23, <1>24, <1>25, <1>26,
         <1>27, <1>28, <1>29
     DEF Next, LoopSteps, CompactSteps, UserSteps

\* The flags change with what they stand for.
LEMMA FlagKept ==
  ASSUME NoneAssumption, TypeInv, FlagInv, LeaseInv, Next
  PROVE  FlagInv'
<1>c. calm' = calm
  BY DEF Next
<1>n. None \notin Sessions
  BY DEF NoneAssumption
<1>v. \A s \in Sessions : disk'[s].state = "absent" => disk[s].state = "absent"
  BY NoneVanishes
<1>b. /\ ui.running \in BOOLEAN /\ ui.compacting \in BOOLEAN /\ comp.byLoop \in BOOLEAN
      /\ ui.offered \subseteq Sessions
  BY DEF TypeInv, UiFields, CompFields
<1>1. CASE Take
  BY <1>c, <1>1
     DEF Take, Taken, FlagInv, Held, Turning, Served, Asking, NoneAssumption, TypeInv, UiFields,
         LoopFields, CompFields, Journals, Notes, SeenFields, Stages, CompSteps, States
<1>2. CASE Exit
  BY <1>c, <1>2
     DEF Exit, FlagInv, Held, Turning, Served, Asking, NoneAssumption, TypeInv, UiFields,
         LoopFields, CompFields, Journals, Notes, SeenFields, Stages, CompSteps, States
<1>3. CASE BeginTurn
  BY <1>c, <1>3
     DEF BeginTurn, TurnMayBegin, FlagInv, Held, Turning, Served, Asking, NoneAssumption, TypeInv,
         UiFields, LoopFields, CompFields, Journals, Notes, SeenFields, Stages, CompSteps, States
<1>4. CASE PrepareFails
  BY <1>c, <1>4
     DEF PrepareFails, FlagInv, Held, Turning, Served, Asking, NoneAssumption, TypeInv, UiFields,
         LoopFields, CompFields, Journals, Notes, SeenFields, Stages, CompSteps, States
<1>5. CASE PriceFails
  BY <1>c, <1>5
     DEF PriceFails, NewSession, FlagInv, Held, Turning, Served, Asking, NoneAssumption, TypeInv,
         UiFields, LoopFields, CompFields, Journals, Notes, SeenFields, Stages, CompSteps, States
<1>6. CASE Call
  <2>t. /\ ui \in UiFields /\ loop \in LoopFields /\ comp \in CompFields
        /\ disk \in [Sessions -> Journals]
    BY DEF TypeInv
  <2>1. PICK s \in Sessions :
          /\ ui' = [ui EXCEPT !.session = s]
          /\ \/ loop' = [loop EXCEPT !.at = "calling", !.session = s, !.calls = 1]
             \/ loop' = [loop EXCEPT !.at = "failed", !.session = s]
    BY <1>6 DEF Call
  <2>f. /\ ui'.compacting = ui.compacting /\ ui'.picker = ui.picker
        /\ ui'.offered = ui.offered /\ comp' = comp /\ ui'.session \in Sessions
        /\ ui'.started = ui.started /\ ui'.running = ui.running /\ loop.at = "preparing"
        /\ loop'.at \in {"calling", "failed"} /\ loop'.session = ui'.session
    BY <1>6, <2>t, <2>1 DEF Call, UiFields, LoopFields
  <2>q. QED
    BY <2>f, <1>v, <1>n, <1>b DEF FlagInv, Turning, Served, Asking
<1>7. CASE Answered
  <2>t. /\ ui \in UiFields /\ loop \in LoopFields /\ comp \in CompFields
        /\ disk \in [Sessions -> Journals]
    BY DEF TypeInv
  <2>f. /\ ui'.session = ui.session /\ ui'.compacting = ui.compacting
        /\ ui'.picker = ui.picker /\ ui'.offered = ui.offered /\ comp' = comp
        /\ ui'.started = TRUE /\ loop.at = "calling"
        /\ \/ loop'.at = "idle" /\ ui'.running = FALSE
           \/ ui'.running = ui.running /\ loop'.at = "calling" /\ loop'.session = loop.session
    BY <1>7, <2>t DEF Answered, Freed, Idle, Held, UiFields, LoopFields, CompFields
  <2>q. QED
    BY <2>f, <1>v, <1>n, <1>b DEF FlagInv, Turning, Served, Asking
<1>8. CASE CallAgain
  BY <1>c, <1>8
     DEF CallAgain, Callable, Leased, FlagInv, Held, Turning, Served, Asking, NoneAssumption,
         TypeInv, UiFields, LoopFields, CompFields, Journals, Notes, SeenFields, Stages,
         CompSteps, States
<1>9. CASE CallFails
  BY <1>c, <1>9
     DEF CallFails, Freed, FlagInv, Held, Turning, Served, Asking, NoneAssumption, TypeInv,
         UiFields, LoopFields, CompFields, Journals, Notes, SeenFields, Stages, CompSteps, States
<1>10. CASE CallBreaks
  <2>t. /\ ui \in UiFields /\ loop \in LoopFields /\ comp \in CompFields
        /\ disk \in [Sessions -> Journals]
    BY DEF TypeInv
  <2>f. /\ ui'.session = ui.session /\ ui'.compacting = ui.compacting
        /\ ui'.picker = ui.picker /\ ui'.offered = ui.offered /\ comp' = comp
        /\ ui'.started = TRUE /\ loop.at = "calling"
        /\ \/ loop'.at = "crashed" /\ ui'.running = FALSE
           \/ /\ ui'.running = ui.running /\ loop'.at \in {"failed", "recovering"}
              /\ loop'.session = loop.session
    BY <1>10, <2>t DEF CallBreaks, Freed, UiFields, LoopFields, CompFields
  <2>q. QED
    BY <2>f, <1>v, <1>n, <1>b DEF FlagInv, Turning, Served, Asking
<1>11. CASE Failed
  BY <1>c, <1>11
     DEF Failed, StartedAfterFailure, FlagInv, Held, Turning, Served, Asking, NoneAssumption,
         TypeInv, UiFields, LoopFields, CompFields, Journals, Notes, SeenFields, Stages,
         CompSteps, States
<1>12. CASE Recover
  <2>t. /\ ui \in UiFields /\ loop \in LoopFields /\ comp \in CompFields
        /\ disk \in [Sessions -> Journals]
    BY DEF TypeInv
  <2>f. /\ ui'.session = ui.session /\ ui'.compacting = ui.compacting
        /\ ui'.picker = ui.picker /\ ui'.offered = ui.offered /\ comp' = comp
        /\ ui'.started = ui.started /\ ui'.running = ui.running /\ loop.at = "recovering"
        /\ \/ loop'.at = "recovering" /\ loop'.session = ui.session
           \/ loop'.at = "failed"
    BY <1>12, <2>t
       DEF Recover, ToRecover, MayRecover, Callable, Leased, UiFields, LoopFields, CompFields
  <2>q. QED
    BY <2>f, <1>v, <1>n, <1>b DEF FlagInv, Turning, Served, Asking
<1>13. CASE Recovered
  <2>t. /\ ui \in UiFields /\ loop \in LoopFields /\ comp \in CompFields
        /\ disk \in [Sessions -> Journals]
    BY DEF TypeInv
  <2>f. /\ ui'.session = ui.session /\ ui'.compacting = ui.compacting
        /\ ui'.picker = ui.picker /\ ui'.offered = ui.offered /\ comp' = comp
        /\ ui'.started = ui.started /\ ui'.running = ui.running /\ loop.at = "recovering"
        /\ \/ loop'.at = "recovering" /\ loop'.session = loop.session
           \/ loop'.at = "failed"
    BY <1>13, <2>t DEF Recovered, Freed, UiFields, LoopFields, CompFields
  <2>q. QED
    BY <2>f, <1>v, <1>n, <1>b DEF FlagInv, Turning, Served, Asking
<1>14. CASE Ask
  <2>t. /\ ui \in UiFields /\ loop \in LoopFields /\ comp \in CompFields
        /\ disk \in [Sessions -> Journals]
    BY DEF TypeInv
  <2>0. comp.at = "gathering" /\ ui.compacting = TRUE
    BY <1>14, <1>b DEF Ask, FlagInv
  <2>f. /\ ui'.session = ui.session /\ ui'.started = ui.started /\ ui'.running = ui.running
        /\ ui'.picker = ui.picker /\ ui'.offered = ui.offered /\ loop' = loop
        /\ \/ /\ ui'.compacting = TRUE /\ comp'.at = "asking" /\ comp'.session = ui.session
              /\ comp'.byLoop = comp.byLoop /\ comp.at = "gathering"
           \/ ui'.compacting = FALSE /\ comp'.at = "none" /\ comp'.byLoop = FALSE
    <3>1. CASE /\ comp' = [comp EXCEPT !.at = "asking", !.session = ui.session]
               /\ ui' = [ui EXCEPT !.controller = "compact", !.aborted = @ \ {"compact"}]
      BY <1>14, <2>t, <2>0, <3>1 DEF Ask, CompFields, UiFields
    <3>2. CASE CompactEnds
      BY <1>14, <2>t, <3>2, CompactEndsFields DEF Ask
    <3>3. QED
      BY <1>14, <3>1, <3>2 DEF Ask
  <2>q. QED
    BY <2>f, <1>v, <1>n, <1>b DEF FlagInv, Turning, Served, Asking
<1>15. CASE AskFails
  BY <1>c, <1>15
     DEF AskFails, Freed, CompactEnds, FlagInv, Held, Turning, Served, Asking, NoneAssumption,
         TypeInv, UiFields, LoopFields, CompFields, Journals, Notes, SeenFields, Stages,
         CompSteps, States
<1>16. CASE AskBreaks
  <2>t. /\ ui \in UiFields /\ loop \in LoopFields /\ comp \in CompFields
        /\ disk \in [Sessions -> Journals]
    BY DEF TypeInv
  <2>f. /\ ui'.session = ui.session /\ ui'.started = ui.started /\ ui'.running = ui.running
        /\ ui'.picker = ui.picker /\ ui'.offered = ui.offered /\ loop' = loop
        /\ \/ /\ ui'.compacting = ui.compacting /\ comp'.at = "resuming" /\ comp'.session = comp.session
              /\ comp'.byLoop = comp.byLoop /\ comp.at \in Asking
           \/ ui'.compacting = FALSE /\ comp'.at = "none" /\ comp'.byLoop = FALSE
    BY <1>16, <2>t DEF AskBreaks, Freed, CompactEnds, UiFields, LoopFields, CompFields, Asking
  <2>q. QED
    BY <2>f, <1>v, <1>n, <1>b DEF FlagInv, Turning, Served, Asking
<1>17. CASE Resume
  <2>t. /\ ui \in UiFields /\ loop \in LoopFields /\ comp \in CompFields
        /\ disk \in [Sessions -> Journals]
    BY DEF TypeInv
  <2>0. comp.at = "resuming" /\ ui.compacting = TRUE
    BY <1>17, <1>b DEF Resume, FlagInv
  <2>f. /\ ui'.session = ui.session /\ ui'.started = ui.started /\ ui'.running = ui.running
        /\ ui'.picker = ui.picker /\ ui'.offered = ui.offered /\ loop' = loop
        /\ \/ /\ ui'.compacting = TRUE /\ comp'.at = "resuming" /\ comp'.session = comp.session
              /\ comp'.byLoop = comp.byLoop /\ comp.at = "resuming"
           \/ ui'.compacting = FALSE /\ comp'.at = "none" /\ comp'.byLoop = FALSE
    <3>1. CASE comp' = [comp EXCEPT !.resumes = @ + 1] /\ ui' = ui
      BY <1>17, <2>t, <2>0, <3>1 DEF Resume, CompFields
    <3>2. CASE CompactEnds
      BY <1>17, <2>t, <3>2, CompactEndsFields DEF Resume
    <3>3. QED
      BY <1>17, <3>1, <3>2 DEF Resume
  <2>q. QED
    BY <2>f, <1>v, <1>n, <1>b DEF FlagInv, Turning, Served, Asking
<1>18. CASE Summarized
  <2>t. /\ ui \in UiFields /\ loop \in LoopFields /\ comp \in CompFields
        /\ disk \in [Sessions -> Journals]
    BY DEF TypeInv
  <2>f. /\ ui'.session = ui.session /\ ui'.started = ui.started /\ ui'.running = ui.running
        /\ ui'.picker = ui.picker /\ ui'.offered = ui.offered /\ loop' = loop
        /\ \/ /\ ui'.compacting = ui.compacting /\ comp'.at = "recording" /\ comp'.session = comp.session
              /\ comp'.byLoop = comp.byLoop /\ comp.at \in Asking
           \/ ui'.compacting = FALSE /\ comp'.at = "none" /\ comp'.byLoop = FALSE
    BY <1>18, <2>t DEF Summarized, Freed, CompactEnds, UiFields, LoopFields, CompFields, Asking
  <2>q. QED
    BY <2>f, <1>v, <1>n, <1>b DEF FlagInv, Turning, Served, Asking
<1>19. CASE Record
  <2>t. /\ ui \in UiFields /\ loop \in LoopFields /\ comp \in CompFields
        /\ disk \in [Sessions -> Journals]
    BY DEF TypeInv
  <2>f. /\ ui'.session = ui.session /\ ui'.started = ui.started /\ ui'.running = ui.running
        /\ ui'.picker = ui.picker /\ ui'.offered = ui.offered /\ loop' = loop
        /\ ui'.compacting = FALSE /\ comp'.at = "none" /\ comp'.byLoop = FALSE
    BY <1>19, <2>t DEF Record, RecordedEffort, CompactEnds, UiFields, LoopFields, CompFields
  <2>q. QED
    BY <2>f, <1>v, <1>n, <1>b DEF FlagInv, Turning, Served, Asking
<1>20. CASE CompactFirst
  BY <1>c, <1>20
     DEF CompactFirst, MayCompact, Compacting, FlagInv, Held, Turning, Served, Asking,
         NoneAssumption, TypeInv, UiFields, LoopFields, CompFields, Journals, Notes, SeenFields,
         Stages, CompSteps, States
<1>21. CASE ShowSessions
  BY <1>c, <1>21
     DEF ShowSessions, MayShow, FlagInv, Held, Turning, Served, Asking, NoneAssumption, TypeInv,
         UiFields, LoopFields, CompFields, Journals, Notes, SeenFields, Stages, CompSteps, States
<1>22. CASE Submit
  BY <1>c, <1>22
     DEF Submit, Queued, FlagInv, Held, Turning, Served, Asking, NoneAssumption, TypeInv, UiFields,
         LoopFields, CompFields, Journals, Notes, SeenFields, Stages, CompSteps, States
<1>23. CASE AskToCompact
  BY <1>c, <1>23
     DEF AskToCompact, MayCompact, Compacting, Commanded, MayCommand, FlagInv, Held, Turning,
         Served, Asking, NoneAssumption, TypeInv, UiFields, LoopFields, CompFields, Journals,
         Notes, SeenFields, Stages, CompSteps, States
<1>24. CASE ChooseEffort
  <2>t. /\ ui \in UiFields /\ loop \in LoopFields /\ comp \in CompFields
        /\ disk \in [Sessions -> Journals]
    BY DEF TypeInv
  <2>1. PICK e \in Efforts :
          \/ /\ MayCompact
             /\ ui' = [ui EXCEPT !.effort = e, !.compacting = TRUE]
             /\ comp' = [at |-> "gathering", session |-> None, effort |-> e, resumes |-> 0,
                          byLoop |-> FALSE]
          \/ ui' = [ui EXCEPT !.effort = e] /\ comp' = comp
    BY <1>24 DEF ChooseEffort
  <2>f. /\ ui'.session = ui.session /\ ui'.started = ui.started /\ ui'.running = ui.running
        /\ ui'.picker = ui.picker /\ ui'.offered = ui.offered /\ loop' = loop /\ disk' = disk
        /\ \/ /\ ui'.compacting = TRUE /\ comp'.at = "gathering"
              /\ comp'.byLoop = FALSE /\ ui.session # None
           \/ ui'.compacting = ui.compacting /\ comp' = comp
    <3>1. CASE /\ MayCompact
               /\ ui' = [ui EXCEPT !.effort = e, !.compacting = TRUE]
               /\ comp' = [at |-> "gathering", session |-> None, effort |-> e, resumes |-> 0,
                            byLoop |-> FALSE]
      BY <1>24, <2>t, <3>1 DEF ChooseEffort, MayCompact, UiFields
    <3>2. CASE ui' = [ui EXCEPT !.effort = e] /\ comp' = comp
      BY <1>24, <2>t, <3>2 DEF ChooseEffort, UiFields
    <3>3. QED
      BY <2>1, <3>1, <3>2
  <2>q. QED
    BY <2>f, <1>v, <1>n, <1>b DEF FlagInv, Turning, Served, Asking
<1>25. CASE ListSessions
  BY <1>c, <1>25
     DEF ListSessions, Commanded, MayCommand, FlagInv, Held, Turning, Served, Asking,
         NoneAssumption, TypeInv, UiFields, LoopFields, CompFields, Journals, Notes, SeenFields,
         Stages, CompSteps, States
<1>26. CASE Choose
  <2>t. /\ ui \in UiFields /\ loop \in LoopFields /\ comp \in CompFields
        /\ disk \in [Sessions -> Journals]
    BY DEF TypeInv
  <2>f. /\ ui'.picker = FALSE /\ ui'.offered = {}
        /\ ui'.running = ui.running /\ ui'.compacting = ui.compacting
        /\ comp' = comp /\ loop' = loop
        /\ \/ ui'.session = ui.session /\ ui'.started = ui.started
           \/ ui'.session \in ui.offered
    BY <1>26, <2>t DEF Choose, UiFields, LoopFields, CompFields
  <2>n. None \notin ui.offered
    BY <2>t, <1>n DEF UiFields
  <2>q. QED
    BY <2>f, <2>n, <1>v, <1>n, <1>b DEF FlagInv, Turning, Served, Asking
<1>27. CASE Interrupt
  BY <1>c, <1>27
     DEF Interrupt, FlagInv, Held, Turning, Served, Asking, NoneAssumption, TypeInv, UiFields,
         LoopFields, CompFields, Journals, Notes, SeenFields, Stages, CompSteps, States
<1>28. CASE RequestExit
  BY <1>c, <1>28
     DEF RequestExit, Commanded, MayCommand, FlagInv, Held, Turning, Served, Asking,
         NoneAssumption, TypeInv, UiFields, LoopFields, CompFields, Journals, Notes, SeenFields,
         Stages, CompSteps, States
<1>29. CASE Sleep
  BY <1>c, <1>29
     DEF Sleep, FlagInv, Held, Turning, Served, Asking, NoneAssumption, TypeInv, UiFields,
         LoopFields, CompFields, Journals, Notes, SeenFields, Stages, CompSteps, States
<1>30. QED
  BY <1>1, <1>2, <1>3, <1>4, <1>5, <1>6, <1>7, <1>8, <1>9, <1>10, <1>11, <1>12, <1>13, <1>14,
         <1>15, <1>16, <1>17, <1>18, <1>19, <1>20, <1>21, <1>22, <1>23, <1>24, <1>25, <1>26,
         <1>27, <1>28, <1>29
     DEF Next, LoopSteps, CompactSteps, UserSteps

\* Messages are numbers.
LEMMA SeqOfNat ==
  Seq(1..MaxMessages) \subseteq Seq(Nat)
<1>1. SUFFICES ASSUME NEW q \in Seq(1..MaxMessages) PROVE q \in Seq(Nat)
  OBVIOUS
<1>2. q \in [1..Len(q) -> 1..MaxMessages] /\ Len(q) \in Nat
  BY <1>1, LenProperties
<1>3. 1..MaxMessages \subseteq Nat
  OBVIOUS
<1>4. q \in [1..Len(q) -> Nat]
  BY <1>2, <1>3
<1>5. QED
  BY <1>2, <1>4, SeqDef

\* What a sequence holds when something is appended,
LEMMA ElementsOfAppend ==
  ASSUME NEW S, NEW q \in Seq(S), NEW e \in S
  PROVE  Elements(Append(q, e)) = Elements(q) \cup {e}
<1> DEFINE t == Append(q, e)
           n == Len(q)
<1>1. /\ n \in Nat /\ DOMAIN q = 1..n /\ DOMAIN t = 1..(n + 1)
      /\ t[n + 1] = e /\ \A k \in 1..n : t[k] = q[k]
  BY AppendProperties, LenProperties
<1> HIDE DEF t, n
<1>2. Elements(t) \subseteq Elements(q) \cup {e}
  BY <1>1 DEF Elements
<1>3. e \in Elements(t) /\ Elements(q) \subseteq Elements(t)
  BY <1>1 DEF Elements
<1>4. Elements(t) = Elements(q) \cup {e}
  BY <1>2, <1>3
<1>5. QED
  BY <1>4 DEF t

\* whether it still increases,
LEMMA IncreasingAppend ==
  ASSUME NEW q \in Seq(Nat), NEW e \in Nat, Increasing(q), \A a \in Elements(q) : a < e
  PROVE  Increasing(Append(q, e))
<1> DEFINE t == Append(q, e)
           n == Len(q)
<1>1. /\ n \in Nat /\ DOMAIN q = 1..n /\ DOMAIN t = 1..(n + 1)
      /\ t[n + 1] = e /\ \A k \in 1..n : t[k] = q[k]
  BY AppendProperties, LenProperties
<1> HIDE DEF t, n
<1>2. SUFFICES ASSUME NEW a \in 1..(n + 1), NEW b \in 1..(n + 1), a < b
               PROVE  t[a] < t[b]
  BY <1>1 DEF Increasing, t
<1>3. a \in 1..n
  BY <1>1, <1>2
<1>4. CASE b = n + 1
  BY <1>1, <1>3, <1>4 DEF Elements
<1>5. CASE b # n + 1
  <2>1. b \in 1..n
    BY <1>1, <1>5
  <2>2. QED
    BY <1>1, <1>2, <1>3, <2>1 DEF Increasing
<1>6. QED
  BY <1>4, <1>5

\* what it holds without its head,
LEMMA ElementsOfTail ==
  ASSUME NEW S, NEW q \in Seq(S), q # << >>
  PROVE  Elements(q) = {Head(q)} \cup Elements(Tail(q))
<1> DEFINE t == Tail(q)
           m == Len(q) - 1
<1>1. /\ m \in Nat /\ DOMAIN q = 1..(m + 1) /\ Head(q) = q[1] /\ DOMAIN t = 1..m
      /\ \A k \in 1..m : t[k] = q[k + 1]
  BY HeadTailProperties, LenProperties, EmptySeq
<1> DEFINE h == Head(q)
<1>0. h = q[1]
  BY <1>1
<1> HIDE DEF t, m, h
<1>2. h \in Elements(q) /\ Elements(t) \subseteq Elements(q)
  BY <1>0, <1>1 DEF Elements
<1>3. ASSUME NEW k \in 1..(m + 1)
      PROVE  q[k] \in {h} \cup Elements(t)
  <2>1. CASE k = 1
    BY <1>0, <2>1
  <2>2. CASE k # 1
    <3>1. k - 1 \in 1..m /\ t[k - 1] = q[k]
      BY <1>1, <2>2
    <3>2. QED
      BY <1>1, <3>1 DEF Elements
  <2>3. QED
    BY <2>1, <2>2
<1>4. Elements(q) = {h} \cup Elements(t)
  BY <1>1, <1>2, <1>3 DEF Elements
<1>5. QED
  BY <1>4 DEF t, h

\* and that its head comes before the rest.
LEMMA IncreasingTail ==
  ASSUME NEW q \in Seq(Nat), q # << >>, Increasing(q)
  PROVE  Increasing(Tail(q)) /\ \A b \in Elements(Tail(q)) : Head(q) < b
<1> DEFINE t == Tail(q)
           m == Len(q) - 1
<1>1. /\ m \in Nat /\ DOMAIN q = 1..(m + 1) /\ Head(q) = q[1] /\ DOMAIN t = 1..m
      /\ \A k \in 1..m : t[k] = q[k + 1]
  BY HeadTailProperties, LenProperties, EmptySeq
<1> HIDE DEF t, m
<1>2. \A a, b \in 1..m : a + 1 \in 1..(m + 1) /\ 1 \in 1..(m + 1) /\ 1 < a + 1
                         /\ (a < b => a + 1 < b + 1)
  BY <1>1
<1>3. Increasing(t)
  BY <1>1, <1>2 DEF Increasing
<1>4. \A b \in Elements(t) : q[1] < b
  BY <1>1, <1>2 DEF Increasing, Elements
<1>5. QED
  BY <1>1, <1>3, <1>4 DEF t

\* What waits has not been sent.
LEMMA NotSentYet ==
  ASSUME MessageInv, ui.queue \in Seq(Nat), seen.sent \in Seq(Nat)
  PROVE  Elements(seen.sent) \cap Elements(ui.queue) = {}
<1>1. Elements(seen.sent) \subseteq Nat
  BY ElementOfSeq, LenProperties DEF Elements
<1>2. QED
  BY <1>1 DEF MessageInv

\* The loop takes the first message that waits,
LEMMA TakingKeeps ==
  ASSUME MessageInv, ui.queue \in Seq(Nat), seen.sent \in Seq(Nat),
         ui.queue # << >>, ui'.queue = Tail(ui.queue),
         seen'.sent = Append(seen.sent, Head(ui.queue)), seen'.cleared = seen.cleared,
         seen'.submitted = seen.submitted
  PROVE  MessageInv'
<1> DEFINE h == Head(ui.queue)
<1>1. /\ Increasing(seen.sent) /\ Increasing(ui.queue)
      /\ \A a \in Elements(seen.sent), b \in Elements(ui.queue) : a < b
      /\ Elements(seen.sent) \cup Elements(ui.queue) \cup seen.cleared = 1..seen.submitted
      /\ seen.cleared \cap (Elements(seen.sent) \cup Elements(ui.queue)) = {}
  BY DEF MessageInv
<1>2. h \in Nat
  BY HeadTailProperties
<1>3. Elements(ui.queue) = {h} \cup Elements(ui'.queue)
  BY ElementsOfTail
<1>4. Elements(seen'.sent) = Elements(seen.sent) \cup {h}
  BY <1>2, ElementsOfAppend
<1>5. Increasing(ui'.queue) /\ \A b \in Elements(ui'.queue) : h < b
  BY <1>1, IncreasingTail
<1>6. Increasing(seen'.sent)
  BY <1>1, <1>2, <1>3, IncreasingAppend
<1> HIDE DEF h
<1>7. \A a \in Elements(seen'.sent), b \in Elements(ui'.queue) : a < b
  BY <1>1, <1>3, <1>4, <1>5
<1>8. Elements(seen'.sent) \cup Elements(ui'.queue) \cup seen'.cleared = 1..seen'.submitted
  BY <1>1, <1>3, <1>4
<1>9. seen'.cleared \cap (Elements(seen'.sent) \cup Elements(ui'.queue)) = {}
  BY <1>1, <1>3, <1>4
<1>10. QED
  BY <1>5, <1>6, <1>7, <1>8, <1>9 DEF MessageInv

\* the user types one more,
LEMMA SubmittingKeeps ==
  ASSUME MessageInv, ui.queue \in Seq(Nat), seen.submitted \in Nat,
         ui'.queue = Append(ui.queue, seen.submitted + 1),
         seen'.sent = seen.sent, seen'.cleared = seen.cleared,
         seen'.submitted = seen.submitted + 1
  PROVE  MessageInv'
<1> DEFINE n == seen.submitted
<1>1. /\ Increasing(seen.sent) /\ Increasing(ui.queue)
      /\ \A a \in Elements(seen.sent), b \in Elements(ui.queue) : a < b
      /\ Elements(seen.sent) \cup Elements(ui.queue) \cup seen.cleared = 1..n
      /\ seen.cleared \cap (Elements(seen.sent) \cup Elements(ui.queue)) = {}
  BY DEF MessageInv
<1>2. n + 1 \in Nat /\ 1..(n + 1) = (1..n) \cup {n + 1} /\ n + 1 \notin 1..n
      /\ \A a \in 1..n : a < n + 1
  OBVIOUS
<1>3. Elements(ui'.queue) = Elements(ui.queue) \cup {n + 1}
  BY <1>2, ElementsOfAppend
<1>4. Increasing(ui'.queue)
  BY <1>1, <1>2, IncreasingAppend
<1> HIDE DEF n
<1>5. \A a \in Elements(seen'.sent), b \in Elements(ui'.queue) : a < b
  BY <1>1, <1>2, <1>3
<1>6. Elements(seen'.sent) \cup Elements(ui'.queue) \cup seen'.cleared = 1..(n + 1)
  BY <1>1, <1>2, <1>3
<1>7. seen'.cleared \cap (Elements(seen'.sent) \cup Elements(ui'.queue)) = {}
  BY <1>1, <1>2, <1>3
<1>8. Increasing(seen'.sent)
  BY <1>1
<1>9. QED
  BY <1>4, <1>5, <1>6, <1>7, <1>8 DEF MessageInv, n

\* and Ctrl-C drops those that wait.
LEMMA DroppingKeeps ==
  ASSUME MessageInv, Elements(ui'.queue) = {}, Increasing(ui'.queue),
         seen'.sent = seen.sent, Elements(seen'.sent) = Elements(seen.sent),
         seen'.submitted = seen.submitted, seen'.cleared = seen.cleared \cup Elements(ui.queue),
         Elements(seen.sent) \cap Elements(ui.queue) = {}
  PROVE  MessageInv'
<1>1. /\ Increasing(seen.sent) /\ Increasing(ui.queue)
      /\ Elements(seen.sent) \cup Elements(ui.queue) \cup seen.cleared = 1..seen.submitted
      /\ seen.cleared \cap (Elements(seen.sent) \cup Elements(ui.queue)) = {}
  BY DEF MessageInv
<1>2. /\ Elements(seen'.sent) \cup Elements(ui'.queue) \cup seen'.cleared = 1..seen'.submitted
      /\ seen'.cleared \cap (Elements(seen'.sent) \cup Elements(ui'.queue)) = {}
  BY <1>1
<1>3. Increasing(seen'.sent)
  BY <1>1
<1>4. QED
  BY <1>2, <1>3 DEF MessageInv

\* No step loses a message, sends one twice or out of order.
LEMMA MessageKept ==
  ASSUME BoundsAssumption, TypeInv, MessageInv, Next
  PROVE  MessageInv'
<1>c. calm' = calm
  BY DEF Next
<1>u. ui \in UiFields
  BY DEF TypeInv
<1>e. seen \in SeenFields
  BY DEF TypeInv
<1>b. MaxMessages \in Nat
  BY DEF BoundsAssumption
<1>1. CASE Take
  <2>t. ui \in UiFields /\ seen \in SeenFields /\ ui.queue \in Seq(Nat)
        /\ seen.sent \in Seq(Nat) /\ seen.submitted \in Nat
    BY <1>e, <1>u, <1>b, SeqOfNat DEF UiFields, SeenFields
  <2>1. /\ ui'.queue = Tail(ui.queue) /\ seen'.sent = Append(seen.sent, Head(ui.queue))
        /\ seen'.cleared = seen.cleared /\ seen'.submitted = seen.submitted
        /\ ui.queue # << >>
    BY <1>1, <2>t DEF Take, Taken, UiFields, SeenFields
  <2>2. QED
    BY <1>b, <2>t, <2>1, TakingKeeps
<1>2. CASE Exit
  BY <1>2 DEF Exit, MessageInv
<1>3. CASE BeginTurn
  <2>1. /\ ui'.queue = ui.queue /\ seen'.sent = seen.sent
        /\ seen'.cleared = seen.cleared /\ seen'.submitted = seen.submitted
    BY <1>3, <1>u, <1>e DEF BeginTurn, TurnMayBegin, UiFields
  <2>2. QED
    BY <2>1 DEF MessageInv
<1>4. CASE PrepareFails
  BY <1>4 DEF PrepareFails, MessageInv
<1>5. CASE PriceFails
  <2>1. /\ ui'.queue = ui.queue /\ seen'.sent = seen.sent
        /\ seen'.cleared = seen.cleared /\ seen'.submitted = seen.submitted
    BY <1>5, <1>u, <1>e DEF PriceFails, NewSession, UiFields
  <2>2. QED
    BY <2>1 DEF MessageInv
<1>6. CASE Call
  <2>1. /\ ui'.queue = ui.queue /\ seen'.sent = seen.sent
        /\ seen'.cleared = seen.cleared /\ seen'.submitted = seen.submitted
    BY <1>6, <1>u, <1>e DEF Call, NewSession, Callable, Leased, UiFields
  <2>2. QED
    BY <2>1 DEF MessageInv
<1>7. CASE Answered
  <2>1. /\ ui'.queue = ui.queue /\ seen'.sent = seen.sent
        /\ seen'.cleared = seen.cleared /\ seen'.submitted = seen.submitted
    BY <1>7, <1>u, <1>e DEF Answered, Freed, Idle, Held, UiFields
  <2>2. QED
    BY <2>1 DEF MessageInv
<1>8. CASE CallAgain
  BY <1>8 DEF CallAgain, MessageInv
<1>9. CASE CallFails
  BY <1>9 DEF CallFails, MessageInv
<1>10. CASE CallBreaks
  <2>1. /\ ui'.queue = ui.queue /\ seen'.sent = seen.sent
        /\ seen'.cleared = seen.cleared /\ seen'.submitted = seen.submitted
    BY <1>10, <1>u, <1>e DEF CallBreaks, Freed, UiFields
  <2>2. QED
    BY <2>1 DEF MessageInv
<1>11. CASE Failed
  <2>1. /\ ui'.queue = ui.queue /\ seen'.sent = seen.sent
        /\ seen'.cleared = seen.cleared /\ seen'.submitted = seen.submitted
    BY <1>11, <1>u, <1>e DEF Failed, StartedAfterFailure, UiFields
  <2>2. QED
    BY <2>1 DEF MessageInv
<1>12. CASE Recover
  BY <1>12 DEF Recover, MessageInv
<1>13. CASE Recovered
  BY <1>13 DEF Recovered, MessageInv
<1>14. CASE Ask
  <2>1. /\ ui'.queue = ui.queue /\ seen'.sent = seen.sent
        /\ seen'.cleared = seen.cleared /\ seen'.submitted = seen.submitted
    BY <1>14, <1>u, <1>e DEF Ask, Callable, Leased, CompactEnds, UiFields
  <2>2. QED
    BY <2>1 DEF MessageInv
<1>15. CASE AskFails
  <2>1. /\ ui'.queue = ui.queue /\ seen'.sent = seen.sent
        /\ seen'.cleared = seen.cleared /\ seen'.submitted = seen.submitted
    BY <1>15, <1>u, <1>e DEF AskFails, Freed, CompactEnds, UiFields
  <2>2. QED
    BY <2>1 DEF MessageInv
<1>16. CASE AskBreaks
  <2>1. /\ ui'.queue = ui.queue /\ seen'.sent = seen.sent
        /\ seen'.cleared = seen.cleared /\ seen'.submitted = seen.submitted
    BY <1>16, <1>u, <1>e DEF AskBreaks, Freed, CompactEnds, UiFields
  <2>2. QED
    BY <2>1 DEF MessageInv
<1>17. CASE Resume
  <2>1. /\ ui'.queue = ui.queue /\ seen'.sent = seen.sent
        /\ seen'.cleared = seen.cleared /\ seen'.submitted = seen.submitted
    BY <1>17, <1>u, <1>e DEF Resume, Callable, Leased, CompactEnds, UiFields
  <2>2. QED
    BY <2>1 DEF MessageInv
<1>18. CASE Summarized
  <2>1. /\ ui'.queue = ui.queue /\ seen'.sent = seen.sent
        /\ seen'.cleared = seen.cleared /\ seen'.submitted = seen.submitted
    BY <1>18, <1>u, <1>e DEF Summarized, Freed, CompactEnds, UiFields
  <2>2. QED
    BY <2>1 DEF MessageInv
<1>19. CASE Record
  <2>1. /\ ui'.queue = ui.queue /\ seen'.sent = seen.sent
        /\ seen'.cleared = seen.cleared /\ seen'.submitted = seen.submitted
    BY <1>19, <1>u, <1>e DEF Record, RecordedEffort, CompactEnds, UiFields, SeenFields
  <2>2. QED
    BY <2>1 DEF MessageInv
<1>20. CASE CompactFirst
  <2>1. /\ ui'.queue = ui.queue /\ seen'.sent = seen.sent
        /\ seen'.cleared = seen.cleared /\ seen'.submitted = seen.submitted
    BY <1>20, <1>u, <1>e DEF CompactFirst, MayCompact, Compacting, UiFields
  <2>2. QED
    BY <2>1 DEF MessageInv
<1>21. CASE ShowSessions
  <2>1. /\ ui'.queue = ui.queue /\ seen'.sent = seen.sent
        /\ seen'.cleared = seen.cleared /\ seen'.submitted = seen.submitted
    BY <1>21, <1>u, <1>e DEF ShowSessions, MayShow, UiFields
  <2>2. QED
    BY <2>1 DEF MessageInv
<1>22. CASE Submit
  <2>t. ui \in UiFields /\ seen \in SeenFields /\ ui.queue \in Seq(Nat)
        /\ seen.sent \in Seq(Nat) /\ seen.submitted \in Nat
    BY <1>e, <1>u, <1>b, SeqOfNat DEF UiFields, SeenFields
  <2>1. /\ ui'.queue = Append(ui.queue, seen.submitted + 1) /\ seen'.sent = seen.sent
        /\ seen'.cleared = seen.cleared /\ seen'.submitted = seen.submitted + 1
    BY <1>22, <2>t DEF Submit, Queued, UiFields, SeenFields
  <2>2. QED
    BY <2>t, <2>1, SubmittingKeeps
<1>23. CASE AskToCompact
  <2>1. /\ ui'.queue = ui.queue /\ seen'.sent = seen.sent
        /\ seen'.cleared = seen.cleared /\ seen'.submitted = seen.submitted
    BY <1>23, <1>u, <1>e
       DEF AskToCompact, MayCompact, Compacting, Commanded, MayCommand, UiFields, SeenFields
  <2>2. QED
    BY <2>1 DEF MessageInv
<1>24. CASE ChooseEffort
  <2>1. /\ ui'.queue = ui.queue /\ seen'.sent = seen.sent
        /\ seen'.cleared = seen.cleared /\ seen'.submitted = seen.submitted
    BY <1>24, <1>u, <1>e
       DEF ChooseEffort, MayCompact, Commanded, MayCommand, Shown, UiFields, SeenFields
  <2>2. QED
    BY <2>1 DEF MessageInv
<1>25. CASE ListSessions
  <2>1. /\ ui'.queue = ui.queue /\ seen'.sent = seen.sent
        /\ seen'.cleared = seen.cleared /\ seen'.submitted = seen.submitted
    BY <1>25, <1>u, <1>e DEF ListSessions, Commanded, MayCommand, UiFields, SeenFields
  <2>2. QED
    BY <2>1 DEF MessageInv
<1>26. CASE Choose
  <2>1. /\ ui'.queue = ui.queue /\ seen'.sent = seen.sent
        /\ seen'.cleared = seen.cleared /\ seen'.submitted = seen.submitted
    BY <1>26, <1>u, <1>e DEF Choose, UiFields
  <2>2. QED
    BY <2>1 DEF MessageInv
<1>27. CASE Interrupt
  <2>t. ui \in UiFields /\ seen \in SeenFields /\ ui.queue \in Seq(Nat)
        /\ seen.sent \in Seq(Nat) /\ seen.submitted \in Nat
    BY <1>e, <1>u, <1>b, SeqOfNat DEF UiFields, SeenFields
  <2>1. CASE ui.running
    <3>1. /\ ui'.queue = ui.queue /\ seen'.sent = seen.sent
          /\ seen'.cleared = seen.cleared /\ seen'.submitted = seen.submitted
      BY <1>27, <2>t, <2>1 DEF Interrupt, UiFields, SeenFields
    <3>2. QED
      BY <3>1 DEF MessageInv
  <2>2. CASE ~ ui.running
    <3>1. /\ ui'.queue = << >> /\ seen'.sent = seen.sent /\ seen'.submitted = seen.submitted
          /\ seen'.cleared = seen.cleared \cup Elements(ui.queue)
      BY <1>27, <2>t, <2>2 DEF Interrupt, UiFields, SeenFields, Elements
    <3>2. Elements(ui'.queue) = {} /\ Increasing(ui'.queue)
      BY <3>1 DEF Elements, Increasing
    <3>3. Elements(seen'.sent) = Elements(seen.sent)
      BY <3>1
    <3>4. QED
      BY <3>1, <3>2, <3>3, <2>t, NotSentYet, DroppingKeeps
  <2>3. QED
    BY <2>1, <2>2
<1>28. CASE RequestExit
  <2>1. /\ ui'.queue = ui.queue /\ seen'.sent = seen.sent
        /\ seen'.cleared = seen.cleared /\ seen'.submitted = seen.submitted
    BY <1>28, <1>u, <1>e DEF RequestExit, Commanded, MayCommand, UiFields, SeenFields
  <2>2. QED
    BY <2>1 DEF MessageInv
<1>29. CASE Sleep
  <2>1. /\ ui'.queue = ui.queue /\ seen' = seen
    BY <1>29, <1>u DEF Sleep, UiFields
  <2>2. QED
    BY <2>1 DEF MessageInv
<1>30. QED
  BY <1>1, <1>2, <1>3, <1>4, <1>5, <1>6, <1>7, <1>8, <1>9, <1>10, <1>11, <1>12, <1>13, <1>14,
         <1>15, <1>16, <1>17, <1>18, <1>19, <1>20, <1>21, <1>22, <1>23, <1>24, <1>25, <1>26,
         <1>27, <1>28, <1>29
     DEF Next, LoopSteps, CompactSteps, UserSteps

\* If it is calm, a summary goes to its session's closed tail and Ctrl-C to the turn.
LEMMA CalmKept ==
  ASSUME NoneAssumption, TypeInv, LeaseInv, FlagInv, CalmInv, Next
  PROVE  CalmInv'
<1>c. calm' = calm
  BY DEF Next
<1>n. None \notin Sessions
  BY DEF NoneAssumption
<1>v. \A s \in Sessions : disk'[s].state = "absent" => disk[s].state = "absent"
  BY NoneVanishes
<1>b. /\ ui.running \in BOOLEAN /\ ui.compacting \in BOOLEAN /\ comp.byLoop \in BOOLEAN
      /\ ui.offered \subseteq Sessions
  BY DEF TypeInv, UiFields, CompFields
<1>e. seen \in SeenFields
  BY DEF TypeInv
<1>1. CASE Take
  BY <1>c, <1>1
     DEF Take, Taken, CalmInv, LeaseInv, FlagInv, Held, Turning, Served, Asking, NoneAssumption,
         Busy, TypeInv, UiFields, LoopFields, CompFields, Journals, Notes, SeenFields, Stages,
         CompSteps, States
<1>2. CASE Exit
  BY <1>c, <1>2
     DEF Exit, CalmInv, LeaseInv, FlagInv, Held, Turning, Served, Asking, NoneAssumption, Busy,
         TypeInv, UiFields, LoopFields, CompFields, Journals, Notes, SeenFields, Stages,
         CompSteps, States
<1>3. CASE BeginTurn
  BY <1>c, <1>3
     DEF BeginTurn, TurnMayBegin, CalmInv, LeaseInv, FlagInv, Held, Turning, Served, Asking,
         NoneAssumption, Busy, TypeInv, UiFields, LoopFields, CompFields, Journals, Notes,
         SeenFields, Stages, CompSteps, States
<1>4. CASE PrepareFails
  BY <1>c, <1>4
     DEF PrepareFails, CalmInv, LeaseInv, FlagInv, Held, Turning, Served, Asking, NoneAssumption,
         Busy, TypeInv, UiFields, LoopFields, CompFields, Journals, Notes, SeenFields, Stages,
         CompSteps, States
<1>5. CASE PriceFails
  BY <1>c, <1>5
     DEF PriceFails, NewSession, CalmInv, LeaseInv, FlagInv, Held, Turning, Served, Asking,
         NoneAssumption, Busy, TypeInv, UiFields, LoopFields, CompFields, Journals, Notes,
         SeenFields, Stages, CompSteps, States
<1>6. CASE Call
  BY <1>c, <1>6
     DEF Call, NewSession, Callable, Leased, CalmInv, LeaseInv, FlagInv, Held, Turning, Served,
         Asking, NoneAssumption, Busy, TypeInv, UiFields, LoopFields, CompFields, Journals, Notes,
         SeenFields, Stages, CompSteps, States
<1>7. CASE Answered
  <2>t. /\ ui \in UiFields /\ loop \in LoopFields /\ comp \in CompFields
        /\ disk \in [Sessions -> Journals]
    BY DEF TypeInv
  <2>0. loop.at = "calling" /\ ui.session \in Sessions
    BY <1>7, <2>t DEF Answered, FlagInv, UiFields, Served
  <2>f. /\ ui'.session = ui.session /\ ui'.compacting = ui.compacting /\ ui'.exiting = ui.exiting
        /\ ui'.picker = ui.picker /\ ui'.listing = ui.listing /\ ui'.queue = ui.queue
        /\ comp' = comp /\ seen' = seen
        /\ ui'.running => ui.running /\ ui'.controller = ui.controller
    BY <1>7, <2>t DEF Answered, Idle, UiFields, LoopFields
  <2>q. QED
    BY <1>c, <1>v, <1>n, <2>t, <2>0, <2>f DEF CalmInv, FlagInv, Asking, Turning, Served
<1>8. CASE CallAgain
  BY <1>c, <1>8
     DEF CallAgain, Callable, Leased, CalmInv, LeaseInv, FlagInv, Held, Turning, Served, Asking,
         NoneAssumption, Busy, TypeInv, UiFields, LoopFields, CompFields, Journals, Notes,
         SeenFields, Stages, CompSteps, States
<1>9. CASE CallFails
  BY <1>c, <1>9
     DEF CallFails, Freed, CalmInv, LeaseInv, FlagInv, Held, Turning, Served, Asking,
         NoneAssumption, Busy, TypeInv, UiFields, LoopFields, CompFields, Journals, Notes,
         SeenFields, Stages, CompSteps, States
<1>10. CASE CallBreaks
  <2>t. /\ ui \in UiFields /\ loop \in LoopFields /\ comp \in CompFields
        /\ disk \in [Sessions -> Journals]
    BY DEF TypeInv
  <2>0. loop.at = "calling" /\ ui.session \in Sessions
    BY <1>10, <2>t DEF CallBreaks, FlagInv, UiFields, Served
  <2>f. /\ ui'.session = ui.session /\ ui'.compacting = ui.compacting /\ ui'.exiting = ui.exiting
        /\ ui'.picker = ui.picker /\ ui'.listing = ui.listing /\ ui'.queue = ui.queue
        /\ comp' = comp /\ seen' = seen
        /\ ui'.controller = ui.controller /\ loop'.at \notin {"idle", "awaiting"}
        /\ ui'.running => ui.running
    BY <1>10, <2>t DEF CallBreaks, UiFields, LoopFields
  <2>q. QED
    BY <1>c, <1>v, <1>n, <2>t, <2>0, <2>f DEF CalmInv, FlagInv, Asking, Turning, Served
<1>11. CASE Failed
  BY <1>c, <1>11
     DEF Failed, StartedAfterFailure, CalmInv, LeaseInv, FlagInv, Held, Turning, Served, Asking,
         NoneAssumption, Busy, TypeInv, UiFields, LoopFields, CompFields, Journals, Notes,
         SeenFields, Stages, CompSteps, States
<1>12. CASE Recover
  BY <1>c, <1>12
     DEF Recover, ToRecover, MayRecover, Callable, Leased, CalmInv, LeaseInv, FlagInv, Held,
         Turning, Served, Asking, NoneAssumption, Busy, TypeInv, UiFields, LoopFields, CompFields,
         Journals, Notes, SeenFields, Stages, CompSteps, States
<1>13. CASE Recovered
  BY <1>c, <1>13
     DEF Recovered, Freed, CalmInv, LeaseInv, FlagInv, Held, Turning, Served, Asking,
         NoneAssumption, Busy, TypeInv, UiFields, LoopFields, CompFields, Journals, Notes,
         SeenFields, Stages, CompSteps, States
<1>14. CASE Ask
  <2>t. /\ ui \in UiFields /\ loop \in LoopFields /\ comp \in CompFields
        /\ disk \in [Sessions -> Journals]
    BY DEF TypeInv
  <2>0. comp.at = "gathering" /\ ui.compacting = TRUE /\ ui.session \in Sessions
    BY <1>14, <2>t, <1>b DEF Ask, FlagInv, UiFields
  <2>f. /\ ui'.session = ui.session /\ ui'.running = ui.running /\ ui'.exiting = ui.exiting
        /\ ui'.listing = ui.listing /\ ui'.picker = ui.picker /\ ui'.queue = ui.queue
        /\ loop' = loop /\ seen' = seen
        /\ \/ /\ ui'.compacting = TRUE /\ comp'.at = "asking" /\ comp'.session = ui.session
              /\ comp'.byLoop = comp.byLoop /\ ui'.controller = "compact"
           \/ ui'.compacting = FALSE /\ comp'.at = "none" /\ comp'.byLoop = FALSE
    <3>1. CASE /\ comp' = [comp EXCEPT !.at = "asking", !.session = ui.session]
               /\ ui' = [ui EXCEPT !.controller = "compact", !.aborted = @ \ {"compact"}]
      BY <1>14, <2>t, <2>0, <3>1 DEF Ask, CompFields, UiFields
    <3>2. CASE CompactEnds
      BY <1>14, <2>t, <3>2, CompactEndsFields DEF Ask
    <3>3. QED
      BY <1>14, <3>1, <3>2 DEF Ask
  <2>q. QED
    BY <1>c, <1>v, <1>n, <2>t, <2>0, <2>f DEF CalmInv, FlagInv, Asking, Turning, Served
<1>15. CASE AskFails
  BY <1>c, <1>15
     DEF AskFails, Freed, CompactEnds, CalmInv, LeaseInv, FlagInv, Held, Turning, Served, Asking,
         NoneAssumption, Busy, TypeInv, UiFields, LoopFields, CompFields, Journals, Notes,
         SeenFields, Stages, CompSteps, States
<1>16. CASE AskBreaks
  <2>t. /\ ui \in UiFields /\ loop \in LoopFields /\ comp \in CompFields
        /\ disk \in [Sessions -> Journals]
    BY DEF TypeInv
  <2>0. /\ comp.at \in Asking /\ ui.compacting = TRUE /\ ui.session \in Sessions
        /\ comp.session \in Sessions
    BY <1>16, <2>t, <1>b DEF AskBreaks, FlagInv, UiFields, CompFields, Asking
  <2>f. /\ ui'.session = ui.session /\ ui'.running = ui.running /\ ui'.exiting = ui.exiting
        /\ ui'.listing = ui.listing /\ ui'.picker = ui.picker /\ ui'.queue = ui.queue
        /\ loop' = loop /\ seen' = seen
        /\ \/ /\ ui' = ui /\ comp'.at = "resuming" /\ comp'.session = comp.session
              /\ comp'.byLoop = comp.byLoop
           \/ ui'.compacting = FALSE /\ comp'.at = "none" /\ comp'.byLoop = FALSE
    <3>1. CASE comp' = [comp EXCEPT !.at = "resuming"] /\ ui' = ui
      BY <1>16, <2>t, <2>0, <3>1 DEF AskBreaks, CompFields
    <3>2. CASE CompactEnds
      BY <1>16, <2>t, <3>2, CompactEndsFields DEF AskBreaks
    <3>3. QED
      BY <1>16, <3>1, <3>2 DEF AskBreaks
  <2>q. QED
    BY <1>c, <1>v, <1>n, <2>t, <2>0, <2>f DEF CalmInv, FlagInv, Asking, Turning, Served
<1>17. CASE Resume
  <2>t. /\ ui \in UiFields /\ loop \in LoopFields /\ comp \in CompFields
        /\ disk \in [Sessions -> Journals]
    BY DEF TypeInv
  <2>0. comp.at = "resuming" /\ ui.compacting = TRUE /\ ui.session \in Sessions
    BY <1>17, <2>t, <1>b DEF Resume, FlagInv, UiFields
  <2>f. /\ ui'.session = ui.session /\ ui'.running = ui.running /\ ui'.exiting = ui.exiting
        /\ ui'.listing = ui.listing /\ ui'.picker = ui.picker /\ ui'.queue = ui.queue
        /\ loop' = loop /\ seen' = seen
        /\ \/ /\ ui' = ui /\ comp'.at = "resuming" /\ comp'.session = comp.session
              /\ comp'.byLoop = comp.byLoop
           \/ ui'.compacting = FALSE /\ comp'.at = "none" /\ comp'.byLoop = FALSE
    <3>1. CASE comp' = [comp EXCEPT !.resumes = @ + 1] /\ ui' = ui
      BY <1>17, <2>t, <2>0, <3>1 DEF Resume, CompFields
    <3>2. CASE CompactEnds
      BY <1>17, <2>t, <3>2, CompactEndsFields DEF Resume
    <3>3. QED
      BY <1>17, <3>1, <3>2 DEF Resume
  <2>q. QED
    BY <1>c, <1>v, <1>n, <2>t, <2>0, <2>f DEF CalmInv, FlagInv, Asking, Turning, Served
<1>18. CASE Summarized
  <2>t. /\ ui \in UiFields /\ loop \in LoopFields /\ comp \in CompFields
        /\ disk \in [Sessions -> Journals]
    BY DEF TypeInv
  <2>0. /\ comp.at \in Asking /\ ui.compacting = TRUE /\ ui.session \in Sessions
        /\ comp.session \in Sessions
    BY <1>18, <2>t, <1>b DEF Summarized, FlagInv, UiFields, CompFields, Asking
  <2>f. /\ ui'.session = ui.session /\ ui'.running = ui.running /\ ui'.exiting = ui.exiting
        /\ ui'.listing = ui.listing /\ ui'.picker = ui.picker /\ ui'.queue = ui.queue
        /\ loop' = loop /\ seen' = seen
        /\ \/ /\ ui' = ui /\ comp'.at = "recording" /\ comp'.session = comp.session
              /\ comp'.byLoop = comp.byLoop
           \/ ui'.compacting = FALSE /\ comp'.at = "none" /\ comp'.byLoop = FALSE
    <3>1. CASE comp' = [comp EXCEPT !.at = "recording"] /\ ui' = ui
      BY <1>18, <2>t, <2>0, <3>1 DEF Summarized, CompFields
    <3>2. CASE CompactEnds
      BY <1>18, <2>t, <3>2, CompactEndsFields DEF Summarized
    <3>3. QED
      BY <1>18, <3>1, <3>2 DEF Summarized
  <2>g. disk'[comp.session].state = "settled"
    BY <1>18, <2>t, <2>0, FreedFields DEF Summarized
  <2>q. QED
    BY <1>c, <1>v, <1>n, <2>t, <2>0, <2>f, <2>g DEF CalmInv, FlagInv, Asking, Turning, Served
<1>19. CASE Record
  BY <1>c, <1>19
     DEF Record, RecordedEffort, CompactEnds, CalmInv, LeaseInv, FlagInv, Held, Turning, Served,
         Asking, NoneAssumption, Busy, TypeInv, UiFields, LoopFields, CompFields, Journals, Notes,
         SeenFields, Stages, CompSteps, States
<1>20. CASE CompactFirst
  BY <1>c, <1>20
     DEF CompactFirst, MayCompact, Compacting, CalmInv, LeaseInv, FlagInv, Held, Turning, Served,
         Asking, NoneAssumption, Busy, TypeInv, UiFields, LoopFields, CompFields, Journals, Notes,
         SeenFields, Stages, CompSteps, States
<1>21. CASE ShowSessions
  BY <1>c, <1>21
     DEF ShowSessions, MayShow, CalmInv, LeaseInv, FlagInv, Held, Turning, Served, Asking,
         NoneAssumption, Busy, TypeInv, UiFields, LoopFields, CompFields, Journals, Notes,
         SeenFields, Stages, CompSteps, States
<1>22. CASE Submit
  BY <1>c, <1>22
     DEF Submit, Queued, CalmInv, LeaseInv, FlagInv, Held, Turning, Served, Asking, NoneAssumption, Busy,
         TypeInv, UiFields, LoopFields, CompFields, Journals, Notes, SeenFields, Stages,
         CompSteps, States
<1>23. CASE AskToCompact
  BY <1>c, <1>23
     DEF AskToCompact, MayCompact, Compacting, Commanded, MayCommand, CalmInv, LeaseInv, FlagInv,
         Held, Turning, Served, Asking, NoneAssumption, Busy, TypeInv, UiFields, LoopFields,
         CompFields, Journals, Notes, SeenFields, Stages, CompSteps, States
<1>24. CASE ChooseEffort
  <2>t. /\ ui \in UiFields /\ loop \in LoopFields /\ comp \in CompFields
        /\ disk \in [Sessions -> Journals]
    BY DEF TypeInv
  <2>0. calm => loop.at = "idle" /\ ui.queue = << >> /\ ~ ui.exiting /\ ~ ui.listing /\ ~ ui.picker
    BY <1>24 DEF ChooseEffort, MayCommand, Busy
  <2>1. PICK e \in Efforts :
          \/ /\ MayCompact
             /\ ui' = [ui EXCEPT !.effort = e, !.compacting = TRUE]
             /\ comp' = [at |-> "gathering", session |-> None, effort |-> e, resumes |-> 0,
                          byLoop |-> FALSE]
          \/ ui' = [ui EXCEPT !.effort = e] /\ comp' = comp
    BY <1>24 DEF ChooseEffort
  <2>f. /\ ui'.session = ui.session /\ ui'.running = ui.running /\ ui'.exiting = ui.exiting
        /\ ui'.listing = ui.listing /\ ui'.picker = ui.picker /\ ui'.queue = ui.queue
        /\ ui'.controller = ui.controller /\ loop' = loop /\ disk' = disk
        /\ seen'.notes = seen.notes
        /\ \/ ui'.compacting = TRUE /\ comp'.at = "gathering" /\ comp'.byLoop = FALSE
           \/ ui'.compacting = ui.compacting /\ comp' = comp
    <3>0. seen'.notes = seen.notes
      BY <1>24, <1>e DEF ChooseEffort, Commanded, SeenFields
    <3>1. CASE /\ MayCompact
               /\ ui' = [ui EXCEPT !.effort = e, !.compacting = TRUE]
               /\ comp' = [at |-> "gathering", session |-> None, effort |-> e, resumes |-> 0,
                            byLoop |-> FALSE]
      BY <1>24, <2>t, <3>0, <3>1 DEF ChooseEffort, UiFields
    <3>2. CASE ui' = [ui EXCEPT !.effort = e] /\ comp' = comp
      BY <1>24, <2>t, <3>0, <3>2 DEF ChooseEffort, UiFields
    <3>3. QED
      BY <2>1, <3>1, <3>2
  <2>q. QED
    BY <1>c, <1>v, <1>n, <2>t, <2>0, <2>f DEF CalmInv, FlagInv, Asking, Turning, Served
<1>25. CASE ListSessions
  BY <1>c, <1>25
     DEF ListSessions, Commanded, MayCommand, CalmInv, LeaseInv, FlagInv, Held, Turning, Served,
         Asking, NoneAssumption, Busy, TypeInv, UiFields, LoopFields, CompFields, Journals, Notes,
         SeenFields, Stages, CompSteps, States
<1>26. CASE Choose
  <2>t. /\ ui \in UiFields /\ loop \in LoopFields /\ comp \in CompFields
        /\ disk \in [Sessions -> Journals]
    BY DEF TypeInv
  <2>0. ui.picker = TRUE /\ \A s \in ui.offered : disk[s].state # "absent"
    BY <1>26, <2>t DEF Choose, FlagInv, UiFields
  <2>1. \/ ui' = [ui EXCEPT !.picker = FALSE, !.offered = {}]
        \/ \E s \in ui.offered :
             ui' = [[ui EXCEPT !.picker = FALSE, !.offered = {}] EXCEPT !.session = s,
                                                                      !.started = TRUE]
    BY <1>26 DEF Choose
  <2>f. /\ ui'.session = ui.session \/ ui'.session \in ui.offered
        /\ ui'.running = ui.running /\ ui'.exiting = ui.exiting /\ ui'.listing = ui.listing
        /\ ui'.picker = FALSE /\ ui'.queue = ui.queue /\ ui'.compacting = ui.compacting
        /\ ui'.controller = ui.controller /\ loop' = loop /\ seen' = seen /\ comp' = comp
        /\ disk' = disk
    BY <1>26, <2>t, <2>1 DEF Choose, UiFields
  <2>q. QED
    BY <1>c, <1>v, <1>n, <2>t, <2>0, <2>f DEF CalmInv, FlagInv, Asking, Turning, Served
<1>27. CASE Interrupt
  BY <1>c, <1>27
     DEF Interrupt, CalmInv, LeaseInv, FlagInv, Held, Turning, Served, Asking, NoneAssumption,
         Busy, TypeInv, UiFields, LoopFields, CompFields, Journals, Notes, SeenFields, Stages,
         CompSteps, States
<1>28. CASE RequestExit
  BY <1>c, <1>28
     DEF RequestExit, Commanded, MayCommand, CalmInv, LeaseInv, FlagInv, Held, Turning, Served,
         Asking, NoneAssumption, Busy, TypeInv, UiFields, LoopFields, CompFields, Journals, Notes,
         SeenFields, Stages, CompSteps, States
<1>29. CASE Sleep
  BY <1>c, <1>29
     DEF Sleep, CalmInv, LeaseInv, FlagInv, Held, Turning, Served, Asking, NoneAssumption, Busy,
         TypeInv, UiFields, LoopFields, CompFields, Journals, Notes, SeenFields, Stages,
         CompSteps, States
<1>30. QED
  BY <1>1, <1>2, <1>3, <1>4, <1>5, <1>6, <1>7, <1>8, <1>9, <1>10, <1>11, <1>12, <1>13, <1>14,
         <1>15, <1>16, <1>17, <1>18, <1>19, <1>20, <1>21, <1>22, <1>23, <1>24, <1>25, <1>26,
         <1>27, <1>28, <1>29
     DEF Next, LoopSteps, CompactSteps, UserSteps

\* The loop goes to sleep over nothing, and a message or the wish to leave wakes it.
LEMMA WakeKept ==
  ASSUME TypeInv, NoneSleptOver, Next
  PROVE  NoneSleptOver'
<1>u. ui \in UiFields /\ comp \in CompFields /\ loop \in LoopFields
  BY DEF TypeInv
<1>1. CASE Take
  BY <1>1, <1>u DEF Take, Taken, NoneSleptOver, UiFields, LoopFields
<1>2. CASE Exit
  BY <1>2, <1>u DEF Exit, NoneSleptOver, UiFields, LoopFields
<1>3. CASE BeginTurn
  BY <1>3, <1>u DEF BeginTurn, TurnMayBegin, NoneSleptOver, UiFields, LoopFields
<1>4. CASE PrepareFails
  BY <1>4, <1>u DEF PrepareFails, NoneSleptOver, UiFields, LoopFields
<1>5. CASE PriceFails
  BY <1>5, <1>u DEF PriceFails, NoneSleptOver, UiFields, LoopFields
<1>6. CASE Call
  BY <1>6, <1>u DEF Call, NoneSleptOver, UiFields, LoopFields
<1>7. CASE Answered
  BY <1>7, <1>u DEF Answered, Idle, NoneSleptOver, UiFields, LoopFields
<1>8. CASE CallAgain
  BY <1>8, <1>u DEF CallAgain, NoneSleptOver, UiFields, LoopFields
<1>9. CASE CallFails
  BY <1>9, <1>u DEF CallFails, NoneSleptOver, UiFields, LoopFields
<1>10. CASE CallBreaks
  BY <1>10, <1>u DEF CallBreaks, NoneSleptOver, UiFields, LoopFields
<1>11. CASE Failed
  BY <1>11, <1>u DEF Failed, StartedAfterFailure, NoneSleptOver, UiFields, LoopFields
<1>12. CASE Recover
  BY <1>12, <1>u DEF Recover, MayRecover, ToRecover, NoneSleptOver, UiFields, LoopFields
<1>13. CASE Recovered
  BY <1>13, <1>u DEF Recovered, NoneSleptOver, UiFields, LoopFields
<1>14. CASE Ask
  <2>1. loop' = loop /\ (ui' = ui \/ CompactEnds \/ (ui'.wake = ui.wake /\ ui'.queue = ui.queue
                                                    /\ ui'.exiting = ui.exiting))
    BY <1>14, <1>u DEF Ask, UiFields
  <2>2. QED
    BY <1>u, <2>1, CompactEndsFields DEF NoneSleptOver
<1>15. CASE AskFails
  <2>1. loop' = loop /\ (ui' = ui \/ CompactEnds \/ (ui'.wake = ui.wake /\ ui'.queue = ui.queue
                                                    /\ ui'.exiting = ui.exiting))
    BY <1>15, <1>u DEF AskFails, UiFields
  <2>2. QED
    BY <1>u, <2>1, CompactEndsFields DEF NoneSleptOver
<1>16. CASE AskBreaks
  <2>1. loop' = loop /\ (ui' = ui \/ CompactEnds \/ (ui'.wake = ui.wake /\ ui'.queue = ui.queue
                                                    /\ ui'.exiting = ui.exiting))
    BY <1>16, <1>u DEF AskBreaks, UiFields
  <2>2. QED
    BY <1>u, <2>1, CompactEndsFields DEF NoneSleptOver
<1>17. CASE Resume
  <2>1. loop' = loop /\ (ui' = ui \/ CompactEnds \/ (ui'.wake = ui.wake /\ ui'.queue = ui.queue
                                                    /\ ui'.exiting = ui.exiting))
    BY <1>17, <1>u DEF Resume, UiFields
  <2>2. QED
    BY <1>u, <2>1, CompactEndsFields DEF NoneSleptOver
<1>18. CASE Summarized
  <2>1. loop' = loop /\ (ui' = ui \/ CompactEnds \/ (ui'.wake = ui.wake /\ ui'.queue = ui.queue
                                                    /\ ui'.exiting = ui.exiting))
    BY <1>18, <1>u DEF Summarized, UiFields
  <2>2. QED
    BY <1>u, <2>1, CompactEndsFields DEF NoneSleptOver
<1>19. CASE Record
  <2>1. loop' = loop /\ (ui' = ui \/ CompactEnds \/ (ui'.wake = ui.wake /\ ui'.queue = ui.queue
                                                    /\ ui'.exiting = ui.exiting))
    BY <1>19, <1>u DEF Record, UiFields
  <2>2. QED
    BY <1>u, <2>1, CompactEndsFields DEF NoneSleptOver
<1>20. CASE CompactFirst
  BY <1>20, <1>u DEF CompactFirst, MayCompact, Compacting, NoneSleptOver, UiFields, LoopFields
<1>21. CASE ShowSessions
  BY <1>21, <1>u DEF ShowSessions, MayShow, NoneSleptOver, UiFields, LoopFields
<1>22. CASE Submit
  BY <1>22, <1>u DEF Submit, Queued, NoneSleptOver, UiFields, LoopFields
<1>23. CASE AskToCompact
  BY <1>23, <1>u DEF AskToCompact, MayCompact, Compacting, Commanded, MayCommand, NoneSleptOver, UiFields, LoopFields
<1>24. CASE ChooseEffort
  BY <1>24, <1>u DEF ChooseEffort, MayCompact, Commanded, MayCommand, Shown, NoneSleptOver, UiFields, LoopFields
<1>25. CASE ListSessions
  BY <1>25, <1>u DEF ListSessions, Commanded, MayCommand, NoneSleptOver, UiFields, LoopFields
<1>26. CASE Choose
  BY <1>26, <1>u DEF Choose, NoneSleptOver, UiFields, LoopFields
<1>27. CASE Interrupt
  BY <1>27, <1>u DEF Interrupt, NoneSleptOver, UiFields, LoopFields
<1>28. CASE RequestExit
  BY <1>28, <1>u DEF RequestExit, Commanded, MayCommand, NoneSleptOver, UiFields, LoopFields
<1>29. CASE Sleep
  BY <1>29, <1>u DEF Sleep, NoneSleptOver, UiFields, LoopFields
<1>30. QED
  BY <1>1, <1>2, <1>3, <1>4, <1>5, <1>6, <1>7, <1>8, <1>9, <1>10, <1>11, <1>12, <1>13, <1>14,
         <1>15, <1>16, <1>17, <1>18, <1>19, <1>20, <1>21, <1>22, <1>23, <1>24, <1>25, <1>26,
         <1>27, <1>28, <1>29
     DEF Next, LoopSteps, CompactSteps, UserSteps

\* The loop has not begun: nothing is sent, held or chosen.
LEMMA InitInv ==
  ASSUME EffortsAssumption, BoundsAssumption, CalmAssumption, NoneAssumption,
         Init
  PROVE  IInv
<1>1. /\ ui.session = None /\ ui.started = FALSE /\ ui.running = FALSE /\ ui.compacting = FALSE
      /\ ui.listing = FALSE /\ ui.picker = FALSE /\ ui.offered = {} /\ ui.queue = << >>
      /\ loop.at = "idle" /\ comp.at = "none" /\ comp.byLoop = FALSE
      /\ seen.submitted = 0 /\ seen.sent = << >> /\ seen.cleared = {} /\ seen.notes = {}
  BY DEF Init
<1>2. \A s \in Sessions : disk[s].lease = None
  BY DEF Init
<1>3. TypeInv
  <2>1. /\ MaxMessages \in Nat /\ MaxResumes \in Nat /\ MaxContinues \in Nat
        /\ 0 \in 0..MaxResumes /\ 0 \in 0..MaxContinues + 1 /\ 0 \in 0..MaxMessages
        /\ DefaultEffort \in Efforts /\ << >> \in Seq(1..MaxMessages)
    BY DEF BoundsAssumption, EffortsAssumption
  <2>2. ui \in UiFields
    BY <2>1 DEF Init, UiFields
  <2>3. loop \in LoopFields /\ comp \in CompFields
    BY <2>1 DEF Init, LoopFields, CompFields, Stages, CompSteps
  <2>4. disk \in [Sessions -> Journals]
    BY <2>1 DEF Init, Journals, States
  <2>5. seen \in SeenFields
    BY <2>1 DEF Init, SeenFields
  <2>6. calm \in BOOLEAN
    BY DEF Init, CalmAssumption
  <2>7. QED
    BY <2>2, <2>3, <2>4, <2>5, <2>6 DEF TypeInv
<1>4. None \notin Sessions /\ None # "turn" /\ None # "compact"
  BY DEF NoneAssumption
<1>5. LeaseInv
  BY <1>1, <1>2, <1>4 DEF LeaseInv, Held
<1>6. FlagInv
  BY <1>1 DEF FlagInv, Turning, Served, Asking
<1>7. MessageInv
  <2>1. Elements(seen.sent) = {} /\ Elements(ui.queue) = {} /\ Increasing(seen.sent)
        /\ Increasing(ui.queue)
    BY <1>1 DEF Elements, Increasing
  <2>2. 1..seen.submitted = {}
    BY <1>1
  <2>3. QED
    BY <1>1, <2>1, <2>2 DEF MessageInv
<1>8. CalmInv
  BY <1>1 DEF CalmInv, Asking
<1>9. NoneSleptOver
  BY DEF Init, NoneSleptOver
<1>10. QED
  BY <1>3, <1>5, <1>6, <1>7, <1>8, <1>9 DEF IInv

\* The invariant is inductive.
LEMMA StepInv ==
  ASSUME EffortsAssumption, BoundsAssumption, NoneAssumption, IInv, [Next]_vars
  PROVE  IInv'
<1>1. CASE Next
  BY <1>1, TypeKept, LeaseKept, FlagKept, MessageKept, CalmKept, WakeKept DEF IInv
<1>2. CASE UNCHANGED vars
  <2>1. ui' = ui /\ loop' = loop /\ comp' = comp /\ disk' = disk /\ seen' = seen /\ calm' = calm
    BY <1>2 DEF vars
  <2>2. TypeInv' /\ LeaseInv' /\ FlagInv'
    BY <2>1 DEF IInv, TypeInv, LeaseInv, FlagInv, Held
  <2>3. MessageInv'
    BY <2>1 DEF IInv, MessageInv
  <2>4. CalmInv' /\ NoneSleptOver'
    BY <2>1 DEF IInv, CalmInv, NoneSleptOver
  <2>5. QED
    BY <2>2, <2>3, <2>4 DEF IInv
<1>3. QED
  BY <1>1, <1>2

\* The messages of the invariant are those of the property.
LEMMA AccountedFor ==
  ASSUME TypeInv, MessageInv, BoundsAssumption
  PROVE  EveryMessageAccounted
<1>1. seen.sent \in Seq(Nat) /\ ui.queue \in Seq(Nat)
  BY SeqOfNat DEF TypeInv, SeenFields, UiFields
<1>2. Elements(seen.sent) \cap Elements(ui.queue) = {}
  BY <1>1, NotSentYet
<1>3. Elements(seen.sent) = {seen.sent[k] : k \in DOMAIN seen.sent}
      /\ Elements(ui.queue) = {ui.queue[k] : k \in DOMAIN ui.queue}
  BY DEF Elements
<1>4. \A a, b \in DOMAIN seen.sent : a < b => seen.sent[a] < seen.sent[b]
  BY DEF MessageInv, Increasing
<1>5. /\ Elements(seen.sent) \cup Elements(ui.queue) \cup seen.cleared = 1..seen.submitted
      /\ Elements(seen.sent) \cap seen.cleared = {}
  BY DEF MessageInv
<1>6. QED
  BY <1>2, <1>3, <1>4, <1>5 DEF EveryMessageAccounted

\* The invariant implies the property.
LEMMA OrderFollows ==
  ASSUME BoundsAssumption, NoneAssumption, IInv
  PROVE  LoopIsOrderly
<1>1. TypeOK
  <2>1. /\ ui.session \in Sessions \cup {None} /\ ui.controller \in {None, "turn", "compact"}
        /\ ui.aborted \subseteq {"turn", "compact"} /\ ui.effort \in Efforts \cup {None}
        /\ ui.offered \subseteq Sessions /\ ui.queue \in Seq(1..MaxMessages) /\ ui.wake \in BOOLEAN
    BY DEF IInv, TypeInv, UiFields
  <2>2. loop.at \in Stages /\ loop.resumes \in 0..MaxResumes /\ loop.calls \in 0..MaxContinues + 1
    BY DEF IInv, TypeInv, LoopFields
  <2>3. comp.at \in CompSteps /\ comp.resumes \in 0..MaxResumes
    BY DEF IInv, TypeInv, CompFields
  <2>4. \A s \in Sessions : disk[s].state \in States /\ disk[s].effort \in Efforts
                            /\ disk[s].lease \in {None, "turn", "compact"}
    BY DEF IInv, TypeInv, Journals
  <2>5. (ui.offered # {} => ui.picker) /\ (ui.started => ui.session # None)
    BY DEF IInv, FlagInv
  <2>6. QED
    BY <2>1, <2>2, <2>3, <2>4, <2>5 DEF TypeOK
<1>2. EveryMessageAccounted
  BY AccountedFor DEF IInv
<1>3. LeasesAreReturned
  BY DEF LeasesAreReturned, IInv, LeaseInv, Served, Asking
<1>4. ASSUME calm
      PROVE  SummaryGoesHome /\ RecordsOnClosedTail /\ InterruptReachesTurn
             /\ StartedMeansRecorded
  <2>1. SummaryGoesHome /\ RecordsOnClosedTail
    BY <1>4 DEF IInv, CalmInv, SummaryGoesHome, RecordsOnClosedTail
  <2>2. InterruptReachesTurn
    BY <1>4 DEF IInv, CalmInv, InterruptReachesTurn
  <2>3. StartedMeansRecorded
    BY <1>4 DEF IInv, CalmInv, FlagInv, StartedMeansRecorded
  <2>4. QED
    BY <2>1, <2>2, <2>3
<1>5. QED
  BY <1>1, <1>2, <1>3, <1>4 DEF LoopIsOrderly, IInv

\* Whatever turns, compactions, recoveries and the user's commands come between the
\* loop's awaits, in any order: each message is sent once, waits or was dropped; the
\* loop never sleeps over one; and no lease outlives its call; and if it is calm, a summary is recorded on the closed
\* tail of the session it is of, and Ctrl-C reaches the turn that is running.
THEOREM LoopIsOrderlyHolds ==
  ASSUME EffortsAssumption, BoundsAssumption, CalmAssumption, NoneAssumption
  PROVE  Spec => []LoopIsOrderly
<1>1. Init => IInv
  BY InitInv
<1>2. IInv /\ [Next]_vars => IInv'
  BY StepInv
<1>3. IInv => LoopIsOrderly
  BY OrderFollows
<1>4. QED
  BY <1>1, <1>2, <1>3, PTL DEF Spec

-----------------------------------------------------------------------------
(* The suggestions.                                                          *)

Here == [text |-> text, col |-> col]
Tasks ==
  [token : Nat, force : BOOLEAN, tab : BOOLEAN, at : Picker!Places \cup {None},
   prefix : Seq(Picker!Chars) \cup {None}, aborted : BOOLEAN]

PickerTypes ==
  /\ text \in Seq(Picker!Chars) /\ col \in 0..Len(text)
  /\ picker \in Picker!Pickers \cup {None} /\ token \in Nat
  /\ timer \in Picker!Requests \cup {None} /\ tasks \in Seq(Tasks)
  /\ wanted \in Picker!Places \cup {None} /\ pressed \in Nat

\* Only the first of the chain may be at the provider, where it is called off if it is not
\* the last one; what Tab asked for was asked with no picker open.
RunsFor(r) == r.prefix = Picker!PrefixFor(Picker!Before(r.at.text, r.at.col), r.force)
Sane(r) ==
  /\ r.token <= token
  /\ r.at # None => RunsFor(r) /\ (r.aborted \/ r.token = token)
  /\ r.aborted => r.at # None
  /\ (r.tab /\ r.token = token) => (picker = None)
ChainInv ==
  /\ timer # None =>
       /\ timer.token = token /\ timer.tab = FALSE
       /\ \A i \in DOMAIN tasks : tasks[i].token < token
  /\ \A i \in DOMAIN tasks : Sane(tasks[i]) /\ (i > 1 => tasks[i].at = None)
  /\ \A i, k \in DOMAIN tasks : i < k => tasks[i].token < tasks[k].token

\* A request that will be answered for the text as it is.
Lives(r) == r.token = token /\ ~r.aborted /\ r.at \in {None, Here}
Fits(pick) == pick.prefix = Picker!PrefixFor(Picker!Before(text, col), pick.state = "force")
FollowInv ==
  (picker # None) => Fits(picker) \/ timer # None \/ \E i \in DOMAIN tasks : Lives(tasks[i])

\* A request that will ask the provider.
WillAsk(r) == r.token = token /\ r.at = None
WantInv ==
  wanted # None =>
    /\ wanted = Here
    /\ asked = wanted \/ timer # None \/ \E i \in DOMAIN tasks : WillAsk(tasks[i])

PickerInv == PickerTypes /\ ChainInv /\ FollowInv /\ WantInv

-----------------------------------------------------------------------------
(* Texts. *)

\* A set of positions has a last one.
LEMMA LastOf ==
  ASSUME NEW n \in Nat, NEW S \in SUBSET (1..n), S # {}
  PROVE  \E i \in S : \A k \in S : k <= i
<1> DEFINE Left == {n - i : i \in S}
<1>1. Left \subseteq Nat /\ Left # {}
  <2>1. PICK e \in S : TRUE
    OBVIOUS
  <2>2. n - e \in Left
    BY <2>1
  <2>3. \A i \in S : n - i \in Nat
    OBVIOUS
  <2>4. QED
    BY <2>2, <2>3
<1>2. PICK m \in Left : \A k \in Left : ~ (<<k, m>> \in OpToRel(<, Nat))
  <2> HIDE DEF Left
  <2>1. QED
    BY <1>1, NatLessThanWellFounded, WFMin
<1>3. PICK i \in S : m = n - i
  BY <1>2
<1>4. ASSUME NEW k \in S
      PROVE  k <= i
  <2>1. n - k \in Left /\ n - k \in Nat /\ m \in Nat
    BY <1>1
  <2>2. ~ (n - k < m)
    BY <1>2, <2>1 DEF OpToRel
  <2>3. QED
    BY <1>3, <2>1, <2>2
<1>5. QED
  BY <1>3, <1>4

\* The cursor cuts the text in two.
LEMMA Halves ==
  ASSUME NEW line \in Seq(Picker!Chars), NEW at \in 0..Len(line)
  PROVE  /\ Picker!Before(line, at) \in Seq(Picker!Chars) /\ Len(Picker!Before(line, at)) = at
         /\ Picker!After(line, at) \in Seq(Picker!Chars) /\ Len(Picker!After(line, at)) = Len(line) - at
<1>1. PICK n \in Nat : n = Len(line)
  OBVIOUS
<1>2. at \in 0..n /\ at \in Nat
  BY <1>1
<1>3. SubSeq(line, 1, at) \in Seq(Picker!Chars) /\ Len(SubSeq(line, 1, at)) = at
  BY <1>1, <1>2
<1>4. SubSeq(line, at + 1, n) \in Seq(Picker!Chars) /\ Len(SubSeq(line, at + 1, n)) = n - at
  BY <1>1, <1>2
<1>5. QED
  BY <1>1, <1>3, <1>4 DEF Picker!Before, Picker!After

\* What follows the last space is a text.
LEMMA LastWordIsText ==
  ASSUME NEW line \in Seq(Picker!Chars)
  PROVE  Picker!LastWord(line) \in Seq(Picker!Chars)
<1> DEFINE spaces == {i \in DOMAIN line : line[i] = " "}
           last   == IF spaces = {} THEN 0
                     ELSE CHOOSE i \in spaces : \A k \in spaces : k <= i
<1>1. Len(line) \in Nat /\ DOMAIN line = 1..Len(line)
  OBVIOUS
<1>2. last \in 0..Len(line)
  <2>1. CASE spaces = {}
    <3>1. last = 0
      BY <2>1
    <3> HIDE DEF last
    <3>2. QED
      BY <1>1, <3>1
  <2>2. CASE spaces # {}
    <3>1. spaces \in SUBSET (1..Len(line))
      BY <1>1
    <3> HIDE DEF spaces
    <3>2. \E i \in spaces : \A k \in spaces : k <= i
      BY <1>1, <2>2, <3>1, LastOf
    <3>3. last \in spaces
      BY <2>2, <3>2
    <3> HIDE DEF last
    <3>4. QED
      BY <1>1, <3>1, <3>3
  <2>3. QED
    BY <2>1, <2>2
<1>3. Picker!LastWord(line) = Picker!After(line, last)
  BY DEF Picker!LastWord
<1> HIDE DEF last
<1>4. QED
  BY <1>2, <1>3, Halves

\* The prefix of the provider is a text, or there is none.
LEMMA PrefixIsText ==
  ASSUME NEW before \in Seq(Picker!Chars), NEW force \in BOOLEAN
  PROVE  Picker!PrefixFor(before, force) \in Seq(Picker!Chars) \cup {None}
<1>1. Picker!PrefixFor(before, force) \in {before, None, Picker!LastWord(before)}
  BY Zenon DEF Picker!PrefixFor
<1>2. QED
  BY <1>1, LastWordIsText

\* line.slice gives a part of the line, also when it counts from its end.
LEMMA SliceIsText ==
  ASSUME NEW line \in Seq(Picker!Chars), NEW n \in Int, n <= Len(line)
  PROVE  Picker!Head0(line, n) \in Seq(Picker!Chars)
<1> DEFINE u == IF n >= 0 THEN n ELSE IF Len(line) + n > 0 THEN Len(line) + n ELSE 0
<1>1. PICK m \in Nat : m = Len(line)
  OBVIOUS
<1>2. u \in 0..m
  BY <1>1
<1>3. Picker!Head0(line, n) = SubSeq(line, 1, u)
  BY DEF Picker!Head0
<1> HIDE DEF u
<1>4. QED
  BY <1>1, <1>2, <1>3

\* Three characters are a text.
LEMMA ShortText ==
  ASSUME NEW S, NEW a \in S, NEW b \in S, NEW c \in S
  PROVE  <<a, b, c>> \in Seq(S) /\ << b >> \in Seq(S)
  OBVIOUS

\* A completion leaves a text, and the cursor in it.
LEMMA CompletedIsText ==
  ASSUME NEW line \in Seq(Picker!Chars), NEW at \in 0..Len(line), NEW prefix \in Seq(Picker!Chars)
  PROVE  /\ Picker!Completed(line, at, prefix).text \in Seq(Picker!Chars)
         /\ Picker!Completed(line, at, prefix).col \in 0..Len(Picker!Completed(line, at, prefix).text)
<1> DEFINE kept == Picker!Head0(line, at - Len(prefix))
           rest == Picker!After(line, at)
<1>1. kept \in Seq(Picker!Chars)
  <2>1. PICK n \in Nat : n = Len(line)
    OBVIOUS
  <2>2. PICK k \in Nat : k = Len(prefix)
    OBVIOUS
  <2>3. at - k \in Int /\ at - k <= n
    BY <2>1
  <2>4. QED
    BY <2>1, <2>2, <2>3, SliceIsText
<1>2. rest \in Seq(Picker!Chars)
  BY Halves
<1>3. PICK put \in Seq(Picker!Chars) :
        Picker!Completed(line, at, prefix) = [text |-> kept \o put \o rest, col |-> Len(kept) + Len(put)]
  <2>1. <<"/", Picker!Word, " ">> \in Seq(Picker!Chars) /\ <<Picker!Word>> \in Seq(Picker!Chars)
    <3>1. "/" \in Picker!Chars /\ Picker!Word \in Picker!Chars /\ " " \in Picker!Chars
      BY Zenon DEF Picker!Chars
    <3>2. QED
      BY <3>1, ShortText, Zenon
  <2>2. \/ Picker!Completed(line, at, prefix) =
             [text |-> kept \o <<"/", Picker!Word, " ">> \o rest, col |-> Len(kept) + Len(<<"/", Picker!Word, " ">>)]
        \/ Picker!Completed(line, at, prefix) =
             [text |-> kept \o <<Picker!Word>> \o rest, col |-> Len(kept) + Len(<<Picker!Word>>)]
    BY Zenon DEF Picker!Completed
  <2>3. QED
    BY <2>1, <2>2, Zenon
<1> HIDE DEF kept, rest
<1>5. kept \o put \in Seq(Picker!Chars) /\ Len(kept \o put) = Len(kept) + Len(put)
  BY <1>1, ConcatProperties
<1>6. /\ (kept \o put) \o rest \in Seq(Picker!Chars)
      /\ Len((kept \o put) \o rest) = Len(kept \o put) + Len(rest)
  BY <1>2, <1>5, ConcatProperties
<1>7. Len(kept) + Len(put) \in 0..Len(kept \o put \o rest)
  <2>1. Len(kept) \in Nat /\ Len(put) \in Nat /\ Len(rest) \in Nat
    BY <1>1, <1>2, LenProperties
  <2>2. PICK a \in Nat, b \in Nat, c \in Nat : a = Len(kept) /\ b = Len(put) /\ c = Len(rest)
    BY <2>1
  <2>3. Len(kept \o put \o rest) = a + b + c
    BY <1>5, <1>6, <2>2
  <2>4. a + b \in 0..(a + b + c)
    OBVIOUS
  <2>5. QED
    BY <2>2, <2>3, <2>4
<1>8. QED
  <2> DEFINE done == Picker!Completed(line, at, prefix)
  <2>1. done.text = kept \o put \o rest /\ done.col = Len(kept) + Len(put)
    BY <1>3
  <2>2. QED
    BY <1>6, <1>7, <2>1

-----------------------------------------------------------------------------
(* Requests. *)

\* The chain when the request that is with the provider has been called off.
CalledOff == [i \in DOMAIN tasks |-> [tasks[i] EXCEPT !.aborted = @ \/ tasks[i].at # None]]

\* Every request of a chain is an old one at `now`.
Old(r, now) ==
  /\ r.token < now
  /\ r.at # None => RunsFor(r) /\ r.aborted
  /\ r.aborted => r.at # None
Ordered(chain) ==
  /\ \A i \in DOMAIN chain : i > 1 => chain[i].at = None
  /\ \A i, k \in DOMAIN chain : i < k => chain[i].token < chain[k].token

\* What the fields of a request may be.
LEMMA FieldsOfTask ==
  ASSUME NEW r \in Tasks
  PROVE  /\ r.token \in Nat /\ r.force \in BOOLEAN /\ r.tab \in BOOLEAN /\ r.aborted \in BOOLEAN
         /\ r.at \in Picker!Places \cup {None} /\ r.prefix \in Seq(Picker!Chars) \cup {None}
  BY DEF Tasks

\* Calling a request off changes nothing else of it.
LEMMA AbortOne ==
  ASSUME NEW r \in Tasks, NEW b \in BOOLEAN
  PROVE  /\ [r EXCEPT !.aborted = b] \in Tasks
         /\ [r EXCEPT !.aborted = b].token = r.token /\ [r EXCEPT !.aborted = b].force = r.force
         /\ [r EXCEPT !.aborted = b].tab = r.tab /\ [r EXCEPT !.aborted = b].at = r.at
         /\ [r EXCEPT !.aborted = b].prefix = r.prefix /\ [r EXCEPT !.aborted = b].aborted = b
  BY DEF Tasks

\* cancelAutocompleteRequest leaves old requests only.
LEMMA AllAreOld ==
  ASSUME PickerTypes, ChainInv
  PROVE  /\ CalledOff \in Seq(Tasks) /\ Len(CalledOff) = Len(tasks) /\ DOMAIN CalledOff = DOMAIN tasks
         /\ \A i \in DOMAIN CalledOff : Old(CalledOff[i], token + 1)
         /\ Ordered(CalledOff)
<1>1. tasks \in Seq(Tasks) /\ DOMAIN tasks = 1..Len(tasks) /\ Len(tasks) \in Nat /\ token \in Nat
  BY DEF PickerTypes
<1>2. \A i \in DOMAIN tasks : tasks[i] \in Tasks
  BY <1>1
<1>3. ASSUME NEW i \in DOMAIN tasks
      PROVE  /\ CalledOff[i] \in Tasks
             /\ CalledOff[i].token = tasks[i].token /\ CalledOff[i].force = tasks[i].force
             /\ CalledOff[i].at = tasks[i].at /\ CalledOff[i].prefix = tasks[i].prefix
             /\ CalledOff[i].aborted <=> tasks[i].aborted \/ tasks[i].at # None
  <2> DEFINE b == tasks[i].aborted \/ tasks[i].at # None
  <2>1. b \in BOOLEAN
    OBVIOUS
  <2>2. CalledOff[i] = [tasks[i] EXCEPT !.aborted = b]
    BY <1>2 DEF CalledOff, Tasks
  <2> HIDE DEF b
  <2>3. PICK r \in Tasks : r = tasks[i]
    BY <1>2
  <2>4. CalledOff[i] \in Tasks /\ CalledOff[i].token = r.token /\ CalledOff[i].force = r.force
        /\ CalledOff[i].at = r.at /\ CalledOff[i].prefix = r.prefix /\ CalledOff[i].aborted = b
    BY <2>1, <2>2, <2>3, AbortOne
  <2>5. QED
    BY <2>3, <2>4 DEF b
<1>4. DOMAIN CalledOff = DOMAIN tasks
  BY DEF CalledOff
<1>5. CalledOff \in Seq(Tasks) /\ Len(CalledOff) = Len(tasks)
  <2>1. CalledOff \in [1..Len(tasks) -> Tasks]
    BY <1>1, <1>3 DEF CalledOff
  <2>2. QED
    BY <1>1, <2>1
<1>6. ASSUME NEW i \in DOMAIN CalledOff
      PROVE  Old(CalledOff[i], token + 1)
  <2>1. Sane(tasks[i]) /\ tasks[i].token \in Nat
    BY <1>2, <1>4, FieldsOfTask DEF ChainInv
  <2>2. tasks[i].token < token + 1
    BY <1>1, <2>1 DEF Sane
  <2>3. CalledOff[i].at # None => RunsFor(CalledOff[i])
    BY <1>3, <1>4, <2>1 DEF Sane, RunsFor
  <2>4. QED
    BY <1>3, <1>4, <2>1, <2>2, <2>3 DEF Old, Sane
<1>7. Ordered(CalledOff)
  BY <1>3, <1>4 DEF Ordered, ChainInv
<1>8. QED
  BY <1>4, <1>5, <1>6, <1>7

\* A chain of old requests, and of one more at its end that is not with the provider yet.
LEMMA OneMoreRequest ==
  ASSUME NEW chain \in Seq(Tasks), NEW now \in Nat, NEW r \in Tasks,
         \A i \in DOMAIN chain : Old(chain[i], now), Ordered(chain),
         r.token = now, r.at = None, r.aborted = FALSE,
         tasks' = Append(chain, r), token' = now, timer' = None,
         r.tab => picker' = None
  PROVE  tasks' \in Seq(Tasks) /\ ChainInv' /\ \E i \in DOMAIN tasks' : tasks'[i] = r
<1> DEFINE n == Len(chain)
<1>1. n \in Nat /\ DOMAIN chain = 1..n
  OBVIOUS
<1>2. /\ tasks' \in Seq(Tasks) /\ DOMAIN tasks' = 1..(n + 1)
      /\ \A i \in 1..n : tasks'[i] = chain[i]
      /\ tasks'[n + 1] = r
  BY AppendProperties
<1> HIDE DEF n
<1>3. \A i \in 1..n : Old(tasks'[i], now) /\ tasks'[i].token \in Nat
  <2>1. \A i \in 1..n : chain[i] \in Tasks
    BY <1>1
  <2>2. QED
    BY <1>1, <1>2, <2>1, FieldsOfTask
<1>4. ASSUME NEW i \in 1..(n + 1)
      PROVE  Sane(tasks[i])' /\ (i > 1 => tasks'[i].at = None)
  <2>1. CASE i \in 1..n
    <3>1. Old(tasks'[i], now) /\ tasks'[i].token \in Nat
      BY <1>3, <2>1
    <3>2. Sane(tasks[i])'
      <4> DEFINE t == tasks'[i].token
      <4>0. t \in Nat /\ t < now
        BY <3>1 DEF Old
      <4> HIDE DEF t
      <4>1. t <= token' /\ t # token'
        BY <4>0
      <4>2. tasks'[i].at # None => RunsFor(tasks'[i]) /\ tasks'[i].aborted
        BY <3>1 DEF Old
      <4>3. tasks'[i].aborted => tasks'[i].at # None
        BY <3>1 DEF Old
      <4>4. QED
        BY <4>1, <4>2, <4>3 DEF Sane, RunsFor, t
    <3>3. i > 1 => tasks'[i].at = None
      BY <1>1, <1>2, <2>1 DEF Ordered
    <3>4. QED
      BY <3>2, <3>3
  <2>2. CASE i = n + 1
    BY <1>2, <2>2 DEF Sane
  <2>3. QED
    BY <1>1, <2>1, <2>2
<1>5. ASSUME NEW i \in 1..(n + 1), NEW k \in 1..(n + 1), i < k
      PROVE  tasks'[i].token < tasks'[k].token
  <2>1. i \in 1..n
    BY <1>1, <1>5
  <2>2. CASE k \in 1..n
    BY <1>1, <1>2, <1>5, <2>1, <2>2 DEF Ordered
  <2>3. CASE k = n + 1
    BY <1>2, <1>3, <2>1, <2>3 DEF Old
  <2>4. QED
    BY <1>1, <2>2, <2>3
<1>6. ChainInv'
  BY <1>2, <1>4, <1>5 DEF ChainInv
<1>7. n + 1 \in DOMAIN tasks'
  BY <1>1, <1>2
<1>8. QED
  BY <1>2, <1>6, <1>7

\* A chain of old requests alone, with a request that waits for the timer or without.
LEMMA OnlyOldRequests ==
  ASSUME NEW chain \in Seq(Tasks), NEW now \in Nat,
         \A i \in DOMAIN chain : Old(chain[i], now), Ordered(chain),
         tasks' = chain, token' = now,
         timer' # None => timer'.token = now /\ timer'.tab = FALSE
  PROVE  ChainInv'
<1>1. \A i \in DOMAIN tasks' : Old(tasks'[i], now) /\ tasks'[i].token \in Nat
  BY FieldsOfTask
<1>2. ASSUME NEW i \in DOMAIN tasks'
      PROVE  Sane(tasks[i])' /\ (i > 1 => tasks'[i].at = None)
  BY <1>1 DEF Sane, Old, RunsFor, Ordered
<1>3. QED
  BY <1>1, <1>2 DEF ChainInv, Old, Ordered

\* A request that joins the chain has not been with the provider.
LEMMA WaitingIsATask ==
  ASSUME NEW r \in Picker!Requests
  PROVE  /\ Picker!Waiting(r) \in Tasks
         /\ Picker!Waiting(r).token = r.token /\ Picker!Waiting(r).tab = r.tab
         /\ Picker!Waiting(r).at = None /\ Picker!Waiting(r).aborted = FALSE
<1>1. r.token \in Nat /\ r.force \in BOOLEAN /\ r.tab \in BOOLEAN
  BY DEF Picker!Requests
<1>2. QED
  BY <1>1 DEF Picker!Waiting, Tasks

\* requestAutocomplete, of the text as the key has left it.
LEMMA RequestKeeps ==
  ASSUME PickerInv, text' \in Seq(Picker!Chars), col' \in 0..Len(text'), pressed' \in Nat,
         picker' = picker, asked' = asked,
         NEW force \in BOOLEAN, NEW tab \in BOOLEAN, tab => picker = None,
         Picker!Request(text', col', force, tab)
  PROVE  PickerInv'
<1>1. PickerTypes /\ ChainInv
  BY DEF PickerInv
<1>2. token \in Nat /\ token + 2 \in Nat /\ token + 1 < token + 2
  BY <1>1 DEF PickerTypes
<1> DEFINE mine == [token |-> token + 2, force |-> force, tab |-> tab]
<1>3. mine \in Picker!Requests
  BY <1>2 DEF Picker!Requests
<1>4. /\ token' = token + 2 /\ wanted' = [text |-> text', col |-> col']
      /\ \/ timer' = mine /\ tasks' = CalledOff /\ tab = FALSE
         \/ timer' = None /\ tasks' = Append(CalledOff, Picker!Waiting(mine))
  <2>1. (token + 1) + 1 = token + 2
    BY <1>2
  <2>2. QED
    BY <2>1 DEF Picker!Request, Picker!AbortedRequest, Picker!Chained, CalledOff
<1> HIDE DEF mine
<1>5. /\ CalledOff \in Seq(Tasks) /\ Ordered(CalledOff)
      /\ \A i \in DOMAIN CalledOff : Old(CalledOff[i], token + 2)
  <2>1. CalledOff \in Seq(Tasks) /\ Ordered(CalledOff)
        /\ \A i \in DOMAIN CalledOff : Old(CalledOff[i], token + 1) /\ CalledOff[i].token \in Nat
    BY <1>1, AllAreOld, FieldsOfTask
  <2>2. QED
    BY <1>2, <2>1 DEF Old
<1>6. mine.token = token + 2 /\ mine.tab = tab
  BY DEF mine
<1>7. wanted' \in Picker!Places /\ wanted' = Here'
  <2>1. col' \in Nat
    OBVIOUS
  <2>2. QED
    BY <1>4, <2>1 DEF Picker!Places, Here
<1>8. CASE timer' = mine /\ tasks' = CalledOff /\ tab = FALSE
  <2>1. timer' # None
    BY <1>3, <1>8, SuggestedAssumption DEF Picker!SuggestionsAssumption
  <2>2. ChainInv'
    BY <1>2, <1>4, <1>5, <1>6, <1>8, OnlyOldRequests
  <2>3. PickerTypes'
    BY <1>1, <1>2, <1>3, <1>4, <1>5, <1>7, <1>8 DEF PickerTypes
  <2>4. FollowInv' /\ WantInv'
    BY <1>7, <2>1 DEF FollowInv, WantInv
  <2>5. QED
    BY <2>2, <2>3, <2>4 DEF PickerInv
<1>9. CASE timer' = None /\ tasks' = Append(CalledOff, Picker!Waiting(mine))
  <2> DEFINE r == Picker!Waiting(mine)
  <2>1. r \in Tasks /\ r.token = token + 2 /\ r.at = None /\ r.aborted = FALSE /\ r.tab = tab
    BY <1>3, <1>6, WaitingIsATask
  <2> HIDE DEF r
  <2>2. tasks' = Append(CalledOff, r)
    BY <1>9 DEF r
  <2>3. tasks' \in Seq(Tasks) /\ ChainInv' /\ \E i \in DOMAIN tasks' : tasks'[i] = r
    BY <1>2, <1>4, <1>5, <1>9, <2>1, <2>2, OneMoreRequest
  <2>4. PickerTypes'
    BY <1>1, <1>2, <1>4, <1>7, <1>9, <2>3 DEF PickerTypes
  <2>5. FollowInv' /\ WantInv'
    BY <1>4, <1>7, <2>1, <2>3 DEF FollowInv, WantInv, Lives, WillAsk
  <2>6. QED
    BY <2>3, <2>4, <2>5 DEF PickerInv
<1>10. QED
  BY <1>4, <1>8, <1>9

\* cancelAutocomplete.
LEMMA CancelKeeps ==
  ASSUME PickerInv, text' \in Seq(Picker!Chars), col' \in 0..Len(text'), pressed' \in Nat,
         Picker!Cancel
  PROVE  PickerInv'
<1>1. PickerTypes /\ ChainInv
  BY DEF PickerInv
<1>2. token \in Nat /\ token + 1 \in Nat
  BY <1>1 DEF PickerTypes
<1>3. /\ token' = token + 1 /\ timer' = None /\ tasks' = CalledOff
      /\ picker' = None /\ wanted' = None
  BY DEF Picker!Cancel, Picker!AbortedRequest, CalledOff
<1>4. /\ CalledOff \in Seq(Tasks) /\ Ordered(CalledOff)
      /\ \A i \in DOMAIN CalledOff : Old(CalledOff[i], token + 1)
  BY <1>1, AllAreOld
<1>5. ChainInv'
  BY <1>2, <1>3, <1>4, OnlyOldRequests
<1>6. PickerTypes'
  BY <1>2, <1>3, <1>4 DEF PickerTypes
<1>7. QED
  BY <1>3, <1>5, <1>6 DEF PickerInv, FollowInv, WantInv

\* A key that asks for nothing leaves no picker open.
LEMMA SilentKeeps ==
  ASSUME PickerInv, text' \in Seq(Picker!Chars), col' \in 0..Len(text'), pressed' \in Nat,
         picker = None, picker' = picker, asked' = asked, Picker!Silent(text', col')
  PROVE  PickerInv'
<1>1. UNCHANGED <<token, timer, tasks>>
  BY DEF Picker!Silent, Picker!NoRequest
<1>2. \/ wanted' = wanted /\ text' = text /\ col' = col
      \/ wanted' = None
  BY DEF Picker!Silent
<1>3. PickerTypes'
  BY <1>1, <1>2 DEF PickerInv, PickerTypes
<1>4. ChainInv'
  BY <1>1 DEF PickerInv, ChainInv, Sane, RunsFor
<1>5. FollowInv'
  BY DEF FollowInv
<1>6. WantInv'
  BY <1>1, <1>2 DEF PickerInv, WantInv, Here, WillAsk
<1>7. QED
  BY <1>3, <1>4, <1>5, <1>6 DEF PickerInv

-----------------------------------------------------------------------------
(* Keys. *)

\* An open picker is asked for again, whatever the key would ask for without one.
LEMMA FollowKeeps ==
  ASSUME PickerInv, text' \in Seq(Picker!Chars), col' \in 0..Len(text'), pressed' \in Nat,
         asked' = asked, NEW triggers, Picker!Follow(text', col', triggers)
  PROVE  PickerInv'
<1>1. picker' = picker
  BY DEF Picker!Follow
<1>2. CASE picker # None
  <2>1. Picker!Request(text', col', picker.state = "force", FALSE)
    BY <1>2 DEF Picker!Follow
  <2>2. (picker.state = "force") \in BOOLEAN
    OBVIOUS
  <2>3. QED
    BY <1>1, <2>1, <2>2, RequestKeeps
<1>3. CASE picker = None
  <2>1. Picker!Request(text', col', FALSE, FALSE) \/ Picker!Silent(text', col')
    BY <1>3, Zenon DEF Picker!Follow
  <2>2. CASE Picker!Request(text', col', FALSE, FALSE)
    BY <1>1, <2>2, RequestKeeps
  <2>3. CASE Picker!Silent(text', col')
    BY <1>1, <1>3, <2>3, SilentKeeps
  <2>4. QED
    BY <2>1, <2>2, <2>3
<1>4. QED
  BY <1>2, <1>3

\* A key leaves a text and the cursor in it.
LEMMA TextBeforeKey ==
  ASSUME PickerInv
  PROVE  /\ text \in Seq(Picker!Chars) /\ Len(text) \in Nat /\ col \in 0..Len(text) /\ col \in Nat
         /\ pressed \in Nat /\ pressed + 1 \in Nat
         /\ picker # None => picker.prefix \in Seq(Picker!Chars)
<1>1. text \in Seq(Picker!Chars) /\ col \in 0..Len(text) /\ pressed \in Nat
  BY DEF PickerInv, PickerTypes
<1>2. picker # None => picker.prefix \in Seq(Picker!Chars)
  BY DEF PickerInv, PickerTypes, Picker!Pickers
<1>3. QED
  BY <1>1, <1>2

\* What replaces the text between two places.
LEMMA Spliced ==
  ASSUME NEW a \in Seq(Picker!Chars), NEW b \in Seq(Picker!Chars)
  PROVE  a \o b \in Seq(Picker!Chars) /\ Len(a) \in 0..Len(a \o b)
<1>1. a \o b \in Seq(Picker!Chars) /\ Len(a \o b) = Len(a) + Len(b)
  BY ConcatProperties
<1>2. PICK m \in Nat, n \in Nat : m = Len(a) /\ n = Len(b)
  BY LenProperties
<1>3. QED
  BY <1>1, <1>2

\* A character is put before the cursor, and the cursor moves past it.
LEMMA TypedAfter ==
  ASSUME PickerInv, NEW ch \in Picker!Chars
  PROVE  LET line == Append(Picker!Before(text, col), ch) \o Picker!After(text, col)
         IN  line \in Seq(Picker!Chars) /\ col + 1 \in 0..Len(line)
<1> DEFINE left == Append(Picker!Before(text, col), ch)
<1>1. Picker!Before(text, col) \in Seq(Picker!Chars) /\ Len(Picker!Before(text, col)) = col
      /\ Picker!After(text, col) \in Seq(Picker!Chars)
  BY TextBeforeKey, Halves
<1>2. left \in Seq(Picker!Chars) /\ Len(left) = col + 1
  BY <1>1, AppendProperties
<1> HIDE DEF left
<1>3. QED
  BY <1>1, <1>2, Spliced DEF left

\* insertCharacter.
LEMMA TypeKeeps ==
  ASSUME PickerInv, NEW ch \in Typed, Picker!Type(ch)
  PROVE  PickerInv'
<1> DEFINE line == Append(Picker!Before(text, col), ch) \o Picker!After(text, col)
           triggers == Picker!CharacterTriggers(ch, Picker!Before(line, col + 1))
<1>1. ch \in Picker!Chars
  BY SuggestedAssumption, Zenon DEF Picker!SuggestionsAssumption, Picker!Chars
<1>2. line \in Seq(Picker!Chars) /\ col + 1 \in 0..Len(line)
  BY <1>1, TypedAfter
<1>3. /\ text' = line /\ col' = col + 1 /\ Picker!Follow(line, col + 1, triggers)
      /\ pressed' = pressed + 1 /\ asked' = asked
  BY DEF Picker!Type, Picker!Key, Picker!Show
<1> HIDE DEF line, triggers
<1>4. Picker!Follow(text', col', triggers) /\ text' \in Seq(Picker!Chars) /\ col' \in 0..Len(text')
  BY <1>2, <1>3
<1>5. QED
  BY <1>3, <1>4, TextBeforeKey, FollowKeeps

\* handleBackspace, also when there is nothing before the cursor.
LEMMA BackspaceKeeps ==
  ASSUME PickerInv, Picker!Backspace
  PROVE  PickerInv'
<1> DEFINE at   == IF col > 0 THEN col - 1 ELSE 0
           kept == Picker!Head0(text, at)
           line == kept \o Picker!After(text, col)
           triggers == Picker!DeletionTriggers(Picker!Before(line, at))
<1>0. PICK n \in Nat : n = Len(text)
  BY TextBeforeKey
<1>1. at \in 0..n
  BY <1>0, TextBeforeKey
<1>2. kept = Picker!Before(text, at)
  <2> HIDE DEF at
  <2>1. QED
    BY <1>1 DEF Picker!Head0, Picker!Before
<1>3. /\ text' = line /\ col' = at /\ Picker!Follow(line, at, triggers)
      /\ pressed' = pressed + 1 /\ asked' = asked
  BY DEF Picker!Backspace, Picker!Key, Picker!Show
<1>4. kept \in Seq(Picker!Chars) /\ Len(kept) = at /\ Picker!After(text, col) \in Seq(Picker!Chars)
  <2> HIDE DEF at, kept
  <2>1. QED
    BY <1>0, <1>1, <1>2, TextBeforeKey, Halves
<1>5. line \in Seq(Picker!Chars) /\ at \in 0..Len(line)
  <2> HIDE DEF kept, at
  <2>1. QED
    BY <1>4, Spliced
<1> HIDE DEF at, line, triggers
<1>6. Picker!Follow(text', col', triggers) /\ text' \in Seq(Picker!Chars) /\ col' \in 0..Len(text')
  BY <1>3, <1>5
<1>7. QED
  BY <1>3, <1>6, TextBeforeKey, FollowKeeps

\* handleForwardDelete, also when there is nothing after the cursor.
LEMMA ForwardDeleteKeeps ==
  ASSUME PickerInv, Picker!ForwardDelete
  PROVE  PickerInv'
<1> DEFINE line == IF col < Len(text) THEN Picker!Before(text, col) \o Picker!After(text, col + 1) ELSE text
           triggers == Picker!DeletionTriggers(Picker!Before(line, col))
<1>1. /\ text' = line /\ col' = col /\ Picker!Follow(line, col, triggers)
      /\ pressed' = pressed + 1 /\ asked' = asked
  BY DEF Picker!ForwardDelete, Picker!Key, Picker!Show
<1>2. line \in Seq(Picker!Chars) /\ col \in 0..Len(line)
  <2>1. CASE col < Len(text)
    <3>1. Picker!Before(text, col) \in Seq(Picker!Chars) /\ Len(Picker!Before(text, col)) = col
      BY TextBeforeKey, Halves
    <3>2. col + 1 \in 0..Len(text)
      BY <2>1, TextBeforeKey
    <3>3. Picker!After(text, col + 1) \in Seq(Picker!Chars)
      BY <3>2, TextBeforeKey, Halves
    <3>4. line = Picker!Before(text, col) \o Picker!After(text, col + 1)
      BY <2>1
    <3> HIDE DEF line
    <3>5. QED
      BY <3>1, <3>3, <3>4, Spliced
  <2>2. CASE ~ (col < Len(text))
    BY <2>2, TextBeforeKey
  <2>3. QED
    BY <2>1, <2>2
<1> HIDE DEF line, triggers
<1>3. Picker!Follow(text', col', triggers) /\ text' \in Seq(Picker!Chars) /\ col' \in 0..Len(text')
  BY <1>1, <1>2
<1>4. QED
  BY <1>1, <1>3, TextBeforeKey, FollowKeeps

\* moveCursor, also at the ends of the line.
LEMMA MoveKeeps ==
  ASSUME PickerInv, Picker!Left \/ Picker!Right
  PROVE  PickerInv'
<1>1. PICK at \in 0..Len(text) : Picker!Key /\ Picker!Show(text, at) /\ Picker!Moved(at)
  <2>1. PICK n \in Nat : n = Len(text)
    BY TextBeforeKey
  <2>2. (IF col > 0 THEN col - 1 ELSE 0) \in 0..n /\ (IF col < Len(text) THEN col + 1 ELSE col) \in 0..n
    BY <2>1, TextBeforeKey
  <2>3. CASE Picker!Left
    BY <2>1, <2>2, <2>3 DEF Picker!Left
  <2>4. CASE Picker!Right
    BY <2>1, <2>2, <2>4 DEF Picker!Right
  <2>5. QED
    BY <2>3, <2>4
<1>2. /\ text' = text /\ col' = at /\ pressed' = pressed + 1 /\ asked' = asked
      /\ Picker!Follow(text', col', FALSE)
  BY <1>1 DEF Picker!Key, Picker!Show, Picker!Moved
<1>3. QED
  BY <1>2, TextBeforeKey, FollowKeeps

\* Tab takes the word that is selected, or asks with no picker open.
LEMMA TabKeeps ==
  ASSUME PickerInv, Picker!Tab
  PROVE  PickerInv'
<1>1. pressed' = pressed + 1 /\ asked' = asked
  BY Zenon DEF Picker!Tab, Picker!Key
<1>2. CASE picker # None
  <2> DEFINE done == Picker!Completed(text, col, picker.prefix)
  <2>1. text' = done.text /\ col' = done.col /\ Picker!Cancel
    BY <1>2, Zenon DEF Picker!Tab, Picker!Show
  <2>2. done.text \in Seq(Picker!Chars) /\ done.col \in 0..Len(done.text)
    BY <1>2, TextBeforeKey, CompletedIsText
  <2> HIDE DEF done
  <2>3. QED
    BY <1>1, <2>1, <2>2, TextBeforeKey, CancelKeeps
<1>3. CASE picker = None
  <2>1. /\ text' = text /\ col' = col /\ picker' = picker
        /\ \/ Picker!Request(text, col, FALSE, TRUE) \/ Picker!Request(text, col, TRUE, TRUE)
           \/ Picker!Silent(text, col)
    BY <1>3, Zenon DEF Picker!Tab, Picker!Show
  <2>2. CASE Picker!Silent(text, col)
    BY <1>1, <1>3, <2>1, <2>2, TextBeforeKey, SilentKeeps
  <2>3. ASSUME NEW force \in BOOLEAN, Picker!Request(text, col, force, TRUE)
        PROVE  PickerInv'
    <3>1. Picker!Request(text', col', force, TRUE)
      BY <2>1, <2>3
    <3>2. QED
      BY <1>1, <1>3, <2>1, <3>1, TextBeforeKey, RequestKeeps
  <2>4. QED
    BY <2>1, <2>2, <2>3
<1>4. QED
  BY <1>2, <1>3

\* Enter leaves an empty line or the completed one, and no picker.
LEMMA EnterKeeps ==
  ASSUME PickerInv, Picker!Enter
  PROVE  PickerInv'
<1> DEFINE done == Picker!Completed(text, col, picker.prefix)
<1>1. pressed' = pressed + 1 /\ Picker!Cancel
  BY Zenon DEF Picker!Enter, Picker!Key
<1>2. \/ text' = << >> /\ col' = 0
      \/ picker # None /\ text' = done.text /\ col' = done.col
  BY Zenon DEF Picker!Enter, Picker!Show
<1>3. text' \in Seq(Picker!Chars) /\ col' \in 0..Len(text')
  <2>1. << >> \in Seq(Picker!Chars) /\ 0 \in 0..Len(<< >>)
    OBVIOUS
  <2>2. picker # None => done.text \in Seq(Picker!Chars) /\ done.col \in 0..Len(done.text)
    BY TextBeforeKey, CompletedIsText
  <2> HIDE DEF done
  <2>3. QED
    BY <1>2, <2>1, <2>2
<1>4. QED
  BY <1>1, <1>3, TextBeforeKey, CancelKeeps

\* Escape closes the picker.
LEMMA EscapeKeeps ==
  ASSUME PickerInv, Picker!Escape
  PROVE  PickerInv'
<1>1. text' = text /\ col' = col /\ pressed' = pressed + 1 /\ Picker!Cancel
  BY DEF Picker!Escape, Picker!Key, Picker!Show
<1>2. QED
  BY <1>1, TextBeforeKey, CancelKeeps

\* handlePaste closes the picker.
LEMMA PasteKeeps ==
  ASSUME PickerInv, Picker!Paste
  PROVE  PickerInv'
<1> DEFINE line == Append(Picker!Before(text, col), "a") \o Picker!After(text, col)
<1>1. "a" \in Picker!Chars
  BY Zenon DEF Picker!Chars
<1>2. line \in Seq(Picker!Chars) /\ col + 1 \in 0..Len(line)
  BY <1>1, TypedAfter
<1>3. text' = line /\ col' = col + 1 /\ pressed' = pressed + 1 /\ Picker!Cancel
  BY DEF Picker!Paste, Picker!Key, Picker!Show
<1> HIDE DEF line
<1>4. QED
  BY <1>2, <1>3, TextBeforeKey, CancelKeeps

-----------------------------------------------------------------------------
(* What runs between the keys. *)

\* The timer fires: its request is the last of the chain.
LEMMA DebouncedKeeps ==
  ASSUME PickerInv, Picker!Debounced
  PROVE  PickerInv'
<1>1. PickerTypes /\ ChainInv
  BY DEF PickerInv
<1>2. /\ timer # None /\ timer' = None /\ tasks' = Append(tasks, Picker!Waiting(timer))
      /\ UNCHANGED <<text, col, picker, token, pressed, wanted, asked>>
  BY DEF Picker!Debounced, Picker!Chained
<1>3. timer \in Picker!Requests /\ token \in Nat /\ tasks \in Seq(Tasks)
  BY <1>1, <1>2 DEF PickerTypes
<1>4. /\ timer.token = token /\ timer.tab = FALSE
      /\ \A i \in DOMAIN tasks : tasks[i].token < token
  BY <1>1, <1>2 DEF ChainInv
<1> DEFINE r == Picker!Waiting(timer)
<1>5. r \in Tasks /\ r.token = token /\ r.tab = FALSE /\ r.at = None /\ r.aborted = FALSE
  BY <1>3, <1>4, WaitingIsATask
<1>6. tasks' = Append(tasks, r)
  BY <1>2
<1> HIDE DEF r
<1>7. ASSUME NEW i \in DOMAIN tasks
      PROVE  Old(tasks[i], token)
  <2>1. Sane(tasks[i]) /\ tasks[i].token < token /\ tasks[i] \in Tasks
    BY <1>1, <1>3, <1>4 DEF ChainInv
  <2>2. tasks[i].token # token
    BY <1>3, <2>1, FieldsOfTask
  <2>3. QED
    BY <2>1, <2>2 DEF Old, Sane
<1>8. Ordered(tasks)
  BY <1>1 DEF ChainInv, Ordered
<1>9. tasks' \in Seq(Tasks) /\ ChainInv' /\ \E i \in DOMAIN tasks' : tasks'[i] = r
  <2>1. token' = token
    BY <1>2
  <2>2. QED
    BY <1>2, <1>3, <1>5, <1>6, <1>7, <1>8, <2>1, OneMoreRequest
<1>10. PickerTypes'
  BY <1>1, <1>2, <1>9 DEF PickerTypes
<1>11. FollowInv'
  BY <1>2, <1>5, <1>9 DEF FollowInv, Lives
<1>12. WantInv'
  <2>1. wanted # None => wanted = Here
    BY DEF PickerInv, WantInv
  <2>2. QED
    BY <1>2, <1>5, <1>9, <2>1 DEF WantInv, WillAsk, Here
<1>13. QED
  BY <1>9, <1>10, <1>11, <1>12 DEF PickerInv

\* The first of the chain leaves it: the others are what they were.
LEMMA FirstLeaves ==
  ASSUME PickerTypes, ChainInv, tasks # << >>, tasks' = Tail(tasks)
  PROVE  /\ tasks' \in Seq(Tasks)
         /\ \A i \in DOMAIN tasks' : i + 1 \in DOMAIN tasks /\ i + 1 > 1 /\ tasks'[i] = tasks[i + 1]
         /\ \A i \in DOMAIN tasks : i = 1 \/ \E k \in DOMAIN tasks' : tasks'[k] = tasks[i]
         /\ 1 \in DOMAIN tasks /\ tasks[1] \in Tasks
<1>1. PICK n \in Nat : n = Len(tasks) /\ n > 0 /\ DOMAIN tasks = 1..n
  BY EmptySeq, LenProperties DEF PickerTypes
<1>2. tasks' \in Seq(Tasks) /\ Len(tasks') = n - 1 /\ \A i \in 1..(n - 1) : tasks'[i] = tasks[i + 1]
  BY <1>1, HeadTailProperties DEF PickerTypes
<1>3. DOMAIN tasks' = 1..(n - 1)
  BY <1>2, LenProperties
<1>4. ASSUME NEW i \in 1..n, i # 1
      PROVE  \E k \in DOMAIN tasks' : tasks'[k] = tasks[i]
  <2>1. i - 1 \in 1..(n - 1) /\ (i - 1) + 1 = i
    BY <1>1, <1>4
  <2>2. QED
    BY <1>2, <1>3, <2>1
<1>5. 1 \in 1..n /\ tasks[1] \in Tasks
  BY <1>1 DEF PickerTypes
<1>6. QED
  BY <1>1, <1>2, <1>3, <1>4, <1>5

\* It leaves the others in order.
LEMMA ShorterChain ==
  ASSUME PickerTypes, ChainInv, tasks # << >>, tasks' = Tail(tasks), token' = token, timer' = timer,
         picker' = picker
  PROVE  ChainInv'
<1>1. /\ tasks' \in Seq(Tasks)
      /\ \A i \in DOMAIN tasks' : i + 1 \in DOMAIN tasks /\ i + 1 > 1 /\ tasks'[i] = tasks[i + 1]
  BY FirstLeaves
<1>2. DOMAIN tasks' \subseteq Int
  BY <1>1, LenProperties
<1>3. ASSUME NEW i \in DOMAIN tasks'
      PROVE  Sane(tasks[i])' /\ tasks'[i].at = None
  <2>1. Sane(tasks[i + 1]) /\ tasks[i + 1].at = None /\ tasks'[i] = tasks[i + 1]
    BY <1>1 DEF ChainInv
  <2>2. QED
    BY <2>1 DEF Sane, RunsFor
<1>4. ASSUME NEW i \in DOMAIN tasks', NEW k \in DOMAIN tasks', i < k
      PROVE  tasks'[i].token < tasks'[k].token
  <2>1. i + 1 < k + 1
    BY <1>2, <1>4
  <2>2. QED
    BY <1>1, <2>1 DEF ChainInv
<1>5. timer' # None => /\ timer'.token = token' /\ timer'.tab = FALSE
                       /\ \A i \in DOMAIN tasks' : tasks'[i].token < token'
  BY <1>1 DEF ChainInv
<1>6. QED
  BY <1>3, <1>4, <1>5 DEF ChainInv

\* The first of the chain leaves it without a word: it was not the one that is waited for.
LEMMA DroppedKeeps ==
  ASSUME PickerInv, tasks # << >>, tasks' = Tail(tasks),
         UNCHANGED <<text, col, picker, token, timer, pressed, wanted, asked>>,
         ~Lives(tasks[1]), ~WillAsk(tasks[1])
  PROVE  PickerInv'
<1>1. PickerTypes /\ ChainInv
  BY DEF PickerInv
<1>2. /\ tasks' \in Seq(Tasks)
      /\ \A i \in DOMAIN tasks : i = 1 \/ \E k \in DOMAIN tasks' : tasks'[k] = tasks[i]
  BY <1>1, FirstLeaves
<1>3. PickerTypes'
  BY <1>1, <1>2 DEF PickerTypes
<1>4. ChainInv'
  BY <1>1, ShorterChain
<1>5. FollowInv'
  <2>1. SUFFICES ASSUME picker # None, ~Fits(picker), timer = None
                 PROVE  \E k \in DOMAIN tasks' : Lives(tasks[k])'
    BY DEF FollowInv, Fits
  <2>2. PICK i \in DOMAIN tasks : Lives(tasks[i])
    BY <2>1 DEF PickerInv, FollowInv
  <2>3. PICK k \in DOMAIN tasks' : tasks'[k] = tasks[i]
    BY <1>2, <2>2
  <2>4. QED
    BY <2>2, <2>3 DEF Lives, Here
<1>6. WantInv'
  <2>1. SUFFICES ASSUME wanted # None
                 PROVE  /\ wanted = Here
                        /\ asked = wanted \/ timer # None
                             \/ \E k \in DOMAIN tasks' : WillAsk(tasks[k])'
    BY DEF WantInv, Here
  <2>2. wanted = Here
    BY <2>1 DEF PickerInv, WantInv
  <2>3. CASE asked = wanted \/ timer # None
    BY <2>2, <2>3
  <2>4. CASE ~(asked = wanted \/ timer # None)
    <3>1. PICK i \in DOMAIN tasks : WillAsk(tasks[i])
      BY <2>1, <2>4 DEF PickerInv, WantInv
    <3>2. PICK k \in DOMAIN tasks' : tasks'[k] = tasks[i]
      BY <1>2, <3>1
    <3>3. QED
      BY <2>2, <3>1, <3>2 DEF WillAsk
  <2>5. QED
    BY <2>3, <2>4
<1>7. QED
  BY <1>3, <1>4, <1>5, <1>6 DEF PickerInv

\* The provider is asked about the text as it is, or the request is out of date.
LEMMA StartKeeps ==
  ASSUME PickerInv, Picker!Start
  PROVE  PickerInv'
<1>1. PickerTypes /\ ChainInv
  BY DEF PickerInv
<1>2. /\ tasks # << >> /\ tasks[1].at = None
      /\ UNCHANGED <<text, col, picker, token, timer, pressed, wanted>>
  BY DEF Picker!Start
<1>3. CASE tasks[1].token # token
  <2>1. tasks' = Tail(tasks) /\ asked' = asked
    BY <1>3 DEF Picker!Start, Picker!ChainAfter
  <2>2. ~Lives(tasks[1]) /\ ~WillAsk(tasks[1])
    BY <1>3 DEF Lives, WillAsk
  <2>3. QED
    BY <1>2, <2>1, <2>2, DroppedKeeps
<1>4. CASE tasks[1].token = token
  <2> DEFINE P == Picker!PrefixFor(Picker!Before(text, col), tasks[1].force)
  <2>1. asked' = Here
        /\ tasks' = [tasks EXCEPT ![1].at = Here, ![1].prefix = P]
    BY <1>4 DEF Picker!Start, Here
  <2>2. PICK n \in Nat : n = Len(tasks) /\ n > 0 /\ DOMAIN tasks = 1..n
    BY <1>1, <1>2, EmptySeq, LenProperties DEF PickerTypes
  <2>3. /\ 1 \in DOMAIN tasks /\ \A i \in 1..n : tasks[i] \in Tasks
        /\ tasks[1].force \in BOOLEAN /\ tasks[1].aborted \in BOOLEAN
        /\ tasks[1].token \in Nat
    <3>1. 1 \in 1..n /\ \A i \in 1..n : tasks[i] \in Tasks
      BY <1>1, <2>2 DEF PickerTypes
    <3>2. QED
      BY <2>2, <3>1, FieldsOfTask
  <2>4. text \in Seq(Picker!Chars) /\ col \in 0..Len(text) /\ col \in Nat
    BY TextBeforeKey
  <2>5. P \in Seq(Picker!Chars) \cup {None}
    BY <2>3, <2>4, Halves, PrefixIsText
  <2>6. Here \in Picker!Places
    BY <2>4 DEF Here, Picker!Places
  <2>7. Here # None
    BY <2>6, SuggestedAssumption DEF Picker!SuggestionsAssumption
  <2> HIDE DEF P
  <2>8. PICK r \in Tasks : r = tasks[1]
    BY <2>2, <2>3
  <2>9. PICK s \in Tasks :
              /\ tasks' = [tasks EXCEPT ![1] = s]
              /\ s.token = r.token /\ s.force = r.force /\ s.tab = r.tab
              /\ s.at = Here /\ s.prefix = P /\ s.aborted = r.aborted
    <3> DEFINE u == [r EXCEPT !.at = Here, !.prefix = P]
    <3>1. /\ u \in Tasks /\ u.token = r.token /\ u.force = r.force /\ u.tab = r.tab
          /\ u.at = Here /\ u.prefix = P /\ u.aborted = r.aborted
      BY <2>5, <2>6 DEF Tasks
    <3>2. tasks' = [tasks EXCEPT ![1] = u]
      BY <2>1, <2>3, <2>8
    <3> HIDE DEF u
    <3>3. QED
      BY <3>1, <3>2
  <2>11. /\ tasks' \in Seq(Tasks) /\ DOMAIN tasks' = 1..n
         /\ tasks'[1] = s /\ \A i \in 1..n : i # 1 => tasks'[i] = tasks[i]
    <3>1. DOMAIN tasks' = 1..n /\ tasks'[1] = s /\ \A i \in 1..n : i # 1 => tasks'[i] = tasks[i]
      BY <2>2, <2>3, <2>9
    <3>2. \A i \in 1..n : tasks'[i] \in Tasks
      BY <2>3, <2>9, <3>1
    <3>3. tasks' \in [1..n -> Tasks]
      BY <2>2, <2>9, <3>1, <3>2
    <3>4. QED
      BY <2>2, <3>1, <3>3
  <2>12. timer = None
    BY <1>1, <1>4, <2>3 DEF ChainInv
  <2>13. ~r.aborted
    BY <1>1, <1>2, <2>3, <2>8 DEF ChainInv, Sane
  <2>14. Sane(s)'
    <3>1. r.token <= token /\ ((r.tab /\ r.token = token) => picker = None)
      BY <1>1, <2>3, <2>8 DEF ChainInv, Sane
    <3>2. s.prefix = Picker!PrefixFor(Picker!Before(s.at.text, s.at.col), s.force)
      <4>1. s.at.text = text /\ s.at.col = col
        BY <2>9 DEF Here
      <4>2. QED
        BY <2>8, <2>9, <4>1 DEF P
    <3>3. RunsFor(s)'
      BY <3>2 DEF RunsFor
    <3> HIDE DEF RunsFor
    <3>4. s.token = token
      BY <1>4, <2>8, <2>9
    <3>5. QED
      BY <1>2, <2>7, <2>9, <2>13, <3>1, <3>3, <3>4 DEF Sane
  <2>15. ChainInv'
    <3>1. ASSUME NEW i \in 1..n
          PROVE  Sane(tasks[i])' /\ (i > 1 => tasks'[i].at = None)
      <4>1. CASE i = 1
        BY <2>11, <2>14, <4>1 DEF Sane, RunsFor
      <4>2. CASE i # 1
        <5>1. Sane(tasks[i]) /\ (i > 1 => tasks[i].at = None) /\ tasks'[i] = tasks[i]
          BY <1>1, <2>2, <2>11, <4>2 DEF ChainInv
        <5>2. QED
          BY <1>2, <5>1 DEF Sane, RunsFor
      <4>3. QED
        BY <4>1, <4>2
    <3>2. \A i \in 1..n : tasks'[i].token = tasks[i].token
      BY <2>8, <2>9, <2>11
    <3>3. \A i, k \in 1..n : i < k => tasks'[i].token < tasks'[k].token
      BY <1>1, <2>2, <3>2 DEF ChainInv
    <3>4. timer' = None
      BY <1>2, <2>12
    <3>5. QED
      BY <2>11, <3>1, <3>3, <3>4 DEF ChainInv
  <2>16. PickerTypes'
    BY <1>1, <1>2, <2>11 DEF PickerTypes
  <2>17. FollowInv'
    <3>1. Lives(s)'
      <4>1. s.token = token /\ ~s.aborted /\ s.at = Here
        BY <1>4, <2>8, <2>9, <2>13
      <4>2. Here' = Here
        BY <1>2 DEF Here
      <4>3. QED
        BY <1>2, <4>1, <4>2 DEF Lives
    <3>2. 1 \in DOMAIN tasks' /\ Lives(tasks[1])'
      BY <2>2, <2>3, <2>11, <3>1 DEF Lives
    <3>3. QED
      BY <3>2 DEF FollowInv
  <2>18. WantInv'
    <3>1. wanted # None => wanted = Here
      BY DEF PickerInv, WantInv
    <3>2. Here' = Here
      BY <1>2 DEF Here
    <3>3. QED
      BY <1>2, <2>1, <3>1, <3>2 DEF WantInv
  <2>19. QED
    BY <2>15, <2>16, <2>17, <2>18 DEF PickerInv
<1>5. QED
  BY <1>3, <1>4

\* A request that is answered for the text as it is was the last one.
LEMMA TheLastOne ==
  ASSUME PickerTypes, ChainInv, tasks # << >>, tasks[1].at # None, Picker!Current(tasks[1])
  PROVE  /\ Tail(tasks) = << >> /\ timer = None /\ DOMAIN tasks = {1}
         /\ tasks[1] \in Tasks /\ tasks[1].token = token
         /\ tasks[1].at = Here /\ RunsFor(tasks[1])
<1>1. PICK n \in Nat : n = Len(tasks) /\ n > 0 /\ DOMAIN tasks = 1..n
  BY EmptySeq, LenProperties DEF PickerTypes
<1>2. 1 \in 1..n /\ \A i \in 1..n : tasks[i] \in Tasks /\ tasks[i].token \in Nat
  <2>1. 1 \in 1..n /\ \A i \in 1..n : tasks[i] \in Tasks
    BY <1>1 DEF PickerTypes
  <2>2. QED
    BY <2>1, FieldsOfTask
<1>3. tasks[1].at = Here /\ ~tasks[1].aborted
  BY DEF Picker!Current, Here
<1>4. tasks[1].token = token /\ RunsFor(tasks[1])
  BY <1>1, <1>2, <1>3 DEF ChainInv, Sane
<1>5. token \in Nat
  BY DEF PickerTypes
<1>6. n = 1
  <2>1. SUFFICES ASSUME n > 1 PROVE FALSE
    BY <1>1
  <2>2. 2 \in 1..n /\ 1 < 2
    BY <1>1, <2>1
  <2>3. tasks[1].token < tasks[2].token /\ tasks[2].token <= token
    BY <1>1, <1>2, <2>2 DEF ChainInv, Sane
  <2>4. QED
    BY <1>2, <1>4, <1>5, <2>2, <2>3
<1>7. timer = None
  BY <1>1, <1>2, <1>4, <1>5 DEF ChainInv
<1>8. Tail(tasks) \in Seq(Tasks) /\ Len(Tail(tasks)) = 0
  BY <1>1, <1>6, HeadTailProperties DEF PickerTypes
<1>9. Tail(tasks) = << >>
  BY <1>8, EmptySeq
<1>10. DOMAIN tasks = {1}
  BY <1>1, <1>6
<1>11. QED
  BY <1>1, <1>2, <1>3, <1>4, <1>7, <1>9, <1>10

\* An empty chain.
LEMMA NoChain ==
  ASSUME tasks' = << >>
  PROVE  /\ tasks' \in Seq(Tasks) /\ DOMAIN tasks' = {}
         /\ timer' = None => ChainInv'
<1>1. tasks' \in Seq(Tasks) /\ DOMAIN tasks' = {}
  OBVIOUS
<1>2. QED
  BY <1>1 DEF ChainInv

\* The provider answers.
LEMMA AnswerKeeps ==
  ASSUME PickerInv, NEW n \in 0..2, Picker!Answer(n)
  PROVE  PickerInv'
<1>1. PickerTypes /\ ChainInv
  BY DEF PickerInv
<1>2. /\ tasks # << >> /\ tasks[1].at # None
      /\ tasks[1].prefix = None => n = 0
      /\ UNCHANGED <<pressed, asked>> /\ tasks' = Tail(tasks)
  BY Zenon DEF Picker!Answer
<1>3. CASE ~Picker!Current(tasks[1])
  <2>1. UNCHANGED <<text, col, picker, token, timer, wanted>>
    BY <1>3, Zenon DEF Picker!Answer
  <2>2. ~Lives(tasks[1]) /\ ~WillAsk(tasks[1])
    BY <1>2, <1>3 DEF Lives, WillAsk, Picker!Current, Here
  <2>3. QED
    BY <1>2, <2>1, <2>2, DroppedKeeps
<1>4. CASE Picker!Current(tasks[1])
  <2>1. /\ tasks' = << >> /\ timer = None /\ DOMAIN tasks = {1}
        /\ tasks[1] \in Tasks /\ tasks[1].token = token
        /\ tasks[1].at = Here /\ RunsFor(tasks[1])
    BY <1>1, <1>2, <1>4, TheLastOne
  <2>2. text \in Seq(Picker!Chars) /\ col \in 0..Len(text) /\ col \in Nat
    BY TextBeforeKey
  <2>3. tasks' \in Seq(Tasks) /\ DOMAIN tasks' = {} /\ (timer' = None => ChainInv')
    BY <2>1, NoChain
  <2>4. wanted # None => wanted = Here /\ asked = wanted
    BY <1>2, <2>1 DEF PickerInv, WantInv, WillAsk
  <2>5. token \in Nat /\ pressed \in Nat /\ wanted \in Picker!Places \cup {None}
        /\ picker \in Picker!Pickers \cup {None}
    BY <1>1 DEF PickerTypes
  <2>6. tasks[1].force \in BOOLEAN /\ tasks[1].tab \in BOOLEAN
        /\ (n # 0 => tasks[1].prefix \in Seq(Picker!Chars))
    BY <1>2, <2>1, FieldsOfTask
  <2>7. CASE n = 0
    <3>1. token' = token + 1 /\ timer' = None /\ picker' = None /\ UNCHANGED <<text, col, wanted>>
      BY <1>4, <2>7, Zenon DEF Picker!Answer
    <3>2. ChainInv'
      BY <2>3, <3>1
    <3>3. PickerTypes'
      BY <1>2, <2>2, <2>3, <2>5, <3>1 DEF PickerTypes
    <3>4. FollowInv'
      BY <3>1 DEF FollowInv
    <3>5. WantInv'
      BY <1>2, <2>4, <3>1 DEF WantInv, Here
    <3>6. QED
      BY <3>2, <3>3, <3>4, <3>5 DEF PickerInv
  <2>8. CASE n # 0 /\ tasks[1].force /\ tasks[1].tab /\ n = 1
    <3> DEFINE done == Picker!Completed(text, col, tasks[1].prefix)
    <3>1. /\ text' = done.text /\ col' = done.col /\ wanted' = None
          /\ UNCHANGED <<picker, token, timer>>
      BY <1>4, <2>8, Zenon DEF Picker!Answer
    <3>2. done.text \in Seq(Picker!Chars) /\ done.col \in 0..Len(done.text)
      BY <2>2, <2>6, <2>8, CompletedIsText
    <3> HIDE DEF done
    <3>3. picker = None
      BY <1>1, <2>1, <2>8 DEF ChainInv, Sane
    <3>4. PickerTypes'
      BY <1>2, <2>1, <2>3, <2>5, <3>1, <3>2 DEF PickerTypes
    <3>5. ChainInv'
      BY <2>1, <2>3, <3>1
    <3>6. QED
      BY <3>1, <3>3, <3>4, <3>5 DEF PickerInv, FollowInv, WantInv
  <2>9. CASE n # 0 /\ ~(tasks[1].force /\ tasks[1].tab /\ n = 1)
    <3> DEFINE P == tasks[1].prefix
               kind == IF tasks[1].force THEN "force" ELSE "regular"
    <3>1. /\ picker' = [state |-> kind, prefix |-> P]
          /\ UNCHANGED <<text, col, token, timer, wanted>>
      BY <1>4, <2>9, Zenon DEF Picker!Answer
    <3>2. P \in Seq(Picker!Chars)
      BY <2>6, <2>9
    <3>3. P = Picker!PrefixFor(Picker!Before(text, col), tasks[1].force)
      BY <2>1 DEF RunsFor, Here
    <3>4. kind \in {"regular", "force"} /\ (kind = "force") = tasks[1].force
      BY <2>6
    <3> HIDE DEF P, kind
    <3>5. picker' \in Picker!Pickers
      BY <3>1, <3>2, <3>4 DEF Picker!Pickers
    <3>6. PickerTypes'
      BY <1>2, <2>1, <2>2, <2>3, <2>5, <3>1, <3>5 DEF PickerTypes
    <3>7. ChainInv'
      BY <2>1, <2>3, <3>1
    <3>8. FollowInv'
      <4>1. picker'.prefix = P /\ picker'.state = kind
        BY <3>1
      <4>2. picker'.prefix = Picker!PrefixFor(Picker!Before(text', col'), picker'.state = "force")
        BY <3>1, <3>3, <3>4, <4>1
      <4>3. QED
        BY <4>2 DEF FollowInv, Fits
    <3>9. WantInv'
      BY <1>2, <2>4, <3>1 DEF WantInv, Here
    <3>10. QED
      BY <3>6, <3>7, <3>8, <3>9 DEF PickerInv
  <2>10. QED
    BY <2>7, <2>8, <2>9
<1>5. QED
  BY <1>3, <1>4

-----------------------------------------------------------------------------
\* An empty line without a picker.
LEMMA PickerBegins == Picker!Init => PickerInv
<1>1. SUFFICES ASSUME Picker!Init
               PROVE  PickerInv
  OBVIOUS
<1>2. /\ text = << >> /\ col = 0 /\ picker = None /\ token = 0 /\ timer = None
      /\ tasks = << >> /\ pressed = 0 /\ wanted = None
  BY <1>1 DEF Picker!Init
<1>3. << >> \in Seq(Picker!Chars) /\ << >> \in Seq(Tasks) /\ 0 \in 0..Len(<< >>)
  OBVIOUS
<1>4. PickerTypes
  BY <1>2, <1>3 DEF PickerTypes
<1>5. DOMAIN tasks = {}
  BY <1>2
<1>6. ChainInv /\ FollowInv /\ WantInv
  BY <1>2, <1>5 DEF ChainInv, FollowInv, WantInv
<1>7. QED
  BY <1>4, <1>6 DEF PickerInv

\* What the suggestions are about stays as it is.
LEMMA SameText ==
  ASSUME PickerInv, UNCHANGED <<text, col, picker, token, timer, tasks, pressed, wanted, asked>>
  PROVE  PickerInv'
<1>1. PickerTypes'
  BY DEF PickerInv, PickerTypes
<1>2. ChainInv'
  BY DEF PickerInv, ChainInv, Sane, RunsFor
<1>3. FollowInv'
  BY DEF PickerInv, FollowInv, Fits, Lives, Here
<1>4. WantInv'
  BY DEF PickerInv, WantInv, WillAsk, Here
<1>5. QED
  BY <1>1, <1>2, <1>3, <1>4 DEF PickerInv

\* Every key, and every step between the keys.
LEMMA PickerSteps ==
  ASSUME PickerInv, Picker!Next
  PROVE  PickerInv'
<1>1. CASE Picker!Press
  <2>1. ASSUME NEW ch \in Typed, Picker!Type(ch) PROVE PickerInv'
    BY <2>1, TypeKeeps
  <2>2. QED
    BY <1>1, <2>1, BackspaceKeeps, ForwardDeleteKeeps, MoveKeeps, TabKeeps, EnterKeeps, EscapeKeeps,
       PasteKeeps DEF Picker!Press
<1>2. CASE Picker!Background
  <2>1. ASSUME NEW n \in 0..2, Picker!Answer(n) PROVE PickerInv'
    BY <2>1, AnswerKeeps
  <2>2. QED
    BY <1>2, <2>1, DebouncedKeeps, StartKeeps DEF Picker!Background
<1>3. CASE Picker!Idle
  <2>1. UNCHANGED <<text, col, picker, token, timer, tasks, pressed, wanted, asked>>
    BY <1>3 DEF Picker!Idle, Picker!vars
  <2>2. QED
    BY <2>1, SameText
<1>4. QED
  BY <1>1, <1>2, <1>3 DEF Picker!Next

\* When nothing is on its way no request is left to make up for an open picker.
LEMMA PickerInvSays ==
  PickerInv => Picker!TypeOK /\ Picker!PickerFollowsTheText /\ Picker!LastRequestIsAnswered
<1>1. SUFFICES ASSUME PickerInv
               PROVE  Picker!TypeOK /\ Picker!PickerFollowsTheText /\ Picker!LastRequestIsAnswered
  OBVIOUS
<1>2. PickerTypes /\ ChainInv /\ FollowInv /\ WantInv
  BY <1>1 DEF PickerInv
<1>3. Picker!TypeOK
  <2>1. picker # None => picker.state \in {"regular", "force"}
    BY <1>2 DEF PickerTypes, Picker!Pickers
  <2>2. QED
    BY <1>2, <2>1 DEF Picker!TypeOK, PickerTypes, ChainInv, Sane
<1>4. Picker!Quiet => timer = None /\ DOMAIN tasks = {}
  BY DEF Picker!Quiet
<1>5. Picker!PickerFollowsTheText
  BY <1>2, <1>4 DEF Picker!PickerFollowsTheText, FollowInv, Fits
<1>6. Picker!LastRequestIsAnswered
  BY <1>2, <1>4 DEF Picker!LastRequestIsAnswered, WantInv
<1>7. QED
  BY <1>3, <1>5, <1>6

\* An open picker is the one for the text before the cursor, and the last request is
\* answered, for lines, keys and answers without bound.
THEOREM PickerFollowsTheTextHolds == PromptSpec => []PickerFollowsTheText
<1> DEFINE PInv == scene = "picker" => PickerInv
<1>1. PromptInit => PInv
  BY PickerBegins DEF PromptInit, PromptBegin
<1>2. PInv /\ [PromptNext]_promptVars => PInv'
  <2>1. SUFFICES ASSUME PInv, [PromptNext]_promptVars, scene' = "picker"
                 PROVE  PickerInv'
    OBVIOUS
  <2>2. CASE PromptNext
    <3>1. scene = "picker" /\ Picker!Next
      BY <2>1, <2>2 DEF PromptNext
    <3>2. QED
      BY <2>1, <3>1, PickerSteps
  <2>3. CASE UNCHANGED promptVars
    <3>1. UNCHANGED pickerVars /\ scene' = scene
      BY <2>3 DEF promptVars
    <3>2. UNCHANGED <<text, col, picker, token, timer, tasks, pressed, wanted, asked>>
      BY <3>1 DEF pickerVars
    <3>3. QED
      BY <2>1, <3>1, <3>2, SameText
  <2>4. QED
    BY <2>1, <2>2, <2>3
<1>3. PInv => PickerFollowsTheText
  BY PickerInvSays DEF PickerFollowsTheText
<1>4. QED
  BY <1>1, <1>2, <1>3, PTL DEF PromptSpec
================================================================================
