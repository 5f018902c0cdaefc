----------------------------- MODULE RecoveryPlanner -----------------------------
(***************************************************************************)
(* The recovery planner (src/src/session/recovery.ts): from the projection *)
(* of a journal, the ONE step that recovery takes next.  It is asked again *)
(* after every append, so recovery has no state of its own: whatever was   *)
(* appended before a crash is where the next attempt goes on from.         *)
(***************************************************************************)
EXTENDS JournalBindings

HasUser(j) == j.tip # "none"

\* The call that is next to have a result.
Due(j) == j.calls[j.next + 1]

\* How the call that is due gets its result: from the recorded outcome, as a
\* denial, or by executing it.
ResumeMode(j) ==
  IF Due(j).effect \in {"completed", "reconciled_completed"} THEN "reconstruct"
  ELSE IF Due(j).effect = "reconciled_denied" THEN "deny"
  ELSE IF Due(j).effect = "none" /\ Due(j).direct # 0 THEN "reconstruct"
  ELSE "execute"

\* What an active run waits for names the step that gives it that.
GateStep ==
  [must_interrupt |-> "interrupt_run",
   checkpoint     |-> "append_checkpoint", final_checkpoint |-> "append_checkpoint",
   boundary       |-> "append_boundary",   final_boundary   |-> "append_boundary",
   final_complete |-> "complete_run"]

\* An effect that was cut off in this run, or a run that is not recovery's.
CutOff(j) ==
  \/ \E i \in Effect(j, "indeterminate") : j.calls[i].effectRun = j.run
  \/ j.cause # "recovery"

\* An active run that waits for nothing: effects first, then the calls that
\* are due, then the next request.
PlanOpen(j) ==
  IF Effect(j, "prepared") # {} THEN "mark_effect_indeterminate"
  ELSE IF CutOff(j) THEN "interrupt_run"
  ELSE IF Effect(j, "indeterminate") # {} THEN "stop_indeterminate"
  ELSE IF Pending(j) THEN "resume_tool"
  ELSE IF j.snap # j.run THEN "store_snapshot"
  ELSE IF j.tries = 0 THEN "send_snapshot" ELSE "interrupt_run"

\* planRecoveryStepV1
Plan(j) ==
  IF ~ HasUser(j) THEN IF Active(j) THEN "interrupt_run" ELSE "incomplete_bootstrap"
  ELSE IF j.status = "completed" THEN "completed"
  ELSE IF j.status = "interrupted" THEN "start_recovery_run"
  ELSE IF j.att # "none" THEN "close_open_attempt"
  ELSE IF j.gate \in DOMAIN GateStep THEN GateStep[j.gate]
  ELSE PlanOpen(j)

\* Mutant: every boundary of an earlier run is taken to have its snapshot.
SnapshotModeByRun(j) == IF j.boundRun = j.run THEN "fresh" ELSE "alias"

SnapshotMode(j) == IF j.snap = 0 THEN "fresh" ELSE "alias"

TheOne(set) == CHOOSE x \in set : TRUE

\* What prepareRecovery appends for the step.
StepEvent(j) ==
  LET step == Plan(j) IN
  CASE step = "interrupt_run" -> RunInterrupted(j.run)
    [] step = "start_recovery_run" -> RunStarted("recovery")
    [] step = "close_open_attempt" ->
         RequestInterrupted(IF j.att = "semantic" THEN "post_semantic" ELSE "semantic_state_unknown")
    [] step = "append_checkpoint" -> CheckpointCreated
    [] step = "append_boundary" -> BoundaryCreated
    [] step = "complete_run" -> RunCompleted
    [] step = "mark_effect_indeterminate" -> EffectIndeterminate(TheOne(Effect(j, "prepared")))
    [] step = "resume_tool" -> ResultCommitted(j.next + 1)
    [] step = "store_snapshot" -> SnapshotStored(SnapshotMode(j))

\* The steps that are one append and no more.
AppendSteps == {"interrupt_run", "start_recovery_run", "close_open_attempt",
                "append_checkpoint", "append_boundary", "complete_run",
                "mark_effect_indeterminate"}

\* The steps whose event is known when they are planned.
Appends(j) ==
  \/ Plan(j) \in AppendSteps \cup {"store_snapshot"}
  \/ Plan(j) = "resume_tool" /\ ResumeMode(j) # "execute"
=============================================================================
