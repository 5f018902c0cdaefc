------------------------------ MODULE SessionKernel ------------------------------
(***************************************************************************)
(* One session and the commands that work on it, one after another         *)
(* (src/src/session/kernel.ts, reconcile.ts): a new turn, a continued one, *)
(* recovery, and reconciliation of an effect nobody knows the outcome of.  *)
(* A command may be killed between any two of its steps; what the next one *)
(* finds is the journal.                                                   *)
(*                                                                         *)
(* The lease and the log below are WriterLease and JournalLog: here at     *)
(* most one command runs, an append is one step, and a command that dies   *)
(* in the middle of one leaves a torn tail that the next open accounts     *)
(* for.  Facts, artifacts of evidence and blobs are not events of their    *)
(* own here: no guard of the projection depends on them.                   *)
(***************************************************************************)
EXTENDS ToolRuntime

CONSTANTS
  MaxRuns,        \* bound: the runs after which no command is started any more
  MaxBlobs,       \* bound: the messages of the conversation
  MaxTries,       \* bound: attempts with one snapshot (Transport has the limit of the code)
  CleanTails,     \* TRUE: no append behind a recovery run's boundary is torn
  CleanContinue   \* TRUE: no command dies while it adds a user's message

ASSUME BoundsAssumption == MaxRuns \in Nat /\ MaxBlobs \in Nat /\ MaxTries \in Nat
ASSUME FlagsAssumption  == CleanTails \in BOOLEAN /\ CleanContinue \in BOOLEAN

vars == <<j, pc, mode, aborted, stored, upto, job, grown, ran>>

runtime == <<upto, job, grown>>

Live       == {"asking", "bounding", "ready", "sending", "waiting", "giving_up",
               "checkpointing", "ending", "completing", "tools"}
Recovering == {"planning", "reconciling"}
Executing  == {"slice", "committing"}

Init ==
  /\ j = EmptyJournal
  /\ pc = "down" /\ mode = "live"
  /\ aborted = FALSE /\ stored = FALSE
  /\ upto = 0 /\ job = NoJobs /\ grown = FALSE
  /\ ran = [i \in Slots |-> 0]

\* The command appends e and goes on at step.
Step(e, step) ==
  /\ Accept(e)
  /\ pc' = step
  /\ UNCHANGED <<command, runtime, ran>>

\* The command appends e as its last event.
Last(e) == Accept(e) /\ Down /\ UNCHANGED ran

-----------------------------------------------------------------------------
(* A turn: initialize, initializeContinuation. *)

\* The first command of a session makes the lineage and its first run.
StartRun ==
  /\ pc = "down" /\ j.run = 0
  /\ Step(RunStarted("user"), "asking")

\* A continued session starts a run after one that ended, either way.
ContinueRun ==
  /\ pc = "down" /\ j.run \in 1..(MaxRuns - 1) /\ j.blobs < MaxBlobs
  /\ Step(RunStarted("continue"), "asking")

CommitUser  == pc = "asking" /\ Step(UserCommitted, "bounding")
BoundUser   == pc = "bounding" /\ Step(BoundaryCreated, "ready")

-----------------------------------------------------------------------------
(* The loop of runKernel. *)

StoreSnapshot ==
  /\ pc = "ready" /\ ~ stored
  /\ Step(SnapshotStored("fresh"), "sending")

\* The snapshot that recovery stored is the one to send.
UseStored ==
  /\ pc = "ready" /\ stored
  /\ stored' = FALSE
  /\ pc' = "sending"
  /\ UNCHANGED <<j, mode, aborted, runtime, ran>>

SendAttempt ==
  /\ pc = "sending" /\ j.tries < MaxTries
  /\ Step(AttemptStarted, "waiting")

\* The first piece of an answer is recorded before it is shown.
SemanticStarts ==
  /\ pc = "waiting"
  /\ Step(SemanticStarted, "waiting")

\* A complete answer is committed, with the tool calls it makes.
Answer ==
  /\ pc = "waiting"
  /\ \E n \in 0..MaxCalls : \E kinds \in [1..n -> Kinds] :
       /\ j.blobs + 1 + n <= MaxBlobs
       /\ Accept(AssistantCommitted(kinds))
  /\ ran' = [i \in Slots |-> 0]
  /\ pc' = "checkpointing"
  /\ UNCHANGED <<command, runtime>>

\* Mutant: a failure after the answer had begun is retried like any other.
RequestFailsAnyhow ==
  /\ pc = "waiting"
  /\ \E step \in {"sending", "giving_up"} :
       Step(RequestInterrupted(IF j.att = "open" THEN "pre_semantic" ELSE "post_semantic"), step)

\* The attempt fails, or its answer is not acceptable.  It is retried only if
\* the model had not begun to answer.
RequestFails ==
  /\ pc = "waiting"
  /\ \/ /\ j.att = "open"
        /\ \E step \in {"sending", "giving_up"} :
             Step(RequestInterrupted("pre_semantic"), step)
     \/ /\ j.att = "semantic"
        /\ Step(RequestInterrupted("post_semantic"), "giving_up")

GiveUp == pc = "giving_up" /\ Last(RunInterrupted(j.run))

Checkpoint ==
  /\ pc = "checkpointing"
  /\ Step(CheckpointCreated, IF Pending(j) THEN "tools" ELSE "ending")

BoundAnswer  == pc = "ending" /\ Step(BoundaryCreated, "completing")
CompleteRun  == pc = "completing" /\ Last(RunCompleted)
BoundResults == pc = "tools" /\ ~ Pending(j) /\ Step(BoundaryCreated, "ready")

\* The user's signal is noticed before a request and between tool calls; a
\* snapshot that cannot be stored, or not be read back, ends the run too.
Cancel ==
  /\ \/ pc = "ready"
     \/ pc = "sending" /\ (aborted \/ j.tries = 0)
     \/ pc = "tools" /\ Pending(j) /\ aborted
  /\ Last(RunInterrupted(j.run))

Abort ==
  /\ pc # "down" /\ ~ aborted
  /\ aborted' = TRUE
  /\ UNCHANGED <<j, pc, mode, stored, runtime, ran>>

-----------------------------------------------------------------------------
(* prepareRecovery: plan, do, plan again. *)

StartRecovery(m) ==
  /\ pc = "down" /\ j.run \in 1..(MaxRuns - 1)
  /\ pc' = "planning" /\ mode' = m
  /\ UNCHANGED <<j, aborted, stored, runtime, ran>>

Recover   == StartRecovery("recover")
Reconcile == StartRecovery("reconcile")

Planned(step) == pc = "planning" /\ Plan(j) = step

PlanAppend ==
  /\ pc = "planning" /\ Plan(j) \in AppendSteps
  /\ Step(StepEvent(j), "planning")

PlanStore ==
  /\ Planned("store_snapshot")
  /\ Accept(StepEvent(j))
  /\ stored' = TRUE
  /\ UNCHANGED <<pc, mode, aborted, runtime, ran>>

\* The kernel goes on from the snapshot; a command that came to reconcile an
\* effect finds none and gives up.
PlanSend ==
  /\ Planned("send_snapshot") /\ stored
  /\ IF mode = "recover"
     THEN /\ pc' = "ready" /\ mode' = "live"
          /\ UNCHANGED <<aborted, stored, runtime>>
     ELSE Down
  /\ UNCHANGED <<j, ran>>

\* A snapshot this command did not store itself may have been sent before.
PlanDistrust ==
  /\ Planned("send_snapshot") /\ ~ stored
  /\ Step(RunInterrupted(j.run), "planning")

PlanStop ==
  /\ Planned("stop_indeterminate")
  /\ IF mode = "reconcile"
     THEN pc' = "reconciling" /\ UNCHANGED <<command, runtime>>
     ELSE Down
  /\ UNCHANGED <<j, ran>>

PlanEnd ==
  /\ Planned("incomplete_bootstrap") \/ Planned("completed")
  /\ Down
  /\ UNCHANGED <<j, ran>>

\* resumeRecoveryToolV1, from what is recorded or as a denial ...
ResumeRecorded ==
  /\ Planned("resume_tool") /\ ResumeMode(j) # "execute"
  /\ Step(StepEvent(j), "planning")

\* ... or by executing the call, which the user may be asked about.
ResumeExecute ==
  /\ Planned("resume_tool") /\ ResumeMode(j) = "execute" /\ ~ aborted
  /\ BeginSlice(j.next + 1)
  /\ UNCHANGED <<j, command, ran>>

ResumeCancelled ==
  /\ Planned("resume_tool") /\ ResumeMode(j) = "execute" /\ aborted
  /\ Last(RunInterrupted(j.run))

-----------------------------------------------------------------------------
(* applyReconciliationV1: what the operator says of the effect.  He never  *)
(* says that an effect did not take place when it did.                     *)

Doubted == TheOne(Effect(j, "indeterminate"))

ReconcileOutput ==
  /\ pc = "reconciling" /\ j.calls[Doubted].output # j.run
  /\ Step(OutputPublished(Doubted), "reconciling")

Settle(resolution) ==
  /\ Accept(EffectReconciled(Doubted, resolution))
  /\ pc' = "planning" /\ mode' = "recover"
  /\ UNCHANGED <<aborted, stored, runtime, ran>>

ReconcileCompleted ==
  /\ pc = "reconciling" /\ j.calls[Doubted].output = j.run
  /\ Settle("reconciled_completed")

ReconcileNotExecuted ==
  /\ pc = "reconciling" /\ ran[Doubted] = 0
  /\ \E r \in {"reconciled_not_executed", "reconciled_denied"} : Settle(r)

-----------------------------------------------------------------------------
(* The end of a command. *)

\* The message that a continued session was started with is still missing
\* when the model has answered the one before.
Unasked == pc = "asking" /\ j.tip = "assistant"
MayDie == pc # "down" /\ (CleanContinue => ~ Unasked)

\* The process is killed, an error is thrown, or the user declines to execute
\* a call again: nothing but the journal stays.
Die ==
  /\ MayDie
  /\ Down
  /\ UNCHANGED <<j, ran>>

\* It dies in the middle of an append, and the next open repairs the tail.
DieTorn ==
  /\ MayDie
  /\ CleanTails => ~ (j.fresh /\ j.cause = "recovery" /\ Active(j))
  /\ Accept(TailRecovered)
  /\ Down
  /\ UNCHANGED ran

TurnStep ==
  \/ CommitUser \/ BoundUser \/ StoreSnapshot \/ UseStored \/ SendAttempt
  \/ SemanticStarts \/ Answer \/ RequestFails \/ GiveUp \/ Checkpoint
  \/ BoundAnswer \/ CompleteRun \/ BoundResults \/ Cancel

RecoveryStep ==
  \/ PlanAppend \/ PlanStore \/ PlanSend \/ PlanDistrust \/ PlanStop \/ PlanEnd
  \/ ResumeRecorded \/ ResumeExecute \/ ResumeCancelled
  \/ ReconcileOutput \/ ReconcileCompleted \/ ReconcileNotExecuted

Next ==
  \/ StartRun \/ ContinueRun \/ Recover \/ Reconcile
  \/ TurnStep \/ RuntimeStep \/ RecoveryStep
  \/ Abort \/ Die \/ DieTorn

\* A command that is running takes its next step; nobody has to start one.
Fairness == WF_vars(RecoveryStep) /\ WF_vars(RuntimeStep)

Spec == Init /\ [][Next]_vars /\ Fairness

-----------------------------------------------------------------------------
(* Properties. *)

\* Every variable keeps its type.
TypeOK ==
  /\ j \in Projection
  /\ pc \in {"down"} \cup Live \cup Recovering \cup Executing
  /\ mode \in {"live", "recover", "reconcile"}
  /\ aborted \in BOOLEAN /\ stored \in BOOLEAN /\ grown \in BOOLEAN
  /\ upto \in 0..MaxCalls
  /\ job \in [Slots -> {"idle", "due", "allowed", "prepared", "ran", "published",
                        "doubted", "unread", "settled", "failed"}]
  /\ ran \in [Slots -> Nat]

\* Whatever a command left behind, the step the planner takes is one the
\* journal admits: recovery cannot be refused by the log it recovers.
PlannedStepIsAdmitted ==
  pc = "planning" /\ Appends(j) => Admits(j, StepEvent(j))

\* What the kernel is about to append next.
DueEvents ==
  CASE pc = "asking" -> {UserCommitted}
    [] pc \in {"bounding", "ending"} -> {BoundaryCreated}
    [] pc = "ready" ->
         {RunInterrupted(j.run)} \cup (IF stored THEN {} ELSE {SnapshotStored("fresh")})
    [] pc = "sending" -> {AttemptStarted, RunInterrupted(j.run)}
    [] pc = "giving_up" -> {RunInterrupted(j.run)}
    [] pc = "checkpointing" -> {CheckpointCreated}
    [] pc = "completing" -> {RunCompleted}
    [] pc = "tools" -> IF Pending(j) THEN {RunInterrupted(j.run)} ELSE {BoundaryCreated}
    [] pc = "committing" -> {ResultCommitted(j.next + 1)}
    [] OTHER -> {}

\* The kernel keeps its own account of where the run is; no append it makes
\* on that account is one the journal refuses.
KernelAppendsAdmitted == \A e \in DueEvents : Admits(j, e)

\* However often a session is interrupted, recovered and reconciled, what a
\* tool call does to the world is done at most once.
EffectAtMostOnce == \A i \in Slots : ran[i] <= 1

\* The journal never says of a call that took effect that it did not: not by
\* leaving it out, nor by an operator's word, nor by a denial.
NothingUnrecorded ==
  \A i \in DOMAIN j.calls : ran[i] > 0 =>
    /\ j.calls[i].perm = "allow"
    /\ j.calls[i].effect \in {"prepared", "completed", "indeterminate", "reconciled_completed"}

\* An effect takes place only when every call before it has its result.
EffectsInDeclaredOrder ==
  [][\A i \in Slots : ran'[i] > ran[i] => j.next = i - 1]_vars

\* Once the model has begun to answer, the run asks it no second time: after
\* an answer cut short it can only end, whoever closes the attempt.
NoRetryAfterSemantic ==
  [][j.att = "semantic" /\ j'.att = "none" =>
       \/ j'.tip = "assistant" /\ j'.blobs > j.blobs
       \/ /\ Plan(j') = "interrupt_run"
          /\ \A e \in {AttemptStarted, SnapshotStored("fresh"), SnapshotStored("alias"),
                      AssistantCommitted(<< >>), UserCommitted} : ~ Admits(j', e)]_vars

\* The planner comes to an end: a recovery command ends, or hands over to
\* the kernel, although every failed call makes it plan again.
RecoveryEnds == pc = "planning" ~> pc \in {"down", "ready"}

\* What the session is as a conversation.
turn == CASE j.tip = "none" -> "empty"
          [] j.tip \in {"user", "results"} -> "model"
          [] j.tip = "assistant" -> IF Pending(j) THEN "tools" ELSE "answered"
pending == Len(j.calls) - j.next
Dialogue == INSTANCE Conversation
ImplementsConversation == Dialogue!Spec
=============================================================================
