------------------------------- MODULE ToolRuntime -------------------------------
(***************************************************************************)
(* The execution of tool calls (src/src/tool/runtime.ts, durability.ts):   *)
(* the calls of an answer in slices, the events each call appends around   *)
(* what it does to the world, and the results in the declared order.       *)
(*                                                                         *)
(* The kernel runs all calls of an answer; recovery runs the one call that *)
(* is due.  Both share this state with the rest of the command's process:  *)
(* pc says where the command is, and all of it but the journal and the     *)
(* world is gone when the command ends.                                    *)
(***************************************************************************)
EXTENDS RecoveryPlanner

CONSTANTS
  Parallelism,     \* OBSERVATION_PARALLELISM: observations in flight at once
  MaxUnread        \* bound: the runs after which every artifact can be read back

ASSUME ParallelismAssumption == Parallelism \in Nat \ {0}
ASSUME MaxUnreadAssumption   == MaxUnread \in Nat

VARIABLES
  j,         \* the journal, as its binding projection
  pc,        \* where the command is, or "down"
  mode,      \* "live", or the recovery command that has not got there yet
  aborted,   \* the user has asked the command to stop
  stored,    \* a snapshot this recovery stored waits to be sent
  upto,      \* the last call of the slice being executed
  job,       \* job[i]: how far the execution of call i is
  grown,     \* events were appended since this slice began
  ran        \* the world: how often the effect of call i took place

command == <<mode, aborted, stored>>

Slots == 1..MaxCalls
NoJobs == [i \in Slots |-> "idle"]

\* The append is accepted and acknowledged.
Accept(e) == Admits(j, e) /\ j' = After(j, e)

\* The process is gone, or has nothing left to do.
Down ==
  /\ pc' = "down" /\ mode' = "live"
  /\ aborted' = FALSE /\ stored' = FALSE /\ grown' = FALSE
  /\ upto' = 0 /\ job' = NoJobs

Looks(i) == j.calls[i].kind \in {"read", "search"}

\* Mutant: all calls run beside each other.
SliceEndOfAll(i) ==
  IF i + Parallelism > Len(j.calls) THEN Len(j.calls) ELSE i + Parallelism - 1

\* Observations run beside each other, everything else runs alone.
SliceEnd(i) ==
  LET ends == {k \in i..Len(j.calls) : \A m \in i..k : Looks(m)}
      wide == {k \in ends : k < i + Parallelism}
  IN  IF Looks(i) THEN CHOOSE k \in wide : \A m \in wide : m <= k ELSE i

Slice == (j.next + 1)..upto

BeginSlice(last) ==
  /\ pc' = "slice" /\ upto' = last /\ grown' = FALSE
  /\ job' = [i \in Slots |-> IF i \in (j.next + 1)..last THEN "due" ELSE "idle"]

To(i, step) == job' = [job EXCEPT ![i] = step]
AppendFor(i, e, step) ==
  /\ Accept(e)
  /\ To(i, step)
  /\ grown' = TRUE
  /\ UNCHANGED <<pc, command, upto>>

-----------------------------------------------------------------------------
(* One call: executeValidated and what it calls. *)

\* The arguments were not valid: the result needs no event of its own.
Reject(i) ==
  /\ job[i] = "due" /\ j.calls[i].kind = "invalid"
  /\ To(i, "settled")
  /\ UNCHANGED <<j, pc, command, upto, grown, ran>>

\* Only a file's path can be denied.
Decisions(kind) == IF kind \in {"read", "edit"} THEN {"allow", "deny"} ELSE {"allow"}

\* The decision is recorded before anything else is done ...
Permit(i) ==
  /\ job[i] = "due" /\ j.calls[i].kind # "invalid" /\ j.calls[i].perm = "none"
  /\ \E d \in Decisions(j.calls[i].kind) :
       AppendFor(i, PermissionDecided(i, d), IF d = "deny" THEN "settled" ELSE "allowed")
  /\ UNCHANGED ran

\* ... or the one an earlier run recorded is used again.
PermitAsBefore(i) ==
  /\ job[i] = "due" /\ j.calls[i].perm # "none"
  /\ To(i, IF j.calls[i].perm = "deny" THEN "settled" ELSE "allowed")
  /\ UNCHANGED <<j, pc, command, upto, grown, ran>>

\* #artifactResult reads the artifact back to make the result of it, which the
\* artifact may not admit.
ReadBack == {"settled"} \cup {step \in {"unread"} : j.run <= MaxUnread}

\* The output of an observation, or the refusal of a mutation that cannot be
\* made, is an artifact that carries its own terminal.
Observe(i) ==
  /\ job[i] = "allowed" /\ j.calls[i].kind # "bash"
  /\ \E step \in ReadBack : AppendFor(i, ResultPublished(i), step)
  /\ UNCHANGED ran

\* Mutant: the effect begins before the journal says so.
PrepareUnrecorded(i) ==
  /\ job[i] = "allowed" /\ HasEffect(j.calls[i].kind)
  /\ To(i, "prepared")
  /\ UNCHANGED <<j, pc, command, upto, grown, ran>>

Prepare(i) ==
  /\ job[i] = "allowed" /\ HasEffect(j.calls[i].kind)
  /\ AppendFor(i, EffectPrepared(i), "prepared")
  /\ UNCHANGED ran

\* Mutant: what has failed is tried once more.
ExecuteAgain(i) ==
  /\ job[i] \in {"prepared", "ran"}
  /\ \E did \in {0, 1} : ran' = [ran EXCEPT ![i] = @ + did]
  /\ To(i, "ran")
  /\ UNCHANGED <<j, pc, command, upto, grown>>

\* The file is changed or the command runs: at most now, and perhaps not.
Execute(i) ==
  /\ job[i] = "prepared"
  /\ \E did \in {0, 1} : ran' = [ran EXCEPT ![i] = @ + did]
  /\ To(i, "ran")
  /\ UNCHANGED <<j, pc, command, upto, grown>>

PublishOutput(i) ==
  /\ job[i] = "ran"
  /\ AppendFor(i, OutputPublished(i), "published")
  /\ UNCHANGED ran

Complete(i) ==
  /\ job[i] = "published"
  /\ \E step \in ReadBack : AppendFor(i, EffectCompleted(i), step)
  /\ UNCHANGED ran

\* indeterminate(): the outcome is not known, or its output was not kept ...
Doubt(i) ==
  /\ job[i] \in {"ran", "published"}
  /\ AppendFor(i, EffectIndeterminate(i), "doubted")
  /\ UNCHANGED ran

\* ... and the run ends with that, as it does when the result of what was
\* recorded cannot be made.
InterruptDoubted(i) ==
  /\ job[i] \in {"doubted", "unread"}
  /\ AppendFor(i, RunInterrupted(j.run), "failed")
  /\ UNCHANGED ran

\* interruptRun: the call cannot go on, for lack of storage or because the
\* user stopped it.  The run is to end on account of the call's permission
\* event, which the journal refuses when that event is an earlier run's.
InterruptJob(i) ==
  /\ job[i] = "allowed"
  /\ j.calls[i].kind = "bash" => aborted
  /\ LET e == RunInterrupted(j.calls[i].permRun) IN
       IF Admits(j, e) THEN j' = After(j, e) /\ grown' = TRUE
                       ELSE UNCHANGED <<j, grown>>
  /\ To(i, "failed")
  /\ UNCHANGED <<pc, command, upto, ran>>

\* The call throws without an event: its storage failed, or the journal takes
\* nothing from it because another call of the slice has ended the run.
FailJob(i) ==
  /\ job[i] \in {"due", "allowed", "ran", "unread"} /\ j.calls[i].kind # "invalid"
  /\ To(i, "failed")
  /\ UNCHANGED <<j, pc, command, upto, grown, ran>>

JobStep ==
  /\ pc = "slice"
  /\ \E i \in Slice :
       \/ Reject(i) \/ Permit(i) \/ PermitAsBefore(i) \/ Observe(i)
       \/ Prepare(i) \/ Execute(i) \/ PublishOutput(i) \/ Complete(i)
       \/ Doubt(i) \/ InterruptDoubted(i) \/ InterruptJob(i) \/ FailJob(i)

-----------------------------------------------------------------------------
(* ToolRuntime.execute, between the calls. *)

\* The next slice of the calls the kernel executes.
NextSlice ==
  /\ pc = "tools" /\ Pending(j) /\ ~ aborted
  /\ BeginSlice(SliceEnd(j.next + 1))
  /\ UNCHANGED <<j, command, ran>>

\* Every call of the slice has come to an end, well ...
SliceSettled ==
  /\ pc = "slice" /\ \A i \in Slice : job[i] = "settled"
  /\ pc' = "committing"
  /\ UNCHANGED <<j, command, upto, job, grown, ran>>

\* Mutant: recovery plans again after every failure.
CallerGoesOnAnyhow ==
  IF mode # "live" /\ ~ aborted
  THEN /\ pc' = "planning" /\ upto' = 0 /\ job' = NoJobs /\ grown' = FALSE
       /\ UNCHANGED command
  ELSE Down

\* The caller of a slice that failed: the command ends, except that recovery
\* plans again if the call got as far as an event and was not stopped.
CallerGoesOn ==
  IF mode # "live" /\ grown /\ ~ aborted
  THEN /\ pc' = "planning" /\ upto' = 0 /\ job' = NoJobs /\ grown' = FALSE
       /\ UNCHANGED command
  ELSE Down

\* ... or not all of them: allSettled waits for the others before it throws.
SliceFailed ==
  /\ pc = "slice"
  /\ \A i \in Slice : job[i] \in {"settled", "failed"}
  /\ \E i \in Slice : job[i] = "failed"
  /\ CallerGoesOn
  /\ UNCHANGED <<j, ran>>

\* The results are committed in the order of the calls.
CommitResult ==
  /\ pc = "committing"
  /\ Accept(ResultCommitted(j.next + 1))
  /\ IF j.next + 1 < upto
     THEN UNCHANGED <<pc, upto, job, grown>>
     ELSE /\ pc' = IF mode = "live" THEN "tools" ELSE "planning"
          /\ upto' = 0 /\ job' = NoJobs /\ grown' = FALSE
  /\ UNCHANGED <<command, ran>>

\* The message of the result could not be stored.
CommitFails ==
  /\ pc = "committing"
  /\ CallerGoesOn
  /\ UNCHANGED <<j, ran>>

RuntimeStep == JobStep \/ NextSlice \/ SliceSettled \/ SliceFailed \/ CommitResult \/ CommitFails
=============================================================================
