----------------------------- MODULE JournalBindings -----------------------------
(***************************************************************************)
(* The binding projection of a journal (src/src/journal/bindings.ts): what *)
(* the events of a session so far amount to, which event may come next,    *)
(* and what it adds.  Every append of every command passes through Admits; *)
(* so does every event of a journal that is replayed.                      *)
(*                                                                         *)
(* The projection is kept for the one active lineage and for the parts of  *)
(* it that can still matter: its last run, its last commit boundary, the   *)
(* last request snapshot of that boundary, the last attempt, and the tool  *)
(* calls of the last answer.  Runs are numbered in the order they start;   *)
(* each names its predecessor, so an earlier run is an ancestor.           *)
(***************************************************************************)
EXTENDS Naturals, Sequences

CONSTANTS
  Kinds,      \* the kinds of tool calls the model makes
  MaxCalls    \* bound: tool calls in one answer

AllKinds == {"invalid", "read", "search", "edit", "bash"}

ASSUME KindsAssumption    == Kinds \subseteq AllKinds
ASSUME MaxCallsAssumption == MaxCalls \in Nat \ {0}

\* The tools whose calls change the world; the others only look.
HasEffect(kind) == kind \in {"edit", "bash"}

Causes   == {"user", "continue", "recovery"}
Statuses == {"none", "active", "completed", "interrupted"}
Effects  == {"none", "prepared", "completed", "indeterminate", "reconciled_completed",
             "reconciled_denied", "reconciled_not_executed"}

\* One tool call of the last answer.  A run is 0 where there is none.
Call == [kind : AllKinds,
         perm : {"none", "allow", "deny"}, permRun : Nat,
         effect : Effects, effectRun : Nat,
         output : Nat,    \* the run an output artifact for the effect is from
         direct : Nat]    \* the run an artifact that ends the call is from

NewCall(kind) == [kind |-> kind, perm |-> "none", permRun |-> 0, effect |-> "none",
                  effectRun |-> 0, output |-> 0, direct |-> 0]

EventTypes ==
  {"run_started", "user_committed", "commit_boundary_created", "request_snapshot_stored",
   "request_attempt_started", "request_semantic_started", "request_interrupted",
   "assistant_committed", "cache_checkpoint_created", "permission_decided",
   "effect_prepared", "effect_completed", "effect_indeterminate", "effect_reconciled",
   "output_published", "result_published", "tool_result_committed",
   "run_completed", "run_interrupted", "journal_tail_recovered"}

\* gateActiveRunPhase: what an active run admits next, by what it waits for.
GateAdmits ==
  [open             |-> EventTypes,
   checkpoint       |-> {"cache_checkpoint_created"},
   boundary         |-> {"commit_boundary_created"},
   must_interrupt   |-> {"run_interrupted"},
   retry            |-> {"request_attempt_started", "run_interrupted"},
   final_checkpoint |-> {"cache_checkpoint_created"},
   final_boundary   |-> {"commit_boundary_created"},
   final_complete   |-> {"run_completed"}]
Gates == DOMAIN GateAdmits

Projection ==
  [run : Nat,               \* how many runs have started; the last one
   cause : Causes,          \* what that run was started for
   status : Statuses,
   gate : Gates,
   blobs : Nat,             \* the messages of the lineage prefix
   tip : {"none", "user", "assistant", "results"},   \* what the last of them are
   bound : Nat,             \* the prefix length the last boundary commits
   boundRun : Nat,          \* the run that boundary is of
   fresh : BOOLEAN,         \* that boundary is the last accepted event
   snap : Nat,              \* the run of its last snapshot, or 0
   tries : Nat,             \* the attempts made with that snapshot
   att : {"none", "open", "semantic"},   \* the attempt that has not ended
   calls : Seq(Call),       \* the tool calls of the last answer
   next : Nat]              \* how many of them have their result

EmptyJournal ==
  [run |-> 0, cause |-> "user", status |-> "none", gate |-> "open", blobs |-> 0,
   tip |-> "none", bound |-> 0, boundRun |-> 0, fresh |-> FALSE, snap |-> 0, tries |-> 0,
   att |-> "none", calls |-> << >>, next |-> 0]

Active(j)  == j.status = "active"
Pending(j) == j.next < Len(j.calls)
Effect(j, status) == {i \in DOMAIN j.calls : j.calls[i].effect = status}

\* hasCommitClosure: no open attempt, no call without a result, and no effect
\* whose outcome is not settled.
Closed(j) ==
  /\ j.att = "none"
  /\ ~ Pending(j)
  /\ Effect(j, "prepared") = {} /\ Effect(j, "indeterminate") = {}

\* The call an event names has no result and may have an event of its own.
Unresolved(j, i) == i \in DOMAIN j.calls /\ i > j.next /\ j.calls[i].kind # "invalid"

-----------------------------------------------------------------------------
(* The events, as the code that appends them describes them. *)

RunStarted(cause)      == [type |-> "run_started", cause |-> cause]
UserCommitted          == [type |-> "user_committed"]
BoundaryCreated        == [type |-> "commit_boundary_created"]
SnapshotStored(mode)   == [type |-> "request_snapshot_stored", mode |-> mode]
AttemptStarted         == [type |-> "request_attempt_started"]
SemanticStarted        == [type |-> "request_semantic_started"]
RequestInterrupted(s)  == [type |-> "request_interrupted", semantic |-> s]
AssistantCommitted(ks) == [type |-> "assistant_committed", kinds |-> ks]
CheckpointCreated      == [type |-> "cache_checkpoint_created"]
PermissionDecided(i, d) == [type |-> "permission_decided", call |-> i, decision |-> d]
EffectPrepared(i)      == [type |-> "effect_prepared", call |-> i]
OutputPublished(i)     == [type |-> "output_published", call |-> i]
EffectCompleted(i)     == [type |-> "effect_completed", call |-> i]
EffectIndeterminate(i) == [type |-> "effect_indeterminate", call |-> i]
EffectReconciled(i, r) == [type |-> "effect_reconciled", call |-> i, resolution |-> r]
ResultPublished(i)     == [type |-> "result_published", call |-> i]
ResultCommitted(i)     == [type |-> "tool_result_committed", call |-> i]
RunCompleted           == [type |-> "run_completed"]
RunInterrupted(source) == [type |-> "run_interrupted", source |-> source]
TailRecovered          == [type |-> "journal_tail_recovered"]

\* The events a command may append after j; Admits has the last word.
KernelEvents(j) ==
  LET slots == 1..MaxCalls IN
  {RunStarted(c) : c \in Causes} \cup {RunInterrupted(j.run)}
  \cup {UserCommitted, BoundaryCreated, AttemptStarted, SemanticStarted, CheckpointCreated,
        RunCompleted}
  \cup {SnapshotStored(m) : m \in {"fresh", "alias"}}
  \cup {RequestInterrupted(s) : s \in {"pre_semantic", "post_semantic"}}
  \cup {AssistantCommitted(ks) : ks \in {<< >>} \cup {<<k>> : k \in Kinds}}
  \cup {PermissionDecided(i, d) : i \in slots, d \in {"allow", "deny"}}
  \cup {EffectPrepared(i) : i \in slots} \cup {OutputPublished(i) : i \in slots}
  \cup {EffectReconciled(i, r) : i \in slots,
          r \in {"reconciled_completed", "reconciled_denied", "reconciled_not_executed"}}
  \cup {ResultPublished(i) : i \in slots} \cup {ResultCommitted(i) : i \in slots}
  \cup {EffectCompleted(i) : i \in DOMAIN j.calls}
  \cup {EffectIndeterminate(i) : i \in DOMAIN j.calls}

-----------------------------------------------------------------------------
(* Admission. *)

\* A run follows the one before it: continued when everything is settled,
\* taken over by recovery when it was interrupted.
AdmitsRun(j, cause) ==
  /\ ~ Active(j)
  /\ cause = "user"     => j.run = 0 /\ Closed(j)
  /\ cause = "continue" => j.status \in {"completed", "interrupted"} /\ Closed(j)
  /\ cause = "recovery" => j.status = "interrupted"

\* A fresh projection of a boundary is made at once by the run that made the
\* boundary, or by a recovery run for a boundary of an earlier run, and only
\* once; an alias is a recovery run's name for an earlier run's snapshot.
AdmitsSnapshot(j, mode) ==
  /\ Closed(j) /\ j.bound = j.blobs /\ j.bound > 0
  /\ mode = "fresh" =>
       /\ j.snap = 0
       /\ \/ j.boundRun = j.run /\ j.fresh
          \/ j.boundRun # j.run /\ j.cause = "recovery"
  /\ mode = "alias" => j.snap \notin {0, j.run} /\ j.cause = "recovery"

\* The first attempt of a snapshot, or the next one after a failure before
\* the model had said anything.
AdmitsAttempt(j) ==
  /\ Closed(j) /\ j.snap = j.run
  /\ (j.tries = 0) = (j.gate # "retry")

AdmitsPrepare(j, i) ==
  /\ Unresolved(j, i) /\ HasEffect(j.calls[i].kind)
  /\ j.calls[i].perm = "allow"
  /\ \/ j.calls[i].effect = "none"
     \/ j.calls[i].effect = "reconciled_not_executed" /\ j.calls[i].effectRun # j.run

\* An artifact with the output of an effect: by the run that executes it, or
\* by a recovery run on the word of the operator.
AdmitsOutput(j, i) ==
  /\ Unresolved(j, i) /\ j.calls[i].perm = "allow"
  /\ \/ j.calls[i].effect = "prepared" /\ j.calls[i].effectRun = j.run
     \/ j.calls[i].effect = "indeterminate" /\ j.cause = "recovery"

NoEffect(c) == c.effect \in {"none", "reconciled_not_executed"}

\* A result is in its turn and says what a recorded fact says.
AdmitsResult(j, i) ==
  /\ Pending(j) /\ i = j.next + 1
  /\ LET c == j.calls[i] IN
       \/ c.effect \in {"completed", "reconciled_completed"}
       \/ NoEffect(c) /\ c.direct # 0 /\ (c.direct = j.run \/ j.cause = "recovery")
       \/ NoEffect(c) /\ c.perm = "deny"
       \/ NoEffect(c) /\ c.kind = "invalid"
       \/ c.effect = "reconciled_denied"

\* The event is one the active run is waiting for, is of that run, and its
\* references hold.
Admits(j, e) ==
  /\ Active(j) => e.type \in GateAdmits[j.gate] \cup {"journal_tail_recovered"}
  /\ e.type \notin {"run_started", "journal_tail_recovered"} => Active(j)
  /\ CASE e.type = "run_started" -> AdmitsRun(j, e.cause)
       [] e.type = "user_committed" -> Closed(j)
       [] e.type = "commit_boundary_created" ->
            j.gate \in {"boundary", "final_boundary"} /\ Closed(j) /\ j.bound # j.blobs
       [] e.type = "request_snapshot_stored" -> AdmitsSnapshot(j, e.mode)
       [] e.type = "request_attempt_started" -> AdmitsAttempt(j)
       [] e.type = "request_semantic_started" -> j.att = "open"
       [] e.type = "request_interrupted" ->
            /\ j.att # "none"
            /\ e.semantic = "pre_semantic" => j.att = "open"
            /\ e.semantic = "post_semantic" => j.att = "semantic"
       [] e.type = "assistant_committed" -> j.att # "none" /\ ~ Pending(j) /\ j.gate = "open"
       [] e.type = "cache_checkpoint_created" -> j.gate \in {"checkpoint", "final_checkpoint"}
       [] e.type = "permission_decided" ->
            Unresolved(j, e.call) /\ j.calls[e.call].perm = "none"
       [] e.type = "effect_prepared" -> AdmitsPrepare(j, e.call)
       [] e.type = "output_published" -> AdmitsOutput(j, e.call)
       [] e.type = "result_published" ->
            Unresolved(j, e.call) /\ j.calls[e.call].perm = "allow" /\ NoEffect(j.calls[e.call])
       [] e.type = "effect_completed" ->
            /\ j.calls[e.call].effect = "prepared"
            /\ j.calls[e.call].effectRun = j.run /\ j.calls[e.call].output = j.run
       [] e.type = "effect_indeterminate" -> j.calls[e.call].effect = "prepared"
       [] e.type = "effect_reconciled" ->
            /\ j.calls[e.call].effect = "indeterminate" /\ j.cause = "recovery"
            /\ e.resolution = "reconciled_completed" => j.calls[e.call].output = j.run
       [] e.type = "tool_result_committed" -> AdmitsResult(j, e.call)
       [] e.type = "run_completed" -> j.gate = "final_complete" /\ Closed(j)
       [] e.type = "run_interrupted" -> j.att = "none" /\ e.source = j.run
       [] e.type = "journal_tail_recovered" -> j.run > 0

-----------------------------------------------------------------------------
(* What the event adds to the projection. *)

AfterBoundary(j) ==
  [j EXCEPT !.bound = j.blobs, !.boundRun = j.run, !.snap = 0, !.tries = 0,
            !.gate = IF j.gate = "final_boundary" THEN "final_complete" ELSE "open"]

AfterAssistant(j, kinds) ==
  [j EXCEPT !.att = "none", !.blobs = j.blobs + 1, !.tip = "assistant", !.next = 0,
            !.calls = [i \in DOMAIN kinds |-> NewCall(kinds[i])],
            !.gate = IF kinds = << >> THEN "final_checkpoint" ELSE "checkpoint"]

\* Mutant: the request is taken to be complete one result too early.
AfterResultEarly(j) ==
  LET last == j.next + 2 >= Len(j.calls) IN
  [j EXCEPT !.next = j.next + 1, !.blobs = j.blobs + 1,
            !.tip = IF last THEN "results" ELSE "assistant",
            !.gate = IF last THEN "boundary" ELSE "open"]

AfterResult(j) ==
  LET last == j.next + 1 = Len(j.calls) IN
  [j EXCEPT !.next = j.next + 1, !.blobs = j.blobs + 1,
            !.tip = IF last THEN "results" ELSE "assistant",
            !.gate = IF last THEN "boundary" ELSE "open"]

\* Mutant: every failed attempt may be followed by another.
AfterFailureRetry(j, semantic) == [j EXCEPT !.att = "none", !.gate = "retry"]

AfterFailure(j, semantic) ==
  [j EXCEPT !.att = "none",
            !.gate = IF semantic = "pre_semantic" THEN "retry" ELSE "must_interrupt"]

Adds(j, e) ==
  CASE e.type = "run_started" ->
         [j EXCEPT !.run = j.run + 1, !.cause = e.cause, !.status = "active", !.gate = "open"]
    [] e.type = "user_committed" ->
         [j EXCEPT !.blobs = j.blobs + 1, !.tip = "user", !.gate = "boundary"]
    [] e.type = "commit_boundary_created" -> AfterBoundary(j)
    [] e.type = "request_snapshot_stored" -> [j EXCEPT !.snap = j.run, !.tries = 0]
    [] e.type = "request_attempt_started" ->
         [j EXCEPT !.att = "open", !.tries = j.tries + 1, !.gate = "open"]
    [] e.type = "request_semantic_started" -> [j EXCEPT !.att = "semantic"]
    [] e.type = "request_interrupted" -> AfterFailure(j, e.semantic)
    [] e.type = "assistant_committed" -> AfterAssistant(j, e.kinds)
    [] e.type = "cache_checkpoint_created" ->
         [j EXCEPT !.gate = IF j.gate = "checkpoint" THEN "open" ELSE "final_boundary"]
    [] e.type = "permission_decided" ->
         [j EXCEPT !.calls[e.call].perm = e.decision, !.calls[e.call].permRun = j.run]
    [] e.type = "effect_prepared" ->
         [j EXCEPT !.calls[e.call].effect = "prepared", !.calls[e.call].effectRun = j.run]
    [] e.type = "output_published" -> [j EXCEPT !.calls[e.call].output = j.run]
    [] e.type = "result_published" -> [j EXCEPT !.calls[e.call].direct = j.run]
    [] e.type = "effect_completed" -> [j EXCEPT !.calls[e.call].effect = "completed"]
    [] e.type = "effect_indeterminate" -> [j EXCEPT !.calls[e.call].effect = "indeterminate"]
    [] e.type = "effect_reconciled" -> [j EXCEPT !.calls[e.call].effect = e.resolution]
    [] e.type = "tool_result_committed" -> AfterResult(j)
    [] e.type = "run_completed" -> [j EXCEPT !.status = "completed"]
    [] e.type = "run_interrupted" -> [j EXCEPT !.status = "interrupted"]
    [] e.type = "journal_tail_recovered" -> j

\* applyEvent
After(j, e) == [Adds(j, e) EXCEPT !.fresh = (e.type = "commit_boundary_created")]
=============================================================================
