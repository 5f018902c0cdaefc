----------------------------- MODULE LineagePrefix -----------------------------
(***************************************************************************)
(* The selection of a lineage prefix (src/src/lineage/prefix.ts).  Before  *)
(* a request is sent, selectLineagePrefixV1 reads the journal once more,   *)
(* from its first event to the commit boundary, and decides for itself     *)
(* which messages belong to the lineage.  It shares no code with the       *)
(* binding projection, which let the same events into the journal.         *)
(*                                                                         *)
(* A selection is what the loop over the events knows after some of them:  *)
(* of the frame (which lineages and cache ABIs there are and which one is  *)
(* active) and of the runs of the lineage that is selected.  Bytes and     *)
(* hashes are left out; an event names the last object of its kind, as the *)
(* code that appends it does.                                              *)
(***************************************************************************)
EXTENDS JournalBindings

CONSTANTS
  Abis,          \* the cache ABIs, one for each reasoning effort
  FirstAbi,      \* the one a session begins with
  MaxLineages    \* bound: lineages of one session

\* What an instance assumes of the constants.
AbisAssumption == FirstAbi \in Abis
LineagesAssumption == MaxLineages \in Nat \ {0}

\* Events of the frame.  A lineage is its number, an artifact with a summary too.
NotePublished(n)     == [type |-> "artifact_published", note |-> n]
AbiDeclared(a)       == [type |-> "cache_abi_declared", abi |-> a]
LineageStarted(l, a) == [type |-> "lineage_started", lineage |-> l, abi |-> a]
CacheBreak(reason, from, to, n) ==
  [type |-> "cache_break", reason |-> reason, from |-> from, to |-> to, note |-> n]
LineageActivated(reason, from, to) ==
  [type |-> "lineage_activated", reason |-> reason, from |-> from, to |-> to]

FrameTypes == {"artifact_published", "cache_abi_declared", "lineage_started", "cache_break",
               "lineage_activated"}

NoBreak == [from |-> 0, to |-> 0]

-----------------------------------------------------------------------------
(* The runs of the selected lineage. *)

\* A run's fields are those of the last run; an earlier run of the lineage is
\* its ancestor.
NewRuns ==
  [causes |-> << >>, status |-> "none", phase |-> "normal", retry |-> 0,
   checkpointDue |-> FALSE, boundaryDue |-> "none",
   finalCheckpoint |-> FALSE, finalBoundary |-> FALSE,
   roles |-> 0, boundaries |-> << >>, snapshots |-> << >>,
   open |-> FALSE, semantic |-> FALSE, checkpointed |-> FALSE,
   calls |-> << >>, group |-> FALSE, results |-> 0, last |-> "none"]

Run(r) == Len(r.causes)
IsActive(r) == r.status = "active"
Recovers(r) == r.causes[Run(r)] = "recovery"

\* closureState, isCommitClosureV1
IsClosure(r) ==
  /\ ~ r.open
  /\ ~ r.group
  /\ \A i \in DOMAIN r.calls : r.calls[i].effect \notin {"prepared", "indeterminate"}

\* gateTargetRunPhase
PhaseAdmits(r, type) ==
  \/ ~ IsActive(r) \/ type = "journal_tail_recovered"
  \/ IF r.checkpointDue THEN type = "cache_checkpoint_created"
     ELSE IF r.boundaryDue # "none" THEN type = "commit_boundary_created"
     ELSE IF r.phase = "must_interrupt" THEN type = "run_interrupted"
     ELSE IF r.retry # 0 THEN type \in {"request_attempt_started", "run_interrupted"}
     ELSE r.phase = "finalizing" =>
            type = IF ~ r.finalCheckpoint THEN "cache_checkpoint_created"
                   ELSE IF ~ r.finalBoundary THEN "commit_boundary_created"
                   ELSE "run_completed"

SelectsRun(r, cause) ==
  /\ ~ IsActive(r)
  /\ cause = "user"     => Run(r) = 0
  /\ cause = "continue" => r.status \in {"completed", "interrupted"}
  /\ cause = "recovery" => r.status = "interrupted"

\* An ordinary snapshot binds the last boundary, of its own run and just made
\* or of an ancestor of a recovery run, that no snapshot binds yet; an alias
\* repeats the snapshot of an ancestor.
SelectsSnapshot(r, mode) ==
  LET b == Len(r.boundaries)  s == Len(r.snapshots) IN
  /\ IsClosure(r)
  /\ b > 0 /\ r.boundaries[b].roles = r.roles
  /\ IF mode = "fresh"
     THEN /\ \/ r.boundaries[b].run = Run(r) /\ r.last = "commit_boundary_created"
             \/ r.boundaries[b].run < Run(r) /\ Recovers(r)
          /\ \A i \in 1..s : r.snapshots[i].boundary # b
     ELSE s > 0 /\ r.snapshots[s].run < Run(r) /\ Recovers(r)

SelectsAttempt(r) ==
  LET s == Len(r.snapshots) IN
  /\ IsClosure(r)
  /\ s > 0 /\ r.snapshots[s].run = Run(r)
  /\ (r.snapshots[s].attempts = 0) = (r.retry = 0)
  /\ r.retry \in {0, s}

\* A call of the last answer, still without a result, whose arguments are valid.
Bindable(r, i) == i \in DOMAIN r.calls /\ i > r.results /\ r.calls[i].kind # "invalid"

SelectsPrepare(r, i) ==
  /\ Bindable(r, i) /\ r.calls[i].kind # "read" /\ r.calls[i].perm = "allow"
  /\ \/ r.calls[i].effect = "none"
     \/ r.calls[i].effect = "reconciled_not_executed" /\ r.calls[i].effectRun # Run(r)

SelectsOutput(r, i) ==
  /\ Bindable(r, i) /\ r.calls[i].perm = "allow"
  /\ \/ r.calls[i].effect = "prepared" /\ r.calls[i].effectRun = Run(r)
     \/ r.calls[i].effect = "indeterminate" /\ Recovers(r)

\* A result in declared order: of a terminal effect, of an artifact of this
\* run or of an ancestor, or static for a rejection on record.
SelectsResult(r, i) ==
  /\ r.group /\ i = r.results + 1
  /\ LET c == r.calls[i]
         bypasses == c.effect \notin {"none", "reconciled_not_executed"} IN
       \/ c.effect \in {"completed", "reconciled_completed"}
       \/ ~ bypasses /\ c.direct # 0 /\ (c.direct < Run(r) => Recovers(r))
       \/ ~ bypasses /\ c.perm = "deny" /\ c.kind # "invalid"
       \/ ~ bypasses /\ c.kind = "invalid"
       \/ c.effect = "reconciled_denied"

\* A boundary of a closed prefix: one user message, the results of one group,
\* or the answer that ends the run and its checkpoint; no prefix twice.
SelectsBoundary(r) ==
  /\ r.roles > 0 /\ IsClosure(r)
  /\ \/ r.boundaryDue # "none"
     \/ r.phase = "finalizing" /\ r.finalCheckpoint
  /\ \A k \in DOMAIN r.boundaries : r.boundaries[k].roles # r.roles

SelectsUser(r) == IsClosure(r) /\ r.boundaryDue = "none"

SelectsInterruption(r, semantic) ==
  /\ r.open
  /\ semantic = "pre_semantic"  => ~ r.semantic
  /\ semantic = "post_semantic" => r.semantic

SelectsAssistant(r, kinds) ==
  /\ r.open /\ ~ r.group
  /\ kinds # << >> => r.phase = "normal" /\ ~ r.checkpointDue

\* The checkpoint of an answer, once.
SelectsCheckpoint(r) == r.roles > 0 /\ ~ r.checkpointed

\* An artifact that ends its call is no output of an effect.
SelectsDirect(r, i) ==
  /\ Bindable(r, i) /\ r.calls[i].perm = "allow"
  /\ r.calls[i].effect \in {"none", "reconciled_not_executed"}

SelectsCompletion(r, i) ==
  LET c == r.calls[i] IN c.effect = "prepared" /\ c.effectRun = Run(r) /\ c.output = Run(r)

SelectsReconciliation(r, i, resolution) ==
  /\ Recovers(r) /\ r.calls[i].effect = "indeterminate"
  /\ resolution = "reconciled_completed" => r.calls[i].output = Run(r)

SelectsRunCompleted(r) ==
  r.phase = "finalizing" /\ r.finalCheckpoint /\ r.finalBoundary /\ IsClosure(r)

SelectsRunInterrupted(r) == r.phase # "finalizing" /\ ~ r.open

\* What the loop requires of an event of the lineage it selects.
Selects(r, e) ==
  /\ PhaseAdmits(r, e.type)
  /\ e.type \notin {"run_started", "journal_tail_recovered"} => IsActive(r)
  /\ CASE e.type = "run_started" -> SelectsRun(r, e.cause)
       [] e.type = "user_committed" -> SelectsUser(r)
       [] e.type = "commit_boundary_created" -> SelectsBoundary(r)
       [] e.type = "request_snapshot_stored" -> SelectsSnapshot(r, e.mode)
       [] e.type = "request_attempt_started" -> SelectsAttempt(r)
       [] e.type = "request_semantic_started" -> r.open /\ ~ r.semantic
       [] e.type = "request_interrupted" -> SelectsInterruption(r, e.semantic)
       [] e.type = "assistant_committed" -> SelectsAssistant(r, e.kinds)
       [] e.type = "cache_checkpoint_created" -> SelectsCheckpoint(r)
       [] e.type = "permission_decided" -> Bindable(r, e.call) /\ r.calls[e.call].perm = "none"
       [] e.type = "effect_prepared" -> SelectsPrepare(r, e.call)
       [] e.type = "output_published" -> SelectsOutput(r, e.call)
       [] e.type = "result_published" -> SelectsDirect(r, e.call)
       [] e.type = "effect_completed" -> SelectsCompletion(r, e.call)
       [] e.type = "effect_indeterminate" -> r.calls[e.call].effect = "prepared"
       [] e.type = "effect_reconciled" -> SelectsReconciliation(r, e.call, e.resolution)
       [] e.type = "tool_result_committed" -> SelectsResult(r, e.call)
       [] e.type = "run_completed" -> SelectsRunCompleted(r)
       [] e.type = "run_interrupted" -> SelectsRunInterrupted(r)
       [] OTHER -> TRUE

-----------------------------------------------------------------------------
(* What the loop keeps of it. *)

KeepsRun(r, cause) ==
  [r EXCEPT !.causes = Append(r.causes, cause), !.status = "active", !.phase = "normal",
            !.retry = 0, !.checkpointDue = FALSE, !.boundaryDue = "none",
            !.finalCheckpoint = FALSE, !.finalBoundary = FALSE]

KeepsBoundary(r) ==
  [r EXCEPT !.boundaries = Append(r.boundaries, [run |-> Run(r), roles |-> r.roles]),
            !.finalBoundary = (r.boundaryDue = "none"), !.boundaryDue = "none"]

KeepsAttempt(r) ==
  [r EXCEPT !.snapshots[Len(r.snapshots)].attempts = @ + 1, !.retry = 0,
            !.open = TRUE, !.semantic = FALSE]

KeepsAssistant(r, kinds) ==
  [r EXCEPT !.open = FALSE, !.roles = r.roles + 1, !.checkpointed = FALSE, !.results = 0,
            !.calls = [i \in DOMAIN kinds |-> NewCall(kinds[i])],
            !.group = (kinds # << >>), !.checkpointDue = (kinds # << >>),
            !.phase = IF kinds = << >> THEN "finalizing" ELSE r.phase]

KeepsResult(r) ==
  LET last == r.results + 1 = Len(r.calls) IN
  [r EXCEPT !.results = r.results + 1, !.roles = r.roles + 1, !.group = ~ last,
            !.boundaryDue = IF last THEN "results" ELSE "none"]

Keeps(r, e) ==
  CASE e.type = "run_started" -> KeepsRun(r, e.cause)
    [] e.type = "user_committed" -> [r EXCEPT !.roles = r.roles + 1, !.boundaryDue = "user"]
    [] e.type = "commit_boundary_created" -> KeepsBoundary(r)
    [] e.type = "request_snapshot_stored" ->
         [r EXCEPT !.snapshots = Append(r.snapshots,
            [run |-> Run(r), boundary |-> Len(r.boundaries), attempts |-> 0])]
    [] e.type = "request_attempt_started" -> KeepsAttempt(r)
    [] e.type = "request_semantic_started" -> [r EXCEPT !.semantic = TRUE]
    [] e.type = "request_interrupted" ->
         IF e.semantic = "pre_semantic"
         THEN [r EXCEPT !.open = FALSE, !.retry = Len(r.snapshots)]
         ELSE [r EXCEPT !.open = FALSE, !.phase = "must_interrupt"]
    [] e.type = "assistant_committed" -> KeepsAssistant(r, e.kinds)
    [] e.type = "cache_checkpoint_created" ->
         [r EXCEPT !.checkpointDue = FALSE, !.checkpointed = TRUE,
                   !.finalCheckpoint = (r.phase = "finalizing")]
    [] e.type = "permission_decided" -> [r EXCEPT !.calls[e.call].perm = e.decision]
    [] e.type = "effect_prepared" ->
         [r EXCEPT !.calls[e.call].effect = "prepared", !.calls[e.call].effectRun = Run(r)]
    [] e.type = "output_published" -> [r EXCEPT !.calls[e.call].output = Run(r)]
    [] e.type = "result_published" -> [r EXCEPT !.calls[e.call].direct = Run(r)]
    [] e.type = "effect_completed" -> [r EXCEPT !.calls[e.call].effect = "completed"]
    [] e.type = "effect_indeterminate" -> [r EXCEPT !.calls[e.call].effect = "indeterminate"]
    [] e.type = "effect_reconciled" -> [r EXCEPT !.calls[e.call].effect = e.resolution]
    [] e.type = "tool_result_committed" -> KeepsResult(r)
    [] e.type = "run_completed" -> [r EXCEPT !.status = "completed"]
    [] e.type = "run_interrupted" -> [r EXCEPT !.status = "interrupted"]
    [] OTHER -> r

-----------------------------------------------------------------------------
(* The frame: cache ABIs, lineages, and the one that is active. *)

NewFrame ==
  [declared |-> {FirstAbi}, abis |-> << FirstAbi >>, activated |-> {1}, active |-> 1,
   break |-> NoBreak]

SelectsFrame(f, r, e) ==
  CASE e.type = "cache_abi_declared" -> e.abi \notin f.declared
    [] e.type = "lineage_started" -> e.lineage \notin DOMAIN f.abis /\ e.abi \in f.declared
    [] e.type = "cache_break" ->
         /\ f.break = NoBreak /\ f.active = e.from /\ e.to \in DOMAIN f.abis
         /\ (f.abis[e.from] = f.abis[e.to]) = (e.reason = "compaction")
    [] e.type = "lineage_activated" ->
         /\ ~ IsActive(r) /\ e.to \in DOMAIN f.abis \ f.activated
         /\ f.active = e.from /\ f.break = [from |-> e.from, to |-> e.to]
    [] OTHER -> TRUE

KeepsFrame(f, e) ==
  CASE e.type = "cache_abi_declared" -> [f EXCEPT !.declared = @ \cup {e.abi}]
    [] e.type = "lineage_started" -> [f EXCEPT !.abis = Append(@, e.abi)]
    [] e.type = "cache_break" -> [f EXCEPT !.break = [from |-> e.from, to |-> e.to]]
    [] e.type = "lineage_activated" ->
         [f EXCEPT !.active = e.to, !.activated = @ \cup {e.to}, !.break = NoBreak]
    [] OTHER -> f

-----------------------------------------------------------------------------
(* One turn of the loop.  No event of a lineage precedes its activation, so *)
(* the selection of the lineage that becomes active begins with no runs.    *)

NewSelection == [frame |-> NewFrame, runs |-> NewRuns, refused |-> FALSE]

Selected(s, e) ==
  IF e.type \in FrameTypes
  THEN [frame |-> KeepsFrame(s.frame, e),
        runs |-> IF e.type = "lineage_activated" THEN NewRuns
                 ELSE [s.runs EXCEPT !.last = e.type],
        refused |-> s.refused \/ ~ SelectsFrame(s.frame, s.runs, e)]
  ELSE [s EXCEPT !.runs = [Keeps(s.runs, e) EXCEPT !.last = e.type],
                 !.refused = s.refused \/ ~ Selects(s.runs, e)]

\* The checks after the loop: the journal ends with the boundary, nothing was
\* refused, and no break is open.
Selectable(s) ==
  /\ ~ s.refused
  /\ s.frame.break = NoBreak
  /\ LET b == Len(s.runs.boundaries) IN
       b > 0 /\ s.runs.last = "commit_boundary_created"
             /\ s.runs.boundaries[b].roles = s.runs.roles
=============================================================================
