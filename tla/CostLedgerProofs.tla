--------------------------- MODULE CostLedgerProofs ---------------------------
(***************************************************************************)
(* Proofs about the ledger of a session and the budget of a turn           *)
(* (CostLedger), for any price book and any bounds.  The ledger reduces    *)
(* the same events as the binding projection: that it never refuses one is *)
(* proved from what the two agree on (AttemptsAgree, EffectsAgree), that   *)
(* its sums stay below what is due from what is still owed for a search    *)
(* (Money).                                                                *)
(***************************************************************************)
EXTENDS CostLedger, Integers, SequenceTheorems, FiniteSetTheorems, WellFoundedInduction, TLAPS

\* What events leave of the projection of a lineage: an answer has at most one
\* call, a call that has its result has no effect that is still unsettled, and a
\* run is completed with everything settled.
JournalInv(J) ==
  /\ J \in Projection /\ Len(J.calls) <= 1 /\ J.next <= Len(J.calls)
  /\ \A i \in DOMAIN J.calls : J.calls[i].kind \in Kinds
  /\ Active(J) => J.run # 0
  /\ J.att # "none" => Active(J) /\ J.tries # 0
  /\ \A i \in DOMAIN J.calls :
       i <= J.next => J.calls[i].effect \notin {"prepared", "indeterminate"}
  /\ J.status = "completed" => Closed(J)

\* An attempt is open, or one may be begun without another look at the budget.
MayAnswer(J) ==
  J.att # "none" \/ (J.snap # 0 /\ (J.tries = 0 \/ J.gate = "retry"))

-----------------------------------------------------------------------------
(* What an event leaves of the projection. *)

QuietTypes ==
  {"run_started", "user_committed", "commit_boundary_created", "request_snapshot_stored",
   "request_attempt_started", "request_semantic_started", "request_interrupted",
   "cache_checkpoint_created", "run_completed", "run_interrupted"}

StatusAfter(J, e) ==
  CASE e.type = "run_started" -> "active" [] e.type = "run_completed" -> "completed"
    [] e.type = "run_interrupted" -> "interrupted" [] OTHER -> J.status

AttemptAfter(J, e) ==
  CASE e.type = "request_attempt_started" -> "open"
    [] e.type = "request_semantic_started" -> "semantic"
    [] e.type = "request_interrupted" -> "none" [] OTHER -> J.att

\* What an event that is about no call makes of the run and its attempt.
Quietly(J, K, e) ==
  /\ K \in Projection /\ K.calls = J.calls /\ K.next = J.next
  /\ K.run = IF e.type = "run_started" THEN J.run + 1 ELSE J.run
  /\ K.cause = IF e.type = "run_started" THEN e.cause ELSE J.cause
  /\ K.status = StatusAfter(J, e) /\ K.att = AttemptAfter(J, e)
  /\ K.tries = IF e.type = "request_attempt_started" THEN J.tries + 1
               ELSE IF e.type \in {"request_snapshot_stored", "commit_boundary_created"} THEN 0
               ELSE J.tries
  /\ K.snap = IF e.type = "commit_boundary_created" THEN 0
              ELSE IF e.type = "request_snapshot_stored" THEN J.run ELSE J.snap
  /\ K.gate = "retry" => J.gate = "retry" \/ e.type = "request_interrupted"

\* The names of the gates.
LEMMA GateNames ==
  Gates = {"open", "checkpoint", "boundary", "must_interrupt", "retry", "final_checkpoint",
           "final_boundary", "final_complete"}
BY DEF Gates, GateAdmits

\* Events that are about no call leave the calls alone.
LEMMA QuietEvents ==
  ASSUME NEW J \in Projection, NEW e, e.type \in QuietTypes,
         e.type = "run_started" => e.cause \in Causes
  PROVE  Quietly(J, After(J, e), e)
<1> DEFINE A == Adds(J, e)
<1>0. J.run + 1 \in Nat /\ J.blobs + 1 \in Nat /\ J.tries + 1 \in Nat BY DEF Projection
<1>1. Quietly(J, A, e)
  <2>1. CASE e.type = "run_started"
    <3>1. A = [J EXCEPT !.run = J.run + 1, !.cause = e.cause, !.status = "active", !.gate = "open"]
      BY <2>1 DEF Adds
    <3> HIDE DEF A
    <3> QED BY <1>0, <2>1, <3>1, GateNames
            DEF Projection, Causes, Statuses, Quietly, StatusAfter, AttemptAfter
  <2>2. CASE e.type = "user_committed"
    <3>1. A = [J EXCEPT !.blobs = J.blobs + 1, !.tip = "user", !.gate = "boundary"]
      BY <2>2 DEF Adds
    <3> HIDE DEF A
    <3> QED BY <1>0, <2>2, <3>1, GateNames
            DEF AfterBoundary, AfterFailure, Projection, Statuses, Quietly, StatusAfter, AttemptAfter
  <2>3. CASE e.type = "commit_boundary_created"
    <3>1. A = AfterBoundary(J)
      BY <2>3 DEF Adds
    <3> HIDE DEF A
    <3> QED BY <1>0, <2>3, <3>1, GateNames
            DEF AfterBoundary, AfterFailure, Projection, Statuses, Quietly, StatusAfter, AttemptAfter
  <2>4. CASE e.type = "request_snapshot_stored"
    <3>1. A = [J EXCEPT !.snap = J.run, !.tries = 0]
      BY <2>4 DEF Adds
    <3> HIDE DEF A
    <3> QED BY <1>0, <2>4, <3>1, GateNames
            DEF AfterBoundary, AfterFailure, Projection, Statuses, Quietly, StatusAfter, AttemptAfter
  <2>5. CASE e.type = "request_attempt_started"
    <3>1. A = [J EXCEPT !.att = "open", !.tries = J.tries + 1, !.gate = "open"]
      BY <2>5 DEF Adds
    <3> HIDE DEF A
    <3> QED BY <1>0, <2>5, <3>1, GateNames
            DEF AfterBoundary, AfterFailure, Projection, Statuses, Quietly, StatusAfter, AttemptAfter
  <2>6. CASE e.type = "request_semantic_started"
    <3>1. A = [J EXCEPT !.att = "semantic"]
      BY <2>6 DEF Adds
    <3> HIDE DEF A
    <3> QED BY <1>0, <2>6, <3>1, GateNames
            DEF AfterBoundary, AfterFailure, Projection, Statuses, Quietly, StatusAfter, AttemptAfter
  <2>7. CASE e.type = "request_interrupted"
    <3>1. A = AfterFailure(J, e.semantic)
      BY <2>7 DEF Adds
    <3> HIDE DEF A
    <3> QED BY <1>0, <2>7, <3>1, GateNames
            DEF AfterBoundary, AfterFailure, Projection, Statuses, Quietly, StatusAfter, AttemptAfter
  <2>8. CASE e.type = "cache_checkpoint_created"
    <3>1. A = [J EXCEPT !.gate = IF J.gate = "checkpoint" THEN "open" ELSE "final_boundary"]
      BY <2>8 DEF Adds
    <3> HIDE DEF A
    <3> QED BY <1>0, <2>8, <3>1, GateNames
            DEF AfterBoundary, AfterFailure, Projection, Statuses, Quietly, StatusAfter, AttemptAfter
  <2>9. CASE e.type = "run_completed"
    <3>1. A = [J EXCEPT !.status = "completed"]
      BY <2>9 DEF Adds
    <3> HIDE DEF A
    <3> QED BY <1>0, <2>9, <3>1, GateNames
            DEF AfterBoundary, AfterFailure, Projection, Statuses, Quietly, StatusAfter, AttemptAfter
  <2>10. CASE e.type = "run_interrupted"
    <3>1. A = [J EXCEPT !.status = "interrupted"]
      BY <2>10 DEF Adds
    <3> HIDE DEF A
    <3> QED BY <1>0, <2>10, <3>1, GateNames
            DEF AfterBoundary, AfterFailure, Projection, Statuses, Quietly, StatusAfter, AttemptAfter
  <2> QED BY <2>1, <2>2, <2>3, <2>4, <2>5, <2>6, <2>7, <2>8, <2>9, <2>10 DEF QuietTypes
<1>2. After(J, e) = [A EXCEPT !.fresh = (e.type = "commit_boundary_created")] BY DEF After, A
<1> HIDE DEF A
<1>3. After(J, e).snap = A.snap /\ After(J, e).tries = A.tries /\ After(J, e).gate = A.gate
  BY <1>1, <1>2 DEF Projection, Quietly
<1> QED BY <1>1, <1>2, <1>3 DEF Projection, Quietly

CallTypes == {"permission_decided", "effect_prepared", "output_published", "result_published",
              "effect_completed", "effect_indeterminate", "effect_reconciled"}

\* What the events of one call do to it.
CallAfter(J, e) ==
  LET c == J.calls[e.call] IN
  CASE e.type = "permission_decided"   -> [c EXCEPT !.perm = e.decision, !.permRun = J.run]
    [] e.type = "effect_prepared"      -> [c EXCEPT !.effect = "prepared", !.effectRun = J.run]
    [] e.type = "output_published"     -> [c EXCEPT !.output = J.run]
    [] e.type = "result_published"     -> [c EXCEPT !.direct = J.run]
    [] e.type = "effect_completed"     -> [c EXCEPT !.effect = "completed"]
    [] e.type = "effect_indeterminate" -> [c EXCEPT !.effect = "indeterminate"]
    [] e.type = "effect_reconciled"    -> [c EXCEPT !.effect = e.resolution]

Resolutions == {"reconciled_completed", "reconciled_denied", "reconciled_not_executed"}

\* What is known of an event of a command before it is admitted.
Shaped(J, e) ==
  /\ e.type \in QuietTypes \cup CallTypes \cup {"assistant_committed", "tool_result_committed"}
  /\ e.type = "run_started" => e.cause \in Causes
  /\ e.type = "permission_decided" => e.decision \in {"allow", "deny"}
  /\ e.type = "effect_reconciled" => e.resolution \in Resolutions
  /\ e.type \in {"effect_completed", "effect_indeterminate", "effect_reconciled"} =>
       e.call \in DOMAIN J.calls
  /\ e.type = "assistant_committed" => e.kinds \in {<< >>} \cup {<<k>> : k \in Kinds}

\* The parts of the projection that no event of a call is about.
Aside(J, K) ==
  /\ K \in Projection
  /\ K.run = J.run /\ K.cause = J.cause /\ K.status = J.status /\ K.att = J.att
  /\ K.tries = J.tries /\ K.snap = J.snap

\* The effect a call has after an event of it.
EffectAfter(J, e) ==
  CASE e.type = "effect_prepared" -> "prepared" [] e.type = "effect_completed" -> "completed"
    [] e.type = "effect_indeterminate" -> "indeterminate"
    [] e.type = "effect_reconciled" -> e.resolution [] OTHER -> J.calls[e.call].effect

DirectAfter(J, e) == IF e.type = "result_published" THEN J.run ELSE J.calls[e.call].direct

\* The call an admitted event is about is one of the answer's.
LEMMA AdmittedCall ==
  ASSUME NEW J, NEW e, Shaped(J, e), Admits(J, e), e.type \in CallTypes
  PROVE  e.call \in DOMAIN J.calls
<1>1. CASE e.type \in {"effect_completed", "effect_indeterminate", "effect_reconciled"}
  BY <1>1 DEF Shaped
<1>2. CASE e.type \in {"permission_decided", "effect_prepared", "output_published", "result_published"}
  BY <1>2 DEF Admits, AdmitsPrepare, AdmitsOutput, Unresolved
<1> QED BY <1>1, <1>2 DEF CallTypes

\* An event of one call changes that call alone, and not its kind.
LEMMA CallEvents ==
  ASSUME NEW J \in Projection, NEW e, e.type \in CallTypes, e.call \in DOMAIN J.calls,
         Shaped(J, e)
  PROVE  /\ Aside(J, After(J, e)) /\ After(J, e).next = J.next /\ After(J, e).gate = J.gate
         /\ After(J, e).calls = [J.calls EXCEPT ![e.call] = CallAfter(J, e)]
         /\ CallAfter(J, e) \in Call /\ CallAfter(J, e).kind = J.calls[e.call].kind
         /\ CallAfter(J, e).effect = EffectAfter(J, e)
         /\ CallAfter(J, e).direct = DirectAfter(J, e)
<1> DEFINE c == J.calls[e.call]
           A == Adds(J, e)
           D == CallAfter(J, e)
<1>1. c \in Call /\ J.run \in Nat /\ J.calls \in Seq(Call) BY DEF Projection
<1>2. D \in Call /\ D.kind = c.kind /\ D.effect = EffectAfter(J, e) /\ D.direct = DirectAfter(J, e)
  <2>1. CASE e.type = "permission_decided"
    BY <1>1, <2>1 DEF CallAfter, Call, EffectAfter, DirectAfter, Shaped
  <2>2. CASE e.type = "effect_prepared"
    BY <1>1, <2>2 DEF CallAfter, Call, Effects, EffectAfter, DirectAfter
  <2>3. CASE e.type = "output_published"
    BY <1>1, <2>3 DEF CallAfter, Call, EffectAfter, DirectAfter
  <2>4. CASE e.type = "result_published"
    BY <1>1, <2>4 DEF CallAfter, Call, EffectAfter, DirectAfter
  <2>5. CASE e.type = "effect_completed"
    BY <1>1, <2>5 DEF CallAfter, Call, Effects, EffectAfter, DirectAfter
  <2>6. CASE e.type = "effect_indeterminate"
    BY <1>1, <2>6 DEF CallAfter, Call, Effects, EffectAfter, DirectAfter
  <2>7. CASE e.type = "effect_reconciled"
    BY <1>1, <2>7 DEF CallAfter, Call, Effects, EffectAfter, DirectAfter, Shaped, Resolutions
  <2> QED BY <2>1, <2>2, <2>3, <2>4, <2>5, <2>6, <2>7 DEF CallTypes
<1>3. A = [J EXCEPT !.calls = [J.calls EXCEPT ![e.call] = D]]
  <2>1. CASE e.type = "permission_decided" BY <1>1, <2>1 DEF Adds, CallAfter, Projection, Call
  <2>2. CASE e.type = "effect_prepared" BY <1>1, <2>2 DEF Adds, CallAfter, Projection, Call
  <2>3. CASE e.type = "output_published" BY <1>1, <2>3 DEF Adds, CallAfter, Projection, Call
  <2>4. CASE e.type = "result_published" BY <1>1, <2>4 DEF Adds, CallAfter, Projection, Call
  <2>5. CASE e.type = "effect_completed" BY <1>1, <2>5 DEF Adds, CallAfter, Projection, Call
  <2>6. CASE e.type = "effect_indeterminate" BY <1>1, <2>6 DEF Adds, CallAfter, Projection, Call
  <2>7. CASE e.type = "effect_reconciled" BY <1>1, <2>7 DEF Adds, CallAfter, Projection, Call
  <2> QED BY <2>1, <2>2, <2>3, <2>4, <2>5, <2>6, <2>7 DEF CallTypes
<1>4. After(J, e) = [A EXCEPT !.fresh = FALSE] BY DEF After, CallTypes, A
<1> HIDE DEF A, D, c
<1>5. [J.calls EXCEPT ![e.call] = D] \in Seq(Call) BY <1>1, <1>2
<1>6. Aside(J, A) /\ A.next = J.next /\ A.gate = J.gate /\ A.calls = [J.calls EXCEPT ![e.call] = D]
  BY <1>3, <1>5 DEF Projection, Aside
<1>7. /\ Aside(J, After(J, e)) /\ After(J, e).next = J.next /\ After(J, e).gate = J.gate
      /\ After(J, e).calls = A.calls
  BY <1>4, <1>6 DEF Projection, Aside
<1> QED BY <1>2, <1>6, <1>7 DEF c, D

\* An answer ends the attempt and brings its calls, none of which has begun.
LEMMA AnswerEvent ==
  ASSUME NEW J \in Projection, NEW kinds \in {<< >>} \cup {<<k>> : k \in Kinds}
  PROVE  LET K == After(J, AssistantCommitted(kinds)) IN
         /\ K \in Projection /\ Len(K.calls) <= 1 /\ K.next = 0
         /\ \A i \in DOMAIN K.calls :
              K.calls[i].kind \in Kinds /\ K.calls[i].effect = "none" /\ K.calls[i].direct = 0
         /\ K.run = J.run /\ K.cause = J.cause /\ K.status = J.status /\ K.att = "none"
         /\ K.tries = J.tries /\ K.snap = J.snap /\ K.gate \in {"checkpoint", "final_checkpoint"}
<1> DEFINE e == AssistantCommitted(kinds)
           A == AfterAssistant(J, kinds)
           calls == [i \in DOMAIN kinds |-> NewCall(kinds[i])]
<1>1. PICK n \in {0, 1} : kinds \in [1..n -> Kinds]
  <2>1. CASE kinds = << >> BY <2>1
  <2>2. CASE \E k \in Kinds : kinds = <<k>> BY <2>2
  <2> QED BY <2>1, <2>2
<1>2. DOMAIN kinds = 1..n BY <1>1
<1>3. \A i \in 1..n : /\ NewCall(kinds[i]) \in Call /\ NewCall(kinds[i]).kind \in Kinds
                      /\ NewCall(kinds[i]).effect = "none" /\ NewCall(kinds[i]).direct = 0
  BY <1>1, KindsAssumption DEF NewCall, Call, Effects
<1>4. /\ calls \in Seq(Call) /\ Len(calls) = n /\ DOMAIN calls = 1..n
      /\ \A i \in DOMAIN calls :
           calls[i].kind \in Kinds /\ calls[i].effect = "none" /\ calls[i].direct = 0
  BY <1>1, <1>2, <1>3
<1>5. /\ A \in Projection /\ A.calls = calls /\ A.next = 0
      /\ A.run = J.run /\ A.cause = J.cause /\ A.status = J.status /\ A.att = "none"
      /\ A.tries = J.tries /\ A.snap = J.snap /\ A.gate \in {"checkpoint", "final_checkpoint"}
  <2> HIDE DEF calls
  <2>1. J.blobs + 1 \in Nat BY DEF Projection
  <2>2. A = [J EXCEPT !.att = "none", !.blobs = J.blobs + 1, !.tip = "assistant", !.next = 0,
                      !.calls = calls,
                      !.gate = IF kinds = << >> THEN "final_checkpoint" ELSE "checkpoint"]
    BY DEF AfterAssistant, calls
  <2> HIDE DEF A
  <2> QED BY <1>4, <2>1, <2>2, GateNames DEF Projection
<1>6. After(J, e) = [A EXCEPT !.fresh = FALSE] BY DEF After, Adds, AssistantCommitted
<1> HIDE DEF A, calls, e
<1>7. /\ After(J, e) \in Projection /\ After(J, e).calls = calls /\ After(J, e).next = 0
      /\ After(J, e).run = J.run /\ After(J, e).cause = J.cause /\ After(J, e).status = J.status
      /\ After(J, e).att = "none" /\ After(J, e).tries = J.tries /\ After(J, e).snap = J.snap
      /\ After(J, e).gate \in {"checkpoint", "final_checkpoint"}
  BY <1>5, <1>6 DEF Projection
<1> QED BY <1>4, <1>7 DEF e

\* A result moves on to the next call.
LEMMA ResultEvent ==
  ASSUME NEW J \in Projection, NEW i
  PROVE  LET K == After(J, ResultCommitted(i)) IN
         Aside(J, K) /\ K.calls = J.calls /\ K.next = J.next + 1 /\ K.gate # "retry"
<1> DEFINE A == AfterResult(J)
<1>1. Aside(J, A) /\ A.calls = J.calls /\ A.next = J.next + 1 /\ A.gate # "retry"
  <2>1. J.blobs + 1 \in Nat /\ J.next + 1 \in Nat BY DEF Projection
  <2>2. PICK tip \in {"results", "assistant"}, gate \in {"boundary", "open"} :
          A = [J EXCEPT !.next = J.next + 1, !.blobs = J.blobs + 1, !.tip = tip, !.gate = gate]
    BY DEF AfterResult
  <2> HIDE DEF A
  <2> QED BY <2>1, <2>2, GateNames DEF Projection, Aside
<1>2. After(J, ResultCommitted(i)) = [A EXCEPT !.fresh = FALSE]
  BY DEF After, Adds, ResultCommitted
<1> HIDE DEF A
<1> QED BY <1>1, <1>2 DEF Projection, Aside

\* Which events there are.
LEMMA EventShapes ==
  ASSUME NEW J, NEW e \in KernelEvents(J),
         e.type = "effect_reconciled" => e.call \in DOMAIN J.calls
  PROVE  Shaped(J, e)
<1> USE DEF Shaped, QuietTypes, CallTypes
<1>1. CASE \E c \in Causes : e = RunStarted(c) BY <1>1 DEF RunStarted
<1>2. CASE e = RunInterrupted(J.run) BY <1>2 DEF RunInterrupted
<1>3. CASE e \in {UserCommitted, BoundaryCreated, AttemptStarted, SemanticStarted,
                  CheckpointCreated, RunCompleted}
  BY <1>3 DEF UserCommitted, BoundaryCreated, AttemptStarted, SemanticStarted,
              CheckpointCreated, RunCompleted
<1>4. CASE \E m \in {"fresh", "alias"} : e = SnapshotStored(m) BY <1>4 DEF SnapshotStored
<1>5. CASE \E s \in {"pre_semantic", "post_semantic"} : e = RequestInterrupted(s)
  BY <1>5 DEF RequestInterrupted
<1>6. CASE \E ks \in {<< >>} \cup {<<k>> : k \in Kinds} : e = AssistantCommitted(ks)
  BY <1>6 DEF AssistantCommitted
<1>7. CASE \E i \in 1..MaxCalls, d \in {"allow", "deny"} : e = PermissionDecided(i, d)
  BY <1>7 DEF PermissionDecided
<1>8. CASE \E i \in 1..MaxCalls : e = EffectPrepared(i) BY <1>8 DEF EffectPrepared
<1>9. CASE \E i \in 1..MaxCalls : e = OutputPublished(i) BY <1>9 DEF OutputPublished
<1>10. CASE \E i \in 1..MaxCalls, r \in Resolutions : e = EffectReconciled(i, r)
  BY <1>10 DEF EffectReconciled
<1>11. CASE \E i \in 1..MaxCalls : e = ResultPublished(i) BY <1>11 DEF ResultPublished
<1>12. CASE \E i \in 1..MaxCalls : e = ResultCommitted(i) BY <1>12 DEF ResultCommitted
<1>13. CASE \E i \in DOMAIN J.calls : e = EffectCompleted(i) BY <1>13 DEF EffectCompleted
<1>14. CASE \E i \in DOMAIN J.calls : e = EffectIndeterminate(i) BY <1>14 DEF EffectIndeterminate
<1> HIDE DEF Shaped, QuietTypes, CallTypes
<1> QED BY <1>1, <1>2, <1>3, <1>4, <1>5, <1>6, <1>7, <1>8, <1>9, <1>10, <1>11, <1>12, <1>13, <1>14
        DEF KernelEvents, Resolutions

-----------------------------------------------------------------------------
(* The invariant of the projection. *)

\* An event that is about no call keeps it.
LEMMA QuietStep ==
  ASSUME NEW J, NEW e, JournalInv(J), Shaped(J, e), Admits(J, e), e.type \in QuietTypes
  PROVE  JournalInv(After(J, e))
<1> DEFINE K == After(J, e)
<1>0. J \in Projection BY DEF JournalInv
<1>1. Quietly(J, K, e) BY <1>0, QuietEvents DEF Shaped
<1>2. J.run \in Nat /\ J.tries \in Nat /\ K \in Projection /\ K.calls = J.calls /\ K.next = J.next
  BY <1>0, <1>1 DEF Projection, Quietly
<1>3. Active(K) => K.run # 0
  <2>1. CASE e.type = "run_started" BY <1>1, <1>2, <2>1 DEF Quietly
  <2>2. CASE e.type # "run_started"
    BY <1>1, <2>2 DEF Quietly, StatusAfter, Active, JournalInv
  <2> QED BY <2>1, <2>2
<1>4. K.att # "none" => Active(K) /\ K.tries # 0
  <2>1. CASE e.type = "run_started"
    <3>1. J.att = "none" BY <2>1 DEF Admits, AdmitsRun, JournalInv
    <3> QED BY <1>1, <2>1, <3>1 DEF Quietly, AttemptAfter
  <2>2. CASE e.type = "request_attempt_started"
    <3>1. Active(J) BY <2>2 DEF Admits
    <3> QED BY <1>1, <1>2, <2>2, <3>1 DEF Quietly, StatusAfter, AttemptAfter, Active
  <2>3. CASE e.type = "request_interrupted" BY <1>1, <2>3 DEF Quietly, AttemptAfter
  <2>4. CASE e.type = "request_semantic_started"
    <3>1. J.att # "none" BY <2>4 DEF Admits
    <3> QED BY <1>1, <2>4, <3>1 DEF Quietly, StatusAfter, Active, JournalInv
  <2>5. CASE e.type \in {"request_snapshot_stored", "commit_boundary_created", "run_completed"}
    <3>1. J.att = "none" BY <2>5 DEF Admits, AdmitsSnapshot, Closed
    <3> QED BY <1>1, <2>5, <3>1 DEF Quietly, AttemptAfter
  <2>6. CASE e.type = "run_interrupted"
    <3>1. J.att = "none" BY <2>6 DEF Admits
    <3> QED BY <1>1, <2>6, <3>1 DEF Quietly, AttemptAfter
  <2>7. CASE e.type \in {"user_committed", "cache_checkpoint_created"}
    BY <1>1, <2>7 DEF Quietly, StatusAfter, AttemptAfter, Active, JournalInv
  <2> QED BY <2>1, <2>2, <2>3, <2>4, <2>5, <2>6, <2>7 DEF QuietTypes
<1>5. K.status = "completed" => Closed(K)
  <2>1. CASE e.type = "run_completed"
    <3>1. Closed(J) BY <2>1 DEF Admits
    <3> QED BY <1>1, <1>2, <2>1, <3>1 DEF Quietly, AttemptAfter, Closed, Effect, Pending
  <2>2. CASE e.type \in {"run_started", "run_interrupted"} BY <1>1, <2>2 DEF Quietly, StatusAfter
  <2>3. CASE e.type \notin {"run_completed", "run_started", "run_interrupted"}
    <3>1. Active(J) BY <2>3 DEF Admits, Shaped, QuietTypes
    <3> QED BY <1>1, <2>3, <3>1 DEF Quietly, StatusAfter, Active
  <2> QED BY <2>1, <2>2, <2>3
<1> HIDE DEF K
<1> QED BY <1>2, <1>3, <1>4, <1>5 DEF JournalInv, K

\* So does an event of one call: what has its result is settled, and stays so.
LEMMA CallStep ==
  ASSUME NEW J, NEW e, JournalInv(J), Shaped(J, e), Admits(J, e), e.type \in CallTypes
  PROVE  JournalInv(After(J, e))
<1> DEFINE K == After(J, e)
           D == CallAfter(J, e)
<1>0. J \in Projection /\ e.call \in DOMAIN J.calls BY AdmittedCall DEF JournalInv
<1>1. /\ Aside(J, K) /\ K.next = J.next /\ K.calls = [J.calls EXCEPT ![e.call] = D]
      /\ D.kind = J.calls[e.call].kind /\ D.effect = EffectAfter(J, e)
  BY <1>0, CallEvents
<1>2. J.calls \in Seq(Call) /\ J.next \in Nat BY <1>0 DEF Projection
<1> HIDE DEF K, D
<1>3. /\ Len(K.calls) = Len(J.calls) /\ DOMAIN K.calls = DOMAIN J.calls
      /\ \A i \in DOMAIN J.calls : K.calls[i] = IF i = e.call THEN D ELSE J.calls[i]
  BY <1>0, <1>1, <1>2
<1>4. Active(J) BY DEF Admits, CallTypes
<1>5. e.call <= J.next => EffectAfter(J, e) \notin {"prepared", "indeterminate"}
  <2>1. CASE e.type = "effect_prepared" BY <1>2, <2>1 DEF Admits, AdmitsPrepare, Unresolved
  <2>2. CASE e.type = "effect_completed" BY <2>2 DEF EffectAfter
  <2>3. CASE e.type = "effect_indeterminate"
    BY <1>0, <2>3 DEF Admits, JournalInv
  <2>4. CASE e.type = "effect_reconciled" BY <2>4 DEF EffectAfter, Shaped, Resolutions
  <2>5. CASE e.type \in {"permission_decided", "output_published", "result_published"}
    BY <1>0, <2>5 DEF EffectAfter, JournalInv
  <2> QED BY <2>1, <2>2, <2>3, <2>4, <2>5 DEF CallTypes
<1>6. \A i \in DOMAIN K.calls :
        i <= K.next => K.calls[i].effect \notin {"prepared", "indeterminate"}
  BY <1>1, <1>3, <1>5 DEF JournalInv
<1>7. \A i \in DOMAIN K.calls : K.calls[i].kind \in Kinds BY <1>0, <1>1, <1>3 DEF JournalInv
<1>8. K.status # "completed" BY <1>1, <1>4 DEF Aside, Active
<1>9. (Active(K) => K.run # 0) /\ (K.att # "none" => Active(K) /\ K.tries # 0)
  BY <1>1 DEF Aside, Active, JournalInv
<1>10. K \in Projection /\ Len(K.calls) <= 1 /\ K.next <= Len(K.calls)
  BY <1>1, <1>3 DEF Aside, JournalInv
<1> QED BY <1>6, <1>7, <1>8, <1>9, <1>10 DEF JournalInv, K

\* So does an answer ...
LEMMA AnswerStep ==
  ASSUME NEW J, JournalInv(J), NEW kinds \in {<< >>} \cup {<<k>> : k \in Kinds},
         Admits(J, AssistantCommitted(kinds))
  PROVE  JournalInv(After(J, AssistantCommitted(kinds)))
<1> DEFINE K == After(J, AssistantCommitted(kinds))
<1>0. J \in Projection BY DEF JournalInv
<1>1. /\ K \in Projection /\ Len(K.calls) <= 1 /\ K.next = 0
      /\ \A i \in DOMAIN K.calls :
           K.calls[i].kind \in Kinds /\ K.calls[i].effect = "none" /\ K.calls[i].direct = 0
      /\ K.run = J.run /\ K.cause = J.cause /\ K.status = J.status /\ K.att = "none"
  BY <1>0, AnswerEvent
<1>2. Active(J) BY DEF Admits, AssistantCommitted
<1>3. K.status # "completed" BY <1>1, <1>2 DEF Active
<1>4. Active(K) => K.run # 0 BY <1>1 DEF Active, JournalInv
<1>5. 0 <= Len(K.calls) BY <1>1 DEF Projection
<1> HIDE DEF K
<1> QED BY <1>1, <1>3, <1>4, <1>5 DEF JournalInv, K

\* ... and a result, which is admitted for a call that is settled.
LEMMA ResultStep ==
  ASSUME NEW J, JournalInv(J), NEW i, Admits(J, ResultCommitted(i))
  PROVE  /\ JournalInv(After(J, ResultCommitted(i)))
         /\ Len(J.calls) = 1 /\ J.next = 0 /\ i = 1
<1> DEFINE K == After(J, ResultCommitted(i))
<1>0. J \in Projection BY DEF JournalInv
<1>1. Aside(J, K) /\ K.calls = J.calls /\ K.next = J.next + 1 BY <1>0, ResultEvent
<1>2. AdmitsResult(J, i) /\ Active(J) BY DEF Admits, ResultCommitted
<1>3. J.next \in Nat /\ Len(J.calls) \in Nat /\ J.next < Len(J.calls) /\ i = J.next + 1
  BY <1>0, <1>2 DEF Projection, AdmitsResult, Pending
<1>4. Len(J.calls) = 1 /\ J.next = 0 /\ i = 1
  <2>1. Len(J.calls) <= 1 BY DEF JournalInv
  <2>2. PICK m, n \in Nat : m = J.next /\ n = Len(J.calls) BY <1>3
  <2>3. m < n /\ n <= 1 BY <1>3, <2>1, <2>2
  <2>4. n = 1 /\ m = 0 BY <2>3
  <2> QED BY <1>3, <2>2, <2>4
<1>5. DOMAIN J.calls = {1} BY <1>0, <1>4 DEF Projection
<1>6. J.calls[1].effect \notin {"prepared", "indeterminate"}
  BY <1>2, <1>4 DEF AdmitsResult, NoEffect
<1> HIDE DEF K
<1>7. K.status # "completed" BY <1>1, <1>2 DEF Aside, Active
<1>8. (Active(K) => K.run # 0) /\ (K.att # "none" => Active(K) /\ K.tries # 0)
  BY <1>1 DEF Aside, Active, JournalInv
<1>9. K \in Projection /\ Len(K.calls) <= 1 /\ K.next <= Len(K.calls)
  BY <1>1, <1>4 DEF Aside
<1>10. JournalInv(K) BY <1>1, <1>5, <1>6, <1>7, <1>8, <1>9 DEF JournalInv
<1> QED BY <1>4, <1>10 DEF K

-----------------------------------------------------------------------------
(* Sums over the lineages. *)

\* What is true of 0, and of each number if of the one before, is true of all.
LEMMA UpTo ==
  ASSUME NEW n \in Nat, NEW T, 0 \in T, \A i \in 1..n : i - 1 \in T => i \in T
  PROVE  \A i \in 0..n : i \in T
<1> DEFINE Missed == {i \in 0..n : i \notin T}
<1>1. SUFFICES ASSUME Missed # {}
               PROVE  FALSE
  OBVIOUS
<1>2. Missed \subseteq Nat OBVIOUS
<1>3. PICK m \in Missed : \A k \in Missed : ~ (<<k, m>> \in OpToRel(<, Nat))
  <2> HIDE DEF Missed
  <2> QED BY <1>1, <1>2, NatLessThanWellFounded, WFMin
<1>4. m \in 0..n /\ m \notin T /\ m # 0 OBVIOUS
<1>5. m \in 1..n /\ m - 1 \in 0..n /\ m - 1 \in Nat /\ m \in Nat /\ m - 1 < m BY <1>4
<1>6. m - 1 \in T
  <2>1. SUFFICES ASSUME m - 1 \notin T PROVE FALSE OBVIOUS
  <2>2. m - 1 \in Missed BY <1>5, <2>1
  <2>3. <<m - 1, m>> \in OpToRel(<, Nat) BY <1>5 DEF OpToRel
  <2> QED BY <1>3, <2>2, <2>3
<1> QED BY <1>4, <1>5, <1>6

\* The sums of f up to each number.
SumsOf(f, n) ==
  {g \in [0..n -> Nat] : g[0] = 0 /\ \A k \in 1..n : g[k] = g[k - 1] + f[k]}

\* Running sums exist, however long the function.
LEMMA SumsExist ==
  ASSUME NEW n \in Nat, NEW f \in [1..n -> Nat]
  PROVE  SumsOf(f, n) # {}
<1> DEFINE T == {m \in 0..n : SumsOf(f, m) # {}}
<1>1. 0 \in T
  <2>1. [k \in 0..0 |-> 0] \in SumsOf(f, 0) BY DEF SumsOf
  <2> QED BY <2>1
<1>2. ASSUME NEW m \in 1..n, m - 1 \in T PROVE m \in T
  <2>1. PICK g \in [0..(m - 1) -> Nat] :
          g[0] = 0 /\ \A k \in 1..(m - 1) : g[k] = g[k - 1] + f[k]
    BY <1>2 DEF SumsOf
  <2> DEFINE h == [k \in 0..m |-> IF k = m THEN g[m - 1] + f[m] ELSE g[k]]
  <2>2. m \in Nat /\ m - 1 \in 0..(m - 1) /\ f[m] \in Nat OBVIOUS
  <2>3. \A k \in 0..m : k = m \/ k \in 0..(m - 1) BY <2>2
  <2>4. h \in [0..m -> Nat] BY <2>1, <2>2, <2>3
  <2>5. h[0] = 0 BY <2>1, <2>2
  <2>6. ASSUME NEW k \in 1..m PROVE h[k] = h[k - 1] + f[k]
    <3>1. k \in 0..m /\ k - 1 \in 0..m /\ k - 1 # m BY <2>2
    <3>2. h[k - 1] = g[k - 1] BY <3>1
    <3>3. CASE k = m BY <3>1, <3>2, <3>3
    <3>4. CASE k # m
      <4>1. k \in 1..(m - 1) BY <2>2, <3>4
      <4> QED BY <2>1, <3>1, <3>2, <3>4, <4>1
    <3> QED BY <3>3, <3>4
  <2> HIDE DEF h
  <2>7. h \in SumsOf(f, m) BY <2>4, <2>5, <2>6 DEF SumsOf
  <2> QED BY <2>2, <2>7
<1>3. n \in T
  <2> HIDE DEF T
  <2>1. \A m \in 0..n : m \in T BY <1>1, <1>2, UpTo
  <2> QED BY <2>1
<1> QED BY <1>3

\* A sum is the last of the sums.
LEMMA SumIsLast ==
  ASSUME NEW n \in Nat, NEW f \in [1..n -> Nat]
  PROVE  \E g \in SumsOf(f, n) : SumOver(f, n) = g[n]
<1> DEFINE Def(s) == [k \in 0..n |-> IF k = 0 THEN 0 ELSE s[k - 1] + f[k]]
           sum == CHOOSE s : s = Def(s)
<1>1. PICK g \in [0..n -> Nat] : g[0] = 0 /\ \A k \in 1..n : g[k] = g[k - 1] + f[k]
  BY SumsExist DEF SumsOf
<1>2. \A k \in 0..n : k = 0 \/ k \in 1..n OBVIOUS
<1>3. g = Def(g) BY <1>1, <1>2
<1>4. sum = Def(sum) BY <1>3
<1>5. SumOver(f, n) = sum[n] BY DEF SumOver
<1> HIDE DEF sum
<1>6. \A k \in 0..n : sum[k] = IF k = 0 THEN 0 ELSE sum[k - 1] + f[k]
  <2>1. \A s : \A k \in 0..n : Def(s)[k] = IF k = 0 THEN 0 ELSE s[k - 1] + f[k] OBVIOUS
  <2> HIDE DEF Def
  <2> QED BY <1>4, <2>1
<1>7. DOMAIN sum = 0..n /\ sum = [k \in 0..n |-> sum[k]]
  <2>1. \A s : DOMAIN Def(s) = 0..n /\ Def(s) = [k \in 0..n |-> Def(s)[k]] OBVIOUS
  <2> HIDE DEF Def
  <2> QED BY <1>4, <2>1
<1> DEFINE T == {k \in 0..n : sum[k] = g[k]}
<1>8. 0 \in T BY <1>1, <1>6
<1>9. ASSUME NEW k \in 1..n, k - 1 \in T PROVE k \in T
  <2>1. k \in 0..n /\ k # 0 OBVIOUS
  <2>2. sum[k] = sum[k - 1] + f[k] BY <1>6, <2>1
  <2> QED BY <1>1, <1>9, <2>1, <2>2
<1>10. \A k \in 0..n : k \in T
  <2> HIDE DEF T
  <2> QED BY <1>8, <1>9, UpTo
<1>11. sum[n] = g[n] BY <1>10
<1>12. g \in SumsOf(f, n) BY <1>1 DEF SumsOf
<1> QED BY <1>5, <1>11, <1>12

\* A sum is a number, and grows by what one of its terms grows by.
LEMMA SumGrows ==
  ASSUME NEW n \in Nat, NEW f \in [1..n -> Nat], NEW h \in [1..n -> Nat], NEW l \in 1..n,
         NEW x \in Nat, h[l] = f[l] + x, \A k \in 1..n : k # l => h[k] = f[k]
  PROVE  SumOver(f, n) \in Nat /\ SumOver(h, n) = SumOver(f, n) + x
<1>1. PICK g \in SumsOf(f, n) : SumOver(f, n) = g[n] BY SumIsLast
<1>2. PICK q \in SumsOf(h, n) : SumOver(h, n) = q[n] BY SumIsLast
<1>3. /\ g \in [0..n -> Nat] /\ g[0] = 0 /\ \A k \in 1..n : g[k] = g[k - 1] + f[k]
      /\ q \in [0..n -> Nat] /\ q[0] = 0 /\ \A k \in 1..n : q[k] = q[k - 1] + h[k]
  BY <1>1, <1>2 DEF SumsOf
<1> DEFINE T == {k \in 0..n : q[k] = g[k] + (IF l <= k THEN x ELSE 0)}
<1>4. 0 \in T BY <1>3
<1>5. ASSUME NEW k \in 1..n, k - 1 \in T PROVE k \in T
  <2>1. k \in 0..n /\ k - 1 \in 0..n /\ k \in Nat /\ l \in Nat OBVIOUS
  <2>2. q[k] = q[k - 1] + h[k] /\ g[k] = g[k - 1] + f[k] BY <1>3
  <2>3. g[k - 1] \in Nat /\ f[k] \in Nat /\ h[k] \in Nat /\ q[k - 1] \in Nat BY <1>3, <2>1
  <2>4. q[k - 1] = g[k - 1] + (IF l <= k - 1 THEN x ELSE 0) BY <1>5
  <2>5. CASE k = l BY <2>1, <2>2, <2>3, <2>4, <2>5
  <2>6. CASE k # l
    <3>1. h[k] = f[k] BY <2>6
    <3>2. l <= k <=> l <= k - 1 BY <2>1, <2>6
    <3> QED BY <2>1, <2>2, <2>3, <2>4, <3>1, <3>2
  <2> QED BY <2>5, <2>6
<1>6. \A k \in 0..n : k \in T
  <2> HIDE DEF T
  <2> QED BY <1>4, <1>5, UpTo
<1>7. n \in 0..n /\ l <= n OBVIOUS
<1>8. q[n] = g[n] + x /\ g[n] \in Nat BY <1>3, <1>6, <1>7
<1> QED BY <1>1, <1>2, <1>8

\* Terms that are 0 at the end add nothing.
LEMMA SumExtends ==
  ASSUME NEW n \in Nat, NEW m \in Nat, n <= m, NEW f \in [1..n -> Nat], NEW h \in [1..m -> Nat],
         \A k \in 1..n : h[k] = f[k], \A k \in 1..m : k > n => h[k] = 0
  PROVE  SumOver(h, m) = SumOver(f, n)
<1>1. PICK g \in SumsOf(f, n) : SumOver(f, n) = g[n] BY SumIsLast
<1>2. PICK q \in SumsOf(h, m) : SumOver(h, m) = q[m] BY SumIsLast
<1>3. /\ g \in [0..n -> Nat] /\ g[0] = 0 /\ \A k \in 1..n : g[k] = g[k - 1] + f[k]
      /\ q \in [0..m -> Nat] /\ q[0] = 0 /\ \A k \in 1..m : q[k] = q[k - 1] + h[k]
  BY <1>1, <1>2 DEF SumsOf
<1> DEFINE T == {k \in 0..m : q[k] = g[IF k <= n THEN k ELSE n]}
<1>4. 0 \in T BY <1>3
<1>5. ASSUME NEW k \in 1..m, k - 1 \in T PROVE k \in T
  <2>1. k \in 0..m /\ k - 1 \in 0..m /\ k \in Nat OBVIOUS
  <2>2. q[k] = q[k - 1] + h[k] BY <1>3
  <2>3. q[k - 1] = g[IF k - 1 <= n THEN k - 1 ELSE n] BY <1>5
  <2>4. CASE k <= n
    <3>1. k \in 1..n /\ k - 1 <= n BY <2>1, <2>4
    <3>2. g[k] = g[k - 1] + f[k] BY <1>3, <3>1
    <3> QED BY <2>1, <2>2, <2>3, <2>4, <3>1, <3>2
  <2>5. CASE k > n
    <3>1. h[k] = 0 /\ q[k - 1] \in Nat BY <1>3, <2>1, <2>5
    <3>2. q[k] = q[k - 1] BY <2>2, <3>1
    <3>3. (IF k - 1 <= n THEN k - 1 ELSE n) = n BY <2>1, <2>5
    <3>4. (IF k <= n THEN k ELSE n) = n BY <2>1, <2>5
    <3> QED BY <2>1, <2>3, <3>2, <3>3, <3>4
  <2> QED BY <2>1, <2>4, <2>5
<1>6. \A k \in 0..m : k \in T
  <2> HIDE DEF T
  <2> QED BY <1>4, <1>5, UpTo
<1>7. q[m] = g[IF m <= n THEN m ELSE n] BY <1>6
<1>8. (IF m <= n THEN m ELSE n) = n OBVIOUS
<1> QED BY <1>1, <1>2, <1>7, <1>8

-----------------------------------------------------------------------------
(* Prices. *)

Prices == [from : Nat, hit : Nat, miss : Nat, out : Nat]

\* The price of a usage is a number.
LEMMA CostType ==
  ASSUME NEW u \in [hit : Nat, miss : Nat, out : Nat], NEW p \in Prices
  PROVE  CostOf(u, p) \in Nat
<1>1. /\ u.hit \in Nat /\ u.miss \in Nat /\ u.out \in Nat
      /\ p.hit \in Nat /\ p.miss \in Nat /\ p.out \in Nat
  BY DEF Prices
<1>2. \A a, b \in Nat : a * b \in Nat OBVIOUS
<1>3. u.hit * p.hit \in Nat /\ u.miss * p.miss \in Nat /\ u.out * p.out \in Nat BY <1>1, <1>2
<1> QED BY <1>3 DEF CostOf

\* A nonempty set of numbers up to n has a largest one.
LEMMA LargestOfMany ==
  ASSUME NEW n \in Nat, NEW S, S \subseteq 0..n, S # {}
  PROVE  \E k \in S : \A m \in S : m <= k
<1> DEFINE T == {n - k : k \in S}
<1>1. T \subseteq Nat /\ T # {}
  <2>1. PICK k \in S : TRUE OBVIOUS
  <2>2. n - k \in T BY <2>1
  <2>3. \A m \in S : n - m \in Nat OBVIOUS
  <2> QED BY <2>2, <2>3
<1>2. PICK x \in T : \A y \in T : ~ (<<y, x>> \in OpToRel(<, Nat))
  <2> HIDE DEF T
  <2> QED BY <1>1, NatLessThanWellFounded, WFMin
<1>3. \A y \in T : ~ (y < x) BY <1>1, <1>2 DEF OpToRel
<1>4. PICK k \in S : x = n - k OBVIOUS
<1>5. ASSUME NEW m \in S PROVE m <= k
  <2>1. n - m \in T OBVIOUS
  <2>2. ~ (n - m < n - k) BY <1>3, <1>4, <2>1
  <2> QED BY <2>2
<1> QED BY <1>5

\* The price the book selects is the one that was in force.
LEMMA PriceIsTrue ==
  ASSUME CostAssumption, NEW at \in Nat
  PROVE  /\ TruePrice(at) \in Prices
         /\ SelectPrice(at) # None => SelectPrice(at) = TruePrice(at)
         /\ Book[1].from <= at => SelectPrice(at) # None
<1> DEFINE reached == {k \in DOMAIN Book : \A m \in 1..k : Book[m].from <= at}
           before == {k \in DOMAIN Book : Book[k].from <= at}
<1>1. /\ Book \in Seq(Prices) /\ Len(Book) \in Nat /\ DOMAIN Book = 1..Len(Book) /\ Book # << >>
      /\ \A k, m \in DOMAIN Book : k < m => Book[k].from < Book[m].from
  BY DEF CostAssumption, BookAssumption, Prices
<1>2. Len(Book) # 0 /\ 1 \in DOMAIN Book BY <1>1
<1>3. \A k \in DOMAIN Book : Book[k] \in Prices /\ Book[k].from \in Nat /\ Book[k] # None
  <2>1. \A k \in DOMAIN Book : Book[k] \in Prices BY <1>1
  <2>2. \A k \in DOMAIN Book : Book[k].from \in Nat BY <2>1 DEF Prices
  <2>3. None \notin {Book[k] : k \in DOMAIN Book} BY DEF CostAssumption, NoneAssumption
  <2> QED BY <2>1, <2>2, <2>3
<1>4. reached = before
  <2>1. ASSUME NEW k \in before, NEW m \in 1..k PROVE Book[m].from <= at
    <3>1. k \in DOMAIN Book /\ m \in DOMAIN Book /\ m <= k BY <1>1
    <3>2. m = k \/ Book[m].from < Book[k].from BY <1>1, <3>1
    <3> QED BY <1>3, <3>1, <3>2
  <2>2. before \subseteq reached BY <2>1
  <2>3. \A k \in reached : k \in 1..k BY <1>1
  <2>4. reached \subseteq before BY <2>3
  <2> QED BY <2>2, <2>4
<1>5. CASE before = {}
  <2>1. SelectPrice(at) = None BY <1>4, <1>5 DEF SelectPrice
  <2>2. TruePrice(at) = Book[1] BY <1>5 DEF TruePrice
  <2>3. ~ (Book[1].from <= at) BY <1>2, <1>5
  <2> QED BY <1>2, <1>3, <2>1, <2>2, <2>3
<1>6. CASE before # {}
  <2>1. before \subseteq 0..Len(Book) BY <1>1
  <2>2. \E k \in before : \A m \in before : m <= k
    <3> HIDE DEF before
    <3> QED BY <1>1, <1>6, <2>1, LargestOfMany
  <2> DEFINE c == CHOOSE k \in before : \A m \in before : m <= k
  <2>3. c \in before /\ \A m \in before : m <= c BY <2>2
  <2>4. TruePrice(at) = Book[c] BY <1>6 DEF TruePrice
  <2> HIDE DEF c
  <2>5. c \in 1..Len(Book) /\ c \in Nat /\ \A m \in 1..c : Book[m].from <= at
    <3>1. c \in reached BY <1>4, <2>3
    <3> QED BY <1>1, <3>1
  <2>6. before = 1..c
    <3>1. ASSUME NEW m \in 1..c PROVE m \in before
      <4>1. m \in DOMAIN Book BY <1>1, <2>5
      <4> QED BY <2>5, <4>1
    <3>2. ASSUME NEW m \in before PROVE m \in 1..c BY <1>1, <2>3, <2>5
    <3> QED BY <3>1, <3>2
  <2>7. Cardinality(before) = c
    <3>1. Cardinality(1..c) = c BY <2>5, FS_Interval
    <3> QED BY <2>6, <3>1
  <2>8. SelectPrice(at) = Book[c] BY <1>4, <1>6, <2>7 DEF SelectPrice
  <2> QED BY <1>1, <1>3, <2>4, <2>5, <2>8
<1> QED BY <1>5, <1>6

-----------------------------------------------------------------------------
(* What an event adds to the ledger. *)

Attempts == [line : Nat, run : Nat, at : Nat, terminal : {"none", "assistant", "interrupted"}]
LineSums == [attempts : Nat, answered : Nat, interrupted : Nat, complete : BOOLEAN, cost : Nat]
Ledgers  == [attempts : Seq(Attempts), effects : Seq(Effects), of : [1..MaxCalls -> Nat],
             lines : Seq(LineSums), session : [complete : BOOLEAN, cost : Nat], refused : BOOLEAN]

Tokens == [hit : Nat, miss : Nat, out : Nat]

\* A sum, of a lineage or of the session, and a usage more.
Plus(sum, usage, at) ==
  IF SelectPrice(at) = None THEN [sum EXCEPT !.complete = FALSE]
  ELSE [sum EXCEPT !.cost = @ + CostOf(usage, SelectPrice(at))]

\* M is L with other sums: r of the lineage, s of the session.
Booked(L, M, r, s) ==
  /\ M \in Ledgers /\ M.effects = L.effects /\ M.of = L.of /\ M.refused = L.refused
  /\ Line(M) = Line(L) /\ M.lines[Line(L)] = r
  /\ \A k \in 1..Line(L) : k # Line(L) => M.lines[k] = L.lines[k]
  /\ M.session = s

\* The last attempt of M has ended.
Ended(L, M, how) ==
  /\ Len(M.attempts) = Len(L.attempts)
  /\ \A n \in 1..Len(L.attempts) :
       /\ M.attempts[n].line = L.attempts[n].line /\ M.attempts[n].run = L.attempts[n].run
       /\ M.attempts[n].terminal = IF n = Len(L.attempts) THEN how ELSE L.attempts[n].terminal

\* What is known of the parts of a ledger.
LEMMA LedgerParts ==
  ASSUME NEW L \in Ledgers
  PROVE  /\ L.attempts \in Seq(Attempts) /\ L.effects \in Seq(Effects) /\ L.of \in [1..MaxCalls -> Nat]
         /\ L.lines \in Seq(LineSums) /\ L.session \in [complete : BOOLEAN, cost : Nat]
         /\ L.refused \in BOOLEAN /\ Line(L) \in Nat /\ Len(L.attempts) \in Nat
         /\ \A k \in 1..Line(L) : L.lines[k] \in LineSums
         /\ \A n \in 1..Len(L.attempts) : L.attempts[n] \in Attempts
BY DEF Ledgers, Line

\* A sum stays one.
LEMMA PlusType ==
  ASSUME CostAssumption, NEW u \in Tokens, NEW at \in Nat
  PROVE  /\ \A r \in LineSums : Plus(r, u, at) \in LineSums
         /\ \A s \in [complete : BOOLEAN, cost : Nat] :
              Plus(s, u, at) \in [complete : BOOLEAN, cost : Nat]
<1>1. CASE SelectPrice(at) = None BY <1>1 DEF Plus, LineSums
<1>2. CASE SelectPrice(at) # None
  <2>1. PICK c \in Nat : c = CostOf(u, SelectPrice(at)) BY <1>2, PriceIsTrue, CostType DEF Tokens
  <2>2. \A r : Plus(r, u, at) = [r EXCEPT !.cost = @ + c] BY <1>2, <2>1 DEF Plus
  <2> QED BY <2>2 DEF LineSums
<1> QED BY <1>1, <1>2

\* One line changed.
WithSums(L, r, s) == [L EXCEPT !.lines = [L.lines EXCEPT ![Line(L)] = r], !.session = s]

\* A line that changes with the sums of the session leaves a ledger.
LEMMA LineChanged ==
  ASSUME NEW L \in Ledgers, Line(L) # 0, NEW r \in LineSums,
         NEW s \in [complete : BOOLEAN, cost : Nat]
  PROVE  Booked(L, WithSums(L, r, s), r, s) /\ WithSums(L, r, s).attempts = L.attempts
<1> DEFINE lines == [L.lines EXCEPT ![Line(L)] = r]
           M == WithSums(L, r, s)
<1>1. /\ L.lines \in Seq(LineSums) /\ Line(L) \in Nat /\ Line(L) = Len(L.lines)
      /\ Line(L) \in 1..Line(L) /\ DOMAIN L.lines = 1..Line(L)
  BY LedgerParts DEF Line
<1>2. /\ lines \in Seq(LineSums) /\ Len(lines) = Line(L) /\ lines[Line(L)] = r
      /\ \A k \in 1..Line(L) : k # Line(L) => lines[k] = L.lines[k]
  BY <1>1
<1> HIDE DEF lines
<1>3. M = [L EXCEPT !.lines = lines, !.session = s] BY DEF lines, WithSums
<1> HIDE DEF M
<1>4. /\ M \in Ledgers /\ M.lines = lines /\ M.session = s /\ M.attempts = L.attempts
      /\ M.effects = L.effects /\ M.of = L.of /\ M.refused = L.refused
  BY <1>2, <1>3 DEF Ledgers
<1> QED BY <1>2, <1>4 DEF Booked, Line, M

\* A usage is added to the lineage and to the session.
LEMMA PricedBooks ==
  ASSUME CostAssumption, NEW L \in Ledgers, Line(L) # 0, NEW u \in Tokens, NEW at \in Nat
  PROVE  /\ Booked(L, Priced(L, u, at), Plus(L.lines[Line(L)], u, at), Plus(L.session, u, at))
         /\ Priced(L, u, at).attempts = L.attempts
<1> DEFINE n == Line(L)
           r == Plus(L.lines[n], u, at)
           s == Plus(L.session, u, at)
<1>1. /\ L.lines \in Seq(LineSums) /\ n \in 1..n /\ L.lines[n] \in LineSums
      /\ L.session \in [complete : BOOLEAN, cost : Nat] /\ DOMAIN L.lines = 1..n
  BY LedgerParts DEF Line
<1>2. r \in LineSums /\ s \in [complete : BOOLEAN, cost : Nat] BY <1>1, PlusType
<1>3. Priced(L, u, at) = WithSums(L, r, s)
  <2>1. CASE SelectPrice(at) = None BY <1>1, <2>1 DEF Priced, Plus, Ledgers, WithSums
  <2>2. CASE SelectPrice(at) # None BY <1>1, <2>2 DEF Priced, Plus, Ledgers, WithSums
  <2> QED BY <2>1, <2>2
<1> HIDE DEF r, s
<1>4. Booked(L, Priced(L, u, at), r, s) /\ Priced(L, u, at).attempts = L.attempts
  BY <1>2, <1>3, LineChanged
<1> QED BY <1>4 DEF r, s

\* The last attempt and its line, changed.
LEMMA AttemptEnds ==
  ASSUME NEW L \in Ledgers, Line(L) # 0, Len(L.attempts) # 0,
         NEW how \in {"assistant", "interrupted"}, NEW r \in LineSums,
         NEW s \in [complete : BOOLEAN, cost : Nat],
         NEW M, M = [L EXCEPT !.attempts[Len(L.attempts)].terminal = how,
                              !.lines = [L.lines EXCEPT ![Line(L)] = r], !.session = s]
  PROVE  Booked(L, M, r, s) /\ Ended(L, M, how)
<1> DEFINE n == Len(L.attempts)
           a == [L.attempts[n] EXCEPT !.terminal = how]
           attempts == [L.attempts EXCEPT ![n] = a]
           N == WithSums(L, r, s)
<1>1. /\ L.attempts \in Seq(Attempts) /\ n \in Nat /\ n \in 1..n /\ L.attempts[n] \in Attempts
      /\ DOMAIN L.attempts = 1..n
  BY LedgerParts
<1>2. a \in Attempts /\ a.line = L.attempts[n].line /\ a.run = L.attempts[n].run /\ a.terminal = how
  BY <1>1 DEF Attempts
<1>3. Booked(L, N, r, s) /\ N.attempts = L.attempts BY LineChanged
<1>4. /\ attempts \in Seq(Attempts) /\ Len(attempts) = n /\ attempts[n] = a
      /\ \A k \in 1..n : k # n => attempts[k] = L.attempts[k]
  BY <1>1, <1>2
<1>5. M = [N EXCEPT !.attempts = attempts] BY <1>1 DEF Ledgers, WithSums
<1> HIDE DEF a, attempts, N
<1>6. /\ M \in Ledgers /\ M.attempts = attempts /\ M.lines = N.lines /\ M.session = N.session
      /\ M.effects = N.effects /\ M.of = N.of /\ M.refused = N.refused
  BY <1>3, <1>4, <1>5 DEF Ledgers, Booked
<1>7. Booked(L, M, r, s) BY <1>3, <1>6 DEF Booked, Line
<1>8. Ended(L, M, how) BY <1>2, <1>4, <1>6 DEF Ended
<1> QED BY <1>7, <1>8

\* The answer ends the last attempt, and is priced as of its beginning.
LEMMA AnswerBooks ==
  ASSUME CostAssumption, NEW L \in Ledgers, Line(L) # 0, Len(L.attempts) # 0, NEW u \in Tokens
  PROVE  LET M  == WithAnswer(L, u)
             r  == [L.lines[Line(L)] EXCEPT !.answered = @ + 1]
             at == L.attempts[Len(L.attempts)].at
         IN  Booked(L, M, Plus(r, u, at), Plus(L.session, u, at)) /\ Ended(L, M, "assistant")
<1> DEFINE n == Len(L.attempts)
           at == L.attempts[n].at
           r == [L.lines[Line(L)] EXCEPT !.answered = @ + 1]
           N == [L EXCEPT !.attempts[n].terminal = "assistant", !.lines[Line(L)].answered = @ + 1]
           M == WithAnswer(L, u)
<1>1. /\ L.attempts[n] \in Attempts /\ n \in Nat /\ n \in 1..n /\ Line(L) \in 1..Line(L)
      /\ L.lines[Line(L)] \in LineSums /\ L.session \in [complete : BOOLEAN, cost : Nat]
      /\ L.lines \in Seq(LineSums) /\ DOMAIN L.lines = 1..Line(L)
  BY LedgerParts DEF Line
<1>2. at \in Nat BY <1>1 DEF Attempts
<1>3. r \in LineSums
  <2>1. PICK x \in LineSums : x = L.lines[Line(L)] BY <1>1
  <2>2. [x EXCEPT !.answered = @ + 1] \in LineSums BY DEF LineSums
  <2> QED BY <2>1, <2>2
<1>4. N = [L EXCEPT !.attempts[n].terminal = "assistant",
                    !.lines = [L.lines EXCEPT ![Line(L)] = r], !.session = L.session]
  BY <1>1 DEF Ledgers
<1>5. M = Priced(N, u, at) BY DEF WithAnswer
<1> HIDE DEF N, r, at
<1>6. Booked(L, N, r, L.session) /\ Ended(L, N, "assistant") BY <1>1, <1>3, <1>4, AttemptEnds
<1>7. N \in Ledgers /\ Line(N) = Line(L) /\ N.lines[Line(L)] = r /\ N.session = L.session
  BY <1>6 DEF Booked
<1>8. Booked(N, M, Plus(r, u, at), Plus(L.session, u, at)) /\ M.attempts = N.attempts
  BY <1>2, <1>5, <1>7, PricedBooks
<1> HIDE DEF M
<1>9. Booked(L, M, Plus(r, u, at), Plus(L.session, u, at)) BY <1>6, <1>8 DEF Booked
<1>10. Ended(L, M, "assistant") BY <1>6, <1>8 DEF Ended
<1> QED BY <1>9, <1>10 DEF M, r, at

\* An attempt that ends without an answer leaves the sums incomplete.
LEMMA InterruptionBooks ==
  ASSUME NEW L \in Ledgers, Line(L) # 0, Len(L.attempts) # 0
  PROVE  LET M == WithInterruption(L) IN
         /\ Booked(L, M,
                   [L.lines[Line(L)] EXCEPT !.interrupted = @ + 1, !.complete = FALSE],
                   [L.session EXCEPT !.complete = FALSE])
         /\ Ended(L, M, "interrupted")
<1> DEFINE n == Len(L.attempts)
           r == [L.lines[Line(L)] EXCEPT !.interrupted = @ + 1, !.complete = FALSE]
           s == [L.session EXCEPT !.complete = FALSE]
           M == WithInterruption(L)
<1>1. /\ L.attempts[n] \in Attempts /\ n \in Nat /\ n \in 1..n /\ Line(L) \in 1..Line(L)
      /\ L.lines[Line(L)] \in LineSums /\ L.session \in [complete : BOOLEAN, cost : Nat]
      /\ L.lines \in Seq(LineSums) /\ DOMAIN L.lines = 1..Line(L)
  BY LedgerParts DEF Line
<1>2. r \in LineSums /\ s \in [complete : BOOLEAN, cost : Nat]
  <2>1. PICK x \in LineSums : x = L.lines[Line(L)] BY <1>1
  <2>2. \A y \in LineSums : [y EXCEPT !.complete = FALSE] \in LineSums BY DEF LineSums
  <2>3. [x EXCEPT !.interrupted = @ + 1] \in LineSums BY DEF LineSums
  <2>4. [x EXCEPT !.interrupted = @ + 1, !.complete = FALSE]
          = [[x EXCEPT !.interrupted = @ + 1] EXCEPT !.complete = FALSE]
    OBVIOUS
  <2>5. [x EXCEPT !.interrupted = @ + 1, !.complete = FALSE] \in LineSums BY <2>2, <2>3, <2>4
  <2> QED BY <1>1, <2>1, <2>5
<1>3. M = [L EXCEPT !.attempts[n].terminal = "interrupted",
                    !.lines = [L.lines EXCEPT ![Line(L)] = r], !.session = s]
  BY <1>1 DEF Ledgers, WithInterruption
<1> HIDE DEF r, s, M
<1>4. Booked(L, M, r, s) /\ Ended(L, M, "interrupted") BY <1>2, <1>3, AttemptEnds
<1> QED BY <1>4 DEF r, s, M

\* An attempt begins.
LEMMA AttemptBooks ==
  ASSUME NEW L \in Ledgers, Line(L) # 0, NEW run \in Nat, NEW at \in Nat
  PROVE  LET M == WithAttempt(L, run, at)
             n == Len(L.attempts)
         IN  /\ Booked(L, M, [L.lines[Line(L)] EXCEPT !.attempts = @ + 1], L.session)
             /\ Len(M.attempts) = n + 1 /\ \A k \in 1..n : M.attempts[k] = L.attempts[k]
             /\ M.attempts[n + 1] = [line |-> Line(L), run |-> run, at |-> at, terminal |-> "none"]
<1> DEFINE n == Len(L.attempts)
           r == [L.lines[Line(L)] EXCEPT !.attempts = @ + 1]
           N == WithSums(L, r, L.session)
           a == [line |-> Line(L), run |-> run, at |-> at, terminal |-> "none"]
           M == WithAttempt(L, run, at)
<1>1. /\ Line(L) \in 1..Line(L) /\ Line(L) \in Nat
      /\ L.lines[Line(L)] \in LineSums /\ L.session \in [complete : BOOLEAN, cost : Nat]
      /\ L.lines \in Seq(LineSums) /\ DOMAIN L.lines = 1..Line(L)
      /\ L.attempts \in Seq(Attempts) /\ n \in Nat
  BY LedgerParts DEF Line
<1>2. r \in LineSums /\ a \in Attempts
  <2>1. PICK x \in LineSums : x = L.lines[Line(L)] BY <1>1
  <2>2. [x EXCEPT !.attempts = @ + 1] \in LineSums BY DEF LineSums
  <2> QED BY <1>1, <2>1, <2>2 DEF Attempts
<1>3. M = [N EXCEPT !.attempts = Append(L.attempts, a)] BY <1>1 DEF Ledgers, WithAttempt, WithSums
<1>4. Booked(L, N, r, L.session) /\ N.attempts = L.attempts BY <1>1, <1>2, LineChanged
<1> HIDE DEF r, a, N, M
<1>5. /\ Append(L.attempts, a) \in Seq(Attempts) /\ Len(Append(L.attempts, a)) = n + 1
      /\ \A k \in 1..n : Append(L.attempts, a)[k] = L.attempts[k]
      /\ Append(L.attempts, a)[n + 1] = a
  BY <1>1, <1>2, AppendProperties
<1>6. /\ M \in Ledgers /\ M.attempts = Append(L.attempts, a) /\ M.lines = N.lines
      /\ M.session = N.session /\ M.effects = N.effects /\ M.of = N.of /\ M.refused = N.refused
  BY <1>3, <1>4, <1>5 DEF Ledgers, Booked
<1>7. Booked(L, M, r, L.session) BY <1>4, <1>6 DEF Booked, Line
<1> QED BY <1>5, <1>6, <1>7 DEF r, a, M

-----------------------------------------------------------------------------
(* What the ledger and the projection agree on. *)

\* No attempt of the session is open but the one of the projection, which is the
\* last; the counts of a lineage count its attempts.
AttemptsAgree(J, L) ==
  /\ \A n \in 1..Len(L.attempts) :
       L.attempts[n].terminal = "none" => J.att # "none" /\ n = Len(L.attempts)
  /\ J.att # "none" => NamesOpenAttempt(L, J.run)
  /\ \A k \in 1..Line(L) :
       L.lines[k].attempts = L.lines[k].answered + L.lines[k].interrupted
                               + (IF J.att # "none" /\ k = Line(L) THEN 1 ELSE 0)

\* An effect of a call is in the state the call says, and no other is unsettled.
EffectsAgree(J, L) ==
  /\ \A i \in DOMAIN J.calls : J.calls[i].effect # "none" =>
       L.of[i] \in 1..Len(L.effects) /\ L.effects[L.of[i]] = J.calls[i].effect
  /\ \A n \in 1..Len(L.effects) : L.effects[n] \in {"prepared", "indeterminate"} =>
       \E i \in DOMAIN J.calls : L.of[i] = n /\ J.calls[i].effect = L.effects[n]

\* A search that was made is of a call that has published its result.
SearchInv(J, S) ==
  /\ S \in [1..MaxCalls -> {None} \cup [run : Nat, usage : Usages, at : Nat]]
  /\ \A i \in 1..MaxCalls : S[i] # None =>
       i \in DOMAIN J.calls /\ J.calls[i].kind = "search" /\ J.calls[i].direct # 0

\* What the provider has charged for a search whose result is not committed.
Owed(J, S) ==
  IF J.next = 0 /\ S[1] # None THEN CostOf(S[1].usage, TruePrice(S[1].at)) ELSE 0

Costs(L) == [k \in 1..Line(L) |-> L.lines[k].cost]

\* The sums are not more than what is charged, what is owed included.
Money(L, B, owed) ==
  /\ B \in [1..MaxLineages -> Nat]
  /\ \A k \in 1..MaxLineages : k > Line(L) => B[k] = 0
  /\ \A k \in 1..Line(L) : L.lines[k].cost + (IF k = Line(L) THEN owed ELSE 0) <= B[k]
  /\ L.session.cost = SumOver(Costs(L), Line(L))

\* Without searches, a sum that is complete is what is charged.
Exact(L, B) ==
  "search" \notin Kinds =>
    /\ \A k \in 1..Line(L) : L.lines[k].complete => L.lines[k].cost = B[k]
    /\ L.session.complete => \A k \in 1..Line(L) : L.lines[k].complete

LedgerInv(L) ==
  /\ L \in Ledgers /\ ~ L.refused
  /\ Line(L) \in 1..MaxLineages /\ Len(L.attempts) <= MaxAttempts

TurnInv == turn \in [spent : Nat, counted : Nat, price : Prices, bounded : BOOLEAN, stopped : BOOLEAN]

\* What is charged are numbers, and no price has risen on a search where none is made.
ChargesInv ==
  /\ bill \in [1..MaxLineages -> Nat] /\ risen \in [1..MaxLineages -> Nat]
  /\ "search" \notin Kinds => \A k \in 1..MaxLineages : risen[k] = 0

IInv ==
  /\ JournalInv(j) /\ LedgerInv(ledger) /\ AttemptsAgree(j, ledger) /\ EffectsAgree(j, ledger)
  /\ SearchInv(j, search) /\ Money(ledger, Due, Owed(j, search)) /\ Exact(ledger, Due)
  /\ ChargesInv /\ TurnInv

\* While a turn has its budget, all it has spent was counted, and an attempt is
\* made, or may still be made, below the limit only.
SpendInv ==
  turn.bounded =>
    /\ turn.spent = turn.counted /\ turn.spent < Limit + MaxStep
    /\ turn.price = Book[1] /\ j.cause # "recovery"
    /\ MayAnswer(j) => turn.counted < Limit

-----------------------------------------------------------------------------
(* How the agreement is kept. *)

\* Events that begin and end no attempt.
LEMMA AttemptsStay ==
  ASSUME NEW J, NEW K, NEW L, NEW M, L \in Ledgers, M \in Ledgers, AttemptsAgree(J, L),
         K.att = "none" <=> J.att = "none", J.att # "none" => K.run = J.run,
         M.attempts = L.attempts, Line(M) = Line(L),
         \A k \in 1..Line(L) : /\ M.lines[k].attempts = L.lines[k].attempts
                               /\ M.lines[k].answered = L.lines[k].answered
                               /\ M.lines[k].interrupted = L.lines[k].interrupted
  PROVE  AttemptsAgree(K, M)
<1>1. \A n \in 1..Len(M.attempts) :
        M.attempts[n].terminal = "none" => K.att # "none" /\ n = Len(M.attempts)
  BY DEF AttemptsAgree
<1>2. K.att # "none" => NamesOpenAttempt(M, K.run)
  <2>1. SUFFICES ASSUME K.att # "none" PROVE NamesOpenAttempt(M, K.run) OBVIOUS
  <2>2. NamesOpenAttempt(L, J.run) /\ K.run = J.run BY <2>1 DEF AttemptsAgree
  <2> QED BY <2>2 DEF NamesOpenAttempt
<1>3. \A k \in 1..Line(M) :
        M.lines[k].attempts = M.lines[k].answered + M.lines[k].interrupted
                                + (IF K.att # "none" /\ k = Line(M) THEN 1 ELSE 0)
  BY DEF AttemptsAgree
<1> QED BY <1>1, <1>2, <1>3 DEF AttemptsAgree

\* An attempt begins.
LEMMA AttemptBegins ==
  ASSUME NEW J, NEW K, NEW L \in Ledgers, Line(L) # 0, AttemptsAgree(J, L),
         J.att = "none", K.att # "none", J.run \in Nat, K.run = J.run, NEW at \in Nat
  PROVE  AttemptsAgree(K, WithAttempt(L, J.run, at))
<1> DEFINE M == WithAttempt(L, J.run, at)
           n == Len(L.attempts)
           r == [L.lines[Line(L)] EXCEPT !.attempts = @ + 1]
<1>1. /\ Booked(L, M, r, L.session) /\ Len(M.attempts) = n + 1
      /\ \A k \in 1..n : M.attempts[k] = L.attempts[k]
      /\ M.attempts[n + 1] = [line |-> Line(L), run |-> J.run, at |-> at, terminal |-> "none"]
  BY AttemptBooks
<1>2. /\ n \in Nat /\ Line(L) \in 1..Line(L) /\ L.lines[Line(L)] \in LineSums BY LedgerParts
<1>3. /\ r.attempts = L.lines[Line(L)].attempts + 1 /\ r.answered = L.lines[Line(L)].answered
      /\ r.interrupted = L.lines[Line(L)].interrupted
  BY <1>2 DEF LineSums
<1> HIDE DEF M, r
<1>4. Line(M) = Line(L) /\ M.lines[Line(L)] = r
        /\ \A k \in 1..Line(L) : k # Line(L) => M.lines[k] = L.lines[k]
  BY <1>1 DEF Booked
<1>5. ASSUME NEW m \in 1..Len(M.attempts), M.attempts[m].terminal = "none"
      PROVE  K.att # "none" /\ m = Len(M.attempts)
  <2>1. m \in 1..n => L.attempts[m].terminal # "none" BY DEF AttemptsAgree
  <2>2. m \in 1..n \/ m = n + 1 BY <1>1, <1>2
  <2> QED BY <1>1, <1>5, <2>1, <2>2
<1>6. NamesOpenAttempt(M, K.run)
  <2>1. n + 1 > 0 BY <1>2
  <2> QED BY <1>1, <1>4, <2>1 DEF NamesOpenAttempt
<1>7. ASSUME NEW k \in 1..Line(M)
      PROVE  M.lines[k].attempts = M.lines[k].answered + M.lines[k].interrupted
                                     + (IF K.att # "none" /\ k = Line(M) THEN 1 ELSE 0)
  <2>1. L.lines[k].attempts = L.lines[k].answered + L.lines[k].interrupted + 0
    BY <1>4 DEF AttemptsAgree
  <2>2. L.lines[k] \in LineSums BY <1>4, LedgerParts
  <2>3. L.lines[k].answered \in Nat /\ L.lines[k].interrupted \in Nat BY <2>2 DEF LineSums
  <2>4. CASE k = Line(L) BY <1>3, <1>4, <2>1, <2>3, <2>4
  <2>5. CASE k # Line(L) BY <1>4, <2>1, <2>5
  <2> QED BY <2>4, <2>5
<1>8. AttemptsAgree(K, M) BY <1>5, <1>6, <1>7 DEF AttemptsAgree
<1> QED BY <1>8 DEF M

\* An attempt ends, with an answer or without.
LEMMA AttemptEnded ==
  ASSUME NEW J, NEW K, NEW L \in Ledgers, Line(L) # 0, AttemptsAgree(J, L),
         J.att # "none", K.att = "none", NEW M, NEW r, NEW s,
         Booked(L, M, r, s), NEW how \in {"assistant", "interrupted"}, Ended(L, M, how),
         r.attempts = L.lines[Line(L)].attempts,
         r.answered + r.interrupted = L.lines[Line(L)].answered + L.lines[Line(L)].interrupted + 1
  PROVE  AttemptsAgree(K, M)
<1> DEFINE n == Len(L.attempts)
<1>1. /\ Len(M.attempts) = n
      /\ \A m \in 1..n : M.attempts[m].terminal = IF m = n THEN how ELSE L.attempts[m].terminal
  BY DEF Ended
<1>2. ASSUME NEW m \in 1..Len(M.attempts) PROVE M.attempts[m].terminal # "none"
  <2>1. L.attempts[m].terminal = "none" => m = n BY <1>1 DEF AttemptsAgree
  <2> QED BY <1>1, <2>1
<1>3. Line(M) = Line(L) /\ M.lines[Line(L)] = r
        /\ \A k \in 1..Line(L) : k # Line(L) => M.lines[k] = L.lines[k]
  BY DEF Booked
<1>4. ASSUME NEW k \in 1..Line(M)
      PROVE  M.lines[k].attempts = M.lines[k].answered + M.lines[k].interrupted
                                     + (IF K.att # "none" /\ k = Line(M) THEN 1 ELSE 0)
  <2>1. L.lines[k].attempts = L.lines[k].answered + L.lines[k].interrupted
                                + (IF k = Line(L) THEN 1 ELSE 0)
    BY <1>3 DEF AttemptsAgree
  <2>2. M.lines[k] \in LineSums /\ L.lines[k] \in LineSums BY <1>3, LedgerParts DEF Booked
  <2>3. /\ M.lines[k].answered \in Nat /\ M.lines[k].interrupted \in Nat
        /\ L.lines[k].answered \in Nat /\ L.lines[k].interrupted \in Nat
    BY <2>2 DEF LineSums
  <2>4. CASE k = Line(L)
    <3>1. M.lines[k].attempts = L.lines[k].answered + L.lines[k].interrupted + 1
      BY <1>3, <2>1, <2>4
    <3>2. M.lines[k].answered + M.lines[k].interrupted
            = L.lines[k].answered + L.lines[k].interrupted + 1
      BY <1>3, <2>4
    <3> QED BY <2>3, <3>1, <3>2
  <2>5. CASE k # Line(L) BY <1>3, <2>1, <2>3, <2>5
  <2> QED BY <2>4, <2>5
<1> QED BY <1>2, <1>4 DEF AttemptsAgree

\* Events that change no effect, or bring calls that have none when the others are settled.
LEMMA EffectsStay ==
  ASSUME NEW J, NEW K, NEW L, NEW M, EffectsAgree(J, L), DOMAIN K.calls = DOMAIN J.calls,
         \A i \in DOMAIN J.calls : K.calls[i].effect = J.calls[i].effect,
         M.effects = L.effects, M.of = L.of
  PROVE  EffectsAgree(K, M)
BY DEF EffectsAgree

\* Calls whose effects are settled are forgotten with their run.
LEMMA EffectsForgotten ==
  ASSUME NEW J, NEW K, NEW L, NEW M, EffectsAgree(J, L),
         \A i \in DOMAIN J.calls : J.calls[i].effect \notin {"prepared", "indeterminate"},
         \A i \in DOMAIN K.calls : K.calls[i].effect = "none",
         M.effects = L.effects, M.of = L.of
  PROVE  EffectsAgree(K, M)
BY DEF EffectsAgree

\* An effect is prepared.
LEMMA EffectBegins ==
  ASSUME NEW J, NEW K, NEW L \in Ledgers, EffectsAgree(J, L), NEW i \in 1..MaxCalls,
         DOMAIN J.calls = {i}, DOMAIN K.calls = {i},
         J.calls[i].effect \notin {"prepared", "indeterminate"}, K.calls[i].effect = "prepared"
  PROVE  /\ EffectsAgree(K, WithEffect(L, i)) /\ WithEffect(L, i) \in Ledgers
         /\ WithEffect(L, i).attempts = L.attempts /\ WithEffect(L, i).lines = L.lines
         /\ WithEffect(L, i).session = L.session /\ WithEffect(L, i).refused = L.refused
<1> DEFINE M == WithEffect(L, i)
           n == Len(L.effects)
<1>1. L.effects \in Seq(Effects) /\ n \in Nat /\ L.of \in [1..MaxCalls -> Nat] BY LedgerParts
<1>2. M = [L EXCEPT !.effects = Append(L.effects, "prepared"), !.of = [L.of EXCEPT ![i] = n + 1]]
  BY DEF WithEffect
<1>3. /\ Append(L.effects, "prepared") \in Seq(Effects) /\ Len(Append(L.effects, "prepared")) = n + 1
      /\ \A k \in 1..n : Append(L.effects, "prepared")[k] = L.effects[k]
      /\ Append(L.effects, "prepared")[n + 1] = "prepared"
  <2>1. "prepared" \in Effects BY DEF Effects
  <2> QED BY <1>1, <2>1, AppendProperties
<1>4. [L.of EXCEPT ![i] = n + 1] \in [1..MaxCalls -> Nat] BY <1>1
<1> HIDE DEF M
<1>5. /\ M \in Ledgers /\ M.effects = Append(L.effects, "prepared")
      /\ M.of = [L.of EXCEPT ![i] = n + 1] /\ M.attempts = L.attempts /\ M.lines = L.lines
      /\ M.session = L.session /\ M.refused = L.refused
  BY <1>2, <1>3, <1>4 DEF Ledgers
<1>6. M.of[i] = n + 1 BY <1>1, <1>5
<1>7. M.of[i] \in 1..Len(M.effects) /\ M.effects[M.of[i]] = "prepared" BY <1>1, <1>3, <1>5, <1>6
<1>8. ASSUME NEW k \in 1..Len(M.effects), M.effects[k] \in {"prepared", "indeterminate"}
      PROVE  k = n + 1
  <2>1. CASE k \in 1..n
    <3>1. L.effects[k] \in {"prepared", "indeterminate"} BY <1>3, <1>5, <1>8, <2>1
    <3>2. \E m \in DOMAIN J.calls : J.calls[m].effect = L.effects[k] BY <2>1, <3>1 DEF EffectsAgree
    <3> QED BY <3>1, <3>2
  <2>2. k \in 1..n \/ k = n + 1 BY <1>1, <1>3, <1>5
  <2> QED BY <2>1, <2>2
<1>9. EffectsAgree(K, M) BY <1>3, <1>5, <1>6, <1>7, <1>8 DEF EffectsAgree
<1> QED BY <1>5, <1>9 DEF M

\* The effect of a call, settled or not.
Settled(L, i, state) == [L EXCEPT !.effects[L.of[i]] = state]

\* An effect takes the state that was recorded of it, and the others keep theirs.
LEMMA EffectSettles ==
  ASSUME NEW J, NEW K, NEW L \in Ledgers, EffectsAgree(J, L), NEW i \in 1..MaxCalls,
         DOMAIN J.calls = {i}, DOMAIN K.calls = {i}, J.calls[i].effect # "none",
         NEW state \in Effects, K.calls[i].effect = state
  PROVE  LET M == Settled(L, i, state) IN
         /\ EffectsAgree(K, M) /\ M \in Ledgers
         /\ M.attempts = L.attempts /\ M.lines = L.lines
         /\ M.session = L.session /\ M.refused = L.refused
<1> DEFINE M == Settled(L, i, state)
           n == Len(L.effects)
           effects == [L.effects EXCEPT ![L.of[i]] = state]
<1>1. /\ L.effects \in Seq(Effects) /\ n \in Nat /\ DOMAIN L.effects = 1..n
      /\ L.of \in [1..MaxCalls -> Nat]
  BY LedgerParts
<1>2. L.of[i] \in 1..n BY DEF EffectsAgree
<1>3. /\ effects \in Seq(Effects) /\ Len(effects) = n /\ effects[L.of[i]] = state
      /\ \A k \in 1..n : k # L.of[i] => effects[k] = L.effects[k]
  BY <1>1, <1>2
<1>4. M = [L EXCEPT !.effects = effects] BY DEF Settled
<1> HIDE DEF M, effects
<1>5. /\ M \in Ledgers /\ M.effects = effects /\ M.of = L.of /\ M.attempts = L.attempts
      /\ M.lines = L.lines /\ M.session = L.session /\ M.refused = L.refused
  BY <1>3, <1>4 DEF Ledgers
<1>6. ASSUME NEW k \in 1..Len(M.effects), M.effects[k] \in {"prepared", "indeterminate"}
      PROVE  M.of[i] = k /\ K.calls[i].effect = M.effects[k]
  <2>1. CASE k = L.of[i] BY <1>3, <1>5, <2>1
  <2>2. CASE k # L.of[i]
    <3>1. k \in 1..n /\ L.effects[k] \in {"prepared", "indeterminate"} BY <1>3, <1>5, <1>6, <2>2
    <3>2. \E m \in DOMAIN J.calls : L.of[m] = k BY <3>1 DEF EffectsAgree
    <3> QED BY <2>2, <3>2
  <2> QED BY <2>1, <2>2
<1>7. EffectsAgree(K, M) BY <1>2, <1>3, <1>5, <1>6 DEF EffectsAgree
<1> QED BY <1>5, <1>7 DEF M

-----------------------------------------------------------------------------
(* How the money is kept. *)

\* Only the Due of one line grows, by x.
BilledFor(B, C, l, x) ==
  /\ C \in [1..MaxLineages -> Nat] /\ C[l] = B[l] + x
  /\ \A k \in 1..MaxLineages : k # l => C[k] = B[k]

\* The sums grow by c where the provider charges x: what is owed makes up for the rest.
LEMMA MoneyStep ==
  ASSUME NEW L \in Ledgers, NEW M, NEW r, NEW s, NEW B, NEW C, NEW x \in Nat, NEW c \in Nat,
         NEW o \in Nat, NEW p \in Nat, Line(L) \in 1..MaxLineages, MaxLineages \in Nat,
         Booked(L, M, r, s), Money(L, B, o), BilledFor(B, C, Line(L), x),
         r.cost = L.lines[Line(L)].cost + c, s.cost = L.session.cost + c, c + p <= o + x
  PROVE  Money(M, C, p)
<1>1. /\ Line(M) = Line(L) /\ M.lines[Line(L)] = r /\ M.session = s /\ M \in Ledgers
      /\ \A k \in 1..Line(L) : k # Line(L) => M.lines[k] = L.lines[k]
  BY DEF Booked
<1>2. Line(L) \in 1..Line(L) /\ Line(L) \in Nat
      /\ \A k \in 1..Line(L) : L.lines[k] \in LineSums /\ M.lines[k] \in LineSums
  BY <1>1, LedgerParts
<1>3. \A k \in 1..Line(L) : L.lines[k].cost \in Nat /\ M.lines[k].cost \in Nat
  BY <1>2 DEF LineSums
<1>4. /\ B \in [1..MaxLineages -> Nat]
      /\ \A k \in 1..MaxLineages : k > Line(L) => B[k] = 0
      /\ \A k \in 1..Line(L) : L.lines[k].cost + (IF k = Line(L) THEN o ELSE 0) <= B[k]
      /\ L.session.cost = SumOver(Costs(L), Line(L))
  BY DEF Money
<1>5. \A k \in 1..MaxLineages : k > Line(M) => C[k] = 0 BY <1>1, <1>2, <1>4 DEF BilledFor
<1>6. ASSUME NEW k \in 1..Line(M)
      PROVE  M.lines[k].cost + (IF k = Line(M) THEN p ELSE 0) <= C[k]
  <2>1. k \in 1..Line(L) /\ k \in 1..MaxLineages BY <1>1, <1>2
  <2>2. CASE k = Line(L)
    <3>1. PICK a, b \in Nat : a = L.lines[k].cost /\ b = B[k] BY <1>3, <1>4, <2>1
    <3>2. a + o <= b BY <1>4, <2>1, <2>2, <3>1
    <3>3. M.lines[k].cost = a + c /\ C[k] = b + x BY <1>1, <2>2, <3>1 DEF BilledFor
    <3>4. (a + c) + p <= b + x BY <3>2
    <3> QED BY <1>1, <2>2, <3>3, <3>4
  <2>3. CASE k # Line(L)
    <3>1. L.lines[k].cost + 0 <= B[k] BY <1>4, <2>1, <2>3
    <3>2. M.lines[k] = L.lines[k] /\ C[k] = B[k] BY <1>1, <2>1, <2>3 DEF BilledFor
    <3> QED BY <1>1, <2>3, <3>1, <3>2
  <2> QED BY <2>2, <2>3
<1>7. M.session.cost = SumOver(Costs(M), Line(M))
  <2>1. Costs(L) \in [1..Line(L) -> Nat] /\ Costs(M) \in [1..Line(L) -> Nat]
    BY <1>1, <1>3 DEF Costs
  <2>2. Costs(M)[Line(L)] = Costs(L)[Line(L)] + c BY <1>1, <1>2 DEF Costs
  <2>3. \A k \in 1..Line(L) : k # Line(L) => Costs(M)[k] = Costs(L)[k] BY <1>1 DEF Costs
  <2>4. SumOver(Costs(M), Line(L)) = SumOver(Costs(L), Line(L)) + c
    BY <1>2, <2>1, <2>2, <2>3, SumGrows
  <2> QED BY <1>1, <1>4, <2>4
<1> QED BY <1>5, <1>6, <1>7 DEF Money, BilledFor

\* A complete sum stays exact, if what is complete grows by what is charged.
LEMMA ExactStep ==
  ASSUME NEW L \in Ledgers, NEW M, NEW r, NEW s, NEW B, NEW C, NEW x \in Nat, NEW c \in Nat,
         Line(L) \in 1..MaxLineages, MaxLineages \in Nat,
         Booked(L, M, r, s), Exact(L, B), BilledFor(B, C, Line(L), x),
         r.cost = L.lines[Line(L)].cost + c,
         "search" \notin Kinds /\ r.complete => L.lines[Line(L)].complete /\ c = x,
         s.complete => L.session.complete /\ (L.lines[Line(L)].complete => r.complete)
  PROVE  Exact(M, C)
<1>1. /\ Line(M) = Line(L) /\ M.lines[Line(L)] = r /\ M.session = s
      /\ \A k \in 1..Line(L) : k # Line(L) => M.lines[k] = L.lines[k]
  BY DEF Booked
<1>2. Line(L) \in 1..Line(L) /\ Line(L) \in Nat BY LedgerParts
<1>3. \A k \in 1..Line(L) : k \in 1..MaxLineages BY <1>2
<1>4. SUFFICES ASSUME "search" \notin Kinds
               PROVE  /\ \A k \in 1..Line(L) : M.lines[k].complete => M.lines[k].cost = C[k]
                      /\ M.session.complete => \A k \in 1..Line(L) : M.lines[k].complete
  BY <1>1 DEF Exact
<1>5. /\ \A k \in 1..Line(L) : L.lines[k].complete => L.lines[k].cost = B[k]
      /\ L.session.complete => \A k \in 1..Line(L) : L.lines[k].complete
  BY <1>4 DEF Exact
<1>6. ASSUME NEW k \in 1..Line(L), M.lines[k].complete PROVE M.lines[k].cost = C[k]
  <2>1. CASE k = Line(L)
    <3>1. L.lines[k].complete /\ c = x BY <1>1, <1>4, <1>6, <2>1
    <3>2. L.lines[k].cost = B[k] BY <1>5, <3>1
    <3> QED BY <1>1, <2>1, <3>1, <3>2 DEF BilledFor
  <2>2. CASE k # Line(L) BY <1>1, <1>3, <1>5, <1>6, <2>2 DEF BilledFor
  <2> QED BY <2>1, <2>2
<1>7. ASSUME M.session.complete, NEW k \in 1..Line(L) PROVE M.lines[k].complete
  <2>1. L.session.complete /\ L.lines[k].complete BY <1>1, <1>5, <1>7
  <2>2. CASE k = Line(L) BY <1>1, <1>7, <2>1, <2>2
  <2>3. CASE k # Line(L) BY <1>1, <2>1, <2>3
  <2> QED BY <2>2, <2>3
<1> QED BY <1>6, <1>7

\* Nothing is charged and nothing is summed.
LEMMA MoneyStays ==
  ASSUME NEW L \in Ledgers, NEW M \in Ledgers, NEW B, NEW o,
         M.lines = L.lines \/ (Line(M) = Line(L) /\ \A k \in 1..Line(L) :
            M.lines[k].cost = L.lines[k].cost /\ M.lines[k].complete = L.lines[k].complete),
         M.session = L.session, Money(L, B, o), Exact(L, B)
  PROVE  Money(M, B, o) /\ Exact(M, B)
<1>1. Line(M) = Line(L) /\ \A k \in 1..Line(L) :
        M.lines[k].cost = L.lines[k].cost /\ M.lines[k].complete = L.lines[k].complete
  BY DEF Line
<1>2. Costs(M) = Costs(L) BY <1>1 DEF Costs
<1> QED BY <1>1, <1>2 DEF Money, Exact

\* A new lineage has cost nothing yet.
LEMMA MoneyForNewLine ==
  ASSUME NEW L \in Ledgers, NEW B, NEW o \in Nat, Money(L, B, o), Exact(L, B),
         Line(L) < MaxLineages, MaxLineages \in Nat
  PROVE  LET M == [L EXCEPT !.lines = Append(@, NewLineage)] IN
         /\ M \in Ledgers /\ Line(M) = Line(L) + 1 /\ M.lines[Line(L) + 1] = NewLineage
         /\ \A k \in 1..Line(L) : M.lines[k] = L.lines[k]
         /\ M.attempts = L.attempts /\ M.effects = L.effects /\ M.of = L.of
         /\ M.refused = L.refused
         /\ Money(M, B, 0) /\ Exact(M, B)
<1> DEFINE M == [L EXCEPT !.lines = Append(@, NewLineage)]
           n == Line(L)
<1>1. L.lines \in Seq(LineSums) /\ n \in Nat /\ \A k \in 1..n : L.lines[k] \in LineSums
  BY LedgerParts
<1>2. NewLineage \in LineSums /\ NewLineage.cost = 0 /\ NewLineage.complete
  BY DEF NewLineage, LineSums
<1>3. /\ Append(L.lines, NewLineage) \in Seq(LineSums) /\ Len(Append(L.lines, NewLineage)) = n + 1
      /\ \A k \in 1..n : Append(L.lines, NewLineage)[k] = L.lines[k]
      /\ Append(L.lines, NewLineage)[n + 1] = NewLineage
  BY <1>1, <1>2, AppendProperties DEF Line
<1>4. /\ M \in Ledgers /\ M.lines = Append(L.lines, NewLineage) /\ M.attempts = L.attempts
      /\ M.effects = L.effects /\ M.of = L.of /\ M.refused = L.refused /\ M.session = L.session
  BY <1>3 DEF Ledgers
<1> HIDE DEF M
<1>5. Line(M) = n + 1 /\ M.lines[n + 1] = NewLineage /\ \A k \in 1..n : M.lines[k] = L.lines[k]
  BY <1>3, <1>4 DEF Line
<1>6. /\ B \in [1..MaxLineages -> Nat]
      /\ \A k \in 1..MaxLineages : k > n => B[k] = 0
      /\ \A k \in 1..n : L.lines[k].cost + (IF k = n THEN o ELSE 0) <= B[k]
      /\ L.session.cost = SumOver(Costs(L), n)
  BY DEF Money
<1>7. \A k \in 1..n : L.lines[k].cost \in Nat BY <1>1 DEF LineSums
<1>8. \A k \in 1..(n + 1) : k = n + 1 \/ k \in 1..n BY <1>1
<1>9. n + 1 \in 1..MaxLineages /\ n + 1 > n BY <1>1
<1>10. B[n + 1] = 0 BY <1>6, <1>9
<1>11. ASSUME NEW k \in 1..(n + 1) PROVE M.lines[k].cost + (IF k = n + 1 THEN 0 ELSE 0) <= B[k]
  <2>1. CASE k = n + 1 BY <1>2, <1>5, <1>10, <2>1
  <2>2. CASE k \in 1..n
    <3>1. PICK a \in Nat, b \in Nat : a = L.lines[k].cost /\ b = B[k] BY <1>1, <1>6, <1>7, <1>9, <2>2
    <3>2. a + (IF k = n THEN o ELSE 0) <= b BY <1>6, <2>2, <3>1
    <3>3. a + 0 <= b BY <3>2
    <3> QED BY <1>5, <2>2, <3>1, <3>3
  <2> QED BY <1>8, <2>1, <2>2
<1>12. SumOver(Costs(M), n + 1) = SumOver(Costs(L), n)
  <2>1. Costs(L) \in [1..n -> Nat] /\ Costs(M) \in [1..(n + 1) -> Nat]
    BY <1>2, <1>5, <1>7, <1>8 DEF Costs
  <2>2. \A k \in 1..n : Costs(M)[k] = Costs(L)[k] BY <1>1, <1>5 DEF Costs
  <2>3. \A k \in 1..(n + 1) : k > n => k = n + 1 BY <1>1
  <2>4. Costs(M)[n + 1] = 0 BY <1>1, <1>2, <1>5 DEF Costs
  <2>5. \A k \in 1..(n + 1) : k > n => Costs(M)[k] = 0 BY <2>3, <2>4
  <2>6. n <= n + 1 /\ n + 1 \in Nat BY <1>1
  <2> HIDE DEF n
  <2> QED BY <1>1, <2>1, <2>2, <2>5, <2>6, SumExtends
<1>13. \A k \in 1..MaxLineages : k > n + 1 => B[k] = 0 BY <1>1, <1>6
<1>14. Money(M, B, 0) BY <1>4, <1>5, <1>6, <1>11, <1>12, <1>13 DEF Money
<1>15. Exact(M, B) BY <1>2, <1>4, <1>5, <1>8, <1>10 DEF Exact
<1> QED BY <1>4, <1>5, <1>14, <1>15 DEF M

-----------------------------------------------------------------------------
(* The steps. *)

\* An answer has one call at most, so a call is the first.
LEMMA OneCall ==
  ASSUME NEW J, JournalInv(J), NEW i \in DOMAIN J.calls
  PROVE  i = 1 /\ DOMAIN J.calls = {1} /\ 1 \in 1..MaxCalls /\ J.calls[1] \in Call
         /\ J.next \in {0, 1}
<1>1. J.calls \in Seq(Call) /\ J.next \in Nat /\ Len(J.calls) <= 1 /\ J.next <= Len(J.calls)
  BY DEF JournalInv, Projection
<1>2. PICK m, n \in Nat : m = Len(J.calls) /\ n = J.next BY <1>1
<1>3. m <= 1 /\ n <= m /\ i \in 1..m BY <1>1, <1>2
<1>4. m = 1 /\ i = 1 /\ n \in {0, 1} BY <1>3
<1>5. DOMAIN J.calls = {1}
  <2>1. Len(J.calls) = 1 BY <1>2, <1>4
  <2>2. DOMAIN J.calls = 1..Len(J.calls) BY <1>1
  <2>3. 1..1 = {1} OBVIOUS
  <2> QED BY <2>1, <2>2, <2>3
<1> QED BY <1>1, <1>2, <1>4, <1>5, MaxCallsAssumption

\* An event the ledger passes over.
PassedTypes ==
  (QuietTypes \ {"request_attempt_started", "request_interrupted"})
    \cup {"permission_decided", "output_published", "result_published"}

\* Most events say nothing to the ledger.
LEMMA PassedOver ==
  ASSUME NEW L, NEW e, NEW x, e.type \in PassedTypes
  PROVE  Recorded(L, e, x) = L
BY DEF Recorded, LedgerReads, SettlesFrom, PassedTypes, QuietTypes

\* The events that settle an effect, and the state they leave it in.
LEMMA SettlesEffect ==
  ASSUME NEW J, NEW L \in Ledgers, NEW e, NEW x, JournalInv(J), EffectsAgree(J, L), Shaped(J, e),
         Admits(J, e), e.type \in {"effect_completed", "effect_indeterminate", "effect_reconciled"}
  PROVE  /\ Recorded(L, e, x) = Settled(L, e.call, EffectAfter(J, e))
         /\ EffectAfter(J, e) \in Effects /\ J.calls[e.call].effect # "none"
<1>1. e.call \in DOMAIN J.calls BY DEF Shaped
<1>2. J.calls[e.call].effect = SettlesFrom[e.type] /\ SettlesFrom[e.type] # "none"
  <2>1. CASE e.type = "effect_completed" BY <2>1 DEF Admits, SettlesFrom
  <2>2. CASE e.type = "effect_indeterminate" BY <2>2 DEF Admits, SettlesFrom
  <2>3. CASE e.type = "effect_reconciled" BY <2>3 DEF Admits, SettlesFrom
  <2> QED BY <2>1, <2>2, <2>3
<1>3. L.of[e.call] \in 1..Len(L.effects) /\ L.effects[L.of[e.call]] = J.calls[e.call].effect
  BY <1>1, <1>2 DEF EffectsAgree
<1>4. EffectOf(L, e.call) = SettlesFrom[e.type]
  <2>1. L.of[e.call] # 0 BY <1>3
  <2> QED BY <1>2, <1>3, <2>1 DEF EffectOf
<1>5. LedgerReads(L, e, j.run) BY <1>4 DEF LedgerReads, SettlesFrom
<1>6. Recorded(L, e, x) = [L EXCEPT !.effects[L.of[e.call]] = SettledState(e)]
  BY <1>5 DEF Recorded, SettlesFrom
<1>7. SettledState(e) = EffectAfter(J, e) BY DEF SettledState, EffectAfter
<1>8. EffectAfter(J, e) \in Effects BY DEF EffectAfter, Effects, Shaped, Resolutions
<1> QED BY <1>2, <1>6, <1>7, <1>8 DEF Settled

\* Searches are of calls that stay.
LEMMA SearchesStay ==
  ASSUME NEW J, NEW K, NEW S, SearchInv(J, S), DOMAIN K.calls = DOMAIN J.calls, K.next = J.next,
         \A i \in DOMAIN J.calls : /\ K.calls[i].kind = J.calls[i].kind
                                   /\ J.calls[i].direct # 0 => K.calls[i].direct # 0
  PROVE  SearchInv(K, S) /\ Owed(K, S) = Owed(J, S)
BY DEF SearchInv, Owed

\* The ledger of an event without usage.
LEMMA EventStep ==
  ASSUME CostAssumption, IInv, Event
  PROVE  IInv'
<1>1. PICK e \in KernelEvents(j) :
        /\ Bounded(e) /\ Admits(j, e)
        /\ e.type \notin {"run_started", "request_attempt_started", "assistant_committed",
                          "request_interrupted", "result_published", "tool_result_committed"}
        /\ j' = After(j, e)
        /\ ledger' = Recorded(ledger, e, [at |-> 0, usage |-> None])
        /\ UNCHANGED <<turn, search, bill, risen>>
  BY DEF Event
<1>2. Shaped(j, e) BY <1>1, EventShapes DEF Bounded
<1>3. /\ JournalInv(j) /\ LedgerInv(ledger) /\ AttemptsAgree(j, ledger) /\ EffectsAgree(j, ledger)
      /\ SearchInv(j, search) /\ Money(ledger, Due, Owed(j, search)) /\ Exact(ledger, Due)
      /\ ChargesInv /\ TurnInv
  BY DEF IInv
<1>4. j \in Projection /\ ledger \in Ledgers BY <1>3 DEF JournalInv, LedgerInv
<1>5. turn' = turn /\ search' = search /\ Due' = Due BY <1>1 DEF Due
<1>6. TurnInv' /\ ChargesInv' BY <1>1, <1>3, <1>5 DEF TurnInv, ChargesInv
<1>7. CASE e.type \in QuietTypes
  <2>1. Quietly(j, j', e) BY <1>1, <1>2, <1>4, <1>7, QuietEvents DEF Shaped
  <2>2. JournalInv(j') BY <1>1, <1>2, <1>3, <1>7, QuietStep
  <2>3. ledger' = ledger BY <1>1, <1>7, PassedOver DEF PassedTypes
  <2>4. j'.run = j.run /\ j'.calls = j.calls /\ j'.next = j.next BY <1>1, <2>1 DEF Quietly
  <2>5. j'.att = "none" <=> j.att = "none"
    <3>1. e.type = "request_semantic_started" => j.att = "open" BY <1>1 DEF Admits
    <3> QED BY <1>1, <2>1, <3>1 DEF Quietly, AttemptAfter
  <2>6. AttemptsAgree(j', ledger) BY <1>3, <1>4, <2>4, <2>5, AttemptsStay
  <2>7. EffectsAgree(j', ledger) BY <1>3, <2>4, EffectsStay
  <2>8. SearchInv(j', search) /\ Owed(j', search) = Owed(j, search) BY <1>3, <2>4, SearchesStay
  <2> QED BY <1>3, <1>5, <1>6, <2>2, <2>3, <2>6, <2>7, <2>8 DEF IInv
<1>8. CASE e.type \in CallTypes
  <2>1. e.call \in DOMAIN j.calls BY <1>1, <1>2, <1>8, AdmittedCall
  <2> DEFINE D == CallAfter(j, e)
  <2>2. /\ Aside(j, j') /\ j'.next = j.next /\ j'.calls = [j.calls EXCEPT ![e.call] = D]
        /\ D.kind = j.calls[e.call].kind /\ D.effect = EffectAfter(j, e)
        /\ D.direct = j.calls[e.call].direct
    BY <1>1, <1>2, <1>4, <1>8, <2>1, CallEvents DEF DirectAfter
  <2> HIDE DEF D
  <2>3. JournalInv(j') BY <1>1, <1>2, <1>3, <1>8, CallStep
  <2>4. /\ e.call = 1 /\ DOMAIN j.calls = {1} /\ 1 \in 1..MaxCalls /\ DOMAIN j'.calls = {1}
        /\ j'.calls[1] = D
    BY <1>3, <2>1, <2>2, OneCall
  <2>5. SearchInv(j', search) /\ Owed(j', search) = Owed(j, search)
    BY <1>3, <2>2, <2>4, SearchesStay
  <2>6. j'.run = j.run /\ j'.att = j.att BY <2>2 DEF Aside
  <2>7. CASE e.type \in {"permission_decided", "output_published"}
    <3>1. ledger' = ledger BY <1>1, <2>7, PassedOver DEF PassedTypes
    <3>2. AttemptsAgree(j', ledger) BY <1>3, <1>4, <2>6, AttemptsStay
    <3>3. j'.calls[1].effect = j.calls[1].effect BY <2>2, <2>4, <2>7 DEF EffectAfter
    <3>4. EffectsAgree(j', ledger) BY <1>3, <2>4, <3>3, EffectsStay
    <3> QED BY <1>3, <1>5, <1>6, <2>3, <2>5, <3>1, <3>2, <3>4 DEF IInv
  <2>8. CASE e.type = "effect_prepared"
    <3>1. ledger' = WithEffect(ledger, 1)
      BY <1>1, <2>4, <2>8 DEF Recorded, LedgerReads, SettlesFrom
    <3>2. j.calls[1].effect \notin {"prepared", "indeterminate"}
      BY <1>1, <2>4, <2>8 DEF Admits, AdmitsPrepare
    <3>3. j'.calls[1].effect = "prepared" BY <2>2, <2>4, <2>8 DEF EffectAfter
    <3>4. /\ EffectsAgree(j', ledger') /\ ledger' \in Ledgers
          /\ ledger'.attempts = ledger.attempts /\ ledger'.lines = ledger.lines
          /\ ledger'.session = ledger.session /\ ledger'.refused = ledger.refused
      <4>1. EffectsAgree(j, ledger) BY <1>3
      <4>2. EffectsAgree(j', WithEffect(ledger, 1)) BY <4>1, <1>4, <2>4, <3>2, <3>3, EffectBegins
      <4>3. /\ WithEffect(ledger, 1) \in Ledgers
            /\ WithEffect(ledger, 1).attempts = ledger.attempts
            /\ WithEffect(ledger, 1).lines = ledger.lines
            /\ WithEffect(ledger, 1).session = ledger.session
            /\ WithEffect(ledger, 1).refused = ledger.refused
        BY <4>1, <1>4, <2>4, <3>2, <3>3, EffectBegins
      <4> QED BY <3>1, <4>2, <4>3
    <3>5. Line(ledger') = Line(ledger) BY <3>4 DEF Line
    <3>6. AttemptsAgree(j', ledger') BY <1>3, <1>4, <2>6, <3>4, <3>5, AttemptsStay
    <3>7. LedgerInv(ledger') BY <1>3, <3>4, <3>5 DEF LedgerInv
    <3>8. Money(ledger', Due, Owed(j, search)) /\ Exact(ledger', Due)
      BY <1>3, <1>4, <3>4, MoneyStays
    <3> QED BY <1>5, <1>6, <2>3, <2>5, <3>4, <3>6, <3>7, <3>8 DEF IInv
  <2>9. CASE e.type \in {"effect_completed", "effect_indeterminate", "effect_reconciled"}
    <3> DEFINE state == EffectAfter(j, e)
    <3>1. /\ ledger' = Settled(ledger, 1, state) /\ state \in Effects
          /\ j.calls[1].effect # "none"
      BY <1>1, <1>2, <1>3, <1>4, <2>4, <2>9, SettlesEffect
    <3>2. j'.calls[1].effect = state BY <2>2, <2>4
    <3> HIDE DEF state
    <3>4. /\ EffectsAgree(j', ledger') /\ ledger' \in Ledgers
          /\ ledger'.attempts = ledger.attempts /\ ledger'.lines = ledger.lines
          /\ ledger'.session = ledger.session /\ ledger'.refused = ledger.refused
      BY <1>3, <1>4, <2>4, <3>1, <3>2, EffectSettles
    <3>5. Line(ledger') = Line(ledger) BY <3>4 DEF Line
    <3>6. AttemptsAgree(j', ledger') BY <1>3, <1>4, <2>6, <3>4, <3>5, AttemptsStay
    <3>7. LedgerInv(ledger') BY <1>3, <3>4, <3>5 DEF LedgerInv
    <3>8. Money(ledger', Due, Owed(j, search)) /\ Exact(ledger', Due)
      BY <1>3, <1>4, <3>4, MoneyStays
    <3> QED BY <1>5, <1>6, <2>3, <2>5, <3>4, <3>6, <3>7, <3>8 DEF IInv
  <2> QED BY <1>1, <1>8, <2>7, <2>8, <2>9 DEF CallTypes
<1> QED BY <1>1, <1>2, <1>7, <1>8 DEF Shaped

\* What is owed is a number.
LEMMA OwedIsNumber ==
  ASSUME CostAssumption, NEW J, NEW S, JournalInv(J), SearchInv(J, S)
  PROVE  /\ Owed(J, S) \in Nat
         /\ \A i \in 1..MaxCalls : S[i] # None =>
              /\ S[i] \in [run : Nat, usage : Usages, at : Nat] /\ S[i].usage \in Tokens
              /\ S[i].usage # None /\ S[i].at \in Nat /\ TruePrice(S[i].at) \in Prices
              /\ CostOf(S[i].usage, TruePrice(S[i].at)) \in Nat
<1>1. Usages \subseteq Tokens BY DEF CostAssumption, UsagesAssumption, Tokens
<1>2. None \notin Usages BY DEF CostAssumption, NoneAssumption
<1>3. ASSUME NEW i \in 1..MaxCalls, S[i] # None
      PROVE  /\ S[i] \in [run : Nat, usage : Usages, at : Nat] /\ S[i].usage \in Tokens
             /\ S[i].usage # None /\ S[i].at \in Nat /\ TruePrice(S[i].at) \in Prices
             /\ CostOf(S[i].usage, TruePrice(S[i].at)) \in Nat
  <2>1. S[i] \in [run : Nat, usage : Usages, at : Nat] BY <1>3 DEF SearchInv
  <2>2. S[i].usage \in Usages /\ S[i].at \in Nat BY <2>1
  <2>3. TruePrice(S[i].at) \in Prices BY <2>2, PriceIsTrue
  <2>4. S[i].usage \in Tokens BY <1>1, <2>2
  <2>5. CostOf(S[i].usage, TruePrice(S[i].at)) \in Nat BY <2>3, <2>4, CostType DEF Tokens
  <2> QED BY <1>2, <2>1, <2>2, <2>3, <2>4, <2>5
<1>4. 1 \in 1..MaxCalls BY MaxCallsAssumption
<1>5. Owed(J, S) \in Nat BY <1>3, <1>4 DEF Owed
<1> QED BY <1>3, <1>5

\* What a step may rely on.
LEMMA BeforeStep ==
  ASSUME CostAssumption, IInv
  PROVE  /\ JournalInv(j) /\ LedgerInv(ledger) /\ AttemptsAgree(j, ledger)
         /\ EffectsAgree(j, ledger) /\ SearchInv(j, search)
         /\ Money(ledger, Due, Owed(j, search)) /\ Exact(ledger, Due) /\ ChargesInv
         /\ TurnInv /\ j \in Projection /\ ledger \in Ledgers
         /\ Line(ledger) # 0 /\ Line(ledger) \in 1..MaxLineages /\ MaxLineages \in Nat
         /\ Owed(j, search) \in Nat /\ Due \in [1..MaxLineages -> Nat]
         /\ MaxTime \in Nat /\ MaxAttempts \in Nat
         /\ Usages \subseteq Tokens
<1>1. /\ JournalInv(j) /\ LedgerInv(ledger) /\ AttemptsAgree(j, ledger)
      /\ EffectsAgree(j, ledger) /\ SearchInv(j, search)
      /\ Money(ledger, Due, Owed(j, search)) /\ Exact(ledger, Due)
      /\ ChargesInv /\ TurnInv
  BY DEF IInv
<1>2. j \in Projection /\ ledger \in Ledgers BY <1>1 DEF JournalInv, LedgerInv
<1>3. MaxLineages \in Nat /\ MaxTime \in Nat /\ MaxAttempts \in Nat
  BY DEF CostAssumption, CostBoundsAssumption
<1>4. Line(ledger) # 0 /\ Line(ledger) \in 1..MaxLineages BY <1>1, <1>3 DEF LedgerInv
<1>5. Owed(j, search) \in Nat BY <1>1, OwedIsNumber
<1>6. Due \in [1..MaxLineages -> Nat] BY <1>1 DEF Money
<1>7. Usages \subseteq Tokens BY DEF CostAssumption, UsagesAssumption, Tokens
<1> QED BY <1>1, <1>2, <1>3, <1>4, <1>5, <1>6, <1>7

\* A run starts, when no attempt is open.
LEMMA StartRunStep ==
  ASSUME CostAssumption, IInv, StartRun
  PROVE  IInv'
<1>1. PICK cause \in Causes :
        /\ Admits(j, RunStarted(cause)) /\ j' = After(j, RunStarted(cause))
        /\ \/ \E at \in 0..MaxTime : SelectPrice(at) # None /\ turn' = NewTurn(SelectPrice(at))
           \/ turn' = turn
           \/ turn' = [turn EXCEPT !.bounded = FALSE, !.stopped = FALSE]
        /\ UNCHANGED <<ledger, search, bill, risen>>
  BY DEF StartRun
<1> DEFINE e == RunStarted(cause)
<1>2. Shaped(j, e) /\ e.type = "run_started" /\ e.type \in QuietTypes
  BY DEF Shaped, RunStarted, QuietTypes
<1>3. /\ JournalInv(j) /\ LedgerInv(ledger) /\ AttemptsAgree(j, ledger) /\ EffectsAgree(j, ledger)
      /\ SearchInv(j, search) /\ Money(ledger, Due, Owed(j, search)) /\ Exact(ledger, Due)
      /\ ChargesInv /\ TurnInv /\ j \in Projection /\ ledger \in Ledgers /\ MaxTime \in Nat
  BY BeforeStep
<1>4. ledger' = ledger /\ search' = search /\ Due' = Due /\ ChargesInv'
  BY <1>1, <1>3 DEF Due, ChargesInv
<1>5. j.att = "none" BY <1>1, <1>3 DEF Admits, AdmitsRun, RunStarted, JournalInv
<1> HIDE DEF e
<1>6. Quietly(j, j', e) BY <1>1, <1>2, <1>3, QuietEvents DEF Shaped, e
<1>7. JournalInv(j') BY <1>1, <1>2, <1>3, QuietStep DEF e
<1>8. j'.calls = j.calls /\ j'.next = j.next /\ j'.att = "none"
  BY <1>2, <1>5, <1>6 DEF Quietly, AttemptAfter
<1>9. AttemptsAgree(j', ledger) BY <1>3, <1>5, <1>8, AttemptsStay
<1>10. EffectsAgree(j', ledger) BY <1>3, <1>8, EffectsStay
<1>11. SearchInv(j', search) /\ Owed(j', search) = Owed(j, search) BY <1>3, <1>8, SearchesStay
<1>12. TurnInv'
  <2>1. CASE \E at \in 0..MaxTime : SelectPrice(at) # None /\ turn' = NewTurn(SelectPrice(at))
    <3>1. PICK at \in 0..MaxTime : SelectPrice(at) # None /\ turn' = NewTurn(SelectPrice(at))
      BY <2>1
    <3>2. at \in Nat BY <1>3
    <3>3. SelectPrice(at) \in Prices BY <3>1, <3>2, PriceIsTrue
    <3> QED BY <3>1, <3>3 DEF TurnInv, NewTurn
  <2>2. CASE turn' = turn BY <1>3, <2>2 DEF TurnInv
  <2>3. CASE turn' = [turn EXCEPT !.bounded = FALSE, !.stopped = FALSE]
    BY <1>3, <2>3 DEF TurnInv
  <2> QED BY <1>1, <2>1, <2>2, <2>3
<1> QED BY <1>3, <1>4, <1>7, <1>9, <1>10, <1>11, <1>12 DEF IInv

\* An attempt begins, when no other is open.
LEMMA AttemptStep ==
  ASSUME CostAssumption, IInv, Attempt
  PROVE  IInv'
<1>1. PICK at \in 0..MaxTime :
        /\ Bounded(AttemptStarted) /\ Admits(j, AttemptStarted) /\ j' = After(j, AttemptStarted)
        /\ ledger' = Recorded(ledger, AttemptStarted, [at |-> at, usage |-> None])
        /\ UNCHANGED <<turn, search, bill, risen>>
  BY DEF Attempt
<1> DEFINE e == AttemptStarted
<1>2. Shaped(j, e) /\ e.type = "request_attempt_started" /\ e.type \in QuietTypes
  BY DEF Shaped, AttemptStarted, QuietTypes
<1>3. /\ JournalInv(j) /\ LedgerInv(ledger) /\ AttemptsAgree(j, ledger) /\ EffectsAgree(j, ledger)
      /\ SearchInv(j, search) /\ Money(ledger, Due, Owed(j, search)) /\ Exact(ledger, Due)
      /\ ChargesInv /\ TurnInv /\ j \in Projection /\ ledger \in Ledgers /\ MaxTime \in Nat /\ MaxAttempts \in Nat
      /\ Line(ledger) # 0
  BY BeforeStep
<1>4. turn' = turn /\ search' = search /\ Due' = Due /\ ChargesInv'
  BY <1>1, <1>3 DEF Due, ChargesInv
<1>5. j.att = "none" /\ j.run \in Nat /\ at \in Nat
  BY <1>1, <1>3 DEF Admits, AdmitsAttempt, Closed, AttemptStarted, Projection
<1>6. ledger' = WithAttempt(ledger, j.run, at)
  BY <1>1 DEF Recorded, LedgerReads, SettlesFrom, AttemptStarted
<1> HIDE DEF e
<1>7. Quietly(j, j', e) BY <1>1, <1>2, <1>3, QuietEvents DEF Shaped, e
<1>8. JournalInv(j') BY <1>1, <1>2, <1>3, QuietStep DEF e
<1>9. j'.calls = j.calls /\ j'.next = j.next /\ j'.att # "none" /\ j'.run = j.run
  BY <1>2, <1>7 DEF Quietly, AttemptAfter
<1> DEFINE r == [ledger.lines[Line(ledger)] EXCEPT !.attempts = @ + 1]
<1>10. Booked(ledger, ledger', r, ledger.session) /\ Len(ledger'.attempts) = Len(ledger.attempts) + 1
  <2>1. /\ Booked(ledger, WithAttempt(ledger, j.run, at), r, ledger.session)
        /\ Len(WithAttempt(ledger, j.run, at).attempts) = Len(ledger.attempts) + 1
    BY <1>3, <1>5, AttemptBooks
  <2> QED BY <1>6, <2>1
<1>11. ledger.lines[Line(ledger)] \in LineSums /\ Line(ledger) \in 1..Line(ledger)
       /\ Len(ledger.attempts) \in Nat
  BY <1>3, LedgerParts
<1>12. r.cost = ledger.lines[Line(ledger)].cost /\ r.complete = ledger.lines[Line(ledger)].complete
  BY <1>11 DEF LineSums
<1> HIDE DEF r
<1>13. /\ ledger' \in Ledgers /\ Line(ledger') = Line(ledger) /\ ledger'.session = ledger.session
       /\ ledger'.refused = ledger.refused
       /\ ledger'.effects = ledger.effects /\ ledger'.of = ledger.of
       /\ \A k \in 1..Line(ledger) : /\ ledger'.lines[k].cost = ledger.lines[k].cost
                                     /\ ledger'.lines[k].complete = ledger.lines[k].complete
  BY <1>10, <1>12 DEF Booked
<1>14. Money(ledger', Due, Owed(j, search)) /\ Exact(ledger', Due)
  BY <1>3, <1>13, MoneyStays
<1>15. LedgerInv(ledger')
  <2>1. Len(ledger.attempts) < MaxAttempts BY <1>1 DEF Bounded, AttemptStarted
  <2>2. Len(ledger.attempts) + 1 <= MaxAttempts BY <1>3, <1>11, <2>1
  <2> QED BY <1>3, <1>10, <1>13, <2>2 DEF LedgerInv
<1>16. AttemptsAgree(j', ledger')
  <2>1. AttemptsAgree(j', WithAttempt(ledger, j.run, at))
    BY <1>3, <1>5, <1>9, AttemptBegins
  <2> QED BY <1>6, <2>1
<1>17. EffectsAgree(j', ledger') BY <1>3, <1>9, <1>13, EffectsStay
<1>18. SearchInv(j', search) /\ Owed(j', search) = Owed(j, search) BY <1>3, <1>9, SearchesStay
<1>19. TurnInv' BY <1>3, <1>4 DEF TurnInv
<1> QED BY <1>4, <1>8, <1>14, <1>15, <1>16, <1>17, <1>18, <1>19 DEF IInv

\* An open attempt of the projection is the last of the ledger.
LEMMA AttemptIsNamed ==
  ASSUME NEW J, NEW L \in Ledgers, AttemptsAgree(J, L), J.att # "none"
  PROVE  /\ NamesOpenAttempt(L, J.run) /\ Len(L.attempts) # 0
         /\ L.attempts[Len(L.attempts)] \in Attempts /\ L.attempts[Len(L.attempts)].at \in Nat
<1>1. NamesOpenAttempt(L, J.run) BY DEF AttemptsAgree
<1>2. Len(L.attempts) \in Nat /\ Len(L.attempts) > 0 BY <1>1, LedgerParts DEF NamesOpenAttempt
<1>3. L.attempts[Len(L.attempts)] \in Attempts BY <1>2, LedgerParts
<1> QED BY <1>1, <1>2, <1>3 DEF Attempts

\* The provider charges an amount for the line in use.
LEMMA ChargedFor ==
  ASSUME ChargesInv, Line(ledger) \in 1..MaxLineages, NEW x \in Nat, Charged(x), risen' = risen
  PROVE  BilledFor(Due, Due', Line(ledger), x) /\ ChargesInv'
<1> DEFINE l == Line(ledger)
<1>1. bill' = [bill EXCEPT ![l] = @ + x] BY DEF Charged
<1>2. bill \in [1..MaxLineages -> Nat] /\ risen \in [1..MaxLineages -> Nat] BY DEF ChargesInv
<1>3. bill' \in [1..MaxLineages -> Nat] /\ bill'[l] = bill[l] + x
      /\ \A k \in 1..MaxLineages : k # l => bill'[k] = bill[k]
  <2> HIDE DEF l
  <2>1. l \in 1..MaxLineages BY DEF l
  <2>2. bill[l] + x \in Nat BY <1>2, <2>1
  <2> QED BY <1>1, <1>2, <2>1, <2>2
<1>4. ChargesInv' BY <1>2, <1>3 DEF ChargesInv
<1>5. Due' \in [1..MaxLineages -> Nat]
  <2>1. \A k \in 1..MaxLineages : bill'[k] + risen[k] \in Nat BY <1>2, <1>3
  <2> QED BY <2>1 DEF Due
<1>6. Due'[l] = Due[l] + x
  <2>1. PICK p, q \in Nat : p = bill[l] /\ q = risen[l] BY <1>2
  <2>2. Due'[l] = (p + x) + q /\ Due[l] = p + q BY <1>3, <2>1 DEF Due
  <2> QED BY <2>2
<1>7. \A k \in 1..MaxLineages : k # l => Due'[k] = Due[k] BY <1>3 DEF Due
<1> QED BY <1>4, <1>5, <1>6, <1>7 DEF BilledFor

\* The result of a search is priced at x above what it was charged.
LEMMA RisenFor ==
  ASSUME ChargesInv, Line(ledger) \in 1..MaxLineages, NEW x \in Nat, "search" \in Kinds,
         risen' = [risen EXCEPT ![Line(ledger)] = @ + x], bill' = bill
  PROVE  BilledFor(Due, Due', Line(ledger), x) /\ ChargesInv'
<1> DEFINE l == Line(ledger)
<1>1. risen' = [risen EXCEPT ![l] = @ + x] OBVIOUS
<1>2. bill \in [1..MaxLineages -> Nat] /\ risen \in [1..MaxLineages -> Nat] BY DEF ChargesInv
<1>3. risen' \in [1..MaxLineages -> Nat] /\ risen'[l] = risen[l] + x
      /\ \A k \in 1..MaxLineages : k # l => risen'[k] = risen[k]
  <2> HIDE DEF l
  <2>1. l \in 1..MaxLineages BY DEF l
  <2>2. risen[l] + x \in Nat BY <1>2, <2>1
  <2> QED BY <1>1, <1>2, <2>1, <2>2
<1>4. ChargesInv' BY <1>2, <1>3 DEF ChargesInv
<1>5. Due' \in [1..MaxLineages -> Nat]
  <2>1. \A k \in 1..MaxLineages : bill[k] + risen'[k] \in Nat BY <1>2, <1>3
  <2> QED BY <2>1 DEF Due
<1>6. Due'[l] = Due[l] + x
  <2>1. PICK p, q \in Nat : p = bill[l] /\ q = risen[l] BY <1>2
  <2>2. Due'[l] = p + (q + x) /\ Due[l] = p + q BY <1>3, <2>1 DEF Due
  <2> QED BY <2>2
<1>7. \A k \in 1..MaxLineages : k # l => Due'[k] = Due[k] BY <1>3 DEF Due
<1> QED BY <1>4, <1>5, <1>6, <1>7 DEF BilledFor

\* An answer ends the attempt, and is priced at what it was charged at or not at all.
LEMMA AnswerTaken ==
  ASSUME CostAssumption, IInv, Answer
  PROVE  IInv'
<1>1. PICK u \in Usages, kinds \in {<< >>} \cup {<<k>> : k \in Kinds} :
        /\ Admits(j, AssistantCommitted(kinds)) /\ j' = After(j, AssistantCommitted(kinds))
        /\ ledger' = Recorded(ledger, AssistantCommitted(kinds), [at |-> 0, usage |-> u])
        /\ turn' = [Counted(turn, u) EXCEPT !.spent =
                      @ + CostOf(u, TruePrice(ledger.attempts[Len(ledger.attempts)].at))]
        /\ search' = [i \in 1..MaxCalls |-> None]
        /\ Charged(CostOf(u, TruePrice(ledger.attempts[Len(ledger.attempts)].at)))
        /\ risen' = risen
  BY DEF Answer
<1> DEFINE e == AssistantCommitted(kinds)
           at == ledger.attempts[Len(ledger.attempts)].at
           x == CostOf(u, TruePrice(at))
           c == IF SelectPrice(at) = None THEN 0 ELSE x
           r0 == [ledger.lines[Line(ledger)] EXCEPT !.answered = @ + 1]
           r == Plus(r0, u, at)
           s == Plus(ledger.session, u, at)
<1>2. /\ JournalInv(j) /\ LedgerInv(ledger) /\ AttemptsAgree(j, ledger) /\ EffectsAgree(j, ledger)
      /\ Money(ledger, Due, Owed(j, search)) /\ Exact(ledger, Due)
      /\ ChargesInv /\ TurnInv /\ j \in Projection /\ ledger \in Ledgers
      /\ Line(ledger) # 0 /\ Line(ledger) \in 1..MaxLineages /\ MaxLineages \in Nat
      /\ Owed(j, search) \in Nat /\ Due \in [1..MaxLineages -> Nat]
      /\ u \in Tokens
  BY BeforeStep
<1>3. e.type = "assistant_committed" /\ j.att # "none" /\ ~ Pending(j)
  BY <1>1 DEF Admits, AssistantCommitted
<1>4. NamesOpenAttempt(ledger, j.run) /\ Len(ledger.attempts) # 0 /\ at \in Nat
  BY <1>2, <1>3, AttemptIsNamed
<1>5. ledger' = WithAnswer(ledger, u)
  <2>1. LedgerReads(ledger, e, j.run) BY <1>3, <1>4 DEF LedgerReads, SettlesFrom
  <2>2. Recorded(ledger, e, [at |-> 0, usage |-> u]) = WithAnswer(ledger, u)
    BY <1>3, <2>1 DEF Recorded, SettlesFrom
  <2> QED BY <1>1, <2>2
<1>6. TruePrice(at) \in Prices /\ (SelectPrice(at) # None => SelectPrice(at) = TruePrice(at))
  BY <1>4, PriceIsTrue
<1>7. x \in Nat /\ c \in Nat BY <1>2, <1>6, CostType DEF Tokens
<1>8. ledger.lines[Line(ledger)] \in LineSums /\ ledger.session \in [complete : BOOLEAN, cost : Nat]
  <2>1. Line(ledger) \in 1..Line(ledger) BY <1>2, LedgerParts
  <2> QED BY <1>2, <2>1, LedgerParts
<1>9. BilledFor(Due, Due', Line(ledger), x) /\ ChargesInv' BY <1>1, <1>2, <1>7, ChargedFor
<1>10. Booked(ledger, ledger', r, s) /\ Ended(ledger, ledger', "assistant")
  <2>1. /\ Booked(ledger, WithAnswer(ledger, u), r, s)
        /\ Ended(ledger, WithAnswer(ledger, u), "assistant")
    BY <1>2, <1>4, AnswerBooks
  <2> QED BY <1>5, <2>1
<1>11. /\ r.attempts = ledger.lines[Line(ledger)].attempts
       /\ r.answered = ledger.lines[Line(ledger)].answered + 1
       /\ r.interrupted = ledger.lines[Line(ledger)].interrupted
       /\ r.cost = ledger.lines[Line(ledger)].cost + c
       /\ s.cost = ledger.session.cost + c
       /\ r.complete => ledger.lines[Line(ledger)].complete /\ c = x
       /\ s.complete => ledger.session.complete
       /\ s.complete /\ ledger.lines[Line(ledger)].complete => r.complete
  <2>1. PICK y \in LineSums, z \in [complete : BOOLEAN, cost : Nat] :
          y = ledger.lines[Line(ledger)] /\ z = ledger.session
    BY <1>8
  <2>2. r0 = [y EXCEPT !.answered = y.answered + 1] BY <2>1
  <2> HIDE DEF r0
  <2>3. CASE SelectPrice(at) = None
    <3>1. r = [r0 EXCEPT !.complete = FALSE] /\ s = [z EXCEPT !.complete = FALSE] /\ c = 0
      BY <2>1, <2>3 DEF Plus
    <3> HIDE DEF r, s, c
    <3> QED BY <2>1, <2>2, <3>1 DEF LineSums
  <2>4. CASE SelectPrice(at) # None
    <3>1. r = [r0 EXCEPT !.cost = r0.cost + x] /\ s = [z EXCEPT !.cost = z.cost + x] /\ c = x
      BY <1>6, <2>1, <2>4 DEF Plus
    <3> HIDE DEF r, s, c, x
    <3>2. r = [y EXCEPT !.answered = y.answered + 1, !.cost = y.cost + x]
      BY <2>2, <3>1 DEF LineSums
    <3> QED BY <2>1, <3>1, <3>2 DEF LineSums
  <2> QED BY <2>3, <2>4
<1> HIDE DEF at, x, c, r, s, r0
<1>12. /\ ledger' \in Ledgers /\ ledger'.effects = ledger.effects /\ ledger'.of = ledger.of
       /\ ledger'.refused = ledger.refused /\ Line(ledger') = Line(ledger)
       /\ Len(ledger'.attempts) = Len(ledger.attempts)
  BY <1>10 DEF Booked, Ended
<1>13. /\ JournalInv(j') /\ j'.att = "none" /\ j'.next = 0
       /\ \A i \in DOMAIN j'.calls : j'.calls[i].effect = "none"
  BY <1>1, <1>2, AnswerStep, AnswerEvent
<1>14. LedgerInv(ledger') BY <1>2, <1>12 DEF LedgerInv
<1>15. AttemptsAgree(j', ledger')
  <2>1. ledger.lines[Line(ledger)].answered \in Nat /\ ledger.lines[Line(ledger)].interrupted \in Nat
    BY <1>8 DEF LineSums
  <2>2. r.answered + r.interrupted
          = ledger.lines[Line(ledger)].answered + ledger.lines[Line(ledger)].interrupted + 1
    BY <1>11, <2>1
  <2> QED BY <1>2, <1>3, <1>10, <1>11, <1>13, <2>2, AttemptEnded
<1>16. EffectsAgree(j', ledger')
  <2>1. ASSUME NEW i \in DOMAIN j.calls
        PROVE  j.calls[i].effect \notin {"prepared", "indeterminate"}
    <3>1. /\ j.calls \in Seq(Call) /\ j.next \in Nat /\ ~ (j.next < Len(j.calls))
      BY <1>2, <1>3 DEF Projection, Pending
    <3>2. i <= j.next BY <3>1
    <3> QED BY <1>2, <3>2 DEF JournalInv
  <2> QED BY <1>2, <1>12, <1>13, <2>1, EffectsForgotten
<1>17. SearchInv(j', search') /\ Owed(j', search') = 0
  <2>1. 1 \in 1..MaxCalls BY MaxCallsAssumption
  <2> QED BY <1>1, <2>1 DEF SearchInv, Owed
<1>18. Money(ledger', Due', 0)
  <2>1. c <= x BY <1>7 DEF c
  <2>2. c + 0 <= Owed(j, search) + x BY <1>2, <1>7, <2>1
  <2> QED BY <1>2, <1>7, <1>9, <1>10, <1>11, <2>2, MoneyStep
<1>19. Exact(ledger', Due') BY <1>2, <1>7, <1>9, <1>10, <1>11, ExactStep
<1>20. TurnInv'
  <2>1. turn \in [spent : Nat, counted : Nat, price : Prices, bounded : BOOLEAN, stopped : BOOLEAN]
    BY <1>2 DEF TurnInv
  <2>2. CostOf(u, turn.price) \in Nat BY <1>2, <2>1, CostType DEF Tokens
  <2>3. turn' = [Counted(turn, u) EXCEPT !.spent = @ + x] BY <1>1 DEF x, at
  <2>4. Counted(turn, u) \in
          [spent : Nat, counted : Nat, price : Prices, bounded : BOOLEAN, stopped : BOOLEAN]
    BY <2>1, <2>2 DEF Counted
  <2> QED BY <1>7, <2>3, <2>4 DEF TurnInv
<1> QED BY <1>9, <1>13, <1>14, <1>15, <1>16, <1>17, <1>18, <1>19, <1>20 DEF IInv

\* An attempt ends without an answer: what is charged for it is not in the sums, which
\* are no longer complete.
LEMMA InterruptStep ==
  ASSUME CostAssumption, IInv, Interrupt
  PROVE  IInv'
<1>1. PICK semantic \in {"pre_semantic", "post_semantic"},
           u \in Usages \cup {[hit |-> 0, miss |-> 0, out |-> 0]} :
        /\ Admits(j, RequestInterrupted(semantic)) /\ j' = After(j, RequestInterrupted(semantic))
        /\ ledger' = Recorded(ledger, RequestInterrupted(semantic), [at |-> 0, usage |-> None])
        /\ Charged(CostOf(u, TruePrice(ledger.attempts[Len(ledger.attempts)].at)))
        /\ UNCHANGED <<turn, search, risen>>
  BY DEF Interrupt
<1> DEFINE e == RequestInterrupted(semantic)
           at == ledger.attempts[Len(ledger.attempts)].at
           x == CostOf(u, TruePrice(at))
           r == [ledger.lines[Line(ledger)] EXCEPT !.interrupted = @ + 1, !.complete = FALSE]
           s == [ledger.session EXCEPT !.complete = FALSE]
<1>2. /\ JournalInv(j) /\ LedgerInv(ledger) /\ AttemptsAgree(j, ledger) /\ EffectsAgree(j, ledger)
      /\ SearchInv(j, search) /\ Money(ledger, Due, Owed(j, search)) /\ Exact(ledger, Due)
      /\ ChargesInv /\ TurnInv /\ j \in Projection /\ ledger \in Ledgers
      /\ Line(ledger) # 0 /\ Line(ledger) \in 1..MaxLineages /\ MaxLineages \in Nat
      /\ Owed(j, search) \in Nat /\ Due \in [1..MaxLineages -> Nat]
  BY BeforeStep
<1>3. u \in Tokens
  <2>1. [hit |-> 0, miss |-> 0, out |-> 0] \in Tokens BY DEF Tokens
  <2> QED BY <2>1, BeforeStep
<1>4. /\ e.type = "request_interrupted" /\ j.att # "none"
      /\ Shaped(j, e) /\ e.type \in QuietTypes
  BY <1>1 DEF Admits, RequestInterrupted, Shaped, QuietTypes
<1>5. NamesOpenAttempt(ledger, j.run) /\ Len(ledger.attempts) # 0 /\ at \in Nat
  BY <1>2, <1>4, AttemptIsNamed
<1>6. ledger' = WithInterruption(ledger)
  <2>1. LedgerReads(ledger, e, j.run) BY <1>4, <1>5 DEF LedgerReads, SettlesFrom
  <2>2. Recorded(ledger, e, [at |-> 0, usage |-> None]) = WithInterruption(ledger)
    BY <1>4, <2>1 DEF Recorded, SettlesFrom
  <2> QED BY <1>1, <2>2
<1>7. x \in Nat
  <2>1. TruePrice(at) \in Prices BY <1>5, PriceIsTrue
  <2> QED BY <1>3, <2>1, CostType DEF Tokens
<1>8. ledger.lines[Line(ledger)] \in LineSums /\ ledger.session \in [complete : BOOLEAN, cost : Nat]
  <2>1. Line(ledger) \in 1..Line(ledger) BY <1>2, LedgerParts
  <2> QED BY <1>2, <2>1, LedgerParts
<1>9. BilledFor(Due, Due', Line(ledger), x) /\ ChargesInv' BY <1>1, <1>2, <1>7, ChargedFor
<1>10. Booked(ledger, ledger', r, s) /\ Ended(ledger, ledger', "interrupted")
  <2>1. /\ Booked(ledger, WithInterruption(ledger), r, s)
        /\ Ended(ledger, WithInterruption(ledger), "interrupted")
    BY <1>2, <1>5, InterruptionBooks
  <2> QED BY <1>6, <2>1
<1>11. /\ r.attempts = ledger.lines[Line(ledger)].attempts
       /\ r.answered = ledger.lines[Line(ledger)].answered
       /\ r.interrupted = ledger.lines[Line(ledger)].interrupted + 1
       /\ r.cost = ledger.lines[Line(ledger)].cost + 0
       /\ s.cost = ledger.session.cost + 0
       /\ ~ r.complete /\ ~ s.complete
  <2>1. PICK y \in LineSums, z \in [complete : BOOLEAN, cost : Nat] :
          y = ledger.lines[Line(ledger)] /\ z = ledger.session
    BY <1>8
  <2>2. r = [y EXCEPT !.interrupted = y.interrupted + 1, !.complete = FALSE]
        /\ s = [z EXCEPT !.complete = FALSE]
    BY <2>1
  <2> HIDE DEF r, s
  <2> QED BY <2>1, <2>2 DEF LineSums
<1> HIDE DEF at, x, r, s, e
<1>12. /\ ledger' \in Ledgers /\ ledger'.effects = ledger.effects /\ ledger'.of = ledger.of
       /\ ledger'.refused = ledger.refused /\ Line(ledger') = Line(ledger)
       /\ Len(ledger'.attempts) = Len(ledger.attempts)
  BY <1>10 DEF Booked, Ended
<1>13. Quietly(j, j', e) BY <1>1, <1>2, <1>4, QuietEvents DEF Shaped, e
<1>14. JournalInv(j') BY <1>1, <1>2, <1>4, QuietStep DEF e
<1>15. j'.calls = j.calls /\ j'.next = j.next /\ j'.att = "none"
  BY <1>4, <1>13 DEF Quietly, AttemptAfter
<1>16. LedgerInv(ledger') BY <1>2, <1>12 DEF LedgerInv
<1>17. AttemptsAgree(j', ledger')
  <2>1. ledger.lines[Line(ledger)].answered \in Nat /\ ledger.lines[Line(ledger)].interrupted \in Nat
    BY <1>8 DEF LineSums
  <2>2. r.answered + r.interrupted
          = ledger.lines[Line(ledger)].answered + ledger.lines[Line(ledger)].interrupted + 1
    BY <1>11, <2>1
  <2> QED BY <1>2, <1>4, <1>10, <1>11, <1>15, <2>2, AttemptEnded
<1>18. EffectsAgree(j', ledger') BY <1>2, <1>12, <1>15, EffectsStay
<1>19. search' = search /\ SearchInv(j', search) /\ Owed(j', search) = Owed(j, search)
  <2>1. SearchInv(j, search) BY <1>2
  <2>2. SearchInv(j', search) /\ Owed(j', search) = Owed(j, search)
    BY <1>15, <2>1, SearchesStay
  <2> QED BY <1>1, <2>2
<1>20. Money(ledger', Due', Owed(j, search))
  <2>1. 0 + Owed(j, search) <= Owed(j, search) + x BY <1>2, <1>7
  <2> QED BY <1>2, <1>7, <1>9, <1>10, <1>11, <2>1, MoneyStep
<1>21. Exact(ledger', Due') BY <1>2, <1>7, <1>9, <1>10, <1>11, ExactStep
<1>22. TurnInv' BY <1>1, <1>2 DEF TurnInv
<1> QED BY <1>9, <1>14, <1>16, <1>17, <1>18, <1>19, <1>20, <1>21, <1>22 DEF IInv

\* The result of a call that is published: the call stays as settled as it was.
LEMMA PublishLeaves ==
  ASSUME NEW J, NEW i, JournalInv(J), i \in DOMAIN J.calls, Admits(J, ResultPublished(i))
  PROVE  LET K == After(J, ResultPublished(i)) IN
         /\ JournalInv(K) /\ Aside(J, K) /\ K.next = J.next /\ J.next = 0 /\ i = 1
         /\ DOMAIN J.calls = {1} /\ DOMAIN K.calls = {1} /\ 1 \in 1..MaxCalls
         /\ K.calls[1].kind = J.calls[1].kind /\ K.calls[1].effect = J.calls[1].effect
         /\ K.calls[1].direct = J.run /\ J.run # 0 /\ J.run \in Nat /\ K.gate = J.gate
<1> DEFINE e == ResultPublished(i)
           K == After(J, e)
           D == CallAfter(J, e)
<1>1. e.type = "result_published" /\ e.call = i /\ Shaped(J, e) /\ e.type \in CallTypes
  BY DEF ResultPublished, Shaped, CallTypes
<1>2. J \in Projection BY DEF JournalInv
<1>3. Active(J) /\ Unresolved(J, i) BY <1>1 DEF Admits
<1> HIDE DEF e
<1>4. /\ Aside(J, K) /\ K.next = J.next /\ K.gate = J.gate /\ K.calls = [J.calls EXCEPT ![i] = D]
      /\ D.kind = J.calls[i].kind /\ D.effect = EffectAfter(J, e) /\ D.direct = DirectAfter(J, e)
  BY <1>1, <1>2, CallEvents
<1>5. JournalInv(K) BY <1>1, CallStep DEF e
<1> HIDE DEF K, D
<1>6. i = 1 /\ DOMAIN J.calls = {1} /\ 1 \in 1..MaxCalls /\ J.next \in {0, 1} BY OneCall
<1>7. J.next = 0 BY <1>3, <1>6 DEF Unresolved
<1>8. DOMAIN K.calls = {1} /\ K.calls[1] = D BY <1>4, <1>6
<1>9. D.effect = J.calls[1].effect /\ D.direct = J.run BY <1>1, <1>4, <1>6 DEF EffectAfter, DirectAfter
<1>10. J.run # 0 /\ J.run \in Nat BY <1>2, <1>3 DEF JournalInv, Projection
<1> QED BY <1>4, <1>5, <1>6, <1>7, <1>8, <1>9, <1>10 DEF K, e

\* A tool publishes its result; what a search was charged is then owed.
LEMMA PublishStep ==
  ASSUME CostAssumption, IInv, Publish
  PROVE  IInv'
<1>1. PICK i \in DOMAIN j.calls :
        /\ Admits(j, ResultPublished(i)) /\ j.calls[i].direct = 0
        /\ j' = After(j, ResultPublished(i))
        /\ IF j.calls[i].kind = "search"
           THEN \/ \E u \in Usages, at \in 0..MaxTime :
                     /\ search' = [search EXCEPT ![i] = [run |-> j.run, usage |-> u, at |-> at]]
                     /\ Charged(CostOf(u, TruePrice(at)))
                     /\ turn' = [turn EXCEPT !.spent = @ + CostOf(u, TruePrice(at))]
                \/ UNCHANGED <<search, bill, turn>>
           ELSE UNCHANGED <<search, bill, turn>>
        /\ UNCHANGED <<ledger, risen>>
  BY DEF Publish
<1>2. /\ JournalInv(j) /\ LedgerInv(ledger) /\ AttemptsAgree(j, ledger) /\ EffectsAgree(j, ledger)
      /\ SearchInv(j, search) /\ Money(ledger, Due, Owed(j, search)) /\ Exact(ledger, Due)
      /\ ChargesInv /\ TurnInv /\ j \in Projection /\ ledger \in Ledgers
      /\ Line(ledger) # 0 /\ Line(ledger) \in 1..MaxLineages /\ MaxLineages \in Nat
      /\ Owed(j, search) \in Nat /\ Due \in [1..MaxLineages -> Nat]
  BY BeforeStep
<1>3. /\ JournalInv(j') /\ Aside(j, j') /\ j'.next = j.next /\ j.next = 0 /\ i = 1
      /\ DOMAIN j.calls = {1} /\ DOMAIN j'.calls = {1} /\ 1 \in 1..MaxCalls
      /\ j'.calls[1].kind = j.calls[1].kind /\ j'.calls[1].effect = j.calls[1].effect
      /\ j'.calls[1].direct = j.run /\ j.run # 0 /\ j.run \in Nat
  BY <1>1, <1>2, PublishLeaves
<1>4. ledger' = ledger BY <1>1
<1>5. AttemptsAgree(j', ledger')
  <2>1. j'.att = j.att /\ j'.run = j.run BY <1>3 DEF Aside
  <2> QED BY <1>2, <1>4, <2>1, AttemptsStay
<1>6. EffectsAgree(j', ledger') BY <1>2, <1>3, <1>4, EffectsStay
<1>7. CASE UNCHANGED <<search, bill, turn>>
  <2>1. SearchInv(j', search) /\ Owed(j', search) = Owed(j, search)
    <3>1. SearchInv(j, search) BY <1>2
    <3> QED BY <1>3, <3>1, SearchesStay
  <2>2. TurnInv' BY <1>2, <1>7 DEF TurnInv
  <2>3. Due' = Due /\ ChargesInv' BY <1>1, <1>2, <1>7 DEF Due, ChargesInv
  <2> QED BY <1>2, <1>3, <1>4, <1>5, <1>6, <1>7, <2>1, <2>2, <2>3 DEF IInv
<1>8. ASSUME j.calls[1].kind = "search", NEW u \in Usages, NEW at \in 0..MaxTime,
             search' = [search EXCEPT ![1] = [run |-> j.run, usage |-> u, at |-> at]],
             Charged(CostOf(u, TruePrice(at))),
             turn' = [turn EXCEPT !.spent = @ + CostOf(u, TruePrice(at))]
      PROVE  IInv'
  <2> DEFINE x == CostOf(u, TruePrice(at))
             made == [run |-> j.run, usage |-> u, at |-> at]
             l == Line(ledger)
  <2>1. at \in Nat /\ u \in Tokens BY BeforeStep
  <2>2. x \in Nat
    <3>1. TruePrice(at) \in Prices BY <2>1, PriceIsTrue
    <3> QED BY <2>1, <3>1, CostType DEF Tokens
  <2>3. "search" \in Kinds BY <1>2, <1>3, <1>8 DEF JournalInv
  <2>4. made \in [run : Nat, usage : Usages, at : Nat] /\ made # None
    <3>1. made \in [run : Nat, usage : Usages, at : Nat] BY <1>3, <2>1
    <3>2. None \notin [run : Nat, usage : Usages, at : Nat] BY DEF CostAssumption, NoneAssumption
    <3> QED BY <3>1, <3>2
  <2>5. made.usage = u /\ made.at = at OBVIOUS
  <2> HIDE DEF made
  <2>6. search' = [search EXCEPT ![1] = made] /\ DOMAIN search = 1..MaxCalls
    BY <1>2, <1>8 DEF made, SearchInv
  <2>7. search'[1] = made /\ \A k \in 1..MaxCalls : k # 1 => search'[k] = search[k]
    BY <1>3, <2>6
  <2>8. search' \in [1..MaxCalls -> {None} \cup [run : Nat, usage : Usages, at : Nat]]
    BY <1>2, <1>3, <2>4, <2>6 DEF SearchInv
  <2>9. SearchInv(j', search')
    <3>1. \A k \in 1..MaxCalls : k # 1 => search[k] = None BY <1>2, <1>3 DEF SearchInv
    <3> QED BY <1>3, <1>8, <2>7, <2>8, <3>1 DEF SearchInv
  <2>10. Owed(j', search') = x BY <1>3, <2>4, <2>5, <2>7 DEF Owed
  <2> HIDE DEF x
  <2>11. BilledFor(Due, Due', l, x) /\ ChargesInv' BY <1>1, <1>2, <1>8, <2>2, ChargedFor DEF x
  <2>12. Booked(ledger, ledger, ledger.lines[l], ledger.session) BY <1>2 DEF Booked
  <2>13. ledger.lines[l].cost \in Nat /\ ledger.session.cost \in Nat
    <3>1. l \in 1..l BY <1>2, LedgerParts
    <3>2. ledger.lines[l] \in LineSums /\ ledger.session \in [complete : BOOLEAN, cost : Nat]
      BY <1>2, <3>1, LedgerParts
    <3> QED BY <3>2 DEF LineSums
  <2>14. /\ ledger.lines[l].cost = ledger.lines[l].cost + 0
         /\ ledger.session.cost = ledger.session.cost + 0
         /\ 0 + x <= Owed(j, search) + x
    BY <1>2, <2>2, <2>13
  <2>15. Money(ledger, Due', x)
    <3> HIDE DEF l
    <3>1. Money(ledger, Due, Owed(j, search)) /\ l \in 1..MaxLineages BY <1>2 DEF l
    <3> QED BY <1>2, <2>2, <2>11, <2>12, <2>14, <3>1, MoneyStep DEF l
  <2>16. Exact(ledger, Due') BY <2>3 DEF Exact
  <2>17. TurnInv'
    <3>1. turn' = [turn EXCEPT !.spent = @ + x] BY <1>8 DEF x
    <3> QED BY <1>2, <2>2, <3>1 DEF TurnInv
  <2> QED BY <1>2, <1>3, <1>4, <1>5, <1>6, <2>9, <2>10, <2>11, <2>15, <2>16, <2>17 DEF IInv
<1> QED BY <1>1, <1>3, <1>7, <1>8

\* A result is committed, with the usage of its search or without: what was owed is
\* summed, at the price of the day, or forgotten.
LEMMA CommitResultStep ==
  ASSUME CostAssumption, IInv, CommitResult
  PROVE  IInv'
<1>1. PICK i \in DOMAIN j.calls, at \in 0..MaxTime :
        /\ Admits(j, ResultCommitted(i)) /\ j' = After(j, ResultCommitted(i))
        /\ ledger' = Recorded(ledger, ResultCommitted(i),
             [at |-> at,
              usage |-> IF Remembered(i) = None THEN None ELSE Remembered(i).usage])
        /\ risen' = IF Remembered(i) = None THEN risen
                    ELSE [risen EXCEPT ![Line(ledger)] = @ + Rise(Remembered(i), at)]
        /\ UNCHANGED <<turn, search, bill>>
  BY DEF CommitResult
<1>2. /\ JournalInv(j) /\ LedgerInv(ledger) /\ AttemptsAgree(j, ledger) /\ EffectsAgree(j, ledger)
      /\ SearchInv(j, search) /\ Money(ledger, Due, Owed(j, search)) /\ Exact(ledger, Due)
      /\ ChargesInv /\ TurnInv /\ j \in Projection /\ ledger \in Ledgers
      /\ Line(ledger) # 0 /\ Line(ledger) \in 1..MaxLineages /\ MaxLineages \in Nat
      /\ Owed(j, search) \in Nat /\ Due \in [1..MaxLineages -> Nat]
  BY BeforeStep
<1>3. JournalInv(j') /\ Len(j.calls) = 1 /\ j.next = 0 /\ i = 1 BY <1>1, <1>2, ResultStep
<1>4. Aside(j, j') /\ j'.calls = j.calls /\ j'.next = 1 BY <1>1, <1>2, <1>3, ResultEvent
<1>5. search' = search /\ bill' = bill /\ turn' = turn /\ at \in Nat BY <1>1, BeforeStep
<1>6. SearchInv(j', search) BY <1>2, <1>4 DEF SearchInv
<1>7. Owed(j', search) = 0 BY <1>4 DEF Owed
<1>8. TurnInv' BY <1>2, <1>5 DEF TurnInv
<1>9. 1 \in 1..MaxCalls BY MaxCallsAssumption
<1>11. j'.att = j.att /\ j'.run = j.run BY <1>4 DEF Aside
<1> DEFINE l == Line(ledger)
<1>12. ledger.lines[l] \in LineSums /\ ledger.session \in [complete : BOOLEAN, cost : Nat]
  <2>1. l \in 1..l BY <1>2, LedgerParts
  <2> QED BY <1>2, <2>1, LedgerParts
<1>13. CASE Remembered(1) = None
  <2>1. ledger' = ledger BY <1>1, <1>3, <1>13 DEF Recorded, LedgerReads, SettlesFrom, ResultCommitted
  <2>2. AttemptsAgree(j', ledger) BY <1>2, <1>11, AttemptsStay
  <2>3. EffectsAgree(j', ledger) BY <1>2, <1>4, EffectsStay
  <2>4. Booked(ledger, ledger, ledger.lines[l], ledger.session) BY <1>2 DEF Booked
  <2>5. /\ ledger.lines[l].cost = ledger.lines[l].cost + 0
        /\ ledger.session.cost = ledger.session.cost + 0
        /\ 0 + 0 <= Owed(j, search) + 0
    BY <1>2, <1>12 DEF LineSums
  <2>6. BilledFor(Due, Due, Line(ledger), 0) BY <1>2 DEF BilledFor
  <2>7. Money(ledger, Due, 0)
    <3>1. Money(ledger, Due, Owed(j, search)) BY <1>2
    <3> QED BY <1>2, <2>4, <2>5, <2>6, <3>1, MoneyStep
  <2>8. Due' = Due /\ ChargesInv' BY <1>1, <1>2, <1>3, <1>5, <1>13 DEF Due, ChargesInv
  <2> QED BY <1>2, <1>3, <1>5, <1>6, <1>7, <1>8, <2>1, <2>2, <2>3, <2>7, <2>8 DEF IInv
<1>14. CASE Remembered(1) # None
  <2> DEFINE u == search[1].usage
             paid == CostOf(u, TruePrice(search[1].at))
             x == Rise(search[1], at)
             c == IF SelectPrice(at) = None THEN 0 ELSE CostOf(u, SelectPrice(at))
             r == Plus(ledger.lines[l], u, at)
             s == Plus(ledger.session, u, at)
  <2>1. Remembered(1) = search[1] /\ search[1] # None BY <1>14 DEF Remembered
  <2>2. u \in Tokens /\ u # None /\ paid \in Nat
    BY <1>2, <1>9, <2>1, OwedIsNumber
  <2>3. "search" \in Kinds BY <1>2, <1>9, <2>1 DEF SearchInv, JournalInv
  <2>4. Owed(j, search) = paid BY <1>3, <2>1 DEF Owed
  <2>5. c \in Nat
    <3>1. SelectPrice(at) # None => SelectPrice(at) \in Prices BY <1>5, PriceIsTrue
    <3>2. SelectPrice(at) # None => CostOf(u, SelectPrice(at)) \in Nat
      BY <2>2, <3>1, CostType DEF Tokens
    <3> QED BY <3>2
  <2>6. ledger' = Priced(ledger, u, at)
    <3> DEFINE e == ResultCommitted(1)
               y == [at |-> at, usage |-> u]
    <3>1. ledger' = Recorded(ledger, e, y) BY <1>1, <1>3, <1>14, <2>1
    <3>2. y.at = at /\ y.usage = u /\ e.type = "tool_result_committed" BY DEF ResultCommitted
    <3> HIDE DEF e, y, u
    <3>3. LedgerReads(ledger, e, j.run) BY <3>2 DEF LedgerReads, SettlesFrom
    <3> QED BY <2>2, <3>1, <3>2, <3>3 DEF Recorded, SettlesFrom
  <2>7. Booked(ledger, ledger', r, s) /\ ledger'.attempts = ledger.attempts
    <3>1. Booked(ledger, Priced(ledger, u, at), r, s)
          /\ Priced(ledger, u, at).attempts = ledger.attempts
      BY <1>2, <2>2, PricedBooks
    <3> QED BY <2>6, <3>1
  <2>8. /\ r.attempts = ledger.lines[l].attempts /\ r.answered = ledger.lines[l].answered
        /\ r.interrupted = ledger.lines[l].interrupted
        /\ r.cost = ledger.lines[l].cost + c /\ s.cost = ledger.session.cost + c
    <3>1. PICK y \in LineSums, z \in [complete : BOOLEAN, cost : Nat] :
            y = ledger.lines[l] /\ z = ledger.session
      BY <1>12
    <3>2. CASE SelectPrice(at) = None
      <4>1. r = [y EXCEPT !.complete = FALSE] /\ s = [z EXCEPT !.complete = FALSE] /\ c = 0
        BY <3>1, <3>2 DEF Plus
      <4> HIDE DEF r, s, c
      <4> QED BY <3>1, <4>1 DEF LineSums
    <3>3. CASE SelectPrice(at) # None
      <4>1. r = [y EXCEPT !.cost = y.cost + c] /\ s = [z EXCEPT !.cost = z.cost + c]
        BY <3>1, <3>3 DEF Plus
      <4> HIDE DEF r, s, c
      <4> QED BY <2>5, <3>1, <4>1 DEF LineSums
    <3> QED BY <3>2, <3>3
  <2>15. x \in Nat /\ c <= paid + x
    <3>1. x = IF c > paid THEN c - paid ELSE 0 BY DEF Rise
    <3> HIDE DEF x, c, paid
    <3> QED BY <2>2, <2>5, <3>1
  <2>16. BilledFor(Due, Due', Line(ledger), x) /\ ChargesInv'
    <3>1. risen' = [risen EXCEPT ![Line(ledger)] = @ + x] BY <1>1, <1>3, <2>1
    <3> HIDE DEF x
    <3> QED BY <1>2, <1>5, <2>3, <2>15, <3>1, RisenFor
  <2> HIDE DEF u, x, c, r, s, paid
  <2>9. /\ ledger' \in Ledgers /\ ledger'.effects = ledger.effects /\ ledger'.of = ledger.of
        /\ ledger'.refused = ledger.refused /\ Line(ledger') = Line(ledger)
        /\ ledger'.lines[l] = r
        /\ \A k \in 1..Line(ledger) : k # Line(ledger) => ledger'.lines[k] = ledger.lines[k]
    BY <2>7 DEF Booked
  <2>10. AttemptsAgree(j', ledger')
    <3>1. \A k \in 1..Line(ledger) :
            /\ ledger'.lines[k].attempts = ledger.lines[k].attempts
            /\ ledger'.lines[k].answered = ledger.lines[k].answered
            /\ ledger'.lines[k].interrupted = ledger.lines[k].interrupted
      BY <2>8, <2>9
    <3> QED BY <1>2, <1>11, <2>7, <2>9, <3>1, AttemptsStay
  <2>11. EffectsAgree(j', ledger') BY <1>2, <1>4, <2>9, EffectsStay
  <2>12. LedgerInv(ledger') BY <1>2, <2>7, <2>9 DEF LedgerInv
  <2>13. Money(ledger', Due', 0)
    <3>1. Money(ledger, Due, paid) BY <1>2, <2>4
    <3>2. c + 0 <= paid + x BY <2>2, <2>5, <2>15
    <3> QED BY <1>2, <2>2, <2>5, <2>7, <2>8, <2>15, <2>16, <3>1, <3>2, MoneyStep
  <2>14. Exact(ledger', Due') BY <2>3 DEF Exact
  <2> QED BY <1>3, <1>5, <1>6, <1>7, <1>8, <2>10, <2>11, <2>12, <2>13, <2>14, <2>16 DEF IInv
<1> QED BY <1>13, <1>14

\* The next lineage begins with a journal of its own, when everything is settled.
LEMMA SwitchStep ==
  ASSUME CostAssumption, IInv, Switch
  PROVE  IInv'
<1>1. /\ j.status = "completed" /\ Line(ledger) < MaxLineages
      /\ j' = EmptyJournal
      /\ ledger' = [ledger EXCEPT !.lines = Append(@, NewLineage)]
      /\ search' = [i \in 1..MaxCalls |-> None]
      /\ turn' = NoTurn /\ bill' = bill /\ risen' = risen
  BY DEF Switch
<1>2. /\ JournalInv(j) /\ LedgerInv(ledger) /\ AttemptsAgree(j, ledger) /\ EffectsAgree(j, ledger)
      /\ Money(ledger, Due, Owed(j, search)) /\ Exact(ledger, Due) /\ ChargesInv
      /\ j \in Projection /\ ledger \in Ledgers
      /\ Line(ledger) # 0 /\ Line(ledger) \in 1..MaxLineages /\ MaxLineages \in Nat
      /\ Owed(j, search) \in Nat
  BY BeforeStep
<1> DEFINE n == Line(ledger)
<1>3. /\ ledger' \in Ledgers /\ Line(ledger') = n + 1 /\ ledger'.lines[n + 1] = NewLineage
      /\ \A k \in 1..n : ledger'.lines[k] = ledger.lines[k]
      /\ ledger'.attempts = ledger.attempts /\ ledger'.effects = ledger.effects
      /\ ledger'.of = ledger.of /\ ledger'.refused = ledger.refused
      /\ Money(ledger', Due, 0) /\ Exact(ledger', Due)
  BY <1>1, <1>2, MoneyForNewLine
<1>4. n \in Nat /\ n + 1 \in 1..MaxLineages BY <1>1, <1>2
<1>5. Closed(j) BY <1>1, <1>2 DEF JournalInv
<1>6. /\ EmptyJournal \in Projection /\ EmptyJournal.calls = << >> /\ EmptyJournal.next = 0
      /\ EmptyJournal.att = "none" /\ EmptyJournal.status = "none"
  BY GateNames DEF EmptyJournal, Projection, Causes, Statuses
<1>7. JournalInv(j') BY <1>1, <1>6 DEF JournalInv, Active
<1>8. LedgerInv(ledger') BY <1>2, <1>3, <1>4 DEF LedgerInv
<1>9. AttemptsAgree(j', ledger')
  <2>1. \A m \in 1..Len(ledger.attempts) : ledger.attempts[m].terminal # "none"
    BY <1>2, <1>5 DEF AttemptsAgree, Closed
  <2>2. \A k \in 1..n : ledger.lines[k].attempts
                          = ledger.lines[k].answered + ledger.lines[k].interrupted + 0
    BY <1>2, <1>5 DEF AttemptsAgree, Closed
  <2>3. NewLineage.attempts = NewLineage.answered + NewLineage.interrupted + 0 BY DEF NewLineage
  <2>4. \A k \in 1..(n + 1) : k = n + 1 \/ k \in 1..n BY <1>4
  <2>5. \A k \in 1..(n + 1) : ledger'.lines[k].attempts
                                = ledger'.lines[k].answered + ledger'.lines[k].interrupted + 0
    BY <1>3, <2>2, <2>3, <2>4
  <2> QED BY <1>1, <1>3, <1>6, <2>1, <2>5 DEF AttemptsAgree
<1>10. EffectsAgree(j', ledger')
  <2>1. \A i \in DOMAIN j.calls : j.calls[i].effect \notin {"prepared", "indeterminate"}
    BY <1>5 DEF Closed, Effect
  <2>2. \A i \in DOMAIN j'.calls : j'.calls[i].effect = "none" BY <1>1, <1>6
  <2> QED BY <1>2, <1>3, <2>1, <2>2, EffectsForgotten
<1>11. SearchInv(j', search') /\ Owed(j', search') = 0
  <2>1. 1 \in 1..MaxCalls BY MaxCallsAssumption
  <2> QED BY <1>1, <2>1 DEF SearchInv, Owed
<1>12. TurnInv'
  <2>1. Book[1] \in Prices
    <3>1. Book \in Seq(Prices) /\ Book # << >> BY DEF CostAssumption, BookAssumption, Prices
    <3> QED BY <3>1
  <2> QED BY <1>1, <2>1 DEF TurnInv, NoTurn
<1>13. Due' = Due /\ ChargesInv' BY <1>1, <1>2 DEF Due, ChargesInv
<1> QED BY <1>1, <1>3, <1>7, <1>8, <1>9, <1>10, <1>11, <1>12, <1>13 DEF IInv

\* Initially there is one lineage, and it has cost nothing.
LEMMA InitIInv ==
  ASSUME CostAssumption, Init
  PROVE  IInv
<1>1. /\ j = EmptyJournal /\ ledger = EmptyLedger /\ turn = NoTurn
      /\ search = [i \in 1..MaxCalls |-> None] /\ bill = [line \in 1..MaxLineages |-> 0]
      /\ risen = [line \in 1..MaxLineages |-> 0]
  BY DEF Init
<1>2. MaxLineages \in Nat \ {0} /\ MaxAttempts \in Nat BY DEF CostAssumption, CostBoundsAssumption
<1>3. /\ EmptyJournal \in Projection /\ EmptyJournal.calls = << >> /\ EmptyJournal.next = 0
      /\ EmptyJournal.att = "none" /\ EmptyJournal.status = "none"
  BY GateNames DEF EmptyJournal, Projection, Causes, Statuses
<1>4. JournalInv(j) BY <1>1, <1>3 DEF JournalInv, Active
<1>5. NewLineage \in LineSums BY DEF NewLineage, LineSums
<1>6. /\ ledger \in Ledgers /\ Line(ledger) = 1 /\ ledger.lines[1] = NewLineage
      /\ ledger.attempts = << >> /\ ledger.effects = << >> /\ ~ ledger.refused
      /\ ledger.session = [complete |-> TRUE, cost |-> 0]
  BY <1>1, <1>5 DEF EmptyLedger, Ledgers, Line
<1>7. LedgerInv(ledger) BY <1>2, <1>6 DEF LedgerInv
<1>8. AttemptsAgree(j, ledger) BY <1>1, <1>3, <1>6 DEF AttemptsAgree, NewLineage
<1>9. EffectsAgree(j, ledger) BY <1>1, <1>3, <1>6 DEF EffectsAgree
<1>10. SearchInv(j, search) /\ Owed(j, search) = 0
  <2>1. 1 \in 1..MaxCalls BY MaxCallsAssumption
  <2> QED BY <1>1, <2>1 DEF SearchInv, Owed
<1>11. SumOver(Costs(ledger), Line(ledger)) = 0
  <2>1. Costs(ledger) \in [1..1 -> Nat] /\ Costs(ledger)[1] = 0
    BY <1>6 DEF Costs, NewLineage
  <2>2. PICK g \in SumsOf(Costs(ledger), 1) : SumOver(Costs(ledger), 1) = g[1]
    BY <2>1, SumIsLast
  <2>3. g[0] = 0 /\ \A k \in 1..1 : g[k] = g[k - 1] + Costs(ledger)[k] BY <2>2 DEF SumsOf
  <2>4. g[1] = g[1 - 1] + Costs(ledger)[1] BY <2>3
  <2>5. 1 - 1 = 0 OBVIOUS
  <2>6. g[1] = 0 BY <2>1, <2>3, <2>4, <2>5
  <2> QED BY <1>6, <2>2, <2>6
<1>12. Money(ledger, Due, Owed(j, search))
  <2>1. Due \in [1..MaxLineages -> Nat] /\ \A k \in 1..MaxLineages : Due[k] = 0
    BY <1>1 DEF Due
  <2>2. 1 \in 1..MaxLineages BY <1>2
  <2> QED BY <1>6, <1>10, <1>11, <2>1, <2>2 DEF Money, NewLineage
<1>13. Exact(ledger, Due)
  <2>1. 1 \in 1..MaxLineages BY <1>2
  <2>2. Due[1] = 0 BY <1>1, <2>1 DEF Due
  <2> QED BY <1>6, <2>2 DEF Exact, NewLineage
<1>14. TurnInv
  <2>1. Book[1] \in Prices
    <3>1. Book \in Seq(Prices) /\ Book # << >> BY DEF CostAssumption, BookAssumption, Prices
    <3> QED BY <3>1
  <2> QED BY <1>1, <2>1 DEF TurnInv, NoTurn
<1>15. ChargesInv BY <1>1 DEF ChargesInv
<1> QED BY <1>4, <1>7, <1>8, <1>9, <1>10, <1>12, <1>13, <1>14, <1>15 DEF IInv

\* Every step keeps the invariant.
LEMMA NextIInv ==
  ASSUME CostAssumption, IInv, [Next]_vars
  PROVE  IInv'
<1>1. CASE Event BY <1>1, EventStep
<1>2. CASE StartRun BY <1>2, StartRunStep
<1>3. CASE Attempt BY <1>3, AttemptStep
<1>4. CASE Answer BY <1>4, AnswerTaken
<1>5. CASE Interrupt BY <1>5, InterruptStep
<1>6. CASE Publish BY <1>6, PublishStep
<1>7. CASE CommitResult BY <1>7, CommitResultStep
<1>8. CASE Stop
  <2>1. turn' = [turn EXCEPT !.stopped = TRUE] /\ UNCHANGED <<j, ledger, search, bill, risen>>
    BY <1>8 DEF Stop
  <2>2. TurnInv' BY <2>1 DEF IInv, TurnInv
  <2>3. Due' = Due /\ ChargesInv' BY <2>1 DEF IInv, Due, ChargesInv
  <2> QED BY <2>1, <2>2, <2>3 DEF IInv
<1>9. CASE Switch BY <1>9, SwitchStep
<1>10. CASE UNCHANGED vars
  <2>1. TurnInv' BY <1>10 DEF IInv, TurnInv, vars
  <2>2. Due' = Due /\ ChargesInv' BY <1>10 DEF IInv, Due, ChargesInv, vars
  <2> QED BY <1>10, <2>1, <2>2 DEF IInv, vars
<1> QED BY <1>1, <1>2, <1>3, <1>4, <1>5, <1>6, <1>7, <1>8, <1>9, <1>10 DEF Next

-----------------------------------------------------------------------------
(* What the ledger promises. *)

\* The attempts of a lineage that have not ended.
LEMMA OpenAttemptsAre ==
  ASSUME IInv, NEW k \in 1..Line(ledger)
  PROVE  OpenAttempts(ledger, k) = IF j.att # "none" /\ k = Line(ledger) THEN 1 ELSE 0
<1> DEFINE n == Len(ledger.attempts)
           open == {m \in DOMAIN ledger.attempts :
                      ledger.attempts[m].line = k /\ ledger.attempts[m].terminal = "none"}
<1>1. AttemptsAgree(j, ledger) /\ ledger \in Ledgers BY DEF IInv, LedgerInv
<1>2. DOMAIN ledger.attempts = 1..n /\ n \in Nat BY <1>1, LedgerParts
<1>3. CASE j.att # "none" /\ k = Line(ledger)
  <2>1. NamesOpenAttempt(ledger, j.run) BY <1>1, <1>3 DEF AttemptsAgree
  <2>2. n \in 1..n /\ ledger.attempts[n].line = k /\ ledger.attempts[n].terminal = "none"
    BY <1>2, <1>3, <2>1 DEF NamesOpenAttempt
  <2>3. \A m \in 1..n : ledger.attempts[m].terminal = "none" => m = n
    BY <1>1 DEF AttemptsAgree
  <2>4. open = {n} BY <1>2, <2>2, <2>3
  <2>5. Cardinality({n}) = 1 BY FS_Singleton
  <2> QED BY <1>3, <2>4, <2>5 DEF OpenAttempts
<1>4. CASE ~ (j.att # "none" /\ k = Line(ledger))
  <2>1. ASSUME NEW m \in open PROVE FALSE
    <3>1. m \in 1..n /\ ledger.attempts[m].line = k /\ ledger.attempts[m].terminal = "none"
      BY <1>2
    <3>2. j.att # "none" /\ m = n BY <1>1, <3>1 DEF AttemptsAgree
    <3>3. ledger.attempts[n].line = Line(ledger) BY <1>1, <3>2 DEF AttemptsAgree, NamesOpenAttempt
    <3> QED BY <1>4, <3>1, <3>2, <3>3
  <2>2. open = {} BY <2>1
  <2>3. Cardinality({}) = 0 BY FS_EmptySet
  <2> QED BY <1>4, <2>2, <2>3 DEF OpenAttempts
<1> QED BY <1>3, <1>4

\* Domains of the sequences of a ledger.
LEMMA LedgerDomains ==
  ASSUME NEW L \in Ledgers
  PROVE  DOMAIN L.lines = 1..Line(L) /\ DOMAIN L.effects = 1..Len(L.effects)
BY DEF Ledgers, Line

\* The invariant has the types.
LEMMA IInvTypes ==
  ASSUME CostAssumption, IInv
  PROVE  TypeOK
<1>1. /\ JournalInv(j) /\ LedgerInv(ledger) /\ AttemptsAgree(j, ledger) /\ TurnInv
      /\ j \in Projection /\ ledger \in Ledgers
  BY BeforeStep
<1>2. j.calls \in Seq(Call) /\ j.gate \in Gates /\ j.status \in Statuses BY <1>1 DEF Projection
<1>3. Len(ledger.attempts) \in 0..MaxAttempts /\ Line(ledger) \in 1..MaxLineages
  <2>1. Len(ledger.attempts) \in Nat /\ MaxAttempts \in Nat BY <1>1, LedgerParts, BeforeStep
  <2> QED BY <1>1, <2>1 DEF LedgerInv
<1>4. ASSUME NEW k \in DOMAIN ledger.lines
      PROVE  /\ ledger.lines[k].complete \in BOOLEAN /\ ledger.lines[k].cost \in Nat
             /\ ledger.lines[k].attempts = ledger.lines[k].answered + ledger.lines[k].interrupted
                                             + OpenAttempts(ledger, k)
  <2>1. k \in 1..Line(ledger) BY <1>1, LedgerDomains
  <2>2. ledger.lines[k] \in LineSums BY <1>1, <2>1, LedgerParts
  <2>3. OpenAttempts(ledger, k) = IF j.att # "none" /\ k = Line(ledger) THEN 1 ELSE 0
    BY <2>1, OpenAttemptsAre
  <2>4. ledger.lines[k].attempts = ledger.lines[k].answered + ledger.lines[k].interrupted
                                     + (IF j.att # "none" /\ k = Line(ledger) THEN 1 ELSE 0)
    BY <1>1, <2>1 DEF AttemptsAgree
  <2> QED BY <2>2, <2>3, <2>4 DEF LineSums
<1>5. turn.counted \in Nat /\ turn.spent \in Nat /\ {turn.bounded, turn.stopped} \subseteq BOOLEAN
  BY <1>1 DEF TurnInv
<1> QED BY <1>2, <1>3, <1>4, <1>5 DEF TypeOK

\* It has no refusal, and no sum of more than is due.
LEMMA IInvLowerBound ==
  ASSUME CostAssumption, IInv
  PROVE  LedgerReadsEveryJournal /\ LedgerIsLowerBound
<1>1. /\ LedgerInv(ledger) /\ Money(ledger, Due, Owed(j, search)) /\ ledger \in Ledgers
      /\ Line(ledger) \in 1..MaxLineages /\ Owed(j, search) \in Nat
      /\ Due \in [1..MaxLineages -> Nat] /\ MaxLineages \in Nat
  BY BeforeStep
<1>2. DOMAIN ledger.lines = 1..Line(ledger) BY <1>1, LedgerDomains
<1>3. ASSUME NEW k \in 1..Line(ledger) PROVE ledger.lines[k].cost <= Due[k]
  <2>1. ledger.lines[k] \in LineSums BY <1>1, LedgerParts
  <2>2. k \in 1..MaxLineages BY <1>1
  <2>3. PICK a, b, o \in Nat : a = ledger.lines[k].cost /\ b = Due[k] /\ o = Owed(j, search)
    BY <1>1, <2>1, <2>2 DEF LineSums
  <2>4. a + (IF k = Line(ledger) THEN o ELSE 0) <= b BY <1>1, <2>3 DEF Money
  <2>5. a <= b BY <2>4
  <2> QED BY <2>3, <2>5
<1>4. LineCosts = Costs(ledger) BY <1>2 DEF LineCosts, Costs
<1>5. ledger.session.cost = SumOver(LineCosts, Line(ledger)) BY <1>1, <1>4 DEF Money
<1> QED BY <1>1, <1>2, <1>3, <1>5 DEF LedgerReadsEveryJournal, LedgerIsLowerBound, LedgerInv

\* It has complete sums that are exact, where no search is.
LEMMA IInvExact ==
  ASSUME CostAssumption, IInv, "search" \notin Kinds
  PROVE  CompleteIsExact
<1>1. /\ Money(ledger, Due, Owed(j, search)) /\ Exact(ledger, Due) /\ ledger \in Ledgers
      /\ Line(ledger) \in 1..MaxLineages
      /\ Due = bill /\ bill \in [1..MaxLineages -> Nat] /\ MaxLineages \in Nat
  <2>1. ChargesInv BY BeforeStep
  <2>2. Due = bill /\ bill \in [1..MaxLineages -> Nat]
    <3>1. bill \in [1..MaxLineages -> Nat] /\ \A k \in 1..MaxLineages : risen[k] = 0
      BY <2>1 DEF ChargesInv
    <3>2. \A k \in 1..MaxLineages : bill[k] + risen[k] = bill[k] BY <3>1
    <3> QED BY <3>1, <3>2 DEF Due
  <2> QED BY <2>2, BeforeStep
<1>2. DOMAIN ledger.lines = 1..Line(ledger) /\ Line(ledger) \in Nat
  BY <1>1, LedgerDomains, LedgerParts
<1>3. \A k \in 1..Line(ledger) : ledger.lines[k].complete => ledger.lines[k].cost = bill[k]
  BY <1>1 DEF Exact
<1>4. ASSUME ledger.session.complete
      PROVE  ledger.session.cost = SumOver(bill, MaxLineages)
  <2>1. \A k \in 1..Line(ledger) : ledger.lines[k].cost = bill[k] BY <1>1, <1>3, <1>4 DEF Exact
  <2>2. ledger.session.cost = SumOver(Costs(ledger), Line(ledger)) BY <1>1 DEF Money
  <2>3. \A k \in 1..MaxLineages : k > Line(ledger) => bill[k] = 0 BY <1>1 DEF Money
  <2>4. \A k \in 1..Line(ledger) : ledger.lines[k] \in LineSums BY <1>1, LedgerParts
  <2>5. Costs(ledger) \in [1..Line(ledger) -> Nat] BY <2>4 DEF Costs, LineSums
  <2>6. \A k \in 1..Line(ledger) : bill[k] = Costs(ledger)[k] BY <2>1 DEF Costs
  <2>7. Line(ledger) <= MaxLineages BY <1>1
  <2>8. SumOver(bill, MaxLineages) = SumOver(Costs(ledger), Line(ledger))
    BY <1>1, <1>2, <2>3, <2>5, <2>6, <2>7, SumExtends
  <2> QED BY <2>2, <2>8
<1> QED BY <1>2, <1>3, <1>4 DEF CompleteIsExact, LineComplete, SessionComplete

\* It has everything settled where the projection is closed.
LEMMA IInvSettled ==
  ASSUME CostAssumption, IInv
  PROVE  ClosedMeansSettled
<1>1. EffectsAgree(j, ledger) /\ ledger \in Ledgers BY BeforeStep
<1>2. SUFFICES ASSUME Closed(j)
               PROVE  /\ \A line \in DOMAIN ledger.lines : OpenAttempts(ledger, line) = 0
                      /\ \A n \in DOMAIN ledger.effects :
                           ledger.effects[n] \notin {"prepared", "indeterminate"}
  BY DEF ClosedMeansSettled
<1>3. j.att = "none" BY <1>2 DEF Closed
<1>4. ASSUME NEW line \in DOMAIN ledger.lines PROVE OpenAttempts(ledger, line) = 0
  <2>1. line \in 1..Line(ledger) BY <1>1, LedgerDomains
  <2> QED BY <1>3, <2>1, OpenAttemptsAre
<1>5. ASSUME NEW n \in DOMAIN ledger.effects,
             ledger.effects[n] \in {"prepared", "indeterminate"}
      PROVE  FALSE
  <2>1. n \in 1..Len(ledger.effects) BY <1>1, LedgerDomains
  <2>2. \E i \in DOMAIN j.calls : j.calls[i].effect = ledger.effects[n]
    BY <1>1, <1>5, <2>1 DEF EffectsAgree
  <2> QED BY <1>2, <1>5, <2>2 DEF Closed, Effect
<1> QED BY <1>4, <1>5

-----------------------------------------------------------------------------
(* The budget of a turn, at a price that does not change, without searches. *)

\* A finite set of numbers that is not empty has a largest one.
LEMMA LargestOfFinite ==
  ASSUME NEW S, IsFiniteSet(S), S \subseteq Nat, S # {}
  PROVE  \E c \in S : \A d \in S : d <= c
<1>0. PICK n \in Nat : ExistsSurjection(1..n, S) BY FS_NatSurjection
<1>1. PICK f \in [1..n -> S] : \A d \in S : \E i \in 1..n : f[i] = d
  BY <1>0 DEF ExistsSurjection, Surjection
<1> DEFINE T == {k \in 0..n : \E b \in Nat : \A i \in 1..k : f[i] <= b}
<1>2. 0 \in T OBVIOUS
<1>3. ASSUME NEW k \in 1..n, k - 1 \in T PROVE k \in T
  <2>1. PICK b \in Nat : \A i \in 1..(k - 1) : f[i] <= b BY <1>3
  <2>2. PICK a \in Nat : a = f[k] BY <1>1
  <2>3. \A i \in 1..k : f[i] \in Nat /\ (i = k \/ i \in 1..(k - 1))
    <3>1. \A i \in 1..k : i \in 1..n /\ (i = k \/ i \in 1..(k - 1)) OBVIOUS
    <3>2. \A i \in 1..n : f[i] \in Nat BY <1>1
    <3> QED BY <3>1, <3>2
  <2>4. a + b \in Nat /\ \A i \in 1..k : f[i] <= a + b
    <3>1. \A i \in 1..(k - 1) : f[i] <= a + b BY <2>1, <2>2, <2>3
    <3>2. f[k] <= a + b BY <2>2
    <3> QED BY <2>3, <3>1, <3>2
  <2>5. k \in 0..n OBVIOUS
  <2> QED BY <2>4, <2>5
<1>4. n \in T
  <2> HIDE DEF T
  <2>1. \A k \in 0..n : k \in T BY <1>2, <1>3, UpTo
  <2> QED BY <2>1
<1>5. PICK b \in Nat : \A i \in 1..n : f[i] <= b BY <1>4
<1>6. S \subseteq 0..b BY <1>1, <1>5
<1> QED BY <1>6, LargestOfMany

\* No answer costs more than MaxStep.
LEMMA StepIsBounded ==
  ASSUME CostAssumption, Usages # {}
  PROVE  MaxStep \in Nat /\ \A u \in Usages, k \in DOMAIN Book : CostOf(u, Book[k]) <= MaxStep
<1> DEFINE pairs == Usages \X DOMAIN Book
           cost == [q \in pairs |-> CostOf(q[1], Book[q[2]])]
           costs == {CostOf(u, Book[k]) : u \in Usages, k \in DOMAIN Book}
<1>1. /\ Book \in Seq(Prices) /\ Book # << >> /\ Usages \subseteq Tokens /\ IsFiniteSet(Usages)
  BY DEF CostAssumption, BookAssumption, UsagesAssumption, Prices, Tokens
<1>2. DOMAIN Book = 1..Len(Book) /\ Len(Book) \in Nat /\ 1 \in DOMAIN Book BY <1>1
<1>3. \A u \in Usages, k \in DOMAIN Book : CostOf(u, Book[k]) \in Nat
  <2>1. ASSUME NEW u \in Usages, NEW k \in DOMAIN Book PROVE CostOf(u, Book[k]) \in Nat
    <3>1. Book[k] \in Prices /\ u \in Tokens BY <1>1
    <3> QED BY <3>1, CostType DEF Tokens
  <2> QED BY <2>1
<1>4. /\ \A c \in costs : \E u \in Usages, k \in DOMAIN Book : c = CostOf(u, Book[k])
      /\ \A u \in Usages, k \in DOMAIN Book : CostOf(u, Book[k]) \in costs
  OBVIOUS
<1>5. IsFiniteSet(costs)
  <2>1. IsFiniteSet(DOMAIN Book) BY <1>2, FS_Interval
  <2>2. IsFiniteSet(pairs) BY <1>1, <2>1, FS_Product
  <2>3. costs = {cost[q] : q \in pairs}
    <3>1. \A u \in Usages, k \in DOMAIN Book : <<u, k>> \in pairs /\ cost[<<u, k>>] = CostOf(u, Book[k])
      OBVIOUS
    <3>2. \A q \in pairs : cost[q] = CostOf(q[1], Book[q[2]]) /\ q[1] \in Usages /\ q[2] \in DOMAIN Book
      OBVIOUS
    <3> HIDE DEF cost, pairs, costs
    <3>3. ASSUME NEW c \in costs PROVE \E q \in pairs : c = cost[q]
      <4>1. PICK u \in Usages, k \in DOMAIN Book : c = CostOf(u, Book[k]) BY <1>4
      <4>2. <<u, k>> \in pairs /\ cost[<<u, k>>] = c BY <3>1, <4>1
      <4> QED BY <4>2
    <3>4. \A q \in pairs : cost[q] \in costs BY <1>4, <3>2
    <3> QED BY <3>3, <3>4
  <2> HIDE DEF costs, pairs, cost
  <2>4. IsFiniteSet({cost[q] : q \in pairs})
    <3>1. cost \in Surjection(pairs, {cost[q] : q \in pairs}) BY DEF Surjection, cost
    <3> QED BY <2>2, <3>1, FS_Surjection
  <2> QED BY <2>3, <2>4
<1>6. \E c \in costs : \A d \in costs : d <= c
  <2> HIDE DEF costs
  <2>1. costs \subseteq Nat BY <1>3, <1>4
  <2>2. costs # {}
    <3>1. PICK u \in Usages : TRUE OBVIOUS
    <3>2. CostOf(u, Book[1]) \in costs BY <1>2, <1>4
    <3> QED BY <3>2
  <2> QED BY <1>5, <2>1, <2>2, LargestOfFinite
<1>7. MaxStep \in costs /\ \A d \in costs : d <= MaxStep BY <1>6 DEF MaxStep
<1> HIDE DEF costs
<1> QED BY <1>3, <1>4, <1>7

\* What the bound on a turn is proved for: one price, no searches.
FixedPrice == Len(Book) = 1 /\ "search" \notin Kinds /\ Usages # {}

\* Then every instant has that price.
LEMMA ThePrice ==
  ASSUME CostAssumption, FixedPrice, NEW at \in Nat
  PROVE  TruePrice(at) = Book[1] /\ (SelectPrice(at) # None => SelectPrice(at) = Book[1])
<1> DEFINE before == {k \in DOMAIN Book : Book[k].from <= at}
<1>1. DOMAIN Book = {1}
  <2>1. Book \in Seq(Prices) BY DEF CostAssumption, BookAssumption, Prices
  <2>2. DOMAIN Book = 1..Len(Book) BY <2>1
  <2>3. 1..1 = {1} OBVIOUS
  <2> QED BY <2>2, <2>3 DEF FixedPrice
<1>2. Book[1].from \in Nat
  <2>1. Book \in Seq(Prices) BY DEF CostAssumption, BookAssumption, Prices
  <2>2. Book[1] \in Prices BY <1>1, <2>1
  <2> QED BY <2>2 DEF Prices
<1>3. before = {} \/ before = {1} BY <1>1
<1>4. TruePrice(at) = Book[1]
  <2>1. CASE before = {} BY <2>1 DEF TruePrice
  <2>2. CASE before = {1}
    <3>1. (CHOOSE k \in {1} : \A m \in {1} : m <= k) = 1 OBVIOUS
    <3> QED BY <2>2, <3>1 DEF TruePrice
  <2> QED BY <1>3, <2>1, <2>2
<1> QED BY <1>4, PriceIsTrue

\* An event of a turn that is not a recovery opens no way to an answer, but for a fresh
\* snapshot, which the budget is asked about before.
LEMMA NoNewAnswer ==
  ASSUME NEW J, NEW e, JournalInv(J), Shaped(J, e), Admits(J, e), J.cause # "recovery",
         e.type \in PassedTypes \cup {"effect_prepared", "effect_completed",
                                      "effect_indeterminate", "effect_reconciled"},
         e.type # "run_started", ~ (e.type = "request_snapshot_stored" /\ e.mode = "fresh"),
         e.type = "request_snapshot_stored" => e.mode \in {"fresh", "alias"}
  PROVE  After(J, e).cause = J.cause /\ (MayAnswer(After(J, e)) => MayAnswer(J))
<1> DEFINE K == After(J, e)
<1>1. J \in Projection BY DEF JournalInv
<1>2. CASE e.type \in QuietTypes
  <2>1. Quietly(J, K, e) BY <1>1, <1>2, QuietEvents DEF Shaped
  <2>2. e.type # "request_snapshot_stored" BY DEF Admits, AdmitsSnapshot
  <2>3. K.cause = J.cause BY <2>1 DEF Quietly
  <2> HIDE DEF K
  <2>4. CASE e.type = "commit_boundary_created"
    <3>1. J.att = "none" BY <2>4 DEF Admits, Closed
    <3>2. K.snap = 0 /\ K.att = "none" BY <2>1, <2>4, <3>1 DEF Quietly, AttemptAfter
    <3> QED BY <2>3, <3>2 DEF MayAnswer, K
  <2>5. CASE e.type = "request_semantic_started"
    <3>1. J.att # "none" BY <2>5 DEF Admits
    <3> QED BY <2>3, <3>1 DEF MayAnswer, K
  <2>6. CASE e.type \notin {"commit_boundary_created", "request_semantic_started"}
    <3>1. K.att = J.att BY <1>2, <2>1, <2>2, <2>6 DEF Quietly, AttemptAfter, PassedTypes
    <3>2. K.snap = J.snap /\ K.tries = J.tries /\ (K.gate = "retry" => J.gate = "retry")
      BY <1>2, <2>1, <2>2, <2>6 DEF Quietly, PassedTypes
    <3> QED BY <2>3, <3>1, <3>2 DEF MayAnswer, K
  <2> QED BY <2>4, <2>5, <2>6
<1>3. CASE e.type \in CallTypes
  <2>1. e.call \in DOMAIN J.calls BY <1>3, AdmittedCall
  <2>2. Aside(J, K) /\ K.gate = J.gate BY <1>1, <1>3, <2>1, CallEvents
  <2> HIDE DEF K
  <2> QED BY <2>2 DEF Aside, MayAnswer, K
<1> QED BY <1>2, <1>3 DEF Shaped, PassedTypes

\* Snapshots are fresh, or an alias.
LEMMA SnapshotModes ==
  ASSUME NEW J, NEW e \in KernelEvents(J), e.type = "request_snapshot_stored"
  PROVE  e.mode \in {"fresh", "alias"}
BY DEF KernelEvents, RunStarted, RunInterrupted, UserCommitted, BoundaryCreated, AttemptStarted,
       SemanticStarted, CheckpointCreated, RunCompleted, SnapshotStored, RequestInterrupted,
       AssistantCommitted, PermissionDecided, EffectPrepared, OutputPublished, EffectReconciled,
       ResultPublished, ResultCommitted, EffectCompleted, EffectIndeterminate

\* The budget is kept by what counts nothing and opens no way to an answer.
LEMMA SpendStays ==
  ASSUME SpendInv, turn' = turn, j'.cause = j.cause \/ ~ turn.bounded,
         turn.bounded => (MayAnswer(j') => MayAnswer(j)) \/ turn.counted < Limit
  PROVE  SpendInv'
BY DEF SpendInv

\* Every step keeps the bound.
LEMMA SpendStep ==
  ASSUME CostAssumption, FixedPrice, IInv, SpendInv, [Next]_vars
  PROVE  SpendInv'
<1>1. JournalInv(j) /\ TurnInv /\ ledger \in Ledgers /\ AttemptsAgree(j, ledger)
      /\ j \in Projection /\ MaxTime \in Nat
  BY BeforeStep
<1>2. Limit \in Nat \ {0} BY DEF CostAssumption, LimitAssumption
<1>3. MaxStep \in Nat /\ \A u \in Usages, k \in DOMAIN Book : CostOf(u, Book[k]) <= MaxStep
  BY StepIsBounded DEF FixedPrice
<1>4. Book \in Seq(Prices) /\ 1 \in DOMAIN Book
  BY DEF CostAssumption, BookAssumption, Prices
<1>5. CASE Event
  <2>1. PICK e \in KernelEvents(j) :
          /\ Bounded(e) /\ Admits(j, e) /\ MayStep(e)
          /\ e.type \notin {"run_started", "request_attempt_started", "assistant_committed",
                            "request_interrupted", "result_published", "tool_result_committed"}
          /\ j' = After(j, e) /\ UNCHANGED <<turn, search, bill, risen>>
    BY <1>5 DEF Event
  <2>2. Shaped(j, e) BY <2>1, EventShapes DEF Bounded
  <2>3. e.type \in PassedTypes \cup {"effect_prepared", "effect_completed",
                                     "effect_indeterminate", "effect_reconciled"}
    BY <2>1, <2>2 DEF Shaped, PassedTypes, CallTypes
  <2>4. CASE turn.bounded
    <3>1. j.cause # "recovery" BY <2>4 DEF SpendInv
    <3>2. CASE e.type = "request_snapshot_stored" /\ e.mode = "fresh"
      <4>1. turn.counted < Limit BY <2>1, <2>4, <3>2 DEF MayStep, IsStep
      <4>2. Quietly(j, j', e) BY <1>1, <2>1, <2>2, <3>2, QuietEvents DEF QuietTypes
      <4>3. j'.cause = j.cause BY <3>2, <4>2 DEF Quietly
      <4> QED BY <2>1, <4>1, <4>3, SpendStays
    <3>3. CASE ~ (e.type = "request_snapshot_stored" /\ e.mode = "fresh")
      <4>1. After(j, e).cause = j.cause /\ (MayAnswer(After(j, e)) => MayAnswer(j))
        BY <1>1, <2>1, <2>2, <2>3, <3>1, <3>3, NoNewAnswer, SnapshotModes
      <4> QED BY <2>1, <4>1, SpendStays
    <3> QED BY <3>2, <3>3
  <2>5. CASE ~ turn.bounded BY <2>1, <2>5 DEF SpendInv
  <2> QED BY <2>4, <2>5
<1>6. CASE StartRun
  <2>1. PICK cause \in Causes :
          /\ Admits(j, RunStarted(cause)) /\ j' = After(j, RunStarted(cause))
          /\ \/ /\ cause # "recovery"
                /\ \E at \in 0..MaxTime : SelectPrice(at) # None /\ turn' = NewTurn(SelectPrice(at))
             \/ cause = "continue" /\ turn' = turn
             \/ turn' = [turn EXCEPT !.bounded = FALSE, !.stopped = FALSE]
    BY <1>6 DEF StartRun
  <2> DEFINE e == RunStarted(cause)
  <2>2. e.type = "run_started" /\ e.type \in QuietTypes /\ e.cause = cause
    BY DEF RunStarted, QuietTypes
  <2> HIDE DEF e
  <2>3. Quietly(j, j', e) BY <1>1, <2>1, <2>2, QuietEvents DEF e
  <2>4. j'.cause = cause BY <2>2, <2>3 DEF Quietly
  <2>5. CASE cause # "recovery" /\
             \E at \in 0..MaxTime : SelectPrice(at) # None /\ turn' = NewTurn(SelectPrice(at))
    <3>1. PICK at \in 0..MaxTime : SelectPrice(at) # None /\ turn' = NewTurn(SelectPrice(at))
      BY <2>5
    <3>2. SelectPrice(at) = Book[1] BY <1>1, <3>1, ThePrice
    <3>3. 0 < Limit /\ 0 < Limit + MaxStep BY <1>2, <1>3
    <3>4. turn'.spent = 0 /\ turn'.counted = 0 /\ turn'.price = Book[1] BY <3>1, <3>2 DEF NewTurn
    <3> QED BY <2>4, <2>5, <3>3, <3>4 DEF SpendInv
  <2>6. CASE cause = "continue" /\ turn' = turn
    <3>1. j'.att = j.att /\ j'.snap = j.snap /\ j'.tries = j.tries
          /\ (j'.gate = "retry" => j.gate = "retry")
      BY <2>2, <2>3 DEF Quietly, AttemptAfter
    <3>2. MayAnswer(j') => MayAnswer(j) BY <3>1 DEF MayAnswer
    <3> QED BY <2>4, <2>6, <3>2 DEF SpendInv
  <2>7. CASE turn' = [turn EXCEPT !.bounded = FALSE, !.stopped = FALSE]
    <3>1. ~ turn'.bounded BY <1>1, <2>7 DEF TurnInv
    <3> QED BY <3>1 DEF SpendInv
  <2> QED BY <2>1, <2>5, <2>6, <2>7
<1>7. CASE Attempt
  <2>1. Admits(j, AttemptStarted) /\ j' = After(j, AttemptStarted) /\ turn' = turn
    BY <1>7 DEF Attempt
  <2> DEFINE e == AttemptStarted
  <2>2. e.type = "request_attempt_started" /\ e.type \in QuietTypes
    BY DEF AttemptStarted, QuietTypes
  <2>3. AdmitsAttempt(j) /\ Active(j) BY <2>1 DEF Admits, AttemptStarted
  <2> HIDE DEF e
  <2>4. Quietly(j, j', e) BY <1>1, <2>1, <2>2, QuietEvents DEF e
  <2>5. j'.cause = j.cause BY <2>2, <2>4 DEF Quietly
  <2>6. MayAnswer(j) BY <1>1, <2>3 DEF AdmitsAttempt, MayAnswer, JournalInv
  <2> QED BY <2>1, <2>5, <2>6, SpendStays
<1>8. CASE Answer
  <2>1. PICK u \in Usages, kinds \in {<< >>} \cup {<<k>> : k \in Kinds} :
          /\ Admits(j, AssistantCommitted(kinds)) /\ j' = After(j, AssistantCommitted(kinds))
          /\ turn' = [Counted(turn, u) EXCEPT !.spent =
                        @ + CostOf(u, TruePrice(ledger.attempts[Len(ledger.attempts)].at))]
    BY <1>8 DEF Answer
  <2>2. j.att # "none" BY <2>1 DEF Admits, AssistantCommitted
  <2>3. ledger.attempts[Len(ledger.attempts)].at \in Nat BY <1>1, <2>2, AttemptIsNamed
  <2> DEFINE x == CostOf(u, Book[1])
  <2>4. turn' = [Counted(turn, u) EXCEPT !.spent = @ + x] BY <2>1, <2>3, ThePrice
  <2>5. x \in Nat /\ x <= MaxStep
    <3>1. u \in Tokens /\ Book[1] \in Prices BY <1>4, BeforeStep
    <3> QED BY <1>3, <1>4, <3>1, CostType DEF Tokens
  <2>6. turn \in [spent : Nat, counted : Nat, price : Prices, bounded : BOOLEAN, stopped : BOOLEAN]
    BY <1>1 DEF TurnInv
  <2>7. /\ j'.att = "none" /\ j'.tries = j.tries /\ j'.gate \in {"checkpoint", "final_checkpoint"}
        /\ j'.cause = j.cause
    BY <1>1, <2>1, AnswerEvent
  <2>8. ~ MayAnswer(j') BY <1>1, <2>2, <2>7 DEF MayAnswer, JournalInv
  <2>9. CASE turn.bounded
    <3>1. /\ turn.spent = turn.counted /\ turn.price = Book[1] /\ j.cause # "recovery"
          /\ turn.counted < Limit
      BY <2>2, <2>9 DEF SpendInv, MayAnswer
    <3> HIDE DEF x
    <3>2. Counted(turn, u) = [turn EXCEPT !.counted = @ + x] BY <2>9, <3>1 DEF Counted, x
    <3>3. turn'.spent = turn.spent + x /\ turn'.counted = turn.counted + x
          /\ turn'.price = turn.price
      BY <2>4, <2>6, <3>2
    <3>4. turn.counted + x < Limit + MaxStep BY <1>2, <1>3, <2>5, <2>6, <3>1
    <3> QED BY <2>7, <2>8, <3>1, <3>3, <3>4 DEF SpendInv
  <2>10. CASE ~ turn.bounded
    <3>1. Counted(turn, u) = turn BY <2>10 DEF Counted
    <3>2. ~ turn'.bounded BY <2>4, <2>6, <2>10, <3>1
    <3> QED BY <3>2 DEF SpendInv
  <2> QED BY <2>9, <2>10
<1>9. CASE Interrupt
  <2>1. PICK semantic \in {"pre_semantic", "post_semantic"} :
          /\ Admits(j, RequestInterrupted(semantic)) /\ j' = After(j, RequestInterrupted(semantic))
          /\ turn' = turn
    BY <1>9 DEF Interrupt
  <2> DEFINE e == RequestInterrupted(semantic)
  <2>2. e.type = "request_interrupted" /\ e.type \in QuietTypes /\ j.att # "none"
    BY <2>1 DEF RequestInterrupted, QuietTypes, Admits
  <2> HIDE DEF e
  <2>3. Quietly(j, j', e) BY <1>1, <2>1, <2>2, QuietEvents DEF e
  <2>4. j'.cause = j.cause BY <2>2, <2>3 DEF Quietly
  <2>5. MayAnswer(j) BY <2>2 DEF MayAnswer
  <2> QED BY <2>1, <2>4, <2>5, SpendStays
<1>10. CASE Publish
  <2>1. PICK i \in DOMAIN j.calls :
          /\ Admits(j, ResultPublished(i)) /\ j' = After(j, ResultPublished(i))
          /\ j.calls[i].kind # "search" => UNCHANGED <<search, bill, turn>>
    BY <1>10 DEF Publish
  <2>2. j.calls[i].kind # "search" BY <1>1 DEF JournalInv, FixedPrice
  <2>3. Aside(j, j') /\ j'.gate = j.gate BY <1>1, <2>1, PublishLeaves
  <2>4. j'.cause = j.cause /\ (MayAnswer(j') => MayAnswer(j)) BY <2>3 DEF Aside, MayAnswer
  <2> QED BY <2>1, <2>2, <2>4, SpendStays
<1>11. CASE CommitResult
  <2>1. PICK i \in DOMAIN j.calls : j' = After(j, ResultCommitted(i)) /\ turn' = turn
    BY <1>11 DEF CommitResult
  <2>2. Aside(j, j') /\ j'.gate # "retry" BY <1>1, <2>1, ResultEvent
  <2>3. j'.cause = j.cause /\ (MayAnswer(j') => MayAnswer(j)) BY <2>2 DEF Aside, MayAnswer
  <2> QED BY <2>1, <2>3, SpendStays
<1>12. CASE Stop
  <2>1. turn' = [turn EXCEPT !.stopped = TRUE] /\ j' = j BY <1>12 DEF Stop
  <2>2. turn'.bounded = turn.bounded /\ turn'.spent = turn.spent /\ turn'.counted = turn.counted
        /\ turn'.price = turn.price
    BY <1>1, <2>1 DEF TurnInv
  <2> QED BY <2>1, <2>2 DEF SpendInv
<1>13. CASE Switch
  <2>1. ~ turn'.bounded BY <1>13 DEF Switch, NoTurn
  <2> QED BY <2>1 DEF SpendInv
<1>14. CASE UNCHANGED vars BY <1>14 DEF SpendInv, vars
<1> QED BY <1>5, <1>6, <1>7, <1>8, <1>9, <1>10, <1>11, <1>12, <1>13, <1>14 DEF Next

\* A turn that has its budget spends less than the limit and one answer.
LEMMA SpendBounded ==
  ASSUME SpendInv
  PROVE  SpendIsBounded
BY DEF SpendInv, SpendIsBounded

\* Nothing has been spent at first.
LEMMA InitSpend ==
  ASSUME Init
  PROVE  SpendInv
BY DEF Init, NoTurn, SpendInv

-----------------------------------------------------------------------------
\* Every journal the binding projection lets in has a report (project.ts never takes an
\* event for invalid).  Its sums are never more than what the provider charges and the rise
\* of the price between a search and the commit of its result, at which project.ts prices
\* it; and nothing is open or unsettled in it when the projection is closed.
THEOREM LedgerHolds ==
  ASSUME CostAssumption
  PROVE  Spec => [](TypeOK /\ LedgerReadsEveryJournal /\ LedgerIsLowerBound /\ ClosedMeansSettled)
<1>1. Init => IInv BY InitIInv
<1>2. IInv /\ [Next]_vars => IInv' BY NextIInv
<1>3. IInv => TypeOK /\ LedgerReadsEveryJournal /\ LedgerIsLowerBound /\ ClosedMeansSettled
  BY IInvTypes, IInvLowerBound, IInvSettled
<1> QED BY <1>1, <1>2, <1>3, PTL DEF Spec

\* Without searches, a sum that calls itself complete is what the provider charges.
THEOREM CompleteHolds ==
  ASSUME CostAssumption, "search" \notin Kinds
  PROVE  Spec => []CompleteIsExact
<1>1. Init => IInv BY InitIInv
<1>2. IInv /\ [Next]_vars => IInv' BY NextIInv
<1>3. IInv => CompleteIsExact BY IInvExact
<1> QED BY <1>1, <1>2, <1>3, PTL DEF Spec

\* "crossing a limit stops the turn instead of paying for it first" (budget.ts:66): at one
\* price and without searches, a turn with a budget spends less than its limit and one answer.
THEOREM SpendHolds ==
  ASSUME CostAssumption, FixedPrice
  PROVE  Spec => []SpendIsBounded
<1>1. Init => IInv /\ SpendInv BY InitIInv, InitSpend
<1>2. IInv /\ SpendInv /\ [Next]_vars => IInv' /\ SpendInv' BY NextIInv, SpendStep
<1>3. IInv /\ SpendInv => SpendIsBounded BY SpendBounded
<1> QED BY <1>1, <1>2, <1>3, PTL DEF Spec
===============================================================================
