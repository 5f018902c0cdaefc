-------------------------- MODULE SessionKernelProofs --------------------------
(***************************************************************************)
(* Proofs about one session (SessionKernel) for any kinds of tool calls,   *)
(* any number of calls in an answer, any parallelism and any bounds: what  *)
(* a call does to the world is done at most once, in the declared order,   *)
(* and the journal says so, however often the session is interrupted,      *)
(* recovered and reconciled.                                               *)
(***************************************************************************)
EXTENDS SessionKernel, Integers, SequenceTheorems, WellFoundedInduction, TLAPS

\* The journal says of call i of J that its effect may have taken place.
Taken(J, i) ==
  /\ i \in DOMAIN J.calls
  /\ J.calls[i].perm = "allow"
  /\ J.calls[i].effect \in {"prepared", "completed", "indeterminate", "reconciled_completed"}

\* An answer has no more calls than there are slots for them.
CallsInv == Len(j.calls) <= MaxCalls

\* Calls that run beside others only look.
SliceInv ==
  pc = "slice" =>
    /\ j.next + 1 <= upto /\ upto <= Len(j.calls)
    /\ upto = j.next + 1 \/ \A i \in Slice : Looks(i)

\* A job that has recorded its effect is about to begin it: it is the one
\* that is due, and what it is about to do has not been done.
JobInv ==
  \A i \in Slots : job[i] = "prepared" =>
    pc = "slice" /\ i = j.next + 1 /\ ran[i] = 0 /\ Taken(j, i)

\* What took place is in the journal.
RanInv == \A i \in Slots : ran[i] <= 1 /\ (ran[i] > 0 => Taken(j, i))

\* There is an effect to be reconciled.
ReconcileInv == pc = "reconciling" => Effect(j, "indeterminate") # {}

IInv == TypeOK /\ CallsInv /\ SliceInv /\ JobInv /\ RanInv /\ ReconcileInv

-----------------------------------------------------------------------------
(* What an append leaves of the calls. *)

\* K has the calls of J, and takes back of none that it may have taken place.
Kept(J, K) ==
  /\ K \in Projection
  /\ K.next = J.next /\ Len(K.calls) = Len(J.calls)
  /\ \A i \in DOMAIN J.calls : K.calls[i].kind = J.calls[i].kind
  /\ \A i \in DOMAIN J.calls : Taken(J, i) => Taken(K, i)

QuietTypes ==
  {"run_started", "user_committed", "commit_boundary_created", "request_snapshot_stored",
   "request_attempt_started", "request_semantic_started", "request_interrupted",
   "cache_checkpoint_created", "run_completed", "run_interrupted", "journal_tail_recovered"}

\* The names of the gates.
LEMMA GateNames ==
  Gates = {"open", "checkpoint", "boundary", "must_interrupt", "retry", "final_checkpoint",
           "final_boundary", "final_complete"}
BY DEF Gates, GateAdmits

\* Events that are about no call leave the calls alone.
LEMMA QuietEvents ==
  ASSUME NEW J \in Projection, NEW e, e.type \in QuietTypes,
         e.type = "run_started" => e.cause \in Causes
  PROVE  /\ After(J, e) \in Projection
         /\ After(J, e).calls = J.calls /\ After(J, e).next = J.next
<1> DEFINE A == Adds(J, e)
<1>0. J.run + 1 \in Nat /\ J.blobs + 1 \in Nat /\ J.tries + 1 \in Nat BY DEF Projection
<1>1. A \in Projection /\ A.calls = J.calls /\ A.next = J.next
  <2>1. CASE e.type = "run_started"
    <3>1. A = [J EXCEPT !.run = J.run + 1, !.cause = e.cause, !.status = "active", !.gate = "open"]
      BY <2>1 DEF Adds
    <3> HIDE DEF A
    <3> QED BY <1>0, <2>1, <3>1, GateNames DEF AfterBoundary, AfterFailure, Projection, Causes, Statuses
  <2>2. CASE e.type = "user_committed"
    <3>1. A = [J EXCEPT !.blobs = J.blobs + 1, !.tip = "user", !.gate = "boundary"]
      BY <2>2 DEF Adds
    <3> HIDE DEF A
    <3> QED BY <1>0, <2>2, <3>1, GateNames DEF AfterBoundary, AfterFailure, Projection, Causes, Statuses
  <2>3. CASE e.type = "commit_boundary_created"
    <3>1. A = AfterBoundary(J)
      BY <2>3 DEF Adds
    <3> HIDE DEF A
    <3> QED BY <1>0, <2>3, <3>1, GateNames DEF AfterBoundary, AfterFailure, Projection, Causes, Statuses
  <2>4. CASE e.type = "request_snapshot_stored"
    <3>1. A = [J EXCEPT !.snap = J.run, !.tries = 0]
      BY <2>4 DEF Adds
    <3> HIDE DEF A
    <3> QED BY <1>0, <2>4, <3>1, GateNames DEF AfterBoundary, AfterFailure, Projection, Causes, Statuses
  <2>5. CASE e.type = "request_attempt_started"
    <3>1. A = [J EXCEPT !.att = "open", !.tries = J.tries + 1, !.gate = "open"]
      BY <2>5 DEF Adds
    <3> HIDE DEF A
    <3> QED BY <1>0, <2>5, <3>1, GateNames DEF AfterBoundary, AfterFailure, Projection, Causes, Statuses
  <2>6. CASE e.type = "request_semantic_started"
    <3>1. A = [J EXCEPT !.att = "semantic"]
      BY <2>6 DEF Adds
    <3> HIDE DEF A
    <3> QED BY <1>0, <2>6, <3>1, GateNames DEF AfterBoundary, AfterFailure, Projection, Causes, Statuses
  <2>7. CASE e.type = "request_interrupted"
    <3>1. A = AfterFailure(J, e.semantic)
      BY <2>7 DEF Adds
    <3> HIDE DEF A
    <3> QED BY <1>0, <2>7, <3>1, GateNames DEF AfterBoundary, AfterFailure, Projection, Causes, Statuses
  <2>8. CASE e.type = "cache_checkpoint_created"
    <3>1. A = [J EXCEPT !.gate = IF J.gate = "checkpoint" THEN "open" ELSE "final_boundary"]
      BY <2>8 DEF Adds
    <3> HIDE DEF A
    <3> QED BY <1>0, <2>8, <3>1, GateNames DEF AfterBoundary, AfterFailure, Projection, Causes, Statuses
  <2>9. CASE e.type = "run_completed"
    <3>1. A = [J EXCEPT !.status = "completed"]
      BY <2>9 DEF Adds
    <3> HIDE DEF A
    <3> QED BY <1>0, <2>9, <3>1, GateNames DEF AfterBoundary, AfterFailure, Projection, Causes, Statuses
  <2>10. CASE e.type = "run_interrupted"
    <3>1. A = [J EXCEPT !.status = "interrupted"]
      BY <2>10 DEF Adds
    <3> HIDE DEF A
    <3> QED BY <1>0, <2>10, <3>1, GateNames DEF AfterBoundary, AfterFailure, Projection, Causes, Statuses
  <2>11. CASE e.type = "journal_tail_recovered"
    <3>1. A = J
      BY <2>11 DEF Adds
    <3> HIDE DEF A
    <3> QED BY <1>0, <2>11, <3>1, GateNames DEF AfterBoundary, AfterFailure, Projection, Causes, Statuses
  <2> QED BY <2>1, <2>2, <2>3, <2>4, <2>5, <2>6, <2>7, <2>8, <2>9, <2>10, <2>11 DEF QuietTypes
<1>2. After(J, e) = [A EXCEPT !.fresh = (e.type = "commit_boundary_created")] BY DEF After, A
<1> QED BY <1>1, <1>2 DEF Projection

\* Hence they keep them.
LEMMA QuietKeeps ==
  ASSUME NEW J \in Projection, NEW e, e.type \in QuietTypes,
         e.type = "run_started" => e.cause \in Causes
  PROVE  Kept(J, After(J, e))
BY QuietEvents DEF Kept, Taken

\* What the events of one call do to it.
CallAfter(J, e) ==
  LET c == J.calls[e.call] IN
  CASE e.type = "permission_decided"   -> [c EXCEPT !.perm = e.decision, !.permRun = J.run]
    [] e.type = "effect_prepared"      -> [c EXCEPT !.effect = "prepared", !.effectRun = J.run]
    [] e.type = "output_published"     -> [c EXCEPT !.output = J.run]
    [] e.type = "result_published"     -> [c EXCEPT !.direct = J.run]
    [] e.type = "effect_completed"     -> [c EXCEPT !.effect = "completed"]
    [] e.type = "effect_indeterminate" -> [c EXCEPT !.effect = "indeterminate"]
    [] e.type = "effect_reconciled"    -> [c EXCEPT !.effect = e.resolution]

CallTypes == {"permission_decided", "effect_prepared", "output_published", "result_published",
              "effect_completed", "effect_indeterminate", "effect_reconciled"}

\* An event of one call changes that call alone ...
LEMMA CallAdds ==
  ASSUME NEW J \in Projection, NEW e, e.type \in CallTypes, e.call \in DOMAIN J.calls
  PROVE  Adds(J, e) = [J EXCEPT !.calls = [J.calls EXCEPT ![e.call] = CallAfter(J, e)]]
<1>0. J.calls[e.call] \in Call /\ J.run \in Nat /\ J.calls \in Seq(Call) BY DEF Projection
<1>1. CASE e.type = "permission_decided" BY <1>0, <1>1 DEF Adds, CallAfter, Projection, Call
<1>2. CASE e.type = "effect_prepared" BY <1>0, <1>2 DEF Adds, CallAfter, Projection, Call
<1>3. CASE e.type = "output_published" BY <1>0, <1>3 DEF Adds, CallAfter, Projection, Call
<1>4. CASE e.type = "result_published" BY <1>0, <1>4 DEF Adds, CallAfter, Projection, Call
<1>5. CASE e.type = "effect_completed" BY <1>0, <1>5 DEF Adds, CallAfter, Projection, Call
<1>6. CASE e.type = "effect_indeterminate" BY <1>0, <1>6 DEF Adds, CallAfter, Projection, Call
<1>7. CASE e.type = "effect_reconciled" BY <1>0, <1>7 DEF Adds, CallAfter, Projection, Call
<1> QED BY <1>1, <1>2, <1>3, <1>4, <1>5, <1>6, <1>7 DEF CallTypes

\* ... and not its kind.
LEMMA CallEvents ==
  ASSUME NEW J \in Projection, NEW e, e.type \in CallTypes, e.call \in DOMAIN J.calls,
         e.type = "permission_decided" => e.decision \in {"allow", "deny"},
         e.type = "effect_reconciled" => e.resolution \in Effects
  PROVE  /\ After(J, e) \in Projection /\ After(J, e).next = J.next
         /\ After(J, e).calls = [J.calls EXCEPT ![e.call] = CallAfter(J, e)]
         /\ CallAfter(J, e) \in Call /\ CallAfter(J, e).kind = J.calls[e.call].kind
<1> DEFINE c == J.calls[e.call]
           A == Adds(J, e)
           D == CallAfter(J, e)
<1>1. c \in Call /\ J.run \in Nat /\ J.calls \in Seq(Call) BY DEF Projection
<1>2. D \in Call /\ D.kind = c.kind
  <2>1. CASE e.type = "permission_decided" BY <1>1, <2>1 DEF CallAfter, Call
  <2>2. CASE e.type = "effect_prepared" BY <1>1, <2>2 DEF CallAfter, Call, Effects
  <2>3. CASE e.type = "output_published" BY <1>1, <2>3 DEF CallAfter, Call
  <2>4. CASE e.type = "result_published" BY <1>1, <2>4 DEF CallAfter, Call
  <2>5. CASE e.type = "effect_completed" BY <1>1, <2>5 DEF CallAfter, Call, Effects
  <2>6. CASE e.type = "effect_indeterminate" BY <1>1, <2>6 DEF CallAfter, Call, Effects
  <2>7. CASE e.type = "effect_reconciled" BY <1>1, <2>7 DEF CallAfter, Call
  <2> QED BY <2>1, <2>2, <2>3, <2>4, <2>5, <2>6, <2>7 DEF CallTypes
<1>3. A = [J EXCEPT !.calls = [J.calls EXCEPT ![e.call] = D]] BY CallAdds
<1>4. After(J, e) = [A EXCEPT !.fresh = FALSE] BY DEF After, CallTypes, A
<1> HIDE DEF A, D, c
<1>5. [J.calls EXCEPT ![e.call] = D] \in Seq(Call) BY <1>1, <1>2
<1>6. A \in Projection /\ A.next = J.next /\ A.calls = [J.calls EXCEPT ![e.call] = D]
  BY <1>3, <1>5 DEF Projection
<1>7. After(J, e) \in Projection /\ After(J, e).next = J.next /\ After(J, e).calls = A.calls
  BY <1>4, <1>6 DEF Projection
<1> QED BY <1>2, <1>6, <1>7 DEF c, D

\* Unless an operator reconciles it as not executed, a call that may have
\* taken place stays one.
LEMMA CallKeeps ==
  ASSUME NEW J \in Projection, NEW e, e.type \in CallTypes, e.call \in DOMAIN J.calls,
         Admits(J, e),
         e.type = "permission_decided" => e.decision \in {"allow", "deny"},
         e.type = "effect_reconciled" => e.resolution = "reconciled_completed"
  PROVE  Kept(J, After(J, e))
<1> DEFINE K == After(J, e)
           c == J.calls[e.call]
           D == CallAfter(J, e)
<1>1. /\ K \in Projection /\ K.next = J.next /\ K.calls = [J.calls EXCEPT ![e.call] = D]
      /\ D \in Call /\ D.kind = c.kind
  BY CallEvents DEF Effects
<1>2. c \in Call /\ J.calls \in Seq(Call) BY DEF Projection
<1>3. Taken(J, e.call) =>
        D.perm = "allow"
          /\ D.effect \in {"prepared", "completed", "indeterminate", "reconciled_completed"}
  <2>0. SUFFICES ASSUME Taken(J, e.call)
        PROVE  D.perm = "allow"
          /\ D.effect \in {"prepared", "completed", "indeterminate", "reconciled_completed"}
    OBVIOUS
  <2>1. CASE e.type = "permission_decided" BY <2>0, <2>1 DEF Admits, Taken
  <2>2. CASE e.type = "effect_prepared" BY <1>2, <2>0, <2>2 DEF CallAfter, Call, Taken
  <2>3. CASE e.type = "output_published" BY <1>2, <2>0, <2>3 DEF CallAfter, Call, Taken
  <2>4. CASE e.type = "result_published" BY <1>2, <2>0, <2>4 DEF CallAfter, Call, Taken
  <2>5. CASE e.type = "effect_completed" BY <1>2, <2>0, <2>5 DEF CallAfter, Call, Taken
  <2>6. CASE e.type = "effect_indeterminate" BY <1>2, <2>0, <2>6 DEF CallAfter, Call, Taken
  <2>7. CASE e.type = "effect_reconciled" BY <1>2, <2>0, <2>7 DEF CallAfter, Call, Taken
  <2> QED BY <2>1, <2>2, <2>3, <2>4, <2>5, <2>6, <2>7 DEF CallTypes
<1> HIDE DEF D, c, K
<1>4. \A i \in DOMAIN J.calls : K.calls[i] = IF i = e.call THEN D ELSE J.calls[i]
  BY <1>1, <1>2
<1>5. Len(K.calls) = Len(J.calls) /\ DOMAIN K.calls = DOMAIN J.calls
  BY <1>1, <1>2 DEF Projection
<1>6. \A i \in DOMAIN J.calls : K.calls[i].kind = J.calls[i].kind BY <1>1, <1>4 DEF c
<1>7. ASSUME NEW i \in DOMAIN J.calls, Taken(J, i) PROVE Taken(K, i)
  <2>1. CASE i = e.call BY <1>3, <1>4, <1>5, <1>7, <2>1 DEF Taken
  <2>2. CASE i # e.call BY <1>4, <1>5, <1>7, <2>2 DEF Taken
  <2> QED BY <2>1, <2>2
<1>8. Kept(J, K) BY <1>1, <1>5, <1>6, <1>7 DEF Kept
<1> QED BY <1>8 DEF K

\* An answer brings its calls, none of which has begun.
LEMMA AnswerEvent ==
  ASSUME NEW J \in Projection, NEW n \in Nat, NEW kinds \in [1..n -> Kinds]
  PROVE  /\ After(J, AssistantCommitted(kinds)) \in Projection
         /\ Len(After(J, AssistantCommitted(kinds)).calls) = n
<1> DEFINE e == AssistantCommitted(kinds)
           A == AfterAssistant(J, kinds)
           calls == [i \in 1..n |-> NewCall(kinds[i])]
<1>1. DOMAIN kinds = 1..n OBVIOUS
<1>2. \A i \in 1..n : NewCall(kinds[i]) \in Call
  BY KindsAssumption DEF NewCall, Call, Effects
<1>3. calls \in Seq(Call) /\ Len(calls) = n BY <1>2
<1>4. A.calls = calls /\ A \in Projection
  <2> HIDE DEF calls
  <2>1. [i \in DOMAIN kinds |-> NewCall(kinds[i])] = calls BY <1>1 DEF calls
  <2>2. A = [J EXCEPT !.att = "none", !.blobs = J.blobs + 1, !.tip = "assistant", !.next = 0,
                      !.calls = calls,
                      !.gate = IF kinds = << >> THEN "final_checkpoint" ELSE "checkpoint"]
    BY <2>1 DEF AfterAssistant
  <2>3. J.blobs + 1 \in Nat BY DEF Projection
  <2> HIDE DEF A
  <2> QED BY <1>3, <2>2, <2>3, GateNames DEF Projection
<1>5. After(J, e) = [A EXCEPT !.fresh = FALSE] BY DEF After, Adds, AssistantCommitted
<1> HIDE DEF A, calls, e
<1>6. After(J, e) \in Projection /\ After(J, e).calls = calls
  BY <1>4, <1>5 DEF Projection
<1> QED BY <1>3, <1>6 DEF e

\* A result moves on to the next call.
LEMMA ResultEvent ==
  ASSUME NEW J \in Projection, NEW i
  PROVE  /\ After(J, ResultCommitted(i)) \in Projection
         /\ After(J, ResultCommitted(i)).calls = J.calls
         /\ After(J, ResultCommitted(i)).next = J.next + 1
<1> DEFINE A == AfterResult(J)
<1>1. A \in Projection /\ A.calls = J.calls /\ A.next = J.next + 1
  <2>1. J.blobs + 1 \in Nat /\ J.next + 1 \in Nat BY DEF Projection
  <2>2. PICK tip \in {"results", "assistant"}, gate \in {"boundary", "open"} :
          A = [J EXCEPT !.next = J.next + 1, !.blobs = J.blobs + 1, !.tip = tip, !.gate = gate]
    BY DEF AfterResult
  <2> HIDE DEF A
  <2> QED BY <2>1, <2>2, GateNames DEF Projection
<1>2. After(J, ResultCommitted(i)) = [A EXCEPT !.fresh = FALSE]
  BY DEF After, Adds, ResultCommitted
<1> HIDE DEF A
<1> QED BY <1>1, <1>2 DEF Projection

-----------------------------------------------------------------------------
(* The slices. *)

\* A nonempty set of numbers up to n has a largest one.
LEMMA LargestOfMany ==
  ASSUME NEW n \in Nat, NEW S, S \subseteq 0..n, S # {}
  PROVE  \E k \in S : \A m \in S : m <= k
<1> DEFINE T == {n - k : k \in S}
<1>1. T \subseteq Nat /\ T # {}
  <2>1. PICK k \in S : TRUE OBVIOUS
  <2>2. n - k \in T BY <2>1
  <2>3. \A m \in S : n - m \in Nat OBVIOUS
  <2> QED BY <2>2, <2>3
<1>2. PICK x \in T : \A y \in T : ~ (<<y, x>> \in OpToRel(<, Nat))
  <2> HIDE DEF T
  <2> QED BY <1>1, NatLessThanWellFounded, WFMin
<1>3. \A y \in T : ~ (y < x) BY <1>1, <1>2 DEF OpToRel
<1>4. PICK k \in S : x = n - k OBVIOUS
<1>5. ASSUME NEW m \in S PROVE m <= k
  <2>1. n - m \in T OBVIOUS
  <2>2. ~ (n - m < n - k) BY <1>3, <1>4, <2>1
  <2> QED BY <2>2
<1> QED BY <1>5

\* A slice is one call, or calls that only look.
LEMMA SliceOfCalls ==
  ASSUME TypeOK, NEW i \in DOMAIN j.calls
  PROVE  /\ SliceEnd(i) \in i..Len(j.calls)
         /\ SliceEnd(i) = i \/ \A m \in i..SliceEnd(i) : Looks(m)
<1> DEFINE ends == {k \in i..Len(j.calls) : \A m \in i..k : Looks(m)}
           wide == {k \in ends : k < i + Parallelism}
<1>0. j.calls \in Seq(Call) /\ i \in 1..Len(j.calls) /\ Len(j.calls) \in Nat
  BY DEF TypeOK, Projection
<1>1. CASE ~ Looks(i)
  <2>1. SliceEnd(i) = i BY <1>1 DEF SliceEnd
  <2> QED BY <1>0, <2>1
<1>2. CASE Looks(i)
  <2>1. i \in ends BY <1>0, <1>2
  <2>2. i \in wide BY <1>0, <2>1, ParallelismAssumption
  <2>3. wide \subseteq 0..Len(j.calls) BY <1>0
  <2> HIDE DEF wide
  <2>4. \E k \in wide : \A m \in wide : m <= k BY <1>0, <2>2, <2>3, LargestOfMany
  <2>5. SliceEnd(i) = CHOOSE k \in wide : \A m \in wide : m <= k
    BY <1>2 DEF SliceEnd, wide
  <2>6. SliceEnd(i) \in wide BY <2>4, <2>5
  <2> QED BY <2>6 DEF wide
<1> QED BY <1>1, <1>2

-----------------------------------------------------------------------------
(* What keeps the invariant. *)

\* There is a slot for every call.
LEMMA CallsHaveSlots ==
  ASSUME IInv
  PROVE  /\ j \in Projection /\ j.calls \in Seq(Call) /\ Len(j.calls) \in Nat /\ j.next \in Nat
         /\ DOMAIN j.calls = 1..Len(j.calls) /\ DOMAIN j.calls \subseteq Slots
         /\ MaxCalls \in Nat \ {0}
BY MaxCallsAssumption DEF IInv, TypeOK, Projection, CallsInv, Slots

\* No job at all is one.
LEMMA NoJobsAreJobs ==
  NoJobs \in [Slots -> {"idle", "due", "allowed", "prepared", "ran", "published",
                        "doubted", "unread", "settled", "failed"}]
BY DEF NoJobs

\* Steps outside a slice that leave the calls.
LEMMA MoveKeeps ==
  ASSUME IInv, TypeOK', pc' \notin {"slice", "reconciling"},
         (pc # "slice" /\ job' = job) \/ job' = NoJobs,
         ran' = ran, Len(j'.calls) = Len(j.calls),
         \A i \in DOMAIN j.calls : Taken(j, i) => Taken(j', i)
  PROVE  IInv'
<1>1. CallsInv' /\ SliceInv' /\ ReconcileInv' BY DEF IInv, CallsInv, SliceInv, ReconcileInv
<1>2. JobInv' BY DEF IInv, JobInv, NoJobs
<1>3. RanInv' BY DEF IInv, RanInv, Taken
<1> QED BY <1>1, <1>2, <1>3 DEF IInv

\* Steps that change none of it.
LEMMA FrameKeeps ==
  ASSUME IInv, TypeOK', UNCHANGED <<j, pc, upto, job, ran>>
  PROVE  IInv'
BY DEF IInv, CallsInv, SliceInv, Slice, Looks, JobInv, RanInv, ReconcileInv, Effect, Taken

\* A command that ends.
LEMMA DownKeeps == ASSUME IInv, Kept(j, j'), ran' = ran, Down PROVE IInv'
<1>1. TypeOK'
  <2>1. upto' \in 0..MaxCalls BY MaxCallsAssumption DEF Down
  <2>2. job' \in [Slots -> {"idle", "due", "allowed", "prepared", "ran", "published",
                           "doubted", "unread", "settled", "failed"}]
    BY NoJobsAreJobs DEF Down
  <2>3. ran' \in [Slots -> Nat] /\ j' \in Projection BY DEF IInv, TypeOK, Kept
  <2> QED BY <2>1, <2>2, <2>3 DEF TypeOK, Down
<1>2. Len(j'.calls) = Len(j.calls) /\ \A i \in DOMAIN j.calls : Taken(j, i) => Taken(j', i)
  BY DEF Kept
<1> QED BY <1>1, <1>2, MoveKeeps DEF Down

\* A command that appends an event about no call and goes on.
LEMMA StepKeeps ==
  ASSUME IInv, pc # "slice", NEW e, e.type \in QuietTypes,
         e.type = "run_started" => e.cause \in Causes,
         NEW step \in Live \cup {"planning"}, Step(e, step)
  PROVE  IInv'
<1>1. Kept(j, j') BY CallsHaveSlots, QuietKeeps DEF Step, Accept
<1>2. TypeOK' BY <1>1 DEF IInv, TypeOK, Step, command, runtime, Kept, Recovering
<1>3. Len(j'.calls) = Len(j.calls) /\ \A i \in DOMAIN j.calls : Taken(j, i) => Taken(j', i)
  BY <1>1 DEF Kept
<1> QED BY <1>2, <1>3, MoveKeeps DEF Step, runtime, Live

\* A command that appends its last event.
LEMMA LastKeeps ==
  ASSUME IInv, NEW e, e.type \in QuietTypes \ {"run_started"}, Last(e)
  PROVE  IInv'
<1>1. Kept(j, j') BY CallsHaveSlots, QuietKeeps DEF Last, Accept
<1> QED BY <1>1, DownKeeps DEF Last

\* What a journal has not changed it has kept.
LEMMA UnchangedIsKept == ASSUME IInv, j' = j PROVE Kept(j, j')
BY CallsHaveSlots DEF Kept

-----------------------------------------------------------------------------
(* The turn. *)

\* The steps that append an event about no call.
LEMMA TurnKeeps ==
  ASSUME IInv,
         StartRun \/ ContinueRun \/ CommitUser \/ BoundUser \/ StoreSnapshot \/ SendAttempt
           \/ SemanticStarts \/ RequestFails \/ GiveUp \/ Checkpoint \/ BoundAnswer
           \/ CompleteRun \/ BoundResults \/ Cancel
  PROVE  IInv'
<1>1. CASE StartRun
  BY <1>1, StepKeeps DEF StartRun, RunStarted, QuietTypes, Causes, Live
<1>2. CASE ContinueRun
  BY <1>2, StepKeeps DEF ContinueRun, RunStarted, QuietTypes, Causes, Live
<1>3. CASE CommitUser BY <1>3, StepKeeps DEF CommitUser, UserCommitted, QuietTypes, Live
<1>4. CASE BoundUser BY <1>4, StepKeeps DEF BoundUser, BoundaryCreated, QuietTypes, Live
<1>5. CASE StoreSnapshot
  BY <1>5, StepKeeps DEF StoreSnapshot, SnapshotStored, QuietTypes, Live
<1>6. CASE SendAttempt BY <1>6, StepKeeps DEF SendAttempt, AttemptStarted, QuietTypes, Live
<1>7. CASE SemanticStarts
  BY <1>7, StepKeeps DEF SemanticStarts, SemanticStarted, QuietTypes, Live
<1>8. CASE RequestFails
  <2>1. PICK s \in {"pre_semantic", "post_semantic"}, step \in {"sending", "giving_up"} :
          pc = "waiting" /\ Step(RequestInterrupted(s), step)
    BY <1>8 DEF RequestFails
  <2> QED BY <2>1, StepKeeps DEF RequestInterrupted, QuietTypes, Live
<1>9. CASE GiveUp BY <1>9, LastKeeps DEF GiveUp, RunInterrupted, QuietTypes
<1>10. CASE Checkpoint
  <2>1. PICK step \in {"tools", "ending"} : pc = "checkpointing" /\ Step(CheckpointCreated, step)
    BY <1>10 DEF Checkpoint
  <2> QED BY <2>1, StepKeeps DEF CheckpointCreated, QuietTypes, Live
<1>11. CASE BoundAnswer BY <1>11, StepKeeps DEF BoundAnswer, BoundaryCreated, QuietTypes, Live
<1>12. CASE CompleteRun BY <1>12, LastKeeps DEF CompleteRun, RunCompleted, QuietTypes
<1>13. CASE BoundResults
  BY <1>13, StepKeeps DEF BoundResults, BoundaryCreated, QuietTypes, Live
<1>14. CASE Cancel BY <1>14, LastKeeps DEF Cancel, RunInterrupted, QuietTypes
<1> QED BY <1>1, <1>2, <1>3, <1>4, <1>5, <1>6, <1>7, <1>8, <1>9, <1>10, <1>11, <1>12, <1>13, <1>14

\* The calls of an answer have not begun.
LEMMA AnswerKeeps == ASSUME IInv, Answer PROVE IInv'
<1>1. PICK n \in 0..MaxCalls : \E kinds \in [1..n -> Kinds] : Accept(AssistantCommitted(kinds))
  BY DEF Answer
<1>2. PICK kinds \in [1..n -> Kinds] : Accept(AssistantCommitted(kinds)) BY <1>1
<1>3. n \in Nat /\ n <= MaxCalls BY CallsHaveSlots
<1>4. j' \in Projection /\ Len(j'.calls) = n
  BY <1>2, <1>3, CallsHaveSlots, AnswerEvent DEF Accept
<1>5. TypeOK'
  BY <1>4 DEF IInv, TypeOK, Answer, command, runtime, Live
<1>6. CallsInv' /\ SliceInv' /\ ReconcileInv'
  BY <1>3, <1>4 DEF CallsInv, SliceInv, ReconcileInv, Answer
<1>7. JobInv' BY DEF IInv, JobInv, Answer, runtime
<1>8. RanInv' BY DEF RanInv, Answer
<1> QED BY <1>5, <1>6, <1>7, <1>8 DEF IInv

\* A snapshot at hand is sent; the user's signal; an end in between.
LEMMA UseStoredKeeps == ASSUME IInv, UseStored PROVE IInv'
<1>1. TypeOK' BY DEF IInv, TypeOK, UseStored, runtime, Live
<1> QED BY <1>1, MoveKeeps DEF UseStored, runtime

LEMMA AbortKeeps == ASSUME IInv, Abort PROVE IInv'
<1>1. TypeOK' BY DEF IInv, TypeOK, Abort, runtime
<1> QED BY <1>1, FrameKeeps DEF Abort, runtime

LEMMA DieKeeps == ASSUME IInv, Die \/ DieTorn PROVE IInv'
<1>1. CASE Die BY <1>1, UnchangedIsKept, DownKeeps DEF Die
<1>2. CASE DieTorn
  <2>1. Kept(j, j')
    BY <1>2, CallsHaveSlots, QuietKeeps DEF DieTorn, Accept, TailRecovered, QuietTypes
  <2> QED BY <1>2, <2>1, DownKeeps DEF DieTorn
<1> QED BY <1>1, <1>2

-----------------------------------------------------------------------------
(* Recovery and reconciliation. *)

\* The steps that are one append leave the calls as they are, except that an
\* effect that was cut off is marked.
LEMMA PlannedAppendKeeps ==
  ASSUME NEW J \in Projection, Plan(J) \in AppendSteps \cup {"store_snapshot"},
         Admits(J, StepEvent(J))
  PROVE  Kept(J, After(J, StepEvent(J)))
<1> DEFINE e == StepEvent(J)
<1>1. CASE Plan(J) = "mark_effect_indeterminate"
  <2>1. Effect(J, "prepared") # {}
    BY <1>1 DEF Plan, PlanOpen, GateStep
  <2>2. TheOne(Effect(J, "prepared")) \in DOMAIN J.calls BY <2>1 DEF TheOne, Effect
  <2>3. e = EffectIndeterminate(TheOne(Effect(J, "prepared"))) BY <1>1 DEF StepEvent
  <2>4. e.type = "effect_indeterminate" /\ e.call \in DOMAIN J.calls
    BY <2>2, <2>3 DEF EffectIndeterminate
  <2> QED BY <2>4, CallKeeps DEF CallTypes
<1>2. CASE Plan(J) # "mark_effect_indeterminate"
  <2>1. e.type \in QuietTypes /\ (e.type = "run_started" => e.cause \in Causes)
    <3>1. CASE Plan(J) = "interrupt_run"
      BY <3>1 DEF StepEvent, RunInterrupted, QuietTypes
    <3>2. CASE Plan(J) = "start_recovery_run"
      BY <3>2 DEF StepEvent, RunStarted, QuietTypes, Causes
    <3>3. CASE Plan(J) = "close_open_attempt"
      BY <3>3 DEF StepEvent, RequestInterrupted, QuietTypes
    <3>4. CASE Plan(J) = "append_checkpoint"
      BY <3>4 DEF StepEvent, CheckpointCreated, QuietTypes
    <3>5. CASE Plan(J) = "append_boundary"
      BY <3>5 DEF StepEvent, BoundaryCreated, QuietTypes
    <3>6. CASE Plan(J) = "complete_run"
      BY <3>6 DEF StepEvent, RunCompleted, QuietTypes
    <3>7. CASE Plan(J) = "store_snapshot"
      BY <3>7 DEF StepEvent, SnapshotStored, QuietTypes
    <3> QED BY <1>2, <3>1, <3>2, <3>3, <3>4, <3>5, <3>6, <3>7 DEF AppendSteps
  <2> QED BY <2>1, QuietKeeps
<1> QED BY <1>1, <1>2

\* A call is resumed when there is one that is due.
LEMMA ResumedIsDue == ASSUME NEW J, Plan(J) = "resume_tool" PROVE Pending(J)
BY DEF Plan, PlanOpen, GateStep

LEMMA StartRecoveryKeeps == ASSUME IInv, Recover \/ Reconcile PROVE IInv'
<1>1. PICK m \in {"recover", "reconcile"} : StartRecovery(m) BY DEF Recover, Reconcile
<1>2. TypeOK' BY <1>1 DEF IInv, TypeOK, StartRecovery, runtime, Recovering
<1> QED BY <1>1, <1>2, MoveKeeps DEF StartRecovery, runtime

LEMMA PlanAppendKeeps == ASSUME IInv, PlanAppend \/ PlanStore PROVE IInv'
<1>1. Plan(j) \in AppendSteps \cup {"store_snapshot"} /\ Accept(StepEvent(j))
  BY DEF PlanAppend, PlanStore, Planned, Step
<1>2. Kept(j, j') BY <1>1, CallsHaveSlots, PlannedAppendKeeps DEF Accept
<1>3. /\ pc = "planning" /\ pc' = "planning" /\ stored' \in BOOLEAN
      /\ UNCHANGED <<mode, aborted, upto, job, grown, ran>>
  BY DEF PlanAppend, PlanStore, Planned, Step, command, runtime, IInv, TypeOK
<1>4. TypeOK' BY <1>2, <1>3 DEF IInv, TypeOK, Kept
<1>5. Len(j'.calls) = Len(j.calls) /\ \A i \in DOMAIN j.calls : Taken(j, i) => Taken(j', i)
  BY <1>2 DEF Kept
<1> QED BY <1>3, <1>4, <1>5, MoveKeeps

LEMMA PlanSendKeeps == ASSUME IInv, PlanSend PROVE IInv'
<1>1. CASE mode = "recover"
  <2>1. TypeOK' BY <1>1 DEF IInv, TypeOK, PlanSend, runtime, Live
  <2> QED BY <1>1, <2>1, MoveKeeps DEF PlanSend, Planned, runtime
<1>2. CASE mode # "recover" BY <1>2, UnchangedIsKept, DownKeeps DEF PlanSend
<1> QED BY <1>1, <1>2

LEMMA PlanStopKeeps == ASSUME IInv, PlanStop PROVE IInv'
<1>1. CASE mode = "reconcile"
  <2>1. TypeOK' BY <1>1 DEF IInv, TypeOK, PlanStop, command, runtime, Recovering
  <2>2. Effect(j, "indeterminate") # {} BY DEF PlanStop, Planned, Plan, PlanOpen, GateStep
  <2>3. ReconcileInv' BY <2>2 DEF ReconcileInv, PlanStop, Effect
  <2>4. CallsInv' /\ SliceInv'
    BY <1>1 DEF IInv, CallsInv, SliceInv, PlanStop
  <2>5. JobInv' BY <1>1 DEF IInv, JobInv, PlanStop, Planned, runtime
  <2>6. RanInv' BY DEF IInv, RanInv, PlanStop, Taken
  <2> QED BY <2>1, <2>3, <2>4, <2>5, <2>6 DEF IInv
<1>2. CASE mode # "reconcile" BY <1>2, UnchangedIsKept, DownKeeps DEF PlanStop
<1> QED BY <1>1, <1>2

LEMMA PlanEndKeeps == ASSUME IInv, PlanDistrust \/ PlanEnd \/ ResumeCancelled PROVE IInv'
<1>1. CASE PlanDistrust
  BY <1>1, StepKeeps DEF PlanDistrust, Planned, RunInterrupted, QuietTypes
<1>2. CASE PlanEnd BY <1>2, UnchangedIsKept, DownKeeps DEF PlanEnd
<1>3. CASE ResumeCancelled
  BY <1>3, LastKeeps DEF ResumeCancelled, RunInterrupted, QuietTypes
<1> QED BY <1>1, <1>2, <1>3

LEMMA ResumeRecordedKeeps == ASSUME IInv, ResumeRecorded PROVE IInv'
<1>1. StepEvent(j) = ResultCommitted(j.next + 1)
  BY DEF ResumeRecorded, Planned, StepEvent
<1>2. j' \in Projection /\ j'.calls = j.calls
  BY <1>1, CallsHaveSlots, ResultEvent DEF ResumeRecorded, Step, Accept
<1>3. pc = "planning" /\ pc' = "planning" /\ UNCHANGED <<mode, aborted, stored, upto, job, grown, ran>>
  BY DEF ResumeRecorded, Planned, Step, command, runtime
<1>4. TypeOK' BY <1>2, <1>3 DEF IInv, TypeOK
<1> QED BY <1>2, <1>3, <1>4, MoveKeeps DEF Taken

\* An operator settles what nobody knew the outcome of.
LEMMA DoubtedIsACall ==
  ASSUME IInv, pc = "reconciling"
  PROVE  Doubted \in DOMAIN j.calls /\ j.calls[Doubted].effect = "indeterminate"
<1>1. Effect(j, "indeterminate") # {} BY DEF IInv, ReconcileInv
<1>2. Doubted \in Effect(j, "indeterminate") BY <1>1 DEF Doubted, TheOne
<1> QED BY <1>2 DEF Effect

LEMMA ReconcileOutputKeeps == ASSUME IInv, ReconcileOutput PROVE IInv'
<1> DEFINE i == Doubted
           e == OutputPublished(i)
<1>1. i \in DOMAIN j.calls /\ j.calls[i].effect = "indeterminate"
  BY DoubtedIsACall DEF ReconcileOutput
<1>2. e.type = "output_published" /\ e.call = i BY DEF OutputPublished
<1>3. Admits(j, e) /\ j' = After(j, e) BY DEF ReconcileOutput, Step, Accept
<1> HIDE DEF e, i
<1>4. Kept(j, j') BY <1>1, <1>2, <1>3, CallsHaveSlots, CallKeeps DEF CallTypes
<1>5. j'.calls = [j.calls EXCEPT ![i] = CallAfter(j, e)]
  BY <1>1, <1>2, <1>3, CallsHaveSlots, CallEvents DEF CallTypes
<1>6. CallAfter(j, e).effect = j.calls[i].effect
  <2>1. j.calls[i] \in Call BY <1>1, CallsHaveSlots
  <2> QED BY <1>2, <2>1 DEF CallAfter, Call
<1>7. i \in DOMAIN j'.calls /\ j'.calls[i].effect = "indeterminate"
  BY <1>1, <1>5, <1>6, CallsHaveSlots
<1>8. pc = "reconciling" /\ pc' = pc /\ UNCHANGED <<mode, aborted, stored, upto, job, grown, ran>>
  BY DEF ReconcileOutput, Step, command, runtime
<1>9. TypeOK' BY <1>4, <1>8 DEF IInv, TypeOK, Kept
<1>10. CallsInv' /\ SliceInv' BY <1>4, <1>8 DEF IInv, CallsInv, SliceInv, Kept
<1>11. JobInv' BY <1>8 DEF IInv, JobInv
<1>12. RanInv' BY <1>4, <1>8 DEF IInv, RanInv, Kept, Taken
<1>13. ReconcileInv' BY <1>7 DEF ReconcileInv, Effect
<1> QED BY <1>9, <1>10, <1>11, <1>12, <1>13 DEF IInv

LEMMA ReconcileKeeps == ASSUME IInv, ReconcileCompleted \/ ReconcileNotExecuted PROVE IInv'
<1> DEFINE i == Doubted
<1>1. PICK r \in {"reconciled_completed", "reconciled_not_executed", "reconciled_denied"} :
        Settle(r) /\ (r # "reconciled_completed" => ran[i] = 0)
  BY DEF ReconcileCompleted, ReconcileNotExecuted
<1> DEFINE e == EffectReconciled(i, r)
<1>2. pc = "reconciling" BY DEF ReconcileCompleted, ReconcileNotExecuted
<1>3. i \in DOMAIN j.calls BY <1>2, DoubtedIsACall
<1>4. e.type = "effect_reconciled" /\ e.call = i /\ e.resolution = r BY DEF EffectReconciled
<1>5. Admits(j, e) /\ j' = After(j, e) BY <1>1 DEF Settle, Accept
<1>6. /\ pc' = "planning" /\ mode' = "recover"
      /\ UNCHANGED <<aborted, stored, upto, job, grown, ran>>
  BY <1>1 DEF Settle, runtime
<1> HIDE DEF e, i
<1>7. /\ j' \in Projection /\ j'.next = j.next /\ j'.calls = [j.calls EXCEPT ![i] = CallAfter(j, e)]
  BY <1>3, <1>4, <1>5, CallsHaveSlots, CallEvents DEF CallTypes, Effects
<1>8. TypeOK' BY <1>6, <1>7 DEF IInv, TypeOK, Recovering
<1>9. CASE r = "reconciled_completed"
  <2>1. Kept(j, j') BY <1>3, <1>4, <1>5, <1>9, CallsHaveSlots, CallKeeps DEF CallTypes
  <2> QED BY <1>2, <1>6, <1>8, <2>1, MoveKeeps DEF Kept
<1>10. CASE r # "reconciled_completed"
  <2>1. Len(j'.calls) = Len(j.calls) /\ DOMAIN j'.calls = DOMAIN j.calls
    BY <1>7, CallsHaveSlots DEF Projection
  <2>2. \A k \in DOMAIN j.calls : k # i => j'.calls[k] = j.calls[k]
    BY <1>7, CallsHaveSlots
  <2>3. \A k \in Slots : ran[k] > 0 => Taken(j', k)
    BY <1>1, <1>10, <2>1, <2>2 DEF IInv, RanInv, Taken
  <2>4. CallsInv' /\ SliceInv' /\ ReconcileInv'
    BY <1>6, <2>1 DEF IInv, CallsInv, SliceInv, ReconcileInv
  <2>5. JobInv' BY <1>2, <1>6 DEF IInv, JobInv
  <2>6. RanInv' BY <1>6, <2>3 DEF IInv, RanInv, Taken
  <2> QED BY <1>8, <2>4, <2>5, <2>6 DEF IInv
<1> QED BY <1>9, <1>10

-----------------------------------------------------------------------------
(* The execution of calls. *)

\* A slice begins with no effect under way.
LEMMA BeginSliceKeeps ==
  ASSUME IInv, Pending(j), NEW last \in (j.next + 1)..Len(j.calls),
         last = j.next + 1 \/ \A i \in (j.next + 1)..last : Looks(i),
         BeginSlice(last), UNCHANGED <<j, command, ran>>
  PROVE  IInv'
<1>1. last \in 0..MaxCalls BY CallsHaveSlots DEF IInv, CallsInv
<1>2. TypeOK' BY <1>1 DEF IInv, TypeOK, BeginSlice, command, Executing
<1>3. CallsInv' /\ ReconcileInv' BY DEF IInv, CallsInv, ReconcileInv, BeginSlice
<1>4. SliceInv' BY CallsHaveSlots DEF SliceInv, BeginSlice, Slice, Looks
<1>5. JobInv' BY DEF JobInv, BeginSlice
<1>6. RanInv' BY DEF IInv, RanInv, Taken
<1> QED BY <1>2, <1>3, <1>4, <1>5, <1>6 DEF IInv

LEMMA NextSliceKeeps == ASSUME IInv, NextSlice \/ ResumeExecute PROVE IInv'
<1>1. CASE NextSlice
  <2>1. j.next + 1 \in DOMAIN j.calls
    BY <1>1, CallsHaveSlots DEF NextSlice, Pending
  <2>2. /\ SliceEnd(j.next + 1) \in (j.next + 1)..Len(j.calls)
        /\ SliceEnd(j.next + 1) = j.next + 1
             \/ \A i \in (j.next + 1)..SliceEnd(j.next + 1) : Looks(i)
    BY <2>1, SliceOfCalls DEF IInv
  <2> QED BY <1>1, <2>2, BeginSliceKeeps DEF NextSlice
<1>2. CASE ResumeExecute
  <2>1. Pending(j) BY <1>2, ResumedIsDue DEF ResumeExecute, Planned
  <2>2. j.next + 1 \in (j.next + 1)..Len(j.calls) BY <2>1, CallsHaveSlots DEF Pending
  <2> QED BY <1>2, <2>1, <2>2, BeginSliceKeeps DEF ResumeExecute
<1> QED BY <1>1, <1>2

\* A step of one job that does not prepare an effect.
LEMMA JobMoveKeeps ==
  ASSUME IInv, pc = "slice", NEW i, NEW s \in {"allowed", "ran", "published", "doubted",
                                               "unread", "settled", "failed"},
         To(i, s), Kept(j, j'), grown' \in BOOLEAN, UNCHANGED <<pc, command, upto, ran>>
  PROVE  IInv'
<1>1. TypeOK' BY DEF IInv, TypeOK, To, Kept, command
<1>2. CallsInv' /\ ReconcileInv' BY DEF IInv, CallsInv, ReconcileInv, Kept
<1>3. SliceInv'
  <2>1. \A k \in Slice : k \in DOMAIN j.calls
    BY CallsHaveSlots DEF IInv, SliceInv, Slice, TypeOK
  <2>2. Slice' = Slice BY DEF Slice, Kept
  <2>3. \A k \in Slice : Looks(k) => Looks(k)' BY <2>1 DEF Looks, Kept
  <2> QED BY <2>2, <2>3 DEF IInv, SliceInv, Kept
<1>4. JobInv'
  <2> SUFFICES ASSUME NEW k \in Slots, job'[k] = "prepared"
               PROVE  pc' = "slice" /\ k = j'.next + 1 /\ ran'[k] = 0 /\ Taken(j', k)
    BY DEF JobInv
  <2>1. job[k] = "prepared" BY DEF To, IInv, TypeOK
  <2>2. k = j.next + 1 /\ ran[k] = 0 /\ Taken(j, k) BY <2>1 DEF IInv, JobInv
  <2>3. Taken(j', k) BY <2>2 DEF Kept, Taken
  <2> QED BY <2>2, <2>3 DEF Kept
<1>5. RanInv' BY DEF IInv, RanInv, Kept, Taken
<1> QED BY <1>1, <1>2, <1>3, <1>4, <1>5 DEF IInv

\* What a call of the slice is.
LEMMA SliceIsOfCalls ==
  ASSUME IInv, pc = "slice", NEW i \in Slice
  PROVE  i \in DOMAIN j.calls /\ i \in Slots
BY CallsHaveSlots DEF IInv, SliceInv, Slice, TypeOK

\* A job that appends an event of its call, or of its run.
LEMMA AppendForKeeps ==
  ASSUME IInv, pc = "slice", NEW i \in Slice,
         NEW s \in {"allowed", "ran", "published", "doubted", "unread", "settled", "failed"},
         NEW e, AppendFor(i, e, s), UNCHANGED ran,
         \/ e.type \in QuietTypes \ {"run_started"}
         \/ e.type \in CallTypes \ {"effect_reconciled"} /\ e.call = i,
         e.type = "permission_decided" => e.decision \in {"allow", "deny"}
  PROVE  IInv'
<1>1. i \in DOMAIN j.calls BY SliceIsOfCalls
<1>2. Admits(j, e) /\ j' = After(j, e) BY DEF AppendFor, Accept
<1>3. Kept(j, j')
  BY <1>1, <1>2, CallsHaveSlots, QuietKeeps, CallKeeps DEF QuietTypes, CallTypes
<1> QED BY <1>3, JobMoveKeeps DEF AppendFor

\* An effect is recorded before it takes place, and only if the journal has
\* nothing of an earlier one.
LEMMA PrepareKeeps == ASSUME IInv, pc = "slice", NEW i \in Slice, Prepare(i) PROVE IInv'
<1> DEFINE e == EffectPrepared(i)
<1>1. i \in DOMAIN j.calls /\ i \in Slots BY SliceIsOfCalls
<1>2. e.type = "effect_prepared" /\ e.call = i BY DEF EffectPrepared
<1>3. Admits(j, e) /\ j' = After(j, e) BY DEF Prepare, AppendFor, Accept
<1>4. UNCHANGED <<pc, command, upto, ran>> /\ To(i, "prepared") /\ grown' = TRUE
  BY DEF Prepare, AppendFor
<1> HIDE DEF e
<1>5. AdmitsPrepare(j, i) BY <1>2, <1>3 DEF Admits
<1>6. Kept(j, j') BY <1>1, <1>2, <1>3, CallsHaveSlots, CallKeeps DEF CallTypes
<1>7. Taken(j', i)
  <2>1. j'.calls = [j.calls EXCEPT ![i] = CallAfter(j, e)]
    BY <1>1, <1>2, <1>3, CallsHaveSlots, CallEvents DEF CallTypes
  <2>2. j.calls[i] \in Call BY <1>1, CallsHaveSlots
  <2>3. CallAfter(j, e).perm = "allow" /\ CallAfter(j, e).effect = "prepared"
    BY <1>2, <1>5, <2>2 DEF CallAfter, Call, AdmitsPrepare
  <2> QED BY <1>1, <2>1, <2>3, CallsHaveSlots DEF Taken
<1>8. ran[i] = 0
  <2>1. ~ Taken(j, i) BY <1>5 DEF AdmitsPrepare, Taken
  <2>2. ran[i] \in Nat /\ ~ (ran[i] > 0) BY <1>1, <2>1 DEF IInv, TypeOK, RanInv
  <2> QED BY <2>2
<1>9. i = j.next + 1
  <2>1. ~ Looks(i) BY <1>5 DEF AdmitsPrepare, HasEffect, Looks
  <2>2. upto = j.next + 1 BY <2>1 DEF IInv, SliceInv
  <2> QED BY <1>1, <2>2, CallsHaveSlots DEF Slice
<1>10. TypeOK' BY <1>4, <1>6 DEF IInv, TypeOK, To, Kept, command
<1>11. CallsInv' /\ ReconcileInv' BY <1>4, <1>6 DEF IInv, CallsInv, ReconcileInv, Kept
<1>12. SliceInv'
  <2>1. upto = j.next + 1
    BY <1>5 DEF AdmitsPrepare, HasEffect, Looks, IInv, SliceInv
  <2> QED BY <1>4, <1>6, <2>1 DEF IInv, SliceInv, Kept
<1>13. JobInv'
  <2> SUFFICES ASSUME NEW k \in Slots, job'[k] = "prepared"
               PROVE  pc' = "slice" /\ k = j'.next + 1 /\ ran'[k] = 0 /\ Taken(j', k)
    BY DEF JobInv
  <2>1. CASE k = i BY <1>4, <1>6, <1>7, <1>8, <1>9, <2>1 DEF Kept
  <2>2. CASE k # i
    <3>1. job[k] = "prepared" BY <1>4, <2>2 DEF To, IInv, TypeOK
    <3>2. k = j.next + 1 /\ ran[k] = 0 /\ Taken(j, k) BY <3>1 DEF IInv, JobInv
    <3> QED BY <1>9, <2>2, <3>2
  <2> QED BY <2>1, <2>2
<1>14. RanInv' BY <1>4, <1>6 DEF IInv, RanInv, Kept, Taken
<1> QED BY <1>10, <1>11, <1>12, <1>13, <1>14 DEF IInv

\* It takes place, or not.
LEMMA ExecuteKeeps == ASSUME IInv, pc = "slice", NEW i \in Slice, Execute(i) PROVE IInv'
<1>1. i \in Slots BY SliceIsOfCalls
<1>2. PICK did \in {0, 1} : ran' = [ran EXCEPT ![i] = @ + did] BY DEF Execute
<1>3. ran[i] = 0 /\ Taken(j, i) BY <1>1 DEF IInv, JobInv, Execute
<1>4. ran' \in [Slots -> Nat] /\ ran'[i] \in {0, 1} /\ \A k \in Slots : k # i => ran'[k] = ran[k]
  BY <1>1, <1>2, <1>3 DEF IInv, TypeOK
<1>5. TypeOK' BY <1>4 DEF IInv, TypeOK, Execute, To, command
<1>6. CallsInv' /\ ReconcileInv' BY DEF IInv, CallsInv, ReconcileInv, Execute, Effect
<1>7. SliceInv' BY DEF IInv, SliceInv, Execute, Slice, Looks
<1>8. JobInv'
  <2> SUFFICES ASSUME NEW k \in Slots, job'[k] = "prepared"
               PROVE  pc' = "slice" /\ k = j'.next + 1 /\ ran'[k] = 0 /\ Taken(j', k)
    BY DEF JobInv
  <2>1. k # i /\ job[k] = "prepared" BY <1>1 DEF Execute, To, IInv, TypeOK
  <2> QED BY <1>4, <2>1 DEF IInv, JobInv, Execute, Taken
<1>9. RanInv'
  <2> SUFFICES ASSUME NEW k \in Slots PROVE ran'[k] <= 1 /\ (ran'[k] > 0 => Taken(j', k))
    BY DEF RanInv
  <2>1. j' = j BY DEF Execute
  <2>2. CASE k = i BY <1>3, <1>4, <2>1, <2>2
  <2>3. CASE k # i BY <1>4, <2>1, <2>3 DEF IInv, RanInv
  <2> QED BY <2>2, <2>3
<1> QED BY <1>5, <1>6, <1>7, <1>8, <1>9 DEF IInv

\* The steps of a job that leave the journal.
LEMMA SilentJobKeeps ==
  ASSUME IInv, pc = "slice", NEW i \in Slice, Reject(i) \/ PermitAsBefore(i) \/ FailJob(i)
  PROVE  IInv'
<1>1. Kept(j, j') BY UnchangedIsKept DEF Reject, PermitAsBefore, FailJob
<1>2. UNCHANGED <<pc, command, upto, grown, ran>> BY DEF Reject, PermitAsBefore, FailJob
<1>3. PICK s \in {"settled", "allowed", "failed"} : To(i, s)
  BY DEF Reject, PermitAsBefore, FailJob
<1> QED BY <1>1, <1>2, <1>3, JobMoveKeeps DEF IInv, TypeOK

\* The steps of a job.
LEMMA JobStepKeeps == ASSUME IInv, JobStep PROVE IInv'
<1>0. pc = "slice" BY DEF JobStep
<1>1. PICK i \in Slice :
        \/ Reject(i) \/ Permit(i) \/ PermitAsBefore(i) \/ Observe(i)
        \/ Prepare(i) \/ Execute(i) \/ PublishOutput(i) \/ Complete(i)
        \/ Doubt(i) \/ InterruptDoubted(i) \/ InterruptJob(i) \/ FailJob(i)
  BY DEF JobStep
<1>2. CASE Reject(i) \/ PermitAsBefore(i) \/ FailJob(i) BY <1>0, <1>2, SilentJobKeeps
<1>3. CASE Permit(i)
  <2>1. PICK d \in {"allow", "deny"}, s \in {"settled", "allowed"} :
          AppendFor(i, PermissionDecided(i, d), s)
    BY <1>3 DEF Permit, Decisions
  <2>2. ran' = ran BY <1>3 DEF Permit
  <2> QED BY <1>0, <2>1, <2>2, AppendForKeeps DEF PermissionDecided, CallTypes
<1>4. CASE Observe(i)
  <2>1. PICK s \in {"settled", "unread"} : AppendFor(i, ResultPublished(i), s)
    BY <1>4 DEF Observe, ReadBack
  <2>2. ran' = ran BY <1>4 DEF Observe
  <2> QED BY <1>0, <2>1, <2>2, AppendForKeeps DEF ResultPublished, CallTypes
<1>5. CASE Prepare(i) BY <1>0, <1>5, PrepareKeeps
<1>6. CASE Execute(i) BY <1>0, <1>6, ExecuteKeeps
<1>7. CASE PublishOutput(i)
  BY <1>0, <1>7, AppendForKeeps DEF PublishOutput, OutputPublished, CallTypes
<1>8. CASE Complete(i)
  <2>1. PICK s \in {"settled", "unread"} : AppendFor(i, EffectCompleted(i), s)
    BY <1>8 DEF Complete, ReadBack
  <2>2. ran' = ran BY <1>8 DEF Complete
  <2> QED BY <1>0, <2>1, <2>2, AppendForKeeps DEF EffectCompleted, CallTypes
<1>9. CASE Doubt(i)
  BY <1>0, <1>9, AppendForKeeps DEF Doubt, EffectIndeterminate, CallTypes
<1>10. CASE InterruptDoubted(i)
  BY <1>0, <1>10, AppendForKeeps DEF InterruptDoubted, RunInterrupted, QuietTypes
<1>11. CASE InterruptJob(i)
  <2>1. Kept(j, j') /\ grown' \in BOOLEAN
    <3> DEFINE e == RunInterrupted(j.calls[i].permRun)
    <3>1. e.type = "run_interrupted" BY DEF RunInterrupted
    <3> HIDE DEF e
    <3>2. Kept(j, After(j, e)) BY <3>1, CallsHaveSlots, QuietKeeps DEF QuietTypes
    <3> QED BY <1>11, <3>2, UnchangedIsKept DEF InterruptJob, IInv, TypeOK, e
  <2> QED BY <1>0, <1>11, <2>1, JobMoveKeeps DEF InterruptJob
<1> QED BY <1>1, <1>2, <1>3, <1>4, <1>5, <1>6, <1>7, <1>8, <1>9, <1>10, <1>11

\* After a slice that failed the command ends, or plans again.
LEMMA CallerKeeps == ASSUME IInv, CallerGoesOn, UNCHANGED <<j, ran>> PROVE IInv'
<1>1. CASE Down BY <1>1, UnchangedIsKept, DownKeeps
<1>2. CASE pc' = "planning" /\ upto' = 0 /\ job' = NoJobs /\ grown' = FALSE /\ UNCHANGED command
  <2>1. upto' \in 0..MaxCalls BY <1>2, CallsHaveSlots
  <2>2. job' \in [Slots -> {"idle", "due", "allowed", "prepared", "ran", "published",
                           "doubted", "unread", "settled", "failed"}]
    BY <1>2, NoJobsAreJobs
  <2>3. TypeOK' BY <1>2, <2>1, <2>2 DEF IInv, TypeOK, command, Recovering
  <2> QED BY <1>2, <2>3, MoveKeeps
<1> QED BY <1>1, <1>2 DEF CallerGoesOn

LEMMA SliceSettledKeeps == ASSUME IInv, SliceSettled PROVE IInv'
<1>1. TypeOK' BY DEF IInv, TypeOK, SliceSettled, command, Executing
<1>2. CallsInv' /\ SliceInv' /\ ReconcileInv'
  BY DEF IInv, CallsInv, SliceInv, ReconcileInv, SliceSettled
<1>3. JobInv'
  <2>1. ASSUME NEW k \in Slots, job[k] = "prepared" PROVE FALSE
    <3>1. pc = "slice" /\ k = j.next + 1 /\ Taken(j, k) BY <2>1 DEF IInv, JobInv
    <3>2. upto >= j.next + 1 => k \in Slice
      BY <3>1, CallsHaveSlots DEF Slice, IInv, TypeOK
    <3>3. upto >= j.next + 1 BY <3>1, <2>1 DEF IInv, JobInv, SliceInv
    <3> QED BY <2>1, <3>2, <3>3 DEF SliceSettled
  <2> QED BY <2>1 DEF JobInv, SliceSettled
<1>4. RanInv' BY DEF IInv, RanInv, SliceSettled, Taken
<1> QED BY <1>1, <1>2, <1>3, <1>4 DEF IInv

LEMMA CommitResultKeeps == ASSUME IInv, CommitResult PROVE IInv'
<1>1. j' \in Projection /\ j'.calls = j.calls
  BY CallsHaveSlots, ResultEvent DEF CommitResult, Accept
<1>2. pc = "committing" /\ UNCHANGED <<mode, aborted, stored, ran>>
  BY DEF CommitResult, command
<1>3. \/ UNCHANGED <<pc, upto, job, grown>>
      \/ pc' \in {"tools", "planning"} /\ upto' = 0 /\ job' = NoJobs /\ grown' = FALSE
  BY DEF CommitResult
<1>4. TypeOK'
  <2>0. 0 \in 0..MaxCalls /\ FALSE \in BOOLEAN BY CallsHaveSlots
  <2>1. upto' \in 0..MaxCalls /\ grown' \in BOOLEAN BY <1>3, <2>0 DEF IInv, TypeOK
  <2>2. job' \in [Slots -> {"idle", "due", "allowed", "prepared", "ran", "published",
                           "doubted", "unread", "settled", "failed"}]
    BY <1>3, NoJobsAreJobs DEF IInv, TypeOK
  <2>3. pc' \in {"committing", "tools", "planning"} BY <1>2, <1>3
  <2> QED BY <1>1, <1>2, <2>1, <2>2, <2>3 DEF IInv, TypeOK, Live, Recovering, Executing
<1> QED BY <1>1, <1>2, <1>3, <1>4, MoveKeeps DEF Taken

-----------------------------------------------------------------------------
(* The invariant. *)

LEMMA InitIInv == Init => IInv
<1> SUFFICES ASSUME Init PROVE IInv OBVIOUS
<1>1. EmptyJournal \in Projection /\ Len(EmptyJournal.calls) = 0
  BY GateNames DEF EmptyJournal, Projection, Causes, Statuses
<1>2. MaxCalls \in Nat BY MaxCallsAssumption
<1>3. TypeOK
  <2>1. upto \in 0..MaxCalls BY <1>2 DEF Init
  <2>2. job \in [Slots -> {"idle", "due", "allowed", "prepared", "ran", "published",
                          "doubted", "unread", "settled", "failed"}]
    BY NoJobsAreJobs DEF Init
  <2>3. ran \in [Slots -> Nat] BY DEF Init
  <2> QED BY <1>1, <2>1, <2>2, <2>3 DEF Init, TypeOK
<1>4. CallsInv /\ SliceInv /\ ReconcileInv
  BY <1>1, <1>2 DEF Init, CallsInv, SliceInv, ReconcileInv
<1>5. JobInv BY DEF Init, JobInv, NoJobs
<1>6. RanInv BY DEF Init, RanInv
<1> QED BY <1>3, <1>4, <1>5, <1>6 DEF IInv

LEMMA NextKeeps == IInv /\ [Next]_vars => IInv'
<1> SUFFICES ASSUME IInv, [Next]_vars PROVE IInv' OBVIOUS
<1>1. CASE UNCHANGED vars
  <2>1. TypeOK' BY <1>1 DEF IInv, TypeOK, vars
  <2> QED BY <1>1, <2>1, FrameKeeps DEF vars
<1>2. CASE StartRun \/ ContinueRun BY <1>2, TurnKeeps
<1>3. CASE Recover \/ Reconcile BY <1>3, StartRecoveryKeeps
<1>4. CASE TurnStep BY <1>4, TurnKeeps, UseStoredKeeps, AnswerKeeps DEF TurnStep
<1>5. CASE RuntimeStep
  <2>1. CASE SliceFailed \/ CommitFails BY <2>1, CallerKeeps DEF SliceFailed, CommitFails
  <2> QED
    BY <1>5, <2>1, JobStepKeeps, NextSliceKeeps, SliceSettledKeeps, CommitResultKeeps
    DEF RuntimeStep
<1>6. CASE RecoveryStep
  BY <1>6, PlanAppendKeeps, PlanSendKeeps, PlanStopKeeps, PlanEndKeeps, ResumeRecordedKeeps,
     NextSliceKeeps, ReconcileOutputKeeps, ReconcileKeeps
  DEF RecoveryStep
<1>7. CASE Abort \/ Die \/ DieTorn BY <1>7, AbortKeeps, DieKeeps
<1> QED BY <1>1, <1>2, <1>3, <1>4, <1>5, <1>6, <1>7 DEF Next

LEMMA Inductive == Spec => []IInv
BY InitIInv, NextKeeps, PTL DEF Spec

-----------------------------------------------------------------------------
(* The theorems. *)

\* Every variable keeps its type, the projection of the journal among them:
\* no event that is admitted brings it out of its shape.
THEOREM TypeCorrect == Spec => []TypeOK
<1>1. IInv => TypeOK BY DEF IInv
<1> QED BY <1>1, Inductive, PTL

\* A call that was cut off anywhere, in this run or an earlier one, is not
\* executed again: an effect begins only where the journal has none of it.
THEOREM EffectAtMostOnceHolds == Spec => []EffectAtMostOnce
<1>1. IInv => EffectAtMostOnce BY DEF IInv, RanInv, EffectAtMostOnce
<1> QED BY <1>1, Inductive, PTL

\* What was done is never recorded as not done, by recovery, by a denial or
\* by an operator.
THEOREM NothingUnrecordedHolds == Spec => []NothingUnrecorded
<1>1. IInv => NothingUnrecorded
  <2> SUFFICES ASSUME IInv, NEW i \in DOMAIN j.calls, ran[i] > 0
               PROVE  /\ j.calls[i].perm = "allow"
                      /\ j.calls[i].effect
                           \in {"prepared", "completed", "indeterminate", "reconciled_completed"}
    BY DEF NothingUnrecorded
  <2>1. i \in Slots BY CallsHaveSlots
  <2> QED BY <2>1 DEF IInv, RanInv, Taken
<1> QED BY <1>1, Inductive, PTL

\* Only the call that is due has an effect, although calls that look run
\* beside each other.
THEOREM EffectsInDeclaredOrderHolds == Spec => EffectsInDeclaredOrder
<1>1. IInv /\ [Next]_vars =>
        [\A i \in Slots : ran'[i] > ran[i] => j.next = i - 1]_vars
  <2> SUFFICES ASSUME IInv, Next, NEW i \in Slots, ran'[i] > ran[i]
               PROVE  j.next = i - 1
    OBVIOUS
  <2>1. ran[i] \in Nat BY DEF IInv, TypeOK
  <2>2. CASE ran' = ran BY <2>1, <2>2
  <2>3. CASE Answer BY <2>1, <2>3 DEF Answer
  <2>4. CASE \E k \in Slice : pc = "slice" /\ Execute(k)
    <3>1. PICK k \in Slice : pc = "slice" /\ Execute(k) BY <2>4
    <3>2. k \in Slots BY <3>1, SliceIsOfCalls
    <3>3. k = j.next + 1 BY <3>1, <3>2 DEF IInv, JobInv, Execute
    <3>4. i = k BY <2>1, <3>1, <3>2 DEF Execute, IInv, TypeOK
    <3> QED BY <3>3, <3>4, CallsHaveSlots
  <2>5. ran' = ran \/ Answer \/ \E k \in Slice : pc = "slice" /\ Execute(k)
    <3>1. CASE StartRun \/ ContinueRun BY <3>1 DEF StartRun, ContinueRun, Step
    <3>2. CASE Recover \/ Reconcile BY <3>2 DEF Recover, Reconcile, StartRecovery
    <3>3. CASE TurnStep
      BY <3>3
      DEF TurnStep, CommitUser, BoundUser, StoreSnapshot, UseStored, SendAttempt, SemanticStarts,
          RequestFails, GiveUp, Checkpoint, BoundAnswer, CompleteRun, BoundResults, Cancel, Step,
          Last
    <3>4. CASE RuntimeStep
      <4>1. CASE JobStep
        BY <4>1
        DEF JobStep, Reject, Permit, PermitAsBefore, Observe, Prepare, PublishOutput, Complete,
            Doubt, InterruptDoubted, InterruptJob, FailJob
      <4> QED
        BY <3>4, <4>1
        DEF RuntimeStep, NextSlice, SliceSettled, SliceFailed, CommitResult, CommitFails
    <3>5. CASE RecoveryStep
      BY <3>5
      DEF RecoveryStep, PlanAppend, PlanStore, PlanSend, PlanDistrust, PlanStop, PlanEnd,
          ResumeRecorded, ResumeExecute, ResumeCancelled, ReconcileOutput, ReconcileCompleted,
          ReconcileNotExecuted, Settle, Step, Last
    <3>6. CASE Abort \/ Die \/ DieTorn BY <3>6 DEF Abort, Die, DieTorn
    <3> QED BY <3>1, <3>2, <3>3, <3>4, <3>5, <3>6 DEF Next
  <2> QED BY <2>2, <2>3, <2>4, <2>5
<1> QED BY <1>1, Inductive, PTL DEF Spec, EffectsInDeclaredOrder

-----------------------------------------------------------------------------
(***************************************************************************)
(* How a session goes on, from the same invariant: what the kernel and the *)
(* planner are about to append is what the journal admits, an answer that  *)
(* has begun is not asked for again, and the session is a conversation.    *)
(***************************************************************************)

Answering == {"boundary", "final_checkpoint", "final_boundary"}
Waiting   == {"open", "retry", "must_interrupt"}

\* Of the calls of an answer those with a result are settled, and only those
\* that may have effects have any.
CallsSound(J) ==
  \A i \in DOMAIN J.calls :
    /\ i <= J.next => J.calls[i].effect \notin {"prepared", "indeterminate"}
    /\ J.calls[i].perm # "allow" => J.calls[i].effect = "none"
    /\ J.calls[i].kind = "invalid" => J.calls[i].perm = "none"

\* What the gate says of the calls, the boundary and the snapshot.
GateSound(J) ==
  /\ J.next <= Len(J.calls) /\ J.bound <= J.blobs /\ J.boundRun <= J.run
  /\ Pending(J) => J.tip = "assistant"
  /\ J.tip = "none" => Len(J.calls) = 0 /\ J.blobs = 0 /\ J.snap = 0
  /\ J.tip # "none" => J.blobs > 0
  /\ J.status = "none" => J.tip = "none"
  /\ J.status = "none" <=> J.run = 0
  /\ J.att # "none" =>
       Active(J) /\ J.gate = "open" /\ ~ Pending(J) /\ J.snap = J.run /\ J.tries > 0
  /\ J.fresh => ~ Pending(J) /\ J.att = "none" /\ J.bound = J.blobs
  /\ Active(J) /\ J.gate \in Answering => ~ Pending(J) /\ J.bound < J.blobs
  /\ Active(J) /\ J.gate = "boundary" => J.tip \in {"user", "results"}
  /\ Active(J) /\ J.gate = "checkpoint" => Pending(J)
  /\ Active(J) /\ J.gate \in {"retry", "must_interrupt", "final_complete"} => ~ Pending(J)
  /\ Active(J) /\ J.gate \in {"must_interrupt", "final_complete"} => J.tip # "none"
  /\ Active(J) /\ J.gate = "retry" => J.snap = J.run /\ J.tries > 0
  /\ (Active(J) => J.gate \in Waiting \cup {"final_complete"}) /\ ~ Pending(J) =>
       J.bound = J.blobs

\* What every journal is that was admitted event by event.
Sound(J) == CallsSound(J) /\ GateSound(J)

SoundInv == Sound(j)

\* The result of call i could be committed if it were due.
Resultable(J, i) ==
  LET c == J.calls[i] IN
  \/ c.effect \in {"completed", "reconciled_completed", "reconciled_denied"}
  \/ NoEffect(c) /\ c.direct # 0 /\ (c.direct = J.run \/ J.cause = "recovery")
  \/ NoEffect(c) /\ (c.perm = "deny" \/ c.kind = "invalid")

\* A call that has settled has its result in the journal, unless another call
\* of the slice has ended the run.
SettledInv ==
  /\ pc = "slice" =>
       /\ \A i \in Slice : job[i] = "settled" => Resultable(j, i)
       /\ (Active(j) /\ j.gate = "open") \/ \E i \in Slice : job[i] = "failed"
  /\ pc = "committing" =>
       /\ Active(j) /\ j.gate = "open" /\ j.next + 1 <= upto /\ upto <= Len(j.calls)
       /\ \A i \in Slice : Resultable(j, i)

\* Where the command is, the journal is too.
PlaceInv ==
  /\ pc = "asking" =>
       Active(j) /\ j.gate = "open" /\ j.att = "none" /\ ~ Pending(j) /\ j.cause # "recovery"
  /\ pc = "bounding" => Active(j) /\ j.gate = "boundary"
  /\ pc = "ready" =>
       /\ Active(j) /\ j.gate = "open" /\ j.att = "none" /\ ~ Pending(j) /\ j.tip # "none"
       /\ IF stored THEN j.snap = j.run /\ j.tries = 0
                    ELSE j.snap = 0 /\ j.boundRun = j.run /\ j.fresh
  /\ pc = "sending" =>
       /\ Active(j) /\ j.att = "none" /\ ~ Pending(j) /\ j.snap = j.run
       /\ (j.gate = "open" /\ j.tries = 0) \/ j.gate = "retry"
  /\ pc = "waiting" => j.att # "none"
  /\ pc = "giving_up" => Active(j) /\ j.gate \in {"retry", "must_interrupt"}
  /\ pc = "checkpointing" => Active(j) /\ j.gate \in {"checkpoint", "final_checkpoint"}
  /\ pc = "ending" => Active(j) /\ j.gate = "final_boundary"
  /\ pc = "completing" => Active(j) /\ j.gate = "final_complete"
  /\ pc = "tools" => Active(j) /\ j.gate = IF Pending(j) THEN "open" ELSE "boundary"

\* A snapshot that this recovery stored is the next to be sent.
StoredInv == stored => pc = "ready" \/ (pc = "planning" /\ Plan(j) = "send_snapshot")

\* A recovery run projects its boundary at once.
FreshInv ==
  CleanTails =>
    (Active(j) /\ j.cause = "recovery" /\ j.boundRun = j.run /\ j.snap = 0 => j.fresh)

\* An answer is final, or the message that follows it is about to be added.
AskInv ==
  CleanContinue =>
    (j.tip = "assistant" /\ ~ Pending(j) =>
       \/ j.status = "completed"
       \/ Active(j) /\ j.gate \in {"final_checkpoint", "final_boundary", "final_complete"}
       \/ pc = "asking")

Rest == SoundInv /\ SettledInv /\ PlaceInv /\ StoredInv /\ FreshInv /\ AskInv

PInv == IInv /\ Rest

-----------------------------------------------------------------------------
(* What an admitted event finds and leaves. *)

\* An active run takes what its gate waits for.
LEMMA GateOfEvent ==
  ASSUME NEW J \in Projection, NEW e, Admits(J, e), Active(J), e.type # "journal_tail_recovered"
  PROVE  \/ J.gate = "open"
         \/ J.gate \in {"checkpoint", "final_checkpoint"} /\ e.type = "cache_checkpoint_created"
         \/ J.gate \in {"boundary", "final_boundary"} /\ e.type = "commit_boundary_created"
         \/ J.gate = "must_interrupt" /\ e.type = "run_interrupted"
         \/ J.gate = "retry" /\ e.type \in {"request_attempt_started", "run_interrupted"}
         \/ J.gate = "final_complete" /\ e.type = "run_completed"
<1>1. e.type \in GateAdmits[J.gate] BY DEF Admits
<1>2. J.gate \in {"open", "checkpoint", "boundary", "must_interrupt", "retry",
                  "final_checkpoint", "final_boundary", "final_complete"}
  BY GateNames DEF Projection
<1> QED BY <1>1, <1>2 DEF GateAdmits

\* Events other than the start of a run and a torn tail are those of a run.
LEMMA RunOfEvent ==
  ASSUME NEW J, NEW e, Admits(J, e), e.type \notin {"run_started", "journal_tail_recovered"}
  PROVE  Active(J)
BY DEF Admits

\* The calls do not notice an event that is about none of them.
LEMMA QuietCalls ==
  ASSUME NEW J \in Projection, NEW e, e.type \in QuietTypes,
         e.type = "run_started" => e.cause \in Causes, CallsSound(J)
  PROVE  CallsSound(After(J, e))
BY QuietEvents DEF CallsSound

LEMMA RunStartedIsSound ==
  ASSUME NEW J \in Projection, Sound(J), NEW cause \in Causes, Admits(J, RunStarted(cause))
  PROVE  Sound(After(J, RunStarted(cause)))
<1> DEFINE K == After(J, RunStarted(cause))
<1>1. K = [J EXCEPT !.run = J.run + 1, !.cause = cause, !.status = "active", !.gate = "open",
                    !.fresh = FALSE]
  BY DEF After, Adds, RunStarted, Projection
<1>2. ~ Active(J) BY DEF Admits, AdmitsRun, RunStarted
<1>3. CallsSound(K) BY QuietCalls DEF RunStarted, QuietTypes, Sound
<1> HIDE DEF K
<1>4. GateSound(K)
  BY <1>1, <1>2 DEF Sound, GateSound, Projection, Active, Pending, Waiting, Answering, Statuses
<1> QED BY <1>3, <1>4 DEF Sound, K

LEMMA UserCommittedIsSound ==
  ASSUME NEW J \in Projection, Sound(J), Admits(J, UserCommitted)
  PROVE  Sound(After(J, UserCommitted))
<1> DEFINE K == After(J, UserCommitted)
<1>1. K = [J EXCEPT !.blobs = J.blobs + 1, !.tip = "user", !.gate = "boundary", !.fresh = FALSE]
  BY DEF After, Adds, UserCommitted, Projection
<1>2. Active(J) /\ Closed(J) BY RunOfEvent DEF Admits, UserCommitted
<1>3. CallsSound(K) BY QuietCalls DEF UserCommitted, QuietTypes, Sound
<1> HIDE DEF K
<1>4. GateSound(K)
  BY <1>1, <1>2
  DEF Sound, GateSound, Projection, Active, Pending, Waiting, Answering, Statuses, Closed
<1> QED BY <1>3, <1>4 DEF Sound, K

LEMMA BoundaryCreatedIsSound ==
  ASSUME NEW J \in Projection, Sound(J), Admits(J, BoundaryCreated)
  PROVE  Sound(After(J, BoundaryCreated))
<1> DEFINE K == After(J, BoundaryCreated)
<1>1. PICK gate \in {"final_complete", "open"} :
        K = [J EXCEPT !.bound = J.blobs, !.boundRun = J.run, !.snap = 0, !.tries = 0,
                      !.gate = gate, !.fresh = TRUE]
  BY DEF After, Adds, AfterBoundary, BoundaryCreated, Projection
<1>2. Active(J) /\ Closed(J) /\ J.bound # J.blobs BY RunOfEvent DEF Admits, BoundaryCreated
<1>3. CallsSound(K) BY QuietCalls DEF BoundaryCreated, QuietTypes, Sound
<1> HIDE DEF K
<1>4. GateSound(K)
  BY <1>1, <1>2
  DEF Sound, GateSound, Projection, Active, Pending, Waiting, Answering, Statuses, Closed
<1> QED BY <1>3, <1>4 DEF Sound, K

LEMMA SnapshotStoredIsSound ==
  ASSUME NEW J \in Projection, Sound(J), NEW m, Admits(J, SnapshotStored(m))
  PROVE  Sound(After(J, SnapshotStored(m)))
<1> DEFINE K == After(J, SnapshotStored(m))
<1>1. K = [J EXCEPT !.snap = J.run, !.tries = 0, !.fresh = FALSE]
  BY DEF After, Adds, SnapshotStored, Projection
<1>2. /\ Active(J) /\ J.gate = "open" /\ Closed(J)
      /\ J.bound = J.blobs /\ J.bound > 0
  BY RunOfEvent, GateOfEvent DEF Admits, AdmitsSnapshot, SnapshotStored
<1>3. CallsSound(K) BY QuietCalls DEF SnapshotStored, QuietTypes, Sound
<1> HIDE DEF K
<1>4. GateSound(K)
  BY <1>1, <1>2
  DEF Sound, GateSound, Projection, Active, Pending, Waiting, Answering, Statuses, Closed
<1> QED BY <1>3, <1>4 DEF Sound, K

LEMMA AttemptStartedIsSound ==
  ASSUME NEW J \in Projection, Sound(J), Admits(J, AttemptStarted)
  PROVE  Sound(After(J, AttemptStarted))
<1> DEFINE K == After(J, AttemptStarted)
<1>1. K = [J EXCEPT !.att = "open", !.tries = J.tries + 1, !.gate = "open", !.fresh = FALSE]
  BY DEF After, Adds, AttemptStarted, Projection
<1>2. Active(J) /\ J.gate \in {"open", "retry"} /\ Closed(J) /\ J.snap = J.run
  BY RunOfEvent, GateOfEvent DEF Admits, AdmitsAttempt, AttemptStarted
<1>3. CallsSound(K) BY QuietCalls DEF AttemptStarted, QuietTypes, Sound
<1> HIDE DEF K
<1>4. GateSound(K)
  BY <1>1, <1>2
  DEF Sound, GateSound, Projection, Active, Pending, Waiting, Answering, Statuses, Closed
<1> QED BY <1>3, <1>4 DEF Sound, K

LEMMA SemanticStartedIsSound ==
  ASSUME NEW J \in Projection, Sound(J), Admits(J, SemanticStarted)
  PROVE  Sound(After(J, SemanticStarted))
<1> DEFINE K == After(J, SemanticStarted)
<1>1. K = [J EXCEPT !.att = "semantic", !.fresh = FALSE]
  BY DEF After, Adds, SemanticStarted, Projection
<1>2. J.att # "none" BY DEF Admits, SemanticStarted
<1>3. CallsSound(K) BY QuietCalls DEF SemanticStarted, QuietTypes, Sound
<1> HIDE DEF K
<1>4. GateSound(K)
  BY <1>1, <1>2 DEF Sound, GateSound, Projection, Active, Pending, Waiting, Answering, Statuses
<1> QED BY <1>3, <1>4 DEF Sound, K

LEMMA RequestInterruptedIsSound ==
  ASSUME NEW J \in Projection, Sound(J), NEW s, Admits(J, RequestInterrupted(s))
  PROVE  Sound(After(J, RequestInterrupted(s)))
<1> DEFINE K == After(J, RequestInterrupted(s))
<1>1. PICK gate \in {"retry", "must_interrupt"} :
        K = [J EXCEPT !.att = "none", !.gate = gate, !.fresh = FALSE]
  BY DEF After, Adds, AfterFailure, RequestInterrupted, Projection
<1>2. J.att # "none" /\ Active(J)
  BY RunOfEvent DEF Admits, RequestInterrupted
<1>3. CallsSound(K) BY QuietCalls DEF RequestInterrupted, QuietTypes, Sound
<1> HIDE DEF K
<1>4. GateSound(K)
  BY <1>1, <1>2 DEF Sound, GateSound, Projection, Active, Pending, Waiting, Answering, Statuses
<1> QED BY <1>3, <1>4 DEF Sound, K

LEMMA CheckpointCreatedIsSound ==
  ASSUME NEW J \in Projection, Sound(J), Admits(J, CheckpointCreated)
  PROVE  Sound(After(J, CheckpointCreated))
<1> DEFINE K == After(J, CheckpointCreated)
<1>1. K = [J EXCEPT !.gate = IF J.gate = "checkpoint" THEN "open" ELSE "final_boundary",
                    !.fresh = FALSE]
  BY DEF After, Adds, CheckpointCreated, Projection
<1>2. Active(J) /\ J.gate \in {"checkpoint", "final_checkpoint"}
  BY RunOfEvent DEF Admits, CheckpointCreated
<1>3. CallsSound(K) BY QuietCalls DEF CheckpointCreated, QuietTypes, Sound
<1> HIDE DEF K
<1>4. GateSound(K)
  BY <1>1, <1>2 DEF Sound, GateSound, Projection, Active, Pending, Waiting, Answering, Statuses
<1> QED BY <1>3, <1>4 DEF Sound, K

LEMMA RunCompletedIsSound ==
  ASSUME NEW J \in Projection, Sound(J), Admits(J, RunCompleted)
  PROVE  Sound(After(J, RunCompleted))
<1> DEFINE K == After(J, RunCompleted)
<1>1. K = [J EXCEPT !.status = "completed", !.fresh = FALSE]
  BY DEF After, Adds, RunCompleted, Projection
<1>2. Active(J) /\ J.gate = "final_complete" /\ Closed(J)
  BY RunOfEvent DEF Admits, RunCompleted
<1>3. CallsSound(K) BY QuietCalls DEF RunCompleted, QuietTypes, Sound
<1> HIDE DEF K
<1>4. GateSound(K)
  BY <1>1, <1>2
  DEF Sound, GateSound, Projection, Active, Pending, Waiting, Answering, Statuses, Closed
<1> QED BY <1>3, <1>4 DEF Sound, K

LEMMA RunInterruptedIsSound ==
  ASSUME NEW J \in Projection, Sound(J), NEW source, Admits(J, RunInterrupted(source))
  PROVE  Sound(After(J, RunInterrupted(source)))
<1> DEFINE K == After(J, RunInterrupted(source))
<1>1. K = [J EXCEPT !.status = "interrupted", !.fresh = FALSE]
  BY DEF After, Adds, RunInterrupted, Projection
<1>2. Active(J) /\ J.att = "none" /\ J.gate \in Waiting
  BY RunOfEvent, GateOfEvent DEF Admits, RunInterrupted, Waiting
<1>3. CallsSound(K) BY QuietCalls DEF RunInterrupted, QuietTypes, Sound
<1> HIDE DEF K
<1>4. GateSound(K)
  BY <1>1, <1>2 DEF Sound, GateSound, Projection, Active, Pending, Waiting, Answering, Statuses
<1> QED BY <1>3, <1>4 DEF Sound, K

LEMMA TailRecoveredIsSound ==
  ASSUME NEW J \in Projection, Sound(J) PROVE Sound(After(J, TailRecovered))
<1> DEFINE K == After(J, TailRecovered)
<1>1. K = [J EXCEPT !.fresh = FALSE] BY DEF After, Adds, TailRecovered, Projection
<1>2. CallsSound(K) BY QuietCalls DEF TailRecovered, QuietTypes, Sound
<1> HIDE DEF K
<1>3. GateSound(K)
  BY <1>1 DEF Sound, GateSound, Projection, Active, Pending, Waiting, Answering, Statuses
<1> QED BY <1>2, <1>3 DEF Sound, K

\* The calls of an answer.
NewCalls(n, kinds) == [i \in 1..n |-> NewCall(kinds[i])]

\* What an answer adds.
Answered(J, n, kinds) ==
  [J EXCEPT !.att = "none", !.blobs = J.blobs + 1, !.tip = "assistant", !.next = 0,
            !.calls = NewCalls(n, kinds),
            !.gate = IF n = 0 THEN "final_checkpoint" ELSE "checkpoint", !.fresh = FALSE]

LEMMA AnswerAdds ==
  ASSUME NEW J \in Projection, NEW n \in Nat, NEW kinds \in [1..n -> Kinds]
  PROVE  After(J, AssistantCommitted(kinds)) = Answered(J, n, kinds)
<1> DEFINE calls == NewCalls(n, kinds)
           e == AssistantCommitted(kinds)
<1>1. [i \in DOMAIN kinds |-> NewCall(kinds[i])] = calls BY DEF NewCalls
<1>2. (kinds = << >>) = (n = 0)
  <2>1. kinds \in Seq(Kinds) /\ Len(kinds) = n OBVIOUS
  <2> QED BY <2>1, EmptySeq
<1> HIDE DEF calls
<1>3. AfterAssistant(J, kinds) =
        [J EXCEPT !.att = "none", !.blobs = J.blobs + 1, !.tip = "assistant", !.next = 0,
                  !.calls = calls, !.gate = IF n = 0 THEN "final_checkpoint" ELSE "checkpoint"]
  BY <1>1, <1>2 DEF AfterAssistant
<1>4. After(J, e) = [AfterAssistant(J, kinds) EXCEPT !.fresh = FALSE]
  BY DEF After, Adds, AssistantCommitted
<1>5. After(J, e) =
        [J EXCEPT !.att = "none", !.blobs = J.blobs + 1, !.tip = "assistant", !.next = 0,
                  !.calls = calls, !.gate = IF n = 0 THEN "final_checkpoint" ELSE "checkpoint",
                  !.fresh = FALSE]
  BY <1>3, <1>4 DEF Projection
<1> QED BY <1>5 DEF calls, Answered

LEMMA AnswerIsSound ==
  ASSUME NEW J \in Projection, Sound(J), NEW n \in Nat, NEW kinds \in [1..n -> Kinds],
         Admits(J, AssistantCommitted(kinds))
  PROVE  Sound(After(J, AssistantCommitted(kinds)))
<1> DEFINE K == After(J, AssistantCommitted(kinds))
           calls == NewCalls(n, kinds)
<1>1. K = [J EXCEPT !.att = "none", !.blobs = J.blobs + 1, !.tip = "assistant", !.next = 0,
                    !.calls = calls, !.gate = IF n = 0 THEN "final_checkpoint" ELSE "checkpoint",
                    !.fresh = FALSE]
  <2>1. K = Answered(J, n, kinds) BY AnswerAdds
  <2> HIDE DEF K
  <2> QED BY <2>1 DEF Answered
<1>2. /\ \A i \in 1..n : calls[i].effect = "none" /\ calls[i].perm = "none"
      /\ DOMAIN calls = 1..n /\ Len(calls) = n
  BY DEF NewCalls, NewCall
<1>3. Active(J) /\ J.att # "none" /\ ~ Pending(J)
  BY RunOfEvent DEF Admits, AssistantCommitted
<1> HIDE DEF K, calls
<1>4. CallsSound(K) BY <1>1, <1>2 DEF CallsSound, Projection
<1>5. K.calls = calls /\ K.next = 0 /\ (Pending(K) <=> n > 0) BY <1>1, <1>2 DEF Pending, Projection
<1>6. GateSound(K)
  BY <1>1, <1>2, <1>3, <1>5 DEF Sound, GateSound, Projection, Active, Waiting, Answering, Statuses
<1> QED BY <1>4, <1>6 DEF Sound, K

\* What a result adds.
LEMMA ResultAdds ==
  ASSUME NEW J \in Projection, NEW i
  PROVE  After(J, ResultCommitted(i)) =
           [J EXCEPT !.next = J.next + 1, !.blobs = J.blobs + 1,
                     !.tip = IF J.next + 1 = Len(J.calls) THEN "results" ELSE "assistant",
                     !.gate = IF J.next + 1 = Len(J.calls) THEN "boundary" ELSE "open",
                     !.fresh = FALSE]
BY DEF After, Adds, AfterResult, ResultCommitted, Projection

LEMMA ResultIsSound ==
  ASSUME NEW J \in Projection, Sound(J), NEW i, Admits(J, ResultCommitted(i))
  PROVE  Sound(After(J, ResultCommitted(i)))
<1> DEFINE K == After(J, ResultCommitted(i))
<1>1. K = [J EXCEPT !.next = J.next + 1, !.blobs = J.blobs + 1,
                    !.tip = IF J.next + 1 = Len(J.calls) THEN "results" ELSE "assistant",
                    !.gate = IF J.next + 1 = Len(J.calls) THEN "boundary" ELSE "open",
                    !.fresh = FALSE]
  BY ResultAdds
<1>2. Active(J) /\ J.gate = "open" /\ AdmitsResult(J, i)
  BY RunOfEvent, GateOfEvent DEF Admits, ResultCommitted
<1>3. /\ J.next \in Nat /\ Len(J.calls) \in Nat /\ J.next + 1 <= Len(J.calls)
      /\ i = J.next + 1 /\ i \in DOMAIN J.calls
      /\ J.calls[i].effect \notin {"prepared", "indeterminate"}
  BY <1>2 DEF AdmitsResult, NoEffect, Pending, Projection
<1> HIDE DEF K
<1>4. K.calls = J.calls /\ K.next = J.next + 1 BY <1>1 DEF Projection
<1>5. CallsSound(K)
  <2> SUFFICES ASSUME NEW k \in DOMAIN J.calls, k <= J.next + 1
               PROVE  J.calls[k].effect \notin {"prepared", "indeterminate"}
    BY <1>4 DEF Sound, CallsSound
  <2>1. k \in Nat BY DEF Projection
  <2>2. CASE k = J.next + 1 BY <1>3, <2>2
  <2>3. CASE k <= J.next BY <2>3 DEF Sound, CallsSound
  <2> QED BY <1>3, <2>1, <2>2, <2>3
<1>6. GateSound(K)
  BY <1>1, <1>2, <1>3
  DEF Sound, GateSound, Projection, Active, Pending, Waiting, Answering, Statuses
<1> QED BY <1>5, <1>6 DEF Sound, K

\* The event of a call finds it without a result, except that effects begun
\* may be settled, and does to it what its state admits.
LEMMA CallEventIsSound ==
  ASSUME NEW J \in Projection, Sound(J), NEW e, e.type \in CallTypes, e.call \in DOMAIN J.calls,
         Admits(J, e),
         e.type = "permission_decided" => e.decision \in {"allow", "deny"},
         e.type = "effect_reconciled" =>
           e.resolution \in {"reconciled_completed", "reconciled_denied",
                             "reconciled_not_executed"}
  PROVE  Sound(After(J, e))
<1> DEFINE K == After(J, e)
           D == CallAfter(J, e)
           c == J.calls[e.call]
           calls == [J.calls EXCEPT ![e.call] = D]
<1>1. /\ K = [J EXCEPT !.calls = calls, !.fresh = FALSE]
      /\ D \in Call /\ D.kind = c.kind
  <2>1. /\ D \in Call /\ D.kind = c.kind BY CallEvents DEF Effects
  <2>2. Adds(J, e) = [J EXCEPT !.calls = calls] BY CallAdds
  <2>3. K = [Adds(J, e) EXCEPT !.fresh = FALSE] BY DEF After, CallTypes
  <2> HIDE DEF calls, K
  <2>4. K = [J EXCEPT !.calls = calls, !.fresh = FALSE] BY <2>2, <2>3 DEF Projection
  <2> QED BY <2>1, <2>4
<1>2. /\ c \in Call /\ J.calls \in Seq(Call)
      /\ e.call <= J.next => c.effect \notin {"prepared", "indeterminate"}
      /\ c.perm # "allow" => c.effect = "none"
      /\ c.kind = "invalid" => c.perm = "none"
  BY DEF Sound, CallsSound, Projection
<1>3. /\ e.call <= J.next => D.effect \notin {"prepared", "indeterminate"}
      /\ D.perm # "allow" => D.effect = "none"
      /\ c.kind = "invalid" => D.perm = "none"
  <2>0. J.next \in Nat /\ e.call \in Nat BY <1>2 DEF Projection
  <2>1. CASE e.type = "permission_decided"
    <3>1. c.perm = "none" /\ c.kind # "invalid" BY <2>1 DEF Admits, Unresolved
    <3> QED BY <1>2, <2>1, <3>1 DEF CallAfter, Call
  <2>2. CASE e.type = "effect_prepared"
    <3>1. ~ (e.call <= J.next) /\ c.perm = "allow"
      BY <2>0, <2>2 DEF Admits, AdmitsPrepare, Unresolved
    <3> QED BY <1>2, <2>2, <3>1 DEF CallAfter, Call
  <2>3. CASE e.type = "output_published" BY <1>2, <2>3 DEF CallAfter, Call
  <2>4. CASE e.type = "result_published" BY <1>2, <2>4 DEF CallAfter, Call
  <2>5. CASE e.type = "effect_completed"
    <3>1. c.effect = "prepared" BY <2>5 DEF Admits
    <3> QED BY <1>2, <2>5, <3>1 DEF CallAfter, Call
  <2>6. CASE e.type = "effect_indeterminate"
    <3>1. c.effect = "prepared" BY <2>6 DEF Admits
    <3> QED BY <1>2, <2>6, <3>1 DEF CallAfter, Call
  <2>7. CASE e.type = "effect_reconciled"
    <3>1. c.effect = "indeterminate" BY <2>7 DEF Admits
    <3> QED BY <1>2, <2>7, <3>1 DEF CallAfter, Call
  <2> QED BY <2>1, <2>2, <2>3, <2>4, <2>5, <2>6, <2>7 DEF CallTypes
<1> HIDE DEF D, c
<1>4. /\ DOMAIN calls = DOMAIN J.calls /\ Len(calls) = Len(J.calls)
      /\ \A i \in DOMAIN J.calls : calls[i] = IF i = e.call THEN D ELSE J.calls[i]
  BY <1>1, <1>2
<1> HIDE DEF calls, K
<1>5. K.calls = calls /\ K.next = J.next BY <1>1 DEF Projection
<1>6. CallsSound(K)
  <2> SUFFICES ASSUME NEW i \in DOMAIN J.calls
               PROVE  /\ i <= J.next => calls[i].effect \notin {"prepared", "indeterminate"}
                      /\ calls[i].perm # "allow" => calls[i].effect = "none"
                      /\ calls[i].kind = "invalid" => calls[i].perm = "none"
    BY <1>4, <1>5 DEF CallsSound
  <2>1. CASE i = e.call BY <1>1, <1>3, <1>4, <2>1
  <2>2. CASE i # e.call BY <1>4, <2>2 DEF Sound, CallsSound
  <2> QED BY <2>1, <2>2
<1>7. GateSound(K)
  BY <1>1, <1>4
  DEF Sound, GateSound, Projection, Active, Pending, Waiting, Answering, Statuses
<1> QED BY <1>6, <1>7 DEF Sound, K

-----------------------------------------------------------------------------
(* What keeps the invariant: the steps of a turn. *)

\* What the invariant says of the journal, and of a command's snapshot.
LEMMA JournalIsSound ==
  ASSUME PInv
  PROVE  /\ j \in Projection /\ Sound(j)
         /\ j.run \in Nat /\ j.tries \in Nat /\ j.blobs \in Nat /\ j.bound \in Nat
         /\ Active(j) => j.run > 0
         /\ j.fresh => ~ Pending(j)
         /\ pc \notin {"ready", "planning"} => ~ stored
  BY CallsHaveSlots DEF PInv, Rest, SoundInv, StoredInv, Sound, GateSound, Projection, Active

\* An answer of the model has been followed up when nothing waits for a user.
LEMMA Followed ==
  ASSUME PInv, CleanContinue, pc # "asking", j.status # "completed",
         Active(j) => j.gate \in Waiting
  PROVE  Pending(j) \/ j.tip # "assistant"
BY DEF PInv, Rest, AskInv, Waiting

\* Away from slices and from planning, what is to be shown of a step is this.
LEMMA RestOfStep ==
  ASSUME SoundInv', PlaceInv', FreshInv', AskInv', pc' \notin {"slice", "committing"}, ~ stored'
  PROVE  Rest'
BY DEF Rest, SettledInv, StoredInv

\* A command that ends leaves what the journal says by itself.
LEMMA RestOfEnd ==
  ASSUME SoundInv', FreshInv', AskInv', Down
  PROVE  Rest'
BY DEF Rest, SettledInv, StoredInv, PlaceInv, Down

\* The end of a run leaves no answer that was not followed up.
LEMMA Interrupted ==
  ASSUME PInv, pc # "asking", NEW s, Accept(RunInterrupted(s))
  PROVE  /\ SoundInv' /\ FreshInv' /\ AskInv'
         /\ j' = [j EXCEPT !.status = "interrupted", !.fresh = FALSE]
         /\ ~ Active(j')
<1> DEFINE e == RunInterrupted(s)
<1>1. Admits(j, e) /\ j' = After(j, e) BY DEF Accept
<1>2. j' = [j EXCEPT !.status = "interrupted", !.fresh = FALSE]
  BY <1>1, JournalIsSound DEF After, Adds, RunInterrupted, Projection
<1>3. SoundInv' BY <1>1, JournalIsSound, RunInterruptedIsSound DEF SoundInv
<1>4. Active(j) /\ j.gate \in Waiting
  BY <1>1, JournalIsSound, RunOfEvent, GateOfEvent DEF RunInterrupted, Waiting
<1>5. ~ Active(j') BY <1>2, JournalIsSound DEF Projection, Active
<1>6. FreshInv' BY <1>5 DEF FreshInv
<1>7. AskInv'
  <2>1. CleanContinue => Pending(j) \/ j.tip # "assistant"
    BY <1>4, Followed DEF Waiting, Active
  <2> QED BY <1>2, <2>1, JournalIsSound DEF AskInv, Projection, Pending
<1> QED BY <1>2, <1>3, <1>5, <1>6, <1>7

LEMMA StartRunRest == ASSUME PInv, StartRun \/ ContinueRun PROVE Rest'
<1>1. PICK c \in {"user", "continue"} : Step(RunStarted(c), "asking") /\ pc = "down"
  BY DEF StartRun, ContinueRun
<1>2. Admits(j, RunStarted(c)) /\ j' = After(j, RunStarted(c)) BY <1>1 DEF Step, Accept
<1>3. j' = [j EXCEPT !.run = j.run + 1, !.cause = c, !.status = "active", !.gate = "open",
                     !.fresh = FALSE]
  BY <1>2, JournalIsSound DEF After, Adds, RunStarted, Projection
<1>4. SoundInv' BY <1>2, JournalIsSound, RunStartedIsSound DEF SoundInv, Causes
<1>5. Closed(j) BY <1>2 DEF Admits, AdmitsRun, RunStarted
<1>6. ~ stored' /\ pc' = "asking" BY <1>1, JournalIsSound DEF Step, command
<1>7. PlaceInv'
  BY <1>3, <1>5, <1>6, JournalIsSound DEF PlaceInv, Projection, Active, Pending, Closed
<1>8. FreshInv' BY <1>3, JournalIsSound DEF FreshInv, Projection
<1>9. AskInv' BY <1>6 DEF AskInv
<1> QED BY <1>4, <1>6, <1>7, <1>8, <1>9, RestOfStep

LEMMA CommitUserRest == ASSUME PInv, CommitUser PROVE Rest'
<1>1. Admits(j, UserCommitted) /\ j' = After(j, UserCommitted) /\ pc = "asking"
  BY DEF CommitUser, Step, Accept
<1>2. j' = [j EXCEPT !.blobs = j.blobs + 1, !.tip = "user", !.gate = "boundary", !.fresh = FALSE]
  BY <1>1, JournalIsSound DEF After, Adds, UserCommitted, Projection
<1>3. SoundInv' BY <1>1, JournalIsSound, UserCommittedIsSound DEF SoundInv
<1>4. Active(j) /\ j.cause # "recovery" BY <1>1 DEF PInv, Rest, PlaceInv
<1>5. ~ stored' /\ pc' = "bounding" BY <1>1, JournalIsSound DEF CommitUser, Step, command
<1>6. PlaceInv' BY <1>2, <1>4, <1>5, JournalIsSound DEF PlaceInv, Projection, Active
<1>7. FreshInv' BY <1>2, <1>4, JournalIsSound DEF FreshInv, Projection
<1>8. AskInv' BY <1>2, JournalIsSound DEF AskInv, Projection
<1> QED BY <1>3, <1>5, <1>6, <1>7, <1>8, RestOfStep

\* A boundary of a user's message or of results, after which the kernel goes on.
LEMMA BoundRest == ASSUME PInv, BoundUser \/ BoundResults PROVE Rest'
<1>1. /\ Admits(j, BoundaryCreated) /\ j' = After(j, BoundaryCreated)
      /\ pc \in {"bounding", "tools"} /\ (pc = "tools" => ~ Pending(j))
  BY DEF BoundUser, BoundResults, Step, Accept
<1>2. Active(j) /\ j.gate = "boundary" BY <1>1 DEF PInv, Rest, PlaceInv
<1>3. j' = [j EXCEPT !.bound = j.blobs, !.boundRun = j.run, !.snap = 0, !.tries = 0,
                     !.gate = "open", !.fresh = TRUE]
  BY <1>1, <1>2, JournalIsSound DEF After, Adds, AfterBoundary, BoundaryCreated, Projection
<1>4. SoundInv' BY <1>1, JournalIsSound, BoundaryCreatedIsSound DEF SoundInv
<1>5. ~ stored' /\ pc' = "ready"
  BY <1>1, JournalIsSound DEF BoundUser, BoundResults, Step, command
<1>6. Closed(j) /\ j.tip \in {"user", "results"}
  BY <1>1, <1>2, JournalIsSound DEF Admits, BoundaryCreated, Sound, GateSound
<1>7. PlaceInv'
  BY <1>2, <1>3, <1>5, <1>6, JournalIsSound DEF PlaceInv, Projection, Active, Closed, Pending
<1>8. FreshInv' BY <1>3, JournalIsSound DEF FreshInv, Projection
<1>9. AskInv' BY <1>3, <1>6, JournalIsSound DEF AskInv, Projection
<1> QED BY <1>4, <1>5, <1>7, <1>8, <1>9, RestOfStep

LEMMA StoreSnapshotRest == ASSUME PInv, StoreSnapshot PROVE Rest'
<1> DEFINE e == SnapshotStored("fresh")
<1>1. Admits(j, e) /\ j' = After(j, e) /\ pc = "ready" /\ ~ stored
  BY DEF StoreSnapshot, Step, Accept
<1>2. j' = [j EXCEPT !.snap = j.run, !.tries = 0, !.fresh = FALSE]
  BY <1>1, JournalIsSound DEF After, Adds, SnapshotStored, Projection
<1>3. SoundInv' BY <1>1, JournalIsSound, SnapshotStoredIsSound DEF SoundInv
<1>4. Active(j) /\ j.gate = "open" /\ j.att = "none" /\ ~ Pending(j)
  BY <1>1 DEF PInv, Rest, PlaceInv
<1>5. ~ stored' /\ pc' = "sending" BY <1>1 DEF StoreSnapshot, Step, command
<1>6. PlaceInv' BY <1>2, <1>4, <1>5, JournalIsSound DEF PlaceInv, Projection, Active, Pending
<1>7. FreshInv' BY <1>2, <1>4, JournalIsSound DEF FreshInv, Projection
<1>8. AskInv'
  BY <1>1, <1>2, <1>4, JournalIsSound, Followed DEF AskInv, Projection, Pending, Waiting, Active
<1> QED BY <1>3, <1>5, <1>6, <1>7, <1>8, RestOfStep

LEMMA UseStoredRest == ASSUME PInv, UseStored PROVE Rest'
<1>1. pc = "ready" /\ stored /\ j' = j /\ pc' = "sending" /\ ~ stored' BY DEF UseStored
<1>2. SoundInv' BY <1>1, JournalIsSound DEF SoundInv
<1>3. PlaceInv' BY <1>1 DEF PInv, Rest, PlaceInv
<1>4. FreshInv' BY <1>1 DEF PInv, Rest, FreshInv
<1>5. AskInv' BY <1>1 DEF PInv, Rest, AskInv
<1> QED BY <1>1, <1>2, <1>3, <1>4, <1>5, RestOfStep

LEMMA SendAttemptRest == ASSUME PInv, SendAttempt PROVE Rest'
<1>1. Admits(j, AttemptStarted) /\ j' = After(j, AttemptStarted) /\ pc = "sending"
  BY DEF SendAttempt, Step, Accept
<1>2. j' = [j EXCEPT !.att = "open", !.tries = j.tries + 1, !.gate = "open", !.fresh = FALSE]
  BY <1>1, JournalIsSound DEF After, Adds, AttemptStarted, Projection
<1>3. SoundInv' BY <1>1, JournalIsSound, AttemptStartedIsSound DEF SoundInv
<1>4. Active(j) /\ j.gate \in {"open", "retry"} /\ ~ Pending(j) /\ j.snap = j.run
  BY <1>1 DEF PInv, Rest, PlaceInv
<1>5. ~ stored' /\ pc' = "waiting" BY <1>1, JournalIsSound DEF SendAttempt, Step, command
<1>6. PlaceInv' BY <1>2, <1>5, JournalIsSound DEF PlaceInv, Projection
<1>7. FreshInv' BY <1>2, <1>4, JournalIsSound DEF FreshInv, Projection
<1>8. AskInv'
  BY <1>1, <1>2, <1>4, JournalIsSound, Followed DEF AskInv, Projection, Pending, Waiting, Active
<1> QED BY <1>3, <1>5, <1>6, <1>7, <1>8, RestOfStep

\* The attempt a command waits for.
LEMMA Awaited ==
  ASSUME PInv, j.att # "none"
  PROVE  /\ Active(j) /\ j.gate = "open" /\ ~ Pending(j) /\ j.snap = j.run /\ j.tries > 0
         /\ pc # "asking" /\ (CleanContinue => j.tip # "assistant") /\ j.tip # "none"
<1>1. Active(j) /\ j.gate = "open" /\ ~ Pending(j) /\ j.snap = j.run /\ j.tries > 0
  BY JournalIsSound DEF Sound, GateSound
<1>2. pc # "asking" BY DEF PInv, Rest, PlaceInv
<1>3. CleanContinue => j.tip # "assistant" BY <1>1, <1>2, Followed DEF Waiting, Active
<1>4. j.tip # "none" BY <1>1, JournalIsSound DEF Sound, GateSound
<1> QED BY <1>1, <1>2, <1>3, <1>4

LEMMA SemanticStartsRest == ASSUME PInv, SemanticStarts PROVE Rest'
<1>1. Admits(j, SemanticStarted) /\ j' = After(j, SemanticStarted) /\ pc = "waiting"
  BY DEF SemanticStarts, Step, Accept
<1>2. j' = [j EXCEPT !.att = "semantic", !.fresh = FALSE]
  BY <1>1, JournalIsSound DEF After, Adds, SemanticStarted, Projection
<1>3. SoundInv' BY <1>1, JournalIsSound, SemanticStartedIsSound DEF SoundInv
<1>4. j.att # "none" BY <1>1 DEF PInv, Rest, PlaceInv
<1>5. ~ stored' /\ pc' = "waiting" BY <1>1, JournalIsSound DEF SemanticStarts, Step, command
<1>6. PlaceInv' BY <1>2, <1>5, JournalIsSound DEF PlaceInv, Projection
<1>7. FreshInv' BY <1>2, <1>4, Awaited, JournalIsSound DEF FreshInv, Projection
<1>8. AskInv' BY <1>2, <1>4, Awaited, JournalIsSound DEF AskInv, Projection
<1> QED BY <1>3, <1>5, <1>6, <1>7, <1>8, RestOfStep

LEMMA AnswerRest == ASSUME PInv, Answer PROVE Rest'
<1>1. PICK n \in 0..MaxCalls : \E kinds \in [1..n -> Kinds] : Accept(AssistantCommitted(kinds))
  BY DEF Answer
<1>2. PICK kinds \in [1..n -> Kinds] : Accept(AssistantCommitted(kinds)) BY <1>1
<1>3. n \in Nat BY CallsHaveSlots DEF PInv
<1> DEFINE calls == NewCalls(n, kinds)
<1>4. j' = [j EXCEPT !.att = "none", !.blobs = j.blobs + 1, !.tip = "assistant", !.next = 0,
                     !.calls = calls,
                     !.gate = IF n = 0 THEN "final_checkpoint" ELSE "checkpoint",
                     !.fresh = FALSE]
  <2>1. j' = Answered(j, n, kinds) BY <1>2, <1>3, JournalIsSound, AnswerAdds DEF Accept
  <2> QED BY <2>1 DEF Answered
<1>5. SoundInv' BY <1>2, <1>3, JournalIsSound, AnswerIsSound DEF SoundInv, Accept
<1>6. Len(calls) = n BY <1>3 DEF NewCalls
<1> HIDE DEF calls
<1>7. pc = "waiting" /\ pc' = "checkpointing" /\ ~ stored'
  BY JournalIsSound DEF Answer, command
<1>8. j.att # "none" BY <1>7 DEF PInv, Rest, PlaceInv
<1>9. PlaceInv' BY <1>4, <1>7, <1>8, Awaited, JournalIsSound DEF PlaceInv, Projection, Active
<1>10. FreshInv' BY <1>4, <1>8, Awaited, JournalIsSound DEF FreshInv, Projection
<1>11. AskInv'
  <2>1. j'.calls = calls /\ j'.next = 0 BY <1>4, JournalIsSound DEF Projection
  <2>2. n > 0 => Pending(j') BY <1>3, <1>6, <2>1 DEF Pending
  <2>3. n = 0 => Active(j') /\ j'.gate = "final_checkpoint"
    BY <1>4, <1>8, Awaited, JournalIsSound DEF Projection, Active
  <2> QED BY <1>3, <2>2, <2>3 DEF AskInv
<1> QED BY <1>5, <1>7, <1>9, <1>10, <1>11, RestOfStep

\* An attempt that is closed.
LEMMA Failed ==
  ASSUME PInv, NEW s, Accept(RequestInterrupted(s))
  PROVE  /\ SoundInv' /\ FreshInv' /\ AskInv'
         /\ j' = [j EXCEPT !.att = "none",
                           !.gate = IF s = "pre_semantic" THEN "retry" ELSE "must_interrupt",
                           !.fresh = FALSE]
         /\ j.att # "none"
<1> DEFINE e == RequestInterrupted(s)
<1>1. Admits(j, e) /\ j' = After(j, e) BY DEF Accept
<1>2. j' = [j EXCEPT !.att = "none",
                     !.gate = IF s = "pre_semantic" THEN "retry" ELSE "must_interrupt",
                     !.fresh = FALSE]
  BY <1>1, JournalIsSound DEF After, Adds, AfterFailure, RequestInterrupted, Projection
<1>3. SoundInv' BY <1>1, JournalIsSound, RequestInterruptedIsSound DEF SoundInv
<1>4. j.att # "none" BY <1>1 DEF Admits, RequestInterrupted
<1>5. FreshInv' BY <1>2, <1>4, Awaited, JournalIsSound DEF FreshInv, Projection
<1>6. AskInv' BY <1>2, <1>4, Awaited, JournalIsSound DEF AskInv, Projection
<1> QED BY <1>2, <1>3, <1>4, <1>5, <1>6

LEMMA RequestFailsRest == ASSUME PInv, RequestFails PROVE Rest'
<1>1. PICK s \in {"pre_semantic", "post_semantic"}, step \in {"sending", "giving_up"} :
        /\ pc = "waiting" /\ Step(RequestInterrupted(s), step)
        /\ s = "post_semantic" => step = "giving_up"
  BY DEF RequestFails
<1>2. /\ SoundInv' /\ FreshInv' /\ AskInv' /\ j.att # "none"
      /\ j' = [j EXCEPT !.att = "none",
                        !.gate = IF s = "pre_semantic" THEN "retry" ELSE "must_interrupt",
                        !.fresh = FALSE]
  BY <1>1, Failed DEF Step
<1>3. ~ stored' /\ pc' = step BY <1>1, JournalIsSound DEF Step, command
<1>4. PlaceInv'
  BY <1>1, <1>2, <1>3, Awaited, JournalIsSound DEF PlaceInv, Projection, Active, Pending
<1> QED BY <1>2, <1>3, <1>4, RestOfStep

LEMMA LastRest == ASSUME PInv, GiveUp \/ Cancel \/ ResumeCancelled PROVE Rest'
<1>1. pc # "asking" /\ Last(RunInterrupted(j.run))
  BY DEF GiveUp, Cancel, ResumeCancelled, Planned
<1> QED BY <1>1, Interrupted, RestOfEnd DEF Last

\* A checkpoint of an answer.
LEMMA Checkpointed ==
  ASSUME PInv, Accept(CheckpointCreated)
  PROVE  /\ SoundInv' /\ FreshInv' /\ (pc # "asking" => AskInv')
         /\ j' = [j EXCEPT !.gate = IF Pending(j) THEN "open" ELSE "final_boundary",
                           !.fresh = FALSE]
         /\ Active(j)
<1> DEFINE e == CheckpointCreated
<1>1. Admits(j, e) /\ j' = After(j, e) BY DEF Accept
<1>2. Active(j) /\ j.gate \in {"checkpoint", "final_checkpoint"}
  BY <1>1, RunOfEvent DEF Admits, CheckpointCreated
<1>3. Pending(j) <=> j.gate = "checkpoint"
  BY <1>2, JournalIsSound DEF Sound, GateSound, Answering
<1>4. j' = [j EXCEPT !.gate = IF Pending(j) THEN "open" ELSE "final_boundary", !.fresh = FALSE]
  BY <1>1, <1>2, <1>3, JournalIsSound DEF After, Adds, CheckpointCreated, Projection
<1>5. SoundInv' BY <1>1, JournalIsSound, CheckpointCreatedIsSound DEF SoundInv
<1>6. ~ j.fresh
  BY <1>2, <1>3, JournalIsSound DEF Sound, GateSound, Answering
<1>7. FreshInv'
  <2>1. CleanTails => ~ (Active(j) /\ j.cause = "recovery" /\ j.boundRun = j.run /\ j.snap = 0)
    BY <1>6 DEF PInv, Rest, FreshInv
  <2> QED BY <1>4, <2>1, JournalIsSound DEF FreshInv, Projection, Active
<1>8. pc # "asking" => AskInv'
  BY <1>2, <1>4, JournalIsSound DEF AskInv, Projection, Pending, Active
<1> QED BY <1>2, <1>4, <1>5, <1>7, <1>8

LEMMA CheckpointRest == ASSUME PInv, Checkpoint PROVE Rest'
<1>1. pc = "checkpointing" /\ Accept(CheckpointCreated) /\ pc' = (IF Pending(j) THEN "tools" ELSE "ending")
  BY DEF Checkpoint, Step
<1>2. ~ stored' BY <1>1, JournalIsSound DEF Checkpoint, Step, command
<1>3. PlaceInv'
  BY <1>1, Checkpointed, JournalIsSound DEF PlaceInv, Projection, Active, Pending
<1> QED BY <1>1, <1>2, <1>3, Checkpointed, RestOfStep

LEMMA BoundAnswerRest == ASSUME PInv, BoundAnswer PROVE Rest'
<1>1. /\ Admits(j, BoundaryCreated) /\ j' = After(j, BoundaryCreated) /\ pc = "ending"
  BY DEF BoundAnswer, Step, Accept
<1>2. Active(j) /\ j.gate = "final_boundary" BY <1>1 DEF PInv, Rest, PlaceInv
<1>3. j' = [j EXCEPT !.bound = j.blobs, !.boundRun = j.run, !.snap = 0, !.tries = 0,
                     !.gate = "final_complete", !.fresh = TRUE]
  BY <1>1, <1>2, JournalIsSound DEF After, Adds, AfterBoundary, BoundaryCreated, Projection
<1>4. SoundInv' BY <1>1, JournalIsSound, BoundaryCreatedIsSound DEF SoundInv
<1>5. ~ stored' /\ pc' = "completing" BY <1>1, JournalIsSound DEF BoundAnswer, Step, command
<1>6. PlaceInv' BY <1>2, <1>3, <1>5, JournalIsSound DEF PlaceInv, Projection, Active
<1>7. FreshInv' BY <1>3, JournalIsSound DEF FreshInv, Projection
<1>8. AskInv' BY <1>2, <1>3, JournalIsSound DEF AskInv, Projection, Active
<1> QED BY <1>4, <1>5, <1>6, <1>7, <1>8, RestOfStep

\* A run that is complete.
LEMMA Completed ==
  ASSUME PInv, Accept(RunCompleted)
  PROVE  SoundInv' /\ FreshInv' /\ AskInv' /\ j'.status = "completed"
<1>1. Admits(j, RunCompleted) /\ j' = After(j, RunCompleted) BY DEF Accept
<1>2. j' = [j EXCEPT !.status = "completed", !.fresh = FALSE]
  BY <1>1, JournalIsSound DEF After, Adds, RunCompleted, Projection
<1>3. SoundInv' BY <1>1, JournalIsSound, RunCompletedIsSound DEF SoundInv
<1>4. FreshInv' BY <1>2, JournalIsSound DEF FreshInv, Projection, Active
<1>5. AskInv' BY <1>2, JournalIsSound DEF AskInv, Projection
<1> QED BY <1>2, <1>3, <1>4, <1>5, JournalIsSound DEF Projection

LEMMA CompleteRunRest == ASSUME PInv, CompleteRun PROVE Rest'
BY Completed, RestOfEnd DEF CompleteRun, Last

\* Steps that leave the journal and the jobs.
LEMMA FrameRest ==
  ASSUME PInv, UNCHANGED <<j, pc, stored, upto, job>>
  PROVE  Rest'
BY DEF PInv, Rest, SoundInv, SettledInv, Slice, PlaceInv, StoredInv, FreshInv, AskInv

LEMMA AbortRest == ASSUME PInv, Abort PROVE Rest'
BY FrameRest DEF Abort, runtime

\* A command that ends where it is.
LEMMA EndRest ==
  ASSUME PInv, j' = j, Down, CleanContinue => ~ Unasked
  PROVE  Rest'
<1>1. SoundInv' /\ FreshInv' BY DEF PInv, Rest, SoundInv, FreshInv
<1>2. AskInv'
  BY DEF PInv, Rest, AskInv, Unasked
<1> QED BY <1>1, <1>2, RestOfEnd

LEMMA DieRest == ASSUME PInv, Die \/ DieTorn PROVE Rest'
<1>1. CASE Die BY <1>1, EndRest DEF Die, MayDie
<1>2. CASE DieTorn
  <2>1. j' = After(j, TailRecovered) /\ Down /\ MayDie
        /\ (CleanTails => ~ (j.fresh /\ j.cause = "recovery" /\ Active(j)))
    BY <1>2 DEF DieTorn, Accept
  <2>2. j' = [j EXCEPT !.fresh = FALSE]
    BY <2>1, JournalIsSound DEF After, Adds, TailRecovered, Projection
  <2>3. SoundInv' BY <2>1, JournalIsSound, TailRecoveredIsSound DEF SoundInv
  <2>4. FreshInv'
    BY <2>1, <2>2, JournalIsSound DEF PInv, Rest, FreshInv, Projection, Active
  <2>5. AskInv'
    BY <2>1, <2>2, JournalIsSound
    DEF PInv, Rest, AskInv, Projection, Active, Pending, MayDie, Unasked
  <2> QED BY <2>1, <2>3, <2>4, <2>5, RestOfEnd
<1> QED BY <1>1, <1>2

-----------------------------------------------------------------------------
(* Recovery. *)

LEMMA StartRecoveryRest == ASSUME PInv, Recover \/ Reconcile PROVE Rest'
<1>1. j' = j /\ pc = "down" /\ pc' = "planning" /\ stored' = stored
  BY DEF Recover, Reconcile, StartRecovery
<1>2. ~ stored' BY <1>1, JournalIsSound
<1>3. SoundInv' /\ PlaceInv' /\ FreshInv' /\ AskInv'
  BY <1>1 DEF PInv, Rest, SoundInv, PlaceInv, FreshInv, AskInv
<1> QED BY <1>1, <1>2, <1>3, RestOfStep

\* A command has stored a snapshot only when the plan is to send it.
LEMMA StoredIsPlanned ==
  ASSUME PInv, pc = "planning", Plan(j) # "send_snapshot" PROVE ~ stored
BY DEF PInv, Rest, StoredInv

\* Planning goes on after an append.
LEMMA RestOfPlan ==
  ASSUME SoundInv', FreshInv', AskInv', pc' = "planning", ~ stored'
  PROVE  Rest'
BY DEF Rest, SettledInv, StoredInv, PlaceInv

\* The event of a call leaves everything else as it is; there is such a call
\* only while results are missing.
LEMMA CallAccepted ==
  ASSUME PInv, NEW e, e.type \in CallTypes, e.call \in DOMAIN j.calls, Accept(e),
         e.type = "permission_decided" => e.decision \in {"allow", "deny"},
         e.type = "effect_reconciled" =>
           e.resolution \in {"reconciled_completed", "reconciled_denied",
                             "reconciled_not_executed"}
  PROVE  /\ SoundInv' /\ FreshInv' /\ AskInv'
         /\ j' = [j EXCEPT !.calls = [j.calls EXCEPT ![e.call] = CallAfter(j, e)], !.fresh = FALSE]
         /\ Len(j'.calls) = Len(j.calls)
         /\ \A i \in DOMAIN j.calls : i # e.call => j'.calls[i] = j.calls[i]
         /\ j'.calls[e.call] = CallAfter(j, e)
         /\ Active(j) /\ j.gate = "open" /\ Pending(j)
<1> DEFINE calls == [j.calls EXCEPT ![e.call] = CallAfter(j, e)]
<1>1. Admits(j, e) /\ j' = After(j, e) BY DEF Accept
<1>2. Active(j) /\ j.gate = "open"
  BY <1>1, JournalIsSound, RunOfEvent, GateOfEvent DEF CallTypes
<1>3. e.call > j.next
  <2>0. j.next \in Nat /\ e.call \in Nat BY JournalIsSound DEF Projection
  <2>1. CASE e.type \in {"permission_decided", "effect_prepared", "output_published",
                         "result_published"}
    BY <1>1, <2>1 DEF Admits, AdmitsPrepare, AdmitsOutput, Unresolved
  <2>2. CASE e.type \in {"effect_completed", "effect_indeterminate", "effect_reconciled"}
    <3>1. j.calls[e.call].effect \in {"prepared", "indeterminate"} BY <1>1, <2>2 DEF Admits
    <3>2. ~ (e.call <= j.next) BY <3>1, JournalIsSound DEF Sound, CallsSound
    <3> QED BY <2>0, <3>2
  <2> QED BY <2>1, <2>2 DEF CallTypes
<1>4. Pending(j) BY <1>3, JournalIsSound DEF Pending, Projection
<1>5. j' = [j EXCEPT !.calls = calls, !.fresh = FALSE]
  <2>1. Adds(j, e) = [j EXCEPT !.calls = calls] BY JournalIsSound, CallAdds
  <2>2. j' = [Adds(j, e) EXCEPT !.fresh = FALSE] BY <1>1 DEF After, CallTypes
  <2> HIDE DEF calls
  <2> QED BY <2>1, <2>2, JournalIsSound DEF Projection
<1>6. SoundInv' BY <1>1, JournalIsSound, CallEventIsSound DEF SoundInv
<1>7. CallAfter(j, e) \in Call /\ j.calls \in Seq(Call)
  BY JournalIsSound, CallEvents DEF Effects, Projection
<1>8. /\ Len(calls) = Len(j.calls)
      /\ \A i \in DOMAIN j.calls : i # e.call => calls[i] = j.calls[i]
      /\ calls[e.call] = CallAfter(j, e)
  BY <1>7
<1> HIDE DEF calls
<1>9. j'.calls = calls /\ j'.next = j.next BY <1>5, JournalIsSound DEF Projection
<1>10. Pending(j') BY <1>4, <1>8, <1>9 DEF Pending
<1>11. AskInv' BY <1>10 DEF AskInv
<1>12. ~ j.fresh BY <1>4, JournalIsSound
<1>13. FreshInv'
  BY <1>5, <1>12, JournalIsSound DEF PInv, Rest, FreshInv, Projection, Active
<1> QED BY <1>2, <1>4, <1>5, <1>6, <1>8, <1>9, <1>11, <1>13 DEF calls

\* In short:
LEMMA CallAcceptedInv ==
  ASSUME PInv, NEW e, e.type \in CallTypes, e.call \in DOMAIN j.calls, Accept(e),
         e.type = "permission_decided" => e.decision \in {"allow", "deny"},
         e.type = "effect_reconciled" =>
           e.resolution \in {"reconciled_completed", "reconciled_denied",
                             "reconciled_not_executed"}
  PROVE  SoundInv' /\ FreshInv' /\ AskInv'
BY CallAccepted

LEMMA PlanAppendRest == ASSUME PInv, PlanAppend PROVE Rest'
<1> DEFINE e == StepEvent(j)
<1>1. pc = "planning" /\ pc' = "planning" /\ stored' = stored /\ Accept(e)
      /\ Plan(j) \in AppendSteps
  BY DEF PlanAppend, Step, command
<1>2. ~ stored' BY <1>1, StoredIsPlanned DEF AppendSteps
<1>3. SUFFICES SoundInv' /\ FreshInv' /\ AskInv' BY <1>1, <1>2, RestOfPlan
<1>4. CASE Plan(j) = "interrupt_run"
  <2>1. e = RunInterrupted(j.run) BY <1>4 DEF StepEvent
  <2> QED BY <1>1, <2>1, Interrupted
<1>5. CASE Plan(j) = "start_recovery_run"
  <2>1. e = RunStarted("recovery") BY <1>5 DEF StepEvent
  <2>2. Admits(j, RunStarted("recovery")) /\ j' = After(j, RunStarted("recovery"))
    BY <1>1, <2>1 DEF Accept
  <2>3. j' = [j EXCEPT !.run = j.run + 1, !.cause = "recovery", !.status = "active",
                       !.gate = "open", !.fresh = FALSE]
    BY <2>2, JournalIsSound DEF After, Adds, RunStarted, Projection
  <2>4. SoundInv' BY <2>2, JournalIsSound, RunStartedIsSound DEF SoundInv, Causes
  <2>5. j.boundRun \in Nat /\ j.boundRun <= j.run
    BY JournalIsSound DEF Sound, GateSound, Projection
  <2>6. FreshInv' BY <2>3, <2>5, JournalIsSound DEF FreshInv, Projection
  <2>7. j.status = "interrupted" BY <1>5 DEF Plan, PlanOpen, GateStep
  <2>8. CleanContinue => Pending(j) \/ j.tip # "assistant"
    BY <1>1, <2>7, Followed DEF Active
  <2>9. AskInv' BY <2>3, <2>8, JournalIsSound DEF AskInv, Projection, Pending
  <2> QED BY <2>4, <2>6, <2>9
<1>6. CASE Plan(j) = "close_open_attempt"
  <2>1. PICK s \in {"post_semantic", "semantic_state_unknown"} : e = RequestInterrupted(s)
    BY <1>6 DEF StepEvent
  <2> QED BY <1>1, <2>1, Failed
<1>7. CASE Plan(j) = "append_checkpoint"
  <2>1. e = CheckpointCreated BY <1>7 DEF StepEvent
  <2> QED BY <1>1, <2>1, Checkpointed
<1>8. CASE Plan(j) = "append_boundary"
  <2>1. e = BoundaryCreated BY <1>8 DEF StepEvent
  <2>2. Admits(j, BoundaryCreated) /\ j' = After(j, BoundaryCreated) BY <1>1, <2>1 DEF Accept
  <2>3. PICK gate \in {"final_complete", "open"} :
          /\ j' = [j EXCEPT !.bound = j.blobs, !.boundRun = j.run, !.snap = 0, !.tries = 0,
                            !.gate = gate, !.fresh = TRUE]
          /\ gate = "open" => j.gate # "final_boundary"
    BY <2>2, JournalIsSound DEF After, Adds, AfterBoundary, BoundaryCreated, Projection
  <2>4. SoundInv' BY <2>2, JournalIsSound, BoundaryCreatedIsSound DEF SoundInv
  <2>5. FreshInv' BY <2>3, JournalIsSound DEF FreshInv, Projection
  <2>6. Active(j) /\ j.gate \in {"boundary", "final_boundary"}
    BY <2>2, RunOfEvent DEF Admits, BoundaryCreated
  <2>7. j.gate = "boundary" => j.tip \in {"user", "results"}
    BY <2>6, JournalIsSound DEF Sound, GateSound
  <2>8. AskInv' BY <2>3, <2>6, <2>7, JournalIsSound DEF AskInv, Projection, Active
  <2> QED BY <2>4, <2>5, <2>8
<1>9. CASE Plan(j) = "complete_run"
  <2>1. e = RunCompleted BY <1>9 DEF StepEvent
  <2> QED BY <1>1, <2>1, Completed
<1>10. CASE Plan(j) = "mark_effect_indeterminate"
  <2>1. Effect(j, "prepared") # {} BY <1>10 DEF Plan, PlanOpen, GateStep
  <2>2. TheOne(Effect(j, "prepared")) \in DOMAIN j.calls BY <2>1 DEF TheOne, Effect
  <2>3. e = EffectIndeterminate(TheOne(Effect(j, "prepared"))) BY <1>10 DEF StepEvent
  <2>4. e.type = "effect_indeterminate" /\ e.call \in DOMAIN j.calls
    BY <2>2, <2>3 DEF EffectIndeterminate
  <2> HIDE DEF e
  <2> QED BY <1>1, <2>4, CallAcceptedInv DEF CallTypes
<1> QED BY <1>1, <1>4, <1>5, <1>6, <1>7, <1>8, <1>9, <1>10 DEF AppendSteps

\* What a plan says of the journal it is made for.
LEMMA OpenPlans ==
  ASSUME NEW J \in Projection, Sound(J),
         Plan(J) \in {"store_snapshot", "send_snapshot", "resume_tool", "stop_indeterminate"}
  PROVE  /\ Active(J) /\ J.gate \in {"open", "retry"} /\ J.att = "none" /\ J.tip # "none"
         /\ J.cause = "recovery" /\ Effect(J, "prepared") = {}
         /\ Plan(J) = PlanOpen(J)
<1>1. J.tip # "none" /\ J.status \notin {"completed", "interrupted"} /\ J.att = "none"
      /\ J.gate \notin DOMAIN GateStep /\ Plan(J) = PlanOpen(J)
  BY DEF Plan, HasUser, GateStep
<1>2. Active(J) BY <1>1 DEF Sound, GateSound, Projection, Statuses, Active
<1>3. J.gate \in {"open", "retry"} BY <1>1, GateNames DEF GateStep, Projection
<1>4. J.cause = "recovery" /\ Effect(J, "prepared") = {} BY <1>1 DEF PlanOpen, CutOff
<1> QED BY <1>1, <1>2, <1>3, <1>4

\* A plan to store a snapshot, and the one that follows it.
LEMMA StoringPlans ==
  ASSUME NEW J \in Projection, Sound(J), Plan(J) \in {"store_snapshot", "send_snapshot"}
  PROVE  /\ ~ Pending(J) /\ Effect(J, "indeterminate") = {}
         /\ Plan(J) = "send_snapshot" => J.snap = J.run /\ J.tries = 0
         /\ Plan(J) = "store_snapshot" => J.snap # J.run
         /\ J.gate = "open"
<1>1. Plan(J) = PlanOpen(J) /\ Active(J) /\ J.gate \in {"open", "retry"} BY OpenPlans
<1>2. /\ ~ Pending(J) /\ Effect(J, "indeterminate") = {}
      /\ Plan(J) = "send_snapshot" => J.snap = J.run /\ J.tries = 0
      /\ Plan(J) = "store_snapshot" => J.snap # J.run
  BY <1>1 DEF PlanOpen
<1>3. J.gate # "retry" BY <1>1, <1>2 DEF Sound, GateSound, Projection
<1> QED BY <1>1, <1>2, <1>3

LEMMA PlanStoreRest == ASSUME PInv, PlanStore PROVE Rest'
<1>1. pc = "planning" /\ pc' = "planning" /\ stored' /\ Plan(j) = "store_snapshot"
      /\ Accept(StepEvent(j))
  BY DEF PlanStore, Planned
<1>2. PICK m \in {"fresh", "alias"} :
        Admits(j, SnapshotStored(m)) /\ j' = After(j, SnapshotStored(m))
  BY <1>1 DEF StepEvent, SnapshotMode, Accept
<1>3. j' = [j EXCEPT !.snap = j.run, !.tries = 0, !.fresh = FALSE]
  BY <1>2, JournalIsSound DEF After, Adds, SnapshotStored, Projection
<1>4. SoundInv' BY <1>2, JournalIsSound, SnapshotStoredIsSound DEF SoundInv
<1>5. /\ Active(j) /\ j.gate = "open" /\ j.att = "none" /\ j.tip # "none" /\ j.cause = "recovery"
      /\ ~ Pending(j) /\ Effect(j, "prepared") = {} /\ Effect(j, "indeterminate") = {}
  BY <1>1, JournalIsSound, OpenPlans, StoringPlans
<1>6. FreshInv' BY <1>3, <1>5, JournalIsSound DEF FreshInv, Projection
<1>7. AskInv'
  BY <1>1, <1>3, <1>5, JournalIsSound, Followed DEF AskInv, Projection, Pending, Waiting, Active
<1>8. Plan(j') = "send_snapshot"
  <2>1. /\ j'.calls = j.calls /\ j'.next = j.next /\ j'.tip = j.tip /\ j'.status = j.status
        /\ j'.att = j.att /\ j'.gate = j.gate /\ j'.cause = j.cause /\ j'.run = j.run
        /\ j'.snap = j.run /\ j'.tries = 0
    BY <1>3, JournalIsSound DEF Projection
  <2>2. Effect(j', "prepared") = {} /\ Effect(j', "indeterminate") = {} /\ ~ Pending(j')
    BY <1>5, <2>1 DEF Effect, Pending
  <2>3. PlanOpen(j') = "send_snapshot" BY <1>5, <2>1, <2>2 DEF PlanOpen, CutOff
  <2> QED BY <1>5, <2>1, <2>3 DEF Plan, HasUser, GateStep, Active
<1>9. StoredInv' BY <1>1, <1>8 DEF StoredInv
<1>10. SettledInv' /\ PlaceInv' BY <1>1 DEF SettledInv, PlaceInv
<1> QED BY <1>4, <1>6, <1>7, <1>9, <1>10 DEF Rest

LEMMA PlanSendRest == ASSUME PInv, PlanSend PROVE Rest'
<1>1. pc = "planning" /\ Plan(j) = "send_snapshot" /\ stored /\ j' = j
  BY DEF PlanSend, Planned
<1>2. CASE Down BY <1>1, <1>2, EndRest DEF Unasked
<1>3. CASE pc' = "ready" /\ stored' = stored
  <2>1. SoundInv' /\ FreshInv' /\ AskInv' BY <1>1 DEF PInv, Rest, SoundInv, FreshInv, AskInv
  <2>2. /\ Active(j) /\ j.gate = "open" /\ j.att = "none" /\ ~ Pending(j) /\ j.tip # "none"
        /\ j.snap = j.run /\ j.tries = 0
    BY <1>1, JournalIsSound, OpenPlans, StoringPlans
  <2>3. PlaceInv' BY <1>1, <1>3, <2>2 DEF PlaceInv
  <2>4. SettledInv' /\ StoredInv' BY <1>3 DEF SettledInv, StoredInv
  <2> QED BY <2>1, <2>3, <2>4 DEF Rest
<1> QED BY <1>2, <1>3 DEF PlanSend

LEMMA PlanDistrustRest == ASSUME PInv, PlanDistrust PROVE Rest'
<1>1. pc = "planning" /\ ~ stored /\ Step(RunInterrupted(j.run), "planning")
  BY DEF PlanDistrust, Planned
<1> QED BY <1>1, Interrupted, RestOfPlan DEF Step, command

LEMMA PlanStopRest == ASSUME PInv, PlanStop \/ PlanEnd PROVE Rest'
<1>1. pc = "planning" /\ j' = j /\ Plan(j) # "send_snapshot"
  BY DEF PlanStop, PlanEnd, Planned
<1>2. CASE Down BY <1>1, <1>2, EndRest DEF Unasked
<1>3. CASE pc' = "reconciling" /\ stored' = stored
  <2>1. SoundInv' /\ FreshInv' /\ AskInv' BY <1>1, <1>3 DEF PInv, Rest, SoundInv, FreshInv, AskInv
  <2>2. ~ stored' BY <1>1, <1>3, StoredIsPlanned
  <2>3. PlaceInv' BY <1>3 DEF PlaceInv
  <2> QED BY <1>3, <2>1, <2>2, <2>3, RestOfStep
<1> QED BY <1>2, <1>3 DEF PlanStop, PlanEnd, command

\* The result of the call that is due.
LEMMA Committed ==
  ASSUME PInv, Accept(ResultCommitted(j.next + 1))
  PROVE  /\ SoundInv' /\ FreshInv' /\ AskInv'
         /\ j' = [j EXCEPT !.next = j.next + 1, !.blobs = j.blobs + 1,
                           !.tip = IF j.next + 1 = Len(j.calls) THEN "results" ELSE "assistant",
                           !.gate = IF j.next + 1 = Len(j.calls) THEN "boundary" ELSE "open",
                           !.fresh = FALSE]
         /\ Active(j) /\ j.gate = "open" /\ Pending(j)
<1> DEFINE e == ResultCommitted(j.next + 1)
<1>1. Admits(j, e) /\ j' = After(j, e) BY DEF Accept
<1>2. j' = [j EXCEPT !.next = j.next + 1, !.blobs = j.blobs + 1,
                     !.tip = IF j.next + 1 = Len(j.calls) THEN "results" ELSE "assistant",
                     !.gate = IF j.next + 1 = Len(j.calls) THEN "boundary" ELSE "open",
                     !.fresh = FALSE]
  BY <1>1, JournalIsSound, ResultAdds
<1>3. SoundInv' BY <1>1, JournalIsSound, ResultIsSound DEF SoundInv
<1>4. Active(j) /\ j.gate = "open" /\ Pending(j)
  BY <1>1, JournalIsSound, RunOfEvent, GateOfEvent DEF Admits, AdmitsResult, ResultCommitted
<1>5. ~ j.fresh BY <1>4, JournalIsSound
<1>6. FreshInv'
  <2>1. CleanTails => ~ (Active(j) /\ j.cause = "recovery" /\ j.boundRun = j.run /\ j.snap = 0)
    BY <1>5 DEF PInv, Rest, FreshInv
  <2> QED BY <1>2, <2>1, JournalIsSound DEF FreshInv, Projection, Active
<1>7. AskInv'
  <2>1. j.next \in Nat /\ Len(j.calls) \in Nat BY JournalIsSound DEF Projection
  <2>2. j.next + 1 # Len(j.calls) => Pending(j')
    BY <1>2, <1>4, <2>1, JournalIsSound DEF Pending, Projection
  <2>3. j.next + 1 = Len(j.calls) => j'.tip = "results"
    BY <1>2, JournalIsSound DEF Projection
  <2> QED BY <2>2, <2>3 DEF AskInv
<1> QED BY <1>2, <1>3, <1>4, <1>6, <1>7

LEMMA ResumeRecordedRest == ASSUME PInv, ResumeRecorded PROVE Rest'
<1>1. pc = "planning" /\ Plan(j) = "resume_tool" /\ Step(StepEvent(j), "planning")
  BY DEF ResumeRecorded, Planned
<1>2. StepEvent(j) = ResultCommitted(j.next + 1) BY <1>1 DEF StepEvent
<1>3. ~ stored BY <1>1, StoredIsPlanned
<1> QED BY <1>1, <1>2, <1>3, Committed, RestOfPlan DEF Step, command

LEMMA ReconcileRest ==
  ASSUME PInv, ReconcileOutput \/ ReconcileCompleted \/ ReconcileNotExecuted
  PROVE  Rest'
<1>1. pc = "reconciling"
  BY DEF ReconcileOutput, ReconcileCompleted, ReconcileNotExecuted
<1>2. Doubted \in DOMAIN j.calls /\ ~ stored
  BY <1>1, DoubtedIsACall, JournalIsSound DEF PInv
<1>3. CASE ReconcileOutput
  <2> DEFINE e == OutputPublished(Doubted)
  <2>1. e.type = "output_published" /\ e.call = Doubted BY DEF OutputPublished
  <2>2. Accept(e) /\ pc' = "reconciling" /\ stored' = stored
    BY <1>3 DEF ReconcileOutput, Step, command
  <2> HIDE DEF e
  <2>3. SoundInv' /\ FreshInv' /\ AskInv' BY <1>2, <2>1, <2>2, CallAcceptedInv DEF CallTypes
  <2>4. PlaceInv' BY <2>2 DEF PlaceInv
  <2> QED BY <1>2, <2>2, <2>3, <2>4, RestOfStep
<1>4. CASE ReconcileCompleted \/ ReconcileNotExecuted
  <2>1. PICK r \in {"reconciled_completed", "reconciled_denied", "reconciled_not_executed"} :
          Settle(r)
    BY <1>4 DEF ReconcileCompleted, ReconcileNotExecuted
  <2> DEFINE e == EffectReconciled(Doubted, r)
  <2>2. e.type = "effect_reconciled" /\ e.call = Doubted /\ e.resolution = r
    BY DEF EffectReconciled
  <2>3. Accept(e) /\ pc' = "planning" /\ stored' = stored BY <2>1 DEF Settle
  <2> HIDE DEF e
  <2>4. SoundInv' /\ FreshInv' /\ AskInv' BY <1>2, <2>2, <2>3, CallAcceptedInv DEF CallTypes
  <2> QED BY <1>2, <2>3, <2>4, RestOfPlan
<1> QED BY <1>3, <1>4

-----------------------------------------------------------------------------
(* The execution of calls. *)

LEMMA BeginSliceRest == ASSUME PInv, NextSlice \/ ResumeExecute PROVE Rest'
<1>1. PICK last : BeginSlice(last) BY DEF NextSlice, ResumeExecute
<1>2. j' = j /\ stored' = stored /\ pc' = "slice" /\ pc \in {"tools", "planning"}
  BY <1>1 DEF NextSlice, ResumeExecute, Planned, BeginSlice, command
<1>3. Active(j) /\ j.gate = "open"
  <2>1. CASE NextSlice BY <2>1 DEF NextSlice, PInv, Rest, PlaceInv
  <2>2. CASE ResumeExecute
    <3>1. Plan(j) = "resume_tool" BY <2>2 DEF ResumeExecute, Planned
    <3>2. Active(j) /\ j.gate \in {"open", "retry"} BY <3>1, JournalIsSound, OpenPlans
    <3>3. Pending(j) BY <3>1, ResumedIsDue
    <3> QED BY <3>2, <3>3, JournalIsSound DEF Sound, GateSound
  <2> QED BY <2>1, <2>2
<1>4. ~ stored'
  <2>1. CASE NextSlice BY <1>2, <2>1, JournalIsSound DEF NextSlice
  <2>2. CASE ResumeExecute BY <1>2, <2>2, StoredIsPlanned DEF ResumeExecute, Planned
  <2> QED BY <2>1, <2>2
<1>5. SettledInv'
  <2>1. \A i \in Slots : job'[i] # "settled" BY <1>1 DEF BeginSlice
  <2>2. \A i \in Slice' : i \in Slots
    <3>1. IInv' BY NextSliceKeeps DEF PInv
    <3>2. j.next \in Nat /\ upto' \in 0..MaxCalls BY <1>2, <3>1, JournalIsSound DEF IInv, TypeOK, Projection
    <3> QED BY <1>2, <3>2, CallsHaveSlots DEF Slice, Slots, PInv
  <2> QED BY <1>2, <1>3, <2>1, <2>2 DEF SettledInv
<1>6. SoundInv' /\ FreshInv' /\ AskInv' /\ PlaceInv' /\ StoredInv'
  BY <1>2, <1>4 DEF PInv, Rest, SoundInv, FreshInv, AskInv, PlaceInv, StoredInv
<1> QED BY <1>5, <1>6 DEF Rest

\* A step of one job.
LEMMA JobRest ==
  ASSUME PInv, pc = "slice", NEW i \in Slice, NEW s, To(i, s), job[i] # "failed",
         UNCHANGED <<pc, upto, stored>>, SoundInv', FreshInv', AskInv',
         j'.next = j.next, j'.run = j.run, j'.cause = j.cause,
         \A k \in DOMAIN j.calls : k # i => j'.calls[k] = j.calls[k],
         s = "settled" => Resultable(j', i),
         Active(j) /\ j.gate = "open" => (Active(j') /\ j'.gate = "open") \/ s = "failed"
  PROVE  Rest'
<1>1. Slice' = Slice BY DEF Slice
<1>2. \A k \in Slice : k \in DOMAIN j.calls /\ k \in Slots BY SliceIsOfCalls DEF PInv
<1>3. \A k \in Slots : job'[k] = IF k = i THEN s ELSE job[k] BY DEF To, PInv, IInv, TypeOK
<1>4. ASSUME NEW k \in Slice, job'[k] = "settled" PROVE Resultable(j', k)
  <2>1. CASE k = i BY <1>2, <1>3, <1>4, <2>1
  <2>2. CASE k # i
    <3>1. Resultable(j, k) BY <1>2, <1>3, <1>4, <2>2 DEF PInv, Rest, SettledInv
    <3> QED BY <1>2, <2>2, <3>1 DEF Resultable
  <2> QED BY <2>1, <2>2
<1>5. (Active(j') /\ j'.gate = "open") \/ \E k \in Slice : job'[k] = "failed"
  <2>1. CASE Active(j) /\ j.gate = "open" BY <1>2, <1>3, <2>1
  <2>2. CASE \E k \in Slice : job[k] = "failed"
    <3>1. PICK k \in Slice : job[k] = "failed" BY <2>2
    <3>2. job'[k] = "failed" BY <1>2, <1>3, <3>1
    <3> QED BY <3>2
  <2> QED BY <2>1, <2>2 DEF PInv, Rest, SettledInv
<1>6. SettledInv' BY <1>1, <1>4, <1>5 DEF SettledInv
<1>7. PlaceInv' BY DEF PlaceInv
<1>8. StoredInv' BY JournalIsSound DEF StoredInv
<1> QED BY <1>6, <1>7, <1>8 DEF Rest

\* ... that leaves the journal.
LEMMA SilentJobRest ==
  ASSUME PInv, pc = "slice", NEW i \in Slice, NEW s, To(i, s), job[i] # "failed",
         UNCHANGED <<j, pc, upto, stored>>, s = "settled" => Resultable(j, i)
  PROVE  Rest'
<1>1. SoundInv' /\ FreshInv' /\ AskInv' BY DEF PInv, Rest, SoundInv, FreshInv, AskInv
<1> QED BY <1>1, JobRest

\* ... that appends an event of its call.
LEMMA CallJobRest ==
  ASSUME PInv, pc = "slice", NEW i \in Slice, NEW s, NEW e, AppendFor(i, e, s), job[i] # "failed",
         e.type \in CallTypes \ {"effect_reconciled"}, e.call = i,
         e.type = "permission_decided" => e.decision \in {"allow", "deny"},
         s = "settled" =>
           LET c == CallAfter(j, e) IN
             \/ c.effect = "completed"
             \/ NoEffect(c) /\ (c.direct = j.run \/ c.perm = "deny")
  PROVE  Rest'
<1>1. Accept(e) /\ To(i, s) /\ UNCHANGED <<pc, upto, stored>> BY DEF AppendFor, command
<1>2. i \in DOMAIN j.calls BY SliceIsOfCalls DEF PInv
<1>3. /\ SoundInv' /\ FreshInv' /\ AskInv'
      /\ j' = [j EXCEPT !.calls = [j.calls EXCEPT ![i] = CallAfter(j, e)], !.fresh = FALSE]
      /\ \A k \in DOMAIN j.calls : k # i => j'.calls[k] = j.calls[k]
      /\ j'.calls[i] = CallAfter(j, e)
      /\ Active(j) /\ j.gate = "open"
  BY <1>1, <1>2, CallAccepted
<1>4. /\ j'.next = j.next /\ j'.run = j.run /\ j'.cause = j.cause
      /\ Active(j') /\ j'.gate = "open"
  BY <1>3, JournalIsSound DEF Projection, Active
<1>5. j.run > 0 BY <1>3, JournalIsSound
<1>6. s = "settled" => Resultable(j', i)
  BY <1>3, <1>4, <1>5, JournalIsSound DEF Resultable
<1> QED BY <1>1, <1>3, <1>4, <1>6, JobRest

\* ... that ends the run.
LEMMA InterruptRest ==
  ASSUME PInv, pc = "slice", NEW i \in Slice, NEW source, To(i, "failed"), job[i] # "failed",
         UNCHANGED <<pc, upto, stored>>, Accept(RunInterrupted(source))
  PROVE  Rest'
<1>1. /\ SoundInv' /\ FreshInv' /\ AskInv'
      /\ j' = [j EXCEPT !.status = "interrupted", !.fresh = FALSE]
  BY Interrupted
<1>2. j'.next = j.next /\ j'.run = j.run /\ j'.cause = j.cause /\ j'.calls = j.calls
  BY <1>1, JournalIsSound DEF Projection
<1> QED BY <1>1, <1>2, JobRest

LEMMA JobStepRest == ASSUME PInv, JobStep PROVE Rest'
<1>0. pc = "slice" BY DEF JobStep
<1>1. PICK i \in Slice :
        \/ Reject(i) \/ Permit(i) \/ PermitAsBefore(i) \/ Observe(i)
        \/ Prepare(i) \/ Execute(i) \/ PublishOutput(i) \/ Complete(i)
        \/ Doubt(i) \/ InterruptDoubted(i) \/ InterruptJob(i) \/ FailJob(i)
  BY DEF JobStep
<1>2. /\ i \in DOMAIN j.calls /\ j.calls[i] \in Call
      /\ j.calls[i].perm # "allow" => j.calls[i].effect = "none"
      /\ j.calls[i].kind = "invalid" => j.calls[i].perm = "none"
  BY <1>0, SliceIsOfCalls, JournalIsSound DEF PInv, Sound, CallsSound, Projection
<1>3. CASE Reject(i)
  <2>1. Resultable(j, i) BY <1>2, <1>3 DEF Reject, Resultable, NoEffect
  <2> QED BY <1>0, <1>3, <2>1, SilentJobRest DEF Reject, command
<1>4. CASE PermitAsBefore(i)
  <2>1. j.calls[i].perm = "deny" => Resultable(j, i) BY <1>2 DEF Resultable, NoEffect
  <2>2. PICK s \in {"settled", "allowed"} : To(i, s) /\ (s = "settled" => j.calls[i].perm = "deny")
    BY <1>4 DEF PermitAsBefore
  <2> QED BY <1>0, <1>4, <2>1, <2>2, SilentJobRest DEF PermitAsBefore, command
<1>5. CASE FailJob(i) BY <1>0, <1>5, SilentJobRest DEF FailJob, command
<1>6. CASE Execute(i) BY <1>0, <1>6, SilentJobRest DEF Execute, command
<1>7. CASE Permit(i)
  <2>1. PICK d \in {"allow", "deny"} :
          AppendFor(i, PermissionDecided(i, d), IF d = "deny" THEN "settled" ELSE "allowed")
    BY <1>7 DEF Permit, Decisions
  <2>2. CASE d = "allow"
    <3>1. AppendFor(i, PermissionDecided(i, d), "allowed") BY <2>1, <2>2
    <3> QED BY <1>0, <1>7, <2>2, <3>1, CallJobRest DEF Permit, PermissionDecided, CallTypes
  <2>3. CASE d = "deny"
    <3> DEFINE e == PermissionDecided(i, d)
    <3>1. AppendFor(i, e, "settled") BY <2>1, <2>3
    <3>2. e.type = "permission_decided" /\ e.call = i /\ e.decision = "deny"
      BY <2>3 DEF PermissionDecided
    <3> HIDE DEF e
    <3>3. j.calls[i].effect = "none" /\ job[i] # "failed" BY <1>2, <1>7 DEF Permit
    <3>4. CallAfter(j, e).effect = "none" /\ CallAfter(j, e).perm = "deny"
      BY <1>2, <3>2, <3>3 DEF CallAfter, Call
    <3> QED BY <1>0, <3>1, <3>2, <3>3, <3>4, CallJobRest DEF CallTypes, NoEffect
  <2> QED BY <2>2, <2>3
<1>8. CASE Observe(i)
  <2> DEFINE e == ResultPublished(i)
  <2>1. PICK s \in {"settled", "unread"} : AppendFor(i, e, s) /\ job[i] # "failed"
    BY <1>8 DEF Observe, ReadBack
  <2>2. e.type = "result_published" /\ e.call = i BY DEF ResultPublished
  <2> HIDE DEF e
  <2>3. NoEffect(j.calls[i]) BY <2>1, <2>2 DEF AppendFor, Accept, Admits
  <2>4. NoEffect(CallAfter(j, e)) /\ CallAfter(j, e).direct = j.run
    BY <1>2, <2>2, <2>3 DEF CallAfter, Call, NoEffect
  <2> QED BY <1>0, <2>1, <2>2, <2>4, CallJobRest DEF CallTypes
<1>9. CASE Complete(i)
  <2> DEFINE e == EffectCompleted(i)
  <2>1. PICK s \in {"settled", "unread"} : AppendFor(i, e, s) /\ job[i] # "failed"
    BY <1>9 DEF Complete, ReadBack
  <2>2. e.type = "effect_completed" /\ e.call = i BY DEF EffectCompleted
  <2> HIDE DEF e
  <2>3. CallAfter(j, e).effect = "completed" BY <1>2, <2>2 DEF CallAfter, Call
  <2> QED BY <1>0, <2>1, <2>2, <2>3, CallJobRest DEF CallTypes
<1>10. CASE Prepare(i)
  BY <1>0, <1>10, CallJobRest DEF Prepare, EffectPrepared, CallTypes
<1>11. CASE PublishOutput(i)
  BY <1>0, <1>11, CallJobRest DEF PublishOutput, OutputPublished, CallTypes
<1>12. CASE Doubt(i)
  BY <1>0, <1>12, CallJobRest DEF Doubt, EffectIndeterminate, CallTypes
<1>13. CASE InterruptDoubted(i)
  BY <1>0, <1>13, InterruptRest DEF InterruptDoubted, AppendFor, command
<1>14. CASE InterruptJob(i)
  <2> DEFINE e == RunInterrupted(j.calls[i].permRun)
  <2>1. To(i, "failed") /\ job[i] # "failed" /\ UNCHANGED <<pc, upto, stored>>
    BY <1>14 DEF InterruptJob, command
  <2>2. CASE Accept(e) BY <1>0, <2>1, <2>2, InterruptRest
  <2>3. CASE j' = j BY <1>0, <2>1, <2>3, SilentJobRest
  <2> QED BY <1>14, <2>2, <2>3 DEF InterruptJob, Accept
<1> QED
  BY <1>1, <1>3, <1>4, <1>5, <1>6, <1>7, <1>8, <1>9, <1>10, <1>11, <1>12, <1>13, <1>14

LEMMA SliceSettledRest == ASSUME PInv, SliceSettled PROVE Rest'
<1>1. pc = "slice" /\ pc' = "committing" /\ UNCHANGED <<j, stored, upto, job>>
  BY DEF SliceSettled, command
<1>2. \A i \in Slice : job[i] = "settled" BY DEF SliceSettled
<1>3. /\ Active(j) /\ j.gate = "open" /\ \A i \in Slice : Resultable(j, i)
  BY <1>1, <1>2 DEF PInv, Rest, SettledInv
<1>4. j.next + 1 <= upto /\ upto <= Len(j.calls) BY <1>1 DEF PInv, IInv, SliceInv
<1>5. SettledInv' BY <1>1, <1>3, <1>4 DEF SettledInv, Slice
<1>6. SoundInv' /\ FreshInv' /\ AskInv' /\ PlaceInv'
  BY <1>1 DEF PInv, Rest, SoundInv, FreshInv, AskInv, PlaceInv
<1>7. StoredInv' BY <1>1, JournalIsSound DEF StoredInv
<1> QED BY <1>5, <1>6, <1>7 DEF Rest

\* The caller of a slice that could not be completed.
LEMMA CallerRest == ASSUME PInv, SliceFailed \/ CommitFails PROVE Rest'
<1>1. j' = j /\ pc \in {"slice", "committing"} /\ CallerGoesOn BY DEF SliceFailed, CommitFails
<1>2. CASE Down BY <1>1, <1>2, EndRest DEF Unasked
<1>3. CASE pc' = "planning" /\ stored' = stored
  <2>1. SoundInv' /\ FreshInv' /\ AskInv'
    BY <1>1, <1>3 DEF PInv, Rest, SoundInv, FreshInv, AskInv
  <2> QED BY <1>1, <1>3, <2>1, JournalIsSound, RestOfPlan
<1> QED BY <1>1, <1>2, <1>3 DEF CallerGoesOn, command

LEMMA CommitResultRest == ASSUME PInv, CommitResult PROVE Rest'
<1>1. pc = "committing" /\ stored' = stored /\ Accept(ResultCommitted(j.next + 1))
  BY DEF CommitResult, command
<1>2. /\ SoundInv' /\ FreshInv' /\ AskInv'
      /\ j' = [j EXCEPT !.next = j.next + 1, !.blobs = j.blobs + 1,
                        !.tip = IF j.next + 1 = Len(j.calls) THEN "results" ELSE "assistant",
                        !.gate = IF j.next + 1 = Len(j.calls) THEN "boundary" ELSE "open",
                        !.fresh = FALSE]
      /\ Active(j) /\ j.gate = "open" /\ Pending(j)
  BY <1>1, Committed
<1>3. ~ stored' BY <1>1, JournalIsSound
<1>4. /\ j'.calls = j.calls /\ j'.next = j.next + 1 /\ j'.run = j.run /\ j'.cause = j.cause
      /\ Active(j') /\ j'.gate = (IF j.next + 1 = Len(j.calls) THEN "boundary" ELSE "open")
      /\ j.next \in Nat /\ Len(j.calls) \in Nat
  BY <1>2, JournalIsSound DEF Projection, Active
<1>5. CASE j.next + 1 < upto
  <2>1. pc' = pc /\ upto' = upto BY <1>5 DEF CommitResult
  <2>2. upto <= Len(j.calls) /\ (\A i \in Slice : Resultable(j, i)) /\ upto \in Nat
    BY <1>1 DEF PInv, Rest, SettledInv, IInv, TypeOK
  <2>3. j'.gate = "open" BY <1>4, <1>5, <2>2
  <2>4. \A i \in Slice' : i \in Slice BY <1>4, <2>1, <2>2 DEF Slice
  <2>5. \A i \in Slice' : Resultable(j', i)
    BY <1>4, <2>2, <2>4 DEF Resultable
  <2>6. SettledInv' BY <1>1, <1>4, <1>5, <2>1, <2>2, <2>3, <2>5 DEF SettledInv
  <2>7. PlaceInv' /\ StoredInv' BY <1>1, <1>3, <2>1 DEF PlaceInv, StoredInv
  <2> QED BY <1>2, <2>6, <2>7 DEF Rest
<1>6. CASE ~ (j.next + 1 < upto)
  <2>1. pc' \in {"tools", "planning"} BY <1>6 DEF CommitResult
  <2>2. j'.gate = (IF Pending(j') THEN "open" ELSE "boundary")
    BY <1>2, <1>4 DEF Pending
  <2>3. PlaceInv' BY <1>4, <2>1, <2>2 DEF PlaceInv
  <2> QED BY <1>2, <1>3, <2>1, <2>3, RestOfStep
<1> QED BY <1>5, <1>6

-----------------------------------------------------------------------------
(* All of it. *)

LEMMA InitRest == Init => Rest
<1> SUFFICES ASSUME Init PROVE Rest OBVIOUS
<1>1. /\ j.calls = << >> /\ j.next = 0 /\ j.status = "none" /\ j.gate = "open" /\ j.att = "none"
      /\ j.tip = "none" /\ j.run = 0 /\ j.blobs = 0 /\ j.bound = 0 /\ j.boundRun = 0
      /\ j.snap = 0 /\ j.fresh = FALSE
  BY DEF Init, EmptyJournal
<1>2. CallsSound(j) BY <1>1 DEF CallsSound
<1>3. GateSound(j) BY <1>1 DEF GateSound, Pending, Active, Answering, Waiting
<1>4. pc = "down" /\ ~ stored BY DEF Init
<1>5. SettledInv /\ PlaceInv /\ StoredInv BY <1>4 DEF SettledInv, PlaceInv, StoredInv
<1>6. FreshInv /\ AskInv BY <1>1 DEF FreshInv, AskInv, Active
<1> QED BY <1>2, <1>3, <1>5, <1>6 DEF Rest, SoundInv, Sound

LEMMA NextRest == PInv /\ [Next]_vars => Rest'
<1> SUFFICES ASSUME PInv, [Next]_vars PROVE Rest' OBVIOUS
<1>1. CASE UNCHANGED vars BY <1>1, FrameRest DEF vars
<1>2. CASE StartRun \/ ContinueRun BY <1>2, StartRunRest
<1>3. CASE Recover \/ Reconcile BY <1>3, StartRecoveryRest
<1>4. CASE TurnStep
  BY <1>4, CommitUserRest, BoundRest, StoreSnapshotRest, UseStoredRest, SendAttemptRest,
     SemanticStartsRest, AnswerRest, RequestFailsRest, LastRest, CheckpointRest, BoundAnswerRest,
     CompleteRunRest
  DEF TurnStep
<1>5. CASE RuntimeStep
  BY <1>5, JobStepRest, BeginSliceRest, SliceSettledRest, CallerRest, CommitResultRest
  DEF RuntimeStep
<1>6. CASE RecoveryStep
  BY <1>6, PlanAppendRest, PlanStoreRest, PlanSendRest, PlanDistrustRest, PlanStopRest,
     ResumeRecordedRest, BeginSliceRest, LastRest, ReconcileRest
  DEF RecoveryStep
<1>7. CASE Abort \/ Die \/ DieTorn BY <1>7, AbortRest, DieRest
<1> QED BY <1>1, <1>2, <1>3, <1>4, <1>5, <1>6, <1>7 DEF Next

LEMMA InductivePlan == Spec => []PInv
<1>1. Init => PInv BY InitIInv, InitRest DEF PInv
<1>2. PInv /\ [Next]_vars => PInv' BY NextKeeps, NextRest DEF PInv
<1> QED BY <1>1, <1>2, PTL DEF Spec

-----------------------------------------------------------------------------
(* What is admitted, and why. *)

\* What the gates let through.
LEMMA GatesLet ==
  /\ \A t \in EventTypes : t \in GateAdmits["open"]
  /\ "cache_checkpoint_created" \in GateAdmits["checkpoint"]
  /\ "cache_checkpoint_created" \in GateAdmits["final_checkpoint"]
  /\ "commit_boundary_created" \in GateAdmits["boundary"]
  /\ "commit_boundary_created" \in GateAdmits["final_boundary"]
  /\ "run_interrupted" \in GateAdmits["must_interrupt"]
  /\ "run_interrupted" \in GateAdmits["retry"]
  /\ "request_attempt_started" \in GateAdmits["retry"]
  /\ "run_completed" \in GateAdmits["final_complete"]
BY DEF GateAdmits

\* Without open attempt and missing results, nothing is unsettled.
LEMMA SoundIsClosed ==
  ASSUME NEW J \in Projection, Sound(J), J.att = "none", ~ Pending(J)
  PROVE  Closed(J)
<1>1. \A i \in DOMAIN J.calls : i <= J.next BY DEF Pending, Projection
<1>2. \A i \in DOMAIN J.calls : J.calls[i].effect \notin {"prepared", "indeterminate"}
  BY <1>1 DEF Sound, CallsSound
<1> QED BY <1>2 DEF Closed, Effect

\* A run that waits for nothing or for a retry may end.
LEMMA InterruptAdmitted ==
  ASSUME NEW J \in Projection, Active(J), J.gate \in Waiting, J.att = "none"
  PROVE  Admits(J, RunInterrupted(J.run))
BY GatesLet DEF Admits, RunInterrupted, Waiting, EventTypes

LEMMA BoundaryAdmitted ==
  ASSUME NEW J \in Projection, Sound(J), Active(J), J.gate \in {"boundary", "final_boundary"}
  PROVE  Admits(J, BoundaryCreated)
<1>1. J.att = "none" /\ ~ Pending(J) /\ J.bound # J.blobs
  BY DEF Sound, GateSound, Answering, Projection
<1> QED BY <1>1, SoundIsClosed, GatesLet DEF Admits, BoundaryCreated

LEMMA CompletionAdmitted ==
  ASSUME NEW J \in Projection, Sound(J), Active(J), J.gate = "final_complete"
  PROVE  Admits(J, RunCompleted)
<1>1. J.att = "none" /\ ~ Pending(J) BY DEF Sound, GateSound
<1> QED BY <1>1, SoundIsClosed, GatesLet DEF Admits, RunCompleted

LEMMA CheckpointAdmitted ==
  ASSUME NEW J \in Projection, Active(J), J.gate \in {"checkpoint", "final_checkpoint"}
  PROVE  Admits(J, CheckpointCreated)
BY GatesLet DEF Admits, CheckpointCreated

LEMMA SnapshotAdmitted ==
  ASSUME NEW J \in Projection, Sound(J), Active(J), J.gate = "open", J.att = "none",
         ~ Pending(J), J.tip # "none", NEW m,
         m = "fresh" => /\ J.snap = 0
                        /\ \/ J.boundRun = J.run /\ J.fresh
                           \/ J.boundRun # J.run /\ J.cause = "recovery",
         m = "alias" => J.snap \notin {0, J.run} /\ J.cause = "recovery"
  PROVE  Admits(J, SnapshotStored(m))
<1>1. Closed(J) BY SoundIsClosed
<1>2. J.bound = J.blobs /\ J.bound > 0 BY DEF Sound, GateSound, Waiting
<1>3. AdmitsSnapshot(J, m) BY <1>1, <1>2 DEF AdmitsSnapshot
<1>4. "request_snapshot_stored" \in GateAdmits[J.gate] BY GatesLet DEF EventTypes
<1> QED BY <1>3, <1>4 DEF Admits, SnapshotStored

LEMMA ResultAdmitted ==
  ASSUME NEW J \in Projection, Active(J), J.gate = "open", Pending(J),
         Resultable(J, J.next + 1)
  PROVE  Admits(J, ResultCommitted(J.next + 1))
<1>1. AdmitsResult(J, J.next + 1) BY DEF AdmitsResult, Resultable
<1>2. "tool_result_committed" \in GateAdmits[J.gate] BY GatesLet DEF EventTypes
<1> QED BY <1>1, <1>2 DEF Admits, ResultCommitted

\* Plans that wait for the gate.
LEMMA GatePlans ==
  ASSUME NEW J \in Projection, Sound(J),
         Plan(J) \in {"append_checkpoint", "append_boundary", "complete_run"}
  PROVE  Active(J) /\ J.gate \in DOMAIN GateStep /\ Plan(J) = GateStep[J.gate]
<1>1. /\ J.tip # "none" /\ J.status \notin {"completed", "interrupted"}
      /\ J.gate \in DOMAIN GateStep /\ Plan(J) = GateStep[J.gate]
  BY DEF Plan, HasUser, PlanOpen
<1> QED BY <1>1 DEF Sound, GateSound, Projection, Statuses, Active

\* A plan to settle an effect.
LEMMA MarkPlans ==
  ASSUME NEW J \in Projection, Sound(J), Plan(J) = "mark_effect_indeterminate"
  PROVE  Active(J) /\ J.gate \in {"open", "retry"} /\ Effect(J, "prepared") # {}
<1>1. /\ J.tip # "none" /\ J.status \notin {"completed", "interrupted"}
      /\ J.gate \notin DOMAIN GateStep /\ Plan(J) = PlanOpen(J)
  BY DEF Plan, HasUser, GateStep
<1>2. Effect(J, "prepared") # {} BY <1>1 DEF PlanOpen
<1>3. Active(J) BY <1>1 DEF Sound, GateSound, Projection, Statuses, Active
<1> QED BY <1>1, <1>2, <1>3, GateNames DEF GateStep, Projection

\* A plan to end the run.
LEMMA InterruptPlans ==
  ASSUME NEW J \in Projection, Sound(J), Plan(J) = "interrupt_run"
  PROVE  Active(J) /\ J.gate \in Waiting /\ J.att = "none"
<1>1. CASE J.tip = "none"
  <2>1. Active(J) BY <1>1 DEF Plan, HasUser
  <2>2. /\ Len(J.calls) = 0 /\ J.blobs = 0 /\ J.snap = 0 /\ J.run # 0 /\ J.bound <= J.blobs
        /\ J.run \in Nat /\ J.bound \in Nat /\ J.next \in Nat
    BY <1>1, <2>1 DEF Sound, GateSound, Projection, Active
  <2>3. ~ Pending(J) BY <2>2 DEF Pending
  <2>4. J.att = "none" BY <2>2 DEF Sound, GateSound
  <2>5. J.gate \in Waiting
    BY <1>1, <2>1, <2>2, <2>3, GateNames DEF Sound, GateSound, Answering, Waiting, Projection
  <2> QED BY <2>1, <2>4, <2>5
<1>2. CASE J.tip # "none"
  <2>1. J.status \notin {"completed", "interrupted"} /\ J.att = "none"
        /\ (J.gate \in DOMAIN GateStep => GateStep[J.gate] = "interrupt_run")
    BY <1>2 DEF Plan, HasUser
  <2>2. Active(J) BY <1>2, <2>1 DEF Sound, GateSound, Projection, Statuses, Active
  <2>3. J.gate \in Waiting BY <2>1, GateNames DEF GateStep, Waiting, Projection
  <2> QED BY <2>1, <2>2, <2>3
<1> QED BY <1>1, <1>2

\* An admitted event is one of those there are.
LEMMA AdmittedTypes ==
  ASSUME NEW J \in Projection, NEW e, Admits(J, e)
  PROVE  e.type \in EventTypes
<1>1. CASE Active(J)
  <2>1. e.type \in GateAdmits[J.gate] \cup {"journal_tail_recovered"} BY <1>1 DEF Admits
  <2> QED BY <2>1, GateNames DEF GateAdmits, EventTypes, Projection
<1>2. CASE ~ Active(J)
  <2>1. e.type \in {"run_started", "journal_tail_recovered"} BY <1>2 DEF Admits
  <2> QED BY <2>1 DEF EventTypes
<1> QED BY <1>1, <1>2

\* Every step appends one event, or none.
LEMMA StepsAppend ==
  ASSUME [Next]_vars
  PROVE  j' = j \/ \E e : Accept(e)
<1>1. CASE UNCHANGED vars BY <1>1 DEF vars
<1>2. CASE StartRun \/ ContinueRun BY <1>2 DEF StartRun, ContinueRun, Step
<1>3. CASE Recover \/ Reconcile BY <1>3 DEF Recover, Reconcile, StartRecovery
<1>4. CASE TurnStep
  BY <1>4
  DEF TurnStep, CommitUser, BoundUser, StoreSnapshot, UseStored, SendAttempt, SemanticStarts,
      Answer, RequestFails, GiveUp, Checkpoint, BoundAnswer, CompleteRun, BoundResults, Cancel,
      Step, Last
<1>5. CASE RuntimeStep
  <2>1. CASE JobStep
    <3>1. PICK i \in Slice :
            \/ Reject(i) \/ Permit(i) \/ PermitAsBefore(i) \/ Observe(i)
            \/ Prepare(i) \/ Execute(i) \/ PublishOutput(i) \/ Complete(i)
            \/ Doubt(i) \/ InterruptDoubted(i) \/ InterruptJob(i) \/ FailJob(i)
      BY <2>1 DEF JobStep
    <3>2. CASE InterruptJob(i) BY <3>2 DEF InterruptJob, Accept
    <3> QED
      BY <3>1, <3>2
      DEF Reject, Permit, PermitAsBefore, Observe, Prepare, Execute, PublishOutput, Complete,
          Doubt, InterruptDoubted, FailJob, AppendFor
  <2> QED
    BY <1>5, <2>1
    DEF RuntimeStep, NextSlice, SliceSettled, SliceFailed, CommitResult, CommitFails
<1>6. CASE RecoveryStep
  BY <1>6
  DEF RecoveryStep, PlanAppend, PlanStore, PlanSend, PlanDistrust, PlanStop, PlanEnd,
      ResumeRecorded, ResumeExecute, ResumeCancelled, ReconcileOutput, ReconcileCompleted,
      ReconcileNotExecuted, Settle, Step, Last
<1>7. CASE Abort \/ Die \/ DieTorn BY <1>7 DEF Abort, Die, DieTorn
<1> QED BY <1>1, <1>2, <1>3, <1>4, <1>5, <1>6, <1>7 DEF Next

\* The events that end an attempt.
LEMMA AttemptEnds ==
  ASSUME NEW J \in Projection, NEW e, e.type \in EventTypes,
         e.type \notin {"assistant_committed", "request_interrupted"}, J.att # "none"
  PROVE  After(J, e).att # "none"
<1>1. Adds(J, e).att # "none"
  <2>1. CASE e.type \in CallTypes
    <3>1. Adds(J, e).att = J.att BY <2>1 DEF Adds, CallTypes, Projection
    <3> QED BY <3>1
  <2>2. CASE e.type \in {"commit_boundary_created", "tool_result_committed"}
    BY <2>2 DEF Adds, AfterBoundary, AfterResult, Projection
  <2>3. CASE e.type \in EventTypes \ (CallTypes \cup {"commit_boundary_created",
               "tool_result_committed", "assistant_committed", "request_interrupted"})
    BY <2>3 DEF Adds, EventTypes, CallTypes, Projection
  <2> QED BY <2>1, <2>2, <2>3
<1> QED BY <1>1 DEF After

\* The events that are not heard in the conversation.
LEMMA Unheard ==
  ASSUME NEW J \in Projection, NEW e, e.type \in EventTypes,
         e.type \notin {"user_committed", "assistant_committed", "tool_result_committed"}
  PROVE  /\ After(J, e).tip = J.tip /\ After(J, e).next = J.next
         /\ DOMAIN After(J, e).calls = DOMAIN J.calls
<1>1. /\ Adds(J, e).tip = J.tip /\ Adds(J, e).next = J.next
      /\ DOMAIN Adds(J, e).calls = DOMAIN J.calls
  <2>1. CASE e.type \in CallTypes
    <3>1. CASE e.type = "permission_decided" BY <3>1 DEF Adds, Projection
    <3>2. CASE e.type = "effect_prepared" BY <3>2 DEF Adds, Projection
    <3>3. CASE e.type \in CallTypes \ {"permission_decided", "effect_prepared"}
      BY <3>3 DEF Adds, CallTypes, Projection
    <3> QED BY <2>1, <3>1, <3>2, <3>3
  <2>2. CASE e.type \in {"commit_boundary_created", "request_interrupted"}
    BY <2>2 DEF Adds, AfterBoundary, AfterFailure, Projection
  <2>3. CASE e.type \in EventTypes \ (CallTypes \cup {"commit_boundary_created",
               "request_interrupted", "user_committed", "assistant_committed",
               "tool_result_committed"})
    BY <2>3 DEF Adds, EventTypes, CallTypes, Projection
  <2> QED BY <2>1, <2>2, <2>3
<1> QED BY <1>1 DEF After, Projection

-----------------------------------------------------------------------------
(* The theorems. *)

\* The kernel's account of where the run is agrees with the journal's: no
\* append of a turn is refused.
THEOREM KernelAppendsAdmittedHolds == Spec => []KernelAppendsAdmitted
<1>1. PInv => KernelAppendsAdmitted
  <2> SUFFICES ASSUME PInv, NEW e \in DueEvents PROVE Admits(j, e) BY DEF KernelAppendsAdmitted
  <2>1. j \in Projection /\ Sound(j) /\ PlaceInv BY JournalIsSound DEF PInv, Rest
  <2>2. CASE pc = "asking"
    <3>1. e = UserCommitted BY <2>2 DEF DueEvents
    <3>2. Active(j) /\ j.gate = "open" /\ Closed(j) BY <2>1, <2>2, SoundIsClosed DEF PlaceInv
    <3> QED BY <3>1, <3>2, GatesLet DEF Admits, UserCommitted, EventTypes
  <2>3. CASE pc \in {"bounding", "ending"}
    <3>1. e = BoundaryCreated BY <2>3 DEF DueEvents
    <3> QED BY <2>1, <2>3, <3>1, BoundaryAdmitted DEF PlaceInv
  <2>4. CASE pc = "ready"
    <3>1. \/ e = RunInterrupted(j.run)
          \/ e = SnapshotStored("fresh") /\ ~ stored
      BY <2>4 DEF DueEvents
    <3>2. /\ Active(j) /\ j.gate = "open" /\ j.att = "none" /\ ~ Pending(j) /\ j.tip # "none"
          /\ ~ stored => j.snap = 0 /\ j.boundRun = j.run /\ j.fresh
      BY <2>1, <2>4 DEF PlaceInv
    <3>3. Admits(j, RunInterrupted(j.run)) BY <2>1, <3>2, InterruptAdmitted DEF Waiting
    <3>4. ~ stored => Admits(j, SnapshotStored("fresh")) BY <2>1, <3>2, SnapshotAdmitted
    <3> QED BY <3>1, <3>3, <3>4
  <2>5. CASE pc = "sending"
    <3>1. e \in {AttemptStarted, RunInterrupted(j.run)} BY <2>5 DEF DueEvents
    <3>2. /\ Active(j) /\ j.att = "none" /\ ~ Pending(j) /\ j.snap = j.run
          /\ (j.gate = "open" /\ j.tries = 0) \/ j.gate = "retry"
      BY <2>1, <2>5 DEF PlaceInv
    <3>3. Admits(j, RunInterrupted(j.run)) BY <2>1, <3>2, InterruptAdmitted DEF Waiting
    <3>4. AdmitsAttempt(j)
      <4>1. j.gate = "retry" => j.tries # 0 BY <2>1, <3>2 DEF Sound, GateSound, Projection
      <4> QED BY <2>1, <3>2, <4>1, SoundIsClosed DEF AdmitsAttempt
    <3>5. Admits(j, AttemptStarted)
      BY <3>2, <3>4, GatesLet DEF Admits, AttemptStarted, EventTypes
    <3> QED BY <3>1, <3>3, <3>5
  <2>6. CASE pc = "giving_up"
    <3>1. e = RunInterrupted(j.run) BY <2>6 DEF DueEvents
    <3>2. Active(j) /\ j.gate \in Waiting /\ j.att = "none"
      BY <2>1, <2>6 DEF PlaceInv, Sound, GateSound, Waiting
    <3> QED BY <2>1, <3>1, <3>2, InterruptAdmitted
  <2>7. CASE pc = "checkpointing"
    <3>1. e = CheckpointCreated BY <2>7 DEF DueEvents
    <3> QED BY <2>1, <2>7, <3>1, CheckpointAdmitted DEF PlaceInv
  <2>8. CASE pc = "completing"
    <3>1. e = RunCompleted BY <2>8 DEF DueEvents
    <3> QED BY <2>1, <2>8, <3>1, CompletionAdmitted DEF PlaceInv
  <2>9. CASE pc = "tools" /\ Pending(j)
    <3>1. e = RunInterrupted(j.run) BY <2>9 DEF DueEvents
    <3>2. Active(j) /\ j.gate \in Waiting /\ j.att = "none"
      BY <2>1, <2>9 DEF PlaceInv, Sound, GateSound, Waiting
    <3> QED BY <2>1, <3>1, <3>2, InterruptAdmitted
  <2>10. CASE pc = "tools" /\ ~ Pending(j)
    <3>1. e = BoundaryCreated BY <2>10 DEF DueEvents
    <3> QED BY <2>1, <2>10, <3>1, BoundaryAdmitted DEF PlaceInv
  <2>11. CASE pc = "committing"
    <3>1. e = ResultCommitted(j.next + 1) BY <2>11 DEF DueEvents
    <3>2. /\ Active(j) /\ j.gate = "open" /\ j.next + 1 <= upto /\ upto <= Len(j.calls)
          /\ \A i \in Slice : Resultable(j, i)
      BY <2>11 DEF PInv, Rest, SettledInv
    <3>3. j.next \in Nat /\ Len(j.calls) \in Nat /\ upto \in Nat
      BY <2>1, CallsHaveSlots DEF Projection, PInv, IInv, TypeOK
    <3>4. Pending(j) /\ j.next + 1 \in Slice BY <3>2, <3>3 DEF Pending, Slice
    <3> QED BY <2>1, <3>1, <3>2, <3>4, ResultAdmitted
  <2>12. pc \in {"asking", "bounding", "ending", "ready", "sending", "giving_up",
                 "checkpointing", "completing", "tools", "committing"}
    BY DEF DueEvents
  <2> QED
    BY <2>2, <2>3, <2>4, <2>5, <2>6, <2>7, <2>8, <2>9, <2>10, <2>11, <2>12
<1> QED BY <1>1, InductivePlan, PTL

\* Whatever a command left behind, the step that is planned is one the journal
\* admits; only a torn append behind a recovery run's boundary can spoil that.
THEOREM PlannedStepIsAdmittedHolds == ASSUME CleanTails PROVE Spec => []PlannedStepIsAdmitted
<1>1. PInv => PlannedStepIsAdmitted
  <2> SUFFICES ASSUME PInv, Appends(j), pc = "planning" PROVE Admits(j, StepEvent(j))
    BY DEF PlannedStepIsAdmitted
  <2> DEFINE e == StepEvent(j)
  <2>1. j \in Projection /\ Sound(j) BY JournalIsSound
  <2>2. CASE Plan(j) = "interrupt_run"
    <3>1. e = RunInterrupted(j.run) BY <2>2 DEF StepEvent
    <3>2. Active(j) /\ j.gate \in Waiting /\ j.att = "none" BY <2>1, <2>2, InterruptPlans
    <3> QED BY <2>1, <3>1, <3>2, InterruptAdmitted
  <2>3. CASE Plan(j) = "start_recovery_run"
    <3>1. e = RunStarted("recovery") BY <2>3 DEF StepEvent
    <3>2. j.status = "interrupted" BY <2>3 DEF Plan, PlanOpen, GateStep
    <3> QED BY <3>1, <3>2 DEF Admits, AdmitsRun, RunStarted, Active
  <2>4. CASE Plan(j) = "close_open_attempt"
    <3>1. j.att # "none" BY <2>4 DEF Plan, PlanOpen, GateStep
    <3>2. Active(j) /\ j.gate = "open" BY <3>1, Awaited
    <3>3. PICK s \in {"post_semantic", "semantic_state_unknown"} :
            e = RequestInterrupted(s) /\ (s = "post_semantic" => j.att = "semantic")
      BY <2>4 DEF StepEvent
    <3> QED BY <3>1, <3>2, <3>3, GatesLet DEF Admits, RequestInterrupted, EventTypes
  <2>5. CASE Plan(j) \in {"append_checkpoint", "append_boundary", "complete_run"}
    <3>1. Active(j) /\ Plan(j) = GateStep[j.gate] /\ j.gate \in DOMAIN GateStep
      BY <2>1, <2>5, GatePlans
    <3>2. CASE Plan(j) = "append_checkpoint"
      <4>1. j.gate \in {"checkpoint", "final_checkpoint"} BY <3>1, <3>2 DEF GateStep
      <4> QED BY <2>1, <3>1, <3>2, <4>1, CheckpointAdmitted DEF StepEvent
    <3>3. CASE Plan(j) = "append_boundary"
      <4>1. j.gate \in {"boundary", "final_boundary"} BY <3>1, <3>3 DEF GateStep
      <4> QED BY <2>1, <3>1, <3>3, <4>1, BoundaryAdmitted DEF StepEvent
    <3>4. CASE Plan(j) = "complete_run"
      <4>1. j.gate = "final_complete" BY <3>1, <3>4 DEF GateStep
      <4> QED BY <2>1, <3>1, <3>4, <4>1, CompletionAdmitted DEF StepEvent
    <3> QED BY <2>5, <3>2, <3>3, <3>4
  <2>6. CASE Plan(j) = "mark_effect_indeterminate"
    <3> DEFINE i == TheOne(Effect(j, "prepared"))
    <3>1. /\ Active(j) /\ j.gate \in {"open", "retry"} /\ Effect(j, "prepared") # {}
      BY <2>1, <2>6, MarkPlans
    <3>2. i \in DOMAIN j.calls /\ j.calls[i].effect = "prepared" BY <3>1 DEF TheOne, Effect
    <3>3. Pending(j)
      <4>1. ~ (i <= j.next) BY <2>1, <3>2 DEF Sound, CallsSound
      <4> QED BY <2>1, <3>2, <4>1 DEF Pending, Projection
    <3>4. j.gate = "open" BY <2>1, <3>1, <3>3 DEF Sound, GateSound
    <3>5. e = EffectIndeterminate(i) BY <2>6 DEF StepEvent
    <3> QED BY <3>1, <3>2, <3>4, <3>5, GatesLet DEF Admits, EffectIndeterminate, EventTypes
  <2>7. CASE Plan(j) = "store_snapshot"
    <3>1. e = SnapshotStored(SnapshotMode(j)) BY <2>7 DEF StepEvent
    <3>2. /\ Active(j) /\ j.gate = "open" /\ j.att = "none" /\ j.tip # "none"
          /\ j.cause = "recovery" /\ ~ Pending(j) /\ j.snap # j.run
      BY <2>1, <2>7, OpenPlans, StoringPlans
    <3>3. j.boundRun = j.run /\ j.snap = 0 => j.fresh BY <3>2 DEF PInv, Rest, FreshInv
    <3> QED BY <2>1, <3>1, <3>2, <3>3, SnapshotAdmitted DEF SnapshotMode
  <2>8. CASE Plan(j) = "resume_tool" /\ ResumeMode(j) # "execute"
    <3>1. e = ResultCommitted(j.next + 1) BY <2>8 DEF StepEvent
    <3>2. Active(j) /\ j.gate = "open" /\ Pending(j) /\ j.cause = "recovery"
      <4>1. Active(j) /\ j.gate \in {"open", "retry"} /\ Plan(j) = PlanOpen(j) /\ j.cause = "recovery"
        BY <2>1, <2>8, OpenPlans
      <4>2. Pending(j) BY <2>8, <4>1 DEF PlanOpen
      <4> QED BY <2>1, <4>1, <4>2 DEF Sound, GateSound
    <3>3. Resultable(j, j.next + 1) BY <2>8, <3>2 DEF ResumeMode, Due, Resultable, NoEffect
    <3> QED BY <2>1, <3>1, <3>2, <3>3, ResultAdmitted
  <2> QED BY <2>2, <2>3, <2>4, <2>5, <2>6, <2>7, <2>8 DEF Appends, AppendSteps
<1> QED BY <1>1, InductivePlan, PTL

\* Once an answer has begun, the run asks for no second one.
THEOREM NoRetryAfterSemanticHolds == Spec => NoRetryAfterSemantic
<1> DEFINE Safe ==
      j.att = "semantic" /\ j'.att = "none" =>
        \/ j'.tip = "assistant" /\ j'.blobs > j.blobs
        \/ /\ Plan(j') = "interrupt_run"
           /\ \A e \in {AttemptStarted, SnapshotStored("fresh"), SnapshotStored("alias"),
                       AssistantCommitted(<< >>), UserCommitted} : ~ Admits(j', e)
<1>1. PInv /\ [Next]_vars => Safe
  <2> SUFFICES ASSUME PInv, [Next]_vars, j.att = "semantic", j'.att = "none"
               PROVE  \/ j'.tip = "assistant" /\ j'.blobs > j.blobs
                      \/ /\ Plan(j') = "interrupt_run"
                         /\ \A e \in {AttemptStarted, SnapshotStored("fresh"),
                                     SnapshotStored("alias"), AssistantCommitted(<< >>),
                                     UserCommitted} : ~ Admits(j', e)
    OBVIOUS
  <2>1. PICK e : Admits(j, e) /\ j' = After(j, e) BY StepsAppend DEF Accept
  <2>2. e.type \in EventTypes BY <2>1, JournalIsSound, AdmittedTypes
  <2>3. e.type \in {"assistant_committed", "request_interrupted"}
    BY <2>1, <2>2, JournalIsSound, AttemptEnds
  <2>4. CASE e.type = "assistant_committed"
    <3>1. j'.tip = "assistant" /\ j'.blobs = j.blobs + 1
      BY <2>1, <2>4, JournalIsSound DEF After, Adds, AfterAssistant, Projection
    <3> QED BY <3>1, JournalIsSound
  <2>5. CASE e.type = "request_interrupted"
    <3>1. e.semantic # "pre_semantic" BY <2>1, <2>5 DEF Admits
    <3>2. j' = [j EXCEPT !.att = "none", !.gate = "must_interrupt", !.fresh = FALSE]
      BY <2>1, <2>5, <3>1, JournalIsSound DEF After, Adds, AfterFailure, Projection
    <3>3. /\ Active(j') /\ j'.gate = "must_interrupt" /\ j'.tip # "none" /\ j'.att = "none"
          /\ j'.status = "active"
      BY <3>2, JournalIsSound, Awaited DEF Projection, Active
    <3>4. Plan(j') = "interrupt_run" BY <3>3 DEF Plan, HasUser, GateStep
    <3>5. \A d : Admits(j', d) => d.type \in {"run_interrupted", "journal_tail_recovered"}
      BY <3>3 DEF Admits, GateAdmits
    <3>6. \A d \in {AttemptStarted, SnapshotStored("fresh"), SnapshotStored("alias"),
                    AssistantCommitted(<< >>), UserCommitted} : ~ Admits(j', d)
      BY <3>5 DEF AttemptStarted, SnapshotStored, AssistantCommitted, UserCommitted
    <3> QED BY <3>4, <3>6
  <2> QED BY <2>3, <2>4, <2>5
<1>2. PInv /\ [Next]_vars => [Safe]_vars BY <1>1
<1> QED BY <1>2, InductivePlan, PTL DEF Spec, NoRetryAfterSemantic

\* A session is a conversation: whatever interrupts it, the model answers a
\* user's message or a complete set of results, and nothing else.
THEOREM SessionImplementsConversation ==
  ASSUME CleanContinue PROVE Spec => ImplementsConversation
<1>1. Init => Dialogue!Init
  <2> SUFFICES ASSUME Init PROVE Dialogue!Init OBVIOUS
  <2>1. j.tip = "none" /\ j.calls = << >> /\ j.next = 0 BY DEF Init, EmptyJournal
  <2> QED BY <2>1 DEF Dialogue!Init, turn, pending
<1>2. PInv /\ PInv' /\ [Next]_vars => [Dialogue!Next]_<<turn, pending>>
  <2> SUFFICES ASSUME PInv, PInv', [Next]_vars
               PROVE  Dialogue!Next \/ UNCHANGED <<turn, pending>>
    OBVIOUS
  <2>1. CASE j' = j BY <2>1 DEF turn, pending, Pending
  <2>2. ASSUME NEW e, Admits(j, e), j' = After(j, e)
        PROVE  Dialogue!Next \/ UNCHANGED <<turn, pending>>
    <3> DEFINE n == Len(j.calls)
               k == Len(j'.calls)
    <3>1. /\ j \in Projection /\ Sound(j) /\ e.type \in EventTypes
          /\ j' \in Projection /\ Len(j'.calls) <= MaxCalls /\ MaxCalls \in Nat
      BY <2>2, JournalIsSound, AdmittedTypes, MaxCallsAssumption DEF PInv, IInv, TypeOK, CallsInv
    <3>2. /\ j.next \in Nat /\ n \in Nat /\ j.next <= n /\ k \in Nat /\ k <= MaxCalls
          /\ n = k <=> DOMAIN j.calls = DOMAIN j'.calls
      BY <3>1 DEF Sound, GateSound, Projection
    <3>3. CASE e.type = "user_committed"
      <4>1. j'.tip = "user" /\ j'.calls = j.calls /\ j'.next = j.next
        BY <2>2, <3>1, <3>3 DEF After, Adds, Projection
      <4>2. ~ Pending(j) BY <2>2, <3>3 DEF Admits, Closed
      <4>3. pending = 0 BY <3>2, <4>2 DEF Pending, pending
      <4>4. turn' = "model" /\ pending' = pending BY <4>1 DEF turn, pending
      <4> QED BY <4>3, <4>4 DEF Dialogue!Next, Dialogue!UserSpeaks
    <3>4. CASE e.type = "assistant_committed"
      <4>1. j'.tip = "assistant" /\ j'.next = 0
        <5> DEFINE A == AfterAssistant(j, e.kinds)
        <5>1. A.tip = "assistant" /\ A.next = 0 /\ DOMAIN A = DOMAIN j
          BY <3>1 DEF AfterAssistant, Projection
        <5>2. j' = [A EXCEPT !.fresh = FALSE] BY <2>2, <3>4 DEF After, Adds
        <5> HIDE DEF A
        <5> QED BY <3>1, <5>1, <5>2 DEF Projection
      <4>2. j.att # "none" BY <2>2, <3>4 DEF Admits
      <4>3. j.tip \in {"user", "results"} BY <3>1, <4>2, Awaited DEF Projection
      <4>4. turn = "model" BY <4>3 DEF turn
      <4>5. pending' = k /\ turn' = (IF k = 0 THEN "answered" ELSE "tools")
        BY <3>2, <4>1 DEF pending, turn, Pending
      <4>6. k \in 0..MaxCalls BY <3>1, <3>2
      <4> HIDE DEF k
      <4>7. Dialogue!ModelAnswers BY <4>4, <4>5, <4>6 DEF Dialogue!ModelAnswers
      <4> QED BY <4>7 DEF Dialogue!Next
    <3>5. CASE e.type = "tool_result_committed"
      <4>1. /\ j'.tip = (IF j.next + 1 = n THEN "results" ELSE "assistant")
            /\ j'.calls = j.calls /\ j'.next = j.next + 1
        <5>1. Adds(j, e) = AfterResult(j) BY <3>5 DEF Adds
        <5>2. j' = [AfterResult(j) EXCEPT !.fresh = FALSE] BY <2>2, <3>5, <5>1 DEF After
        <5> QED BY <3>1, <5>2 DEF AfterResult, Projection
      <4>2. Pending(j) BY <2>2, <3>5 DEF Admits, AdmitsResult
      <4>3. turn = "tools" BY <3>1, <4>2 DEF turn, Sound, GateSound
      <4>4. pending = n - j.next /\ pending' = n - (j.next + 1) BY <4>1 DEF pending
      <4>5. Pending(j') <=> j.next + 1 < n BY <4>1 DEF Pending
      <4>6. turn' = (IF j.next + 1 = n THEN "model" ELSE "tools")
        BY <3>2, <4>1, <4>2, <4>5 DEF turn, Pending
      <4>7. Dialogue!ResultComes BY <3>2, <4>3, <4>4, <4>6 DEF Dialogue!ResultComes
      <4> QED BY <4>7 DEF Dialogue!Next
    <3>6. CASE e.type \notin {"user_committed", "assistant_committed", "tool_result_committed"}
      <4>1. j'.tip = j.tip /\ j'.next = j.next /\ n = k BY <2>2, <3>1, <3>2, <3>6, Unheard
      <4> QED BY <4>1 DEF turn, pending, Pending
    <3> QED BY <3>3, <3>4, <3>5, <3>6
  <2> QED BY <2>1, <2>2, StepsAppend DEF Accept
<1> QED BY <1>1, <1>2, InductivePlan, PTL DEF Spec, ImplementsConversation, Dialogue!Spec

================================================================================
