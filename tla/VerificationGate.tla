-------------------------- MODULE VerificationGate --------------------------
(***************************************************************************)
(* The declared check of `flashcoder run` (src/src/verify/gate.ts,         *)
(* src/src/cli/verify.ts) and the loop of turns around it (the command     *)
(* "run" of src/src/cli.ts, withAutoResume, withTruncationContinuation).   *)
(*                                                                         *)
(* The paths the check depends on are inventoried once, before the model   *)
(* has run.  Each turn that completes is followed by a measurement: the    *)
(* inventory is taken again, then the command runs, then the verdict is    *)
(* recorded in the journal and handed to the loop, which may give the      *)
(* model another turn.                                                     *)
(*                                                                         *)
(* The workspace is a tree of paths that the model changes during a turn   *)
(* and that somebody else may change at any time.  What the command says   *)
(* is a choice.  `judged` is what the last check really saw, which nobody  *)
(* in the program keeps.                                                   *)
(***************************************************************************)
EXTENDS Naturals, Sequences, FiniteSets

CONSTANTS
  Paths,          \* the paths of the workspace
  Under,          \* Under[p]: the entries of p when it is a directory
  Protected,      \* protectedPaths
  Contents,       \* the contents a file may have
  Start,          \* the tree when the command begins
  Others,         \* bound: changes made by somebody else
  MAX_VERIFICATION_RETRIES,
  MAX_TRUNCATION_CONTINUATIONS,
  MAX_AUTO_RESUMES,
  None

ASSUME ProtectedAssumption == Protected \subseteq Paths
ASSUME UnderAssumption     == Under \in [Paths -> SUBSET Paths]
ASSUME StartAssumption     == Start \in [Paths -> Contents \cup {"dir", "missing"}]
\* Directories do not contain themselves, and nothing is in a file.
ASSUME TreeAssumption ==
  /\ \A S \in (SUBSET Paths) \ {{}} : \E p \in S : Under[p] \cap S = {}
  /\ \A p \in Paths : Start[p] # "dir" => \A q \in Under[p] : Start[q] = "missing"
ASSUME NoneAssumption ==
  None \notin {"passed", "failed", "tampered", "errored", "ok", "unverified", "error", "unavailable"}
ASSUME GateBoundsAssumption ==
  {Others, MAX_VERIFICATION_RETRIES, MAX_TRUNCATION_CONTINUATIONS, MAX_AUTO_RESUMES} \subseteq Nat

VARIABLES
  tree,       \* the entry at each path: "missing", "dir" or a content
  baseline,   \* the inventory taken before the model has run
  turn,       \* the turn in progress
  last,       \* DeclaredVerification.last: the latest result, with its turn
  loop,       \* the loop of the command: its counters and its result
  journal,    \* the verdicts recorded, in order
  judged,     \* what the last check saw
  others      \* changes made by somebody else so far

vars == <<tree, baseline, turn, last, loop, journal, judged, others>>

Verdicts == {"passed", "failed", "tampered", "errored"}

-----------------------------------------------------------------------------
(* The inventory. *)

\* walk: the lines of everything at and under each path.
Walk(t) ==
  LET lines[p \in Paths] ==
        {<<p, t[p]>>} \cup
          IF t[p] = "dir" THEN UNION {lines[c] : c \in {d \in Under[p] : t[d] # "missing"}} ELSE {}
  IN lines

TakeInventory(t) == UNION {Walk(t)[p] : p \in Protected}

PathsOf(inventory) == {line[1] : line \in inventory}

\* Mutant: only what is gone or changed counts.
ChangedOfBefore(before, after) == PathsOf(before \ after)

\* changedProtectedPaths: a path whose line is not the same in both.
ChangedProtectedPaths(before, after) == PathsOf((before \ after) \cup (after \ before))

-----------------------------------------------------------------------------
(* The turns.  A run of the kernel is a turn here; what it does to its     *)
(* session is the module SessionKernel.                                    *)

NewTurn(n, kind, verified) ==
  [n |-> n, kind |-> kind, verified |-> verified, phase |-> "model", truncated |-> FALSE,
   changed |-> {}, verdict |-> None, threw |-> FALSE]

\* DeclaredVerification.declare.
Declare == TakeInventory(Start)

Init ==
  /\ tree = Start
  /\ baseline = Declare
  /\ turn = NewTurn(1, "first", TRUE)
  /\ last = None
  /\ loop = [continued |-> 0, retried |-> 0, resumed |-> 0, told |-> None, exit |-> None]
  /\ journal = << >>
  /\ judged = None
  /\ others = 0

\* Everything in p, at any depth.
Beneath(p) ==
  {q \in Paths : \A S \in SUBSET Paths :
     Under[p] \cup UNION {Under[r] : r \in S} \subseteq S => q \in S}

\* The entry of p changes: a file is written or removed, a directory goes
\* with what is in it or is made anew.
Changed(p, entry) ==
  [q \in Paths |-> IF q = p THEN entry
                   ELSE IF q \in Beneath(p) THEN "missing" ELSE tree[q]]

MayHold(p, entry) ==
  /\ entry # tree[p]
  /\ entry \in IF Under[p] = {} THEN Contents \cup {"missing"} ELSE {"dir", "missing"}
  /\ \A q \in Paths : p \in Under[q] => tree[q] = "dir"

ModelEdits(p, entry) ==
  /\ turn.phase = "model" /\ MayHold(p, entry)
  /\ tree' = Changed(p, entry)
  /\ UNCHANGED <<baseline, turn, last, loop, journal, judged, others>>

SomebodyEdits(p, entry) ==
  /\ turn.phase # "ended" /\ others < Others /\ MayHold(p, entry)
  /\ others' = others + 1
  /\ tree' = Changed(p, entry)
  /\ UNCHANGED <<baseline, turn, last, loop, journal, judged>>

Ended(exit) ==
  /\ turn' = [turn EXCEPT !.phase = "ended"]
  /\ loop' = [loop EXCEPT !.exit = exit]

\* The run is completed in the journal; a recovered one has no check.
TurnCompletes(truncated) ==
  /\ turn.phase = "model"
  /\ turn' = [turn EXCEPT !.truncated = truncated,
                !.phase = IF turn.verified THEN "measure" ELSE "answered",
                !.verdict = IF turn.verified THEN None ELSE "unavailable"]
  /\ UNCHANGED <<tree, baseline, last, loop, journal, judged, others>>

ResumesUsedUp == Ended("error")

\* withAutoResume.
MayResume == loop.resumed < MAX_AUTO_RESUMES

TurnBreaks(resumable) ==
  /\ turn.phase = "model"
  /\ IF resumable THEN turn' = [turn EXCEPT !.phase = "broken"] /\ UNCHANGED loop
     ELSE Ended("error")
  /\ UNCHANGED <<tree, baseline, last, journal, judged, others>>

Resume ==
  /\ turn.phase = "broken"
  /\ IF MayResume
     THEN /\ turn' = NewTurn(turn.n + 1, turn.kind, FALSE)
          /\ loop' = [loop EXCEPT !.resumed = @ + 1]
     ELSE ResumesUsedUp
  /\ UNCHANGED <<tree, baseline, last, journal, judged, others>>

-----------------------------------------------------------------------------
(* The check. *)

\* runGate: the inventory is taken, before the command runs.
Measured == UNCHANGED baseline

Measure ==
  /\ turn.phase = "measure"
  /\ turn' = [turn EXCEPT !.phase = "check",
                !.changed = ChangedProtectedPaths(baseline, TakeInventory(tree))]
  /\ judged' = [n |-> turn.n, measured |-> tree, started |-> << >>, code |-> None]
  /\ Measured
  /\ UNCHANGED <<tree, last, loop, journal, others>>

\* A file that is there cannot be read; nothing catches the error before
\* the kernel, which takes it for a failure of the journal.
MeasureThrows ==
  /\ turn.phase = "measure"
  /\ \E line \in TakeInventory(tree) : line[2] \in Contents
  /\ turn' = [turn EXCEPT !.phase = "ended", !.threw = TRUE]
  /\ loop' = [loop EXCEPT !.exit = "error"]
  /\ UNCHANGED <<tree, baseline, last, journal, judged, others>>

VerdictOf(changed, reason, code) ==
  IF changed # {} THEN "tampered" ELSE IF reason # "natural" THEN "errored"
  ELSE IF code = 0 THEN "passed" ELSE "failed"

\* DeclaredVerification.run keeps the result.
LastOf(result) == result

\* The command has run: to its end, or to its time limit or an interrupt.
Check(reason, code) ==
  /\ turn.phase = "check"
  /\ LET verdict == VerdictOf(turn.changed, reason, code) IN
       /\ turn' = [turn EXCEPT !.phase = "record", !.verdict = verdict]
       /\ last' = LastOf([n |-> turn.n, verdict |-> verdict, changed |-> turn.changed])
       /\ judged' = [judged EXCEPT !.started = tree,
                       !.code = IF reason = "natural" THEN code ELSE None]
  /\ UNCHANGED <<tree, baseline, loop, journal, others>>

\* The command could not be started: whatever has moved, this is an error.
CheckThrows ==
  /\ turn.phase = "check"
  /\ turn' = [turn EXCEPT !.phase = "record", !.verdict = "errored"]
  /\ last' = LastOf([n |-> turn.n, verdict |-> "errored", changed |-> turn.changed])
  /\ UNCHANGED <<tree, baseline, loop, journal, judged, others>>

\* recordVerification: the output as an artifact, then the verdict.
Record ==
  /\ turn.phase = "record"
  /\ journal' = Append(journal, [n |-> turn.n, verdict |-> turn.verdict])
  /\ turn' = [turn EXCEPT !.phase = "answered"]
  /\ UNCHANGED <<tree, baseline, last, loop, judged, others>>

RecordFailed == Ended("error")

RecordFails ==
  /\ turn.phase = "record"
  /\ RecordFailed
  /\ UNCHANGED <<tree, baseline, last, journal, judged, others>>

-----------------------------------------------------------------------------
(* The loop of the command. *)

\* withTruncationContinuation.
MayContinue == turn.truncated /\ loop.continued < MAX_TRUNCATION_CONTINUATIONS

IsRetryable(verdict) == verdict = "failed"

Retried == loop.retried + 1

MayRetry ==
  /\ ~MayContinue
  /\ IsRetryable(turn.verdict) /\ loop.retried < MAX_VERIFICATION_RETRIES
  /\ last # None

Continue ==
  /\ turn.phase = "answered" /\ MayContinue
  /\ turn' = NewTurn(turn.n + 1, "continue", TRUE)
  /\ loop' = [loop EXCEPT !.continued = @ + 1, !.resumed = 0]
  /\ UNCHANGED <<tree, baseline, last, journal, judged, others>>

Retry ==
  /\ turn.phase = "answered" /\ MayRetry
  /\ turn' = NewTurn(turn.n + 1, "retry", TRUE)
  /\ loop' = [loop EXCEPT !.continued = 0, !.resumed = 0, !.retried = Retried, !.told = last]
  /\ UNCHANGED <<tree, baseline, last, journal, judged, others>>

Finished == ~MayContinue /\ ~MayRetry

\* Exit code 4 unless the last verdict is that the check passed.
Finish ==
  /\ turn.phase = "answered" /\ Finished
  /\ Ended(IF turn.verdict = "passed" THEN "ok" ELSE "unverified")
  /\ UNCHANGED <<tree, baseline, last, journal, judged, others>>

TurnEnds ==
  \/ \E truncated \in BOOLEAN : TurnCompletes(truncated)
  \/ \E resumable \in BOOLEAN : TurnBreaks(resumable)

CheckStep ==
  \/ Measure \/ MeasureThrows \/ CheckThrows \/ Record \/ RecordFails
  \/ \E code \in {0, 1} : Check("natural", code)
  \/ Check("stopped", None)

LoopStep == Resume \/ Continue \/ Retry \/ Finish

Next ==
  \/ \E p \in Paths, entry \in Contents \cup {"dir", "missing"} :
       ModelEdits(p, entry) \/ SomebodyEdits(p, entry)
  \/ TurnEnds \/ CheckStep \/ LoopStep
  \/ turn.phase = "ended" /\ UNCHANGED vars

Spec == Init /\ [][Next]_vars

\* A turn of the model ends: it completes or breaks.  The check has a time
\* limit, and the loop waits for nothing else.
FairSpec == Spec /\ WF_vars(TurnEnds) /\ WF_vars(CheckStep) /\ WF_vars(LoopStep)

-----------------------------------------------------------------------------
TypeOK ==
  /\ tree \in [Paths -> Contents \cup {"dir", "missing"}]
  /\ baseline \subseteq Paths \X (Contents \cup {"dir", "missing"})
  /\ turn.phase \in {"model", "measure", "check", "record", "answered", "broken", "ended"}
  /\ turn.kind \in {"first", "continue", "retry"}
  /\ turn.verdict \in Verdicts \cup {"unavailable", None}
  /\ (turn.phase = "record") => (turn.verdict \in Verdicts)
  /\ loop.continued \in 0..MAX_TRUNCATION_CONTINUATIONS
  /\ loop.retried \in 0..MAX_VERIFICATION_RETRIES
  /\ loop.resumed \in 0..MAX_AUTO_RESUMES
  /\ loop.exit \in {None, "ok", "unverified", "error"}
  /\ others \in 0..Others

\* Every protected path, and everything in a protected directory, is what
\* it was when the command began.
Unmoved(t) == \A p \in Protected : \A q \in {p} \cup Beneath(p) : t[q] = Start[q]

\* The command succeeds only if the last turn was judged, the check exited
\* with 0, and what it depends on was, when the turn had ended, what it was
\* before the model had run (verify.ts: a baseline taken per turn would
\* launder what an earlier turn did).
PassedIsEarned ==
  loop.exit = "ok" =>
    /\ judged.n = turn.n /\ judged.code = 0
    /\ Unmoved(judged.measured)

\* A turn given to repair a failure is told of the failure of the turn just
\* before it, and never after the inputs of the check have moved (gate.ts:
\* "it is not offered a retry either").
RetryNamesItsFailure ==
  turn.kind = "retry" /\ turn.verified =>
    /\ loop.told.n = turn.n - 1 /\ loop.told.verdict = "failed"
    /\ loop.told.changed = {}

\* However often replies are cut, checks fail and streams break, the model
\* gets a bounded number of turns.
WorkIsBounded ==
  turn.n <= (1 + MAX_VERIFICATION_RETRIES) * (1 + MAX_TRUNCATION_CONTINUATIONS)
              * (1 + MAX_AUTO_RESUMES)

\* What the command reports of a check is in the journal, as the verdict of
\* the turn it reports, and no turn has two verdicts.
VerdictIsDurable ==
  /\ \A a, b \in DOMAIN journal : a < b => journal[a].n < journal[b].n
  /\ loop.exit \in {"ok", "unverified"} /\ turn.verdict \in Verdicts =>
       /\ journal # << >>
       /\ journal[Len(journal)] = [n |-> turn.n, verdict |-> turn.verdict]

\* What a verdict promises, in all four respects.
VerdictIsEarned == PassedIsEarned /\ RetryNamesItsFailure /\ WorkIsBounded /\ VerdictIsDurable

-----------------------------------------------------------------------------
(* What the documents say and the code does not do. *)

\* cli.ts, usage: the check decides the exit code.  A command that ends as
\* not verified has had its last turn checked.
CheckDecidesExit == loop.exit = "unverified" => judged # None /\ judged.n = turn.n

\* kernel.ts, SessionVerification: "Throwing is reported as `errored`".
ThrowIsErrored == turn.threw => turn.verdict = "errored"

\* cli.ts, usage: a path that moved by the time the check runs makes the
\* verdict tampered, never passed.
PassedMeansUnmoved ==
  turn.phase = "record" /\ turn.verdict = "passed" => Unmoved(judged.started)

\* gate.ts: once the inputs of the check have moved, the model is not given
\* another turn.
TamperedIsFinal == [][turn.verdict = "tampered" => turn'.n = turn.n]_vars
=============================================================================
