# FlashCoder in TLA+

FlashCoder is a coding agent for the terminal. Everything a session does is an
event in an append-only journal, and every command (a new turn, a continued one,
`recover`, `reconcile`) starts from what the journal says. Around this core there are
the tools and the objects they leave, the connection to the model, the accounting, the
verification of a turn, compaction, and an interactive loop with an editor of its own.
This directory holds TLA+ models of these parts, what TLC checks of them, and what is
proved of them with TLAPS. Paths below are relative to the repository; its `src/src/` is
where the program is.

## The system

| component | state it keeps | operations | what makes it correct |
|---|---|---|---|
| writer lease (`journal/lease.ts`, `cli.ts`) | a directory `writer.lock` with an owner file | acquire, inspect, quarantine (stale, forced), release | one holder; only dead or confirmed owners are evicted; nobody removes another's lease |
| session log (`journal/open.ts`, `writer.ts`, `replay.ts`, `recovery.ts`, `paths.ts`) | `log.jsonl`, its temporary copy, recovery objects | bootstrap, open, replay, repair a torn tail, append, poison, close | what was acknowledged or returned survives; the log is always replayable |
| binding projection (`journal/bindings.ts`) | what the events amount to | admit one event, apply it, give the recovery view | no illegal history is ever durable |
| recovery planner (`session/recovery.ts`) | none | choose the one next step | every reachable history has a legal next step |
| session kernel (`session/kernel.ts`) | phase of the turn | initialise, continue, request loop, recover, reconcile | what it appends is admitted; the conversation alternates as it must |
| reconciliation (`session/reconcile.ts`) | none | apply an operator's evidence | an effect that took place is never called not executed |
| tool runtime (`tool/runtime.ts`, `durability.ts`) | calls in flight | slices of observations, single effects, results in order | an effect happens at most once and never unrecorded |
| content addressed storage (`artifact/`, `blob/`, `snapshot/`) | candidates, objects | write, publish, abort, verify, load by range | an object that has a name has its bytes; a promised one stays |
| tool output (`artifact/tool-output.ts`, `store.ts`) | a queue of writes, a parser, a sink | write, mark the limit, finish, scan | what is read is what was accepted |
| process supervision (`proc/`) | a process group, a capture | start, time limit, signal, reap, report | one outcome, and it is true |
| file tools (`tool/file.ts`) | none | read lines, count, edit, replace | no write over a file that has changed; no partial file |
| transport (`ds/transport.ts`, `errors.ts`) | attempts, timers, a barrier | send, time out, cancel, retry | a send is recorded as it went, and ends |
| answer stream (`ds/sse.ts`) | a staged answer | split, parse, announce, accept | an answer is accepted exactly when it is one |
| lineage prefix (`lineage/prefix.ts`) | a selection | read the journal to a boundary | both reducers of the journal agree |
| compaction (`session/compaction.ts`) | a second lineage | break, activate, carry the summary | no summary lost, no switch left half done |
| cost ledger, budget (`cost/`, `session/budget.ts`) | sums, completeness | project the journal; guard a step | every answer counted once; complete means complete |
| verification gate (`verify/gate.ts`, `cli/verify.ts`, `cli.ts`) | a baseline, the latest verdict | inventory, check, judge, retry | a pass is about the turn and about untouched inputs |
| interactive loop (`cli/interactive.ts`, `resume.ts`, `truncation.ts`) | session, queue, controller, flags | turns, recovery, compaction, picker, Ctrl-C | every message accounted for; no lease left behind |
| prompt editor (`tui/components/editor.ts`, `word-navigation.ts`, `kill-ring.ts`, `undo-stack.ts`) | text, cursor, markers, rings, history | every key | the copies it keeps of its text agree |
| suggestions (`tui/components/editor.ts`, `tui/autocomplete.ts`) | a picker, a timer, a chain of requests | ask, answer, abort, choose | the picker is about the text on the screen |
| key input (`tui/stdin-buffer.ts`, `terminal.ts`) | two buffers and their timers | split, negotiate, flush, stop | keys and pastes whole and in order |
| context, bytes, instructions, credentials, web search, drawing | - | - | see "Not modelled" |

Interaction: a command opens the journal (lease, log, repair), replays it through
the binding projection, and then either runs the kernel's loop or first asks the
planner for steps until it can hand over to the kernel. Kernel, tool runtime and
transport callbacks all append through one writer, which asks the projection
before it writes. The kernel selects the prefix of the lineage by a second reducer, and the
ledger is a third. Nothing but the journal (and the objects it names) is carried
from one command to the next. In the interactive loop the commands are calls of one process, which
share the fields of one object at every await.

What is hard: processes that start at the same time on one session; a kill or a
power loss between any two steps, also inside an append, a repair, a publication or a switch;
parallel observations of which one fails; a failure of a request before or after the
model's first words; effects on the world that cannot be rolled back; recovery of
a recovery; timers, signals and cancellations that race an answer or an exit; another program
that changes a file between two looks at it; input that is cut anywhere.
`PROJECT.json` lists these under `hazards`, each at its line.

## The modules

    ExclusiveLease  <-- WriterLease        (WriterLeaseProofs)
    AppendOnlyLog   <-- JournalLog         (JournalLogProofs)
    WriterQueue
    JournalBindings --> RecoveryPlanner --> ToolRuntime --> SessionKernel
                                           (SessionKernelProofs)
    Conversation    <-- SessionKernel
    JournalBindings --> LineagePrefix --> LineageSwitch
    JournalBindings --> CostLedger         (CostLedgerProofs)
    ContentMap      <-- ContentStore       (ToolProofs)
    EditorText      --> WordWrap, LineEditor
    Transport                              (TransportProofs)
    Interactive                            (InteractiveProofs)
    ToolOutput, BashRun, FileText, FileMutation, ResponseStream, Suggestions, KeyInput

    Tools     ContentStore, BashRun, ToolOutput, FileMutation, FileText
                                           (ToolProofs)
    Turns     VerificationGate, LineageSwitch, CostLedger, ContentStore
                                           (TurnProofs)
    Prompt    Interactive, Suggestions     (InteractiveProofs)
    MCTools   Tools
    MCTurns   Turns, ResponseStream
    MCInput   Prompt, LineEditor, WordWrap, KeyInput
    MCEnds    Transport, BashRun, ToolOutput, FileMutation, Interactive, VerificationGate,
              Suggestions, KeyInput, WriterQueue

(`<--` is implemented by, `-->` is extended by.) The `MC*` modules and `.cfg` files
are the instances for TLC. `Tools`, `Turns`, `Prompt` and the last three each hold several components that share nothing: the
variable `scene`, chosen in the initial state, says which one a behaviour is about, and the variables
of the others have a value that says they are off. A component may have several
scenes, each an `INSTANCE` with constants of its own; in `Tools`, `Turns` and `Prompt`, which are proved about, the constants are
parameters; MCTools only gives them values, and MCTurns and MCInput do and add scenes to those of `Turns` and `Prompt`.
`Turns` takes the ledger with its proofs, so that what is proved of a ledger on its own holds in each of its three instances. The properties of such a module put together
what its components promise, which is stated and explained in their modules.

### The session

**WriterLease.** `lock` is the directory the path `writer.lock` names, `owner` and `whole` say
what is in it, and `seen`, `own` and `force` what each command remembers. An action is one system call or one decision
between two of them: `Make` (mkdir), `Name` and `Sign` (owner file created, written),
`Confirm`; `Inspect`, `Judge`, `Recheck`, `Decide`, `Evict` (the rename into
quarantine); `CheckOwn`, `Free`. `Die` may come at any time. `Verdicts` is
`classifyLeaseSnapshot`: a pid that does not exist is stale, an owner file that is
torn or missing is ambiguous. A fingerprint is abstracted to the identity of the directory and
how far its owner file has got. With `PidReuse` the pid of a dead owner may belong to somebody
else, so that a dead lease looks live. A forced takeover has the user's word that
nothing else starts (`Quiet`, `MayStart`). `ExclusiveLease` is what a user of the lease may rely on.

**JournalLog.** A file is its complete lines, the torn record behind them, and how many lines
are synced; `path` is the file the name stands for and `durable` the one it stands for after a
power loss, so that a process may hold a file that has lost its name. `Acquire` and `Close` stand for the lease, at the level of
`ExclusiveLease`. An append is written in chunks (`WriteChunk`, `WriteEnd`), synced
(`SyncLog`), and acknowledged; any failure poisons the writer (`Poison`). The repair is
`PublishTail`, `CopyPrefix`, `SyncTemp`, `Swap`, `SyncDirectory`, `Reopen`. `PowerLoss`
keeps any prefix of the unsynced data and undoes an unsynced rename. An fsync that fails
and later succeeds is taken to have made the earlier bytes durable too.
`AppendOnlyLog` is a log that only grows, and never forgets what it has acknowledged.

**WriterQueue.** JournalLog has one append at a time; that there is one is the promise of `#serial`, to which `append` and
`close` are chained, whoever calls them. `appends` are the calls in their order, each with the event it was made to follow (`#head` at
that moment), `state` and `closing` the fields of `JournalWriter`, `bytes` the pieces of the file. Actions: `CallAppend`, `Begin`
(the call before is over), `Prepared` (the projection admits the event or refuses it), `WriteChunk`, `Sync`, `Fail`, `CallClose`, `Release`, `Closed`.

**JournalBindings.** `j` is the projection, `Admits(j, e)` the checks of `applyEvent` and
`gateActiveRunPhase`, `After(j, e)` what the event adds. Ids become numbers of runs and
positions of calls. Facts, artifacts of evidence and verification events are not events here; the
bootstrap of a lineage and the first `run_started` are one step.
**RecoveryPlanner** is `planRecoveryStepV1`, operator `Plan`; `StepEvent` is what
`prepareRecovery` appends for it.

**ToolRuntime.** One action per append or effect of a call. Calls of a slice interleave.
`ran[i]` counts how often the effect of call `i` took place: it is the world, and survives
every crash. A call that finds a different decision for a path than the one recorded
ends the command, as `Die` does. `Execute` may have had its effect or not, whatever it reports. What was recorded is read back to make
the result (`ReadBack`): where that fails (`unread`) the run ends although the call has its outcome. `MaxUnread` bounds the runs in which it may fail.

**SessionKernel.** `pc` is the position in `runKernel` or `prepareRecovery`. One command runs at
a time (that is WriterLease's theorem) and an append is atomic or torn (JournalLog's). `Die` drops
everything but `j` and `ran`; `DieTorn` is a death in the middle of an append, together
with the repair at the next open. The operator of `reconcile` never declares an effect
not executed that took place; nothing in the program could find that out. A child that goes
on working after its command was killed is not modelled: it counts as having acted before. A reconcile
command for an effect that is reconciled already goes on as `Recover`.

**LineagePrefix, LineageSwitch.** `sel` is what `selectLineagePrefixV1` knows after the events so
far, `Selected` one step of its loop and `Selectable` its verdict at a boundary. `frame` is the part of the
projection that is about cache ABIs and lineages. `recordCompaction` is the sequence `todo` of events still to append; `Crash`
comes between any two. Runs of the active lineage are those of JournalBindings, appended by whoever may. The selection
is stricter than the projection in one place that the program never visits: a break without a plan is accepted
by the projection and refused by the selection, and the kernel never writes one.

### What the tools stand on

**ContentStore.** A name is its content (a hash is the bytes it stands for). `entry` is what a name
is linked to, `kept` and `synced` what a power loss leaves. Actions are the steps of
`prepareNamespace` and `begin`, the write queue (`Write`, `RunWrite`), `publish` (`SyncFile`, `Scan`, `Link`, `Compare` with an existing
object, `SyncDirectory`, `Return`) and `abort`, and of a load range by range (`StartLoad`, `LoadRange`, ...). `Damage` stands for a
disk that goes bad; a load has to notice. `ContentMap` is the abstract store: objects that were promised are there for ever.

**ToolOutput.** A byte is a digit. `calls` are the calls of `write`; `step` is where the one at the head of the queue is (data,
end of frame, limit marker). The frames go to `sink`, which parses them on the way (`Push`), and later
`scan` parses the object again in chunks of any size. `failure` is the first error, after which the queue refuses everything.

**BashRun.** `group`, `escaped`, `holders` are the processes and who holds the pipes; the callbacks of Node (exit, data,
end, error, abort, timers) run one at a time in any order the processes allow. `reason` is the first reason to stop, `stop` the
course of SIGTERM, grace, SIGKILL and bounded observation; `result` the report that `tool/runtime.ts` classifies.

**FileText, FileMutation.** The first is what the bytes of a file become as it is read in pieces: lines
(`RecordSliceWriter`), occurrences (`NonOverlappingMatcher`), the replacement (`streamReplacement`). The second is the sequence of
system calls of write and edit: stat, hash, temporary file, second look, link or rename, with `Others` (any
change another program may make, up to `MaxTouches`), `CallFails` for every call, and `Crash`. Two corners are kept as they are: an
additional hard link made while the file is hashed again is not noticed, and a death between `link` and
`unlink` leaves a file with two names, which later calls refuse.

### The connection to the model

**Transport.** `att` are the attempts with their failure, deltas and events; `queue` the appends that are under way. `Appends` is
one append of the lifecycle hooks; `Timer` and `Retry` the timers. Anything may happen while an append is
under way. The barrier before the first delta is `first_semantic_delta_received`: it is durable before a delta is passed on. A parser of an attempt that was given up may
still deliver: its late preview, and an idle timer that fires late, change nothing that is recorded. There are three
attempts at most (`DEEPSEEK_MAX_TOTAL_ATTEMPTS`); the decision to retry is a choice with the delays of `decideDeepSeekRetry`.
**ResponseStream.** A line is a record of what `JSON.parse` finds; on the wire it has two halves and an ending, so that a
chunk may cut it anywhere, also between CR and LF. Each field of a line is announced to a hook before it is staged, and the hook may fail.

### Around a turn

**CostLedger.** `ledger` is what `projectSessionCostV1` has made of the events, `turn` the budget of the turn, `bill` what
the provider charges. Prices have beginnings, and a request may be older than the first price. Searches that fail are free, as the code has it;
telemetry counts and ratios are left out. A search is charged when it is made (`Publish`) and priced by the ledger when its result is
committed (`CommitResult`), each at an instant of its own; `risen` is the history of what prices rose in between (`Rise`). The budget prices with the book it saw first.
**VerificationGate.** `tree` is the workspace, `baseline` the inventory, `turn` the turn in progress, `loop` the three nested loops of
`run`. The model changes any path during a turn, somebody else `Others` times at any moment. The mode of a file counts as part of
its content; a path with a tab in its name is not modelled.
**Interactive.** `ui` holds the fields of `InteractiveSession`, `loop` and `comp` where the loop and a compaction are, `disk` what
the journals keep. A command of the kernel takes the lease when it begins and ends some time later. Keys and commands of the user come at
every await. The loop sleeps where it finds nothing to do (`Sleep`, `ui.wake`), until a message is queued (`Queued`) or the user leaves. A behaviour is `calm` or it is not, from its beginning: in a calm one the user gives no command while something is going
on, and the price book loads. What a calm behaviour keeps and another does not is named in `LoopIsOrderly` (see also below).

### The prompt

**EditorText, WordWrap, LineEditor.** A line is a sequence of cells; the marker of a large paste is several cells that
remember which paste they were put in for (`of`), which no operator of the editor looks at. `LineEditor` has one
operator per handler, from the state `e` before a key to the one after it. A marker may be wrapped at its spaces (`MarkerGaps`). `WordWrap` is `wordWrapLine`
and the word movements over every line up to a length. A literal `[paste #7]` typed by hand, which renumbering would rewrite, is not modelled,
nor a single completion forced while the history is browsed.
**Suggestions.** `tasks` is the chain of requests, the running one first; `timer` the debounced one; `token` and the aborted flag are what a
late answer is compared with. The text is one line, words are one character; undo, yank and word moves are represented by kills and line moves.
`@` yields nothing without `fd`, and no argument has completions (`cli/screen.ts:169-174`). A provider that rejects would break the chain; none does.
**KeyInput.** `units` are what was pressed, pasted or answered; their characters arrive in chunks; `t` is `StdinBuffer` and the terminal, with the
two timers. Numbers in sequences are one character. `drainInput` is never called and is left out.

## What TLC checks

| run | instance | shows |
|---|---|---|
| `lease` | 4 processes, 4 leases made, pids reused; 115,536 states up to symmetry | `Exclusion`, `HolderIsNamed`, `EvictsOnlyTheDead`, `ReleasesOnlyItsOwn`, and the refinement of `ExclusiveLease` |
| `lease_race` | 3 processes, stale quarantines not alone | finding 1 |
| `journal` | 3 processes, 6 events, 3 repairs; 132,427 states up to symmetry | `AckedSurvive`, `ReturnedStay`, `LogReplayable`, `OneFactPerTail`, `OneInFlight`, and the refinement of `AppendOnlyLog` |
| `journal_race` | 2 processes, openers not alone | finding 2 |
| `session` | answers of 0 to 2 calls of 5 kinds, observations in pairs, 5 messages, 2 attempts, commands start while there are at most 2 runs; 2,632,814 states | the planner's steps and the kernel's appends are admitted; effects at most once, never unrecorded, in order; no retry after the model has begun; the refinement of `Conversation` |
| `session_ends` | an observation and an effect, 4 messages, 1 attempt; 152,163 states | `RecoveryEnds` |
| `session_torn_tail`, `session_lost_turn` | one call | findings 3 and 4 |
| `tools` | 3 candidates in several processes; a command with a descendant no signal ends; two streams and a limit of 5 bytes; a file changed twice by others; files of up to 6 bytes; 1,736,381 states | `StoredIsWhole`, `ImplementsContentMap`, `OutcomeIsTrue`, `FramesAreExact`, `NoChangeIsLost`, `TextIsExact` |
| `turns` | a protected directory with a file in it and another directory that fills; sessions of two lineages, with searches, with a budget; three lineages with two efforts and a death; answers of 5 lines, and of 4 lines cut into chunks of 1 to 5; objects of 5 bytes read in twos; 1,624,120 states | `VerdictIsEarned`, `LedgerIsTrue`, `SwitchIsWhole`, `AnswerIsWhatWasSaid`, `LoadsAreWhole` |
| `input` | the editor in five selections of keys and texts, 6 to 16 keys; lines of 6 cells at widths 1 to 4; 5 keys and their requests; 3 units cut anywhere, with and without timers; two sessions in the loop, 2 messages, 3 commands; 2,946,995 states | `EditorIsSound`, `KeysDoNoHarm`, `WrapIsTheLine`, `PickerFollowsTheText`, `UnitsAreWhole`, `LoopIsOrderly` |
| `ends` | one scene for each of: a send of 3 deltas, a command, writes, a file, a queue, a verified turn, suggestions, keys, 4 appends and a close; 475,929 states | `SendIsRecorded`, `AppendsAreChained`, `WhatBeginsEnds` |

Bounds. The races of the lease and the log are between a dead owner, a process that is slow and
one that is not; three or four processes give these, and the proofs hold for any number. Six
events give a torn append whose repair is itself cut short, and appends after it.
In the session two calls give every relation between a call and the next one, width 2
gives parallel observations and the end of a slice, five messages give a
user's message, an answer, two results and the final answer. `MaxRuns` only
bounds the runs that exist when a command starts, so a recovery may start as many runs
as it wants: that TLC finishes shows that it starts finitely many. `MaxTries` is
2 attempts of one request, of the code's 3.
Three candidates in a store are two that race for a name and one that comes after. Limits of bytes are small, but greater than
a header, a chunk and an overlap, so that each boundary falls inside of each. Three lineages are a switch behind a switch, two efforts one that goes
back. Four appends are one that fails, one behind it, and one that comes beside the close. A text of two lines wrapped at four widths has every kind of visual line. Three units cut anywhere are one with both its neighbours.

Assumptions of the passing runs. `StaleAlone`, `OpenAlone`, `CleanTails` and
`CleanContinue` each exclude the schedules its violation run exhibits one of: another takeover beside
a stale quarantine, another open beside an open, a torn append right behind a recovery run's boundary,
a death between the start of a continued turn and its message. In the layers above, the constants of a scene leave
out what the list "also not kept" below shows one of: searches in a ledger whose sums must be exact, shifts of the cursor behind an open
picker, kills beside markers, ten markers, a wide character in one column, jumps into markers, a lone escape behind or before other input. What a scene leaves out can be given
back by its constants.

Fairness. `RecoveryEnds` needs weak fairness of `RecoveryStep` and `RuntimeStep`,
i.e. a process that is neither killed nor waiting for input takes its next step. Starting a
command, dying and aborting are never forced. The lease and the log have no
fairness: a process may stay away for ever, and the code promises nothing about when a lease is free.
`WhatBeginsEnds` has weak fairness of the program's own steps only (`EndsFairness`): appends and timers of a send, since a hook awaits one
append and Node fires an armed timer; the callbacks and the time limit of a command, not its exit, nor the end of its output; the queue of a
writer; the next step of a file tool; the steps of the interactive loop and of a compaction, because every call of the kernel comes back (that is what the other
scenes are about); the turn, the check and the loop of `run`; timers and answers of suggestions; arrival of characters and the two timers of the input.
An append and a close of the writer go on when the call before is over. The server, the processes of a command, other programs and the user owe nothing.
A bound may end what the code does not: `MaxDeltas` is the longest answer, so `WhatBeginsEnds` does not say that a server which
goes on talking is stopped.
Deadlock is not checked: a session that nobody works on any
more, a finished call, or a bound that is reached, is a legal end.

`RecoveryEnds` is less obvious than it looks. `prepareRecovery` plans again whenever a
failed call has appended an event, so a call that fails for good could go round for ever.
It does not, because the first failure records the permission, the second run uses it
again, and interrupting that run on account of an earlier run's permission is
refused by the journal: the command ends with an error, and leaves the run active for the next one.

## What the code does not keep

Each with a run that shows it:

1. `--quarantine-stale` promises to evict only a dead owner, but claims to the lease code that no
   other start is concurrent. Two such commands can evict a live lease (`lease_race`).
2. `openJournal` opens the log before it has the lease. If another process repairs a torn log in between, the
   opener has the old file, repairs that one once more, and renames the copy of its old prefix over the log: what the
   other process has appended and acknowledged since is gone (`journal_race`).
3. A torn append right behind a boundary of a recovery run makes the session unrecoverable:
   the fresh snapshot is refused because `journal_tail_recovered` came in between (`session_torn_tail`).
4. A continued turn that dies before `user_committed` is recovered as if the turn before had not
   been answered: the model is asked again (`session_lost_turn`).

Also not kept. The property named is stated in the module; TLC finds it violated when the scene is given the constants in
parentheses, or as it stands, and the passing runs leave it out.

| property | where | what happens |
|---|---|---|
| `CostLedger!SpendIsBounded` (searches) | `session/budget.ts:161` | the usage of a web search never reaches the budget |
| `CostLedger!TurnIsBounded` | `cli/interactive.ts:514` | a turn that is recovered automatically goes on without a budget |
| `CostLedger!StopsAtBoundary` | `session/budget.ts:173` | the budget stops a turn with a tool call pending, and the next message is refused |
| `CostLedger!CompleteIsExact` (searches) | `tool/runtime.ts:827` | a search whose run died before its result was committed is left out of a sum that is called complete |
| `CostLedger!SumIsLowerBound` (searches) | `cost/project.ts:655` | a search is priced when its result is committed; if the price has risen since, the sum is more than what was charged |
| `VerificationGate!CheckDecidesExit` | `cli.ts:1021` | a turn completed by recovery is not checked, and the exit code is that of a failed check |
| `VerificationGate!ThrowIsErrored` | `verify/gate.ts:122` | a protected path that cannot be read fails the turn; no verdict is recorded |
| `VerificationGate!PassedMeansUnmoved` | `verify/gate.ts:122` | what moves after the inventory and while the command runs does not count |
| `VerificationGate!TamperedIsFinal` | `cli/truncation.ts:40` | a cut reply is continued although its verdict is tampered |
| `LineageSwitch!SwitchIsNeverRefused` | `session/compaction.ts:171` | a change back to an earlier effort is always refused |
| `LineageSwitch!NoSwitchIsLeftOpen` | `session/compaction.ts:238` | a death between break and activation leaves a session that refuses every later run and switch |
| `LineageSwitch!SummaryOwedOrCarried` | `session/compaction.ts:300` | a death between `run_started` and `user_committed` loses the summary |
| `Interactive!SummaryGoesHome` (not `calm`) | `cli/interactive.ts:608` | a session picked during a compaction receives the summary of another one |
| `Interactive!InterruptReachesTurn` (not `calm`) | `cli/interactive.ts:570` | a compaction asked for during a turn takes its controller away; Ctrl-C reaches nothing |
| `Interactive!InterruptStopsCompaction` | `cli/interactive.ts:683` | Ctrl-C does not stop a compaction started by a command |
| `Interactive!StartedMeansRecorded` (not `calm`) | `cli/interactive.ts:308` | a session that was never created is continued |
| `Interactive!EffortShownIsUsed` | `cli/interactive.ts:655` | an effort whose switch failed is shown and not used |
| `WordWrap!WrapReturns` (width 1) | `tui/components/editor.ts:178` | a wide character in one column is wrapped for ever |
| `LineEditor!BackspaceTakesOne` (`Ten` small) | `tui/components/editor.ts:1367` | renumbering marker 10 cuts one character off |
| `LineEditor!MarkersHoldTheirPaste` (kills) | `tui/components/editor.ts:1356` | a marker in the kill ring is not renumbered |
| `LineEditor!CursorInText` (delete, undo after a snap) | `tui/components/editor.ts:1437` | a column that is kept from a longer line ends up outside of the text |
| `LineEditor!CursorNotInMarker` (jump) | `tui/components/editor.ts:2104` | a jump lands inside of a marker |
| `Suggestions!PickerFollowsTheText` (`Shifts`) | `tui/components/editor.ts:1557` | some keys neither refresh nor close an open picker |
| `Suggestions!CompletionFitsTheText` | `tui/components/editor.ts:728` | Tab applies an old answer to the text as it is now |
| `KeyInput!UnitsAreWhole` ("escape") | `tui/stdin-buffer.ts:224` | two escapes cut from what follows are taken for a key |
| `KeyInput!NothingIsLost` ("escape", "paste") | `tui/stdin-buffer.ts:347` | an Escape right before a paste is dropped |
| `KeyInput!NothingIsLost` ("altBracket", "paste") | `tui/terminal.ts:238` | a paste overtakes Alt+[ |

An acquisition that fails behind its mkdir leaves a lease without an owner (`journal/lease.ts:518`); it is in the model
(`Die` between `Make` and `Name`), and is what the forced quarantine is for.

## What is proved

For every value of the constants TLAPS checks:

*WriterLeaseProofs*: type correctness, `Exclusion`, `HolderIsNamed`, `EvictsOnlyTheDead`,
`ReleasesOnlyItsOwn` and the refinement, the last five assuming `StaleAlone`. The
inductive invariant is the conjunction of `TypeOK`, `DirInv` (directories are made in order, and
signed ones have an owner), `OwnInv` (a process past `Name` is alive and owns the directory it signs),
`HolderInv` (from `Confirm` to `Free` the lease at the path is the process's own), `SeenInv` (what was seen
of a complete lease stays true of that directory), `DecideInv` (before a takeover decides, the path still
names what it has seen) and `TakeoverInv` (takeovers run one at a time, and nobody acquires beside a forced one).
Exclusion is not inductive by itself: a holder keeps its lease only because no takeover in progress has
seen it as dead, which is what the last three say. Type correctness is proved and therefore not checked by a run.

*JournalLogProofs*: type correctness, `AckedSurvive`, `ReturnedStay`, `LogReplayable`, `OneFactPerTail`,
`OneInFlight` and the refinement of `AppendOnlyLog`, assuming `OpenAlone`. The inductive
invariant has `FileInv` (every file is a chain whose torn tails are explained), `LeaseInv` (one process works, one
opens), `LocalInv` (what a process has in memory is the file at the path), `TempInv` (the repair file is the log and one
fact, and is synced before it is swapped in), `PathInv` (until the directory is synced the new file has one fact more
than the old one) and `KeepInv` (what was promised is in both, and only the last line may be unknown). The
last three together carry acknowledged events over a power loss in the middle of a repair.

*TransportProofs*: type correctness and `SendIsRecorded`, for any number of deltas, any headers and any jitter, with no
assumption. The conclusion speaks of pairs of journal lines ("before"), the code of what it awaits; the invariant
joins them by giving each line a rank. `OrderInv` says that the journal is strictly increasing in rank and has got no further than
the send has; `QueueInv` which append may be under way at each place of the send, `LogInv` that each attempt's lines are exactly those
its state tells, `AttemptInv` that its state is one the code can leave, and `TimerInv`, `ShownInv` and `DecisionInv` that a timeout, what was
shown and the retry decision agree with them. An append that is not awaited breaks `QueueInv`, and with it the order.

*SessionKernelProofs*: type correctness, `EffectAtMostOnce`, `NothingUnrecorded` and `EffectsInDeclaredOrder`, for any kinds and
numbers of calls, any parallelism and any bounds, with no assumption. `RanInv` says that what took place is in the journal: the call
has its permission, and an effect that is prepared, completed or in doubt. It is not inductive, because `Execute` looks at
a job and not at the journal. `JobInv` ties the two together: a job that is prepared is that of the call that is due, its effect is recorded, and it has
not run. `SliceInv` is why no other call can move the position meanwhile (an effect is alone in its slice), and `ReconcileInv` why an
operator has an effect to speak about. A death leaves the journal and the world, for which `RanInv` is all there is to say.

*SessionKernelProofs*, second part: `KernelAppendsAdmitted` and `NoRetryAfterSemantic` with no assumption, `PlannedStepIsAdmitted` assuming
`CleanTails`, and the refinement of `Conversation` assuming `CleanContinue`. `Sound` is what every journal is that was admitted event by event: what its gate
says of the calls, the boundary, the snapshot and the attempt (`GateSound`), and that calls with a result are settled (`CallsSound`). It is
proved event by event and needs no command. `PlaceInv` says where the journal is when the command is at `pc`; `SettledInv` that a call whose
job has settled has a result that the journal takes; `StoredInv` that a snapshot this recovery stored is the next to be sent. `FreshInv`
(a recovery run projects its boundary at once) and `AskInv` (an answer is final, or the message that follows it is about to come) are the two that the code does not keep by itself:
`CleanTails` and `CleanContinue` are assumed in them alone, and they are what findings 3 and 4 violate.

*TurnProofs*: type correctness of the gate and `VerdictIsEarned`, for any protected paths in any tree, any contents, and any bounds of
retries, continuations and resumes. Assumed is that the paths and the bounds are what they should be, that the start is a tree in
which no directory contains itself (`TreeAssumption`), and that `None` is none of the verdicts. The walk of the inventory finds what is beneath the protected
paths, at any depth, in any tree that is consistent; that is proved first, of the operators alone. That a reported pass is about
untouched inputs then needs the whole course of the loop: `PhaseInv` says in which phases there is a verdict, `JudgedInv` that
what the check has seen is of this turn and was compared with the first baseline, `LastInv` that what the program keeps of the last result is the
verdict of this turn, `JournalInv` that what is reported is what the journal has, and `WorkInv` counts the turns by the three counters.

*TurnProofs*, second part: `SwitchIsWhole` of `TurnsSpec`, for any efforts, any kinds and numbers of calls, and any bounds of lineages, runs,
messages, attempts, summaries and deaths. Assumed is that the kinds are kinds, the bounds are numbers, the first effort is one, and `None` is no number.
The projection keeps a gate, a call list and the last boundary; the selection of LineagePrefix keeps six fields for the
gate, and every boundary and snapshot of the lineage. `Agree` says field by field what the two have of the same journal. It is an invariant of the
reducers alone: each event that the projection admits is taken by the selection (`EventAgrees`), one lemma per event, whatever else the command
does. The session adds what an event of the frame depends on: `FrameInv` that the frames are the same and that a break is open only behind a completed run,
`TodoInv` that what is left to append is one of six tails of a switch, to one effort, that fit the frame (`Unstarted`, `Summarised`, `LineageThere`),
so that no order of appends and no death leads to another; `OwnInv` that a lineage without a run owes the last summary, whichever the
kind of its break; `CarryInv` that, as long as nobody died, the first run of a lineage has it as its input and its first message has it.
The last is not inductive without `TurnInv` and without what `CarryInv` says of that run: nothing but the message can be committed in it.

*TurnProofs*, third part: `LedgerIsTrue` is what CostLedgerProofs says of each of the three ledgers, and `LoadsAreWhole` is proved of the store. It
needs little of the store, since a loader compares what it read with the name: `LoadInv` says that a load
has the bytes it began with up to where it is (`Got`), whole or within its range. A read may be of any length and so may a range, and the
disk may go bad between any two of them; the bytes of a read are taken one by one, by induction on their number.

*CostLedgerProofs*: that the ledger reads every journal, says in no lineage more than was charged and what prices rose between a search and the commit
of its result, and has the right sequence of calls (`LedgerHolds`), that
a ledger which calls itself complete is exact (`CompleteHolds`, for calls without searches), and that a turn with a budget spends less than its
limit and one answer (`SpendHolds`, for a book of one price and calls without searches), for any prices,
usages, numbers of runs, messages, attempts and lineages. Assumed is that the book has prices in order of their beginnings
and the bounds are numbers (`CostAssumption`). The two restrictions are what the table above shows to be necessary: a search is paid for
behind the back of the budget, and its cost may be lost with the process; a budget goes on with
the price it saw first when the price has changed. The ledger and the projection reduce the same events. `JournalInv` says what events leave of a projection, `AttemptsAgree` and
`EffectsAgree` what the ledger has of the same attempts and effects: with these every event the projection admits is one the
ledger takes. `SearchInv` and `Money` say what is charged and not yet counted: the search of a call whose result is not committed, and nothing else, so
that no sum of a lineage is more than what is `Due` to it, the bill and the rise of prices (`ChargesInv`, `RisenFor`); `Exact` that without searches it is the bill,
unless the sum says itself that it is incomplete. A sum over any number of lineages is taken apart by induction over their number. `SpendInv` adds for the
budget that all a turn has spent was counted, and that an attempt is open, or may still be made, below the limit only: so one
answer at most goes over it.

*ToolProofs*: `OutcomeIsTrue`, `FramesAreExact` and `NoChangeIsLost` of `ToolsSpec`, hence of a command, its
frames, a file and a store alike, and what is proved of the store alone.

- *The command.* Assumed are `ProcessAssumption` and `CaptureAssumption` of BashRun. `ProcInv` says who lives and what has been seen of
  it: nobody holds a pipe at whose end somebody has been. `StopInv` says what the supervision has done and why: it returns
  with nobody left in the group, or has sent SIGKILL. `CaptureInv` says that the capture holds what came (`Holds`), with the limit as the reason once it is
  reached, and `ResultInv` that there is a result when it is over. A chunk has any length, and `Each` takes it byte by byte: its
  function is unfolded along 0..length, by induction on the set of lengths for which it holds (`UpTo`).
- *The frames.* Assumed are `StreamAssumption`, `PayloadAssumption` and `LimitAssumption` of ToolOutput: streams and bytes are digits, and the
  limit is at most `Longest`, the greatest length a header can say (the code refuses to encode more). Of the
  operators is shown that `Number` reads what `Digits` wrote (`NumberOfDigits`), that it does not matter where a chunk ends
  (`TookInPieces`), and that a header and as many bytes as it announces are taken as one frame (`DataTaken`, `MarkTaken`). The
  invariant speaks of `Parsed`, what a fresh parser makes of all bytes of the object: `SinkInv` says that sink and
  writer have counted the same, `ScanInv` that a scan is where any scan of the same bytes would be, `TaskInv` what of the call at the head is
  kept already, so that the sum of the answers is what is kept up to the limit, and `EndInv` that the end is the end of all calls.
- *The file.* Assumed is that sizes are numbers (`SizeAssumption`). `InodeInv` says that every name is of an inode, `StepInv` what a
  step of the call says of its past, `ContentInv` that before publication the call has written into its temporary file only and that
  a target is never partial, `QuietInv` that the target is what the guard has seen as long as nobody has touched it, and `LateInv` that at the
  replacement it still is, unless it changed after the last look. With `SettledLeavesNothing` they are inductive.
- *The store.* Type correctness, `StoredIsWhole` and the refinement of `ContentMap`, for any candidates of any processes and any bytes, with no assumption about how processes meet; objects are whole until a disk goes bad. The
  inductive invariant has `DirInv` (directories are made, then synced, and candidates begin in synced ones), `CallInv` (calls
  belong to candidates that have begun and end with their process), `StateInv` (a poisoned or aborted candidate gets no further
  than its queue), `QueueInv` (nothing is queued once the queue has been drained, so a file that was hashed grows no more), `EntryInv`
  (a file linked under a name was hashed to it, and is whole unless damaged) and `KeptInv` (what a power loss leaves of a
  promised name is its synced file). A file may be written after its name is promised only if `QueueInv` fails; that
  is why it is needed for a property that does not mention the queue.

*InteractiveProofs*: `LoopIsOrderly`, for any number of sessions, messages, commands, resumes and continuations. Assumed is that the
default effort is an effort, the bounds are numbers and `None` is none of them. `LeaseInv` says in which call the holder of a lease is, and that a compaction that waits to resume may
resume once more; `FlagInv` that #running and #compacting say what goes on, and that what goes on has a session; `MessageInv` that what waits was
typed after what was sent; `NoneSleptOver` that the loop sleeps on an empty queue only, so that nothing that was
typed waits for a wake-up that has been. With these the part that does not need calm is inductive. `CalmInv` says that in a calm behaviour
the loop stands still while a session is chosen or compacted by command, and waits while it compacts itself: that is why the summary comes back to the
session it is of. A turn that does not wait (`TurnMayBeginAtOnce`) breaks exactly this part.

*InteractiveProofs*, second part: `PickerFollowsTheText` of `PromptSpec`, for any letters and any length of text. Assumed are the bounds and the kinds of characters (`SuggestedAssumption`). What has
to be excluded is that the answer to an old text opens, changes or keeps a picker behind the back of a new one. `ChainInv`
says what the chain of requests looks like: tokens rise along it, only the first may be at the provider, and it is called off unless it is the last
one asked for; while the timer runs all of them are overtaken. `FollowInv` says that an open picker fits the text, or a request is on its way that will answer
for the text as it is, and `WantInv` that what the last key asked for is such a request, or has been answered. `Prompt` has no `Shifts`: the keys that say nothing to
the picker are the ones the table above shows to break it.

Where a proof did not go through at first, the model was made clearer and not the property weaker: overlapping guards of a CASE
became IF chains in the order of the code, the tree of the gate got a depth of two (a file in a directory in a protected directory), and the
result of an edit that fails after its rename is told apart from one that fails before.

Only model-checked: `TextIsExact`, `AnswerIsWhatWasSaid`, `EditorIsSound`, `KeysDoNoHarm`, `WrapIsTheLine`,
`UnitsAreWhole` and `AppendsAreChained`, and liveness (`RecoveryEnds`, `WhatBeginsEnds`), which is out of the prover's reach. `TextIsExact`, `AnswerIsWhatWasSaid`
and `WrapIsTheLine` compare what a machine did piece by piece with a function that is recursive over the whole input, so that the machine and the function have
to be unfolded together. LineEditor and KeyInput have RECURSIVE operators and no theorems.

## Plan

Done: the lease, the log, the session core; the content store, tool output, processes, file tools; transport and parser;
lineages and compaction; ledger and budget; the verification gate; the interactive loop; editor, suggestions and key input.
Left, in this order:

1. Composition: an attempt of `SessionKernel` refined by `Transport`; `Execute` of `ToolRuntime` refined by `BashRun` and `FileMutation`.
2. Readers without a lease (`cli/sessions.ts`, passive observation) beside a repair.
3. The codecs of events, tool arguments and results (`journal/schema.ts`, `tool/`), as functions checked against their inverses.
4. Credentials: the file that is replaced while another command reads it.

## Not modelled

Canonical encodings, hashes and schemas are used by their result. Context materialisation and canonical bytes are pure, and project
instructions are read once; credentials and web search keep no durable state of a session. Drawing, layout, differential rendering, widgets
other than the editor, and the tables of keys. File modes, ownership and symbolic links, except where a tool compares them. Windows.
