--------------------------------- MODULE MCEnds ---------------------------------
(* TLC instance of what must come to an end, whatever the network, the processes, *)
(* the terminal and other programs do: a send, a command, a call of write, a      *)
(* change of a file, a queue of messages, a turn and its check, a request for     *)
(* suggestions, keys that arrive in pieces, appends of several callers.  The      *)
(* components share nothing here.                                                 *)
(* `scene` says which of them a behaviour is about; the others are None, a send   *)
(* is not begun.                                                                  *)
EXTENDS Transport

CONSTANTS None, s1, s2

VARIABLES
  scene, group, escaped, holders, unborn, exit, observed, eof, at_run, armed, reason, stop,
  terminal, absence, ends, termed, killed, outrun, records, pending, limited, came, chunks,
  result, calls, results, step, out, broken, finishing, sink, object, scan, tool, at_file,
  inodes, target, temp, before, fd, guard, failure, published, outcome, touches, late, lost,
  ui, loop, comp, disk, seen, calm, tree, baseline, turn, last, course, journal, judged, others,
  text, col, picker, token, timer, tasks, keys, wanted, sought, closed, units, rest, t,
  overdue, restarts, appends, head, state, closing, bytes, held

SomeRetryAfters ==
  {[form |-> "none", ms |-> 0], [form |-> "malformed", ms |-> 7000], [form |-> "past", ms |-> 9000],
   [form |-> "seconds", ms |-> 0], [form |-> "seconds", ms |-> 3000], [form |-> "seconds", ms |-> 61000],
   [form |-> "date", ms |-> 2500], [form |-> "date", ms |-> 90000]}

\* A command that no signal ends, and more output than is kept.
Bash == INSTANCE BashRun
  WITH Descendants <- {}, Stuck <- {"child"}, HardLimit <- 4, Coalesce <- 2, MaxChunk <- 3,
       MaxChunks <- 3, ExitKinds <- {"zero"}, pc <- at_run

Frames == INSTANCE ToolOutput
  WITH Streams <- {2, 3}, Payloads <- {<< >>, <<1>>}, Base <- 4, LengthBytes <- 1,
       HardLimit <- 2, MaxCalls <- 3, failure <- broken

SomeContents == {"a", "b", "long"}
Mutations == INSTANCE FileMutation
  WITH Contents <- SomeContents, SizeOf <- [c \in SomeContents |-> IF c = "long" THEN 2 ELSE 1],
       Modes <- {"rw", "ro"}, NewMode <- "rw", MaxTouches <- 2, pc <- at_file

\* A user who interrupts, leaves and gives commands at any time.
Served == INSTANCE Interactive
  WITH Sessions <- {s1, s2}, Recorded <- {s2}, Efforts <- {"high", "max"}, DefaultEffort <- "high",
       MaxMessages <- 2, MaxCommands <- 2, MaxResumes <- 1, MaxContinues <- 1,
       Calm <- {FALSE}

\* One file, which the check depends on.
Gate == INSTANCE VerificationGate
  WITH Paths <- {"test"}, Under <- [p \in {"test"} |-> {}], Protected <- {"test"},
       Contents <- {"kept", "moved"}, Start <- [p \in {"test"} |-> "kept"], Others <- 0,
       MAX_VERIFICATION_RETRIES <- 2, MAX_TRUNCATION_CONTINUATIONS <- 1, MAX_AUTO_RESUMES <- 1,
       loop <- course

Picker == INSTANCE Suggestions
  WITH Typed <- {"/", "a"}, Shifts <- {"killStart", "killEnd", "lineStart", "lineEnd"},
       MaxText <- 4, MaxKeys <- 3, asked <- sought

Keys == INSTANCE KeyInput
  WITH Units <- {"x", "altBracket", "kitty", "legacy"}, MaxUnits <- 3, Restarts <- 1,
       late <- overdue

\* Four appends to one writer, and its close.
Queue == INSTANCE WriterQueue WITH MaxAppends <- 4

ASSUME
  /\ Bash!ProcessAssumption /\ Bash!CaptureAssumption
  /\ Frames!StreamAssumption /\ Frames!PayloadAssumption /\ Frames!LimitAssumption
  /\ Mutations!SizeAssumption
  /\ Served!SessionsAssumption /\ Served!EffortsAssumption /\ Served!BoundsAssumption
  /\ Served!CalmAssumption /\ Served!NoneAssumption
  /\ Gate!ProtectedAssumption /\ Gate!UnderAssumption /\ Gate!StartAssumption
  /\ Picker!SuggestionsAssumption /\ Keys!KeyInputAssumption

bashVars ==
  <<group, escaped, holders, unborn, exit, observed, eof, at_run, armed, reason,
    stop, terminal, absence, ends, termed, killed, outrun, records, pending, limited, came,
    chunks, result>>
BashOff ==
  /\ group = None /\ escaped = None /\ holders = None /\ unborn = None /\ exit = None
  /\ observed = None /\ eof = None /\ at_run = None /\ armed = None /\ reason = None
  /\ stop = None /\ terminal = None /\ absence = None /\ ends = None /\ termed = None
  /\ killed = None /\ outrun = None /\ records = None /\ pending = None /\ limited = None
  /\ came = None /\ chunks = None /\ result = None

framesVars == <<calls, results, step, out, broken, finishing, sink, object, scan>>
FramesOff ==
  /\ calls = None /\ results = None /\ step = None /\ out = None /\ broken = None
  /\ finishing = None /\ sink = None /\ object = None /\ scan = None

fileVars ==
  <<tool, at_file, inodes, target, temp, before, fd, guard, failure, published,
    outcome, touches, late, lost>>
MutationsOff ==
  /\ tool = None /\ at_file = None /\ inodes = None /\ target = None /\ temp = None
  /\ before = None /\ fd = None /\ guard = None /\ failure = None /\ published = None
  /\ outcome = None /\ touches = None /\ late = None /\ lost = None

servedVars == <<ui, loop, comp, disk, seen, calm>>
ServedOff ==
  /\ ui = None /\ loop = None /\ comp = None /\ disk = None /\ seen = None
  /\ calm = None

gateVars == <<tree, baseline, turn, last, course, journal, judged, others>>
GateOff ==
  /\ tree = None /\ baseline = None /\ turn = None /\ last = None /\ course = None
  /\ journal = None /\ judged = None /\ others = None

pickerVars ==
  <<text, col, picker, token, timer, tasks, keys, wanted, sought, closed>>
PickerOff ==
  /\ text = None /\ col = None /\ picker = None /\ token = None /\ timer = None
  /\ tasks = None /\ keys = None /\ wanted = None /\ sought = None /\ closed = None

keysVars == <<units, rest, t, overdue, restarts>>
KeysOff ==
  /\ units = None /\ rest = None /\ t = None /\ overdue = None /\ restarts = None

queueVars == <<appends, head, state, closing, bytes, held>>
QueueOff ==
  /\ appends = None /\ head = None /\ state = None /\ closing = None /\ bytes = None
  /\ held = None

EndsInit ==
  /\ scene \in {"send", "bash", "frames", "file", "served", "gate", "picker", "keys", "queue"}
  /\ Init
  /\ IF scene = "bash" THEN Bash!Init ELSE BashOff
  /\ IF scene = "frames" THEN Frames!Init ELSE FramesOff
  /\ IF scene = "file" THEN Mutations!Init ELSE MutationsOff
  /\ IF scene = "served" THEN Served!Init ELSE ServedOff
  /\ IF scene = "gate" THEN Gate!Init ELSE GateOff
  /\ IF scene = "picker" THEN Picker!Init ELSE PickerOff
  /\ IF scene = "keys" THEN Keys!Init ELSE KeysOff
  /\ IF scene = "queue" THEN Queue!Init ELSE QueueOff

EndsNext ==
  /\ UNCHANGED scene
  /\ \/ /\ scene = "send" /\ Next
        /\ UNCHANGED <<bashVars, framesVars, fileVars, servedVars, gateVars, pickerVars, keysVars, queueVars>>
     \/ /\ scene = "bash" /\ Bash!Next
        /\ UNCHANGED <<vars, framesVars, fileVars, servedVars, gateVars, pickerVars, keysVars, queueVars>>
     \/ /\ scene = "frames" /\ Frames!Next
        /\ UNCHANGED <<vars, bashVars, fileVars, servedVars, gateVars, pickerVars, keysVars, queueVars>>
     \/ /\ scene = "file" /\ Mutations!Next
        /\ UNCHANGED <<vars, bashVars, framesVars, servedVars, gateVars, pickerVars, keysVars, queueVars>>
     \/ /\ scene = "served" /\ Served!Next
        /\ UNCHANGED <<vars, bashVars, framesVars, fileVars, gateVars, pickerVars, keysVars, queueVars>>
     \/ /\ scene = "gate" /\ Gate!Next
        /\ UNCHANGED <<vars, bashVars, framesVars, fileVars, servedVars, pickerVars, keysVars, queueVars>>
     \/ /\ scene = "picker" /\ Picker!Next
        /\ UNCHANGED <<vars, bashVars, framesVars, fileVars, servedVars, gateVars, keysVars, queueVars>>
     \/ /\ scene = "keys" /\ Keys!Next
        /\ UNCHANGED <<vars, bashVars, framesVars, fileVars, servedVars, gateVars, pickerVars, queueVars>>
     \/ /\ scene = "queue" /\ Queue!Next
        /\ UNCHANGED <<vars, bashVars, framesVars, fileVars, servedVars, gateVars, pickerVars,
                       keysVars>>

\* Weak fairness of what the program does by itself: its own steps, its timers, and
\* awaits that come back.  Nobody else owes anything.
EndsFairness ==
  /\ WF_vars(scene = "send" /\ Appends)
  /\ WF_vars(scene = "send" /\ Timer)
  /\ WF_vars(scene = "send" /\ Retry)
  /\ WF_bashVars(scene = "bash" /\ Bash!Main)
  /\ WF_bashVars(scene = "bash" /\ Bash!Timeout)
  /\ WF_framesVars(scene = "frames" /\ Frames!Tasks)
  /\ WF_framesVars(scene = "frames" /\ Frames!Finished)
  /\ WF_fileVars(scene = "file" /\ Mutations!Step)
  /\ WF_servedVars(scene = "served" /\ Served!LoopSteps /\ UNCHANGED calm)
  /\ WF_servedVars(scene = "served" /\ Served!CompactSteps /\ UNCHANGED calm)
  /\ WF_gateVars(scene = "gate" /\ Gate!TurnEnds)
  /\ WF_gateVars(scene = "gate" /\ Gate!CheckStep)
  /\ WF_gateVars(scene = "gate" /\ Gate!LoopStep)
  /\ WF_pickerVars(scene = "picker" /\ Picker!Background)
  /\ WF_keysVars(scene = "keys" /\ \E n \in 1..Keys!MaxChunk : Keys!Arrive(n))
  /\ WF_keysVars(scene = "keys" /\ Keys!FlushTimer)
  /\ WF_keysVars(scene = "keys" /\ Keys!ReplyTimer)
  /\ WF_queueVars(scene = "queue" /\ Queue!Steps)

endsVars ==
  <<scene, vars, bashVars, framesVars, fileVars, servedVars, gateVars, pickerVars, keysVars,
    queueVars>>
EndsSpec == EndsInit /\ [][EndsNext]_endsVars /\ EndsFairness

-----------------------------------------------------------------------------
\* What is under way has come to its end: the send, the command, the calls of write,
\* the change of the file; messages are sent unless the user leaves, and then the loop
\* is over; the last turn is judged; suggestions are answered; the keys are passed on;
\* the callers of append have their answer, and the writer is closed if that was asked.
Ended ==
  /\ scene = "send" => Over
  /\ scene = "bash" => Bash!Over
  /\ scene = "frames" => Len(results) = Len(calls)
  /\ scene = "file" => at_file = "done"
  /\ scene = "served" =>
       /\ ui.queue = << >> \/ ui.exiting \/ loop.at = "crashed"
       /\ ui.exiting => loop.at \in {"over", "crashed"}
  /\ scene = "gate" => turn.phase = "ended"
  /\ scene = "picker" => timer = None /\ tasks = << >>
  /\ scene = "keys" /\ Len(units) = 3 =>
       rest = << >> /\ t.buffer = << >> /\ t.reply = << >>
  /\ scene = "queue" => Queue!Quiet

\* What begins ends: no time limit, retry, cancellation, failure or late answer leaves
\* a send, a command, a writer, a queue, a turn or a request waiting for ever.
WhatBeginsEnds == []<>Ended

\* One chain in the file, whoever appends through the writer (writer.ts:87-164).
AppendsAreChained == scene = "queue" => Queue!AppendsAreChained
=============================================================================
