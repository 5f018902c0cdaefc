--------------------------------- MODULE Tools ---------------------------------
(***************************************************************************)
(* What the tools stand on: the content store, the command of bash and the *)
(* frames of its output, files that are written, edited and read.  A call  *)
(* is of one tool, and in here they share nothing: `scene` says which of    *)
(* them a behaviour is about; the others are Off, the store is empty.      *)
(***************************************************************************)
EXTENDS ContentStore

CONSTANTS
  Off,
  Descendants, Stuck, CommandLimit, Coalesce, MaxChunk, MaxChunks, ExitKinds,  \* of the command
  Streams, Payloads, Base, LengthBytes, OutputLimit, MaxCalls,                 \* of the frames
  Contents, SizeOf, Modes, NewMode, MaxTouches,                                \* of a file replaced
  Letters, MaxLength, Needles, Replacement, Slices, TextLimit                  \* of a text read

VARIABLES
  scene,
  group, escaped, holders, unborn, exit, observed, eof, at_run, armed, reason, stop, terminal,
  absence, ends, termed, killed, outrun, records, pending, limited, came, chunks, result,
  calls, results, step, out, broken, finishing, sink, framed, scan,
  tool, at_file, inodes, target, beside, before, fd, guard, failure, published, outcome, touches,
  late, lost,
  file, needle, slice, at, over, matcher, edit, slicer

Bash      == INSTANCE BashRun WITH HardLimit <- CommandLimit, pc <- at_run
Frames    == INSTANCE ToolOutput
               WITH HardLimit <- OutputLimit, failure <- broken, object <- framed
Writes    == INSTANCE FileMutation WITH pc <- at_file, temp <- beside
Texts     == INSTANCE FileText WITH Bytes <- Letters, HardLimit <- TextLimit

bashVars ==
  <<group, escaped, holders, unborn, exit, observed, eof, at_run, armed, reason, stop, terminal,
    absence, ends, termed, killed, outrun, records, pending, limited, came, chunks, result>>
BashOff ==
  /\ group = Off /\ escaped = Off /\ holders = Off /\ unborn = Off /\ exit = Off
  /\ observed = Off /\ eof = Off /\ at_run = Off /\ armed = Off /\ reason = Off /\ stop = Off
  /\ terminal = Off /\ absence = Off /\ ends = Off /\ termed = Off /\ killed = Off
  /\ outrun = Off /\ records = Off /\ pending = Off /\ limited = Off /\ came = Off
  /\ chunks = Off /\ result = Off
framesVars ==
  <<calls, results, step, out, broken, finishing, sink, framed, scan>>
FramesOff ==
  /\ calls = Off /\ results = Off /\ step = Off /\ out = Off /\ broken = Off
  /\ finishing = Off /\ sink = Off /\ framed = Off /\ scan = Off
fileVars ==
  <<tool, at_file, inodes, target, beside, before, fd, guard, failure, published, outcome,
    touches, late, lost>>
WritesOff ==
  /\ tool = Off /\ at_file = Off /\ inodes = Off /\ target = Off /\ beside = Off
  /\ before = Off /\ fd = Off /\ guard = Off /\ failure = Off /\ published = Off
  /\ outcome = Off /\ touches = Off /\ late = Off /\ lost = Off
textVars ==
  <<file, needle, slice, at, over, matcher, edit, slicer>>
TextsOff ==
  /\ file = Off /\ needle = Off /\ slice = Off /\ at = Off /\ over = Off
  /\ matcher = Off /\ edit = Off /\ slicer = Off

ToolsInit ==
  /\ scene \in {"store", "bash", "frames", "file", "text"}
  /\ Init
  /\ IF scene = "bash" THEN Bash!Init ELSE BashOff
  /\ IF scene = "frames" THEN Frames!Init ELSE FramesOff
  /\ IF scene = "file" THEN Writes!Init ELSE WritesOff
  /\ IF scene = "text" THEN Texts!Init ELSE TextsOff

ToolsNext ==
  /\ UNCHANGED scene
  /\ \/ /\ scene = "store" /\ Next
        /\ UNCHANGED <<bashVars, framesVars, fileVars, textVars>>
     \/ /\ scene = "bash" /\ Bash!Next
        /\ UNCHANGED <<vars, framesVars, fileVars, textVars>>
     \/ /\ scene = "frames" /\ Frames!Next
        /\ UNCHANGED <<vars, bashVars, fileVars, textVars>>
     \/ /\ scene = "file" /\ Writes!Next
        /\ UNCHANGED <<vars, bashVars, framesVars, textVars>>
     \/ /\ scene = "text" /\ Texts!Next
        /\ UNCHANGED <<vars, bashVars, framesVars, fileVars>>

toolsVars == <<scene, vars, bashVars, framesVars, fileVars, textVars>>
ToolsSpec == ToolsInit /\ [][ToolsNext]_toolsVars

-----------------------------------------------------------------------------
\* What the bash tool reports of a command is what became of its processes and
\* of its output, whatever of exit, time limit, cancellation, end of output and
\* errors comes first.
OutcomeIsTrue == scene = "bash" => Bash!OutcomeIsTrue

\* A reader of published output gets what the calls of write were told was
\* accepted, cut at the limit of all streams together, and none of it if a frame
\* is missing.
FramesAreExact ==
  scene = "frames" =>
    /\ Frames!TypeOK /\ Frames!ScanGivesWhatWasAccepted /\ Frames!LimitIsExact
    /\ Frames!NeverRefused /\ Frames!NoPartialOutput

\* Whoever else changes the file, and whenever the process dies: the target is
\* never partial, an edit changes what was looked at, only changes made after
\* the last look are lost, and a call that reports failure has changed nothing.
NoChangeIsLost == scene = "file" => Writes!NoChangeIsLost

\* The text that is counted, replaced or cut into lines as it is read in pieces
\* is that of the file as a whole, wherever a read ends.
TextIsExact ==
  scene = "text" => Texts!TypeOK /\ Texts!CountIsExact /\ Texts!EditIsExact /\ Texts!SliceIsExact
=============================================================================
