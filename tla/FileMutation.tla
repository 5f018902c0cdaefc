----------------------------- MODULE FileMutation -----------------------------
(***************************************************************************)
(* write and edit (tool/file.ts): a file is replaced as a whole by one that *)
(* was written beside it, while other programs may change it at any moment, *)
(* any call may fail, and the process may die between two of them.          *)
(*                                                                         *)
(* A file is an inode with contents, mode and number of links; a path names *)
(* an inode or none.  Contents are read in one step; two contents may have  *)
(* the same size.  The text of an edit is FileText's subject: here an edit  *)
(* of contents c is another contents, and the text always occurs once.      *)
(***************************************************************************)
EXTENDS Naturals, FiniteSets

CONSTANTS
  Contents,      \* what other programs write
  SizeOf,        \* size of each
  Modes,         \* access modes
  NewMode,       \* 0o666 & ~umask
  MaxTouches     \* bound: changes by other programs

\* What an instance assumes of the constants.
SizeAssumption == SizeOf \in [Contents -> Nat] /\ NewMode \in Modes /\ MaxTouches \in Nat

VARIABLES
  tool,      \* "write" or "edit"
  pc,        \* the step the call is at
  inodes,    \* the inodes there have been
  target,    \* the inode the target's path names, or 0
  temp,      \* the same for the temporary file
  before,    \* what lstat found, or Absent
  fd,        \* the inode that is open for reading, or 0
  guard,     \* guard.existing, "absent", or nothing yet
  failure,   \* why it is being undone: "io_error", "target_changed"
  published, \* link or rename has been done
  outcome,   \* "none", or what the call answers
  touches,   \* how often others changed the target, for the bound
  late,      \* they did since the target was checked for the last time
  lost       \* the inodes as they were replaced

vars == <<tool, pc, inodes, target, temp, before, fd, guard, failure, published,
          outcome, touches, late, lost>>

Text(c) == [text |-> c, made |-> "by_others"]
Partial == [text |-> "partial", made |-> "by_call"]
Written == [text |-> "written", made |-> "by_call"]
Edited(content) == [text |-> content.text, made |-> IF content.made = "by_others" THEN "by_edit" ELSE "twice"]

Size(content) == IF content.made = "by_others" THEN SizeOf[content.text] ELSE 0

Absent == [ino |-> 0, content |-> Partial, mode |-> NewMode, links |-> 0]

\* Inodes are numbered as they come; a number is not used again.
Fresh == Cardinality(DOMAIN inodes) + 1
With(ino, file) == [i \in DOMAIN inodes \cup {ino} |-> IF i = ino THEN file ELSE inodes[i]]
File(content, mode) == [content |-> content, mode |-> mode, links |-> 1]

Init ==
  /\ tool \in {"write", "edit"}
  /\ pc = "lstat" /\ outcome = "none" /\ failure = "none"
  /\ \/ target = 0 /\ inodes = [i \in {} |-> Absent]
     \/ /\ target = 1
        /\ \E c \in Contents, m \in Modes : inodes = [i \in {1} |-> File(Text(c), m)]
  /\ temp = 0 /\ before = Absent /\ fd = 0 /\ guard = Absent
  /\ published = FALSE /\ touches = 0 /\ late = FALSE /\ lost = {}

-----------------------------------------------------------------------------
(* Other programs. *)

Touched ==
  /\ touches < MaxTouches /\ touches' = touches + 1 /\ late' = TRUE
  /\ UNCHANGED <<tool, pc, temp, before, fd, guard, failure, published, outcome, lost>>

WriteInPlace(c) ==
  /\ target # 0 /\ Touched
  /\ inodes' = [inodes EXCEPT ![target].content = Text(c)]
  /\ UNCHANGED target

ReplaceBy(c, m) ==
  /\ Touched
  /\ target' = Fresh
  /\ inodes' = With(Fresh, File(Text(c), m))

Delete == target # 0 /\ Touched /\ target' = 0 /\ UNCHANGED inodes

Chmod(m) ==
  /\ target # 0 /\ Touched
  /\ inodes' = [inodes EXCEPT ![target].mode = m]
  /\ UNCHANGED target

\* Another name for the file.
HardLink ==
  /\ target # 0 /\ Touched
  /\ inodes' = [inodes EXCEPT ![target].links = @ + 1]
  /\ UNCHANGED target

Others ==
  \/ \E c \in Contents : WriteInPlace(c) \/ \E m \in Modes : ReplaceBy(c, m)
  \/ Delete \/ HardLink \/ \E m \in Modes : Chmod(m)

-----------------------------------------------------------------------------
(* What the call does next. *)

Kept == UNCHANGED <<tool, inodes, target, temp, before, fd, guard, failure, published, touches, late, lost>>

Answer(as) == outcome' = as /\ pc' = "done"

\* identityFrom.
Seen(ino) == [ino |-> ino, content |-> inodes[ino].content, mode |-> inodes[ino].mode, links |-> 1]

\* sameIdentity, for an inode reached by its path or already open.  An inode
\* whose path names another one now has no link left.
Links(ino) == IF ino \in {target, temp} THEN inodes[ino].links ELSE inodes[ino].links - 1
SameStat(ino, g) ==
  /\ ino # 0 /\ ino = g.ino
  /\ Links(ino) = 1 /\ inodes[ino].mode = g.mode
  /\ Size(inodes[ino].content) = Size(g.content)

\* Mutant: the contents do not matter when size and inode are the same.
SameFileByStat(ino, g) == SameStat(ino, g)

SameFile(ino, g) == SameStat(ino, g) /\ inodes[ino].content = g.content

Undo(why) ==
  /\ failure' = why /\ pc' = "recheck_undo"
  /\ UNCHANGED <<tool, inodes, target, temp, before, fd, guard, published, outcome, touches, late, lost>>

-----------------------------------------------------------------------------
(* preflightFileMutation. *)

Lstat ==
  /\ pc = "lstat"
  /\ IF target = 0
     THEN IF tool = "write" THEN pc' = "create" /\ UNCHANGED outcome ELSE Answer("observed_io_error")
     ELSE IF inodes[target].links # 1 THEN Answer("observed_invalid")
     ELSE pc' = "inspect" /\ UNCHANGED outcome
  /\ before' = IF target = 0 THEN Absent ELSE Seen(target)
  /\ UNCHANGED <<tool, inodes, target, temp, fd, guard, failure, published, touches, late, lost>>

\* Opened by its path, compared, hashed: later every look at the target is
\* compared with what is found here.
Inspect ==
  /\ pc = "inspect"
  /\ IF SameStat(target, before)
     THEN /\ guard' = Seen(target)
          /\ pc' = "create" /\ UNCHANGED outcome
     ELSE Answer("observed_io_error") /\ UNCHANGED guard
  /\ UNCHANGED <<tool, inodes, target, temp, before, fd, failure, published, touches, late, lost>>

\* The path leads nowhere or to a protected place, a call fails, the contents
\* are no text, the text to be edited is not there exactly once: nothing is done.
PreflightRefuses ==
  /\ pc \in {"lstat", "inspect"} /\ Kept
  /\ \E as \in {"observed_invalid", "observed_io_error"} : Answer(as)

-----------------------------------------------------------------------------
(* executePreparedFileMutation. *)

CreateTemp ==
  /\ pc = "create"
  /\ temp' = Fresh /\ inodes' = With(Fresh, File(Partial, NewMode))
  /\ pc' = IF tool = "write" THEN "fill" ELSE "source"
  /\ UNCHANGED <<tool, target, before, fd, guard, failure, published, outcome, touches, late, lost>>

OpenSource ==
  /\ pc = "source"
  /\ IF SameStat(target, guard)
     THEN /\ fd' = target /\ pc' = "fill"
          /\ UNCHANGED <<tool, inodes, target, temp, before, guard, failure, published,
                         outcome, touches, late, lost>>
     ELSE IF target = 0 THEN Undo("io_error") ELSE Undo("target_changed")

Filling(content) == inodes' = [inodes EXCEPT ![temp].content = content] /\ pc' = "chmod"
Unmoved == UNCHANGED <<tool, target, temp, before, fd, guard, failure, published, outcome, touches, late, lost>>

\* The contents, for an edit out of what the target has now; if that is not
\* what was inspected, the edit is not what the model asked for.
Fill ==
  /\ pc = "fill"
  /\ IF tool = "write" THEN Filling(Written) /\ Unmoved
     ELSE IF inodes[fd].content = guard.content
     THEN Filling(Edited(inodes[fd].content)) /\ Unmoved
     ELSE Undo("target_changed")

DesiredMode == IF guard.ino = 0 THEN NewMode ELSE guard.mode

\* chmod, sync, stat, close; then the file is read again and compared.
ChmodTemp ==
  /\ pc = "chmod" /\ pc' = "recheck"
  /\ inodes' = [inodes EXCEPT ![temp].mode = DesiredMode]
  /\ UNCHANGED <<tool, target, temp, before, fd, guard, failure, published, outcome, touches, late, lost>>

\* recheckTarget, first half: by its path; "open" needs the second half.
Found ==
  IF guard.ino = 0 THEN IF target = 0 THEN "same" ELSE "changed"
  ELSE IF SameStat(target, guard) THEN "open" ELSE "changed"

Recheck ==
  /\ pc = "recheck"
  /\ IF Found = "changed" THEN Undo("target_changed")
     ELSE /\ pc' = (IF Found = "same" THEN "publish" ELSE "rehash")
          /\ fd' = target /\ late' = FALSE
          /\ UNCHANGED <<tool, inodes, target, temp, before, guard, failure, published,
                         outcome, touches, lost>>

\* Second half: the contents of the open file, and its identity once more.  An
\* exchange of the file meanwhile shows in its number of links, unless it has
\* got another name, too.
Rehash ==
  /\ pc = "rehash"
  /\ IF SameFile(fd, guard)
     THEN /\ pc' = "publish" /\ late' = (fd # target)
          /\ UNCHANGED <<tool, inodes, target, temp, before, fd, guard, failure, published,
                         outcome, touches, lost>>
     ELSE Undo("target_changed")

\* A new file gets a second name, which fails if the path names a file by now.
LinkNew ==
  /\ pc = "publish" /\ guard.ino = 0
  /\ IF target # 0 THEN Undo("io_error")
     ELSE /\ target' = temp /\ inodes' = [inodes EXCEPT ![temp].links = 2]
          /\ published' = TRUE /\ pc' = "unlink"
          /\ UNCHANGED <<tool, temp, before, fd, guard, failure, outcome, touches, late, lost>>

UnlinkTemp ==
  /\ pc = "unlink" /\ pc' = "sync"
  /\ inodes' = [inodes EXCEPT ![temp].links = @ - 1] /\ temp' = 0
  /\ UNCHANGED <<tool, target, before, fd, guard, failure, published, outcome, touches, late, lost>>

\* An existing file is replaced, whatever the path names by now.
Rename ==
  /\ pc = "publish" /\ guard.ino # 0
  /\ lost' = {inodes[i] : i \in {target} \ {0}}
  /\ target' = temp /\ temp' = 0 /\ published' = TRUE /\ pc' = "sync"
  /\ UNCHANGED <<tool, inodes, before, fd, guard, failure, outcome, touches, late>>

SyncParent == pc = "sync" /\ Answer("ok") /\ Kept

Mutating == {"create", "source", "fill", "chmod", "recheck", "rehash", "publish", "unlink", "sync"}

\* Any call fails: before publication what was done is undone, after it nobody
\* knows what the file system has.
CallFails ==
  /\ pc \in Mutating
  /\ IF published THEN Answer("indeterminate") /\ Kept ELSE Undo("io_error")

-----------------------------------------------------------------------------
(* cleanBeforePublication. *)

Expected == IF failure = "target_changed" THEN "changed" ELSE "same"

Verdict(state) ==
  IF state = Expected THEN pc' = "remove" /\ UNCHANGED outcome ELSE Answer("indeterminate")

RecheckUndo ==
  /\ pc = "recheck_undo"
  /\ IF Found = "open" THEN pc' = "rehash_undo" /\ UNCHANGED outcome ELSE Verdict(Found)
  /\ fd' = target
  /\ UNCHANGED <<tool, inodes, target, temp, before, guard, failure, published, touches, late, lost>>

RehashUndo ==
  /\ pc = "rehash_undo" /\ Kept
  /\ Verdict(IF SameFile(fd, guard) THEN "same" ELSE "changed")

Remove ==
  /\ pc = "remove" /\ Answer(failure) /\ temp' = 0
  /\ UNCHANGED <<tool, inodes, target, before, fd, guard, failure, published, touches, late, lost>>

UndoFails ==
  /\ pc \in {"recheck_undo", "rehash_undo", "remove"}
  /\ Answer("indeterminate") /\ Kept

\* The process dies.
Crash == pc # "done" /\ Answer("crashed") /\ Kept

Step ==
  \/ Lstat \/ Inspect \/ CreateTemp \/ OpenSource \/ Fill \/ ChmodTemp \/ Recheck \/ Rehash
  \/ LinkNew \/ UnlinkTemp \/ Rename \/ SyncParent
  \/ RecheckUndo \/ RehashUndo \/ Remove

Next == Step \/ PreflightRefuses \/ CallFails \/ UndoFails \/ Crash \/ Others

Fairness == WF_vars(Step)
Spec == Init /\ [][Next]_vars /\ Fairness

-----------------------------------------------------------------------------
Settled == {"ok", "io_error", "target_changed"}

\* Types; two names only while a new file is being put in its place.
TypeOK ==
  /\ target \in DOMAIN inodes \cup {0} /\ temp \in DOMAIN inodes \cup {0}
  /\ outcome \in Settled \cup {"none", "crashed", "indeterminate", "observed_invalid", "observed_io_error"}
  /\ pc \in Mutating \cup {"lstat", "inspect", "recheck_undo", "rehash_undo", "remove", "done"}
  /\ touches \in 0..MaxTouches /\ late \in BOOLEAN /\ published \in BOOLEAN
  /\ target # 0 /\ target = temp => published /\ guard.ino = 0

\* Whoever looks, and whenever the process dies: the target has contents that
\* somebody wrote as a whole, or the whole of what the call writes.
TargetIsNeverPartial == target # 0 => inodes[target].content # Partial

\* An edit changes the contents it was asked to change, and keeps the mode.
EditOfWhatWasSeen ==
  published => \A i \in DOMAIN inodes :
    /\ inodes[i].content.made = "by_edit" => inodes[i].content = Edited(guard.content)
    /\ touches = 0 /\ i = target => inodes[i].mode = DesiredMode

\* What others have written to the target is lost only if they wrote it after
\* the last look at it; a file that was not there before replaces none.
OnlyLateChangesAreLost ==
  /\ \A file \in lost : late \/ (file.content = guard.content /\ file.mode = guard.mode)
  /\ guard.ino = 0 => lost = {}

\* A call that reports failure has not touched the target, and leaves no
\* temporary file; one that reports success has one name, the target's.
SettledLeavesNothing ==
  outcome \in Settled => /\ temp = 0
                         /\ (outcome = "ok") = published
                         /\ outcome = "target_changed" => touches > 0

\* Whoever else changes the file, and whenever the process dies: the target is
\* never partial, an edit changes what was looked at, only changes made after
\* the last look are lost, and a call that reports failure has changed nothing.
NoChangeIsLost ==
  /\ TypeOK /\ TargetIsNeverPartial /\ EditOfWhatWasSeen
  /\ OnlyLateChangesAreLost /\ SettledLeavesNothing

=============================================================================
