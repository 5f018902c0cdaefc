-------------------------------- MODULE MCTools --------------------------------
(* TLC instance of what the tools stand on: a command with one descendant that   *)
(* no signal ends, frames with lengths of two digits, a file of three contents   *)
(* that another program may change twice, texts that overlap themselves.         *)
EXTENDS Tools, TLC

CONSTANT d1

CandidateSymmetry == Permutations(Candidates)

MCProcesses == {d1}
MCExitKinds == {"zero", "nonzero", "unknown"}

\* Payloads that look like headers.
MCStreams  == {2, 3}
MCPayloads == {<< >>, <<1, 0>>, <<2, 1, 0>>}

\* Two contents of one size, one of another.
MCContents == {"a", "b", "long"}
MCSizeOf   == [c \in MCContents |-> IF c = "long" THEN 2 ELSE 1]
MCModes    == {"rw", "ro"}

\* Texts that overlap themselves, alone and with another beginning.
MCLetters     == {1, 2}
MCNeedles     == {<<1>>, <<1, 1>>, <<1, 2, 1>>, <<1, 1, 2>>, <<1, 0, 1, 1>>}
MCReplacement == <<1, 2>>
MCSlices      == [offset : {0, 1}, limit : {1, 2}]

ASSUME
  /\ Bash!ProcessAssumption /\ Bash!CaptureAssumption
  /\ Frames!StreamAssumption /\ Frames!PayloadAssumption /\ Frames!LimitAssumption
  /\ Writes!SizeAssumption /\ Texts!NeedleAssumption /\ Texts!SliceAssumption
=============================================================================
