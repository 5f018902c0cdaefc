----------------------------- MODULE MCJournalLog -----------------------------
(* TLC instance of JournalLog: the processes are interchangeable. *)
EXTENDS JournalLog, TLC

ProcSymmetry == Permutations(Procs)
=============================================================================
