---------------------------- MODULE MCWriterLease ----------------------------
(* TLC instance of WriterLease: the processes are interchangeable. *)
EXTENDS WriterLease, TLC

ProcSymmetry == Permutations(Procs)
=============================================================================
