--------------------------- MODULE ExclusiveLease ---------------------------
(***************************************************************************)
(* What the writer lease of a session promises to the code above it: at    *)
(* any moment at most one live process may append to the journal.  The     *)
(* lease passes from one writer to the next only through a moment at which *)
(* nobody writes; it ends by the writer closing or by its death.           *)
(***************************************************************************)
CONSTANTS Procs, NoProc

VARIABLE writer     \* the process that may append, or NoProc

Init == writer = NoProc

Grant(p) == writer = NoProc /\ writer' = p

End == writer # NoProc /\ writer' = NoProc

Next == End \/ \E p \in Procs : Grant(p)

Spec == Init /\ [][Next]_writer

WriterOK == writer \in Procs \cup {NoProc}
=============================================================================
