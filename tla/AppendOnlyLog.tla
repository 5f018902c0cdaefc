---------------------------- MODULE AppendOnlyLog ----------------------------
(***************************************************************************)
(* What the journal promises to everything that is projected from it: the  *)
(* log that the next open reads only ever grows at its end; a power loss   *)
(* may take a suffix away, never an event whose append was acknowledged.   *)
(***************************************************************************)
EXTENDS Sequences, Naturals

CONSTANT Events

VARIABLES
  log,      \* the events the next open would read
  acked     \* the events whose append returned

EventsOf(s) == {s[i] : i \in DOMAIN s}

Init == log = << >> /\ acked = {}

Extend(e) == log' = Append(log, e) /\ UNCHANGED acked

Acknowledge(e) == e \in EventsOf(log) /\ acked' = acked \cup {e} /\ UNCHANGED log

PowerLoss(n) ==
  /\ log' = SubSeq(log, 1, n)
  /\ acked \subseteq EventsOf(log')
  /\ UNCHANGED acked

Next ==
  \/ \E e \in Events : Extend(e) \/ Acknowledge(e)
  \/ \E n \in 0..Len(log) : PowerLoss(n)

Spec == Init /\ [][Next]_<<log, acked>>
=============================================================================
