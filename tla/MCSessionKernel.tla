----------------------------- MODULE MCSessionKernel -----------------------------
(* Instances of SessionKernel for TLC. *)
EXTENDS SessionKernel

\* The calls of the model: one that looks, one that acts, one that is wrong.
LookAndAct == {"read", "bash"}
AllOfThem  == AllKinds
=============================================================================
