----------------------------- MODULE MCCallSummary -----------------------------
(* Instances of CallSummary for TLC. *)
EXTENDS CallSummary, TLC

Symmetric == Permutations(Calls)
=============================================================================
