------------------------------- MODULE Variant -------------------------------
(***************************************************************************)
(* Ranks: tuples of natural numbers of one length, compared at the first   *)
(* place where they differ.  No infinite sequence of ranks goes down, so a *)
(* program each step of which lowers its rank takes finitely many steps.   *)
(***************************************************************************)
EXTENDS Naturals

Lower(a, b) ==
  \E i \in DOMAIN b : a[i] < b[i] /\ \A j \in 1 .. i - 1 : a[j] = b[j]
=============================================================================
