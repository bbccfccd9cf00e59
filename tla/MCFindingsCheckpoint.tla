------------------------- MODULE MCFindingsCheckpoint -------------------------
(* Instances of FindingsCheckpoint for TLC. *)
EXTENDS FindingsCheckpoint
=============================================================================
