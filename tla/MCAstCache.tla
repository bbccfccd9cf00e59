---------------------------- MODULE MCAstCache ----------------------------
(***************************************************************************)
(* Instance of AstCache for TLC: two files, two texts that parse and one   *)
(* that does not, so that a file can be edited, broken, removed and        *)
(* brought back to an earlier text.                                        *)
(***************************************************************************)
EXTENDS AstCache, TLC

Symmetric == Permutations(Files) \cup Permutations(Parses)
=============================================================================
