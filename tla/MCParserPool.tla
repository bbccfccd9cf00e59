---------------------------- MODULE MCParserPool ----------------------------
(***************************************************************************)
(* Instances of ParserPool for TLC.  MaxProcs is as many children as these *)
(* instances ever fork when the bound is out of the way (it is raised to   *)
(* 13 to see that), so it never stops createWorker().                      *)
(***************************************************************************)
EXTENDS ParserPool

ThreeFiles == {"a", "b", "c"}
FourFiles  == {"a", "b", "c", "d"}
JustAst    == {"ast"}
=============================================================================
