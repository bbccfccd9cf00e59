--------------------------- MODULE MCJavaScheduler ---------------------------
(* Instances of JavaScheduler for TLC. *)
EXTENDS JavaScheduler

OneAndTwo == <<1, 2>>
TwoAndOne == <<2, 1>>
=============================================================================
