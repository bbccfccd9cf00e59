-------------------------- MODULE MCSpringScheduler --------------------------
(* Instances of SpringScheduler for TLC. *)
EXTENDS SpringScheduler

OneAndTwo == <<1, 2>>
TwoAndOne == <<2, 1>>
=============================================================================
