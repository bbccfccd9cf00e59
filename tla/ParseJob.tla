------------------------------ MODULE ParseJob ------------------------------
(***************************************************************************)
(* What BaseParser.parseFilesConcurrently promises its caller, whatever    *)
(* happens to the child processes (src/engine/parser/parser.ts): every     *)
(* file is settled once, in any order and in any number at a time, and the *)
(* pool is released after the last one.                                    *)
(***************************************************************************)
EXTENDS Naturals

CONSTANTS Files  \* the files to parse

VARIABLES
  outcome,  \* per file: "none" until its promise is settled, then how
  released  \* the result was returned and the pool released

jobVars == <<outcome, released>>

Unsettled == {f \in Files : outcome[f] = "none"}

Init ==
  /\ outcome = [f \in Files |-> "none"]
  /\ released = FALSE

\* Some unsettled files are settled: with the AST of a child ("worker"), a
\* null AST ("null"), or what the main thread parsed ("main").
Settle ==
  \E S \in SUBSET Unsettled : \E how \in [S -> {"worker", "null", "main"}] :
    /\ S # {}
    /\ outcome' = [f \in Files |-> IF f \in S THEN how[f] ELSE outcome[f]]
    /\ UNCHANGED released

Release ==
  /\ Unsettled = {}
  /\ ~released
  /\ released' = TRUE
  /\ UNCHANGED outcome

Next == Settle \/ Release

Spec == Init /\ [][Next]_jobVars
=============================================================================
