---------------------------- MODULE AtomicDocument ----------------------------
(***************************************************************************)
(* What a checkpoint promises its reader: a document that is replaced as a *)
(* whole by the findings of the moment.  After a power loss the reader may *)
(* find the previous document, never a part of one.                        *)
(***************************************************************************)
EXTENDS Integers

CONSTANT MaxFindings

VARIABLES
  findings,  \* how many findings the running analysis has
  file,      \* the findings in the document, or -1 if there is none
  durable    \* the document that survives a power loss

vars == <<findings, file, durable>>

Init ==
  /\ findings = 0
  /\ file \in {-1, MaxFindings + 1}  \* none or that of an earlier run
  /\ durable = file

NewFinding ==
  /\ findings < MaxFindings
  /\ findings' = findings + 1
  /\ UNCHANGED <<file, durable>>

Publish ==
  /\ file' = findings
  /\ UNCHANGED <<findings, durable>>

Harden ==
  /\ durable' = file
  /\ UNCHANGED <<findings, file>>

Lose ==
  /\ file' = durable
  /\ UNCHANGED <<findings, durable>>

Restart ==
  /\ findings' = 0
  /\ UNCHANGED <<file, durable>>

Next == NewFinding \/ Publish \/ Harden \/ Lose \/ Restart

Spec == Init /\ [][Next]_vars
=============================================================================
