--------------------------- MODULE MCIncrementalRuns ---------------------------
(***************************************************************************)
(* A base of two entry points, a on lines 1-2 and b on lines 3-4, and a    *)
(* helper on line 5 that b calls.  What b finds needs line 5.              *)
(***************************************************************************)
EXTENDS IncrementalRuns, UnifiedDiff, TLC

MCFunctions == {"a", "b", "helper", "new"}
MCBaseEps == {"a", "b"}
MCOwner == <<"a", "a", "b", "b", "helper">>
MCReach == [f \in MCFunctions |-> IF f = "b" THEN {"b", "helper"} ELSE {f}]
MCRecorded == [n \in MCBaseEps |-> IF n = "b" THEN {5} ELSE {}]
MCSinks == {1, 2, 5} \cup 6 .. 11

\* Lines are deleted, and at most one is written; its function may be new.
Edit(gone, added) ==
  LET e == [kept |-> (1 .. 5) \ gone, added |-> added, eps |-> {}]
  IN  [e EXCEPT !.eps = {f \in MCFunctions \ {"helper"} : Span(e, f) # {}}]
Nothing == [g \in {} |-> 0]

ReplaceInB == Edit({3}, 3 :> "b")
DeleteInA == Edit({2}, Nothing)
EditsOfR1 ==
  {Edit({2}, 5 :> "new"), Edit({1, 2}, Nothing), Edit({1, 2}, 0 :> "new"),
   Edit({1, 2, 5}, Nothing)}

MCEdits == [r \in {"r1", "r2"} |-> IF r = "r1" THEN EditsOfR1 ELSE {ReplaceInB}]
MCDeletion == [r \in {"r1", "r2"} |-> {DeleteInA}]

\* Two starts of r1 and of the baseline, or one of each process.
MCMaxStarts ==
  {[r1 |-> 2, r2 |-> 0, base |-> 2], [r1 |-> 1, r2 |-> 1, base |-> 1]}

\* The ranges are those of the code's loops, whatever is deleted and added.
ASSUME RangesAreParsed ==
  \A kept \in SUBSET (1 .. LastLine), gaps \in SUBSET (0 .. LastLine) :
    LET e == [kept |-> kept, added |-> [g \in gaps |-> "new"], eps |-> {}]
    IN  Ranges(e) = ParseUnifiedDiff(e)
=============================================================================
