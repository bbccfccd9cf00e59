------------------------------ MODULE UnifiedDiff ------------------------------
(***************************************************************************)
(* The ranges of a diff as the loops of incremental-manager.ts compute     *)
(* them, line by line: a second definition of IncrementalPlan's Ranges, to *)
(* check that one against.                                                 *)
(***************************************************************************)
EXTENDS IncrementalPlan, Sequences, SequencesExt

\* What a diff lists after a kept line: the lines deleted there, then those added.
Hunk(e, k) ==
  LET here(line) == LastKept(e, line) = k
      del(d) == DiffLineRange("deleted", <<d, d>>, <<d, d>>)
      add(g) == DiffLineRange("added", <<AddedAt(e, g), AddedAt(e, g)>>,
                                       <<AddedAt(e, g), AddedAt(e, g)>>)
      gone == SetToSortSeq({d \in Deleted(e) : here(d)}, <)
      new  == SetToSortSeq({g \in DOMAIN e.added : here(g)}, <)
  IN  [i \in DOMAIN gone |-> del(gone[i])] \o [i \in DOMAIN new |-> add(new[i])]

Listing(e) ==
  LET kept == SetToSortSeq(e.kept \cup {0}, <)
  IN  FlattenSeq([i \in DOMAIN kept |-> Hunk(e, kept[i])])

\* Where the block of one kind that begins at i ends; i - 1 if none does.
BlockEnd(ranges, i, kind) ==
  Max({j \in i - 1 .. Len(ranges) : \A l \in i .. j : ranges[l].kind = kind})

RECURSIVE MarkModifiedPairs(_)
MarkModifiedPairs(ranges) ==
  IF ranges = <<>> THEN <<>>
  ELSE LET d   == BlockEnd(ranges, 1, "deleted")
           a   == BlockEnd(ranges, d + 1, "added")
           old == {ranges[i] : i \in 1 .. d}
           new == {ranges[i] : i \in d + 1 .. a}
       IN  IF d = 0
           THEN <<Head(ranges)>> \o MarkModifiedPairs(Tail(ranges))
           ELSE (IF a = d
                 THEN SubSeq(ranges, 1, d)
                 ELSE <<DiffLineRange("modified",
                          <<Min({r.start : r \in old}), Max({r.end : r \in old})>>,
                          <<Min({r.start : r \in new}), Max({r.end : r \in new})>>)>>)
                \o MarkModifiedPairs(SubSeq(ranges, a + 1, Len(ranges)))

CanCoalesce(left, right) ==
  /\ left.kind = right.kind
  /\ left.end + 1 >= right.start
  /\ left.kind = "modified" => left.oldEnd + 1 >= right.oldStart

CoalesceDiffRanges(ranges) ==
  FoldLeft(LAMBDA done, r :
             IF done # <<>> /\ CanCoalesce(Last(done), r)
             THEN [done EXCEPT ![Len(done)] =
                     DiffLineRange(@.kind, <<Min({@.oldStart, r.oldStart}), Max({@.oldEnd, r.oldEnd})>>,
                                           <<@.start, Max({@.end, r.end})>>)]
             ELSE Append(done, r),
           <<>>, ranges)

ParseUnifiedDiff(e) == ToSet(CoalesceDiffRanges(MarkModifiedPairs(Listing(e))))
=============================================================================
