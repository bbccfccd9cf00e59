---------------------------- MODULE IncrementalPlan ----------------------------
(***************************************************************************)
(* What an incremental run decides to analyse again, and how it merges the *)
(* findings: src/incremental/incremental-manager.ts and                    *)
(* src/util/incremental-findings.ts as functions of an edit.               *)
(*                                                                         *)
(* A base text of numbered lines, each belonging to a function, is edited: *)
(* some lines are kept, and at most one line is written after each of      *)
(* them.  What an analysis finds for an entry point is determined by the   *)
(* lines of the functions it reaches, so a finding carries those lines,    *)
(* and two findings agree when the code they were computed from does.      *)
(***************************************************************************)
EXTENDS Integers, FiniteSets, FiniteSetsExt, Bags

CONSTANTS
  Functions,  \* functions of the base or of a head
  LastLine,   \* lines of the base text
  BaseEps,    \* the functions that are entry points of the base
  Owner,      \* Owner[line]: the function a line of the base text belongs to
  Reach,      \* Reach[f]: the functions that f reaches by calls, and f
  Recorded,   \* Recorded[n]: lines of call sites and edges the database has for n
  Sinks       \* lines, numbered as in Code, without which there is no finding

ASSUME PlanAssumption ==
  /\ LastLine \in Nat
  /\ BaseEps \subseteq Functions
  /\ Owner \in [1 .. LastLine -> Functions]
  /\ Reach \in [Functions -> SUBSET Functions]
  /\ Recorded \in [BaseEps -> SUBSET (1 .. LastLine)]

(* An edit: the lines that stay, the function of the line written in a gap *)
(* (gap g follows line g), and the entry points of the edited text.        *)
IsEdit(e) ==
  /\ e.kept \subseteq 1 .. LastLine
  /\ DOMAIN e.added \subseteq 0 .. LastLine
  /\ e.added \in [DOMAIN e.added -> Functions]
  /\ e.eps \subseteq Functions

NoEdit == [kept |-> 1 .. LastLine, added |-> [g \in {} |-> 0], eps |-> BaseEps]

-----------------------------------------------------------------------------
(* The edited text *)

KeptAt(e, line) ==
  Cardinality({k \in e.kept : k <= line}) + Cardinality({g \in DOMAIN e.added : g < line})
AddedAt(e, gap) ==
  Cardinality({k \in e.kept : k <= gap}) + Cardinality({g \in DOMAIN e.added : g <= gap})

Span(e, f) == {KeptAt(e, k) : k \in {k \in e.kept : Owner[k] = f}}
              \cup {AddedAt(e, g) : g \in {g \in DOMAIN e.added : e.added[g] = f}}

\* The functions whose lines are consecutive in the text, as a parser sees them.
WellFormed(e) ==
  /\ \A f \in e.eps : Span(e, f) # {}
  /\ \A f \in Functions : Span(e, f) # {} =>
       Max(Span(e, f)) - Min(Span(e, f)) + 1 = Cardinality(Span(e, f))

\* The lines an analysis of n sees; the line written in gap g is LastLine + 1 + g.
Code(e, n) ==
  {k \in e.kept : Owner[k] \in Reach[n]}
  \cup {LastLine + 1 + g : g \in {g \in DOMAIN e.added : e.added[g] \in Reach[n]}}

\* What an analysis of the entry points N reports.
Results(e, N) ==
  {[ep |-> n, code |-> Code(e, n)] : n \in {n \in N : Code(e, n) \cap Sinks # {}}}

BaseResults == Results(NoEdit, BaseEps)
FullResults(e) == Results(e, e.eps)

Findings == [ep : Functions, code : SUBSET (1 .. 2 * LastLine + 1)]

\* toEpIdentity: the key of an entry point holds the lines it spans.
Key(e, n) == [name |-> n, start |-> Min(Span(e, n)), end |-> Max(Span(e, n))]
BaseKey(n) == Key(NoEdit, n)

-----------------------------------------------------------------------------
(* The ranges of the diff.  The code reads the lines that the diff takes    *)
(* away and adds, in their order and without the lines between them: a      *)
(* block of deleted lines and the block of added lines that comes next are  *)
(* one "modified" range, however far apart they are.                        *)

Deleted(e) == (1 .. LastLine) \ e.kept
LastKept(e, line) == Max({k \in e.kept : k <= line} \cup {0})

\* The added lines that the diff lists before the deleted line d: between two
\* kept lines it lists what is deleted before what is added.
ListedBefore(e, d) == {g \in DOMAIN e.added : LastKept(e, g) < LastKept(e, d)}

\* A block of deleted lines is known by the added lines before it.
Blocks(e) == {ListedBefore(e, d) : d \in Deleted(e)}
DeleteBlock(e, b) == {d \in Deleted(e) : ListedBefore(e, d) = b}
AddBlock(e, b) == {g \in DOMAIN e.added \ b : \A c \in Blocks(e) : c \subseteq b \/ g \in c}

\* The maximal stretches of consecutive lines: coalesceDiffRanges.
Stretches(lines) ==
  {s \in lines \X lines :
     /\ s[1] <= s[2] /\ s[1] .. s[2] \subseteq lines
     /\ s[1] - 1 \notin lines /\ s[2] + 1 \notin lines}

DiffLineRange(kind, old, head) ==
  [kind |-> kind, oldStart |-> old[1], oldEnd |-> old[2], start |-> head[1], end |-> head[2]]

Modified(e) ==
  {LET old == DeleteBlock(e, b)
       new == {AddedAt(e, g) : g \in AddBlock(e, b)}
   IN  DiffLineRange("modified", <<Min(old), Max(old)>>, <<Min(new), Max(new)>>) :
     b \in {b \in Blocks(e) : AddBlock(e, b) # {}}}

\* What is deleted after the last added line, what is added before the first deleted one.
OnlyDeleted(e) == {d \in Deleted(e) : AddBlock(e, ListedBefore(e, d)) = {}}
OnlyAdded(e) == {AddedAt(e, g) : g \in {g \in DOMAIN e.added :
                                          \A d \in Deleted(e) : g \in ListedBefore(e, d)}}

\* parseUnifiedDiff
Ranges(e) ==
  Modified(e) \cup {DiffLineRange("deleted", s, s) : s \in Stretches(OnlyDeleted(e))}
              \cup {DiffLineRange("added", s, s) : s \in Stretches(OnlyAdded(e))}
RangesOf(e, kind) == {r \in Ranges(e) : r.kind = kind}

Touches(key, r) ==
  \/ key.start <= r.end /\ key.end >= r.start
  \/ r.kind = "modified" /\ key.start <= r.oldEnd /\ key.end >= r.oldStart

\* readDbImpactedEntrypoints: the body, a call site or an end of an edge of n.
Impacted(r) ==
  {n \in BaseEps :
     \/ BaseKey(n).start <= r.oldEnd /\ BaseKey(n).end >= r.oldStart
     \/ Recorded[n] \cap (r.oldStart .. r.oldEnd) # {}}

TouchedByDeletion(e) ==
  {n \in BaseEps : \E r \in RangesOf(e, "deleted") : Touches(BaseKey(n), r)}

-----------------------------------------------------------------------------
(* The plan: entry points by the status of their changes, the allowlist of *)
(* keys, and whether a fallback was added.                                 *)

Plans == [modified : SUBSET BaseEps, deleted : SUBSET BaseEps, added : SUBSET Functions,
          allow : SUBSET [name : Functions, start : Nat, end : Nat], fallback : BOOLEAN]

\* prepareIncrementalPlan: nothing is looked up for added lines, and a database
\* that is there but empty knows no entry point.
Prepare(e, based, database) ==
  LET usable == based /\ database # "absent" /\ Ranges(e) # {}
      known  == IF database = "whole" THEN BaseEps ELSE {}
      hit    == ((UNION {Impacted(r) : r \in RangesOf(e, "modified")})
                 \cup (UNION {{n \in Impacted(r) : ~Touches(BaseKey(n), r)} :
                                r \in RangesOf(e, "deleted")})) \cap known
  IN  [modified |-> IF usable THEN hit ELSE {},
       deleted  |-> IF usable THEN TouchedByDeletion(e) \cap known ELSE {},
       added    |-> {},
       allow    |-> IF usable THEN {BaseKey(n) : n \in hit} ELSE {},
       fallback |-> ~usable]

CanCompleteWithoutHeadAnalysis(p) == ~p.fallback /\ p.allow = {}

CompareNames(p, e) ==  \* mutant: an entry point whose name the base has is not compared further
  LET new == {n \in e.eps \ BaseEps :
                \E r \in Ranges(e) : r.kind # "deleted" /\ Touches(Key(e, n), r)}
  IN  [p EXCEPT !.added   = new,
                !.deleted = @ \cup (BaseEps \ e.eps),
                !.allow   = @ \cup {Key(e, n) : n \in new}]

\* compareHeadEntrypoints, for a run whose index names a base.
CompareHead(p, e) ==
  LET drifted == {n \in e.eps \cap BaseEps : Key(e, n) # BaseKey(n)}
      new     == {n \in e.eps \ BaseEps :
                    \E r \in Ranges(e) : r.kind # "deleted" /\ Touches(Key(e, n), r)}
  IN  [p EXCEPT !.modified = @ \cup drifted,
                !.added    = new,
                !.deleted  = @ \cup (BaseEps \ e.eps),
                !.allow    = @ \cup {Key(e, n) : n \in drifted \cup new}]

\* finalizeMode in mode ep-only.
FailsFast(p) ==
  p.fallback \/ p.added # {} \/ (p.allow = {} /\ p.deleted # {})

\* finalizeMode in the other modes, setFullHeadIfAllHeadSelected.
FullHead(p, e) ==
  p.fallback \/ (e.eps # {} /\ \A n \in e.eps : Key(e, n) \in p.allow)

Selected(p, e) ==
  IF FullHead(p, e) THEN e.eps ELSE {n \in e.eps : Key(e, n) \in p.allow}

MergeKeepsModified(base, selected, changes) ==  \* mutant: an entry point that moved keeps its findings
  SetToBag({f \in base : f.ep \notin changes.deleted}) (+) selected

\* mergeSarifFindings: keys are compared without the lines they hold; what is
\* selected is appended to what is kept, whether or not it is there already.
MergeFindings(base, selected, changes) ==
  SetToBag({f \in base : f.ep \notin changes.modified \cup changes.deleted}) (+) selected

-----------------------------------------------------------------------------
(* What the database cannot miss *)

Hit(e) == \E r \in RangesOf(e, "modified") : Impacted(r) # {}

\* Every change that matters is a replacement of lines recorded for the entry
\* points it matters to, or the removal of an entry point.
Seen(e) ==
  /\ \A n \in BaseEps \cap e.eps : Code(e, n) # Code(NoEdit, n) =>
       \E r \in RangesOf(e, "modified") : n \in Impacted(r)
  /\ TouchedByDeletion(e) \cap e.eps = {}
  /\ \A n \in e.eps \ BaseEps :
       \E r \in Ranges(e) : r.kind # "deleted" /\ Touches(Key(e, n), r)
  /\ e.eps \subseteq BaseEps \/ Hit(e)
  /\ BaseEps \ e.eps \subseteq TouchedByDeletion(e) \/ Hit(e)
=============================================================================
