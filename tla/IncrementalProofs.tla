--------------------------- MODULE IncrementalProofs ---------------------------
(***************************************************************************)
(* What holds of IncrementalRuns for every base text, every set of edits   *)
(* and head runs, and any number of starts and deaths.                     *)
(***************************************************************************)
EXTENDS IncrementalRuns, TLAPS

-----------------------------------------------------------------------------
(* Lists of findings *)

LEMMA SetBags ==
  ASSUME NEW S
  PROVE  /\ IsABag(SetToBag(S)) /\ BagToSet(SetToBag(S)) = S
         /\ SetToBag(S) = [x \in S |-> 1]
  BY DEF SetToBag, BagToSet, IsABag

LEMMA EmptyBags ==
  /\ IsABag(EmptyBag) /\ BagToSet(EmptyBag) = {} /\ SetToBag({}) = EmptyBag
  /\ \A S : SetToBag(S) (+) EmptyBag = SetToBag(S)
  BY DEF SetToBag, BagToSet, IsABag, EmptyBag, (+)

LEMMA BagSums ==
  ASSUME NEW S, NEW B, IsABag(B)
  PROVE  /\ IsABag(SetToBag(S) (+) B)
         /\ BagToSet(SetToBag(S) (+) B) = S \cup BagToSet(B)
  BY DEF SetToBag, BagToSet, IsABag, (+)

LEMMA DisjointSums ==
  ASSUME NEW S, NEW T, S \cap T = {}
  PROVE  SetToBag(S) (+) SetToBag(T) = SetToBag(S \cup T)
  BY DEF SetToBag, (+)

\* The part of a list that is about the entry points N.
LEMMA AboutSets ==
  ASSUME NEW S, NEW N
  PROVE  About(SetToBag(S), N) = SetToBag({f \in S : f.ep \in N})
  BY DEF About, SetToBag, BagToSet

LEMMA AboutSums ==
  ASSUME NEW S, NEW T, NEW N, \A f \in S : f.ep \notin N, \A f \in T : f.ep \in N
  PROVE  About(SetToBag(S) (+) SetToBag(T), N) = SetToBag(T)
  <1>1. S \cap T = {}
    OBVIOUS
  <1>2. {f \in S \cup T : f.ep \in N} = T
    OBVIOUS
  <1>3. SetToBag(S) (+) SetToBag(T) = SetToBag(S \cup T)
    BY <1>1, DisjointSums
  <1>4. About(SetToBag(S \cup T), N) = SetToBag({f \in S \cup T : f.ep \in N})
    BY AboutSets
  <1>5. QED
    BY <1>2, <1>3, <1>4

LEMMA ReportFiles ==
  /\ \A list : Valid(Report(list)) /\ Report(list).list = list
  /\ \A file \in {Absent, Reserved, Torn} : ~Valid(file) /\ file.list = EmptyBag /\ IsReport(file)
  /\ \A list : IsABag(list) /\ BagToSet(list) \subseteq Findings => IsReport(Report(list))
  BY EmptyBags DEF Valid, Report, File, Absent, Reserved, Torn, IsReport

-----------------------------------------------------------------------------
(* Results and plans *)

\* The findings of the base that a merge takes over.
KeptOfBase(plan) == {f \in BaseResults : f.ep \notin plan.modified \cup plan.deleted}

\* The base is an edit that changes nothing.
LEMMA NoEditIsEdit == IsEdit(NoEdit)
  BY PlanAssumption DEF IsEdit, NoEdit

\* An analysis reports findings, and more entry points do not make it report less.
LEMMA ResultsTyped ==
  ASSUME NEW e, IsEdit(e), NEW N \in SUBSET Functions
  PROVE  Results(e, N) \subseteq Findings
  <1>1. ASSUME NEW n \in N PROVE Code(e, n) \in SUBSET (1 .. 2 * LastLine + 1)
    <2>1. LastLine \in Nat
      BY PlanAssumption
    <2>2. {k \in e.kept : Owner[k] \in Reach[n]} \subseteq 1 .. 2 * LastLine + 1
      BY <2>1 DEF IsEdit
    <2>3. \A g \in DOMAIN e.added : LastLine + 1 + g \in 1 .. 2 * LastLine + 1
      BY <2>1 DEF IsEdit
    <2>4. QED
      BY <2>2, <2>3 DEF Code
  <1>2. QED
    BY <1>1 DEF Results, Findings

LEMMA ResultsGrow ==
  ASSUME NEW e, NEW N, NEW M, N \subseteq M
  PROVE  /\ Results(e, N) \subseteq Results(e, M)
         /\ Results(e, N) = {f \in Results(e, M) : f.ep \in N}
  BY DEF Results

\* What prepareIncrementalPlan makes of the database.
LEMMA Prepared ==
  ASSUME NEW e, NEW b \in BOOLEAN, NEW d
  PROVE  LET p == Prepare(e, b, d)
         IN  /\ p.modified \subseteq BaseEps /\ p.deleted \subseteq BaseEps
             /\ p.deleted \subseteq TouchedByDeletion(e)
             /\ p.allow = {BaseKey(n) : n \in p.modified}
             /\ p.fallback \in BOOLEAN
             /\ ~b \/ d = "absent" => p.fallback
             /\ ~p.fallback /\ d = "whole" =>
                  /\ \A r \in RangesOf(e, "modified") : Impacted(r) \subseteq p.modified
                  /\ p.deleted = TouchedByDeletion(e)
  <1> DEFINE usable == b /\ d # "absent" /\ Ranges(e) # {}
             known  == IF d = "whole" THEN BaseEps ELSE {}
             hit    == ((UNION {Impacted(r) : r \in RangesOf(e, "modified")})
                        \cup (UNION {{n \in Impacted(r) : ~Touches(BaseKey(n), r)} :
                                       r \in RangesOf(e, "deleted")})) \cap known
             gone   == TouchedByDeletion(e) \cap known
             p      == Prepare(e, b, d)
  <1>1. \A r : Impacted(r) \subseteq BaseEps
    BY DEF Impacted
  <1>2. TouchedByDeletion(e) \subseteq BaseEps
    BY DEF TouchedByDeletion
  <1>3. /\ hit \subseteq BaseEps /\ gone \subseteq BaseEps /\ gone \subseteq TouchedByDeletion(e)
        /\ d = "whole" => \A r \in RangesOf(e, "modified") : Impacted(r) \subseteq hit
        /\ d = "whole" => gone = TouchedByDeletion(e)
    BY <1>1, <1>2
  <1>4. p = [modified |-> IF usable THEN hit ELSE {},
             deleted  |-> IF usable THEN gone ELSE {},
             added    |-> {},
             allow    |-> IF usable THEN {BaseKey(n) : n \in hit} ELSE {},
             fallback |-> ~usable]
    BY DEF Prepare
  <1> HIDE DEF hit, gone, p
  <1>5. CASE usable
    BY <1>3, <1>4, <1>5 DEF p
  <1>6. CASE ~usable
    <2>1. p.modified = {} /\ p.deleted = {} /\ p.allow = {} /\ p.fallback = TRUE
      BY <1>4, <1>6
    <2>2. {BaseKey(n) : n \in {}} = {}
      OBVIOUS
    <2>3. QED
      BY <2>1, <2>2 DEF p
  <1>7. QED
    BY <1>5, <1>6

\* What compareHeadEntrypoints adds to it.
LEMMA Compared ==
  ASSUME NEW e, NEW p, p.modified \subseteq BaseEps, p.deleted \subseteq BaseEps,
         p.allow = {BaseKey(n) : n \in p.modified}, p.fallback \in BOOLEAN,
         p = [modified |-> p.modified, deleted |-> p.deleted, added |-> p.added,
              allow |-> p.allow, fallback |-> p.fallback]
  PROVE  LET q == CompareHead(p, e)
         IN  /\ q.modified \subseteq BaseEps /\ q.deleted = p.deleted \cup (BaseEps \ e.eps)
             /\ q.fallback = p.fallback
             /\ p.modified \subseteq q.modified
             /\ \A n \in e.eps : Key(e, n) \in q.allow => n \in q.modified \/ n \notin BaseEps
             /\ \A n \in e.eps \cap BaseEps : Key(e, n) \notin q.allow => n \notin q.modified
             /\ \A n \in e.eps \ BaseEps :
                  (\E r \in Ranges(e) : r.kind # "deleted" /\ Touches(Key(e, n), r)) =>
                    Key(e, n) \in q.allow
  <1> DEFINE drifted == {n \in e.eps \cap BaseEps : Key(e, n) # BaseKey(n)}
             new     == {n \in e.eps \ BaseEps :
                           \E r \in Ranges(e) : r.kind # "deleted" /\ Touches(Key(e, n), r)}
             q       == CompareHead(p, e)
  <1>1. /\ q.modified = p.modified \cup drifted
        /\ q.deleted = p.deleted \cup (BaseEps \ e.eps)
        /\ q.allow = p.allow \cup {Key(e, n) : n \in drifted \cup new}
        /\ q.fallback = p.fallback
    BY DEF CompareHead
  <1>2. \A n, m : Key(e, n) = Key(e, m) \/ Key(e, n) = BaseKey(m) => n = m
    <2>1. \A n, m : Key(e, n).name = n /\ BaseKey(m).name = m
      BY DEF Key, BaseKey
    <2>2. QED
      BY <2>1
  <1>3. ASSUME NEW n \in e.eps, Key(e, n) \in q.allow PROVE n \in q.modified \/ n \notin BaseEps
    <2>1. CASE Key(e, n) \in p.allow
      BY <1>1, <1>2, <2>1
    <2>2. CASE Key(e, n) \in {Key(e, m) : m \in drifted \cup new}
      <3>1. n \in drifted \cup new
        BY <1>2, <2>2
      <3>2. QED
        BY <1>1, <3>1
    <2>3. QED
      BY <1>1, <1>3, <2>1, <2>2
  <1>4. ASSUME NEW n \in e.eps \cap BaseEps, Key(e, n) \notin q.allow PROVE n \notin q.modified
    <2>1. n \notin drifted
      BY <1>1, <1>4
    <2>2. Key(e, n) = BaseKey(n)
      BY <2>1
    <2>3. n \notin p.modified
      BY <1>1, <1>4, <2>2
    <2>4. QED
      BY <1>1, <2>1, <2>3
  <1>5. q.modified \subseteq BaseEps /\ p.modified \subseteq q.modified
    BY <1>1
  <1>6. \A n \in new : Key(e, n) \in q.allow
    BY <1>1
  <1>7. QED
    BY <1>1, <1>3, <1>4, <1>5, <1>6

\* The two plans apply and start make, with what each is about.
LEMMA PlanOfApply ==
  ASSUME NEW e, NEW d
  PROVE  LET q == CompareHead(Prepare(e, TRUE, d), e)
         IN  /\ q.modified \subseteq BaseEps /\ q.deleted \subseteq BaseEps
             /\ ~FullHead(q, e) => Selected(q, e) \cap BaseEps \subseteq q.modified
  <1> DEFINE p == Prepare(e, TRUE, d)
             q == CompareHead(p, e)
  <1>1. /\ p.modified \subseteq BaseEps /\ p.deleted \subseteq BaseEps
        /\ p.allow = {BaseKey(n) : n \in p.modified} /\ p.fallback \in BOOLEAN
    BY Prepared
  <1>2. p = [modified |-> p.modified, deleted |-> p.deleted, added |-> p.added,
             allow |-> p.allow, fallback |-> p.fallback]
    BY DEF Prepare
  <1> HIDE DEF p
  <1>3. /\ q.modified \subseteq BaseEps /\ q.deleted = p.deleted \cup (BaseEps \ e.eps)
        /\ \A n \in e.eps : Key(e, n) \in q.allow => n \in q.modified \/ n \notin BaseEps
    BY <1>1, <1>2, Compared
  <1> HIDE DEF q
  <1>4. ~FullHead(q, e) => Selected(q, e) = {n \in e.eps : Key(e, n) \in q.allow}
    BY DEF Selected
  <1>5. QED
    BY <1>1, <1>3, <1>4 DEF p, q

\* What a partial plan keeps and what it selects are all findings of the head.
LEMMA PartialPlanExact ==
  ASSUME NEW e, Seen(e), ~FullHead(CompareHead(Prepare(e, TRUE, "whole"), e), e)
  PROVE  LET q == CompareHead(Prepare(e, TRUE, "whole"), e)
         IN  KeptOfBase(q) \cup Results(e, Selected(q, e)) = FullResults(e)
  <1> DEFINE p == Prepare(e, TRUE, "whole")
             q == CompareHead(p, e)
  <1>1. /\ p.modified \subseteq BaseEps /\ p.deleted \subseteq BaseEps
        /\ p.allow = {BaseKey(n) : n \in p.modified} /\ p.fallback \in BOOLEAN
        /\ ~p.fallback =>
             /\ \A r \in RangesOf(e, "modified") : Impacted(r) \subseteq p.modified
             /\ p.deleted = TouchedByDeletion(e)
    BY Prepared
  <1>2. p = [modified |-> p.modified, deleted |-> p.deleted, added |-> p.added,
             allow |-> p.allow, fallback |-> p.fallback]
    BY DEF Prepare
  <1> HIDE DEF p
  <1>3. /\ q.deleted = p.deleted \cup (BaseEps \ e.eps)
        /\ q.fallback = p.fallback
        /\ p.modified \subseteq q.modified
        /\ \A n \in e.eps \cap BaseEps : Key(e, n) \notin q.allow => n \notin q.modified
        /\ \A n \in e.eps \ BaseEps :
             (\E r \in Ranges(e) : r.kind # "deleted" /\ Touches(Key(e, n), r)) =>
               Key(e, n) \in q.allow
    BY <1>1, <1>2, Compared
  <1>4. ~FullHead(q, e)
    BY DEF p
  <1> HIDE DEF q
  <1>5. ~q.fallback /\ Selected(q, e) = {n \in e.eps : Key(e, n) \in q.allow}
    BY <1>4 DEF FullHead, Selected
  <1>6. /\ \A r \in RangesOf(e, "modified") : Impacted(r) \subseteq p.modified
        /\ q.deleted = TouchedByDeletion(e) \cup (BaseEps \ e.eps)
    BY <1>1, <1>3, <1>5
  <1>7. \A n \in BaseEps \cap e.eps : n \notin p.modified => Code(e, n) = Code(NoEdit, n)
    BY <1>6 DEF Seen
  <1>8. ASSUME NEW f \in KeptOfBase(q) PROVE f \in FullResults(e)
    <2>1. PICK n \in BaseEps : /\ f = [ep |-> n, code |-> Code(NoEdit, n)]
                               /\ Code(NoEdit, n) \cap Sinks # {}
      BY <1>8 DEF KeptOfBase, BaseResults, Results
    <2>2. n \notin q.modified \cup q.deleted
      BY <1>8, <2>1 DEF KeptOfBase
    <2>3. n \in e.eps /\ n \notin p.modified
      BY <1>3, <2>1, <2>2
    <2>4. Code(e, n) = Code(NoEdit, n)
      BY <1>7, <2>1, <2>3
    <2>5. QED
      BY <2>1, <2>3, <2>4 DEF FullResults, Results
  <1>9. ASSUME NEW f \in FullResults(e)
        PROVE  f \in KeptOfBase(q) \cup Results(e, Selected(q, e))
    <2>1. PICK n \in e.eps : f = [ep |-> n, code |-> Code(e, n)] /\ Code(e, n) \cap Sinks # {}
      BY DEF FullResults, Results
    <2>2. CASE Key(e, n) \in q.allow
      BY <1>5, <2>1, <2>2 DEF Results
    <2>3. CASE Key(e, n) \notin q.allow
      <3>1. n \in BaseEps
        BY <1>3, <2>1, <2>3 DEF Seen
      <3>2. n \notin q.modified /\ n \notin p.modified
        BY <1>3, <2>1, <2>3, <3>1
      <3>3. n \notin q.deleted
        BY <1>6, <2>1 DEF Seen
      <3>4. Code(e, n) = Code(NoEdit, n)
        BY <1>7, <2>1, <3>1, <3>2
      <3>5. f \in BaseResults /\ f.ep = n
        BY <2>1, <3>1, <3>4 DEF BaseResults, Results
      <3>6. QED
        BY <3>2, <3>3, <3>5 DEF KeptOfBase
    <2>4. QED
      BY <2>2, <2>3
  <1>10. Results(e, Selected(q, e)) \subseteq FullResults(e)
    BY <1>5 DEF FullResults, Results
  <1>11. KeptOfBase(q) \cup Results(e, Selected(q, e)) = FullResults(e)
    BY <1>8, <1>9, <1>10
  <1>12. QED
    BY <1>11 DEF p, q

\* A run that is completed without an analysis keeps all findings of the head.
LEMMA FastPlanExact ==
  ASSUME NEW e, Seen(e), NEW b \in BOOLEAN,
         CanCompleteWithoutHeadAnalysis(Prepare(e, b, "whole"))
  PROVE  KeptOfBase(Prepare(e, b, "whole")) = FullResults(e)
  <1> DEFINE p == Prepare(e, b, "whole")
  <1>1. /\ p.modified \subseteq BaseEps
        /\ p.allow = {BaseKey(n) : n \in p.modified}
        /\ ~p.fallback =>
             /\ \A r \in RangesOf(e, "modified") : Impacted(r) \subseteq p.modified
             /\ p.deleted = TouchedByDeletion(e)
    BY Prepared
  <1>2. ~p.fallback /\ p.allow = {}
    BY DEF CanCompleteWithoutHeadAnalysis
  <1> HIDE DEF p
  <1>3. /\ p.modified = {} /\ p.deleted = TouchedByDeletion(e)
        /\ \A r \in RangesOf(e, "modified") : Impacted(r) = {}
    <2>1. p.modified = {}
      BY <1>1, <1>2
    <2>2. QED
      BY <1>1, <1>2, <2>1
  <1>4. e.eps \subseteq BaseEps /\ BaseEps \ e.eps \subseteq TouchedByDeletion(e)
        /\ TouchedByDeletion(e) \cap e.eps = {}
    BY <1>3 DEF Seen, Hit
  <1>5. \A n \in BaseEps \cap e.eps : Code(e, n) = Code(NoEdit, n)
    BY <1>3 DEF Seen
  <1>6. KeptOfBase(p) = {f \in BaseResults : f.ep \in e.eps}
    <2>1. \A f \in BaseResults : f.ep \in BaseEps
      BY DEF BaseResults, Results
    <2>2. QED
      BY <1>3, <1>4, <2>1 DEF KeptOfBase
  <1>7. KeptOfBase(p) = FullResults(e)
    BY <1>4, <1>5, <1>6 DEF BaseResults, FullResults, Results
  <1>8. QED
    BY <1>7 DEF p

\* The plans a run makes speak of entry points of the base, and select some of the head.
LEMMA PlansTyped ==
  ASSUME NEW r \in Runs, based[r] \in BOOLEAN
  PROVE  /\ PlanNow(r).modified \subseteq BaseEps /\ PlanNow(r).deleted \subseteq BaseEps
         /\ PlanOfHead(r).modified \subseteq BaseEps /\ PlanOfHead(r).deleted \subseteq BaseEps
         /\ FullHead(PlanOfHead(r), edit[r]) \in BOOLEAN
         /\ Selected(PlanOfHead(r), edit[r]) \subseteq edit[r].eps
         /\ FullHead(PlanOfHead(r), edit[r]) => Selected(PlanOfHead(r), edit[r]) = edit[r].eps
  <1>1. /\ PlanNow(r).modified \subseteq BaseEps /\ PlanNow(r).deleted \subseteq BaseEps
        /\ PlanNow(r).fallback \in BOOLEAN
    BY Prepared DEF PlanNow
  <1>2. CompareHead(PlanNow(r), edit[r]).fallback \in BOOLEAN
    BY DEF CompareHead, PlanNow, Prepare
  <1>3. /\ based[r] => PlanOfHead(r) = CompareHead(Prepare(edit[r], TRUE, database), edit[r])
        /\ ~based[r] => PlanOfHead(r) = PlanNow(r)
    BY DEF PlanOfHead, PlanNow
  <1>4. PlanOfHead(r).modified \subseteq BaseEps /\ PlanOfHead(r).deleted \subseteq BaseEps
    BY <1>1, <1>3, PlanOfApply
  <1>5. PlanOfHead(r).fallback \in BOOLEAN
    BY <1>1, <1>2 DEF PlanOfHead
  <1>6. FullHead(PlanOfHead(r), edit[r]) \in BOOLEAN
    BY <1>5 DEF FullHead
  <1>7. /\ Selected(PlanOfHead(r), edit[r]) \subseteq edit[r].eps
        /\ FullHead(PlanOfHead(r), edit[r]) => Selected(PlanOfHead(r), edit[r]) = edit[r].eps
    BY DEF Selected
  <1>8. QED
    BY <1>1, <1>4, <1>6, <1>7

-----------------------------------------------------------------------------
(* Types *)

LEMMA TypeInit == Init => TypeOK
  <1> SUFFICES ASSUME Init PROVE TypeOK
    OBVIOUS
  <1>1. \A r \in Runs : IsEdit(edit[r])
    BY RunsAssumption DEF Init
  <1>2. IsReport(Absent) /\ NoChanges \in [modified : SUBSET BaseEps, deleted : SUBSET BaseEps]
    BY ReportFiles DEF NoChanges
  <1>3. crashes \in 0 .. MaxCrashes
    BY RunsAssumption DEF Init
  <1>4. \A file \in {selected, merged, report} :
          DOMAIN file = Runs /\ \A r \in Runs : IsReport(file[r])
    BY <1>2 DEF Init
  <1>5. /\ pc \in [Procs -> Running \cup Ended] /\ call \in [Procs -> Calls]
        /\ based \in [Procs -> BOOLEAN] /\ starts \in [Procs -> Nat]
    BY DEF Init, Ended, Calls
  <1>6. QED
    BY <1>1, <1>2, <1>3, <1>4, <1>5 DEF Init, TypeOK

LEMMA GotoTyped ==
  ASSUME TypeOK, NEW p \in Procs, NEW label \in Running \cup Ended, Goto(p, label)
  PROVE  /\ pc' \in [Procs -> Running \cup Ended] /\ pc'[p] = label
         /\ \A q \in Procs \ {p} : pc'[q] = pc[q]
  BY DEF TypeOK, Goto

LEMMA AskTyped ==
  ASSUME TypeOK, NEW p \in Procs, NEW c \in Calls, AskPlan(p, c)
  PROVE  /\ pc' \in [Procs -> Running \cup Ended] /\ call' \in [Procs -> Calls]
         /\ pc'[p] = "plan" /\ call'[p] = c /\ based' = based
         /\ \A q \in Procs \ {p} : pc'[q] = pc[q] /\ call'[q] = call[q]
  <1>1. "plan" \in Running \cup Ended
    BY DEF Running
  <1>2. Goto(p, "plan") /\ call' = [call EXCEPT ![p] = c] /\ based' = based
    BY DEF AskPlan
  <1>3. QED
    BY <1>1, <1>2, GotoTyped DEF TypeOK

\* What a step does to the places where the processes are.
Moves ==
  /\ pc' \in [Procs -> Running \cup Ended] /\ call' \in [Procs -> Calls]
  /\ based' \in [Procs -> BOOLEAN]
Bases ==
  /\ index' \in {"baseless", "based", "torn"} /\ setup' = setup
  /\ database' \in {"absent", "empty", "whole"}
  /\ entrypoints' \in {"absent", "torn", "whole"} /\ baseReport' \in {"absent", "torn", "whole"}

\* The steps of getIncrementalPlan and of the index.
LEMMA IndexTyped ==
  ASSUME TypeOK, NEW p \in Procs, GetPlan(p) \/ NameDiscovered(p) \/ OpenIndex(p) \/ WriteIndex(p)
  PROVE  TypeOK'
  <1> USE DEF Running, Ended, Calls
  <1>1. call[p] \in Running \cup Ended /\ UNCHANGED <<base, memory, directories, starts, crashes>>
    BY DEF TypeOK, GetPlan, NameDiscovered, OpenIndex, WriteIndex
  <1>2. CASE GetPlan(p)
    <2>1. PICK label \in Running \cup Ended : Goto(p, label)
      BY <1>1, <1>2 DEF GetPlan
    <2>2. Moves
      BY <1>2, <2>1, GotoTyped DEF GetPlan, TypeOK, Moves
    <2>3. QED
      BY <1>1, <1>2, <2>2 DEF GetPlan, TypeOK, Moves, base, memory, directories
  <1>3. CASE NameDiscovered(p)
    <2>1. Moves
      BY <1>1, <1>3, GotoTyped DEF NameDiscovered, TypeOK, Moves
    <2>2. QED
      BY <1>1, <1>3, <2>1 DEF NameDiscovered, Written, TypeOK, Moves, base, memory, directories
  <1>4. CASE OpenIndex(p)
    <2>1. Moves
      BY <1>4, GotoTyped DEF OpenIndex, TypeOK, Moves
    <2>2. QED
      BY <1>1, <1>4, <2>1 DEF OpenIndex, TypeOK, Moves, base, memory, directories
  <1>5. CASE WriteIndex(p)
    <2>1. Moves
      BY <1>5, GotoTyped DEF WriteIndex, TypeOK, Moves
    <2>2. index' \in {"baseless", "based", "torn"}
      BY <1>5 DEF WriteIndex, Written, TypeOK, Procs
    <2>3. QED
      BY <1>1, <1>5, <2>1, <2>2 DEF WriteIndex, TypeOK, Moves, base, memory, directories
  <1>6. QED
    BY <1>2, <1>3, <1>4, <1>5

\* Starts and deaths.
LEMMA StartsTyped ==
  ASSUME TypeOK, NEW p \in Procs, Starts(p)
  PROVE  /\ pc[p] \in Ended /\ pc'[p] = "plan" /\ call'[p] = "try" /\ starts'[p] = starts[p] + 1
         /\ \A q \in Procs \ {p} : pc'[q] = pc[q] /\ call'[q] = call[q] /\ starts'[q] = starts[q]
         /\ UNCHANGED <<index, base, based, directories, crashes>>
         /\ Moves /\ starts' \in [Procs -> Nat]
  <1>1. "try" \in Calls
    BY DEF Calls
  <1>2. starts' = [starts EXCEPT ![p] = starts[p] + 1]
    BY DEF Starts
  <1>3. AskPlan(p, "try")
    BY DEF Starts
  <1>4. starts' \in [Procs -> Nat] /\ starts'[p] = starts[p] + 1
        /\ \A q \in Procs \ {p} : starts'[q] = starts[q]
    BY <1>2 DEF TypeOK
  <1>5. QED
    BY <1>1, <1>3, <1>4, AskTyped DEF Starts, Moves, TypeOK

LEMMA DiesTyped ==
  ASSUME TypeOK, NEW p \in Procs, Dies(p)
  PROVE  /\ pc[p] \in Running /\ pc'[p] = "crashed" /\ \A q \in Procs \ {p} : pc'[q] = pc[q]
         /\ UNCHANGED <<index, base, call, based, memory, changes, fullHead, starts>>
         /\ Moves /\ crashes' \in 0 .. MaxCrashes
  <1>1. MaxCrashes \in Nat
    BY RunsAssumption
  <1>2. crashes' \in 0 .. MaxCrashes
    BY <1>1 DEF Dies, TypeOK
  <1>3. "crashed" \in Running \cup Ended /\ Goto(p, "crashed")
    BY DEF Dies, Ended
  <1>4. QED
    BY <1>2, <1>3, GotoTyped DEF Dies, Moves, TypeOK

LEMMA BaselineTyped ==
  ASSUME TypeOK, BaselineNext
  PROVE  TypeOK'
  <1> USE DEF Running, Ended, Calls
  <1>0. Baseline \in Procs
    BY DEF Procs
  <1>1. CASE StartBaseline
    <2>1. UNCHANGED memory /\ Starts(Baseline)
      BY <1>1 DEF StartBaseline
    <2>2. QED
      BY <1>0, <2>1, StartsTyped DEF TypeOK, Moves, base, memory, directories
  <1>2. CASE CrashBaseline
    <2>1. Dies(Baseline) /\ UNCHANGED <<selected, merged, report>>
      BY <1>2 DEF CrashBaseline
    <2>2. QED
      BY <1>0, <2>1, DiesTyped DEF TypeOK, Moves, base, memory
  <1>3. CASE BaseInit \/ BaseApply \/ BaseCollect \/ BaseAnalyse \/ BaseReport \/ BaseCommit
             \/ BaseComplete
    <2>1. UNCHANGED <<memory, directories, starts, crashes>>
      BY <1>3 DEF BaseInit, BaseApply, BaseCollect, BaseAnalyse, BaseReport, BaseCommit,
                  BaseComplete
    <2>2. Bases
      BY <1>3 DEF BaseInit, BaseApply, BaseCollect, BaseAnalyse, BaseReport, BaseCommit,
                  BaseComplete, TypeOK, Bases, base
    <2>3. CASE BaseInit \/ BaseCommit
      <3>1. \E c \in Calls : AskPlan(Baseline, c)
        BY <2>3 DEF BaseInit, BaseCommit
      <3>2. Moves
        BY <1>0, <3>1, AskTyped DEF Moves, TypeOK
      <3>3. QED
        BY <2>1, <2>2, <3>2 DEF TypeOK, Moves, Bases, memory, directories
    <2>4. CASE BaseApply \/ BaseCollect \/ BaseAnalyse \/ BaseReport \/ BaseComplete
      <3>1. UNCHANGED <<call, based>> /\ \E label \in Running \cup Ended : Goto(Baseline, label)
        BY <2>4 DEF BaseApply, BaseCollect, BaseAnalyse, BaseReport, BaseComplete
      <3>2. Moves
        BY <1>0, <3>1, GotoTyped DEF Moves, TypeOK
      <3>3. QED
        BY <2>1, <2>2, <3>2 DEF TypeOK, Moves, Bases, memory, directories
    <2>5. QED
      BY <1>3, <2>3, <2>4
  <1>4. QED
    BY <1>1, <1>2, <1>3 DEF BaselineNext

Directory(file) == DOMAIN file = Runs /\ \A r \in Runs : IsReport(file[r])

\* What writeIncrementalOutputs leaves behind.
LEMMA OutputsWritten ==
  ASSUME TypeOK, NEW r \in Runs, NEW plan, NEW full \in BOOLEAN,
         plan.modified \subseteq BaseEps, plan.deleted \subseteq BaseEps,
         WriteOutputs(r, plan, full)
  PROVE  /\ changes' \in [Runs -> [modified : SUBSET BaseEps, deleted : SUBSET BaseEps]]
         /\ fullHead' \in [Runs -> BOOLEAN] /\ misled' \in [Runs -> BOOLEAN]
         /\ Directory(selected)' /\ Directory(merged)' /\ report' = report
         /\ changes'[r].modified = plan.modified /\ changes'[r].deleted = plan.deleted
         /\ fullHead'[r] = full
         /\ misled'[r] = (misled[r] \/ (based[r] /\ database = "empty"))
         /\ selected'[r] \in {selected[r], Reserved} /\ merged'[r] \in {merged[r], Reserved}
         /\ \A s \in Runs \ {r} :
              /\ changes'[s] = changes[s] /\ fullHead'[s] = fullHead[s] /\ misled'[s] = misled[s]
              /\ selected'[s] = selected[s] /\ merged'[s] = merged[s]
  <1>1. /\ changes' = [changes EXCEPT ![r] = [modified |-> plan.modified, deleted |-> plan.deleted]]
        /\ fullHead' = [fullHead EXCEPT ![r] = full]
        /\ selected' = [selected EXCEPT ![r] = Ensured(selected[r])]
        /\ merged' = [merged EXCEPT ![r] = Ensured(merged[r])]
        /\ misled' = [misled EXCEPT ![r] = misled[r] \/ (based[r] /\ database = "empty")]
        /\ report' = report
    BY DEF WriteOutputs
  <1>2. Directory(selected) /\ Directory(merged)
    BY DEF TypeOK, Directory
  <1>3. /\ IsReport(Ensured(selected[r])) /\ IsReport(Ensured(merged[r]))
        /\ Ensured(selected[r]) \in {selected[r], Reserved}
        /\ Ensured(merged[r]) \in {merged[r], Reserved}
    BY <1>2, ReportFiles DEF Ensured, Directory
  <1>4. /\ Directory(selected)' /\ Directory(merged)'
        /\ selected'[r] \in {selected[r], Reserved} /\ merged'[r] \in {merged[r], Reserved}
        /\ \A s \in Runs \ {r} : selected'[s] = selected[s] /\ merged'[s] = merged[s]
    <2> DEFINE sel == Ensured(selected[r])
               mer == Ensured(merged[r])
    <2>1. selected' = [selected EXCEPT ![r] = sel] /\ merged' = [merged EXCEPT ![r] = mer]
      BY <1>1
    <2>2. IsReport(sel) /\ IsReport(mer) /\ sel \in {selected[r], Reserved} /\ mer \in {merged[r], Reserved}
      BY <1>3
    <2> HIDE DEF sel, mer
    <2>3. /\ Directory(selected') /\ selected'[r] = sel
          /\ \A s \in Runs \ {r} : selected'[s] = selected[s]
      BY <1>2, <2>1, <2>2 DEF Directory
    <2>4. /\ Directory(merged') /\ merged'[r] = mer
          /\ \A s \in Runs \ {r} : merged'[s] = merged[s]
      BY <1>2, <2>1, <2>2 DEF Directory
    <2>5. QED
      BY <2>2, <2>3, <2>4 DEF Directory
  <1>5. /\ misled' \in [Runs -> BOOLEAN]
        /\ misled'[r] = (misled[r] \/ (based[r] /\ database = "empty"))
        /\ \A s \in Runs \ {r} : misled'[s] = misled[s]
    <2> DEFINE now == misled[r] \/ (based[r] /\ database = "empty")
    <2>1. misled' = [misled EXCEPT ![r] = now] /\ now \in BOOLEAN
      BY <1>1 DEF TypeOK, Procs
    <2> HIDE DEF now
    <2>2. misled' \in [Runs -> BOOLEAN] /\ misled'[r] = now
          /\ \A s \in Runs \ {r} : misled'[s] = misled[s]
      BY <2>1 DEF TypeOK
    <2>3. QED
      BY <2>2 DEF now
  <1>6. /\ changes' \in [Runs -> [modified : SUBSET BaseEps, deleted : SUBSET BaseEps]]
        /\ fullHead' \in [Runs -> BOOLEAN]
        /\ changes'[r].modified = plan.modified /\ changes'[r].deleted = plan.deleted
        /\ fullHead'[r] = full
        /\ \A s \in Runs \ {r} : changes'[s] = changes[s] /\ fullHead'[s] = fullHead[s]
    BY <1>1 DEF TypeOK
  <1>7. QED
    BY <1>1, <1>4, <1>5, <1>6

\* Nothing of s changes.
SameAt(s) ==
  /\ pc'[s] = pc[s] /\ call'[s] = call[s] /\ based'[s] = based[s] /\ starts'[s] = starts[s]
  /\ edit'[s] = edit[s] /\ fast'[s] = fast[s] /\ picked'[s] = picked[s]
  /\ snapshot'[s] = snapshot[s] /\ misled'[s] = misled[s]
  /\ changes'[s] = changes[s] /\ fullHead'[s] = fullHead[s]
  /\ selected'[s] = selected[s] /\ merged'[s] = merged[s] /\ report'[s] = report[s]

\* What a step of r leaves to the other processes.
Others(r) ==
  /\ UNCHANGED <<index, base>>
  /\ \A s \in Runs \ {r} : SameAt(s)
  /\ \A p \in Procs \ {r} : pc'[p] = pc[p] /\ call'[p] = call[p] /\ based'[p] = based[p]

\* What is the same of every step of a run but its start and its death.
Steps(r, label) ==
  /\ TypeOK' /\ Others(r) /\ pc'[r] = label /\ based'[r] = based[r]
  /\ edit'[r] = edit[r] /\ starts'[r] = starts[r]

LEMMA TryStep ==
  ASSUME TypeOK, NEW r \in Runs, Try(r)
  PROVE  \/ /\ Steps(r, "failed") /\ pc[r] = "try"
            /\ UNCHANGED <<call, fast, picked, snapshot, misled, directories>>
         \/ /\ Steps(r, "merge") /\ pc[r] = "try"
            /\ CanCompleteWithoutHeadAnalysis(PlanNow(r))
            /\ fast'[r] = TRUE /\ WriteOutputs(r, PlanNow(r), FALSE)
            /\ UNCHANGED <<call, picked, snapshot>>
         \/ /\ Steps(r, "plan") /\ pc[r] = "try" /\ call'[r] = "apply"
            /\ UNCHANGED <<fast, picked, snapshot, misled, directories>>
  <1> USE DEF Running, Ended, Calls
  <1>0. r \in Procs /\ UNCHANGED <<index, base, edit, picked, snapshot, starts, crashes>>
        /\ pc[r] = "try"
    BY DEF Procs, Try
  <1>1. CASE Goto(r, "failed") /\ UNCHANGED <<call, based, fast, misled, directories>>
    <2>1. /\ pc' \in [Procs -> Running \cup Ended] /\ pc'[r] = "failed"
          /\ \A q \in Procs \ {r} : pc'[q] = pc[q]
      BY <1>0, <1>1, GotoTyped
    <2>2. TypeOK'
      BY <1>0, <1>1, <2>1 DEF TypeOK, base, directories
    <2>3. QED
      BY <1>0, <1>1, <2>1, <2>2 DEF Steps, Others, SameAt, directories, base, Procs
  <1>2. CASE /\ CanCompleteWithoutHeadAnalysis(PlanNow(r)) /\ Goto(r, "merge")
             /\ fast' = [fast EXCEPT ![r] = TRUE]
             /\ WriteOutputs(r, PlanNow(r), FALSE) /\ UNCHANGED <<call, based>>
    <2>1. /\ pc' \in [Procs -> Running \cup Ended] /\ pc'[r] = "merge"
          /\ \A q \in Procs \ {r} : pc'[q] = pc[q]
      BY <1>0, <1>2, GotoTyped
    <2>2. PlanNow(r).modified \subseteq BaseEps /\ PlanNow(r).deleted \subseteq BaseEps
      BY <1>0, PlansTyped DEF TypeOK
    <2>3. /\ changes' \in [Runs -> [modified : SUBSET BaseEps, deleted : SUBSET BaseEps]]
          /\ fullHead' \in [Runs -> BOOLEAN] /\ misled' \in [Runs -> BOOLEAN]
          /\ Directory(selected)' /\ Directory(merged)' /\ report' = report
          /\ \A s \in Runs \ {r} :
               /\ changes'[s] = changes[s] /\ fullHead'[s] = fullHead[s] /\ misled'[s] = misled[s]
               /\ selected'[s] = selected[s] /\ merged'[s] = merged[s]
      BY <1>2, <2>2, OutputsWritten
    <2>4. fast' \in [Runs -> BOOLEAN] /\ fast'[r] = TRUE /\ \A s \in Runs \ {r} : fast'[s] = fast[s]
      BY <1>2 DEF TypeOK
    <2>5. TypeOK'
      BY <1>0, <1>2, <2>1, <2>3, <2>4 DEF TypeOK, base, Directory
    <2>6. Steps(r, "merge")
      BY <1>0, <1>2, <2>1, <2>3, <2>4, <2>5 DEF Steps, Others, SameAt, base, Procs
    <2>7. QED
      BY <1>0, <1>2, <2>4, <2>6
  <1>3. CASE AskPlan(r, "apply") /\ UNCHANGED <<fast, misled, directories>>
    <2>1. /\ pc' \in [Procs -> Running \cup Ended] /\ call' \in [Procs -> Calls]
          /\ pc'[r] = "plan" /\ call'[r] = "apply" /\ based' = based
          /\ \A q \in Procs \ {r} : pc'[q] = pc[q] /\ call'[q] = call[q]
      BY <1>0, <1>3, AskTyped
    <2>2. TypeOK'
      BY <1>0, <1>3, <2>1 DEF TypeOK, base, directories
    <2>3. QED
      BY <1>0, <1>3, <2>1, <2>2 DEF Steps, Others, SameAt, directories, base, Procs
  <1>4. QED
    BY <1>1, <1>2, <1>3 DEF Try

LEMMA ApplyStep ==
  ASSUME TypeOK, NEW r \in Runs, Apply(r)
  PROVE  \/ /\ Steps(r, "failed") /\ pc[r] = "apply"
            /\ UNCHANGED <<call, fast, picked, snapshot, misled, directories>>
         \/ /\ Steps(r, "analyse") /\ pc[r] = "apply"
            /\ picked'[r] = Selected(PlanOfHead(r), edit[r])
            /\ WriteOutputs(r, PlanOfHead(r), FullHead(PlanOfHead(r), edit[r]))
            /\ UNCHANGED <<call, fast, snapshot>>
  <1> USE DEF Running, Ended
  <1>0. /\ r \in Procs /\ pc[r] = "apply"
        /\ UNCHANGED <<index, base, call, based, edit, fast, snapshot, starts, crashes>>
    BY DEF Procs, Apply
  <1>1. CASE Goto(r, "failed") /\ UNCHANGED <<picked, misled, directories>>
    <2>1. /\ pc' \in [Procs -> Running \cup Ended] /\ pc'[r] = "failed"
          /\ \A q \in Procs \ {r} : pc'[q] = pc[q]
      BY <1>0, <1>1, GotoTyped
    <2>2. TypeOK'
      BY <1>0, <1>1, <2>1 DEF TypeOK, base, directories
    <2>3. QED
      BY <1>0, <1>1, <2>1, <2>2 DEF Steps, Others, SameAt, directories, base, Procs
  <1>2. CASE /\ Goto(r, "analyse")
             /\ picked' = [picked EXCEPT ![r] = Selected(PlanOfHead(r), edit[r])]
             /\ WriteOutputs(r, PlanOfHead(r), FullHead(PlanOfHead(r), edit[r]))
    <2>1. /\ pc' \in [Procs -> Running \cup Ended] /\ pc'[r] = "analyse"
          /\ \A q \in Procs \ {r} : pc'[q] = pc[q]
      BY <1>0, <1>2, GotoTyped
    <2>2. /\ PlanOfHead(r).modified \subseteq BaseEps /\ PlanOfHead(r).deleted \subseteq BaseEps
          /\ FullHead(PlanOfHead(r), edit[r]) \in BOOLEAN
          /\ Selected(PlanOfHead(r), edit[r]) \subseteq edit[r].eps
      BY <1>0, PlansTyped DEF TypeOK
    <2>3. /\ changes' \in [Runs -> [modified : SUBSET BaseEps, deleted : SUBSET BaseEps]]
          /\ fullHead' \in [Runs -> BOOLEAN] /\ misled' \in [Runs -> BOOLEAN]
          /\ Directory(selected)' /\ Directory(merged)' /\ report' = report
          /\ \A s \in Runs \ {r} :
               /\ changes'[s] = changes[s] /\ fullHead'[s] = fullHead[s] /\ misled'[s] = misled[s]
               /\ selected'[s] = selected[s] /\ merged'[s] = merged[s]
      <3> DEFINE plan == PlanOfHead(r)
                 full == FullHead(PlanOfHead(r), edit[r])
      <3>1. /\ plan.modified \subseteq BaseEps /\ plan.deleted \subseteq BaseEps
            /\ full \in BOOLEAN /\ WriteOutputs(r, plan, full)
        BY <1>2, <2>2
      <3> HIDE DEF plan, full
      <3>2. QED
        BY <3>1, OutputsWritten
    <2>4. /\ picked' \in [Runs -> SUBSET Functions]
          /\ picked'[r] = Selected(PlanOfHead(r), edit[r])
          /\ \A s \in Runs \ {r} : picked'[s] = picked[s]
      <3> DEFINE eps == Selected(PlanOfHead(r), edit[r])
      <3>1. eps \subseteq Functions /\ picked' = [picked EXCEPT ![r] = eps]
        BY <1>2, <2>2 DEF TypeOK, IsEdit
      <3> HIDE DEF eps
      <3>2. picked' \in [Runs -> SUBSET Functions] /\ picked'[r] = eps
            /\ \A s \in Runs \ {r} : picked'[s] = picked[s]
        BY <3>1 DEF TypeOK
      <3>3. QED
        BY <3>2 DEF eps
    <2>5. TypeOK'
      BY <1>0, <1>2, <2>1, <2>3, <2>4 DEF TypeOK, base, Directory
    <2>6. Steps(r, "analyse")
      BY <1>0, <1>2, <2>1, <2>3, <2>4, <2>5 DEF Steps, Others, SameAt, base, Procs
    <2>7. QED
      BY <1>0, <1>2, <2>4, <2>6
  <1>3. QED
    BY <1>1, <1>2 DEF Apply

\* What an analysis reports is a list of findings.
LEMMA ResListed ==
  ASSUME TypeOK, NEW r \in Runs
  PROVE  IsReport(Report(SetToBag(Results(edit[r], picked[r]))))
  <1>1. Results(edit[r], picked[r]) \subseteq Findings
    BY ResultsTyped DEF TypeOK
  <1>2. /\ IsABag(SetToBag(Results(edit[r], picked[r])))
        /\ BagToSet(SetToBag(Results(edit[r], picked[r]))) = Results(edit[r], picked[r])
    BY SetBags
  <1>3. QED
    BY <1>1, <1>2, ReportFiles

LEMMA AnalyseStep ==
  ASSUME TypeOK, NEW r \in Runs, Analyse(r)
  PROVE  /\ Steps(r, "plan") /\ pc[r] = "analyse" /\ call'[r] = "complete"
         /\ report'[r] = (IF Results(edit[r], picked[r]) = {} THEN report[r]
                          ELSE Report(SetToBag(Results(edit[r], picked[r]))))
         /\ UNCHANGED <<memory, changes, fullHead, selected, merged>>
  <1>1. /\ r \in Procs /\ pc[r] = "analyse" /\ AskPlan(r, "complete") /\ "complete" \in Calls
        /\ UNCHANGED <<index, base, memory, changes, fullHead, selected, merged, starts, crashes>>
    BY DEF Procs, Analyse, Calls
  <1>2. /\ pc' \in [Procs -> Running \cup Ended] /\ call' \in [Procs -> Calls]
        /\ pc'[r] = "plan" /\ call'[r] = "complete" /\ based' = based
        /\ \A q \in Procs \ {r} : pc'[q] = pc[q] /\ call'[q] = call[q]
    BY <1>1, AskTyped
  <1> DEFINE new == IF Results(edit[r], picked[r]) = {} THEN report[r]
                    ELSE Report(SetToBag(Results(edit[r], picked[r])))
  <1>3. report' = [report EXCEPT ![r] = new]
    BY DEF Analyse
  <1>4. IsReport(new)
    BY ResListed DEF TypeOK
  <1> HIDE DEF new
  <1>5. Directory(report') /\ report'[r] = new /\ \A s \in Runs \ {r} : report'[s] = report[s]
    BY <1>3, <1>4 DEF TypeOK, Directory
  <1>6. TypeOK'
    BY <1>1, <1>2, <1>5 DEF TypeOK, base, memory, Directory
  <1>7. Steps(r, "plan")
    BY <1>1, <1>2, <1>5, <1>6 DEF Steps, Others, SameAt, memory, base, Procs
  <1>8. QED
    BY <1>1, <1>2, <1>5, <1>7 DEF new

LEMMA CompleteStep ==
  ASSUME TypeOK, NEW r \in Runs, Complete(r)
  PROVE  /\ Steps(r, "snapshot") /\ pc[r] = "complete"
         /\ selected'[r] = (IF Valid(report[r]) THEN report[r] ELSE selected[r])
         /\ UNCHANGED <<call, memory, changes, fullHead, merged, report>>
  <1>1. /\ r \in Procs /\ pc[r] = "complete" /\ Goto(r, "snapshot") /\ "snapshot" \in Running
        /\ UNCHANGED <<index, base, call, based, memory, changes, fullHead, merged, report, starts,
                       crashes>>
    BY DEF Procs, Complete, Running
  <1>2. /\ pc' \in [Procs -> Running \cup Ended] /\ pc'[r] = "snapshot"
        /\ \A q \in Procs \ {r} : pc'[q] = pc[q]
    BY <1>1, GotoTyped
  <1> DEFINE new == IF Valid(report[r]) THEN report[r] ELSE selected[r]
  <1>3. selected' = [selected EXCEPT ![r] = new]
    BY DEF Complete
  <1>4. IsReport(new)
    BY DEF TypeOK
  <1> HIDE DEF new
  <1>5. Directory(selected') /\ selected'[r] = new
        /\ \A s \in Runs \ {r} : selected'[s] = selected[s]
    BY <1>3, <1>4 DEF TypeOK, Directory
  <1>6. TypeOK'
    BY <1>1, <1>2, <1>5 DEF TypeOK, base, memory, Directory
  <1>7. Steps(r, "snapshot")
    BY <1>1, <1>2, <1>5, <1>6 DEF Steps, Others, SameAt, memory, base, Procs
  <1>8. QED
    BY <1>1, <1>2, <1>5, <1>7 DEF new

LEMMA SnapshotStep ==
  ASSUME TypeOK, NEW r \in Runs, Snapshot(r)
  PROVE  /\ pc[r] = "snapshot"
         /\ UNCHANGED <<call, based, edit, fast, picked, misled, directories, starts>>
         /\ \/ Steps(r, "failed") /\ snapshot' = snapshot
            \/ Steps(r, IF fast[r] THEN "open" ELSE "merge") /\ snapshot'[r] = index
  <1> USE DEF Running, Ended
  <1>1. /\ r \in Procs /\ pc[r] = "snapshot"
        /\ UNCHANGED <<index, base, call, based, edit, fast, picked, misled, directories, starts,
                       crashes>>
    BY DEF Procs, Snapshot
  <1>2. CASE Goto(r, "failed") /\ snapshot' = snapshot
    <2>1. /\ pc' \in [Procs -> Running \cup Ended] /\ pc'[r] = "failed"
          /\ \A q \in Procs \ {r} : pc'[q] = pc[q]
      BY <1>1, <1>2, GotoTyped
    <2>2. TypeOK'
      BY <1>1, <1>2, <2>1 DEF TypeOK, base, directories
    <2>3. QED
      BY <1>1, <1>2, <2>1, <2>2 DEF Steps, Others, SameAt, directories, base, Procs
  <1>3. CASE /\ index # "torn" /\ Goto(r, IF fast[r] THEN "open" ELSE "merge")
             /\ snapshot' = [snapshot EXCEPT ![r] = index]
    <2> DEFINE label == IF fast[r] THEN "open" ELSE "merge"
    <2>1. label \in Running \cup Ended /\ Goto(r, label)
      BY <1>3
    <2> HIDE DEF label
    <2>2. /\ pc' \in [Procs -> Running \cup Ended] /\ pc'[r] = label
          /\ \A q \in Procs \ {r} : pc'[q] = pc[q]
      BY <1>1, <2>1, GotoTyped
    <2>3. /\ snapshot' \in [Runs -> {"baseless", "based"}] /\ snapshot'[r] = index
          /\ \A s \in Runs \ {r} : snapshot'[s] = snapshot[s]
      BY <1>3 DEF TypeOK
    <2>4. TypeOK'
      BY <1>1, <2>2, <2>3 DEF TypeOK, base, directories
    <2>5. Steps(r, label)
      BY <1>1, <2>2, <2>3, <2>4 DEF Steps, Others, SameAt, directories, base, Procs
    <2>6. QED
      BY <1>1, <2>3, <2>5 DEF label
  <1>4. QED
    BY <1>1, <1>2, <1>3 DEF Snapshot

\* What a merge writes is a list of findings.
LEMMA MergedListed ==
  ASSUME TypeOK, NEW r \in Runs
  PROVE  IsReport(MergedNow(r))
  <1>1. BaseResults \subseteq Findings
    BY NoEditIsEdit, ResultsTyped, PlanAssumption DEF BaseResults
  <1>2. IsReport(selected[r]) /\ IsReport(merged[r]) /\ IsReport(report[r])
    BY DEF TypeOK
  <1>3. IsABag(selected[r].list) /\ BagToSet(selected[r].list) \subseteq Findings
    BY <1>2 DEF IsReport
  <1>4. KeptOfBase(changes[r]) \subseteq Findings
    BY <1>1 DEF KeptOfBase
  <1> DEFINE sum == SetToBag(KeptOfBase(changes[r])) (+) selected[r].list
  <1>5. IsABag(sum) /\ BagToSet(sum) = KeptOfBase(changes[r]) \cup BagToSet(selected[r].list)
    BY <1>3, BagSums
  <1>6. MergeFindings(BaseResults, selected[r].list, changes[r]) = sum
    BY DEF MergeFindings, KeptOfBase
  <1> HIDE DEF sum
  <1>7. IsReport(Report(sum))
    BY <1>3, <1>4, <1>5, ReportFiles
  <1>8. QED
    BY <1>2, <1>6, <1>7 DEF MergedNow

LEMMA MergeStep ==
  ASSUME TypeOK, NEW r \in Runs, Merge(r)
  PROVE  /\ pc[r] = "merge"
         /\ misled'[r] = (misled[r] \/ (~fullHead[r] /\ ~based[r]))
         /\ \/ Steps(r, "failed") /\ merged' = merged
            \/ /\ Steps(r, "publish") /\ merged'[r] = MergedNow(r)
               /\ MergesBase(r) => baseReport = "whole"
         /\ UNCHANGED <<call, fast, picked, snapshot, changes, fullHead, selected, report>>
  <1> USE DEF Running, Ended
  <1>1. /\ r \in Procs /\ pc[r] = "merge"
        /\ UNCHANGED <<index, base, call, based, edit, fast, picked, snapshot, changes, fullHead,
                       selected, report, starts, crashes>>
    BY DEF Procs, Merge
  <1>2. /\ misled' \in [Runs -> BOOLEAN]
        /\ misled'[r] = (misled[r] \/ (~fullHead[r] /\ ~based[r]))
        /\ \A s \in Runs \ {r} : misled'[s] = misled[s]
    <2> DEFINE now == misled[r] \/ (~fullHead[r] /\ ~based[r])
    <2>1. misled' = [misled EXCEPT ![r] = now] /\ now \in BOOLEAN
      BY DEF Merge, TypeOK
    <2> HIDE DEF now
    <2>2. misled' \in [Runs -> BOOLEAN] /\ misled'[r] = now
          /\ \A s \in Runs \ {r} : misled'[s] = misled[s]
      BY <2>1 DEF TypeOK
    <2>3. QED
      BY <2>2 DEF now
  <1>3. CASE Goto(r, "failed") /\ merged' = merged
    <2>1. /\ pc' \in [Procs -> Running \cup Ended] /\ pc'[r] = "failed"
          /\ \A q \in Procs \ {r} : pc'[q] = pc[q]
      BY <1>1, <1>3, GotoTyped
    <2>2. TypeOK'
      BY <1>1, <1>2, <1>3, <2>1 DEF TypeOK, base
    <2>3. Steps(r, "failed")
      BY <1>1, <1>2, <1>3, <2>1, <2>2 DEF Steps, Others, SameAt, base, Procs
    <2>4. QED
      BY <1>1, <1>2, <1>3, <2>3
  <1>4. CASE /\ ~(MergesBase(r) /\ (baseReport = "torn" \/ selected[r] = Torn))
             /\ Goto(r, "publish") /\ merged' = [merged EXCEPT ![r] = MergedNow(r)]
    <2>1. /\ pc' \in [Procs -> Running \cup Ended] /\ pc'[r] = "publish"
          /\ \A q \in Procs \ {r} : pc'[q] = pc[q]
      BY <1>1, <1>4, GotoTyped
    <2>2. /\ Directory(merged') /\ merged'[r] = MergedNow(r)
          /\ \A s \in Runs \ {r} : merged'[s] = merged[s]
      BY <1>4, MergedListed DEF TypeOK, Directory
    <2>3. TypeOK'
      BY <1>1, <1>2, <2>1, <2>2 DEF TypeOK, base, Directory
    <2>4. Steps(r, "publish")
      BY <1>1, <1>2, <2>1, <2>2, <2>3 DEF Steps, Others, SameAt, base, Procs
    <2>5. MergesBase(r) => baseReport = "whole"
      BY <1>4 DEF MergesBase, TypeOK
    <2>6. QED
      BY <1>1, <1>2, <2>2, <2>4, <2>5
  <1>5. QED
    BY <1>3, <1>4 DEF Merge

LEMMA PublishStep ==
  ASSUME TypeOK, NEW r \in Runs, Publish(r)
  PROVE  /\ Steps(r, IF fast[r] THEN "snapshot" ELSE "open") /\ pc[r] = "publish"
         /\ report'[r] = (IF Valid(merged[r]) THEN merged[r] ELSE report[r])
         /\ UNCHANGED <<call, memory, changes, fullHead, selected, merged>>
  <1> DEFINE label == IF fast[r] THEN "snapshot" ELSE "open"
             new == IF Valid(merged[r]) THEN merged[r] ELSE report[r]
  <1>1. /\ r \in Procs /\ pc[r] = "publish" /\ Goto(r, label) /\ label \in Running \cup Ended
        /\ UNCHANGED <<index, base, call, based, memory, changes, fullHead, selected, merged,
                       starts, crashes>>
    BY DEF Procs, Publish, Running
  <1>2. report' = [report EXCEPT ![r] = new] /\ IsReport(new)
    BY DEF Publish, TypeOK
  <1> HIDE DEF label, new
  <1>3. /\ pc' \in [Procs -> Running \cup Ended] /\ pc'[r] = label
        /\ \A q \in Procs \ {r} : pc'[q] = pc[q]
    BY <1>1, GotoTyped
  <1>4. Directory(report') /\ report'[r] = new /\ \A s \in Runs \ {r} : report'[s] = report[s]
    BY <1>2 DEF TypeOK, Directory
  <1>5. TypeOK'
    BY <1>1, <1>3, <1>4 DEF TypeOK, base, memory, Directory
  <1>6. Steps(r, label)
    BY <1>1, <1>3, <1>4, <1>5 DEF Steps, Others, SameAt, memory, base, Procs
  <1>7. QED
    BY <1>1, <1>4, <1>6 DEF label, new

LEMMA StartStep ==
  ASSUME TypeOK, NEW r \in Runs, Start(r)
  PROVE  /\ TypeOK' /\ Others(r) /\ UNCHANGED <<based, edit, snapshot, misled, directories>>
         /\ pc[r] \in Ended /\ pc'[r] = "plan" /\ call'[r] = "try" /\ starts'[r] = starts[r] + 1
         /\ fast'[r] = FALSE /\ picked'[r] = {}
  <1>1. /\ r \in Procs /\ Starts(r) /\ UNCHANGED <<edit, snapshot, misled>>
        /\ fast' = [fast EXCEPT ![r] = FALSE] /\ picked' = [picked EXCEPT ![r] = {}]
    BY DEF Start, Procs
  <1>2. /\ pc[r] \in Ended /\ pc'[r] = "plan" /\ call'[r] = "try" /\ starts'[r] = starts[r] + 1
        /\ \A q \in Procs \ {r} : pc'[q] = pc[q] /\ call'[q] = call[q] /\ starts'[q] = starts[q]
        /\ UNCHANGED <<index, base, based, directories, crashes>>
        /\ Moves /\ starts' \in [Procs -> Nat]
    BY <1>1, StartsTyped
  <1>3. /\ fast' \in [Runs -> BOOLEAN] /\ picked' \in [Runs -> SUBSET Functions]
        /\ fast'[r] = FALSE /\ picked'[r] = {}
        /\ \A s \in Runs \ {r} : fast'[s] = fast[s] /\ picked'[s] = picked[s]
    BY <1>1 DEF TypeOK
  <1>4. TypeOK'
    BY <1>1, <1>2, <1>3 DEF TypeOK, Moves, base, directories
  <1>5. Others(r)
    BY <1>1, <1>2, <1>3 DEF Others, SameAt, directories, Procs
  <1>6. QED
    BY <1>1, <1>2, <1>3, <1>4, <1>5

LEMMA CrashStep ==
  ASSUME TypeOK, NEW r \in Runs, Crash(r)
  PROVE  /\ Steps(r, "crashed") /\ pc[r] \in Running
         /\ UNCHANGED <<call, memory, changes, fullHead>>
         /\ selected'[r] \in {selected[r], Torn} /\ merged'[r] \in {merged[r], Torn}
         /\ report'[r] \in {report[r], Torn}
  <1>1. /\ r \in Procs /\ Dies(r)
        /\ selected' \in {selected, [selected EXCEPT ![r] = Torn]}
        /\ merged' \in {merged, [merged EXCEPT ![r] = Torn]}
        /\ report' \in {report, [report EXCEPT ![r] = Torn]}
    BY DEF Crash, Cut, Procs
  <1>2. /\ pc[r] \in Running /\ pc'[r] = "crashed" /\ \A q \in Procs \ {r} : pc'[q] = pc[q]
        /\ UNCHANGED <<index, base, call, based, memory, changes, fullHead, starts>>
        /\ Moves /\ crashes' \in 0 .. MaxCrashes
    BY <1>1, DiesTyped
  <1>3. IsReport(Torn)
    BY ReportFiles
  <1>4. /\ Directory(selected') /\ selected'[r] \in {selected[r], Torn}
        /\ \A s \in Runs \ {r} : selected'[s] = selected[s]
    BY <1>1, <1>3 DEF TypeOK, Directory
  <1>5. /\ Directory(merged') /\ merged'[r] \in {merged[r], Torn}
        /\ \A s \in Runs \ {r} : merged'[s] = merged[s]
    BY <1>1, <1>3 DEF TypeOK, Directory
  <1>6. /\ Directory(report') /\ report'[r] \in {report[r], Torn}
        /\ \A s \in Runs \ {r} : report'[s] = report[s]
    BY <1>1, <1>3 DEF TypeOK, Directory
  <1>7. TypeOK'
    BY <1>2, <1>4, <1>5, <1>6 DEF TypeOK, Moves, base, memory, Directory
  <1>8. Steps(r, "crashed")
    BY <1>2, <1>4, <1>5, <1>6, <1>7 DEF Steps, Others, SameAt, memory, Procs
  <1>9. QED
    BY <1>1, <1>2, <1>4, <1>5, <1>6, <1>8

LEMMA HeadTyped ==
  ASSUME TypeOK, NEW r \in Runs, HeadNext(r)
  PROVE  TypeOK' /\ Others(r)
  BY TryStep, ApplyStep, AnalyseStep, CompleteStep, SnapshotStep, MergeStep, PublishStep,
     StartStep, CrashStep DEF HeadNext, Steps

LEMMA TypeKept == TypeOK /\ [Next]_vars => TypeOK'
  <1> SUFFICES ASSUME TypeOK, [Next]_vars PROVE TypeOK'
    OBVIOUS
  <1>1. CASE RemoveIndex
    BY <1>1 DEF RemoveIndex, TypeOK, base, control, memory, directories
  <1>2. CASE UNCHANGED vars
    BY <1>2 DEF vars, TypeOK, base, control, memory, directories
  <1>3. QED
    BY <1>1, <1>2, IndexTyped, BaselineTyped, HeadTyped DEF Next

-----------------------------------------------------------------------------
(* The base, and who knows of it *)

\* The process does c, or asks for the plan that it needs to do c.
Doing(p, c) == pc[p] = c \/ (pc[p] \in {"plan", "name"} /\ call[p] = c)

\* The files of the base grow as its analysis goes on, and none is taken away.
BaseFiles ==
  /\ BaseResults = {} => baseReport = "absent"
  /\ setup = "plain" => database = "absent"
  /\ database = "whole" => entrypoints # "absent" /\ (BaseResults # {} => baseReport # "absent")
  /\ Doing(Baseline, "apply") \/ pc[Baseline] \in {"collect", "analyse", "report", "commit"} =>
       (setup # "plain" => database # "absent")
  /\ pc[Baseline] \in {"collect", "analyse", "report", "commit"} => entrypoints # "absent"
  /\ pc[Baseline] \in {"report", "commit"} => (BaseResults # {} => baseReport # "absent")
  /\ Doing(Baseline, "complete") \/ pc[Baseline] \in {"open", "write"} => Finished

\* What must be there before anybody knows of the base.
Usable == IF setup = "artifacts" THEN Discovered ELSE Finished

Known ==
  \/ index = "based"
  \/ \E p \in Procs : based[p] \/ pc[p] = "name"
  \/ \E r \in Runs : snapshot[r] = "based"

\* A run that has planned to analyse a part of the head only, of a base that can
\* be found again, and still counts on that base when it completes.
Counts(r) ==
  setup = "artifacts" /\ ~fullHead[r] =>
    /\ pc[r] = "analyse" \/ Doing(r, "complete") => Discovered
    /\ Partial(r) => based[r]

BaseInv == BaseFiles /\ (Known => Usable) /\ \A r \in Runs : Counts(r)

Grows ==
  /\ setup' = setup /\ (Finished => Finished') /\ (Discovered => Discovered')
  /\ baseReport' = "absent" => baseReport = "absent"
  /\ database = "whole" => database' = "whole"

LEMMA BaseSame ==
  ASSUME UNCHANGED base
  PROVE  Grows /\ (Usable => Usable')
  BY DEF base, Grows, Finished, Discovered, Usable

LEMMA BaselineStep ==
  ASSUME TypeOK, BaseFiles, BaselineNext
  PROVE  /\ BaseFiles' /\ Grows /\ (Usable => Usable')
         /\ index' = index /\ based' = based /\ UNCHANGED <<memory, directories>>
         /\ pc'[Baseline] # "name"
         /\ \A p \in Procs \ {Baseline} :
              pc'[p] = pc[p] /\ call'[p] = call[p] /\ starts'[p] = starts[p]
  <1>0. Baseline \in Procs
    BY DEF Procs
  <1>1. CASE StartBaseline
    <2>1. /\ UNCHANGED <<index, base, based, memory, directories>>
          /\ pc'[Baseline] = "plan" /\ call'[Baseline] = "try"
          /\ \A p \in Procs \ {Baseline} :
               pc'[p] = pc[p] /\ call'[p] = call[p] /\ starts'[p] = starts[p]
      BY <1>0, <1>1, StartsTyped DEF StartBaseline
    <2>2. BaseFiles'
      BY <2>1 DEF BaseFiles, Doing, base, Finished
    <2>3. QED
      BY <2>1, <2>2, BaseSame
  <1>2. CASE CrashBaseline
    <2>1. /\ UNCHANGED <<index, base, based, memory, directories, starts, call>>
          /\ pc'[Baseline] = "crashed" /\ \A p \in Procs \ {Baseline} : pc'[p] = pc[p]
      BY <1>0, <1>2, DiesTyped DEF CrashBaseline, directories
    <2>2. BaseFiles'
      BY <2>1 DEF BaseFiles, Doing, base, Finished
    <2>3. QED
      BY <2>1, <2>2, BaseSame
  <1>3. CASE BaseInit
    <2>1. /\ pc[Baseline] = "try" /\ AskPlan(Baseline, "apply") /\ "apply" \in Calls
          /\ database' = IF setup # "plain" /\ database = "absent" THEN "empty" ELSE database
          /\ UNCHANGED <<index, setup, entrypoints, baseReport, memory, directories, starts>>
      BY <1>3 DEF BaseInit, Calls
    <2>2. /\ pc'[Baseline] = "plan" /\ call'[Baseline] = "apply" /\ based' = based
          /\ \A p \in Procs \ {Baseline} : pc'[p] = pc[p] /\ call'[p] = call[p]
      BY <1>0, <2>1, AskTyped
    <2>3. BaseFiles' /\ Grows
      BY <2>1, <2>2 DEF TypeOK, BaseFiles, Doing, Grows, Finished, Discovered
    <2>4. Usable => Usable'
      BY <2>3 DEF Grows, Usable
    <2>5. QED
      BY <2>1, <2>2, <2>3, <2>4
  <1>4. CASE BaseCommit
    <2>1. /\ pc[Baseline] = "commit" /\ AskPlan(Baseline, "complete") /\ "complete" \in Calls
          /\ database' = IF database = "empty" THEN "whole" ELSE database
          /\ UNCHANGED <<index, setup, entrypoints, baseReport, memory, directories, starts>>
      BY <1>4 DEF BaseCommit, Calls
    <2>2. /\ pc'[Baseline] = "plan" /\ call'[Baseline] = "complete" /\ based' = based
          /\ \A p \in Procs \ {Baseline} : pc'[p] = pc[p] /\ call'[p] = call[p]
      BY <1>0, <2>1, AskTyped
    <2>3. BaseFiles' /\ Grows
      BY <2>1, <2>2 DEF TypeOK, BaseFiles, Doing, Grows, Finished, Discovered
    <2>4. Usable => Usable'
      BY <2>3 DEF Grows, Usable
    <2>5. QED
      BY <2>1, <2>2, <2>3, <2>4
  <1>5. CASE BaseApply \/ BaseCollect \/ BaseAnalyse \/ BaseReport \/ BaseComplete
    <2>1. PICK label \in {"collect", "analyse", "report", "commit", "open", "failed"} :
            Goto(Baseline, label)
      BY <1>5 DEF BaseApply, BaseCollect, BaseAnalyse, BaseReport, BaseComplete
    <2>2. /\ pc'[Baseline] = label /\ \A p \in Procs \ {Baseline} : pc'[p] = pc[p]
          /\ UNCHANGED <<index, call, based, memory, directories, starts>>
      <3>1. label \in Running \cup Ended
        BY DEF Running, Ended
      <3>2. QED
        BY <1>0, <1>5, <2>1, <3>1, GotoTyped
           DEF BaseApply, BaseCollect, BaseAnalyse, BaseReport, BaseComplete
    <2>3. BaseFiles' /\ Grows
      <3>1. CASE BaseApply
        <4>1. pc'[Baseline] = "collect"
          BY <1>0, <3>1, GotoTyped DEF BaseApply, Running
        <4>2. QED
          BY <2>2, <3>1, <4>1
             DEF BaseApply, TypeOK, BaseFiles, Doing, Grows, Finished, Discovered
      <3>2. CASE BaseCollect
        <4>1. pc'[Baseline] = "analyse"
          BY <1>0, <3>2, GotoTyped DEF BaseCollect, Running
        <4>2. QED
          BY <2>2, <3>2, <4>1
             DEF BaseCollect, TypeOK, BaseFiles, Doing, Grows, Finished, Discovered
      <3>3. CASE BaseAnalyse
        <4>1. pc'[Baseline] = "report"
          BY <1>0, <3>3, GotoTyped DEF BaseAnalyse, Running
        <4>2. QED
          BY <2>2, <3>3, <4>1
             DEF BaseAnalyse, TypeOK, BaseFiles, Doing, Grows, Finished, Discovered
      <3>4. CASE BaseReport
        <4>1. pc'[Baseline] = "commit"
          BY <1>0, <3>4, GotoTyped DEF BaseReport, Running
        <4>2. QED
          BY <2>2, <3>4, <4>1
             DEF BaseReport, TypeOK, BaseFiles, Doing, Grows, Finished, Discovered
      <3>5. CASE BaseComplete
        <4>1. pc'[Baseline] \in {"open", "failed"} /\ pc[Baseline] = "complete" /\ UNCHANGED base
          BY <1>0, <3>5, GotoTyped DEF BaseComplete, Running, Ended
        <4>2. QED
          BY <4>1, BaseSame DEF TypeOK, BaseFiles, Doing, base, Finished
      <3>6. QED
        BY <1>5, <3>1, <3>2, <3>3, <3>4, <3>5
    <2>4. Usable => Usable'
      BY <2>3 DEF Grows, Usable
    <2>5. QED
      BY <2>2, <2>3, <2>4
  <1>6. QED
    BY <1>1, <1>2, <1>3, <1>4, <1>5 DEF BaselineNext

\* Nobody learns of the base from a step that leaves the index alone.
LEMMA BaselineInv ==
  ASSUME TypeOK, BaseInv, BaselineNext
  PROVE  BaseInv'
  <1>1. /\ BaseFiles' /\ Grows /\ (Usable => Usable')
        /\ index' = index /\ based' = based /\ UNCHANGED <<memory, directories>>
        /\ pc'[Baseline] # "name"
        /\ \A p \in Procs \ {Baseline} : pc'[p] = pc[p] /\ call'[p] = call[p]
    BY BaselineStep DEF BaseInv
  <1>2. Known' => Known
    BY <1>1 DEF Known, memory
  <1>3. ASSUME NEW r \in Runs PROVE Counts(r)'
    <2>1. r \in Procs \ {Baseline}
      BY RunsAssumption DEF Procs
    <2>2. pc'[r] = pc[r] /\ call'[r] = call[r] /\ fullHead' = fullHead /\ based' = based
          /\ setup' = setup /\ (Discovered => Discovered')
      BY <1>1, <2>1 DEF Grows, directories
    <2>3. QED
      BY <2>2 DEF BaseInv, Counts, Partial, Doing
  <1>4. QED
    BY <1>1, <1>2, <1>3 DEF BaseInv

\* The steps of getIncrementalPlan and of the index, with what the process knows then.
LEMMA IndexStep ==
  ASSUME TypeOK, NEW p \in Procs, GetPlan(p) \/ NameDiscovered(p) \/ OpenIndex(p) \/ WriteIndex(p)
  PROVE  /\ UNCHANGED <<base, call, memory, directories, starts>>
         /\ \A q \in Procs \ {p} : pc'[q] = pc[q] /\ based'[q] = based[q]
         /\ \/ pc[p] = "plan" /\ pc'[p] = "failed" /\ index' = index /\ based' = based
            \/ /\ pc[p] = "plan" /\ pc'[p] = call[p] /\ index' = index
               /\ based'[p] <=> index = "based"
               /\ index = "based" \/ ~Discovered
            \/ pc[p] = "plan" /\ pc'[p] = "name" /\ Discovered /\ setup = "artifacts"
               /\ index' = "torn" /\ based' = based
            \/ pc[p] = "name" /\ pc'[p] = call[p] /\ based'[p] = TRUE
               /\ index' \in {"based", "torn"}
            \/ pc[p] = "open" /\ pc'[p] = "write" /\ index' = "torn" /\ based' = based
            \/ /\ pc[p] = "write" /\ pc'[p] = "done" /\ based' = based
               /\ \/ index' = "torn"
                  \/ p = Baseline /\ index' = "based"
                  \/ p \in Runs /\ index' = snapshot[p]
  <1> USE DEF Running, Ended, Calls
  <1>1. call[p] \in Running \cup Ended
    BY DEF TypeOK
  <1>2. CASE GetPlan(p)
    <2>1. CASE index = "torn" /\ Goto(p, "failed") /\ UNCHANGED <<index, based>>
      BY <1>2, <2>1, GotoTyped DEF GetPlan
    <2>2. CASE index = "based" /\ Goto(p, call[p]) /\ based' = [based EXCEPT ![p] = TRUE]
               /\ UNCHANGED index
      BY <1>1, <1>2, <2>2, GotoTyped DEF GetPlan, TypeOK
    <2>3. CASE index = "baseless" /\ ~Discovered /\ Goto(p, call[p])
               /\ based' = [based EXCEPT ![p] = FALSE] /\ UNCHANGED index
      BY <1>1, <1>2, <2>3, GotoTyped DEF GetPlan, TypeOK
    <2>4. CASE index = "baseless" /\ Discovered /\ Goto(p, "name")
               /\ index' = "torn" /\ UNCHANGED based
      BY <1>2, <2>4, GotoTyped DEF GetPlan, Discovered
    <2>5. QED
      BY <1>2, <2>1, <2>2, <2>3, <2>4 DEF GetPlan
  <1>3. CASE NameDiscovered(p)
    BY <1>1, <1>3, GotoTyped DEF NameDiscovered, Written, TypeOK
  <1>4. CASE OpenIndex(p)
    BY <1>4, GotoTyped DEF OpenIndex
  <1>5. CASE WriteIndex(p)
    BY <1>5, GotoTyped DEF WriteIndex, Written, Procs
  <1>6. QED
    BY <1>2, <1>3, <1>4, <1>5

LEMMA IndexInv ==
  ASSUME TypeOK, BaseInv, NEW p \in Procs,
         GetPlan(p) \/ NameDiscovered(p) \/ OpenIndex(p) \/ WriteIndex(p)
  PROVE  BaseInv'
  <1>1. /\ UNCHANGED <<base, call, memory, directories>>
        /\ \A q \in Procs \ {p} : pc'[q] = pc[q] /\ based'[q] = based[q]
    BY IndexStep
  <1>2. Grows /\ (Usable => Usable')
    BY <1>1, BaseSame
  <1>3. BaseFiles'
    <2>1. Doing(Baseline, "apply")' => Doing(Baseline, "apply")
      BY <1>1, IndexStep DEF Doing, Procs, TypeOK
    <2>2. Doing(Baseline, "complete")' => Doing(Baseline, "complete")
      BY <1>1, IndexStep DEF Doing, Procs, TypeOK
    <2>0. call[p] \in {"try", "apply", "complete"}
      BY DEF TypeOK, Calls
    <2>3. \/ pc'[Baseline] = pc[Baseline]
          \/ pc'[Baseline] \in {"failed", "try", "apply", "complete", "name", "done"}
          \/ pc[Baseline] = "open" /\ pc'[Baseline] = "write"
      <3>1. CASE p = Baseline
        BY <2>0, <3>1, IndexStep
      <3>2. CASE p # Baseline
        BY <1>1, <3>2 DEF Procs
      <3>3. QED
        BY <3>1, <3>2
    <2>4. \A c \in {"collect", "analyse", "report", "commit", "open"} :
            pc'[Baseline] = c => pc[Baseline] = c
      BY <2>3
    <2>6. pc'[Baseline] = "write" => pc[Baseline] \in {"open", "write"}
      BY <2>3
    <2>7. Finished' <=> Finished
      BY <1>1 DEF Finished, base
    <2>8. QED
      BY <1>1, <2>1, <2>2, <2>4, <2>6, <2>7 DEF BaseInv, BaseFiles, base
  <1>4. Known' => Usable
    <2>1. Known => Usable
      BY DEF BaseInv
    <2>2. pc[Baseline] = "write" => Usable
      BY DEF BaseInv, BaseFiles, Usable, Finished, Discovered
    <2>3. setup = "artifacts" /\ Discovered => Usable
      BY DEF Usable
    <2>4. index' = "based" => Known \/ pc[Baseline] = "write"
      BY IndexStep DEF Known
    <2>5. ASSUME NEW q \in Procs, based'[q] PROVE Known
      <3>1. CASE p # q
        BY <1>1, <2>5, <3>1 DEF Known
      <3>2. CASE p = q
        BY <2>5, <3>2, IndexStep DEF Known
      <3>3. QED
        BY <3>1, <3>2
    <2>6. ASSUME NEW q \in Procs, pc'[q] = "name"
          PROVE  Known \/ (setup = "artifacts" /\ Discovered)
      <3>1. CASE p # q
        BY <1>1, <2>6, <3>1 DEF Known
      <3>2. CASE p = q
        <4>1. call[q] \in {"try", "apply", "complete"}
          BY DEF TypeOK, Calls
        <4>2. QED
          BY <2>6, <3>2, <4>1, IndexStep
      <3>3. QED
        BY <3>1, <3>2
    <2>7. (\E r \in Runs : snapshot'[r] = "based") => Known
      BY <1>1 DEF Known, memory
    <2>8. QED
      BY <2>1, <2>2, <2>3, <2>4, <2>5, <2>6, <2>7 DEF Known
  <1>5. ASSUME NEW r \in Runs PROVE Counts(r)'
    <2>1. SUFFICES ASSUME setup = "artifacts", ~fullHead[r]
                   PROVE  /\ (pc[r] = "analyse" \/ Doing(r, "complete"))' => Discovered
                          /\ Partial(r)' => based'[r]
      BY <1>1 DEF Counts, base, directories, Discovered
    <2>2. Counts(r) /\ r \in Procs
      BY DEF BaseInv, Procs
    <2>3. (pc[r] = "analyse" \/ Doing(r, "complete"))' => pc[r] = "analyse" \/ Doing(r, "complete")
      BY <1>1, <2>2, IndexStep DEF Doing, TypeOK, Calls
    <2>4. CASE p # r
      <3>1. pc'[r] = pc[r] /\ based'[r] = based[r] /\ fullHead' = fullHead
        BY <1>1, <2>2, <2>4 DEF directories
      <3>2. QED
        BY <2>1, <2>2, <2>3, <3>1 DEF Counts, Partial
    <2>5. CASE p = r
      <3>1. CASE pc[r] \in {"open", "write"}
        <4>1. based[r]
          BY <2>1, <2>2, <3>1 DEF Counts, Partial
        <4>2. based'[r] = based[r]
          BY <2>5, <3>1, IndexStep
        <4>3. QED
          BY <2>1, <2>2, <2>3, <4>1, <4>2 DEF Counts
      <3>2. CASE pc[r] \in {"plan", "name"}
        <4>1. ASSUME Partial(r)' PROVE based'[r]
          <5>1. pc'[r] = "complete" /\ call[r] = "complete"
            BY <2>5, <3>2, <4>1, IndexStep DEF Partial, TypeOK, Calls
          <5>2. Discovered
            BY <2>1, <2>2, <3>2, <5>1 DEF Counts, Doing
          <5>3. QED
            BY <2>5, <3>2, <5>1, <5>2, IndexStep
        <4>2. QED
          BY <2>1, <2>2, <2>3, <4>1 DEF Counts
      <3>3. QED
        BY <2>5, <3>1, <3>2, IndexStep
    <2>6. QED
      BY <2>4, <2>5
  <1>6. QED
    BY <1>2, <1>3, <1>4, <1>5 DEF BaseInv

\* A plan that is not a fallback is made from a base.
LEMMA PlansKnow ==
  ASSUME NEW r \in Runs, based[r] \in BOOLEAN
  PROVE  /\ ~PlanNow(r).fallback => based[r] /\ database # "absent"
         /\ CanCompleteWithoutHeadAnalysis(PlanNow(r)) => based[r] /\ database # "absent"
         /\ ~FullHead(PlanOfHead(r), edit[r]) =>
              /\ based[r] /\ database # "absent"
              /\ PlanOfHead(r) = CompareHead(Prepare(edit[r], TRUE, database), edit[r])
  <1>1. ~PlanNow(r).fallback => based[r] /\ database # "absent"
    BY Prepared DEF PlanNow
  <1>2. CanCompleteWithoutHeadAnalysis(PlanNow(r)) => ~PlanNow(r).fallback
    BY DEF CanCompleteWithoutHeadAnalysis
  <1>3. PlanOfHead(r).fallback = PlanNow(r).fallback
    BY DEF PlanOfHead, CompareHead, PlanNow, Prepare
  <1>4. ~FullHead(PlanOfHead(r), edit[r]) => ~PlanOfHead(r).fallback
    BY DEF FullHead
  <1>5. based[r] => PlanOfHead(r) = CompareHead(Prepare(edit[r], TRUE, database), edit[r])
    BY DEF PlanOfHead, PlanNow
  <1>6. QED
    BY <1>1, <1>2, <1>3, <1>4, <1>5

LEMMA HeadCounts ==
  ASSUME TypeOK, BaseInv, NEW r \in Runs, HeadNext(r)
  PROVE  Counts(r)'
  <1>0. /\ Counts(r) /\ based[r] \in BOOLEAN
        /\ (setup = "artifacts" /\ based[r] => Discovered)
    BY DEF BaseInv, TypeOK, Procs, Known, Usable
  <1>1. Others(r) /\ setup' = setup /\ (Discovered' <=> Discovered)
    BY HeadTyped DEF Others, base, Discovered
  <1>2. CASE Try(r)
    <2>1. CASE Steps(r, "failed") \/ (Steps(r, "plan") /\ call'[r] = "apply")
      BY <2>1 DEF Steps, Counts, Doing, Partial
    <2>2. CASE /\ Steps(r, "merge") /\ CanCompleteWithoutHeadAnalysis(PlanNow(r))
      <3>1. based'[r] /\ pc'[r] = "merge"
        BY <1>0, <2>2, PlansKnow DEF Steps
      <3>2. QED
        BY <3>1 DEF Counts, Doing
    <2>3. QED
      BY <1>2, <2>1, <2>2, TryStep
  <1>3. CASE Apply(r)
    <2>1. CASE Steps(r, "failed")
      BY <2>1 DEF Steps, Counts, Doing, Partial
    <2>2. CASE /\ Steps(r, "analyse")
               /\ WriteOutputs(r, PlanOfHead(r), FullHead(PlanOfHead(r), edit[r]))
      <3>1. fullHead'[r] = FullHead(PlanOfHead(r), edit[r]) /\ pc'[r] = "analyse"
        BY <2>2 DEF WriteOutputs, TypeOK, Steps
      <3>2. ~fullHead'[r] => based[r]
        BY <1>0, <3>1, PlansKnow
      <3>3. QED
        BY <1>0, <1>1, <3>1, <3>2 DEF Counts, Partial
    <2>3. QED
      BY <1>3, <2>1, <2>2, ApplyStep
  <1>4. CASE Analyse(r)
    <2>1. pc[r] = "analyse" /\ pc'[r] = "plan" /\ call'[r] = "complete" /\ fullHead' = fullHead
      BY <1>4, AnalyseStep DEF Steps
    <2>2. QED
      BY <1>0, <1>1, <2>1 DEF Counts, Doing, Partial
  <1>5. CASE Complete(r) \/ Snapshot(r) \/ Merge(r) \/ Publish(r)
    <2>1. /\ pc[r] \in {"complete", "snapshot", "merge", "publish"}
          /\ pc'[r] \in {"snapshot", "merge", "publish", "open", "failed"}
          /\ fullHead' = fullHead /\ based'[r] = based[r]
      BY <1>5, CompleteStep, SnapshotStep, MergeStep, PublishStep DEF Steps, directories
    <2>2. QED
      BY <1>0, <1>1, <2>1 DEF Counts, Doing, Partial
  <1>6. CASE Start(r) \/ Crash(r)
    <2>1. (pc'[r] = "plan" /\ call'[r] = "try") \/ pc'[r] = "crashed"
      BY <1>6, StartStep, CrashStep DEF Steps
    <2>2. QED
      BY <2>1 DEF Counts, Doing, Partial
  <1>7. QED
    BY <1>2, <1>3, <1>4, <1>5, <1>6 DEF HeadNext

LEMMA HeadInv ==
  ASSUME TypeOK, BaseInv, NEW r \in Runs, HeadNext(r)
  PROVE  BaseInv'
  <1>0. r \in Procs /\ Baseline # r
    BY RunsAssumption DEF Procs
  <1>1. UNCHANGED <<index, base>> /\ Others(r)
    BY HeadTyped DEF Others
  <1>2. pc'[Baseline] = pc[Baseline] /\ call'[Baseline] = call[Baseline]
    BY <1>0, <1>1 DEF Others, Procs
  <1>3. BaseFiles'
    BY <1>1, <1>2 DEF BaseInv, BaseFiles, Doing, Finished, base
  <1>4. Usable => Usable'
    BY <1>1, BaseSame
  <1>5. Known' => Known
    <2>1. pc'[r] # "name" /\ based'[r] = based[r] /\ snapshot'[r] \in {snapshot[r], index}
      <3>1. CASE Try(r)
        BY <3>1, TryStep DEF Steps
      <3>2. CASE Apply(r)
        BY <3>2, ApplyStep DEF Steps
      <3>3. CASE Analyse(r) \/ Complete(r) \/ Publish(r) \/ Crash(r)
        BY <3>3, AnalyseStep, CompleteStep, PublishStep, CrashStep DEF Steps, memory
      <3>4. CASE Snapshot(r)
        BY <3>4, SnapshotStep DEF Steps
      <3>5. CASE Merge(r) \/ Start(r)
        BY <3>5, MergeStep, StartStep DEF Steps
      <3>6. QED
        BY <3>1, <3>2, <3>3, <3>4, <3>5 DEF HeadNext
    <2>2. QED
      BY <1>0, <1>1, <2>1 DEF Known, Others, SameAt
  <1>6. ASSUME NEW s \in Runs PROVE Counts(s)'
    <2>1. CASE s = r
      BY <2>1, HeadCounts
    <2>2. CASE s # r
      BY <1>1, <2>2 DEF BaseInv, Counts, Doing, Partial, Others, SameAt, base, Discovered
    <2>3. QED
      BY <2>1, <2>2
  <1>7. QED
    BY <1>3, <1>4, <1>5, <1>6 DEF BaseInv

LEMMA BaseInvInit == Init => BaseInv
  <1> SUFFICES ASSUME Init PROVE BaseInv
    OBVIOUS
  <1>1. BaseFiles /\ ~Known
    BY DEF Init, BaseFiles, Doing, Known, Procs
  <1>2. \A r \in Runs : Counts(r)
    BY DEF Init, Counts, Doing, Partial, Procs
  <1>3. QED
    BY <1>1, <1>2 DEF BaseInv

LEMMA BaseInvKept == TypeOK /\ BaseInv /\ [Next]_vars => BaseInv'
  <1> SUFFICES ASSUME TypeOK, BaseInv, [Next]_vars PROVE BaseInv'
    OBVIOUS
  <1>1. CASE RemoveIndex \/ UNCHANGED vars
    <2>1. /\ UNCHANGED <<base, control, memory, directories>>
          /\ index' = index \/ index' = "baseless"
      BY <1>1 DEF RemoveIndex, vars
    <2>2. BaseFiles' /\ (Known' => Known) /\ (Usable => Usable')
      BY <2>1, BaseSame DEF BaseInv, BaseFiles, Doing, Finished, Known, base, control, memory
    <2>3. \A r \in Runs : Counts(r)'
      BY <2>1 DEF BaseInv, Counts, Doing, Partial, Discovered, base, control, directories
    <2>4. QED
      BY <2>2, <2>3 DEF BaseInv
  <1>2. QED
    BY <1>1, IndexInv, BaselineInv, HeadInv DEF Next

-----------------------------------------------------------------------------
(* What a run has in its directory *)

Res(r) == Results(edit[r], picked[r])
Full(r) == FullResults(edit[r])

\* r knows what it will report, and has not merged it; r has its report.
Unmerged(r) ==
  \/ ~fast[r] /\ (pc[r] \in {"analyse", "snapshot", "merge"} \/ Doing(r, "complete"))
  \/ fast[r] /\ pc[r] = "merge"
Reports(r) == pc[r] \in {"open", "write", "done"} \/ (fast[r] /\ pc[r] = "snapshot")

Empty(r) == \A file \in {selected[r], merged[r], report[r]} : ~Valid(file)

Picking(r) ==
  /\ \A file \in {selected[r], merged[r], report[r]} : Valid(file) \/ file.list = EmptyBag
  /\ picked[r] \subseteq edit[r].eps
  /\ Doing(r, "try") \/ Doing(r, "apply") => ~fast[r] /\ picked[r] = {}
  /\ fast[r] =>
       /\ picked[r] = {}
       /\ pc[r] \in {"merge", "publish", "snapshot", "open", "write"} \cup Ended
  /\ Unmerged(r) =>
       /\ fullHead[r] => ~fast[r] /\ picked[r] = edit[r].eps
       /\ ~fullHead[r] => picked[r] \cap BaseEps \subseteq changes[r].modified

\* What an analysis that found something leaves behind.
Found(r) ==
  Res(r) # {} =>
    /\ Doing(r, "complete") \/ pc[r] \in {"snapshot", "merge", "publish"} =>
         report[r] = Report(SetToBag(Res(r)))
    /\ pc[r] \in {"snapshot", "merge"} => selected[r] = Report(SetToBag(Res(r)))
    /\ (fullHead[r] \/ based[r]) /\ pc[r] = "publish" /\ Valid(merged[r]) =>
         About(merged[r].list, picked[r]) = SetToBag(Res(r))
    /\ (fullHead[r] \/ based[r]) /\ pc[r] \in {"open", "write", "done"} =>
         About(report[r].list, picked[r]) = SetToBag(Res(r))

\* As long as the base has no report, a merged report is that of a full head run.
Early(r) ==
  baseReport = "absent" =>
    /\ Valid(merged[r]) => merged[r].list = SetToBag(Full(r))
    /\ Full(r) = {} => ~Valid(merged[r]) /\ ~Valid(report[r])

\* The first start finds a directory without reports.
Fresh(r) ==
  /\ starts[r] = 0 => pc[r] = "idle" /\ Empty(r)
  /\ starts[r] = 1 /\ Res(r) = {} /\ (Doing(r, "try") \/ Doing(r, "apply") \/ Unmerged(r)) => Empty(r)

\* No file of r says more than an analysis of its head would, and a merge says it all.
Sound(r) ==
  /\ BagToSet(selected[r].list) \subseteq Full(r)
  /\ BagToSet(report[r].list) \subseteq Full(r)
  /\ Valid(merged[r]) => BagToSet(merged[r].list) = Full(r)

Exactly(r, list) ==
  /\ BagToSet(list) = Full(r)
  /\ Res(r) # {} \/ starts[r] = 1 => list = SetToBag(Full(r))

\* What the database sees of an edit is enough.
Exact(r) ==
  /\ Unmerged(r) /\ ~fullHead[r] =>
       database = "whole" /\ KeptOfBase(changes[r]) \cup Res(r) = Full(r)
  /\ pc[r] = "publish" => Exactly(r, IF Valid(merged[r]) THEN merged[r].list ELSE report[r].list)
  /\ Reports(r) => Exactly(r, report[r].list)

Progress(r) ==
  /\ Picking(r) /\ Found(r) /\ Early(r) /\ Fresh(r)
  /\ Seen(edit[r]) /\ ~misled[r] => Sound(r) /\ Exact(r)

IInv == TypeOK /\ BaseInv /\ \A r \in Runs : Progress(r)

\* A list that is empty is the list of no findings.
LEMMA Lists ==
  /\ \A list : Valid(Report(list)) /\ Report(list).list = list
  /\ \A file \in {Absent, Reserved, Torn} : ~Valid(file) /\ file.list = EmptyBag
  /\ BagToSet(EmptyBag) = {} /\ SetToBag({}) = EmptyBag
  /\ \A S : BagToSet(SetToBag(S)) = S
  BY ReportFiles, EmptyBags, SetBags

\* The steps of others.
LEMMA SameProgress ==
  ASSUME NEW s \in Runs, Progress(s), SameAt(s), Grows
  PROVE  Progress(s)'
  <1>1. /\ Res(s)' = Res(s) /\ Full(s)' = Full(s) /\ (Unmerged(s)' <=> Unmerged(s))
        /\ (Reports(s)' <=> Reports(s)) /\ (Empty(s)' <=> Empty(s))
        /\ \A c \in {"try", "apply", "complete"} : Doing(s, c)' <=> Doing(s, c)
    BY DEF SameAt, Res, Full, Unmerged, Reports, Empty, Doing
  <1>2. Picking(s)'
    BY <1>1 DEF SameAt, Progress, Picking
  <1>3. Found(s)'
    BY <1>1 DEF SameAt, Progress, Found
  <1>4. Early(s)'
    BY <1>1 DEF SameAt, Grows, Progress, Early
  <1>5. Fresh(s)'
    BY <1>1 DEF SameAt, Progress, Fresh
  <1>6. Sound(s) => Sound(s)'
    BY <1>1 DEF SameAt, Sound
  <1>7. Exact(s) => Exact(s)'
    <2>1. KeptOfBase(changes[s])' = KeptOfBase(changes[s])
      BY DEF SameAt, KeptOfBase
    <2>2. \A list : Exactly(s, list)' <=> Exactly(s, list)
      BY <1>1 DEF Exactly, SameAt
    <2>3. QED
      BY <1>1, <2>1, <2>2 DEF SameAt, Grows, Exact
  <1>8. QED
    BY <1>2, <1>3, <1>4, <1>5, <1>6, <1>7 DEF SameAt, Progress

\* A run that dies or gives up leaves files that are torn or as they were.
LEMMA EndedProgress ==
  ASSUME NEW r \in Runs, Progress(r), Grows, pc[r] # "idle", pc'[r] \in {"failed", "crashed"},
         edit'[r] = edit[r], fast'[r] = fast[r], picked'[r] = picked[r], starts'[r] = starts[r],
         misled[r] => misled'[r],
         selected'[r] \in {selected[r], Torn}, merged'[r] \in {merged[r], Torn},
         report'[r] \in {report[r], Torn}
  PROVE  Progress(r)'
  <1>1. Torn.list = EmptyBag /\ ~Valid(Torn) /\ BagToSet(EmptyBag) = {}
    BY Lists
  <1>2. Full(r)' = Full(r) /\ Res(r)' = Res(r) /\ ~Unmerged(r)' /\ ~Reports(r)'
        /\ \A c \in {"try", "apply", "complete"} : ~Doing(r, c)'
    BY DEF Full, Res, Unmerged, Reports, Doing
  <1>3. Picking(r)'
    BY <1>1, <1>2 DEF Progress, Picking, Ended
  <1>4. Found(r)'
    BY <1>2 DEF Found
  <1>5. Early(r)'
    BY <1>1, <1>2 DEF Progress, Early, Grows
  <1>6. Fresh(r)'
    BY <1>2 DEF Progress, Fresh
  <1>7. Sound(r) => Sound(r)'
    BY <1>1, <1>2 DEF Sound
  <1>8. Exact(r)'
    BY <1>2 DEF Exact
  <1>9. QED
    BY <1>3, <1>4, <1>5, <1>6, <1>7, <1>8 DEF Progress

LEMMA ProgressInit == Init => \A r \in Runs : Progress(r)
  <1> SUFFICES ASSUME Init, NEW r \in Runs PROVE Progress(r)
    OBVIOUS
  <1>1. /\ pc[r] = "idle" /\ picked[r] = {} /\ fast[r] = FALSE /\ starts[r] = 0
        /\ selected[r] = Absent /\ merged[r] = Absent /\ report[r] = Absent
    BY DEF Init, Procs
  <1>2. Res(r) = {} /\ ~Unmerged(r) /\ ~Reports(r) /\ ~Valid(Absent)
        /\ \A c \in {"try", "apply", "complete"} : ~Doing(r, c)
    BY <1>1, Lists DEF Res, Results, Unmerged, Reports, Doing
  <1>3. Absent.list = EmptyBag /\ BagToSet(EmptyBag) = {}
    BY Lists
  <1>4. Picking(r) /\ Found(r) /\ Early(r) /\ Fresh(r)
    BY <1>1, <1>2, <1>3 DEF Picking, Found, Early, Fresh, Empty
  <1>5. Sound(r) /\ Exact(r)
    BY <1>1, <1>2, <1>3 DEF Sound, Exact
  <1>6. QED
    BY <1>4, <1>5 DEF Progress

\* getIncrementalPlan and the writing of the index leave the directory alone.
LEMMA IndexProgress ==
  ASSUME IInv, NEW p \in Procs, GetPlan(p) \/ NameDiscovered(p) \/ OpenIndex(p) \/ WriteIndex(p)
  PROVE  \A r \in Runs : Progress(r)'
  <1> SUFFICES ASSUME NEW r \in Runs PROVE Progress(r)'
    OBVIOUS
  <1>0. TypeOK /\ BaseInv /\ Progress(r) /\ r \in Procs
    BY DEF IInv, Procs
  <1>1. /\ UNCHANGED <<base, call, memory, directories, starts>>
        /\ \A q \in Procs \ {p} : pc'[q] = pc[q] /\ based'[q] = based[q]
    BY <1>0, IndexStep
  <1>2. Grows
    BY <1>1, BaseSame
  <1>3. CASE p # r
    <2>1. SameAt(r)
      BY <1>0, <1>1, <1>3 DEF SameAt, memory, directories
    <2>2. QED
      BY <1>0, <1>2, <2>1, SameProgress
  <1>4. CASE p = r
    <2>0. /\ call[r] \in {"try", "apply", "complete"}
          /\ UNCHANGED <<database, baseReport, call, edit, fast, picked, misled, changes, fullHead,
                         selected, merged, report, starts>>
      BY <1>0, <1>1 DEF TypeOK, Calls, base, memory, directories
    <2>1. Full(r)' = Full(r) /\ Res(r)' = Res(r) /\ (Empty(r)' <=> Empty(r))
          /\ KeptOfBase(changes[r])' = KeptOfBase(changes[r])
      BY <2>0 DEF Full, Res, Empty, KeptOfBase
    <2>2. CASE pc'[r] = "failed" /\ pc[r] = "plan"
      BY <1>0, <1>2, <2>0, <2>2, EndedProgress
    <2>3. CASE pc[r] \in {"plan", "name"} /\ pc'[r] \in {call[r], "name"}
      <3>1. /\ \A c \in {"try", "apply", "complete"} : Doing(r, c)' <=> Doing(r, c)
            /\ (Unmerged(r)' <=> Unmerged(r)) /\ ~Reports(r)'
            /\ pc'[r] \notin {"snapshot", "merge", "publish", "open", "write", "done"}
            /\ pc'[r] \notin Ended
        BY <2>0, <2>3 DEF Doing, Unmerged, Reports, Ended
      <3>2. ~fast[r]
        BY <1>0, <2>3 DEF Progress, Picking, Ended
      <3>3. Picking(r)'
        BY <1>0, <2>0, <3>1, <3>2 DEF Progress, Picking
      <3>4. Found(r)' /\ Early(r)'
        BY <1>0, <2>0, <2>1, <3>1 DEF Progress, Found, Early
      <3>5. Fresh(r)'
        BY <1>0, <2>0, <2>1, <2>3, <3>1 DEF Progress, Fresh
      <3>6. (Sound(r) => Sound(r)') /\ (Exact(r) => Exact(r)')
        BY <2>0, <2>1, <3>1 DEF Sound, Exact
      <3>7. QED
        BY <1>0, <2>0, <3>3, <3>4, <3>5, <3>6 DEF Progress
    <2>4. CASE /\ pc[r] \in {"open", "write"} /\ pc'[r] \in {"write", "done"}
               /\ based'[r] = based[r]
      <3>1. /\ \A c \in {"try", "apply", "complete"} : ~Doing(r, c)'
            /\ ~Unmerged(r)' /\ Reports(r)
        BY <2>4 DEF Doing, Unmerged, Reports
      <3>2. Picking(r)'
        BY <1>0, <2>0, <2>4, <3>1 DEF Progress, Picking, Ended
      <3>3. Found(r)' /\ Early(r)'
        BY <1>0, <2>0, <2>1, <2>4, <3>1 DEF Progress, Found, Early
      <3>4. Fresh(r)'
        BY <1>0, <2>0, <2>1, <2>4, <3>1 DEF Progress, Fresh
      <3>5. \A list : Exactly(r, list)' <=> Exactly(r, list)
        BY <2>0, <2>1 DEF Exactly
      <3>6. (Sound(r) => Sound(r)') /\ (Exact(r) => Exact(r)')
        BY <2>0, <2>1, <2>4, <3>1, <3>5 DEF Sound, Exact
      <3>7. QED
        BY <1>0, <2>0, <3>2, <3>3, <3>4, <3>6 DEF Progress
    <2>5. QED
      BY <1>0, <1>4, <2>2, <2>3, <2>4, IndexStep
  <1>5. QED
    BY <1>3, <1>4

-----------------------------------------------------------------------------
(* The steps of a run, in its directory *)

\* What a selection reports is part of what the whole head has.
LEMMA PickedOfHead ==
  ASSUME NEW r \in Runs, Picking(r)
  PROVE  /\ Res(r) \subseteq Full(r) /\ Res(r) = {f \in Full(r) : f.ep \in picked[r]}
         /\ picked[r] = edit[r].eps => Res(r) = Full(r)
         /\ picked[r] = {} => Res(r) = {}
  <1>1. picked[r] \subseteq edit[r].eps
    BY DEF Picking
  <1>2. Results(edit[r], {}) = {}
    BY DEF Results
  <1>3. QED
    BY <1>1, <1>2, ResultsGrow DEF Res, Full, FullResults

\* What is the same at every step of r that is neither its start nor its death.
LEMMA StepsKeep ==
  ASSUME NEW r \in Runs, NEW label, Steps(r, label)
  PROVE  /\ Full(r)' = Full(r) /\ database' = database /\ baseReport' = baseReport /\ Grows
         /\ based'[r] = based[r] /\ starts'[r] = starts[r] /\ edit'[r] = edit[r] /\ pc'[r] = label
         /\ picked'[r] = picked[r] => Res(r)' = Res(r)
  <1>1. UNCHANGED base
    BY DEF Steps, Others
  <1>2. QED
    BY <1>1, BaseSame DEF Steps, base, Full, Res

LEMMA TryProgress ==
  ASSUME IInv, NEW r \in Runs, Try(r)
  PROVE  Progress(r)'
  <1>0. TypeOK /\ Progress(r) /\ based[r] \in BOOLEAN /\ pc[r] = "try"
    BY TryStep DEF IInv, TypeOK, Procs
  <1>1. CASE Steps(r, "failed")
    <2>1. UNCHANGED <<fast, picked, misled, directories>>
      BY <1>0, <1>1, TryStep DEF Steps
    <2>2. QED
      BY <1>0, <1>1, <2>1, StepsKeep, EndedProgress DEF directories
  <1>2. CASE /\ Steps(r, "plan") /\ call'[r] = "apply"
             /\ UNCHANGED <<fast, picked, misled, directories>>
    <2>1. /\ Full(r)' = Full(r) /\ baseReport' = baseReport /\ starts'[r] = starts[r]
          /\ edit'[r] = edit[r] /\ pc'[r] = "plan" /\ Res(r)' = Res(r)
      BY <1>2, StepsKeep
    <2>2. /\ Doing(r, "try") /\ Doing(r, "apply")' /\ ~Unmerged(r)' /\ ~Reports(r)'
          /\ ~Doing(r, "try")' /\ ~Doing(r, "complete")'
      BY <1>0, <1>2, <2>1 DEF Doing, Unmerged, Reports
    <2>3. Picking(r)'
      BY <1>0, <1>2, <2>1, <2>2 DEF Progress, Picking, directories
    <2>4. Found(r)' /\ Early(r)' /\ (Sound(r) => Sound(r)') /\ Exact(r)'
      BY <1>0, <1>2, <2>1, <2>2 DEF Progress, Found, Early, Sound, Exact, directories
    <2>5. Fresh(r)'
      BY <1>0, <1>2, <2>1, <2>2 DEF Progress, Fresh, Empty, directories
    <2>6. QED
      BY <1>0, <1>2, <2>1, <2>3, <2>4, <2>5 DEF Progress
  <1>3. CASE /\ Steps(r, "merge") /\ CanCompleteWithoutHeadAnalysis(PlanNow(r))
             /\ fast'[r] = TRUE /\ WriteOutputs(r, PlanNow(r), FALSE)
             /\ UNCHANGED <<call, picked, snapshot>>
    <2>1. /\ Full(r)' = Full(r) /\ baseReport' = baseReport /\ database' = database
          /\ starts'[r] = starts[r] /\ edit'[r] = edit[r] /\ pc'[r] = "merge" /\ Res(r)' = Res(r)
      BY <1>3, StepsKeep
    <2>2. /\ changes'[r].modified = PlanNow(r).modified /\ changes'[r].deleted = PlanNow(r).deleted
          /\ fullHead'[r] = FALSE /\ report' = report
          /\ misled'[r] = (misled[r] \/ (based[r] /\ database = "empty"))
          /\ selected'[r] \in {selected[r], Reserved} /\ merged'[r] \in {merged[r], Reserved}
      BY <1>0, <1>3, PlansTyped, OutputsWritten
    <2>3. Doing(r, "try") /\ ~Reports(r)' /\ \A c \in {"try", "apply", "complete"} : ~Doing(r, c)'
      BY <1>0, <2>1 DEF Doing, Reports
    <2>4. picked[r] = {} /\ Res(r) = {} /\ Picking(r)
      BY <1>0, <2>3, PickedOfHead DEF Progress, Picking
    <2>5. Reserved.list = EmptyBag /\ ~Valid(Reserved) /\ BagToSet(EmptyBag) = {}
      BY Lists
    <2>6. Picking(r)'
      BY <1>3, <2>1, <2>2, <2>3, <2>4, <2>5 DEF Picking
    <2>7. Found(r)' /\ Early(r)' /\ (Sound(r) => Sound(r)')
      BY <1>0, <2>1, <2>2, <2>4, <2>5 DEF Progress, Found, Early, Sound
    <2>8. Fresh(r)'
      <3>1. starts[r] # 0 /\ (starts[r] = 1 => Empty(r))
        BY <1>0, <2>3, <2>4 DEF Progress, Fresh
      <3>2. Empty(r) => Empty(r)'
        BY <2>2, <2>5 DEF Empty
      <3>3. QED
        BY <2>1, <3>1, <3>2 DEF Fresh
    <2>9. ASSUME Seen(edit[r]), ~misled'[r] PROVE Exact(r)'
      <3>1. database = "whole"
        BY <1>0, <1>3, <2>2, <2>9, PlansKnow DEF TypeOK
      <3>2. KeptOfBase(PlanNow(r)) = Full(r)
        BY <1>0, <1>3, <2>9, <3>1, FastPlanExact DEF PlanNow, Full
      <3>3. KeptOfBase(changes[r])' = KeptOfBase(PlanNow(r))
        BY <2>2 DEF KeptOfBase
      <3>4. QED
        BY <2>1, <2>3, <2>4, <3>1, <3>2, <3>3 DEF Exact
    <2>10. misled[r] => misled'[r]
      BY <1>0, <2>2
    <2>11. QED
      BY <1>0, <2>1, <2>6, <2>7, <2>8, <2>9, <2>10 DEF Progress
  <1>4. QED
    BY <1>0, <1>1, <1>2, <1>3, TryStep

LEMMA ApplyProgress ==
  ASSUME IInv, NEW r \in Runs, Apply(r)
  PROVE  Progress(r)'
  <1>0. TypeOK /\ Progress(r) /\ based[r] \in BOOLEAN /\ pc[r] = "apply"
    BY ApplyStep DEF IInv, TypeOK, Procs
  <1>1. CASE Steps(r, "failed")
    <2>1. UNCHANGED <<fast, picked, misled, directories>>
      BY <1>0, <1>1, ApplyStep DEF Steps
    <2>2. QED
      BY <1>0, <1>1, <2>1, StepsKeep, EndedProgress DEF directories
  <1>2. CASE /\ Steps(r, "analyse")
             /\ picked'[r] = Selected(PlanOfHead(r), edit[r])
             /\ WriteOutputs(r, PlanOfHead(r), FullHead(PlanOfHead(r), edit[r]))
             /\ UNCHANGED <<call, fast, snapshot>>
    <2> DEFINE plan == PlanOfHead(r)
               full == FullHead(PlanOfHead(r), edit[r])
               eps  == Selected(PlanOfHead(r), edit[r])
    <2>1. /\ Full(r)' = Full(r) /\ baseReport' = baseReport /\ database' = database
          /\ starts'[r] = starts[r] /\ edit'[r] = edit[r] /\ pc'[r] = "analyse"
      BY <1>2, StepsKeep
    <2>2. /\ plan.modified \subseteq BaseEps /\ plan.deleted \subseteq BaseEps /\ full \in BOOLEAN
          /\ eps \subseteq edit[r].eps /\ (full => eps = edit[r].eps)
      BY <1>0, PlansTyped
    <2>3. /\ ~full => /\ based[r] /\ database # "absent"
                      /\ plan = CompareHead(Prepare(edit[r], TRUE, database), edit[r])
      BY <1>0, PlansKnow
    <2>4. ~full => eps \cap BaseEps \subseteq plan.modified
      BY <2>3, PlanOfApply
    <2>5. picked'[r] = eps /\ WriteOutputs(r, plan, full)
      BY <1>2
    <2>6. /\ ~full /\ database = "whole" /\ Seen(edit[r]) =>
               KeptOfBase(plan) \cup Results(edit[r], eps) = Full(r)
      BY <2>3, PartialPlanExact DEF Full
    <2> HIDE DEF plan, full, eps
    <2>7. /\ changes'[r].modified = plan.modified /\ changes'[r].deleted = plan.deleted
          /\ fullHead'[r] = full /\ report' = report
          /\ misled'[r] = (misled[r] \/ (based[r] /\ database = "empty"))
          /\ selected'[r] \in {selected[r], Reserved} /\ merged'[r] \in {merged[r], Reserved}
      BY <1>0, <2>2, <2>5, OutputsWritten
    <2>8. /\ Doing(r, "apply") /\ ~Reports(r)'
          /\ \A c \in {"try", "apply", "complete"} : ~Doing(r, c)'
      BY <1>0, <2>1 DEF Doing, Reports
    <2>9. picked[r] = {} /\ Res(r) = {} /\ Picking(r) /\ ~fast[r]
      BY <1>0, <2>8, PickedOfHead DEF Progress, Picking
    <2>10. Reserved.list = EmptyBag /\ ~Valid(Reserved) /\ BagToSet(EmptyBag) = {}
      BY Lists
    <2>11. Picking(r)'
      BY <1>2, <2>1, <2>2, <2>4, <2>5, <2>7, <2>8, <2>9, <2>10 DEF Picking
    <2>12. Found(r)' /\ Early(r)' /\ (Sound(r) => Sound(r)')
      BY <1>0, <2>1, <2>7, <2>8, <2>10 DEF Progress, Found, Early, Sound
    <2>13. Fresh(r)'
      <3>1. starts[r] # 0 /\ (starts[r] = 1 => Empty(r))
        BY <1>0, <2>8, <2>9 DEF Progress, Fresh
      <3>2. Empty(r) => Empty(r)'
        BY <2>7, <2>10 DEF Empty
      <3>3. QED
        BY <2>1, <3>1, <3>2 DEF Fresh
    <2>14. ASSUME Seen(edit[r]), ~misled'[r] PROVE Exact(r)'
      <3>1. ~full => database = "whole"
        BY <1>0, <2>3, <2>7, <2>14 DEF TypeOK
      <3>2. KeptOfBase(changes[r])' = KeptOfBase(plan) /\ Res(r)' = Results(edit[r], eps)
        BY <2>1, <2>5, <2>7 DEF KeptOfBase, Res
      <3>3. QED
        BY <2>1, <2>6, <2>7, <2>8, <2>14, <3>1, <3>2 DEF Exact
    <2>15. misled[r] => misled'[r]
      BY <1>0, <2>7
    <2>16. QED
      BY <1>0, <2>1, <2>11, <2>12, <2>13, <2>14, <2>15 DEF Progress
  <1>3. QED
    BY <1>0, <1>1, <1>2, ApplyStep

LEMMA AnalyseProgress ==
  ASSUME IInv, NEW r \in Runs, Analyse(r)
  PROVE  Progress(r)'
  <1>0. TypeOK /\ Progress(r) /\ Picking(r)
    BY DEF IInv, Progress
  <1>1. /\ Steps(r, "plan") /\ pc[r] = "analyse" /\ call'[r] = "complete"
        /\ report'[r] = (IF Res(r) = {} THEN report[r] ELSE Report(SetToBag(Res(r))))
        /\ UNCHANGED <<memory, changes, fullHead, selected, merged>>
    BY <1>0, AnalyseStep DEF Res
  <1>2. /\ Full(r)' = Full(r) /\ baseReport' = baseReport /\ database' = database
        /\ starts'[r] = starts[r] /\ edit'[r] = edit[r] /\ pc'[r] = "plan" /\ Res(r)' = Res(r)
        /\ UNCHANGED <<fast, picked, misled>>
    BY <1>1, StepsKeep DEF memory
  <1>3. /\ ~fast[r] /\ Unmerged(r) /\ Unmerged(r)' /\ ~Reports(r)' /\ Doing(r, "complete")'
        /\ ~Doing(r, "try")' /\ ~Doing(r, "apply")'
    BY <1>0, <1>1, <1>2 DEF Picking, Unmerged, Reports, Doing, Ended
  <1>4. Res(r) \subseteq Full(r)
    BY <1>0, PickedOfHead
  <1>5. /\ Valid(Report(SetToBag(Res(r)))) /\ Report(SetToBag(Res(r))).list = SetToBag(Res(r))
        /\ BagToSet(SetToBag(Res(r))) = Res(r)
    BY Lists
  <1>6. Picking(r)'
    BY <1>0, <1>1, <1>2, <1>3, <1>5 DEF Picking
  <1>7. Found(r)'
    BY <1>1, <1>2 DEF Found
  <1>8. Early(r)'
    BY <1>0, <1>1, <1>2, <1>4 DEF Progress, Early
  <1>9. Fresh(r)'
    BY <1>0, <1>1, <1>2, <1>3 DEF Progress, Fresh, Empty
  <1>10. Sound(r) => Sound(r)'
    BY <1>1, <1>2, <1>4, <1>5 DEF Sound
  <1>11. Exact(r) => Exact(r)'
    <2>1. KeptOfBase(changes[r])' = KeptOfBase(changes[r])
      BY <1>1 DEF KeptOfBase
    <2>2. QED
      BY <1>1, <1>2, <1>3, <2>1 DEF Exact
  <1>12. QED
    BY <1>0, <1>2, <1>6, <1>7, <1>8, <1>9, <1>10, <1>11 DEF Progress

LEMMA CompleteProgress ==
  ASSUME IInv, NEW r \in Runs, Complete(r)
  PROVE  Progress(r)'
  <1>0. TypeOK /\ Progress(r) /\ Picking(r)
    BY DEF IInv, Progress
  <1>1. /\ Steps(r, "snapshot") /\ pc[r] = "complete"
        /\ selected'[r] = (IF Valid(report[r]) THEN report[r] ELSE selected[r])
        /\ UNCHANGED <<call, memory, changes, fullHead, merged, report>>
    BY <1>0, CompleteStep
  <1>2. /\ Full(r)' = Full(r) /\ baseReport' = baseReport /\ database' = database
        /\ starts'[r] = starts[r] /\ edit'[r] = edit[r] /\ pc'[r] = "snapshot" /\ Res(r)' = Res(r)
        /\ UNCHANGED <<fast, picked, misled>>
    BY <1>1, StepsKeep DEF memory
  <1>3. /\ ~fast[r] /\ Doing(r, "complete") /\ Unmerged(r) /\ Unmerged(r)' /\ ~Reports(r)'
        /\ \A c \in {"try", "apply", "complete"} : ~Doing(r, c)'
    BY <1>0, <1>1, <1>2 DEF Picking, Unmerged, Reports, Doing, Ended
  <1>4. Picking(r)'
    BY <1>0, <1>1, <1>2, <1>3 DEF Picking
  <1>5. Found(r)'
    <2>1. Valid(Report(SetToBag(Res(r))))
      BY Lists
    <2>2. QED
      BY <1>0, <1>1, <1>2, <1>3, <2>1 DEF Progress, Found
  <1>6. Early(r)'
    BY <1>0, <1>1, <1>2 DEF Progress, Early
  <1>7. Fresh(r)'
    BY <1>0, <1>1, <1>2, <1>3 DEF Progress, Fresh, Empty
  <1>8. Sound(r) => Sound(r)'
    BY <1>1, <1>2 DEF Sound
  <1>9. Exact(r) => Exact(r)'
    <2>1. KeptOfBase(changes[r])' = KeptOfBase(changes[r])
      BY <1>1 DEF KeptOfBase
    <2>2. QED
      BY <1>1, <1>2, <1>3, <2>1 DEF Exact
  <1>10. QED
    BY <1>0, <1>2, <1>4, <1>5, <1>6, <1>7, <1>8, <1>9 DEF Progress

LEMMA SnapshotProgress ==
  ASSUME IInv, NEW r \in Runs, Snapshot(r)
  PROVE  Progress(r)'
  <1>0. TypeOK /\ Progress(r) /\ Picking(r)
    BY DEF IInv, Progress
  <1>1. /\ pc[r] = "snapshot"
        /\ UNCHANGED <<call, based, edit, fast, picked, misled, directories, starts>>
        /\ Steps(r, "failed") \/ Steps(r, IF fast[r] THEN "open" ELSE "merge")
    BY <1>0, SnapshotStep
  <1>2. CASE Steps(r, "failed")
    BY <1>0, <1>1, <1>2, StepsKeep, EndedProgress DEF directories
  <1>3. CASE Steps(r, IF fast[r] THEN "open" ELSE "merge")
    <2>1. /\ Full(r)' = Full(r) /\ baseReport' = baseReport /\ database' = database
          /\ starts'[r] = starts[r] /\ edit'[r] = edit[r] /\ Res(r)' = Res(r)
          /\ pc'[r] = IF fast[r] THEN "open" ELSE "merge"
      BY <1>1, <1>3, StepsKeep
    <2>2. /\ (Unmerged(r)' <=> Unmerged(r)) /\ (Reports(r)' <=> Reports(r))
          /\ \A c \in {"try", "apply", "complete"} : ~Doing(r, c)'
      BY <1>1, <2>1 DEF Unmerged, Reports, Doing
    <2>3. Picking(r)'
      BY <1>0, <1>1, <2>1, <2>2 DEF Picking, directories
    <2>4. fast[r] => Res(r) = {}
      BY <1>0, PickedOfHead DEF Picking
    <2>5. Found(r)'
      BY <1>0, <1>1, <2>1, <2>2, <2>4 DEF Progress, Found, directories
    <2>6. Early(r)' /\ Fresh(r)'
      BY <1>0, <1>1, <2>1, <2>2 DEF Progress, Early, Fresh, Empty, directories
    <2>7. Sound(r) => Sound(r)'
      BY <1>1, <2>1 DEF Sound, directories
    <2>8. Exact(r) => Exact(r)'
      <3>1. KeptOfBase(changes[r])' = KeptOfBase(changes[r])
        BY <1>1 DEF KeptOfBase, directories
      <3>2. \A list : Exactly(r, list)' <=> Exactly(r, list)
        BY <1>1, <2>1 DEF Exactly
      <3>3. QED
        BY <1>1, <2>1, <2>2, <3>1, <3>2 DEF Exact, directories
    <2>9. QED
      BY <1>0, <1>1, <2>3, <2>5, <2>6, <2>7, <2>8 DEF Progress
  <1>4. QED
    BY <1>1, <1>2, <1>3

\* What a run has when it merges, if the database sees enough of its edit.
LEMMA BeforeMerge ==
  ASSUME TypeOK, BaseInv, NEW r \in Runs, Progress(r), pc[r] = "merge"
  PROVE  /\ Unmerged(r) /\ Res(r) \subseteq Full(r)
         /\ \A file \in {selected[r], merged[r], report[r]} :
              IsABag(file.list) /\ (Valid(file) \/ file.list = EmptyBag)
         /\ Res(r) # {} =>
              /\ selected[r] = Report(SetToBag(Res(r))) /\ selected[r].list = SetToBag(Res(r))
              /\ report[r] = Report(SetToBag(Res(r))) /\ report[r].list = SetToBag(Res(r))
              /\ Valid(selected[r]) /\ Valid(report[r])
         /\ Res(r) = {} /\ starts[r] = 1 =>
              /\ ~Valid(merged[r]) /\ selected[r].list = EmptyBag /\ report[r].list = EmptyBag
              /\ ~Valid(report[r])
         /\ fullHead[r] => ~fast[r] /\ picked[r] = edit[r].eps /\ Res(r) = Full(r)
         /\ ~fullHead[r] => \A f \in KeptOfBase(changes[r]) : f.ep \notin picked[r]
         /\ \A f \in Res(r) : f.ep \in picked[r]
  <1>1. Unmerged(r) /\ Picking(r) /\ Found(r) /\ Fresh(r)
    BY DEF Unmerged, Progress
  <1>2. /\ Res(r) \subseteq Full(r) /\ (picked[r] = edit[r].eps => Res(r) = Full(r))
        /\ \A f \in Res(r) : f.ep \in picked[r]
    BY <1>1, PickedOfHead
  <1>3. \A file \in {selected[r], merged[r], report[r]} :
          IsABag(file.list) /\ (Valid(file) \/ file.list = EmptyBag)
    BY <1>1 DEF TypeOK, IsReport, Picking
  <1>4. Res(r) # {} =>
          /\ selected[r] = Report(SetToBag(Res(r))) /\ report[r] = Report(SetToBag(Res(r)))
    BY <1>1 DEF Found
  <1>5. /\ Valid(Report(SetToBag(Res(r)))) /\ Report(SetToBag(Res(r))).list = SetToBag(Res(r))
    BY Lists
  <1>6. Res(r) = {} /\ starts[r] = 1 => Empty(r)
    BY <1>1 DEF Fresh
  <1>7. ASSUME ~fullHead[r], NEW f \in KeptOfBase(changes[r]) PROVE f.ep \notin picked[r]
    <2>1. f.ep \in BaseEps /\ f.ep \notin changes[r].modified
      BY DEF KeptOfBase, BaseResults, Results
    <2>2. picked[r] \cap BaseEps \subseteq changes[r].modified
      BY <1>1, <1>7 DEF Picking
    <2>3. QED
      BY <2>1, <2>2
  <1>8. QED
    BY <1>1, <1>2, <1>3, <1>4, <1>5, <1>6, <1>7 DEF Picking, Empty

\* The three kinds of merge: with the base, of a whole head, of nothing.
LEMMA MergeWithBase ==
  ASSUME TypeOK, BaseInv, NEW r \in Runs, Progress(r), pc[r] = "merge", MergesBase(r)
  PROVE  /\ Valid(MergedNow(r))
         /\ Res(r) # {} => About(MergedNow(r).list, picked[r]) = SetToBag(Res(r))
         /\ Sound(r) /\ Exact(r) => Exactly(r, MergedNow(r).list)
  <1> DEFINE kept == KeptOfBase(changes[r])
             rest == selected[r].list
             sum  == SetToBag(kept) (+) rest
  <1>1. MergedNow(r) = Report(sum)
    BY DEF MergedNow, MergeFindings, KeptOfBase
  <1>2. Valid(MergedNow(r)) /\ MergedNow(r).list = sum
    BY <1>1, Lists
  <1>3. /\ ~fullHead[r] /\ IsABag(rest) /\ Unmerged(r) /\ Res(r) \subseteq Full(r)
        /\ \A f \in kept : f.ep \notin picked[r]
        /\ \A f \in Res(r) : f.ep \in picked[r]
        /\ Res(r) # {} => rest = SetToBag(Res(r))
        /\ Res(r) = {} /\ starts[r] = 1 => rest = EmptyBag
    BY BeforeMerge DEF MergesBase
  <1> HIDE DEF kept, rest
  <1>4. Res(r) # {} => About(sum, picked[r]) = SetToBag(Res(r))
    BY <1>3, AboutSums
  <1>5. ASSUME Sound(r), Exact(r) PROVE Exactly(r, sum)
    <2>1. kept \cup Res(r) = Full(r) /\ BagToSet(rest) \subseteq Full(r)
      BY <1>3, <1>5 DEF Exact, Sound, kept, rest
    <2>2. BagToSet(sum) = kept \cup BagToSet(rest)
      BY <1>3, BagSums
    <2>3. CASE Res(r) # {}
      <3>1. BagToSet(rest) = Res(r)
        BY <1>3, <2>3, SetBags
      <3>2. kept \cap Res(r) = {}
        BY <1>3
      <3>3. sum = SetToBag(Full(r))
        BY <1>3, <2>1, <2>3, <3>2, DisjointSums
      <3>4. QED
        BY <2>1, <2>2, <3>1, <3>3 DEF Exactly
    <2>4. CASE Res(r) = {}
      <3>1. BagToSet(sum) = Full(r)
        BY <2>1, <2>2, <2>4
      <3>2. starts[r] = 1 => sum = SetToBag(Full(r))
        BY <1>3, <2>1, <2>4, EmptyBags
      <3>3. QED
        BY <2>4, <3>1, <3>2 DEF Exactly
    <2>5. QED
      BY <2>3, <2>4
  <1>6. QED
    BY <1>2, <1>4, <1>5

LEMMA MergeOfHead ==
  ASSUME TypeOK, BaseInv, NEW r \in Runs, Progress(r), pc[r] = "merge",
         ~MergesBase(r), fullHead[r], Valid(report[r])
  PROVE  /\ MergedNow(r) = report[r] /\ Res(r) = Full(r)
         /\ Res(r) # {} =>
              /\ About(MergedNow(r).list, picked[r]) = SetToBag(Res(r))
              /\ MergedNow(r).list = SetToBag(Full(r))
         /\ Sound(r) => Exactly(r, MergedNow(r).list)
  <1>1. MergedNow(r) = report[r]
    BY DEF MergedNow
  <1>2. /\ Res(r) = Full(r) /\ \A f \in Res(r) : f.ep \in picked[r]
        /\ Res(r) # {} => report[r].list = SetToBag(Res(r))
        /\ Res(r) = {} => starts[r] # 1
    BY BeforeMerge
  <1>3. Res(r) # {} => About(report[r].list, picked[r]) = SetToBag(Res(r))
    <2>1. {f \in Res(r) : f.ep \in picked[r]} = Res(r)
      BY <1>2
    <2>2. QED
      BY <1>2, <2>1, AboutSets
  <1>4. ASSUME Sound(r) PROVE Exactly(r, report[r].list)
    <2>1. BagToSet(SetToBag(Res(r))) = Res(r)
      BY SetBags
    <2>2. BagToSet(report[r].list) \subseteq Full(r)
      BY <1>4 DEF Sound
    <2>3. QED
      BY <1>2, <2>1, <2>2 DEF Exactly
  <1>5. QED
    BY <1>1, <1>2, <1>3, <1>4

LEMMA MergeOfNothing ==
  ASSUME TypeOK, BaseInv, NEW r \in Runs, Progress(r), pc[r] = "merge",
         ~MergesBase(r), ~(fullHead[r] /\ Valid(report[r]))
  PROVE  /\ MergedNow(r) = merged[r]
         /\ Res(r) # {} /\ (fullHead[r] \/ based[r]) /\ Valid(merged[r]) =>
              About(merged[r].list, picked[r]) = SetToBag(Res(r))
         /\ Sound(r) /\ Exact(r) /\ (fullHead[r] \/ based[r]) =>
              Exactly(r, IF Valid(merged[r]) THEN merged[r].list ELSE report[r].list)
  <1>1. MergedNow(r) = merged[r]
    BY DEF MergedNow
  <1>2. /\ Unmerged(r) /\ Early(r) /\ Picking(r)
        /\ fullHead[r] => Res(r) = Full(r)
        /\ Res(r) # {} => Valid(report[r]) /\ report[r].list = SetToBag(Res(r))
        /\ Res(r) = {} /\ starts[r] = 1 => ~Valid(merged[r]) /\ report[r].list = EmptyBag
        /\ ~Valid(report[r]) => report[r].list = EmptyBag
    BY BeforeMerge DEF Progress
  <1>3. based[r] \in BOOLEAN /\ fullHead[r] \in BOOLEAN
    BY DEF TypeOK, Procs
  <1>4. CASE fullHead[r]
    <2>1. Res(r) = {} /\ Full(r) = {}
      BY <1>2, <1>4
    <2>2. ASSUME Sound(r)
          PROVE  Exactly(r, IF Valid(merged[r]) THEN merged[r].list ELSE report[r].list)
      <3>1. BagToSet(IF Valid(merged[r]) THEN merged[r].list ELSE report[r].list) = Full(r)
        BY <2>1, <2>2 DEF Sound
      <3>2. starts[r] = 1 =>
              (IF Valid(merged[r]) THEN merged[r].list ELSE report[r].list) = SetToBag(Full(r))
        BY <1>2, <2>1, Lists
      <3>3. QED
        BY <2>1, <3>1, <3>2 DEF Exactly
    <2>3. QED
      BY <1>1, <2>1, <2>2
  <1>5. CASE ~fullHead[r] /\ based[r]
    <2>1. baseReport = "absent"
      BY <1>5 DEF MergesBase
    <2>2. Valid(merged[r]) => merged[r].list = SetToBag(Full(r))
      BY <1>2, <2>1 DEF Early
    <2>3. Valid(merged[r]) => About(merged[r].list, picked[r]) = SetToBag(Res(r))
      <3>1. Res(r) = {f \in Full(r) : f.ep \in picked[r]}
        BY <1>2, PickedOfHead
      <3>2. About(SetToBag(Full(r)), picked[r]) = SetToBag({f \in Full(r) : f.ep \in picked[r]})
        BY AboutSets
      <3>3. QED
        BY <2>2, <3>1, <3>2
    <2>4. ASSUME Sound(r), Exact(r)
          PROVE  Exactly(r, IF Valid(merged[r]) THEN merged[r].list ELSE report[r].list)
      <3>1. database = "whole" /\ KeptOfBase(changes[r]) \cup Res(r) = Full(r)
        BY <1>2, <1>5, <2>4 DEF Exact
      <3>2. BaseResults = {}
        BY <2>1, <3>1 DEF BaseInv, BaseFiles
      <3>3. Res(r) = Full(r)
        BY <3>1, <3>2 DEF KeptOfBase
      <3>4. BagToSet(SetToBag(Full(r))) = Full(r) /\ SetToBag({}) = EmptyBag
        BY Lists
      <3>5. CASE Valid(merged[r])
        BY <2>2, <3>4, <3>5 DEF Exactly
      <3>6. CASE ~Valid(merged[r]) /\ Res(r) # {}
        BY <1>2, <3>3, <3>4, <3>6 DEF Exactly
      <3>7. CASE ~Valid(merged[r]) /\ Res(r) = {}
        <4>1. BagToSet(report[r].list) = Full(r)
          BY <2>4, <3>3, <3>7 DEF Sound
        <4>2. starts[r] = 1 => report[r].list = SetToBag(Full(r))
          BY <1>2, <3>3, <3>4, <3>7
        <4>3. QED
          BY <3>7, <4>1, <4>2 DEF Exactly
      <3>8. QED
        BY <3>5, <3>6, <3>7
    <2>5. QED
      BY <1>1, <2>3, <2>4
  <1>6. QED
    BY <1>1, <1>3, <1>4, <1>5

LEMMA MergeProgress ==
  ASSUME IInv, NEW r \in Runs, Merge(r)
  PROVE  Progress(r)'
  <1>0. TypeOK /\ BaseInv /\ Progress(r) /\ Picking(r) /\ Found(r) /\ Early(r)
    BY DEF IInv, Progress
  <1>1. /\ pc[r] = "merge" /\ misled'[r] = (misled[r] \/ (~fullHead[r] /\ ~based[r]))
        /\ UNCHANGED <<call, fast, picked, snapshot, changes, fullHead, selected, report>>
    BY <1>0, MergeStep
  <1>2. CASE Steps(r, "failed") /\ merged' = merged
    BY <1>0, <1>1, <1>2, StepsKeep, EndedProgress
  <1>3. CASE /\ Steps(r, "publish") /\ merged'[r] = MergedNow(r)
             /\ MergesBase(r) => baseReport = "whole"
    <2>1. /\ Full(r)' = Full(r) /\ baseReport' = baseReport /\ database' = database
          /\ starts'[r] = starts[r] /\ edit'[r] = edit[r] /\ Res(r)' = Res(r)
          /\ pc'[r] = "publish" /\ based'[r] = based[r]
      BY <1>1, <1>3, StepsKeep
    <2>2. /\ ~Unmerged(r)' /\ ~Reports(r)' /\ \A c \in {"try", "apply", "complete"} : ~Doing(r, c)'
      BY <2>1 DEF Unmerged, Reports, Doing
    <2>3. /\ Unmerged(r) /\ Res(r) \subseteq Full(r)
          /\ Res(r) # {} => Valid(report[r]) /\ report[r] = Report(SetToBag(Res(r)))
      BY <1>0, <1>1, BeforeMerge
    <2>4. CASE MergesBase(r)
      <3>1. /\ Valid(merged[r])' /\ baseReport # "absent"
            /\ Res(r) # {} => About(merged'[r].list, picked[r]) = SetToBag(Res(r))
            /\ Sound(r) /\ Exact(r) => Exactly(r, merged'[r].list)
        BY <1>0, <1>1, <1>3, <2>4, MergeWithBase
      <3>2. Picking(r)'
        BY <1>0, <1>1, <2>1, <2>2, <3>1 DEF Picking
      <3>3. Found(r)'
        BY <1>1, <2>1, <2>2, <2>3, <3>1 DEF Found
      <3>4. Early(r)' /\ Fresh(r)'
        BY <1>0, <1>1, <2>1, <2>2, <3>1 DEF Progress, Early, Fresh
      <3>5. ASSUME Sound(r), Exact(r) PROVE Sound(r)' /\ Exact(r)'
        <4>1. Exactly(r, merged[r].list)'
          BY <2>1, <3>1, <3>5 DEF Exactly
        <4>2. Sound(r)'
          BY <1>1, <2>1, <3>5, <4>1 DEF Sound, Exactly
        <4>3. QED
          BY <2>2, <3>1, <4>1, <4>2 DEF Exact
      <3>6. QED
        BY <1>0, <1>1, <2>1, <3>2, <3>3, <3>4, <3>5 DEF Progress
    <2>5. CASE ~MergesBase(r) /\ fullHead[r] /\ Valid(report[r])
      <3>1. /\ merged'[r] = report[r] /\ Res(r) = Full(r)
            /\ Res(r) # {} =>
                 /\ About(merged'[r].list, picked[r]) = SetToBag(Res(r))
                 /\ merged'[r].list = SetToBag(Full(r))
            /\ Sound(r) => Exactly(r, merged'[r].list)
        BY <1>0, <1>1, <1>3, <2>5, MergeOfHead
      <3>2. Picking(r)'
        BY <1>0, <1>1, <2>1, <2>2, <3>1 DEF Picking
      <3>3. Found(r)'
        BY <1>1, <2>1, <2>2, <2>3, <3>1 DEF Found
      <3>4. Early(r)' /\ Fresh(r)'
        BY <1>0, <1>1, <2>1, <2>2, <2>5, <3>1 DEF Progress, Early, Fresh
      <3>5. ASSUME Sound(r) PROVE Sound(r)' /\ Exact(r)'
        <4>1. Exactly(r, merged[r].list)'
          BY <2>1, <3>1, <3>5 DEF Exactly
        <4>2. Sound(r)'
          BY <1>1, <2>1, <3>5, <4>1 DEF Sound, Exactly
        <4>3. QED
          BY <2>2, <2>5, <3>1, <4>1, <4>2 DEF Exact
      <3>6. QED
        BY <1>0, <1>1, <2>1, <3>2, <3>3, <3>4, <3>5 DEF Progress
    <2>6. CASE ~MergesBase(r) /\ ~(fullHead[r] /\ Valid(report[r]))
      <3>1. /\ merged'[r] = merged[r]
            /\ Res(r) # {} /\ (fullHead[r] \/ based[r]) /\ Valid(merged[r]) =>
                 About(merged[r].list, picked[r]) = SetToBag(Res(r))
            /\ Sound(r) /\ Exact(r) /\ (fullHead[r] \/ based[r]) =>
                 Exactly(r, IF Valid(merged[r]) THEN merged[r].list ELSE report[r].list)
        BY <1>0, <1>1, <1>3, <2>6, MergeOfNothing
      <3>2. Picking(r)'
        BY <1>0, <1>1, <2>1, <2>2, <3>1 DEF Picking
      <3>3. Found(r)'
        BY <1>1, <2>1, <2>2, <2>3, <3>1 DEF Found
      <3>4. Early(r)' /\ Fresh(r)'
        BY <1>0, <1>1, <2>1, <2>2, <3>1 DEF Progress, Early, Fresh
      <3>5. ASSUME Sound(r), Exact(r), fullHead[r] \/ based[r] PROVE Sound(r)' /\ Exact(r)'
        <4>1. Exactly(r, IF Valid(merged[r]) THEN merged[r].list ELSE report[r].list)'
          BY <1>1, <2>1, <3>1, <3>5 DEF Exactly
        <4>2. Sound(r)'
          BY <1>1, <2>1, <3>1, <3>5 DEF Sound
        <4>3. QED
          BY <2>1, <2>2, <4>1, <4>2 DEF Exact
      <3>6. QED
        BY <1>0, <1>1, <2>1, <3>2, <3>3, <3>4, <3>5 DEF Progress
    <2>7. QED
      BY <2>4, <2>5, <2>6
  <1>4. QED
    BY <1>0, <1>2, <1>3, MergeStep

LEMMA PublishProgress ==
  ASSUME IInv, NEW r \in Runs, Publish(r)
  PROVE  Progress(r)'
  <1>0. TypeOK /\ Progress(r) /\ Picking(r) /\ Found(r)
    BY DEF IInv, Progress
  <1>1. /\ Steps(r, IF fast[r] THEN "snapshot" ELSE "open") /\ pc[r] = "publish"
        /\ report'[r] = (IF Valid(merged[r]) THEN merged[r] ELSE report[r])
        /\ UNCHANGED <<call, memory, changes, fullHead, selected, merged>>
    BY <1>0, PublishStep
  <1>2. /\ Full(r)' = Full(r) /\ baseReport' = baseReport /\ database' = database
        /\ starts'[r] = starts[r] /\ edit'[r] = edit[r] /\ Res(r)' = Res(r)
        /\ pc'[r] = (IF fast[r] THEN "snapshot" ELSE "open") /\ based'[r] = based[r]
        /\ UNCHANGED <<fast, picked, misled>>
    BY <1>1, StepsKeep DEF memory
  <1>3. /\ ~Unmerged(r)' /\ Reports(r)' /\ \A c \in {"try", "apply", "complete"} : ~Doing(r, c)'
    BY <1>1, <1>2 DEF Unmerged, Reports, Doing
  <1>4. Picking(r)'
    BY <1>0, <1>1, <1>2, <1>3 DEF Picking
  <1>5. Found(r)'
    <2>1. fast[r] => Res(r) = {}
      BY <1>0, PickedOfHead DEF Picking
    <2>2. Res(r) # {} => report[r] = Report(SetToBag(Res(r)))
      BY <1>0, <1>1 DEF Found
    <2>3. About(SetToBag(Res(r)), picked[r]) = SetToBag(Res(r))
      <3>1. {f \in Res(r) : f.ep \in picked[r]} = Res(r)
        BY <1>0, PickedOfHead
      <3>2. QED
        BY <3>1, AboutSets
    <2>4. Report(SetToBag(Res(r))).list = SetToBag(Res(r))
      BY Lists
    <2>5. ASSUME Res(r) # {}, fullHead[r] \/ based[r]
          PROVE  About(report'[r].list, picked[r]) = SetToBag(Res(r))
      <3>1. CASE Valid(merged[r])
        BY <1>0, <1>1, <2>5, <3>1 DEF Found
      <3>2. CASE ~Valid(merged[r])
        BY <1>1, <2>2, <2>3, <2>4, <2>5, <3>2
      <3>3. QED
        BY <3>1, <3>2
    <2>6. QED
      BY <1>1, <1>2, <1>3, <2>1, <2>5 DEF Found
  <1>6. Early(r)' /\ Fresh(r)'
    BY <1>0, <1>1, <1>2, <1>3 DEF Progress, Early, Fresh
  <1>7. Sound(r) => Sound(r)'
    BY <1>1, <1>2 DEF Sound
  <1>8. Exact(r) => Exact(r)'
    <2>1. \A list : Exactly(r, list)' <=> Exactly(r, list)
      BY <1>2 DEF Exactly
    <2>2. Exact(r) => Exactly(r, report'[r].list)
      BY <1>1 DEF Exact
    <2>3. QED
      BY <1>2, <1>3, <2>1, <2>2 DEF Exact
  <1>9. QED
    BY <1>0, <1>2, <1>4, <1>5, <1>6, <1>7, <1>8 DEF Progress

LEMMA StartProgress ==
  ASSUME IInv, NEW r \in Runs, Start(r)
  PROVE  Progress(r)'
  <1>0. TypeOK /\ Progress(r)
    BY DEF IInv
  <1>1. /\ UNCHANGED base /\ UNCHANGED <<based, edit, snapshot, misled, directories>>
        /\ pc'[r] = "plan" /\ call'[r] = "try" /\ starts'[r] = starts[r] + 1
        /\ fast'[r] = FALSE /\ picked'[r] = {} /\ starts[r] \in Nat
    BY <1>0, StartStep DEF Others, TypeOK, Procs
  <1>2. Full(r)' = Full(r) /\ Res(r)' = {} /\ baseReport' = baseReport
    BY <1>1 DEF Full, Res, Results, base
  <1>3. /\ ~Unmerged(r)' /\ ~Reports(r)' /\ Doing(r, "try")' /\ ~Doing(r, "apply")'
    BY <1>1 DEF Unmerged, Reports, Doing
  <1>4. Picking(r)' /\ Found(r)' /\ Early(r)'
    BY <1>0, <1>1, <1>2, <1>3 DEF Progress, Picking, Found, Early, directories
  <1>5. Fresh(r)'
    BY <1>0, <1>1, <1>2, <1>3 DEF Progress, Fresh, Empty, directories
  <1>6. (Sound(r) => Sound(r)') /\ Exact(r)'
    BY <1>1, <1>2, <1>3 DEF Sound, Exact, directories
  <1>7. QED
    BY <1>0, <1>1, <1>4, <1>5, <1>6 DEF Progress

LEMMA CrashProgress ==
  ASSUME IInv, NEW r \in Runs, Crash(r)
  PROVE  Progress(r)'
  <1>1. /\ TypeOK /\ Progress(r) /\ Steps(r, "crashed") /\ pc[r] # "idle"
        /\ UNCHANGED <<fast, picked, misled>>
        /\ selected'[r] \in {selected[r], Torn} /\ merged'[r] \in {merged[r], Torn}
        /\ report'[r] \in {report[r], Torn}
    BY CrashStep DEF IInv, memory, Running, Calls
  <1>2. QED
    BY <1>1, StepsKeep, EndedProgress

-----------------------------------------------------------------------------
(* The invariant *)

LEMMA HeadProgress ==
  ASSUME IInv, NEW r \in Runs, HeadNext(r)
  PROVE  \A s \in Runs : Progress(s)'
  <1>1. TypeOK /\ Others(r) /\ \A s \in Runs : Progress(s)
    BY HeadTyped DEF IInv
  <1>2. Grows
    BY <1>1, BaseSame DEF Others
  <1>3. Progress(r)'
    BY TryProgress, ApplyProgress, AnalyseProgress, CompleteProgress, SnapshotProgress,
       MergeProgress, PublishProgress, StartProgress, CrashProgress DEF HeadNext
  <1>4. \A s \in Runs \ {r} : Progress(s)'
    BY <1>1, <1>2, SameProgress DEF Others
  <1>5. QED
    BY <1>3, <1>4

LEMMA BaselineProgress ==
  ASSUME IInv, BaselineNext
  PROVE  \A s \in Runs : Progress(s)'
  <1> SUFFICES ASSUME NEW s \in Runs PROVE Progress(s)'
    OBVIOUS
  <1>1. s \in Procs \ {Baseline} /\ TypeOK /\ BaseFiles /\ Progress(s)
    BY RunsAssumption DEF Procs, IInv, BaseInv
  <1>2. /\ Grows /\ based' = based /\ UNCHANGED <<memory, directories>>
        /\ pc'[s] = pc[s] /\ call'[s] = call[s] /\ starts'[s] = starts[s]
    BY <1>1, BaselineStep
  <1>3. SameAt(s)
    BY <1>2 DEF SameAt, memory, directories
  <1>4. QED
    BY <1>1, <1>2, <1>3, SameProgress

LEMMA InvInit == Init => IInv
  BY TypeInit, BaseInvInit, ProgressInit DEF IInv

LEMMA InvKept == IInv /\ [Next]_vars => IInv'
  <1> SUFFICES ASSUME IInv, [Next]_vars PROVE IInv'
    OBVIOUS
  <1>1. TypeOK' /\ BaseInv'
    BY TypeKept, BaseInvKept DEF IInv
  <1>2. CASE RemoveIndex \/ UNCHANGED vars
    <2>1. UNCHANGED <<base, control, memory, directories, starts>>
      BY <1>2 DEF RemoveIndex, vars
    <2>2. Grows /\ \A s \in Runs : SameAt(s)
      BY <2>1, BaseSame DEF SameAt, control, memory, directories
    <2>3. \A s \in Runs : Progress(s)'
      BY <2>2, SameProgress DEF IInv
    <2>4. QED
      BY <1>1, <2>3 DEF IInv
  <1>3. \A s \in Runs : Progress(s)'
    BY <1>2, IndexProgress, BaselineProgress, HeadProgress DEF Next, IInv
  <1>4. QED
    BY <1>1, <1>3 DEF IInv

LEMMA Invariant == Spec => []IInv
  BY InvInit, InvKept, PTL DEF Spec

-----------------------------------------------------------------------------
(* What holds of every run *)

\* The variables keep their types; in particular no run ever holds a torn index
\* to write back (incremental-manager.ts:1210-1214 throws instead).
THEOREM TypeCorrect == Spec => []TypeOK
  <1>1. IInv => TypeOK
    BY DEF IInv
  <1>2. QED
    BY <1>1, Invariant, PTL

\* Outside artifacts/<project>, a base whose analysis has never come to its end
\* is in no index that can be read and in no plan, whatever the baseline and the
\* head runs do beside each other and whichever dies: completeIncrementalPlan
\* (incremental-manager.ts:337-370) is the only one to name it, and it comes last.
THEOREM UnfinishedStaysUnknown == Spec => []UnfinishedBaseIsUnknown
  <1>1. IInv => UnfinishedBaseIsUnknown
    BY DEF IInv, BaseInv, UnfinishedBaseIsUnknown, Known, Usable, Procs
  <1>2. QED
    BY <1>1, Invariant, PTL

\* In artifacts/<project>, a run that has planned with a base completes with it,
\* although other runs may have written an index without it in between: it is
\* discovered again (incremental-manager.ts:208-215 and 1216-1236).
THEOREM DiscoveryRestoresTheBase == Spec => []PartialRunsKnowTheBase
  <1>1. IInv => PartialRunsKnowTheBase
    BY DEF IInv, BaseInv, Counts, Partial, PartialRunsKnowTheBase
  <1>2. QED
    BY <1>1, Invariant, PTL

\* What a run reports in the end is what an analysis of the whole head finds,
\* for every base text, every edit that the database can see and every history
\* of the directory, if the run was not misled (incremental-manager.ts:1103-1158,
\* incremental-findings.ts:248-291).
THEOREM MergeIsExact == Spec => []SuccessIsExact
  <1>1. IInv => SuccessIsExact
    <2>1. ASSUME IInv, NEW r \in Runs, pc[r] = "done", Seen(edit[r]), ~misled[r]
          PROVE  Exactly(r, report[r].list)
      BY <2>1 DEF IInv, Progress, Exact, Reports
    <2>2. QED
      BY <2>1 DEF SuccessIsExact, Exactly, Res, Full
  <1>2. QED
    BY <1>1, Invariant, PTL

\* The findings of an entry point that was analysed again take the place of the
\* base's, none twice and none left over (incremental-findings.ts:248-291), for
\* every edit and every history of the directory.
THEOREM RerunReplaces == Spec => []RerunIsFresh
  <1>1. IInv => RerunIsFresh
    BY DEF IInv, Progress, Found, Res, RerunIsFresh
  <1>2. QED
    BY <1>1, Invariant, PTL

-----------------------------------------------------------------------------
(* The plan, apart from any run *)

\* What a partial plan lets a run report, the base's findings that it keeps and
\* those of the entry points it selects, is what an analysis of the whole head
\* finds, each finding once: for every base text and every edit that the
\* database can see (incremental-manager.ts:248-282 and 462-527,
\* incremental-findings.ts:248-291).
THEOREM PlanIsExact ==
  ASSUME NEW e, Seen(e), ~FullHead(CompareHead(Prepare(e, TRUE, "whole"), e), e)
  PROVE  LET q == CompareHead(Prepare(e, TRUE, "whole"), e)
         IN  MergeFindings(BaseResults, SetToBag(Results(e, Selected(q, e))), q)
               = SetToBag(FullResults(e))
  <1> DEFINE q == CompareHead(Prepare(e, TRUE, "whole"), e)
             new == Results(e, Selected(q, e))
  <1>1. KeptOfBase(q) \cup new = FullResults(e)
    BY PartialPlanExact
  <1>2. Selected(q, e) \cap BaseEps \subseteq q.modified
    BY PlanOfApply
  <1>3. \A N : \A f \in Results(e, N) : f.ep \in N
    BY ResultsGrow
  <1>4. \A f \in new : f.ep \in Selected(q, e)
    BY <1>3
  <1> HIDE DEF q, new
  <1>5. \A f \in KeptOfBase(q) : f.ep \in BaseEps /\ f.ep \notin q.modified
    BY DEF KeptOfBase, BaseResults, Results
  <1>6. KeptOfBase(q) \cap new = {}
    BY <1>2, <1>4, <1>5
  <1>7. SetToBag(KeptOfBase(q)) (+) SetToBag(new) = SetToBag(FullResults(e))
    BY <1>1, <1>6, DisjointSums
  <1>8. MergeFindings(BaseResults, SetToBag(new), q) = SetToBag(FullResults(e))
    BY <1>7 DEF MergeFindings, KeptOfBase
  <1>9. QED
    BY <1>8 DEF q, new

\* A plan that selects nothing is completed before the source is parsed
\* (canCompleteWithoutHeadAnalysis), and merges whatever report of a selection
\* an earlier attempt has left (incremental-manager.ts:1129-1148).  If that one
\* is of the same head, what is reported is still what the whole head has; in a
\* directory without leftovers each finding is listed once.
THEOREM ShortPlanIsExact ==
  ASSUME NEW e, Seen(e), NEW b \in BOOLEAN,
         CanCompleteWithoutHeadAnalysis(Prepare(e, b, "whole")),
         NEW left, IsABag(left), BagToSet(left) \subseteq FullResults(e)
  PROVE  LET p == Prepare(e, b, "whole")
         IN  /\ BagToSet(MergeFindings(BaseResults, left, p)) = FullResults(e)
             /\ MergeFindings(BaseResults, EmptyBag, p) = SetToBag(FullResults(e))
  <1> DEFINE p == Prepare(e, b, "whole")
  <1>1. KeptOfBase(p) = FullResults(e)
    BY FastPlanExact
  <1> HIDE DEF p
  <1>2. \A list : MergeFindings(BaseResults, list, p) = SetToBag(KeptOfBase(p)) (+) list
    BY DEF MergeFindings, KeptOfBase
  <1>3. BagToSet(SetToBag(KeptOfBase(p)) (+) left) = KeptOfBase(p) \cup BagToSet(left)
    BY BagSums
  <1>4. SetToBag(KeptOfBase(p)) (+) EmptyBag = SetToBag(KeptOfBase(p))
    BY EmptyBags
  <1>5. /\ BagToSet(MergeFindings(BaseResults, left, p)) = FullResults(e)
        /\ MergeFindings(BaseResults, EmptyBag, p) = SetToBag(FullResults(e))
    BY <1>1, <1>2, <1>3, <1>4
  <1>6. QED
    BY <1>5 DEF p

-----------------------------------------------------------------------------
(* What is given up *)

\* The entry points of the head that a plan gives up are touched by a deletion.
LEMMA PlanGivesUp ==
  ASSUME NEW r \in Runs, based[r] \in BOOLEAN
  PROVE  /\ PlanNow(r).deleted \subseteq TouchedByDeletion(edit[r])
         /\ PlanOfHead(r).deleted \cap edit[r].eps \subseteq TouchedByDeletion(edit[r])
  <1>1. PlanNow(r).deleted \subseteq TouchedByDeletion(edit[r])
    BY Prepared DEF PlanNow
  <1>2. CompareHead(PlanNow(r), edit[r]).deleted = PlanNow(r).deleted \cup (BaseEps \ edit[r].eps)
    BY DEF CompareHead, PlanNow, Prepare
  <1>3. QED
    BY <1>1, <1>2 DEF PlanOfHead

LEMMA GivenUpKept ==
  TypeOK /\ BaseInv /\ GivenUpAreTouched /\ [Next]_vars => GivenUpAreTouched'
  <1> SUFFICES ASSUME TypeOK, BaseInv, GivenUpAreTouched, [Next]_vars
               PROVE  GivenUpAreTouched'
    OBVIOUS
  <1>1. CASE UNCHANGED <<edit, changes>>
    BY <1>1 DEF GivenUpAreTouched
  <1>2. ASSUME NEW r \in Runs, HeadNext(r) PROVE GivenUpAreTouched'
    <2>1. Others(r) /\ based[r] \in BOOLEAN
      BY <1>2, HeadTyped DEF TypeOK, Procs
    <2>2. edit'[r] = edit[r]
      BY <1>2, TryStep, ApplyStep, AnalyseStep, CompleteStep, SnapshotStep, MergeStep,
         PublishStep, StartStep, CrashStep DEF HeadNext, Steps
    <2>3. \/ changes'[r] = changes[r]
          \/ changes'[r].deleted \in {PlanNow(r).deleted, PlanOfHead(r).deleted}
      <3>1. CASE Try(r)
        <4>1. CASE WriteOutputs(r, PlanNow(r), FALSE)
          BY <2>1, <4>1, PlansTyped, OutputsWritten
        <4>2. QED
          BY <3>1, <4>1, TryStep DEF directories
      <3>2. CASE Apply(r)
        <4>1. CASE WriteOutputs(r, PlanOfHead(r), FullHead(PlanOfHead(r), edit[r]))
          <5> DEFINE plan == PlanOfHead(r)
                     full == FullHead(PlanOfHead(r), edit[r])
          <5>1. /\ plan.modified \subseteq BaseEps /\ plan.deleted \subseteq BaseEps
                /\ full \in BOOLEAN /\ WriteOutputs(r, plan, full)
            BY <2>1, <4>1, PlansTyped
          <5> HIDE DEF plan, full
          <5>2. changes'[r].deleted = plan.deleted
            BY <5>1, OutputsWritten
          <5>3. QED
            BY <5>2 DEF plan
        <4>2. QED
          BY <3>2, <4>1, ApplyStep DEF directories
      <3>3. CASE Analyse(r) \/ Complete(r) \/ Snapshot(r) \/ Merge(r) \/ Publish(r) \/ Start(r)
                 \/ Crash(r)
        BY <3>3, AnalyseStep, CompleteStep, SnapshotStep, MergeStep, PublishStep, StartStep,
           CrashStep DEF directories
      <3>4. QED
        BY <1>2, <3>1, <3>2, <3>3 DEF HeadNext
    <2>4. changes'[r].deleted \cap edit'[r].eps \subseteq TouchedByDeletion(edit'[r])
      BY <2>1, <2>2, <2>3, PlanGivesUp DEF GivenUpAreTouched
    <2>5. \A s \in Runs \ {r} : changes'[s] = changes[s] /\ edit'[s] = edit[s]
      BY <2>1 DEF Others, SameAt
    <2>6. QED
      BY <2>4, <2>5 DEF GivenUpAreTouched
  <1>3. CASE BaselineNext
    BY <1>1, <1>3, BaselineStep DEF BaseInv, memory, directories
  <1>4. CASE RemoveIndex \/ UNCHANGED vars
    BY <1>1, <1>4 DEF RemoveIndex, vars, memory, directories
  <1>5. ASSUME NEW p \in Procs, GetPlan(p) \/ NameDiscovered(p) \/ OpenIndex(p) \/ WriteIndex(p)
        PROVE  GivenUpAreTouched'
    BY <1>1, <1>5, IndexStep DEF memory, directories
  <1>6. QED
    BY <1>2, <1>3, <1>4, <1>5 DEF Next

\* An entry point that the head has is resolved as deleted, and not analysed
\* again, only where a range of the diff that adds nothing meets its lines
\* (addDeletedChanges, incremental-manager.ts:655-660): the loss that
\* ResolvedAreGone shows has no other cause, whatever went before in the
\* directory and however empty the database of the base is.
THEOREM GivenUpOnlyWhereTouched == Spec => []GivenUpAreTouched
  <1>1. Init => GivenUpAreTouched
    BY DEF Init, GivenUpAreTouched, NoChanges
  <1>2. IInv => TypeOK /\ BaseInv
    BY DEF IInv
  <1>3. QED
    BY <1>1, <1>2, Invariant, GivenUpKept, PTL DEF Spec

=============================================================================
