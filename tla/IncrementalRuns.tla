---------------------------- MODULE IncrementalRuns ----------------------------
(***************************************************************************)
(* Incremental runs over a shared cache directory (src/interface/          *)
(* starter.ts and src/incremental/incremental-manager.ts).                 *)
(*                                                                         *)
(* A baseline analyses the base text and then names itself as latestBase   *)
(* in incremental-index.json.  A head run reads the index, plans, analyses *)
(* what the plan selects, merges it with the base's findings into its own  *)
(* report.sarif and writes the index back.  The baseline and the head runs *)
(* are processes that go on at the same time and take no lock; each has    *)
(* one report directory, which it finds again when it is started again.    *)
(* Files are written in place, so a process that dies leaves a torn file.  *)
(*                                                                         *)
(* Every process asks for a plan several times (getIncrementalPlan).  Each *)
(* time it reads the index, and when that names no base it looks for one   *)
(* in artifacts/<project>.                                                 *)
(***************************************************************************)
EXTENDS IncrementalPlan

CONSTANTS
  Runs,       \* head runs: a diff and a report directory each
  Baseline,   \* the process that makes the base
  EpOnly,     \* the runs in mode ep-only; the others are in mode auto
  Edits,      \* Edits[r]: the edits that the diff of r is taken from
  MaxStarts,  \* bounds on the starts of each process, one of which is kept
  MaxCrashes  \* bound: deaths of a process

Procs == Runs \cup {Baseline}

ASSUME RunsAssumption ==
  /\ Baseline \notin Runs
  /\ EpOnly \subseteq Runs
  /\ \A r \in Runs : \A e \in Edits[r] : IsEdit(e)
  /\ MaxStarts \subseteq [Procs -> Nat]
  /\ MaxCrashes \in Nat

VARIABLES
  setup,        \* the baseline's options: "plain", "database" (--dataflowDb), or
                \* "artifacts" (--dataflowDb with artifacts/<project> for its reports)
  index,        \* incremental-index.json: "baseless" (absent or without latestBase), ...
  database,     \* dataflow.db of the base: "empty" until its transaction is committed
  entrypoints,  \* entrypoints.json of the base
  baseReport,   \* report.sarif of the base
  pc,           \* of each process: where it ended, or what it does next
  call,         \* what the process does with the plan it asks for
  based,        \* plan.baseRun is defined in the plan the process holds
  edit,         \* edit[r]: what the diff of r does to the base text
  fast,         \* r is completed by tryCompleteIncrementalConsumerRun
  picked,       \* the entry points r analyses
  snapshot,     \* the index as r read it in completeIncrementalPlan
  changes,      \* ep-changes.json
  fullHead,     \* fullHead in entrypoint-allowlist.json
  selected,     \* selected-rerun-report.sarif
  merged,       \* merged-report.sarif
  report,       \* report.sarif of r
  misled,       \* history: r has planned from an empty database, or has completed a
                \* selection of entry points without the base
  starts,
  crashes

base == <<setup, database, entrypoints, baseReport>>
control == <<pc, call, based>>
memory == <<edit, fast, picked, snapshot, misled>>
directories == <<changes, fullHead, selected, merged, report>>
vars == <<index, base, control, memory, directories, starts, crashes>>

(* A report file: whether it is there and readable, and how often it lists *)
(* which finding.                                                          *)
File(state, list) == [is |-> state, list |-> list]
Absent   == File("absent", EmptyBag)
Reserved == File("reserved", EmptyBag)  \* the placeholder of ensureFile
Torn     == File("torn", EmptyBag)
Report(list) == File("report", list)
Valid(file) == file.is = "report"

NoChanges == [modified |-> {}, deleted |-> {}]

Calls   == {"try", "apply", "complete"}
Running == {"plan", "name", "collect", "analyse", "report", "commit", "snapshot", "merge",
            "publish", "open", "write"} \cup Calls
Ended   == {"idle", "done", "failed", "crashed"}

Init ==
  /\ setup \in {"plain", "database", "artifacts"}
  /\ index = "baseless"
  /\ database = "absent"
  /\ entrypoints = "absent"
  /\ baseReport = "absent"
  /\ pc = [p \in Procs |-> "idle"]
  /\ call = [p \in Procs |-> "try"]
  /\ based = [p \in Procs |-> FALSE]
  /\ edit \in [Runs -> UNION {Edits[r] : r \in Runs}] /\ \A r \in Runs : edit[r] \in Edits[r]
  /\ fast = [r \in Runs |-> FALSE]
  /\ picked = [r \in Runs |-> {}]
  /\ snapshot = [r \in Runs |-> "baseless"]
  /\ changes = [r \in Runs |-> NoChanges]
  /\ fullHead = [r \in Runs |-> FALSE]
  /\ selected = [r \in Runs |-> Absent]
  /\ merged = [r \in Runs |-> Absent]
  /\ report = [r \in Runs |-> Absent]
  /\ misled = [r \in Runs |-> FALSE]
  /\ starts = [p \in Procs |-> 0]
  /\ crashes = 0

Goto(p, label) == pc' = [pc EXCEPT ![p] = label]
AskPlan(p, c) == Goto(p, "plan") /\ call' = [call EXCEPT ![p] = c] /\ UNCHANGED based

-----------------------------------------------------------------------------
(* The index *)

\* What is in the index when a process has written it: if another one wrote it
\* after this one truncated it, what is left may be a mixture.
Written(content) == {content} \cup (IF index # "torn" THEN {"torn"} ELSE {})

DiscoveredNowhere == FALSE  \* mutant: an index without latestBase means that there is no base

\* discoverBaselineRun asks for no more than the existence of two files.
Discovered ==
  setup = "artifacts" /\ database # "absent" /\ entrypoints # "absent"

\* getIncrementalPlan: reading a torn index throws.
GetPlan(p) ==
  /\ pc[p] = "plan"
  /\ \/ index = "torn" /\ Goto(p, "failed") /\ UNCHANGED <<index, based>>
     \/ index = "based" /\ Goto(p, call[p]) /\ based' = [based EXCEPT ![p] = TRUE]
        /\ UNCHANGED index
     \/ index = "baseless" /\ ~Discovered /\ Goto(p, call[p])
        /\ based' = [based EXCEPT ![p] = FALSE] /\ UNCHANGED index
     \/ index = "baseless" /\ Discovered /\ Goto(p, "name")
        /\ index' = "torn" /\ UNCHANGED based
  /\ UNCHANGED <<base, call, memory, directories, starts, crashes>>

\* The rest of writeJson for a base that was discovered.
NameDiscovered(p) ==
  /\ pc[p] = "name"
  /\ index' \in Written("based")
  /\ based' = [based EXCEPT ![p] = TRUE]
  /\ Goto(p, call[p])
  /\ UNCHANGED <<base, call, memory, directories, starts, crashes>>

\* writeJson truncates the file before it writes it.
OpenIndex(p) ==
  /\ pc[p] = "open"
  /\ Goto(p, "write")
  /\ index' = "torn"
  /\ UNCHANGED <<base, call, based, memory, directories, starts, crashes>>

\* completeIncrementalPlan: a baseline names itself, a head run writes what it read.
WriteIndex(p) ==
  /\ pc[p] = "write"
  /\ Goto(p, "done")
  /\ index' \in Written(IF p = Baseline THEN "based" ELSE snapshot[p])
  /\ UNCHANGED <<base, call, based, memory, directories, starts, crashes>>

\* A torn index makes every run fail until the operator removes it.
RemoveIndex ==
  /\ index = "torn"
  /\ \A p \in Procs : pc[p] \in Ended
  /\ index' = "baseless"
  /\ UNCHANGED <<base, control, memory, directories, starts, crashes>>

-----------------------------------------------------------------------------
(* Starts and deaths *)

Starts(p) ==
  /\ pc[p] \in Ended
  /\ starts' = [starts EXCEPT ![p] = @ + 1]
  /\ \E max \in MaxStarts : \A q \in Procs : starts'[q] <= max[q]
  /\ AskPlan(p, "try")
  /\ UNCHANGED <<index, base, directories, crashes>>

StartBaseline == Starts(Baseline) /\ UNCHANGED memory

Start(r) ==
  /\ Starts(r)
  /\ fast' = [fast EXCEPT ![r] = FALSE]
  /\ picked' = [picked EXCEPT ![r] = {}]
  /\ UNCHANGED <<edit, snapshot, misled>>

Dies(p) ==
  /\ pc[p] \in Running
  /\ crashes < MaxCrashes
  /\ crashes' = crashes + 1
  /\ Goto(p, "crashed")
  /\ UNCHANGED <<index, base, call, based, memory, changes, fullHead, starts>>

CrashBaseline == Dies(Baseline) /\ UNCHANGED <<selected, merged, report>>

Cut(file, r) == file' = [file EXCEPT ![r] = Torn]

\* The file that the process was about to write may be torn.
Crash(r) ==
  /\ Dies(r)
  /\ \/ UNCHANGED <<selected, merged, report>>
     \/ pc[r] = "analyse" /\ Cut(report, r) /\ UNCHANGED <<selected, merged>>
     \/ pc[r] = "complete" /\ Valid(report[r]) /\ Cut(selected, r) /\ UNCHANGED <<merged, report>>
     \/ pc[r] = "merge" /\ Cut(merged, r) /\ UNCHANGED <<selected, report>>
     \/ pc[r] = "publish" /\ Valid(merged[r]) /\ Cut(report, r) /\ UNCHANGED <<selected, merged>>

-----------------------------------------------------------------------------
(* The baseline.  Nothing keeps it from being started again over the base  *)
(* it has made, or beside head runs.                                       *)

\* tryCompleteIncrementalConsumerRun does nothing; initSqlite makes the tables
\* and begins the one transaction of the analysis.
BaseInit ==
  /\ pc[Baseline] = "try"
  /\ AskPlan(Baseline, "apply")
  /\ database' = IF setup # "plain" /\ database = "absent" THEN "empty" ELSE database
  /\ UNCHANGED <<index, setup, entrypoints, baseReport, memory, directories, starts, crashes>>

\* applyIncrementalEntrypointAllowlist, in two steps: entrypoints.json is
\* truncated and written.
BaseApply ==
  /\ pc[Baseline] = "apply"
  /\ Goto(Baseline, "collect")
  /\ entrypoints' = "torn"
  /\ UNCHANGED <<index, setup, database, baseReport, call, based, memory, directories, starts,
                 crashes>>

BaseCollectRecords ==  \* mutant: latestBase is set when the entry points are known
  /\ pc[Baseline] = "collect"
  /\ Goto(Baseline, "open")
  /\ entrypoints' = "whole"
  /\ UNCHANGED <<index, setup, database, baseReport, call, based, memory, directories, starts,
                 crashes>>

BaseCollect ==
  /\ pc[Baseline] = "collect"
  /\ Goto(Baseline, "analyse")
  /\ entrypoints' = "whole"
  /\ UNCHANGED <<index, setup, database, baseReport, call, based, memory, directories, starts,
                 crashes>>

\* outputAnalyzerResult: without a finding there is no report; the transaction is
\* committed when the report is written.
BaseAnalyse ==
  /\ pc[Baseline] = "analyse"
  /\ Goto(Baseline, "report")
  /\ baseReport' = IF BaseResults = {} THEN baseReport ELSE "torn"
  /\ UNCHANGED <<index, setup, database, entrypoints, call, based, memory, directories, starts,
                 crashes>>

BaseReport ==
  /\ pc[Baseline] = "report"
  /\ Goto(Baseline, "commit")
  /\ baseReport' = IF BaseResults = {} THEN baseReport ELSE "whole"
  /\ UNCHANGED <<index, setup, database, entrypoints, call, based, memory, directories, starts,
                 crashes>>

BaseCommit ==
  /\ pc[Baseline] = "commit"
  /\ AskPlan(Baseline, "complete")
  /\ database' = IF database = "empty" THEN "whole" ELSE database
  /\ UNCHANGED <<index, setup, entrypoints, baseReport, memory, directories, starts, crashes>>

\* completeIncrementalPlan reads the index before it writes it.
BaseComplete ==
  /\ pc[Baseline] = "complete"
  /\ Goto(Baseline, IF index = "torn" THEN "failed" ELSE "open")
  /\ UNCHANGED <<index, base, call, based, memory, directories, starts, crashes>>

-----------------------------------------------------------------------------
(* A head run *)

Ensured(file) == IF file = Absent THEN Reserved ELSE file

\* writeIncrementalOutputs
WriteOutputs(r, plan, full) ==
  /\ changes' = [changes EXCEPT ![r] = [modified |-> plan.modified, deleted |-> plan.deleted]]
  /\ fullHead' = [fullHead EXCEPT ![r] = full]
  /\ selected' = [selected EXCEPT ![r] = Ensured(@)]
  /\ merged' = [merged EXCEPT ![r] = Ensured(@)]
  /\ misled' = [misled EXCEPT ![r] = @ \/ (based[r] /\ database = "empty")]
  /\ UNCHANGED report

PlanNow(r) == Prepare(edit[r], based[r], database)

\* The entry points of the base are read, and cannot be parsed.
BaseUnreadable(r) == based[r] /\ entrypoints = "torn"

\* tryCompleteIncrementalConsumerRun: a run whose plan selects nothing is
\* completed from the base's findings, before the source is even parsed.
Try(r) ==
  /\ pc[r] = "try"
  /\ \/ /\ CanCompleteWithoutHeadAnalysis(PlanNow(r)) /\ BaseUnreadable(r)
        /\ Goto(r, "failed")
        /\ UNCHANGED <<call, based, fast, misled, directories>>
     \/ /\ CanCompleteWithoutHeadAnalysis(PlanNow(r)) /\ ~BaseUnreadable(r)
        /\ Goto(r, "merge")
        /\ fast' = [fast EXCEPT ![r] = TRUE]
        /\ WriteOutputs(r, PlanNow(r), FALSE)
        /\ UNCHANGED <<call, based>>
     \/ /\ ~CanCompleteWithoutHeadAnalysis(PlanNow(r))
        /\ AskPlan(r, "apply")
        /\ UNCHANGED <<fast, misled, directories>>
  /\ UNCHANGED <<index, base, edit, picked, snapshot, starts, crashes>>

PlanOfHead(r) == IF based[r] THEN CompareHead(PlanNow(r), edit[r]) ELSE PlanNow(r)

\* applyIncrementalEntrypointAllowlist, when the entry points are collected.
Apply(r) ==
  /\ pc[r] = "apply"
  /\ IF BaseUnreadable(r) \/ (r \in EpOnly /\ FailsFast(PlanOfHead(r)))
     THEN /\ Goto(r, "failed")
          /\ UNCHANGED <<picked, misled, directories>>
     ELSE /\ Goto(r, "analyse")
          /\ picked' = [picked EXCEPT ![r] = Selected(PlanOfHead(r), edit[r])]
          /\ WriteOutputs(r, PlanOfHead(r), FullHead(PlanOfHead(r), edit[r]))
  /\ UNCHANGED <<index, base, call, based, edit, fast, snapshot, starts, crashes>>

\* symbolInterpret and outputAnalyzerResult: without a finding, no report.
Analyse(r) ==
  /\ pc[r] = "analyse"
  /\ AskPlan(r, "complete")
  /\ report' = [report EXCEPT ![r] =
       IF Results(edit[r], picked[r]) = {} THEN @
       ELSE Report(SetToBag(Results(edit[r], picked[r])))]
  /\ UNCHANGED <<index, base, memory, changes, fullHead, selected, merged, starts, crashes>>

\* completeIncrementalRun: publishHeadReportAsSelectedRerun.
Complete(r) ==
  /\ pc[r] = "complete"
  /\ Goto(r, "snapshot")
  /\ selected' = [selected EXCEPT ![r] = IF Valid(report[r]) THEN report[r] ELSE @]
  /\ UNCHANGED <<index, base, call, based, memory, changes, fullHead, merged, report, starts,
                 crashes>>

SnapshotTorn(r) ==  \* mutant: an index that cannot be parsed is used as it is
  /\ pc[r] = "snapshot"
  /\ Goto(r, IF fast[r] THEN "open" ELSE "merge")
  /\ snapshot' = [snapshot EXCEPT ![r] = index]
  /\ UNCHANGED <<index, base, call, based, edit, fast, picked, misled, directories, starts,
                 crashes>>

\* completeIncrementalPlan reads the index it will write back.
Snapshot(r) ==
  /\ pc[r] = "snapshot"
  /\ \/ index = "torn" /\ Goto(r, "failed") /\ UNCHANGED snapshot
     \/ /\ index # "torn"
        /\ Goto(r, IF fast[r] THEN "open" ELSE "merge")
        /\ snapshot' = [snapshot EXCEPT ![r] = index]
  /\ UNCHANGED <<index, base, call, based, edit, fast, picked, misled, directories, starts,
                 crashes>>

\* isFullHeadOutput; without a base report there is nothing to merge.
MergesBase(r) == ~fullHead[r] /\ based[r] /\ baseReport # "absent"

\* What writeFullHeadMergedOutputs or writePartialMergedOutputs puts in merged-report.sarif.
MergedNow(r) ==
  IF MergesBase(r)
  THEN Report(MergeFindings(BaseResults, selected[r].list, changes[r]))
  ELSE IF fullHead[r] /\ Valid(report[r]) THEN report[r] ELSE merged[r]

\* mergeSarifFindingFiles throws when it cannot parse a report.
Merge(r) ==
  /\ pc[r] = "merge"
  /\ IF MergesBase(r) /\ (baseReport = "torn" \/ selected[r] = Torn)
     THEN Goto(r, "failed") /\ UNCHANGED merged
     ELSE Goto(r, "publish") /\ merged' = [merged EXCEPT ![r] = MergedNow(r)]
  /\ misled' = [misled EXCEPT ![r] = @ \/ (~fullHead[r] /\ ~based[r])]
  /\ UNCHANGED <<index, base, call, based, edit, fast, picked, snapshot, changes, fullHead,
                 selected, report, starts, crashes>>

\* publishMergedSarifAsPublicReport
Publish(r) ==
  /\ pc[r] = "publish"
  /\ Goto(r, IF fast[r] THEN "snapshot" ELSE "open")
  /\ report' = [report EXCEPT ![r] = IF Valid(merged[r]) THEN merged[r] ELSE @]
  /\ UNCHANGED <<index, base, call, based, memory, changes, fullHead, selected, merged, starts,
                 crashes>>

BaselineNext ==
  \/ StartBaseline \/ BaseInit \/ BaseApply \/ BaseCollect \/ BaseAnalyse \/ BaseReport
  \/ BaseCommit \/ BaseComplete \/ CrashBaseline

HeadNext(r) ==
  \/ Start(r) \/ Try(r) \/ Apply(r) \/ Analyse(r) \/ Complete(r) \/ Snapshot(r) \/ Merge(r)
  \/ Publish(r) \/ Crash(r)

Next ==
  \/ BaselineNext
  \/ \E r \in Runs : HeadNext(r)
  \/ \E p \in Procs : GetPlan(p) \/ NameDiscovered(p) \/ OpenIndex(p) \/ WriteIndex(p)
  \/ RemoveIndex

Spec == Init /\ [][Next]_vars

-----------------------------------------------------------------------------
(* Properties *)

IsReport(file) ==
  /\ file = File(file.is, file.list)
  /\ file.is \in {"absent", "reserved", "torn", "report"}
  /\ IsABag(file.list) /\ BagToSet(file.list) \subseteq Findings

TypeOK ==
  /\ setup \in {"plain", "database", "artifacts"}
  /\ index \in {"baseless", "based", "torn"}
  /\ database \in {"absent", "empty", "whole"}
  /\ entrypoints \in {"absent", "torn", "whole"}
  /\ baseReport \in {"absent", "torn", "whole"}
  /\ pc \in [Procs -> Running \cup Ended]
  /\ call \in [Procs -> Calls]
  /\ based \in [Procs -> BOOLEAN]
  /\ DOMAIN edit = Runs /\ \A r \in Runs : IsEdit(edit[r])
  /\ fast \in [Runs -> BOOLEAN]
  /\ picked \in [Runs -> SUBSET Functions]
  /\ snapshot \in [Runs -> {"baseless", "based"}]
  /\ changes \in [Runs -> [modified : SUBSET BaseEps, deleted : SUBSET BaseEps]]
  /\ fullHead \in [Runs -> BOOLEAN]
  /\ \A file \in {selected, merged, report} :
       DOMAIN file = Runs /\ \A r \in Runs : IsReport(file[r])
  /\ misled \in [Runs -> BOOLEAN]
  /\ starts \in [Procs -> Nat]
  /\ crashes \in 0 .. MaxCrashes

\* The base has been analysed to the end at least once: its files hold what that
\* analysis found, or are torn while they are written once more.
Finished ==
  /\ setup # "plain" => database = "whole"
  /\ entrypoints # "absent"
  /\ BaseResults # {} => baseReport # "absent"

\* A base outside artifacts/<project> is named, and known to a run, only when its
\* analysis has ended: a run fails on a torn file of it, and never takes what a
\* dead baseline left for a base without entry points or findings.
UnfinishedBaseIsUnknown ==
  /\ setup # "artifacts"
  /\ index = "based" \/ \E r \in Runs : based[r] \/ snapshot[r] = "based"
  => Finished

\* What the run has in hand when it completes is a selection of entry points.
Partial(r) ==
  ~fullHead[r] /\ pc[r] \in {"complete", "snapshot", "merge", "publish", "open", "write", "done"}

\* A baseline in artifacts/<project> is found again by every run that counts on
\* it, even if runs that began before it write an index without it over its name.
PartialRunsKnowTheBase ==
  setup = "artifacts" => \A r \in Runs : Partial(r) => based[r]

\* A run that ends well reports what an analysis of the whole head would report,
\* if the database could not miss what the edit changes: whatever happened to
\* earlier attempts in the same directory and to other processes, as long as the
\* run was not misled.  Each finding is listed once if the analysis found
\* something or the directory was fresh.
SuccessIsExact ==
  \A r \in Runs : pc[r] = "done" /\ Seen(edit[r]) /\ ~misled[r] =>
    /\ BagToSet(report[r].list) = FullResults(edit[r])
    /\ Results(edit[r], picked[r]) # {} \/ starts[r] = 1 =>
         report[r].list = SetToBag(FullResults(edit[r]))

\* The part of a list that is about some entry points.
About(list, eps) == [f \in {f \in BagToSet(list) : f.ep \in eps} |-> list[f]]

\* Whatever the edit, an entry point that was analysed again has the findings of
\* that analysis in the report, each once, and no others.  (An analysis that
\* finds nothing at all writes no report, and an older one may take its place.)
RerunIsFresh ==
  \A r \in Runs : pc[r] = "done" /\ Results(edit[r], picked[r]) # {} /\ (fullHead[r] \/ based[r]) =>
    About(report[r].list, picked[r]) = SetToBag(Results(edit[r], picked[r]))

\* A finding that is resolved because its entry point was deleted belongs to an
\* entry point that the head does not have.
ResolvedAreGone ==
  \A r \in Runs : pc[r] = "done" /\ ~fullHead[r] =>
    \A f \in BaseResults : f.ep \in changes[r].deleted => f.ep \notin edit[r].eps \ picked[r]

\* How far the loss that ResolvedAreGone speaks of goes: an entry point of the
\* head is given up as deleted only where a "deleted" range of the diff meets it,
\* one that no added line follows, however often the run was started before.
GivenUpAreTouched ==
  \A r \in Runs : changes[r].deleted \cap edit[r].eps \subseteq TouchedByDeletion(edit[r])
=============================================================================
