# YASA-Engine: TLA+ models, model checks and proofs

YASA-Engine is a static taint analyser: it parses a project in several
languages to one AST form (UAST), finds the entry points, interprets each
symbolically while checkers collect findings, and writes a report. Most of its
95 000 lines are interpretation rules, which are data from a model checker's
point of view. What TLA+ can say something about is the machinery around the
interpreter: child processes that parse, schedulers that divide a time budget
among entry points, the isolation of one entry point from the next, caches, and
files that must survive a crash. This directory models that machinery,
component by component, in the order of the plan below.

Source paths are relative to the repository root. `PROJECT.json` lists the
components, the runs, the mutants that show that each property can fail, the
source lines of each definition, and the hazards the properties were chosen for.

## 1. Inventory

| Component (source) | State it keeps | Operations | Hard behaviour | Correct when | Status |
|---|---|---|---|---|---|
| Parser worker pool (`engine/parser/parser.ts`, `parser-worker.ts`) | slots with busy flags, task queue, pending tasks, counters of failures and exits; each child's channel | submit, round robin, answer, exit, error, refork, terminate | children die at any moment; answers, exits and errors arrive in any order; a fork can fail | every file settles exactly once; the pool is released after the last; no child survives | `ParserPool` (partly: exit code 0 and small parses are left out) |
| Deadline plan and attempts (`common/entrypoint/deadline-scheduler.ts`, `attempt-runner.ts`) | three deadlines, the deadline and latch of the attempt, a global timeout flag | allocate, install, abort, restore | time passes between two readings of the clock | no attempt lives off the time of a later one, and the reserve is kept | `DeadlinePlan`, `AnalysisAttempt` |
| Spring and Java entry-point schedulers (`java/spring/spring-analyzer.ts`, `spring-entrypoint-scheduler.ts`, `java/common/java-analyzer.ts`) | worklist, queue of timed-out attempts, configuration that is changed and restored | first pass, reruns in aggressive mode, error paths | timeouts, exceptions from checkers, state carried from one attempt to the next | what timed out is rerun; no attempt is cut short by another; the loop ends | `SpringScheduler`, `JavaScheduler` |
| Findings checkpoint (`common/findings-checkpoint.ts`) | temporary file, checkpoint file, "finalized" | write, fsync, close, rename, unlink, retry | any call fails; the process dies; the power fails | the checkpoint is a whole document of some moment, and the result tells the truth | `FindingsCheckpoint` |
| Entry-point executor and isolation (`common/entrypoint/entrypoint-executor.ts`, `entrypoint-execution-isolation.ts`, `current-entrypoint.ts`) | the overlay bound to the analyser, path condition, call-site stack, edge buffer | bind, before, execute, after, dispose, restore, flush | each step may throw | everything bound is restored; before and after are paired | `EntryPointMemory` (partly: binding, discarding, errors) |
| Memory overlay (`common/analyzer-memory-overlay.ts`) | local table, tombstones, "base cleared" | register, get, delete, clear, reset | reads go through two layers | an attempt's writes stay in the overlay | `EntryPointMemory` (partly: register, get, reset) |
| Symbol tables (`common/symbol-table-manager.ts`, temporary tables in `common/analyzer.ts`) | original, temporary, copied units | switch, copy on access, restore | copies of copies, reuse between attempts | an attempt does not see what another one wrote | `EntryPointMemory` (partly) |
| Call summaries (`common/call-summary/`) | a slot per call key, stack of execution frames | begin and finish a stage, observe, record, replay | an execution that throws leaves its frame; an import begins a stage inside a call | no replay of a call that had effects, none across stages | `CallSummary` (partly: the session that replays) |
| Incremental analysis (`src/incremental/incremental-manager.ts`, `util/incremental-findings.ts`) | index on disk, base and head reports, plan | discover, plan, allowlist, complete, merge | stale files, deaths between two writes, baselines and head runs at the same time without a lock | the merged report is what a full analysis would report | `IncrementalPlan`, `UnifiedDiff`, `IncrementalRuns` (partly) |
| AST cache (`engine/parser/parser.ts`, `parser-core.ts`) | list of digests, one JSON file per source file | load, parse, save, write the list | writes fail, the run dies between files and list | a hit is the tree of this text; a clean run leaves a usable cache | `AstCache` |
| Analyser cache (`common/analyzer-cache.ts`) | the whole analyser, serialized | save, load | conversion of a cyclic object graph | the graph comes back isomorphic | not modelled: only the interpreter can tell two graphs apart |
| Result manager, local buffers, memory guard, LRU caches, dataflow edge database | small collections | add, merge, evict, flush | limits, sticky verdicts | nothing lost or counted twice | not modelled: straight-line code of one thread |
| Branch states, taint records, interpreter core, language analysers, resolvers, value domain | the analysed program | interpretation | unbounded data | - | not modelled |
| Checkers, rules, sanitizers, SDK, AntQL | findings | hooks called in order | - | - | not modelled: rule data |
| Output strategies, SARIF, logging, CLI, configuration | - | formatting, I/O | - | - | not modelled: layout and I/O |

How they interact. The starter parses the configuration and calls the language
analyser. Its preprocessing parses all files, with ten files or more through
the worker pool, then collects entry points. `symbolInterpret` of the analyser
walks over the entry points; the Java and the Spring analyser do so under a
deadline plan and rerun what timed out. Each attempt goes through the
entry-point executor, which swaps the shared symbol table for an overlay, calls
the before hooks of the checkers, interprets, calls the after hooks and
restores. Checkers add findings to the one result manager. When the analysis
leaves its budget or throws, the checkpoint writer persists the findings. While
modules are processed, calls may be skipped on the strength of a summary. An
incremental run reads what a baseline left in the cache directory, plans which
entry points to analyse, and merges their findings with those of the base.

## 2. Plan

Done, each with its proofs:

1. `ParserPool`, with `ParseJob` as what it promises.
2. `DeadlinePlan`, `AnalysisAttempt`, and on them `SpringScheduler` and
   `JavaScheduler`.
3. `FindingsCheckpoint`, refining `AtomicDocument`.
4. `EntryPointMemory`: the original table, the temporary table and the overlay
   of an attempt; what one entry point leaves behind for the next.
5. `CallSummary`: stages, frames and slots of the session that replays.
6. `IncrementalPlan`, planning and merging as functions of an edit, with
   `UnifiedDiff` to check its ranges against, and on it `IncrementalRuns`,
   baseline and head runs over one cache directory.
7. `AstCache`: list and JSON files over runs that die and writes that fail.

Left:

* The deletions and tombstones of the overlay, on top of `EntryPointMemory`, and
  a private copy of the memory that it would refine; the pairing of hooks and
  the edge buffer around an attempt.
* The memory guard, the LRU caches and the branch states as pure algorithms.
* The two callers of the checkpoint writer, which give up a retry it keeps.

## 3. Modules

Every module writes a mutated form of a definition just above the definition,
marked as such: the plausible bug that a property is shown to detect. They are
never part of `Next`.

### Variant

`Lower` orders tuples of natural numbers by the first place where they differ.
The pool and the two schedulers each have a `Rank`, a tuple that says how much
there is left to do, what undoes the most coming first, and state as `Advances`
that every step lowers it. The ranks are properties and model no code.

### ParserPool and ParseJob

One parse of `parseFilesConcurrently` with its pool. The client (`pc`,
`unmapped`, `outcome`) maps over the files in one synchronous turn
(`SubmitTask` per file), waits, and releases the pool (`Terminate`) as a
microtask after the last file. The pool's fields keep their names: `workers`,
`taskQueue`, `pendingTasks`, `lastWorkerIndex`, `consecutiveFailures`,
`oomCount`. One action per event handler: `HandleMessage`, `HandleExit`,
`HandleError`; each contains the whole handler, `processNextTask` and
`createWorker` included. The listeners capture the id the child was created
with (`slotOf`), which is not its slot when an earlier fork failed. Children
(`up`, `inbox`, `outbox`, `exitPending`, `errorPending`) answer or die; a
message to a child that is dead is lost while its exit is not known and raises
an error event afterwards, as `child_process` does it.

`Calm` names what the pool's slots need in order to mean what they say: no fork
failed and no send error occurred. A failed fork shifts children to other slots
than their listeners name, and an error event can fork a second child for one
slot; then a child can get two tasks or survive `terminate()`. `OneToOne`,
`PendingIsServed` and `TerminateKillsAll` are stated for calm pools, the
accounting and the refinement for all.

`ParseJob` is the promise to the caller: files settle once, in any order, and
the pool is released after the last. The pool refines it with
`released <- (pc = "released")`.

### DeadlinePlan and AnalysisAttempt

`DeadlinePlan` is the arithmetic of `deadline-scheduler.ts`: the analysis and
finalization deadlines and `Allocation`, an equal share rounded up, clipped to
the cap and to what remains. `AnalysisAttempt` is one attempt as far as time
matters: the fan-out interprets `Implementations` bodies; an instruction takes
1 to `MaxStep` ticks; the clock is read at its start; at the deadline the latch
`timedOut` and the global `entryPointTimeout` are set; the fan-out loop tests
the global flag; a body may throw and the attempt catches it.

### SpringScheduler and JavaScheduler

Both are `symbolInterpret`, one action per branch of its loops. Spring first
builds a worklist, then runs every item once under the quick cap and every item
that timed out once more under the full cap. Java walks over entry points and
their overloads, shares time within an entry point, and computes one cap for
all reruns. `owed` and `left` are history: what was not interpreted to its end
and not rerun. Exceptions that no attempt catches (a checker's before or after
hook) lead to `ErrorInAttempt`, `ErrorInRerun` and `Recover` or
`SchedulingError` and `Leave`.

### FindingsCheckpoint and AtomicDocument

`pc` is the next file system call; each has an action, and `Fail` is any of
them throwing. A file is what the page cache holds and what the disk holds
(`cached`, `synced`); `rename` changes the directory in the cache, which reaches
the disk at some moment (`FlushDirectory`) since the code does not synchronize
it. `ProcessDies` keeps the cache; `PowerLoss` leaves of the checkpoint exactly
what was `synced`. A document is the number of findings it lists; `Cut` is a
document that is cut off. `AtomicDocument` is a file that
is published whole and may later fall back to what was hardened.

### EntryPointMemory

Values refer to each other by uuid. A read asks the overlay of the attempt, then
the temporary table of `symbolInterpret`, then the original table of
preprocessing, whose object is copied into the temporary table on the way
(`CopyOnAccess`). A write registers in the overlay if one is bound, else in the
temporary table (`Register`). An object of the model is an index of `heap`:
copies of one original share its uuid and nothing else. `members` are uuids, as
`ValueRefMap` keeps them; `rooted` says whether the object has a parent, which
decides whether a copy is `Outdated`. `authors` is history: whose writes the
members show.

`held` is what the interpreter has got hold of in the attempt; it looks up any
uuid that the program names or a held object refers to (`Lookup`), makes values
(`Create`) and sets members (`SetMember`), in any order. Around that is the loop
of `symbolInterpret`: `OpenNext` and `Reopen` clear the temporary table and copy
the symbol and the scope of the entry point, `Attempt` binds an empty overlay
with a clone of the package root, `Return`, `TimeOut` and `Throw` leave it on
every path, `Rerun` runs an attempt again on the symbol, scope and argument kept
from the first. Java evaluates arguments inside the overlay and copies once per
entry point; Spring evaluates them before and copies once per overload;
JavaScript copies nothing.

### CallSummary

`stack` holds the open stages and calls, innermost last. Executing a call pushes
a frame on `executionStack` and makes a slot where there is none; `Return`
compares the counted effects with those at the call's start, pops the frame,
marks the frame below if the call could not be summarised, and records the slot
as `ready` or `disabled`; `Skip` is a call answered by a ready slot. `Throw`
unwinds one call and leaves its frame, as the code does. `BeginStage` sets the
store aside and empties the frames, also in the middle of a call when that call
imports a file; `FinishStage` brings the store back and no frames. Three
histories say what recording cannot see: `nested` (a call below could not be
summarised), `disturbed` (something was thrown or a stage begun in it) and
`stage` (where a slot was made).

### IncrementalPlan and UnifiedDiff

`IncrementalPlan` is the base text as numbered lines with their functions; an
edit keeps some lines and writes at most one line per gap. From that follow the
entry points' spans before and after, the ranges of the diff, which base entry
points are modified or deleted, which head entry points are selected, whether
the plan falls back to the full head, and the merge. A finding carries the code
it was computed from, so that two findings are the same exactly when the code
is; `FullResults` is the reference the merge is compared with. A report is a
bag of findings: `MergeFindings` appends what was selected to what is kept, so a
finding in both is there twice.

The code keeps of a diff only the deleted and added lines, in order, and makes
one "modified" range of a block of deleted lines and the block of added lines
that comes next, whatever lies between (`markModifiedPairs`). The model says
which lines those are without a loop: the added lines listed before a deleted
line name its block (`ListedBefore`, `DeleteBlock`), and what is added up to the
next block is its partner (`AddBlock`). `UnifiedDiff` is the loops themselves,
line by line, and `RangesAreParsed` in the MC module compares the two on all
2048 choices of kept lines and written gaps of a text of five lines.

### IncrementalRuns

A baseline and head runs, processes that go on beside each other and take no
lock. One action per file that is read or written; every file is written in place
and torn if the process dies over it; a process that is started again finds what
its earlier start left in its report directory.

* The index. Each process asks for a plan when it tries to complete without an
  analysis, when it has the entry points, and when it completes (`AskPlan`,
  `GetPlan`). An index that names no base makes it look into
  `artifacts/<project>` (`Discovered`), name what it finds (`NameDiscovered`) and
  go on. `Snapshot` or `BaseComplete` reads the index once more, `OpenIndex`
  truncates it and `WriteIndex` writes it. Between the two another process may
  write, and what is left then is either text or a mixture (`Written`). A torn
  index makes every run fail until the operator removes it (`RemoveIndex`).
* The baseline, `BaseInit` to `BaseComplete`: the tables of the database, the
  entry points, the report, the commit of the database, the name in the index.
  It may be started at any time, over the base it has made as well. `setup` is
  how it is called: without a database, with one, or with one and its reports in
  `artifacts/<project>`, where it can be discovered.
* A head run: `Try` completes it from the base's findings alone if the plan
  selects nothing; else `Apply`, `Analyse`, `Complete`, `Snapshot`, `Merge`,
  `Publish`. `based` is whether the plan at hand has a base, and may differ
  from one plan of a run to the next.
* `misled` is a history and marks two borders of what a run can promise, both of
  which the code has and section 5 describes.

### AstCache

`list` and `json` are what the disk holds: the digest entered for each file, and
the tree in the JSON file named after its path. `LoadCache` takes a tree when
the digest entered for the file is that of its text and the JSON loads; `Parse`
parses the others; several saves are under way at a time, each truncating its
file first; the list is merged from the reading and the saves and written in
place. Any write may fail at each of its points, the run may die anywhere, and
files are edited, broken, removed and reverted at any time. `loose` is a
history: the files whose JSON was written to since their entry was renewed.

## 4. Runs

| Run | Configuration | Shows |
|---|---|---|
| `pool_crash` | 4 files, 3 children, 2 deaths at any moment, 1 failing fork | accounting of tasks; in a calm pool one task per child, every pending task served, no child left, and no wait for nothing unless a task was queued at a death; refinement of `ParseJob`; the parse ends unless a task waits in the queue after a death |
| `pool_hang` (violation) | 3 files, 2 children, 1 death during a parse | the parse can hang |
| `spring_budget` | entry points with 1 and 2 overloads, budget 14, one tick of overrun | the analysis deadline, the shares, the reruns, termination |
| `spring_stale` (violation) | the same, budget 12, no overrun | a timeout of one attempt cuts the fan-out of a later one |
| `java_budget` | as `spring_budget` | no false timeout, nothing forgotten, shares of overloads and of reruns, termination |
| `checkpoint_crash` | 3 calls, 2 findings, 3 failing calls, 2 crashes | true status, retry rights, no temporary file left, refinement of `AtomicDocument` |
| `memory_isolated` | 2 entry points sharing symbol and scope, 2 + 1 overloads, 2 values made or members set; Java, Spring, JavaScript | originals pristine, own writes only, reruns read afresh, registrations stay in the overlay |
| `memory_dangling` (violation) | the same, one overload each, Java | a member set in an attempt names nothing in its rerun |
| `incremental_cycle` | base of entry points a (lines 1-2) and b (3-4) and a helper (5) that b calls, in each of the three ways to lay it out; beside the baseline run r1 with four edits, both started twice, or r1 and r2 (mode ep-only) with one start each; 1 death | an unfinished base is not known outside `artifacts/<project>`, a run that counts on a base there has it, a run that ends well reports what a full analysis would, what was analysed again is reported afresh and once |
| `incremental_deletion` (violation) | the diff deletes line 2 | findings of a touched entry point are dropped as if it had been deleted |
| `call_summary_stages` | 2 calls, nested up to 4 deep, 2 stages, 2 throws, 1 effect, 1 hit | no summary of an execution that could not be summarised, none used outside its stage |
| `ast_cache` | 2 files, 2 texts that parse and 1 that does not | a hit is the tree of the text read, a run without failure leaves a usable cache |

### Bounds

* Pool: `MaxProcs = 8` never stops `createWorker`. With error events and a
  failed fork one death can fork more than once, but the same run with room for
  13 children never makes more than 8; in a calm pool `ForksMatchDeaths` bounds
  them by `MaxWorkers` and one for each death, for all constants. Four files for three children make the
  queue non-empty; two deaths and a failing fork give the combinations of an
  exit, an error and a refork for one slot. With three children a fork that
  fails in the constructor moves a child into the slot of another one; with two
  there is no such slot. One kind of answer is enough: the kind decides how a
  file is settled, which nothing else reads. `MAX_CONSECUTIVE_FAILURES` and the
  limit of exits have the code's values.
* Schedulers: a budget of 14 ticks with reserves of 3 leaves 11 for three
  overloads with caps of 4 and 5, so that attempts run to the end, time out,
  are denied, rerun and denied a rerun, all in one state space. `MaxStep` is
  the overrun of one instruction.
* Checkpoint: three calls cover a retry after a retry; `MaxFailures` failing
  calls cover each pair of failing calls, and two crashes cover a crash while
  recovering from a crash.
* Memory: the two entry points have the same symbol and the same scope, the
  worst case for isolation. The class has a parent, the package root has none, a
  new value has or has not: all cases of `Outdated`. `MaxWrites = 2` lets one
  entry point write and another meet the write; `MaxObjects = 11` leaves eight
  new objects, enough for both entry points to copy symbol and scope, bind, and
  for a rerun after that. The isolation theorems hold without the bounds.
* Call summaries: depth 4 is a call, an import in it, a call in that stage and
  one more below; two throws leave two frames, so that a pop can miss by one and
  by two. One effect and one hit are enough, since neither is undone.
* Incremental: two entry points, one with a helper outside its lines, give each
  relation of a range to an entry point (inside, at its first and last line,
  outside but reached). The edits of r1 are a line of an entry point deleted with
  a new entry point added at the end of the text, which makes one "modified"
  range and moves the others; an entry point deleted, deleted with a new one in
  its place, and deleted with the helper, after which nothing is found; r2
  replaces a line of b. Two starts of r1 and of the baseline and one death give
  a rerun over torn or old files, a base made again beside a run, and a base that
  is made between two starts; one start each gives three processes over one
  index. The theorems hold for any number of runs, starts and deaths, and any
  edits.
* AST cache: no bound on runs, edits or failures; two files make one save end
  while another fails, three texts make an edit, a revert and a break differ.
* `CHECK_DEADLOCK FALSE` everywhere: a parse, an analysis and a process end.

### Fairness

* Pool: the event loop handles each event that is there (`WF` per handler and
  child), and a live child answers. No child is forced to die.
* Schedulers: `WF_vars(Next /\ pc' # "recover")`. The analysis is one thread
  that nothing blocks, and no checker is forced to throw. The clock is not
  forced either: a body that never returns ends because each instruction takes a
  tick.
* Checkpoint, memory, call summaries, incremental runs and AST cache: none; only
  safety is claimed.

## 5. What the runs found

Disagreements of the code with what it says of itself, each shown by a run:

1. `pool_hang`: the exit handler rejects, forks, and never calls
   `processNextTask()`. Since it rejects the tasks of all children, the late
   answers of the others are ignored and do not serve the queue either: queued
   files wait for ever and so does the analysis, for any number of children
   (`QueuesAreStranded`).
2. `spring_stale`: the first pass does not reset
   `globalState.entryPointTimeout`. After one timeout the fan-out of every
   later attempt stops after its first body and is not rerun, because its own
   latch was not tripped. Java resets the flag per attempt (`java_budget`).
3. `memory_dangling`: the symbol and the scope of an entry point outlive the
   overlay of an attempt, but members set in the attempt refer to values that
   only the overlay knew. In the rerun, and in the next overload in Java,
   reading such a member returns the uuid string. `Scope.createSubScope`
   (`analyzer.ts:4756`) is such a reader: it gets a string for the scope that
   the first attempt made, the assignment to its `_this` throws, and the rerun
   of that entry point ends there.
4. `incremental_deletion`: `addDeletedChanges` (`incremental-manager.ts:659`)
   marks every base entry point that a deleted range touches as deleted. When
   the diff only deletes a line inside its body, its findings are dropped from
   the report as "deleted entrypoint" and it is not analysed again.

Borders that the properties needed, which a reader of the code should know:

* Pool (`Calm`): an exit handler rejects all pending tasks, those of live
  children included, although its comment (`parser.ts:254`) is about those of
  the dead child; they are parsed a second time on the main thread and the late
  answers ignored. The error and the exit event of one death both fork a child
  for one slot (`:240`), and `terminate()` then misses one. A fork that throws
  in the constructor shifts the children after it (`:277`), so that an answer
  clears another child's busy flag. The fallback on `oomCount` (`:1057`) is
  tested before any exit can have been counted and is never taken. An
  answer that is ignored does not clear its child's busy flag, so the slot of a
  live child whose task was rejected stays busy for ever.
* The stale flag of `spring_stale` does bounded harm: a fan-out is cut short
  without its own timeout only in the first pass, and only after an attempt that
  did time out (`FalseTimeoutsFollowATimeout`); a rerun resets the flag.
* What `incremental_deletion` shows happens only where a "deleted" range of the
  diff, one that no added line follows, meets the entry point
  (`GivenUpAreTouched`).
* AST cache (`loose`): a run that dies between the JSON of an edited file and
  the list leaves the digest of the old text beside the new tree; if the file
  then returns to its old text, it is given the newer tree. `HitsAreExact`
  excludes exactly those files.
* Incremental, discovery: `discoverBaselineRun` (`incremental-manager.ts:1216`)
  asks only whether `dataflow.db` and `entrypoints.json` exist, and both do
  before the analysis begins (`starter.ts:151`, `incremental-manager.ts:293`). A
  baseline that dies during its analysis in `artifacts/<project>`, or is still at
  it, is therefore named as `latestBase` by the next process. Its database is
  empty, no entry point is impacted, and a head run can complete without an
  analysis (`misled`). `UnfinishedBaseIsUnknown` says that this does not happen
  elsewhere; `SuccessIsExact` leaves such runs out.
* Incremental, lost update: a run that read the index before the baseline named
  itself writes `latestBase` away. In `artifacts/<project>` the base is discovered
  again at the next plan (`PartialRunsKnowTheBase`). Elsewhere the next run falls
  back to the full head, and a run that has selected entry points with the base
  in hand and completes without it publishes the selection alone (`misled`).
* Incremental, reports: an analysis without findings writes no report
  (`incremental-manager.ts:1116`), so an older report in the directory takes its
  place, and the merge appends without looking for duplicates
  (`incremental-findings.ts:285`). Hence a run that finds nothing, or is completed
  without an analysis, over a directory that an earlier start has used may list a
  finding twice: r1 deletes an entry point, runs before there is a base, and is
  started again with one. `SuccessIsExact` promises each finding once for the
  other runs, and `RerunIsFresh` excludes runs that find nothing.
* Incremental, sight: `SuccessIsExact` is stated for edits whose effects the
  ranges and the recorded call sites can show (`Seen`); an entry point that an
  annotation elsewhere turns on, or code reached by a call the database has not
  recorded, is beyond the plan's sight.
* Call summaries: an execution that throws leaves its frame, and the calls
  around it pop frames of others. The result is that a summary may be disabled
  needlessly, or that a call whose own execution was disturbed by an exception
  or an import is recorded; `SummariesAreClean` excludes the latter.

## 6. Proofs

Checked by TLAPS for all values of the constants that the named assumptions of
the modules allow.

* `ParserPoolProofs`. `TypeCorrect`, `AccountingHolds` (`TaskAccounting`) and
  `ImplementsParseJob` (`JobSafety`) rest on one inductive invariant, the type
  invariant with the accounting: handlers move a task between the queue, the
  pending set and the settled ones, and the step proofs go handler by handler
  through lemmas on `ProcessNextTask` and `CreateWorker`. `NoWakeupIsLost`
  needs `Undisturbed`: while no child has died, no exit or error event exists
  and slots change only through messages. `NoTaskTwice` (`OneToOne`),
  `PendingTasksAreServed` and `NoChildSurvives` rest on `CalmInv`: in a calm
  pool every child that is up is in the slot its listeners name, its channel
  holds at most the task its slot is busy with, and what is pending is held or
  about to be rejected. `NeverWaitsForNothing` (`NeverStuck`) joins the two
  (`WorkInv`) and adds `AtWork`: before the first death every busy slot has its
  task in a channel, so that the wait is for an answer. `ForksMatchDeaths`
  counts: a calm pool has forked one child for each exit it has handled.
  `QueuesAreStranded` is the other side of `NeverStuck`, from the accounting
  alone: an exit that rejects tasks leaves the queue as it is for good.
* `SpringSchedulerProofs`. `TypeCorrect`; `AnalysisIsInTime`
  (`AnalysisStopsInTime`) by the invariant that an attempt's deadline never
  exceeds the analysis deadline and the clock is read before it is passed;
  `SharesAreKept` (`FairShare`) by an invariant that also bounds the clock while
  an attempt runs; `TimedOutAreRerun` (`TimeoutsAreRerun`) by one that finds
  what is owed in the queue, at or after the next rerun. Among its lemmas on the
  division of time is `ShareIsKept`: after an attempt of at most its allocation,
  the others still have their share. The division by a variable is what the
  solver does not see by itself. `StaleFlagIsContained` follows the global flag
  from attempt to attempt (`FlagInv`): between attempts it is up only if a
  timed-out attempt is queued. `RerunsKeepOrder` says that the queue is a
  strictly ascending selection of the worklist: nothing is rerun twice.
* `JavaSchedulerProofs`. `TypeCorrect`; `CutByOwnDeadline` (`NoFalseTimeout`) by
  the invariant that latch and flag are down while an attempt runs and agree
  with the cut when it has ended; `CutAreRerun` (`NothingIsForgotten`) and
  `RerunsKeepOrder` by the order of the queue: everything in it lies before the
  attempt at hand, so it holds nothing twice and taking one out of `left` takes
  out no other; `SharesAreKept` and `RerunsHaveTheirCap` from one pair of
  predicates, `HasEnough` between attempts and `LeavesEnough` during one;
  `AnalysisIsInTime` as for Spring, over the reruns as well.
* Ranks, in these three modules. `EveryStepAdvances` (`Advances`) says that each
  step of the specification lowers the rank, and `RankIsNatural` that it is a
  tuple of natural numbers. That no sequence of such tuples goes down for ever is
  a fact about the order and no claim about the code; it is kept as a lemma
  (`RanksDoNotDescendForever`) that rests on the library's theorem on
  lexicographic products. Together: the pool takes finitely many steps however
  events interleave, and the schedulers' loops end. The pool needs the bounds on
  deaths and failed forks for it, the schedulers that an instruction takes a
  tick. With `NeverWaitsForNothing` this is the part of
  `SettlesUnlessQueuedAfterDeath` that is not about fairness; what is left to
  TLC is that an enabled step is taken.
* `FindingsCheckpointProofs`. `TypeCorrect`; `CheckpointIsWhole` (`NeverTorn`)
  and `ImplementsDocument` (`Atomicity`) under `~ShortWrites`. The invariant
  says that between fsync and rename the temporary file is whole on disk, and
  the checkpoint, in the cache and on the disk, is always whole and synchronized.
  `SkipsAreSettled` and `NothingIsLeft` follow the writer's flags and
  descriptor through every failure; `StatusTellsTheTruth` needs `~ShortWrites`.
* `EntryPointMemoryProofs`. `TypeCorrect` and a theorem for each property of
  `memory_isolated`. `OriginalsStayPristine` and `WritesAreOwn` need a
  partition: there is an owner function that gives every object made after
  preprocessing to one entry point, and whatever refers to an object (what is
  held, the three tables, symbol, scope, queued arguments) does so on behalf of
  its owner. An original belongs to nobody, so no step can write to one. The
  function is extended at each copy, so the step proofs carry it as a witness.
  `RerunsReadAfresh` adds that a rerun is always under an overlay;
  `BaseOnlyCopies` that an overlay is bound by attempts only.
  `CopiesStayRegistered` says that what is marked as copied is in a table, and
  `UnwrittenShowsOriginal` that an object without an author is what
  preprocessing left, in every language and through copies of copies: authors
  are the whole difference, which is what makes `WritesAreOwn` a statement about
  contents. Its lemmas say for each kind of step what it does to one cell of the
  heap.
* `IncrementalProofs`. `PlanIsExact` and `ShortPlanIsExact` are about the plan
  alone: for every edit that is `Seen` and every base, the list that the merge
  makes of the base's findings and those of the selected entry points is what a
  full analysis gives, each finding once; for a plan that selects nothing, also
  as a set when an earlier report of that head is appended. Over the runs there
  is one invariant, `IInv`. Of the base it says that whatever knows it, the
  index, a plan or what a run read, has files to rely on (`Known`, `Usable`) and
  that a run in `artifacts/<project>` that counts on it has it (`Counts`). Of each
  run (`Progress`) it says what it has picked (`Picking`), what an analysis that
  found something has put into its reports (`Found`), what they hold before the
  base has a report (`Early`) and in a first start (`Fresh`); and, for an edit
  that is `Seen` and a run that was not misled, that no report says more than the
  head has (`Sound`) and that what is about to be published, and is published,
  says it all (`Exact`). `UnfinishedStaysUnknown`,
  `DiscoveryRestoresTheBase`, `MergeIsExact` (`SuccessIsExact`) and
  `RerunReplaces` (`RerunIsFresh`) follow, for any number of processes, starts
  and deaths. They use that the findings of an entry point that the edit does not
  reach are the same in base and head, and lemmas on sums of bags of disjoint
  sets. `GivenUpOnlyWhereTouched` bounds what `incremental_deletion` finds.
* `CallSummaryProofs`. The stack is a properly nested word of stages and calls,
  a call belongs to the stage around it, the store a stage set aside is that of
  its outer stage, and the undisturbed calls are the innermost ones and have the
  topmost frames, in order, with what throws have left below (`FramesStayTheirs`).
  `SummariesClean` and `StagesSeparate` follow.
* `AstCacheProofs`. Entries and JSON files agree but for loose files, on disk
  (`ListStaysHonest`) and as loaded, and a save's progress says what its file
  holds; `HitsExact` and `CleanRunIsUsable` (`UsableNextTime`) follow.

Some of these state what no run lists: `NoLostWakeup` (of which
`pool_crash` checks the consequence `NeverStuck`), `OneForkPerDeath`, `ExitStrandsTheQueue`, `Advances`,
`FalseTimeoutsFollowATimeout`, `RerunsAreInOrder`, Java's `AnalysisStopsInTime`,
`UnwrittenIsOriginal` and `GivenUpAreTouched`. TLC agrees with
each of them on the instances of the runs.

Only model-checked: liveness (`SettlesUnlessQueuedAfterDeath`, `Terminates` of
both schedulers), which the proof system cannot reach, and of course what the
violation runs refute. What a recursive definition computes for every input
cannot be proved either; the only one, `MarkModifiedPairs` of `UnifiedDiff`, is
compared with `Ranges` on bounded inputs.

## 7. What is not modelled, and why

* Pool: exit code 0, a worker script that is not found, statistics, and the
  path for fewer than ten files, which has no concurrency. The retry on the main
  thread (`parser.ts:1059`, `1096`) is taken to return; if it threw, `Promise.all`
  would reject and `cleanupWorkerPool` (`1116`) be skipped.
* Schedulers: what bodies compute; pruning and marking are a choice. Call-site
  and method counters are cleared per attempt and read by the interpreter only.
* Checkpoint: how findings are reduced to plain values. The two callers give up
  the right to retry that the writer keeps (they set a flag before the call); a
  module that composes the writer with them is part of the plan.
* Memory: `delete`, `clear` and `getMap` of the overlay; a uuid that is computed
  anew; the direct references that the operands of expressions hold; the
  properties that a clone shares with its original (`misc_`, `rtype`, `fdata`),
  which are no members. Go keeps the global table in place of an overlay. The
  argument that Spring queues is over-approximated by any value held when the
  attempt ends. Whether the scan finds an object is decided before: nothing
  changes the original table while entry points are interpreted.
* A short write (`findings-checkpoint.ts:75` drops what `writeSync` reports) is
  in `FindingsCheckpoint` behind `ShortWrites`; with it `NeverTorn` is false,
  and the run and the theorems are about its absence.
* Call summaries: the session of the symbolic interpretation stage, which
  records and never replays; how keys are made of caller, callee and arguments;
  the counters that a replay adds to.
* Incremental: impact files given from outside, the plan given as a file, diffs
  of several files, and the line numbers of kept findings (`remapLine`). A
  baseline is always started with the same options over the same text: a base of
  another text in the same directory is another base. Head runs have report
  directories of their own and none in `artifacts/<project>`. A
  `findings-index.json` that does not match the report beside it is built anew
  when it is read (`incremental-findings.ts:341`); a torn one makes a run fail,
  as a torn report does, and the model has only the latter. Discovery reads the
  index and truncates it in one step, and the file of the database and its tables
  appear in one step. The operator removes a torn index only when nothing runs.
* AST cache: two runs at a time on one directory, which nothing in the code
  orders; hash collisions (a text stands for its digest). The parse itself is
  `ParserPool`.
* The hooks of the checkers around an attempt, the snapshot of path condition
  and call sites, and the edge buffer: one thread's straight-line code, left out
  of `EntryPointMemory` but for what outlives an attempt.
* The analyser cache, result manager, memory guard, LRU caches and dataflow
  database: collections and serialization of one thread.
* The interpreter, the language analysers, resolvers, parsers, checkers and
  output, which are most of the repository's lines: their state is the analysed
  program, their rules are data. The models take from them what crosses into the
  machinery: time, exceptions, answers, findings.
