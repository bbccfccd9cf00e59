--------------------------- MODULE SpringScheduler ---------------------------
(***************************************************************************)
(* How the Spring analyzer spends its time budget on the entry points      *)
(* (spring-analyzer.ts: symbolInterpret, spring-entrypoint-scheduler.ts    *)
(* and attempt-runner.ts): a worklist of overloads, each attempted once    *)
(* under a short cap, then the attempts that timed out once more.          *)
(***************************************************************************)
EXTENDS AnalysisAttempt, Sequences, Variant

CONSTANTS
  Overloads,                \* per entry point, how many overloads it has
  ScanBudgetMs,             \* what is left of scanTimeoutMs at the start
  FinalizationReserveMs,
  ExitReserveMs,
  EntryPointTimeoutMs,      \* the cap of a rerun
  EntryPointTimeoutQuickMs  \* the cap of a first attempt

ASSUME SpringAssumption ==
  /\ Overloads \in Seq(Nat)
  /\ ScanBudgetMs \in Nat
  /\ FinalizationReserveMs \in Nat
  /\ ExitReserveMs \in Nat
  /\ EntryPointTimeoutMs \in Nat
  /\ EntryPointTimeoutQuickMs \in Nat

VARIABLES
  pc,                 \* "build", "next", "attempt", "rerun", "reattempt",
                      \* "recover", "done" or "failed"
  entryPoint,         \* the entry point buildSpringConcreteWorklist is at
  worklist,           \* the attempts to make, as <<entry point, overload>>
  index,              \* attempts of the worklist dealt with
  timeoutEntryPoints, \* the attempts that timed out
  rerunIdx,           \* reruns dealt with
  attemptSnapshot,    \* entryPointTimeout before the rerun at hand
  configTimeoutMs,    \* Config.entryPointTimeoutMs
  aggressiveMode,     \* pruneInfoMap.aggressiveMode
  startedAt,          \* history: when the first attempt could start
  owed                \* history: attempts that timed out, not rerun yet

loopVars == <<worklist, index, timeoutEntryPoints, rerunIdx, attemptSnapshot,
              configTimeoutMs, aggressiveMode, startedAt, owed>>
vars     == <<pc, entryPoint, loopVars, attemptVars>>

deadlinePlan == Plan(0, ScanBudgetMs, FinalizationReserveMs, ExitReserveMs)

Attempts == (1 .. Len(Overloads)) \X Nat

Init ==
  /\ pc = "build"
  /\ entryPoint = 1
  /\ worklist = <<>>
  /\ index = 0
  /\ timeoutEntryPoints = <<>>
  /\ rerunIdx = 0
  /\ attemptSnapshot = FALSE
  /\ configTimeoutMs = EntryPointTimeoutQuickMs
  /\ aggressiveMode = FALSE
  /\ startedAt = 0
  /\ owed = {}
  /\ now = 0
  /\ entryPointDeadline = NoDeadline
  /\ timedOut = FALSE
  /\ entryPointTimeout = FALSE
  /\ todo = 0
  /\ running = FALSE

-----------------------------------------------------------------------------
(* buildSpringConcreteWorklist *)

\* The loop ends after the last entry point or at the analysis deadline.
BuildEnd ==
  /\ pc = "build"
  /\ entryPoint > Len(Overloads) \/ ~CanStartAnalysis(deadlinePlan, now)
  /\ pc' = "next"
  /\ startedAt' = now
  /\ UNCHANGED <<entryPoint, worklist, index, timeoutEntryPoints, rerunIdx,
                 attemptSnapshot, configTimeoutMs, aggressiveMode, owed, attemptVars>>

\* The entry point is of another kind, has no symbol or was seen before.
BuildSkip ==
  /\ pc = "build"
  /\ entryPoint <= Len(Overloads)
  /\ CanStartAnalysis(deadlinePlan, now)
  /\ entryPoint' = entryPoint + 1
  /\ UNCHANGED <<pc, loopVars, attemptVars>>

\* Marking the entry point and deciding about its pruning take time; then it
\* is pruned, or its overloads join the worklist, or the deadline is reached.
BuildAdd ==
  /\ pc = "build"
  /\ entryPoint <= Len(Overloads)
  /\ CanStartAnalysis(deadlinePlan, now)
  /\ \E ticks \in 0 .. MaxStep : now' = now + ticks
  /\ IF CanStartAnalysis(deadlinePlan, now')
     THEN /\ entryPoint' = entryPoint + 1
          /\ \/ UNCHANGED worklist
             \/ worklist' = worklist \o [o \in 1 .. Overloads[entryPoint] |-> <<entryPoint, o>>]
     ELSE UNCHANGED <<entryPoint, worklist>>
  /\ UNCHANGED <<pc, index, timeoutEntryPoints, rerunIdx, attemptSnapshot,
                 configTimeoutMs, aggressiveMode, startedAt, owed, entryPointDeadline,
                 timedOut, entryPointTimeout, todo, running>>

-----------------------------------------------------------------------------
(* runSpringConcreteWorklist, runAllocatedAttempt *)

\* What the attempt at hand may use.
FirstAllocation ==
  Allocation(deadlinePlan, now, Len(worklist) - index, EntryPointTimeoutQuickMs)

\* The attempt's deadline and latch are installed; the global flag is not.
StartAttempt ==
  /\ pc = "next"
  /\ index < Len(worklist)
  /\ FirstAllocation > 0
  /\ pc' = "attempt"
  /\ entryPointDeadline' = now + FirstAllocation
  /\ timedOut' = FALSE
  /\ todo' = Implementations
  /\ running' = TRUE
  /\ UNCHANGED <<entryPoint, loopVars, now, entryPointTimeout>>

\* No budget: the attempt is left out.
DenyAttemptAgain ==  \* mutant: the loop does not move on
  /\ pc = "next"
  /\ index < Len(worklist)
  /\ FirstAllocation = 0
  /\ UNCHANGED vars
DenyAttempt ==
  /\ pc = "next"
  /\ index < Len(worklist)
  /\ FirstAllocation = 0
  /\ index' = index + 1
  /\ UNCHANGED <<pc, entryPoint, worklist, timeoutEntryPoints, rerunIdx,
                 attemptSnapshot, configTimeoutMs, aggressiveMode, startedAt, owed,
                 attemptVars>>

\* The finally block of runAllocatedAttempt: a tripped latch queues the
\* attempt, and the state is what it was before.
RestoreForgetful(item) ==  \* mutant: a timeout is not queued
  /\ entryPointDeadline' = NoDeadline
  /\ timedOut' = FALSE
  /\ UNCHANGED timeoutEntryPoints
RestoreAttempt(item) ==
  /\ entryPointDeadline' = NoDeadline
  /\ timedOut' = FALSE
  /\ timeoutEntryPoints' =
       IF timedOut THEN Append(timeoutEntryPoints, item) ELSE timeoutEntryPoints

EndAttempt ==
  /\ pc = "attempt"
  /\ ~running
  /\ RestoreAttempt(worklist[index + 1])
  /\ index' = index + 1
  /\ pc' = "next"
  /\ UNCHANGED <<entryPoint, worklist, rerunIdx, attemptSnapshot, configTimeoutMs,
                 aggressiveMode, startedAt, owed, now, entryPointTimeout, todo, running>>

-----------------------------------------------------------------------------
(* The reruns *)

BeginReruns ==
  /\ pc = "next"
  /\ index = Len(worklist)
  /\ timeoutEntryPoints # <<>>
  /\ CanStartAnalysis(deadlinePlan, now)
  /\ pc' = "rerun"
  /\ aggressiveMode' = TRUE
  /\ UNCHANGED <<entryPoint, worklist, index, timeoutEntryPoints, rerunIdx,
                 attemptSnapshot, configTimeoutMs, startedAt, owed, attemptVars>>

RerunAllocation ==
  Allocation(deadlinePlan, now, Len(timeoutEntryPoints) - rerunIdx, EntryPointTimeoutMs)

\* allocateAttempt() of symbolInterpret: installs deadline and latch, and
\* resets the global flag that clearAttemptState() will put back.
StartRerun ==
  /\ pc = "rerun"
  /\ rerunIdx < Len(timeoutEntryPoints)
  /\ RerunAllocation > 0
  /\ pc' = "reattempt"
  /\ attemptSnapshot' = entryPointTimeout
  /\ configTimeoutMs' = RerunAllocation
  /\ entryPointDeadline' = now + RerunAllocation
  /\ timedOut' = FALSE
  /\ entryPointTimeout' = FALSE
  /\ todo' = Implementations
  /\ running' = TRUE
  /\ owed' = owed \ {timeoutEntryPoints[rerunIdx + 1]}
  /\ UNCHANGED <<entryPoint, worklist, index, timeoutEntryPoints, rerunIdx,
                 aggressiveMode, startedAt, now>>

DenyRerun ==
  /\ pc = "rerun"
  /\ rerunIdx < Len(timeoutEntryPoints)
  /\ RerunAllocation = 0
  /\ rerunIdx' = rerunIdx + 1
  /\ UNCHANGED <<pc, entryPoint, worklist, index, timeoutEntryPoints,
                 attemptSnapshot, configTimeoutMs, aggressiveMode, startedAt, owed,
                 attemptVars>>

\* clearAttemptState(): the state is what it was when the rerun was reached.
ClearAttemptState ==
  /\ entryPointDeadline' = NoDeadline
  /\ timedOut' = FALSE
  /\ entryPointTimeout' = attemptSnapshot

EndRerun ==
  /\ pc = "reattempt"
  /\ ~running
  /\ ClearAttemptState
  /\ rerunIdx' = rerunIdx + 1
  /\ pc' = "rerun"
  /\ UNCHANGED <<entryPoint, worklist, index, timeoutEntryPoints, attemptSnapshot,
                 configTimeoutMs, aggressiveMode, startedAt, owed, now, todo, running>>

\* Every path out of symbolInterpret restores the configuration.
RestoreConfig ==
  /\ configTimeoutMs' = EntryPointTimeoutMs
  /\ aggressiveMode' = FALSE

\* Nothing timed out, no time is left for reruns, or all were dealt with.
Finish ==
  /\ \/ /\ pc = "next"
        /\ index = Len(worklist)
        /\ timeoutEntryPoints = <<>> \/ ~CanStartAnalysis(deadlinePlan, now)
     \/ /\ pc = "rerun"
        /\ rerunIdx = Len(timeoutEntryPoints)
  /\ pc' = "done"
  /\ timeoutEntryPoints' = <<>>
  /\ RestoreConfig
  /\ UNCHANGED <<entryPoint, worklist, index, rerunIdx, attemptSnapshot, startedAt, owed,
                 attemptVars>>

-----------------------------------------------------------------------------
(* Errors that no attempt catches *)

\* A checker's handler throws before or after the analysis of an attempt.
ErrorInAttempt ==
  /\ pc = "attempt"
  /\ ~running \/ todo = Implementations
  /\ RestoreAttempt(worklist[index + 1])
  /\ running' = FALSE
  /\ pc' = "recover"
  /\ UNCHANGED <<entryPoint, worklist, index, rerunIdx, attemptSnapshot,
                 configTimeoutMs, aggressiveMode, startedAt, owed, now,
                 entryPointTimeout, todo>>

ErrorInRerun ==
  /\ pc = "reattempt"
  /\ ~running \/ todo = Implementations
  /\ ClearAttemptState
  /\ running' = FALSE
  /\ pc' = "recover"
  /\ RestoreConfig
  /\ UNCHANGED <<entryPoint, worklist, index, timeoutEntryPoints, rerunIdx,
                 attemptSnapshot, startedAt, owed, now, todo>>

\* The catch block: one attempt to persist the findings, whatever becomes of
\* it, and the error is thrown on.
Recover ==
  /\ pc = "recover"
  /\ pc' = "failed"
  /\ RestoreConfig
  /\ UNCHANGED <<entryPoint, worklist, index, timeoutEntryPoints, rerunIdx,
                 attemptSnapshot, startedAt, owed, attemptVars>>

-----------------------------------------------------------------------------
Execute ==
  /\ pc \in {"attempt", "reattempt"}
  /\ AttemptStep
  /\ owed' = IF pc = "attempt" /\ timedOut' THEN owed \cup {worklist[index + 1]} ELSE owed
  /\ UNCHANGED <<pc, entryPoint, worklist, index, timeoutEntryPoints, rerunIdx,
                 attemptSnapshot, configTimeoutMs, aggressiveMode, startedAt>>

Next ==
  \/ BuildEnd \/ BuildSkip \/ BuildAdd
  \/ StartAttempt \/ DenyAttempt \/ EndAttempt
  \/ BeginReruns \/ StartRerun \/ DenyRerun \/ EndRerun
  \/ Finish
  \/ ErrorInAttempt \/ ErrorInRerun \/ Recover
  \/ Execute

Spec == Init /\ [][Next]_vars

\* The analysis is one thread that nothing blocks: it takes a step while it
\* has one to take.  No error is ever bound to happen.
FairSpec == Spec /\ WF_vars(Next /\ pc' # "recover")

-----------------------------------------------------------------------------
(* Properties *)

\* Attempts by entry point, and by overload within it.
Before(a, b) == a[1] < b[1] \/ (a[1] = b[1] /\ a[2] < b[2])

TypeOK ==
  /\ AttemptTypeOK
  /\ pc \in {"build", "next", "attempt", "rerun", "reattempt", "recover", "done", "failed"}
  /\ entryPoint \in 1 .. Len(Overloads) + 1
  /\ worklist \in Seq(Attempts)
  /\ index \in 0 .. Len(worklist)
  /\ pc = "attempt" => index < Len(worklist)
  /\ timeoutEntryPoints \in Seq(Attempts)
  /\ pc = "build" => index = 0
  /\ rerunIdx \in Nat
  /\ pc \in {"build", "next", "attempt"} => rerunIdx = 0
  /\ pc = "rerun" => rerunIdx <= Len(timeoutEntryPoints)
  /\ pc = "reattempt" => rerunIdx < Len(timeoutEntryPoints)
  /\ attemptSnapshot \in BOOLEAN
  /\ configTimeoutMs \in Nat
  /\ aggressiveMode \in BOOLEAN
  /\ startedAt \in Nat
  /\ owed \subseteq Attempts

\* The analysis stops in time: whatever the bodies do, and on every path, the
\* clock passes the analysis deadline by less than one step, so a checkpoint
\* is attempted before the finalization deadline.
AnalysisStopsInTime ==
  /\ now < deadlinePlan.analysis + MaxStep
  /\ MaxStep <= deadlinePlan.finalization - deadlinePlan.analysis =>
       CanFinalize(deadlinePlan, now)

\* What each item of the worklist was promised when the first one started.
Share == Remaining(deadlinePlan, startedAt) \div Len(worklist)

\* No attempt uses up the time of a later one: when an item is reached, each
\* of the remaining ones still has its share, but for the MaxStep - 1 ticks
\* by which each earlier attempt may miss its deadline.
FairShare ==
  pc = "next" /\ index < Len(worklist) =>
    Remaining(deadlinePlan, now) + index * (MaxStep - 1) >= (Len(worklist) - index) * Share

\* An attempt whose latch was tripped is attempted once more, in whatever
\* order attempts start, fail and time out, unless the time has run out.
TimeoutsAreRerun ==
  pc = "done" /\ CanStartAnalysis(deadlinePlan, now) /\ EntryPointTimeoutMs > 0 =>
    owed = {}

\* An attempt leaves its fan-out early only when its own deadline has passed
\* ("each attempt allocates and restores its execution state on its own").
NoFalseTimeout ==
  pc \in {"attempt", "reattempt"} /\ ~running /\ Cut => timedOut

\* How far that fails: the stale flag of an earlier timeout cuts first attempts
\* short and no others.  Before the first timeout, and in every rerun, whatever
\* is cut short has passed the deadline that it was given itself.
FalseTimeoutsFollowATimeout ==
  pc \in {"attempt", "reattempt"} /\ ~running /\ Cut =>
    \/ timedOut /\ now >= entryPointDeadline
    \/ pc = "attempt" /\ timeoutEntryPoints # <<>>

\* Each attempt is queued for one rerun at most, in the order of the worklist.
RerunsAreInOrder ==
  \A i, j \in DOMAIN timeoutEntryPoints :
    i < j => Before(timeoutEntryPoints[i], timeoutEntryPoints[j])

\* symbolInterpret ends, however long the bodies would go on.
Terminates == <>(pc \in {"done", "failed"})

\* What is left to do, in the order in which it shrinks: the phases ahead, the
\* items of the phase, the start and the end of the attempt at hand, the bodies
\* of its fan-out, and the time.
Phase ==
  CASE pc = "build"                  -> 4
    [] pc \in {"next", "attempt"}    -> 3
    [] pc \in {"rerun", "reattempt"} -> 2
    [] pc = "recover"                -> 1
    [] OTHER                         -> 0

ItemsLeft ==
  CASE pc = "build"                  -> Len(Overloads) + 1 - entryPoint
    [] pc \in {"next", "attempt"}    -> Len(worklist) - index
    [] pc \in {"rerun", "reattempt"} -> Len(timeoutEntryPoints) - rerunIdx
    [] OTHER                         -> 0

Rank ==
  <<Phase,
    ItemsLeft,
    IF pc \in {"next", "rerun"} THEN 1 ELSE 0,
    IF running THEN 1 ELSE 0,
    todo,
    Remaining(deadlinePlan, now)>>

\* Every step lowers the rank, whatever the code under analysis does and
\* whichever attempts fail: no loop of the scheduler can go round for ever.
Advances == [][Lower(Rank', Rank)]_vars
=============================================================================
