---------------------------- MODULE JavaScheduler ----------------------------
(***************************************************************************)
(* How the Java analyzer spends its time budget on the entry points        *)
(* (java-analyzer.ts: symbolInterpret): a first pass over the entry points *)
(* and their overloads under a short cap, then one aggressive rerun of the *)
(* attempts that timed out.  Unlike the Spring analyzer it shares the time *)
(* only among the overloads of one entry point, and it persists the        *)
(* findings on every way out.                                              *)
(***************************************************************************)
EXTENDS AnalysisAttempt, Sequences, Variant

CONSTANTS
  Overloads,                \* per entry point, how many overloads it has
  ScanBudgetMs,             \* what is left of scanTimeoutMs at the start
  FinalizationReserveMs,
  ExitReserveMs,
  EntryPointTimeoutMs,      \* the largest cap of a rerun
  EntryPointTimeoutQuickMs  \* the cap of a first attempt

ASSUME JavaAssumption ==
  /\ Overloads \in Seq(Nat)
  /\ ScanBudgetMs \in Nat
  /\ FinalizationReserveMs \in Nat
  /\ ExitReserveMs \in Nat
  /\ EntryPointTimeoutMs \in Nat
  /\ EntryPointTimeoutQuickMs \in Nat

VARIABLES
  pc,                 \* "entry", "overload", "attempt", "rerun", "reattempt",
                      \* "finalize", "recover", "done" or "failed"
  entryPoint,         \* the entry point the first pass is at
  overloadIdx,        \* its overloads dealt with
  timeoutEntryPoints, \* the attempts that timed out
  rerunIdx,           \* reruns dealt with
  configTimeoutMs,    \* Config.entryPointTimeoutMs
  aggressiveMode,     \* pruneInfoMap.aggressiveMode
  checkpoints,        \* how often the findings checkpoint was attempted
  openedAt,           \* history: when the overloads at hand could start
  left                \* history: attempts cut short, not rerun yet

loopVars == <<entryPoint, overloadIdx, timeoutEntryPoints, rerunIdx,
              configTimeoutMs, aggressiveMode, checkpoints, openedAt, left>>
vars     == <<pc, loopVars, attemptVars>>

deadlinePlan == Plan(0, ScanBudgetMs, FinalizationReserveMs, ExitReserveMs)

Attempts == (1 .. Len(Overloads)) \X Nat

Init ==
  /\ pc = "entry"
  /\ entryPoint = 1
  /\ overloadIdx = 0
  /\ timeoutEntryPoints = <<>>
  /\ rerunIdx = 0
  /\ configTimeoutMs = EntryPointTimeoutQuickMs
  /\ aggressiveMode = FALSE
  /\ checkpoints = 0
  /\ openedAt = 0
  /\ left = {}
  /\ now = 0
  /\ entryPointDeadline = NoDeadline
  /\ timedOut = FALSE
  /\ entryPointTimeout = FALSE
  /\ todo = 0
  /\ running = FALSE

-----------------------------------------------------------------------------
(* Steps that both passes are made of *)

\* The state an attempt starts in, for what the plan allots to it.
InstallKeepingFlag(allocation) ==  \* mutant: the flag of the last attempt stays
  /\ entryPointDeadline' = now + allocation
  /\ timedOut' = FALSE
  /\ todo' = Implementations
  /\ running' = TRUE
  /\ UNCHANGED <<now, entryPointTimeout>>
Install(allocation) ==
  /\ entryPointDeadline' = now + allocation
  /\ timedOut' = FALSE
  /\ entryPointTimeout' = FALSE
  /\ todo' = Implementations
  /\ running' = TRUE
  /\ UNCHANGED now

\* The finally blocks at the end of an entry point and of a rerun.
ClearAttemptState ==
  /\ entryPointDeadline' = NoDeadline
  /\ timedOut' = FALSE
  /\ entryPointTimeout' = FALSE
  /\ running' = FALSE
  /\ UNCHANGED <<now, todo>>

-----------------------------------------------------------------------------
(* The first pass *)

\* No time is left, or the entry point is of another kind, was seen before,
\* is pruned or has no overload.
SkipEntryPoint ==
  /\ pc = "entry"
  /\ entryPoint <= Len(Overloads)
  /\ entryPoint' = entryPoint + 1
  /\ ClearAttemptState
  /\ UNCHANGED <<pc, overloadIdx, timeoutEntryPoints, rerunIdx, configTimeoutMs,
                 aggressiveMode, checkpoints, openedAt, left>>

\* Copying the symbols, marking and pruning take time.
OpenEntryPoint ==
  /\ pc = "entry"
  /\ entryPoint <= Len(Overloads)
  /\ CanStartAnalysis(deadlinePlan, now)
  /\ \E ticks \in 0 .. MaxStep : now' = now + ticks
  /\ openedAt' = now'
  /\ overloadIdx' = 0
  /\ pc' = "overload"
  /\ UNCHANGED <<entryPoint, timeoutEntryPoints, rerunIdx, configTimeoutMs,
                 aggressiveMode, checkpoints, left, entryPointDeadline, timedOut,
                 entryPointTimeout, todo, running>>

FirstAllocation ==
  Allocation(deadlinePlan, now, Overloads[entryPoint] - overloadIdx, configTimeoutMs)

StartAttempt ==
  /\ pc = "overload"
  /\ overloadIdx < Overloads[entryPoint]
  /\ FirstAllocation > 0
  /\ Install(FirstAllocation)
  /\ pc' = "attempt"
  /\ UNCHANGED loopVars

\* A timeout, which the loop reads from the global flag, queues the attempt.
EndAttempt ==
  /\ pc = "attempt"
  /\ ~running
  /\ timeoutEntryPoints' =
       IF entryPointTimeout
       THEN Append(timeoutEntryPoints, <<entryPoint, overloadIdx + 1>>)
       ELSE timeoutEntryPoints
  /\ overloadIdx' = overloadIdx + 1
  /\ pc' = "overload"
  /\ UNCHANGED <<entryPoint, rerunIdx, configTimeoutMs, aggressiveMode, checkpoints,
                 openedAt, left, attemptVars>>

\* All overloads were attempted, or the next one gets no budget.
CloseEntryPoint ==
  /\ pc = "overload"
  /\ overloadIdx = Overloads[entryPoint] \/ FirstAllocation = 0
  /\ entryPoint' = entryPoint + 1
  /\ ClearAttemptState
  /\ pc' = "entry"
  /\ UNCHANGED <<overloadIdx, timeoutEntryPoints, rerunIdx, configTimeoutMs,
                 aggressiveMode, checkpoints, openedAt, left>>

-----------------------------------------------------------------------------
(* The aggressive rerun *)

\* The cap of every rerun: its share of the time left when they begin.
RerunCapUnshared(n) == Least(Remaining(deadlinePlan, now), EntryPointTimeoutMs)  \* mutant
RerunCap(n) == Least(Remaining(deadlinePlan, now) \div n, EntryPointTimeoutMs)

BeginReruns ==
  /\ pc = "entry"
  /\ entryPoint > Len(Overloads)
  /\ timeoutEntryPoints # <<>>
  /\ Remaining(deadlinePlan, now) > 0
  /\ configTimeoutMs' = RerunCap(Len(timeoutEntryPoints))
  /\ aggressiveMode' = TRUE
  /\ openedAt' = now
  /\ pc' = "rerun"
  /\ UNCHANGED <<entryPoint, overloadIdx, timeoutEntryPoints, rerunIdx, checkpoints,
                 left, attemptVars>>

RerunAllocation ==
  Allocation(deadlinePlan, now, Len(timeoutEntryPoints) - rerunIdx, configTimeoutMs)

StartRerun ==
  /\ pc = "rerun"
  /\ rerunIdx < Len(timeoutEntryPoints)
  /\ RerunAllocation > 0
  /\ Install(RerunAllocation)
  /\ left' = left \ {timeoutEntryPoints[rerunIdx + 1]}
  /\ pc' = "reattempt"
  /\ UNCHANGED <<entryPoint, overloadIdx, timeoutEntryPoints, rerunIdx,
                 configTimeoutMs, aggressiveMode, checkpoints, openedAt>>

DenyRerunAgain ==  \* mutant: the loop does not move on
  /\ pc = "rerun"
  /\ rerunIdx < Len(timeoutEntryPoints)
  /\ RerunAllocation = 0
  /\ UNCHANGED vars
DenyRerun ==
  /\ pc = "rerun"
  /\ rerunIdx < Len(timeoutEntryPoints)
  /\ RerunAllocation = 0
  /\ rerunIdx' = rerunIdx + 1
  /\ ClearAttemptState
  /\ UNCHANGED <<pc, entryPoint, overloadIdx, timeoutEntryPoints, configTimeoutMs,
                 aggressiveMode, checkpoints, openedAt, left>>

EndRerun ==
  /\ pc = "reattempt"
  /\ ~running
  /\ rerunIdx' = rerunIdx + 1
  /\ ClearAttemptState
  /\ pc' = "rerun"
  /\ UNCHANGED <<entryPoint, overloadIdx, timeoutEntryPoints, configTimeoutMs,
                 aggressiveMode, checkpoints, openedAt, left>>

\* The reruns are over, or there was nothing or no time to rerun.
EndReruns ==
  /\ \/ /\ pc = "rerun"
        /\ rerunIdx = Len(timeoutEntryPoints)
        /\ aggressiveMode' = FALSE
        /\ configTimeoutMs' = EntryPointTimeoutMs
     \/ /\ pc = "entry"
        /\ entryPoint > Len(Overloads)
        /\ timeoutEntryPoints = <<>> \/ Remaining(deadlinePlan, now) = 0
        /\ UNCHANGED <<aggressiveMode, configTimeoutMs>>
  /\ timeoutEntryPoints' = <<>>
  /\ pc' = "finalize"
  /\ UNCHANGED <<entryPoint, overloadIdx, rerunIdx, checkpoints, openedAt, left,
                 attemptVars>>

-----------------------------------------------------------------------------
(* The ways out *)

\* An error that no attempt catches: a checker's handler throws before or
\* after an attempt, or opening an entry point does.
SchedulingError ==
  /\ \/ pc \in {"entry", "overload"} /\ entryPoint <= Len(Overloads)
     \/ pc = "rerun" /\ rerunIdx < Len(timeoutEntryPoints)
     \/ pc \in {"attempt", "reattempt"} /\ ~running
  /\ ClearAttemptState
  /\ IF pc \in {"rerun", "reattempt"}
     THEN aggressiveMode' = FALSE /\ configTimeoutMs' = EntryPointTimeoutMs
     ELSE UNCHANGED <<aggressiveMode, configTimeoutMs>>
  /\ pc' = "recover"
  /\ UNCHANGED <<entryPoint, overloadIdx, timeoutEntryPoints, rerunIdx, checkpoints,
                 openedAt, left>>

\* persistMandatoryCheckpoint(), then the finally block of symbolInterpret.
\* Whether the findings were written or not, the analysis goes on.
Leave ==
  /\ pc \in {"finalize", "recover"}
  /\ checkpoints' = checkpoints + 1
  /\ configTimeoutMs' = EntryPointTimeoutMs
  /\ aggressiveMode' = FALSE
  /\ pc' = IF pc = "finalize" THEN "done" ELSE "failed"
  /\ UNCHANGED <<entryPoint, overloadIdx, timeoutEntryPoints, rerunIdx, openedAt,
                 left, attemptVars>>

-----------------------------------------------------------------------------
\* The history `left` gains what the fan-out loop of a first attempt leaves.
Execute ==
  /\ pc \in {"attempt", "reattempt"}
  /\ AttemptStep
  /\ left' = IF pc = "attempt" /\ ~running' /\ Cut'
             THEN left \cup {<<entryPoint, overloadIdx + 1>>} ELSE left
  /\ UNCHANGED <<pc, entryPoint, overloadIdx, timeoutEntryPoints, rerunIdx,
                 configTimeoutMs, aggressiveMode, checkpoints, openedAt>>

Next ==
  \/ SkipEntryPoint \/ OpenEntryPoint \/ CloseEntryPoint
  \/ StartAttempt \/ EndAttempt
  \/ BeginReruns \/ StartRerun \/ DenyRerun \/ EndRerun \/ EndReruns
  \/ SchedulingError \/ Leave
  \/ Execute

Spec == Init /\ [][Next]_vars

\* The analysis is one thread that nothing blocks: it takes a step while it
\* has one to take.  No error is ever bound to happen.
FairSpec == Spec /\ WF_vars(Next /\ pc' # "recover")

-----------------------------------------------------------------------------
(* Properties *)

\* Attempts by entry point, and by overload within it.
Before(a, b) == a[1] < b[1] \/ (a[1] = b[1] /\ a[2] < b[2])

TypeOK ==
  /\ AttemptTypeOK
  /\ pc \in {"entry", "overload", "attempt", "rerun", "reattempt", "finalize",
             "recover", "done", "failed"}
  /\ entryPoint \in 1 .. Len(Overloads) + 1
  /\ pc \in {"overload", "attempt"} => entryPoint <= Len(Overloads)
  /\ overloadIdx \in Nat
  /\ pc = "overload" => overloadIdx <= Overloads[entryPoint]
  /\ pc = "attempt" => overloadIdx < Overloads[entryPoint]
  /\ timeoutEntryPoints \in Seq(Attempts)
  /\ rerunIdx \in Nat
  /\ pc = "rerun" => rerunIdx <= Len(timeoutEntryPoints)
  /\ pc = "reattempt" => rerunIdx < Len(timeoutEntryPoints)
  /\ configTimeoutMs \in Nat
  /\ aggressiveMode \in BOOLEAN
  /\ checkpoints \in {0, 1}
  /\ openedAt \in Nat
  /\ left \subseteq Attempts

\* An attempt leaves its fan-out early only when its own deadline has passed:
\* the global flag never carries the timeout of one attempt over to another.
NoFalseTimeout ==
  pc \in {"attempt", "reattempt"} /\ ~running /\ Cut =>
    timedOut /\ now >= entryPointDeadline

\* "A timeout itself means that there may be paths not traversed": whatever
\* the first pass leaves unfinished is queued, and rerun while time is left.
\* A cap below one tick, when many attempts share little time, denies all.
NothingIsForgotten ==
  /\ pc \in {"entry", "overload"} =>
       left = {timeoutEntryPoints[i] : i \in DOMAIN timeoutEntryPoints}
  /\ pc = "rerun" /\ CanStartAnalysis(deadlinePlan, now) /\ configTimeoutMs > 0 =>
       left = {timeoutEntryPoints[i] : i \in rerunIdx + 1 .. Len(timeoutEntryPoints)}

\* No overload uses up the time of a later overload of its entry point.
FairShare ==
  LET n == Overloads[entryPoint]
  IN pc = "overload" /\ overloadIdx < n =>
       Remaining(deadlinePlan, now) + overloadIdx * (MaxStep - 1) >=
         (n - overloadIdx) * (Remaining(deadlinePlan, openedAt) \div n)

\* Every rerun gets the cap computed before the first one, but for the ticks
\* by which the reruns before it may miss their deadlines: no rerun lives at
\* the expense of a later one.
RerunsGetTheirShare ==
  pc = "rerun" /\ rerunIdx < Len(timeoutEntryPoints) =>
    RerunAllocation + rerunIdx * (MaxStep - 1) >= configTimeoutMs

\* Each attempt is queued for one rerun at most, in the order of the first pass.
RerunsAreInOrder ==
  \A i, j \in DOMAIN timeoutEntryPoints :
    i < j => Before(timeoutEntryPoints[i], timeoutEntryPoints[j])

\* symbolInterpret ends, however long the bodies would go on.
Terminates == <>(pc \in {"done", "failed"})

\* The analysis stops in time: whatever the bodies do, and on every path, the
\* clock passes the analysis deadline by less than one step, so that the
\* checkpoint of every way out is attempted before the finalization deadline.
AnalysisStopsInTime ==
  /\ now < deadlinePlan.analysis + MaxStep
  /\ MaxStep <= deadlinePlan.finalization - deadlinePlan.analysis =>
       CanFinalize(deadlinePlan, now)

\* What is left to do, in the order in which it shrinks: the phases ahead, the
\* entry points or reruns of the phase, the opening of an entry point and its
\* overloads, the start and the end of the attempt at hand, the bodies of its
\* fan-out, and the time.
Phase ==
  CASE pc \in {"entry", "overload", "attempt"} -> 3
    [] pc \in {"rerun", "reattempt"}           -> 2
    [] pc \in {"finalize", "recover"}          -> 1
    [] OTHER                                   -> 0

ItemsLeft ==
  CASE pc \in {"entry", "overload", "attempt"} -> Len(Overloads) + 1 - entryPoint
    [] pc \in {"rerun", "reattempt"}           -> Len(timeoutEntryPoints) - rerunIdx
    [] OTHER                                   -> 0

Rank ==
  <<Phase,
    ItemsLeft,
    IF pc = "entry" THEN 1 ELSE 0,
    IF pc \in {"overload", "attempt"} THEN Overloads[entryPoint] - overloadIdx ELSE 0,
    IF pc \in {"overload", "rerun"} THEN 1 ELSE 0,
    IF running THEN 1 ELSE 0,
    todo,
    Remaining(deadlinePlan, now)>>

\* Every step lowers the rank, whatever the code under analysis does and
\* whichever attempts fail: no loop of the scheduler can go round for ever.
Advances == [][Lower(Rank', Rank)]_vars
=============================================================================
