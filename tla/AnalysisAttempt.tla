--------------------------- MODULE AnalysisAttempt ---------------------------
(***************************************************************************)
(* One attempt to analyse an overload of an entry point, as far as time    *)
(* cuts it short (java-analyzer.ts: shouldAbortExecutionForTimeout, the    *)
(* fan-out loop over the implementations of an interface method, and       *)
(* analyzer.ts: executeCall).  The loops that plan the attempts are        *)
(* JavaScheduler and SpringScheduler.                                      *)
(*                                                                         *)
(* An attempt has a fan-out of Implementations bodies to interpret.  The   *)
(* clock is read at the start of each instruction and not within it, so up *)
(* to MaxStep ticks pass between two readings.                             *)
(***************************************************************************)
EXTENDS DeadlinePlan, Integers

CONSTANTS
  Implementations,  \* bodies that the fan-out of an attempt interprets
  MaxStep           \* bound: ticks between two readings of the clock

ASSUME AttemptAssumption ==
  /\ Implementations \in Nat \ {0}
  /\ MaxStep \in Nat \ {0}

VARIABLES
  now,
  entryPointDeadline, \* state.entryPointDeadline, or NoDeadline
  timedOut,           \* state.entryPointTimeoutLatch.timedOut
  entryPointTimeout,  \* globalState.entryPointTimeout
  todo,               \* bodies of the fan-out not interpreted yet
  running             \* executeCall() of the attempt has not returned

attemptVars == <<now, entryPointDeadline, timedOut, entryPointTimeout, todo, running>>

NoDeadline == -1

\* The fan-out was left before its last body.
Cut == todo > 0

ShouldAbort == timedOut \/ now >= entryPointDeadline

\* An instruction of the current body, interpreted before the deadline.
Interpret ==
  /\ running
  /\ ~ShouldAbort
  /\ \E ticks \in 1 .. MaxStep : now' = now + ticks
  /\ UNCHANGED <<entryPointDeadline, timedOut, entryPointTimeout, todo, running>>

\* A reading of the clock at or after the deadline trips the latch, sets the
\* global flag, and every instruction returns at once.
AbortQuietly ==  \* mutant: the flag is not set
  /\ running
  /\ ShouldAbort
  /\ timedOut' = TRUE
  /\ running' = FALSE
  /\ UNCHANGED <<now, entryPointDeadline, entryPointTimeout, todo>>
Abort ==
  /\ running
  /\ ShouldAbort
  /\ timedOut' = TRUE
  /\ entryPointTimeout' = TRUE
  /\ running' = FALSE
  /\ UNCHANGED <<now, entryPointDeadline, todo>>

\* The current body returns.  The loop tests the global flag, not the latch,
\* before it goes on to the next body.
ReturnLate ==  \* mutant: off by one
  /\ running
  /\ todo' = todo - 1
  /\ running' = (todo' >= 0 /\ ~entryPointTimeout)
  /\ UNCHANGED <<now, entryPointDeadline, timedOut, entryPointTimeout>>
Return ==
  /\ running
  /\ todo' = todo - 1
  /\ running' = (todo' > 0 /\ ~entryPointTimeout)
  /\ UNCHANGED <<now, entryPointDeadline, timedOut, entryPointTimeout>>

\* A body throws: the attempt catches the exception and gives the rest up.
Throw ==
  /\ running
  /\ todo' = 0
  /\ running' = FALSE
  /\ UNCHANGED <<now, entryPointDeadline, timedOut, entryPointTimeout>>

AttemptStep == Interpret \/ Abort \/ Return \/ Throw

AttemptTypeOK ==
  /\ now \in Nat
  /\ entryPointDeadline \in Nat \cup {NoDeadline}
  /\ running => entryPointDeadline # NoDeadline
  /\ timedOut \in BOOLEAN
  /\ entryPointTimeout \in BOOLEAN
  /\ todo \in 0 .. Implementations
  /\ running \in BOOLEAN
  /\ running => todo > 0
=============================================================================
