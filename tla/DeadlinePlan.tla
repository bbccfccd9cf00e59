---------------------------- MODULE DeadlinePlan ----------------------------
(***************************************************************************)
(* The time budget of an analysis                                          *)
(* (src/engine/analyzer/common/entrypoint/deadline-scheduler.ts).          *)
(*                                                                         *)
(* Time is counted in ticks of the clock: every reading is a natural       *)
(* number.  JavaScript divides exactly, and a deadline now + x, with x a   *)
(* fraction, is reached by the first reading that is at least now + x: the *)
(* same readings reach the deadline now + ceil(x).  So the model rounds an *)
(* allocation up and loses nothing.                                        *)
(***************************************************************************)
EXTENDS Naturals

Least(a, b) == IF a <= b THEN a ELSE b

\* Math.max(0, a - b).
Monus(a, b) == IF a >= b THEN a - b ELSE 0

CeilDiv(a, n) == (a + (n - 1)) \div n

\* createDeadlinePlan() at time `now`: what is left for the analysis once the
\* exit and the finalization have their reserves, as far as there is time.
Plan(now, outer, finalizationMs, exitMs) ==
  LET available    == Monus(outer, now)
      exit         == Least(exitMs, available)
      finalization == Least(finalizationMs, available - exit)
  IN [outer        |-> outer,
      finalization |-> outer - exit,
      analysis     |-> outer - exit - finalization]

CanStartAnalysis(plan, now) == now < plan.analysis

CanFinalize(plan, now) == now < plan.finalization

Remaining(plan, now) == Monus(plan.analysis, now)

\* allocateAttempt(): what the next of `attempts` attempts may use, at most
\* its fair share of the remaining time and the cap; 0 stands for null.
AllocationUnclipped(plan, now, attempts, cap) ==  \* mutant: only the cap counts
  IF attempts = 0 \/ now >= plan.analysis THEN 0 ELSE cap
AllocationGreedy(plan, now, attempts, cap) ==     \* mutant: no fair share
  IF attempts = 0 \/ now >= plan.analysis THEN 0
  ELSE Least(cap, Remaining(plan, now))
Allocation(plan, now, attempts, cap) ==
  IF attempts = 0 \/ now >= plan.analysis THEN 0
  ELSE Least(cap, Least(CeilDiv(Remaining(plan, now), attempts), Remaining(plan, now)))
=============================================================================
